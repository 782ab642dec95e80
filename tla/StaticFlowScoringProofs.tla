----------------------- MODULE StaticFlowScoringProofs -----------------------
(***************************************************************************)
(* The score of a static flow is a closed form of the terms that match,    *)
(* and its signals account for it: proved for every list of terms, every   *)
(* target and all scores, caps and limits.  The sums are folds; they are   *)
(* reasoned about as numbers of points, n points above x for f[x] = n.     *)
(***************************************************************************)
EXTENDS StaticFlowScoring, ListLemmas

Points(f, S) == {xn \in S \X Nat : 1 <= xn[2] /\ xn[2] <= f[xn[1]]}

(* One element brings its own points. *)
LEMMA PointsOfOne ==
  ASSUME NEW D, NEW f \in [D -> Nat], NEW s \in SUBSET D, NEW x \in s,
         IsFiniteSet(Points(f, s \ {x}))
  PROVE  /\ IsFiniteSet(Points(f, s))
         /\ Cardinality(Points(f, s)) = f[x] + Cardinality(Points(f, s \ {x}))
<1> DEFINE rest == Points(f, s \ {x})
           own == {x} \X (1 .. f[x])
<1>1. f[x] \in Nat
  OBVIOUS
<1>2. Points(f, s) = rest \cup own
  <2>1. \A y, n : <<y, n>> \in Points(f, s) <=> y \in s /\ n \in Nat /\ 1 <= n /\ n <= f[y]
    BY DEF Points
  <2>2. \A y, n : <<y, n>> \in rest <=> y \in s /\ y # x /\ n \in Nat /\ 1 <= n /\ n <= f[y]
    BY DEF Points
  <2>3. \A y, n : <<y, n>> \in own <=> y = x /\ n \in Nat /\ 1 <= n /\ n <= f[x]
    BY <1>1
  <2>4. Points(f, s) \subseteq D \X Nat /\ rest \subseteq D \X Nat /\ own \subseteq D \X Nat
    BY <1>1 DEF Points
  <2> HIDE DEF rest, own
  <2>5. \A z \in D \X Nat : z \in Points(f, s) <=> z \in rest \cup own
    BY <2>1, <2>2, <2>3
  <2>6. QED
    BY <2>4, <2>5
<1>3. rest \cap own = {}
  BY DEF Points
<1>4. IsFiniteSet(own) /\ Cardinality(own) = f[x]
  <2>1. IsFiniteSet({x}) /\ Cardinality({x}) = 1
    BY FS_Singleton
  <2>2. IsFiniteSet(1 .. f[x]) /\ Cardinality(1 .. f[x]) = f[x]
    BY <1>1, FS_Interval
  <2>3. QED
    BY <1>1, <2>1, <2>2, FS_Product
<1> HIDE DEF own
<1>5. Cardinality({}) = 0 /\ Cardinality(rest) \in Nat
  BY FS_EmptySet, FS_CardinalityType
<1> HIDE DEF rest
<1>6. IsFiniteSet(rest)
  BY DEF rest
<1>7. /\ IsFiniteSet(rest \cup own)
      /\ Cardinality(rest \cup own) = Cardinality(rest) + Cardinality(own) - Cardinality({})
  BY <1>3, <1>4, <1>6, FS_Union
<1>8. QED
  BY <1>1, <1>2, <1>4, <1>5, <1>7 DEF rest

LEMMA PointsAreFinite ==
  ASSUME NEW D, IsFiniteSet(D), NEW f \in [D -> Nat]
  PROVE  /\ \A s \in SUBSET D : IsFiniteSet(Points(f, s)) /\ Cardinality(Points(f, s)) \in Nat
         /\ Points(f, {}) = {} /\ Cardinality(Points(f, {})) = 0
<1> DEFINE T == {n \in Nat : \A s \in SUBSET D : Cardinality(s) = n => IsFiniteSet(Points(f, s))}
<1>1. Points(f, {}) = {} /\ IsFiniteSet({}) /\ Cardinality({}) = 0
  BY FS_EmptySet DEF Points
<1>2. \A s \in SUBSET D : IsFiniteSet(s) /\ Cardinality(s) \in Nat
  BY FS_Subset, FS_CardinalityType
<1>3. 0 \in T
  BY <1>1, <1>2, FS_EmptySet
<1>4. ASSUME NEW n \in Nat, n \in T
      PROVE  n + 1 \in T
  <2> SUFFICES ASSUME NEW s \in SUBSET D, Cardinality(s) = n + 1
               PROVE  IsFiniteSet(Points(f, s))
    OBVIOUS
  <2>1. IsFiniteSet(s)
    BY <1>2
  <2>2. s # {}
    BY <1>1
  <2>3. PICK x \in s : TRUE
    BY <2>2
  <2>4. Cardinality(s \ {x}) = n /\ s \ {x} \in SUBSET D
    <3>1. Cardinality(s \ {x}) = Cardinality(s) - 1
      BY <2>1, FS_RemoveElement, Zenon
    <3>2. QED
      BY <3>1
  <2>5. IsFiniteSet(Points(f, s \ {x}))
    BY <1>4, <2>4
  <2>6. QED
    BY <2>5, PointsOfOne
<1> HIDE DEF T
<1>5. Nat \subseteq T
  BY <1>3, <1>4, Induction
<1>6. \A s \in SUBSET D : IsFiniteSet(Points(f, s))
  BY <1>2, <1>5 DEF T
<1>7. QED
  BY <1>1, <1>6, FS_CardinalityType

(* The fold of a function of naturals is the number of its points. *)
LEMMA TotalCountsPoints ==
  ASSUME NEW D, IsFiniteSet(D), NEW f \in [D -> Nat]
  PROVE  Total(f) = Cardinality(Points(f, D))
<1> DEFINE count == [s \in SUBSET D |-> Cardinality(Points(f, s))]
           Folds(g) == g = [s \in SUBSET D |->
                             IF s = {} THEN 0
                             ELSE LET x == CHOOSE x \in s : TRUE IN f[x] + g[s \ {x}]]
           iter == CHOOSE g : Folds(g)
           T == {n \in Nat : \A s \in SUBSET D : Cardinality(s) = n => iter[s] = count[s]}
<1>1. Total(f) = iter[D]
  BY DEF Total, FoldFunction, FoldFunctionOnSet, MapThenFoldSet
<1>2. \A s \in SUBSET D : IsFiniteSet(s) /\ Cardinality(s) \in Nat
  BY FS_Subset, FS_CardinalityType
<1>3. /\ count[{}] = 0
      /\ \A s \in SUBSET D : \A x \in s : count[s] = f[x] + count[s \ {x}]
  <2>1. \A s \in SUBSET D : IsFiniteSet(Points(f, s))
    BY PointsAreFinite
  <2>2. \A s \in SUBSET D : \A x \in s : s \ {x} \in SUBSET D
    OBVIOUS
  <2>3. \A s \in SUBSET D : \A x \in s :
          Cardinality(Points(f, s)) = f[x] + Cardinality(Points(f, s \ {x}))
    <3> TAKE s \in SUBSET D
    <3> TAKE x \in s
    <3>1. IsFiniteSet(Points(f, s \ {x}))
      BY <2>1, <2>2
    <3>2. QED
      BY <3>1, PointsOfOne
  <2>4. QED
    BY <2>2, <2>3, PointsAreFinite
<1>4. Folds(count)
  <2> DEFINE first(s) == CHOOSE x \in s : TRUE
  <2>1. \A s \in SUBSET D : s # {} => first(s) \in s
    OBVIOUS
  <2> HIDE DEF first
  <2>2. \A s \in SUBSET D :
          count[s] = IF s = {} THEN 0 ELSE f[first(s)] + count[s \ {first(s)}]
    BY <1>3, <2>1
  <2>3. count = [s \in SUBSET D |-> count[s]]
    OBVIOUS
  <2> HIDE DEF count
  <2>4. count = [s \in SUBSET D |->
                  IF s = {} THEN 0 ELSE f[first(s)] + count[s \ {first(s)}]]
    BY <2>2, <2>3, Zenon
  <2>5. QED
    BY <2>4 DEF first
<1> HIDE DEF count
<1>5. Folds(iter)
  <2> HIDE DEF Folds
  <2>1. QED
    BY <1>4
<1> HIDE DEF iter
<1>6. \A s \in SUBSET D :
        IF s = {} THEN iter[s] = 0
        ELSE \E x \in s : iter[s] = f[x] + iter[s \ {x}]
  BY <1>5
<1> HIDE DEF Folds
<1>7. 0 \in T
  BY <1>2, <1>3, <1>6, FS_EmptySet
<1>8. ASSUME NEW n \in Nat, n \in T
      PROVE  n + 1 \in T
  <2> SUFFICES ASSUME NEW s \in SUBSET D, Cardinality(s) = n + 1
               PROVE  iter[s] = count[s]
    OBVIOUS
  <2>1. IsFiniteSet(s) /\ s # {}
    BY <1>2, FS_EmptySet
  <2>2. PICK x \in s : iter[s] = f[x] + iter[s \ {x}]
    BY <1>6, <2>1
  <2>3. Cardinality(s \ {x}) = n /\ s \ {x} \in SUBSET D
    <3>1. Cardinality(s \ {x}) = Cardinality(s) - 1
      BY <2>1, FS_RemoveElement, Zenon
    <3>2. QED
      BY <3>1
  <2>4. iter[s \ {x}] = count[s \ {x}]
    BY <1>8, <2>3
  <2>5. QED
    BY <1>3, <2>2, <2>4
<1> HIDE DEF T
<1>9. Nat \subseteq T
  BY <1>7, <1>8, Induction
<1>10. iter[D] = count[D]
  BY <1>2, <1>9 DEF T
<1>11. QED
  BY <1>1, <1>10 DEF count

LEMMA TotalIsNatural ==
  ASSUME NEW D, IsFiniteSet(D), NEW f \in [D -> Nat]
  PROVE  /\ Total(f) \in Nat
         /\ (\A x \in D : f[x] = 0) => Total(f) = 0
         /\ \A x \in D : f[x] <= Total(f)
<1>1. /\ \A s \in SUBSET D : IsFiniteSet(Points(f, s)) /\ Cardinality(Points(f, s)) \in Nat
      /\ Cardinality({}) = 0
  BY PointsAreFinite, FS_EmptySet
<1>2. Total(f) = Cardinality(Points(f, D))
  BY TotalCountsPoints
<1>3. ASSUME \A x \in D : f[x] = 0
      PROVE  Points(f, D) = {}
  BY <1>3 DEF Points
<1>4. ASSUME NEW x \in D
      PROVE  f[x] <= Cardinality(Points(f, D))
  <2>1. D \ {x} \in SUBSET D
    OBVIOUS
  <2>2. Cardinality(Points(f, D)) = f[x] + Cardinality(Points(f, D \ {x}))
    BY <1>1, <2>1, PointsOfOne
  <2>3. QED
    BY <1>1, <2>1, <2>2
<1>5. QED
  BY <1>1, <1>2, <1>3, <1>4

(* Adding to one value adds to the total. *)
LEMMA TotalGrows ==
  ASSUME NEW D, IsFiniteSet(D), NEW f \in [D -> Nat], NEW x \in D, NEW gain \in Nat
  PROVE  Total([f EXCEPT ![x] = @ + gain]) = Total(f) + gain
<1> DEFINE g == [f EXCEPT ![x] = @ + gain]
           rest == D \ {x}
<1>1. g \in [D -> Nat] /\ g[x] = f[x] + gain /\ \A y \in rest : g[y] = f[y]
  OBVIOUS
<1>2. rest \in SUBSET D /\ f[x] \in Nat
  OBVIOUS
<1> HIDE DEF g
<1>3. Points(g, rest) = Points(f, rest)
  BY <1>1 DEF Points
<1>4. /\ IsFiniteSet(Points(f, rest)) /\ Cardinality(Points(f, rest)) \in Nat
      /\ IsFiniteSet(Points(g, rest))
  BY <1>2, <1>3, PointsAreFinite
<1>5. /\ Cardinality(Points(f, D)) = f[x] + Cardinality(Points(f, rest))
      /\ Cardinality(Points(g, D)) = g[x] + Cardinality(Points(g, rest))
  BY <1>1, <1>4, PointsOfOne
<1>6. Total(f) = Cardinality(Points(f, D)) /\ Total(g) = Cardinality(Points(g, D))
  BY <1>1, TotalCountsPoints
<1>7. QED
  BY <1>1, <1>2, <1>3, <1>4, <1>5, <1>6 DEF g

(* A list with one more number has a total that is greater by it. *)
LEMMA TotalOfLonger ==
  ASSUME NEW n \in Nat, NEW f \in [1 .. n -> Nat], NEW g \in [1 .. n + 1 -> Nat],
         \A i \in 1 .. n : g[i] = f[i]
  PROVE  Total(g) = Total(f) + g[n + 1]
<1>1. IsFiniteSet(1 .. n) /\ IsFiniteSet(1 .. n + 1) /\ n + 1 \in 1 .. n + 1
  BY FS_Interval
<1>2. (1 .. n + 1) \ {n + 1} = 1 .. n /\ g[n + 1] \in Nat
  OBVIOUS
<1>3. Points(g, 1 .. n) = Points(f, 1 .. n)
  BY DEF Points
<1>4. IsFiniteSet(Points(f, 1 .. n)) /\ Cardinality(Points(f, 1 .. n)) \in Nat
  BY <1>1, PointsAreFinite
<1>5. Cardinality(Points(g, 1 .. n + 1)) = g[n + 1] + Cardinality(Points(g, 1 .. n))
  BY <1>1, <1>2, <1>3, <1>4, PointsOfOne
<1>6. /\ Total(f) = Cardinality(Points(f, 1 .. n))
      /\ Total(g) = Cardinality(Points(g, 1 .. n + 1))
  BY <1>1, TotalCountsPoints
<1>7. QED
  BY <1>2, <1>3, <1>4, <1>5, <1>6
------------------------------------------------------------------------------
(* The source terms are the first spellings that survive the cut. *)
CutOff(list) ==
  {list[i] : i \in {i \in Firsts(list) :
                      Cardinality({j \in Firsts(list) : j < i}) < MaxSourceTerms}}

LEMMA SourceTermsAreDistinct ==
  ASSUME NEW list \in Seq(Terms)
  PROVE  /\ IsList(SourceTerms(list)) /\ AllDiffer(SourceTerms(list))
         /\ \A i \in DOMAIN SourceTerms(list) :
              SourceTerms(list)[i] \in Terms /\ Token[SourceTerms(list)[i].value] # NoToken
         /\ Elements(SourceTerms(list)) = CutOff(list)
<1> DEFINE P == Firsts(list)
           c == Cardinality(P)
           picked == Pick(list, P)
           n == IF c < MaxSourceTerms THEN c ELSE MaxSourceTerms
           Before(i) == Cardinality({j \in P : j < i})
<1>1. Len(list) \in Nat /\ DOMAIN list = 1 .. Len(list) /\ \A i \in 1 .. Len(list) : list[i] \in Terms
  BY LenProperties
<1>2. P \in SUBSET (1 .. Len(list)) /\ P \in SUBSET DOMAIN list
  BY <1>1 DEF Firsts, FirstOccurrences, Keys
<1>3. /\ \A i, j \in P : i < j => list[i] # list[j]
      /\ \A i \in P : Token[list[i].value] # NoToken
  <2>1. DOMAIN Keys(list) = 1 .. Len(list)
    BY <1>1 DEF Keys
  <2>2. \A i, j \in 1 .. Len(list) : list[i] = list[j] => Keys(list)[i] = Keys(list)[j]
    BY <1>1 DEF Keys
  <2>3. \A i, j \in P : i < j => Keys(list)[i] # Keys(list)[j]
    BY <1>1, <2>1 DEF Firsts, FirstOccurrences
  <2>4. \A i, j \in P : i < j => list[i] # list[j]
    BY <1>2, <2>2, <2>3
  <2>5. QED
    BY <2>4 DEF Firsts
<1> HIDE DEF P
<1>4. MaxSourceTerms \in Nat
  BY ScoringAssumption
<1>5. /\ c \in Nat
      /\ \E p \in [1 .. c -> P] :
           /\ \A i, j \in 1 .. c : i < j => p[i] < p[j]
           /\ \A q \in P : \E i \in 1 .. c : p[i] = q
           /\ Pick(list, P) = [i \in 1 .. c |-> list[p[i]]]
  <2>1. \A m \in Nat : \A Q \in SUBSET (1 .. m) :
          /\ Cardinality(Q) \in Nat
          /\ \E p \in [1 .. Cardinality(Q) -> Q] :
               /\ \A i, j \in 1 .. Cardinality(Q) : i < j => p[i] < p[j]
               /\ \A q \in Q : \E i \in 1 .. Cardinality(Q) : p[i] = q
               /\ Pick(list, Q) = [i \in 1 .. Cardinality(Q) |-> list[p[i]]]
    BY PickProperties, ZenonT(40)
  <2>2. QED
    BY <1>1, <1>2, <2>1
<1>6. PICK p \in [1 .. c -> P] :
        /\ \A i, j \in 1 .. c : i < j => p[i] < p[j]
        /\ \A q \in P : \E i \in 1 .. c : p[i] = q
        /\ picked = [i \in 1 .. c |-> list[p[i]]]
  BY <1>5
<1>7. picked \in [1 .. c -> Terms] /\ Len(picked) = c
  <2>1. picked \in [1 .. c -> Terms]
    BY <1>1, <1>2, <1>6
  <2>2. QED
    BY <1>5, <2>1, FunctionIsList
<1>8. n \in Nat /\ n <= c /\ n <= MaxSourceTerms /\ (n = c \/ n = MaxSourceTerms)
  BY <1>4, <1>5
<1>9. SourceTerms(list) = SubSeq(picked, 1, n)
  BY <1>7 DEF SourceTerms, Prefix, P
<1> HIDE DEF n, picked
<1>10. /\ SubSeq(picked, 1, n) \in Seq(Terms) /\ Len(SubSeq(picked, 1, n)) = n
       /\ \A i \in 1 .. n : SubSeq(picked, 1, n)[i] = picked[i]
  <2>1. \A i \in 1 .. n : picked[i] \in Terms
    <3>1. \A i \in 1 .. n : i \in 1 .. c
      BY <1>5, <1>8
    <3>2. \A i \in 1 .. c : picked[i] \in Terms
      BY <1>7
    <3>3. QED
      BY <3>1, <3>2
  <2>2. /\ SubSeq(picked, 1, n) \in Seq(Terms)
        /\ Len(SubSeq(picked, 1, n)) = IF 1 <= n THEN n - 1 + 1 ELSE 0
        /\ \A i \in 1 .. n - 1 + 1 : SubSeq(picked, 1, n)[i] = picked[1 + i - 1]
    BY <1>8, <2>1, SubSeqProperties
  <2>3. n - 1 + 1 = n /\ \A i \in 1 .. n : 1 + i - 1 = i
    BY <1>8
  <2>4. Len(SubSeq(picked, 1, n)) = n
    BY <1>8, <2>2
  <2>5. QED
    BY <2>2, <2>3, <2>4
<1> DEFINE ts == SourceTerms(list)
<1>11. /\ ts \in Seq(Terms) /\ DOMAIN ts = 1 .. n /\ IsList(ts)
       /\ \A i \in 1 .. n : i \in 1 .. c /\ ts[i] = list[p[i]]
  <2>1. \A i \in 1 .. n : i \in 1 .. c
    BY <1>5, <1>8
  <2>2. ts \in Seq(Terms) /\ Len(ts) = n /\ \A i \in 1 .. n : ts[i] = picked[i]
    BY <1>9, <1>10
  <2> HIDE DEF ts
  <2>3. DOMAIN ts = 1 .. n /\ IsList(ts)
    BY <2>2, LenProperties, SequenceIsList
  <2>4. \A i \in 1 .. n : ts[i] = list[p[i]]
    BY <1>6, <2>1, <2>2
  <2>5. QED
    BY <2>1, <2>2, <2>3, <2>4
<1> HIDE DEF ts
<1>12. AllDiffer(ts)
  <2>1. \A i, j \in 1 .. n : i < j => ts[i] # ts[j]
    BY <1>3, <1>6, <1>11
  <2>2. \A i, j \in 1 .. n : i < j \/ j < i \/ i = j
    BY <1>8
  <2>3. QED
    BY <1>11, <2>1, <2>2 DEF AllDiffer
<1>13. \A i \in 1 .. c : Before(p[i]) = i - 1
  <2>1. P \in SUBSET Nat
    BY <1>2
  <2>2. QED
    BY <1>5, <1>6, <2>1, PlaceIsRank
<1> HIDE DEF Before
<1>14. \A i \in 1 .. c : Before(p[i]) < MaxSourceTerms <=> i \in 1 .. n
  <2>1. \A i \in 1 .. c : i - 1 < MaxSourceTerms <=> i \in 1 .. n
    BY <1>4, <1>5, <1>8
  <2>2. QED
    BY <1>13, <2>1
<1>15. \A i \in P : Before(i) < MaxSourceTerms => \E m \in 1 .. n : ts[m] = list[i]
  BY <1>6, <1>11, <1>14
<1>16. \A m \in 1 .. n : p[m] \in P /\ Before(p[m]) < MaxSourceTerms /\ ts[m] = list[p[m]]
  BY <1>6, <1>11, <1>14
<1>17. Elements(ts) = {list[i] : i \in {i \in P : Before(i) < MaxSourceTerms}}
  BY <1>11, <1>15, <1>16 DEF Elements
<1>18. Elements(ts) = CutOff(list)
  BY <1>17 DEF CutOff, Before, P
<1>19. \A i \in DOMAIN ts : ts[i] \in Terms /\ Token[ts[i].value] # NoToken
  BY <1>1, <1>2, <1>3, <1>6, <1>11
<1>20. QED
  BY <1>11, <1>12, <1>18, <1>19 DEF ts
------------------------------------------------------------------------------
(* The terms of one type among the first n that a text mentions. *)
SeenIn(ts, text, n, s) ==
  {ts[i] : i \in {i \in 1 .. n : ts[i].type = s /\ Sought(ts[i]) \in text}}

LEMMA NextTermSeen ==
  ASSUME NEW ts, AllDiffer(ts), NEW n \in Nat, 1 .. n + 1 \subseteq DOMAIN ts,
         NEW text, NEW s
  PROVE  /\ ts[n + 1].type = s /\ Sought(ts[n + 1]) \in text =>
              /\ SeenIn(ts, text, n + 1, s) = SeenIn(ts, text, n, s) \cup {ts[n + 1]}
              /\ ts[n + 1] \notin SeenIn(ts, text, n, s)
         /\ ~ (ts[n + 1].type = s /\ Sought(ts[n + 1]) \in text) =>
              SeenIn(ts, text, n + 1, s) = SeenIn(ts, text, n, s)
<1> DEFINE Is(t) == t.type = s /\ Sought(t) \in text
           term == ts[n + 1]
<1>1. \A m : SeenIn(ts, text, m, s) = {ts[i] : i \in {i \in 1 .. m : Is(ts[i])}}
  BY DEF SeenIn
<1>2. /\ \A i \in 1 .. n + 1 : i \in 1 .. n \/ i = n + 1
      /\ \A i \in 1 .. n : i \in 1 .. n + 1 /\ i # n + 1
      /\ n + 1 \in 1 .. n + 1
  OBVIOUS
<1> HIDE DEF Is
<1>3. \A i \in 1 .. n : ts[i] # term
  BY <1>2 DEF AllDiffer
<1>4. CASE Is(term)
  <2>1. SeenIn(ts, text, n + 1, s) = SeenIn(ts, text, n, s) \cup {term}
    BY <1>1, <1>2, <1>4
  <2>2. term \notin SeenIn(ts, text, n, s)
    BY <1>1, <1>3
  <2>3. QED
    BY <1>4, <2>1, <2>2 DEF Is
<1>5. CASE ~Is(term)
  <2>1. SeenIn(ts, text, n + 1, s) = SeenIn(ts, text, n, s)
    BY <1>1, <1>2, <1>5
  <2>2. QED
    BY <1>5, <2>1 DEF Is
<1>6. QED
  BY <1>4, <1>5

(* What m terms of a type are worth together; one more adds the capped gain. *)
Worth(s, m) == LET sum == m * TermScore[s] IN IF sum < SignalCap[s] THEN sum ELSE SignalCap[s]

LEMMA WorthGrows ==
  ASSUME NEW s \in SignalTypes, NEW m \in Nat
  PROVE  /\ Worth(s, m) \in Nat /\ (Worth(s, m) > 0 <=> m > 0) /\ Worth(s, 0) = 0
         /\ CappedScore(s, Worth(s, m)) \in Nat
         /\ Worth(s, m + 1) = Worth(s, m) + CappedScore(s, Worth(s, m))
<1> DEFINE w == TermScore[s]
           c == SignalCap[s]
<1>1. w \in Nat /\ w > 0 /\ c \in Nat /\ c > 0
  BY ScoringAssumption
<1>2. /\ m * w \in Nat /\ (m + 1) * w = m * w + w /\ 0 * w = 0
      /\ (m * w > 0 <=> m > 0)
  <2>1. m * w \in Nat /\ (m + 1) * w = m * w + w /\ 0 * w = 0
    BY <1>1
  <2>2. CASE m = 0
    BY <1>1, <2>2
  <2>3. CASE m > 0
    <3>1. m - 1 \in Nat /\ m * w = (m - 1) * w + w /\ (m - 1) * w \in Nat
      BY <1>1, <2>3
    <3>2. QED
      BY <1>1, <2>3, <3>1
  <2>4. QED
    BY <2>1, <2>2, <2>3
<1> HIDE DEF w, c
<1>3. \A x \in Nat :
        LET now  == IF x < c THEN x ELSE c
            room == IF now < c THEN c - now ELSE 0
            gain == IF w < room THEN w ELSE room
        IN /\ now \in Nat /\ gain \in Nat /\ (now > 0 <=> x > 0)
           /\ (IF x + w < c THEN x + w ELSE c) = now + gain
  BY <1>1
<1>4. /\ Worth(s, m) = IF m * w < c THEN m * w ELSE c
      /\ Worth(s, m + 1) = IF (m + 1) * w < c THEN (m + 1) * w ELSE c
      /\ Worth(s, 0) = IF 0 * w < c THEN 0 * w ELSE c
  BY DEF Worth, w, c
<1>5. \A x : CappedScore(s, x) = LET room == IF x < c THEN c - x ELSE 0 IN
                                 IF w < room THEN w ELSE room
  BY DEF CappedScore, w, c
<1> DEFINE x == m * w
<1>6. x \in Nat /\ (m + 1) * w = x + w /\ (x > 0 <=> m > 0) /\ Worth(s, m) = IF x < c THEN x ELSE c
  BY <1>2, <1>4
<1> HIDE DEF x
<1>7. Worth(s, m) \in Nat /\ (Worth(s, m) > 0 <=> m > 0)
  BY <1>1, <1>6
<1>8. Worth(s, 0) = 0
  BY <1>1, <1>2, <1>4
<1>9. CappedScore(s, Worth(s, m)) \in Nat /\ Worth(s, m + 1) = Worth(s, m) + CappedScore(s, Worth(s, m))
  BY <1>1, <1>3, <1>4, <1>5, <1>6
<1>10. QED
  BY <1>7, <1>8, <1>9
------------------------------------------------------------------------------
Seen(s) == SeenIn(terms, target.text, k - 1, s)

Control ==
  /\ raw \in Seq(Terms)
  /\ target.tokens \subseteq target.text /\ target.near \in BOOLEAN
  /\ pc \in {"terms", "match", "proximity", "done"}
  /\ k \in Nat \ {0}
  /\ pc = "terms" => k = 1
  /\ pc # "terms" => terms = SourceTerms(raw) /\ k <= Len(terms) + 1
  /\ pc \in {"proximity", "done"} => k = Len(terms) + 1
  /\ scoreByType \in [SignalTypes -> Nat]
  /\ IsList(signals) /\ \A i \in DOMAIN signals : signals[i].score \in Nat

(* So far a type has scored what the terms seen of it are worth. *)
TypesScoreWhatTheyAreWorth ==
  \A s \in SignalTypes :
    /\ IsFiniteSet(Seen(s))
    /\ scoreByType[s] = Worth(s, Cardinality(Seen(s)))

SignalScores == [i \in DOMAIN signals |-> signals[i].score]

SignalsAddUp ==
  /\ Total(SignalScores) = Total(scoreByType)
  /\ signals = <<>> => \A s \in SignalTypes : scoreByType[s] = 0
  /\ signals # <<>> => Total(scoreByType) > 0

DecisionIsKept ==
  LET total == Total(scoreByType) + (IF target.near THEN ProximityScore ELSE 0) IN
  IF pc = "done"
    THEN near = target.near /\ score = IF signals # <<>> /\ total >= MinScore THEN total ELSE None
    ELSE score = None

IInv == Control /\ TypesScoreWhatTheyAreWorth /\ SignalsAddUp /\ DecisionIsKept

LEMMA MatchesIsMention ==
  ASSUME Control, NEW term, Token[term.value] # NoToken
  PROVE  Matches(term, target) <=> Sought(term) \in target.text
BY DEF Control, Matches, Sought

LEMMA InitIInv == Init => IInv
<1> SUFFICES ASSUME Init PROVE IInv
  OBVIOUS
<1>1. raw \in Seq(Terms) /\ IsFiniteSet(SignalTypes)
  BY ScoringAssumption DEF Init
<1>2. target.tokens \subseteq target.text /\ target.near \in BOOLEAN
  BY DEF Init, Words
<1>3. IsList(signals) /\ DOMAIN signals = {} /\ signals = <<>>
  <2>1. DOMAIN signals = 1 .. 0 /\ 1 .. 0 = {}
    BY DEF Init
  <2>2. IsList(<<>>)
    BY DEF IsList
  <2>3. QED
    BY <2>1, <2>2 DEF Init
<1>4. scoreByType \in [SignalTypes -> Nat] /\ \A s \in SignalTypes : scoreByType[s] = 0
  BY DEF Init
<1>5. Control
  BY <1>1, <1>2, <1>3, <1>4 DEF Init, Control
<1>6. TypesScoreWhatTheyAreWorth
  <2> SUFFICES ASSUME NEW s \in SignalTypes
               PROVE  IsFiniteSet(Seen(s)) /\ scoreByType[s] = Worth(s, Cardinality(Seen(s)))
    BY DEF TypesScoreWhatTheyAreWorth
  <2>1. k - 1 = 0 /\ 1 .. 0 = {}
    BY DEF Init
  <2>2. Seen(s) = {}
    BY <2>1 DEF Seen, SeenIn
  <2>3. QED
    BY <1>4, <2>2, FS_EmptySet, WorthGrows
<1>7. SignalsAddUp
  <2>1. Total(scoreByType) = 0
    BY <1>1, <1>4, TotalIsNatural
  <2>2. SignalScores \in [{} -> Nat] /\ IsFiniteSet({})
    BY <1>3, FS_EmptySet DEF SignalScores
  <2>3. Total(SignalScores) = 0
    BY <2>2, TotalIsNatural
  <2>4. QED
    BY <1>3, <1>4, <2>1, <2>3 DEF SignalsAddUp
<1>8. DecisionIsKept
  BY DEF Init, DecisionIsKept
<1>9. QED
  BY <1>5, <1>6, <1>7, <1>8 DEF IInv

LEMMA CollectKeepsIInv == IInv /\ CollectTerms => IInv'
<1> SUFFICES ASSUME IInv, CollectTerms PROVE IInv'
  OBVIOUS
<1>1. k = 1 /\ k - 1 = 0 /\ k' - 1 = 0 /\ 1 .. 0 = {}
  BY DEF IInv, Control, CollectTerms
<1>2. IsList(SourceTerms(raw))
  BY SourceTermsAreDistinct DEF IInv, Control
<1>3. Len(SourceTerms(raw)) \in Nat
  BY <1>2, ListFacts
<1>4. Control'
  BY <1>1, <1>3 DEF IInv, Control, CollectTerms, IsList, Elements
<1>5. \A s : Seen(s)' = Seen(s)
  BY <1>1 DEF Seen, SeenIn, CollectTerms
<1>6. TypesScoreWhatTheyAreWorth'
  BY <1>5 DEF IInv, TypesScoreWhatTheyAreWorth, CollectTerms
<1>7. SignalsAddUp' /\ DecisionIsKept'
  BY DEF IInv, SignalsAddUp, SignalScores, DecisionIsKept, CollectTerms
<1>8. QED
  BY <1>4, <1>6, <1>7 DEF IInv

(* What one turn does to the score of its type. *)
LEMMA MatchScores ==
  ASSUME IInv, MatchTerm
  PROVE  LET term == terms[k]
             gain == CappedScore(term.type, scoreByType[term.type])
         IN /\ term \in Terms /\ term.type \in SignalTypes /\ gain \in Nat
            /\ TypesScoreWhatTheyAreWorth'
            /\ scoreByType' = IF Matches(term, target) /\ gain > 0
                                THEN [scoreByType EXCEPT ![term.type] = @ + gain]
                                ELSE scoreByType
<1> DEFINE term == terms[k]
           gain == CappedScore(term.type, scoreByType[term.type])
<1>1. /\ IsList(terms) /\ AllDiffer(terms)
      /\ \A i \in DOMAIN terms : terms[i] \in Terms /\ Token[terms[i].value] # NoToken
  <2>1. raw \in Seq(Terms) /\ terms = SourceTerms(raw)
    BY DEF IInv, Control, MatchTerm
  <2>2. QED
    BY <2>1, SourceTermsAreDistinct
<1>2. k \in Nat \ {0} /\ k <= Len(terms)
  BY DEF IInv, Control, MatchTerm
<1>3. PICK n \in Nat : n = k - 1 /\ n + 1 = k
  BY <1>2
<1>4. 1 .. n + 1 \subseteq DOMAIN terms /\ n + 1 \in DOMAIN terms
  BY <1>1, <1>2, <1>3, ListFacts
<1>5. term \in Terms /\ term.type \in SignalTypes
  BY <1>1, <1>3, <1>4 DEF Terms
<1>6. Matches(term, target) <=> Sought(term) \in target.text
  BY <1>1, <1>3, <1>4, MatchesIsMention DEF IInv
<1>7. \A s : /\ Seen(s) = SeenIn(terms, target.text, n, s)
             /\ Seen(s)' = SeenIn(terms, target.text, n + 1, s)
  <2>1. k' - 1 = n + 1 /\ terms' = terms /\ target' = target
    BY <1>2, <1>3 DEF MatchTerm
  <2>2. QED
    BY <1>3, <2>1 DEF Seen
<1>8. \A s : /\ term.type = s /\ Matches(term, target) =>
                  Seen(s)' = Seen(s) \cup {term} /\ term \notin Seen(s)
             /\ ~ (term.type = s /\ Matches(term, target)) => Seen(s)' = Seen(s)
  BY <1>1, <1>3, <1>4, <1>5, <1>6, <1>7, NextTermSeen
<1>9. \A s \in SignalTypes : /\ IsFiniteSet(Seen(s)) /\ Cardinality(Seen(s)) \in Nat
                             /\ scoreByType[s] = Worth(s, Cardinality(Seen(s)))
  BY FS_CardinalityType DEF IInv, TypesScoreWhatTheyAreWorth
<1>10. gain \in Nat
  BY <1>5, <1>9, WorthGrows
<1>11. scoreByType' = IF Matches(term, target) /\ gain > 0
                        THEN [scoreByType EXCEPT ![term.type] = @ + gain]
                        ELSE scoreByType
  BY DEF MatchTerm
<1>12. scoreByType \in [SignalTypes -> Nat]
  BY DEF IInv, Control
<1> HIDE DEF gain
<1>13. \A s \in SignalTypes :
         scoreByType'[s] = IF s = term.type /\ Matches(term, target)
                             THEN scoreByType[s] + gain ELSE scoreByType[s]
  BY <1>5, <1>10, <1>11, <1>12
<1>14. ASSUME NEW s \in SignalTypes
       PROVE  IsFiniteSet(Seen(s)') /\ scoreByType'[s] = Worth(s, Cardinality(Seen(s)'))
  <2>1. CASE s = term.type /\ Matches(term, target)
    <3>1. /\ Seen(s)' = Seen(s) \cup {term} /\ term \notin Seen(s)
          /\ IsFiniteSet(Seen(s)) /\ Cardinality(Seen(s)) \in Nat
          /\ scoreByType[s] = Worth(s, Cardinality(Seen(s)))
      BY <1>8, <1>9, <2>1
    <3>2. /\ IsFiniteSet(Seen(s) \cup {term})
          /\ Cardinality(Seen(s) \cup {term}) = Cardinality(Seen(s)) + 1
      BY <3>1, FS_AddElement
    <3>3. Worth(s, Cardinality(Seen(s)) + 1) = Worth(s, Cardinality(Seen(s))) + gain
      BY <2>1, <3>1, WorthGrows DEF gain
    <3>4. QED
      BY <1>13, <2>1, <3>1, <3>2, <3>3
  <2>2. CASE ~ (s = term.type /\ Matches(term, target))
    BY <1>8, <1>9, <1>13, <2>2
  <2>3. QED
    BY <2>1, <2>2
<1>15. TypesScoreWhatTheyAreWorth'
  BY <1>14 DEF TypesScoreWhatTheyAreWorth
<1>16. QED
  BY <1>5, <1>10, <1>11, <1>15 DEF gain

(* A signal with its gain keeps the two sums equal. *)
LEMMA SignalsGrow ==
  ASSUME NEW list, IsList(list), \A i \in DOMAIN list : list[i].score \in Nat,
         NEW e, e.score \in Nat
  PROVE  /\ IsList(Append(list, e)) /\ Append(list, e) # <<>>
         /\ \A i \in DOMAIN Append(list, e) : Append(list, e)[i].score \in Nat
         /\ Total([i \in DOMAIN Append(list, e) |-> Append(list, e)[i].score])
              = Total([i \in DOMAIN list |-> list[i].score]) + e.score
<1> DEFINE longer == Append(list, e)
           n == Len(list)
           f == [i \in DOMAIN list |-> list[i].score]
           g == [i \in DOMAIN longer |-> longer[i].score]
<1>1. /\ IsList(longer) /\ n \in Nat /\ DOMAIN list = 1 .. n
      /\ Len(longer) = n + 1 /\ DOMAIN longer = 1 .. n + 1
      /\ \A i \in 1 .. n : longer[i] = list[i]
      /\ longer[n + 1] = e
  BY ListAppend
<1> HIDE DEF longer, n
<1>2. \A i \in 1 .. n + 1 : i \in 1 .. n \/ i = n + 1
  BY <1>1
<1>3. \A i \in 1 .. n : i \in 1 .. n + 1
  BY <1>1
<1>4. \A i \in 1 .. n + 1 : longer[i].score \in Nat
  BY <1>1, <1>2
<1>5. n + 1 \in 1 .. n + 1
  BY <1>1
<1>6. /\ f \in [1 .. n -> Nat] /\ g \in [1 .. n + 1 -> Nat]
      /\ \A i \in 1 .. n : g[i] = f[i]
      /\ g[n + 1] = e.score
  BY <1>1, <1>3, <1>4, <1>5
<1>7. longer # <<>>
  <2>1. Len(<<>>) = 0
    OBVIOUS
  <2>2. QED
    BY <1>1, <2>1
<1> HIDE DEF f, g
<1>8. Total(g) = Total(f) + e.score
  <2>1. Total(g) = Total(f) + g[n + 1]
    BY <1>1, <1>6, TotalOfLonger
  <2>2. QED
    BY <1>6, <2>1
<1>9. QED
  BY <1>1, <1>4, <1>7, <1>8 DEF longer, f, g

LEMMA MatchKeepsIInv == IInv /\ MatchTerm => IInv'
<1> SUFFICES ASSUME IInv, MatchTerm PROVE IInv'
  OBVIOUS
<1> DEFINE term == terms[k]
           gain == CappedScore(term.type, scoreByType[term.type])
           e == [type |-> term.type, score |-> gain]
<1>1. /\ term \in Terms /\ term.type \in SignalTypes /\ gain \in Nat
      /\ TypesScoreWhatTheyAreWorth'
      /\ scoreByType' = IF Matches(term, target) /\ gain > 0
                          THEN [scoreByType EXCEPT ![term.type] = @ + gain]
                          ELSE scoreByType
  BY MatchScores
<1>2. signals' = IF Matches(term, target) /\ gain > 0 THEN Append(signals, e) ELSE signals
  BY DEF MatchTerm
<1>3. /\ scoreByType \in [SignalTypes -> Nat] /\ IsFiniteSet(SignalTypes)
      /\ IsList(signals) /\ \A i \in DOMAIN signals : signals[i].score \in Nat
      /\ Total(scoreByType) \in Nat
  BY ScoringAssumption, TotalIsNatural DEF IInv, Control
<1>4. e.score = gain
  OBVIOUS
<1>5. DecisionIsKept'
  BY DEF IInv, DecisionIsKept, MatchTerm
<1>6. ASSUME scoreByType' \in [SignalTypes -> Nat],
             IsList(signals'), \A i \in DOMAIN signals' : signals'[i].score \in Nat
      PROVE  Control'
  <2>1. Len(terms) \in Nat
    <3>1. IsList(terms)
      BY SourceTermsAreDistinct DEF IInv, Control, MatchTerm
    <3>2. QED
      BY <3>1, ListFacts
  <2>2. IsList(signals)'
    BY <1>6 DEF IsList, Elements
  <2>3. QED
    BY <1>6, <2>1, <2>2 DEF IInv, Control, MatchTerm
<1> HIDE DEF gain, e, term
<1>7. CASE Matches(term, target) /\ gain > 0
  <2>1. /\ scoreByType' = [scoreByType EXCEPT ![term.type] = @ + gain]
        /\ signals' = Append(signals, e)
    BY <1>1, <1>2, <1>7
  <2>2. /\ IsList(Append(signals, e)) /\ Append(signals, e) # <<>>
        /\ \A i \in DOMAIN Append(signals, e) : Append(signals, e)[i].score \in Nat
        /\ Total([i \in DOMAIN Append(signals, e) |-> Append(signals, e)[i].score])
             = Total([i \in DOMAIN signals |-> signals[i].score]) + e.score
    BY <1>1, <1>3, <1>4, SignalsGrow
  <2>3. scoreByType' \in [SignalTypes -> Nat]
    BY <1>1, <1>3, <2>1
  <2>4. Total(scoreByType') = Total(scoreByType) + gain
    <3>1. term.type \in SignalTypes /\ gain \in Nat
      BY <1>1
    <3>2. Total([scoreByType EXCEPT ![term.type] = @ + gain]) = Total(scoreByType) + gain
      BY <1>3, <3>1, TotalGrows
    <3>3. QED
      BY <2>1, <3>2
  <2>5. Total(SignalScores') = Total(SignalScores) + gain
    BY <1>4, <2>1, <2>2 DEF SignalScores
  <2>6. Total(SignalScores) = Total(scoreByType)
    BY DEF IInv, SignalsAddUp
  <2>7. signals' # <<>> /\ Total(scoreByType') > 0
    BY <1>1, <1>3, <1>7, <2>1, <2>2, <2>4
  <2>8. SignalsAddUp'
    BY <2>4, <2>5, <2>6, <2>7 DEF SignalsAddUp
  <2>9. Control'
    BY <1>6, <2>1, <2>2, <2>3
  <2>10. QED
    BY <1>1, <1>5, <2>8, <2>9 DEF IInv
<1>8. CASE ~ (Matches(term, target) /\ gain > 0)
  <2>1. scoreByType' = scoreByType /\ signals' = signals
    BY <1>1, <1>2, <1>8
  <2>2. Control'
    BY <1>3, <1>6, <2>1
  <2>3. SignalsAddUp'
    BY <2>1 DEF IInv, SignalsAddUp, SignalScores
  <2>4. QED
    BY <1>1, <1>5, <2>2, <2>3 DEF IInv
<1>9. QED
  BY <1>7, <1>8

LEMMA EndKeepsIInv == IInv /\ EndOfTerms => IInv'
<1> SUFFICES ASSUME IInv, EndOfTerms PROVE IInv'
  OBVIOUS
<1>1. Len(terms) \in Nat
  <2>1. IsList(terms)
    BY SourceTermsAreDistinct DEF IInv, Control, EndOfTerms
  <2>2. QED
    BY <2>1, ListFacts
<1>2. IsList(signals)'
  BY DEF IInv, Control, EndOfTerms, IsList, Elements
<1>3. Control'
  BY <1>1, <1>2 DEF IInv, Control, EndOfTerms
<1>4. \A s : Seen(s)' = Seen(s)
  BY DEF Seen, SeenIn, EndOfTerms
<1>5. TypesScoreWhatTheyAreWorth'
  BY <1>4 DEF IInv, TypesScoreWhatTheyAreWorth, EndOfTerms
<1>6. SignalsAddUp' /\ DecisionIsKept'
  BY DEF IInv, SignalsAddUp, SignalScores, DecisionIsKept, EndOfTerms
<1>7. QED
  BY <1>3, <1>5, <1>6 DEF IInv

LEMMA DecideKeepsIInv == IInv /\ Decide => IInv'
<1> SUFFICES ASSUME IInv, Decide PROVE IInv'
  OBVIOUS
<1>1. IsList(signals)'
  BY DEF IInv, Control, Decide, IsList, Elements
<1>2. Control'
  BY <1>1 DEF IInv, Control, Decide
<1>3. \A s : Seen(s)' = Seen(s)
  BY DEF Seen, SeenIn, Decide
<1>4. TypesScoreWhatTheyAreWorth'
  BY <1>3 DEF IInv, TypesScoreWhatTheyAreWorth, Decide
<1>5. SignalsAddUp'
  BY DEF IInv, SignalsAddUp, SignalScores, Decide
<1>6. DecisionIsKept'
  BY DEF DecisionIsKept, Decide
<1>7. QED
  BY <1>2, <1>4, <1>5, <1>6 DEF IInv

LEMMA StutterKeepsIInv == IInv /\ UNCHANGED vars => IInv'
<1> SUFFICES ASSUME IInv, UNCHANGED vars PROVE IInv'
  OBVIOUS
<1>1. IsList(signals)'
  BY DEF IInv, Control, vars, IsList, Elements
<1>2. Control'
  BY <1>1 DEF IInv, Control, vars
<1>3. \A s : Seen(s)' = Seen(s)
  BY DEF Seen, SeenIn, vars
<1>4. TypesScoreWhatTheyAreWorth'
  BY <1>3 DEF IInv, TypesScoreWhatTheyAreWorth, vars
<1>5. SignalsAddUp' /\ DecisionIsKept'
  BY DEF IInv, SignalsAddUp, SignalScores, DecisionIsKept, vars
<1>6. QED
  BY <1>2, <1>4, <1>5 DEF IInv

(* At every point of the scoring, each type has scored what the distinct   *)
(* terms seen so far are worth, no more than its cap, and the signals add  *)
(* up to exactly that.                                                     *)
THEOREM ScoresAreKept == Spec => []IInv
<1>1. IInv /\ [Next]_vars => IInv'
  BY CollectKeepsIInv, MatchKeepsIInv, EndKeepsIInv, DecideKeepsIInv, StutterKeepsIInv
  DEF Next
<1>2. QED
  BY InitIInv, <1>1, PTL DEF Spec
------------------------------------------------------------------------------
(* At the end the terms seen are those the closed form counts.             *)
LEMMA AllIsSeen ==
  ASSUME IInv, pc = "done"
  PROVE  \A s : Seen(s) = {t \in Considered : t.type = s /\ Sought(t) \in target.text}
<1>1. raw \in Seq(Terms) /\ terms = SourceTerms(raw) /\ k \in Nat /\ k = Len(terms) + 1
  BY DEF IInv, Control
<1>2. IsList(terms) /\ Elements(terms) = CutOff(raw)
  BY <1>1, SourceTermsAreDistinct
<1>3. DOMAIN terms = 1 .. k - 1
  <2>1. Len(terms) \in Nat /\ DOMAIN terms = 1 .. Len(terms)
    BY <1>2, ListFacts
  <2>2. k - 1 = Len(terms)
    BY <1>1, <2>1
  <2>3. QED
    BY <2>1, <2>2
<1>4. CutOff(raw) = Considered
  <2> DEFINE differs(i, j) == raw[i].type # raw[j].type \/ Token[raw[i].value] # Token[raw[j].value]
             first == {i \in DOMAIN raw : /\ Token[raw[i].value] # NoToken
                                          /\ \A j \in 1 .. i - 1 : differs(i, j)}
  <2>1. Len(raw) \in Nat /\ DOMAIN raw = 1 .. Len(raw)
    BY <1>1, LenProperties
  <2>2. /\ DOMAIN Keys(raw) = DOMAIN raw
        /\ \A i, j \in DOMAIN raw : Keys(raw)[j] # Keys(raw)[i] <=> differs(i, j)
    BY DEF Keys
  <2>3. \A i \in DOMAIN raw : \A j \in 1 .. i - 1 : j \in DOMAIN raw
    BY <2>1
  <2> HIDE DEF differs
  <2>4. \A i \in DOMAIN raw : i \in Firsts(raw) <=> i \in first
    BY <2>2, <2>3 DEF Firsts, FirstOccurrences
  <2>5. Firsts(raw) \subseteq DOMAIN raw /\ first \subseteq DOMAIN raw
    BY <2>2 DEF Firsts, FirstOccurrences
  <2>6. Firsts(raw) = first
    BY <2>4, <2>5
  <2>7. Considered = {raw[i] : i \in {i \in first : Cardinality({j \in first : j < i}) < MaxSourceTerms}}
    BY DEF Considered, differs
  <2> HIDE DEF first
  <2>8. QED
    BY <2>6, <2>7 DEF CutOff
<1>5. \A x : (\E i \in 1 .. k - 1 : terms[i] = x) <=> x \in Considered
  BY <1>2, <1>3, <1>4 DEF Elements
<1>6. ASSUME NEW s
      PROVE  Seen(s) = {t \in Considered : t.type = s /\ Sought(t) \in target.text}
  <2> DEFINE Is(t) == t.type = s /\ Sought(t) \in target.text
  <2>1. Seen(s) = {terms[i] : i \in {i \in 1 .. k - 1 : Is(terms[i])}}
    BY DEF Seen, SeenIn
  <2> HIDE DEF Is
  <2>2. Seen(s) = {t \in Considered : Is(t)}
    BY <1>5, <2>1
  <2>3. QED
    BY <2>2 DEF Is
<1>7. QED
  BY <1>6

(* ScoreIsReproducible: for every list of terms, however often they are    *)
(* repeated or respelled, and whichever words the unordered cut kept, the  *)
(* score is the closed form of the first spellings before the cut.         *)
THEOREM ScoreHasClosedForm == Spec => []ScoreIsReproducible
<1>1. IInv => ScoreIsReproducible
  <2> SUFFICES ASSUME IInv, pc = "done" PROVE ScoreIsReproducible
    BY DEF ScoreIsReproducible
  <2> DEFINE number(s) == Cardinality({t \in Considered : t.type = s /\ Sought(t) \in target.text})
             bonus == IF target.near THEN ProximityScore ELSE 0
  <2>1. \A s : number(s) = Cardinality(Seen(s))
    BY AllIsSeen
  <2>2. \A s \in SignalTypes : scoreByType[s] = Worth(s, number(s)) /\ number(s) \in Nat
    BY <2>1, FS_CardinalityType DEF IInv, TypesScoreWhatTheyAreWorth
  <2> HIDE DEF number
  <2>3. scoreByType = [s \in SignalTypes |-> Worth(s, number(s))]
    BY <2>2 DEF IInv, Control
  <2>4. signals # <<>> <=> \E s \in SignalTypes : number(s) > 0
    <3>1. \A s \in SignalTypes : scoreByType[s] > 0 <=> number(s) > 0
      BY <2>2, WorthGrows
    <3>2. \A s \in SignalTypes : scoreByType[s] \in Nat
      BY DEF IInv, Control
    <3>3. CASE signals = <<>>
      BY <3>1, <3>2, <3>3 DEF IInv, SignalsAddUp
    <3>4. CASE signals # <<>>
      <4>1. Total(scoreByType) > 0
        BY <3>4 DEF IInv, SignalsAddUp
      <4>2. IsFiniteSet(SignalTypes) /\ scoreByType \in [SignalTypes -> Nat]
        BY ScoringAssumption DEF IInv, Control
      <4>3. (\A s \in SignalTypes : scoreByType[s] = 0) => Total(scoreByType) = 0
        BY <4>2, TotalIsNatural
      <4>4. PICK s \in SignalTypes : scoreByType[s] # 0
        BY <4>1, <4>3
      <4>5. QED
        BY <3>1, <3>2, <3>4, <4>4
    <3>5. QED
      BY <3>3, <3>4
  <2>5. score = IF signals # <<>> /\ Total(scoreByType) + bonus >= MinScore
                  THEN Total(scoreByType) + bonus ELSE None
    BY DEF IInv, DecisionIsKept
  <2> DEFINE total == Total([s \in SignalTypes |-> Worth(s, number(s))]) + bonus
  <2>6. score = IF (\E s \in SignalTypes : number(s) > 0) /\ total >= MinScore
                  THEN total ELSE None
    BY <2>3, <2>4, <2>5, Zenon
  <2>7. QED
    BY <2>6 DEF ScoreIsReproducible, Worth, number
<1>2. QED
  BY ScoresAreKept, <1>1, PTL

(* SignalsExplainScore: the signals account for the score to the last      *)
(* point, whatever the caps cut off, and never by proximity alone.         *)
THEOREM SignalsAccountForScore == Spec => []SignalsExplainScore
<1>1. IInv => SignalsExplainScore
  <2> SUFFICES ASSUME IInv, score # None PROVE SignalsExplainScore
    BY DEF SignalsExplainScore
  <2>1. /\ near = target.near /\ signals # <<>>
        /\ score = Total(scoreByType) + (IF target.near THEN ProximityScore ELSE 0)
    BY DEF IInv, DecisionIsKept
  <2>2. Total(SignalScores) = Total(scoreByType) /\ Total(scoreByType) > 0
    BY <2>1 DEF IInv, SignalsAddUp
  <2>3. QED
    BY <2>1, <2>2 DEF SignalsExplainScore, SignalScores
<1>2. QED
  BY ScoresAreKept, <1>1, PTL
================================================================================
