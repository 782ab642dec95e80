------------------------------- MODULE ListLemmas ------------------------------
(***************************************************************************)
(* Lemmas about lists, orders and numbers that several proofs rest on.     *)
(***************************************************************************)
EXTENDS Lists, FiniteSetTheorems, SequenceTheorems, TLAPS

(* A nonempty set of naturals has a least element. *)
LEMMA LeastElement ==
  ASSUME NEW S \in SUBSET Nat, S # {}
  PROVE  \E m \in S : \A n \in S : m <= n
<1> DEFINE R == OpToRel(<, Nat)
<1>1. \A x, y \in Nat : <<x, y>> \in R <=> x < y
  BY DEF OpToRel
<1>2. IsWellFoundedOn(R, Nat)
  BY NatLessThanWellFounded
<1> HIDE DEF R
<1>3. PICK x \in S : \A y \in S : ~ (<<y, x>> \in R)
  BY <1>2, WFMin
<1>4. \A y \in S : y \in Nat
  OBVIOUS
<1>5. \A y \in S : ~(y < x)
  BY <1>1, <1>3, <1>4
<1>6. QED
  BY <1>4, <1>5

(* Induction over the naturals, for what can be said as membership in a    *)
(* set.                                                                    *)
LEMMA Induction ==
  ASSUME NEW S, 0 \in S, \A n \in Nat : n \in S => n + 1 \in S
  PROVE  Nat \subseteq S
<1> SUFFICES ASSUME NEW k \in Nat, k \notin S
             PROVE  FALSE
  OBVIOUS
<1> DEFINE T == {n \in Nat : n \notin S}
<1>1. PICK m \in T : \A n \in T : m <= n
  <2>1. k \in T /\ T \subseteq Nat
    OBVIOUS
  <2> HIDE DEF T
  <2>2. QED
    BY <2>1, LeastElement
<1>2. m - 1 \in Nat /\ m - 1 \in S
  BY <1>1
<1>3. QED
  BY <1>1, <1>2

(* The elements of a finite set under a strict total order, in that order. *)
LEMMA Ranking ==
  ASSUME NEW S, IsFiniteSet(S), NEW R,
         \A a, b \in S : a = b \/ <<a, b>> \in R \/ <<b, a>> \in R,
         \A a \in S : <<a, a>> \notin R,
         \A a, b, c \in S : <<a, b>> \in R /\ <<b, c>> \in R => <<a, c>> \in R
  PROVE  /\ Cardinality(S) \in Nat
         /\ \E f \in [1 .. Cardinality(S) -> S] :
              /\ \A i, j \in 1 .. Cardinality(S) : i < j => <<f[i], f[j]>> \in R
              /\ \A a \in S : \E i \in 1 .. Cardinality(S) : f[i] = a
              /\ \A i \in 1 .. Cardinality(S), a \in S :
                   Cardinality({b \in S : b = a \/ <<b, a>> \in R}) = i <=> a = f[i]
<1> DEFINE n == Cardinality(S)
           Down(a) == {b \in S : b = a \/ <<b, a>> \in R}
           rank == [a \in S |-> Cardinality(Down(a))]
<1>1. n \in Nat
  BY FS_CardinalityType
<1>2. \A a \in S : IsFiniteSet(Down(a)) /\ Cardinality(Down(a)) \in 1 .. n
  <2> SUFFICES ASSUME NEW a \in S
               PROVE  IsFiniteSet(Down(a)) /\ Cardinality(Down(a)) \in 1 .. n
    OBVIOUS
  <2>1. Down(a) \in SUBSET S /\ a \in Down(a) /\ Down(a) # {}
    OBVIOUS
  <2> HIDE DEF Down
  <2>2. IsFiniteSet(Down(a)) /\ Cardinality(Down(a)) <= n
    BY <2>1, FS_Subset
  <2>3. Cardinality(Down(a)) \in Nat /\ Cardinality(Down(a)) # 0
    BY <2>1, <2>2, FS_CardinalityType, FS_EmptySet
  <2>4. QED
    BY <1>1, <2>2, <2>3
<1>3. \A a, b \in S : <<a, b>> \in R => rank[a] < rank[b]
  <2> SUFFICES ASSUME NEW a \in S, NEW b \in S, <<a, b>> \in R
               PROVE  Cardinality(Down(a)) < Cardinality(Down(b))
    OBVIOUS
  <2>1. Down(a) \in SUBSET Down(b)
    OBVIOUS
  <2>2. b \in Down(b) /\ b \notin Down(a)
    <3>1. a # b /\ <<b, a>> \notin R
      OBVIOUS
    <3>2. QED
      BY <3>1
  <2> HIDE DEF Down
  <2>3. Cardinality(Down(a)) <= Cardinality(Down(b))
          /\ Cardinality(Down(a)) # Cardinality(Down(b))
    BY <1>2, <2>1, <2>2, FS_Subset
  <2>4. QED
    BY <1>1, <1>2, <2>3
<1>4. rank \in [S -> 1 .. n]
  BY <1>2
<1> HIDE DEF rank
<1>5. \A a, b \in S : rank[a] = rank[b] => a = b
  <2> SUFFICES ASSUME NEW a \in S, NEW b \in S, rank[a] = rank[b]
               PROVE  a = b
    OBVIOUS
  <2>1. rank[a] \in Int
    BY <1>1, <1>4
  <2>2. <<a, b>> \notin R /\ <<b, a>> \notin R
    BY <1>3, <2>1
  <2>3. QED
    BY <2>2
<1>6. \A i \in 1 .. n : \E a \in S : rank[a] = i
  <2>1. rank \in Injection(S, 1 .. n)
    BY <1>4, <1>5, Zenon DEF Injection, IsInjective
  <2>2. IsFiniteSet(1 .. n) /\ Cardinality(1 .. n) = n
    BY <1>1, FS_Interval
  <2>3. rank \in Surjection(S, 1 .. n)
    BY <2>1, <2>2, FS_Injection
  <2>4. QED
    BY <2>3 DEF Surjection
<1> DEFINE f == [i \in 1 .. n |-> CHOOSE a \in S : rank[a] = i]
<1>7. f \in [1 .. n -> S] /\ \A i \in 1 .. n : f[i] \in S /\ rank[f[i]] = i
  BY <1>6
<1> HIDE DEF f
<1>8. \A i, j \in 1 .. n : i < j => <<f[i], f[j]>> \in R
  <2> SUFFICES ASSUME NEW i \in 1 .. n, NEW j \in 1 .. n, i < j
               PROVE  <<f[i], f[j]>> \in R
    OBVIOUS
  <2>1. f[i] \in S /\ f[j] \in S /\ rank[f[i]] = i /\ rank[f[j]] = j
    BY <1>7
  <2>2. f[i] # f[j]
    BY <2>1
  <2>3. <<f[j], f[i]>> \notin R
    BY <1>1, <1>3, <2>1
  <2>4. QED
    BY <2>1, <2>2, <2>3
<1>9. \A a \in S : \E i \in 1 .. n : f[i] = a
  <2> TAKE a \in S
  <2>1. rank[a] \in 1 .. n
    BY <1>4
  <2>2. f[rank[a]] = a
    BY <1>5, <1>7, <2>1
  <2>3. QED
    BY <2>1, <2>2
<1>10. \A i \in 1 .. n, a \in S : Cardinality(Down(a)) = i <=> a = f[i]
  <2> TAKE i \in 1 .. n, a \in S
  <2>1. Cardinality(Down(a)) = rank[a]
    BY DEF rank
  <2>2. rank[a] = i <=> a = f[i]
    BY <1>5, <1>7
  <2>3. QED
    BY <2>1, <2>2
<1>11. QED
  BY <1>1, <1>7, <1>8, <1>9, <1>10

(* What Pick returns: the elements at the positions, one after the other. *)
LEMMA PickProperties ==
  ASSUME NEW list, NEW n \in Nat, NEW P \in SUBSET (1 .. n)
  PROVE  /\ Cardinality(P) \in Nat
         /\ \E p \in [1 .. Cardinality(P) -> P] :
              /\ \A i, j \in 1 .. Cardinality(P) : i < j => p[i] < p[j]
              /\ \A k \in P : \E i \in 1 .. Cardinality(P) : p[i] = k
              /\ Pick(list, P) = [i \in 1 .. Cardinality(P) |-> list[p[i]]]
<1> DEFINE R == {ij \in Int \X Int : ij[1] < ij[2]}
           c == Cardinality(P)
<1>1. \A i, j \in Int : <<i, j>> \in R <=> i < j
  OBVIOUS
<1>2. P \subseteq Int
  OBVIOUS
<1> HIDE DEF R
<1>3. IsFiniteSet(P)
  <2>1. IsFiniteSet(1 .. n)
    BY FS_Interval
  <2>2. QED
    BY <2>1, FS_Subset
<1>4. /\ \A a, b \in P : a = b \/ <<a, b>> \in R \/ <<b, a>> \in R
      /\ \A a \in P : <<a, a>> \notin R
      /\ \A a, b, d \in P : <<a, b>> \in R /\ <<b, d>> \in R => <<a, d>> \in R
  BY <1>1, <1>2
<1>5. /\ c \in Nat
      /\ \E f \in [1 .. c -> P] :
           /\ \A i, j \in 1 .. c : i < j => <<f[i], f[j]>> \in R
           /\ \A a \in P : \E i \in 1 .. c : f[i] = a
           /\ \A i \in 1 .. c, a \in P :
                Cardinality({b \in P : b = a \/ <<b, a>> \in R}) = i <=> a = f[i]
  BY <1>3, <1>4, Ranking, ZenonT(40)
<1>6. PICK p \in [1 .. c -> P] :
        /\ \A i, j \in 1 .. c : i < j => <<p[i], p[j]>> \in R
        /\ \A a \in P : \E i \in 1 .. c : p[i] = a
        /\ \A i \in 1 .. c, a \in P :
             Cardinality({b \in P : b = a \/ <<b, a>> \in R}) = i <=> a = p[i]
  BY <1>5
<1>7. \A i, j \in 1 .. c : i < j => p[i] < p[j]
  BY <1>1, <1>2, <1>6
<1>8. \A a \in P : {b \in P : b = a \/ <<b, a>> \in R} = {b \in P : b <= a}
  <2>1. \A a, b \in P : (b = a \/ <<b, a>> \in R) <=> b <= a
    BY <1>1, <1>2
  <2>2. QED
    BY <2>1, Zenon
<1>9. \A i \in 1 .. c : Nth(P, i) = p[i]
  <2> TAKE i \in 1 .. c
  <2>1. \A a \in P : Cardinality({b \in P : b <= a}) = i <=> a = p[i]
    BY <1>6, <1>8
  <2>2. p[i] \in P
    OBVIOUS
  <2>3. QED
    BY <2>1, <2>2 DEF Nth
<1>10. Pick(list, P) = [i \in 1 .. c |-> list[p[i]]]
  BY <1>9 DEF Pick
<1>11. QED
  BY <1>5, <1>6, <1>7, <1>10

(* Picking every place of a list gives the list. *)
LEMMA PickAll ==
  ASSUME NEW list, IsList(list)
  PROVE  Pick(list, DOMAIN list) = list
<1> DEFINE n == Len(list)
<1>1. n \in Nat /\ DOMAIN list = 1 .. n /\ list = [i \in 1 .. n |-> list[i]]
  BY DEF IsList
<1> HIDE DEF n
<1>2. \A i \in 1 .. n : Cardinality({j \in 1 .. n : j <= i}) = i
  <2> TAKE i \in 1 .. n
  <2>1. {j \in 1 .. n : j <= i} = 1 .. i /\ i \in Nat \ {0}
    BY <1>1
  <2>2. Cardinality(1 .. i) = i
    BY <2>1, FS_Interval
  <2>3. QED
    BY <2>1, <2>2
<1>3. \A m \in 1 .. n : Nth(1 .. n, m) = m
  BY <1>2 DEF Nth
<1>4. Cardinality(1 .. n) = n
  BY <1>1, FS_Interval
<1>5. QED
  BY <1>1, <1>3, <1>4 DEF Pick

(* Positions in their order: the i-th one is preceded by i - 1 others. *)
LEMMA PlaceIsRank ==
  ASSUME NEW P \in SUBSET Nat, NEW n \in Nat, NEW p \in [1 .. n -> P],
         \A i, j \in 1 .. n : i < j => p[i] < p[j],
         \A q \in P : \E i \in 1 .. n : p[i] = q,
         NEW i \in 1 .. n
  PROVE  Cardinality({q \in P : q < p[i]}) = i - 1
<1> DEFINE S == {q \in P : q < p[i]}
           f == [j \in 1 .. i - 1 |-> p[j]]
<1>1. \A j \in 1 .. i - 1 : j \in 1 .. n /\ j < i
  OBVIOUS
<1>2. \A j, k \in 1 .. n : j < k \/ k < j \/ j = k
  OBVIOUS
<1>3. \A j \in 1 .. n : p[j] \in P /\ p[j] \in Nat
  OBVIOUS
<1>4. \A j, k \in 1 .. n : p[j] = p[k] => j = k
  BY <1>2, <1>3
<1>5. f \in [1 .. i - 1 -> S]
  BY <1>1, <1>3
<1>6. \A j, k \in 1 .. i - 1 : f[j] = f[k] => j = k
  BY <1>1, <1>4
<1>7. \A q \in S : \E j \in 1 .. i - 1 : f[j] = q
  <2> SUFFICES ASSUME NEW q \in S
               PROVE  \E j \in 1 .. i - 1 : p[j] = q
    OBVIOUS
  <2>1. PICK j \in 1 .. n : p[j] = q
    OBVIOUS
  <2>2. p[j] < p[i] /\ p[i] \in Nat /\ p[j] \in Nat
    BY <1>3, <2>1
  <2>3. ~(i < j) /\ j # i
    BY <2>2
  <2>4. j \in 1 .. i - 1
    BY <2>3
  <2>5. QED
    BY <2>1, <2>4
<1> HIDE DEF f, S
<1>8. ExistsBijection(1 .. i - 1, S)
  BY <1>5, <1>6, <1>7 DEF Bijection, Injection, Surjection, IsInjective, ExistsBijection
<1>9. IsFiniteSet(1 .. i - 1) /\ Cardinality(1 .. i - 1) = i - 1
  BY FS_Interval
<1>10. Cardinality(S) = i - 1
  BY <1>8, <1>9, FS_Bijection
<1>11. QED
  BY <1>10 DEF S
--------------------------------------------------------------------------------
LEMMA ListFacts ==
  ASSUME NEW s, IsList(s)
  PROVE  /\ Len(s) \in Nat /\ DOMAIN s = 1 .. Len(s)
         /\ s \in [1 .. Len(s) -> Elements(s)]
BY LenProperties DEF IsList

(* A function over 1 .. n is a list, and so is every sequence. *)
LEMMA FunctionIsList ==
  ASSUME NEW n \in Nat, NEW S, NEW f \in [1 .. n -> S]
  PROVE  IsList(f) /\ f \in Seq(S) /\ Len(f) = n /\ DOMAIN f = 1 .. n
<1>1. DOMAIN f = 1 .. n /\ f \in [1 .. n -> Elements(f)]
  BY DEF Elements
<1>2. f \in Seq(Elements(f)) /\ f \in Seq(S)
  BY <1>1, SeqDef
<1>3. Len(f) \in Nat /\ DOMAIN f = 1 .. Len(f)
  BY <1>2, LenProperties
<1>4. Len(f) = n
  BY <1>1, <1>3
<1>5. QED
  BY <1>1, <1>2, <1>4 DEF IsList

LEMMA SequenceIsList ==
  ASSUME NEW S, NEW s \in Seq(S)
  PROVE  IsList(s)
<1>1. Len(s) \in Nat /\ s \in [1 .. Len(s) -> S]
  BY LenProperties
<1>2. QED
  BY <1>1, FunctionIsList

LEMMA ListInSeq ==
  ASSUME NEW s, IsList(s), NEW S, \A i \in DOMAIN s : s[i] \in S
  PROVE  s \in Seq(S)
<1>1. Len(s) \in Nat /\ DOMAIN s = 1 .. Len(s) /\ s \in [1 .. Len(s) -> Elements(s)]
  BY ListFacts
<1>2. s \in [1 .. Len(s) -> S]
  BY <1>1
<1>3. QED
  BY <1>1, <1>2, FunctionIsList

LEMMA ListConcat ==
  ASSUME NEW s, IsList(s), NEW t, IsList(t)
  PROVE  /\ IsList(s \o t) /\ Len(s) \in Nat /\ Len(t) \in Nat
         /\ DOMAIN s = 1 .. Len(s) /\ DOMAIN t = 1 .. Len(t)
         /\ Len(s \o t) = Len(s) + Len(t) /\ DOMAIN (s \o t) = 1 .. Len(s) + Len(t)
         /\ \A i \in 1 .. Len(s) : (s \o t)[i] = s[i]
         /\ \A i \in 1 .. Len(t) : (s \o t)[Len(s) + i] = t[i]
         /\ \A i \in 1 .. Len(s) + Len(t) : i > Len(s) =>
              i - Len(s) \in 1 .. Len(t) /\ (s \o t)[i] = t[i - Len(s)]
<1> DEFINE S == Elements(s) \cup Elements(t)
           u == s \o t
<1>1. s \in Seq(S) /\ t \in Seq(S)
  BY SeqMonotonic DEF IsList
<1>2. /\ u \in Seq(S) /\ Len(u) = Len(s) + Len(t)
      /\ \A i \in 1 .. Len(s) + Len(t) :
           u[i] = IF i <= Len(s) THEN s[i] ELSE t[i - Len(s)]
  BY <1>1, ConcatProperties
<1> HIDE DEF u, S
<1>3. /\ Len(s) \in Nat /\ Len(t) \in Nat
      /\ DOMAIN s = 1 .. Len(s) /\ DOMAIN t = 1 .. Len(t)
  BY <1>1, LenProperties
<1>4. DOMAIN u = 1 .. Len(s) + Len(t)
  BY <1>2, LenProperties
<1>5. \A m, n \in Nat : \A i \in 1 .. m : i \in 1 .. m + n /\ i <= m
  OBVIOUS
<1>6. \A m, n \in Nat : \A i \in 1 .. n :
        m + i \in 1 .. m + n /\ ~(m + i <= m) /\ (m + i) - m = i
  OBVIOUS
<1>7. \A m, n \in Nat : \A i \in 1 .. m + n : i > m => i - m \in 1 .. n /\ ~(i <= m)
  OBVIOUS
<1>8. \A i \in 1 .. Len(s) : u[i] = s[i]
  BY <1>2, <1>3, <1>5
<1>9. \A i \in 1 .. Len(t) : u[Len(s) + i] = t[i]
  BY <1>2, <1>3, <1>6
<1>10. \A i \in 1 .. Len(s) + Len(t) : i > Len(s) =>
         i - Len(s) \in 1 .. Len(t) /\ u[i] = t[i - Len(s)]
  BY <1>2, <1>3, <1>7
<1>11. IsList(u)
  BY <1>2, SequenceIsList
<1>12. QED
  BY <1>2, <1>3, <1>4, <1>8, <1>9, <1>10, <1>11 DEF u

LEMMA ListAppend ==
  ASSUME NEW s, IsList(s), NEW e
  PROVE  /\ IsList(Append(s, e)) /\ Len(s) \in Nat /\ DOMAIN s = 1 .. Len(s)
         /\ Len(Append(s, e)) = Len(s) + 1 /\ DOMAIN Append(s, e) = 1 .. Len(s) + 1
         /\ \A i \in 1 .. Len(s) : Append(s, e)[i] = s[i]
         /\ Append(s, e)[Len(s) + 1] = e
<1> DEFINE S == Elements(s) \cup {e}
           t == Append(s, e)
<1>1. s \in Seq(S) /\ e \in S
  BY SeqMonotonic DEF IsList
<1>2. /\ t \in Seq(S) /\ Len(t) = Len(s) + 1
      /\ \A i \in 1 .. Len(s) : t[i] = s[i]
      /\ t[Len(s) + 1] = e
  BY <1>1, AppendProperties
<1> HIDE DEF t, S
<1>3. Len(s) \in Nat /\ DOMAIN s = 1 .. Len(s) /\ DOMAIN t = 1 .. Len(s) + 1 /\ IsList(t)
  BY <1>1, <1>2, LenProperties, SequenceIsList
<1>4. QED
  BY <1>2, <1>3 DEF t

(* The elements at some positions are a list of some of the elements. *)
LEMMA PickIsList ==
  ASSUME NEW s, IsList(s), NEW P \in SUBSET DOMAIN s
  PROVE  /\ IsList(Pick(s, P)) /\ Len(Pick(s, P)) = Cardinality(P)
         /\ Cardinality(P) \in Nat
         /\ \A i \in DOMAIN Pick(s, P) : \E k \in P : Pick(s, P)[i] = s[k]
         /\ \A k \in P : \E i \in DOMAIN Pick(s, P) : Pick(s, P)[i] = s[k]
         /\ \A i, j \in DOMAIN Pick(s, P) : i < j =>
              \E k, l \in P : k < l /\ Pick(s, P)[i] = s[k] /\ Pick(s, P)[j] = s[l]
<1> DEFINE c == Cardinality(P)
<1>1. Len(s) \in Nat /\ P \in SUBSET (1 .. Len(s))
  BY ListFacts
<1>2. /\ c \in Nat
      /\ \E p \in [1 .. c -> P] :
           /\ \A i, j \in 1 .. c : i < j => p[i] < p[j]
           /\ \A k \in P : \E i \in 1 .. c : p[i] = k
           /\ Pick(s, P) = [i \in 1 .. c |-> s[p[i]]]
  <2>1. \A n \in Nat : \A Q \in SUBSET (1 .. n) :
          /\ Cardinality(Q) \in Nat
          /\ \E p \in [1 .. Cardinality(Q) -> Q] :
               /\ \A i, j \in 1 .. Cardinality(Q) : i < j => p[i] < p[j]
               /\ \A k \in Q : \E i \in 1 .. Cardinality(Q) : p[i] = k
               /\ Pick(s, Q) = [i \in 1 .. Cardinality(Q) |-> s[p[i]]]
    BY PickProperties, ZenonT(40)
  <2>2. QED
    BY <1>1, <2>1
<1>3. PICK p \in [1 .. c -> P] :
        /\ \A i, j \in 1 .. c : i < j => p[i] < p[j]
        /\ \A k \in P : \E i \in 1 .. c : p[i] = k
        /\ Pick(s, P) = [i \in 1 .. c |-> s[p[i]]]
  BY <1>2
<1>4. Pick(s, P) \in [1 .. c -> Elements(s)] /\ DOMAIN Pick(s, P) = 1 .. c
  BY <1>3 DEF Elements
<1>5. IsList(Pick(s, P)) /\ Len(Pick(s, P)) = c
  BY <1>2, <1>4, FunctionIsList
<1>6. QED
  BY <1>2, <1>3, <1>4, <1>5

(* A list of two parts has the elements of both, and none of them twice if *)
(* neither part has one twice and they share none.                         *)
AllDiffer(list) == \A i, j \in DOMAIN list : list[i] = list[j] => i = j

LEMMA ElementsOfConcat ==
  ASSUME NEW s, IsList(s), NEW t, IsList(t)
  PROVE  Elements(s \o t) = Elements(s) \cup Elements(t)
<1> DEFINE u == s \o t
<1>1. /\ IsList(u) /\ Len(s) \in Nat /\ Len(t) \in Nat
      /\ DOMAIN s = 1 .. Len(s) /\ DOMAIN t = 1 .. Len(t)
      /\ Len(u) = Len(s) + Len(t) /\ DOMAIN u = 1 .. Len(s) + Len(t)
      /\ \A i \in 1 .. Len(s) : u[i] = s[i]
      /\ \A i \in 1 .. Len(t) : u[Len(s) + i] = t[i]
      /\ \A i \in 1 .. Len(s) + Len(t) : i > Len(s) =>
           i - Len(s) \in 1 .. Len(t) /\ u[i] = t[i - Len(s)]
  BY ListConcat
<1> HIDE DEF u
<1>2. \A m, n \in Nat : /\ \A i \in 1 .. m : i \in 1 .. m + n
                        /\ \A i \in 1 .. n : m + i \in 1 .. m + n
                        /\ \A i \in 1 .. m + n : i > m \/ i \in 1 .. m
  OBVIOUS
<1>3. Elements(u) \subseteq Elements(s) \cup Elements(t)
  BY <1>1, <1>2 DEF Elements
<1>4. Elements(s) \subseteq Elements(u)
  BY <1>1, <1>2 DEF Elements
<1>5. Elements(t) \subseteq Elements(u)
  BY <1>1, <1>2 DEF Elements
<1>6. QED
  BY <1>3, <1>4, <1>5 DEF u

LEMMA ConcatDiffers ==
  ASSUME NEW s, IsList(s), AllDiffer(s), NEW t, IsList(t), AllDiffer(t),
         Elements(s) \cap Elements(t) = {}
  PROVE  AllDiffer(s \o t)
<1> DEFINE u == s \o t
<1>1. /\ IsList(u) /\ Len(s) \in Nat /\ Len(t) \in Nat
      /\ DOMAIN s = 1 .. Len(s) /\ DOMAIN t = 1 .. Len(t)
      /\ Len(u) = Len(s) + Len(t) /\ DOMAIN u = 1 .. Len(s) + Len(t)
      /\ \A i \in 1 .. Len(s) : u[i] = s[i]
      /\ \A i \in 1 .. Len(t) : u[Len(s) + i] = t[i]
      /\ \A i \in 1 .. Len(s) + Len(t) : i > Len(s) =>
           i - Len(s) \in 1 .. Len(t) /\ u[i] = t[i - Len(s)]
  BY ListConcat
<1> HIDE DEF u
<1> SUFFICES ASSUME NEW i \in DOMAIN u, NEW j \in DOMAIN u, u[i] = u[j]
             PROVE  i = j
  BY DEF AllDiffer, u
<1>2. \A m, n \in Nat : \A k \in 1 .. m + n : k \in Int /\ (k > m \/ k \in 1 .. m)
  OBVIOUS
<1>3. \A k \in 1 .. Len(s), l \in 1 .. Len(t) : s[k] # t[l]
  BY <1>1 DEF Elements
<1>4. CASE i \in 1 .. Len(s) /\ j \in 1 .. Len(s)
  BY <1>1, <1>4 DEF AllDiffer
<1>5. CASE i > Len(s) /\ j > Len(s)
  <2>1. i - Len(s) = j - Len(s)
    <3>1. i \in 1 .. Len(s) + Len(t) /\ j \in 1 .. Len(s) + Len(t)
      BY <1>1
    <3>2. /\ i - Len(s) \in 1 .. Len(t) /\ u[i] = t[i - Len(s)]
          /\ j - Len(s) \in 1 .. Len(t) /\ u[j] = t[j - Len(s)]
      BY <1>1, <1>5, <3>1, Zenon
    <3>3. QED
      BY <1>1, <3>2 DEF AllDiffer
  <2>2. QED
    BY <1>1, <1>2, <2>1
<1>6. QED
  BY <1>1, <1>2, <1>3, <1>4, <1>5

(* A list written element by element. *)
LEMMA MapIsList ==
  ASSUME NEW n \in Nat, NEW f, f = [i \in 1 .. n |-> f[i]]
  PROVE  IsList(f) /\ Len(f) = n /\ DOMAIN f = 1 .. n
<1>1. f \in [1 .. n -> {f[i] : i \in 1 .. n}]
  OBVIOUS
<1>2. QED
  BY <1>1, FunctionIsList

LEMMA PickDiffers ==
  ASSUME NEW s, IsList(s), AllDiffer(s), NEW P \in SUBSET DOMAIN s
  PROVE  AllDiffer(Pick(s, P))
<1> DEFINE t == Pick(s, P)
<1>1. /\ IsList(t)
      /\ \A i, j \in DOMAIN t : i < j => \E k, l \in P : k < l /\ t[i] = s[k] /\ t[j] = s[l]
  BY PickIsList
<1>2. DOMAIN s \subseteq Int /\ DOMAIN t \subseteq Int
  BY <1>1, ListFacts
<1> HIDE DEF t
<1>3. \A k, l \in P : k < l => k # l
  BY <1>2
<1>4. \A i, j \in DOMAIN t : i < j => t[i] # t[j]
  BY <1>1, <1>3 DEF AllDiffer
<1>5. \A i, j \in DOMAIN t : i < j \/ j < i \/ i = j
  BY <1>2
<1>6. QED
  BY <1>4, <1>5 DEF AllDiffer, t

(* The places of a pick are the only ascending list of them. *)
Enumerates(p, m, P) ==
  /\ p \in [1 .. m -> P]
  /\ \A i, j \in 1 .. m : i < j => p[i] < p[j]
  /\ \A k \in P : \E i \in 1 .. m : p[i] = k

Along(list, p, m) == [i \in 1 .. m |-> list[p[i]]]

LEMMA PickByPlaces ==
  ASSUME NEW list, NEW n \in Nat, NEW P \in SUBSET (1 .. n),
         NEW m \in Nat, NEW p, Enumerates(p, m, P)
  PROVE  Pick(list, P) = Along(list, p, m)
<1> USE DEF Enumerates, Along
<1>0. /\ Cardinality(P) \in Nat
      /\ \E q \in [1 .. Cardinality(P) -> P] :
           /\ \A i, j \in 1 .. Cardinality(P) : i < j => q[i] < q[j]
           /\ \A k \in P : \E i \in 1 .. Cardinality(P) : q[i] = k
           /\ Pick(list, P) = [i \in 1 .. Cardinality(P) |-> list[q[i]]]
  <2>1. \A l \in Nat : \A Q \in SUBSET (1 .. l) :
          /\ Cardinality(Q) \in Nat
          /\ \E q \in [1 .. Cardinality(Q) -> Q] :
               /\ \A i, j \in 1 .. Cardinality(Q) : i < j => q[i] < q[j]
               /\ \A k \in Q : \E i \in 1 .. Cardinality(Q) : q[i] = k
               /\ Pick(list, Q) = [i \in 1 .. Cardinality(Q) |-> list[q[i]]]
    BY PickProperties, ZenonT(40)
  <2> QED
    BY <2>1
<1>1. PICK q \in [1 .. Cardinality(P) -> P] :
        /\ \A i, j \in 1 .. Cardinality(P) : i < j => q[i] < q[j]
        /\ \A k \in P : \E i \in 1 .. Cardinality(P) : q[i] = k
        /\ Pick(list, P) = [i \in 1 .. Cardinality(P) |-> list[q[i]]]
  BY <1>0
<1>2. Cardinality(P) \in Nat
  BY <1>0
<1> DEFINE c == Cardinality(P)
<1> HIDE DEF c
<1>3. P \in SUBSET Nat
  OBVIOUS
<1>4. \A i \in 1 .. m : Cardinality({k \in P : k < p[i]}) = i - 1
  BY <1>3, PlaceIsRank
<1>5. \A j \in 1 .. c : Cardinality({k \in P : k < q[j]}) = j - 1
  BY <1>1, <1>2, <1>3, PlaceIsRank DEF c
<1>6. \A i \in 1 .. m, j \in 1 .. c : p[i] = q[j] => i = j
  <2> SUFFICES ASSUME NEW i \in 1 .. m, NEW j \in 1 .. c, p[i] = q[j] PROVE i = j
    OBVIOUS
  <2>1. i - 1 = j - 1
    BY <1>4, <1>5
  <2> QED
    BY <1>2, <2>1 DEF c
<1>7. \A i \in 1 .. m : \E j \in 1 .. c : p[i] = q[j]
  BY <1>1 DEF c
<1>8. \A j \in 1 .. c : \E i \in 1 .. m : p[i] = q[j]
  BY <1>1 DEF c
<1>9. \A i : i \in 1 .. m <=> i \in 1 .. c
  <2>1. \A i \in 1 .. m : i \in 1 .. c
    BY <1>6, <1>7
  <2>2. \A i \in 1 .. c : i \in 1 .. m
    BY <1>6, <1>8
  <2> QED
    BY <2>1, <2>2
<1>10. \A i \in 1 .. m : p[i] = q[i]
  BY <1>6, <1>7
<1>11. Pick(list, P) = [i \in 1 .. c |-> list[q[i]]] /\ 1 .. m = 1 .. c
  BY <1>1, <1>9 DEF c
<1> QED
  BY <1>10, <1>11
--------------------------------------------------------------------------------
(* Sorting: a strict total order, and the places of a list in that order.  *)
StrictOrder(R, S) ==
  /\ \A a, b \in S : a = b \/ <<a, b>> \in R \/ <<b, a>> \in R
  /\ \A a \in S : <<a, a>> \notin R
  /\ \A a, b, c \in S : <<a, b>> \in R /\ <<b, c>> \in R => <<a, c>> \in R

Arranges(p, n, R) ==
  /\ p \in [1 .. n -> 1 .. n]
  /\ \A i, j \in 1 .. n : i < j => <<p[i], p[j]>> \in R
  /\ \A k \in 1 .. n : \E i \in 1 .. n : p[i] = k

LEMMA SortedByPlaces ==
  ASSUME NEW s, IsList(s), NEW R, StrictOrder(R, DOMAIN s)
  PROVE  \E p : Arranges(p, Len(s), R) /\ Sorted(s, R) = Along(s, p, Len(s))
<1> DEFINE n == Len(s)
           S == 1 .. n
           down(i) == Cardinality({j \in S : j = i \/ <<j, i>> \in R})
<1>1. n \in Nat /\ DOMAIN s = S
  BY ListFacts
<1> HIDE DEF n
<1>2. IsFiniteSet(S) /\ Cardinality(S) = n
  BY <1>1, FS_Interval
<1>3. /\ \A a, b \in S : a = b \/ <<a, b>> \in R \/ <<b, a>> \in R
      /\ \A a \in S : <<a, a>> \notin R
      /\ \A a, b, c \in S : <<a, b>> \in R /\ <<b, c>> \in R => <<a, c>> \in R
  BY <1>1 DEF StrictOrder
<1>4. \E f \in [1 .. Cardinality(S) -> S] :
        /\ \A i, j \in 1 .. Cardinality(S) : i < j => <<f[i], f[j]>> \in R
        /\ \A a \in S : \E i \in 1 .. Cardinality(S) : f[i] = a
        /\ \A i \in 1 .. Cardinality(S), a \in S :
             Cardinality({b \in S : b = a \/ <<b, a>> \in R}) = i <=> a = f[i]
  <2> HIDE DEF S
  <2>1. QED
    BY <1>2, <1>3, Ranking, ZenonT(40)
<1>5. PICK p \in [1 .. n -> S] :
        /\ \A i, j \in 1 .. n : i < j => <<p[i], p[j]>> \in R
        /\ \A a \in S : \E i \in 1 .. n : p[i] = a
        /\ \A i \in 1 .. n, a \in S : down(a) = i <=> a = p[i]
  BY <1>2, <1>4
<1> DEFINE ranked == {<<i, down(i)>> : i \in S}
<1>6. \A m \in S : (CHOOSE q \in ranked : q[2] = m)[1] = p[m]
  <2> TAKE m \in S
  <2>1. \A i \in S : down(i) = m <=> i = p[m]
    BY <1>5
  <2>2. p[m] \in S
    BY <1>5
  <2> HIDE DEF down
  <2>3. <<p[m], down(p[m])>> \in ranked /\ down(p[m]) = m
    BY <2>1, <2>2
  <2>4. \A q \in ranked : q[2] = m => q[1] = p[m]
    BY <2>1
  <2> HIDE DEF ranked
  <2>5. \E q \in ranked : q[2] = m
    BY <2>3
  <2>6. QED
    BY <2>4, <2>5
<1>7. Sorted(s, R) = [m \in S |-> s[(CHOOSE q \in ranked : q[2] = m)[1]]]
  BY <1>1 DEF Sorted
<1>8. Sorted(s, R) = Along(s, p, n)
  <2> HIDE DEF ranked
  <2>1. QED
    BY <1>6, <1>7 DEF Along
<1>9. Arranges(p, n, R)
  BY <1>5 DEF Arranges
<1>10. QED
  BY <1>8, <1>9 DEF n

(* An arrangement is one to one.                                           *)
LEMMA ArrangedOnce ==
  ASSUME NEW n \in Nat, NEW R, StrictOrder(R, 1 .. n), NEW p, Arranges(p, n, R)
  PROVE  \A i, j \in 1 .. n : p[i] = p[j] => i = j
<1>1. \A i, j \in 1 .. n : i < j => p[i] # p[j]
  BY DEF Arranges, StrictOrder
<1>2. \A i, j \in 1 .. n : i < j \/ j < i \/ i = j
  OBVIOUS
<1>3. QED
  BY <1>1, <1>2
--------------------------------------------------------------------------------
(* The join of a list of lists, one after the other.                       *)
JoinsUpTo(f, lists, m) ==
  f = [n \in 0 .. m |-> IF n = 0 THEN <<>> ELSE f[n - 1] \o lists[n]]

LEMMA JoinIsDefined ==
  ASSUME NEW lists, Len(lists) \in Nat
  PROVE  \E f : JoinsUpTo(f, lists, Len(lists)) /\ Joined(lists) = f[Len(lists)]
<1> DEFINE S == {n \in Nat : \E f : JoinsUpTo(f, lists, n)}
<1>1. 0 \in S
  <2>1. JoinsUpTo([x \in 0 .. 0 |-> <<>>], lists, 0)
    BY DEF JoinsUpTo
  <2>2. QED
    BY <2>1
<1>2. ASSUME NEW n \in Nat, NEW f, JoinsUpTo(f, lists, n)
      PROVE  \E g : JoinsUpTo(g, lists, n + 1)
  <2> DEFINE g == [x \in 0 .. n + 1 |-> IF x = n + 1 THEN f[n] \o lists[n + 1] ELSE f[x]]
  <2>1. \A x \in 0 .. n + 1 : x # 0 => x - 1 \in 0 .. n + 1 /\ x - 1 # n + 1 /\ x - 1 \in 0 .. n
    OBVIOUS
  <2>2. \A x \in 0 .. n : x # n + 1 /\ x \in 0 .. n + 1
    OBVIOUS
  <2>3. \A x \in 0 .. n + 1 : x # n + 1 => x \in 0 .. n
    OBVIOUS
  <2>4. \A x \in 0 .. n + 1 : x # 0 => g[x - 1] = f[x - 1]
    BY <2>1
  <2>5. \A x \in 0 .. n : f[x] = IF x = 0 THEN <<>> ELSE f[x - 1] \o lists[x]
    BY <1>2 DEF JoinsUpTo
  <2>6. \A x \in 0 .. n + 1 : g[x] = IF x = 0 THEN <<>> ELSE g[x - 1] \o lists[x]
    <3> SUFFICES ASSUME NEW x \in 0 .. n + 1
                 PROVE  g[x] = IF x = 0 THEN <<>> ELSE g[x - 1] \o lists[x]
      OBVIOUS
    <3>1. CASE x = n + 1
      <4>1. x # 0 /\ x - 1 = n
        BY <3>1
      <4>2. g[x] = f[n] \o lists[x]
        BY <3>1
      <4>3. QED
        BY <2>4, <4>1, <4>2
    <3>2. CASE x # n + 1
      <4>1. g[x] = f[x] /\ x \in 0 .. n
        BY <2>3, <3>2
      <4>2. QED
        BY <2>4, <2>5, <4>1
    <3>3. QED
      BY <3>1, <3>2
  <2>7. g = [x \in 0 .. n + 1 |-> g[x]]
    OBVIOUS
  <2> HIDE DEF g
  <2>8. JoinsUpTo(g, lists, n + 1)
    BY <2>6, <2>7 DEF JoinsUpTo
  <2>9. QED
    BY <2>8
<1>3. \A n \in Nat : n \in S => n + 1 \in S
  BY <1>2
<1> HIDE DEF S
<1>4. Len(lists) \in S
  BY <1>1, <1>3, Induction
<1>5. \E f : JoinsUpTo(f, lists, Len(lists))
  BY <1>4 DEF S
<1> DEFINE upTo == CHOOSE f : JoinsUpTo(f, lists, Len(lists))
<1>6. JoinsUpTo(upTo, lists, Len(lists))
  BY <1>5
<1>7. Joined(lists) = upTo[Len(lists)]
  BY Zenon DEF Joined, JoinsUpTo
<1>8. QED
  BY <1>6, <1>7

(* What the lists have, and nothing else, is in their join.                *)
LEMMA JoinIsList ==
  ASSUME NEW lists, IsList(lists), \A i \in DOMAIN lists : IsList(lists[i])
  PROVE  /\ IsList(Joined(lists))
         /\ Elements(Joined(lists)) = UNION {Elements(lists[i]) : i \in DOMAIN lists}
<1> DEFINE m == Len(lists)
<1>1. m \in Nat /\ DOMAIN lists = 1 .. m
  BY ListFacts
<1>2. PICK f : JoinsUpTo(f, lists, m) /\ Joined(lists) = f[m]
  BY <1>1, JoinIsDefined
<1> HIDE DEF m
<1>3. \A n \in 0 .. m : f[n] = IF n = 0 THEN <<>> ELSE f[n - 1] \o lists[n]
  BY <1>2 DEF JoinsUpTo
<1> DEFINE Upto(n) == UNION {Elements(lists[i]) : i \in 1 .. n}
           S == {n \in Nat : n <= m => IsList(f[n]) /\ Elements(f[n]) = Upto(n)}
<1>4. 0 \in S
  <2>1. f[0] = <<>>
    BY <1>1, <1>3
  <2>2. IsList(<<>>) /\ Elements(<<>>) = {}
    BY DEF IsList, Elements
  <2>3. Upto(0) = {}
    OBVIOUS
  <2>4. QED
    BY <2>1, <2>2, <2>3
<1>5. ASSUME NEW n \in Nat, n \in S
      PROVE  n + 1 \in S
  <2> SUFFICES ASSUME n + 1 <= m
               PROVE  IsList(f[n + 1]) /\ Elements(f[n + 1]) = Upto(n + 1)
    OBVIOUS
  <2>1. n \in 0 .. m /\ n + 1 \in 0 .. m /\ n + 1 \in 1 .. m /\ n + 1 # 0 /\ (n + 1) - 1 = n
    BY <1>1
  <2>2. f[n + 1] = f[n] \o lists[n + 1]
    BY <1>3, <2>1
  <2>3. IsList(f[n]) /\ Elements(f[n]) = Upto(n)
    BY <1>5, <2>1
  <2>4. IsList(lists[n + 1])
    BY <1>1, <2>1
  <2>5. Upto(n + 1) = Upto(n) \cup Elements(lists[n + 1])
    <3>1. \A i : i \in 1 .. n + 1 <=> i \in 1 .. n \/ i = n + 1
      OBVIOUS
    <3>2. QED
      BY <3>1
  <2> HIDE DEF Upto
  <2>6. IsList(f[n] \o lists[n + 1])
    BY <2>3, <2>4, ListConcat, Zenon
  <2>7. Elements(f[n] \o lists[n + 1]) = Elements(f[n]) \cup Elements(lists[n + 1])
    BY <2>3, <2>4, ElementsOfConcat, Zenon
  <2>8. QED
    BY <2>2, <2>3, <2>5, <2>6, <2>7
<1>6. m \in S
  <2> HIDE DEF S
  <2>1. QED
    BY <1>1, <1>4, <1>5, Induction
<1>7. QED
  BY <1>1, <1>2, <1>6

(* What is left of a list from a place on. *)
Rest(list, i) == SubSeq(list, i, Len(list))

LEMMA RestFacts ==
  ASSUME NEW s, IsList(s), NEW i \in 1 .. Len(s) + 1
  PROVE  /\ IsList(Rest(s, i)) /\ Len(Rest(s, i)) = Len(s) - i + 1
         /\ DOMAIN Rest(s, i) = 1 .. Len(s) - i + 1
         /\ \A k \in 1 .. Len(s) - i + 1 : Rest(s, i)[k] = s[i + k - 1]
         /\ i = 1 => Rest(s, i) = s
         /\ i = Len(s) + 1 => Rest(s, i) = <<>>
         /\ i <= Len(s) =>
              Rest(s, i) # <<>> /\ Rest(s, i)[1] = s[i] /\ Tail(Rest(s, i)) = Rest(s, i + 1)
<1> DEFINE S == Elements(s)
           n == Len(s)
<1>1. n \in Nat /\ DOMAIN s = 1 .. n /\ s \in Seq(S) /\ \A k \in 1 .. n : s[k] \in S
  BY ListFacts DEF IsList, Elements
<1>2. i \in Int /\ \A k \in i .. n : s[k] \in S
  BY <1>1
<1>3. /\ Rest(s, i) \in Seq(S) /\ Len(Rest(s, i)) = IF i <= n THEN n - i + 1 ELSE 0
      /\ \A k \in 1 .. n - i + 1 : Rest(s, i)[k] = s[i + k - 1]
  <2> HIDE DEF S
  <2>1. /\ SubSeq(s, i, n) \in Seq(S)
        /\ Len(SubSeq(s, i, n)) = IF i <= n THEN n - i + 1 ELSE 0
        /\ \A k \in 1 .. n - i + 1 : SubSeq(s, i, n)[k] = s[i + k - 1]
    <3> HIDE DEF n
    <3>1. QED
      BY <1>1, <1>2, SubSeqProperties
  <2>2. QED
    BY <2>1 DEF Rest
<1>4. IsList(Rest(s, i)) /\ DOMAIN Rest(s, i) = 1 .. Len(Rest(s, i))
  <2> HIDE DEF S
  <2>1. IsList(Rest(s, i))
    BY <1>3, SequenceIsList
  <2>2. QED
    BY <2>1, ListFacts
<1>5. Len(Rest(s, i)) = n - i + 1
  <2> HIDE DEF n
  <2>1. QED
    BY <1>1, <1>3
<1>6. i = 1 => Rest(s, i) = s
  <2> HIDE DEF S
  <2>1. SubSeq(s, 1, Len(s)) = s
    BY <1>1, SubSeqFull
  <2>2. QED
    BY <2>1 DEF Rest
<1>7. i = n + 1 => Rest(s, i) = <<>>
  <2>1. n < n + 1 /\ n + 1 \in Int
    BY <1>1
  <2>2. SubSeq(s, n + 1, n) = <<>>
    <3> HIDE DEF n
    <3>1. QED
      BY <1>1, <2>1, SubSeqEmpty
  <2>3. QED
    BY <2>2 DEF Rest
<1>8. ASSUME i <= n
      PROVE  Rest(s, i) # <<>> /\ Rest(s, i)[1] = s[i] /\ Tail(Rest(s, i)) = Rest(s, i + 1)
  <2> HIDE DEF S
  <2>1. i \in 1 .. n /\ n \in i .. n /\ 1 \in 1 .. n - i + 1 /\ i + 1 - 1 = i
    BY <1>1, <1>8
  <2>2. Tail(SubSeq(s, i, n)) = SubSeq(s, i + 1, n)
    <3> HIDE DEF n
    <3>1. QED
      BY <1>1, <2>1, HeadTailOfSubSeq
  <2>3. Rest(s, i)[1] = s[i]
    BY <1>3, <2>1
  <2>4. Rest(s, i) # <<>>
    <3>1. Len(Rest(s, i)) > 0
      BY <1>1, <1>5, <2>1
    <3>2. QED
      BY <3>1
  <2>5. QED
    BY <2>2, <2>3, <2>4 DEF Rest
<1> HIDE DEF S
<1>9. QED
  BY <1>3, <1>4, <1>5, <1>6, <1>7, <1>8

LEMMA ConcatFirst ==
  ASSUME NEW s, IsList(s), NEW t, IsList(t), s # <<>>
  PROVE  /\ s \o t # <<>> /\ (s \o t)[1] = s[1] /\ Tail(s \o t) = Tail(s) \o t
         /\ IsList(Tail(s)) /\ Len(s) \in Nat /\ Len(Tail(s)) = Len(s) - 1
         /\ \A i \in 1 .. Len(s) - 1 : Tail(s)[i] = s[i + 1]
<1> DEFINE S == Elements(s) \cup Elements(t)
<1>1. s \in Seq(S) /\ t \in Seq(S)
  <2>1. s \in Seq(Elements(s)) /\ t \in Seq(Elements(t))
    BY DEF IsList
  <2>2. QED
    BY <2>1, SeqMonotonic
<1> HIDE DEF S
<1>2. /\ Tail(s) \in Seq(S) /\ Len(Tail(s)) = Len(s) - 1
      /\ \A i \in 1 .. Len(Tail(s)) : Tail(s)[i] = s[i + 1]
  BY <1>1, HeadTailProperties
<1>3. /\ s \o t \in Seq(S) /\ Len(s \o t) = Len(s) + Len(t)
      /\ \A i \in 1 .. Len(s) + Len(t) : (s \o t)[i] = IF i <= Len(s) THEN s[i] ELSE t[i - Len(s)]
  BY <1>1, ConcatProperties
<1>4. /\ Tail(s) \o t \in Seq(S) /\ Len(Tail(s) \o t) = Len(Tail(s)) + Len(t)
      /\ \A i \in 1 .. Len(Tail(s)) + Len(t) :
           (Tail(s) \o t)[i] = IF i <= Len(Tail(s)) THEN Tail(s)[i] ELSE t[i - Len(Tail(s))]
  BY <1>1, <1>2, ConcatProperties
<1>5. Len(s) \in Nat /\ Len(t) \in Nat /\ Len(s) # 0
  BY <1>1, EmptySeq
<1>6. s \o t # <<>>
  BY <1>3, <1>5
<1>7. /\ Tail(s \o t) \in Seq(S) /\ Len(Tail(s \o t)) = Len(s \o t) - 1
      /\ \A i \in 1 .. Len(Tail(s \o t)) : Tail(s \o t)[i] = (s \o t)[i + 1]
  BY <1>3, <1>6, HeadTailProperties
<1>8. (s \o t)[1] = s[1]
  BY <1>3, <1>5
<1> DEFINE l == Len(s)
           k == Len(t)
           a == Tail(s \o t)
           b == Tail(s) \o t
<1>9. Len(a) = l + k - 1 /\ Len(b) = l + k - 1 /\ l \in Nat /\ k \in Nat /\ l > 0
  BY <1>2, <1>3, <1>4, <1>5, <1>7
<1>10. ASSUME NEW i \in 1 .. l + k - 1
       PROVE  a[i] = b[i]
  <2>1. a[i] = (s \o t)[i + 1]
    BY <1>7, <1>9
  <2>2. i + 1 \in 1 .. l + k
    BY <1>9
  <2>3. (s \o t)[i + 1] = IF i + 1 <= l THEN s[i + 1] ELSE t[i + 1 - l]
    BY <1>3, <2>2
  <2>4. b[i] = IF i <= l - 1 THEN Tail(s)[i] ELSE t[i - (l - 1)]
    <3>1. i \in 1 .. Len(Tail(s)) + Len(t)
      BY <1>2, <1>9
    <3>2. QED
      BY <1>2, <1>4, <3>1
  <2>5. i <= l - 1 => Tail(s)[i] = s[i + 1]
    BY <1>2, <1>9
  <2>6. (i + 1 <= l <=> i <= l - 1) /\ i + 1 - l = i - (l - 1)
    BY <1>9
  <2> HIDE DEF a, b, l, k
  <2>7. QED
    BY <2>1, <2>3, <2>4, <2>5, <2>6
<1>11. a = b
  <2>1. a \in Seq(S) /\ b \in Seq(S) /\ Len(a) = Len(b)
    BY <1>4, <1>7, <1>9
  <2>2. \A i \in 1 .. Len(a) : a[i] = b[i]
    BY <1>9, <1>10
  <2> HIDE DEF a, b
  <2>3. QED
    BY <2>1, <2>2, SeqEqual
<1>12. IsList(Tail(s))
  BY <1>2, SequenceIsList
<1> HIDE DEF l, k
<1>13. QED
  BY <1>2, <1>5, <1>6, <1>8, <1>11, <1>12

LEMMA ConcatNothing ==
  ASSUME NEW t, IsList(t)
  PROVE  <<>> \o t = t /\ t \o <<>> = t /\ IsList(<<>>) /\ Len(<<>>) = 0
<1>1. t \in Seq(Elements(t)) /\ <<>> \in Seq({}) /\ Len(<<>>) = 0
  BY DEF IsList
<1>2. QED
  BY <1>1, ConcatEmptySeq, SequenceIsList

LEMMA ConcatInTurn ==
  ASSUME NEW s, IsList(s), NEW t, IsList(t), NEW u, IsList(u)
  PROVE  (s \o t) \o u = s \o (t \o u)
<1> DEFINE S == Elements(s) \cup Elements(t) \cup Elements(u)
<1>1. s \in Seq(S) /\ t \in Seq(S) /\ u \in Seq(S)
  <2>1. s \in Seq(Elements(s)) /\ t \in Seq(Elements(t)) /\ u \in Seq(Elements(u))
    BY DEF IsList
  <2>2. QED
    BY <2>1, SeqMonotonic
<1> HIDE DEF S
<1>2. QED
  BY <1>1, ConcatAssociative

LEMMA JoinOfNothing == Joined(<<>>) = <<>>
<1>1. Len(<<>>) \in Nat /\ Len(<<>>) = 0
  OBVIOUS
<1>2. PICK f : JoinsUpTo(f, <<>>, Len(<<>>)) /\ Joined(<<>>) = f[Len(<<>>)]
  BY <1>1, JoinIsDefined
<1>3. f[0] = <<>>
  <2>1. f = [n \in 0 .. 0 |-> IF n = 0 THEN <<>> ELSE f[n - 1] \o (<<>>)[n]]
    BY <1>1, <1>2 DEF JoinsUpTo
  <2>2. QED
    BY <2>1
<1>4. QED
  BY <1>1, <1>2, <1>3

(* The join begins with the first list. *)
LEMMA JoinFirst ==
  ASSUME NEW lists, IsList(lists), \A i \in DOMAIN lists : IsList(lists[i]), lists # <<>>
  PROVE  Joined(lists) = lists[1] \o Joined(Tail(lists))
<1> DEFINE m == Len(lists)
           others == Tail(lists)
<1>1. m \in Nat /\ m > 0 /\ DOMAIN lists = 1 .. m
  <2>1. lists \in Seq(Elements(lists))
    BY DEF IsList
  <2>2. Len(lists) # 0
    BY <2>1, EmptySeq
  <2>3. QED
    BY <2>1, <2>2, ListFacts
<1>2. IsList(others) /\ Len(others) = m - 1 /\ \A i \in 1 .. m - 1 : others[i] = lists[i + 1]
  BY ConcatFirst
<1> HIDE DEF others
<1>3. PICK f : JoinsUpTo(f, lists, m) /\ Joined(lists) = f[m]
  BY <1>1, JoinIsDefined
<1>4. PICK g : JoinsUpTo(g, others, Len(others)) /\ Joined(others) = g[Len(others)]
  BY <1>1, <1>2, JoinIsDefined
<1> HIDE DEF m
<1>5. \A n \in 0 .. m : f[n] = IF n = 0 THEN <<>> ELSE f[n - 1] \o lists[n]
  BY <1>3 DEF JoinsUpTo
<1>6. \A n \in 0 .. m - 1 : g[n] = IF n = 0 THEN <<>> ELSE g[n - 1] \o others[n]
  BY <1>2, <1>4 DEF JoinsUpTo
<1> DEFINE G(n) == IsList(g[n]) /\ f[n + 1] = lists[1] \o g[n]
           S == {n \in Nat : n <= m - 1 => G(n)}
<1>7. G(0)
  <2>1. g[0] = <<>> /\ f[0] = <<>>
    BY <1>1, <1>5, <1>6
  <2>2. f[1] = f[0] \o lists[1]
    <3>1. 1 \in 0 .. m /\ 1 # 0 /\ 1 - 1 = 0
      BY <1>1
    <3>2. f[1] = f[1 - 1] \o lists[1]
      BY <1>5, <3>1
    <3>3. QED
      BY <3>1, <3>2
  <2>3. IsList(lists[1])
    BY <1>1
  <2>4. lists[1] \o <<>> = lists[1] /\ <<>> \o lists[1] = lists[1] /\ IsList(<<>>)
    BY <2>3, ConcatNothing
  <2>5. 0 + 1 = 1
    OBVIOUS
  <2>6. QED
    BY <2>1, <2>2, <2>4, <2>5
<1>8. ASSUME NEW n \in Nat, G(n), n + 1 <= m - 1
      PROVE  G(n + 1)
  <2>1. IsList(g[n]) /\ f[n + 1] = lists[1] \o g[n]
    BY <1>8
  <2>2. /\ n + 1 \in 1 .. m - 1 /\ n + 1 \in 0 .. m - 1 /\ n + 1 # 0 /\ (n + 1) - 1 = n
        /\ (n + 1) + 1 \in 0 .. m /\ (n + 1) + 1 # 0 /\ ((n + 1) + 1) - 1 = n + 1
        /\ (n + 1) + 1 \in 1 .. m
    BY <1>1, <1>8
  <2>3. g[n + 1] = g[n] \o others[n + 1] /\ others[n + 1] = lists[(n + 1) + 1]
    BY <1>2, <1>6, <2>2
  <2>4. f[(n + 1) + 1] = f[n + 1] \o lists[(n + 1) + 1]
    BY <1>5, <2>2
  <2>5. IsList(lists[(n + 1) + 1]) /\ IsList(lists[1])
    BY <1>1, <2>2
  <2>6. IsList(g[n] \o lists[(n + 1) + 1])
    BY <2>1, <2>5, ListConcat, Zenon
  <2>7. (lists[1] \o g[n]) \o lists[(n + 1) + 1] = lists[1] \o (g[n] \o lists[(n + 1) + 1])
    <3> DEFINE a == lists[1]
               b == g[n]
               c == lists[(n + 1) + 1]
    <3>1. IsList(a) /\ IsList(b) /\ IsList(c)
      BY <2>1, <2>5
    <3> HIDE DEF a, b, c
    <3>2. (a \o b) \o c = a \o (b \o c)
      BY <3>1, ConcatInTurn
    <3>3. QED
      BY <3>2 DEF a, b, c
  <2>8. QED
    BY <2>1, <2>3, <2>4, <2>6, <2>7
<1> HIDE DEF G
<1>9. G(m - 1)
  <2>1. \A n \in Nat : n \in S => n + 1 \in S
    BY <1>1, <1>8
  <2>2. m - 1 \in Nat /\ m - 1 <= m - 1
    BY <1>1
  <2>3. 0 \in S
    BY <1>7
  <2>4. m - 1 \in S
    <3> HIDE DEF S
    <3>1. QED
      BY <2>1, <2>2, <2>3, Induction
  <2>5. QED
    BY <2>2, <2>4
<1>10. f[m] = lists[1] \o g[m - 1]
  <2>1. (m - 1) + 1 = m
    BY <1>1
  <2>2. QED
    BY <1>9, <2>1 DEF G
<1>11. QED
  BY <1>2, <1>3, <1>4, <1>10 DEF others

(* The join of what is left of a list of lists. *)
LEMMA JoinRest ==
  ASSUME NEW lists, IsList(lists), \A i \in DOMAIN lists : IsList(lists[i]),
         NEW i \in 1 .. Len(lists) + 1
  PROVE  /\ IsList(Joined(Rest(lists, i)))
         /\ i = 1 => Joined(Rest(lists, i)) = Joined(lists)
         /\ i = Len(lists) + 1 => Joined(Rest(lists, i)) = <<>>
         /\ i <= Len(lists) =>
              /\ i \in DOMAIN lists
              /\ Joined(Rest(lists, i)) = lists[i] \o Joined(Rest(lists, i + 1))
<1> DEFINE rest == Rest(lists, i)
           m == Len(lists)
<1>1. m \in Nat /\ DOMAIN lists = 1 .. m
  BY ListFacts
<1>2. /\ IsList(rest) /\ DOMAIN rest = 1 .. m - i + 1
      /\ \A k \in 1 .. m - i + 1 : rest[k] = lists[i + k - 1]
      /\ i = 1 => rest = lists
      /\ i = m + 1 => rest = <<>>
      /\ i <= m => rest # <<>> /\ rest[1] = lists[i] /\ Tail(rest) = Rest(lists, i + 1)
  BY RestFacts
<1> HIDE DEF rest, m
<1>3. \A k \in DOMAIN rest : IsList(rest[k])
  <2>1. \A k \in 1 .. m - i + 1 : i + k - 1 \in 1 .. m
    BY <1>1
  <2>2. QED
    BY <1>1, <1>2, <2>1
<1>4. IsList(Joined(rest))
  BY <1>2, <1>3, JoinIsList
<1>5. i = m + 1 => Joined(rest) = <<>>
  BY <1>2, JoinOfNothing
<1>6. ASSUME i <= m
      PROVE  i \in DOMAIN lists /\ Joined(rest) = lists[i] \o Joined(Rest(lists, i + 1))
  <2>1. Joined(rest) = rest[1] \o Joined(Tail(rest))
    BY <1>2, <1>3, <1>6, JoinFirst
  <2>2. i \in 1 .. m
    BY <1>1, <1>6 DEF m
  <2>3. QED
    BY <1>1, <1>2, <1>6, <2>1, <2>2
<1>7. QED
  BY <1>2, <1>4, <1>5, <1>6 DEF rest, m

LEMMA PartOfList ==
  ASSUME NEW s, IsList(s), NEW k \in 1 .. Len(s) + 1, NEW l \in 0 .. Len(s), k <= l + 1
  PROVE  /\ IsList(SubSeq(s, k, l)) /\ Len(SubSeq(s, k, l)) = l - k + 1
         /\ \A i \in 1 .. l - k + 1 : SubSeq(s, k, l)[i] = s[k + i - 1]
         /\ Elements(SubSeq(s, k, l)) \subseteq Elements(s)
<1>1. Len(s) \in Nat /\ DOMAIN s = 1 .. Len(s) /\ \A i \in 1 .. Len(s) : s[i] \in Elements(s)
  BY ListFacts DEF Elements
<1>2. \A i \in k .. l : s[i] \in Elements(s)
  BY <1>1
<1>3. k \in Int /\ l \in Int
  BY <1>1
<1>4. /\ SubSeq(s, k, l) \in Seq(Elements(s))
      /\ Len(SubSeq(s, k, l)) = IF k <= l THEN l - k + 1 ELSE 0
      /\ \A i \in 1 .. l - k + 1 : SubSeq(s, k, l)[i] = s[k + i - 1]
  BY <1>2, <1>3, SubSeqProperties
<1>5. Len(SubSeq(s, k, l)) = l - k + 1
  BY <1>1, <1>4
<1>6. IsList(SubSeq(s, k, l))
  BY <1>4, SequenceIsList
<1> DEFINE t == SubSeq(s, k, l)
<1> HIDE DEF t
<1>7. Elements(t) \subseteq Elements(s)
  <2>1. t \in Seq(Elements(s))
    BY <1>4 DEF t
  <2>2. \A i \in DOMAIN t : t[i] \in Elements(s)
    BY <2>1
  <2>3. QED
    BY <2>2 DEF Elements
<1>8. QED
  BY <1>4, <1>5, <1>6, <1>7 DEF t

LEMMA SameList ==
  ASSUME NEW s, IsList(s), NEW t, IsList(t), Len(s) = Len(t),
         \A i \in 1 .. Len(s) : s[i] = t[i]
  PROVE  s = t
<1> DEFINE S == Elements(s) \cup Elements(t)
<1>1. s \in Seq(S) /\ t \in Seq(S)
  <2>1. s \in Seq(Elements(s)) /\ t \in Seq(Elements(t))
    BY DEF IsList
  <2>2. QED
    BY <2>1, SeqMonotonic
<1> HIDE DEF S
<1>2. QED
  BY <1>1, SeqEqual

(* A list in two parts, cut where they meet. *)
LEMMA PartsOfConcat ==
  ASSUME NEW s, IsList(s), NEW t, IsList(t)
  PROVE  /\ SubSeq(s \o t, 1, Len(s)) = s
         /\ SubSeq(s \o t, Len(s) + 1, Len(s \o t)) = t
<1> DEFINE u == s \o t
           n == Len(s)
           m == Len(t)
<1>1. /\ IsList(u) /\ n \in Nat /\ m \in Nat /\ Len(u) = n + m
      /\ \A i \in 1 .. n : u[i] = s[i]
      /\ \A i \in 1 .. m : u[n + i] = t[i]
  BY ListConcat
<1> HIDE DEF u
<1>2. SubSeq(u, 1, n) = s
  <2>1. 1 \in 1 .. Len(u) + 1 /\ n \in 0 .. Len(u) /\ 1 <= n + 1 /\ n - 1 + 1 = n
    BY <1>1
  <2>2. /\ IsList(SubSeq(u, 1, n)) /\ Len(SubSeq(u, 1, n)) = n - 1 + 1
        /\ \A i \in 1 .. n - 1 + 1 : SubSeq(u, 1, n)[i] = u[1 + i - 1]
    <3> HIDE DEF n
    <3>1. QED
      BY <1>1, <2>1, PartOfList
  <2>3. \A i \in 1 .. n : 1 + i - 1 = i
    BY <1>1
  <2> DEFINE part == SubSeq(u, 1, n)
  <2>4. IsList(part) /\ Len(part) = Len(s) /\ \A i \in 1 .. Len(part) : part[i] = s[i]
    BY <1>1, <2>1, <2>2, <2>3
  <2> HIDE DEF part
  <2>5. part = s
    BY <2>4, SameList
  <2>6. QED
    BY <2>5 DEF part
<1>3. SubSeq(u, n + 1, Len(u)) = t
  <2>1. /\ n + 1 \in 1 .. Len(u) + 1 /\ Len(u) \in 0 .. Len(u) /\ n + 1 <= Len(u) + 1
        /\ Len(u) - (n + 1) + 1 = m
    BY <1>1
  <2>2. /\ IsList(SubSeq(u, n + 1, Len(u))) /\ Len(SubSeq(u, n + 1, Len(u))) = Len(u) - (n + 1) + 1
        /\ \A i \in 1 .. Len(u) - (n + 1) + 1 : SubSeq(u, n + 1, Len(u))[i] = u[(n + 1) + i - 1]
    <3> HIDE DEF n
    <3>1. QED
      BY <1>1, <2>1, PartOfList
  <2>3. \A i \in 1 .. m : (n + 1) + i - 1 = n + i
    BY <1>1
  <2> DEFINE part == SubSeq(u, n + 1, Len(u))
  <2>4. IsList(part) /\ Len(part) = Len(t) /\ \A i \in 1 .. Len(part) : part[i] = t[i]
    BY <1>1, <2>1, <2>2, <2>3
  <2> HIDE DEF part
  <2>5. part = t
    BY <2>4, SameList
  <2>6. QED
    BY <2>5 DEF part
<1>4. QED
  BY <1>2, <1>3 DEF u

LEMMA CountedWithin ==
  ASSUME NEW n \in Nat, NEW P, P \subseteq 1 .. n
  PROVE  Cardinality(P) \in 0 .. n
<1>1. IsFiniteSet(1 .. n) /\ Cardinality(1 .. n) = n
  <2>1. /\ IsFiniteSet(1 .. n)
        /\ Cardinality(1 .. n) = IF 1 > n THEN 0 ELSE n - 1 + 1
    BY FS_Interval
  <2>2. QED
    BY <2>1
<1>2. IsFiniteSet(P) /\ Cardinality(P) <= n
  BY <1>1, FS_Subset
<1>3. Cardinality(P) \in Nat
  BY <1>2, FS_CardinalityType
<1>4. QED
  BY <1>2, <1>3
================================================================================
