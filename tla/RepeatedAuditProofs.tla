------------------------- MODULE RepeatedAuditProofs -------------------------
(***************************************************************************)
(* An audit never feeds on its own output: for all repositories, contents  *)
(* and configurations, and any number of audits, edits and derived results *)
(* in between - if every output directory inside the repository is the one *)
(* that is ignored, which only the spelling "~" can prevent.               *)
(*                                                                         *)
(* The proof finds the function that an audit computes: from the world     *)
(* outside its output directory and the command, to the indexed files; and *)
(* shows of this function that it indexes what was configured.             *)
(***************************************************************************)
EXTENDS RepeatedAudit, ListLemmas

IgnoredWhereWritten ==
  \A d \in OutputDirs : InRepo(WriteDir(d)) => ExpandedDir(d) = WriteDir(d)

IgnoredIsWritten ==
  \A d \in OutputDirs : InRepo(WriteDir(d)) \/ InRepo(ExpandedDir(d)) =>
                          ExpandedDir(d) = WriteDir(d)

(* The configuration _audit_config makes. *)
ConfigFor(file, d, options) ==
  [ConfigurationOf(Repo, file, options) EXCEPT !.ignorePaths = @ \cup IgnorePaths(d)]

Visible(p, config) ==
  /\ InRepo(p) /\ Walked(p, config) /\ InFocus(p, config)
  /\ Kind(p) \in {"text", "large"} /\ Size(p) <= config.maxFileBytes

(* What an audit computes from what it may depend on. *)
ResultOf(world, d, options) ==
  [p \in {p \in DOMAIN world.files : Visible(p, ConfigFor(world.own, d, options))} |->
     world.files[p]]

Numbered ==
  /\ IsList(results)
  /\ \A i, j \in DOMAIN results : results[i] = results[j] => i = j

Explained(entry) ==
  /\ entry.result \in DOMAIN results
  /\ results[entry.result] = ResultOf(entry.world, entry.dir, entry.options)

LogExplained == IsList(log) /\ \A i \in DOMAIN log : Explained(log[i])

(* What an audit was given, and that it saw all sources but its own output. *)
Recorded(entry) ==
  /\ entry.dir \in OutputDirs /\ entry.options \in CommandLines
  /\ entry.world.own \in OwnFiles
  /\ ConfigurationOf(Repo, entry.world.own, entry.options) # None
  /\ \A p \in DOMAIN SourceFiles :
       p \in DOMAIN entry.world.files <=> ~InOutput(p, entry.dir)

LogRecorded == \A i \in DOMAIN log : Recorded(log[i])

SourcesStay == DOMAIN SourceFiles \subseteq DOMAIN fs /\ own \in OwnFiles

IInv == Numbered /\ LogExplained /\ LogRecorded /\ SourcesStay
-------------------------------------------------------------------------------
(* Only the spelling "~" makes the ignored directory differ from the one   *)
(* that is written.                                                        *)
LEMMA OnlyTildeDiffers ==
  (\A d \in OutputDirs : d.base # "home") => IgnoredWhereWritten /\ IgnoredIsWritten
<1> QED
  BY DEF IgnoredWhereWritten, IgnoredIsWritten, ExpandedDir

(* Prefixes of lists, place by place. *)
LEMMA PrefixMeans ==
  ASSUME NEW s, IsList(s), NEW t, IsList(t)
  PROVE  IsPrefix(s, t) <=> Len(s) <= Len(t) /\ \A i \in 1 .. Len(s) : s[i] = t[i]
<1> DEFINE n == Len(s)
<1>1. s \in Seq(Elements(s)) /\ t \in Seq(Elements(t))
  BY DEF IsList
<1>2. n \in Nat /\ DOMAIN s = 1 .. n /\ Len(t) \in Nat /\ DOMAIN t = 1 .. Len(t)
  BY ListFacts
<1>3. SubSeq(s, 1, n) = s
  BY <1>1, SubSeqFull
<1>4. ASSUME n <= Len(t)
      PROVE  SubSeq(t, 1, n) = s <=> \A i \in 1 .. n : s[i] = t[i]
  <2>1. \A i \in 1 .. n : t[i] \in Elements(t)
    BY <1>2, <1>4 DEF Elements
  <2>2. /\ SubSeq(t, 1, n) \in Seq(Elements(t))
        /\ Len(SubSeq(t, 1, n)) = IF 1 <= n THEN n - 1 + 1 ELSE 0
        /\ \A i \in 1 .. n - 1 + 1 : SubSeq(t, 1, n)[i] = t[1 + i - 1]
    BY <1>2, <2>1, SubSeqProperties
  <2> DEFINE u == SubSeq(t, 1, n)
  <2>3. Len(u) = n /\ \A i \in 1 .. n : u[i] = t[i]
    BY <1>2, <2>2
  <2>4. u \in [1 .. n -> Elements(t)] /\ s \in [1 .. n -> Elements(s)]
    BY <1>1, <2>2, <2>3, LenProperties
  <2> HIDE DEF u
  <2>5. u = s <=> \A i \in 1 .. n : s[i] = t[i]
    BY <2>3, <2>4
  <2> QED
    BY <2>5 DEF u
<1> QED
  BY <1>3, <1>4 DEF IsPrefix

(* Lists that agree at every place. *)
LEMMA ListsAgree ==
  ASSUME NEW s, IsList(s), NEW t, IsList(t),
         Len(s) = Len(t), \A i \in 1 .. Len(s) : s[i] = t[i]
  PROVE  s = t
<1>1. s \in [1 .. Len(s) -> Elements(s)] /\ t \in [1 .. Len(t) -> Elements(t)]
  BY ListFacts
<1> QED
  BY <1>1

(* The end of a list. *)
LEMMA EndOfList ==
  ASSUME NEW s, IsList(s), NEW n \in Nat, n <= Len(s)
  PROVE  /\ IsList(SubSeq(s, n + 1, Len(s)))
         /\ Len(SubSeq(s, n + 1, Len(s))) = Len(s) - n
         /\ DOMAIN SubSeq(s, n + 1, Len(s)) = 1 .. Len(s) - n
         /\ \A i \in 1 .. Len(s) - n : SubSeq(s, n + 1, Len(s))[i] = s[n + i]
<1>1. Len(s) \in Nat /\ \A i \in (n + 1) .. Len(s) : s[i] \in Elements(s)
  BY ListFacts DEF Elements
<1>2. /\ SubSeq(s, n + 1, Len(s)) \in Seq(Elements(s))
      /\ Len(SubSeq(s, n + 1, Len(s))) = IF n + 1 <= Len(s) THEN Len(s) - (n + 1) + 1 ELSE 0
      /\ \A i \in 1 .. Len(s) - (n + 1) + 1 : SubSeq(s, n + 1, Len(s))[i] = s[n + 1 + i - 1]
  <2>1. n + 1 \in Int /\ Len(s) \in Int
    BY <1>1
  <2> QED
    BY <1>1, <2>1, SubSeqProperties
<1> DEFINE u == SubSeq(s, n + 1, Len(s))
<1>3. IsList(u) /\ DOMAIN u = 1 .. Len(u)
  BY <1>2, SequenceIsList, ListFacts
<1> HIDE DEF u
<1>4. Len(u) = Len(s) - n
  BY <1>1, <1>2 DEF u
<1>5. \A i \in 1 .. Len(s) - n : u[i] = s[n + i]
  BY <1>1, <1>2 DEF u
<1> QED
  BY <1>3, <1>4, <1>5 DEF u

(* The list without its last element. *)
LEMMA FrontOfList ==
  ASSUME NEW s, IsList(s), Len(s) # 0
  PROVE  /\ IsList(Front(s)) /\ Len(Front(s)) = Len(s) - 1
         /\ DOMAIN Front(s) = 1 .. Len(s) - 1
         /\ \A i \in 1 .. Len(s) - 1 : Front(s)[i] = s[i]
<1>1. Len(s) \in Nat /\ \A i \in 1 .. Len(s) - 1 : s[i] \in Elements(s)
  BY ListFacts DEF Elements
<1>2. /\ Front(s) \in Seq(Elements(s))
      /\ Len(Front(s)) = IF 1 <= Len(s) - 1 THEN Len(s) - 1 - 1 + 1 ELSE 0
      /\ \A i \in 1 .. Len(s) - 1 - 1 + 1 : Front(s)[i] = s[1 + i - 1]
  <2>1. 1 \in Int /\ Len(s) - 1 \in Int
    BY <1>1
  <2> QED
    BY <1>1, <2>1, SubSeqProperties DEF Front
<1>3. IsList(Front(s)) /\ DOMAIN Front(s) = 1 .. Len(Front(s))
  BY <1>2, SequenceIsList, ListFacts
<1> DEFINE n == Len(s)
<1>4. n \in Nat /\ n # 0
  BY <1>1
<1>5. /\ Len(Front(s)) = IF 1 <= n - 1 THEN n - 1 - 1 + 1 ELSE 0
      /\ \A i \in 1 .. n - 1 - 1 + 1 : Front(s)[i] = s[1 + i - 1]
  BY <1>2
<1> HIDE DEF n
<1>6. Len(Front(s)) = n - 1
  BY <1>4, <1>5
<1>7. \A i \in 1 .. n - 1 : Front(s)[i] = s[i]
  BY <1>4, <1>5
<1> QED
  BY <1>3, <1>6, <1>7 DEF n

LEMMA ListEnds ==
  ASSUME NEW s, IsList(s), Len(s) # 0
  PROVE  s = Append(Front(s), s[Len(s)])
<1> DEFINE n == Len(s)
           t == Append(Front(s), s[n])
<1>1. n \in Nat
  BY ListFacts
<1>2. /\ IsList(Front(s)) /\ Len(Front(s)) = n - 1
      /\ \A i \in 1 .. n - 1 : Front(s)[i] = s[i]
  BY FrontOfList
<1>3. /\ IsList(t) /\ Len(t) = (n - 1) + 1 /\ t[(n - 1) + 1] = s[n]
      /\ \A i \in 1 .. n - 1 : t[i] = Front(s)[i]
  BY <1>2, ListAppend
<1> HIDE DEF n, t
<1>4. Len(t) = n /\ t[n] = s[n] /\ \A i \in 1 .. n - 1 : t[i] = s[i]
  BY <1>1, <1>2, <1>3
<1>5. \A i \in 1 .. n : t[i] = s[i]
  BY <1>1, <1>4
<1> QED
  BY <1>3, <1>4, <1>5, ListsAgree DEF n, t

-------------------------------------------------------------------------------
(* Entries of the configuration, and the paths they spell.                 *)
IsEmpty(part) == part = ""
IsNamed(part) == part # "" /\ part # "."

LEMMA EmptyIsNoName == \A part : IsEmpty(part) => ~IsNamed(part)
BY DEF IsEmpty, IsNamed

LEMMA SpelledPlaces ==
  \A s : Spelled(s) = Pick(s, {i \in DOMAIN s : IsNamed(s[i])})
BY DEF Spelled, IsNamed

(* Spelling keeps an entry of names as it is. *)
LEMMA SpelledNames ==
  ASSUME NEW s, IsList(s), \A i \in DOMAIN s : IsNamed(s[i])
  PROVE  Spelled(s) = s
<1>1. Len(s) \in Nat /\ DOMAIN s = 1 .. Len(s) /\ s \in [1 .. Len(s) -> Elements(s)]
  BY ListFacts
<1> DEFINE p == [i \in 1 .. Len(s) |-> i]
<1>2. {i \in DOMAIN s : IsNamed(s[i])} = 1 .. Len(s)
  BY <1>1
<1>3. Pick(s, 1 .. Len(s)) = Along(s, p, Len(s))
  <2>1. Enumerates(p, Len(s), 1 .. Len(s))
    BY DEF Enumerates
  <2>2. 1 .. Len(s) \in SUBSET (1 .. Len(s)) /\ Len(s) \in Nat
    BY <1>1
  <2> HIDE DEF p
  <2> QED
    BY <2>1, <2>2, PickByPlaces
<1>4. Along(s, p, Len(s)) = s
  BY <1>1 DEF Along
<1> QED
  BY <1>2, <1>3, <1>4, SpelledPlaces

(* What is spelled consists of names, and is made of the entry's parts. *)
LEMMA SpelledIsNamed ==
  ASSUME NEW s, IsList(s)
  PROVE  /\ IsList(Spelled(s))
         /\ \A i \in DOMAIN Spelled(s) : IsNamed(Spelled(s)[i])
<1> DEFINE P == {i \in DOMAIN s : IsNamed(s[i])}
<1>1. P \in SUBSET DOMAIN s
  OBVIOUS
<1>2. /\ IsList(Pick(s, P)) /\ Len(Pick(s, P)) = Cardinality(P)
      /\ Cardinality(P) \in Nat
      /\ \A i \in DOMAIN Pick(s, P) : \E k \in P : Pick(s, P)[i] = s[k]
  <2> HIDE DEF P
  <2> QED
    BY <1>1, PickIsList
<1>3. Spelled(s) = Pick(s, P)
  BY SpelledPlaces
<1>4. \A k \in P : IsNamed(s[k])
  OBVIOUS
<1> HIDE DEF P
<1> QED
  BY <1>2, <1>3, <1>4

(* Nothing is spelled by parts that are no names at the beginning ... *)
LEMMA SpelledFromEnd ==
  ASSUME NEW s, IsList(s), NEW n \in Nat, n <= Len(s), \A i \in 1 .. n : ~IsNamed(s[i])
  PROVE  Spelled(SubSeq(s, n + 1, Len(s))) = Spelled(s)
<1> DEFINE t == SubSeq(s, n + 1, Len(s))
           P == {i \in DOMAIN s : IsNamed(s[i])}
           Q == {i \in DOMAIN t : IsNamed(t[i])}
<1>1. /\ IsList(t) /\ Len(t) = Len(s) - n /\ DOMAIN t = 1 .. Len(s) - n
      /\ \A i \in 1 .. Len(s) - n : t[i] = s[n + i]
  BY EndOfList
<1>2. Len(s) \in Nat /\ DOMAIN s = 1 .. Len(s)
  BY ListFacts
<1> HIDE DEF t
<1> DEFINE m == Len(s)
<1>0. m \in Nat /\ DOMAIN s = 1 .. m /\ DOMAIN t = 1 .. m - n /\ Len(t) = m - n /\ n <= m
  BY <1>1, <1>2
<1> HIDE DEF m
<1>3. \A i \in P : i \in Nat /\ n < i /\ i - n \in Q
  <2> SUFFICES ASSUME NEW i \in P PROVE i \in Nat /\ n < i /\ i - n \in Q
    OBVIOUS
  <2>1. i \in 1 .. m /\ IsNamed(s[i])
    BY <1>0
  <2>2. ~(i \in 1 .. n)
    BY <2>1
  <2>3. i \in Nat /\ n < i /\ i - n \in 1 .. m - n /\ n + (i - n) = i
    BY <1>0, <2>1, <2>2
  <2>4. t[i - n] = s[i]
    BY <1>1, <2>3 DEF m
  <2> QED
    BY <1>0, <2>1, <2>3, <2>4
<1>4. \A i \in Q : i \in Nat /\ n + i \in P
  <2> SUFFICES ASSUME NEW i \in Q PROVE i \in Nat /\ n + i \in P
    OBVIOUS
  <2>1. i \in 1 .. m - n /\ IsNamed(t[i])
    BY <1>0
  <2>2. t[i] = s[n + i]
    BY <1>1, <2>1 DEF m
  <2>3. i \in Nat /\ n + i \in 1 .. m
    BY <1>0, <2>1
  <2> QED
    BY <1>0, <2>1, <2>2, <2>3
<1>5. P \in SUBSET (1 .. Len(s)) /\ Q \in SUBSET (1 .. Len(t)) /\ Len(t) \in Nat
  <2>1. P \subseteq DOMAIN s /\ Q \subseteq DOMAIN t
    OBVIOUS
  <2>2. m - n \in Nat
    BY <1>0
  <2> HIDE DEF P, Q
  <2> QED
    BY <1>0, <2>1, <2>2 DEF m
<1> HIDE DEF P, Q
<1>6. /\ Cardinality(P) \in Nat
      /\ \E p \in [1 .. Cardinality(P) -> P] :
           /\ \A i, j \in 1 .. Cardinality(P) : i < j => p[i] < p[j]
           /\ \A k \in P : \E i \in 1 .. Cardinality(P) : p[i] = k
           /\ Pick(s, P) = [i \in 1 .. Cardinality(P) |-> s[p[i]]]
  <2>1. \A l \in Nat : \A R \in SUBSET (1 .. l) :
          /\ Cardinality(R) \in Nat
          /\ \E p \in [1 .. Cardinality(R) -> R] :
               /\ \A i, j \in 1 .. Cardinality(R) : i < j => p[i] < p[j]
               /\ \A k \in R : \E i \in 1 .. Cardinality(R) : p[i] = k
               /\ Pick(s, R) = [i \in 1 .. Cardinality(R) |-> s[p[i]]]
    BY PickProperties, ZenonT(40)
  <2> QED
    BY <1>2, <1>5, <2>1
<1> DEFINE c == Cardinality(P)
<1> HIDE DEF c
<1>7. PICK p \in [1 .. c -> P] :
        /\ \A i, j \in 1 .. c : i < j => p[i] < p[j]
        /\ \A k \in P : \E i \in 1 .. c : p[i] = k
        /\ Pick(s, P) = [i \in 1 .. c |-> s[p[i]]]
  BY <1>6 DEF c
<1> DEFINE q == [i \in 1 .. c |-> p[i] - n]
<1>8. q \in [1 .. c -> Q]
  BY <1>3
<1>9. \A i, j \in 1 .. c : i < j => q[i] < q[j]
  BY <1>3, <1>7
<1>10. \A k \in Q : \E i \in 1 .. c : q[i] = k
  <2> SUFFICES ASSUME NEW k \in Q PROVE \E i \in 1 .. c : q[i] = k
    OBVIOUS
  <2>1. k \in Nat /\ n + k \in P
    BY <1>4
  <2>2. PICK i \in 1 .. c : p[i] = n + k
    BY <1>7, <2>1
  <2>3. q[i] = k
    BY <2>1, <2>2
  <2> QED
    BY <2>3
<1>11. \A i \in 1 .. c : t[q[i]] = s[p[i]]
  <2> SUFFICES ASSUME NEW i \in 1 .. c PROVE t[q[i]] = s[p[i]]
    OBVIOUS
  <2>1. p[i] \in P /\ p[i] \in Nat /\ q[i] = p[i] - n /\ q[i] \in Q
    BY <1>3, <1>8
  <2>2. q[i] \in 1 .. Len(s) - n
    BY <1>1, <1>5, <2>1
  <2>3. n + q[i] = p[i]
    BY <2>1
  <2> QED
    BY <1>1, <2>2, <2>3
<1> HIDE DEF q
<1>12. c \in Nat
  BY <1>6 DEF c
<1>13. Pick(t, Q) = Along(t, q, c)
  <2>1. Enumerates(q, c, Q)
    BY <1>8, <1>9, <1>10 DEF Enumerates
  <2> QED
    BY <1>5, <1>12, <2>1, PickByPlaces
<1>14. Pick(t, Q) = Pick(s, P)
  BY <1>7, <1>11, <1>13 DEF Along
<1> QED
  BY <1>14, SpelledPlaces DEF t, P, Q

(* ... or by an empty part at the end. *)
LEMMA SpelledFront ==
  ASSUME NEW s, IsList(s), Len(s) # 0, IsEmpty(s[Len(s)]),
         \A i \in 1 .. Len(s) - 1 : IsNamed(s[i])
  PROVE  Spelled(s) = Front(s)
<1> DEFINE n == Len(s) - 1
           p == [i \in 1 .. n |-> i]
<1>0. Len(s) \in Nat /\ DOMAIN s = 1 .. Len(s)
  BY ListFacts
<1>1. n \in Nat /\ Len(s) = n + 1 /\ DOMAIN s = 1 .. n + 1
  BY <1>0
<1>2. {i \in DOMAIN s : IsNamed(s[i])} = 1 .. n
  <2>1. ~IsNamed(s[n + 1]) /\ \A i \in 1 .. n : IsNamed(s[i])
    BY <1>1, EmptyIsNoName
  <2> HIDE DEF n
  <2> QED
    BY <1>1, <2>1
<1>3. Pick(s, 1 .. n) = Along(s, p, n)
  <2>1. Enumerates(p, n, 1 .. n)
    BY <1>1 DEF Enumerates
  <2>2. 1 .. n \in SUBSET (1 .. n) /\ n \in Nat
    BY <1>1
  <2> HIDE DEF p, n
  <2> QED
    BY <2>1, <2>2, PickByPlaces
<1>4. /\ IsList(Front(s)) /\ Len(Front(s)) = n
      /\ \A i \in 1 .. n : Front(s)[i] = s[i]
  BY FrontOfList
<1>5. Front(s) \in [1 .. n -> Elements(Front(s))]
  BY <1>4, ListFacts
<1>6. Along(s, p, n) = Front(s)
  BY <1>4, <1>5 DEF Along
<1> QED
  BY <1>2, <1>3, <1>6, SpelledPlaces

(* What is left of an entry without the "./" it starts with. *)
IsDot(part) == part = "."

LEMMA DotIsNoName == \A part : /\ IsDot(part) => ~IsNamed(part)
                               /\ ~IsDot(part) /\ ~IsEmpty(part) => IsNamed(part)
BY DEF IsDot, IsNamed, IsEmpty

Dots(entry, n) ==
  /\ \A i \in 1 .. n : entry[i] = "."
  /\ n = Len(entry) - 1 \/ entry[n + 1] # "."

LEMMA DotsAre ==
  \A entry, n : Dots(entry, n) <=> /\ \A i \in 1 .. n : IsDot(entry[i])
                                   /\ n = Len(entry) - 1 \/ ~IsDot(entry[n + 1])
BY DEF Dots, IsDot

LEMMA DotsAreFinite ==
  ASSUME NEW e, IsList(e), Len(e) # 0
  PROVE  \E n \in 0 .. Len(e) - 1 : Dots(e, n)
<1> DEFINE m == Len(e) - 1
           S == {n \in Nat : n = m \/ ~IsDot(e[n + 1])}
<1>1. Len(e) \in Nat
  BY ListFacts
<1>2. m \in Nat
  BY <1>1
<1>3. \E n \in S : \A k \in S : n <= k
  <2>1. S \in SUBSET Nat /\ S # {}
    BY <1>2
  <2> HIDE DEF S
  <2> QED
    BY <2>1, LeastElement
<1>4. PICK n \in S : \A k \in S : n <= k
  BY <1>3
<1>5. n \in 0 .. m
  <2>1. m \in S /\ n \in Nat
    BY <1>2
  <2>2. n <= m
    BY <1>4, <2>1
  <2> HIDE DEF m
  <2> QED
    BY <1>2, <2>1, <2>2
<1>6. \A i \in 1 .. n : IsDot(e[i])
  <2> SUFFICES ASSUME NEW i \in 1 .. n, ~IsDot(e[i]) PROVE FALSE
    OBVIOUS
  <2>1. i - 1 \in Nat /\ (i - 1) + 1 = i /\ n \in Nat /\ ~(n <= i - 1)
    OBVIOUS
  <2>2. i - 1 \in S
    BY <2>1
  <2> QED
    BY <1>4, <2>1, <2>2
<1>7. n = m \/ ~IsDot(e[n + 1])
  OBVIOUS
<1> QED
  BY <1>5, <1>6, <1>7, DotsAre

LEMMA RestOfEntry ==
  ASSUME NEW e, IsList(e), Len(e) # 0
  PROVE  \E n \in 0 .. Len(e) - 1 : Dots(e, n) /\ WithoutDots(e) = SubSeq(e, n + 1, Len(e))
<1> DEFINE n == CHOOSE n \in 0 .. Len(e) - 1 : Dots(e, n)
<1>1. n \in 0 .. Len(e) - 1 /\ Dots(e, n)
  BY DotsAreFinite
<1>2. WithoutDots(e) = SubSeq(e, n + 1, Len(e))
  BY DEF WithoutDots, Dots
<1> QED
  BY <1>1, <1>2

LEMMA WithoutDotsFacts ==
  ASSUME NEW e, IsList(e), Len(e) # 0
  PROVE  /\ IsList(WithoutDots(e))
         /\ Len(e) \in Nat /\ Len(WithoutDots(e)) \in Nat
         /\ Len(WithoutDots(e)) # 0 /\ Len(WithoutDots(e)) <= Len(e)
         /\ WithoutDots(e)[Len(WithoutDots(e))] = e[Len(e)]
         /\ ~IsDot(WithoutDots(e)[1]) \/ Len(WithoutDots(e)) = 1
         /\ Spelled(WithoutDots(e)) = Spelled(e)
         /\ ~IsDot(e[1]) \/ Len(e) = 1 => WithoutDots(e) = e
<1> DEFINE m == Len(e)
<1>1. PICK n \in 0 .. Len(e) - 1 :
        Dots(e, n) /\ WithoutDots(e) = SubSeq(e, n + 1, Len(e))
  BY RestOfEntry
<1>2. m \in Nat /\ m # 0
  BY ListFacts
<1>3. n \in Nat /\ n < m
  BY <1>2
<1> DEFINE rest == SubSeq(e, n + 1, Len(e))
<1>4. /\ IsList(rest) /\ Len(rest) = m - n /\ DOMAIN rest = 1 .. m - n
      /\ \A i \in 1 .. m - n : rest[i] = e[n + i]
  BY <1>2, <1>3, EndOfList
<1>5. /\ \A i \in 1 .. n : IsDot(e[i])
      /\ n = m - 1 \/ ~IsDot(e[n + 1])
  BY <1>1, DotsAre
<1>6. Spelled(rest) = Spelled(e)
  <2>1. \A i \in 1 .. n : ~IsNamed(e[i])
    BY <1>5, DotIsNoName
  <2>2. n <= Len(e)
    BY <1>2, <1>3
  <2> QED
    BY <1>3, <2>1, <2>2, SpelledFromEnd
<1> HIDE DEF rest, m
<1>7. Len(rest) \in Nat /\ Len(rest) # 0 /\ Len(rest) <= m
  BY <1>2, <1>3, <1>4
<1>8. rest[Len(rest)] = e[m]
  <2>1. m - n \in 1 .. m - n /\ n + (m - n) = m
    BY <1>2, <1>3
  <2> QED
    BY <1>4, <2>1
<1>9. ~IsDot(rest[1]) \/ Len(rest) = 1
  <2>1. CASE n = m - 1
    BY <1>2, <1>3, <1>4, <2>1
  <2>2. CASE ~IsDot(e[n + 1])
    <3>1. 1 \in 1 .. m - n
      BY <1>2, <1>3
    <3> QED
      BY <1>4, <2>2, <3>1
  <2> QED
    BY <1>5, <2>1, <2>2
<1>10. ASSUME ~IsDot(e[1]) \/ m = 1
       PROVE  rest = e
  <2>1. n = 0
    <3>1. CASE m = 1
      BY <1>3, <3>1
    <3>2. CASE ~IsDot(e[1])
      BY <1>3, <1>5, <3>2
    <3> QED
      BY <1>10, <3>1, <3>2
  <2>2. Len(rest) = m /\ \A i \in 1 .. m : rest[i] = e[i]
    BY <1>2, <1>4, <2>1
  <2> QED
    BY <1>4, <2>2, ListsAgree DEF m
<1> QED
  BY <1>1, <1>2, <1>4, <1>6, <1>7, <1>8, <1>9, <1>10 DEF rest, m

(* "./" and ".//x" are the entries that are left with an empty part first.  *)
LEMMA RootMeans ==
  \A entry : FromRoot(entry) <=>
    \E n \in DOMAIN entry : IsEmpty(entry[n]) /\ \A i \in 1 .. n - 1 : IsDot(entry[i])
BY DEF FromRoot, IsEmpty, IsDot

LEMMA EmptyIsNoDot == \A part : IsEmpty(part) => ~IsDot(part)
BY DEF IsEmpty, IsDot

LEMMA FromRootFacts ==
  ASSUME NEW e, IsList(e), Len(e) # 0
  PROVE  FromRoot(e) <=> IsEmpty(WithoutDots(e)[1])
<1> DEFINE m == Len(e)
           rest == WithoutDots(e)
<1>1. PICK n \in 0 .. Len(e) - 1 : Dots(e, n) /\ rest = SubSeq(e, n + 1, Len(e))
  BY RestOfEntry
<1>2. m \in Nat /\ m # 0 /\ DOMAIN e = 1 .. m
  BY ListFacts
<1>3. n \in Nat /\ n < m /\ n + 1 \in DOMAIN e /\ (n + 1) - 1 = n
  BY <1>2
<1>4. rest[1] = e[n + 1]
  <2>1. \A i \in 1 .. m - n : rest[i] = e[n + i]
    BY <1>1, <1>2, <1>3, EndOfList
  <2>2. 1 \in 1 .. m - n
    BY <1>2, <1>3
  <2> QED
    BY <2>1, <2>2
<1>5. /\ \A i \in 1 .. n : IsDot(e[i])
      /\ n = m - 1 \/ ~IsDot(e[n + 1])
  BY <1>1, DotsAre
<1> HIDE DEF rest, m
<1>6. ASSUME IsEmpty(e[n + 1]) PROVE FromRoot(e)
  BY <1>3, <1>5, <1>6, RootMeans
<1>7. ASSUME FromRoot(e) PROVE IsEmpty(e[n + 1])
  <2>1. PICK k \in DOMAIN e : IsEmpty(e[k]) /\ \A i \in 1 .. k - 1 : IsDot(e[i])
    BY <1>7, RootMeans
  <2>2. ~(k <= n)
    <3> SUFFICES ASSUME k <= n PROVE FALSE
      OBVIOUS
    <3>1. k \in 1 .. n
      BY <1>2, <1>3
    <3> QED
      BY <1>5, <2>1, <3>1, EmptyIsNoDot
  <2>3. ~(n + 1 < k)
    <3> SUFFICES ASSUME n + 1 < k PROVE FALSE
      OBVIOUS
    <3>1. n + 1 \in 1 .. k - 1 /\ n # m - 1
      BY <1>2, <1>3
    <3> QED
      BY <1>5, <2>1, <3>1
  <2>4. k = n + 1
    BY <1>2, <1>3, <2>2, <2>3
  <2> QED
    BY <2>1, <2>4
<1> QED
  BY <1>4, <1>6, <1>7 DEF rest

(* Source files and their paths relative to the repository. *)
LEMMA SourcePaths ==
  ASSUME NEW p \in DOMAIN SourceFiles
  PROVE  /\ IsList(Repo) /\ IsList(p) /\ IsPrefix(Repo, p) /\ InRepo(p)
         /\ Len(Repo) \in Nat /\ Len(p) \in Nat /\ Len(Repo) < Len(p)
         /\ IsList(Relative(p)) /\ Len(Relative(p)) = Len(p) - Len(Repo)
         /\ DOMAIN Relative(p) = 1 .. Len(p) - Len(Repo)
         /\ \A i \in DOMAIN Relative(p) :
              Relative(p)[i] = p[Len(Repo) + i] /\ IsNamed(Relative(p)[i])
<1>1. IsPath(Repo) /\ IsPath(p) /\ IsStrictPrefix(Repo, p)
  BY RepeatedAuditAssumption
<1>2. IsList(Repo) /\ IsList(p)
  BY <1>1, SequenceIsList DEF IsPath
<1>3. IsPrefix(Repo, p) /\ Repo # p
  BY <1>1 DEF IsStrictPrefix
<1>4. \A i \in DOMAIN p : IsNamed(p[i])
  BY <1>1 DEF IsPath, IsNamed
<1>5. Len(Repo) \in Nat /\ Len(p) \in Nat /\ DOMAIN p = 1 .. Len(p)
  BY <1>2, ListFacts
<1>6. Len(Repo) < Len(p)
  <2>1. Len(Repo) <= Len(p) /\ \A i \in 1 .. Len(Repo) : Repo[i] = p[i]
    BY <1>2, <1>3, PrefixMeans
  <2>2. Len(Repo) # Len(p)
    BY <1>2, <1>3, <2>1, ListsAgree
  <2> QED
    BY <1>5, <2>1, <2>2
<1> DEFINE r == Relative(p)
<1>7. /\ IsList(r) /\ Len(r) = Len(p) - Len(Repo) /\ DOMAIN r = 1 .. Len(p) - Len(Repo)
      /\ \A i \in 1 .. Len(p) - Len(Repo) : r[i] = p[Len(Repo) + i]
  <2>1. Len(Repo) \in Nat /\ Len(Repo) <= Len(p)
    BY <1>5, <1>6
  <2> QED
    BY <1>2, <2>1, EndOfList DEF Relative
<1> HIDE DEF r
<1>8. \A i \in DOMAIN r : r[i] = p[Len(Repo) + i] /\ IsNamed(r[i])
  <2> SUFFICES ASSUME NEW i \in 1 .. Len(p) - Len(Repo)
               PROVE  r[i] = p[Len(Repo) + i] /\ IsNamed(r[i])
    BY <1>7
  <2>1. Len(Repo) + i \in DOMAIN p
    BY <1>5
  <2> QED
    BY <1>4, <1>7, <2>1
<1> QED
  BY <1>1, <1>2, <1>3, <1>5, <1>6, <1>7, <1>8 DEF r, InRepo

(* How the configuration keeps an entry. *)
LEMMA NormalizedFacts ==
  ASSUME NEW e, IsEntry(e)
  PROVE  /\ IsList(e) /\ Len(e) # 0 /\ Len(e) \in Nat
         /\ IsList(Normalized(e)) /\ Len(Normalized(e)) # 0 /\ Len(Normalized(e)) \in Nat
         /\ WithoutDots(Normalized(e)) = Normalized(e)
         /\ \/ Normalized(e) = WithoutDots(e)
            \/ /\ Len(Normalized(e)) = 2
               /\ IsEmpty(Normalized(e)[1]) /\ IsEmpty(Normalized(e)[2])
               /\ Len(WithoutDots(e)) = 1 /\ IsEmpty(WithoutDots(e)[1])
<1> DEFINE rest == WithoutDots(e)
           n == Normalized(e)
<1>1. IsList(e) /\ e # <<>>
  BY SequenceIsList DEF IsEntry
<1>2. Len(e) # 0 /\ Len(e) \in Nat
  <2>1. e \in Seq(Elements(e))
    BY <1>1 DEF IsList
  <2> QED
    BY <1>1, <2>1, EmptySeq, LenProperties
<1>3. /\ IsList(rest) /\ Len(rest) \in Nat /\ Len(rest) # 0
      /\ ~IsDot(rest[1]) \/ Len(rest) = 1
  BY <1>1, <1>2, WithoutDotsFacts
<1>4. CASE rest = <<"">>
  <2> DEFINE pair == <<"", "">>
  <2>1. n = pair
    BY <1>4 DEF Normalized
  <2>2. Len(pair) = 2 /\ IsList(pair) /\ IsEmpty(pair[1]) /\ IsEmpty(pair[2])
    <3>1. \A x : /\ Len(<<x, x>>) = 2 /\ <<x, x>> \in Seq({x})
                 /\ <<x, x>>[1] = x /\ <<x, x>>[2] = x
      OBVIOUS
    <3>2. \A x : Len(<<x, x>>) = 2 /\ IsList(<<x, x>>) /\ <<x, x>>[1] = x /\ <<x, x>>[2] = x
      BY <3>1, SequenceIsList
    <3> QED
      BY <3>2, Zenon DEF IsEmpty
  <2>3. Len(rest) = 1 /\ IsEmpty(rest[1])
    <3>1. \A x : Len(<<x>>) = 1 /\ <<x>>[1] = x
      OBVIOUS
    <3> QED
      BY <1>4, <3>1, Zenon DEF IsEmpty
  <2> HIDE DEF pair, n, rest
  <2>4. ~IsDot(pair[1])
    BY <2>2, Zenon DEF IsEmpty, IsDot
  <2>5. Len(pair) # 0 /\ Len(pair) \in Nat
    BY <2>2
  <2>6. WithoutDots(pair) = pair
    BY <2>2, <2>4, <2>5, WithoutDotsFacts
  <2> QED
    BY <1>1, <1>2, <2>1, <2>2, <2>3, <2>5, <2>6 DEF n, rest
<1>5. CASE rest # <<"">>
  <2>1. n = rest
    BY <1>5, Zenon DEF Normalized
  <2>2. WithoutDots(rest) = rest
    <3> HIDE DEF rest
    <3> QED
      BY <1>3, WithoutDotsFacts
  <2> QED
    BY <1>1, <1>2, <1>3, <2>1, <2>2
<1> QED
  BY <1>4, <1>5

LEMMA SlashFacts ==
  \A s : /\ StartsAbsolute(s) <=> Len(s) > 1 /\ IsEmpty(s[1])
         /\ EndsInSlash(s) <=> Len(s) > 1 /\ IsEmpty(s[Len(s)])
BY Zenon DEF StartsAbsolute, EndsInSlash, IsEmpty, Last

(* A tidy entry is a list of names, or one with a slash at its end. *)
LEMMA TidyFacts ==
  ASSUME NEW e, IsEntry(e), IsTidy(e)
  PROVE  LET rest == WithoutDots(e) IN
         \/ \A i \in 1 .. Len(rest) : IsNamed(rest[i])
         \/ /\ Len(rest) > 1 /\ IsEmpty(rest[Len(rest)])
            /\ \A i \in 1 .. Len(rest) - 1 : IsNamed(rest[i])
<1> DEFINE rest == WithoutDots(e)
           names == Spelled(rest)
<1>1. IsList(rest) /\ Len(rest) \in Nat /\ Len(rest) # 0
  BY NormalizedFacts, WithoutDotsFacts
<1>2. \E x : /\ IsEmpty(x)
             /\ \/ rest = names
                \/ rest = Append(names, x) /\ Len(rest) > 1
  BY Zenon DEF IsTidy, IsEmpty
<1> HIDE DEF rest
<1>3. IsList(names) /\ \A i \in DOMAIN names : IsNamed(names[i])
  BY <1>1, SpelledIsNamed
<1> HIDE DEF names
<1>4. Len(names) \in Nat /\ DOMAIN names = 1 .. Len(names)
  BY <1>3, ListFacts
<1>5. CASE rest = names
  BY <1>3, <1>4, <1>5 DEF rest
<1>6. ASSUME NEW x, IsEmpty(x), rest = Append(names, x), Len(rest) > 1
      PROVE  /\ Len(rest) > 1 /\ IsEmpty(rest[Len(rest)])
             /\ \A i \in 1 .. Len(rest) - 1 : IsNamed(rest[i])
  <2>1. /\ Len(rest) = Len(names) + 1 /\ rest[Len(names) + 1] = x
        /\ \A i \in 1 .. Len(names) : rest[i] = names[i]
    BY <1>3, <1>6, ListAppend
  <2>2. Len(rest) - 1 = Len(names)
    BY <1>4, <2>1
  <2> QED
    BY <1>3, <1>4, <1>6, <2>1, <2>2
<1> QED
  BY <1>2, <1>5, <1>6 DEF rest

(* What is ignored is what lies under the path an entry spells, from the   *)
(* root of the file system if it is left with an empty part first.         *)
LEMMA IgnoredEntry ==
  ASSUME NEW e, IsEntry(e), NEW p
  PROVE  Under(p, Resolved(Repo, Normalized(e))) <=> Ignores(e, p)
<1> DEFINE n == Normalized(e)
           rest == WithoutDots(e)
<1>1. /\ IsList(e) /\ Len(e) # 0 /\ IsList(n) /\ Len(n) \in Nat /\ Len(n) # 0
      /\ \/ n = rest
         \/ /\ Len(n) = 2 /\ IsEmpty(n[1]) /\ IsEmpty(n[2])
            /\ Len(rest) = 1 /\ IsEmpty(rest[1])
  BY NormalizedFacts
<1>2. /\ Spelled(rest) = Spelled(e) /\ Len(rest) \in Nat /\ Len(rest) # 0
      /\ IsList(rest)
  BY <1>1, WithoutDotsFacts
<1>3. FromRoot(e) <=> IsEmpty(rest[1])
  BY <1>1, FromRootFacts
<1>4. Resolved(Repo, n) = IF StartsAbsolute(n) THEN Spelled(n) ELSE Repo \o Spelled(n)
  <2>1. {i \in DOMAIN n : n[i] \notin {"", "."}} = {i \in DOMAIN n : n[i] # "" /\ n[i] # "."}
    BY Zenon
  <2> HIDE DEF n
  <2> QED
    BY <2>1, Zenon DEF Resolved, Spelled
<1> HIDE DEF n, rest
<1>6. Spelled(n) = Spelled(e)
  <2>1. CASE n = rest
    BY <1>2, <2>1
  <2>2. CASE ~(n = rest)
    <3>1. /\ Len(n) = 2 /\ IsEmpty(n[1]) /\ IsEmpty(n[2])
          /\ Len(rest) = 1 /\ IsEmpty(rest[1])
      BY <1>1, <2>2
    <3>2. DOMAIN n = 1 .. 2 /\ DOMAIN rest = 1 .. 1
      BY <1>1, <1>2, <3>1, ListFacts
    <3>3. {i \in DOMAIN n : IsNamed(n[i])} = {} /\ {i \in DOMAIN rest : IsNamed(rest[i])} = {}
      BY <3>1, <3>2, EmptyIsNoName
    <3>4. \A s, t : Pick(s, {}) = Pick(t, {})
      <4>1. Cardinality({}) = 0
        BY FS_EmptySet
      <4> QED
        BY <4>1 DEF Pick
    <3>5. Spelled(n) = Pick(n, {}) /\ Spelled(rest) = Pick(rest, {})
      BY <3>3, SpelledPlaces
    <3> QED
      BY <1>2, <3>4, <3>5
  <2> QED
    BY <2>1, <2>2
<1>7. StartsAbsolute(n) <=> FromRoot(e)
  <2>0. StartsAbsolute(n) <=> Len(n) > 1 /\ IsEmpty(n[1])
    BY SlashFacts
  <2>1. CASE n = rest /\ ~(Len(n) = 1 /\ IsEmpty(n[1]))
    <3>1. IsEmpty(n[1]) => Len(n) # 1
      BY <2>1
    <3>2. \A l \in Nat : l # 0 /\ l # 1 => l > 1
      OBVIOUS
    <3>3. IsEmpty(n[1]) => Len(n) > 1
      BY <1>1, <3>1, <3>2
    <3> QED
      BY <1>3, <2>0, <2>1, <3>3
  <2>2. CASE n = rest /\ Len(n) = 1 /\ IsEmpty(n[1])
    <3>1. n = <<n[1]>>
      <4>1. \A x : Len(<<x>>) = 1 /\ <<x>> \in Seq({x}) /\ <<x>>[1] = x
        OBVIOUS
      <4>2. \A x : Len(<<x>>) = 1 /\ IsList(<<x>>) /\ <<x>>[1] = x
        BY <4>1, SequenceIsList
      <4>3. \A i \in 1 .. 1 : i = 1
        OBVIOUS
      <4>4. \A x : x = n[1] => n = <<x>>
        BY <1>1, <2>2, <4>2, <4>3, ListsAgree
      <4> QED
        BY <4>4
    <3>2. n = <<"">>
      BY <2>2, <3>1, Zenon DEF IsEmpty
    <3>3. n = Normalized(e) /\ rest = WithoutDots(e)
      BY DEF n, rest
    <3>4. n = <<"", "">>
      BY <2>2, <3>2, <3>3, Zenon DEF Normalized
    <3>5. Len(n) = 2
      BY <3>4
    <3> QED
      BY <2>2, <3>5
  <2>3. CASE ~(n = rest)
    BY <1>1, <1>3, <2>3, SlashFacts
  <2> QED
    BY <2>1, <2>2, <2>3
<1>8. <<>> \o Spelled(e) = Spelled(e)
  <2>1. IsList(Spelled(e))
    BY <1>1, SpelledIsNamed
  <2> QED
    BY <2>1, ConcatNothing
<1> QED
  BY <1>4, <1>6, <1>7, <1>8 DEF Ignores, n

(* A focus entry finds what it spells if it is tidy, and else nothing.     *)
LEMMA FocusEntry ==
  ASSUME NEW e, IsEntry(e), NEW p \in DOMAIN SourceFiles
  PROVE  MatchesEntry(Relative(p), Normalized(e)) <=> IsTidy(e) /\ Names(e, p)
<1> DEFINE n == Normalized(e)
           rest == WithoutDots(e)
           r == Relative(p)
<1>1. /\ IsList(e) /\ Len(e) # 0 /\ IsList(n) /\ Len(n) \in Nat /\ Len(n) # 0
      /\ WithoutDots(n) = n
      /\ \/ n = rest
         \/ /\ Len(n) = 2 /\ IsEmpty(n[1]) /\ IsEmpty(n[2])
            /\ Len(rest) = 1 /\ IsEmpty(rest[1])
  BY NormalizedFacts
<1>2. /\ IsList(rest) /\ Len(e) \in Nat /\ Len(rest) \in Nat
      /\ Len(rest) # 0 /\ Len(rest) <= Len(e)
      /\ rest[Len(rest)] = e[Len(e)] /\ Spelled(rest) = Spelled(e)
  BY <1>1, WithoutDotsFacts
<1>3. IsList(r) /\ \A i \in 1 .. Len(r) : IsNamed(r[i])
  <2>1. IsList(r) /\ \A i \in DOMAIN r : IsNamed(r[i])
    BY SourcePaths
  <2> HIDE DEF r
  <2> QED
    BY <2>1, ListFacts
<1>4. MatchesEntry(r, n) <=> IF EndsInSlash(n) THEN IsStrictPrefix(Front(n), r) ELSE IsPrefix(n, r)
  BY <1>1 DEF MatchesEntry
<1>5. Names(e, p) <=> IF EndsInSlash(e) THEN IsStrictPrefix(Spelled(e), r) ELSE IsPrefix(Spelled(e), r)
  BY DEF Names
<1> HIDE DEF n, rest, r
<1>6. DOMAIN n = 1 .. Len(n) /\ DOMAIN rest = 1 .. Len(rest)
  BY <1>1, <1>2, ListFacts
(* a slash at the end, after names *)
<1>7. ASSUME Len(rest) > 1, IsEmpty(rest[Len(rest)]),
             \A i \in 1 .. Len(rest) - 1 : IsNamed(rest[i])
      PROVE  n = rest /\ EndsInSlash(n) /\ EndsInSlash(e) /\ Spelled(e) = Front(n) /\ IsTidy(e)
  <2>1. n = rest
    BY <1>1, <1>2, <1>7
  <2>2. EndsInSlash(n)
    BY <1>7, <2>1, SlashFacts
  <2>3. EndsInSlash(e)
    <3>1. Len(e) > 1
      BY <1>2, <1>7
    <3> QED
      BY <1>2, <1>7, <3>1, SlashFacts
  <2>4. Spelled(rest) = Front(rest)
    BY <1>2, <1>7, SpelledFront
  <2>5. rest = Append(Front(rest), rest[Len(rest)])
    BY <1>2, <1>7, ListEnds
  <2>6. IsTidy(e)
    BY <1>7, <2>4, <2>5, Zenon DEF IsTidy, IsEmpty, rest
  <2> QED
    BY <1>2, <2>1, <2>2, <2>3, <2>4, <2>6
(* only names *)
<1>8. ASSUME \A i \in 1 .. Len(rest) : IsNamed(rest[i])
      PROVE  n = rest /\ ~EndsInSlash(n) /\ ~EndsInSlash(e) /\ Spelled(e) = n /\ IsTidy(e)
  <2>1. IsNamed(rest[1]) /\ IsNamed(rest[Len(rest)])
    BY <1>2, <1>8
  <2>2. n = rest
    BY <1>1, <2>1, EmptyIsNoName
  <2>3. ~EndsInSlash(n) /\ ~EndsInSlash(e)
    BY <1>2, <2>1, <2>2, EmptyIsNoName, SlashFacts
  <2>4. Spelled(rest) = rest
    BY <1>2, <1>6, <1>8, SpelledNames
  <2>5. IsTidy(e)
    BY <2>4, Zenon DEF IsTidy, rest
  <2> QED
    BY <1>2, <2>2, <2>3, <2>4, <2>5
<1>9. ASSUME MatchesEntry(r, n)
      PROVE  IsTidy(e) /\ Names(e, p)
  <2>1. CASE EndsInSlash(n)
    <3>1. IsStrictPrefix(Front(n), r) /\ Len(n) > 1 /\ IsEmpty(n[Len(n)])
      BY <1>4, <1>9, <2>1, SlashFacts
    <3>2. /\ IsList(Front(n)) /\ Len(Front(n)) = Len(n) - 1
          /\ \A i \in 1 .. Len(n) - 1 : Front(n)[i] = n[i]
      BY <1>1, FrontOfList
    <3>3. /\ Len(n) - 1 <= Len(r)
          /\ \A i \in 1 .. Len(n) - 1 : Front(n)[i] = r[i]
      BY <1>3, <3>1, <3>2, PrefixMeans DEF IsStrictPrefix
    <3>4. Len(r) \in Nat
      BY <1>3, ListFacts
    <3>5. \A i \in 1 .. Len(n) - 1 : i \in 1 .. Len(r)
      BY <1>1, <3>3, <3>4
    <3>6. \A i \in 1 .. Len(n) - 1 : IsNamed(n[i])
      BY <1>3, <3>2, <3>3, <3>5
    <3>7. 1 \in 1 .. Len(n) - 1
      BY <1>1, <3>1
    <3>8. n = rest
      BY <1>1, <3>6, <3>7, EmptyIsNoName
    <3> QED
      BY <1>5, <1>7, <3>1, <3>6, <3>8
  <2>2. CASE ~EndsInSlash(n)
    <3>1. IsPrefix(n, r)
      BY <1>4, <1>9, <2>2
    <3>2. Len(n) <= Len(r) /\ \A i \in 1 .. Len(n) : n[i] = r[i]
      BY <1>1, <1>3, <3>1, PrefixMeans
    <3>3. Len(r) \in Nat
      BY <1>3, ListFacts
    <3>4. \A i \in 1 .. Len(n) : i \in 1 .. Len(r)
      BY <1>1, <3>2, <3>3
    <3>5. \A i \in 1 .. Len(n) : IsNamed(n[i])
      BY <1>3, <3>2, <3>4
    <3>6. n = rest
      <4>1. 1 \in 1 .. Len(n)
        BY <1>1
      <4> QED
        BY <1>1, <3>5, <4>1, EmptyIsNoName
    <3> QED
      BY <1>5, <1>8, <3>1, <3>5, <3>6
  <2> QED
    BY <2>1, <2>2
<1>10. ASSUME IsTidy(e), Names(e, p)
       PROVE  MatchesEntry(r, n)
  <2>1. \/ \A i \in 1 .. Len(rest) : IsNamed(rest[i])
        \/ /\ Len(rest) > 1 /\ IsEmpty(rest[Len(rest)])
           /\ \A i \in 1 .. Len(rest) - 1 : IsNamed(rest[i])
    BY <1>10, TidyFacts DEF rest
  <2>2. CASE \A i \in 1 .. Len(rest) : IsNamed(rest[i])
    BY <1>4, <1>5, <1>8, <1>10, <2>2
  <2>3. CASE /\ Len(rest) > 1 /\ IsEmpty(rest[Len(rest)])
             /\ \A i \in 1 .. Len(rest) - 1 : IsNamed(rest[i])
    BY <1>4, <1>5, <1>7, <1>10, <2>3
  <2> QED
    BY <2>1, <2>2, <2>3
<1> QED
  BY <1>9, <1>10 DEF n, r

-------------------------------------------------------------------------------
(* The configuration of an audit that is not refused.                      *)
LEMMA ChosenFileFacts ==
  ASSUME NEW file \in OwnFiles, NEW options \in CommandLines,
         ConfigurationOf(Repo, file, options) # None
  PROVE  LET chosen == ChosenFile(file, options) IN
         \A key \in {"ignorePaths", "focusFiles"} : \A e \in Value(chosen, key) : IsEntry(e)
<1> DEFINE chosen == ChosenFile(file, options)
<1>1. chosen # Malformed /\ \A key \in DOMAIN chosen : chosen[key] # Malformed
  BY DEF ConfigurationOf, WellFormed
<1>2. chosen \in Files \/ chosen = <<>>
  <2>1. CASE options.config # None
    BY <1>1, <2>1 DEF ChosenFile, Files
  <2>2. CASE options.config = None /\ file # None
    BY <1>1, <2>2 DEF ChosenFile, Files
  <2>3. CASE options.config = None /\ file = None
    BY <2>3 DEF ChosenFile
  <2> QED
    BY <2>1, <2>2, <2>3
<1> HIDE DEF chosen
<1>3. ASSUME NEW key \in {"ignorePaths", "focusFiles"}, NEW e \in Value(chosen, key)
      PROVE  IsEntry(e)
  <2>1. key \in DOMAIN chosen /\ e \in chosen[key]
    <3>1. Defaults[key] = {}
      BY <1>3 DEF Defaults
    <3> QED
      BY <1>3, <3>1 DEF Value
  <2>2. chosen # <<>>
    BY <2>1, EmptySeq
  <2>3. chosen[key] # Malformed
    BY <1>1, <2>1
  <2> QED
    BY <1>2, <1>3, <2>1, <2>2, <2>3, RepeatedAuditAssumption
<1> QED
  BY <1>3 DEF chosen

LEMMA ConfigFacts ==
  ASSUME NEW file, NEW d, NEW options, ConfigurationOf(Repo, file, options) # None
  PROVE  LET chosen == ChosenFile(file, options)
             config == ConfigFor(file, d, options)
         IN /\ config.ignoreDirs = DefaultIgnoreDirs \cup Value(chosen, "ignoreDirs")
            /\ config.ignorePaths =
                 {Resolved(Repo, Normalized(e)) : e \in Value(chosen, "ignorePaths")}
                   \cup IgnorePaths(d)
            /\ config.focusFiles = {Normalized(e) : e \in Value(chosen, "focusFiles")}
            /\ config.maxFileBytes =
                 IF options.maxFileBytes # None THEN options.maxFileBytes
                 ELSE IF "maxFileBytes" \in DOMAIN chosen THEN chosen.maxFileBytes
                 ELSE DefaultMaxBytes
<1> DEFINE chosen == ChosenFile(file, options)
           applied == Applied(Repo, chosen)
           config == [applied EXCEPT !.maxFileBytes = Or(options.maxFileBytes, @),
                                     !.mode = Or(options.mode, @)]
<1>1. ConfigFor(file, d, options) = [config EXCEPT !.ignorePaths = @ \cup IgnorePaths(d)]
  BY DEF ConfigFor, ConfigurationOf
<1> DEFINE dirs  == DefaultIgnoreDirs \cup Value(chosen, "ignoreDirs")
           paths == {Resolved(Repo, Normalized(e)) : e \in Value(chosen, "ignorePaths")}
           focus == {Normalized(e) : e \in Value(chosen, "focusFiles")}
           bytes == Value(chosen, "maxFileBytes")
<1>2. DOMAIN applied = DOMAIN Defaults
  BY DEF Applied
<1>3. /\ "ignoreDirs" \in DOMAIN Defaults /\ "ignorePaths" \in DOMAIN Defaults
      /\ "focusFiles" \in DOMAIN Defaults /\ "maxFileBytes" \in DOMAIN Defaults
      /\ "mode" \in DOMAIN Defaults
  BY DEF Defaults
<1>4. /\ applied.ignoreDirs = dirs /\ applied.ignorePaths = paths
      /\ applied.focusFiles = focus /\ applied.maxFileBytes = bytes
  BY <1>3 DEF Applied
<1>5. bytes = IF "maxFileBytes" \in DOMAIN chosen THEN chosen.maxFileBytes ELSE DefaultMaxBytes
  BY DEF Value, Defaults
<1> HIDE DEF dirs, paths, focus, bytes, applied
<1>6. /\ config.ignoreDirs = dirs /\ config.ignorePaths = paths /\ config.focusFiles = focus
      /\ config.maxFileBytes = IF options.maxFileBytes # None THEN options.maxFileBytes ELSE bytes
      /\ "ignorePaths" \in DOMAIN config
  BY <1>2, <1>3, <1>4 DEF Or
<1> HIDE DEF config
<1> DEFINE final == [config EXCEPT !.ignorePaths = @ \cup IgnorePaths(d)]
<1>7. /\ final.ignoreDirs = dirs /\ final.ignorePaths = paths \cup IgnorePaths(d)
      /\ final.focusFiles = focus
      /\ final.maxFileBytes = IF options.maxFileBytes # None THEN options.maxFileBytes ELSE bytes
  BY <1>6
<1> HIDE DEF final
<1>8. ConfigFor(file, d, options) = final
  BY <1>1 DEF final
<1> QED
  BY <1>5, <1>7, <1>8 DEF dirs, paths, focus, chosen

(* What IndexedAsConfigured allows, by itself. *)
Allowed(file, options, d, p) ==
  LET chosen == ChosenFile(file, options)
      limit == IF options.maxFileBytes # None THEN options.maxFileBytes
               ELSE IF "maxFileBytes" \in DOMAIN chosen THEN chosen.maxFileBytes
               ELSE DefaultMaxBytes
      focus == Value(chosen, "focusFiles")
  IN
  /\ SourceFiles[p] \in {"text", "large"} /\ Size(p) <= limit
  /\ ~InOutput(p, d)
  /\ Value(chosen, "ignoreDirs") \cap Range(Front(Relative(p))) = {}
  /\ DefaultIgnoreDirs \cap Range(Front(Relative(p))) = {}
  /\ \A e \in Value(chosen, "ignorePaths") : ~Ignores(e, p)
  /\ focus = {} \/ \E e \in focus : IsTidy(e) /\ Names(e, p)

(* The walk and the filters allow what the configuration does. *)
LEMMA VisibleIsAllowed ==
  ASSUME NEW file \in OwnFiles, NEW options \in CommandLines, NEW d \in OutputDirs,
         ConfigurationOf(Repo, file, options) # None,
         IgnoredIsWritten, NEW p \in DOMAIN SourceFiles
  PROVE  Visible(p, ConfigFor(file, d, options)) <=> Allowed(file, options, d, p)
<1> DEFINE chosen == ChosenFile(file, options)
           config == ConfigFor(file, d, options)
           r == Relative(p)
           limit == IF options.maxFileBytes # None THEN options.maxFileBytes
                    ELSE IF "maxFileBytes" \in DOMAIN chosen THEN chosen.maxFileBytes
                    ELSE DefaultMaxBytes
           dirs == Value(chosen, "ignoreDirs")
           ignored == Value(chosen, "ignorePaths")
           focus == Value(chosen, "focusFiles")
<1>1. /\ config.ignoreDirs = DefaultIgnoreDirs \cup dirs
      /\ config.ignorePaths = {Resolved(Repo, Normalized(e)) : e \in ignored} \cup IgnorePaths(d)
      /\ config.focusFiles = {Normalized(e) : e \in focus}
      /\ config.maxFileBytes = limit
  BY ConfigFacts
<1>2. \A e \in ignored \cup focus : IsEntry(e)
  BY ChosenFileFacts
<1>3. InRepo(p) /\ IsList(r) /\ Len(r) \in Nat /\ Len(r) # 0
  <2>1. /\ InRepo(p) /\ IsList(r) /\ Len(r) = Len(p) - Len(Repo)
        /\ Len(Repo) \in Nat /\ Len(p) \in Nat /\ Len(Repo) < Len(p)
    BY SourcePaths
  <2> HIDE DEF r
  <2> QED
    BY <2>1
<1>4. Range(Front(r)) = {r[i] : i \in 1 .. Len(r) - 1}
  <2>1. DOMAIN Front(r) = 1 .. Len(r) - 1 /\ \A i \in 1 .. Len(r) - 1 : Front(r)[i] = r[i]
    BY <1>3, FrontOfList
  <2> HIDE DEF r
  <2> QED
    BY <2>1 DEF Range
<1>5. Kind(p) = SourceFiles[p]
  BY DEF Kind
<1>6. (\A dir \in IgnorePaths(d) : ~Under(p, dir)) <=> ~InOutput(p, d)
  BY DEF IgnorePaths, InOutput, IgnoredIsWritten
<1>7. Allowed(file, options, d, p) <=>
        /\ SourceFiles[p] \in {"text", "large"} /\ Size(p) <= limit
        /\ ~InOutput(p, d)
        /\ dirs \cap Range(Front(r)) = {}
        /\ DefaultIgnoreDirs \cap Range(Front(r)) = {}
        /\ \A e \in ignored : ~Ignores(e, p)
        /\ focus = {} \/ \E e \in focus : IsTidy(e) /\ Names(e, p)
  BY DEF Allowed
<1>9. \A e \in ignored : Under(p, Resolved(Repo, Normalized(e))) <=> Ignores(e, p)
  BY <1>2, IgnoredEntry
<1>10. \A e \in focus : MatchesEntry(r, Normalized(e)) <=> IsTidy(e) /\ Names(e, p)
  BY <1>2, FocusEntry
<1> HIDE DEF chosen, config, r, limit, dirs, ignored, focus
<1>11. (\A i \in 1 .. Len(r) - 1 : r[i] \notin config.ignoreDirs)
         <=> dirs \cap Range(Front(r)) = {} /\ DefaultIgnoreDirs \cap Range(Front(r)) = {}
  BY <1>1, <1>4
<1>12. (\A dir \in config.ignorePaths : ~Under(p, dir))
         <=> /\ \A e \in ignored : ~Under(p, Resolved(Repo, Normalized(e)))
             /\ ~InOutput(p, d)
  BY <1>1, <1>6
<1>13. InFocus(p, config) <=> focus = {} \/ \E e \in focus : MatchesEntry(r, Normalized(e))
  BY <1>1 DEF InFocus, r
<1>14. Visible(p, config) <=>
         /\ dirs \cap Range(Front(r)) = {} /\ DefaultIgnoreDirs \cap Range(Front(r)) = {}
         /\ \A e \in ignored : ~Under(p, Resolved(Repo, Normalized(e)))
         /\ ~InOutput(p, d)
         /\ focus = {} \/ \E e \in focus : MatchesEntry(r, Normalized(e))
         /\ SourceFiles[p] \in {"text", "large"} /\ Size(p) <= limit
  BY <1>1, <1>3, <1>5, <1>11, <1>12, <1>13 DEF Visible, Walked, r
<1>15. Visible(p, config) <=> Allowed(file, options, d, p)
  BY <1>7, <1>9, <1>10, <1>14
<1> QED
  BY <1>15 DEF config

-------------------------------------------------------------------------------
(* A configuration that is not refused has the paths it ignores, and gets  *)
(* the output directory among them if it lies in the repository.           *)
LEMMA OutputIsIgnored ==
  ASSUME NEW file, NEW d, NEW options,
         ConfigurationOf(Repo, file, options) # None,
         ExpandedDir(d) = WriteDir(d), InRepo(WriteDir(d))
  PROVE  WriteDir(d) \in ConfigFor(file, d, options).ignorePaths
<1> DEFINE config == ConfigurationOf(Repo, file, options)
<1>1. "ignorePaths" \in DOMAIN config
  BY DEF ConfigurationOf, Applied, Defaults
<1>2. WriteDir(d) \in IgnorePaths(d)
  BY DEF IgnorePaths
<1> HIDE DEF config
<1>3. [config EXCEPT !.ignorePaths = @ \cup IgnorePaths(d)].ignorePaths
        = config.ignorePaths \cup IgnorePaths(d)
  BY <1>1
<1> QED
  BY <1>2, <1>3 DEF ConfigFor, config

(* So nothing in the output directory is visible, and the index is that of *)
(* the rest of the world.                                                  *)
LEMMA IndexIgnoresOutput ==
  ASSUME NEW d, NEW options,
         ConfigurationOf(Repo, own, options) # None,
         InRepo(WriteDir(d)) => ExpandedDir(d) = WriteDir(d)
  PROVE  [p \in Indexed(ConfigFor(own, d, options)) |-> fs[p]] = ResultOf(World(d), d, options)
<1> DEFINE config == ConfigFor(own, d, options)
           files == World(d).files
<1>1. Indexed(config) = {p \in DOMAIN fs : Visible(p, config)}
  BY DEF Indexed, Visible
<1>2. \A p : Visible(p, config) => InRepo(p) /\ ~InOutput(p, d)
  BY OutputIsIgnored DEF Visible, Walked, InOutput
<1>3. World(d).own = own
  BY DEF World
<1>4. /\ DOMAIN files = {p \in DOMAIN fs : InRepo(p) /\ ~InOutput(p, d)}
      /\ \A p \in DOMAIN files : files[p] = fs[p]
  BY DEF World
<1> HIDE DEF config, files
<1>5. Indexed(config) = {p \in DOMAIN files : Visible(p, config)}
  BY <1>1, <1>2, <1>4
<1>6. ResultOf(World(d), d, options) =
        [p \in {p \in DOMAIN files : Visible(p, config)} |-> files[p]]
  BY <1>3 DEF ResultOf, config, files
<1>7. \A p \in Indexed(config) : files[p] = fs[p]
  BY <1>4, <1>5
<1> QED
  BY <1>5, <1>6, <1>7 DEF config

(* The number of a result is its place in the list, or the next one. *)
LEMMA NumberFacts ==
  ASSUME Numbered, NEW result
  PROVE  LET n == Number(result)
             new == IF n > Len(results) THEN Append(results, result) ELSE results
         IN /\ IsList(new)
            /\ \A i, j \in DOMAIN new : new[i] = new[j] => i = j
            /\ \A i \in DOMAIN results : i \in DOMAIN new /\ new[i] = results[i]
            /\ n \in DOMAIN new /\ new[n] = result
<1>1. Len(results) \in Nat /\ DOMAIN results = 1 .. Len(results)
  BY ListFacts DEF Numbered
<1>2. CASE Contains(results, result)
  <2>1. \E i \in DOMAIN results : results[i] = result
    BY <1>1, <1>2 DEF Contains
  <2>2. Number(result) \in DOMAIN results /\ results[Number(result)] = result
    BY <1>2, <2>1 DEF Number
  <2>3. ~(Number(result) > Len(results))
    BY <1>1, <2>2
  <2> QED
    BY <2>2, <2>3 DEF Numbered
<1>3. CASE ~Contains(results, result)
  <2> DEFINE new == Append(results, result)
  <2>1. Number(result) = Len(results) + 1
    BY <1>3 DEF Number
  <2>2. Number(result) > Len(results)
    BY <1>1, <2>1
  <2>3. /\ IsList(new) /\ DOMAIN new = 1 .. Len(results) + 1
        /\ \A i \in 1 .. Len(results) : new[i] = results[i]
        /\ new[Len(results) + 1] = result
    BY ListAppend DEF Numbered
  <2> HIDE DEF new
  <2>4. \A i \in DOMAIN results : results[i] # result
    BY <1>1, <1>3 DEF Contains
  <2>5. \A i \in DOMAIN new : i \in DOMAIN results \/ i = Len(results) + 1
    BY <1>1, <2>3
  <2>6. \A i, j \in DOMAIN new : new[i] = new[j] => i = j
    BY <1>1, <2>3, <2>4, <2>5 DEF Numbered
  <2>7. Len(results) + 1 \in DOMAIN new /\ DOMAIN results \subseteq DOMAIN new
    BY <1>1, <2>3
  <2> QED
    BY <1>1, <2>1, <2>2, <2>3, <2>6, <2>7 DEF new
<1> QED
  BY <1>2, <1>3
-------------------------------------------------------------------------------
LEMMA InitInv == Init => IInv
<1>1. IsList(<<>>)
  BY EmptySeq DEF IsList
<1>2. DOMAIN <<>> = {}
  BY EmptySeq
<1> QED
  BY <1>1, <1>2 DEF Init, IInv, Numbered, LogExplained, LogRecorded, SourcesStay

LEMMA AuditInv ==
  ASSUME IgnoredWhereWritten,
         IInv, NEW d \in OutputDirs, NEW options \in CommandLines, Audit(d, options)
  PROVE  IInv'
<1> DEFINE result == [p \in Indexed(ConfigFor(own, d, options)) |-> fs[p]]
           n == Number(result)
           world == World(d)
           entry == [dir |-> d, options |-> options, result |-> n, world |-> world]
<1>1. /\ ConfigurationOf(Repo, own, options) # None
      /\ results' = IF n > Len(results) THEN Append(results, result) ELSE results
      /\ log' = Append(log, entry)
  BY DEF Audit, ConfigFor
<1>2. result = ResultOf(world, d, options)
  BY <1>1, IndexIgnoresOutput DEF IgnoredWhereWritten
<1>8. /\ world.own = own
      /\ \A p \in DOMAIN SourceFiles : p \in DOMAIN world.files <=> ~InOutput(p, d)
  <2>1. DOMAIN world.files = {p \in DOMAIN fs : InRepo(p) /\ ~InOutput(p, d)}
    BY DEF World
  <2>2. \A p \in DOMAIN SourceFiles : InRepo(p) /\ p \in DOMAIN fs
    BY SourcePaths DEF IInv, SourcesStay
  <2> QED
    BY <2>1, <2>2 DEF World
<1>9. DOMAIN SourceFiles \subseteq DOMAIN fs' /\ own' \in OwnFiles
  BY DEF Audit, Written, IInv, SourcesStay
<1> HIDE DEF result, world
<1>3. /\ IsList(results')
      /\ \A i, j \in DOMAIN results' : results'[i] = results'[j] => i = j
      /\ \A i \in DOMAIN results : i \in DOMAIN results' /\ results'[i] = results[i]
      /\ n \in DOMAIN results' /\ results'[n] = result
  BY <1>1, NumberFacts DEF IInv
<1> HIDE DEF n
<1>4. /\ entry.result = n /\ entry.dir = d /\ entry.options = options /\ entry.world = world
  OBVIOUS
<1> HIDE DEF entry
<1>5. /\ IsList(log') /\ DOMAIN log' = 1 .. Len(log) + 1
      /\ \A i \in 1 .. Len(log) : log'[i] = log[i]
      /\ log'[Len(log) + 1] = entry
      /\ DOMAIN log = 1 .. Len(log) /\ Len(log) \in Nat
  BY <1>1, ListAppend DEF IInv, LogExplained
<1>6. \A i \in DOMAIN log' :
        /\ log'[i].result \in DOMAIN results'
        /\ results'[log'[i].result] = ResultOf(log'[i].world, log'[i].dir, log'[i].options)
  <2> SUFFICES ASSUME NEW i \in DOMAIN log'
               PROVE  /\ log'[i].result \in DOMAIN results'
                      /\ results'[log'[i].result] =
                           ResultOf(log'[i].world, log'[i].dir, log'[i].options)
    OBVIOUS
  <2>1. CASE i \in DOMAIN log
    <3>1. log'[i] = log[i]
      BY <1>5, <2>1
    <3>2. /\ log[i].result \in DOMAIN results
          /\ results[log[i].result] = ResultOf(log[i].world, log[i].dir, log[i].options)
      BY <2>1 DEF IInv, LogExplained, Explained
    <3> QED
      BY <1>3, <3>1, <3>2
  <2>2. CASE i = Len(log) + 1
    BY <1>2, <1>3, <1>4, <1>5, <2>2
  <2> QED
    BY <1>5, <2>1, <2>2
<1>7. \A i \in DOMAIN log' : Recorded(log'[i])
  <2> SUFFICES ASSUME NEW i \in DOMAIN log' PROVE Recorded(log'[i])
    OBVIOUS
  <2>1. CASE i \in DOMAIN log
    BY <1>5, <2>1 DEF IInv, LogRecorded
  <2>2. CASE i = Len(log) + 1
    <3>1. Recorded(entry)
      BY <1>1, <1>4, <1>8 DEF Recorded, IInv, SourcesStay
    <3> QED
      BY <1>5, <2>2, <3>1
  <2> QED
    BY <1>5, <2>1, <2>2
<1> QED
  BY <1>3, <1>5, <1>6, <1>7, <1>9
     DEF IInv, Numbered, LogExplained, Explained, LogRecorded, SourcesStay

LEMMA NextInv ==
  ASSUME IgnoredWhereWritten, IInv, [Next]_vars
  PROVE  IInv'
<1>1. ASSUME UNCHANGED <<results, log>>, SourcesStay'
      PROVE  IInv'
  BY <1>1 DEF IInv, Numbered, LogExplained, Explained, LogRecorded
<1>2. CASE \E d \in OutputDirs, options \in CommandLines : Audit(d, options)
  BY <1>2, AuditInv
<1>3. CASE \E p \in DOMAIN SourceFiles : Edit(p)
  BY <1>1, <1>3 DEF Edit, IInv, SourcesStay
<1>4. CASE \E file \in OwnFiles : Configure(file)
  BY <1>1, <1>4 DEF Configure, IInv, SourcesStay
<1>5. CASE \E from, to \in OutputDirs : Reason(from, to)
  BY <1>1, <1>5 DEF Reason, Written, IInv, SourcesStay
<1>6. CASE UNCHANGED vars
  BY <1>1, <1>6 DEF vars, IInv, SourcesStay
<1> QED
  BY <1>2, <1>3, <1>4, <1>5, <1>6 DEF Next

(* Every logged result is a function of the command and of the world       *)
(* outside its output directory, and equal results have equal numbers.     *)
THEOREM Invariance ==
  ASSUME IgnoredWhereWritten
  PROVE  Spec => []IInv
<1>1. IInv /\ [Next]_vars => IInv'
  BY NextInv
<1> QED
  BY <1>1, InitInv, PTL DEF Spec

(* If the directory that is ignored is the one that is written, audits     *)
(* that see the same repository and the same options agree, whatever was   *)
(* written in between (apply_output_dir_ignore and index_repository).      *)
THEOREM AuditsAreStable ==
  ASSUME IgnoredWhereWritten
  PROVE  Spec => []RepeatedAuditIsStable
<1>1. IInv => RepeatedAuditIsStable
  BY DEF IInv, Numbered, LogExplained, Explained, RepeatedAuditIsStable
<1> QED
  BY <1>1, Invariance, PTL

(* If moreover nothing else is ignored for it - the output directory is    *)
(* not spelled with "~" where that would matter -, an audit indexes what   *)
(* the command line, the chosen file and the defaults say: nothing that is *)
(* too large, ignored, its own output or outside the focus, and all of the *)
(* rest, whatever the entries look like (load_audit_config,                *)
(* index_repository).                                                      *)
THEOREM EverythingConfiguredIsIndexed ==
  ASSUME IgnoredIsWritten
  PROVE  Spec => []IndexedAsConfigured
<1>1. IgnoredWhereWritten
  BY DEF IgnoredIsWritten, IgnoredWhereWritten
<1>2. IInv => IndexedAsConfigured
  <2> SUFFICES ASSUME IInv, NEW i \in DOMAIN log, NEW p \in DOMAIN SourceFiles
               PROVE  p \in DOMAIN results[log[i].result] <=>
                        Allowed(log[i].world.own, log[i].options, log[i].dir, p)
    BY DEF IndexedAsConfigured, Allowed
  <2> DEFINE file == log[i].world.own
             options == log[i].options
             d == log[i].dir
             files == log[i].world.files
  <2>1. /\ d \in OutputDirs /\ options \in CommandLines /\ file \in OwnFiles
        /\ ConfigurationOf(Repo, file, options) # None
        /\ p \in DOMAIN files <=> ~InOutput(p, d)
    BY DEF IInv, LogRecorded, Recorded
  <2>2. p \in DOMAIN results[log[i].result] <=>
          p \in DOMAIN files /\ Visible(p, ConfigFor(file, d, options))
    BY DEF IInv, LogExplained, Explained, ResultOf
  <2> HIDE DEF file, options, d, files
  <2>3. Visible(p, ConfigFor(file, d, options)) <=> Allowed(file, options, d, p)
    BY <2>1, VisibleIsAllowed
  <2>4. Allowed(file, options, d, p) => ~InOutput(p, d)
    BY DEF Allowed
  <2> QED
    BY <2>1, <2>2, <2>3, <2>4 DEF file, options, d, files
<1> QED
  BY <1>1, <1>2, Invariance, PTL
==============================================================================
