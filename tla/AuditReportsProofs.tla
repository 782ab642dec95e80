-------------------------- MODULE AuditReportsProofs ---------------------------
(***************************************************************************)
(* Proofs about an audit's result, for all audits, caps, budgets, lenses   *)
(* and lengths of the reports.                                             *)
(*                                                                         *)
(* The first half is about the evidence graph: how its loops take turns,   *)
(* and that every edge is made of the records that it names.  The second   *)
(* half is about the reports, which are functions of the result: what      *)
(* sorting, joining and cutting do to the lists of candidates and edges.   *)
(***************************************************************************)
EXTENDS AuditReports, ListLemmas

USE DEF Ref
--------------------------------------------------------------------------------
(* The resolver.                                                           *)

(* What is known of the ends of a route or a correlation. *)
IsEntrypoint(e) ==
  /\ e.file \in Name /\ e.handler \in Handler
  /\ e.words \subseteq Words /\ IsFiniteSet(e.words)
IsTarget(t) == t.file \in Name /\ t.pattern \in Name /\ t.text \subseteq Name

LEMMA LeastIsNatural ==
  \A a, b \in Nat : Least(a, b) \in Nat /\ Least(a, b) <= a /\ Least(a, b) <= b
BY DEF Least

(* The elements of a list are a finite set. *)
LEMMA ElementsAreFinite ==
  ASSUME NEW S, NEW s \in Seq(S)
  PROVE  IsFiniteSet(Elements(s))
<1>1. s \in [1 .. Len(s) -> Elements(s)] /\ DOMAIN s = 1 .. Len(s) /\ Len(s) \in Nat
  BY LenProperties DEF Elements
<1>2. s \in Surjection(1 .. Len(s), Elements(s))
  BY <1>1 DEF Surjection, Elements
<1>3. IsFiniteSet(1 .. Len(s))
  BY <1>1, FS_Interval
<1>4. \A T, U : \A f \in Surjection(T, U) : IsFiniteSet(T) => IsFiniteSet(U)
  BY FS_Surjection
<1>5. QED
  BY <1>2, <1>3, <1>4

LEMMA CommonTokensAreFinite ==
  ASSUME NEW e, IsEntrypoint(e), NEW t
  PROVE  Cardinality(SourceTokens(e) \cap TargetTokens(t)) \in Nat
<1>1. e.handler.class \in Seq(Words) /\ IsFiniteSet(e.words)
  BY DEF IsEntrypoint, Handler
<1>2. IsFiniteSet({e.handler.class[i] : i \in DOMAIN e.handler.class})
  BY <1>1, ElementsAreFinite DEF Elements
<1>3. IsFiniteSet(MethodOf(e.handler))
  <2>1. IsFiniteSet({e.handler.method})
    BY FS_Singleton
  <2>2. QED
    BY <2>1, FS_Difference DEF MethodOf
<1> DEFINE all == e.words \cup MethodOf(e.handler)
                    \cup {e.handler.class[i] : i \in DOMAIN e.handler.class}
<1>4. IsFiniteSet(all)
  <2>1. IsFiniteSet(e.words \cup MethodOf(e.handler))
    BY <1>1, <1>3, FS_Union
  <2>2. QED
    BY <1>2, <2>1, FS_Union
<1>5. SourceTokens(e) \cap TargetTokens(t) \in SUBSET all
  BY DEF SourceTokens, MeaningfulTokens
<1> HIDE DEF all
<1>6. IsFiniteSet(SourceTokens(e) \cap TargetTokens(t))
  BY <1>4, <1>5, FS_Subset
<1>7. QED
  BY <1>6, FS_CardinalityType

(* A score is a natural number: what the handler gives, and up to 30. *)
LEMMA ScoreBounds ==
  ASSUME NEW e, IsEntrypoint(e), NEW t
  PROVE  LET named == ClassScore(e.handler, t) + MethodScore(e.handler, t) IN
         /\ Score(e, t) \in Nat
         /\ named = 0 => Score(e, t) = 0
         /\ named # 0 => Score(e, t) >= named /\ Score(e, t) <= named + 30
<1> DEFINE c == Cardinality(SourceTokens(e) \cap TargetTokens(t))
           named == ClassScore(e.handler, t) + MethodScore(e.handler, t)
<1>1. c \in Nat
  BY CommonTokensAreFinite
<1>2. named \in Nat
  BY DEF ClassScore, MethodScore
<1> HIDE DEF c
<1>3. Least(30, 10 * c) \in 0 .. 30
  BY <1>1 DEF Least
<1>4. Score(e, t) = IF named = 0 THEN 0 ELSE named + Least(30, 10 * c)
  BY Zenon DEF Score, c
<1> HIDE DEF named
<1>5. /\ Score(e, t) \in Nat
      /\ named = 0 => Score(e, t) = 0
      /\ named # 0 => Score(e, t) >= named /\ Score(e, t) <= named + 30
  BY <1>2, <1>3, <1>4
<1>6. QED
  BY <1>5 DEF named

(* The words of a text are words. *)
LEMMA TextWords ==
  ASSUME NEW t, IsTarget(t)
  PROVE  /\ TargetText(t) \subseteq Seq(Words)
         /\ WordsOf(TargetText(t)) \subseteq Words
         /\ TargetTokens(t) \subseteq Words
<1>1. TargetText(t) \subseteq Seq(Words)
  BY DEF IsTarget, TargetText, Name
<1>2. \A n \in TargetText(t) : \A i \in DOMAIN n : n[i] \in Words
  BY <1>1, LenProperties
<1>3. WordsOf(TargetText(t)) \subseteq Words
  BY <1>2 DEF WordsOf
<1>4. QED
  BY <1>1, <1>3 DEF TargetTokens, MeaningfulTokens

(* A whole class is found only where its simple name is found, too. *)
LEMMA LastWordOccurs ==
  ASSUME NEW t, IsTarget(t), NEW c \in Seq(Words), c # <<>>
  PROVE  /\ Occurs(c, TargetText(t)) => Occurs(<<Last(c)>>, TargetText(t))
         /\ Last(c) \in WordsOf(TargetText(t)) => Occurs(<<Last(c)>>, TargetText(t))
         /\ c \in TargetText(t) => Occurs(c, TargetText(t))
         /\ Last(c) \in Words
<1> DEFINE l == <<Last(c)>>
<1>1. Len(c) \in (Nat \ {0}) /\ DOMAIN c = 1 .. Len(c)
  BY EmptySeq, LenProperties
<1>2. Len(l) = 1 /\ DOMAIN l = {1} /\ l[1] = c[Len(c)]
  BY DEF Last
<1> HIDE DEF l
<1>3. \A n \in TargetText(t) : Len(n) \in Nat /\ DOMAIN n = 1 .. Len(n)
  BY TextWords, LenProperties
<1>4. ASSUME Occurs(c, TargetText(t))
      PROVE  Occurs(l, TargetText(t))
  <2>1. PICK n \in TargetText(t) : \E k \in 0 .. Len(n) - Len(c) : \A i \in DOMAIN c :
          \/ n[k + i] = c[i]
          \/ i = Len(c) /\ <<c[i], n[k + i]>> \in Begins
    BY <1>4 DEF Occurs
  <2>2. PICK k \in 0 .. Len(n) - Len(c) : \A i \in DOMAIN c :
          \/ n[k + i] = c[i]
          \/ i = Len(c) /\ <<c[i], n[k + i]>> \in Begins
    BY <2>1
  <2> DEFINE m == k + Len(c) - 1
  <2>3. Len(n) \in Nat
    BY <1>3
  <2>4. m \in 0 .. Len(n) - Len(l) /\ m + 1 = k + Len(c)
    BY <1>1, <1>2, <2>3
  <2>5. \/ n[m + 1] = l[1]
        \/ <<l[1], n[m + 1]>> \in Begins
    BY <1>1, <1>2, <2>2, <2>4
  <2> HIDE DEF m
  <2>6. \A i \in DOMAIN l : \/ n[m + i] = l[i]
                            \/ i = Len(l) /\ <<l[i], n[m + i]>> \in Begins
    BY <1>2, <2>5
  <2>7. QED
    BY <2>4, <2>6 DEF Occurs
<1>5. ASSUME Last(c) \in WordsOf(TargetText(t))
      PROVE  Occurs(l, TargetText(t))
  <2>1. PICK n \in TargetText(t) : \E i \in DOMAIN n : Last(c) = n[i]
    BY <1>5 DEF WordsOf
  <2>2. PICK i \in DOMAIN n : Last(c) = n[i]
    BY <2>1
  <2>3. i - 1 \in 0 .. Len(n) - Len(l) /\ (i - 1) + 1 = i
    BY <1>2, <1>3, <2>2
  <2>4. \A j \in DOMAIN l : n[(i - 1) + j] = l[j]
    BY <1>2, <2>2, <2>3 DEF Last
  <2>5. QED
    BY <2>3, <2>4 DEF Occurs
<1>6. ASSUME c \in TargetText(t)
      PROVE  Occurs(c, TargetText(t))
  <2>1. 0 \in 0 .. Len(c) - Len(c) /\ \A i \in DOMAIN c : c[0 + i] = c[i]
    BY <1>1
  <2>2. QED
    BY <1>6, <2>1 DEF Occurs
<1>7. Last(c) \in Words
  BY <1>1, ElementOfSeq DEF Last
<1>8. QED
  BY <1>4, <1>5, <1>6, <1>7 DEF l

LEMMA HandlerFacts ==
  ASSUME NEW e, IsEntrypoint(e)
  PROVE  /\ e.handler.class \in Seq(Words)
         /\ e.handler.method \in Words \cup {NoMethod}
BY DEF IsEntrypoint, Handler

(* A score of 80 takes the class; a class named in full gives 90. *)
LEMMA ConfidenceOfRoutes ==
  ASSUME NEW e, IsEntrypoint(e), NEW t, IsTarget(t)
  PROVE  LET class == e.handler.class IN
         /\ ResolvedConfidence(e, t) = "high"
              => class # <<>> /\ Occurs(<<Last(class)>>, TargetText(t))
         /\ class # <<>> /\ Occurs(class, TargetText(t))
              => ResolvedConfidence(e, t) = "high"
<1> DEFINE h == e.handler
           c == ClassScore(h, t)
           m == MethodScore(h, t)
<1>1. h.class \in Seq(Words)
  BY HandlerFacts
<1>2. m \in {0, 45} /\ c \in {0, 60, 90}
  BY DEF MethodScore, ClassScore
<1>3. /\ Score(e, t) \in Nat
      /\ c + m = 0 => Score(e, t) = 0
      /\ c + m # 0 => Score(e, t) >= c + m /\ Score(e, t) <= c + m + 30
  BY ScoreBounds
<1>4. c = 90 <=> h.class # <<>> /\ Occurs(h.class, TargetText(t))
  BY DEF ClassScore
<1>5. c = 60 => h.class # <<>> /\ Last(h.class) \in WordsOf(TargetText(t))
  BY DEF ClassScore, SimpleClassOf, TargetTokens, MeaningfulTokens
<1> HIDE DEF c, m
<1>6. ASSUME Score(e, t) >= 80
      PROVE  h.class # <<>> /\ Occurs(<<Last(h.class)>>, TargetText(t))
  <2>1. c # 0
    BY <1>2, <1>3, <1>6
  <2>2. h.class # <<>>
    BY <1>2, <1>4, <1>5, <2>1
  <2>3. QED
    BY <1>1, <1>2, <1>4, <1>5, <2>1, <2>2, LastWordOccurs
<1>7. ASSUME h.class # <<>>, Occurs(h.class, TargetText(t))
      PROVE  Score(e, t) >= 80
  BY <1>2, <1>3, <1>4, <1>7
<1>8. QED
  BY <1>6, <1>7 DEF ResolvedConfidence

(* The indexes against the threshold (IndexFindsWhatScores). *)
LEMMA IndexAgainstThreshold ==
  ASSUME NEW e, IsEntrypoint(e), NEW t, IsTarget(t)
  PROVE  /\ Indexed(e, t) => Score(e, t) >= 40
         /\ Score(e, t) >= 40 =>
              \/ Indexed(e, t)
              \/ /\ Occurs(e.handler.class, TargetText(t))
                 /\ \/ e.handler.class \notin TargetText(t)
                    \/ SimpleClassOf(e.handler) \subseteq Short \cup StopWords
<1> DEFINE h == e.handler
           c == ClassScore(h, t)
           m == MethodScore(h, t)
<1>1. h.class \in Seq(Words) /\ h.method \in Words \cup {NoMethod}
  BY HandlerFacts
<1>2. m \in {0, 45} /\ c \in {0, 60, 90}
  BY DEF MethodScore, ClassScore
<1>3. /\ Score(e, t) \in Nat
      /\ c + m = 0 => Score(e, t) = 0
      /\ c + m # 0 => Score(e, t) >= c + m
  BY ScoreBounds
<1>4. c = 90 <=> h.class # <<>> /\ Occurs(h.class, TargetText(t))
  BY DEF ClassScore
<1>5. c = 0 => SimpleClassOf(h) \cap TargetTokens(t) = {}
  BY DEF ClassScore
<1>6. c = 60 => SimpleClassOf(h) \cap TargetTokens(t) # {}
  BY DEF ClassScore
<1>7. m = 45 <=> h.method \in TargetTokens(t)
  BY DEF MethodScore
<1>8. TargetTokens(t) \cap (Short \cup StopWords) = {}
        /\ NoMethod \notin TargetTokens(t) /\ TargetTokens(t) \subseteq WordsOf(TargetText(t))
  BY TextWords, ResolverAssumption DEF TargetTokens, MeaningfulTokens
<1> HIDE DEF c, m
<1>9. ASSUME Indexed(e, t)
      PROVE  c + m >= 40
  <2>1. CASE Len(h.class) > 1 /\ h.class \in TargetText(t)
    <3>1. h.class # <<>>
      BY <2>1, EmptySeq
    <3>2. c = 90
      BY <1>1, <1>4, <2>1, <3>1, LastWordOccurs
    <3>3. QED
      BY <1>2, <3>2
  <2>2. CASE HandlerTokens(h) \cap TargetTokens(t) # {}
    <3>1. \/ SimpleClassOf(h) \cap TargetTokens(t) # {}
          \/ h.method \in TargetTokens(t)
      BY <2>2 DEF HandlerTokens, MeaningfulTokens, MethodOf
    <3>2. QED
      BY <1>2, <1>5, <1>7, <3>1
  <2>3. QED
    BY <1>9, <2>1, <2>2 DEF Indexed
<1>10. ASSUME c + m # 0
       PROVE  \/ Indexed(e, t)
              \/ /\ Occurs(h.class, TargetText(t))
                 /\ \/ h.class \notin TargetText(t)
                    \/ SimpleClassOf(h) \subseteq Short \cup StopWords
  <2>1. CASE m = 45
    <3>1. h.method \in HandlerTokens(h) \cap TargetTokens(t)
      BY <1>1, <1>7, <1>8, <2>1 DEF HandlerTokens, MeaningfulTokens, MethodOf
    <3>2. QED
      BY <3>1 DEF Indexed
  <2>2. CASE c = 60
    <3>1. HandlerTokens(h) \cap TargetTokens(t) # {}
      BY <1>6, <1>8, <2>2 DEF HandlerTokens, MeaningfulTokens
    <3>2. QED
      BY <3>1 DEF Indexed
  <2>3. CASE c = 90
    <3>1. h.class # <<>> /\ Occurs(h.class, TargetText(t))
      BY <1>4, <2>3
    <3>2. SUFFICES ASSUME h.class \in TargetText(t), ~Indexed(e, t)
                   PROVE  SimpleClassOf(h) \subseteq Short \cup StopWords
      BY <3>1
    <3>3. Len(h.class) \in Nat \ {0} /\ DOMAIN h.class = 1 .. Len(h.class)
      BY <1>1, <3>1, EmptySeq, LenProperties
    <3>4. SimpleClassOf(h) = {Last(h.class)} /\ Last(h.class) = h.class[Len(h.class)]
      BY <3>1 DEF SimpleClassOf, Last
    <3>5. Last(h.class) \in WordsOf(TargetText(t))
      BY <3>2, <3>3, <3>4 DEF WordsOf
    <3>6. Last(h.class) \in Short \cup StopWords \/ Last(h.class) \in TargetTokens(t)
      BY <3>5 DEF TargetTokens, MeaningfulTokens
    <3>7. Last(h.class) \notin TargetTokens(t) \/ Last(h.class) \in Short \cup StopWords
      BY <3>2, <3>4 DEF Indexed, HandlerTokens, MeaningfulTokens
    <3>8. QED
      BY <3>4, <3>6, <3>7
  <2>4. QED
    BY <1>2, <1>10, <2>1, <2>2, <2>3
<1>11. QED
  BY <1>2, <1>3, <1>9, <1>10
--------------------------------------------------------------------------------
(* The audit, and the best candidates of an entrypoint.                    *)

Ways == {"resolved"} \cup LowSignal

LEMMA AuditFacts ==
  ASSUME audit \in Audits
  PROVE  /\ \A list \in {audit.entrypoints, audit.targets, audit.flows,
                         audit.boundaries, audit.primitives, audit.files} :
              IsList(list) /\ Len(list) \in Nat /\ DOMAIN list = 1 .. Len(list)
         /\ \A list \in {audit.entrypoints, audit.targets, audit.flows,
                         audit.boundaries, audit.primitives} :
              \A i \in DOMAIN list : list[i].evidence \in Seq(Nat)
         /\ EntrypointIds = 1 .. Len(audit.entrypoints)
         /\ TargetIds = 1 .. Len(audit.targets)
         /\ \A x \in EntrypointIds : IsEntrypoint(audit.entrypoints[x])
         /\ \A t \in TargetIds : IsTarget(audit.targets[t])
<1> DEFINE lists == {audit.entrypoints, audit.targets, audit.flows,
                     audit.boundaries, audit.primitives}
<1>1. IsAudit(audit)
  BY AuditAssumption
<1>2. IsList(audit.files)
  BY <1>1, SequenceIsList DEF IsAudit
<1>3. /\ \A list \in lists : IsList(list)
      /\ \A list \in lists : \A i \in DOMAIN list : list[i].evidence \in Seq(Nat)
  BY <1>1 DEF IsAudit
<1>4. \A list \in lists \cup {audit.files} :
        IsList(list) /\ Len(list) \in Nat /\ DOMAIN list = 1 .. Len(list)
  BY <1>2, <1>3, ListFacts
<1>5. \A x \in EntrypointIds : IsEntrypoint(audit.entrypoints[x])
  BY <1>1 DEF IsAudit, IsEntrypoint, EntrypointIds
<1>6. \A t \in TargetIds : IsTarget(audit.targets[t])
  BY <1>1 DEF IsAudit, IsTarget, TargetIds
<1>7. EntrypointIds = 1 .. Len(audit.entrypoints) /\ TargetIds = 1 .. Len(audit.targets)
  BY <1>4 DEF EntrypointIds, TargetIds
<1>8. QED
  BY <1>3, <1>4, <1>5, <1>6, <1>7

LEMMA RankIsInteger ==
  ASSUME audit \in Audits, NEW way \in Ways, NEW x \in EntrypointIds, NEW t \in TargetIds
  PROVE  Rank(way, x, t) \in Int
<1>1. CASE way = "resolved"
  <2>1. Score(audit.entrypoints[x], audit.targets[t]) \in Nat
    BY AuditFacts, ScoreBounds
  <2>2. QED
    BY <1>1, <2>1 DEF Rank
<1>2. CASE way = "same_file_correlation"
  BY <1>2 DEF Rank
<1>3. CASE way = "handler_name_correlation"
  BY <1>3 DEF Rank, HandlerMatchRank
<1>4. QED
  BY <1>1, <1>2, <1>3 DEF Ways, LowSignal

LEMMA CandidatesAreFinite ==
  ASSUME audit \in Audits, NEW way, NEW x
  PROVE  /\ Candidates(way, x) \subseteq TargetIds
         /\ TargetIds \subseteq Nat
         /\ IsFiniteSet(Candidates(way, x))
<1>1. Candidates(way, x) \in SUBSET TargetIds
  BY DEF Candidates
<1>2. Len(audit.targets) \in Nat /\ TargetIds = 1 .. Len(audit.targets)
  BY AuditFacts
<1>3. IsFiniteSet(TargetIds) /\ TargetIds \subseteq Nat
  BY <1>2, FS_Interval
<1>4. QED
  BY <1>1, <1>3, FS_Subset

(* What is said of Best is true of some list, and so of Best. *)
LEMMA BestProperties ==
  ASSUME audit \in Audits, NEW way \in Ways, NEW x \in EntrypointIds, NEW n \in Nat
  PROVE  LET best == Best(way, x, n) IN
         /\ IsList(best) /\ Len(best) \in Nat /\ Len(best) <= n
         /\ \A i \in DOMAIN best : best[i] \in Candidates(way, x)
         /\ \A i, j \in DOMAIN best : i < j => Before(way, x, best[i], best[j])
         /\ \A i, j \in DOMAIN best : best[i] = best[j] => i = j
         /\ \A t \in Candidates(way, x) :
              \/ \E i \in DOMAIN best : best[i] = t
              \/ Len(best) = n /\ \A i \in DOMAIN best : Before(way, x, best[i], t)
<1> DEFINE all == Candidates(way, x)
           R == {tu \in all \X all : Before(way, x, tu[1], tu[2])}
           c == Cardinality(all)
           m == Least(n, c)
<1>1. all \subseteq TargetIds /\ TargetIds \subseteq Nat /\ IsFiniteSet(all) /\ c \in Nat
  BY CandidatesAreFinite, FS_CardinalityType
<1>2. \A t \in all : t \in Int /\ Rank(way, x, t) \in Int
  <2>1. \A t \in TargetIds : Rank(way, x, t) \in Int
    BY RankIsInteger
  <2> HIDE DEF all
  <2>2. QED
    BY <1>1, <2>1
<1>3. \A t, u \in all : <<t, u>> \in R <=> Before(way, x, t, u)
  OBVIOUS
<1> HIDE DEF R, all
<1>4. /\ \A t, u \in all : t = u \/ Before(way, x, t, u) \/ Before(way, x, u, t)
      /\ \A t \in all : ~Before(way, x, t, t)
      /\ \A t, u, v \in all :
           Before(way, x, t, u) /\ Before(way, x, u, v) => Before(way, x, t, v)
  BY <1>2 DEF Before
<1>5. /\ \A a, b \in all : a = b \/ <<a, b>> \in R \/ <<b, a>> \in R
      /\ \A a \in all : <<a, a>> \notin R
      /\ \A a, b, d \in all : <<a, b>> \in R /\ <<b, d>> \in R => <<a, d>> \in R
  BY <1>3, <1>4
<1>6. \E f \in [1 .. c -> all] :
        /\ \A i, j \in 1 .. c : i < j => <<f[i], f[j]>> \in R
        /\ \A a \in all : \E i \in 1 .. c : f[i] = a
        /\ \A i \in 1 .. c, a \in all :
             Cardinality({b \in all : b = a \/ <<b, a>> \in R}) = i <=> a = f[i]
  BY <1>1, <1>5, Ranking, ZenonT(40)
<1>7. PICK f \in [1 .. c -> all] :
        /\ \A i, j \in 1 .. c : i < j => <<f[i], f[j]>> \in R
        /\ \A a \in all : \E i \in 1 .. c : f[i] = a
  BY <1>6
<1>8. m \in Nat /\ m <= n /\ m <= c /\ (m = n \/ m = c)
  BY <1>1 DEF Least
<1> HIDE DEF c, m
<1> DEFINE g == [i \in 1 .. m |-> f[i]]
<1>9. 1 .. m \subseteq 1 .. c
  BY <1>1, <1>8
<1>10. g \in [1 .. m -> all] /\ DOMAIN g = 1 .. m /\ \A i \in 1 .. m : g[i] = f[i]
  BY <1>9
<1> HIDE DEF g
<1>11. \A i, j \in DOMAIN g : i < j => Before(way, x, g[i], g[j])
  BY <1>3, <1>7, <1>9, <1>10
<1>12. \A t \in all : \/ \E i \in DOMAIN g : g[i] = t
                      \/ \A i \in DOMAIN g : Before(way, x, g[i], t)
  <2> TAKE t \in all
  <2>1. PICK k \in 1 .. c : f[k] = t
    BY <1>7
  <2>2. CASE k <= m
    <3>1. k \in 1 .. m
      BY <1>1, <1>8, <2>1, <2>2
    <3>2. QED
      BY <1>10, <2>1, <3>1
  <2>3. CASE ~(k <= m)
    <3>1. \A i \in 1 .. m : i \in 1 .. c /\ i < k
      BY <1>1, <1>8, <1>9, <2>1, <2>3
    <3>2. \A i \in 1 .. m : <<f[i], t>> \in R
      BY <1>7, <2>1, <3>1
    <3>3. QED
      BY <1>3, <1>9, <1>10, <3>2
  <2>4. QED
    BY <2>2, <2>3
<1> DEFINE IsBest(s) ==
             /\ \A i, j \in DOMAIN s : i < j => Before(way, x, s[i], s[j])
             /\ \A t \in all : \/ \E i \in DOMAIN s : s[i] = t
                               \/ \A i \in DOMAIN s : Before(way, x, s[i], t)
           best == Best(way, x, n)
<1>13. best = CHOOSE s \in [1 .. m -> all] : IsBest(s)
  BY DEF Best, all, m, c
<1>14. \E s \in [1 .. m -> all] : IsBest(s)
  BY <1>10, <1>11, <1>12
<1>15. best \in [1 .. m -> all] /\ IsBest(best)
  <2> HIDE DEF IsBest, best
  <2>1. QED
    BY <1>13, <1>14
<1> HIDE DEF best
<1>16. IsList(best) /\ Len(best) = m /\ DOMAIN best = 1 .. m
  BY <1>8, <1>15, FunctionIsList
<1>17. \A i \in DOMAIN best : best[i] \in all
  BY <1>15, <1>16
<1>18. \A i, j \in DOMAIN best : best[i] = best[j] => i = j
  <2>1. \A i, j \in 1 .. m : i < j \/ j < i \/ i = j
    BY <1>8
  <2>2. QED
    BY <1>4, <1>15, <1>16, <1>17, <2>1
<1>19. m = c => \A t \in all : \E i \in DOMAIN best : best[i] = t
  <2>1. SUFFICES ASSUME m = c
                 PROVE  \A t \in all : \E i \in 1 .. m : best[i] = t
    BY <1>16
  <2>2. best \in Injection(1 .. m, all)
    BY <1>15, <1>16, <1>18 DEF Injection, IsInjective
  <2>3. Cardinality(1 .. m) = Cardinality(all)
    BY <1>8, <2>1, FS_Interval DEF c
  <2>4. best \in Surjection(1 .. m, all)
    BY <1>1, <2>2, <2>3, FS_Injection
  <2>5. QED
    BY <2>4 DEF Surjection
<1>20. \A t \in all : \/ \E i \in DOMAIN best : best[i] = t
                      \/ Len(best) = n /\ \A i \in DOMAIN best : Before(way, x, best[i], t)
  BY <1>8, <1>15, <1>16, <1>19
<1>21. QED
  BY <1>8, <1>15, <1>16, <1>17, <1>18, <1>20 DEF all, best
--------------------------------------------------------------------------------
(* The inductive invariant.                                                *)

(* The loops in their order, and the turns they have done. *)
Number(p) ==
  CASE p = "nodes" -> 1
    [] p = "flows" -> 2
    [] p = "resolved" -> 3
    [] p = "same_file_correlation" -> 4
    [] p = "handler_name_correlation" -> 5
    [] p = "boundary_evidence" -> 6
    [] p = "primitive_evidence" -> 7
    [] p = "done" -> 8

Loops == {"nodes", "flows", "done"} \cup Ways \cup EvidenceLinks

Past(p, n) == Number(p) < Number(phase) \/ (p = phase /\ n < next)

(* The things an evidence loop goes through, and what it links them with. *)
SourceKind(way) == IF way = "boundary_evidence" THEN "boundary" ELSE "primitive"
SourcesOf(way) == IF way = "boundary_evidence" THEN audit.boundaries ELSE audit.primitives
TargetsOf(way) ==
  DetectionRefs
    \o (IF way = "primitive_evidence" THEN Refs("boundary", audit.boundaries) ELSE <<>>)

(* The edges that turn n of loop p may add. *)
DefinitionOf(n, e) ==
  /\ n \in DOMAIN NodeRefs /\ NodeRefs[n].kind \in {"entrypoint", "target"}
  /\ \E f \in DOMAIN audit.files :
       /\ audit.files[f] = Record(NodeRefs[n]).file
       /\ e = Edge("defined_in", NodeRefs[n], Ref("file", f), "high",
                   Record(NodeRefs[n]).evidence, <<>>)

FlowEdgeOf(n, e) ==
  /\ n \in DOMAIN audit.flows
  /\ LET flow == audit.flows[n] IN
     \/ e = Edge("static_flow_source", Ref("entrypoint", flow.entrypoint), Ref("flow", n),
                 flow.confidence, flow.evidence, flow.missing)
     \/ e = Edge("static_flow_target", Ref("flow", n), Ref("target", flow.target),
                 flow.confidence, flow.evidence, flow.missing)

RouteOf(x, e) ==
  x \in EntrypointIds /\ \E t \in Candidates("resolved", x) : e = RouteEdge(x, t)

CorrelationOf(way, x, e) ==
  /\ x \in EntrypointIds
  /\ \E t \in Candidates(way, x) : e = Correlation(way, way, x, t, "medium")

EvidenceLinkOf(way, n, e) ==
  /\ n \in DOMAIN SourcesOf(way)
  /\ \E j \in DOMAIN SourcesOf(way)[n].evidence : \E k \in DOMAIN TargetsOf(way) :
       /\ SourcesOf(way)[n].evidence[j] \in EvidenceOf(TargetsOf(way)[k])
       /\ e = Edge(way, Ref(SourceKind(way), n), TargetsOf(way)[k], "high",
                   <<SourcesOf(way)[n].evidence[j]>>, <<>>)

MadeBy(p, n, e) ==
  \/ p = "nodes" /\ DefinitionOf(n, e)
  \/ p = "flows" /\ FlowEdgeOf(n, e)
  \/ p = "resolved" /\ RouteOf(n, e)
  \/ p \in LowSignal /\ CorrelationOf(p, n, e)
  \/ p \in EvidenceLinks /\ EvidenceLinkOf(p, n, e)

SameKey(d, e) == d.type = e.type /\ d.source = e.source /\ d.target = e.target
KeysDiffer(list) == \A i, j \in DOMAIN list : SameKey(list[i], list[j]) => i = j

Control ==
  /\ audit \in Audits
  /\ IsList(nodes) /\ IsList(edges)
  /\ Len(nodes) = (IF phase = "nodes" THEN next - 1 ELSE Len(NodeRefs))
  /\ \A i \in DOMAIN nodes : nodes[i] = NodeRefs[i]
  /\ phase \in Loops /\ next \in 1 .. Turns + 1 /\ item \in Nat \ {0}
  /\ linked \subseteq Elements(EvidenceTargets)
  /\ spent \in 0 .. MaxLowSignalEdges

(* Every edge is one of a turn that is done; in a loop over evidence, the  *)
(* turn that is running has added some already, and marked their targets.  *)
IsMade(e) ==
  \E p \in Loops : \E n \in Nat :
    /\ MadeBy(p, n, e)
    /\ \/ Past(p, n)
       \/ p = phase /\ p \in EvidenceLinks /\ n = next /\ e.target \in linked

EdgesAreMade == \A i \in DOMAIN edges : IsMade(edges[i])

(* Each turn that is done has added all it had to. *)
DefinitionsAreDone ==
  \A n \in DOMAIN NodeRefs :
    Past("nodes", n) /\ NodeRefs[n].kind \in {"entrypoint", "target"} =>
      \A f \in DOMAIN audit.files : audit.files[f] = Record(NodeRefs[n]).file =>
        Linked("defined_in", NodeRefs[n], Ref("file", f))

FlowsAreDone ==
  \A n \in DOMAIN audit.flows : Past("flows", n) =>
    /\ Linked("static_flow_source", Ref("entrypoint", audit.flows[n].entrypoint),
              Ref("flow", n))
    /\ Linked("static_flow_target", Ref("flow", n), Ref("target", audit.flows[n].target))

LinksAreDone ==
  \A way \in EvidenceLinks : \A n \in DOMAIN SourcesOf(way) : Past(way, n) =>
    \A r \in Elements(TargetsOf(way)) :
      EvidenceOf(Ref(SourceKind(way), n)) \cap EvidenceOf(r) # {} =>
        Linked(way, Ref(SourceKind(way), n), r)

(* The marks of the running turn are the targets that share one of the     *)
(* evidences looked at so far, and all of them are linked.                 *)
MarksAreLinked ==
  phase \in EvidenceLinks /\ next \in DOMAIN SourcesOf(phase) =>
    /\ \A r \in linked : Linked(phase, Ref(SourceKind(phase), next), r)
    /\ \A r \in Elements(TargetsOf(phase)) :
         \A j \in DOMAIN SourcesOf(phase)[next].evidence :
           j < item /\ SourcesOf(phase)[next].evidence[j] \in EvidenceOf(r) => r \in linked

BudgetIsCounted == spent = Cardinality(CorrelationsOf(LowSignal, EntrypointIds))

(* The links of an entrypoint of one kind: none before its turn; after it, *)
(* no more than the cap, and a reason for every candidate left out.        *)
LinksOf(way, x) == CorrelationsOf(EdgeTypes(way), {x})

IsExplained(way, x) ==
  \A t \in Candidates(way, x) :
    \/ \E i \in LinksOf(way, x) : edges[i].target.n = t
    \/ /\ Cardinality(LinksOf(way, x)) = Cap(way)
       /\ \A i \in LinksOf(way, x) : Before(way, x, edges[i].target.n, t)
    \/ /\ way \in LowSignal /\ spent = MaxLowSignalEdges
       /\ CorrelationsOf({way}, {y \in EntrypointIds : y > x}) = {}
       /\ \A i \in LinksOf(way, x) : Before(way, x, edges[i].target.n, t)

LinksAreExplained ==
  \A way \in Ways : \A x \in EntrypointIds :
    /\ Cardinality(LinksOf(way, x)) <= Cap(way)
    /\ Past(way, x) => IsExplained(way, x)

IInv ==
  /\ Control /\ EdgesAreMade /\ KeysDiffer(edges)
  /\ DefinitionsAreDone /\ FlowsAreDone
  /\ LinksAreDone /\ MarksAreLinked
  /\ BudgetIsCounted /\ LinksAreExplained
--------------------------------------------------------------------------------
(* The references of the nodes.                                            *)

LEMMA RefsFacts ==
  ASSUME NEW list, IsList(list), NEW kind
  PROVE  /\ IsList(Refs(kind, list)) /\ AllDiffer(Refs(kind, list))
         /\ Len(Refs(kind, list)) = Len(list) /\ DOMAIN Refs(kind, list) = DOMAIN list
         /\ \A i \in DOMAIN list : Refs(kind, list)[i] = Ref(kind, i)
         /\ Elements(Refs(kind, list)) = {Ref(kind, i) : i \in DOMAIN list}
<1> DEFINE refs == Refs(kind, list)
<1>1. Len(list) \in Nat /\ DOMAIN list = 1 .. Len(list)
  BY ListFacts
<1>2. DOMAIN refs = DOMAIN list /\ \A i \in DOMAIN list : refs[i] = Ref(kind, i)
  BY DEF Refs
<1>3. refs \in [1 .. Len(list) -> {Ref(kind, i) : i \in DOMAIN list}]
  BY <1>1 DEF Refs
<1> HIDE DEF refs
<1>4. IsList(refs) /\ Len(refs) = Len(list)
  BY <1>1, <1>3, FunctionIsList
<1>5. AllDiffer(refs)
  BY <1>2 DEF AllDiffer
<1>6. Elements(refs) = {Ref(kind, i) : i \in DOMAIN list}
  BY <1>2 DEF Elements
<1>7. QED
  BY <1>2, <1>4, <1>5, <1>6 DEF refs

(* The entrypoints and the targets, each once. *)
LEMMA DetectionRefsFacts ==
  ASSUME audit \in Audits
  PROVE  /\ IsList(DetectionRefs) /\ AllDiffer(DetectionRefs)
         /\ Elements(DetectionRefs) = {Ref("entrypoint", x) : x \in EntrypointIds}
                                        \cup {Ref("target", t) : t \in TargetIds}
<1> DEFINE first == Refs("entrypoint", audit.entrypoints)
           second == Refs("target", audit.targets)
<1>1. IsList(audit.entrypoints) /\ IsList(audit.targets)
  BY AuditFacts
<1>2. /\ IsList(first) /\ AllDiffer(first)
      /\ Elements(first) = {Ref("entrypoint", x) : x \in EntrypointIds}
  BY <1>1, RefsFacts DEF EntrypointIds
<1>3. /\ IsList(second) /\ AllDiffer(second)
      /\ Elements(second) = {Ref("target", t) : t \in TargetIds}
  BY <1>1, RefsFacts DEF TargetIds
<1> HIDE DEF first, second
<1>4. Elements(first) \cap Elements(second) = {}
  BY <1>2, <1>3
<1>5. DetectionRefs = first \o second
  BY DEF DetectionRefs, first, second
<1>6. QED
  BY <1>2, <1>3, <1>4, <1>5, ListConcat, ElementsOfConcat, ConcatDiffers

LEMMA CandidateRefsFacts ==
  ASSUME audit \in Audits
  PROVE  /\ IsList(CandidateRefs) /\ AllDiffer(CandidateRefs)
         /\ Elements(CandidateRefs) = {Ref("boundary", i) : i \in DOMAIN audit.boundaries}
                                        \cup {Ref("primitive", i) : i \in DOMAIN audit.primitives}
                                        \cup {Ref("flow", i) : i \in DOMAIN audit.flows}
<1> DEFINE first == Refs("boundary", audit.boundaries)
           second == Refs("primitive", audit.primitives)
           third == Refs("flow", audit.flows)
<1>1. IsList(audit.boundaries) /\ IsList(audit.primitives) /\ IsList(audit.flows)
  BY AuditFacts
<1>2. /\ IsList(first) /\ AllDiffer(first)
      /\ Elements(first) = {Ref("boundary", i) : i \in DOMAIN audit.boundaries}
  BY <1>1, RefsFacts
<1>3. /\ IsList(second) /\ AllDiffer(second)
      /\ Elements(second) = {Ref("primitive", i) : i \in DOMAIN audit.primitives}
  BY <1>1, RefsFacts
<1>4. /\ IsList(third) /\ AllDiffer(third)
      /\ Elements(third) = {Ref("flow", i) : i \in DOMAIN audit.flows}
  BY <1>1, RefsFacts
<1> HIDE DEF first, second, third
<1>5. /\ IsList(first \o second) /\ AllDiffer(first \o second)
      /\ Elements(first \o second) = Elements(first) \cup Elements(second)
  <2>1. Elements(first) \cap Elements(second) = {}
    BY <1>2, <1>3
  <2>2. QED
    BY <1>2, <1>3, <2>1, ListConcat, ElementsOfConcat, ConcatDiffers
<1>6. Elements(first \o second) \cap Elements(third) = {}
  BY <1>2, <1>3, <1>4, <1>5
<1>7. CandidateRefs = (first \o second) \o third
  BY DEF CandidateRefs, first, second, third
<1> HIDE DEF first, second, third
<1> DEFINE both == first \o second
<1>8. /\ IsList(both \o third) /\ AllDiffer(both \o third)
      /\ Elements(both \o third) = Elements(both) \cup Elements(third)
  <2> HIDE DEF both
  <2>1. IsList(both) /\ AllDiffer(both) /\ Elements(both) \cap Elements(third) = {}
    BY <1>5, <1>6 DEF both
  <2>2. QED
    BY <1>4, <2>1, ListConcat, ElementsOfConcat, ConcatDiffers
<1>9. QED
  BY <1>2, <1>3, <1>4, <1>5, <1>7, <1>8

(* The nodes: each once, the files first. *)
LEMMA NodeRefsFacts ==
  ASSUME audit \in Audits
  PROVE  /\ IsList(NodeRefs) /\ AllDiffer(NodeRefs)
         /\ Len(NodeRefs) \in Nat /\ DOMAIN NodeRefs = 1 .. Len(NodeRefs)
         /\ Elements(NodeRefs) =
              {Ref("file", f) : f \in DOMAIN audit.files}
                \cup Elements(DetectionRefs) \cup Elements(CandidateRefs)
         /\ \A f \in DOMAIN audit.files : f \in DOMAIN NodeRefs /\ NodeRefs[f] = Ref("file", f)
         /\ \A n \in DOMAIN NodeRefs : NodeRefs[n].kind \in {"entrypoint", "target"} =>
              /\ NodeRefs[n] \in Elements(DetectionRefs)
              /\ \A f \in DOMAIN audit.files : f < n
<1> DEFINE first == Refs("file", audit.files)
           second == first \o DetectionRefs
<1>1. IsList(audit.files) /\ Len(audit.files) \in Nat /\ DOMAIN audit.files = 1 .. Len(audit.files)
  BY AuditFacts
<1>2. /\ IsList(first) /\ AllDiffer(first) /\ Len(first) = Len(audit.files)
      /\ Elements(first) = {Ref("file", i) : i \in DOMAIN audit.files}
      /\ \A f \in DOMAIN audit.files : first[f] = Ref("file", f)
  BY <1>1, RefsFacts
<1>3. NodeRefs = second \o CandidateRefs
  BY DEF NodeRefs
<1> HIDE DEF first
<1>4. /\ IsList(DetectionRefs) /\ AllDiffer(DetectionRefs)
      /\ IsList(CandidateRefs) /\ AllDiffer(CandidateRefs)
  BY DetectionRefsFacts, CandidateRefsFacts
<1>5. \A r \in Elements(DetectionRefs) : r.kind \in {"entrypoint", "target"}
  BY DetectionRefsFacts
<1>6. \A r \in Elements(CandidateRefs) : r.kind \in {"boundary", "primitive", "flow"}
  BY CandidateRefsFacts
<1>7. \A r \in Elements(first) : r.kind = "file"
  BY <1>2
<1>8. /\ IsList(second) /\ AllDiffer(second)
      /\ Elements(second) = Elements(first) \cup Elements(DetectionRefs)
  <2>1. Elements(first) \cap Elements(DetectionRefs) = {}
    BY <1>5, <1>7
  <2>2. QED
    BY <1>2, <1>4, <2>1, ListConcat, ElementsOfConcat, ConcatDiffers
<1>9. /\ Len(first) \in Nat /\ Len(second) = Len(first) + Len(DetectionRefs)
      /\ Len(DetectionRefs) \in Nat
      /\ \A i \in 1 .. Len(first) : second[i] = first[i]
  <2>1. \A s, t : IsList(s) /\ IsList(t) =>
          /\ Len(s) \in Nat /\ Len(t) \in Nat /\ Len(s \o t) = Len(s) + Len(t)
          /\ \A i \in 1 .. Len(s) : (s \o t)[i] = s[i]
    BY ListConcat
  <2>2. QED
    BY <1>2, <1>4, <2>1
<1> HIDE DEF second
<1>10. Elements(second) \cap Elements(CandidateRefs) = {}
  BY <1>5, <1>6, <1>7, <1>8
<1>11. /\ IsList(NodeRefs) /\ AllDiffer(NodeRefs)
       /\ Elements(NodeRefs) = Elements(second) \cup Elements(CandidateRefs)
  BY <1>3, <1>4, <1>8, <1>10, ListConcat, ElementsOfConcat, ConcatDiffers
<1>12. /\ Len(CandidateRefs) \in Nat
       /\ Len(NodeRefs) = Len(second) + Len(CandidateRefs)
       /\ DOMAIN NodeRefs = 1 .. Len(NodeRefs)
       /\ \A i \in 1 .. Len(second) : NodeRefs[i] = second[i]
  BY <1>3, <1>4, <1>8, ListConcat
<1>13. \A k, l, m \in Nat : \A i \in 1 .. k : i \in 1 .. k + l /\ i \in 1 .. (k + l) + m
  OBVIOUS
<1>14. \A f \in DOMAIN audit.files : f \in DOMAIN NodeRefs /\ NodeRefs[f] = Ref("file", f)
  <2> TAKE f \in DOMAIN audit.files
  <2>1. f \in 1 .. Len(first)
    BY <1>1, <1>2
  <2>2. f \in 1 .. Len(second) /\ f \in 1 .. Len(NodeRefs)
    BY <1>9, <1>12, <1>13, <2>1
  <2>3. QED
    BY <1>2, <1>9, <1>12, <2>1, <2>2
<1>15. Len(NodeRefs) \in Nat
  BY <1>9, <1>12
<1>16. ASSUME NEW n \in DOMAIN NodeRefs, NodeRefs[n].kind \in {"entrypoint", "target"}
       PROVE  /\ NodeRefs[n] \in Elements(DetectionRefs)
              /\ \A f \in DOMAIN audit.files : f < n
  <2>1. NodeRefs[n] \in Elements(NodeRefs)
    BY DEF Elements
  <2>2. NodeRefs[n] \in Elements(DetectionRefs)
    BY <1>6, <1>7, <1>8, <1>11, <1>16, <2>1
  <2>3. n \notin DOMAIN audit.files
    <3>1. SUFFICES ASSUME n \in DOMAIN audit.files PROVE FALSE
      OBVIOUS
    <3>2. NodeRefs[n] = Ref("file", n)
      BY <1>14, <3>1
    <3>3. QED
      BY <1>16, <3>2
  <2>4. \A k, l \in Nat : \A i \in 1 .. k : \A j \in 1 .. l : j \notin 1 .. k => i < j
    OBVIOUS
  <2>5. QED
    BY <1>1, <1>12, <1>15, <2>2, <2>3, <2>4
<1>17. QED
  BY <1>2, <1>8, <1>11, <1>12, <1>14, <1>15, <1>16
--------------------------------------------------------------------------------
(* The edges of a turn.                                                    *)

(* The type of an edge and the end it starts from tell the turn.           *)
Tells(p, n, e) ==
  /\ p = "nodes" => n \in DOMAIN NodeRefs /\ e.type = "defined_in" /\ e.source = NodeRefs[n]
  /\ p = "flows" => \/ e.type = "static_flow_source" /\ e.target = Ref("flow", n)
                    \/ e.type = "static_flow_target" /\ e.source = Ref("flow", n)
  /\ p \in Ways => /\ n \in EntrypointIds /\ e.type \in EdgeTypes(p)
                   /\ e.source = Ref("entrypoint", n)
                   /\ \E t \in Candidates(p, n) : e.target = Ref("target", t)
  /\ p \in EvidenceLinks => /\ n \in DOMAIN SourcesOf(p)
                            /\ e.type = p /\ e.source = Ref(SourceKind(p), n)
                            /\ e.target \in Elements(TargetsOf(p))
  /\ p \in {"nodes", "flows"} \cup Ways \cup EvidenceLinks

LEMMA TurnOfEdge ==
  ASSUME NEW p, NEW n, NEW e, MadeBy(p, n, e)
  PROVE  Tells(p, n, e)
<1>1. CASE p = "nodes"
  BY <1>1 DEF Tells, MadeBy, DefinitionOf, Edge, LowSignal, EvidenceLinks, Ways
<1>2. CASE p = "flows"
  BY <1>2 DEF Tells, MadeBy, FlowEdgeOf, Edge, LowSignal, EvidenceLinks, Ways
<1>3. CASE p = "resolved"
  <2>1. \A t : /\ RouteEdge(n, t).type \in EdgeTypes("resolved")
               /\ RouteEdge(n, t).source = Ref("entrypoint", n)
               /\ RouteEdge(n, t).target = Ref("target", t)
    BY DEF RouteEdge, RouteType, EdgeTypes, Correlation, Edge
  <2>2. RouteOf(n, e)
    BY <1>3 DEF MadeBy, LowSignal, EvidenceLinks
  <2>3. QED
    BY <1>3, <2>1, <2>2 DEF Tells, RouteOf, EvidenceLinks, Ways
<1>4. CASE p \in LowSignal
  <2>1. CorrelationOf(p, n, e)
    BY <1>4 DEF MadeBy, LowSignal, EvidenceLinks
  <2>2. PICK t \in Candidates(p, n) : e = Correlation(p, p, n, t, "medium")
    BY <2>1 DEF CorrelationOf
  <2>3. e.type = p /\ e.source = Ref("entrypoint", n) /\ e.target = Ref("target", t)
    BY <2>2 DEF Correlation, Edge
  <2>4. n \in EntrypointIds /\ e.type \in EdgeTypes(p)
    BY <1>4, <2>1, <2>3 DEF CorrelationOf, EdgeTypes, LowSignal
  <2>5. QED
    BY <1>4, <2>2, <2>3, <2>4 DEF Tells, EvidenceLinks, LowSignal, Ways
<1>5. CASE p \in EvidenceLinks
  <2>1. EvidenceLinkOf(p, n, e)
    BY <1>5 DEF MadeBy, LowSignal, EvidenceLinks
  <2>2. PICK j \in DOMAIN SourcesOf(p)[n].evidence, k \in DOMAIN TargetsOf(p) :
          e = Edge(p, Ref(SourceKind(p), n), TargetsOf(p)[k], "high",
                   <<SourcesOf(p)[n].evidence[j]>>, <<>>)
    BY <2>1 DEF EvidenceLinkOf
  <2>3. e.type = p /\ e.source = Ref(SourceKind(p), n) /\ e.target = TargetsOf(p)[k]
    BY <2>2 DEF Edge
  <2>4. e.target \in Elements(TargetsOf(p))
    BY <2>2, <2>3 DEF Elements
  <2>5. QED
    BY <1>5, <2>1, <2>3, <2>4 DEF Tells, EvidenceLinkOf, EvidenceLinks, LowSignal, Ways
<1>6. QED
  BY <1>1, <1>2, <1>3, <1>4, <1>5 DEF MadeBy

LEMMA TypesOfLoops ==
  \A p, q \in Ways \cup EvidenceLinks : \A e :
    /\ e \in (IF p \in Ways THEN EdgeTypes(p) ELSE {p})
    /\ e \in (IF q \in Ways THEN EdgeTypes(q) ELSE {q})
    => p = q /\ e \notin {"defined_in", "static_flow_source", "static_flow_target"}
BY DEF Ways, LowSignal, EvidenceLinks, EdgeTypes

LEMMA SameTurn ==
  ASSUME audit \in Audits,
         NEW p, NEW n, NEW e, MadeBy(p, n, e),
         NEW q, NEW m, NEW d, MadeBy(q, m, d), SameKey(e, d)
  PROVE  p = q /\ n = m
<1>1. e.type = d.type /\ e.source = d.source /\ e.target = d.target
  BY DEF SameKey
<1>2. Tells(p, n, e) /\ Tells(q, m, d)
  BY TurnOfEdge
<1>3. p = q
  <2>1. \A r \in Ways : r \notin EvidenceLinks /\ r \notin {"nodes", "flows"}
    BY DEF Ways, LowSignal, EvidenceLinks
  <2>2. \A r \in EvidenceLinks : r \notin {"nodes", "flows"}
    BY DEF EvidenceLinks
  <2>3. CASE p \in Ways \cup EvidenceLinks /\ q \in Ways \cup EvidenceLinks
    <3>1. e.type \in (IF p \in Ways THEN EdgeTypes(p) ELSE {p})
      BY <2>3, <1>2 DEF Tells
    <3>2. d.type \in (IF q \in Ways THEN EdgeTypes(q) ELSE {q})
      BY <2>3, <1>2 DEF Tells
    <3>3. QED
      BY <1>1, <2>3, <3>1, <3>2, TypesOfLoops
  <2>4. p \in Ways \cup EvidenceLinks =>
          e.type \notin {"defined_in", "static_flow_source", "static_flow_target"}
    BY <1>2, TypesOfLoops DEF Tells
  <2>5. q \in Ways \cup EvidenceLinks =>
          d.type \notin {"defined_in", "static_flow_source", "static_flow_target"}
    BY <1>2, TypesOfLoops DEF Tells
  <2>6. p = "nodes" => e.type = "defined_in"
    BY <1>2 DEF Tells
  <2>7. q = "nodes" => d.type = "defined_in"
    BY <1>2 DEF Tells
  <2>8. p = "flows" => e.type \in {"static_flow_source", "static_flow_target"}
    BY <1>2 DEF Tells
  <2>9. q = "flows" => d.type \in {"static_flow_source", "static_flow_target"}
    BY <1>2 DEF Tells
  <2>10. /\ p \in {"nodes", "flows"} \cup Ways \cup EvidenceLinks
         /\ q \in {"nodes", "flows"} \cup Ways \cup EvidenceLinks
    BY <1>2 DEF Tells
  <2>11. QED
    BY <1>1, <2>3, <2>4, <2>5, <2>6, <2>7, <2>8, <2>9, <2>10
<1>4. n = m
  <2>1. CASE p = "nodes"
    <3>1. n \in DOMAIN NodeRefs /\ e.source = NodeRefs[n]
      BY <2>1, <1>2 DEF Tells
    <3>2. m \in DOMAIN NodeRefs /\ d.source = NodeRefs[m]
      BY <1>3, <2>1, <1>2 DEF Tells
    <3>3. QED
      BY <1>1, <3>1, <3>2, NodeRefsFacts DEF AllDiffer
  <2>2. CASE p = "flows"
    <3>1. \/ e.type = "static_flow_source" /\ e.target = Ref("flow", n)
          \/ e.type = "static_flow_target" /\ e.source = Ref("flow", n)
      BY <2>2, <1>2 DEF Tells
    <3>2. \/ d.type = "static_flow_source" /\ d.target = Ref("flow", m)
          \/ d.type = "static_flow_target" /\ d.source = Ref("flow", m)
      BY <1>3, <2>2, <1>2 DEF Tells
    <3>3. QED
      BY <1>1, <3>1, <3>2
  <2>3. CASE p \in Ways
    <3>1. e.source = Ref("entrypoint", n)
      BY <2>3, <1>2 DEF Tells
    <3>2. d.source = Ref("entrypoint", m)
      BY <1>3, <2>3, <1>2 DEF Tells
    <3>3. Ref("entrypoint", n).n = Ref("entrypoint", m).n
      BY <1>1, <3>1, <3>2
    <3>4. QED
      BY <3>3
  <2>4. CASE p \in EvidenceLinks
    <3>1. e.source = Ref(SourceKind(p), n)
      BY <2>4, <1>2 DEF Tells
    <3>2. d.source = Ref(SourceKind(p), m)
      BY <1>3, <2>4, <1>2 DEF Tells
    <3>3. Ref(SourceKind(p), n).n = Ref(SourceKind(p), m).n
      BY <1>1, <3>1, <3>2
    <3>4. QED
      BY <3>3
  <2>5. QED
    BY <2>1, <2>2, <2>3, <2>4, <1>2 DEF Tells
<1>5. QED
  BY <1>3, <1>4

(* The audit does not change, and what is said of it alone is not, either. *)
LEMMA SameAudit ==
  ASSUME audit' = audit
  PROVE  /\ EntrypointIds' = EntrypointIds /\ TargetIds' = TargetIds
         /\ DetectionRefs' = DetectionRefs /\ NodeRefs' = NodeRefs
         /\ \A r : EvidenceOf(r)' = EvidenceOf(r)
         /\ \A r : Record(r)' = Record(r)
         /\ \A way : SourcesOf(way)' = SourcesOf(way) /\ TargetsOf(way)' = TargetsOf(way)
         /\ \A way, x : Candidates(way, x)' = Candidates(way, x)
         /\ \A way, x, t, u : Before(way, x, t, u)' = Before(way, x, t, u)
         /\ \A p, n, e : MadeBy(p, n, e)' = MadeBy(p, n, e)
<1>1. EntrypointIds' = EntrypointIds /\ TargetIds' = TargetIds
  BY DEF EntrypointIds, TargetIds
<1>2. DetectionRefs' = DetectionRefs /\ CandidateRefs' = CandidateRefs
  BY DEF DetectionRefs, CandidateRefs, Refs
<1>3. NodeRefs' = NodeRefs
  BY <1>2 DEF NodeRefs, Refs
<1>4. \A r : Record(r)' = Record(r)
  BY DEF Record
<1>5. \A r : EvidenceOf(r)' = EvidenceOf(r)
  BY <1>4 DEF EvidenceOf
<1>6. \A way : SourcesOf(way)' = SourcesOf(way) /\ TargetsOf(way)' = TargetsOf(way)
  BY <1>2 DEF SourcesOf, TargetsOf, Refs
<1>7. \A way, x : Candidates(way, x)' = Candidates(way, x)
  BY <1>1 DEF Candidates
<1>8. \A way, x, t : Rank(way, x, t)' = Rank(way, x, t)
  BY DEF Rank
<1>9. \A way, x, t, u : Before(way, x, t, u)' = Before(way, x, t, u)
  BY <1>8, Zenon DEF Before
<1>10. \A n, e : DefinitionOf(n, e)' = DefinitionOf(n, e)
  BY <1>3, <1>4, Zenon DEF DefinitionOf
<1>11. \A n, e : FlowEdgeOf(n, e)' = FlowEdgeOf(n, e)
  BY Zenon DEF FlowEdgeOf
<1>12. \A way, type, x, t, c : Correlation(way, type, x, t, c)' = Correlation(way, type, x, t, c)
  BY Zenon DEF Correlation
<1>13. \A x, t : RouteEdge(x, t)' = RouteEdge(x, t)
  BY <1>12, Zenon DEF RouteEdge, RouteType
<1>14. \A n, e : RouteOf(n, e)' = RouteOf(n, e)
  BY <1>1, <1>7, <1>13, Zenon DEF RouteOf
<1>15. \A way, n, e : CorrelationOf(way, n, e)' = CorrelationOf(way, n, e)
  BY <1>1, <1>7, <1>12, Zenon DEF CorrelationOf
<1>16. \A way, n, e : EvidenceLinkOf(way, n, e)' = EvidenceLinkOf(way, n, e)
  BY <1>5, <1>6, ZenonT(40) DEF EvidenceLinkOf
<1>17. \A p, n, e : MadeBy(p, n, e)' = MadeBy(p, n, e)
  <2> TAKE p, n, e
  <2>1. LowSignal' = LowSignal /\ EvidenceLinks' = EvidenceLinks
    BY DEF LowSignal, EvidenceLinks
  <2>2. QED
    BY <1>10, <1>11, <1>14, <1>15, <1>16, <2>1, Zenon DEF MadeBy
<1>18. QED
  BY <1>1, <1>2, <1>3, <1>4, <1>5, <1>6, <1>7, <1>9, <1>17
--------------------------------------------------------------------------------
(* What a step adds, and what it keeps.                                    *)

LEMMA Growth ==
  ASSUME IsList(edges), NEW new, IsList(new), edges' = edges \o new
  PROVE  /\ IsList(edges')
         /\ Elements(edges') = Elements(edges) \cup Elements(new)
         /\ \A type, source, target :
              Linked(type, source, target)' <=>
                \/ Linked(type, source, target)
                \/ \E i \in DOMAIN new :
                     new[i].type = type /\ new[i].source = source /\ new[i].target = target
<1>1. IsList(edges')
  BY ListConcat
<1>2. Elements(edges') = Elements(edges) \cup Elements(new)
  BY ElementsOfConcat
<1>3. ASSUME NEW type, NEW source, NEW target
      PROVE  Linked(type, source, target)' <=>
               \/ Linked(type, source, target)
               \/ \E i \in DOMAIN new :
                    new[i].type = type /\ new[i].source = source /\ new[i].target = target
  <2>1. \A list : (\E i \in DOMAIN list : /\ list[i].type = type /\ list[i].source = source
                                        /\ list[i].target = target)
                  <=> (\E d \in Elements(list) : /\ d.type = type /\ d.source = source
                                                /\ d.target = target)
    BY DEF Elements
  <2>2. Linked(type, source, target)' <=>
          \E i \in DOMAIN edges' : /\ edges'[i].type = type /\ edges'[i].source = source
                                  /\ edges'[i].target = target
    BY DEF Linked
  <2>3. Linked(type, source, target) <=>
          \E i \in DOMAIN edges : /\ edges[i].type = type /\ edges[i].source = source
                                 /\ edges[i].target = target
    BY DEF Linked
  <2>4. QED
    BY <1>2, <2>1, <2>2, <2>3
<1>4. QED
  BY <1>1, <1>2, <1>3

LEMMA KeysDifferInConcat ==
  ASSUME NEW s, IsList(s), KeysDiffer(s), NEW t, IsList(t), KeysDiffer(t),
         \A d \in Elements(s), e \in Elements(t) : ~SameKey(d, e)
  PROVE  KeysDiffer(s \o t)
<1> DEFINE u == s \o t
<1>1. /\ Len(s) \in Nat /\ Len(t) \in Nat
      /\ DOMAIN s = 1 .. Len(s) /\ DOMAIN t = 1 .. Len(t)
      /\ DOMAIN u = 1 .. Len(s) + Len(t)
      /\ \A i \in 1 .. Len(s) : u[i] = s[i]
      /\ \A i \in 1 .. Len(s) + Len(t) : i > Len(s) =>
           i - Len(s) \in 1 .. Len(t) /\ u[i] = t[i - Len(s)]
  BY ListConcat
<1> HIDE DEF u
<1> SUFFICES ASSUME NEW i \in DOMAIN u, NEW j \in DOMAIN u, SameKey(u[i], u[j])
             PROVE  i = j
  BY DEF KeysDiffer, u
<1>2. \A m, n \in Nat : \A k \in 1 .. m + n : k \in Int /\ (k > m \/ k \in 1 .. m)
  OBVIOUS
<1>3. \A k \in 1 .. Len(s), l \in 1 .. Len(t) :
        ~SameKey(s[k], t[l]) /\ ~SameKey(t[l], s[k])
  <2>1. \A k \in 1 .. Len(s), l \in 1 .. Len(t) : ~SameKey(s[k], t[l])
    BY <1>1 DEF Elements
  <2>2. QED
    BY <2>1 DEF SameKey
<1>4. CASE i \in 1 .. Len(s) /\ j \in 1 .. Len(s)
  BY <1>1, <1>4 DEF KeysDiffer
<1>5. CASE i > Len(s) /\ j > Len(s)
  <2>1. i - Len(s) = j - Len(s)
    BY <1>1, <1>5 DEF KeysDiffer
  <2>2. QED
    BY <1>1, <1>2, <2>1
<1>6. QED
  BY <1>1, <1>2, <1>3, <1>4, <1>5

(* A turn that ends leaves the turns before it as they were.               *)
LEMMA PastAfterTurn ==
  ASSUME next \in Nat, phase' = phase, next' = next + 1
  PROVE  \A p : \A n \in Nat : Past(p, n)' <=> Past(p, n) \/ (p = phase /\ n = next)
<1> SUFFICES ASSUME NEW p, NEW n \in Nat
             PROVE  Past(p, n)' <=> Past(p, n) \/ (p = phase /\ n = next)
  OBVIOUS
<1>1. Past(p, n)' <=> Number(p) < Number(phase) \/ (p = phase /\ n < next + 1)
  BY DEF Past
<1>2. n < next + 1 <=> n < next \/ n = next
  OBVIOUS
<1>3. QED
  BY <1>1, <1>2, Zenon DEF Past

LEMMA PastAfterLoop ==
  ASSUME phase \in Loops, NextLoop
  PROVE  /\ phase' \in Loops /\ phase' # "nodes" /\ Number(phase') = Number(phase) + 1
         /\ \A p \in Loops : \A n \in Nat \ {0} :
              Past(p, n)' <=> Past(p, n) \/ p = phase \/ Number(p) < Number(phase)
<1>1. PICK i \in 1 .. 7 : Phases[i] = phase /\ phase' = Phases[i + 1]
  BY DEF NextLoop, Phases
<1>2. /\ phase' \in Loops /\ phase' # "nodes" /\ phase' # phase
      /\ Number(phase') = Number(phase) + 1
      /\ \A p \in Loops : Number(p) \in 1 .. 8
      /\ \A p \in Loops : Number(p) = Number(phase) <=> p = phase
  <2>1. i \in {1, 2, 3, 4, 5, 6, 7}
    BY <1>1
  <2>2. QED
    BY <1>1, <2>1 DEF Phases, Number, Loops, Ways, LowSignal, EvidenceLinks
<1>3. next' = 1
  BY DEF NextLoop
<1>4. ASSUME NEW p \in Loops, NEW n \in Nat \ {0}
      PROVE  Past(p, n)' <=> Past(p, n) \/ p = phase \/ Number(p) < Number(phase)
  <2>1. Past(p, n)' <=> Number(p) < Number(phase')
    BY <1>3 DEF Past
  <2>2. Past(p, n) => p = phase \/ Number(p) < Number(phase)
    BY DEF Past
  <2>3. QED
    BY <1>2, <2>1, <2>2
<1>5. QED
  BY <1>2, <1>4
--------------------------------------------------------------------------------
(* The edges that each turn adds.                                          *)

TurnAdds(new) ==
  /\ IsList(new) /\ KeysDiffer(new)
  /\ \A i \in DOMAIN new : MadeBy(phase, next, new[i])
  /\ phase \in EvidenceLinks => \A i \in DOMAIN new : new[i].target \notin linked

LEMMA RunningTurn ==
  ASSUME Control, ~LoopOver
  PROVE  /\ next \in Nat \ {0} /\ phase # "done"
         /\ phase = "nodes" => next \in DOMAIN NodeRefs /\ Len(nodes) = next - 1
         /\ phase = "flows" => next \in DOMAIN audit.flows
         /\ phase \in Ways => next \in EntrypointIds
         /\ phase \in EvidenceLinks => next \in DOMAIN SourcesOf(phase)
         /\ phase \in LowSignal => spent < MaxLowSignalEdges
<1> USE DEF Control
<1>1. /\ Len(NodeRefs) \in Nat /\ DOMAIN NodeRefs = 1 .. Len(NodeRefs)
      /\ Len(audit.flows) \in Nat /\ DOMAIN audit.flows = 1 .. Len(audit.flows)
      /\ Len(audit.entrypoints) \in Nat /\ EntrypointIds = 1 .. Len(audit.entrypoints)
      /\ Len(audit.boundaries) \in Nat /\ DOMAIN audit.boundaries = 1 .. Len(audit.boundaries)
      /\ Len(audit.primitives) \in Nat /\ DOMAIN audit.primitives = 1 .. Len(audit.primitives)
  BY AuditFacts, NodeRefsFacts
<1>2. Turns \in Nat
  BY <1>1 DEF Turns, Loops, Ways, LowSignal, EvidenceLinks
<1>3. next \in Nat \ {0} /\ next <= Turns /\ next \in 1 .. Turns
  BY <1>2 DEF LoopOver
<1>4. phase # "done"
  <2>1. phase = "done" => Turns = 0
    BY DEF Turns, LowSignal
  <2>2. QED
    BY <1>3, <2>1
<1>5. phase = "nodes" => next \in DOMAIN NodeRefs /\ Len(nodes) = next - 1
  BY <1>1, <1>3 DEF Turns, LowSignal
<1>6. phase = "flows" => next \in DOMAIN audit.flows
  BY <1>1, <1>3 DEF Turns, LowSignal
<1>7. phase \in Ways => next \in EntrypointIds
  BY <1>1, <1>3 DEF Turns, Ways, LowSignal
<1>8. phase \in EvidenceLinks => next \in DOMAIN SourcesOf(phase)
  BY <1>1, <1>3 DEF Turns, EvidenceLinks, SourcesOf, LowSignal
<1>9. phase \in LowSignal => spent < MaxLowSignalEdges
  BY GraphAssumption DEF LoopOver
<1>10. QED
  BY <1>3, <1>4, <1>5, <1>6, <1>7, <1>8, <1>9

(* A detection is joined with all files of its path. *)
LEMMA NodeTurn ==
  ASSUME Control, phase = "nodes", ~LoopOver
  PROVE  LET r == NodeRefs[next] IN
         /\ TurnAdds(DefinedIn(r))
         /\ r.kind \in {"entrypoint", "target"} =>
              \A f \in DOMAIN audit.files : audit.files[f] = Record(r).file =>
                \E i \in DOMAIN DefinedIn(r) :
                  /\ DefinedIn(r)[i].type = "defined_in"
                  /\ DefinedIn(r)[i].source = r /\ DefinedIn(r)[i].target = Ref("file", f)
<1> DEFINE r == NodeRefs[next]
           refs == Refs("file", audit.files)
           P == {f \in DOMAIN audit.files : HasNode(Ref("file", f)) /\ audit.files[f] = Record(r).file}
           files == Pick(refs, P)
           new == DefinedIn(r)
           edge(f) == Edge("defined_in", r, f, "high", Record(r).evidence, <<>>)
<1>1. next \in DOMAIN NodeRefs /\ next \in Nat /\ Len(nodes) = next - 1
  BY RunningTurn
<1>2. CASE r.kind \notin {"entrypoint", "target"}
  <2>1. new = <<>>
    BY <1>2 DEF DefinedIn
  <2>2. IsList(new) /\ DOMAIN new = {}
    <3>1. <<>> \in Seq({}) /\ DOMAIN (<<>>) = {}
      OBVIOUS
    <3>2. IsList(<<>>)
      BY <3>1, SequenceIsList
    <3>3. QED
      BY <2>1, <3>1, <3>2
  <2>3. QED
    BY <1>2, <2>2 DEF TurnAdds, KeysDiffer, EvidenceLinks
<1>3. CASE r.kind \in {"entrypoint", "target"}
  <2>1. /\ IsList(refs) /\ AllDiffer(refs) /\ DOMAIN refs = DOMAIN audit.files
        /\ \A f \in DOMAIN audit.files : refs[f] = Ref("file", f)
    BY AuditFacts, RefsFacts DEF Control
  <2>2. new = [i \in DOMAIN files |-> edge(files[i])]
    BY <1>3 DEF DefinedIn
  <2>3. /\ IsList(files) /\ AllDiffer(files) /\ Len(files) \in Nat
        /\ DOMAIN files = 1 .. Len(files)
        /\ \A i \in DOMAIN files : \E f \in P : files[i] = Ref("file", f)
        /\ \A f \in P : \E i \in DOMAIN files : files[i] = Ref("file", f)
    <3>1. P \in SUBSET DOMAIN refs
      BY <2>1
    <3> HIDE DEF P, refs
    <3>2. /\ IsList(files)
          /\ \A i \in DOMAIN files : \E k \in P : files[i] = refs[k]
          /\ \A k \in P : \E i \in DOMAIN files : files[i] = refs[k]
      BY <2>1, <3>1, PickIsList
    <3>3. AllDiffer(files)
      BY <2>1, <3>1, PickDiffers
    <3>4. \A k \in P : refs[k] = Ref("file", k)
      BY <2>1, <3>1
    <3> HIDE DEF files
    <3>5. Len(files) \in Nat /\ DOMAIN files = 1 .. Len(files)
      BY <3>2, ListFacts
    <3>6. \A i \in DOMAIN files : \E f \in P : files[i] = Ref("file", f)
      <4> TAKE i \in DOMAIN files
      <4>1. PICK k \in P : files[i] = refs[k]
        BY <3>2
      <4>2. QED
        BY <3>4, <4>1
    <3>7. \A f \in P : \E i \in DOMAIN files : files[i] = Ref("file", f)
      <4> TAKE f \in P
      <4>1. PICK i \in DOMAIN files : files[i] = refs[f]
        BY <3>2
      <4>2. QED
        BY <3>4, <4>1
    <3>8. QED
      BY <3>2, <3>3, <3>5, <3>6, <3>7
  <2> HIDE DEF files
  <2>4. new = [i \in 1 .. Len(files) |-> new[i]] /\ DOMAIN new = DOMAIN files
    BY <2>2, <2>3
  <2>5. IsList(new)
    BY <2>3, <2>4, MapIsList
  <2>6. \A i \in DOMAIN files : new[i] = edge(files[i])
    BY <2>2
  <2>7. \A f : edge(f).type = "defined_in" /\ edge(f).source = r /\ edge(f).target = f
    BY DEF Edge
  <2>8. \A i \in DOMAIN new : MadeBy(phase, next, new[i])
    <3> TAKE i \in DOMAIN new
    <3>1. PICK f \in P : files[i] = Ref("file", f)
      BY <2>3, <2>4
    <3>2. new[i] = edge(Ref("file", f))
      BY <2>4, <2>6, <3>1
    <3>3. DefinitionOf(next, new[i])
      BY <1>1, <1>3, <3>2 DEF DefinitionOf
    <3>4. QED
      BY <3>3 DEF MadeBy
  <2> HIDE DEF new, edge
  <2>9. KeysDiffer(new)
    BY <2>3, <2>4, <2>6, <2>7 DEF KeysDiffer, SameKey, AllDiffer
  <2>10. ASSUME NEW f \in DOMAIN audit.files, audit.files[f] = Record(r).file
         PROVE  \E i \in DOMAIN new : /\ new[i].type = "defined_in"
                                      /\ new[i].source = r /\ new[i].target = Ref("file", f)
    <3>1. f < next /\ NodeRefs[f] = Ref("file", f)
      BY <1>1, <1>3, NodeRefsFacts DEF Control
    <3>2. f \in DOMAIN nodes
      <4>1. f \in Nat \ {0}
        BY AuditFacts DEF Control
      <4>2. DOMAIN nodes = 1 .. Len(nodes)
        BY ListFacts DEF Control
      <4>3. QED
        BY <1>1, <3>1, <4>1, <4>2
    <3>3. HasNode(Ref("file", f))
      BY <3>1, <3>2 DEF HasNode, Control
    <3>4. QED
      BY <2>3, <2>4, <2>6, <2>7, <2>10, <3>3
  <2>11. QED
    BY <2>5, <2>8, <2>9, <2>10 DEF TurnAdds, EvidenceLinks, new
<1>4. QED
  BY <1>2, <1>3

(* When the nodes are all there, so are the ends of the edges. *)
LEMMA AllNodes ==
  ASSUME Control, phase # "nodes"
  PROVE  \A r \in Elements(NodeRefs) : HasNode(r)
<1> TAKE r \in Elements(NodeRefs)
<1>1. PICK i \in DOMAIN NodeRefs : NodeRefs[i] = r
  BY DEF Elements
<1>2. DOMAIN nodes = DOMAIN NodeRefs
  BY NodeRefsFacts, ListFacts DEF Control
<1>3. QED
  BY <1>1, <1>2 DEF HasNode, Control

LEMMA FlowFacts ==
  ASSUME audit \in Audits, NEW n \in DOMAIN audit.flows
  PROVE  /\ audit.flows[n].entrypoint \in EntrypointIds
         /\ audit.flows[n].target \in TargetIds
         /\ audit.flows[n].confidence \in Confidences
         /\ audit.flows[n].evidence \in Seq(Nat) /\ audit.flows[n].missing \in Seq(Texts)
         /\ Ref("entrypoint", audit.flows[n].entrypoint) \in Elements(NodeRefs)
         /\ Ref("flow", n) \in Elements(NodeRefs)
         /\ Ref("target", audit.flows[n].target) \in Elements(NodeRefs)
<1> DEFINE flow == audit.flows[n]
<1>1. IsAudit(audit)
  BY AuditAssumption
<1>2. /\ flow.entrypoint \in EntrypointIds /\ flow.target \in TargetIds
      /\ flow.confidence \in Confidences
      /\ flow.evidence \in Seq(Nat) /\ flow.missing \in Seq(Texts)
  BY <1>1 DEF IsAudit, EntrypointIds, TargetIds
<1> HIDE DEF flow
<1>3. Ref("entrypoint", flow.entrypoint) \in Elements(DetectionRefs)
  BY <1>2, DetectionRefsFacts
<1>4. Ref("target", flow.target) \in Elements(DetectionRefs)
  BY <1>2, DetectionRefsFacts
<1>5. Ref("flow", n) \in Elements(CandidateRefs)
  BY CandidateRefsFacts
<1>6. Elements(DetectionRefs) \cup Elements(CandidateRefs) \subseteq Elements(NodeRefs)
  BY NodeRefsFacts
<1>7. QED
  BY <1>2, <1>3, <1>4, <1>5, <1>6 DEF flow

LEMMA FlowTurn ==
  ASSUME Control, phase = "flows", ~LoopOver
  PROVE  LET flow == audit.flows[next] new == FlowEdges(next) IN
         /\ TurnAdds(new)
         /\ \E i \in DOMAIN new :
              /\ new[i].type = "static_flow_source"
              /\ new[i].source = Ref("entrypoint", flow.entrypoint)
              /\ new[i].target = Ref("flow", next)
         /\ \E i \in DOMAIN new :
              /\ new[i].type = "static_flow_target" /\ new[i].source = Ref("flow", next)
              /\ new[i].target = Ref("target", flow.target)
<1> DEFINE flow == audit.flows[next]
           new == FlowEdges(next)
           first == Edge("static_flow_source", Ref("entrypoint", flow.entrypoint),
                         Ref("flow", next), flow.confidence, flow.evidence, flow.missing)
           second == Edge("static_flow_target", Ref("flow", next),
                          Ref("target", flow.target), flow.confidence, flow.evidence, flow.missing)
<1>1. next \in DOMAIN audit.flows /\ audit \in Audits
  BY RunningTurn DEF Control
<1>2. /\ HasNode(Ref("entrypoint", flow.entrypoint)) /\ HasNode(Ref("flow", next))
      /\ HasNode(Ref("target", flow.target))
  <2>1. \A r \in Elements(NodeRefs) : HasNode(r)
    BY AllNodes
  <2>2. /\ Ref("entrypoint", flow.entrypoint) \in Elements(NodeRefs)
        /\ Ref("flow", next) \in Elements(NodeRefs)
        /\ Ref("target", flow.target) \in Elements(NodeRefs)
    BY <1>1, FlowFacts
  <2>3. QED
    BY <2>1, <2>2
<1>3. new = <<first, second>>
  BY <1>2 DEF FlowEdges
<1>4. /\ first.type = "static_flow_source"
      /\ first.source = Ref("entrypoint", flow.entrypoint) /\ first.target = Ref("flow", next)
      /\ second.type = "static_flow_target"
      /\ second.source = Ref("flow", next) /\ second.target = Ref("target", flow.target)
  BY DEF Edge
<1>5. FlowEdgeOf(next, first) /\ FlowEdgeOf(next, second)
  BY <1>1 DEF FlowEdgeOf
<1> HIDE DEF first, second, new
<1>6. /\ new \in Seq({first, second}) /\ DOMAIN new = {1, 2}
      /\ new[1] = first /\ new[2] = second
  BY <1>3
<1>7. IsList(new)
  BY <1>6, SequenceIsList
<1>8. KeysDiffer(new)
  <2>1. first.type # second.type
    BY <1>4
  <2>2. QED
    BY <1>6, <2>1 DEF KeysDiffer, SameKey
<1>9. \A i \in DOMAIN new : MadeBy(phase, next, new[i])
  BY <1>5, <1>6 DEF MadeBy
<1>10. TurnAdds(new)
  BY <1>7, <1>8, <1>9 DEF TurnAdds, EvidenceLinks
<1>11. QED
  BY <1>4, <1>6, <1>10 DEF new

(* Edges to the best candidates. *)
LEMMA BestTurn ==
  ASSUME audit \in Audits, NEW way \in Ways, NEW x \in EntrypointIds, NEW n \in Nat,
         NEW new, new = [i \in DOMAIN Best(way, x, n) |-> new[i]],
         \A i \in DOMAIN Best(way, x, n) : new[i].target = Ref("target", Best(way, x, n)[i])
  PROVE  /\ IsList(new) /\ KeysDiffer(new) /\ Len(new) = Len(Best(way, x, n))
         /\ Len(new) \in Nat /\ DOMAIN new = DOMAIN Best(way, x, n)
<1> DEFINE best == Best(way, x, n)
<1>1. /\ IsList(best) /\ \A i, j \in DOMAIN best : best[i] = best[j] => i = j
  BY BestProperties
<1>2. \A i \in DOMAIN best : new[i].target = Ref("target", best[i])
  OBVIOUS
<1>3. new = [i \in DOMAIN best |-> new[i]]
  OBVIOUS
<1> HIDE DEF best
<1>4. Len(best) \in Nat /\ DOMAIN best = 1 .. Len(best)
  BY <1>1, ListFacts
<1>5. IsList(new) /\ Len(new) = Len(best) /\ DOMAIN new = DOMAIN best
  BY <1>3, <1>4, MapIsList
<1>6. KeysDiffer(new)
  <2> SUFFICES ASSUME NEW i \in DOMAIN best, NEW j \in DOMAIN best,
                      new[i].target = new[j].target
               PROVE  i = j
    BY <1>5 DEF KeysDiffer, SameKey
  <2>1. Ref("target", best[i]).n = Ref("target", best[j]).n
    BY <1>2
  <2>2. QED
    BY <1>1, <2>1
<1>7. QED
  BY <1>4, <1>5, <1>6 DEF best

(* A turn of correlations keeps to its entrypoint's cap and to the budget. *)
LEMMA SpentAfterTurn ==
  ASSUME Control, phase \in LowSignal, ~LoopOver
  PROVE  LET n == Least(Cap(phase), MaxLowSignalEdges - spent)
             best == Best(phase, next, n)
         IN  /\ n \in Nat /\ n <= Cap(phase) /\ n <= MaxLowSignalEdges - spent
             /\ n = Cap(phase) \/ spent + n = MaxLowSignalEdges
             /\ Len(best) \in Nat /\ Len(best) <= n
             /\ spent + Len(best) \in 0 .. MaxLowSignalEdges
<1> DEFINE n == Least(Cap(phase), MaxLowSignalEdges - spent)
           best == Best(phase, next, n)
<1>1. next \in EntrypointIds /\ audit \in Audits /\ phase \in Ways
  BY RunningTurn DEF Control, Ways
<1>2. spent \in Nat /\ spent <= MaxLowSignalEdges /\ MaxLowSignalEdges \in Nat
  BY GraphAssumption DEF Control
<1>3. Cap(phase) \in Nat
  BY GraphAssumption DEF Cap, LowSignal
<1>4. MaxLowSignalEdges - spent \in Nat
  BY <1>2
<1>5. /\ n \in Nat /\ n <= Cap(phase) /\ n <= MaxLowSignalEdges - spent
      /\ n = Cap(phase) \/ n = MaxLowSignalEdges - spent
  BY <1>3, <1>4 DEF Least
<1> HIDE DEF n
<1>6. Len(best) \in Nat /\ Len(best) <= n
  BY <1>1, <1>5, BestProperties
<1> HIDE DEF best
<1>7. spent + Len(best) \in 0 .. MaxLowSignalEdges
  BY <1>2, <1>5, <1>6
<1>8. n = Cap(phase) \/ spent + n = MaxLowSignalEdges
  BY <1>2, <1>5
<1>9. QED
  BY <1>5, <1>6, <1>7, <1>8 DEF n, best

LEMMA RouteTurn ==
  ASSUME Control, phase = "resolved", ~LoopOver
  PROVE  LET best == Best("resolved", next, Cap("resolved"))
             new == [i \in DOMAIN best |-> RouteEdge(next, best[i])]
         IN  /\ TurnAdds(new) /\ Len(new) = Len(best) /\ DOMAIN new = DOMAIN best
             /\ \A i \in DOMAIN best : /\ new[i].type \in EdgeTypes("resolved")
                                       /\ new[i].source = Ref("entrypoint", next)
                                       /\ new[i].target = Ref("target", best[i])
<1> DEFINE best == Best("resolved", next, Cap("resolved"))
           new == [i \in DOMAIN best |-> RouteEdge(next, best[i])]
<1>1. /\ next \in EntrypointIds /\ audit \in Audits
      /\ "resolved" \in Ways /\ Cap("resolved") \in Nat
  BY RunningTurn, GraphAssumption DEF Control, Ways, Cap
<1>2. \A t : /\ RouteEdge(next, t).type \in EdgeTypes("resolved")
             /\ RouteEdge(next, t).source = Ref("entrypoint", next)
             /\ RouteEdge(next, t).target = Ref("target", t)
  BY DEF RouteEdge, RouteType, EdgeTypes, Correlation, Edge
<1>3. \A i \in DOMAIN best : best[i] \in Candidates("resolved", next)
  BY <1>1, BestProperties
<1> HIDE DEF best
<1>4. new = [i \in DOMAIN best |-> new[i]] /\ \A i \in DOMAIN best : new[i] = RouteEdge(next, best[i])
  OBVIOUS
<1> HIDE DEF new
<1>5. \A i \in DOMAIN best : new[i].target = Ref("target", best[i])
  BY <1>2, <1>4
<1>6. IsList(new) /\ KeysDiffer(new) /\ Len(new) = Len(best) /\ DOMAIN new = DOMAIN best
  BY <1>1, <1>4, <1>5, BestTurn DEF best
<1>7. \A i \in DOMAIN new : MadeBy(phase, next, new[i])
  BY <1>1, <1>3, <1>4, <1>6 DEF MadeBy, RouteOf
<1>8. TurnAdds(new)
  BY <1>6, <1>7 DEF TurnAdds, EvidenceLinks
<1>9. \A i \in DOMAIN best : /\ new[i].type \in EdgeTypes("resolved")
                             /\ new[i].source = Ref("entrypoint", next)
                             /\ new[i].target = Ref("target", best[i])
  BY <1>2, <1>4
<1>10. QED
  BY <1>6, <1>8, <1>9 DEF new, best

(* Both ends of every resolved edge have their node by then. *)
LEMMA RoutesAreDrawn ==
  ASSUME Control, phase = "resolved", ~LoopOver
  PROVE  LET best == Best("resolved", next, Cap("resolved")) IN
         RouteEdges(next) = [i \in DOMAIN best |-> RouteEdge(next, best[i])]
<1> DEFINE best == Best("resolved", next, Cap("resolved"))
           new == [i \in DOMAIN best |-> RouteEdge(next, best[i])]
           there == {i \in DOMAIN best : /\ HasNode(Ref("entrypoint", next))
                                         /\ HasNode(Ref("target", best[i]))}
<1>1. /\ next \in EntrypointIds /\ audit \in Audits
      /\ "resolved" \in Ways /\ Cap("resolved") \in Nat
  BY RunningTurn, GraphAssumption DEF Control, Ways, Cap
<1>2. \A i \in DOMAIN best : best[i] \in TargetIds
  <2>1. \A i \in DOMAIN best : best[i] \in Candidates("resolved", next)
    BY <1>1, BestProperties
  <2>2. QED
    BY <2>1 DEF Candidates
<1>3. \A r \in Elements(NodeRefs) : HasNode(r)
  BY AllNodes
<1>4. Elements(DetectionRefs) \subseteq Elements(NodeRefs)
  BY <1>1, NodeRefsFacts
<1>5. Ref("entrypoint", next) \in Elements(NodeRefs)
  BY <1>1, <1>4, DetectionRefsFacts
<1>6. \A t \in TargetIds : Ref("target", t) \in Elements(NodeRefs)
  BY <1>1, <1>4, DetectionRefsFacts
<1>7. there = DOMAIN best
  BY <1>2, <1>3, <1>5, <1>6
<1>8. IsList(new) /\ DOMAIN new = DOMAIN best
  BY RouteTurn DEF TurnAdds
<1> HIDE DEF best
<1>9. RouteEdges(next) = Pick(new, there)
  BY DEF RouteEdges, best
<1> HIDE DEF new, there
<1>10. Pick(new, DOMAIN new) = new
  BY <1>8, PickAll
<1>11. QED
  BY <1>7, <1>8, <1>9, <1>10 DEF new, best

LEMMA CorrelationTurn ==
  ASSUME Control, phase \in LowSignal, ~LoopOver
  PROVE  LET best == Best(phase, next, Least(Cap(phase), MaxLowSignalEdges - spent))
             new == [i \in DOMAIN best |-> Correlation(phase, phase, next, best[i], "medium")]
         IN  /\ TurnAdds(new) /\ Len(new) = Len(best) /\ DOMAIN new = DOMAIN best
             /\ \A i \in DOMAIN best : /\ new[i].type = phase
                                       /\ new[i].source = Ref("entrypoint", next)
                                       /\ new[i].target = Ref("target", best[i])
<1> DEFINE n == Least(Cap(phase), MaxLowSignalEdges - spent)
           best == Best(phase, next, n)
           new == [i \in DOMAIN best |-> Correlation(phase, phase, next, best[i], "medium")]
<1>1. /\ next \in EntrypointIds /\ audit \in Audits /\ phase \in Ways /\ n \in Nat
  <2>1. phase \in Ways
    BY DEF Ways
  <2>2. spent \in Nat /\ spent <= MaxLowSignalEdges
    BY GraphAssumption DEF Control
  <2>3. Cap(phase) \in Nat
    BY GraphAssumption DEF Cap, LowSignal
  <2>4. MaxLowSignalEdges - spent \in Nat
    BY <2>2, GraphAssumption
  <2>5. n \in Nat
    BY <2>3, <2>4, LeastIsNatural
  <2>6. QED
    BY <2>1, <2>5, RunningTurn DEF Control
<1> HIDE DEF n
<1>2. \A t : /\ Correlation(phase, phase, next, t, "medium").type = phase
             /\ Correlation(phase, phase, next, t, "medium").source = Ref("entrypoint", next)
             /\ Correlation(phase, phase, next, t, "medium").target = Ref("target", t)
  BY DEF Correlation, Edge
<1>3. \A i \in DOMAIN best : best[i] \in Candidates(phase, next)
  BY <1>1, BestProperties
<1> HIDE DEF best
<1>4. /\ new = [i \in DOMAIN best |-> new[i]]
      /\ \A i \in DOMAIN best : new[i] = Correlation(phase, phase, next, best[i], "medium")
  OBVIOUS
<1> HIDE DEF new
<1>5. \A i \in DOMAIN best : new[i].target = Ref("target", best[i])
  BY <1>2, <1>4
<1>6. IsList(new) /\ KeysDiffer(new) /\ Len(new) = Len(best) /\ DOMAIN new = DOMAIN best
  BY <1>1, <1>4, <1>5, BestTurn DEF best
<1>7. \A i \in DOMAIN new : MadeBy(phase, next, new[i])
  BY <1>1, <1>3, <1>4, <1>6 DEF MadeBy, CorrelationOf
<1>8. TurnAdds(new)
  BY <1>6, <1>7 DEF TurnAdds, EvidenceLinks, LowSignal
<1>9. \A i \in DOMAIN best : /\ new[i].type = phase
                             /\ new[i].source = Ref("entrypoint", next)
                             /\ new[i].target = Ref("target", best[i])
  BY <1>2, <1>4
<1>10. QED
  BY <1>6, <1>8, <1>9 DEF new, best, n

(* The sources and the targets of links that name an evidence. *)
LEMMA SourceFacts ==
  ASSUME NEW way \in EvidenceLinks
  PROVE  /\ \A n : Record(Ref(SourceKind(way), n)) = SourcesOf(way)[n]
         /\ phase = way => /\ Source = Ref(SourceKind(way), next)
                           /\ EvidenceTargets = TargetsOf(way)
         /\ SourceKind(way) \in {"boundary", "primitive"}
<1>1. CASE way = "boundary_evidence"
  BY <1>1 DEF Record, SourceKind, SourcesOf, Source, EvidenceTargets, TargetsOf
<1>2. CASE way = "primitive_evidence"
  BY <1>2 DEF Record, SourceKind, SourcesOf, Source, EvidenceTargets, TargetsOf
<1>3. QED
  BY <1>1, <1>2 DEF EvidenceLinks

LEMMA TargetsFacts ==
  ASSUME audit \in Audits, NEW way \in EvidenceLinks
  PROVE  /\ IsList(TargetsOf(way)) /\ AllDiffer(TargetsOf(way))
         /\ Elements(TargetsOf(way)) =
              Elements(DetectionRefs)
                \cup (IF way = "primitive_evidence"
                        THEN {Ref("boundary", b) : b \in DOMAIN audit.boundaries} ELSE {})
         /\ \A n : Ref(SourceKind(way), n) \notin Elements(TargetsOf(way))
<1> DEFINE more == IF way = "primitive_evidence"
                     THEN Refs("boundary", audit.boundaries) ELSE <<>>
           elements == IF way = "primitive_evidence"
                         THEN {Ref("boundary", b) : b \in DOMAIN audit.boundaries} ELSE {}
<1>1. IsList(more) /\ AllDiffer(more) /\ Elements(more) = elements
  <2>1. CASE way = "primitive_evidence"
    <3>1. IsList(audit.boundaries)
      BY AuditFacts
    <3>2. QED
      BY <2>1, <3>1, RefsFacts
  <2>2. CASE way # "primitive_evidence"
    <3>1. <<>> \in Seq({}) /\ DOMAIN (<<>>) = {}
      OBVIOUS
    <3>2. IsList(<<>>)
      BY <3>1, SequenceIsList
    <3>3. QED
      BY <2>2, <3>1, <3>2 DEF AllDiffer, Elements
  <2>3. QED
    BY <2>1, <2>2
<1>2. IsList(DetectionRefs) /\ AllDiffer(DetectionRefs)
  BY DetectionRefsFacts
<1>3. \A r \in Elements(DetectionRefs) : r.kind \in {"entrypoint", "target"}
  BY DetectionRefsFacts
<1>4. \A r \in elements : r.kind = "boundary" /\ way = "primitive_evidence"
  OBVIOUS
<1>5. TargetsOf(way) = DetectionRefs \o more
  BY DEF TargetsOf
<1> HIDE DEF more, elements
<1>6. Elements(DetectionRefs) \cap Elements(more) = {}
  BY <1>1, <1>3, <1>4
<1>7. /\ IsList(TargetsOf(way)) /\ AllDiffer(TargetsOf(way))
      /\ Elements(TargetsOf(way)) = Elements(DetectionRefs) \cup elements
  <2> DEFINE all == DetectionRefs \o more
  <2>1. IsList(all) /\ AllDiffer(all) /\ Elements(all) = Elements(DetectionRefs) \cup Elements(more)
    BY <1>1, <1>2, <1>6, ListConcat, ElementsOfConcat, ConcatDiffers
  <2>2. TargetsOf(way) = all
    BY <1>5
  <2> HIDE DEF all
  <2>3. QED
    BY <1>1, <2>1, <2>2
<1>8. ASSUME NEW n, Ref(SourceKind(way), n) \in Elements(TargetsOf(way))
      PROVE  FALSE
  <2>1. Ref(SourceKind(way), n).kind = SourceKind(way)
    OBVIOUS
  <2>2. SourceKind(way) \in {"entrypoint", "target"}
          \/ (SourceKind(way) = "boundary" /\ way = "primitive_evidence")
    BY <1>3, <1>4, <1>7, <1>8, <2>1
  <2>3. QED
    BY <2>2 DEF SourceKind
<1>9. QED
  BY <1>7, <1>8 DEF elements

(* One evidence of a source: all that share it and are not linked yet.     *)
LEMMA LinkTurn ==
  ASSUME Control, phase \in EvidenceLinks, ~LoopOver, item <= Len(Record(Source).evidence)
  PROVE  LET shared == Record(Source).evidence[item]
             sharing == Pick(EvidenceTargets,
               {i \in DOMAIN EvidenceTargets :
                  /\ shared \in EvidenceOf(EvidenceTargets[i])
                  /\ EvidenceTargets[i] # Source /\ EvidenceTargets[i] \notin linked})
             new == [i \in DOMAIN sharing |->
                       Edge(phase, Source, sharing[i], "high", <<shared>>, <<>>)]
         IN  /\ TurnAdds(new) /\ DOMAIN new = DOMAIN sharing
             /\ \A i \in DOMAIN sharing :
                  /\ new[i].type = phase /\ new[i].source = Ref(SourceKind(phase), next)
                  /\ new[i].target = sharing[i]
             /\ Elements(sharing) =
                  {r \in Elements(TargetsOf(phase)) :
                     SourcesOf(phase)[next].evidence[item] \in EvidenceOf(r) /\ r \notin linked}
<1> DEFINE targets == TargetsOf(phase)
           source == Ref(SourceKind(phase), next)
           evidence == SourcesOf(phase)[next].evidence
           shared == evidence[item]
           P == {i \in DOMAIN targets : /\ shared \in EvidenceOf(targets[i])
                                        /\ targets[i] # source /\ targets[i] \notin linked}
           sharing == Pick(targets, P)
           new == [i \in DOMAIN sharing |-> Edge(phase, source, sharing[i], "high", <<shared>>, <<>>)]
<1>1. /\ EvidenceTargets = targets /\ Source = source
      /\ Record(Source) = SourcesOf(phase)[next]
  BY SourceFacts
<1>2. /\ IsList(targets) /\ AllDiffer(targets) /\ source \notin Elements(targets)
  BY TargetsFacts DEF Control
<1>3. next \in DOMAIN SourcesOf(phase)
  BY RunningTurn
<1>4. evidence \in Seq(Nat)
  <2>1. SourcesOf(phase) \in {audit.boundaries, audit.primitives}
    BY DEF SourcesOf
  <2>2. QED
    BY <1>3, <2>1, AuditFacts DEF Control
<1>5. item \in DOMAIN evidence
  <2>1. item <= Len(evidence) /\ item \in Nat \ {0}
    BY <1>1 DEF Control
  <2>2. Len(evidence) \in Nat /\ DOMAIN evidence = 1 .. Len(evidence)
    BY <1>4, LenProperties
  <2>3. QED
    BY <2>1, <2>2
<1>6. \A i \in DOMAIN targets : i \in P <=> shared \in EvidenceOf(targets[i]) /\ targets[i] \notin linked
  BY <1>2 DEF Elements
<1>7. P \in SUBSET DOMAIN targets
  OBVIOUS
<1>8. \A t : /\ Edge(phase, source, t, "high", <<shared>>, <<>>).type = phase
             /\ Edge(phase, source, t, "high", <<shared>>, <<>>).source = source
             /\ Edge(phase, source, t, "high", <<shared>>, <<>>).target = t
  BY DEF Edge
<1> HIDE DEF P, targets
<1>9. /\ IsList(sharing) /\ AllDiffer(sharing)
      /\ \A i \in DOMAIN sharing : \E k \in P : sharing[i] = targets[k]
      /\ \A k \in P : \E i \in DOMAIN sharing : sharing[i] = targets[k]
  BY <1>2, <1>7, PickIsList, PickDiffers
<1> HIDE DEF sharing
<1>10. /\ new = [i \in DOMAIN sharing |-> new[i]] /\ DOMAIN new = DOMAIN sharing
       /\ \A i \in DOMAIN sharing :
            new[i] = Edge(phase, source, sharing[i], "high", <<shared>>, <<>>)
  OBVIOUS
<1> HIDE DEF new
<1>11. IsList(new)
  BY <1>9, <1>10, ListFacts, MapIsList
<1>12. \A i \in DOMAIN sharing :
         new[i].type = phase /\ new[i].source = source /\ new[i].target = sharing[i]
  BY <1>8, <1>10
<1>13. KeysDiffer(new)
  BY <1>9, <1>10, <1>12 DEF KeysDiffer, SameKey, AllDiffer
<1>14. \A i \in DOMAIN new : MadeBy(phase, next, new[i]) /\ new[i].target \notin linked
  <2> TAKE i \in DOMAIN new
  <2>1. PICK k \in P : sharing[i] = targets[k]
    BY <1>9, <1>10
  <2>2. k \in DOMAIN targets /\ shared \in EvidenceOf(targets[k]) /\ targets[k] \notin linked
    BY <1>6, <1>7, <2>1
  <2>3. new[i] = Edge(phase, source, targets[k], "high", <<evidence[item]>>, <<>>)
    BY <1>10, <2>1
  <2>4. EvidenceLinkOf(phase, next, new[i])
    BY <1>3, <1>5, <2>2, <2>3 DEF EvidenceLinkOf, targets
  <2>5. new[i].target = targets[k]
    BY <1>10, <1>12, <2>1
  <2>6. QED
    BY <2>2, <2>4, <2>5 DEF MadeBy
<1>15. TurnAdds(new)
  BY <1>11, <1>13, <1>14 DEF TurnAdds
<1>16. Elements(sharing) = {r \in Elements(targets) : shared \in EvidenceOf(r) /\ r \notin linked}
  <2>1. ASSUME NEW r \in Elements(sharing)
        PROVE  r \in Elements(targets) /\ shared \in EvidenceOf(r) /\ r \notin linked
    <3>1. PICK i \in DOMAIN sharing : sharing[i] = r
      BY <2>1 DEF Elements
    <3>2. PICK k \in P : sharing[i] = targets[k]
      BY <1>9
    <3>3. QED
      BY <1>6, <1>7, <3>1, <3>2 DEF Elements
  <2>2. ASSUME NEW r \in Elements(targets), shared \in EvidenceOf(r), r \notin linked
        PROVE  r \in Elements(sharing)
    <3>1. PICK k \in DOMAIN targets : targets[k] = r
      BY <2>2 DEF Elements
    <3>2. PICK i \in DOMAIN sharing : sharing[i] = targets[k]
      BY <1>6, <1>9, <2>2, <3>1
    <3>3. QED
      BY <3>1, <3>2 DEF Elements
  <2>3. QED
    BY <2>1, <2>2
<1>17. QED
  BY <1>1, <1>10, <1>12, <1>15, <1>16, ZenonT(40) DEF P, targets, sharing, new
--------------------------------------------------------------------------------
(* The invariant is kept.                                                  *)

LEMMA TurnsIsNatural ==
  ASSUME audit \in Audits, phase \in Loops
  PROVE  Turns \in Nat
<1>1. Len(NodeRefs) \in Nat
  BY NodeRefsFacts
<1>2. /\ Len(audit.flows) \in Nat /\ Len(audit.entrypoints) \in Nat
      /\ Len(audit.boundaries) \in Nat /\ Len(audit.primitives) \in Nat
  BY AuditFacts
<1>3. QED
  BY <1>1, <1>2 DEF Turns, Loops, Ways, LowSignal, EvidenceLinks

(* A turn that adds edges and goes on to the next. *)
LEMMA ControlAfterTurn ==
  ASSUME Control, ~LoopOver, NEW new, IsList(new),
         audit' = audit, phase' = phase, item' = item, linked' = linked,
         next' = next + 1, edges' = edges \o new, spent' \in 0 .. MaxLowSignalEdges,
         IF phase = "nodes" THEN nodes' = Append(nodes, NodeRefs[next]) ELSE nodes' = nodes
  PROVE  Control'
<1> USE DEF Control
<1>1. /\ NodeRefs' = NodeRefs /\ Turns' = Turns /\ EvidenceTargets' = EvidenceTargets
  BY SameAudit, Zenon DEF Turns, EvidenceTargets, Refs
<1>2. IsList(edges')
  BY Growth
<1>3. Turns \in Nat
  BY TurnsIsNatural
<1>4. next' \in 1 .. Turns' + 1
  BY <1>1, <1>3 DEF LoopOver
<1>5. linked' \subseteq Elements(EvidenceTargets')
  BY <1>1, Zenon
<1>6. /\ IsList(nodes')
      /\ Len(nodes') = (IF phase' = "nodes" THEN next' - 1 ELSE Len(NodeRefs'))
      /\ \A i \in DOMAIN nodes' : nodes'[i] = NodeRefs'[i]
  <2>1. CASE phase = "nodes"
    <3>1. /\ IsList(nodes') /\ DOMAIN nodes = 1 .. Len(nodes) /\ Len(nodes) \in Nat
          /\ Len(nodes') = Len(nodes) + 1 /\ DOMAIN nodes' = 1 .. Len(nodes) + 1
          /\ \A i \in 1 .. Len(nodes) : nodes'[i] = nodes[i]
          /\ nodes'[Len(nodes) + 1] = NodeRefs[next]
      <4> DEFINE longer == Append(nodes, NodeRefs[next])
      <4>1. /\ IsList(longer) /\ Len(nodes) \in Nat /\ DOMAIN nodes = 1 .. Len(nodes)
            /\ Len(longer) = Len(nodes) + 1 /\ DOMAIN longer = 1 .. Len(nodes) + 1
            /\ \A i \in 1 .. Len(nodes) : longer[i] = nodes[i]
            /\ longer[Len(nodes) + 1] = NodeRefs[next]
        BY ListAppend
      <4>2. nodes' = longer
        BY <2>1
      <4> HIDE DEF longer
      <4>3. QED
        BY <4>1, <4>2
    <3>2. Len(nodes) = next - 1 /\ next \in Nat \ {0}
      BY <2>1, RunningTurn
    <3>3. \A n \in Nat : \A i \in 1 .. n + 1 : i \in 1 .. n \/ i = n + 1
      OBVIOUS
    <3>4. \A i \in DOMAIN nodes' : nodes'[i] = NodeRefs[i]
      <4> TAKE i \in DOMAIN nodes'
      <4>1. CASE i \in 1 .. Len(nodes)
        BY <3>1, <4>1
      <4>2. CASE i = Len(nodes) + 1
        BY <3>1, <3>2, <4>2
      <4>3. QED
        BY <3>1, <3>3, <4>1, <4>2
    <3>5. Len(nodes') = next' - 1
      BY <3>1, <3>2
    <3>6. QED
      BY <1>1, <2>1, <3>1, <3>4, <3>5
  <2>2. CASE phase # "nodes"
    BY <1>1, <2>2
  <2>3. QED
    BY <2>1, <2>2
<1>7. QED
  BY <1>2, <1>4, <1>5, <1>6

LEMMA ControlStep ==
  ASSUME Control, [Next]_vars
  PROVE  Control'
<1>1. CASE NextLoop
  <2>1. phase' \in Loops /\ phase' # "nodes"
    BY <1>1, PastAfterLoop DEF Control
  <2>2. audit' = audit /\ nodes' = nodes /\ edges' = edges /\ next' = 1 /\ item' = 1
          /\ linked' = {} /\ spent' = spent
    BY <1>1 DEF NextLoop
  <2>3. Turns' \in Nat
    <3>1. audit' \in Audits /\ NodeRefs' = NodeRefs
      BY <2>2, SameAudit DEF Control
    <3>2. Len(NodeRefs') \in Nat
      BY <3>1, NodeRefsFacts DEF Control
    <3>3. /\ Len(audit'.flows) \in Nat /\ Len(audit'.entrypoints) \in Nat
          /\ Len(audit'.boundaries) \in Nat /\ Len(audit'.primitives) \in Nat
      BY <2>2, AuditFacts DEF Control
    <3>4. QED
      BY <2>1, <3>2, <3>3 DEF Turns, Loops, Ways, LowSignal, EvidenceLinks
  <2>4. Len(nodes) = Len(NodeRefs)
    <3>1. CASE phase = "nodes"
      <4>1. next > Turns /\ Turns = Len(NodeRefs)
        BY <1>1, <3>1 DEF NextLoop, LoopOver, Turns, LowSignal
      <4>2. Len(NodeRefs) \in Nat
        BY NodeRefsFacts DEF Control
      <4>3. QED
        BY <3>1, <4>1, <4>2 DEF Control
    <3>2. QED
      BY <3>1 DEF Control
  <2>5. NodeRefs' = NodeRefs
    BY <2>2, SameAudit
  <2>6. /\ audit' \in Audits /\ IsList(nodes') /\ IsList(edges')
        /\ Len(nodes') = (IF phase' = "nodes" THEN next' - 1 ELSE Len(NodeRefs'))
        /\ \A i \in DOMAIN nodes' : nodes'[i] = NodeRefs'[i]
    BY <2>1, <2>2, <2>4, <2>5 DEF Control
  <2>7. next' \in 1 .. Turns' + 1
    <3>1. \A n \in Nat : 1 \in 1 .. n + 1
      OBVIOUS
    <3>2. QED
      BY <2>2, <2>3, <3>1
  <2>8. /\ phase' \in Loops /\ item' \in Nat \ {0}
        /\ linked' \subseteq Elements(EvidenceTargets') /\ spent' \in 0 .. MaxLowSignalEdges
    BY <2>1, <2>2 DEF Control
  <2>9. QED
    BY <2>6, <2>7, <2>8 DEF Control
<1>2. CASE AddNode
  <2>1. /\ phase = "nodes" /\ ~LoopOver /\ audit' = audit /\ phase' = phase
        /\ item' = item /\ linked' = linked /\ next' = next + 1 /\ spent' = spent
        /\ nodes' = Append(nodes, NodeRefs[next])
        /\ edges' = edges \o DefinedIn(NodeRefs[next])
    BY <1>2 DEF AddNode
  <2>2. IsList(DefinedIn(NodeRefs[next]))
    BY <2>1, NodeTurn DEF TurnAdds
  <2>3. QED
    BY <2>1, <2>2, ControlAfterTurn DEF Control
<1>3. CASE AddFlow
  <2>1. /\ phase = "flows" /\ ~LoopOver /\ audit' = audit /\ phase' = phase
        /\ item' = item /\ linked' = linked /\ next' = next + 1 /\ spent' = spent
        /\ nodes' = nodes /\ edges' = edges \o FlowEdges(next)
    BY <1>3 DEF AddFlow
  <2>2. IsList(FlowEdges(next))
    BY <2>1, FlowTurn DEF TurnAdds
  <2>3. QED
    BY <2>1, <2>2, ControlAfterTurn DEF Control
<1>4. CASE AddResolved
  <2> DEFINE best == Best("resolved", next, Cap("resolved"))
             new == [i \in DOMAIN best |-> RouteEdge(next, best[i])]
  <2>1. /\ phase = "resolved" /\ ~LoopOver /\ audit' = audit /\ phase' = phase
        /\ item' = item /\ linked' = linked /\ next' = next + 1 /\ spent' = spent
        /\ nodes' = nodes /\ edges' = edges \o new
    BY <1>4, RoutesAreDrawn DEF AddResolved
  <2>2. IsList(new)
    BY <2>1, RouteTurn DEF TurnAdds
  <2> HIDE DEF new
  <2>3. QED
    BY <2>1, <2>2, ControlAfterTurn DEF Control
<1>5. CASE Correlate
  <2> DEFINE n == Least(Cap(phase), MaxLowSignalEdges - spent)
             best == Best(phase, next, n)
             new == [i \in DOMAIN best |-> Correlation(phase, phase, next, best[i], "medium")]
  <2>1. /\ phase \in LowSignal /\ ~LoopOver /\ audit' = audit /\ phase' = phase
        /\ item' = item /\ linked' = linked /\ next' = next + 1
        /\ spent' = spent + Len(best)
        /\ nodes' = nodes /\ edges' = edges \o new
    BY <1>5 DEF Correlate
  <2>2. IsList(new)
    BY <2>1, CorrelationTurn DEF TurnAdds
  <2>3. spent' \in 0 .. MaxLowSignalEdges
    BY <2>1, SpentAfterTurn
  <2>4. phase # "nodes"
    BY <2>1 DEF LowSignal
  <2> HIDE DEF new, best
  <2>5. QED
    BY <2>1, <2>2, <2>3, <2>4, ControlAfterTurn
<1>6. CASE LinkEvidence
  <2> DEFINE shared == Record(Source).evidence[item]
             sharing == Pick(EvidenceTargets,
               {i \in DOMAIN EvidenceTargets :
                  /\ shared \in EvidenceOf(EvidenceTargets[i])
                  /\ EvidenceTargets[i] # Source /\ EvidenceTargets[i] \notin linked})
             new == [i \in DOMAIN sharing |->
                       Edge(phase, Source, sharing[i], "high", <<shared>>, <<>>)]
  <2>1. /\ phase \in EvidenceLinks /\ ~LoopOver /\ item <= Len(Record(Source).evidence)
        /\ audit' = audit /\ phase' = phase /\ item' = item + 1 /\ next' = next
        /\ spent' = spent /\ nodes' = nodes /\ edges' = edges \o new
        /\ linked' = linked \cup Elements(sharing)
    BY <1>6 DEF LinkEvidence, Elements
  <2>2. IsList(new) /\ Elements(sharing) \subseteq Elements(TargetsOf(phase))
    BY <2>1, LinkTurn DEF TurnAdds
  <2> HIDE DEF new, sharing
  <2>3. IsList(edges')
    BY <2>1, <2>2, Growth DEF Control
  <2>4. /\ NodeRefs' = NodeRefs /\ Turns' = Turns /\ EvidenceTargets' = EvidenceTargets
    BY <2>1, SameAudit, Zenon DEF Turns, EvidenceTargets, Refs
  <2>5. EvidenceTargets = TargetsOf(phase)
    BY <2>1, SourceFacts
  <2>6. linked' \subseteq Elements(EvidenceTargets')
    BY <2>1, <2>2, <2>4, <2>5 DEF Control
  <2>7. QED
    BY <2>1, <2>3, <2>4, <2>6 DEF Control
<1>7. CASE NextSource
  <2>1. /\ phase \in EvidenceLinks /\ ~LoopOver /\ audit' = audit /\ phase' = phase
        /\ item' = 1 /\ next' = next + 1 /\ linked' = {} /\ spent' = spent
        /\ nodes' = nodes /\ edges' = edges
    BY <1>7 DEF NextSource
  <2>2. NodeRefs' = NodeRefs /\ Turns' = Turns
    BY <2>1, SameAudit, Zenon DEF Turns
  <2>3. Turns \in Nat /\ next <= Turns
    BY <2>1, TurnsIsNatural DEF Control, LoopOver
  <2>4. phase # "nodes"
    BY <2>1 DEF EvidenceLinks
  <2>5. next' \in 1 .. Turns' + 1
    BY <2>1, <2>2, <2>3 DEF Control
  <2>6. QED
    BY <2>1, <2>2, <2>4, <2>5 DEF Control
<1>8. CASE UNCHANGED vars
  <2>1. /\ audit' = audit /\ nodes' = nodes /\ edges' = edges /\ phase' = phase
        /\ next' = next /\ item' = item /\ linked' = linked /\ spent' = spent
    BY <1>8 DEF vars
  <2>2. NodeRefs' = NodeRefs /\ Turns' = Turns /\ EvidenceTargets' = EvidenceTargets
    BY <2>1, SameAudit, Zenon DEF Turns, EvidenceTargets, Refs
  <2>3. QED
    BY <2>1, <2>2 DEF Control
<1>9. QED
  BY <1>1, <1>2, <1>3, <1>4, <1>5, <1>6, <1>7, <1>8 DEF Next

LEMMA PastIsPast ==
  ASSUME phase \in Loops, next \in Nat
  PROVE  ~Past(phase, next)
<1>1. Number(phase) \in Int
  BY DEF Number, Loops, Ways, LowSignal, EvidenceLinks
<1>2. QED
  BY <1>1 DEF Past

(* The edges of a running turn are made by that turn, and differ from all  *)
(* that are there.                                                         *)
LEMMA EdgesAfterTurn ==
  ASSUME Control, EdgesAreMade, KeysDiffer(edges), NEW new, TurnAdds(new),
         edges' = edges \o new, audit' = audit, phase' = phase,
         \/ phase \notin EvidenceLinks /\ next' = next + 1
         \/ /\ phase \in EvidenceLinks /\ next' = next
            /\ linked' = linked \cup {new[i].target : i \in DOMAIN new}
  PROVE  EdgesAreMade' /\ KeysDiffer(edges')
<1>1. /\ audit \in Audits /\ IsList(edges) /\ IsList(new)
      /\ phase \in Loops /\ next \in Nat
  BY DEF Control, TurnAdds
<1>2. \A p, n, e : MadeBy(p, n, e)' = MadeBy(p, n, e)
  BY SameAudit
<1>3. \A p : \A n \in Nat : Past(p, n) => Past(p, n)'
  <2>1. CASE next' = next + 1
    BY <1>1, <2>1, PastAfterTurn
  <2>2. CASE next' = next
    BY <2>2 DEF Past
  <2>3. QED
    BY <2>1, <2>2
<1>4. ASSUME NEW e, IsMade(e)
      PROVE  IsMade(e)'
  <2>1. PICK p \in Loops : \E n \in Nat :
          /\ MadeBy(p, n, e)
          /\ \/ Past(p, n)
             \/ p = phase /\ p \in EvidenceLinks /\ n = next /\ e.target \in linked
    BY <1>4 DEF IsMade
  <2>2. PICK n \in Nat :
          /\ MadeBy(p, n, e)
          /\ \/ Past(p, n)
             \/ p = phase /\ p \in EvidenceLinks /\ n = next /\ e.target \in linked
    BY <2>1
  <2>3. \/ Past(p, n)'
        \/ p = phase' /\ p \in EvidenceLinks /\ n = next' /\ e.target \in linked'
    BY <1>3, <2>2
  <2>4. MadeBy(p, n, e)'
    BY <1>2, <2>2
  <2>5. QED
    BY <2>3, <2>4 DEF IsMade
<1>5. ASSUME NEW e \in Elements(new)
      PROVE  IsMade(e)'
  <2>1. PICK i \in DOMAIN new : new[i] = e
    BY <1>5 DEF Elements
  <2>2. PICK p \in Loops : p = phase
    BY <1>1
  <2>3. PICK n \in Nat : n = next
    BY <1>1
  <2>4. MadeBy(p, n, e)'
    <3>1. MadeBy(p, n, e)
      BY <2>1, <2>2, <2>3 DEF TurnAdds
    <3>2. QED
      BY <1>2, <3>1
  <2>5. CASE phase \notin EvidenceLinks
    <3>1. Past(p, n)'
      BY <1>1, <2>2, <2>3, <2>5, PastAfterTurn
    <3>2. QED
      BY <2>4, <3>1 DEF IsMade
  <2>6. CASE phase \in EvidenceLinks
    <3>1. p = phase' /\ p \in EvidenceLinks /\ n = next' /\ e.target \in linked'
      BY <2>1, <2>2, <2>3, <2>6
    <3>2. QED
      BY <2>4, <3>1 DEF IsMade
  <2>7. QED
    BY <2>5, <2>6
<1>6. EdgesAreMade'
  <2>1. Elements(edges') = Elements(edges) \cup Elements(new)
    BY <1>1, Growth
  <2>2. \A e \in Elements(edges) : IsMade(e)
    BY DEF EdgesAreMade, Elements
  <2>3. \A e \in Elements(edges') : IsMade(e)'
    BY <1>4, <1>5, <2>1, <2>2
  <2>4. \A i \in DOMAIN edges' : edges'[i] \in Elements(edges')
    BY DEF Elements
  <2>5. QED
    BY <2>3, <2>4 DEF EdgesAreMade
<1>7. ASSUME NEW d \in Elements(edges), NEW e \in Elements(new), SameKey(d, e)
      PROVE  FALSE
  <2>1. PICK i \in DOMAIN new : new[i] = e
    BY <1>7 DEF Elements
  <2>2. MadeBy(phase, next, e)
    BY <2>1 DEF TurnAdds
  <2>3. IsMade(d)
    BY DEF EdgesAreMade, Elements
  <2>4. PICK p \in Loops : \E n \in Nat :
          /\ MadeBy(p, n, d)
          /\ \/ Past(p, n)
             \/ p = phase /\ p \in EvidenceLinks /\ n = next /\ d.target \in linked
    BY <2>3 DEF IsMade
  <2>5. PICK n \in Nat :
          /\ MadeBy(p, n, d)
          /\ \/ Past(p, n)
             \/ p = phase /\ p \in EvidenceLinks /\ n = next /\ d.target \in linked
    BY <2>4
  <2>6. p = phase /\ n = next
    BY <1>1, <1>7, <2>2, <2>5, SameTurn
  <2>7. phase \in EvidenceLinks /\ d.target \in linked
    BY <1>1, <2>5, <2>6, PastIsPast
  <2>8. e.target \notin linked
    BY <2>1, <2>7 DEF TurnAdds
  <2>9. QED
    BY <1>7, <2>7, <2>8 DEF SameKey
<1>8. KeysDiffer(edges')
  BY <1>1, <1>7, KeysDifferInConcat DEF TurnAdds
<1>9. QED
  BY <1>6, <1>8

(* A step that adds none: the turn or the loop ends.                       *)
LEMMA EdgesKept ==
  ASSUME EdgesAreMade, edges' = edges, audit' = audit,
         \A p \in Loops : \A n \in Nat : Past(p, n) \/ (p = phase /\ n = next) => Past(p, n)'
  PROVE  EdgesAreMade'
<1>1. \A p, n, e : MadeBy(p, n, e)' = MadeBy(p, n, e)
  BY SameAudit
<1>2. ASSUME NEW e, IsMade(e)
      PROVE  IsMade(e)'
  <2>1. PICK p \in Loops : \E n \in Nat :
          /\ MadeBy(p, n, e)
          /\ \/ Past(p, n)
             \/ p = phase /\ p \in EvidenceLinks /\ n = next /\ e.target \in linked
    BY <1>2 DEF IsMade
  <2>2. PICK n \in Nat :
          /\ MadeBy(p, n, e)
          /\ \/ Past(p, n)
             \/ p = phase /\ p \in EvidenceLinks /\ n = next /\ e.target \in linked
    BY <2>1
  <2>3. MadeBy(p, n, e)' /\ Past(p, n)'
    BY <1>1, <2>2
  <2>4. QED
    BY <2>3 DEF IsMade
<1>3. \A i \in DOMAIN edges : IsMade(edges[i])
  BY DEF EdgesAreMade
<1>4. \A e \in Elements(edges) : IsMade(e)'
  BY <1>2, <1>3 DEF Elements
<1>5. \A i \in DOMAIN edges' : edges'[i] \in Elements(edges)
  BY DEF Elements
<1>6. QED
  BY <1>4, <1>5 DEF EdgesAreMade

LEMMA LoopGoesOn ==
  ASSUME phase \in Loops, NextLoop
  PROVE  \A p \in Loops : \A n \in Nat : Past(p, n) \/ p = phase => Past(p, n)'
<1> TAKE p \in Loops
<1> TAKE n \in Nat
<1>1. Number(phase') = Number(phase) + 1 /\ Number(p) \in Int /\ Number(phase) \in Int
  BY PastAfterLoop DEF Number, Loops, Ways, LowSignal, EvidenceLinks
<1>2. Past(p, n) \/ p = phase => Number(p) < Number(phase')
  BY <1>1 DEF Past
<1>3. QED
  BY <1>2 DEF Past

LEMMA EdgesStep ==
  ASSUME Control, EdgesAreMade, KeysDiffer(edges), [Next]_vars
  PROVE  EdgesAreMade' /\ KeysDiffer(edges')
<1>0. phase \in Loops /\ next \in Nat
  BY DEF Control
<1>1. CASE NextLoop
  <2>1. audit' = audit /\ edges' = edges
    BY <1>1 DEF NextLoop
  <2>2. QED
    BY <1>0, <1>1, <2>1, LoopGoesOn, EdgesKept
<1>2. CASE AddNode
  <2>1. /\ phase = "nodes" /\ ~LoopOver /\ audit' = audit /\ phase' = phase
        /\ next' = next + 1 /\ edges' = edges \o DefinedIn(NodeRefs[next])
        /\ phase \notin EvidenceLinks
    BY <1>2 DEF AddNode, EvidenceLinks
  <2>2. TurnAdds(DefinedIn(NodeRefs[next]))
    BY <2>1, NodeTurn
  <2>3. QED
    BY <2>1, <2>2, EdgesAfterTurn
<1>3. CASE AddFlow
  <2>1. /\ phase = "flows" /\ ~LoopOver /\ audit' = audit /\ phase' = phase
        /\ next' = next + 1 /\ edges' = edges \o FlowEdges(next)
        /\ phase \notin EvidenceLinks
    BY <1>3 DEF AddFlow, EvidenceLinks
  <2>2. TurnAdds(FlowEdges(next))
    BY <2>1, FlowTurn
  <2>3. QED
    BY <2>1, <2>2, EdgesAfterTurn
<1>4. CASE AddResolved
  <2> DEFINE best == Best("resolved", next, Cap("resolved"))
             new == [i \in DOMAIN best |-> RouteEdge(next, best[i])]
  <2>1. /\ phase = "resolved" /\ ~LoopOver /\ audit' = audit /\ phase' = phase
        /\ next' = next + 1 /\ edges' = edges \o new /\ phase \notin EvidenceLinks
    BY <1>4, RoutesAreDrawn DEF AddResolved, EvidenceLinks
  <2>2. TurnAdds(new)
    BY <2>1, RouteTurn
  <2> HIDE DEF new
  <2>3. QED
    BY <2>1, <2>2, EdgesAfterTurn
<1>5. CASE Correlate
  <2> DEFINE n == Least(Cap(phase), MaxLowSignalEdges - spent)
             best == Best(phase, next, n)
             new == [i \in DOMAIN best |-> Correlation(phase, phase, next, best[i], "medium")]
  <2>1. /\ phase \in LowSignal /\ ~LoopOver /\ audit' = audit /\ phase' = phase
        /\ next' = next + 1 /\ edges' = edges \o new /\ phase \notin EvidenceLinks
    BY <1>5 DEF Correlate, EvidenceLinks, LowSignal
  <2>2. TurnAdds(new)
    BY <2>1, CorrelationTurn
  <2> HIDE DEF new
  <2>3. QED
    BY <2>1, <2>2, EdgesAfterTurn
<1>6. CASE LinkEvidence
  <2> DEFINE shared == Record(Source).evidence[item]
             sharing == Pick(EvidenceTargets,
               {i \in DOMAIN EvidenceTargets :
                  /\ shared \in EvidenceOf(EvidenceTargets[i])
                  /\ EvidenceTargets[i] # Source /\ EvidenceTargets[i] \notin linked})
             new == [i \in DOMAIN sharing |->
                       Edge(phase, Source, sharing[i], "high", <<shared>>, <<>>)]
  <2>1. /\ phase \in EvidenceLinks /\ ~LoopOver /\ item <= Len(Record(Source).evidence)
        /\ audit' = audit /\ phase' = phase /\ next' = next /\ edges' = edges \o new
        /\ linked' = linked \cup {sharing[i] : i \in DOMAIN sharing}
    BY <1>6 DEF LinkEvidence
  <2>2. /\ TurnAdds(new) /\ DOMAIN new = DOMAIN sharing
        /\ \A i \in DOMAIN sharing : new[i].target = sharing[i]
    BY <2>1, LinkTurn
  <2> HIDE DEF new, sharing
  <2>3. linked' = linked \cup {new[i].target : i \in DOMAIN new}
    BY <2>1, <2>2
  <2>4. QED
    BY <2>1, <2>2, <2>3, EdgesAfterTurn
<1>7. CASE NextSource
  <2>1. audit' = audit /\ edges' = edges /\ phase' = phase /\ next' = next + 1
    BY <1>7 DEF NextSource
  <2>2. QED
    BY <1>0, <2>1, PastAfterTurn, EdgesKept
<1>8. CASE UNCHANGED vars
  <2>1. /\ audit' = audit /\ edges' = edges /\ phase' = phase
        /\ next' = next /\ linked' = linked
    BY <1>8 DEF vars
  <2>2. \A p, n, e : MadeBy(p, n, e)' = MadeBy(p, n, e)
    BY <2>1, SameAudit
  <2>3. \A p, n : Past(p, n)' = Past(p, n)
    BY <2>1 DEF Past
  <2>4. \A e : IsMade(e)' = IsMade(e)
    BY <2>1, <2>2, <2>3, Zenon DEF IsMade
  <2>5. EdgesAreMade'
    BY <2>1, <2>4 DEF EdgesAreMade
  <2>6. QED
    BY <2>1, <2>5
<1>9. QED
  BY <1>1, <1>2, <1>3, <1>4, <1>5, <1>6, <1>7, <1>8 DEF Next

(* Which step ends a turn: the one that adds its last edges, or, when the  *)
(* budget is used up, the end of the loop.                                 *)
LEMMA PastStep ==
  ASSUME Control, [Next]_vars
  PROVE  /\ \A n \in DOMAIN NodeRefs :
              Past("nodes", n)' => Past("nodes", n) \/ (AddNode /\ n = next)
         /\ \A n \in DOMAIN audit.flows :
              Past("flows", n)' => Past("flows", n) \/ (AddFlow /\ n = next)
         /\ \A x \in EntrypointIds :
              Past("resolved", x)' => Past("resolved", x) \/ (AddResolved /\ x = next)
         /\ \A way \in LowSignal : \A x \in EntrypointIds :
              Past(way, x)' => \/ Past(way, x)
                               \/ Correlate /\ phase = way /\ x = next
                               \/ NextLoop /\ phase = way /\ spent = MaxLowSignalEdges
         /\ \A way \in EvidenceLinks : \A n \in DOMAIN SourcesOf(way) :
              Past(way, n)' => Past(way, n) \/ (NextSource /\ phase = way /\ n = next)
<1>1. /\ phase \in Loops /\ next \in Nat /\ audit \in Audits
      /\ spent \in Nat /\ spent <= MaxLowSignalEdges /\ MaxLowSignalEdges \in Nat
  BY GraphAssumption DEF Control
<1>2. /\ DOMAIN NodeRefs = 1 .. Len(NodeRefs) /\ Len(NodeRefs) \in Nat
      /\ DOMAIN audit.flows = 1 .. Len(audit.flows) /\ Len(audit.flows) \in Nat
      /\ EntrypointIds = 1 .. Len(audit.entrypoints) /\ Len(audit.entrypoints) \in Nat
      /\ DOMAIN audit.boundaries = 1 .. Len(audit.boundaries) /\ Len(audit.boundaries) \in Nat
      /\ DOMAIN audit.primitives = 1 .. Len(audit.primitives) /\ Len(audit.primitives) \in Nat
  BY <1>1, AuditFacts, NodeRefsFacts
<1>3. /\ "nodes" \in Loops /\ "flows" \in Loops /\ "resolved" \in Loops
      /\ LowSignal \subseteq Loops /\ EvidenceLinks \subseteq Loops
      /\ "nodes" \notin LowSignal \cup EvidenceLinks /\ "flows" \notin LowSignal \cup EvidenceLinks
      /\ "resolved" \notin LowSignal \cup EvidenceLinks /\ LowSignal \cap EvidenceLinks = {}
  BY DEF Loops, Ways, LowSignal, EvidenceLinks
<1>4. \A way : SourcesOf(way) \in {audit.boundaries, audit.primitives}
  BY DEF SourcesOf
<1> DEFINE Turn(p) == \/ p = "nodes" /\ AddNode
                      \/ p = "flows" /\ AddFlow
                      \/ p = "resolved" /\ AddResolved
                      \/ p \in LowSignal /\ Correlate
                      \/ p \in EvidenceLinks /\ NextSource
<1>5. CASE next' = next + 1 /\ phase' = phase /\ Turn(phase)
  <2>1. \A p : \A n \in Nat : Past(p, n)' <=> Past(p, n) \/ (p = phase /\ n = next)
    BY <1>1, <1>5, PastAfterTurn
  <2>2. \A n \in DOMAIN NodeRefs : Past("nodes", n)' => Past("nodes", n) \/ (AddNode /\ n = next)
    BY <1>2, <1>3, <1>5, <2>1
  <2>3. \A n \in DOMAIN audit.flows :
          Past("flows", n)' => Past("flows", n) \/ (AddFlow /\ n = next)
    BY <1>2, <1>3, <1>5, <2>1
  <2>4. \A x \in EntrypointIds :
          Past("resolved", x)' => Past("resolved", x) \/ (AddResolved /\ x = next)
    BY <1>2, <1>3, <1>5, <2>1
  <2>5. \A way \in LowSignal : \A x \in EntrypointIds :
          Past(way, x)' => Past(way, x) \/ (Correlate /\ phase = way /\ x = next)
    BY <1>2, <1>3, <1>5, <2>1
  <2>6. \A way \in EvidenceLinks : \A n \in DOMAIN SourcesOf(way) :
          Past(way, n)' => Past(way, n) \/ (NextSource /\ phase = way /\ n = next)
    BY <1>2, <1>3, <1>4, <1>5, <2>1
  <2>7. QED
    BY <2>2, <2>3, <2>4, <2>5, <2>6
<1>6. CASE phase' = phase /\ next' = next
  <2>1. \A p, n : Past(p, n)' = Past(p, n)
    BY <1>6 DEF Past
  <2>2. QED
    BY <2>1
<1>7. CASE NextLoop
  <2>1. \A p \in Loops : \A n \in Nat \ {0} :
          Past(p, n)' => Past(p, n) \/ p = phase
    <3>1. \A p \in Loops : \A n \in Nat \ {0} :
            Past(p, n)' <=> Past(p, n) \/ p = phase \/ Number(p) < Number(phase)
      BY <1>1, <1>7, PastAfterLoop
    <3>2. QED
      BY <3>1 DEF Past
  <2>2. next > Turns \/ (phase \in LowSignal /\ spent = MaxLowSignalEdges)
    <3>1. LoopOver
      BY <1>7 DEF NextLoop
    <3>2. QED
      BY <1>1, <3>1 DEF LoopOver
  <2>3. \A m \in Nat : \A n \in 1 .. m : n \in Nat \ {0} /\ (next > m => n < next)
    BY <1>1
  <2>4. \A n : n < next => Past(phase, n)
    BY DEF Past
  <2>5. \A n \in DOMAIN NodeRefs : Past("nodes", n)' => Past("nodes", n)
    <3>1. phase = "nodes" => Turns = Len(NodeRefs) /\ next > Turns
      BY <1>3, <2>2 DEF Turns
    <3>2. QED
      BY <1>2, <1>3, <2>1, <2>3, <2>4, <3>1
  <2>6. \A n \in DOMAIN audit.flows : Past("flows", n)' => Past("flows", n)
    <3>1. phase = "flows" => Turns = Len(audit.flows) /\ next > Turns
      BY <1>3, <2>2 DEF Turns
    <3>2. QED
      BY <1>2, <1>3, <2>1, <2>3, <2>4, <3>1
  <2>7. \A x \in EntrypointIds : Past("resolved", x)' => Past("resolved", x)
    <3>1. phase = "resolved" => Turns = Len(audit.entrypoints) /\ next > Turns
      BY <1>3, <2>2 DEF Turns
    <3>2. QED
      BY <1>2, <1>3, <2>1, <2>3, <2>4, <3>1
  <2>8. \A way \in LowSignal : \A x \in EntrypointIds :
          Past(way, x)' => Past(way, x) \/ (phase = way /\ spent = MaxLowSignalEdges)
    <3>1. phase \in LowSignal => Turns = Len(audit.entrypoints)
      BY DEF Turns, LowSignal
    <3>2. QED
      BY <1>2, <1>3, <2>1, <2>2, <2>3, <2>4, <3>1
  <2>9. \A way \in EvidenceLinks : \A n \in DOMAIN SourcesOf(way) :
          Past(way, n)' => Past(way, n)
    <3> SUFFICES ASSUME NEW way \in EvidenceLinks, NEW n \in DOMAIN SourcesOf(way),
                        Past(way, n)'
                 PROVE  Past(way, n)
      OBVIOUS
    <3>1. phase = way => Turns = Len(SourcesOf(way)) /\ next > Turns
      BY <1>3, <2>2 DEF Turns, SourcesOf, EvidenceLinks, LowSignal
    <3>2. Len(SourcesOf(way)) \in Nat /\ DOMAIN SourcesOf(way) = 1 .. Len(SourcesOf(way))
      BY <1>2, <1>4
    <3>3. n \in Nat \ {0} /\ way \in Loops
      BY <1>3, <2>3, <3>2
    <3>4. QED
      BY <2>1, <2>3, <2>4, <3>1, <3>2, <3>3
  <2>10. QED
    BY <1>7, <2>5, <2>6, <2>7, <2>8, <2>9
<1>8. AddNode \/ AddFlow \/ AddResolved \/ Correlate \/ NextSource =>
        next' = next + 1 /\ phase' = phase /\ Turn(phase)
  BY DEF AddNode, AddFlow, AddResolved, Correlate, NextSource
<1>9. LinkEvidence \/ UNCHANGED vars => phase' = phase /\ next' = next
  BY DEF LinkEvidence, vars
<1> HIDE DEF Turn
<1>10. NextLoop \/ (next' = next + 1 /\ phase' = phase /\ Turn(phase))
         \/ (phase' = phase /\ next' = next)
  BY <1>8, <1>9 DEF Next
<1>11. QED
  BY <1>5, <1>6, <1>7, <1>10

LEMMA EdgesGrow ==
  ASSUME Control, [Next]_vars
  PROVE  /\ audit' = audit
         /\ \/ edges' = edges
            \/ \E new : TurnAdds(new) /\ edges' = edges \o new
         /\ \A type, source, target :
              Linked(type, source, target) => Linked(type, source, target)'
<1>1. audit' = audit
  BY DEF Next, NextLoop, AddNode, AddFlow, AddResolved, Correlate, LinkEvidence, NextSource, vars
<1>2. \/ edges' = edges
      \/ \E new : TurnAdds(new) /\ edges' = edges \o new
  <2>1. CASE AddNode
    BY <2>1, NodeTurn DEF AddNode
  <2>2. CASE AddFlow
    BY <2>2, FlowTurn DEF AddFlow
  <2>3. CASE AddResolved
    <3> DEFINE best == Best("resolved", next, Cap("resolved"))
               new == [i \in DOMAIN best |-> RouteEdge(next, best[i])]
    <3>1. phase = "resolved" /\ ~LoopOver /\ edges' = edges \o new
      BY <2>3, RoutesAreDrawn DEF AddResolved
    <3>2. TurnAdds(new)
      BY <3>1, RouteTurn
    <3> HIDE DEF new
    <3>3. QED
      BY <3>1, <3>2
  <2>4. CASE Correlate
    <3> DEFINE n == Least(Cap(phase), MaxLowSignalEdges - spent)
               best == Best(phase, next, n)
               new == [i \in DOMAIN best |-> Correlation(phase, phase, next, best[i], "medium")]
    <3>1. phase \in LowSignal /\ ~LoopOver /\ edges' = edges \o new
      BY <2>4 DEF Correlate
    <3>2. TurnAdds(new)
      BY <3>1, CorrelationTurn
    <3> HIDE DEF new
    <3>3. QED
      BY <3>1, <3>2
  <2>5. CASE LinkEvidence
    <3> DEFINE shared == Record(Source).evidence[item]
               sharing == Pick(EvidenceTargets,
                 {i \in DOMAIN EvidenceTargets :
                    /\ shared \in EvidenceOf(EvidenceTargets[i])
                    /\ EvidenceTargets[i] # Source /\ EvidenceTargets[i] \notin linked})
               new == [i \in DOMAIN sharing |->
                         Edge(phase, Source, sharing[i], "high", <<shared>>, <<>>)]
    <3>1. /\ phase \in EvidenceLinks /\ ~LoopOver /\ item <= Len(Record(Source).evidence)
          /\ edges' = edges \o new
      BY <2>5 DEF LinkEvidence
    <3>2. TurnAdds(new)
      BY <3>1, LinkTurn
    <3> HIDE DEF new
    <3>3. QED
      BY <3>1, <3>2
  <2>6. NextLoop \/ NextSource \/ UNCHANGED vars => edges' = edges
    BY DEF NextLoop, NextSource, vars
  <2>7. QED
    BY <2>1, <2>2, <2>3, <2>4, <2>5, <2>6 DEF Next
<1>3. ASSUME NEW type, NEW source, NEW target, Linked(type, source, target)
      PROVE  Linked(type, source, target)'
  <2>1. CASE edges' = edges
    BY <1>3, <2>1 DEF Linked
  <2>2. CASE \E new : TurnAdds(new) /\ edges' = edges \o new
    <3>1. PICK new : TurnAdds(new) /\ edges' = edges \o new
      BY <2>2
    <3>2. IsList(edges) /\ IsList(new)
      BY <3>1 DEF Control, TurnAdds
    <3>3. QED
      BY <1>3, <3>1, <3>2, Growth
  <2>3. QED
    BY <1>2, <2>1, <2>2
<1>4. QED
  BY <1>1, <1>2, <1>3

LEMMA DefinitionsStep ==
  ASSUME Control, DefinitionsAreDone, [Next]_vars
  PROVE  DefinitionsAreDone'
<1>1. audit' = audit
  BY EdgesGrow
<1>2. /\ NodeRefs' = NodeRefs /\ \A r : Record(r)' = Record(r)
  BY <1>1, SameAudit
<1> SUFFICES ASSUME NEW n \in DOMAIN NodeRefs, Past("nodes", n)',
                    NodeRefs[n].kind \in {"entrypoint", "target"},
                    NEW f \in DOMAIN audit.files, audit.files[f] = Record(NodeRefs[n]).file
             PROVE  Linked("defined_in", NodeRefs[n], Ref("file", f))'
  BY <1>1, <1>2 DEF DefinitionsAreDone
<1> DEFINE r == NodeRefs[n]
<1>3. CASE Past("nodes", n)
  <2>1. Linked("defined_in", r, Ref("file", f))
    BY <1>3 DEF DefinitionsAreDone
  <2>2. QED
    BY <1>2, <2>1, EdgesGrow
<1>4. CASE AddNode /\ n = next
  <2>1. /\ phase = "nodes" /\ ~LoopOver /\ edges' = edges \o DefinedIn(NodeRefs[next])
    BY <1>4 DEF AddNode
  <2>2. IsList(edges) /\ IsList(DefinedIn(r))
    BY <1>4, <2>1, NodeTurn DEF Control, TurnAdds
  <2>3. \E i \in DOMAIN DefinedIn(r) :
          /\ DefinedIn(r)[i].type = "defined_in"
          /\ DefinedIn(r)[i].source = r /\ DefinedIn(r)[i].target = Ref("file", f)
    BY <1>4, <2>1, NodeTurn
  <2>4. edges' = edges \o DefinedIn(r)
    BY <1>4, <2>1
  <2>5. PICK s : s = r
    OBVIOUS
  <2>6. Linked("defined_in", s, Ref("file", f))'
    BY <2>2, <2>3, <2>4, <2>5, Growth
  <2>7. QED
    BY <1>2, <2>5, <2>6
<1>5. QED
  BY <1>3, <1>4, PastStep

LEMMA FlowsStep ==
  ASSUME Control, FlowsAreDone, [Next]_vars
  PROVE  FlowsAreDone'
<1>1. audit' = audit
  BY EdgesGrow
<1> SUFFICES ASSUME NEW n \in DOMAIN audit.flows, Past("flows", n)'
             PROVE  LET flow == audit.flows[n] IN
                    /\ Linked("static_flow_source", Ref("entrypoint", flow.entrypoint),
                              Ref("flow", n))'
                    /\ Linked("static_flow_target", Ref("flow", n), Ref("target", flow.target))'
  BY <1>1 DEF FlowsAreDone
<1> DEFINE flow == audit.flows[n]
<1>2. PICK source, target :
        source = Ref("entrypoint", flow.entrypoint) /\ target = Ref("target", flow.target)
  OBVIOUS
<1>3. CASE Past("flows", n)
  <2>1. /\ Linked("static_flow_source", source, Ref("flow", n))
        /\ Linked("static_flow_target", Ref("flow", n), target)
    BY <1>2, <1>3 DEF FlowsAreDone
  <2>2. /\ Linked("static_flow_source", source, Ref("flow", n))'
        /\ Linked("static_flow_target", Ref("flow", n), target)'
    BY <2>1, EdgesGrow
  <2>3. QED
    BY <1>1, <1>2, <2>2
<1>4. CASE AddFlow /\ n = next
  <2>1. /\ phase = "flows" /\ ~LoopOver /\ edges' = edges \o FlowEdges(next)
    BY <1>4 DEF AddFlow
  <2> DEFINE new == FlowEdges(next)
  <2>2. IsList(edges) /\ IsList(new)
    BY <2>1, FlowTurn DEF Control, TurnAdds
  <2>3. /\ \E i \in DOMAIN new :
             /\ new[i].type = "static_flow_source" /\ new[i].source = source
             /\ new[i].target = Ref("flow", n)
        /\ \E i \in DOMAIN new :
             /\ new[i].type = "static_flow_target" /\ new[i].source = Ref("flow", n)
             /\ new[i].target = target
    BY <1>2, <1>4, <2>1, FlowTurn
  <2>4. edges' = edges \o new
    BY <2>1
  <2> HIDE DEF new
  <2>5. /\ Linked("static_flow_source", source, Ref("flow", n))'
        /\ Linked("static_flow_target", Ref("flow", n), target)'
    BY <2>2, <2>3, <2>4, Growth
  <2>6. QED
    BY <1>1, <1>2, <2>5
<1>5. QED
  BY <1>3, <1>4, PastStep

(* When a turn over the evidences of a source ends, the marks are all the  *)
(* targets that share one.                                                 *)
LEMMA LinksStep ==
  ASSUME Control, LinksAreDone, MarksAreLinked, [Next]_vars
  PROVE  LinksAreDone'
<1>1. audit' = audit
  BY EdgesGrow
<1>2. /\ \A way : SourcesOf(way)' = SourcesOf(way) /\ TargetsOf(way)' = TargetsOf(way)
      /\ \A r : EvidenceOf(r)' = EvidenceOf(r)
  BY <1>1, SameAudit
<1> SUFFICES ASSUME NEW way \in EvidenceLinks, NEW n \in DOMAIN SourcesOf(way), Past(way, n)',
                    NEW r \in Elements(TargetsOf(way)),
                    EvidenceOf(Ref(SourceKind(way), n)) \cap EvidenceOf(r) # {}
             PROVE  Linked(way, Ref(SourceKind(way), n), r)'
  BY <1>2 DEF LinksAreDone
<1> DEFINE source == Ref(SourceKind(way), n)
<1>3. CASE Past(way, n)
  <2>1. Linked(way, source, r)
    BY <1>3 DEF LinksAreDone
  <2>2. QED
    BY <2>1, EdgesGrow
<1>4. CASE NextSource /\ phase = way /\ n = next
  <2>1. Record(Source) = SourcesOf(way)[n] /\ Record(source) = SourcesOf(way)[n]
    BY <1>4, SourceFacts
  <2>2. PICK j \in DOMAIN SourcesOf(way)[n].evidence : SourcesOf(way)[n].evidence[j] \in EvidenceOf(r)
    BY <2>1 DEF EvidenceOf
  <2>3. SourcesOf(way)[n].evidence \in Seq(Nat)
    BY AuditFacts DEF Control, SourcesOf
  <2>4. j < item
    <3>1. item > Len(SourcesOf(way)[n].evidence) /\ item \in Nat
      BY <1>4, <2>1 DEF NextSource, Control
    <3>2. QED
      BY <2>2, <2>3, <3>1, LenProperties
  <2>5. r \in linked
    BY <1>4, <2>2, <2>4 DEF MarksAreLinked
  <2>6. Linked(way, source, r)
    BY <1>4, <2>5 DEF MarksAreLinked
  <2>7. QED
    BY <2>6, EdgesGrow
<1>5. QED
  BY <1>3, <1>4, PastStep

LEMMA MarksStep ==
  ASSUME Control, MarksAreLinked, [Next]_vars
  PROVE  MarksAreLinked'
<1>1. audit' = audit
  BY EdgesGrow
<1>2. /\ \A way : SourcesOf(way)' = SourcesOf(way) /\ TargetsOf(way)' = TargetsOf(way)
      /\ \A r : EvidenceOf(r)' = EvidenceOf(r)
  BY <1>1, SameAudit
<1>3. CASE phase' \notin EvidenceLinks
  BY <1>3 DEF MarksAreLinked
<1>4. CASE phase' \in EvidenceLinks /\ linked' = {} /\ item' = 1
  <2>1. ASSUME NEW way \in EvidenceLinks, NEW n \in DOMAIN SourcesOf(way)
        PROVE  \A j \in DOMAIN SourcesOf(way)[n].evidence : ~(j < 1)
    <3>1. SourcesOf(way)[n].evidence \in Seq(Nat)
      BY AuditFacts DEF Control, SourcesOf
    <3>2. QED
      BY <3>1, LenProperties
  <2>2. QED
    BY <1>2, <1>4, <2>1 DEF MarksAreLinked
<1>5. CASE LinkEvidence
  <2> DEFINE shared == Record(Source).evidence[item]
             sharing == Pick(EvidenceTargets,
               {i \in DOMAIN EvidenceTargets :
                  /\ shared \in EvidenceOf(EvidenceTargets[i])
                  /\ EvidenceTargets[i] # Source /\ EvidenceTargets[i] \notin linked})
             new == [i \in DOMAIN sharing |->
                       Edge(phase, Source, sharing[i], "high", <<shared>>, <<>>)]
             evidence == SourcesOf(phase)[next].evidence
  <2>1. /\ phase \in EvidenceLinks /\ ~LoopOver /\ item <= Len(Record(Source).evidence)
        /\ phase' = phase /\ next' = next /\ item' = item + 1 /\ edges' = edges \o new
        /\ linked' = linked \cup Elements(sharing)
    BY <1>5 DEF LinkEvidence, Elements
  <2>2. /\ TurnAdds(new) /\ DOMAIN new = DOMAIN sharing
        /\ \A i \in DOMAIN sharing :
             /\ new[i].type = phase /\ new[i].source = Ref(SourceKind(phase), next)
             /\ new[i].target = sharing[i]
        /\ Elements(sharing) = {r \in Elements(TargetsOf(phase)) :
                                  evidence[item] \in EvidenceOf(r) /\ r \notin linked}
    BY <2>1, LinkTurn
  <2> HIDE DEF new, sharing
  <2>3. IsList(edges) /\ IsList(new)
    BY <2>2 DEF Control, TurnAdds
  <2>4. next \in DOMAIN SourcesOf(phase)
    BY <2>1, RunningTurn
  <2>5. PICK way, n : way = phase /\ n = next
    OBVIOUS
  <2>6. ASSUME NEW r \in linked'
        PROVE  Linked(way, Ref(SourceKind(way), n), r)'
    <3>1. CASE r \in linked
      <4>1. Linked(way, Ref(SourceKind(way), n), r)
        BY <2>1, <2>4, <2>5, <3>1 DEF MarksAreLinked
      <4>2. QED
        BY <4>1, EdgesGrow
    <3>2. CASE r \in Elements(sharing)
      <4>1. PICK i \in DOMAIN sharing : sharing[i] = r
        BY <3>2 DEF Elements
      <4>2. /\ i \in DOMAIN new /\ new[i].type = way /\ new[i].target = r
            /\ new[i].source = Ref(SourceKind(way), n)
        BY <2>2, <2>5, <4>1
      <4>3. QED
        BY <2>1, <2>3, <4>2, Growth
    <3>3. QED
      BY <2>1, <2>6, <3>1, <3>2
  <2>7. ASSUME NEW r \in Elements(TargetsOf(way)), NEW j \in DOMAIN SourcesOf(way)[n].evidence,
               j < item', SourcesOf(way)[n].evidence[j] \in EvidenceOf(r)
        PROVE  r \in linked'
    <3>1. SourcesOf(way)[n].evidence \in Seq(Nat) /\ item \in Nat
      BY <2>1, <2>4, <2>5, AuditFacts DEF Control, SourcesOf
    <3>2. j \in Nat
      BY <3>1, LenProperties
    <3>3. j < item \/ j = item
      BY <2>1, <2>7, <3>1, <3>2
    <3>4. CASE j < item
      BY <2>1, <2>4, <2>5, <2>7, <3>4 DEF MarksAreLinked
    <3>5. CASE j = item
      BY <2>1, <2>2, <2>5, <2>7, <3>5
    <3>6. QED
      BY <3>3, <3>4, <3>5
  <2>8. QED
    BY <1>2, <2>1, <2>4, <2>5, <2>6, <2>7 DEF MarksAreLinked
<1>6. CASE UNCHANGED vars
  <2>1. /\ phase' = phase /\ next' = next /\ item' = item /\ linked' = linked /\ edges' = edges
    BY <1>6 DEF vars
  <2>2. \A t, s, r : Linked(t, s, r)' = Linked(t, s, r)
    BY <2>1 DEF Linked
  <2>3. QED
    BY <1>2, <2>1, <2>2, Zenon DEF MarksAreLinked
<1>7. /\ NextLoop \/ NextSource => linked' = {} /\ item' = 1
      /\ AddNode \/ AddFlow \/ AddResolved \/ Correlate => phase' \notin EvidenceLinks
  BY DEF NextLoop, NextSource, AddNode, AddFlow, AddResolved, Correlate, EvidenceLinks, LowSignal
<1>8. QED
  BY <1>3, <1>4, <1>5, <1>6, <1>7 DEF Next

(* Counting edges: those that are added come after those that are there.   *)
LEMMA CorrelationsAreFinite ==
  ASSUME IsList(edges), NEW ways, NEW xs
  PROVE  /\ CorrelationsOf(ways, xs) \subseteq DOMAIN edges
         /\ IsFiniteSet(CorrelationsOf(ways, xs))
         /\ Cardinality(CorrelationsOf(ways, xs)) \in Nat
<1>1. CorrelationsOf(ways, xs) \in SUBSET DOMAIN edges
  BY DEF CorrelationsOf
<1>2. IsFiniteSet(DOMAIN edges)
  <2>1. DOMAIN edges = 1 .. Len(edges) /\ Len(edges) \in Nat
    BY ListFacts
  <2>2. QED
    BY <2>1, FS_Interval
<1>3. IsFiniteSet(CorrelationsOf(ways, xs))
  BY <1>1, <1>2, FS_Subset
<1>4. QED
  BY <1>1, <1>3, FS_CardinalityType

LEMMA CorrelationsGrow ==
  ASSUME IsList(edges), NEW new, IsList(new), edges' = edges \o new, NEW ways, NEW xs
  PROVE  /\ \A i \in DOMAIN edges : edges'[i] = edges[i]
         /\ (\A k \in DOMAIN new : new[k].type \notin ways \/ new[k].source.n \notin xs) =>
              CorrelationsOf(ways, xs)' = CorrelationsOf(ways, xs)
         /\ (\A k \in DOMAIN new : new[k].type \in ways /\ new[k].source.n \in xs) =>
              /\ CorrelationsOf(ways, xs)' =
                   CorrelationsOf(ways, xs) \cup (Len(edges) + 1 .. Len(edges) + Len(new))
              /\ Cardinality(CorrelationsOf(ways, xs)') =
                   Cardinality(CorrelationsOf(ways, xs)) + Len(new)
<1> DEFINE m == Len(edges)
           k == Len(new)
           old == CorrelationsOf(ways, xs)
           block == m + 1 .. m + k
<1>1. /\ m \in Nat /\ k \in Nat /\ DOMAIN edges = 1 .. m /\ DOMAIN new = 1 .. k
      /\ DOMAIN edges' = 1 .. m + k
      /\ \A i \in 1 .. m : edges'[i] = edges[i]
      /\ \A i \in 1 .. m + k : i > m => i - m \in 1 .. k /\ edges'[i] = new[i - m]
  BY ListConcat
<1> DEFINE is(e) == e.type \in ways /\ e.source.n \in xs
<1>2. CorrelationsOf(ways, xs)' = {i \in DOMAIN edges' : is(edges'[i])}
  BY DEF CorrelationsOf
<1>3. old = {i \in DOMAIN edges : is(edges[i])}
  BY DEF CorrelationsOf
<1> HIDE DEF is
<1>4. \A i \in 1 .. m + k : i \in 1 .. m \/ (i > m /\ i \in block)
  BY <1>1
<1>5. /\ \A i \in block : i \in 1 .. m + k /\ i > m /\ i \notin 1 .. m
      /\ \A i \in 1 .. m : i \in 1 .. m + k
  BY <1>1
<1> HIDE DEF block, m, k
<1>6. ASSUME \A j \in DOMAIN new : ~is(new[j])
      PROVE  CorrelationsOf(ways, xs)' = old
  <2>1. \A i \in 1 .. m + k : i \in 1 .. m \/ ~is(edges'[i])
    BY <1>1, <1>4, <1>6
  <2>2. QED
    BY <1>1, <1>2, <1>3, <1>5, <2>1
<1>7. ASSUME \A j \in DOMAIN new : is(new[j])
      PROVE  /\ CorrelationsOf(ways, xs)' = old \cup block
             /\ Cardinality(CorrelationsOf(ways, xs)') = Cardinality(old) + k
  <2>1. \A i \in block : is(edges'[i])
    BY <1>1, <1>5, <1>7
  <2>2. CorrelationsOf(ways, xs)' = old \cup block
    BY <1>1, <1>2, <1>3, <1>4, <1>5, <2>1
  <2>3. old \cap block = {} /\ IsFiniteSet(old) /\ Cardinality(old) \in Nat
    BY <1>1, <1>5, CorrelationsAreFinite
  <2>4. IsFiniteSet(block) /\ Cardinality(block) = k
    <3>1. m + 1 \in Int /\ m + k \in Int /\ (m + k) - (m + 1) + 1 = k /\ (m + 1 > m + k => k = 0)
      BY <1>1
    <3>2. /\ IsFiniteSet(block)
          /\ Cardinality(block) = IF m + 1 > m + k THEN 0 ELSE (m + k) - (m + 1) + 1
      BY <3>1, FS_Interval DEF block
    <3>3. QED
      BY <3>1, <3>2
  <2>5. Cardinality(old \cup block) = Cardinality(old) + Cardinality(block) - Cardinality(old \cap block)
    BY <2>3, <2>4, FS_Union
  <2>6. Cardinality({}) = 0
    BY FS_EmptySet
  <2>7. Cardinality(old \cap block) = 0
    BY <2>3, <2>6
  <2> DEFINE both == Cardinality(old \cup block)
             common == Cardinality(old \cap block)
             before == Cardinality(old)
             added == Cardinality(block)
  <2>8. both = before + added - common /\ before \in Nat /\ added = k /\ common = 0
    BY <2>3, <2>4, <2>5, <2>7
  <2> HIDE DEF both, common, before, added
  <2>9. both = before + k
    BY <1>1, <2>8
  <2>10. QED
    BY <2>2, <2>9 DEF both, before
<1>8. QED
  BY <1>1, <1>6, <1>7 DEF is, block, m, k

(* Routes and correlations are of turns that are done. *)
LEMMA LinksArePast ==
  ASSUME EdgesAreMade, NEW way \in Ways, NEW i \in DOMAIN edges, edges[i].type \in EdgeTypes(way)
  PROVE  edges[i].source.n \in EntrypointIds /\ Past(way, edges[i].source.n)
<1>1. PICK p \in Loops : \E n \in Nat :
        /\ MadeBy(p, n, edges[i])
        /\ Past(p, n) \/ p \in EvidenceLinks
  BY DEF EdgesAreMade, IsMade
<1>2. PICK n \in Nat :
        /\ MadeBy(p, n, edges[i])
        /\ Past(p, n) \/ p \in EvidenceLinks
  BY <1>1
<1>3. Tells(p, n, edges[i])
  BY <1>2, TurnOfEdge
<1>4. p = way
  BY <1>3, TypesOfLoops DEF Tells
<1>5. n \in EntrypointIds /\ edges[i].source = Ref("entrypoint", n)
  BY <1>3, <1>4 DEF Tells
<1>6. edges[i].source.n = n
  BY <1>5
<1>7. way \notin EvidenceLinks
  BY DEF Ways, LowSignal, EvidenceLinks
<1>8. QED
  BY <1>2, <1>4, <1>5, <1>6, <1>7

(* Which edges a turn adds to those of an entrypoint, or to those of the   *)
(* common budget.                                                          *)
LEMMA TypesOfTurn ==
  ASSUME NEW new, TurnAdds(new), NEW k \in DOMAIN new
  PROVE  /\ \A way \in Ways : new[k].type \in EdgeTypes(way) <=> way = phase
         /\ phase \in Ways => new[k].source.n = next
         /\ new[k].type \in LowSignal <=> phase \in LowSignal
<1>1. Tells(phase, next, new[k])
  BY TurnOfEdge DEF TurnAdds
<1>2. \A way \in Ways : new[k].type \in EdgeTypes(way) <=> way = phase
  BY <1>1, TypesOfLoops DEF Tells
<1>3. phase \in Ways => new[k].source.n = next
  BY <1>1 DEF Tells
<1>4. new[k].type \in LowSignal <=> phase \in LowSignal
  <2>1. \A e : e \in LowSignal <=> \E way \in LowSignal : e \in EdgeTypes(way)
    BY DEF LowSignal, EdgeTypes
  <2>2. LowSignal \subseteq Ways
    BY DEF Ways
  <2>3. QED
    BY <1>2, <2>1, <2>2
<1>5. QED
  BY <1>2, <1>3, <1>4

LEMMA BudgetStep ==
  ASSUME Control, BudgetIsCounted, [Next]_vars
  PROVE  BudgetIsCounted'
<1>1. IsList(edges) /\ EntrypointIds' = EntrypointIds /\ spent \in Nat
  BY EdgesGrow, SameAudit, GraphAssumption DEF Control
<1>2. PICK xs : xs = EntrypointIds
  OBVIOUS
<1>3. BudgetIsCounted' <=> spent' = Cardinality(CorrelationsOf(LowSignal, xs)')
  BY <1>1, <1>2, Zenon DEF BudgetIsCounted
<1>4. spent = Cardinality(CorrelationsOf(LowSignal, xs))
  BY <1>2 DEF BudgetIsCounted
<1>5. CASE Correlate
  <2> DEFINE n == Least(Cap(phase), MaxLowSignalEdges - spent)
             best == Best(phase, next, n)
             new == [i \in DOMAIN best |-> Correlation(phase, phase, next, best[i], "medium")]
  <2>1. /\ phase \in LowSignal /\ ~LoopOver /\ edges' = edges \o new
        /\ spent' = spent + Len(best)
    BY <1>5 DEF Correlate
  <2>2. TurnAdds(new) /\ Len(new) = Len(best)
    BY <2>1, CorrelationTurn
  <2> HIDE DEF new, best
  <2>3. IsList(new) /\ next \in EntrypointIds
    BY <2>1, <2>2, RunningTurn DEF TurnAdds, Ways
  <2>4. \A k \in DOMAIN new : new[k].type \in LowSignal /\ new[k].source.n \in xs
    BY <1>2, <2>1, <2>2, <2>3, TypesOfTurn DEF Ways
  <2>5. Cardinality(CorrelationsOf(LowSignal, xs)')
          = Cardinality(CorrelationsOf(LowSignal, xs)) + Len(new)
    BY <1>1, <2>1, <2>3, <2>4, CorrelationsGrow
  <2>6. QED
    BY <1>3, <1>4, <2>1, <2>2, <2>5
<1>6. CASE edges' = edges /\ spent' = spent
  <2>1. CorrelationsOf(LowSignal, xs)' = CorrelationsOf(LowSignal, xs)
    BY <1>6 DEF CorrelationsOf
  <2>2. QED
    BY <1>3, <1>4, <1>6, <2>1
<1>7. CASE AddNode \/ AddFlow \/ AddResolved \/ LinkEvidence
  <2>1. spent' = spent /\ phase \notin LowSignal
    BY <1>7 DEF AddNode, AddFlow, AddResolved, LinkEvidence, LowSignal, EvidenceLinks
  <2>2. CASE \E new : TurnAdds(new) /\ edges' = edges \o new
    <3>1. PICK new : TurnAdds(new) /\ edges' = edges \o new
      BY <2>2
    <3>2. IsList(new) /\ \A k \in DOMAIN new : new[k].type \notin LowSignal
      BY <2>1, <3>1, TypesOfTurn DEF TurnAdds
    <3>3. CorrelationsOf(LowSignal, xs)' = CorrelationsOf(LowSignal, xs)
      BY <1>1, <3>1, <3>2, CorrelationsGrow
    <3>4. QED
      BY <1>3, <1>4, <2>1, <3>3
  <2>3. QED
    BY <1>6, <2>1, <2>2, EdgesGrow
<1>8. NextLoop \/ NextSource \/ UNCHANGED vars => edges' = edges /\ spent' = spent
  BY DEF NextLoop, NextSource, vars
<1>9. QED
  BY <1>5, <1>6, <1>7, <1>8 DEF Next

(* The steps that are not the turn of an entrypoint leave its links alone, *)
(* and when the budget is used up nobody's correlations become more.       *)
LEMMA LinksAreKept ==
  ASSUME Control, [Next]_vars, NEW way \in Ways, NEW x
  PROVE  /\ \/ /\ phase = way /\ x = next
               /\ IF way = "resolved" THEN AddResolved ELSE Correlate
            \/ /\ LinksOf(way, x)' = LinksOf(way, x)
               /\ \A i \in DOMAIN edges : edges'[i] = edges[i]
         /\ way \in LowSignal /\ spent = MaxLowSignalEdges =>
              /\ spent' = spent
              /\ \A xs : CorrelationsOf({way}, xs)' = CorrelationsOf({way}, xs)
         /\ ~Correlate => spent' = spent
<1>1. IsList(edges)
  BY DEF Control
<1>2. LinksOf(way, x)' = CorrelationsOf(EdgeTypes(way), {x})'
        /\ LinksOf(way, x) = CorrelationsOf(EdgeTypes(way), {x})
  BY DEF LinksOf, EdgeTypes
<1>3. edges' = edges \/ \E new : TurnAdds(new) /\ edges' = edges \o new
  BY EdgesGrow
<1>4. ASSUME edges' = edges
      PROVE  /\ \A i \in DOMAIN edges : edges'[i] = edges[i]
             /\ \A ways, xs : CorrelationsOf(ways, xs)' = CorrelationsOf(ways, xs)
  BY <1>4 DEF CorrelationsOf
<1>5. edges' # edges /\ phase \in Ways => IF phase = "resolved" THEN AddResolved ELSE Correlate
  BY DEF Next, NextLoop, AddNode, AddFlow, AddResolved, Correlate, LinkEvidence, NextSource, vars,
         Ways, LowSignal, EvidenceLinks
<1>6. \/ /\ phase = way /\ x = next
         /\ IF way = "resolved" THEN AddResolved ELSE Correlate
      \/ /\ LinksOf(way, x)' = LinksOf(way, x)
         /\ \A i \in DOMAIN edges : edges'[i] = edges[i]
  <2>1. CASE edges' = edges
    BY <1>2, <1>4, <2>1
  <2>2. CASE edges' # edges /\ phase = way /\ x = next
    BY <1>5, <2>2
  <2>3. CASE edges' # edges /\ ~(phase = way /\ x = next)
    <3>1. PICK new : TurnAdds(new) /\ edges' = edges \o new
      BY <1>3, <2>3
    <3>2. IsList(new)
      BY <3>1 DEF TurnAdds
    <3>3. \A k \in DOMAIN new : new[k].type \notin EdgeTypes(way) \/ new[k].source.n \notin {x}
      BY <2>3, <3>1, TypesOfTurn
    <3>4. QED
      BY <1>1, <1>2, <3>1, <3>2, <3>3, CorrelationsGrow
  <2>4. QED
    BY <2>1, <2>2, <2>3
<1>7. Correlate => spent # MaxLowSignalEdges
  BY RunningTurn, GraphAssumption DEF Control, Correlate
<1>8. ~Correlate => spent' = spent
  BY DEF Next, NextLoop, AddNode, AddFlow, AddResolved, LinkEvidence, NextSource, vars
<1>9. ASSUME way \in LowSignal, spent = MaxLowSignalEdges, NEW xs
      PROVE  CorrelationsOf({way}, xs)' = CorrelationsOf({way}, xs)
  <2>1. CASE edges' = edges
    BY <1>4, <2>1
  <2>2. CASE edges' # edges
    <3>1. PICK new : TurnAdds(new) /\ edges' = edges \o new
      BY <1>3, <2>2
    <3>2. IsList(new)
      BY <3>1 DEF TurnAdds
    <3>3. phase # way
      BY <1>5, <1>7, <1>9, <2>2 DEF LowSignal
    <3>4. EdgeTypes(way) = {way}
      BY <1>9 DEF EdgeTypes, LowSignal
    <3>5. \A k \in DOMAIN new : new[k].type \notin {way}
      BY <3>1, <3>3, <3>4, TypesOfTurn
    <3>6. QED
      BY <1>1, <3>1, <3>2, <3>5, CorrelationsGrow
  <2>3. QED
    BY <2>1, <2>2
<1>10. QED
  BY <1>6, <1>7, <1>8, <1>9

(* An explanation outlives the steps that leave its links alone.           *)
LEMMA ExplanationStays ==
  ASSUME audit' = audit, NEW way, NEW x, IsExplained(way, x),
         LinksOf(way, x)' = LinksOf(way, x), \A i \in DOMAIN edges : edges'[i] = edges[i],
         way \in LowSignal /\ spent = MaxLowSignalEdges =>
           /\ spent' = spent
           /\ \A xs : CorrelationsOf({way}, xs)' = CorrelationsOf({way}, xs)
  PROVE  IsExplained(way, x)'
<1>1. /\ EntrypointIds' = EntrypointIds
      /\ Candidates(way, x)' = Candidates(way, x)
      /\ \A t, u : Before(way, x, t, u)' = Before(way, x, t, u)
  BY SameAudit
<1>2. \A i \in LinksOf(way, x) : edges'[i] = edges[i]
  BY DEF LinksOf, CorrelationsOf
<1>3. Cap(way)' = Cap(way)
  BY DEF Cap
<1> SUFFICES ASSUME NEW t \in Candidates(way, x)
             PROVE  \/ \E i \in LinksOf(way, x)' : edges'[i].target.n = t
                    \/ /\ Cardinality(LinksOf(way, x)') = Cap(way)
                       /\ \A i \in LinksOf(way, x)' : Before(way, x, edges[i].target.n, t)'
                    \/ /\ way \in LowSignal /\ spent' = MaxLowSignalEdges
                       /\ CorrelationsOf({way}, {y \in EntrypointIds : y > x})' = {}
                       /\ \A i \in LinksOf(way, x)' : Before(way, x, edges[i].target.n, t)'
  BY <1>1, <1>3 DEF IsExplained
<1>4. ASSUME \A i \in LinksOf(way, x) : Before(way, x, edges[i].target.n, t)
      PROVE  \A i \in LinksOf(way, x)' : Before(way, x, edges[i].target.n, t)'
  <2> TAKE i \in LinksOf(way, x)'
  <2>1. PICK u : u = edges[i].target.n
    OBVIOUS
  <2>2. Before(way, x, u, t)'
    BY <1>1, <1>4, <2>1
  <2>3. edges'[i].target.n = u
    BY <1>2, <2>1
  <2>4. QED
    BY <2>2, <2>3
<1>5. CASE \E i \in LinksOf(way, x) : edges[i].target.n = t
  BY <1>2, <1>5
<1>6. CASE /\ Cardinality(LinksOf(way, x)) = Cap(way)
           /\ \A i \in LinksOf(way, x) : Before(way, x, edges[i].target.n, t)
  BY <1>4, <1>6
<1>7. CASE /\ way \in LowSignal /\ spent = MaxLowSignalEdges
           /\ CorrelationsOf({way}, {y \in EntrypointIds : y > x}) = {}
           /\ \A i \in LinksOf(way, x) : Before(way, x, edges[i].target.n, t)
  <2>1. PICK xs : xs = {y \in EntrypointIds : y > x}
    OBVIOUS
  <2>2. CorrelationsOf({way}, xs)' = {}
    BY <1>7, <2>1
  <2>3. {y \in EntrypointIds : y > x}' = xs
    BY <1>1, <2>1
  <2>4. CorrelationsOf({way}, {y \in EntrypointIds : y > x})' = {}
    BY <2>2, <2>3
  <2>5. QED
    BY <1>4, <1>7, <2>4
<1>8. QED
  BY <1>5, <1>6, <1>7 DEF IsExplained

(* The turn of an entrypoint.                                              *)
LEMMA TurnIsExplained ==
  ASSUME Control, EdgesAreMade, audit' = audit,
         NEW way \in Ways, NEW x \in EntrypointIds, phase = way, next = x,
         NEW n \in Nat, n <= Cap(way),
         NEW new, IsList(new), edges' = edges \o new,
         DOMAIN new = DOMAIN Best(way, x, n), Len(new) = Len(Best(way, x, n)),
         \A k \in DOMAIN Best(way, x, n) :
           /\ new[k].type \in EdgeTypes(way) /\ new[k].source = Ref("entrypoint", x)
           /\ new[k].target = Ref("target", Best(way, x, n)[k]),
         \/ n = Cap(way)
         \/ way \in LowSignal /\ spent + n = MaxLowSignalEdges /\ spent' = spent + Len(new)
  PROVE  Cardinality(LinksOf(way, x)') <= Cap(way) /\ IsExplained(way, x)'
<1> DEFINE best == Best(way, x, n)
           m == Len(edges)
           later == {y \in EntrypointIds : y > x}
<1>1. /\ Len(best) \in Nat /\ Len(best) <= n
      /\ \A t \in Candidates(way, x) :
           \/ \E k \in DOMAIN best : best[k] = t
           \/ Len(best) = n /\ \A k \in DOMAIN best : Before(way, x, best[k], t)
  BY BestProperties DEF Control
<1>2. /\ \A k \in DOMAIN best : /\ new[k].type \in EdgeTypes(way)
                               /\ new[k].source = Ref("entrypoint", x)
                               /\ new[k].target = Ref("target", best[k])
      /\ DOMAIN new = DOMAIN best /\ Len(new) = Len(best)
  OBVIOUS
<1> HIDE DEF best
<1>3. \A k \in DOMAIN best : new[k].source.n = x /\ new[k].target.n = best[k]
  <2> TAKE k \in DOMAIN best
  <2>1. new[k].source = Ref("entrypoint", x) /\ new[k].target = Ref("target", best[k])
    BY <1>2
  <2>2. Ref("entrypoint", x).n = x /\ Ref("target", best[k]).n = best[k]
    OBVIOUS
  <2>3. QED
    BY <2>1, <2>2
<1>4. IsList(edges) /\ audit \in Audits /\ phase \in Loops /\ next \in Nat
  BY DEF Control
<1>5. /\ EntrypointIds' = EntrypointIds /\ Candidates(way, x)' = Candidates(way, x)
      /\ \A t, u : Before(way, x, t, u)' = Before(way, x, t, u)
  BY SameAudit
<1>6. ~Past(way, x) /\ \A y \in later : ~Past(way, y)
  <2>1. ~Past(way, x)
    BY <1>4, PastIsPast
  <2>2. EntrypointIds \subseteq Int
    BY <1>4, AuditFacts
  <2>3. QED
    BY <2>1, <2>2 DEF Past
<1>7. LinksOf(way, x) = {}
  BY <1>6, LinksArePast DEF LinksOf, CorrelationsOf
<1>8. /\ LinksOf(way, x)' = m + 1 .. m + Len(new)
      /\ Cardinality(LinksOf(way, x)') = Len(new)
  <2>1. \A k \in DOMAIN new : new[k].type \in EdgeTypes(way) /\ new[k].source.n \in {x}
    BY <1>2, <1>3
  <2>2. /\ CorrelationsOf(EdgeTypes(way), {x})' =
             CorrelationsOf(EdgeTypes(way), {x}) \cup (m + 1 .. m + Len(new))
        /\ Cardinality(CorrelationsOf(EdgeTypes(way), {x})') =
             Cardinality(CorrelationsOf(EdgeTypes(way), {x})) + Len(new)
    BY <1>4, <2>1, CorrelationsGrow
  <2>3. CorrelationsOf(EdgeTypes(way), {x}) = {} /\ Cardinality({}) = 0
    BY <1>7, FS_EmptySet DEF LinksOf
  <2>4. LinksOf(way, x)' = CorrelationsOf(EdgeTypes(way), {x})'
    BY DEF LinksOf, EdgeTypes
  <2>5. Len(new) \in Nat
    BY <1>1, <1>2
  <2>6. \A c : c = Cardinality({}) + Len(new) => c = Len(new)
    BY <2>3, <2>5
  <2>7. Cardinality(LinksOf(way, x)') = Cardinality({}) + Len(new)
    BY <2>2, <2>3, <2>4
  <2>8. LinksOf(way, x)' = m + 1 .. m + Len(new)
    BY <2>2, <2>3, <2>4
  <2>9. QED
    BY <2>6, <2>7, <2>8
<1>9. /\ \A i \in LinksOf(way, x)' : i - m \in DOMAIN best /\ edges'[i].target.n = best[i - m]
      /\ \A k \in DOMAIN best : m + k \in LinksOf(way, x)' /\ edges'[m + k].target.n = best[k]
  <2>1. /\ m \in Nat /\ Len(new) \in Nat /\ DOMAIN new = 1 .. Len(new)
        /\ \A i \in 1 .. Len(new) : edges'[m + i] = new[i]
        /\ \A i \in 1 .. m + Len(new) : i > m => i - m \in 1 .. Len(new) /\ edges'[i] = new[i - m]
    <3>1. \A s, t : IsList(s) /\ IsList(t) =>
            /\ IsList(s \o t) /\ Len(s) \in Nat /\ Len(t) \in Nat
            /\ DOMAIN s = 1 .. Len(s) /\ DOMAIN t = 1 .. Len(t)
            /\ Len(s \o t) = Len(s) + Len(t) /\ DOMAIN (s \o t) = 1 .. Len(s) + Len(t)
            /\ \A i \in 1 .. Len(s) : (s \o t)[i] = s[i]
            /\ \A i \in 1 .. Len(t) : (s \o t)[Len(s) + i] = t[i]
            /\ \A i \in 1 .. Len(s) + Len(t) : i > Len(s) =>
                 i - Len(s) \in 1 .. Len(t) /\ (s \o t)[i] = t[i - Len(s)]
      BY ListConcat
    <3>2. QED
      BY <1>4, <3>1
  <2>2. \A a, b \in Nat : /\ \A i \in a + 1 .. a + b : i \in 1 .. a + b /\ i > a
                          /\ \A k \in 1 .. b : a + k \in a + 1 .. a + b
    OBVIOUS
  <2>3. \A k \in DOMAIN best : new[k].target.n = best[k]
    BY <1>3
  <2>4. \A i \in m + 1 .. m + Len(new) : i - m \in DOMAIN best /\ edges'[i].target.n = best[i - m]
    BY <1>2, <2>1, <2>2, <2>3
  <2>5. \A k \in DOMAIN best : m + k \in m + 1 .. m + Len(new) /\ edges'[m + k].target.n = best[k]
    BY <1>2, <2>1, <2>2, <2>3
  <2>6. QED
    BY <1>8, <2>4, <2>5
<1>10. ASSUME way \in LowSignal
      PROVE  CorrelationsOf({way}, {y \in EntrypointIds : y > x})' = {}
  <2>1. PICK xs : xs = later
    OBVIOUS
  <2>2. EdgeTypes(way) = {way}
    BY <1>10 DEF EdgeTypes, LowSignal
  <2>3. CorrelationsOf({way}, xs) = {}
    BY <1>6, <2>1, <2>2, LinksArePast DEF CorrelationsOf
  <2>4. \A k \in DOMAIN new : new[k].source.n \notin xs
    <3>1. x \in Int
      BY <1>4, AuditFacts
    <3>2. QED
      BY <1>2, <1>3, <2>1, <3>1
  <2>5. CorrelationsOf({way}, xs)' = {}
    BY <1>4, <2>3, <2>4, CorrelationsGrow
  <2>6. {y \in EntrypointIds : y > x}' = xs
    BY <1>5, <2>1
  <2>7. QED
    BY <2>5, <2>6
<1>11. Cardinality(LinksOf(way, x)') <= Cap(way)
  <2>1. Cap(way) \in Nat
    BY GraphAssumption DEF Cap, Ways, LowSignal
  <2>2. QED
    BY <1>1, <1>2, <1>8, <2>1
<1>12. ASSUME NEW t \in Candidates(way, x)
       PROVE  \/ \E i \in LinksOf(way, x)' : edges'[i].target.n = t
              \/ /\ Cardinality(LinksOf(way, x)') = Cap(way)
                 /\ \A i \in LinksOf(way, x)' : Before(way, x, edges[i].target.n, t)'
              \/ /\ way \in LowSignal /\ spent' = MaxLowSignalEdges
                 /\ CorrelationsOf({way}, {y \in EntrypointIds : y > x})' = {}
                 /\ \A i \in LinksOf(way, x)' : Before(way, x, edges[i].target.n, t)'
  <2>1. CASE \E k \in DOMAIN best : best[k] = t
    BY ZenonT(40), <1>9, <2>1
  <2>2. CASE Len(best) = n /\ \A k \in DOMAIN best : Before(way, x, best[k], t)
    <3>1. \A i \in LinksOf(way, x)' : Before(way, x, edges[i].target.n, t)'
      <4> TAKE i \in LinksOf(way, x)'
      <4>1. PICK u : u = best[i - m]
        OBVIOUS
      <4>2. Before(way, x, u, t)'
        BY <1>5, <1>9, <2>2, <4>1
      <4>3. edges'[i].target.n = u
        BY <1>9, <4>1
      <4>4. QED
        BY <4>2, <4>3
    <3>2. CASE n = Cap(way)
      BY <1>2, <1>8, <2>2, <3>1, <3>2
    <3>3. CASE way \in LowSignal /\ spent + n = MaxLowSignalEdges /\ spent' = spent + Len(new)
      BY <1>2, <1>10, <2>2, <3>1, <3>3
    <3>4. QED
      BY <3>2, <3>3
  <2>3. QED
    BY <1>1, <2>1, <2>2
<1>13. IsExplained(way, x)'
  <2>1. Cap(way)' = Cap(way)
    BY DEF Cap
  <2>2. QED
    BY <1>5, <1>12, <2>1 DEF IsExplained
<1>14. QED
  BY <1>11, <1>13

LEMMA ExplainedStep ==
  ASSUME Control, EdgesAreMade, LinksAreExplained, [Next]_vars
  PROVE  LinksAreExplained'
<1>1. /\ audit' = audit /\ audit \in Audits /\ IsList(edges) /\ phase \in Loops /\ next \in Nat
  BY EdgesGrow DEF Control
<1>2. EntrypointIds' = EntrypointIds /\ \A way : Cap(way)' = Cap(way)
  BY <1>1, SameAudit DEF Cap
<1>3. \A way \in Ways : Cap(way) \in Nat
  BY GraphAssumption DEF Cap, Ways, LowSignal
<1> SUFFICES ASSUME NEW way \in Ways, NEW x \in EntrypointIds
             PROVE  /\ Cardinality(LinksOf(way, x)') <= Cap(way)
                    /\ Past(way, x)' => IsExplained(way, x)'
  BY <1>2, Zenon DEF LinksAreExplained
<1>4. CASE phase = way /\ x = next /\ (IF way = "resolved" THEN AddResolved ELSE Correlate)
  <2>1. CASE way = "resolved"
    <3> DEFINE best == Best("resolved", next, Cap("resolved"))
               new == [i \in DOMAIN best |-> RouteEdge(next, best[i])]
    <3>1. /\ phase = "resolved" /\ ~LoopOver /\ edges' = edges \o new
      BY <1>4, <2>1, RoutesAreDrawn DEF AddResolved
    <3>2. /\ TurnAdds(new) /\ Len(new) = Len(best) /\ DOMAIN new = DOMAIN best
          /\ \A i \in DOMAIN best : /\ new[i].type \in EdgeTypes("resolved")
                                    /\ new[i].source = Ref("entrypoint", next)
                                    /\ new[i].target = Ref("target", best[i])
      BY <3>1, RouteTurn
    <3>3. Cap(way) \in Nat /\ Cap(way) <= Cap(way)
      BY <1>3
    <3> HIDE DEF new
    <3>4. IsList(new)
      BY <3>2 DEF TurnAdds
    <3>5. QED
      BY <1>1, <1>4, <2>1, <3>1, <3>2, <3>3, <3>4, TurnIsExplained
  <2>2. CASE way \in LowSignal
    <3> DEFINE n == Least(Cap(phase), MaxLowSignalEdges - spent)
               best == Best(phase, next, n)
               new == [i \in DOMAIN best |-> Correlation(phase, phase, next, best[i], "medium")]
    <3>1. /\ phase \in LowSignal /\ ~LoopOver /\ edges' = edges \o new
          /\ spent' = spent + Len(best)
      BY <1>4, <2>2 DEF Correlate, LowSignal
    <3>2. /\ TurnAdds(new) /\ Len(new) = Len(best) /\ DOMAIN new = DOMAIN best
          /\ \A i \in DOMAIN best : /\ new[i].type = phase
                                    /\ new[i].source = Ref("entrypoint", next)
                                    /\ new[i].target = Ref("target", best[i])
      BY <3>1, CorrelationTurn
    <3>3. /\ n \in Nat /\ n <= Cap(phase)
          /\ n = Cap(phase) \/ spent + n = MaxLowSignalEdges
      BY <3>1, SpentAfterTurn
    <3> HIDE DEF new
    <3>4. IsList(new)
      BY <3>2 DEF TurnAdds
    <3>5. \A i \in DOMAIN best : new[i].type \in EdgeTypes(way)
      BY <1>4, <2>2, <3>2 DEF EdgeTypes, LowSignal
    <3> HIDE DEF n
    <3>6. QED
      BY <1>1, <1>4, <2>2, <3>1, <3>2, <3>3, <3>4, <3>5, TurnIsExplained
  <2>3. QED
    BY <2>1, <2>2 DEF Ways
<1>5. CASE /\ LinksOf(way, x)' = LinksOf(way, x)
           /\ \A i \in DOMAIN edges : edges'[i] = edges[i]
           /\ ~(phase = way /\ x = next /\ (AddResolved \/ Correlate))
  <2>1. Cardinality(LinksOf(way, x)) <= Cap(way) /\ (Past(way, x) => IsExplained(way, x))
    BY DEF LinksAreExplained
  <2>2. /\ way \in LowSignal /\ spent = MaxLowSignalEdges =>
              /\ spent' = spent
              /\ \A xs : CorrelationsOf({way}, xs)' = CorrelationsOf({way}, xs)
        /\ ~Correlate => spent' = spent
    BY LinksAreKept
  <2>3. CASE Past(way, x)
    BY <1>1, <1>5, <2>1, <2>2, <2>3, ExplanationStays
  <2>4. CASE ~Past(way, x) /\ Past(way, x)'
    <3>1. NextLoop /\ phase = way /\ spent = MaxLowSignalEdges /\ way \in LowSignal
      <4>1. /\ way = "resolved" =>
                 (Past(way, x)' => Past(way, x) \/ (AddResolved /\ x = next))
            /\ way \in LowSignal =>
                 (Past(way, x)' => \/ Past(way, x)
                                   \/ Correlate /\ phase = way /\ x = next
                                   \/ NextLoop /\ phase = way /\ spent = MaxLowSignalEdges)
        BY PastStep
      <4>2. AddResolved => phase = "resolved"
        BY DEF AddResolved
      <4>3. QED
        BY <1>5, <2>4, <4>1, <4>2 DEF Ways
    <3>2. /\ LinksOf(way, x) = {}
          /\ CorrelationsOf({way}, {y \in EntrypointIds : y > x}) = {}
      <4>1. EntrypointIds \subseteq Int
        BY <1>1, AuditFacts
      <4>2. \A y \in EntrypointIds : y > x => ~Past(way, y)
        BY <1>1, <2>4, <3>1, <4>1 DEF Past
      <4>3. EdgeTypes(way) = {way}
        BY <3>1 DEF EdgeTypes, LowSignal
      <4>4. \A i \in DOMAIN edges : edges[i].type \in EdgeTypes(way) =>
              edges[i].source.n \in EntrypointIds /\ Past(way, edges[i].source.n)
        BY LinksArePast
      <4>5. QED
        BY <2>4, <4>2, <4>3, <4>4 DEF LinksOf, CorrelationsOf
    <3>3. IsExplained(way, x)
      BY <3>1, <3>2 DEF IsExplained
    <3>4. QED
      BY <1>1, <1>5, <2>1, <2>2, <3>3, ExplanationStays
  <2>5. QED
    BY <1>5, <2>1, <2>3, <2>4
<1>6. \/ phase = way /\ x = next /\ (IF way = "resolved" THEN AddResolved ELSE Correlate)
      \/ /\ LinksOf(way, x)' = LinksOf(way, x)
         /\ \A i \in DOMAIN edges : edges'[i] = edges[i]
         /\ ~(phase = way /\ x = next /\ (AddResolved \/ Correlate))
  <2>1. /\ way = "resolved" /\ phase = way => ~Correlate
        /\ way # "resolved" /\ phase = way => ~AddResolved
    BY DEF Correlate, AddResolved, LowSignal
  <2>2. \/ phase = way /\ x = next /\ (IF way = "resolved" THEN AddResolved ELSE Correlate)
        \/ /\ LinksOf(way, x)' = LinksOf(way, x)
           /\ \A i \in DOMAIN edges : edges'[i] = edges[i]
    BY LinksAreKept
  <2>3. QED
    BY <2>1, <2>2
<1>7. QED
  BY <1>4, <1>5, <1>6
--------------------------------------------------------------------------------
(* The invariant holds at first, and every step keeps it.                  *)

LEMMA InitialInvariant == Init => IInv
<1> SUFFICES ASSUME Init
             PROVE  IInv
  OBVIOUS
<1>1. /\ audit \in Audits /\ nodes = <<>> /\ edges = <<>> /\ phase = "nodes" /\ next = 1
      /\ item = 1 /\ linked = {} /\ spent = 0
  BY DEF Init
<1>2. IsList(<<>>) /\ DOMAIN (<<>>) = {} /\ Len(<<>>) = 0
  <2>1. <<>> \in Seq({}) /\ DOMAIN (<<>>) = {} /\ Len(<<>>) = 0
    OBVIOUS
  <2>2. QED
    BY <2>1, SequenceIsList
<1>3. \A n \in Nat \ {0} : \A p : Past(p, n) => Number(p) < 1
  <2>1. Number("nodes") = 1
    BY DEF Number
  <2>2. \A n \in Nat \ {0} : ~(n < 1)
    OBVIOUS
  <2>3. QED
    BY <1>1, <2>1, <2>2 DEF Past
<1>4. \A p \in {"nodes", "flows"} \cup Ways \cup EvidenceLinks : Number(p) >= 1
  BY DEF Number, Ways, LowSignal, EvidenceLinks
<1>5. \A p \in {"nodes", "flows"} \cup Ways \cup EvidenceLinks : \A n \in Nat \ {0} : ~Past(p, n)
  <2>1. \A k : k >= 1 /\ k < 1 => k \notin Int
    OBVIOUS
  <2>2. \A p \in {"nodes", "flows"} \cup Ways \cup EvidenceLinks : Number(p) \in Int
    BY DEF Number, Ways, LowSignal, EvidenceLinks
  <2>3. QED
    BY <1>3, <1>4, <2>1, <2>2
<1>6. Control
  <2>1. phase \in Loops
    BY <1>1 DEF Loops
  <2>2. Turns \in Nat
    BY <1>1, <2>1, TurnsIsNatural
  <2>3. next \in 1 .. Turns + 1
    BY <1>1, <2>2
  <2>4. spent \in 0 .. MaxLowSignalEdges
    BY <1>1, GraphAssumption
  <2>5. Len(nodes) = (IF phase = "nodes" THEN next - 1 ELSE Len(NodeRefs))
    BY <1>1, <1>2
  <2>6. QED
    BY <1>1, <1>2, <2>1, <2>3, <2>4, <2>5 DEF Control
<1>7. EdgesAreMade /\ KeysDiffer(edges)
  BY <1>1, <1>2 DEF EdgesAreMade, KeysDiffer
<1>8. DefinitionsAreDone
  <2>1. DOMAIN NodeRefs \subseteq Nat \ {0}
    BY <1>1, NodeRefsFacts
  <2>2. QED
    BY <1>5, <2>1 DEF DefinitionsAreDone
<1>9. FlowsAreDone
  <2>1. DOMAIN audit.flows \subseteq Nat \ {0}
    BY <1>1, AuditFacts
  <2>2. QED
    BY <1>5, <2>1 DEF FlowsAreDone
<1>10. LinksAreDone /\ MarksAreLinked
  <2>1. \A way \in EvidenceLinks : DOMAIN SourcesOf(way) \subseteq Nat \ {0}
    BY <1>1, AuditFacts DEF SourcesOf
  <2>2. LinksAreDone
    BY <1>5, <2>1 DEF LinksAreDone
  <2>3. MarksAreLinked
    BY <1>1 DEF MarksAreLinked, EvidenceLinks
  <2>4. QED
    BY <2>2, <2>3
<1>11. \A ways, xs : CorrelationsOf(ways, xs) = {}
  BY <1>1, <1>2 DEF CorrelationsOf
<1>12. BudgetIsCounted
  BY <1>1, <1>11, FS_EmptySet DEF BudgetIsCounted
<1>13. LinksAreExplained
  <2>1. EntrypointIds \subseteq Nat \ {0}
    BY <1>1, AuditFacts
  <2>2. \A way \in Ways : Cap(way) \in Nat /\ 0 <= Cap(way)
    BY GraphAssumption DEF Cap, Ways, LowSignal
  <2>3. \A way, x : Cardinality(LinksOf(way, x)) = 0
    BY <1>11, FS_EmptySet DEF LinksOf
  <2>4. QED
    BY <1>5, <2>1, <2>2, <2>3 DEF LinksAreExplained
<1>14. QED
  BY <1>6, <1>7, <1>8, <1>9, <1>10, <1>12, <1>13 DEF IInv

LEMMA InvariantStep == IInv /\ [Next]_vars => IInv'
<1> SUFFICES ASSUME IInv, [Next]_vars
             PROVE  IInv'
  OBVIOUS
<1>1. /\ Control /\ EdgesAreMade /\ KeysDiffer(edges)
      /\ DefinitionsAreDone /\ FlowsAreDone
      /\ LinksAreDone /\ MarksAreLinked
      /\ BudgetIsCounted /\ LinksAreExplained
  BY DEF IInv
<1>2. Control'
  BY <1>1, ControlStep
<1>3. EdgesAreMade' /\ KeysDiffer(edges')
  BY <1>1, EdgesStep
<1>4. DefinitionsAreDone' /\ FlowsAreDone'
  BY <1>1, DefinitionsStep, FlowsStep
<1>5. LinksAreDone' /\ MarksAreLinked'
  BY <1>1, LinksStep, MarksStep
<1>6. BudgetIsCounted' /\ LinksAreExplained'
  BY <1>1, BudgetStep, ExplainedStep
<1>7. KeysDiffer(edges)'
  BY <1>3 DEF KeysDiffer, SameKey
<1>8. QED
  BY <1>2, <1>3, <1>4, <1>5, <1>6, <1>7 DEF IInv

(* In every state of a run, the edges are those of the turns done so far,  *)
(* all of them, each once, and every link left out has its reason.         *)
THEOREM GraphIsMadeInTurns == Spec => []IInv
BY InitialInvariant, InvariantStep, PTL DEF Spec
--------------------------------------------------------------------------------
(* What follows from the invariant.                                        *)

LEMMA NodesAreTyped ==
  ASSUME audit \in Audits
  PROVE  \A r \in Elements(NodeRefs) : r \in Node
<1>1. /\ DOMAIN audit.files \subseteq Nat /\ DOMAIN audit.boundaries \subseteq Nat
      /\ DOMAIN audit.primitives \subseteq Nat /\ DOMAIN audit.flows \subseteq Nat
      /\ EntrypointIds \subseteq Nat /\ TargetIds \subseteq Nat
  BY AuditFacts
<1>2. \A n \in Nat : /\ Ref("file", n) \in Node /\ Ref("entrypoint", n) \in Node
                      /\ Ref("target", n) \in Node /\ Ref("boundary", n) \in Node
                      /\ Ref("primitive", n) \in Node /\ Ref("flow", n) \in Node
  BY DEF Node
<1>3. /\ {Ref("entrypoint", x) : x \in EntrypointIds} \cup {Ref("target", t) : t \in TargetIds}
           \subseteq Node
      /\ {Ref("boundary", i) : i \in DOMAIN audit.boundaries}
           \cup {Ref("primitive", i) : i \in DOMAIN audit.primitives}
           \cup {Ref("flow", i) : i \in DOMAIN audit.flows} \subseteq Node
      /\ {Ref("file", f) : f \in DOMAIN audit.files} \subseteq Node
  BY <1>1, <1>2
<1> HIDE DEF Node
<1>4. Elements(DetectionRefs) \subseteq Node
  BY <1>3, DetectionRefsFacts
<1>5. Elements(CandidateRefs) \subseteq Node
  BY <1>3, CandidateRefsFacts
<1>6. Elements(NodeRefs) =
        {Ref("file", f) : f \in DOMAIN audit.files}
          \cup Elements(DetectionRefs) \cup Elements(CandidateRefs)
  BY NodeRefsFacts
<1>7. QED
  BY <1>3, <1>4, <1>5, <1>6

(* Both ends of an edge are things that get a node; a detection's file     *)
(* gets its node first.                                                    *)
LEMMA EndsOfEdge ==
  ASSUME audit \in Audits, NEW p, NEW n, NEW e, MadeBy(p, n, e)
  PROVE  /\ e.source \in Elements(NodeRefs) /\ e.target \in Elements(NodeRefs)
         /\ p = "nodes" => /\ n \in DOMAIN NodeRefs /\ e.source = NodeRefs[n]
                           /\ \E f \in DOMAIN NodeRefs : f < n /\ e.target = NodeRefs[f]
<1>1. Tells(p, n, e)
  BY TurnOfEdge
<1>2. /\ Elements(DetectionRefs) \subseteq Elements(NodeRefs)
      /\ Elements(CandidateRefs) \subseteq Elements(NodeRefs)
  BY NodeRefsFacts
<1>3. CASE p = "nodes"
  <2>1. DefinitionOf(n, e)
    BY <1>3 DEF MadeBy, LowSignal, EvidenceLinks
  <2>2. PICK f \in DOMAIN audit.files :
          e = Edge("defined_in", NodeRefs[n], Ref("file", f), "high", Record(NodeRefs[n]).evidence, <<>>)
    BY <2>1 DEF DefinitionOf
  <2>3. e.source = NodeRefs[n] /\ e.target = Ref("file", f)
    BY <2>2 DEF Edge
  <2>4. n \in DOMAIN NodeRefs /\ f \in DOMAIN NodeRefs /\ NodeRefs[f] = Ref("file", f) /\ f < n
    BY <2>1, NodeRefsFacts DEF DefinitionOf
  <2>5. QED
    BY <2>3, <2>4 DEF Elements
<1>4. CASE p = "flows"
  <2>1. FlowEdgeOf(n, e)
    BY <1>4 DEF MadeBy, LowSignal, EvidenceLinks
  <2>2. n \in DOMAIN audit.flows
    BY <2>1 DEF FlowEdgeOf
  <2>3. \/ /\ e.source = Ref("entrypoint", audit.flows[n].entrypoint)
           /\ e.target = Ref("flow", n)
        \/ /\ e.source = Ref("flow", n)
           /\ e.target = Ref("target", audit.flows[n].target)
    BY <2>1 DEF FlowEdgeOf, Edge
  <2>4. QED
    BY <1>4, <2>2, <2>3, FlowFacts
<1>5. CASE p \in Ways
  <2>1. /\ n \in EntrypointIds /\ e.source = Ref("entrypoint", n)
        /\ \E t \in Candidates(p, n) : e.target = Ref("target", t)
    BY <1>1, <1>5 DEF Tells
  <2>2. \A t \in Candidates(p, n) : t \in TargetIds
    BY CandidatesAreFinite
  <2>3. e.source \in Elements(DetectionRefs) /\ e.target \in Elements(DetectionRefs)
    BY <2>1, <2>2, DetectionRefsFacts
  <2>4. QED
    BY <1>2, <1>5, <2>3 DEF Ways, LowSignal
<1>6. CASE p \in EvidenceLinks
  <2>1. /\ n \in DOMAIN SourcesOf(p) /\ e.source = Ref(SourceKind(p), n)
        /\ e.target \in Elements(TargetsOf(p))
    BY <1>1, <1>6 DEF Tells
  <2>2. e.source \in Elements(CandidateRefs)
    BY <2>1, CandidateRefsFacts DEF SourceKind, SourcesOf
  <2>3. e.target \in Elements(DetectionRefs) \cup Elements(CandidateRefs)
    BY <1>6, <2>1, CandidateRefsFacts, TargetsFacts
  <2>4. QED
    BY <1>2, <1>6, <2>2, <2>3 DEF EvidenceLinks
<1>7. QED
  BY <1>1, <1>3, <1>4, <1>5, <1>6 DEF Tells

LEMMA EvidenceIsTyped ==
  ASSUME audit \in Audits
  PROVE  /\ \A r \in Elements(DetectionRefs) : Record(r).evidence \in Seq(Nat)
         /\ \A way \in EvidenceLinks : \A n \in DOMAIN SourcesOf(way) :
              SourcesOf(way)[n].evidence \in Seq(Nat)
         /\ \A x \in EntrypointIds, t \in TargetIds :
              Distinct(audit.entrypoints[x].evidence \o audit.targets[t].evidence) \in Seq(Nat)
<1>1. /\ \A x \in EntrypointIds : audit.entrypoints[x].evidence \in Seq(Nat)
      /\ \A t \in TargetIds : audit.targets[t].evidence \in Seq(Nat)
      /\ \A n \in DOMAIN audit.boundaries : audit.boundaries[n].evidence \in Seq(Nat)
      /\ \A n \in DOMAIN audit.primitives : audit.primitives[n].evidence \in Seq(Nat)
  BY AuditFacts DEF EntrypointIds, TargetIds
<1>2. /\ \A n : Record(Ref("entrypoint", n)) = audit.entrypoints[n]
      /\ \A n : Record(Ref("target", n)) = audit.targets[n]
  BY DEF Record
<1>3. \A r \in Elements(DetectionRefs) :
        \/ \E x \in EntrypointIds : r = Ref("entrypoint", x)
        \/ \E t \in TargetIds : r = Ref("target", t)
  BY DetectionRefsFacts
<1>4. \A r \in Elements(DetectionRefs) : Record(r).evidence \in Seq(Nat)
  BY <1>1, <1>2, <1>3
<1>5. \A way \in EvidenceLinks : \A n \in DOMAIN SourcesOf(way) :
        SourcesOf(way)[n].evidence \in Seq(Nat)
  BY <1>1 DEF EvidenceLinks, SourcesOf
<1>6. ASSUME NEW s \in Seq(Nat)
      PROVE  Distinct(s) \in Seq(Nat)
  <2>1. IsList(s) /\ FirstOccurrences(s) \in SUBSET DOMAIN s
    BY <1>6, SequenceIsList DEF FirstOccurrences
  <2>2. /\ IsList(Distinct(s))
        /\ \A i \in DOMAIN Distinct(s) : \E k \in FirstOccurrences(s) : Distinct(s)[i] = s[k]
    BY <2>1, PickIsList DEF Distinct
  <2>3. \A k \in DOMAIN s : s[k] \in Nat
    OBVIOUS
  <2>4. \A i \in DOMAIN Distinct(s) : Distinct(s)[i] \in Nat
    BY <2>1, <2>2, <2>3
  <2>5. QED
    BY <2>2, <2>4, ListInSeq
<1>7. \A a, b : a \in Seq(Nat) /\ b \in Seq(Nat) => a \o b \in Seq(Nat)
  OBVIOUS
<1>8. QED
  BY <1>1, <1>4, <1>5, <1>6, <1>7

LEMMA EdgesAreTyped ==
  ASSUME audit \in Audits, NEW p, NEW n, NEW e, MadeBy(p, n, e)
  PROVE  e \in EdgeType
<1>1. e.source \in Node /\ e.target \in Node
  BY EndsOfEdge, NodesAreTyped
<1>2. \A type, source, target, confidence, evidence, missing :
        /\ e = Edge(type, source, target, confidence, evidence, missing)
        /\ type \in {"defined_in", "static_flow_source", "static_flow_target",
                     "route_to_worker_candidate", "route_to_consumer_candidate"}
                      \cup LowSignal \cup EvidenceLinks
        /\ confidence \in Confidences /\ evidence \in Seq(Nat) /\ missing \in Seq(Texts)
        => e \in EdgeType
  BY <1>1 DEF Edge, EdgeType
<1>3. <<>> \in Seq(Texts) /\ \A text \in Texts : <<text>> \in Seq(Texts)
  OBVIOUS
<1>4. {"high", "medium"} \subseteq Confidences /\ {"resolved"} \cup LowSignal \subseteq Texts
  BY GraphAssumption DEF Confidences, LowSignal
<1>5. CASE p = "nodes"
  <2>1. DefinitionOf(n, e)
    BY <1>5 DEF MadeBy, LowSignal, EvidenceLinks
  <2>2. NodeRefs[n] \in Elements(DetectionRefs)
    BY <2>1, NodeRefsFacts DEF DefinitionOf
  <2>3. Record(NodeRefs[n]).evidence \in Seq(Nat)
    BY <2>2, EvidenceIsTyped
  <2>4. PICK f \in DOMAIN audit.files :
          e = Edge("defined_in", NodeRefs[n], Ref("file", f), "high", Record(NodeRefs[n]).evidence, <<>>)
    BY <2>1 DEF DefinitionOf
  <2>5. QED
    BY <1>2, <1>3, <1>4, <2>3, <2>4
<1>6. CASE p = "flows"
  <2>1. FlowEdgeOf(n, e)
    BY <1>6 DEF MadeBy, LowSignal, EvidenceLinks
  <2>2. /\ audit.flows[n].confidence \in Confidences
        /\ audit.flows[n].evidence \in Seq(Nat) /\ audit.flows[n].missing \in Seq(Texts)
    BY <2>1, FlowFacts DEF FlowEdgeOf
  <2>3. \E type \in {"static_flow_source", "static_flow_target"} : \E source, target :
          e = Edge(type, source, target, audit.flows[n].confidence, audit.flows[n].evidence,
                   audit.flows[n].missing)
    BY <2>1 DEF FlowEdgeOf
  <2>4. QED
    BY <1>2, <2>2, <2>3
<1>7. CASE p = "resolved"
  <2>1. RouteOf(n, e)
    BY <1>7 DEF MadeBy, LowSignal, EvidenceLinks
  <2>2. PICK t \in Candidates("resolved", n) : e = RouteEdge(n, t)
    BY <2>1 DEF RouteOf
  <2>3. n \in EntrypointIds /\ t \in TargetIds
    BY <2>1, <2>2, CandidatesAreFinite DEF RouteOf
  <2>4. Distinct(audit.entrypoints[n].evidence \o audit.targets[t].evidence) \in Seq(Nat)
    BY <2>3, EvidenceIsTyped
  <2>5. ResolvedConfidence(audit.entrypoints[n], audit.targets[t]) \in Confidences
    BY <1>4 DEF ResolvedConfidence
  <2>6. RouteType(t) \in {"route_to_worker_candidate", "route_to_consumer_candidate"}
    BY DEF RouteType
  <2>7. <<"resolved">> \in Seq(Texts)
    BY <1>3, <1>4
  <2>8. e = Edge(RouteType(t), Ref("entrypoint", n), Ref("target", t),
                 ResolvedConfidence(audit.entrypoints[n], audit.targets[t]),
                 Distinct(audit.entrypoints[n].evidence \o audit.targets[t].evidence),
                 <<"resolved">>)
    BY <2>2 DEF RouteEdge, Correlation
  <2>9. QED
    BY <1>2, <2>4, <2>5, <2>6, <2>7, <2>8
<1>8. CASE p \in LowSignal
  <2>1. CorrelationOf(p, n, e)
    BY <1>8 DEF MadeBy, LowSignal, EvidenceLinks
  <2>2. PICK t \in Candidates(p, n) : e = Correlation(p, p, n, t, "medium")
    BY <2>1 DEF CorrelationOf
  <2>3. n \in EntrypointIds /\ t \in TargetIds
    BY <2>1, <2>2, CandidatesAreFinite DEF CorrelationOf
  <2>4. Distinct(audit.entrypoints[n].evidence \o audit.targets[t].evidence) \in Seq(Nat)
    BY <2>3, EvidenceIsTyped
  <2>5. <<p>> \in Seq(Texts)
    BY <1>3, <1>4, <1>8
  <2>6. e = Edge(p, Ref("entrypoint", n), Ref("target", t), "medium",
                 Distinct(audit.entrypoints[n].evidence \o audit.targets[t].evidence), <<p>>)
    BY <2>2 DEF Correlation
  <2>7. QED
    BY <1>2, <1>4, <1>8, <2>4, <2>5, <2>6
<1>9. CASE p \in EvidenceLinks
  <2>1. EvidenceLinkOf(p, n, e)
    BY <1>9 DEF MadeBy, LowSignal, EvidenceLinks
  <2>2. PICK j \in DOMAIN SourcesOf(p)[n].evidence, k \in DOMAIN TargetsOf(p) :
          e = Edge(p, Ref(SourceKind(p), n), TargetsOf(p)[k], "high",
                   <<SourcesOf(p)[n].evidence[j]>>, <<>>)
    BY <2>1 DEF EvidenceLinkOf
  <2>3. SourcesOf(p)[n].evidence \in Seq(Nat)
    BY <1>9, <2>1, EvidenceIsTyped DEF EvidenceLinkOf
  <2>4. SourcesOf(p)[n].evidence[j] \in Nat
    BY <2>3
  <2>5. <<SourcesOf(p)[n].evidence[j]>> \in Seq(Nat)
    BY <2>4
  <2>6. QED
    BY <1>2, <1>3, <1>4, <1>9, <2>2, <2>5
<1>10. QED
  BY <1>5, <1>6, <1>7, <1>8, <1>9 DEF MadeBy

LEMMA InvariantTypes == IInv => TypeOK
<1> SUFFICES ASSUME IInv
             PROVE  TypeOK
  OBVIOUS
<1>1. Control /\ EdgesAreMade
  BY DEF IInv
<1>2. nodes \in Seq(Node)
  <2>1. \A i \in DOMAIN nodes : i \in DOMAIN NodeRefs
    <3>1. /\ DOMAIN nodes = 1 .. Len(nodes) /\ Len(nodes) \in Nat
          /\ DOMAIN NodeRefs = 1 .. Len(NodeRefs) /\ Len(NodeRefs) \in Nat
      BY <1>1, NodeRefsFacts, ListFacts DEF Control
    <3>2. Len(nodes) <= Len(NodeRefs)
      BY <1>1, <3>1 DEF Control, Turns, LowSignal
    <3>3. QED
      BY <3>1, <3>2
  <2>2. \A i \in DOMAIN nodes : nodes[i] \in Node
    BY <1>1, <2>1, NodesAreTyped DEF Control, Elements
  <2>3. QED
    BY <1>1, <2>2, ListInSeq DEF Control
<1>3. edges \in Seq(EdgeType)
  <2>1. \A i \in DOMAIN edges : edges[i] \in EdgeType
    BY <1>1, EdgesAreTyped DEF EdgesAreMade, IsMade, Control
  <2>2. QED
    BY <1>1, <2>1, ListInSeq DEF Control
<1>4. phase \in {Phases[i] : i \in DOMAIN Phases}
  <2>1. /\ Phases[1] = "nodes" /\ Phases[2] = "flows" /\ Phases[3] = "resolved"
        /\ Phases[4] = "same_file_correlation" /\ Phases[5] = "handler_name_correlation"
        /\ Phases[6] = "boundary_evidence" /\ Phases[7] = "primitive_evidence"
        /\ Phases[8] = "done" /\ DOMAIN Phases = 1 .. 8
    BY DEF Phases
  <2>2. QED
    BY <1>1, <2>1 DEF Control, Loops, Ways, LowSignal, EvidenceLinks
<1>5. /\ next \in 1 .. Turns + 1 /\ item \in Nat \ {0}
      /\ linked \subseteq {EvidenceTargets[i] : i \in DOMAIN EvidenceTargets}
      /\ spent \in Nat
  BY <1>1, GraphAssumption DEF Control, Elements
<1>6. QED
  BY <1>2, <1>3, <1>4, <1>5 DEF TypeOK

(* The types of the graph, of its edges' ends, confidences, evidences and  *)
(* texts, and the turns within the loops' bounds.                          *)
THEOREM TypeCorrectness == Spec => []TypeOK
BY GraphIsMadeInTurns, InvariantTypes, PTL
--------------------------------------------------------------------------------

LEMMA KeysAreCounted == IInv => NothingLinkedTwice
<1> SUFFICES ASSUME IInv
             PROVE  NothingLinkedTwice
  OBVIOUS
<1> DEFINE Key(i) == <<edges[i].type, edges[i].source, edges[i].target>>
           keys == {Key(i) : i \in DOMAIN edges}
           f == [i \in DOMAIN edges |-> Key(i)]
<1>1. DOMAIN edges = 1 .. Len(edges) /\ Len(edges) \in Nat /\ KeysDiffer(edges)
  BY ListFacts DEF IInv, Control
<1>2. \A i, j \in DOMAIN edges : Key(i) = Key(j) => i = j
  BY <1>1 DEF KeysDiffer, SameKey
<1>3. f \in Bijection(DOMAIN edges, keys)
  <2>1. f \in [DOMAIN edges -> keys]
    OBVIOUS
  <2>2. \A i, j \in DOMAIN edges : f[i] = f[j] => i = j
    BY <1>2
  <2>3. \A k \in keys : \E i \in DOMAIN edges : f[i] = k
    OBVIOUS
  <2>4. QED
    BY <2>1, <2>2, <2>3 DEF Bijection, Injection, Surjection, IsInjective
<1>4. IsFiniteSet(DOMAIN edges) /\ Cardinality(DOMAIN edges) = Len(edges)
  <2>1. \A m \in Nat : IsFiniteSet(1 .. m) /\ Cardinality(1 .. m) = (IF 1 > m THEN 0 ELSE m - 1 + 1)
    BY FS_Interval
  <2>2. \A m \in Nat : (IF 1 > m THEN 0 ELSE m - 1 + 1) = m
    OBVIOUS
  <2>3. QED
    BY <1>1, <2>1, <2>2
<1>5. Cardinality(keys) = Len(edges)
  <2>1. ExistsBijection(DOMAIN edges, keys)
    BY <1>3 DEF ExistsBijection
  <2>2. QED
    BY <1>4, <2>1, FS_Bijection
<1>6. QED
  BY <1>5, Zenon DEF NothingLinkedTwice

(* No type, source and target occur in two edges, whatever the evidences   *)
(* of the candidates and wherever the targets are found.                   *)
THEOREM NothingIsLinkedTwice == Spec => []NothingLinkedTwice
BY GraphIsMadeInTurns, KeysAreCounted, PTL
--------------------------------------------------------------------------------

LEMMA AllPastWhenDone ==
  ASSUME phase = "done"
  PROVE  \A p \in Loops \ {"done"} : \A n : Past(p, n)
BY DEF Past, Number, Loops, Ways, LowSignal, EvidenceLinks

LEMMA InvariantCompletes == IInv => GraphIsComplete
<1> SUFFICES ASSUME IInv
             PROVE  GraphIsComplete
  OBVIOUS
<1>1. Control /\ EdgesAreMade /\ DefinitionsAreDone /\ FlowsAreDone
  BY DEF IInv
<1>2. audit \in Audits /\ IsList(nodes) /\ next \in Nat
  BY <1>1 DEF Control
<1>3. ASSUME NEW i \in DOMAIN edges
      PROVE  HasNode(edges[i].source) /\ HasNode(edges[i].target)
  <2>1. PICK p \in Loops : \E n \in Nat :
          MadeBy(p, n, edges[i]) /\ (Past(p, n) \/ (p = phase /\ p \in EvidenceLinks))
    BY <1>1 DEF EdgesAreMade, IsMade
  <2>2. PICK n \in Nat :
          MadeBy(p, n, edges[i]) /\ (Past(p, n) \/ (p = phase /\ p \in EvidenceLinks))
    BY <2>1
  <2>3. /\ edges[i].source \in Elements(NodeRefs) /\ edges[i].target \in Elements(NodeRefs)
        /\ p = "nodes" => /\ n \in DOMAIN NodeRefs /\ edges[i].source = NodeRefs[n]
                          /\ \E f \in DOMAIN NodeRefs : f < n /\ edges[i].target = NodeRefs[f]
    BY <1>2, <2>2, EndsOfEdge
  <2>4. CASE phase # "nodes"
    BY <1>1, <2>3, <2>4, AllNodes
  <2>5. CASE phase = "nodes"
    <3>1. p = "nodes" /\ n < next
      BY <2>2, <2>5 DEF Past, Number, Loops, Ways, LowSignal, EvidenceLinks
    <3>2. DOMAIN nodes = 1 .. next - 1
      BY <1>1, <1>2, <2>5, ListFacts DEF Control
    <3>3. DOMAIN NodeRefs = 1 .. Len(NodeRefs) /\ Len(NodeRefs) \in Nat
      BY <1>2, NodeRefsFacts
    <3>4. \A k \in DOMAIN NodeRefs : k <= n => HasNode(NodeRefs[k])
      <4> TAKE k \in DOMAIN NodeRefs
      <4>1. k <= n => k \in DOMAIN nodes
        BY <1>2, <3>1, <3>2, <3>3
      <4>2. \A j \in DOMAIN nodes : nodes[j] = NodeRefs[j]
        BY <1>1 DEF Control
      <4>3. QED
        BY <4>1, <4>2 DEF HasNode
    <3>5. \A k \in DOMAIN NodeRefs : k < n => k <= n
      BY <3>3
    <3>6. n <= n
      OBVIOUS
    <3>7. QED
      BY <2>3, <3>1, <3>4, <3>5, <3>6
  <2>6. QED
    BY <2>4, <2>5
<1>4. UNION {{edges[i].source, edges[i].target} : i \in DOMAIN edges}
        \subseteq {nodes[i] : i \in DOMAIN nodes}
  <2>1. \A r : HasNode(r) => r \in {nodes[i] : i \in DOMAIN nodes}
    BY DEF HasNode
  <2>2. QED
    BY <1>3, <2>1
<1>5. ASSUME phase = "done"
      PROVE  /\ \A i \in DOMAIN DetectionRefs : \A f \in DOMAIN audit.files :
                  audit.files[f] = Record(DetectionRefs[i]).file =>
                    Linked("defined_in", DetectionRefs[i], Ref("file", f))
             /\ \A i \in DOMAIN audit.flows :
                  /\ Linked("static_flow_source", Ref("entrypoint", audit.flows[i].entrypoint),
                            Ref("flow", i))
                  /\ Linked("static_flow_target", Ref("flow", i),
                            Ref("target", audit.flows[i].target))
  <2>1. \A n : Past("nodes", n) /\ Past("flows", n)
    BY <1>5, AllPastWhenDone DEF Loops
  <2>2. \A r \in Elements(DetectionRefs) : r.kind \in {"entrypoint", "target"}
    BY <1>2, DetectionRefsFacts
  <2>3. ASSUME NEW i \in DOMAIN DetectionRefs
        PROVE  \A f \in DOMAIN audit.files :
                 audit.files[f] = Record(DetectionRefs[i]).file =>
                   Linked("defined_in", DetectionRefs[i], Ref("file", f))
    <3>1. DetectionRefs[i] \in Elements(DetectionRefs)
      BY DEF Elements
    <3>2. DetectionRefs[i] \in Elements(NodeRefs)
      BY <1>2, <3>1, NodeRefsFacts
    <3>3. PICK n \in DOMAIN NodeRefs : NodeRefs[n] = DetectionRefs[i]
      BY <3>2 DEF Elements
    <3>4. NodeRefs[n].kind \in {"entrypoint", "target"}
      BY <2>2, <3>1, <3>3
    <3>5. QED
      BY <1>1, <2>1, <3>3, <3>4 DEF DefinitionsAreDone
  <2>4. QED
    BY <1>1, <2>1, <2>3 DEF FlowsAreDone
<1>6. QED
  BY <1>4, <1>5 DEF GraphIsComplete

(* No edge hangs in the air, and in the end none is missing because a node *)
(* was added after the edge would have been.                               *)
THEOREM GraphIsAlwaysComplete == Spec => []GraphIsComplete
BY GraphIsMadeInTurns, InvariantCompletes, PTL
--------------------------------------------------------------------------------

LEMMA InvariantKeepsCaps == IInv => CorrelationsKeepTheirCaps
<1> SUFFICES ASSUME IInv
             PROVE  CorrelationsKeepTheirCaps
  OBVIOUS
<1>1. Control /\ BudgetIsCounted /\ LinksAreExplained
  BY DEF IInv
<1>2. Cardinality(CorrelationsOf(LowSignal, EntrypointIds)) <= MaxLowSignalEdges
  BY <1>1, GraphAssumption DEF Control, BudgetIsCounted
<1>3. \A way \in LowSignal : way \in Ways /\ EdgeTypes(way) = {way}
  BY DEF Ways, LowSignal, EdgeTypes
<1>4. \A way \in LowSignal : \A x \in EntrypointIds :
        Cardinality(CorrelationsOf({way}, {x})) <= Cap(way)
  BY <1>1, <1>3 DEF LinksAreExplained, LinksOf
<1>5. QED
  BY <1>2, <1>4 DEF CorrelationsKeepTheirCaps

(* The two kinds of correlation together never exceed the common budget,   *)
(* nor an entrypoint the cap of a kind, for all caps and budgets.          *)
THEOREM CapsAreKept == Spec => []CorrelationsKeepTheirCaps
BY GraphIsMadeInTurns, InvariantKeepsCaps, PTL

LEMMA InvariantExplains == IInv => LeftOutForAReason
<1> SUFFICES ASSUME IInv, phase = "done",
                    NEW way \in {"resolved"} \cup LowSignal, NEW x \in EntrypointIds,
                    NEW t \in Candidates(way, x)
             PROVE  \/ \E i \in CorrelationsOf(EdgeTypes(way), {x}) : edges[i].target.n = t
                    \/ /\ Cardinality(CorrelationsOf(EdgeTypes(way), {x})) = Cap(way)
                       /\ \A i \in CorrelationsOf(EdgeTypes(way), {x}) :
                            Before(way, x, edges[i].target.n, t)
                    \/ /\ way \in LowSignal /\ spent = MaxLowSignalEdges
                       /\ CorrelationsOf({way}, {y \in EntrypointIds : y > x}) = {}
                       /\ \A i \in CorrelationsOf(EdgeTypes(way), {x}) :
                            Before(way, x, edges[i].target.n, t)
  BY DEF LeftOutForAReason
<1>1. way \in Ways /\ Past(way, x)
  BY AllPastWhenDone DEF Loops, Ways, LowSignal
<1>2. IsExplained(way, x)
  BY <1>1 DEF IInv, LinksAreExplained
<1>3. QED
  BY <1>2 DEF IsExplained, LinksOf

(* A link between an entrypoint and a candidate is left out only for a     *)
(* full quota of better ones, or for a budget that others have used up.    *)
THEOREM NoneIsLeftOutWithoutReason == Spec => []LeftOutForAReason
BY GraphIsMadeInTurns, InvariantExplains, PTL
--------------------------------------------------------------------------------

(* The turn that made an edge, by its type.                                *)
LEMMA TurnByType ==
  ASSUME EdgesAreMade, NEW i \in DOMAIN edges
  PROVE  /\ edges[i].type \in EvidenceLinks =>
              \E n : EvidenceLinkOf(edges[i].type, n, edges[i])
         /\ edges[i].type \in EdgeTypes("resolved") => \E x : RouteOf(x, edges[i])
<1>1. PICK p \in Loops : \E n \in Nat : MadeBy(p, n, edges[i])
  BY DEF EdgesAreMade, IsMade
<1>2. PICK n : MadeBy(p, n, edges[i])
  BY <1>1
<1>3. Tells(p, n, edges[i])
  BY <1>2, TurnOfEdge
<1>4. \/ edges[i].type \in {"defined_in", "static_flow_source", "static_flow_target"}
      \/ p \in Ways /\ edges[i].type \in EdgeTypes(p)
      \/ p \in EvidenceLinks /\ edges[i].type = p
  BY <1>3 DEF Tells
<1>5. edges[i].type \in EvidenceLinks => p = edges[i].type
  BY <1>4 DEF EvidenceLinks, EdgeTypes, Ways, LowSignal
<1>6. edges[i].type \in EdgeTypes("resolved") => p = "resolved"
  BY <1>4 DEF EvidenceLinks, EdgeTypes, Ways, LowSignal
<1>7. QED
  BY <1>2, <1>5, <1>6 DEF MadeBy, EvidenceLinks, LowSignal

LEMMA InvariantLinksExactly == IInv => EvidenceLinksAreExact
<1> SUFFICES ASSUME IInv, phase = "done"
             PROVE  EvidenceLinksAreExact
  BY DEF EvidenceLinksAreExact
<1>1. Control /\ EdgesAreMade /\ LinksAreDone
  BY DEF IInv
<1>2. audit \in Audits
  BY <1>1 DEF Control
<1>3. ASSUME NEW i \in DOMAIN edges, edges[i].type \in EvidenceLinks
      PROVE  edges[i].evidence[1]
               \in EvidenceOf(edges[i].source) \cap EvidenceOf(edges[i].target)
  <2> DEFINE way == edges[i].type
  <2>1. PICK n : EvidenceLinkOf(way, n, edges[i])
    BY <1>1, <1>3, TurnByType
  <2>2. PICK j \in DOMAIN SourcesOf(way)[n].evidence, k \in DOMAIN TargetsOf(way) :
          /\ SourcesOf(way)[n].evidence[j] \in EvidenceOf(TargetsOf(way)[k])
          /\ edges[i] = Edge(way, Ref(SourceKind(way), n), TargetsOf(way)[k], "high",
                             <<SourcesOf(way)[n].evidence[j]>>, <<>>)
    BY <2>1 DEF EvidenceLinkOf
  <2>3. /\ edges[i].source = Ref(SourceKind(way), n) /\ edges[i].target = TargetsOf(way)[k]
        /\ edges[i].evidence[1] = SourcesOf(way)[n].evidence[j]
    BY <2>2 DEF Edge
  <2>4. Record(Ref(SourceKind(way), n)) = SourcesOf(way)[n]
    BY <1>3, SourceFacts
  <2>5. SourcesOf(way)[n].evidence[j] \in EvidenceOf(Ref(SourceKind(way), n))
    BY <2>4 DEF EvidenceOf
  <2>6. QED
    BY <2>2, <2>3, <2>5
<1>4. ASSUME NEW way \in EvidenceLinks, NEW n \in DOMAIN SourcesOf(way),
             NEW r \in Elements(TargetsOf(way))
      PROVE  Linked(way, Ref(SourceKind(way), n), r)
               <=> EvidenceOf(Ref(SourceKind(way), n)) \cap EvidenceOf(r) # {}
  <2>1. Past(way, n)
    BY AllPastWhenDone DEF Loops, EvidenceLinks
  <2>2. EvidenceOf(Ref(SourceKind(way), n)) \cap EvidenceOf(r) # {} =>
          Linked(way, Ref(SourceKind(way), n), r)
    BY <1>1, <2>1 DEF LinksAreDone
  <2>3. ASSUME Linked(way, Ref(SourceKind(way), n), r)
        PROVE  EvidenceOf(Ref(SourceKind(way), n)) \cap EvidenceOf(r) # {}
    <3>1. PICK i \in DOMAIN edges : /\ edges[i].type = way /\ edges[i].target = r
                                    /\ edges[i].source = Ref(SourceKind(way), n)
      BY <2>3 DEF Linked
    <3>2. edges[i].evidence[1] \in EvidenceOf(edges[i].source) \cap EvidenceOf(edges[i].target)
      BY <1>3, <3>1
    <3>3. QED
      BY <3>1, <3>2
  <2>4. QED
    BY <2>2, <2>3
<1>5. \A b \in DOMAIN audit.boundaries : \A i \in DOMAIN DetectionRefs :
        Linked("boundary_evidence", Ref("boundary", b), DetectionRefs[i])
          <=> EvidenceOf(Ref("boundary", b)) \cap EvidenceOf(DetectionRefs[i]) # {}
  <2> DEFINE way == "boundary_evidence"
  <2>1. /\ way \in EvidenceLinks /\ SourceKind(way) = "boundary"
        /\ SourcesOf(way) = audit.boundaries
    BY DEF EvidenceLinks, SourceKind, SourcesOf
  <2>2. \A i \in DOMAIN DetectionRefs : DetectionRefs[i] \in Elements(TargetsOf(way))
    BY <1>2, <2>1, TargetsFacts DEF Elements
  <2>3. QED
    BY <1>4, <2>1, <2>2
<1>6. \A p \in DOMAIN audit.primitives :
        \A r \in {DetectionRefs[i] : i \in DOMAIN DetectionRefs}
                   \cup {Ref("boundary", b) : b \in DOMAIN audit.boundaries} :
          Linked("primitive_evidence", Ref("primitive", p), r)
            <=> EvidenceOf(Ref("primitive", p)) \cap EvidenceOf(r) # {}
  <2> DEFINE way == "primitive_evidence"
  <2>1. /\ way \in EvidenceLinks /\ SourceKind(way) = "primitive"
        /\ SourcesOf(way) = audit.primitives
    BY DEF EvidenceLinks, SourceKind, SourcesOf
  <2>2. {DetectionRefs[i] : i \in DOMAIN DetectionRefs}
          \cup {Ref("boundary", b) : b \in DOMAIN audit.boundaries} = Elements(TargetsOf(way))
    BY <1>2, <2>1, TargetsFacts DEF Elements
  <2>3. QED
    BY <1>4, <2>1, <2>2
<1>7. QED
  BY <1>3, <1>5, <1>6 DEF EvidenceLinksAreExact

(* In the end boundaries and primitives are linked with the detections     *)
(* they share an evidence with and with no others, and each edge names an  *)
(* evidence both have.                                                     *)
THEOREM EvidenceIsLinkedExactly == Spec => []EvidenceLinksAreExact
BY GraphIsMadeInTurns, InvariantLinksExactly, PTL

LEMMA InvariantConfidence == IInv => ConfidenceFollowsTheClass
<1> SUFFICES ASSUME IInv, NEW i \in DOMAIN edges, edges[i].type \in EdgeTypes("resolved")
             PROVE  LET h == audit.entrypoints[edges[i].source.n].handler
                        text == TargetText(audit.targets[edges[i].target.n])
                    IN  /\ edges[i].confidence = "high" =>
                             h.class # <<>> /\ Occurs(<<Last(h.class)>>, text)
                        /\ h.class # <<>> /\ Occurs(h.class, text) =>
                             edges[i].confidence = "high"
  BY DEF ConfidenceFollowsTheClass
<1>1. audit \in Audits /\ EdgesAreMade
  BY DEF IInv, Control
<1>2. PICK x : RouteOf(x, edges[i])
  BY <1>1, TurnByType
<1>3. PICK t \in Candidates("resolved", x) : edges[i] = RouteEdge(x, t)
  BY <1>2 DEF RouteOf
<1>4. x \in EntrypointIds /\ t \in TargetIds
  BY <1>1, <1>2, <1>3, CandidatesAreFinite DEF RouteOf
<1>5. /\ edges[i].source = Ref("entrypoint", x) /\ edges[i].target = Ref("target", t)
      /\ edges[i].confidence = ResolvedConfidence(audit.entrypoints[x], audit.targets[t])
  BY <1>3 DEF RouteEdge, Correlation, Edge
<1>6. edges[i].source.n = x /\ edges[i].target.n = t
  BY <1>5
<1>7. IsEntrypoint(audit.entrypoints[x]) /\ IsTarget(audit.targets[t])
  BY <1>1, <1>4, AuditFacts
<1>8. LET class == audit.entrypoints[x].handler.class
          text == TargetText(audit.targets[t])
      IN  /\ ResolvedConfidence(audit.entrypoints[x], audit.targets[t]) = "high"
               => class # <<>> /\ Occurs(<<Last(class)>>, text)
          /\ class # <<>> /\ Occurs(class, text)
               => ResolvedConfidence(audit.entrypoints[x], audit.targets[t]) = "high"
  BY <1>7, ConfidenceOfRoutes
<1>9. QED
  BY <1>5, <1>6, <1>8

(* A route of high confidence always has the handler's class in its text,  *)
(* and a class named in full always gives one.                             *)
THEOREM ConfidenceNeedsTheClass == Spec => []ConfidenceFollowsTheClass
BY GraphIsMadeInTurns, InvariantConfidence, PTL

LEMMA InvariantIndexes == IInv => IndexFindsWhatScores
<1> SUFFICES ASSUME IInv, NEW x \in EntrypointIds, NEW t \in TargetIds
             PROVE  LET e == audit.entrypoints[x] target == audit.targets[t] IN
                    /\ Indexed(e, target) => Score(e, target) >= 40
                    /\ Score(e, target) >= 40 =>
                         \/ Indexed(e, target)
                         \/ /\ Occurs(e.handler.class, TargetText(target))
                            /\ \/ e.handler.class \notin TargetText(target)
                               \/ SimpleClassOf(e.handler) \subseteq Short \cup StopWords
  BY DEF IndexFindsWhatScores
<1>1. IsEntrypoint(audit.entrypoints[x]) /\ IsTarget(audit.targets[t])
  BY AuditFacts DEF IInv, Control
<1>2. QED
  BY <1>1, IndexAgainstThreshold

(* What the indexes find passes the threshold, for all words and scores,   *)
(* and what they miss is a class named in part or a common word.           *)
THEOREM IndexIsNoFilter == Spec => []IndexFindsWhatScores
BY GraphIsMadeInTurns, InvariantIndexes, PTL
--------------------------------------------------------------------------------
(* The ids by which the reports sort.                                      *)

(* The powers of ten are defined, and outgrow their exponents.             *)
IsPowers(f) == f = [d \in Nat |-> IF d = 0 THEN 1 ELSE 10 * f[d - 1]]

PowersUpTo(g, n) ==
  /\ g \in [0 .. n -> Nat] /\ g[0] = 1
  /\ \A k \in 1 .. n : g[k] = 10 * g[k - 1]

LEMMA PowersUpToExist == \A n \in Nat : \E g : PowersUpTo(g, n)
<1> DEFINE S == {n \in Nat : \E g : PowersUpTo(g, n)}
<1>1. 0 \in S
  <2>1. PowersUpTo([k \in 0 .. 0 |-> 1], 0)
    BY DEF PowersUpTo
  <2>2. QED
    BY <2>1
<1>2. ASSUME NEW n \in Nat, NEW g, PowersUpTo(g, n)
      PROVE  \E h : PowersUpTo(h, n + 1)
  <2> DEFINE h == [k \in 0 .. n + 1 |-> IF k = n + 1 THEN 10 * g[n] ELSE g[k]]
  <2>1. g \in [0 .. n -> Nat] /\ g[0] = 1 /\ \A k \in 1 .. n : g[k] = 10 * g[k - 1]
    BY <1>2 DEF PowersUpTo
  <2>2. \A k \in 0 .. n + 1 : k # n + 1 => k \in 0 .. n
    OBVIOUS
  <2>3. h \in [0 .. n + 1 -> Nat]
    BY <2>1, <2>2
  <2>4. h[0] = 1
    BY <2>1
  <2>5. ASSUME NEW k \in 1 .. n + 1
        PROVE  h[k] = 10 * h[k - 1]
    <3>1. h[k - 1] = g[k - 1] /\ k \in 0 .. n + 1
      OBVIOUS
    <3>2. CASE k = n + 1
      <4>1. h[k] = 10 * g[n] /\ k - 1 = n
        BY <3>2
      <4>2. QED
        BY <3>1, <4>1
    <3>3. CASE k # n + 1
      <4>1. h[k] = g[k] /\ k \in 1 .. n
        BY <3>3
      <4>2. QED
        BY <2>1, <3>1, <4>1
    <3>4. QED
      BY <3>2, <3>3
  <2> HIDE DEF h
  <2>6. QED
    BY <2>3, <2>4, <2>5 DEF PowersUpTo
<1>3. \A n \in Nat : n \in S => n + 1 \in S
  BY <1>2
<1> HIDE DEF S
<1>4. Nat \subseteq S
  BY <1>1, <1>3, Induction
<1>5. QED
  BY <1>4 DEF S

LEMMA PowersUpToAgree ==
  ASSUME NEW m \in Nat, NEW n \in Nat, NEW g, PowersUpTo(g, m), NEW h, PowersUpTo(h, n)
  PROVE  \A k \in Nat : k <= m /\ k <= n => g[k] = h[k]
<1> DEFINE S == {k \in Nat : k <= m /\ k <= n => g[k] = h[k]}
<1>1. /\ g[0] = 1 /\ \A k \in 1 .. m : g[k] = 10 * g[k - 1]
      /\ h[0] = 1 /\ \A k \in 1 .. n : h[k] = 10 * h[k - 1]
  BY DEF PowersUpTo
<1>2. 0 \in S
  BY <1>1
<1>3. \A k \in Nat : k \in S => k + 1 \in S
  <2> SUFFICES ASSUME NEW k \in Nat, k \in S, k + 1 <= m, k + 1 <= n
               PROVE  g[k + 1] = h[k + 1]
    OBVIOUS
  <2>1. g[k] = h[k] /\ k + 1 \in 1 .. m /\ k + 1 \in 1 .. n /\ (k + 1) - 1 = k
    OBVIOUS
  <2>2. g[k + 1] = 10 * g[k] /\ h[k + 1] = 10 * h[k]
    BY <1>1, <2>1
  <2>3. QED
    BY <2>1, <2>2
<1> HIDE DEF S
<1>4. Nat \subseteq S
  BY <1>2, <1>3, Induction
<1>5. QED
  BY <1>4 DEF S

LEMMA TenToIsDefined == IsPowers(TenTo)
<1> DEFINE g(n) == CHOOSE g : PowersUpTo(g, n)
           f == [n \in Nat |-> g(n)[n]]
<1>1. \A n \in Nat : PowersUpTo(g(n), n)
  BY PowersUpToExist
<1> HIDE DEF g
<1>2. \A n \in Nat : n # 0 => g(n)[n - 1] = g(n - 1)[n - 1]
  <2> SUFFICES ASSUME NEW n \in Nat, n # 0
               PROVE  g(n)[n - 1] = g(n - 1)[n - 1]
    OBVIOUS
  <2>1. n - 1 \in Nat /\ n - 1 <= n /\ n - 1 <= n - 1
    OBVIOUS
  <2>2. PowersUpTo(g(n), n) /\ PowersUpTo(g(n - 1), n - 1)
    BY <1>1, <2>1
  <2>3. QED
    BY <2>1, <2>2, PowersUpToAgree
<1>3. \A n \in Nat : f[n] = IF n = 0 THEN 1 ELSE 10 * f[n - 1]
  <2> SUFFICES ASSUME NEW n \in Nat
               PROVE  f[n] = IF n = 0 THEN 1 ELSE 10 * f[n - 1]
    OBVIOUS
  <2>1. CASE n = 0
    <3>1. g(0)[0] = 1
      BY <1>1 DEF PowersUpTo
    <3>2. QED
      BY <2>1, <3>1
  <2>2. CASE n # 0
    <3>1. n \in 1 .. n /\ n - 1 \in Nat
      BY <2>2
    <3>2. g(n)[n] = 10 * g(n)[n - 1]
      BY <1>1, <3>1 DEF PowersUpTo
    <3>3. QED
      BY <1>2, <2>2, <3>1, <3>2
  <2>3. QED
    BY <2>1, <2>2
<1>4. f = [n \in Nat |-> f[n]]
  OBVIOUS
<1> HIDE DEF f
<1>5. IsPowers(f)
  BY <1>3, <1>4 DEF IsPowers
<1>6. QED
  BY <1>5, Zenon DEF TenTo, IsPowers

LEMMA TenToGrows ==
  /\ TenTo[0] = 1
  /\ \A n \in Nat : TenTo[n] \in Nat /\ n < TenTo[n]
<1> DEFINE f == TenTo
<1>1. \A n \in Nat : f[n] = IF n = 0 THEN 1 ELSE 10 * f[n - 1]
  BY TenToIsDefined DEF IsPowers
<1> HIDE DEF f
<1> DEFINE S == {n \in Nat : f[n] \in Nat /\ n < f[n]}
<1>2. f[0] = 1
  BY <1>1
<1>3. 0 \in S
  BY <1>2
<1>4. \A n \in Nat : n \in S => n + 1 \in S
  <2> SUFFICES ASSUME NEW n \in Nat, n \in S
               PROVE  f[n + 1] \in Nat /\ n + 1 < f[n + 1]
    OBVIOUS
  <2>1. f[n + 1] = 10 * f[n]
    <3>1. n + 1 \in Nat /\ n + 1 # 0 /\ (n + 1) - 1 = n
      OBVIOUS
    <3>2. QED
      BY <1>1, <3>1
  <2>2. f[n] \in Nat /\ n < f[n]
    OBVIOUS
  <2>3. \A x, y \in Nat : x < y => 10 * y \in Nat /\ x + 1 < 10 * y
    OBVIOUS
  <2>4. QED
    BY <2>1, <2>2, <2>3
<1> HIDE DEF S
<1>5. Nat \subseteq S
  BY <1>3, <1>4, Induction
<1>6. QED
  BY <1>2, <1>5 DEF S, f

(* Every number has as many digits as its id.                              *)
LEMMA DigitsAreCounted ==
  ASSUME NEW n \in Nat \ {0}
  PROVE  Digits(n) \in Nat
<1> DEFINE P(d) == TenTo[d - 1] <= n /\ n < TenTo[d]
           S == {k \in Nat : n < TenTo[k]}
<1>1. n \in S
  BY TenToGrows
<1>2. PICK d \in S : \A k \in S : d <= k
  <2>1. S \subseteq Nat /\ S # {}
    BY <1>1
  <2> HIDE DEF S
  <2>2. QED
    BY <2>1, LeastElement
<1>3. d \in Nat /\ d <= n /\ n < TenTo[d]
  BY <1>1, <1>2
<1>4. d # 0
  BY <1>3, TenToGrows
<1>5. d \in 1 .. n /\ P(d)
  <2>1. d - 1 \in Nat /\ ~(d <= d - 1)
    BY <1>3, <1>4
  <2>2. d - 1 \notin S
    BY <1>2, <2>1
  <2>3. TenTo[d - 1] \in Nat /\ ~(n < TenTo[d - 1])
    BY <2>1, <2>2, TenToGrows
  <2>4. QED
    BY <1>3, <1>4, <2>3
<1> HIDE DEF P
<1>6. (CHOOSE e \in 1 .. n : P(e)) \in 1 .. n
  BY <1>5
<1>7. QED
  BY <1>6, EvidenceAssumption DEF Digits, P
(* Fractions with positive denominators are ordered.                       *)
LEMMA TimesIsNatural == \A a, b \in Nat : a * b \in Nat
OBVIOUS

LEMMA TimesKeepsOrder ==
  ASSUME NEW a \in Nat, NEW b \in Nat, NEW c \in Nat, c > 0
  PROVE  /\ a <= b <=> a * c <= b * c
         /\ a = b <=> a * c = b * c
OBVIOUS

LEMMA TimesCommute == \A a, b, c \in Nat : (a * b) * c = (a * c) * b
OBVIOUS

LEMMA FractionsAreOrdered ==
  ASSUME NEW m \in Nat, NEW n \in Nat, NEW k \in Nat,
         NEW a \in Nat, NEW b \in Nat, NEW c \in Nat, a > 0, b > 0, c > 0,
         m * b <= n * a, n * c <= k * b
  PROVE  /\ m * c <= k * a
         /\ m * c = k * a => m * b = n * a /\ n * c = k * b
<1> DEFINE mb == m * b
           na == n * a
           nc == n * c
           kb == k * b
           mc == m * c
           ka == k * a
<1>1. mb \in Nat /\ na \in Nat /\ nc \in Nat /\ kb \in Nat /\ mc \in Nat /\ ka \in Nat
  BY TimesIsNatural
<1>2. mb * c = mc * b /\ na * c = nc * a /\ kb * a = ka * b
  BY TimesCommute
<1>3. mb <= na /\ nc <= kb
  OBVIOUS
<1> HIDE DEF mb, na, nc, kb, mc, ka
<1>4. mb * c <= na * c /\ (mb = na <=> mb * c = na * c)
  BY <1>1, <1>3, TimesKeepsOrder
<1>5. nc * a <= kb * a /\ (nc = kb <=> nc * a = kb * a)
  BY <1>1, <1>3, TimesKeepsOrder
<1>6. (mc <= ka <=> mc * b <= ka * b) /\ (mc = ka <=> mc * b = ka * b)
  BY <1>1, TimesKeepsOrder
<1> DEFINE x == mb * c
           y == na * c
           z == kb * a
<1>7. x \in Nat /\ y \in Nat /\ z \in Nat
  BY <1>1, TimesIsNatural
<1>8. /\ x <= y /\ y <= z
      /\ mb = na <=> x = y
      /\ nc = kb <=> y = z
      /\ mc <= ka <=> x <= z
      /\ mc = ka <=> x = z
  BY <1>2, <1>4, <1>5, <1>6
<1> HIDE DEF x, y, z
<1>9. mc <= ka /\ (mc = ka => mb = na /\ nc = kb)
  BY <1>7, <1>8
<1>10. QED
  BY <1>9 DEF mb, na, nc, kb, mc, ka

(* Ids as texts are in a strict total order.                               *)
Ids == Nat \ {0}

LEMMA IdsAreOrdered ==
  /\ \A m, n \in Ids : m = n \/ IdBefore(m, n) \/ IdBefore(n, m)
  /\ \A m \in Ids : ~IdBefore(m, m)
  /\ \A m, n, k \in Ids : IdBefore(m, n) /\ IdBefore(n, k) => IdBefore(m, k)
<1> DEFINE p(n) == TenTo[Digits(n)]
<1>1. \A n \in Ids : p(n) \in Nat /\ p(n) > 0 /\ n \in Nat
  <2> SUFFICES ASSUME NEW n \in Ids
               PROVE  p(n) \in Nat /\ p(n) > 0 /\ n \in Nat
    OBVIOUS
  <2>1. Digits(n) \in Nat
    BY DigitsAreCounted DEF Ids
  <2>2. p(n) \in Nat /\ Digits(n) < p(n)
    BY <2>1, TenToGrows
  <2>3. QED
    BY <2>1, <2>2 DEF Ids
<1>2. \A m, n \in Ids : IdBefore(m, n) <=>
        m * p(n) < n * p(m) \/ (m * p(n) = n * p(m) /\ m < n)
  BY DEF IdBefore
<1> HIDE DEF p
<1>3. \A m, n \in Ids : m * p(n) \in Nat
  BY <1>1, TimesIsNatural
<1>4. ASSUME NEW m \in Ids, NEW n \in Ids
      PROVE  m = n \/ IdBefore(m, n) \/ IdBefore(n, m)
  <2>1. m * p(n) \in Nat /\ n * p(m) \in Nat /\ m \in Nat /\ n \in Nat
    BY <1>1, <1>3
  <2> DEFINE x == m * p(n)
             y == n * p(m)
  <2>2. (IdBefore(m, n) <=> x < y \/ (x = y /\ m < n)) /\ (IdBefore(n, m) <=> y < x \/ (y = x /\ n < m))
    BY <1>2
  <2> HIDE DEF x, y
  <2>3. QED
    BY <2>1, <2>2 DEF x, y
<1>5. ASSUME NEW m \in Ids
      PROVE  ~IdBefore(m, m)
  <2>1. m * p(m) \in Nat /\ m \in Nat
    BY <1>1, <1>3
  <2>2. QED
    BY <1>2, <2>1
<1>6. ASSUME NEW m \in Ids, NEW n \in Ids, NEW k \in Ids, IdBefore(m, n), IdBefore(n, k)
      PROVE  IdBefore(m, k)
  <2>1. /\ m \in Nat /\ n \in Nat /\ k \in Nat
        /\ p(m) \in Nat /\ p(n) \in Nat /\ p(k) \in Nat /\ p(m) > 0 /\ p(n) > 0 /\ p(k) > 0
    BY <1>1
  <2> DEFINE mn == m * p(n)
             nm == n * p(m)
             nk == n * p(k)
             kn == k * p(n)
             mk == m * p(k)
             km == k * p(m)
  <2>2. mn \in Nat /\ nm \in Nat /\ nk \in Nat /\ kn \in Nat /\ mk \in Nat /\ km \in Nat
    BY <1>3
  <2>3. /\ mn < nm \/ (mn = nm /\ m < n)
        /\ nk < kn \/ (nk = kn /\ n < k)
        /\ mk < km \/ (mk = km /\ m < k) => IdBefore(m, k)
    BY <1>2, <1>6
  <2>4. mn <= nm /\ nk <= kn => mk <= km /\ (mk = km => mn = nm /\ nk = kn)
    BY <2>1, FractionsAreOrdered
  <2> HIDE DEF mn, nm, nk, kn, mk, km
  <2>5. QED
    BY <2>1, <2>2, <2>3, <2>4
<1>7. QED
  BY <1>4, <1>5, <1>6

(* Ids with as many digits are in the order of their numbers.              *)
LEMMA SameDigitsOrder ==
  ASSUME NEW m \in Ids, NEW n \in Ids, IdBefore(m, n), Digits(m) = Digits(n)
  PROVE  m < n
<1> DEFINE p == TenTo[Digits(n)]
<1>1. p \in Nat /\ p > 0
  <2>1. Digits(n) \in Nat
    BY DigitsAreCounted DEF Ids
  <2>2. QED
    BY <2>1, TenToGrows
<1>2. m * p < n * p \/ (m * p = n * p /\ m < n)
  BY DEF IdBefore
<1>3. m \in Nat /\ n \in Nat
  BY DEF Ids
<1> HIDE DEF p
<1>4. m * p \in Nat /\ n * p \in Nat
  BY <1>1, <1>3, TimesIsNatural
<1>5. n <= m <=> n * p <= m * p
  BY <1>1, <1>3, TimesKeepsOrder
<1> DEFINE x == m * p
           y == n * p
<1> HIDE DEF x, y
<1>6. QED
  BY <1>2, <1>3, <1>4, <1>5 DEF x, y
--------------------------------------------------------------------------------
(* From the graph to the reports.                                          *)

(* What the artefacts are once there is a result, and in which order they  *)
(* are written.                                                            *)
Rendered(name) ==
  CASE name = "sarif" -> Sarif(result)
    [] name = "brief" -> Brief(result)
    [] name = "viewer" -> Viewer(result)
    [] name = "queue" -> ReviewQueue(result)
    [] name = "reasoning" -> ReasoningItems(result)

Stages ==
  {{}, {"sarif"}, {"sarif", "brief"}, {"sarif", "brief", "viewer"},
   {"sarif", "brief", "viewer", "queue"},
   {"sarif", "brief", "viewer", "queue", "reasoning"}}

IsAssembled == \E mode \in Modes : result = Assembled(FocusSummary(audit, mode))

AreRendered ==
  /\ DOMAIN artifacts \in Stages
  /\ \A name \in DOMAIN artifacts : artifacts[name] = Rendered(name)

ReportInv ==
  \/ result = NoResult /\ artifacts = <<>>
  \/ result # NoResult /\ phase = "done" /\ IsAssembled /\ AreRendered

PipelineInv == IInv /\ ReportInv

(* With the graph done, nothing about it changes any more.                 *)
LEMMA DoneIsDone == phase = "done" => ~Next
BY DEF Next, NextLoop, AddNode, AddFlow, AddResolved, Correlate, LinkEvidence, NextSource,
       LowSignal, EvidenceLinks

(* A step of the pipeline is a step of the graph or leaves it alone.       *)
LEMMA PipelineRefines == [PipelineNext]_allVars => [Next]_vars
BY DEF PipelineNext, allVars, BuildGraph, AssembleResult, RenderSarif, RenderBrief,
       RenderViewer, RenderQueue, Reason, Write

(* A write adds its report to those of the stage before.                   *)
LEMMA WriteStep ==
  ASSUME ReportInv, NEW name, NEW before, NEW content,
         Write(name, before, content), name \notin before,
         before \cup {name} \in Stages, content = Rendered(name)
  PROVE  ReportInv'
<1>1. /\ result # NoResult /\ DOMAIN artifacts = before
      /\ artifacts' = [a \in before \cup {name} |-> IF a = name THEN content ELSE artifacts[a]]
      /\ UNCHANGED <<vars, result>>
  BY DEF Write
<1>2. phase = "done" /\ IsAssembled /\ AreRendered
  BY <1>1 DEF ReportInv
<1>3. result' # NoResult /\ phase' = "done" /\ IsAssembled'
  BY <1>1, <1>2 DEF IsAssembled, Assembled, vars
<1>4. \A a : Rendered(a)' = Rendered(a)
  BY <1>1, Zenon DEF Rendered
<1>5. DOMAIN artifacts' = before \cup {name}
  BY <1>1
<1>6. ASSUME NEW a \in DOMAIN artifacts'
      PROVE  artifacts'[a] = Rendered(a)'
  <2>1. artifacts'[a] = IF a = name THEN content ELSE artifacts[a]
    BY <1>1, <1>5
  <2>2. a # name => a \in DOMAIN artifacts
    BY <1>1, <1>5
  <2>3. a # name => artifacts[a] = Rendered(a)
    BY <1>2, <2>2 DEF AreRendered
  <2>4. QED
    BY <1>4, <2>1, <2>3
<1>7. AreRendered'
  BY <1>5, <1>6 DEF AreRendered, Stages
<1>8. QED
  BY <1>3, <1>7 DEF ReportInv

LEMMA ReportStep ==
  ASSUME ReportInv, [PipelineNext]_allVars
  PROVE  ReportInv'
<1>1. CASE BuildGraph
  <2>1. Next /\ UNCHANGED reportVars
    BY <1>1 DEF BuildGraph
  <2>2. result = NoResult /\ artifacts = <<>>
    BY <2>1, DoneIsDone DEF ReportInv
  <2>3. QED
    BY <2>1, <2>2 DEF ReportInv, reportVars
<1>2. CASE AssembleResult
  <2>1. PICK mode \in Modes :
          /\ phase = "done" /\ result = NoResult
          /\ result' = Assembled(FocusSummary(audit, mode))
          /\ UNCHANGED <<vars, artifacts>>
    BY <1>2 DEF AssembleResult
  <2>2. artifacts' = <<>> /\ phase' = "done" /\ audit' = audit /\ edges' = edges
    BY <2>1 DEF ReportInv, vars
  <2>3. result' # NoResult
    <3>1. DOMAIN Assembled(FocusSummary(audit, mode)) # DOMAIN NoResult
      BY DEF Assembled, NoResult
    <3>2. QED
      BY <2>1, <3>1
  <2>4. Assembled(FocusSummary(audit, mode))' = Assembled(FocusSummary(audit, mode))
    BY <2>2 DEF Assembled
  <2>5. IsAssembled'
    BY <2>1, <2>2, <2>4, Zenon DEF IsAssembled, Assembled
  <2>6. DOMAIN artifacts' = {}
    BY <2>2
  <2>7. AreRendered'
    BY <2>6 DEF AreRendered, Stages
  <2>8. QED
    BY <2>2, <2>3, <2>5, <2>7 DEF ReportInv
<1>3. CASE RenderSarif
  <2>1. {} \cup {"sarif"} \in Stages
    BY DEF Stages
  <2>2. QED
    BY <1>3, <2>1, WriteStep DEF RenderSarif, Rendered
<1>4. CASE RenderBrief
  <2>1. {"sarif"} \cup {"brief"} \in Stages
    BY DEF Stages
  <2>2. QED
    BY <1>4, <2>1, WriteStep DEF RenderBrief, Rendered
<1>5. CASE RenderViewer
  <2>1. {"sarif", "brief"} \cup {"viewer"} \in Stages
    BY DEF Stages
  <2>2. QED
    BY <1>5, <2>1, WriteStep DEF RenderViewer, Rendered
<1>6. CASE RenderQueue
  <2>1. {"sarif", "brief", "viewer"} \cup {"queue"} \in Stages
    BY DEF Stages
  <2>2. QED
    BY <1>6, <2>1, WriteStep DEF RenderQueue, Rendered
<1>7. CASE Reason
  <2>1. {"sarif", "brief", "viewer", "queue"} \cup {"reasoning"} \in Stages
    BY DEF Stages
  <2>2. QED
    BY <1>7, <2>1, WriteStep DEF Reason, Rendered
<1>8. CASE UNCHANGED allVars
  <2>1. /\ result' = result /\ artifacts' = artifacts /\ phase' = phase
        /\ audit' = audit /\ edges' = edges
    BY <1>8 DEF allVars, vars, reportVars
  <2>2. IsAssembled' <=> IsAssembled
    BY <2>1 DEF IsAssembled, Assembled
  <2>3. AreRendered' <=> AreRendered
    BY <2>1 DEF AreRendered, Rendered
  <2>4. QED
    BY <2>1, <2>2, <2>3 DEF ReportInv
<1>9. QED
  BY <1>1, <1>2, <1>3, <1>4, <1>5, <1>6, <1>7, <1>8 DEF PipelineNext

(* The graph is finished before the result is put together, and each       *)
(* report is the rendering of that one result.                             *)
THEOREM ReportsAreOfOneResult == PipelineSpec => []PipelineInv
<1>1. PipelineInit => PipelineInv
  BY InitialInvariant DEF PipelineInit, PipelineInv, ReportInv
<1>2. PipelineInv /\ [PipelineNext]_allVars => PipelineInv'
  BY PipelineRefines, InvariantStep, ReportStep DEF PipelineInv
<1>3. QED
  BY <1>1, <1>2, PTL DEF PipelineSpec

(* Putting the result together, rendering it and reasoning about it leave  *)
(* the graph alone: whatever holds of its construction holds of the whole  *)
(* pipeline.                                                               *)
THEOREM PipelineBuildsTheGraph == PipelineSpec => Spec
<1>1. PipelineInit => Init
  BY DEF PipelineInit
<1>2. [PipelineNext]_allVars => [Next]_vars
  BY PipelineRefines
<1>3. QED
  BY <1>1, <1>2, PTL DEF PipelineSpec, Spec
--------------------------------------------------------------------------------
(* What a result is made of.                                               *)

HasEvidence(list) ==
  IsList(list) /\ \A i \in DOMAIN list : list[i].evidence \in Seq(Nat)

(* The evidence of a list, all of it. *)
EvidenceIn(list) == UNION {Elements(list[i].evidence) : i \in DOMAIN list}

IsResult(r) ==
  /\ HasEvidence(r.entrypoints) /\ HasEvidence(r.targets) /\ HasEvidence(r.flows)
  /\ HasEvidence(r.boundaries) /\ HasEvidence(r.primitives) /\ HasEvidence(r.edges)
  /\ IsReportable(r)
  /\ \A i \in DOMAIN r.flows : IsList(r.flows[i].missing)
  /\ \A i \in DOMAIN r.edges :
       /\ r.edges[i].type \in Elements(Priorities)
       /\ IsList(r.edges[i].missing)
       /\ r.edges[i].type = "defined_in" => r.edges[i].missing = <<>>
  /\ EvidenceIn(r.edges) \subseteq
       EvidenceIn(r.entrypoints) \cup EvidenceIn(r.targets) \cup EvidenceIn(r.flows)
         \cup EvidenceIn(r.boundaries) \cup EvidenceIn(r.primitives)
  /\ \E mode \in Modes : r.focus = FocusSummary(r, mode)

(* An edge repeats evidence of the audit, and only those to a file miss    *)
(* nothing.                                                                *)
AuditEvidence ==
  EvidenceIn(audit.entrypoints) \cup EvidenceIn(audit.targets) \cup EvidenceIn(audit.flows)
    \cup EvidenceIn(audit.boundaries) \cup EvidenceIn(audit.primitives)

LEMMA DistinctAddsNothing ==
  ASSUME NEW s, IsList(s)
  PROVE  Elements(Distinct(s)) \subseteq Elements(s)
<1>1. FirstOccurrences(s) \in SUBSET DOMAIN s
  BY DEF FirstOccurrences
<1>2. \A i \in DOMAIN Distinct(s) : \E k \in FirstOccurrences(s) : Distinct(s)[i] = s[k]
  BY <1>1, PickIsList DEF Distinct
<1>3. QED
  BY <1>1, <1>2 DEF Elements

LEMMA DetectionEvidence ==
  ASSUME audit \in Audits
  PROVE  /\ \A x \in EntrypointIds :
              Elements(audit.entrypoints[x].evidence) \subseteq AuditEvidence
         /\ \A t \in TargetIds : Elements(audit.targets[t].evidence) \subseteq AuditEvidence
         /\ \A r \in Elements(DetectionRefs) : Elements(Record(r).evidence) \subseteq AuditEvidence
         /\ \A i \in DOMAIN audit.flows : Elements(audit.flows[i].evidence) \subseteq AuditEvidence
         /\ \A way \in EvidenceLinks : \A n \in DOMAIN SourcesOf(way) :
              Elements(SourcesOf(way)[n].evidence) \subseteq AuditEvidence
<1>1. /\ \A x \in EntrypointIds : Elements(audit.entrypoints[x].evidence) \subseteq AuditEvidence
      /\ \A t \in TargetIds : Elements(audit.targets[t].evidence) \subseteq AuditEvidence
  BY DEF AuditEvidence, EvidenceIn, EntrypointIds, TargetIds
<1>2. /\ \A i \in DOMAIN audit.flows : Elements(audit.flows[i].evidence) \subseteq AuditEvidence
      /\ \A i \in DOMAIN audit.boundaries :
           Elements(audit.boundaries[i].evidence) \subseteq AuditEvidence
      /\ \A i \in DOMAIN audit.primitives :
           Elements(audit.primitives[i].evidence) \subseteq AuditEvidence
  BY DEF AuditEvidence, EvidenceIn
<1>3. \A r \in Elements(DetectionRefs) :
        \/ \E x \in EntrypointIds : r = Ref("entrypoint", x)
        \/ \E t \in TargetIds : r = Ref("target", t)
  BY DetectionRefsFacts
<1>4. /\ \A n : Record(Ref("entrypoint", n)) = audit.entrypoints[n]
      /\ \A n : Record(Ref("target", n)) = audit.targets[n]
  BY DEF Record
<1>5. \A r \in Elements(DetectionRefs) : Elements(Record(r).evidence) \subseteq AuditEvidence
  BY <1>1, <1>3, <1>4
<1>6. \A way \in EvidenceLinks : \A n \in DOMAIN SourcesOf(way) :
        Elements(SourcesOf(way)[n].evidence) \subseteq AuditEvidence
  BY <1>2 DEF EvidenceLinks, SourcesOf
<1>7. QED
  BY <1>1, <1>2, <1>5, <1>6

LEMMA EdgesRepeatEvidence ==
  ASSUME audit \in Audits, NEW p, NEW n, NEW e, MadeBy(p, n, e)
  PROVE  /\ Elements(e.evidence) \subseteq AuditEvidence
         /\ e.type = "defined_in" => e.missing = <<>>
<1>1. CASE p = "nodes" /\ DefinitionOf(n, e)
  <2>1. e.evidence = Record(NodeRefs[n]).evidence /\ e.missing = <<>>
    BY <1>1 DEF DefinitionOf, Edge
  <2>2. NodeRefs[n] \in Elements(DetectionRefs)
    BY <1>1, NodeRefsFacts DEF DefinitionOf
  <2>3. QED
    BY <2>1, <2>2, DetectionEvidence
<1>2. CASE p = "flows" /\ FlowEdgeOf(n, e)
  <2>1. n \in DOMAIN audit.flows /\ e.evidence = audit.flows[n].evidence
    BY <1>2 DEF FlowEdgeOf, Edge
  <2>2. e.type # "defined_in"
    BY <1>2 DEF FlowEdgeOf, Edge
  <2>3. QED
    BY <2>1, <2>2, DetectionEvidence
<1>3. ASSUME NEW x \in EntrypointIds, NEW t \in TargetIds, NEW way, NEW type, NEW confidence,
             e = Correlation(way, type, x, t, confidence), type # "defined_in"
      PROVE  /\ Elements(e.evidence) \subseteq AuditEvidence
             /\ e.type = "defined_in" => e.missing = <<>>
  <2> DEFINE a == audit.entrypoints[x].evidence
             b == audit.targets[t].evidence
  <2>1. e.evidence = Distinct(a \o b) /\ e.type # "defined_in"
    BY <1>3 DEF Correlation, Edge
  <2>2. IsList(a) /\ IsList(b)
    <3>1. a \in Seq(Nat) /\ b \in Seq(Nat)
      BY AuditFacts DEF EntrypointIds, TargetIds
    <3>2. QED
      BY <3>1, SequenceIsList
  <2>3. Elements(a) \subseteq AuditEvidence /\ Elements(b) \subseteq AuditEvidence
    BY DetectionEvidence
  <2> HIDE DEF a, b
  <2>4. IsList(a \o b) /\ Elements(a \o b) = Elements(a) \cup Elements(b)
    BY <2>2, ListConcat, ElementsOfConcat
  <2>5. Elements(Distinct(a \o b)) \subseteq Elements(a \o b)
    BY <2>4, DistinctAddsNothing
  <2>6. QED
    BY <2>1, <2>3, <2>4, <2>5
<1>4. CASE p = "resolved" /\ RouteOf(n, e)
  <2>1. PICK t \in Candidates("resolved", n) : e = RouteEdge(n, t)
    BY <1>4 DEF RouteOf
  <2>2. n \in EntrypointIds /\ t \in TargetIds
    BY <1>4, <2>1, CandidatesAreFinite DEF RouteOf
  <2>3. RouteType(t) # "defined_in"
    BY DEF RouteType
  <2>4. QED
    BY <1>3, <2>1, <2>2, <2>3 DEF RouteEdge
<1>5. CASE p \in LowSignal /\ CorrelationOf(p, n, e)
  <2>1. PICK t \in Candidates(p, n) : e = Correlation(p, p, n, t, "medium")
    BY <1>5 DEF CorrelationOf
  <2>2. n \in EntrypointIds /\ t \in TargetIds
    BY <1>5, <2>1, CandidatesAreFinite DEF CorrelationOf
  <2>3. p # "defined_in"
    BY <1>5 DEF LowSignal
  <2>4. QED
    BY <1>3, <2>1, <2>2, <2>3
<1>6. CASE p \in EvidenceLinks /\ EvidenceLinkOf(p, n, e)
  <2>1. PICK j \in DOMAIN SourcesOf(p)[n].evidence, k \in DOMAIN TargetsOf(p) :
          e = Edge(p, Ref(SourceKind(p), n), TargetsOf(p)[k], "high",
                   <<SourcesOf(p)[n].evidence[j]>>, <<>>)
    BY <1>6 DEF EvidenceLinkOf
  <2>2. e.evidence = <<SourcesOf(p)[n].evidence[j]>> /\ e.missing = <<>>
    BY <2>1 DEF Edge
  <2>3. Elements(e.evidence) = {SourcesOf(p)[n].evidence[j]}
    BY <2>2 DEF Elements
  <2>4. SourcesOf(p)[n].evidence[j] \in Elements(SourcesOf(p)[n].evidence)
    BY DEF Elements
  <2>5. n \in DOMAIN SourcesOf(p)
    BY <1>6 DEF EvidenceLinkOf
  <2>6. QED
    BY <1>6, <2>2, <2>3, <2>4, <2>5, DetectionEvidence
<1>7. QED
  BY <1>1, <1>2, <1>4, <1>5, <1>6 DEF MadeBy

LEMMA ResultIsSound ==
  ASSUME PipelineInv, result # NoResult
  PROVE  IsResult(result) /\ AreRendered
<1>1. IInv /\ IsAssembled /\ AreRendered
  BY DEF PipelineInv, ReportInv
<1>2. audit \in Audits /\ IsList(edges) /\ EdgesAreMade
  BY <1>1 DEF IInv, Control
<1>3. PICK mode \in Modes : result = Assembled(FocusSummary(audit, mode))
  BY <1>1 DEF IsAssembled
<1>4. /\ result.entrypoints = audit.entrypoints /\ result.targets = audit.targets
      /\ result.flows = audit.flows /\ result.boundaries = audit.boundaries
      /\ result.primitives = audit.primitives /\ result.edges = edges
      /\ result.focus = FocusSummary(audit, mode)
  BY <1>3 DEF Assembled
<1>5. /\ HasEvidence(audit.entrypoints) /\ HasEvidence(audit.targets) /\ HasEvidence(audit.flows)
      /\ HasEvidence(audit.boundaries) /\ HasEvidence(audit.primitives)
  BY <1>2, AuditFacts DEF HasEvidence
<1>6. IsReportable(result)
  BY <1>2, <1>4, ReportableAssumption DEF IsReportable
<1>7. ASSUME NEW i \in DOMAIN edges
      PROVE  /\ edges[i].evidence \in Seq(Nat) /\ edges[i].type \in Elements(Priorities)
             /\ IsList(edges[i].missing)
             /\ edges[i].type = "defined_in" => edges[i].missing = <<>>
             /\ Elements(edges[i].evidence) \subseteq AuditEvidence
  <2>1. PICK p, n : MadeBy(p, n, edges[i])
    BY <1>2 DEF EdgesAreMade, IsMade
  <2>2. edges[i] \in EdgeType
    BY <1>2, <2>1, EdgesAreTyped
  <2>3. edges[i].evidence \in Seq(Nat) /\ IsList(edges[i].missing)
    BY <2>2, SequenceIsList DEF EdgeType
  <2>4. edges[i].type \in Elements(Priorities)
    <3>1. edges[i].type \in {"defined_in", "static_flow_source", "static_flow_target",
                             "route_to_worker_candidate", "route_to_consumer_candidate",
                             "same_file_correlation", "handler_name_correlation",
                             "boundary_evidence", "primitive_evidence"}
      BY <2>2 DEF EdgeType, LowSignal, EvidenceLinks
    <3>2. /\ 1 \in DOMAIN Priorities /\ 2 \in DOMAIN Priorities /\ 3 \in DOMAIN Priorities
          /\ 4 \in DOMAIN Priorities /\ 5 \in DOMAIN Priorities /\ 6 \in DOMAIN Priorities
          /\ 7 \in DOMAIN Priorities /\ 8 \in DOMAIN Priorities /\ 9 \in DOMAIN Priorities
      BY DEF Priorities
    <3>3. /\ Priorities[1] = "static_flow_source" /\ Priorities[2] = "static_flow_target"
          /\ Priorities[3] = "route_to_worker_candidate"
          /\ Priorities[4] = "route_to_consumer_candidate"
          /\ Priorities[5] = "handler_name_correlation"
          /\ Priorities[6] = "same_file_correlation"
          /\ Priorities[7] = "boundary_evidence" /\ Priorities[8] = "primitive_evidence"
          /\ Priorities[9] = "defined_in"
      BY DEF Priorities
    <3>4. \A k \in DOMAIN Priorities : Priorities[k] \in Elements(Priorities)
      BY DEF Elements
    <3>5. QED
      BY <3>1, <3>2, <3>3, <3>4
  <2>5. QED
    BY <1>2, <2>1, <2>3, <2>4, EdgesRepeatEvidence
<1>8. HasEvidence(edges) /\ EvidenceIn(edges) \subseteq AuditEvidence
  BY <1>2, <1>7 DEF HasEvidence, EvidenceIn
<1>9. FocusSummary(audit, mode) = FocusSummary(result, mode)
  BY <1>4 DEF FocusSummary
<1>10. ASSUME NEW i \in DOMAIN audit.flows
       PROVE  IsList(audit.flows[i].missing)
  <2>1. audit.flows[i].missing \in Seq(Texts)
    BY <1>2, AuditAssumption DEF IsAudit
  <2>2. QED
    BY <2>1, SequenceIsList
<1>11. /\ HasEvidence(result.entrypoints) /\ HasEvidence(result.targets)
       /\ HasEvidence(result.flows) /\ HasEvidence(result.boundaries)
       /\ HasEvidence(result.primitives) /\ HasEvidence(result.edges)
  BY <1>4, <1>5, <1>8
<1>12. EvidenceIn(result.edges) \subseteq
         EvidenceIn(result.entrypoints) \cup EvidenceIn(result.targets)
           \cup EvidenceIn(result.flows)
           \cup EvidenceIn(result.boundaries) \cup EvidenceIn(result.primitives)
  BY <1>4, <1>8 DEF AuditEvidence
<1>13. \A i \in DOMAIN result.edges :
         /\ result.edges[i].type \in Elements(Priorities)
         /\ IsList(result.edges[i].missing)
         /\ result.edges[i].type = "defined_in" => result.edges[i].missing = <<>>
  BY <1>4, <1>7
<1>14. \A i \in DOMAIN result.flows : IsList(result.flows[i].missing)
  BY <1>4, <1>10
<1>15. \E m \in Modes : result.focus = FocusSummary(result, m)
  BY <1>4, <1>9
<1>16. QED
  BY <1>1, <1>6, <1>11, <1>12, <1>13, <1>14, <1>15 DEF IsResult
--------------------------------------------------------------------------------
(* The lists the reports are written from.                                 *)

LEMMA EvidencesAreJoined ==
  ASSUME NEW list, HasEvidence(list)
  PROVE  IsList(Evidences(list)) /\ Elements(Evidences(list)) = EvidenceIn(list)
<1> DEFINE lists == [i \in DOMAIN list |-> list[i].evidence]
<1>1. Len(list) \in Nat /\ DOMAIN list = 1 .. Len(list)
  BY ListFacts DEF HasEvidence
<1>2. IsList(lists) /\ DOMAIN lists = DOMAIN list
  BY <1>1, MapIsList
<1>3. \A i \in DOMAIN list : lists[i] = list[i].evidence
  OBVIOUS
<1>4. \A i \in DOMAIN list : IsList(list[i].evidence)
  BY SequenceIsList DEF HasEvidence
<1>5. Evidences(list) = Joined(lists)
  BY DEF Evidences
<1> HIDE DEF lists
<1>6. \A i \in DOMAIN lists : IsList(lists[i])
  BY <1>2, <1>3, <1>4
<1>7. IsList(Joined(lists)) /\ Elements(Joined(lists)) = UNION {Elements(lists[i]) : i \in DOMAIN lists}
  BY <1>2, <1>6, JoinIsList
<1>8. UNION {Elements(lists[i]) : i \in DOMAIN lists} = EvidenceIn(list)
  BY <1>2, <1>3 DEF EvidenceIn
<1>9. QED
  BY <1>5, <1>7, <1>8

LEMMA AllEvidenceFacts ==
  ASSUME NEW r, IsResult(r)
  PROVE  /\ IsList(AllEvidence(r))
         /\ Elements(AllEvidence(r)) =
              EvidenceIn(r.entrypoints) \cup EvidenceIn(r.targets) \cup EvidenceIn(r.flows)
                \cup EvidenceIn(r.boundaries) \cup EvidenceIn(r.primitives)
<1> DEFINE a == Evidences(r.entrypoints)
           b == Evidences(r.targets)
           c == Evidences(r.boundaries)
           d == Evidences(r.primitives)
           e == Evidences(r.flows)
<1>1. /\ IsList(a) /\ Elements(a) = EvidenceIn(r.entrypoints)
      /\ IsList(b) /\ Elements(b) = EvidenceIn(r.targets)
      /\ IsList(c) /\ Elements(c) = EvidenceIn(r.boundaries)
      /\ IsList(d) /\ Elements(d) = EvidenceIn(r.primitives)
      /\ IsList(e) /\ Elements(e) = EvidenceIn(r.flows)
  BY EvidencesAreJoined DEF IsResult
<1>2. AllEvidence(r) = (((a \o b) \o c) \o d) \o e
  BY DEF AllEvidence
<1> HIDE DEF a, b, c, d, e
<1>3. \A s, t : IsList(s) /\ IsList(t) =>
        IsList(s \o t) /\ Elements(s \o t) = Elements(s) \cup Elements(t)
  BY ListConcat, ElementsOfConcat
<1>4. IsList(a \o b) /\ Elements(a \o b) = Elements(a) \cup Elements(b)
  BY <1>1, <1>3
<1>5. /\ IsList((a \o b) \o c)
      /\ Elements((a \o b) \o c) = Elements(a) \cup Elements(b) \cup Elements(c)
  BY <1>1, <1>3, <1>4
<1>6. /\ IsList(((a \o b) \o c) \o d)
      /\ Elements(((a \o b) \o c) \o d) =
           Elements(a) \cup Elements(b) \cup Elements(c) \cup Elements(d)
  BY <1>1, <1>3, <1>5
<1>7. /\ IsList((((a \o b) \o c) \o d) \o e)
      /\ Elements((((a \o b) \o c) \o d) \o e) =
           Elements(a) \cup Elements(b) \cup Elements(c) \cup Elements(d) \cup Elements(e)
  BY <1>1, <1>3, <1>6
<1>8. QED
  BY <1>1, <1>2, <1>7

(* What has no repetitions left, and lacks nothing.                        *)
LEMMA DistinctFacts ==
  ASSUME NEW s, IsList(s)
  PROVE  /\ IsList(Distinct(s)) /\ AllDiffer(Distinct(s))
         /\ Elements(Distinct(s)) = Elements(s)
<1> DEFINE P == FirstOccurrences(s)
           d == Distinct(s)
<1>1. P \in SUBSET DOMAIN s /\ DOMAIN s = 1 .. Len(s) /\ Len(s) \in Nat
  BY ListFacts DEF FirstOccurrences
<1>2. /\ IsList(d)
      /\ \A i \in DOMAIN d : \E k \in P : d[i] = s[k]
      /\ \A k \in P : \E i \in DOMAIN d : d[i] = s[k]
      /\ \A i, j \in DOMAIN d : i < j => \E k, l \in P : k < l /\ d[i] = s[k] /\ d[j] = s[l]
  BY <1>1, PickIsList DEF Distinct
<1>3. \A k, l \in P : k < l => s[k] # s[l]
  BY <1>1 DEF FirstOccurrences
<1>4. \A k \in DOMAIN s : \E l \in P : s[l] = s[k]
  <2> SUFFICES ASSUME NEW k \in DOMAIN s
               PROVE  \E l \in P : s[l] = s[k]
    OBVIOUS
  <2> DEFINE T == {l \in DOMAIN s : s[l] = s[k]}
  <2>1. T \in SUBSET Nat /\ T # {}
    BY <1>1
  <2>2. \E l \in T : \A n \in T : l <= n
    <3> HIDE DEF T
    <3>1. QED
      BY <2>1, LeastElement
  <2>3. PICK l \in T : \A n \in T : l <= n
    BY <2>2
  <2>4. \A n \in 1 .. l - 1 : s[n] # s[l]
    <3> SUFFICES ASSUME NEW n \in 1 .. l - 1, s[n] = s[l]
                 PROVE  FALSE
      OBVIOUS
    <3>1. n \in DOMAIN s /\ ~(l <= n)
      BY <1>1, <2>3
    <3>2. QED
      BY <2>3, <3>1
  <2>5. l \in P
    BY <2>3, <2>4 DEF FirstOccurrences
  <2>6. QED
    BY <2>3, <2>5
<1>5. DOMAIN d \subseteq Int
  BY <1>2, ListFacts
<1> HIDE DEF P, d
<1>6. \A i, j \in DOMAIN d : i < j => d[i] # d[j]
  BY <1>2, <1>3
<1>7. AllDiffer(d)
  <2>1. \A i, j \in DOMAIN d : i < j \/ j < i \/ i = j
    BY <1>5
  <2>2. QED
    BY <1>6, <2>1 DEF AllDiffer
<1>8. Elements(d) = Elements(s)
  BY <1>1, <1>2, <1>4 DEF Elements
<1>9. QED
  BY <1>2, <1>7, <1>8 DEF d

LEMMA FirstOfFacts ==
  ASSUME NEW s, IsList(s), NEW n \in Nat
  PROVE  /\ IsList(FirstOf(s, n)) /\ Len(FirstOf(s, n)) = Least(Len(s), n)
         /\ DOMAIN FirstOf(s, n) = 1 .. Least(Len(s), n)
         /\ \A i \in DOMAIN FirstOf(s, n) : i \in DOMAIN s /\ FirstOf(s, n)[i] = s[i]
         /\ Len(s) <= n => FirstOf(s, n) = s
<1> DEFINE m == IF Len(s) < n THEN Len(s) ELSE n
<1>1. /\ Len(s) \in Nat /\ DOMAIN s = 1 .. Len(s)
      /\ s = [i \in 1 .. Len(s) |-> s[i]]
  BY ListFacts
<1>2. m \in 0 .. Len(s) /\ m = Least(Len(s), n) /\ (Len(s) <= n => m = Len(s))
  BY <1>1 DEF Least
<1>3. SubSeq(s, 1, m) = [i \in 1 .. m |-> s[i]]
  <2>1. SubSeq(s, 1, m) = [i \in 1 .. (1 + m - 1) |-> s[i + 1 - 1]]
    BY <1>1, <1>2
  <2>2. 1 + m - 1 = m /\ \A i \in 1 .. m : i + 1 - 1 = i
    BY <1>2
  <2>3. QED
    BY <2>1, <2>2
<1>4. FirstOf(s, n) = SubSeq(s, 1, m)
  BY DEF FirstOf
<1> HIDE DEF m
<1>5. FirstOf(s, n) = [i \in 1 .. m |-> s[i]]
  BY <1>3, <1>4
<1>6. m \in Nat
  BY <1>1, <1>2
<1>7. IsList(FirstOf(s, n)) /\ Len(FirstOf(s, n)) = m /\ DOMAIN FirstOf(s, n) = 1 .. m
  BY <1>5, <1>6, MapIsList
<1>8. \A i \in 1 .. m : i \in DOMAIN s
  BY <1>1, <1>2
<1>9. Len(s) <= n => FirstOf(s, n) = s
  BY <1>1, <1>2, <1>5
<1>10. QED
  BY <1>2, <1>5, <1>7, <1>8, <1>9
--------------------------------------------------------------------------------
(* The previews of the edges.                                              *)

(* Sorting the positions of a list arranges them.                          *)
LEMMA NumbersAreArranged ==
  ASSUME NEW list, IsList(list), NEW R, StrictOrder(R, DOMAIN list)
  PROVE  /\ IsList(Sorted(Numbers(list), R)) /\ Len(Sorted(Numbers(list), R)) = Len(list)
         /\ Len(list) \in Nat
         /\ Arranges(Sorted(Numbers(list), R), Len(list), R)
<1> DEFINE n == Len(list)
           s == Numbers(list)
<1>1. n \in Nat /\ DOMAIN list = 1 .. n
  BY ListFacts
<1>2. s = [i \in 1 .. n |-> i]
  BY <1>1 DEF Numbers
<1> HIDE DEF n, s
<1>3. IsList(s) /\ Len(s) = n /\ DOMAIN s = 1 .. n
  BY <1>1, <1>2, MapIsList
<1>4. StrictOrder(R, DOMAIN s)
  BY <1>1, <1>3
<1>5. PICK p : Arranges(p, n, R) /\ Sorted(s, R) = Along(s, p, n)
  BY <1>3, <1>4, SortedByPlaces
<1>6. p \in [1 .. n -> 1 .. n]
  BY <1>5 DEF Arranges
<1>7. Along(s, p, n) = p
  BY <1>2, <1>6 DEF Along
<1>8. IsList(p) /\ Len(p) = n
  BY <1>1, <1>6, FunctionIsList
<1>9. QED
  BY <1>1, <1>5, <1>7, <1>8 DEF n, s

LEMMA PriorityFacts ==
  ASSUME NEW d, d.type \in Elements(Priorities), NEW e, e.type \in Elements(Priorities)
  PROVE  /\ Priority(d) \in Nat
         /\ d.type = e.type <=> Priority(d) = Priority(e)
<1>1. DOMAIN Priorities \subseteq Nat
  BY DEF Priorities
<1>2. \A type \in Elements(Priorities) : \E p \in DOMAIN Priorities : Priorities[p] = type
  BY DEF Elements
<1>3. Priority(d) \in DOMAIN Priorities /\ Priorities[Priority(d)] = d.type
  BY <1>2 DEF Priority
<1>4. Priority(e) \in DOMAIN Priorities /\ Priorities[Priority(e)] = e.type
  BY <1>2 DEF Priority
<1>5. d.type = e.type => Priority(d) = Priority(e)
  BY DEF Priority
<1>6. QED
  BY <1>1, <1>3, <1>4, <1>5

IsPrioritized(list) ==
  IsList(list) /\ \A i \in DOMAIN list : list[i].type \in Elements(Priorities)

LEMMA PrioritiesAreOrdered ==
  ASSUME NEW list, IsPrioritized(list)
  PROVE  StrictOrder(ByPriority(list), DOMAIN list)
<1> DEFINE S == DOMAIN list
           R == ByPriority(list)
           v(i) == Priority(list[i])
<1>1. S \subseteq Ids
  BY ListFacts DEF Ids, IsPrioritized
<1>2. \A i \in S : v(i) \in Nat
  BY PriorityFacts DEF IsPrioritized
<1>3. \A i, j \in S : list[i].type = list[j].type <=> v(i) = v(j)
  BY PriorityFacts DEF IsPrioritized
<1>4. \A i, j \in S : <<i, j>> \in R <=> v(i) < v(j) \/ (list[i].type = list[j].type /\ IdBefore(i, j))
  BY DEF ByPriority, Pairs
<1> HIDE DEF S, R, v
<1>5. \A i, j \in S : <<i, j>> \in R <=> v(i) < v(j) \/ (v(i) = v(j) /\ IdBefore(i, j))
  BY <1>3, <1>4
<1>6. ASSUME NEW i \in S, NEW j \in S
      PROVE  i = j \/ <<i, j>> \in R \/ <<j, i>> \in R
  <2>1. i = j \/ IdBefore(i, j) \/ IdBefore(j, i)
    BY <1>1, IdsAreOrdered
  <2>2. v(i) < v(j) \/ v(j) < v(i) \/ v(i) = v(j)
    BY <1>2
  <2>3. QED
    BY <1>5, <2>1, <2>2
<1>7. ASSUME NEW i \in S
      PROVE  <<i, i>> \notin R
  <2>1. ~IdBefore(i, i) /\ v(i) \in Nat
    BY <1>1, <1>2, IdsAreOrdered
  <2>2. QED
    BY <1>5, <2>1
<1>8. ASSUME NEW i \in S, NEW j \in S, NEW k \in S, <<i, j>> \in R, <<j, k>> \in R
      PROVE  <<i, k>> \in R
  <2>1. IdBefore(i, j) /\ IdBefore(j, k) => IdBefore(i, k)
    BY <1>1, IdsAreOrdered
  <2>2. v(i) < v(j) \/ (v(i) = v(j) /\ IdBefore(i, j))
    BY <1>5, <1>8
  <2>3. v(j) < v(k) \/ (v(j) = v(k) /\ IdBefore(j, k))
    BY <1>5, <1>8
  <2>4. v(i) \in Nat /\ v(j) \in Nat /\ v(k) \in Nat
    BY <1>2
  <2>5. v(i) < v(k) \/ (v(i) = v(k) /\ IdBefore(i, k))
    BY <2>1, <2>2, <2>3, <2>4
  <2>6. QED
    BY <1>5, <2>5
<1>9. QED
  BY <1>6, <1>7, <1>8 DEF StrictOrder, S, R

Ranked(list) == Sorted(Numbers(list), ByPriority(list))

LEMMA PreviewFacts ==
  ASSUME NEW list, IsPrioritized(list), NEW n \in Nat
  PROVE  /\ Arranges(Ranked(list), Len(list), ByPriority(list)) /\ Len(list) \in Nat
         /\ IsList(Preview(list, n).edges) /\ Len(Preview(list, n).edges) = Least(Len(list), n)
         /\ DOMAIN Preview(list, n).edges = 1 .. Least(Len(list), n)
         /\ \A i \in DOMAIN Preview(list, n).edges :
              /\ i \in 1 .. Len(list) /\ Preview(list, n).edges[i] = Ranked(list)[i]
              /\ Preview(list, n).edges[i] \in DOMAIN list
         /\ Preview(list, n).more <=> Len(list) > n
<1>1. StrictOrder(ByPriority(list), DOMAIN list) /\ IsList(list)
  BY PrioritiesAreOrdered DEF IsPrioritized
<1>2. /\ IsList(Ranked(list)) /\ Len(Ranked(list)) = Len(list) /\ Len(list) \in Nat
      /\ Arranges(Ranked(list), Len(list), ByPriority(list))
  BY <1>1, NumbersAreArranged DEF Ranked
<1>3. /\ Preview(list, n).edges = FirstOf(Ranked(list), n)
      /\ Preview(list, n).more <=> Len(list) > n
  BY DEF Preview, Ranked
<1>4. DOMAIN Ranked(list) = 1 .. Len(list) /\ DOMAIN list = 1 .. Len(list)
  BY <1>1, <1>2, ListFacts
<1>5. \A i \in 1 .. Len(list) : Ranked(list)[i] \in 1 .. Len(list)
  BY <1>2 DEF Arranges
<1>6. /\ IsList(FirstOf(Ranked(list), n))
      /\ Len(FirstOf(Ranked(list), n)) = Least(Len(list), n)
      /\ DOMAIN FirstOf(Ranked(list), n) = 1 .. Least(Len(list), n)
      /\ \A i \in DOMAIN FirstOf(Ranked(list), n) :
           i \in DOMAIN Ranked(list) /\ FirstOf(Ranked(list), n)[i] = Ranked(list)[i]
  BY <1>2, FirstOfFacts
<1>7. QED
  BY <1>2, <1>3, <1>4, <1>5, <1>6

(* One preview: what it leaves out comes later in the order, and what has  *)
(* the same priority and is left out has the later id.                     *)
LEMMA PreviewLeavesOutLater ==
  ASSUME NEW list, IsPrioritized(list), NEW n \in Nat,
         NEW k \in DOMAIN Preview(list, n).edges, NEW j \in DOMAIN list,
         \A i \in 1 .. k : j # Preview(list, n).edges[i]
  PROVE  LET i == Preview(list, n).edges[k] IN
         \/ Priority(list[i]) < Priority(list[j])
         \/ list[i].type = list[j].type /\ (i < j \/ Digits(i) # Digits(j))
<1> DEFINE shown == Preview(list, n).edges
           l == Len(list)
           p == Ranked(list)
           i == shown[k]
<1>1. /\ Arranges(p, l, ByPriority(list)) /\ l \in Nat
      /\ DOMAIN shown = 1 .. Least(l, n)
      /\ \A m \in DOMAIN shown : m \in 1 .. l /\ shown[m] = p[m] /\ shown[m] \in DOMAIN list
  BY PreviewFacts
<1>2. DOMAIN list = 1 .. l
  BY ListFacts DEF IsPrioritized
<1> HIDE DEF shown, l, p
<1>3. k \in DOMAIN shown /\ \A m \in 1 .. k : j # shown[m]
  BY DEF shown
<1>4. PICK q \in 1 .. l : p[q] = j
  BY <1>1, <1>2 DEF Arranges
<1>5. Least(l, n) \in Nat
  BY <1>1, LeastIsNatural
<1>6. \A m \in 1 .. k : m \in DOMAIN shown
  BY <1>1, <1>3, <1>5
<1>7. q \notin 1 .. k
  BY <1>1, <1>3, <1>4, <1>6
<1>8. k < q /\ k \in 1 .. l
  BY <1>1, <1>3, <1>4, <1>5, <1>7
<1>9. <<p[k], p[q]>> \in ByPriority(list)
  BY <1>1, <1>8 DEF Arranges
<1>10. i = p[k] /\ i \in 1 .. l
  BY <1>1, <1>2, <1>3
<1>11. <<i, j>> \in ByPriority(list)
  BY <1>4, <1>9, <1>10
<1> HIDE DEF i
<1>12. \/ Priority(list[i]) < Priority(list[j])
       \/ list[i].type = list[j].type /\ IdBefore(i, j)
  BY <1>11 DEF ByPriority
<1>13. i \in Ids /\ j \in Ids
  BY <1>2, <1>10 DEF Ids
<1>14. IdBefore(i, j) => i < j \/ Digits(i) # Digits(j)
  BY <1>13, SameDigitsOrder
<1>15. QED
  BY <1>12, <1>14 DEF i, shown

(* The shorter preview is the beginning of the longer.                     *)
LEMMA PreviewsAgree ==
  ASSUME NEW list, IsPrioritized(list), NEW m \in Nat, NEW n \in Nat, m <= n
  PROVE  LET brief == Preview(list, m).edges viewer == Preview(list, n).edges IN
         Len(brief) <= Len(viewer) /\ brief = SubSeq(viewer, 1, Len(brief))
<1> DEFINE b == Preview(list, m).edges
           v == Preview(list, n).edges
           l == Len(list)
           p == Ranked(list)
<1>1. /\ IsList(b) /\ Len(b) = Least(l, m) /\ DOMAIN b = 1 .. Least(l, m)
      /\ \A i \in DOMAIN b : b[i] = p[i]
      /\ IsList(v) /\ Len(v) = Least(l, n) /\ DOMAIN v = 1 .. Least(l, n)
      /\ \A i \in DOMAIN v : v[i] = p[i]
      /\ l \in Nat
  BY PreviewFacts
<1> HIDE DEF b, v, l, p
<1>2. Least(l, m) \in Nat /\ Least(l, n) \in Nat /\ Least(l, m) <= Least(l, n)
  BY <1>1 DEF Least
<1> DEFINE c == Len(b)
<1>3. c \in 0 .. Len(v) /\ Len(v) \in Nat
  BY <1>1, <1>2
<1>4. SubSeq(v, 1, c) = [i \in 1 .. c |-> v[i]]
  <2> HIDE DEF c
  <2>1. SubSeq(v, 1, c) = [i \in 1 .. (1 + c - 1) |-> v[i + 1 - 1]]
    BY <1>3
  <2>2. 1 + c - 1 = c /\ \A i \in 1 .. c : i + 1 - 1 = i
    BY <1>3
  <2>3. QED
    BY <2>1, <2>2
<1>5. \A i \in 1 .. c : i \in DOMAIN b /\ i \in DOMAIN v
  BY <1>1, <1>2
<1>6. b = [i \in 1 .. c |-> b[i]]
  BY <1>1, ListFacts
<1>7. \A i \in 1 .. c : b[i] = v[i]
  BY <1>1, <1>5
<1>8. b = SubSeq(v, 1, c) /\ c <= Len(v)
  BY <1>3, <1>4, <1>6, <1>7
<1>9. QED
  BY <1>8 DEF b, v

LEMMA ReportsWritten ==
  ASSUME AreRendered
  PROVE  /\ Written("viewer") => Written("brief")
         /\ Written("queue") => Written("sarif") /\ Written("brief") /\ Written("viewer")
         /\ Written("reasoning") => Written("viewer") /\ Written("queue")
         /\ Written("sarif") => artifacts["sarif"] = Sarif(result)
         /\ Written("brief") => artifacts["brief"] = Brief(result)
         /\ Written("viewer") => artifacts["viewer"] = Viewer(result)
         /\ Written("queue") => artifacts["queue"] = ReviewQueue(result)
         /\ Written("reasoning") => artifacts["reasoning"] = ReasoningItems(result)
<1>1. DOMAIN artifacts \in Stages
  BY DEF AreRendered
<1>2. /\ Rendered("sarif") = Sarif(result) /\ Rendered("brief") = Brief(result)
      /\ Rendered("viewer") = Viewer(result) /\ Rendered("queue") = ReviewQueue(result)
      /\ Rendered("reasoning") = ReasoningItems(result)
  BY DEF Rendered
<1>3. \A name \in DOMAIN artifacts : artifacts[name] = Rendered(name)
  BY DEF AreRendered
<1>4. /\ Written("viewer") => Written("brief")
      /\ Written("queue") => Written("sarif") /\ Written("brief") /\ Written("viewer")
      /\ Written("reasoning") => Written("viewer") /\ Written("queue")
  BY <1>1 DEF Stages, Written
<1>5. QED
  BY <1>2, <1>3, <1>4 DEF Written

(* Before there is a result nothing is written.                            *)
LEMMA WrittenOfResult ==
  ASSUME PipelineInv, NEW name, Written(name)
  PROVE  IsResult(result) /\ AreRendered
<1>1. DOMAIN artifacts # {}
  BY DEF Written
<1>2. result # NoResult
  BY <1>1 DEF PipelineInv, ReportInv
<1>3. QED
  BY <1>2, ResultIsSound

LEMMA InvariantKeepsPreviews == PipelineInv => PreviewsKeepTheOrder
<1> SUFFICES ASSUME PipelineInv, Written("viewer")
             PROVE  PreviewsKeepTheOrder
  BY DEF PreviewsKeepTheOrder
<1>1. IsResult(result) /\ AreRendered
  BY WrittenOfResult
<1>2. artifacts["viewer"] = Viewer(result) /\ artifacts["brief"] = Brief(result)
  BY <1>1, ReportsWritten
<1> DEFINE list == result.edges
           graph(n) == Preview(list, n)
<1>3. /\ artifacts["viewer"].graph = graph(ViewerEdges)
      /\ artifacts["brief"].graph = graph(BriefEdges)
  BY <1>2 DEF Viewer, Brief
<1>4. IsPrioritized(list)
  BY <1>1 DEF IsResult, HasEvidence, IsPrioritized
<1>5. ShownIn("viewer") = graph(ViewerEdges).edges /\ ShownIn("brief") = graph(BriefEdges).edges
  BY <1>3 DEF ShownIn
<1> HIDE DEF list
<1>6. /\ Len(ShownIn("brief")) <= Len(ShownIn("viewer"))
      /\ ShownIn("brief") = SubSeq(ShownIn("viewer"), 1, Len(ShownIn("brief")))
  BY <1>4, <1>5, PreviewsAgree, ReportsAssumption
<1>7. ASSUME NEW n \in Nat
      PROVE  /\ graph(n).more <=> Len(graph(n).edges) < Len(list)
             /\ \A k \in DOMAIN graph(n).edges :
                  \A j \in DOMAIN list \ {graph(n).edges[i] : i \in 1 .. k} :
                    LET i == graph(n).edges[k] IN
                    \/ Priority(list[i]) < Priority(list[j])
                    \/ list[i].type = list[j].type /\ (i < j \/ Digits(i) # Digits(j))
  <2>1. /\ graph(n).more <=> Len(list) > n
        /\ Len(graph(n).edges) = Least(Len(list), n) /\ Len(list) \in Nat
    BY <1>4, PreviewFacts
  <2>2. graph(n).more <=> Len(graph(n).edges) < Len(list)
    BY <2>1 DEF Least
  <2>3. ASSUME NEW k \in DOMAIN graph(n).edges,
               NEW j \in DOMAIN list \ {graph(n).edges[i] : i \in 1 .. k}
        PROVE  LET i == graph(n).edges[k] IN
               \/ Priority(list[i]) < Priority(list[j])
               \/ list[i].type = list[j].type /\ (i < j \/ Digits(i) # Digits(j))
    <3>1. j \in DOMAIN list /\ \A i \in 1 .. k : j # graph(n).edges[i]
      OBVIOUS
    <3>2. QED
      BY <1>4, <3>1, PreviewLeavesOutLater
  <2>4. QED
    BY <2>2, <2>3
<1>8. ASSUME NEW name \in {"brief", "viewer"}
      PROVE  \E n \in Nat : artifacts[name].graph = graph(n) /\ ShownIn(name) = graph(n).edges
  BY <1>3, <1>5, <1>8, ReportsAssumption
<1>9. ASSUME NEW name \in {"brief", "viewer"}
      PROVE  /\ artifacts[name].graph.more <=> Len(ShownIn(name)) < Len(list)
             /\ \A k \in DOMAIN ShownIn(name) :
                  \A j \in DOMAIN list \ {ShownIn(name)[i] : i \in 1 .. k} :
                    LET i == ShownIn(name)[k] IN
                    \/ Priority(list[i]) < Priority(list[j])
                    \/ list[i].type = list[j].type /\ (i < j \/ Digits(i) # Digits(j))
  <2>1. PICK n \in Nat : artifacts[name].graph = graph(n) /\ ShownIn(name) = graph(n).edges
    BY <1>8
  <2> HIDE DEF graph
  <2>2. QED
    BY <1>7, <2>1
<1>10. QED
  BY <1>6, <1>9 DEF PreviewsKeepTheOrder, list

(* The previews show the edges of the highest priority, for all edges and  *)
(* limits, and the brief shows the beginning of what the viewer shows.     *)
THEOREM PreviewsAreInOrder == PipelineSpec => []PreviewsKeepTheOrder
BY ReportsAreOfOneResult, InvariantKeepsPreviews, PTL
--------------------------------------------------------------------------------
(* The items of the reasoning and what they are about.                     *)

IsRef(r, ref) ==
  \/ \E n \in DOMAIN r.flows : ref = Ref("flow", n)
  \/ \E n \in DOMAIN r.edges : ref = Ref("edge", n)
  \/ \E n \in DOMAIN r.primitives : ref = Ref("primitive", n)
  \/ \E n \in DOMAIN r.boundaries : ref = Ref("boundary", n)

(* Nothing of what the audit knows is filtered out.                        *)
LEMMA KnownKeepsAll ==
  ASSUME NEW r, NEW s \in Seq(Nat), Elements(s) \subseteq Elements(AllEvidence(r))
  PROVE  Known(r, s) = s
<1> DEFINE n == Len(s)
           id == [i \in 1 .. n |-> i]
           P == {i \in DOMAIN s : s[i] \in Elements(AllEvidence(r))}
<1>1. n \in Nat /\ DOMAIN s = 1 .. n /\ s = [i \in 1 .. n |-> s[i]]
  BY LenProperties
<1>2. P = 1 .. n
  BY <1>1 DEF Elements
<1>3. Enumerates(id, n, 1 .. n)
  BY DEF Enumerates
<1>4. Known(r, s) = Pick(s, P)
  BY DEF Known
<1> HIDE DEF n, id, P
<1>5. Pick(s, 1 .. n) = Along(s, id, n)
  BY <1>1, <1>3, PickByPlaces
<1>6. Along(s, id, n) = [i \in 1 .. n |-> s[i]]
  BY <1>1 DEF Along, id
<1>7. QED
  BY <1>1, <1>2, <1>4, <1>5, <1>6

LEMMA SubjectIsKnown ==
  ASSUME NEW r, IsResult(r), NEW ref, IsRef(r, ref)
  PROVE  /\ Known(r, Subject(r, ref).evidence) = Subject(r, ref).evidence
         /\ Related(r, ref) # <<>> /\ Related(r, ref)[1] = ref
<1> DEFINE c == Subject(r, ref)
<1>1. \/ \E n \in DOMAIN r.flows : c = r.flows[n]
      \/ \E n \in DOMAIN r.edges : c = r.edges[n]
      \/ \E n \in DOMAIN r.primitives : c = r.primitives[n]
      \/ \E n \in DOMAIN r.boundaries : c = r.boundaries[n]
  BY DEF IsRef, Subject
<1> HIDE DEF c
<1>2. c.evidence \in Seq(Nat)
  BY <1>1 DEF IsResult, HasEvidence
<1>3. Elements(c.evidence) \subseteq EvidenceIn(r.flows) \cup EvidenceIn(r.edges)
        \cup EvidenceIn(r.primitives) \cup EvidenceIn(r.boundaries)
  BY <1>1 DEF EvidenceIn
<1>4. Elements(c.evidence) \subseteq Elements(AllEvidence(r))
  BY <1>3, AllEvidenceFacts DEF IsResult
<1>5. Known(r, c.evidence) = c.evidence
  BY <1>2, <1>4, KnownKeepsAll
<1>6. Related(r, ref) # <<>> /\ Related(r, ref)[1] = ref
  BY DEF IsRef, Related
<1>7. QED
  BY <1>5, <1>6 DEF c

(* One item about each of the given candidates.                            *)
IsAbout(r, items, refs) ==
  /\ IsList(refs) /\ IsList(items) /\ Len(items) = Len(refs) /\ DOMAIN items = DOMAIN refs
  /\ \A i \in DOMAIN refs :
       /\ IsRef(r, refs[i])
       /\ items[i].related # <<>> /\ items[i].related[1] = refs[i]
       /\ items[i].evidence = Subject(r, refs[i]).evidence

LEMMA AboutFacts ==
  ASSUME NEW r, IsResult(r), NEW refs, IsList(refs), NEW items,
         items = [i \in DOMAIN refs |-> items[i]],
         \A i \in DOMAIN refs :
           /\ IsRef(r, refs[i])
           /\ items[i].related = Related(r, refs[i]) \/ items[i].related = <<refs[i]>>
           /\ items[i].evidence = Known(r, Subject(r, refs[i]).evidence)
  PROVE  IsAbout(r, items, refs)
<1>1. Len(refs) \in Nat /\ DOMAIN refs = 1 .. Len(refs)
  BY ListFacts
<1>2. IsList(items) /\ Len(items) = Len(refs) /\ DOMAIN items = DOMAIN refs
  BY <1>1, MapIsList
<1>3. ASSUME NEW i \in DOMAIN refs
      PROVE  /\ items[i].related # <<>> /\ items[i].related[1] = refs[i]
             /\ items[i].evidence = Subject(r, refs[i]).evidence
  <2>1. /\ Known(r, Subject(r, refs[i]).evidence) = Subject(r, refs[i]).evidence
        /\ Related(r, refs[i]) # <<>> /\ Related(r, refs[i])[1] = refs[i]
    BY SubjectIsKnown
  <2>2. <<refs[i]>> # <<>> /\ <<refs[i]>>[1] = refs[i]
    OBVIOUS
  <2>3. QED
    BY <2>1, <2>2
<1>4. QED
  BY <1>2, <1>3 DEF IsAbout

LEMMA ItemFields ==
  ASSUME NEW r, NEW category, NEW related, NEW c, NEW missing, NEW steps
  PROVE  LET made == Item(r, category, related, c, missing, steps) IN
         /\ made.related = related /\ made.evidence = Known(r, c.evidence)
         /\ made.missing = missing /\ made.steps = steps
BY DEF Item

(* The beginning of the references to a list.                              *)
LEMMA FirstRefs ==
  ASSUME NEW list, IsList(list), NEW kind, NEW n \in Nat
  PROVE  LET refs == FirstOf(Refs(kind, list), n) IN
         /\ IsList(refs) /\ Len(refs) = Least(Len(list), n)
         /\ \A i \in DOMAIN refs : i \in DOMAIN list /\ refs[i] = Ref(kind, i)
         /\ Elements(refs) \subseteq {Ref(kind, i) : i \in DOMAIN list}
         /\ Len(list) <= n => Elements(refs) = {Ref(kind, i) : i \in DOMAIN list}
         /\ n = 0 => Elements(refs) = {}
<1> DEFINE all == Refs(kind, list)
           refs == FirstOf(all, n)
<1>1. /\ IsList(all) /\ Len(all) = Len(list) /\ DOMAIN all = DOMAIN list
      /\ \A i \in DOMAIN list : all[i] = Ref(kind, i)
      /\ Elements(all) = {Ref(kind, i) : i \in DOMAIN list}
  BY RefsFacts
<1> HIDE DEF all
<1>2. /\ IsList(refs) /\ Len(refs) = Least(Len(list), n)
      /\ DOMAIN refs = 1 .. Least(Len(list), n)
      /\ \A i \in DOMAIN refs : i \in DOMAIN all /\ refs[i] = all[i]
      /\ Len(list) <= n => refs = all
  BY <1>1, FirstOfFacts
<1>3. Len(list) \in Nat
  BY ListFacts
<1> HIDE DEF refs
<1>4. n = 0 => Elements(refs) = {}
  BY <1>2, <1>3 DEF Elements, Least
<1>5. Elements(refs) \subseteq {Ref(kind, i) : i \in DOMAIN list}
  BY <1>1, <1>2 DEF Elements
<1>6. QED
  BY <1>1, <1>2, <1>4, <1>5 DEF refs, all

SurfaceRefs(r) ==
  LET flows == FirstOf(Refs("flow", r.flows), MaxItems)
  IN  flows \o FirstOf(Refs("primitive", r.primitives), MaxItems - Len(flows))

LEMMA SurfacesAreAbout ==
  ASSUME NEW r, IsResult(r)
  PROVE  LET f == Len(r.flows)
             refs == SurfaceRefs(r)
         IN  /\ IsAbout(r, Surfaces(r), refs)
             /\ Len(refs) = Least(f + Len(r.primitives), MaxItems)
             /\ \A i \in DOMAIN refs :
                  refs[i] = IF i <= f THEN Ref("flow", i) ELSE Ref("primitive", i - f)
<1> DEFINE first == FirstOf(Refs("flow", r.flows), MaxItems)
           room == MaxItems - Len(first)
           rest == FirstOf(Refs("primitive", r.primitives), room)
           f == Len(r.flows)
           p == Len(r.primitives)
           a == Len(first)
           refs == SurfaceRefs(r)
           flows == {Ref("flow", i) : i \in DOMAIN r.flows}
           primitives == {Ref("primitive", i) : i \in DOMAIN r.primitives}
<1>1. IsList(r.flows) /\ IsList(r.primitives) /\ MaxItems \in Nat
  BY ReasoningAssumption DEF IsResult, HasEvidence
<1>2. f \in Nat /\ p \in Nat
  BY <1>1, ListFacts
<1>3. /\ IsList(first) /\ a = Least(f, MaxItems)
      /\ \A i \in DOMAIN first : i \in DOMAIN r.flows /\ first[i] = Ref("flow", i)
      /\ Elements(first) \subseteq flows
  <2>1. IsList(r.flows) /\ MaxItems \in Nat
    BY <1>1
  <2>2. IsList(first) /\ a = Least(f, MaxItems)
    BY <2>1, FirstRefs
  <2>3. \A i \in DOMAIN first : i \in DOMAIN r.flows /\ first[i] = Ref("flow", i)
    BY <2>1, FirstRefs
  <2>4. Elements(first) \subseteq flows
    BY <2>1, FirstRefs
  <2>5. QED
    BY <2>2, <2>3, <2>4
<1>4. room \in Nat /\ room = MaxItems - Least(f, MaxItems)
  BY <1>1, <1>2, <1>3 DEF Least
<1> HIDE DEF room, first
<1>5. /\ IsList(rest) /\ Len(rest) = Least(p, room)
      /\ \A i \in DOMAIN rest : i \in DOMAIN r.primitives /\ rest[i] = Ref("primitive", i)
      /\ Elements(rest) \subseteq primitives
  <2>1. IsList(r.primitives) /\ room \in Nat
    BY <1>1, <1>4
  <2>2. IsList(rest) /\ Len(rest) = Least(p, room)
    BY <2>1, FirstRefs
  <2>3. \A i \in DOMAIN rest : i \in DOMAIN r.primitives /\ rest[i] = Ref("primitive", i)
    BY <2>1, FirstRefs
  <2>4. Elements(rest) \subseteq primitives
    BY <2>1, FirstRefs
  <2>5. QED
    BY <2>2, <2>3, <2>4
<1>6. refs = first \o rest
  BY DEF SurfaceRefs, first, rest, room
<1> HIDE DEF rest, refs, a
<1>7. /\ IsList(refs) /\ Len(refs) = a + Len(rest) /\ DOMAIN refs = 1 .. a + Len(rest)
      /\ Elements(refs) = Elements(first) \cup Elements(rest)
      /\ DOMAIN first = 1 .. a /\ DOMAIN rest = 1 .. Len(rest)
      /\ \A i \in 1 .. a : refs[i] = first[i]
      /\ \A i \in 1 .. Len(rest) : refs[a + i] = rest[i]
  <2>1. /\ IsList(first \o rest) /\ Len(first \o rest) = a + Len(rest)
        /\ DOMAIN (first \o rest) = 1 .. a + Len(rest)
        /\ DOMAIN first = 1 .. a /\ DOMAIN rest = 1 .. Len(rest)
        /\ \A i \in 1 .. a : (first \o rest)[i] = first[i]
        /\ \A i \in 1 .. Len(rest) : (first \o rest)[a + i] = rest[i]
    <3>1. IsList(first) /\ IsList(rest) /\ a = Len(first)
      BY <1>3, <1>5 DEF a
    <3>2. QED
      BY <3>1, ListConcat
  <2>2. Elements(first \o rest) = Elements(first) \cup Elements(rest)
    BY <1>3, <1>5, ElementsOfConcat
  <2>3. QED
    BY <1>6, <2>1, <2>2
<1>8. /\ Len(refs) = Least(f + p, MaxItems)
      /\ a \in Nat /\ a <= f /\ Len(rest) \in Nat
      /\ Len(rest) > 0 => a = f
  <2>1. /\ f \in Nat /\ p \in Nat /\ MaxItems \in Nat /\ room = MaxItems - Least(f, MaxItems)
        /\ Len(refs) = Least(f, MaxItems) + Least(p, room)
        /\ a = Least(f, MaxItems) /\ Len(rest) = Least(p, room)
    BY <1>1, <1>2, <1>3, <1>4, <1>5, <1>7
  <2> HIDE DEF f, p
  <2>2. QED
    BY <2>1 DEF Least
<1>9. ASSUME NEW i \in DOMAIN refs
      PROVE  refs[i] = IF i <= f THEN Ref("flow", i) ELSE Ref("primitive", i - f)
  <2> HIDE DEF f
  <2>1. CASE i <= a
    <3>1. i \in 1 .. a /\ i <= f
      BY <1>2, <1>7, <1>8, <2>1
    <3>2. refs[i] = Ref("flow", i)
      BY <1>3, <1>7, <3>1
    <3>3. QED
      BY <3>1, <3>2
  <2>2. CASE ~(i <= a)
    <3>1. /\ i - a \in 1 .. Len(rest) /\ a + (i - a) = i /\ a = f /\ ~(i <= f)
      BY <1>2, <1>7, <1>8, <2>2
    <3>2. refs[i] = rest[i - a]
      BY <1>7, <3>1
    <3>3. rest[i - a] = Ref("primitive", i - a)
      BY <1>5, <1>7, <3>1
    <3>4. QED
      BY <3>1, <3>2, <3>3
  <2>3. QED
    BY <2>1, <2>2
<1>10. \A i \in DOMAIN refs : IsRef(r, refs[i])
  <2>1. \A i \in DOMAIN refs : refs[i] \in flows \cup primitives
    BY <1>3, <1>5, <1>7 DEF Elements
  <2>2. QED
    BY <2>1 DEF IsRef
<1>11. Surfaces(r) = ItemsAbout(r, "surface", refs)
  BY <1>6 DEF Surfaces, first, rest, room
<1>12. IsAbout(r, Surfaces(r), refs)
  <2> DEFINE items == ItemsAbout(r, "surface", refs)
  <2>1. items = [i \in DOMAIN refs |-> items[i]]
    BY DEF ItemsAbout
  <2>2. \A i \in DOMAIN refs : /\ items[i].related = Related(r, refs[i])
                               /\ items[i].evidence = Known(r, Subject(r, refs[i]).evidence)
    BY DEF ItemsAbout, Item
  <2> HIDE DEF items
  <2>3. IsAbout(r, items, refs)
    BY <1>7, <1>10, <2>1, <2>2, AboutFacts
  <2>4. QED
    BY <1>11, <2>3 DEF items
<1>13. QED
  BY <1>8, <1>9, <1>12 DEF refs

LEMMA HypothesesAreAbout ==
  ASSUME NEW r, IsResult(r)
  PROVE  LET refs == FirstOf(Refs("boundary", r.boundaries), MaxItems)
         IN  /\ IsAbout(r, Hypotheses(r), refs)
             /\ Len(refs) = Least(Len(r.boundaries), MaxItems)
             /\ \A i \in DOMAIN refs : refs[i] = Ref("boundary", i)
<1> DEFINE refs == FirstOf(Refs("boundary", r.boundaries), MaxItems)
           items == Hypotheses(r)
           n == Len(r.boundaries)
<1>1. IsList(r.boundaries) /\ MaxItems \in Nat
  BY ReasoningAssumption DEF IsResult, HasEvidence
<1>2. /\ IsList(refs) /\ Len(refs) = Least(n, MaxItems)
      /\ \A i \in DOMAIN refs : i \in DOMAIN r.boundaries /\ refs[i] = Ref("boundary", i)
  <2>1. IsList(refs) /\ Len(refs) = Least(n, MaxItems)
    BY <1>1, FirstRefs
  <2>2. \A i \in DOMAIN refs : i \in DOMAIN r.boundaries /\ refs[i] = Ref("boundary", i)
    BY <1>1, FirstRefs
  <2>3. QED
    BY <2>1, <2>2
<1>4. \A i \in DOMAIN refs : IsRef(r, refs[i])
  BY <1>2 DEF IsRef
<1>5. /\ items = [i \in DOMAIN refs |-> items[i]]
      /\ \A i \in DOMAIN refs : /\ items[i].related = <<refs[i]>>
                                /\ items[i].evidence = Known(r, Subject(r, refs[i]).evidence)
  BY DEF Hypotheses, Item
<1> HIDE DEF refs, items
<1>6. IsAbout(r, items, refs)
  BY <1>2, <1>4, <1>5, AboutFacts
<1>7. QED
  BY <1>2, <1>6 DEF refs, items

(* The triage is a total order of the primitives.                          *)
LEMMA TriageIsOrdered ==
  ASSUME NEW list, HasEvidence(list)
  PROVE  StrictOrder(ByTriage(list), DOMAIN list)
<1> DEFINE S == DOMAIN list
           R == ByTriage(list)
           c(i) == ConfidenceRank(list[i])
           l(i) == Len(list[i].evidence)
<1>1. S \subseteq Ids
  BY ListFacts DEF Ids, HasEvidence
<1>2. \A i \in S : c(i) \in Nat
  BY DEF ConfidenceRank
<1>3. \A i \in S : l(i) \in Nat
  BY LenProperties DEF HasEvidence
<1>4. \A i, j \in S : <<i, j>> \in R <=>
        c(i) < c(j) \/ (c(i) = c(j) /\ (l(i) > l(j) \/ (l(i) = l(j) /\ IdBefore(i, j))))
  BY DEF ByTriage, Pairs
<1> HIDE DEF S, R, c, l
<1>5. ASSUME NEW i \in S, NEW j \in S
      PROVE  i = j \/ <<i, j>> \in R \/ <<j, i>> \in R
  <2>1. i = j \/ IdBefore(i, j) \/ IdBefore(j, i)
    BY <1>1, IdsAreOrdered
  <2>2. c(i) \in Nat /\ c(j) \in Nat /\ l(i) \in Nat /\ l(j) \in Nat
    BY <1>2, <1>3
  <2>3. QED
    BY <1>4, <2>1, <2>2
<1>6. ASSUME NEW i \in S
      PROVE  <<i, i>> \notin R
  <2>1. ~IdBefore(i, i) /\ c(i) \in Nat /\ l(i) \in Nat
    BY <1>1, <1>2, <1>3, IdsAreOrdered
  <2>2. QED
    BY <1>4, <2>1
<1>7. ASSUME NEW i \in S, NEW j \in S, NEW k \in S, <<i, j>> \in R, <<j, k>> \in R
      PROVE  <<i, k>> \in R
  <2>1. IdBefore(i, j) /\ IdBefore(j, k) => IdBefore(i, k)
    BY <1>1, IdsAreOrdered
  <2>2. c(i) < c(j) \/ (c(i) = c(j) /\ (l(i) > l(j) \/ (l(i) = l(j) /\ IdBefore(i, j))))
    BY <1>4, <1>7
  <2>3. c(j) < c(k) \/ (c(j) = c(k) /\ (l(j) > l(k) \/ (l(j) = l(k) /\ IdBefore(j, k))))
    BY <1>4, <1>7
  <2>4. /\ c(i) \in Nat /\ c(j) \in Nat /\ c(k) \in Nat
        /\ l(i) \in Nat /\ l(j) \in Nat /\ l(k) \in Nat
    BY <1>2, <1>3
  <2>5. c(i) < c(k) \/ (c(i) = c(k) /\ (l(i) > l(k) \/ (l(i) = l(k) /\ IdBefore(i, k))))
    BY <2>1, <2>2, <2>3, <2>4
  <2>6. QED
    BY <1>4, <2>5
<1>8. QED
  BY <1>5, <1>6, <1>7 DEF StrictOrder, S, R

TriageRefs(r) ==
  LET best == FirstOf(Sorted(Numbers(r.primitives), ByTriage(r.primitives)), MaxItems)
  IN  [i \in DOMAIN best |-> Ref("primitive", best[i])]

LEMMA TriageIsAbout ==
  ASSUME NEW r, IsResult(r)
  PROVE  LET refs == TriageRefs(r)
             list == r.primitives
         IN  /\ IsAbout(r, Triage(r), refs) /\ Len(refs) = Least(Len(list), MaxItems)
             /\ \A i \in DOMAIN refs :
                  /\ refs[i].n \in DOMAIN list /\ refs[i] = Ref("primitive", refs[i].n)
                  /\ \A j \in DOMAIN refs :
                       i < j => <<refs[i].n, refs[j].n>> \in ByTriage(list)
                  /\ \A k \in DOMAIN list :
                       (\A j \in DOMAIN refs : k # refs[j].n) =>
                         <<refs[i].n, k>> \in ByTriage(list)
<1> DEFINE list == r.primitives
           n == Len(list)
           ranked == Sorted(Numbers(list), ByTriage(list))
           best == FirstOf(ranked, MaxItems)
           refs == TriageRefs(r)
           items == Triage(r)
<1>1. HasEvidence(list) /\ IsList(list) /\ MaxItems \in Nat
  BY ReasoningAssumption DEF IsResult, HasEvidence
<1>2. DOMAIN list = 1 .. n /\ n \in Nat
  BY <1>1, ListFacts
<1>3. IsList(ranked) /\ Len(ranked) = n /\ Arranges(ranked, n, ByTriage(list))
  BY <1>1, TriageIsOrdered, NumbersAreArranged
<1> HIDE DEF ranked
<1>4. /\ \A i \in 1 .. n : ranked[i] \in 1 .. n
      /\ \A k \in 1 .. n : \E i \in 1 .. n : ranked[i] = k
  BY <1>3 DEF Arranges
<1>5. /\ IsList(best) /\ Len(best) = Least(n, MaxItems) /\ DOMAIN best = 1 .. Least(n, MaxItems)
      /\ \A i \in DOMAIN best : i \in DOMAIN ranked /\ best[i] = ranked[i]
      /\ n <= MaxItems => best = ranked
  BY <1>1, <1>3, FirstOfFacts
<1>6. DOMAIN ranked = 1 .. n
  BY <1>3, ListFacts
<1>7. refs = [i \in DOMAIN best |-> Ref("primitive", best[i])]
  BY DEF TriageRefs, best, ranked
<1>8. items = [i \in DOMAIN best |->
                 Item(r, "triage", <<Ref("primitive", best[i])>>, list[best[i]],
                      list[best[i]].missing, list[best[i]].steps)]
  BY DEF Triage, best, ranked
<1> HIDE DEF refs, items, best
<1>9. Least(n, MaxItems) \in Nat
  BY <1>1, <1>2 DEF Least
<1>10. IsList(refs) /\ Len(refs) = Least(n, MaxItems) /\ DOMAIN refs = DOMAIN best
  BY <1>5, <1>7, <1>9, MapIsList
<1>11. \A i \in DOMAIN best : best[i] \in DOMAIN list
  BY <1>2, <1>4, <1>5, <1>6
<1>12. \A i \in DOMAIN refs : IsRef(r, refs[i]) /\ Subject(r, refs[i]) = list[best[i]]
  BY <1>7, <1>10, <1>11 DEF IsRef, Subject
<1>13. \A i \in DOMAIN refs :
         /\ items[i].related = <<refs[i]>>
         /\ items[i].evidence = Known(r, Subject(r, refs[i]).evidence)
  BY <1>7, <1>8, <1>10, <1>12 DEF Item
<1>14. items = [i \in DOMAIN refs |-> items[i]]
  BY <1>8, <1>10
<1>15. IsAbout(r, items, refs)
  BY <1>10, <1>12, <1>13, <1>14, AboutFacts
<1>16. /\ DOMAIN best = 1 .. Least(n, MaxItems) /\ 1 .. Least(n, MaxItems) \subseteq 1 .. n
       /\ \A i \in DOMAIN best : best[i] = ranked[i]
       /\ \A i \in DOMAIN refs : refs[i] = Ref("primitive", best[i]) /\ refs[i].n = best[i]
  <2>1. 1 .. Least(n, MaxItems) \subseteq 1 .. n
    <3> HIDE DEF n
    <3>1. QED
      BY <1>1, <1>2 DEF Least
  <2>2. \A i \in DOMAIN refs : refs[i] = Ref("primitive", best[i]) /\ refs[i].n = best[i]
    BY <1>7, <1>10 DEF Ref
  <2>3. QED
    BY <1>5, <2>1, <2>2
<1>17. \A i, j \in 1 .. n : i < j => <<ranked[i], ranked[j]>> \in ByTriage(list)
  BY <1>3 DEF Arranges
<1>18. ASSUME NEW i \in DOMAIN refs, NEW j \in DOMAIN refs, i < j
       PROVE  <<refs[i].n, refs[j].n>> \in ByTriage(list)
  BY <1>10, <1>16, <1>17, <1>18
<1>19. ASSUME NEW i \in DOMAIN refs, NEW k \in DOMAIN list, \A j \in DOMAIN refs : k # refs[j].n
       PROVE  <<refs[i].n, k>> \in ByTriage(list)
  <2>1. PICK j \in 1 .. n : ranked[j] = k
    BY <1>2, <1>4
  <2>2. j \notin DOMAIN refs
    BY <1>10, <1>16, <1>19, <2>1
  <2>3. i \in 1 .. n /\ i < j
    <3>1. i \in 1 .. Least(n, MaxItems) /\ ~(j \in 1 .. Least(n, MaxItems)) /\ j \in 1 .. n
      BY <1>10, <1>16, <2>2
    <3> HIDE DEF n
    <3>2. QED
      BY <1>2, <1>9, <1>16, <3>1
  <2>4. <<ranked[i], k>> \in ByTriage(list)
    BY <1>17, <2>1, <2>3
  <2>5. QED
    BY <1>10, <1>16, <2>4
<1>20. QED
  BY <1>10, <1>11, <1>15, <1>16, <1>18, <1>19 DEF refs, items

(* The entries of some lists: each of them of one list and place.          *)
LEMMA EntriesFacts ==
  ASSUME NEW lists, IsList(lists), \A i \in DOMAIN lists : IsList(lists[i]), NEW kind
  PROVE  /\ IsList(Entries(kind, lists))
         /\ \A e \in Elements(Entries(kind, lists)) :
              \E i \in DOMAIN lists : e.of = Ref(kind, i) /\ lists[i] # <<>>
<1> DEFINE named(i) == [k \in DOMAIN lists[i] |-> [of |-> [kind |-> kind, n |-> i],
                                                   text |-> lists[i][k]]]
           all == [i \in DOMAIN lists |-> named(i)]
<1>1. Len(lists) \in Nat /\ DOMAIN lists = 1 .. Len(lists)
  BY ListFacts
<1>2. IsList(all) /\ DOMAIN all = DOMAIN lists
  BY <1>1, MapIsList
<1>3. ASSUME NEW i \in DOMAIN lists
      PROVE  /\ IsList(all[i])
             /\ \A e \in Elements(all[i]) : e.of = Ref(kind, i) /\ lists[i] # <<>>
  <2>1. Len(lists[i]) \in Nat /\ DOMAIN lists[i] = 1 .. Len(lists[i])
    BY ListFacts
  <2>2. IsList(named(i)) /\ DOMAIN named(i) = DOMAIN lists[i]
    BY <2>1, MapIsList
  <2>3. all[i] = named(i)
    OBVIOUS
  <2>4. \A k \in DOMAIN lists[i] : named(i)[k].of = Ref(kind, i)
    OBVIOUS
  <2> HIDE DEF named, all
  <2>5. \A k \in DOMAIN lists[i] : lists[i] # <<>>
    <3>1. DOMAIN <<>> = {}
      OBVIOUS
    <3>2. QED
      BY <3>1
  <2>6. QED
    BY <2>2, <2>3, <2>4, <2>5 DEF Elements
<1>4. Entries(kind, lists) = Joined(all)
  BY DEF Entries
<1> HIDE DEF all
<1>5. /\ IsList(Joined(all))
      /\ Elements(Joined(all)) = UNION {Elements(all[i]) : i \in DOMAIN all}
  BY <1>2, <1>3, JoinIsList
<1>6. QED
  BY <1>2, <1>3, <1>4, <1>5

LEMMA MissingFacts ==
  ASSUME NEW list, IsList(list), \A i \in DOMAIN list : IsList(list[i].missing), NEW kind
  PROVE  /\ IsList(Missing(kind, list))
         /\ \A e \in Elements(Missing(kind, list)) :
              \E i \in DOMAIN list : e.of = Ref(kind, i) /\ list[i].missing # <<>>
<1> DEFINE lists == [i \in DOMAIN list |-> list[i].missing]
<1>1. Len(list) \in Nat /\ DOMAIN list = 1 .. Len(list)
  BY ListFacts
<1>2. IsList(lists) /\ DOMAIN lists = DOMAIN list
  BY <1>1, MapIsList
<1>3. \A i \in DOMAIN lists : IsList(lists[i])
  BY <1>2
<1>4. \A i \in DOMAIN list : lists[i] = list[i].missing
  OBVIOUS
<1>5. Missing(kind, list) = Entries(kind, lists)
  BY DEF Missing
<1> HIDE DEF lists
<1>6. /\ IsList(Entries(kind, lists))
      /\ \A e \in Elements(Entries(kind, lists)) :
           \E i \in DOMAIN lists : e.of = Ref(kind, i) /\ lists[i] # <<>>
  BY <1>2, <1>3, EntriesFacts
<1>7. QED
  BY <1>2, <1>4, <1>5, <1>6

(* The list of missing evidence in the viewer. *)
MissingOf(r) ==
  Missing("primitive", r.primitives) \o Missing("flow", r.flows) \o Missing("edge", r.edges)

(* The reasoning goes by the same list: edges to files miss nothing.       *)
LEMMA MissingIsShared ==
  ASSUME NEW r, IsResult(r)
  PROVE  /\ IsList(MissingOf(r))
         /\ \A e \in Elements(MissingOf(r)) : IsRef(r, e.of)
         /\ MissingEvidence(r) = MissingItems(r, MissingOf(r))
<1> DEFINE a == Missing("primitive", r.primitives)
           b == Missing("flow", r.flows)
           c == Missing("edge", r.edges)
<1>1. /\ IsList(r.primitives) /\ \A i \in DOMAIN r.primitives : IsList(r.primitives[i].missing)
      /\ IsList(r.flows) /\ \A i \in DOMAIN r.flows : IsList(r.flows[i].missing)
      /\ IsList(r.edges) /\ \A i \in DOMAIN r.edges : IsList(r.edges[i].missing)
      /\ \A i \in DOMAIN r.edges : r.edges[i].type = "defined_in" => r.edges[i].missing = <<>>
  BY DEF IsResult, IsReportable, HasEvidence
<1>2. /\ IsList(a) /\ \A e \in Elements(a) : \E i \in DOMAIN r.primitives :
           e.of = Ref("primitive", i) /\ r.primitives[i].missing # <<>>
  BY <1>1, MissingFacts
<1>3. /\ IsList(b) /\ \A e \in Elements(b) : \E i \in DOMAIN r.flows :
           e.of = Ref("flow", i) /\ r.flows[i].missing # <<>>
  BY <1>1, MissingFacts
<1>4. /\ IsList(c) /\ \A e \in Elements(c) : \E i \in DOMAIN r.edges :
           e.of = Ref("edge", i) /\ r.edges[i].missing # <<>>
  BY <1>1, MissingFacts
<1>5. MissingOf(r) = (a \o b) \o c
  BY DEF MissingOf
<1>6. MissingEvidence(r) =
        MissingItems(r, (a \o b) \o Pick(c, {i \in DOMAIN c : Subject(r, c[i].of).type # "defined_in"}))
  BY DEF MissingEvidence
<1> HIDE DEF a, b, c
<1>7. \A i \in DOMAIN c : Subject(r, c[i].of).type # "defined_in"
  <2> TAKE i \in DOMAIN c
  <2>1. c[i] \in Elements(c)
    BY DEF Elements
  <2>2. PICK j \in DOMAIN r.edges : c[i].of = Ref("edge", j) /\ r.edges[j].missing # <<>>
    BY <1>4, <2>1
  <2>3. Subject(r, c[i].of) = r.edges[j]
    BY <2>2 DEF Subject
  <2>4. QED
    BY <1>1, <2>2, <2>3
<1>8. {i \in DOMAIN c : Subject(r, c[i].of).type # "defined_in"} = DOMAIN c
  BY <1>7
<1>9. Pick(c, {i \in DOMAIN c : Subject(r, c[i].of).type # "defined_in"}) = c
  BY <1>4, <1>8, PickAll
<1>10. IsList(a \o b) /\ Elements(a \o b) = Elements(a) \cup Elements(b)
  BY <1>2, <1>3, ListConcat, ElementsOfConcat
<1>11. IsList((a \o b) \o c) /\ Elements((a \o b) \o c) = Elements(a) \cup Elements(b) \cup Elements(c)
  <2>1. IsList((a \o b) \o c)
    BY <1>4, <1>10, ListConcat
  <2>2. Elements((a \o b) \o c) = Elements(a \o b) \cup Elements(c)
    BY <1>4, <1>10, ElementsOfConcat
  <2>3. QED
    BY <1>10, <2>1, <2>2
<1>12. \A e \in Elements(MissingOf(r)) : IsRef(r, e.of)
  BY <1>2, <1>3, <1>4, <1>5, <1>11 DEF IsRef
<1>13. QED
  BY <1>5, <1>6, <1>9, <1>11, <1>12

LEMMA MissingIsAbout ==
  ASSUME NEW r, IsResult(r)
  PROVE  LET entries == MissingOf(r)
             items == MissingEvidence(r)
         IN  /\ \E refs : IsAbout(r, items, refs)
             /\ Len(items) = Least(Len(entries), MaxItems)
             /\ \A i \in DOMAIN items : /\ items[i].related[1] = entries[i].of
                                        /\ items[i].missing = <<entries[i].text>>
<1> DEFINE entries == MissingOf(r)
           items == MissingEvidence(r)
           kept == FirstOf(entries, MaxItems)
           refs == [i \in DOMAIN kept |-> kept[i].of]
<1>1. /\ IsList(entries) /\ \A e \in Elements(entries) : IsRef(r, e.of)
      /\ items = MissingItems(r, entries)
  BY MissingIsShared
<1>2. MaxItems \in Nat /\ Len(entries) \in Nat
  BY <1>1, ReasoningAssumption, ListFacts
<1> HIDE DEF entries, items
<1>3. /\ IsList(kept) /\ Len(kept) = Least(Len(entries), MaxItems)
      /\ DOMAIN kept = 1 .. Least(Len(entries), MaxItems)
      /\ \A i \in DOMAIN kept : i \in DOMAIN entries /\ kept[i] = entries[i]
  BY <1>1, <1>2, FirstOfFacts
<1>4. items = [i \in DOMAIN kept |->
                 Item(r, "missing", Related(r, kept[i].of), Subject(r, kept[i].of),
                      <<kept[i].text>>, <<>>)]
  BY <1>1 DEF MissingItems
<1> HIDE DEF kept
<1>5. Least(Len(entries), MaxItems) \in Nat
  BY <1>2 DEF Least
<1>6. IsList(refs) /\ Len(refs) = Len(kept) /\ DOMAIN refs = DOMAIN kept
  BY <1>3, <1>5, MapIsList
<1>7. \A i \in DOMAIN kept : refs[i] = kept[i].of /\ refs[i] = entries[i].of
  BY <1>3
<1> HIDE DEF refs
<1>8. \A i \in DOMAIN refs : IsRef(r, refs[i])
  BY <1>1, <1>3, <1>6, <1>7 DEF Elements
<1>9. /\ items = [i \in DOMAIN refs |-> items[i]]
      /\ \A i \in DOMAIN refs : /\ items[i].related = Related(r, refs[i])
                                /\ items[i].evidence = Known(r, Subject(r, refs[i]).evidence)
                                /\ items[i].missing = <<kept[i].text>>
  BY <1>4, <1>6, <1>7 DEF Item
<1>10. IsAbout(r, items, refs)
  BY <1>6, <1>8, <1>9, AboutFacts
<1>11. /\ Len(items) = Least(Len(entries), MaxItems) /\ DOMAIN items = DOMAIN kept
       /\ \A i \in DOMAIN items : /\ items[i].related[1] = entries[i].of
                                  /\ items[i].missing = <<entries[i].text>>
  BY <1>3, <1>6, <1>7, <1>9, <1>10 DEF IsAbout
<1>12. QED
  BY <1>10, <1>11 DEF entries, items

LEMMA StepEntriesFacts ==
  ASSUME NEW r, IsResult(r)
  PROVE  IsList(ReviewSteps(r)) /\ \A e \in Elements(ReviewSteps(r)) : IsRef(r, e.of)
<1> DEFINE lists == [i \in DOMAIN r.primitives |-> r.primitives[i].steps]
<1>1. IsList(r.primitives) /\ \A i \in DOMAIN r.primitives : IsList(r.primitives[i].steps)
  BY DEF IsResult, IsReportable, HasEvidence
<1>2. Len(r.primitives) \in Nat /\ DOMAIN r.primitives = 1 .. Len(r.primitives)
  BY <1>1, ListFacts
<1>3. IsList(lists) /\ DOMAIN lists = DOMAIN r.primitives
  BY <1>2, MapIsList
<1>4. \A i \in DOMAIN lists : IsList(lists[i])
  BY <1>1, <1>3
<1>5. ReviewSteps(r) = Entries("primitive", lists)
  BY DEF ReviewSteps
<1> HIDE DEF lists
<1>6. /\ IsList(Entries("primitive", lists))
      /\ \A e \in Elements(Entries("primitive", lists)) :
           \E i \in DOMAIN lists : e.of = Ref("primitive", i) /\ lists[i] # <<>>
  BY <1>3, <1>4, EntriesFacts
<1>7. QED
  BY <1>3, <1>5, <1>6 DEF IsRef

(* The steps of the primitives, and perhaps the general one after them.    *)
LEMMA StepsAreAbout ==
  ASSUME NEW r, IsResult(r)
  PROVE  LET items == SafeNextSteps(r)
             some == r.primitives \o r.flows \o r.boundaries # <<>>
             entries == ReviewSteps(r)
         IN  /\ IsList(items)
             /\ Len(items) = Least(Len(entries) + IF some THEN 1 ELSE 0, MaxItems)
             /\ \A i \in DOMAIN items : items[i].related # <<>> =>
                  /\ IsRef(r, items[i].related[1])
                  /\ items[i].evidence = Subject(r, items[i].related[1]).evidence
             /\ \A i \in DOMAIN items :
                  /\ i <= Len(entries) => /\ items[i].related = <<entries[i].of>>
                                          /\ items[i].steps = <<entries[i].text>>
                  /\ i > Len(entries) => items[i].related = <<>>
<1> DEFINE entries == ReviewSteps(r)
           kept == FirstOf(entries, MaxItems)
           m == Least(Len(entries), MaxItems)
           refs == [i \in 1 .. m |-> entries[i].of]
           items == [i \in 1 .. Len(kept) |->
                       Item(r, "step", <<entries[i].of>>, Subject(r, entries[i].of),
                            <<>>, <<entries[i].text>>)]
           general == Item(r, "step", <<>>, GlobalStep, <<>>, <<"general">>)
           some == r.primitives \o r.flows \o r.boundaries # <<>>
           all == SafeNextSteps(r)
<1>1. IsList(entries) /\ \A e \in Elements(entries) : IsRef(r, e.of)
  BY StepEntriesFacts
<1>2. MaxItems \in Nat /\ Len(entries) \in Nat /\ DOMAIN entries = 1 .. Len(entries)
  BY <1>1, ReasoningAssumption, ListFacts
<1>3. all = IF Len(items) < MaxItems /\ some THEN Append(items, general) ELSE items
  BY DEF SafeNextSteps
<1>4. general.related = <<>>
  BY DEF Item
<1> HIDE DEF entries, general, some, all
<1>5. Len(kept) = m
  BY <1>1, <1>2, FirstOfFacts
<1>6. m \in Nat /\ m <= MaxItems /\ m <= Len(entries) /\ (m < MaxItems <=> Len(entries) < MaxItems)
  BY <1>2 DEF Least
<1> HIDE DEF kept, m
<1>7. items = [i \in 1 .. m |-> items[i]]
  BY <1>5
<1>8. IsList(refs) /\ Len(refs) = m /\ DOMAIN refs = 1 .. m
  BY <1>6, MapIsList
<1>9. \A i \in 1 .. m : refs[i] = entries[i].of /\ i \in DOMAIN entries
  BY <1>2, <1>6
<1>10. \A i \in 1 .. m : /\ items[i].related = <<entries[i].of>>
                         /\ items[i].evidence = Known(r, Subject(r, entries[i].of).evidence)
                         /\ items[i].steps = <<entries[i].text>>
  BY <1>5 DEF Item
<1> HIDE DEF refs, items
<1>11. \A i \in DOMAIN refs : IsRef(r, refs[i])
  BY <1>1, <1>8, <1>9 DEF Elements
<1>12. IsAbout(r, items, refs)
  <2>1. items = [i \in DOMAIN refs |-> items[i]]
    BY <1>7, <1>8
  <2>2. \A i \in DOMAIN refs : /\ items[i].related = <<refs[i]>>
                               /\ items[i].evidence = Known(r, Subject(r, refs[i]).evidence)
    BY <1>8, <1>9, <1>10
  <2>3. QED
    BY <1>8, <1>11, <2>1, <2>2, AboutFacts
<1>13. /\ IsList(items) /\ Len(items) = m /\ DOMAIN items = 1 .. m
       /\ \A i \in 1 .. m : /\ items[i].related # <<>> /\ IsRef(r, items[i].related[1])
                            /\ items[i].evidence = Subject(r, items[i].related[1]).evidence
  BY <1>8, <1>12 DEF IsAbout
<1>14. CASE m < MaxItems /\ some
  <2>1. all = Append(items, general)
    BY <1>3, <1>13, <1>14
  <2>2. /\ IsList(all) /\ Len(all) = m + 1 /\ DOMAIN all = 1 .. m + 1
        /\ \A i \in 1 .. m : all[i] = items[i]
        /\ all[m + 1] = general
    BY <1>13, <2>1, ListAppend
  <2>3. m = Len(entries) /\ m + 1 = Least(Len(entries) + 1, MaxItems)
    <3>1. m = IF Len(entries) < MaxItems THEN Len(entries) ELSE MaxItems
      BY DEF m, Least
    <3>2. Least(Len(entries) + 1, MaxItems) = IF Len(entries) + 1 < MaxItems THEN Len(entries) + 1 ELSE MaxItems
      BY DEF Least
    <3>3. m < MaxItems /\ m \in Nat /\ MaxItems \in Nat /\ Len(entries) \in Nat
      BY <1>2, <1>6, <1>14
    <3>4. m = Len(entries)
      BY <3>1, <3>3
    <3>5. QED
      BY <3>2, <3>3, <3>4
  <2>4. \A i \in 1 .. m + 1 : i \in 1 .. m \/ i = m + 1
    BY <1>6
  <2>5. \A i \in DOMAIN all :
          /\ i <= Len(entries) => all[i].related = <<entries[i].of>> /\ all[i].steps = <<entries[i].text>>
          /\ i > Len(entries) => all[i].related = <<>>
    BY <1>4, <1>6, <1>10, <2>2, <2>3, <2>4
  <2>6. \A i \in DOMAIN all : all[i].related # <<>> =>
          /\ IsRef(r, all[i].related[1])
          /\ all[i].evidence = Subject(r, all[i].related[1]).evidence
    BY <1>4, <1>13, <2>2, <2>4
  <2>7. QED
    BY <1>14, <2>2, <2>3, <2>5, <2>6 DEF all, entries, some
<1>15. CASE ~(m < MaxItems /\ some)
  <2>1. all = items
    BY <1>3, <1>13, <1>15
  <2>2. m = Least(Len(entries) + IF some THEN 1 ELSE 0, MaxItems)
    BY <1>2, <1>15 DEF Least, m
  <2>3. \A i \in DOMAIN all :
          /\ i <= Len(entries) => all[i].related = <<entries[i].of>> /\ all[i].steps = <<entries[i].text>>
          /\ i > Len(entries) => all[i].related = <<>>
    BY <1>2, <1>6, <1>10, <1>13, <2>1
  <2>4. QED
    BY <1>13, <2>1, <2>2, <2>3 DEF all, entries, some
<1>16. QED
  BY <1>14, <1>15
--------------------------------------------------------------------------------
(* References and omissions.                                               *)

LEMMA IndexIsExact ==
  ASSUME NEW r, IsResult(r), NEW e \in Elements(AllEvidence(r))
  PROVE  Cardinality({i \in DOMAIN EvidenceIndex(r) : EvidenceIndex(r)[i] = e}) = 1
<1> DEFINE index == EvidenceIndex(r)
           places == {i \in DOMAIN index : index[i] = e}
<1>1. AllDiffer(index) /\ e \in Elements(index)
  BY AllEvidenceFacts, DistinctFacts DEF EvidenceIndex
<1> HIDE DEF index
<1>2. PICK k \in DOMAIN index : index[k] = e
  BY <1>1 DEF Elements
<1>3. places = {k}
  BY <1>1, <1>2 DEF AllDiffer
<1> HIDE DEF places
<1>4. Cardinality(places) = 1
  BY <1>3, FS_Singleton
<1>5. QED
  BY <1>4 DEF places, index

(* A link of the viewer leads to evidence that the audit has.              *)
LEMMA LinksAreIndexed ==
  ASSUME NEW r, IsResult(r)
  PROVE  Viewer(r).links = Elements(AllEvidence(r))
<1> DEFINE shown == Preview(r.edges, ViewerEdges).edges
           list == [i \in DOMAIN shown |-> r.edges[shown[i]]]
<1>1. Viewer(r).links = Elements(AllEvidence(r)) \cup Elements(Evidences(list))
  BY DEF Viewer
<1>2. IsPrioritized(r.edges) /\ HasEvidence(r.edges)
  BY DEF IsResult, HasEvidence, IsPrioritized
<1>3. /\ DOMAIN shown = 1 .. Least(Len(r.edges), ViewerEdges) /\ Len(r.edges) \in Nat
      /\ \A i \in DOMAIN shown : shown[i] \in DOMAIN r.edges
  BY <1>2, PreviewFacts, ReportsAssumption
<1>4. Least(Len(r.edges), ViewerEdges) \in Nat
  BY <1>3, ReportsAssumption DEF Least
<1> HIDE DEF shown
<1>5. IsList(list) /\ DOMAIN list = DOMAIN shown /\ \A i \in DOMAIN shown : list[i] = r.edges[shown[i]]
  BY <1>3, <1>4, MapIsList
<1> HIDE DEF list
<1>6. HasEvidence(list)
  BY <1>2, <1>3, <1>5 DEF HasEvidence
<1>7. Elements(Evidences(list)) = EvidenceIn(list)
  BY <1>6, EvidencesAreJoined
<1>8. EvidenceIn(list) \subseteq EvidenceIn(r.edges)
  BY <1>3, <1>5 DEF EvidenceIn
<1>9. EvidenceIn(r.edges) \subseteq Elements(AllEvidence(r))
  BY AllEvidenceFacts DEF IsResult
<1>10. QED
  BY <1>1, <1>7, <1>8, <1>9

(* Each item keeps the evidence of what it is about.                       *)
KeepsEvidence(r, items) ==
  \A i \in DOMAIN items : items[i].related # <<>> =>
    items[i].evidence = Subject(r, items[i].related[1]).evidence

LEMMA AboutKeepsEvidence ==
  ASSUME NEW r, NEW items, NEW refs, IsAbout(r, items, refs)
  PROVE  KeepsEvidence(r, items)
BY DEF IsAbout, KeepsEvidence

LEMMA ReasoningFacts ==
  ASSUME NEW r
  PROVE  LET items == ReasoningItems(r) IN
         /\ DOMAIN items = {"surface", "invariant", "triage", "missing", "step"}
         /\ items["surface"] = Surfaces(r) /\ items["invariant"] = Hypotheses(r)
         /\ items["triage"] = Triage(r) /\ items["missing"] = MissingEvidence(r)
         /\ items["step"] = SafeNextSteps(r)
BY DEF ReasoningItems

LEMMA ItemsKeepEvidence ==
  ASSUME NEW r, IsResult(r), NEW category \in DOMAIN ReasoningItems(r)
  PROVE  KeepsEvidence(r, ReasoningItems(r)[category])
<1>1. KeepsEvidence(r, Surfaces(r))
  <2>1. IsAbout(r, Surfaces(r), SurfaceRefs(r))
    BY SurfacesAreAbout
  <2>2. QED
    BY <2>1, AboutKeepsEvidence
<1>2. KeepsEvidence(r, Hypotheses(r))
  BY HypothesesAreAbout, AboutKeepsEvidence
<1>3. KeepsEvidence(r, Triage(r))
  BY TriageIsAbout, AboutKeepsEvidence
<1>4. KeepsEvidence(r, MissingEvidence(r))
  BY MissingIsAbout, AboutKeepsEvidence
<1>5. KeepsEvidence(r, SafeNextSteps(r))
  <2>1. LET items == SafeNextSteps(r) IN
        \A i \in DOMAIN items : items[i].related # <<>> =>
           items[i].evidence = Subject(r, items[i].related[1]).evidence
    BY StepsAreAbout
  <2>2. QED
    BY <2>1 DEF KeepsEvidence
<1>6. QED
  BY <1>1, <1>2, <1>3, <1>4, <1>5, ReasoningFacts

LEMMA InvariantResolves == PipelineInv => EveryReferenceResolves
<1> SUFFICES ASSUME PipelineInv
             PROVE  EveryReferenceResolves
  OBVIOUS
<1>1. ASSUME Written("viewer")
      PROVE  LET index == artifacts["viewer"].index IN
             \A e \in artifacts["viewer"].links :
               Cardinality({i \in DOMAIN index : index[i] = e}) = 1
  <2>1. IsResult(result) /\ AreRendered
    BY <1>1, WrittenOfResult
  <2>2. artifacts["viewer"] = Viewer(result)
    BY <1>1, <2>1, ReportsWritten
  <2>3. artifacts["viewer"].index = EvidenceIndex(result)
    BY <2>2 DEF Viewer
  <2>4. artifacts["viewer"].links = Elements(AllEvidence(result))
    BY <2>1, <2>2, LinksAreIndexed
  <2>5. QED
    BY <2>1, <2>3, <2>4, IndexIsExact
<1>2. ASSUME Written("reasoning")
      PROVE  \A category \in DOMAIN artifacts["reasoning"] :
               LET items == artifacts["reasoning"][category] IN
               \A i \in DOMAIN items : items[i].related # <<>> =>
                 items[i].evidence = Subject(result, items[i].related[1]).evidence
  <2>1. IsResult(result) /\ AreRendered
    BY <1>2, WrittenOfResult
  <2>2. artifacts["reasoning"] = ReasoningItems(result)
    BY <1>2, <2>1, ReportsWritten
  <2>3. \A category \in DOMAIN ReasoningItems(result) :
          KeepsEvidence(result, ReasoningItems(result)[category])
    BY <2>1, ItemsKeepEvidence
  <2>4. QED
    BY <2>2, <2>3 DEF KeepsEvidence
<1>3. QED
  BY <1>1, <1>2 DEF EveryReferenceResolves

(* No link of the viewer and no item of the reasoning lacks its evidence.   *)
THEOREM ReferencesResolve == PipelineSpec => []EveryReferenceResolves
BY ReportsAreOfOneResult, InvariantResolves, PTL
--------------------------------------------------------------------------------
(* The rows of the review queue and of the SARIF log.                      *)

LEMMA KindsAreLists ==
  IsList(BoundaryKinds) /\ IsList(PrimitiveKinds) /\ IsList(FlowKinds)
<1>1. BoundaryKinds = [i \in 1 .. 11 |-> BoundaryKinds[i]]
  BY DEF BoundaryKinds
<1>2. PrimitiveKinds = [i \in 1 .. 15 |-> PrimitiveKinds[i]]
  BY DEF PrimitiveKinds
<1>3. FlowKinds = [i \in 1 .. 2 |-> FlowKinds[i]]
  BY DEF FlowKinds
<1>4. QED
  BY <1>1, <1>2, <1>3, MapIsList

LEMMA KindsOfCategories ==
  /\ Elements(BoundaryKinds) \subseteq
       {"data_to_config", "data_to_database", "data_to_directory", "data_to_file",
        "data_to_job", "data_to_template", "data_to_url", "external_to_internal",
        "low_priv_to_privileged_consumer", "parser_to_consumer", "request_to_worker"}
  /\ Elements(PrimitiveKinds) \subseteq
       {"auth_context_confusion", "cache_poisoning", "config_control",
        "directory_query_control", "file_read", "file_write",
        "internal_request_trigger", "job_control", "parser_differential",
        "path_control", "query_control", "template_control", "tenant_confusion",
        "type_control", "url_control"}
  /\ Elements(FlowKinds) \subseteq {"consumer", "worker"}
<1>1. Elements(BoundaryKinds) \subseteq
        {"data_to_config", "data_to_database", "data_to_directory", "data_to_file",
         "data_to_job", "data_to_template", "data_to_url", "external_to_internal",
         "low_priv_to_privileged_consumer", "parser_to_consumer", "request_to_worker"}
  BY DEF Elements, BoundaryKinds
<1>2. Elements(PrimitiveKinds) \subseteq
        {"auth_context_confusion", "cache_poisoning", "config_control",
         "directory_query_control", "file_read", "file_write",
         "internal_request_trigger", "job_control", "parser_differential",
         "path_control", "query_control", "template_control", "tenant_confusion",
         "type_control", "url_control"}
  BY DEF Elements, PrimitiveKinds
<1>3. Elements(FlowKinds) \subseteq {"consumer", "worker"}
  BY DEF Elements, FlowKinds
<1>4. QED
  BY <1>1, <1>2, <1>3

LEMMA KindsDiffer ==
  /\ Elements(BoundaryKinds) \cap Elements(PrimitiveKinds) = {}
  /\ Elements(BoundaryKinds) \cap Elements(FlowKinds) = {}
  /\ Elements(PrimitiveKinds) \cap Elements(FlowKinds) = {}
BY KindsOfCategories

(* Each kind has a place of its own.                                       *)
LEMMA PlaceFacts ==
  ASSUME NEW a, a \in Elements(Kinds), NEW b, b \in Elements(Kinds)
  PROVE  Place(a) \in Nat /\ (a = b <=> Place(a) = Place(b))
<1>1. IsList(Kinds)
  BY KindsAreLists, ListConcat DEF Kinds
<1>2. DOMAIN Kinds \subseteq Nat
  BY <1>1, ListFacts
<1>3. \A k \in Elements(Kinds) : \E i \in DOMAIN Kinds : Kinds[i] = k
  BY DEF Elements
<1>4. Place(a) \in DOMAIN Kinds /\ Kinds[Place(a)] = a
  BY <1>3 DEF Place
<1>5. Place(b) \in DOMAIN Kinds /\ Kinds[Place(b)] = b
  BY <1>3 DEF Place
<1>6. QED
  BY <1>2, <1>4, <1>5

LEMMA KindsHaveAll ==
  Elements(Kinds) = Elements(BoundaryKinds) \cup Elements(PrimitiveKinds) \cup Elements(FlowKinds)
<1> DEFINE a == BoundaryKinds
           b == PrimitiveKinds
           c == FlowKinds
<1>1. IsList(a) /\ IsList(b) /\ IsList(c)
  BY KindsAreLists
<1>2. Kinds = (a \o b) \o c
  BY DEF Kinds
<1> HIDE DEF a, b, c
<1>3. IsList(a \o b) /\ Elements(a \o b) = Elements(a) \cup Elements(b)
  BY <1>1, ListConcat, ElementsOfConcat
<1>4. Elements((a \o b) \o c) = Elements(a \o b) \cup Elements(c)
  BY <1>1, <1>3, ElementsOfConcat
<1>5. QED
  BY <1>2, <1>3, <1>4 DEF a, b, c

Categories == {"boundary", "primitive", "static_flow"}

ListOf(r, category) ==
  IF category = "boundary" THEN r.boundaries
  ELSE IF category = "primitive" THEN r.primitives ELSE r.flows

KindsOf(category) ==
  IF category = "boundary" THEN Elements(BoundaryKinds)
  ELSE IF category = "primitive" THEN Elements(PrimitiveKinds) ELSE Elements(FlowKinds)

LEMMA KindsTell ==
  ASSUME NEW a \in Categories, NEW b \in Categories, NEW k, k \in KindsOf(a), k \in KindsOf(b)
  PROVE  a = b /\ k \in Elements(Kinds)
BY KindsDiffer, KindsHaveAll DEF Categories, KindsOf

LEMMA KindOfCandidate ==
  ASSUME NEW r, IsResult(r), NEW category \in Categories, NEW n \in DOMAIN ListOf(r, category)
  PROVE  ListOf(r, category)[n].type \in KindsOf(category)
BY DEF IsResult, IsReportable, Categories, ListOf, KindsOf

(* What is listed is finite.                                               *)
LEMMA ListedIsFinite ==
  ASSUME NEW n \in Nat, NEW s, s = [i \in 1 .. n |-> s[i]], NEW T, T \subseteq Elements(s)
  PROVE  IsFiniteSet(T)
<1>1. s \in Seq(Elements(s))
  BY MapIsList DEF IsList
<1>2. IsFiniteSet(Elements(s))
  BY <1>1, ElementsAreFinite
<1>3. QED
  BY <1>2, FS_Subset

LEMMA KeywordsAreFinite ==
  ASSUME NEW mode \in Modes, mode # "all"
  PROVE  IsFiniteSet(Profile(mode).keywords)
<1>1. CASE mode = "import-upload"
  <2> DEFINE s == <<"import", "upload", "parser", "file", "config", "directory",
                    "archive", "zip", "path">>
  <2>1. s = [i \in 1 .. 9 |-> s[i]]
    OBVIOUS
  <2>2. Profile(mode).keywords \subseteq Elements(s)
    <3>1. \A i \in 1 .. 9 : s[i] \in Elements(s)
      BY DEF Elements
    <3>2. /\ "import" \in Elements(s) /\ "upload" \in Elements(s) /\ "parser" \in Elements(s)
          /\ "file" \in Elements(s) /\ "config" \in Elements(s) /\ "directory" \in Elements(s)
          /\ "archive" \in Elements(s) /\ "zip" \in Elements(s) /\ "path" \in Elements(s)
      <4>1. /\ s[1] = "import" /\ s[2] = "upload" /\ s[3] = "parser" /\ s[4] = "file"
            /\ s[5] = "config" /\ s[6] = "directory" /\ s[7] = "archive" /\ s[8] = "zip"
            /\ s[9] = "path"
        OBVIOUS
      <4> HIDE DEF s
      <4>2. /\ s[1] \in Elements(s) /\ s[2] \in Elements(s) /\ s[3] \in Elements(s)
            /\ s[4] \in Elements(s) /\ s[5] \in Elements(s) /\ s[6] \in Elements(s)
            /\ s[7] \in Elements(s) /\ s[8] \in Elements(s) /\ s[9] \in Elements(s)
        BY <3>1
      <4>3. QED
        BY <4>1, <4>2
    <3> HIDE DEF s
    <3>3. QED
      BY <1>1, <3>2 DEF Profile
  <2> HIDE DEF s
  <2>3. QED
    BY <2>1, <2>2, ListedIsFinite
<1>2. CASE mode = "worker-queue"
  <2> DEFINE s == <<"worker", "queue", "job", "task", "async">>
  <2>1. s = [i \in 1 .. 5 |-> s[i]]
    OBVIOUS
  <2>2. Profile(mode).keywords \subseteq Elements(s)
    BY <1>2 DEF Profile, Elements
  <2> HIDE DEF s
  <2>3. QED
    BY <2>1, <2>2, ListedIsFinite
<1>3. CASE mode = "template-workflow"
  <2> DEFINE s == <<"template", "workflow", "render", "parser", "config">>
  <2>1. s = [i \in 1 .. 5 |-> s[i]]
    OBVIOUS
  <2>2. Profile(mode).keywords \subseteq Elements(s)
    BY <1>3 DEF Profile, Elements
  <2> HIDE DEF s
  <2>3. QED
    BY <2>1, <2>2, ListedIsFinite
<1>4. CASE mode = "url-internal-request"
  <2> DEFINE s == <<"url", "internal", "http", "redirect", "callback", "fetch",
                    "webhook", "network", "outbound">>
  <2>1. s = [i \in 1 .. 9 |-> s[i]]
    OBVIOUS
  <2>2. Profile(mode).keywords \subseteq Elements(s)
    BY <1>4 DEF Profile, Elements
  <2> HIDE DEF s
  <2>3. QED
    BY <2>1, <2>2, ListedIsFinite
<1>5. QED
  BY <1>1, <1>2, <1>3, <1>4 DEF Modes

(* A score is a number, and a match is a score that is not 0.              *)
LEMMA FocusFacts ==
  ASSUME NEW mode \in Modes, NEW category, NEW c
  PROVE  LET focus == Focus(category, c, mode) IN
         /\ focus \in [match : BOOLEAN, score : Nat]
         /\ ~focus.match => focus.score = 0
<1>1. CASE mode = "all"
  BY <1>1 DEF Focus
<1>2. CASE mode # "all"
  <2> DEFINE words == IF category = "static_flow" THEN c.words ELSE Explained(c.type)
             hits == words \cap Profile(mode).keywords
             liked == c.type \in Profile(mode).types
             score == (IF liked THEN 50 ELSE 0) + 10 * Cardinality(hits)
  <2>1. Cardinality(hits) \in Nat
    <3>1. hits \subseteq Profile(mode).keywords
      OBVIOUS
    <3> HIDE DEF hits
    <3>2. QED
      BY <1>2, <3>1, KeywordsAreFinite, FS_Subset, FS_CardinalityType
  <2> HIDE DEF hits
  <2>2. score \in Nat
    BY <2>1
  <2>3. \/ Focus(category, c, mode) = Lens(0)
        \/ Focus(category, c, mode) = Lens(score)
    BY <1>2, Zenon DEF Focus, hits
  <2> HIDE DEF score
  <2>4. \A n \in Nat : /\ Lens(n) \in [match : BOOLEAN, score : Nat]
                       /\ ~Lens(n).match => Lens(n).score = 0
    <3> SUFFICES ASSUME NEW n \in Nat
                 PROVE  /\ Lens(n) \in [match : BOOLEAN, score : Nat]
                        /\ ~Lens(n).match => Lens(n).score = 0
      OBVIOUS
    <3>1. (n > 0) \in BOOLEAN
      OBVIOUS
    <3>2. Lens(n) \in [match : BOOLEAN, score : Nat]
      BY <3>1, Zenon DEF Lens
    <3>3. (Lens(n).match <=> n > 0) /\ Lens(n).score = n
      BY DEF Lens
    <3>4. QED
      BY <3>2, <3>3
  <2>5. QED
    BY <2>2, <2>3, <2>4
<1>3. QED
  BY <1>1, <1>2

RowOf(r, mode, category, n) == Rows(category, ListOf(r, category), mode)[n]

LEMMA RowFields ==
  ASSUME NEW r, NEW mode, NEW category, NEW n \in DOMAIN ListOf(r, category)
  PROVE  LET row == RowOf(r, mode, category, n) IN
         /\ row.category = category /\ row.n = n
         /\ row.kind = ListOf(r, category)[n].type
         /\ row.focus = Focus(category, ListOf(r, category)[n], mode)
BY DEF RowOf, Rows

LEMMA RowsFacts ==
  ASSUME NEW r, NEW mode, NEW category, IsList(ListOf(r, category))
  PROVE  LET rows == Rows(category, ListOf(r, category), mode) IN
         /\ IsList(rows) /\ AllDiffer(rows)
         /\ Elements(rows) = {RowOf(r, mode, category, n) : n \in DOMAIN ListOf(r, category)}
<1> DEFINE list == ListOf(r, category)
           rows == Rows(category, list, mode)
<1>1. Len(list) \in Nat /\ DOMAIN list = 1 .. Len(list)
  BY ListFacts
<1>2. rows = [i \in 1 .. Len(list) |-> rows[i]]
  BY <1>1 DEF Rows
<1>3. \A i \in DOMAIN list : rows[i] = RowOf(r, mode, category, i) /\ rows[i].n = i
  BY DEF RowOf, Rows
<1> HIDE DEF rows, list
<1>4. IsList(rows) /\ DOMAIN rows = DOMAIN list
  BY <1>1, <1>2, MapIsList
<1>5. AllDiffer(rows)
  BY <1>3, <1>4 DEF AllDiffer
<1>6. Elements(rows) = {RowOf(r, mode, category, n) : n \in DOMAIN list}
  BY <1>3, <1>4 DEF Elements
<1>7. QED
  BY <1>4, <1>5, <1>6 DEF rows, list

(* The rows of all candidates, each once. *)
RowNames(r) == UNION {{category} \X DOMAIN ListOf(r, category) : category \in Categories}

AreAllRows(rows, r, mode) ==
  /\ IsList(rows)
  /\ \A i \in DOMAIN rows :
       /\ <<rows[i].category, rows[i].n>> \in RowNames(r)
       /\ rows[i] = RowOf(r, mode, rows[i].category, rows[i].n)
  /\ \A i, j \in DOMAIN rows :
       rows[i].category = rows[j].category /\ rows[i].n = rows[j].n => i = j
  /\ \A name \in RowNames(r) : \E i \in DOMAIN rows :
       rows[i].category = name[1] /\ rows[i].n = name[2]

LEMMA AllRowsFacts ==
  ASSUME NEW r, IsResult(r), NEW mode
  PROVE  AreAllRows(AllRows(r, mode), r, mode)
<1> DEFINE a == Rows("boundary", r.boundaries, mode)
           b == Rows("primitive", r.primitives, mode)
           c == Rows("static_flow", r.flows, mode)
           of(category) == {RowOf(r, mode, category, n) : n \in DOMAIN ListOf(r, category)}
<1>1. /\ ListOf(r, "boundary") = r.boundaries /\ ListOf(r, "primitive") = r.primitives
      /\ ListOf(r, "static_flow") = r.flows
  BY DEF ListOf
<1>2. IsList(r.boundaries) /\ IsList(r.primitives) /\ IsList(r.flows)
  BY DEF IsResult, HasEvidence
<1>3. IsList(a) /\ AllDiffer(a) /\ Elements(a) = of("boundary")
  <2>1. IsList(ListOf(r, "boundary"))
    BY <1>1, <1>2
  <2>2. QED
    BY <1>1, <2>1, RowsFacts
<1>4. IsList(b) /\ AllDiffer(b) /\ Elements(b) = of("primitive")
  <2>1. IsList(ListOf(r, "primitive"))
    BY <1>1, <1>2
  <2>2. QED
    BY <1>1, <2>1, RowsFacts
<1>5. IsList(c) /\ AllDiffer(c) /\ Elements(c) = of("static_flow")
  <2>1. IsList(ListOf(r, "static_flow"))
    BY <1>1, <1>2
  <2>2. QED
    BY <1>1, <2>1, RowsFacts
<1>6. Pick(a, {i \in DOMAIN r.boundaries : r.boundaries[i].evidence # <<>>}) = a
  <2>1. {i \in DOMAIN r.boundaries : r.boundaries[i].evidence # <<>>} = DOMAIN r.boundaries
    BY DEF IsResult, IsReportable
  <2>2. DOMAIN a = DOMAIN r.boundaries
    BY DEF Rows
  <2> HIDE DEF a
  <2>3. QED
    BY <1>3, <2>1, <2>2, PickAll
<1>7. AllRows(r, mode) = (a \o b) \o c
  BY <1>6 DEF AllRows
<1>8. \A category \in Categories : \A row \in of(category) :
        /\ row.category = category /\ row.n \in DOMAIN ListOf(r, category)
        /\ row = RowOf(r, mode, row.category, row.n)
  BY RowFields
<1> HIDE DEF a, b, c
<1>9. /\ of("boundary") \cap of("primitive") = {}
      /\ (of("boundary") \cup of("primitive")) \cap of("static_flow") = {}
  <2> HIDE DEF of
  <2>1. QED
    BY <1>8 DEF Categories
<1> DEFINE ab == a \o b
           all == ab \o c
<1>10. IsList(ab) /\ AllDiffer(ab) /\ Elements(ab) = of("boundary") \cup of("primitive")
  <2> HIDE DEF of
  <2>1. Elements(a) \cap Elements(b) = {}
    BY <1>3, <1>4, <1>9
  <2>2. QED
    BY <1>3, <1>4, <2>1, ListConcat, ElementsOfConcat, ConcatDiffers
<1>11. IsList(all) /\ AllDiffer(all)
        /\ Elements(all) = of("boundary") \cup of("primitive") \cup of("static_flow")
  <2> HIDE DEF of, ab
  <2>1. Elements(ab) \cap Elements(c) = {}
    BY <1>5, <1>9, <1>10
  <2>2. QED
    BY <1>5, <1>10, <2>1, ListConcat, ElementsOfConcat, ConcatDiffers
<1> HIDE DEF all
<1>12. \A i \in DOMAIN all : \E category \in Categories : all[i] \in of(category)
  <2> HIDE DEF of
  <2>1. QED
    BY <1>11 DEF Elements, Categories
<1>13. \A i \in DOMAIN all :
         /\ <<all[i].category, all[i].n>> \in RowNames(r)
         /\ all[i] = RowOf(r, mode, all[i].category, all[i].n)
  <2> HIDE DEF of
  <2>1. QED
    BY <1>8, <1>12 DEF RowNames
<1>14. ASSUME NEW i \in DOMAIN all, NEW j \in DOMAIN all,
              all[i].category = all[j].category, all[i].n = all[j].n
       PROVE  i = j
  <2>1. all[i] = all[j]
    BY <1>13, <1>14
  <2>2. QED
    BY <1>11, <2>1 DEF AllDiffer
<1>15. ASSUME NEW name \in RowNames(r)
       PROVE  \E i \in DOMAIN all : all[i].category = name[1] /\ all[i].n = name[2]
  <2>1. PICK category \in Categories : name \in {category} \X DOMAIN ListOf(r, category)
    BY DEF RowNames
  <2>2. name[1] = category /\ name[2] \in DOMAIN ListOf(r, category)
    BY <2>1
  <2> DEFINE row == RowOf(r, mode, category, name[2])
  <2>3. row \in of(category) /\ row.category = category /\ row.n = name[2]
    BY <2>2, RowFields
  <2> HIDE DEF row
  <2>4. row \in Elements(all)
    BY <1>11, <2>3 DEF Categories
  <2>5. QED
    BY <2>2, <2>3, <2>4 DEF Elements
<1>16. AllRows(r, mode) = all
  BY <1>7 DEF all, ab
<1> HIDE DEF of
<1>17. QED
  BY <1>11, <1>13, <1>14, <1>15, <1>16 DEF AreAllRows
--------------------------------------------------------------------------------
(* The order of the log, as an order of the names of candidates.           *)
NameOf(row) == <<row.category, row.n>>
KindAt(r, name) == ListOf(r, name[1])[name[2]].type

KeyBefore(r, a, b) ==
  \/ Place(KindAt(r, a)) < Place(KindAt(r, b))
  \/ KindAt(r, a) = KindAt(r, b) /\ IdBefore(a[2], b[2])

LEMMA NameFacts ==
  ASSUME NEW r, IsResult(r), NEW name \in RowNames(r)
  PROVE  /\ name = <<name[1], name[2]>> /\ name[1] \in Categories
         /\ name[2] \in DOMAIN ListOf(r, name[1]) /\ name[2] \in Ids
         /\ KindAt(r, name) \in KindsOf(name[1]) /\ KindAt(r, name) \in Elements(Kinds)
<1>1. PICK category \in Categories : name \in {category} \X DOMAIN ListOf(r, category)
  BY DEF RowNames
<1>2. name = <<name[1], name[2]>> /\ name[1] = category /\ name[2] \in DOMAIN ListOf(r, category)
  BY <1>1
<1>3. IsList(ListOf(r, category))
  BY <1>1 DEF IsResult, HasEvidence, ListOf, Categories
<1>4. name[2] \in Ids
  BY <1>2, <1>3, ListFacts DEF Ids
<1>5. KindAt(r, name) \in KindsOf(name[1])
  BY <1>1, <1>2, KindOfCandidate DEF KindAt
<1>6. KindAt(r, name) \in Elements(Kinds)
  BY <1>1, <1>2, <1>5, KindsTell
<1>7. QED
  BY <1>1, <1>2, <1>4, <1>5, <1>6

LEMMA KeysAreOrdered ==
  ASSUME NEW r, IsResult(r)
  PROVE  /\ \A a, b \in RowNames(r) : a = b \/ KeyBefore(r, a, b) \/ KeyBefore(r, b, a)
         /\ \A a \in RowNames(r) : ~KeyBefore(r, a, a)
         /\ \A a, b, c \in RowNames(r) :
              KeyBefore(r, a, b) /\ KeyBefore(r, b, c) => KeyBefore(r, a, c)
<1> DEFINE place(a) == Place(KindAt(r, a))
<1>1. \A a \in RowNames(r) :
        /\ a = <<a[1], a[2]>> /\ a[1] \in Categories /\ a[2] \in Ids
        /\ KindAt(r, a) \in KindsOf(a[1]) /\ KindAt(r, a) \in Elements(Kinds)
  BY NameFacts
<1>2. \A a \in RowNames(r) : place(a) \in Nat
  BY <1>1, PlaceFacts
<1>3. \A a, b \in RowNames(r) : KindAt(r, a) = KindAt(r, b) <=> place(a) = place(b)
  BY <1>1, PlaceFacts
<1>4. \A a, b \in RowNames(r) :
        KeyBefore(r, a, b) <=> \/ place(a) < place(b)
                               \/ place(a) = place(b) /\ IdBefore(a[2], b[2])
  BY <1>3 DEF KeyBefore
<1>5. ASSUME NEW a \in RowNames(r), NEW b \in RowNames(r), place(a) = place(b), a[2] = b[2]
      PROVE  a = b
  <2>1. KindAt(r, a) = KindAt(r, b)
    BY <1>3, <1>5
  <2>2. a[1] = b[1]
    BY <1>1, <2>1, KindsTell
  <2>3. QED
    BY <1>1, <1>5, <2>2
<1> HIDE DEF place
<1>6. ASSUME NEW a \in RowNames(r), NEW b \in RowNames(r)
      PROVE  a = b \/ KeyBefore(r, a, b) \/ KeyBefore(r, b, a)
  <2>1. a[2] = b[2] \/ IdBefore(a[2], b[2]) \/ IdBefore(b[2], a[2])
    BY <1>1, IdsAreOrdered
  <2>2. place(a) < place(b) \/ place(b) < place(a) \/ place(a) = place(b)
    BY <1>2
  <2>3. QED
    BY <1>4, <1>5, <2>1, <2>2
<1>7. ASSUME NEW a \in RowNames(r)
      PROVE  ~KeyBefore(r, a, a)
  <2>1. ~IdBefore(a[2], a[2])
    BY <1>1, IdsAreOrdered
  <2>2. ~(place(a) < place(a))
    BY <1>2
  <2>3. QED
    BY <1>4, <2>1, <2>2
<1>8. ASSUME NEW a \in RowNames(r), NEW b \in RowNames(r), NEW c \in RowNames(r),
             KeyBefore(r, a, b), KeyBefore(r, b, c)
      PROVE  KeyBefore(r, a, c)
  <2>1. IdBefore(a[2], b[2]) /\ IdBefore(b[2], c[2]) => IdBefore(a[2], c[2])
    BY <1>1, IdsAreOrdered
  <2>2. place(a) \in Nat /\ place(b) \in Nat /\ place(c) \in Nat
    BY <1>2
  <2>3. /\ place(a) < place(b) \/ (place(a) = place(b) /\ IdBefore(a[2], b[2]))
        /\ place(b) < place(c) \/ (place(b) = place(c) /\ IdBefore(b[2], c[2]))
    BY <1>4, <1>8
  <2>4. place(a) < place(c) \/ (place(a) = place(c) /\ IdBefore(a[2], c[2]))
    BY <2>1, <2>2, <2>3
  <2>5. QED
    BY <1>4, <2>4
<1>9. QED
  BY <1>6, <1>7, <1>8

LEMMA RowFacts ==
  ASSUME NEW r, IsResult(r), NEW mode \in Modes, NEW rows, AreAllRows(rows, r, mode),
         NEW i \in DOMAIN rows
  PROVE  /\ NameOf(rows[i]) \in RowNames(r) /\ rows[i].category \in Categories
         /\ rows[i].n \in DOMAIN ListOf(r, rows[i].category)
         /\ rows[i].kind = KindAt(r, NameOf(rows[i]))
         /\ rows[i].focus = Focus(rows[i].category, ListOf(r, rows[i].category)[rows[i].n], mode)
         /\ rows[i].focus \in [match : BOOLEAN, score : Nat]
         /\ ~rows[i].focus.match => rows[i].focus.score = 0
<1> DEFINE category == rows[i].category
           n == rows[i].n
<1>1. <<category, n>> \in RowNames(r) /\ rows[i] = RowOf(r, mode, category, n)
  BY DEF AreAllRows
<1>2. NameOf(rows[i]) = <<category, n>>
  BY DEF NameOf
<1> HIDE DEF category, n
<1>3. category \in Categories /\ n \in DOMAIN ListOf(r, category)
  BY <1>1, NameFacts
<1>4. /\ RowOf(r, mode, category, n).kind = ListOf(r, category)[n].type
      /\ RowOf(r, mode, category, n).focus = Focus(category, ListOf(r, category)[n], mode)
  BY <1>3, RowFields
<1>5. KindAt(r, <<category, n>>) = ListOf(r, category)[n].type
  BY DEF KindAt
<1>6. /\ Focus(category, ListOf(r, category)[n], mode) \in [match : BOOLEAN, score : Nat]
      /\ ~Focus(category, ListOf(r, category)[n], mode).match
           => Focus(category, ListOf(r, category)[n], mode).score = 0
  BY FocusFacts
<1>7. rows[i].focus = Focus(category, ListOf(r, category)[n], mode)
  BY <1>1, <1>4
<1>8. rows[i].kind = KindAt(r, <<category, n>>)
  BY <1>1, <1>4, <1>5
<1>9. QED
  BY <1>1, <1>2, <1>3, <1>6, <1>7, <1>8 DEF category, n

LEMMA ByKindIsByKey ==
  ASSUME NEW r, IsResult(r), NEW mode \in Modes, NEW rows, AreAllRows(rows, r, mode),
         NEW i \in DOMAIN rows, NEW j \in DOMAIN rows
  PROVE  <<i, j>> \in ByKind(rows) <=> KeyBefore(r, NameOf(rows[i]), NameOf(rows[j]))
<1>1. /\ rows[i].kind = KindAt(r, NameOf(rows[i])) /\ rows[j].kind = KindAt(r, NameOf(rows[j]))
      /\ NameOf(rows[i])[2] = rows[i].n /\ NameOf(rows[j])[2] = rows[j].n
  BY RowFacts DEF NameOf
<1>2. <<i, j>> \in ByKind(rows) <=>
        \/ Place(rows[i].kind) < Place(rows[j].kind)
        \/ rows[i].kind = rows[j].kind /\ IdBefore(rows[i].n, rows[j].n)
  BY DEF ByKind, Pairs
<1>3. QED
  BY <1>1, <1>2 DEF KeyBefore

LEMMA LogIsOrdered ==
  ASSUME NEW r, IsResult(r), NEW mode \in Modes, NEW rows, AreAllRows(rows, r, mode)
  PROVE  StrictOrder(ByKind(rows), DOMAIN rows)
<1>1. \A i \in DOMAIN rows : NameOf(rows[i]) \in RowNames(r)
  BY RowFacts
<1>2. \A i, j \in DOMAIN rows : NameOf(rows[i]) = NameOf(rows[j]) => i = j
  BY DEF AreAllRows, NameOf
<1>3. \A i, j \in DOMAIN rows :
        <<i, j>> \in ByKind(rows) <=> KeyBefore(r, NameOf(rows[i]), NameOf(rows[j]))
  BY ByKindIsByKey
<1>4. QED
  BY <1>1, <1>2, <1>3, KeysAreOrdered DEF StrictOrder

(* By one number, then by another one downwards, then in a given order.    *)
LEMMA OrderedByNumbers ==
  ASSUME NEW S, NEW K, StrictOrder(K, S), NEW m \in [S -> Nat], NEW s \in [S -> Nat], NEW R,
         \A a, b \in S : <<a, b>> \in R <=>
           \/ m[a] < m[b]
           \/ m[a] = m[b] /\ s[b] < s[a]
           \/ m[a] = m[b] /\ s[b] = s[a] /\ <<a, b>> \in K
  PROVE  StrictOrder(R, S)
<1>1. \A a \in S : m[a] \in Nat /\ s[a] \in Nat
  OBVIOUS
<1>2. ASSUME NEW a \in S, NEW b \in S
      PROVE  a = b \/ <<a, b>> \in R \/ <<b, a>> \in R
  <2>1. a = b \/ <<a, b>> \in K \/ <<b, a>> \in K
    BY DEF StrictOrder
  <2>2. QED
    BY <1>1, <2>1
<1>3. ASSUME NEW a \in S
      PROVE  <<a, a>> \notin R
  BY <1>1 DEF StrictOrder
<1>4. ASSUME NEW a \in S, NEW b \in S, NEW c \in S, <<a, b>> \in R, <<b, c>> \in R
      PROVE  <<a, c>> \in R
  <2>1. <<a, b>> \in K /\ <<b, c>> \in K => <<a, c>> \in K
    BY DEF StrictOrder
  <2>2. QED
    BY <1>1, <1>4, <2>1
<1>5. QED
  BY <1>2, <1>3, <1>4 DEF StrictOrder

LEMMA QueueIsOrdered ==
  ASSUME NEW r, IsResult(r), NEW mode \in Modes, NEW rows, AreAllRows(rows, r, mode)
  PROVE  StrictOrder(ByFocus(rows), DOMAIN rows)
<1> DEFINE m == [i \in DOMAIN rows |-> IF rows[i].focus.match THEN 0 ELSE 1]
           s == [i \in DOMAIN rows |-> rows[i].focus.score]
<1>1. \A i \in DOMAIN rows : rows[i].focus \in [match : BOOLEAN, score : Nat]
  BY RowFacts
<1>2. m \in [DOMAIN rows -> Nat] /\ s \in [DOMAIN rows -> Nat]
  BY <1>1
<1>3. ASSUME NEW i \in DOMAIN rows, NEW j \in DOMAIN rows
      PROVE  <<i, j>> \in ByFocus(rows) <=>
               \/ m[i] < m[j]
               \/ m[i] = m[j] /\ s[j] < s[i]
               \/ m[i] = m[j] /\ s[j] = s[i] /\ <<i, j>> \in ByKind(rows)
  <2> DEFINE a == rows[i].focus
             b == rows[j].focus
  <2>1. <<i, j>> \in ByFocus(rows) <=>
          \/ a.match /\ ~b.match
          \/ a.match = b.match /\ a.score > b.score
          \/ a = b /\ <<i, j>> \in ByKind(rows)
    BY DEF ByFocus, Pairs
  <2>2. /\ a \in [match : BOOLEAN, score : Nat] /\ b \in [match : BOOLEAN, score : Nat]
        /\ m[i] = IF a.match THEN 0 ELSE 1
        /\ m[j] = IF b.match THEN 0 ELSE 1
        /\ s[i] = a.score /\ s[j] = b.score
    BY <1>1
  <2> HIDE DEF m, s, a, b
  <2>3. /\ a = [match |-> a.match, score |-> a.score] /\ b = [match |-> b.match, score |-> b.score]
        /\ a.match \in BOOLEAN /\ b.match \in BOOLEAN /\ a.score \in Nat /\ b.score \in Nat
    BY <2>2
  <2>4. a = b <=> a.match = b.match /\ a.score = b.score
    BY <2>3
  <2>5. (a.match = b.match <=> m[i] = m[j]) /\ (a.match /\ ~b.match <=> m[i] < m[j])
    BY <2>2, <2>3
  <2>6. a.score > b.score <=> s[j] < s[i]
    BY <2>2, <2>3
  <2>7. a.score = b.score <=> s[j] = s[i]
    BY <2>2
  <2>8. QED
    BY <2>1, <2>4, <2>5, <2>6, <2>7
<1> HIDE DEF m, s
<1>4. StrictOrder(ByKind(rows), DOMAIN rows)
  BY LogIsOrdered
<1>5. QED
  BY <1>2, <1>3, <1>4, OrderedByNumbers

(* Sorting keeps the rows, each once.                                      *)
IsSortedRows(sorted, rows, R, r, mode) ==
  /\ AreAllRows(sorted, r, mode)
  /\ Len(sorted) = Len(rows) /\ Len(rows) \in Nat /\ DOMAIN sorted = 1 .. Len(rows)
  /\ \A i, j \in 1 .. Len(rows) : i < j =>
       \E k, l \in DOMAIN rows : sorted[i] = rows[k] /\ sorted[j] = rows[l] /\ <<k, l>> \in R

LEMMA SortedRows ==
  ASSUME NEW r, NEW mode, NEW rows, AreAllRows(rows, r, mode),
         NEW R, StrictOrder(R, DOMAIN rows)
  PROVE  IsSortedRows(Sorted(rows, R), rows, R, r, mode)
<1> DEFINE n == Len(rows)
           sorted == Sorted(rows, R)
<1>1. n \in Nat /\ DOMAIN rows = 1 .. n
  BY ListFacts DEF AreAllRows
<1>2. PICK p : Arranges(p, n, R) /\ sorted = Along(rows, p, n)
  BY SortedByPlaces DEF AreAllRows
<1> HIDE DEF n, sorted
<1>3. /\ p \in [1 .. n -> 1 .. n]
      /\ \A i, j \in 1 .. n : i < j => <<p[i], p[j]>> \in R
      /\ \A k \in 1 .. n : \E i \in 1 .. n : p[i] = k
  BY <1>2 DEF Arranges
<1>4. \A i, j \in 1 .. n : p[i] = p[j] => i = j
  BY <1>1, <1>2, ArrangedOnce
<1>5. sorted = [i \in 1 .. n |-> rows[p[i]]]
  BY <1>2 DEF Along
<1>6. /\ IsList(sorted) /\ Len(sorted) = n /\ DOMAIN sorted = 1 .. n
      /\ \A i \in 1 .. n : sorted[i] = rows[p[i]]
  BY <1>1, <1>5, MapIsList
<1>7. AreAllRows(sorted, r, mode)
  <2>1. ASSUME NEW i \in DOMAIN sorted
        PROVE  /\ <<sorted[i].category, sorted[i].n>> \in RowNames(r)
               /\ sorted[i] = RowOf(r, mode, sorted[i].category, sorted[i].n)
    <3>1. p[i] \in DOMAIN rows /\ sorted[i] = rows[p[i]]
      BY <1>1, <1>3, <1>6
    <3>2. QED
      BY <3>1 DEF AreAllRows
  <2>2. ASSUME NEW i \in DOMAIN sorted, NEW j \in DOMAIN sorted,
               sorted[i].category = sorted[j].category, sorted[i].n = sorted[j].n
        PROVE  i = j
    <3>1. /\ p[i] \in DOMAIN rows /\ sorted[i] = rows[p[i]]
          /\ p[j] \in DOMAIN rows /\ sorted[j] = rows[p[j]]
      BY <1>1, <1>3, <1>6
    <3>2. p[i] = p[j]
      BY <2>2, <3>1 DEF AreAllRows
    <3>3. QED
      BY <1>4, <1>6, <3>2
  <2>3. ASSUME NEW name \in RowNames(r)
        PROVE  \E i \in DOMAIN sorted : sorted[i].category = name[1] /\ sorted[i].n = name[2]
    <3>1. PICK k \in 1 .. n : rows[k].category = name[1] /\ rows[k].n = name[2]
      BY <1>1 DEF AreAllRows
    <3>2. PICK i \in 1 .. n : p[i] = k
      BY <1>3
    <3>3. QED
      BY <1>6, <3>1, <3>2
  <2>4. QED
    BY <1>6, <2>1, <2>2, <2>3 DEF AreAllRows
<1>8. \A i, j \in 1 .. n : i < j =>
        \E k, l \in DOMAIN rows : sorted[i] = rows[k] /\ sorted[j] = rows[l] /\ <<k, l>> \in R
  BY <1>1, <1>3, <1>6
<1>9. QED
  BY <1>1, <1>6, <1>7, <1>8 DEF IsSortedRows, n, sorted

(* As many rows as names.                                                  *)
LEMMA RowsAreCounted ==
  ASSUME NEW r, NEW mode, NEW rows, AreAllRows(rows, r, mode)
  PROVE  /\ {<<rows[i].category, rows[i].n>> : i \in DOMAIN rows} = RowNames(r)
         /\ Len(rows) = Cardinality(RowNames(r))
<1> DEFINE f == [i \in DOMAIN rows |-> <<rows[i].category, rows[i].n>>]
<1>1. Len(rows) \in Nat /\ DOMAIN rows = 1 .. Len(rows)
  BY ListFacts DEF AreAllRows
<1>2. f \in [DOMAIN rows -> RowNames(r)]
  BY DEF AreAllRows
<1>3. \A i, j \in DOMAIN rows : f[i] = f[j] => i = j
  BY DEF AreAllRows
<1>4. \A name \in RowNames(r) : \E i \in DOMAIN rows : f[i] = name
  <2> SUFFICES ASSUME NEW name \in RowNames(r)
               PROVE  \E i \in DOMAIN rows : f[i] = name
    OBVIOUS
  <2>1. name = <<name[1], name[2]>>
    BY DEF RowNames
  <2>2. PICK i \in DOMAIN rows : rows[i].category = name[1] /\ rows[i].n = name[2]
    BY DEF AreAllRows
  <2>3. QED
    BY <2>1, <2>2
<1>5. {f[i] : i \in DOMAIN rows} = RowNames(r)
  BY <1>2, <1>4
<1> HIDE DEF f
<1>6. f \in Bijection(DOMAIN rows, RowNames(r))
  BY <1>2, <1>3, <1>4 DEF Bijection, Injection, Surjection, IsInjective
<1>7. IsFiniteSet(DOMAIN rows) /\ Cardinality(DOMAIN rows) = Len(rows)
  <2> DEFINE n == Len(rows)
  <2>1. n \in Nat /\ DOMAIN rows = 1 .. n
    BY <1>1
  <2> HIDE DEF n
  <2>2. IsFiniteSet(1 .. n) /\ Cardinality(1 .. n) = n
    BY <2>1, FS_Interval
  <2>3. QED
    BY <2>1, <2>2 DEF n
<1>8. Cardinality(RowNames(r)) = Cardinality(DOMAIN rows)
  BY <1>6, <1>7, FS_Bijection DEF ExistsBijection
<1>9. QED
  BY <1>5, <1>7, <1>8 DEF f

(* In the queue a match is never after another candidate, a score never    *)
(* after a smaller one, and of equals the first is the first of the log.   *)
QueuedBefore(r, a, b) ==
  /\ b.focus.match => a.focus.match
  /\ b.focus.score <= a.focus.score
  /\ a.focus = b.focus => KeyBefore(r, NameOf(a), NameOf(b))

LEMMA QueueOrder ==
  ASSUME NEW r, IsResult(r), NEW mode \in Modes, NEW rows, AreAllRows(rows, r, mode),
         NEW k \in DOMAIN rows, NEW l \in DOMAIN rows, <<k, l>> \in ByFocus(rows)
  PROVE  QueuedBefore(r, rows[k], rows[l])
<1> DEFINE a == rows[k].focus
           b == rows[l].focus
<1>1. /\ a \in [match : BOOLEAN, score : Nat] /\ b \in [match : BOOLEAN, score : Nat]
      /\ ~b.match => b.score = 0
  BY RowFacts
<1>2. \/ a.match /\ ~b.match
      \/ a.match = b.match /\ a.score > b.score
      \/ a = b /\ <<k, l>> \in ByKind(rows)
  BY DEF ByFocus
<1>3. <<k, l>> \in ByKind(rows) => KeyBefore(r, NameOf(rows[k]), NameOf(rows[l]))
  BY ByKindIsByKey
<1> HIDE DEF a, b
<1>4. a.match \in BOOLEAN /\ b.match \in BOOLEAN /\ a.score \in Nat /\ b.score \in Nat
  BY <1>1
<1>5. b.match => a.match
  BY <1>2, <1>4
<1>6. b.score <= a.score
  BY <1>1, <1>2, <1>4
<1>7. a = b => KeyBefore(r, NameOf(rows[k]), NameOf(rows[l]))
  BY <1>2, <1>3, <1>4
<1>8. QED
  BY <1>5, <1>6, <1>7 DEF QueuedBefore, a, b

(* The log in terms of its sorted rows.                                    *)
LogRows(r) == Sorted(AllRows(r, "all"), ByKind(AllRows(r, "all")))

LEMMA LogFacts ==
  ASSUME NEW r, IsResult(r)
  PROVE  /\ AreAllRows(LogRows(r), r, "all") /\ Len(LogRows(r)) \in Nat
         /\ DOMAIN LogRows(r) = 1 .. Len(LogRows(r))
         /\ \A i, j \in DOMAIN LogRows(r) :
              i < j => KeyBefore(r, NameOf(LogRows(r)[i]), NameOf(LogRows(r)[j]))
         /\ Len(Sarif(r).results) = Len(LogRows(r)) /\ DOMAIN Sarif(r).results = DOMAIN LogRows(r)
         /\ \A i \in DOMAIN LogRows(r) :
              /\ Sarif(r).results[i].category = LogRows(r)[i].category
              /\ Sarif(r).results[i].n = LogRows(r)[i].n
<1> DEFINE rows == AllRows(r, "all")
           log == LogRows(r)
           written == Sarif(r).results
<1>1. "all" \in Modes
  BY DEF Modes
<1>2. AreAllRows(rows, r, "all")
  BY AllRowsFacts
<1>3. log = Sorted(rows, ByKind(rows))
  BY DEF LogRows
<1>4. StrictOrder(ByKind(rows), DOMAIN rows)
  BY <1>1, <1>2, LogIsOrdered
<1>5. written = [i \in DOMAIN log |->
         [category |-> log[i].category, n |-> log[i].n, rule |-> log[i].kind,
          level |-> Level(log[i]), evidence |-> log[i].evidence]]
  BY <1>3 DEF Sarif
<1> HIDE DEF rows, written, log
<1>6. /\ AreAllRows(log, r, "all") /\ Len(log) = Len(rows) /\ Len(rows) \in Nat
      /\ DOMAIN log = 1 .. Len(rows)
      /\ \A i, j \in 1 .. Len(rows) : i < j =>
           \E k, l \in DOMAIN rows :
             log[i] = rows[k] /\ log[j] = rows[l] /\ <<k, l>> \in ByKind(rows)
  <2>1. IsSortedRows(log, rows, ByKind(rows), r, "all")
    BY <1>2, <1>3, <1>4, SortedRows
  <2>2. QED
    BY <2>1 DEF IsSortedRows
<1>7. ASSUME NEW i \in DOMAIN log, NEW j \in DOMAIN log, i < j
      PROVE  KeyBefore(r, NameOf(log[i]), NameOf(log[j]))
  <2>1. PICK k \in DOMAIN rows, l \in DOMAIN rows :
          log[i] = rows[k] /\ log[j] = rows[l] /\ <<k, l>> \in ByKind(rows)
    BY <1>6, <1>7
  <2>2. KeyBefore(r, NameOf(rows[k]), NameOf(rows[l]))
    BY <1>1, <1>2, <2>1, ByKindIsByKey
  <2>3. QED
    BY <2>1, <2>2
<1>8. Len(written) = Len(log) /\ DOMAIN written = DOMAIN log
  <2>1. written = [i \in 1 .. Len(log) |-> written[i]]
    BY <1>5, <1>6
  <2>2. QED
    BY <1>6, <2>1, MapIsList
<1>9. \A i \in DOMAIN log :
        written[i].category = log[i].category /\ written[i].n = log[i].n
  BY <1>5
<1>10. QED
  BY <1>6, <1>7, <1>8, <1>9 DEF written, log

(* The queue of a result is the sorted rows under its own lens.            *)
LEMMA QueueFacts ==
  ASSUME NEW r, IsResult(r), NEW mode \in Modes, r.focus = FocusSummary(r, mode)
  PROVE  /\ AreAllRows(ReviewQueue(r), r, mode) /\ Len(ReviewQueue(r)) \in Nat
         /\ DOMAIN ReviewQueue(r) = 1 .. Len(ReviewQueue(r))
         /\ \A i, j \in DOMAIN ReviewQueue(r) :
              i < j => QueuedBefore(r, ReviewQueue(r)[i], ReviewQueue(r)[j])
<1> DEFINE rows == AllRows(r, mode)
           queue == ReviewQueue(r)
<1>1. AreAllRows(rows, r, mode)
  BY AllRowsFacts
<1>2. queue = Sorted(rows, ByFocus(rows))
  <2>1. r.focus.mode = mode
    BY DEF FocusSummary
  <2>2. QED
    BY <2>1 DEF ReviewQueue
<1>3. StrictOrder(ByFocus(rows), DOMAIN rows)
  BY <1>1, QueueIsOrdered
<1> HIDE DEF rows, queue
<1>4. /\ AreAllRows(queue, r, mode) /\ Len(queue) = Len(rows) /\ Len(rows) \in Nat
      /\ DOMAIN queue = 1 .. Len(rows)
      /\ \A i, j \in 1 .. Len(rows) : i < j =>
           \E k, l \in DOMAIN rows :
             queue[i] = rows[k] /\ queue[j] = rows[l] /\ <<k, l>> \in ByFocus(rows)
  <2>1. IsSortedRows(queue, rows, ByFocus(rows), r, mode)
    BY <1>1, <1>2, <1>3, SortedRows
  <2>2. QED
    BY <2>1 DEF IsSortedRows
<1>5. ASSUME NEW i \in DOMAIN queue, NEW j \in DOMAIN queue, i < j
      PROVE  QueuedBefore(r, queue[i], queue[j])
  <2>1. PICK k \in DOMAIN rows, l \in DOMAIN rows :
          queue[i] = rows[k] /\ queue[j] = rows[l] /\ <<k, l>> \in ByFocus(rows)
    BY <1>4, <1>5
  <2>2. QueuedBefore(r, rows[k], rows[l])
    BY <1>1, <2>1, QueueOrder
  <2>3. QED
    BY <2>1, <2>2
<1>6. QED
  BY <1>4, <1>5 DEF queue

LEMMA InvariantReorders == PipelineInv => FocusOnlyReorders
<1> SUFFICES ASSUME PipelineInv, Written("queue")
             PROVE  FocusOnlyReorders
  BY DEF FocusOnlyReorders
<1>1. IsResult(result) /\ AreRendered
  BY WrittenOfResult
<1>2. artifacts["queue"] = ReviewQueue(result) /\ artifacts["sarif"] = Sarif(result)
  BY <1>1, ReportsWritten
<1>3. PICK mode \in Modes : result.focus = FocusSummary(result, mode)
  BY <1>1 DEF IsResult
<1> DEFINE queue == artifacts["queue"]
           log == artifacts["sarif"].results
           rows == LogRows(result)
           names(list) == {<<list[i].category, list[i].n>> : i \in DOMAIN list}
           at(row) == CHOOSE i \in DOMAIN log :
                        log[i].category = row.category /\ log[i].n = row.n
<1>4. /\ AreAllRows(queue, result, mode) /\ Len(queue) \in Nat /\ DOMAIN queue = 1 .. Len(queue)
      /\ \A i, j \in DOMAIN queue : i < j => QueuedBefore(result, queue[i], queue[j])
  BY <1>1, <1>2, <1>3, QueueFacts
<1>5. /\ AreAllRows(rows, result, "all") /\ Len(rows) \in Nat /\ DOMAIN rows = 1 .. Len(rows)
      /\ \A i, j \in DOMAIN rows :
           i < j => KeyBefore(result, NameOf(rows[i]), NameOf(rows[j]))
      /\ Len(log) = Len(rows) /\ DOMAIN log = DOMAIN rows
      /\ \A i \in DOMAIN rows : log[i].category = rows[i].category /\ log[i].n = rows[i].n
  BY <1>1, <1>2, LogFacts
<1>6. RowNames(result) = ({"boundary"} \X DOMAIN result.boundaries)
                           \cup ({"primitive"} \X DOMAIN result.primitives)
                           \cup ({"static_flow"} \X DOMAIN result.flows)
  BY DEF RowNames, Categories, ListOf
<1> HIDE DEF queue, log, rows
<1>7. names(queue) = RowNames(result) /\ Len(queue) = Cardinality(RowNames(result))
  BY <1>4, RowsAreCounted
<1>8. names(rows) = RowNames(result) /\ Len(rows) = Cardinality(RowNames(result))
  BY <1>5, RowsAreCounted
<1>9. names(log) = names(rows)
  BY <1>5
<1>10. \A i \in DOMAIN queue : NameOf(queue[i]) \in RowNames(result)
  BY <1>1, <1>4, RowFacts
<1>11. \A i \in DOMAIN rows : NameOf(rows[i]) \in RowNames(result)
  <2>1. "all" \in Modes
    BY DEF Modes
  <2>2. QED
    BY <1>1, <1>5, <2>1, RowFacts
<1>12. ASSUME NEW i \in DOMAIN queue
       PROVE  at(queue[i]) \in DOMAIN rows /\ NameOf(rows[at(queue[i])]) = NameOf(queue[i])
  <2>1. <<queue[i].category, queue[i].n>> \in RowNames(result)
    BY <1>10 DEF NameOf
  <2>2. PICK k \in DOMAIN rows : rows[k].category = queue[i].category /\ rows[k].n = queue[i].n
    BY <1>5, <2>1 DEF AreAllRows
  <2>3. \E x \in DOMAIN log : log[x].category = queue[i].category /\ log[x].n = queue[i].n
    BY <1>5, <2>2
  <2>4. /\ at(queue[i]) \in DOMAIN log
        /\ log[at(queue[i])].category = queue[i].category /\ log[at(queue[i])].n = queue[i].n
    BY <2>3
  <2> HIDE DEF at
  <2>5. QED
    BY <1>5, <2>4 DEF NameOf
<1> HIDE DEF at
<1>13. ASSUME NEW i \in DOMAIN queue, NEW j \in DOMAIN queue, i < j
       PROVE  /\ queue[j].focus.match => queue[i].focus.match
              /\ queue[j].focus.score <= queue[i].focus.score
              /\ queue[i].focus = queue[j].focus => at(queue[i]) < at(queue[j])
  <2> DEFINE a == NameOf(queue[i])
             b == NameOf(queue[j])
  <2>1. QueuedBefore(result, queue[i], queue[j])
    BY <1>4, <1>13
  <2>2. ASSUME KeyBefore(result, a, b)
        PROVE  at(queue[i]) < at(queue[j])
    <3>1. /\ at(queue[i]) \in DOMAIN rows /\ NameOf(rows[at(queue[i])]) = a
          /\ at(queue[j]) \in DOMAIN rows /\ NameOf(rows[at(queue[j])]) = b
      BY <1>12
    <3>2. a \in RowNames(result) /\ b \in RowNames(result)
      BY <1>10
    <3> HIDE DEF a, b
    <3>3. a # b /\ ~KeyBefore(result, b, a)
      BY <1>1, <2>2, <3>2, KeysAreOrdered
    <3>4. at(queue[i]) # at(queue[j])
      BY <3>1, <3>3
    <3>5. ~(at(queue[j]) < at(queue[i]))
      BY <1>5, <3>1, <3>3
    <3>6. at(queue[i]) \in Nat /\ at(queue[j]) \in Nat
      BY <1>5, <3>1
    <3>7. QED
      BY <3>4, <3>5, <3>6
  <2>3. QED
    BY <2>1, <2>2 DEF QueuedBefore
<1>14. /\ names(queue) = names(log)
       /\ names(queue) = ({"boundary"} \X DOMAIN result.boundaries)
                           \cup ({"primitive"} \X DOMAIN result.primitives)
                           \cup ({"static_flow"} \X DOMAIN result.flows)
       /\ Len(queue) = Cardinality(names(queue)) /\ Len(log) = Len(queue)
  <2>1. names(queue) = names(log)
    BY <1>7, <1>8, <1>9
  <2> HIDE DEF names
  <2>2. QED
    BY <1>5, <1>6, <1>7, <1>8, <2>1
<1> HIDE DEF names
<1>15. QED
  BY <1>13, <1>14 DEF FocusOnlyReorders, queue, log, names, at

(* The review queue and the SARIF log have the same candidates, all of     *)
(* them and each once, whatever the lens; the queue has those that the     *)
(* lens likes first, and candidates that it likes equally in the order of  *)
(* the log: core/focus.py reorders, and hides nothing.                     *)
THEOREM LensHidesNothing == PipelineSpec => []FocusOnlyReorders
BY ReportsAreOfOneResult, InvariantReorders, PTL
--------------------------------------------------------------------------------
(* As many marked rows of a category as candidates that the lens likes.    *)
LEMMA MatchesAreMarked ==
  ASSUME NEW r, IsResult(r), NEW mode \in Modes, NEW rows, AreAllRows(rows, r, mode),
         NEW category \in Categories
  PROVE  /\ Matches(category, ListOf(r, category), mode) \in Nat
         /\ Cardinality({i \in DOMAIN rows : rows[i].category = category /\ rows[i].focus.match})
              = Matches(category, ListOf(r, category), mode)
<1> DEFINE list == ListOf(r, category)
           S == {i \in DOMAIN rows : rows[i].category = category /\ rows[i].focus.match}
           T == {n \in DOMAIN list : Focus(category, list[n], mode).match}
           f == [i \in S |-> rows[i].n]
<1>1. ASSUME NEW i \in DOMAIN rows, rows[i].category = category
      PROVE  /\ rows[i].n \in DOMAIN list
             /\ rows[i].focus = Focus(category, list[rows[i].n], mode)
  BY <1>1, RowFacts
<1>2. f \in [S -> T]
  BY <1>1
<1>3. \A i, j \in S : f[i] = f[j] => i = j
  BY DEF AreAllRows
<1>4. ASSUME NEW n \in T
      PROVE  \E i \in S : f[i] = n
  <2>1. <<category, n>> \in RowNames(r)
    BY DEF RowNames
  <2>2. PICK i \in DOMAIN rows : rows[i].category = category /\ rows[i].n = n
    BY <2>1 DEF AreAllRows
  <2>3. i \in S
    BY <1>1, <2>2
  <2>4. QED
    BY <2>2, <2>3
<1>5. IsFiniteSet(S)
  <2> DEFINE k == Len(rows)
  <2>1. k \in Nat /\ DOMAIN rows = 1 .. k
    BY ListFacts DEF AreAllRows
  <2> HIDE DEF k
  <2>2. IsFiniteSet(DOMAIN rows)
    BY <2>1, FS_Interval
  <2>3. S \subseteq DOMAIN rows
    OBVIOUS
  <2> HIDE DEF S
  <2>4. QED
    BY <2>2, <2>3, FS_Subset
<1>6. Matches(category, list, mode) = Cardinality(T)
  BY DEF Matches
<1> HIDE DEF S, T, f
<1>7. f \in Bijection(S, T)
  BY <1>2, <1>3, <1>4 DEF Bijection, Injection, Surjection, IsInjective
<1>8. Cardinality(T) = Cardinality(S) /\ IsFiniteSet(T)
  BY <1>5, <1>7, FS_Bijection DEF ExistsBijection
<1>9. Cardinality(T) \in Nat
  BY <1>8, FS_CardinalityType
<1>10. QED
  BY <1>6, <1>8, <1>9 DEF S, list

LEMMA InvariantCounts == PipelineInv => FocusCountsAreTheQueues
<1> SUFFICES ASSUME PipelineInv, Written("queue")
             PROVE  FocusCountsAreTheQueues
  BY DEF FocusCountsAreTheQueues
<1>1. IsResult(result) /\ AreRendered
  BY WrittenOfResult
<1>2. /\ artifacts["queue"] = ReviewQueue(result) /\ artifacts["brief"] = Brief(result)
      /\ artifacts["viewer"] = Viewer(result)
  BY <1>1, ReportsWritten
<1>3. PICK mode \in Modes : result.focus = FocusSummary(result, mode)
  BY <1>1 DEF IsResult
<1>4. AreAllRows(artifacts["queue"], result, mode)
  BY <1>1, <1>2, <1>3, QueueFacts
<1>5. Brief(result).focus = result.focus /\ Viewer(result).focus = result.focus
  BY DEF Brief, Viewer
<1> DEFINE marked(category) ==
             Cardinality({i \in DOMAIN artifacts["queue"] :
                            /\ artifacts["queue"][i].category = category
                            /\ artifacts["queue"][i].focus.match})
<1>6. ASSUME NEW category \in Categories
      PROVE  marked(category) = Matches(category, ListOf(result, category), mode)
  BY <1>1, <1>4, MatchesAreMarked
<1> HIDE DEF marked
<1>7. /\ marked("boundary") = Matches("boundary", result.boundaries, mode)
      /\ marked("primitive") = Matches("primitive", result.primitives, mode)
      /\ marked("static_flow") = Matches("static_flow", result.flows, mode)
  <2>1. /\ "boundary" \in Categories /\ ListOf(result, "boundary") = result.boundaries
        /\ "primitive" \in Categories /\ ListOf(result, "primitive") = result.primitives
        /\ "static_flow" \in Categories /\ ListOf(result, "static_flow") = result.flows
    BY DEF Categories, ListOf
  <2>2. QED
    BY <1>6, <2>1
<1>8. /\ result.focus.boundary = marked("boundary") /\ result.focus.primitive = marked("primitive")
      /\ result.focus.static_flow = marked("static_flow")
      /\ result.focus.total = marked("boundary") + marked("primitive") + marked("static_flow")
  BY <1>3, <1>7 DEF FocusSummary
<1>9. QED
  BY <1>2, <1>5, <1>8 DEF FocusCountsAreTheQueues, marked

(* The numbers of matches in the result, the brief and the viewer, counted *)
(* from the lists (core/focus.py), are those of the rows that the queue    *)
(* marks (report/review_queue.py).                                         *)
THEOREM CountsAreOfTheQueue == PipelineSpec => []FocusCountsAreTheQueues
BY ReportsAreOfOneResult, InvariantCounts, PTL
--------------------------------------------------------------------------------
LEMMA NoElements ==
  ASSUME NEW s, IsList(s)
  PROVE  s # <<>> <=> \E i \in Nat : i \in DOMAIN s
<1>1. Len(s) \in Nat /\ DOMAIN s = 1 .. Len(s) /\ s \in Seq(Elements(s))
  BY ListFacts DEF IsList
<1>2. Len(s) = 0 => s = <<>>
  BY <1>1, EmptySeq
<1>3. s = <<>> => Len(s) = 0
  BY EmptySeq
<1>4. Len(s) # 0 => 1 \in DOMAIN s
  BY <1>1
<1>5. Len(s) = 0 => \A i \in Nat : i \notin DOMAIN s
  BY <1>1
<1>6. QED
  BY <1>2, <1>3, <1>4, <1>5

LEMMA JoinHasElements ==
  ASSUME NEW s, IsList(s), NEW t, IsList(t)
  PROVE  s \o t # <<>> <=> s # <<>> \/ t # <<>>
<1>1. /\ IsList(s \o t) /\ Len(s) \in Nat /\ Len(t) \in Nat
      /\ DOMAIN s = 1 .. Len(s) /\ DOMAIN t = 1 .. Len(t)
      /\ DOMAIN (s \o t) = 1 .. Len(s) + Len(t)
  BY ListConcat
<1>2. /\ s # <<>> <=> \E i \in Nat : i \in DOMAIN s
      /\ t # <<>> <=> \E i \in Nat : i \in DOMAIN t
  BY NoElements
<1> DEFINE u == s \o t
<1>3. IsList(u) /\ DOMAIN u = 1 .. Len(s) + Len(t)
  BY <1>1
<1> HIDE DEF u
<1>4. u # <<>> <=> \E i \in Nat : i \in DOMAIN u
  BY <1>3, NoElements
<1>5. /\ s # <<>> <=> Len(s) > 0
      /\ t # <<>> <=> Len(t) > 0
      /\ u # <<>> <=> Len(s) + Len(t) > 0
  <2>1. \A n \in Nat : (\E i \in Nat : i \in 1 .. n) <=> n > 0
    <3>1. \A n \in Nat : n > 0 => 1 \in 1 .. n
      OBVIOUS
    <3>2. QED
      BY <3>1
  <2>2. Len(s) + Len(t) \in Nat
    BY <1>1
  <2>3. QED
    BY <1>1, <1>2, <1>3, <1>4, <2>1, <2>2
<1>6. QED
  BY <1>1, <1>5 DEF u

(* The queue is empty only if there is no candidate at all.                *)
LEMMA QueueHasElements ==
  ASSUME NEW r, IsResult(r), NEW mode, NEW queue, AreAllRows(queue, r, mode)
  PROVE  queue # <<>> <=> r.primitives \o r.flows \o r.boundaries # <<>>
<1> DEFINE p == r.primitives
           f == r.flows
           b == r.boundaries
<1>1. IsList(p) /\ IsList(f) /\ IsList(b) /\ IsList(queue)
  BY DEF IsResult, HasEvidence, AreAllRows
<1>2. RowNames(r) = ({"boundary"} \X DOMAIN b) \cup ({"primitive"} \X DOMAIN p)
                      \cup ({"static_flow"} \X DOMAIN f)
  BY DEF RowNames, Categories, ListOf
<1>3. \A i \in DOMAIN queue : <<queue[i].category, queue[i].n>> \in RowNames(r)
  BY DEF AreAllRows
<1>4. \A name \in RowNames(r) : \E i \in DOMAIN queue : TRUE
  BY DEF AreAllRows
<1> HIDE DEF p, f, b
<1>5. DOMAIN queue # {} <=> DOMAIN p # {} \/ DOMAIN f # {} \/ DOMAIN b # {}
  <2>1. DOMAIN queue # {} <=> RowNames(r) # {}
    BY <1>3, <1>4
  <2> DEFINE S == DOMAIN b
             T == DOMAIN p
             U == DOMAIN f
             every == ({"boundary"} \X S) \cup ({"primitive"} \X T) \cup ({"static_flow"} \X U)
  <2>2. every = RowNames(r)
    BY <1>2
  <2> HIDE DEF S, T, U
  <2>3. \A e : /\ e \in S => <<"boundary", e>> \in every
               /\ e \in T => <<"primitive", e>> \in every
               /\ e \in U => <<"static_flow", e>> \in every
    OBVIOUS
  <2>4. every # {} <=> T # {} \/ U # {} \/ S # {}
    BY <2>3
  <2> HIDE DEF every
  <2>5. QED
    BY <2>1, <2>2, <2>4 DEF S, T, U
<1>6. /\ DOMAIN queue \subseteq Nat /\ DOMAIN p \subseteq Nat
      /\ DOMAIN f \subseteq Nat /\ DOMAIN b \subseteq Nat
  BY <1>1, ListFacts
<1>7. /\ queue # <<>> <=> DOMAIN queue # {}
      /\ p # <<>> <=> DOMAIN p # {}
      /\ f # <<>> <=> DOMAIN f # {}
      /\ b # <<>> <=> DOMAIN b # {}
  BY <1>1, <1>6, NoElements
<1>8. IsList(p \o f) /\ (p \o f # <<>> <=> p # <<>> \/ f # <<>>)
  BY <1>1, ListConcat, JoinHasElements
<1>9. (p \o f) \o b # <<>> <=> p \o f # <<>> \/ b # <<>>
  BY <1>1, <1>8, JoinHasElements
<1>10. QED
  BY <1>5, <1>7, <1>8, <1>9 DEF p, f, b

LEMMA TriagedIsSurer ==
  ASSUME NEW m \in DOMAIN result.primitives, NEW n \in DOMAIN result.primitives,
         HasEvidence(result.primitives), <<m, n>> \in ByTriage(result.primitives)
  PROVE  Surer(m, n)
<1>1. m \in Ids /\ n \in Ids
  BY ListFacts DEF Ids, HasEvidence
<1>2. IdBefore(m, n) => m < n \/ Digits(m) # Digits(n)
  BY <1>1, SameDigitsOrder
<1>3. QED
  BY <1>2, Zenon DEF ByTriage, Pairs, Surer

LEMMA InvariantOmits == PipelineInv => ReasoningOmitsOnlyWhenFull
<1> SUFFICES ASSUME PipelineInv, Written("reasoning")
             PROVE  /\ SurfacesInOrder /\ HypothesesInOrder /\ TriageInOrder
                    /\ MissingInOrder /\ StepsInOrder
  BY DEF ReasoningOmitsOnlyWhenFull
<1> DEFINE r == result
           items == artifacts["reasoning"]
<1>1. IsResult(r) /\ AreRendered
  BY WrittenOfResult
<1>2. /\ items = ReasoningItems(r) /\ artifacts["queue"] = ReviewQueue(r)
      /\ artifacts["viewer"] = Viewer(r)
  BY <1>1, ReportsWritten
<1>3. artifacts["viewer"].missing = MissingOf(r) /\ artifacts["viewer"].steps = ReviewSteps(r)
  BY <1>2 DEF Viewer, MissingOf
<1>4. /\ items["surface"] = Surfaces(r) /\ items["invariant"] = Hypotheses(r)
      /\ items["triage"] = Triage(r) /\ items["missing"] = MissingEvidence(r)
      /\ items["step"] = SafeNextSteps(r)
  BY <1>2, ReasoningFacts
<1>5. \A category, n : Keeps(category, n) <=> Len(items[category]) = Least(n, MaxItems)
  BY DEF Keeps
<1>6. \A category, i : About(category, i) = items[category][i].related[1]
  BY DEF About
<1> HIDE DEF items
<1>7. SurfacesInOrder
  <2> DEFINE f == Len(r.flows)
             refs == SurfaceRefs(r)
  <2>1. /\ IsAbout(r, Surfaces(r), refs)
        /\ Len(refs) = Least(f + Len(r.primitives), MaxItems)
        /\ \A i \in DOMAIN refs :
             refs[i] = IF i <= f THEN Ref("flow", i) ELSE Ref("primitive", i - f)
    BY <1>1, SurfacesAreAbout
  <2> HIDE DEF refs, f
  <2>2. /\ Len(items["surface"]) = Len(refs) /\ DOMAIN items["surface"] = DOMAIN refs
        /\ \A i \in DOMAIN refs : items["surface"][i].related[1] = refs[i]
    BY <1>4, <2>1 DEF IsAbout
  <2>3. /\ Keeps("surface", f + Len(r.primitives))
        /\ \A i \in DOMAIN items["surface"] :
             About("surface", i) = IF i <= f THEN Ref("flow", i) ELSE Ref("primitive", i - f)
    BY <1>5, <1>6, <2>1, <2>2
  <2>4. QED
    BY <2>3 DEF SurfacesInOrder, items, f
<1>8. HypothesesInOrder
  <2> DEFINE refs == FirstOf(Refs("boundary", r.boundaries), MaxItems)
  <2>1. /\ IsAbout(r, Hypotheses(r), refs)
        /\ Len(refs) = Least(Len(r.boundaries), MaxItems)
        /\ \A i \in DOMAIN refs : refs[i] = Ref("boundary", i)
    BY <1>1, HypothesesAreAbout
  <2> HIDE DEF refs
  <2>2. /\ Len(items["invariant"]) = Len(refs) /\ DOMAIN items["invariant"] = DOMAIN refs
        /\ \A i \in DOMAIN refs : items["invariant"][i].related[1] = refs[i]
    BY <1>4, <2>1 DEF IsAbout
  <2>3. /\ Keeps("invariant", Len(r.boundaries))
        /\ \A i \in DOMAIN items["invariant"] : About("invariant", i) = Ref("boundary", i)
    BY <1>5, <1>6, <2>1, <2>2
  <2>4. QED
    BY <2>3 DEF HypothesesInOrder, items
<1>9. TriageInOrder
  <2> DEFINE refs == TriageRefs(r)
             list == r.primitives
             S == DOMAIN items["triage"]
  <2>1. /\ IsAbout(r, Triage(r), refs) /\ Len(refs) = Least(Len(list), MaxItems)
        /\ \A i \in DOMAIN refs :
             /\ refs[i].n \in DOMAIN list /\ refs[i] = Ref("primitive", refs[i].n)
             /\ \A j \in DOMAIN refs : i < j => <<refs[i].n, refs[j].n>> \in ByTriage(list)
             /\ \A k \in DOMAIN list :
                  (\A j \in DOMAIN refs : k # refs[j].n) => <<refs[i].n, k>> \in ByTriage(list)
    BY <1>1, TriageIsAbout
  <2>2. HasEvidence(list)
    BY <1>1 DEF IsResult
  <2> HIDE DEF refs
  <2>3. /\ Len(items["triage"]) = Len(refs) /\ S = DOMAIN refs
        /\ \A i \in DOMAIN refs : items["triage"][i].related[1] = refs[i]
    BY <1>4, <2>1 DEF IsAbout
  <2>4. \A i \in S : About("triage", i) = refs[i]
    BY <1>6, <2>3
  <2>5. \A m, k \in DOMAIN list : <<m, k>> \in ByTriage(list) => Surer(m, k)
    BY <2>2, TriagedIsSurer
  <2>6. Keeps("triage", Len(list))
    BY <1>5, <2>1, <2>3
  <2> HIDE DEF S, list
  <2>7. ASSUME NEW i \in S
        PROVE  /\ About("triage", i) \in {Ref("primitive", n) : n \in DOMAIN list}
               /\ \A j \in S : i < j => Surer(About("triage", i).n, About("triage", j).n)
               /\ \A n \in DOMAIN list :
                    (\A j \in S : n # About("triage", j).n) => Surer(About("triage", i).n, n)
    <3>1. i \in DOMAIN refs /\ About("triage", i) = refs[i] /\ refs[i].n \in DOMAIN list
      BY <2>1, <2>3, <2>4 DEF list
    <3>2. refs[i] = Ref("primitive", refs[i].n)
      BY <2>1, <3>1
    <3>3. \A j \in S : i < j => Surer(refs[i].n, refs[j].n)
      BY <2>1, <2>3, <2>5, <3>1 DEF list
    <3>4. ASSUME NEW n \in DOMAIN list, \A j \in S : n # refs[j].n
          PROVE  Surer(refs[i].n, n)
      BY <2>1, <2>3, <2>5, <3>1, <3>4 DEF list
    <3>5. \A j \in S : About("triage", j).n = refs[j].n
      BY <2>4
    <3>6. About("triage", i) \in {Ref("primitive", n) : n \in DOMAIN list}
      BY <3>1, <3>2
    <3>7. \A j \in S : i < j => Surer(About("triage", i).n, About("triage", j).n)
      BY <3>3, <3>5
    <3>8. \A n \in DOMAIN list :
            (\A j \in S : n # About("triage", j).n) => Surer(About("triage", i).n, n)
      BY <3>4, <3>5
    <3>9. QED
      BY <3>6, <3>7, <3>8
  <2>8. QED
    BY <2>6, <2>7 DEF TriageInOrder, S, list, items
<1>10. MissingInOrder
  <2>1. /\ Len(MissingEvidence(r)) = Least(Len(MissingOf(r)), MaxItems)
        /\ \A i \in DOMAIN MissingEvidence(r) :
             /\ MissingEvidence(r)[i].related[1] = MissingOf(r)[i].of
             /\ MissingEvidence(r)[i].missing = <<MissingOf(r)[i].text>>
    BY <1>1, MissingIsAbout
  <2>2. /\ Keeps("missing", Len(MissingOf(r)))
        /\ \A i \in DOMAIN items["missing"] :
             /\ About("missing", i) = MissingOf(r)[i].of
             /\ items["missing"][i].missing = <<MissingOf(r)[i].text>>
    BY <1>4, <1>5, <1>6, <2>1
  <2>3. QED
    BY <1>3, <2>2 DEF MissingInOrder, items
<1>11. StepsInOrder
  <2> DEFINE some == r.primitives \o r.flows \o r.boundaries # <<>>
             entries == ReviewSteps(r)
  <2>1. /\ Len(SafeNextSteps(r)) = Least(Len(entries) + IF some THEN 1 ELSE 0, MaxItems)
        /\ \A i \in DOMAIN SafeNextSteps(r) :
             /\ i <= Len(entries) => /\ SafeNextSteps(r)[i].related = <<entries[i].of>>
                                     /\ SafeNextSteps(r)[i].steps = <<entries[i].text>>
             /\ i > Len(entries) => SafeNextSteps(r)[i].related = <<>>
    BY <1>1, StepsAreAbout
  <2>2. artifacts["queue"] # <<>> <=> some
    <3>1. PICK mode \in Modes : r.focus = FocusSummary(r, mode)
      BY <1>1 DEF IsResult
    <3>2. AreAllRows(artifacts["queue"], r, mode)
      BY <1>1, <1>2, <3>1, QueueFacts
    <3>3. QED
      BY <1>1, <3>2, QueueHasElements
  <2> HIDE DEF some, entries
  <2>3. (IF artifacts["queue"] = <<>> THEN 0 ELSE 1) = IF some THEN 1 ELSE 0
    BY <2>2
  <2>4. Keeps("step", Len(entries) + IF artifacts["queue"] = <<>> THEN 0 ELSE 1)
    BY <1>4, <1>5, <2>1, <2>3
  <2>5. \A i \in DOMAIN items["step"] :
          /\ i <= Len(entries) => /\ items["step"][i].related = <<entries[i].of>>
                                  /\ items["step"][i].steps = <<entries[i].text>>
          /\ i > Len(entries) => items["step"][i].related = <<>>
    BY <1>4, <2>1
  <2>6. QED
    BY <1>3, <2>4, <2>5 DEF StepsInOrder, items, entries
<1>12. QED
  BY <1>7, <1>8, <1>9, <1>10, <1>11

(* Every category of the reasoning is the beginning of what there is for   *)
(* it, in its order, and all of it unless it is full, at                   *)
(* MAX_ITEMS_PER_CATEGORY of reasoning/engine.py: of flows and then        *)
(* primitives, of boundaries, of the triage of the primitives, of the      *)
(* viewer's missing evidence, and of its review steps and the general one. *)
THEOREM OmissionsAreOfFullCategories == PipelineSpec => []ReasoningOmitsOnlyWhenFull
BY ReportsAreOfOneResult, InvariantOmits, PTL
=============================================================================
