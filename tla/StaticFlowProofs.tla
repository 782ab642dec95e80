-------------------------- MODULE StaticFlowProofs ---------------------------
(***************************************************************************)
(* For every number of entrypoints and targets, every scoring and every    *)
(* pair of caps: the result of the selection loop is ranked and capped,    *)
(* and what is left out is left out for one of the two documented reasons. *)
(***************************************************************************)
EXTENDS StaticFlow, ListLemmas

(* Every candidate of an entrypoint the loop has passed is in the working  *)
(* list, or its entrypoint's share of the list holds better ones only.     *)
Covered(list, x, t) ==
  \/ \E i \in DOMAIN list : list[i] = Flow(x, t)
  \/ \E i \in DOMAIN list :
       /\ i + maxPerEntrypoint - 1 \in DOMAIN list
       /\ \A j \in i .. i + maxPerEntrypoint - 1 :
            list[j].entrypoint = x /\ Before(x, list[j].target, t)

PassedAreCovered ==
  \A x \in Entrypoints : x < next => \A t \in Candidates(x) : Covered(flows, x, t)

AllPassed == \A i \in DOMAIN flows : flows[i].entrypoint < next

Enabled == maxTotal > 0 /\ maxPerEntrypoint > 0

EmittedIsCut ==
  /\ ~done => emitted = <<>>
  /\ done /\ Enabled => /\ emitted = Cut(flows, maxTotal)
                        /\ next > NumEntrypoints \/ Len(flows) >= maxTotal
  /\ ~Enabled => flows = <<>> /\ emitted = <<>>

IInv ==
  /\ TypeOK
  /\ Ordered(flows) /\ Windowed(flows)
  /\ AllPassed
  /\ PassedAreCovered
  /\ EmittedIsCut
------------------------------------------------------------------------------
(* The sort key orders a row of the scoring transitively. *)
LEMMA BeforeTransitive ==
  ASSUME TypeOK, NEW x \in Entrypoints, NEW t \in Targets, NEW u \in Targets, NEW v \in Targets,
         Before(x, t, u), Before(x, u, v)
  PROVE  Before(x, t, v)
<1>1. /\ scoring[x][t] \in Nat /\ scoring[x][u] \in Nat /\ scoring[x][v] \in Nat
  BY DEF TypeOK
<1> QED
  BY <1>1 DEF Before, Targets

(* The slice that cuts a list is a list of the same things, not longer     *)
(* than the cap, and agrees with the list as far as it goes.               *)
LEMMA CutIsPrefix ==
  ASSUME NEW S, NEW list \in Seq(S), NEW n \in Nat
  PROVE  /\ Cut(list, n) \in Seq(S)
         /\ Len(Cut(list, n)) <= n /\ Len(Cut(list, n)) <= Len(list)
         /\ Len(Cut(list, n)) = n \/ Len(Cut(list, n)) = Len(list)
         /\ \A i \in DOMAIN Cut(list, n) : i \in DOMAIN list /\ Cut(list, n)[i] = list[i]
<1>1. CASE Len(list) <= n
  BY <1>1 DEF Cut
<1>2. CASE Len(list) > n
  <2>1. Cut(list, n) = SubSeq(list, 1, n)
    BY <1>2, LenProperties DEF Cut
  <2> QED
    BY <2>1, <1>2, SubSeqProperties
<1> QED
  BY <1>1, <1>2, LenProperties

(* A concatenation, element by element. *)
LEMMA ConcatElements ==
  ASSUME NEW S, NEW f \in Seq(S), NEW g \in Seq(S)
  PROVE  /\ f \o g \in Seq(S)
         /\ Len(f \o g) = Len(f) + Len(g)
         /\ \A i \in 1 .. Len(f) : (f \o g)[i] = f[i]
         /\ \A i \in 1 .. Len(g) : (f \o g)[Len(f) + i] = g[i]
<1>1. Len(f) \in Nat /\ Len(g) \in Nat
  BY LenProperties
<1>2. /\ f \o g \in Seq(S)
      /\ Len(f \o g) = Len(f) + Len(g)
      /\ \A i \in 1 .. Len(f) + Len(g) : (f \o g)[i] = IF i <= Len(f) THEN f[i] ELSE g[i - Len(f)]
  BY ConcatProperties
<1>3. \A i \in 1 .. Len(f) : (f \o g)[i] = f[i]
  BY <1>1, <1>2
<1>4. ASSUME NEW i \in 1 .. Len(g)
      PROVE  (f \o g)[Len(f) + i] = g[i]
  <2>1. Len(f) + i \in 1 .. Len(f) + Len(g) /\ ~(Len(f) + i <= Len(f)) /\ Len(f) + i - Len(f) = i
    BY <1>1
  <2> QED
    BY <1>2, <2>1
<1> QED
  BY <1>2, <1>3, <1>4

(* What one turn of the loop appends. *)
LEMMA ExtendShape ==
  ASSUME TypeOK, NEW x \in Entrypoints, NEW s \in TargetLists
  PROVE  /\ Len(s) \in Nat /\ Len(s) <= maxPerEntrypoint /\ DOMAIN s = 1 .. Len(s)
         /\ \A i \in DOMAIN s : s[i] \in Targets
         /\ flows \o FlowsOf(x, s) \in Seq(FlowType)
         /\ Len(flows \o FlowsOf(x, s)) = Len(flows) + Len(s)
         /\ \A i \in 1 .. Len(flows) : (flows \o FlowsOf(x, s))[i] = flows[i]
         /\ \A i \in 1 .. Len(s) : (flows \o FlowsOf(x, s))[Len(flows) + i] = Flow(x, s[i])
<1>1. PICK n \in 0 .. maxPerEntrypoint : s \in [1 .. n -> Targets]
  BY DEF TargetLists
<1>2. Len(s) = n /\ DOMAIN s = 1 .. n
  BY <1>1 DEF TypeOK
<1>3. FlowsOf(x, s) \in Seq(FlowType) /\ Len(FlowsOf(x, s)) = n
  BY <1>1, <1>2 DEF FlowsOf, Flow, FlowType, TypeOK
<1>4. flows \in Seq(FlowType)
  BY DEF TypeOK
<1>5. \A i \in 1 .. n : FlowsOf(x, s)[i] = Flow(x, s[i])
  BY <1>2 DEF FlowsOf
<1>6. /\ flows \o FlowsOf(x, s) \in Seq(FlowType)
      /\ Len(flows \o FlowsOf(x, s)) = Len(flows) + Len(FlowsOf(x, s))
      /\ \A i \in 1 .. Len(flows) : (flows \o FlowsOf(x, s))[i] = flows[i]
      /\ \A i \in 1 .. Len(FlowsOf(x, s)) :
           (flows \o FlowsOf(x, s))[Len(flows) + i] = FlowsOf(x, s)[i]
  <2>1. ASSUME NEW g \in Seq(FlowType)
        PROVE  /\ flows \o g \in Seq(FlowType)
               /\ Len(flows \o g) = Len(flows) + Len(g)
               /\ \A i \in 1 .. Len(flows) : (flows \o g)[i] = flows[i]
               /\ \A i \in 1 .. Len(g) : (flows \o g)[Len(flows) + i] = g[i]
    BY <1>4, ConcatElements
  <2> QED
    BY <2>1, <1>3
<1>7. n \in Nat /\ n <= maxPerEntrypoint /\ Len(s) = n /\ Len(FlowsOf(x, s)) = n
  BY <1>1, <1>2, <1>3 DEF TypeOK
<1>8. \A i \in DOMAIN s : s[i] \in Targets
  BY <1>1
<1> QED
  BY <1>2, <1>5, <1>6, <1>7, <1>8
------------------------------------------------------------------------------
LEMMA InitInv == Init => IInv
<1> SUFFICES ASSUME Init PROVE IInv
  OBVIOUS
<1>1. TypeOK
  <2>1. scoring \in [Entrypoints -> [Targets -> Nat]] /\ maxTotal \in Nat /\ maxPerEntrypoint \in Nat
    BY StaticFlowAssumption DEF Init
  <2>2. next \in 1 .. NumEntrypoints + 1
    BY StaticFlowAssumption DEF Init
  <2>3. flows \in Seq(FlowType) /\ emitted \in Seq(FlowType) /\ done \in BOOLEAN
    BY EmptySeq DEF Init
  <2> QED
    BY <2>1, <2>2, <2>3 DEF TypeOK
<1>2. DOMAIN flows = {}
  BY DEF Init
<1>3. Ordered(flows) /\ Windowed(flows) /\ AllPassed
  BY <1>2 DEF Ordered, Windowed, AllPassed
<1>4. PassedAreCovered
  BY DEF Init, PassedAreCovered, Entrypoints
<1>5. EmittedIsCut
  BY DEF Init, EmittedIsCut
<1> QED
  BY <1>1, <1>3, <1>4, <1>5 DEF IInv

LEMMA ExtendInv ==
  ASSUME IInv, Extend
  PROVE  IInv'
<1> USE DEF IInv
<1>1. PICK s \in TargetLists : IsTop(next, s) /\ flows' = flows \o FlowsOf(next, s)
  BY DEF Extend
<1>2. next \in Entrypoints /\ next' = next + 1 /\ UNCHANGED <<scoring, maxTotal, maxPerEntrypoint, emitted, done>>
  BY DEF Extend, TypeOK, Entrypoints, input
<1> DEFINE old == Len(flows)
           new == Len(s)
<1>3. /\ old \in Nat /\ new \in Nat /\ new <= maxPerEntrypoint
      /\ DOMAIN s = 1 .. new /\ DOMAIN flows = 1 .. old /\ DOMAIN flows' = 1 .. old + new
      /\ \A i \in 1 .. old : flows'[i] = flows[i] /\ flows[i] \in FlowType
      /\ \A i \in 1 .. new : flows'[old + i] = Flow(next, s[i]) /\ s[i] \in Targets
      /\ flows' \in Seq(FlowType)
  BY <1>1, <1>2, ExtendShape, LenProperties, ElementOfSeq DEF TypeOK
<1> HIDE DEF old, new
<1>4. ASSUME NEW i \in DOMAIN flows'
      PROVE  \/ /\ i \in 1 .. old /\ flows'[i] = flows[i]
                /\ flows'[i].entrypoint \in Entrypoints /\ flows'[i].entrypoint < next
             \/ /\ i - old \in 1 .. new /\ flows'[i] = Flow(next, s[i - old])
                /\ flows'[i].entrypoint = next /\ flows'[i].target = s[i - old]
  <2>1. CASE i <= old
    BY <2>1, <1>3 DEF AllPassed, FlowType
  <2>2. CASE i > old
    <3>1. i - old \in 1 .. new /\ old + (i - old) = i
      BY <2>2, <1>3
    <3>2. flows'[old + (i - old)] = Flow(next, s[i - old])
      BY <3>1, <1>3
    <3>3. flows'[i] = Flow(next, s[i - old])
      BY <3>1, <3>2
    <3> QED
      BY <3>1, <3>3 DEF Flow
  <2> QED
    BY <2>1, <2>2, <1>3
<1>5. TypeOK'
  BY <1>2, <1>3, StaticFlowAssumption DEF TypeOK, Entrypoints
<1>6. AllPassed'
  BY <1>2, <1>3, <1>4 DEF AllPassed, Entrypoints
<1>7. Ordered(flows)'
  <2> SUFFICES ASSUME NEW i \in DOMAIN flows', NEW j \in DOMAIN flows', i < j
               PROVE  Precedes(flows[i], flows[j])'
    BY DEF Ordered
  <2>1. CASE j \in 1 .. old
    <3>1. i \in 1 .. old
      BY <2>1, <1>3
    <3> QED
      BY <3>1, <2>1, <1>2, <1>3 DEF Ordered, Precedes, Before
  <2>2. CASE i \in 1 .. old /\ j - old \in 1 .. new
    BY <2>2, <1>3, <1>4 DEF Precedes
  <2>3. CASE i - old \in 1 .. new /\ j - old \in 1 .. new
    <3>1. Before(next, s[i - old], s[j - old])
      BY <2>3, <1>1, <1>3 DEF IsTop
    <3>2. flows'[i] = Flow(next, s[i - old]) /\ flows'[j] = Flow(next, s[j - old])
      BY <2>3, <1>3, <1>4
    <3> QED
      BY <3>1, <3>2, <1>2 DEF Precedes, Before, Flow
  <2> QED
    BY <2>1, <2>2, <2>3, <1>3
<1>8. Windowed(flows)'
  <2> SUFFICES ASSUME NEW i \in DOMAIN flows', NEW j \in DOMAIN flows', i < j,
                      flows'[i].entrypoint = flows'[j].entrypoint
               PROVE  j - i < maxPerEntrypoint
    BY <1>2 DEF Windowed
  <2>1. CASE j \in 1 .. old
    <3>1. i \in 1 .. old
      BY <2>1, <1>3
    <3> QED
      BY <3>1, <2>1, <1>3 DEF Windowed
  <2>2. CASE i \in 1 .. old /\ j - old \in 1 .. new
    BY <2>2, <1>2, <1>3, <1>4 DEF Entrypoints
  <2>3. CASE i - old \in 1 .. new /\ j - old \in 1 .. new
    BY <2>3, <1>3 DEF TypeOK
  <2> QED
    BY <2>1, <2>2, <2>3, <1>3
<1>9. PassedAreCovered'
  <2> SUFFICES ASSUME NEW x \in Entrypoints, x < next + 1, NEW t \in Candidates(x)
               PROVE  Covered(flows, x, t)'
    BY <1>2 DEF PassedAreCovered, Candidates
  <2>1. CASE x < next
    <3>1. Covered(flows, x, t)
      BY <2>1 DEF PassedAreCovered
    <3>2. CASE \E i \in DOMAIN flows : flows[i] = Flow(x, t)
      BY <3>2, <1>3 DEF Covered
    <3>3. CASE \E i \in DOMAIN flows :
                 /\ i + maxPerEntrypoint - 1 \in DOMAIN flows
                 /\ \A j \in i .. i + maxPerEntrypoint - 1 :
                      flows[j].entrypoint = x /\ Before(x, flows[j].target, t)
      <4>1. PICK i \in DOMAIN flows :
                 /\ i + maxPerEntrypoint - 1 \in DOMAIN flows
                 /\ \A j \in i .. i + maxPerEntrypoint - 1 :
                      flows[j].entrypoint = x /\ Before(x, flows[j].target, t)
        BY <3>3
      <4>2. \A j \in i .. i + maxPerEntrypoint - 1 : j \in 1 .. old
        BY <4>1, <1>3 DEF TypeOK
      <4>3. i \in DOMAIN flows' /\ i + maxPerEntrypoint - 1 \in DOMAIN flows'
        BY <4>1, <1>3
      <4>4. \A j \in i .. i + maxPerEntrypoint - 1 :
              flows'[j].entrypoint = x /\ Before(x, flows'[j].target, t)
        BY <4>1, <4>2, <1>3
      <4> QED
        BY <4>3, <4>4, <1>2 DEF Covered, Before
    <3> QED
      BY <3>1, <3>2, <3>3 DEF Covered
  <2>2. CASE x = next
    <3>1. CASE \E i \in DOMAIN s : s[i] = t
      <4>1. PICK i \in 1 .. new : s[i] = t
        BY <3>1, <1>3
      <4>2. old + i \in DOMAIN flows' /\ flows'[old + i] = Flow(x, t)
        BY <4>1, <2>2, <1>3
      <4> QED
        BY <4>2 DEF Covered, Flow
    <3>2. CASE new = maxPerEntrypoint /\ \A i \in DOMAIN s : Before(next, s[i], t)
      <4>1. old + 1 \in DOMAIN flows' /\ old + 1 + maxPerEntrypoint - 1 \in DOMAIN flows'
        BY <3>2, <1>3 DEF Extend
      <4>2. ASSUME NEW j \in old + 1 .. old + 1 + maxPerEntrypoint - 1
            PROVE  flows'[j].entrypoint = x /\ Before(x, flows'[j].target, t)
        <5>1. j - old \in 1 .. new /\ j \in DOMAIN flows' /\ j > old
          BY <3>2, <1>3
        <5> QED
          BY <5>1, <3>2, <2>2, <1>3, <1>4
      <4> QED
        BY <4>1, <4>2, <1>2 DEF Covered, Before
    <3> QED
      BY <3>1, <3>2, <2>2, <1>1 DEF IsTop, new
  <2> QED
    BY <2>1, <2>2, <1>2 DEF Entrypoints
<1>10. EmittedIsCut'
  BY <1>2 DEF EmittedIsCut, Extend, Enabled
<1> QED
  BY <1>5, <1>6, <1>7, <1>8, <1>9, <1>10

LEMMA EmitInv ==
  ASSUME IInv, Emit
  PROVE  IInv'
<1>1. emitted' = Cut(flows, maxTotal) /\ done' = TRUE
      /\ UNCHANGED <<scoring, maxTotal, maxPerEntrypoint, next, flows>>
  BY DEF Emit, input
<1>2. TypeOK'
  BY <1>1, CutIsPrefix DEF IInv, TypeOK
<1>3. (Ordered(flows) /\ Windowed(flows) /\ AllPassed /\ PassedAreCovered)'
  BY <1>1 DEF IInv, Ordered, Precedes, Before, Windowed, AllPassed, PassedAreCovered, Covered,
              Candidates
<1>4. EmittedIsCut'
  BY <1>1 DEF EmittedIsCut, Emit, Enabled, Cut
<1> QED
  BY <1>2, <1>3, <1>4 DEF IInv

LEMMA DisabledInv ==
  ASSUME IInv, Disabled
  PROVE  IInv'
<1>1. done' = TRUE /\ UNCHANGED <<scoring, maxTotal, maxPerEntrypoint, next, flows, emitted>>
  BY DEF Disabled, input
<1>2. TypeOK'
  BY <1>1 DEF IInv, TypeOK
<1>3. (Ordered(flows) /\ Windowed(flows) /\ AllPassed /\ PassedAreCovered)'
  BY <1>1 DEF IInv, Ordered, Precedes, Before, Windowed, AllPassed, PassedAreCovered, Covered,
              Candidates
<1>4. EmittedIsCut'
  BY <1>1 DEF IInv, EmittedIsCut, Disabled, Enabled, TypeOK
<1> QED
  BY <1>2, <1>3, <1>4 DEF IInv

LEMMA StutterInv ==
  ASSUME IInv, UNCHANGED vars
  PROVE  IInv'
BY DEF IInv, vars, input, TypeOK, Ordered, Precedes, Before, Windowed, AllPassed,
       PassedAreCovered, Covered, Candidates, EmittedIsCut, Enabled

(* The strengthened invariant holds in every reachable state. *)
THEOREM Invariance == Spec => []IInv
<1>1. IInv /\ [Next]_vars => IInv'
  BY ExtendInv, EmitInv, DisabledInv, StutterInv DEF Next
<1> QED
  BY InitInv, <1>1, PTL DEF Spec
------------------------------------------------------------------------------
(* The variables keep their types, whatever the caps and the scoring. *)
THEOREM TypeCorrectness == Spec => []TypeOK
<1>1. IInv => TypeOK
  BY DEF IInv
<1> QED
  BY Invariance, <1>1, PTL

(* The returned candidates keep both caps, no pair is returned twice, and  *)
(* they follow the entrypoints and the ranking.                            *)
THEOREM RankedAndCapped == Spec => []ResultIsRankedAndCapped
<1>1. ASSUME IInv PROVE ResultIsRankedAndCapped
  <2> USE <1>1 DEF IInv
  <2>1. CASE emitted = <<>>
    <3>1. DOMAIN emitted = {} /\ Len(emitted) = 0
      BY <2>1
    <3> QED
      BY <3>1 DEF ResultIsRankedAndCapped, Ordered, Windowed, TypeOK
  <2>2. CASE emitted = Cut(flows, maxTotal)
    <3>1. /\ Len(emitted) <= maxTotal
          /\ DOMAIN emitted \subseteq DOMAIN flows
          /\ \A i \in DOMAIN emitted : emitted[i] = flows[i]
      BY <2>2, CutIsPrefix DEF TypeOK
    <3> QED
      BY <3>1 DEF ResultIsRankedAndCapped, Ordered, Windowed
  <2> QED
    BY <2>1, <2>2 DEF EmittedIsCut
<1> QED
  BY Invariance, <1>1, PTL

(* A candidate that is not returned lost against better candidates of its  *)
(* own entrypoint, or against a result full of candidates that precede it. *)
THEOREM NothingElseIsLeftOut == Spec => []LeftOutForAReason
<1>1. ASSUME IInv PROVE LeftOutForAReason
  <2> USE <1>1 DEF IInv
  <2> SUFFICES ASSUME done, maxTotal > 0, maxPerEntrypoint > 0,
                      NEW x \in Entrypoints, NEW t \in Candidates(x)
               PROVE  \/ \E i \in DOMAIN emitted : emitted[i] = Flow(x, t)
                      \/ /\ Len(emitted) = maxTotal
                         /\ \A i \in DOMAIN emitted : Precedes(emitted[i], Flow(x, t))
                      \/ \E i \in DOMAIN emitted :
                           /\ i + maxPerEntrypoint - 1 \in DOMAIN emitted
                           /\ \A j \in i .. i + maxPerEntrypoint - 1 :
                                emitted[j].entrypoint = x /\ Before(x, emitted[j].target, t)
    BY DEF LeftOutForAReason
  <2>1. emitted = Cut(flows, maxTotal) /\ (next > NumEntrypoints \/ Len(flows) >= maxTotal)
    BY DEF EmittedIsCut, Enabled
  <2>2. /\ Len(flows) \in Nat /\ Len(emitted) \in Nat /\ maxTotal \in Nat /\ maxPerEntrypoint \in Nat
        /\ DOMAIN flows = 1 .. Len(flows) /\ DOMAIN emitted = 1 .. Len(emitted)
    BY LenProperties DEF TypeOK
  <2>3. /\ Len(emitted) <= Len(flows) /\ Len(emitted) <= maxTotal
        /\ Len(emitted) = maxTotal \/ Len(emitted) = Len(flows)
        /\ \A i \in DOMAIN emitted : i \in DOMAIN flows /\ emitted[i] = flows[i]
    BY SMTT(30), <2>1, CutIsPrefix DEF TypeOK
  <2> DEFINE kept == Len(emitted)
             all == Len(flows)
  <2>3a. /\ kept \in Nat /\ all \in Nat /\ maxTotal \in Nat
         /\ kept <= all /\ kept <= maxTotal
         /\ kept = maxTotal \/ kept = all
    BY <2>2, <2>3
  <2>4. ASSUME NEW i \in DOMAIN flows
        PROVE  flows[i].entrypoint \in Entrypoints /\ flows[i].target \in Targets
    <3>1. flows \in Seq(FlowType) /\ i \in 1 .. Len(flows)
      BY <2>2 DEF TypeOK
    <3>2. flows[i] \in FlowType
      BY <3>1, ElementOfSeq
    <3> QED
      BY <3>2 DEF FlowType
  <2>5. CASE next <= x
    <3>1. Len(emitted) = maxTotal
      <4>1. next \in Nat /\ x \in Nat /\ NumEntrypoints \in Nat /\ x <= NumEntrypoints
        BY StaticFlowAssumption DEF Entrypoints, TypeOK
      <4>2. all >= maxTotal
        BY <4>1, <2>1, <2>5
      <4> HIDE DEF kept, all
      <4>3. kept = maxTotal
        BY <4>2, <2>3a
      <4> QED
        BY <4>3 DEF kept
    <3>2. ASSUME NEW i \in DOMAIN emitted PROVE Precedes(emitted[i], Flow(x, t))
      <4>1. i \in DOMAIN flows
        BY <2>2, <2>3
      <4>2. flows[i].entrypoint < next /\ flows[i].entrypoint \in Entrypoints
        BY <4>1, <2>4 DEF AllPassed
      <4>3. next \in Int /\ x \in Int /\ flows[i].entrypoint \in Int
        BY <4>2, StaticFlowAssumption DEF Entrypoints, TypeOK
      <4>4. flows[i].entrypoint < x
        BY <4>2, <4>3, <2>5
      <4>5. emitted[i] = flows[i]
        BY <2>3
      <4> QED
        BY SMTT(30), <4>4, <4>5 DEF Precedes, Flow
    <3> QED
      BY <3>1, <3>2
  <2>6. CASE x < next
    <3>1. Covered(flows, x, t)
      BY <2>6 DEF PassedAreCovered
    <3>2. CASE \E i \in DOMAIN flows : flows[i] = Flow(x, t)
      <4>1. PICK i \in DOMAIN flows : flows[i] = Flow(x, t)
        BY <3>2
      <4>2. CASE i \in DOMAIN emitted
        BY <4>1, <4>2, <2>3
      <4>3. CASE i \notin DOMAIN emitted
        <5>1. Len(emitted) = maxTotal /\ \A j \in DOMAIN emitted : j \in DOMAIN flows /\ j < i
          <6>1. i \in 1 .. all /\ i \notin 1 .. kept
            BY <4>3, <2>2
          <6> HIDE DEF kept, all
          <6>2. i > kept /\ kept = maxTotal
            BY <6>1, <2>3a
          <6> USE DEF kept, all
          <6>3. ASSUME NEW j \in DOMAIN emitted PROVE j \in DOMAIN flows /\ j < i
            BY <6>1, <6>2, <2>2, <2>3
          <6> QED
            BY <6>2, <6>3
        <5> QED
          BY <5>1, <4>1, <2>3 DEF Ordered
      <4> QED
        BY <4>2, <4>3
    <3>3. CASE \E i \in DOMAIN flows :
                 /\ i + maxPerEntrypoint - 1 \in DOMAIN flows
                 /\ \A j \in i .. i + maxPerEntrypoint - 1 :
                      flows[j].entrypoint = x /\ Before(x, flows[j].target, t)
      <4>1. PICK i \in DOMAIN flows :
                 /\ i + maxPerEntrypoint - 1 \in DOMAIN flows
                 /\ \A j \in i .. i + maxPerEntrypoint - 1 :
                      flows[j].entrypoint = x /\ Before(x, flows[j].target, t)
        BY <3>3
      <4>2. CASE i + maxPerEntrypoint - 1 \in DOMAIN emitted
        <5>1. i \in DOMAIN emitted /\ \A j \in i .. i + maxPerEntrypoint - 1 : j \in DOMAIN emitted
          BY <4>2, <2>2
        <5> QED
          BY SMTT(30), <5>1, <4>1, <4>2, <2>3
      <4>3. CASE i + maxPerEntrypoint - 1 \notin DOMAIN emitted
        <5>1. Len(emitted) = maxTotal
          BY <4>1, <4>3, <2>2, <2>3
        <5>2. ASSUME NEW j \in DOMAIN emitted PROVE Precedes(emitted[j], Flow(x, t))
          <6>1. j \in DOMAIN flows /\ j < i + maxPerEntrypoint - 1 /\ emitted[j] = flows[j]
            <7> DEFINE last == i + maxPerEntrypoint - 1
            <7>1. last \in 1 .. all /\ last \notin 1 .. kept
              BY SMTT(30), <4>1, <4>3, <2>2
            <7>2. j \in 1 .. kept /\ emitted[j] = flows[j]
              BY <2>2, <2>3
            <7> HIDE DEF last, kept, all
            <7>3. j \in 1 .. all /\ j < last
              BY <7>1, <7>2, <2>3a
            <7> QED
              BY <7>2, <7>3, <2>2 DEF last, all
          <6>2. CASE j >= i
            <7>1. flows[j].entrypoint = x /\ Before(x, flows[j].target, t)
              BY <6>1, <6>2, <4>1, <2>2
            <7> QED
              BY <7>1, <6>1 DEF Precedes, Flow
          <6>3. CASE j < i
            <7>1. Precedes(flows[j], flows[i])
              BY <6>1, <6>3, <4>1 DEF Ordered
            <7>2. flows[i].entrypoint = x /\ Before(x, flows[i].target, t)
              BY <4>1, <2>2
            <7>3. CASE flows[j].entrypoint < x
              BY <7>3, <6>1 DEF Precedes, Flow
            <7>4. CASE flows[j].entrypoint = x /\ Before(x, flows[j].target, flows[i].target)
              <8>1. Before(x, flows[j].target, t)
                BY <7>2, <7>4, <6>1, <4>1, <2>4, BeforeTransitive DEF Candidates
              <8> QED
                BY <8>1, <7>4, <6>1 DEF Precedes, Flow
            <7> QED
              BY <7>1, <7>2, <7>3, <7>4 DEF Precedes
          <6> QED
            BY <6>1, <6>2, <6>3, <2>2
        <5> QED
          BY <5>1, <5>2
      <4> QED
        BY <4>2, <4>3
    <3> QED
      BY <3>1, <3>2, <3>3 DEF Covered
  <2> QED
    BY <2>5, <2>6 DEF Entrypoints, TypeOK
<1> QED
  BY Invariance, <1>1, PTL
------------------------------------------------------------------------------
(* The loop implements the selection without a loop.                       *)

(* In every state the scoring and the caps are of their types.             *)
Inputs ==
  /\ scoring \in [Entrypoints -> [Targets -> Nat]]
  /\ maxTotal \in Nat /\ maxPerEntrypoint \in Nat

LEMMA SameCardinality == \A S : Abstract!Cardinality(S) = Cardinality(S)
BY DEF Abstract!Cardinality, Cardinality

LEMMA RankedCandidates ==
  ASSUME Inputs, NEW x \in Entrypoints
  PROVE  LET C == Candidates(x)
             c == Cardinality(C)
         IN
         /\ c \in Nat
         /\ \E f \in [1 .. c -> C] :
              /\ \A i, j \in 1 .. c : i < j => Before(x, f[i], f[j])
              /\ \A t \in C : \E i \in 1 .. c : f[i] = t
              /\ \A i \in 1 .. c : (CHOOSE t \in C : Abstract!Rank(x, t) = i) = f[i]
<1> DEFINE C == Candidates(x)
           c == Cardinality(C)
           R == {tu \in Targets \X Targets : Before(x, tu[1], tu[2])}
<1>1. C \subseteq Targets /\ IsFiniteSet(C)
  <2>1. IsFiniteSet(Targets)
    BY StaticFlowAssumption, FS_Interval DEF Targets
  <2>2. QED
    BY <2>1, FS_Subset DEF Candidates
<1>2. \A t \in Targets : scoring[x][t] \in Nat /\ t \in Nat
  BY StaticFlowAssumption DEF Inputs, Targets
<1>3. \A t, u \in C : <<t, u>> \in R <=> Before(x, t, u)
  BY <1>1
<1>4. /\ \A t, u \in C : t = u \/ Before(x, t, u) \/ Before(x, u, t)
      /\ \A t \in C : ~Before(x, t, t)
      /\ \A t, u, v \in C : Before(x, t, u) /\ Before(x, u, v) => Before(x, t, v)
  BY <1>1, <1>2 DEF Before
<1>5. ASSUME NEW t \in C
      PROVE  Abstract!Rank(x, t) = Cardinality({u \in C : u = t \/ Before(x, u, t)})
  <2>1. Abstract!Candidates(x) = C
    BY DEF Abstract!Candidates, Candidates, Targets
  <2> HIDE DEF C
  <2>2. \A u \in C : (u = t \/ Before(x, u, t)) <=>
                       \/ scoring[x][u] > scoring[x][t]
                       \/ scoring[x][u] = scoring[x][t] /\ u <= t
    BY <1>1, <1>2 DEF Before
  <2>3. {u \in C : u = t \/ Before(x, u, t)}
          = {u \in C : \/ scoring[x][u] > scoring[x][t]
                       \/ scoring[x][u] = scoring[x][t] /\ u <= t}
    BY <2>2, Zenon
  <2>4. Abstract!Rank(x, t)
          = Cardinality({u \in C : \/ scoring[x][u] > scoring[x][t]
                                   \/ scoring[x][u] = scoring[x][t] /\ u <= t})
    BY <2>1, SameCardinality, Zenon DEF Abstract!Rank
  <2>5. QED
    BY <2>3, <2>4, Zenon
<1> HIDE DEF C, R
<1>6. /\ c \in Nat
      /\ \E f \in [1 .. c -> C] :
           /\ \A i, j \in 1 .. c : i < j => <<f[i], f[j]>> \in R
           /\ \A t \in C : \E i \in 1 .. c : f[i] = t
           /\ \A i \in 1 .. c, t \in C :
                Cardinality({u \in C : u = t \/ <<u, t>> \in R}) = i <=> t = f[i]
  <2>1. /\ \A t, u \in C : t = u \/ <<t, u>> \in R \/ <<u, t>> \in R
        /\ \A t \in C : <<t, t>> \notin R
        /\ \A t, u, v \in C : <<t, u>> \in R /\ <<u, v>> \in R => <<t, v>> \in R
    BY <1>3, <1>4
  <2>2. QED
    BY <1>1, <2>1, Ranking, ZenonT(40)
<1> HIDE DEF c
<1>7. PICK f \in [1 .. c -> C] :
        /\ \A i, j \in 1 .. c : i < j => <<f[i], f[j]>> \in R
        /\ \A t \in C : \E i \in 1 .. c : f[i] = t
        /\ \A i \in 1 .. c, t \in C :
             Cardinality({u \in C : u = t \/ <<u, t>> \in R}) = i <=> t = f[i]
  BY <1>6
<1>8. \A i, j \in 1 .. c : i < j => Before(x, f[i], f[j])
  BY <1>3, <1>7
<1>9. ASSUME NEW i \in 1 .. c
      PROVE  (CHOOSE t \in C : Abstract!Rank(x, t) = i) = f[i]
  <2>1. \A t \in C : Abstract!Rank(x, t) = i <=> t = f[i]
    <3> SUFFICES ASSUME NEW t \in C
                 PROVE  Abstract!Rank(x, t) = i <=> t = f[i]
      OBVIOUS
    <3>1. {u \in C : u = t \/ <<u, t>> \in R} = {u \in C : u = t \/ Before(x, u, t)}
      BY <1>3, Zenon
    <3>2. Abstract!Rank(x, t) = Cardinality({u \in C : u = t \/ <<u, t>> \in R})
      BY <1>5, <3>1, Zenon
    <3>3. QED
      BY <1>7, <3>2, Zenon
  <2>2. f[i] \in C
    BY <1>7
  <2>3. QED
    BY <2>1, <2>2
<1>10. QED
  BY <1>6, <1>7, <1>8, <1>9 DEF C, c

(* The list one turn of the loop appends is the abstract one.              *)
LEMMA TopIsBest ==
  ASSUME Inputs, NEW x \in Entrypoints, NEW s \in TargetLists, IsTop(x, s)
  PROVE  FlowsOf(x, s) = Abstract!Best(x)
<1> DEFINE C == Candidates(x)
           c == Cardinality(C)
           kept == IF c < maxPerEntrypoint THEN c ELSE maxPerEntrypoint
<1>1. PICK n \in 0 .. maxPerEntrypoint : s \in [1 .. n -> Targets]
  BY DEF TargetLists
<1>2. Len(s) = n /\ DOMAIN s = 1 .. n /\ n \in Nat /\ maxPerEntrypoint \in Nat
  BY <1>1 DEF Inputs
<1>3. /\ \A i \in 1 .. n : s[i] \in C
      /\ \A i, j \in 1 .. n : i < j => Before(x, s[i], s[j])
      /\ \A t \in C : \/ \E i \in 1 .. n : s[i] = t
                      \/ n = maxPerEntrypoint /\ \A i \in 1 .. n : Before(x, s[i], t)
  BY <1>2 DEF IsTop
<1>4. /\ c \in Nat
      /\ \E f \in [1 .. c -> C] :
           /\ \A i, j \in 1 .. c : i < j => Before(x, f[i], f[j])
           /\ \A t \in C : \E i \in 1 .. c : f[i] = t
           /\ \A i \in 1 .. c : (CHOOSE t \in C : Abstract!Rank(x, t) = i) = f[i]
  BY RankedCandidates
<1>5. PICK f \in [1 .. c -> C] :
           /\ \A i, j \in 1 .. c : i < j => Before(x, f[i], f[j])
           /\ \A t \in C : \E i \in 1 .. c : f[i] = t
           /\ \A i \in 1 .. c : (CHOOSE t \in C : Abstract!Rank(x, t) = i) = f[i]
  BY <1>4
<1>6. \A t, u \in C : Before(x, t, u) => ~Before(x, u, t) /\ t # u
  <2>1. \A t \in C : scoring[x][t] \in Nat /\ t \in Nat
    BY StaticFlowAssumption DEF Inputs, Candidates, Targets
  <2>2. QED
    BY <2>1 DEF Before
<1> HIDE DEF C, c
<1>7. \A i \in 1 .. n : i \in 1 .. c /\ s[i] = f[i]
  <2> DEFINE Bad == {i \in 1 .. n : i \notin 1 .. c \/ s[i] # f[i]}
  <2> SUFFICES ASSUME Bad # {}
               PROVE  FALSE
    OBVIOUS
  <2>1. Bad \in SUBSET Nat
    BY <1>2
  <2>2. PICK i \in Bad : \A j \in Bad : i <= j
    <3> HIDE DEF Bad
    <3>1. QED
      BY <2>1, LeastElement
  <2>3. i \in 1 .. n /\ \A j \in 1 .. n : j < i => j \in 1 .. c /\ s[j] = f[j]
    BY <1>2, <2>2
  <2>4. PICK q \in 1 .. c : f[q] = s[i]
    BY <1>3, <1>5, <2>3
  <2>5. q # i
    BY <2>2, <2>4
  <2>6. CASE q < i
    <3>1. q \in 1 .. n
      BY <1>2, <2>3, <2>6
    <3>2. s[q] = s[i]
      BY <2>3, <2>4, <2>6, <3>1
    <3>3. Before(x, s[q], s[i])
      BY <1>3, <2>3, <2>6, <3>1
    <3>4. QED
      BY <1>3, <1>6, <2>3, <3>1, <3>2, <3>3
  <2>7. CASE q > i
    <3>1. i \in 1 .. c /\ Before(x, f[i], s[i])
      <4>1. i \in 1 .. c
        BY <1>2, <1>4, <2>3, <2>4, <2>7
      <4>2. i < q
        BY <2>7, <2>3, <2>4, <1>2, <1>4
      <4>3. Before(x, f[i], f[q])
        BY <1>5, <2>4, <4>1, <4>2
      <4>4. QED
        BY <2>4, <4>1, <4>3
    <3>2. f[i] \in C /\ s[i] \in C
      BY <1>3, <1>5, <2>3, <3>1
    <3>3. PICK m \in 1 .. n : s[m] = f[i]
      BY <1>3, <1>6, <2>3, <3>1, <3>2
    <3>4. m < i
      <4>1. m # i
        BY <1>6, <3>1, <3>2, <3>3
      <4>2. ~(m > i)
        BY <1>3, <1>6, <2>3, <3>1, <3>2, <3>3
      <4>3. QED
        BY <1>2, <2>3, <4>1, <4>2
    <3>5. m \in 1 .. c /\ f[m] = f[i]
      BY <2>3, <3>3, <3>4
    <3>6. Before(x, f[m], f[i])
      BY <1>5, <3>1, <3>4, <3>5
    <3>7. QED
      BY <1>6, <3>2, <3>5, <3>6
  <2>8. QED
    BY <1>4, <1>2, <2>3, <2>5, <2>6, <2>7
<1>8. n = kept
  <2>1. n <= c
    <3>1. n # 0 => n \in 1 .. n
      BY <1>2
    <3>2. QED
      BY <1>2, <1>4, <1>7, <3>1
  <2>2. ASSUME n < c
        PROVE  n = maxPerEntrypoint
    <3>1. n + 1 \in 1 .. c /\ f[n + 1] \in C
      BY <1>2, <1>4, <1>5, <2>2
    <3>2. \A i \in 1 .. n : s[i] # f[n + 1]
      <4>1. \A i \in 1 .. n : i < n + 1 /\ i \in 1 .. c /\ s[i] = f[i] /\ f[i] \in C
        BY <1>2, <1>5, <1>7
      <4>2. \A i \in 1 .. n : Before(x, f[i], f[n + 1])
        BY <1>5, <3>1, <4>1
      <4>3. QED
        BY <1>6, <3>1, <4>1, <4>2
    <3>3. QED
      BY <1>3, <3>1, <3>2
  <2>3. n <= maxPerEntrypoint
    BY <1>1, <1>2
  <2>4. QED
    BY <1>2, <1>4, <2>1, <2>2, <2>3
<1>9. Abstract!Best(x) = [r \in 1 .. kept |->
        [entrypoint |-> x, target |-> CHOOSE t \in C : Abstract!Rank(x, t) = r]]
  <2>1. Abstract!Candidates(x) = C
    BY DEF Abstract!Candidates, C, Candidates, Targets
  <2>2. QED
    BY <2>1, SameCardinality, Zenon DEF Abstract!Best, c
<1> HIDE DEF kept
<1>10. FlowsOf(x, s) = [r \in 1 .. n |-> [entrypoint |-> x, target |-> s[r]]]
  BY <1>2 DEF FlowsOf, Flow
<1>11. \A r \in 1 .. n : (CHOOSE t \in C : Abstract!Rank(x, t) = r) = s[r]
  BY <1>5, <1>7
<1>12. [r \in 1 .. n |-> [entrypoint |-> x, target |-> CHOOSE t \in C : Abstract!Rank(x, t) = r]]
         = [r \in 1 .. n |-> [entrypoint |-> x, target |-> s[r]]]
  BY <1>11, Zenon
<1>13. QED
  BY <1>8, <1>9, <1>10, <1>12, Zenon

(* Slices of lists that agree so far are the same.                         *)
LEMMA SliceIsList ==
  ASSUME NEW s, IsList(s), NEW n \in 0 .. Len(s)
  PROVE  /\ DOMAIN SubSeq(s, 1, n) = 1 .. n
         /\ \A i \in 1 .. n : SubSeq(s, 1, n)[i] = s[i]
         /\ SubSeq(s, 1, n) = [i \in 1 .. n |-> s[i]]
<1>1. s \in Seq(Elements(s)) /\ Len(s) \in Nat /\ n \in Nat
  BY ListFacts DEF IsList
<1>2. 1 \in 1 .. Len(s) + 1 /\ n \in 1 - 1 .. Len(s)
  BY <1>1
<1>3. /\ SubSeq(s, 1, n) \in Seq(Elements(s)) /\ Len(SubSeq(s, 1, n)) = n - 1 + 1
      /\ \A i \in 1 .. n - 1 + 1 : SubSeq(s, 1, n)[i] = s[1 + i - 1]
  BY <1>1, <1>2, SubSeqProperties
<1>4. n - 1 + 1 = n /\ \A i \in 1 .. n : 1 + i - 1 = i
  BY <1>1
<1>5. SubSeq(s, 1, n) \in [1 .. n -> Elements(s)]
  BY <1>3, <1>4, LenProperties
<1>6. \A i \in 1 .. n : SubSeq(s, 1, n)[i] = s[i]
  BY <1>3, <1>4
<1>7. QED
  BY <1>5, <1>6

LEMMA SlicesAgree ==
  ASSUME NEW s, IsList(s), NEW t, IsList(t), NEW n \in Nat, n <= Len(s), n <= Len(t),
         \A i \in 1 .. n : s[i] = t[i]
  PROVE  SubSeq(s, 1, n) = SubSeq(t, 1, n)
<1>1. n \in 0 .. Len(s) /\ n \in 0 .. Len(t)
  BY ListFacts
<1>2. SubSeq(s, 1, n) = [i \in 1 .. n |-> s[i]] /\ SubSeq(t, 1, n) = [i \in 1 .. n |-> t[i]]
  BY <1>1, SliceIsList
<1>3. [i \in 1 .. n |-> s[i]] = [i \in 1 .. n |-> t[i]]
  OBVIOUS
<1>4. QED
  BY <1>2, <1>3, Zenon

LEMMA WholeSlice ==
  ASSUME NEW s, IsList(s)
  PROVE  SubSeq(s, 1, Len(s)) = s
<1>1. Len(s) \in 0 .. Len(s) /\ s \in [1 .. Len(s) -> Elements(s)]
  BY ListFacts
<1>2. SubSeq(s, 1, Len(s)) = [i \in 1 .. Len(s) |-> s[i]]
  BY <1>1, SliceIsList
<1>3. QED
  BY <1>1, <1>2

LEMMA BestIsList ==
  ASSUME Inputs, NEW x \in Entrypoints
  PROVE  /\ IsList(Abstract!Best(x))
         /\ maxPerEntrypoint = 0 => Abstract!Best(x) = <<>>
<1> DEFINE c == Abstract!Cardinality(Abstract!Candidates(x))
           kept == IF c < maxPerEntrypoint THEN c ELSE maxPerEntrypoint
           b == Abstract!Best(x)
<1>1. c \in Nat
  <2>1. Abstract!Candidates(x) = Candidates(x)
    BY DEF Abstract!Candidates, Candidates, Targets
  <2>2. Cardinality(Candidates(x)) \in Nat
    BY RankedCandidates
  <2>3. QED
    BY <2>1, <2>2, SameCardinality
<1>2. b = [r \in 1 .. kept |->
             [entrypoint |-> x,
              target |-> CHOOSE t \in Abstract!Candidates(x) : Abstract!Rank(x, t) = r]]
  BY Zenon DEF Abstract!Best
<1> HIDE DEF c, b
<1>3. kept \in Nat /\ (maxPerEntrypoint = 0 => kept = 0)
  BY <1>1 DEF Inputs
<1> HIDE DEF kept
<1>4. b = [r \in 1 .. kept |-> b[r]]
  BY <1>2
<1>5. IsList(b)
  BY <1>3, <1>4, MapIsList
<1>6. maxPerEntrypoint = 0 => b = <<>>
  <2>1. ASSUME kept = 0
        PROVE  b = <<>>
    BY <1>2, <2>1
  <2>2. QED
    BY <1>3, <2>1
<1>7. QED
  BY <1>5, <1>6 DEF b

LEMMA BestUpToIsDefined ==
  LET all == Abstract!BestUpTo IN
  all = [x \in 0 .. NumEntrypoints |-> IF x = 0 THEN <<>> ELSE all[x - 1] \o Abstract!Best(x)]
<1> DEFINE Defines(f, n) == f = [x \in 0 .. n |-> IF x = 0 THEN <<>>
                                                  ELSE f[x - 1] \o Abstract!Best(x)]
           S == {n \in Nat : \E f : Defines(f, n)}
<1>1. 0 \in S
  <2>1. Defines([x \in 0 .. 0 |-> <<>>], 0)
    OBVIOUS
  <2>2. QED
    BY <2>1
<1>2. ASSUME NEW n \in Nat, NEW f, Defines(f, n)
      PROVE  \E g : Defines(g, n + 1)
  <2> DEFINE g == [x \in 0 .. n + 1 |-> IF x = n + 1 THEN f[n] \o Abstract!Best(n + 1) ELSE f[x]]
  <2>1. \A x \in 0 .. n + 1 : x # 0 => x - 1 \in 0 .. n + 1 /\ x - 1 # n + 1 /\ x - 1 \in 0 .. n
    OBVIOUS
  <2>2. \A x \in 0 .. n : x # n + 1 /\ x \in 0 .. n + 1
    OBVIOUS
  <2>3. \A x \in 0 .. n + 1 : x # n + 1 => x \in 0 .. n
    OBVIOUS
  <2>4. \A x \in 0 .. n + 1 : x # 0 => g[x - 1] = f[x - 1]
    BY <2>1
  <2>5. \A x \in 0 .. n : f[x] = IF x = 0 THEN <<>> ELSE f[x - 1] \o Abstract!Best(x)
    BY <1>2
  <2>6. \A x \in 0 .. n + 1 :
          g[x] = IF x = 0 THEN <<>> ELSE g[x - 1] \o Abstract!Best(x)
    <3> SUFFICES ASSUME NEW x \in 0 .. n + 1
                 PROVE  g[x] = IF x = 0 THEN <<>> ELSE g[x - 1] \o Abstract!Best(x)
      OBVIOUS
    <3>1. CASE x = n + 1
      <4>1. x # 0 /\ x - 1 = n
        BY <3>1
      <4>2. g[x] = f[n] \o Abstract!Best(x)
        BY <3>1
      <4>3. QED
        BY <2>4, <4>1, <4>2
    <3>2. CASE x # n + 1
      <4>1. g[x] = f[x] /\ x \in 0 .. n
        BY <2>3, <3>2
      <4>2. QED
        BY <2>4, <2>5, <4>1
    <3>3. QED
      BY <3>1, <3>2
  <2>7. Defines(g, n + 1)
    <3>1. g = [x \in 0 .. n + 1 |-> g[x]]
      OBVIOUS
    <3> HIDE DEF g
    <3>2. QED
      BY <2>6, <3>1
  <2>8. QED
    BY <2>7
<1> HIDE DEF Defines
<1>3. \A n \in Nat : n \in S => n + 1 \in S
  BY <1>2
<1> HIDE DEF S
<1>4. NumEntrypoints \in S
  BY <1>1, <1>3, Induction, StaticFlowAssumption
<1>5. \E f : Defines(f, NumEntrypoints)
  BY <1>4 DEF S
<1>6. QED
  BY <1>5, Zenon DEF Abstract!BestUpTo, Defines

IsBeginning(s, t) == Len(s) <= Len(t) /\ \A i \in 1 .. Len(s) : t[i] = s[i]

(* What the first entrypoints contribute begins what all contribute.       *)
LEMMA BestUpToIsBeginning ==
  ASSUME Inputs, NEW n \in 0 .. NumEntrypoints
  PROVE  /\ IsList(Abstract!BestUpTo[n]) /\ IsList(Abstract!AllBest)
         /\ IsBeginning(Abstract!BestUpTo[n], Abstract!AllBest)
         /\ maxPerEntrypoint = 0 => Abstract!BestUpTo[n] = <<>>
<1> DEFINE all == Abstract!BestUpTo
           N == NumEntrypoints
<1>1. N \in Nat
  BY StaticFlowAssumption
<1>2. /\ all[0] = <<>>
      /\ \A k \in Nat : k + 1 <= N => all[k + 1] = all[k] \o Abstract!Best(k + 1)
  <2>1. all = [x \in 0 .. N |-> IF x = 0 THEN <<>> ELSE all[x - 1] \o Abstract!Best(x)]
    BY BestUpToIsDefined
  <2> HIDE DEF all
  <2>2. \A x \in 0 .. N : all[x] = IF x = 0 THEN <<>> ELSE all[x - 1] \o Abstract!Best(x)
    BY <2>1
  <2>3. \A k \in Nat : k + 1 <= N => k + 1 \in 0 .. N /\ k + 1 # 0 /\ (k + 1) - 1 = k
    BY <1>1
  <2>4. 0 \in 0 .. N
    BY <1>1
  <2>5. QED
    BY <2>2, <2>3, <2>4
<1>3. \A k \in Nat : k + 1 <= N =>
        /\ IsList(Abstract!Best(k + 1))
        /\ maxPerEntrypoint = 0 => Abstract!Best(k + 1) = <<>>
  <2>1. \A k \in Nat : k + 1 <= N => k + 1 \in Entrypoints
    BY <1>1 DEF Entrypoints
  <2>2. QED
    BY <2>1, BestIsList
<1> HIDE DEF all, N
<1>4. \A k \in Nat : k <= N =>
        IsList(all[k]) /\ (maxPerEntrypoint = 0 => all[k] = <<>>)
  <2> DEFINE S == {k \in Nat : k <= N =>
                     IsList(all[k]) /\ (maxPerEntrypoint = 0 => all[k] = <<>>)}
  <2>1. 0 \in S
    <3>1. IsList(<<>>)
      BY DEF IsList
    <3>2. QED
      BY <1>2, <3>1
  <2>2. ASSUME NEW k \in Nat, k \in S
        PROVE  k + 1 \in S
    <3>1. SUFFICES ASSUME k + 1 <= N
                   PROVE  IsList(all[k + 1]) /\ (maxPerEntrypoint = 0 => all[k + 1] = <<>>)
      OBVIOUS
    <3>2. IsList(all[k]) /\ (maxPerEntrypoint = 0 => all[k] = <<>>)
      BY <1>1, <2>2, <3>1
    <3>3. all[k + 1] = all[k] \o Abstract!Best(k + 1)
      BY <1>2, <3>1
    <3>4. IsList(all[k + 1])
      BY <1>3, <3>1, <3>2, <3>3, ListConcat
    <3>5. maxPerEntrypoint = 0 => all[k + 1] = <<>> \o <<>>
      BY <1>3, <3>1, <3>2, <3>3
    <3>6. <<>> \o <<>> = <<>>
      OBVIOUS
    <3>7. QED
      BY <3>4, <3>5, <3>6
  <2> HIDE DEF S
  <2>3. Nat \subseteq S
    BY <2>1, <2>2, Induction
  <2>4. QED
    BY <2>3 DEF S
<1>5. \A k \in Nat : k <= N => IsBeginning(all[N - k], all[N])
  <2> DEFINE S == {k \in Nat : k <= N => IsBeginning(all[N - k], all[N])}
  <2>1. 0 \in S
    <3>1. N - 0 = N /\ IsList(all[N])
      BY <1>1, <1>4
    <3>2. IsBeginning(all[N], all[N])
      BY <3>1, ListFacts DEF IsBeginning
    <3>3. QED
      BY <3>1, <3>2
  <2>2. ASSUME NEW k \in Nat, k \in S
        PROVE  k + 1 \in S
    <3>1. SUFFICES ASSUME k + 1 <= N
                   PROVE  IsBeginning(all[N - (k + 1)], all[N])
      OBVIOUS
    <3>2. PICK m \in Nat : m = N - (k + 1) /\ m + 1 = N - k /\ m + 1 <= N
      BY <1>1, <3>1
    <3>3. IsBeginning(all[m + 1], all[N])
      BY <1>1, <2>2, <3>1, <3>2
    <3>4. PICK b : b = Abstract!Best(m + 1)
      OBVIOUS
    <3>5. /\ IsList(all[m]) /\ IsList(b) /\ IsList(all[N])
          /\ all[m + 1] = all[m] \o b
      <4>1. m <= N /\ N <= N
        BY <1>1, <3>2
      <4>2. QED
        BY <1>1, <1>2, <1>3, <1>4, <3>2, <3>4, <4>1
    <3>6. /\ Len(all[m]) \in Nat /\ Len(b) \in Nat
          /\ Len(all[m] \o b) = Len(all[m]) + Len(b)
          /\ \A i \in 1 .. Len(all[m]) : (all[m] \o b)[i] = all[m][i]
      BY <3>5, ListConcat
    <3>7. IsBeginning(all[m], all[N])
      <4>1. /\ Len(all[m + 1]) = Len(all[m]) + Len(b) /\ Len(all[N]) \in Nat
            /\ \A i \in 1 .. Len(all[m]) : all[m + 1][i] = all[m][i]
        BY <3>5, <3>6, ListFacts
      <4>2. /\ Len(all[m + 1]) <= Len(all[N])
            /\ \A i \in 1 .. Len(all[m + 1]) : all[N][i] = all[m + 1][i]
        BY <3>3 DEF IsBeginning
      <4>3. /\ Len(all[m]) <= Len(all[N])
            /\ \A i \in 1 .. Len(all[m]) : i \in 1 .. Len(all[m + 1])
        BY <3>6, <4>1, <4>2
      <4>4. QED
        BY <4>1, <4>2, <4>3 DEF IsBeginning
    <3>8. QED
      BY <3>2, <3>7
  <2> HIDE DEF S
  <2>3. Nat \subseteq S
    BY <2>1, <2>2, Induction
  <2>4. QED
    BY <2>3 DEF S
<1>6. /\ n \in Nat /\ n <= N /\ N - n \in Nat /\ N - n <= N /\ N - (N - n) = n
      /\ N <= N
  BY <1>1 DEF N
<1>7. Abstract!AllBest = all[N]
  BY DEF Abstract!AllBest, all, N
<1>8. IsBeginning(all[n], all[N])
  BY <1>5, <1>6
<1>9. IsList(all[n]) /\ IsList(all[N]) /\ (maxPerEntrypoint = 0 => all[n] = <<>>)
  BY <1>1, <1>4, <1>6
<1>10. QED
  BY <1>7, <1>8, <1>9 DEF all

(* The working list is what the entrypoints passed so far contribute.      *)
FlowsAreBest == flows = Abstract!BestUpTo[next - 1]

LEMMA FlowsStayBest ==
  /\ Init => FlowsAreBest
  /\ IInv /\ FlowsAreBest /\ [Next]_vars => FlowsAreBest'
<1>1. ASSUME Init
      PROVE  FlowsAreBest
  <2>1. next - 1 = 0 /\ flows = <<>>
    BY <1>1 DEF Init
  <2>2. Abstract!BestUpTo[0] = <<>>
    <3>1. 0 \in 0 .. NumEntrypoints
      BY StaticFlowAssumption
    <3> DEFINE all == Abstract!BestUpTo
    <3>2. all = [x \in 0 .. NumEntrypoints |->
                   IF x = 0 THEN <<>> ELSE all[x - 1] \o Abstract!Best(x)]
      BY BestUpToIsDefined
    <3> HIDE DEF all
    <3>3. all[0] = <<>>
      BY <3>1, <3>2
    <3>4. QED
      BY <3>3 DEF all
  <2>3. QED
    BY <2>1, <2>2 DEF FlowsAreBest
<1>2. ASSUME IInv, FlowsAreBest, Extend
      PROVE  FlowsAreBest'
  <2>1. PICK s \in TargetLists : IsTop(next, s) /\ flows' = flows \o FlowsOf(next, s)
    BY <1>2 DEF Extend
  <2>2. next \in Entrypoints /\ next' = next + 1
        /\ scoring' = scoring /\ maxPerEntrypoint' = maxPerEntrypoint
    BY <1>2 DEF Extend, IInv, TypeOK, Entrypoints, input
  <2>3. Inputs
    BY <1>2 DEF IInv, TypeOK, Inputs
  <2>4. FlowsOf(next, s) = Abstract!Best(next)
    BY <2>1, <2>2, <2>3, TopIsBest
  <2>5. /\ next - 1 \in 0 .. NumEntrypoints /\ next \in 0 .. NumEntrypoints /\ next # 0
        /\ next' - 1 = next
    BY <2>2, StaticFlowAssumption DEF Entrypoints
  <2>6. flows' = Abstract!BestUpTo[next - 1] \o Abstract!Best(next)
    BY <1>2, <2>1, <2>4 DEF FlowsAreBest
  <2>7. Abstract!BestUpTo[next] = Abstract!BestUpTo[next - 1] \o Abstract!Best(next)
    <3> DEFINE all == Abstract!BestUpTo
    <3>1. all = [x \in 0 .. NumEntrypoints |->
                   IF x = 0 THEN <<>> ELSE all[x - 1] \o Abstract!Best(x)]
      BY BestUpToIsDefined
    <3> HIDE DEF all
    <3>2. all[next] = all[next - 1] \o Abstract!Best(next)
      BY <2>5, <3>1
    <3>3. QED
      BY <3>2 DEF all
  <2>8. (Abstract!BestUpTo)' = Abstract!BestUpTo
    BY <2>2 DEF Abstract!BestUpTo, Abstract!Best, Abstract!Rank, Abstract!Candidates
  <2>9. QED
    BY <2>5, <2>6, <2>7, <2>8 DEF FlowsAreBest
<1>3. ASSUME FlowsAreBest, Disabled \/ Emit \/ UNCHANGED vars
      PROVE  FlowsAreBest'
  <2>1. /\ scoring' = scoring /\ maxPerEntrypoint' = maxPerEntrypoint
        /\ next' = next /\ flows' = flows
    BY <1>3 DEF Disabled, Emit, vars, input
  <2>2. (Abstract!BestUpTo)' = Abstract!BestUpTo
    BY <2>1 DEF Abstract!BestUpTo, Abstract!Best, Abstract!Rank, Abstract!Candidates
  <2>3. QED
    BY <1>3, <2>1, <2>2 DEF FlowsAreBest
<1>4. QED
  BY <1>1, <1>2, <1>3 DEF Next

(* What is returned, in each of the two cases, is the abstract selection.  *)
LEMMA EmitIsSelect ==
  ASSUME IInv, FlowsAreBest, Emit
  PROVE  Abstract!Select
<1> DEFINE all == Abstract!AllBest
           max == IF Len(all) < maxTotal THEN Len(all) ELSE maxTotal
<1>1. /\ Inputs /\ maxTotal \in Nat /\ NumEntrypoints \in Nat
      /\ next \in 1 .. NumEntrypoints + 1
  BY StaticFlowAssumption DEF IInv, TypeOK, Inputs
<1>2. next - 1 \in 0 .. NumEntrypoints
  BY <1>1
<1>3. IsList(flows) /\ IsList(all) /\ IsBeginning(flows, all)
  BY <1>1, <1>2, BestUpToIsBeginning DEF FlowsAreBest
<1>4. /\ next > NumEntrypoints \/ Len(flows) >= maxTotal
      /\ emitted' = Cut(flows, maxTotal)
  BY DEF Emit
<1>5. Len(flows) \in Nat /\ Len(all) \in Nat /\ Len(flows) <= Len(all)
  BY <1>3, ListFacts DEF IsBeginning
<1>6. next > NumEntrypoints => flows = all
  <2>1. next > NumEntrypoints => next - 1 = NumEntrypoints
    BY <1>1
  <2>2. QED
    BY <2>1 DEF FlowsAreBest, Abstract!AllBest
<1> HIDE DEF all
<1>7. Cut(flows, maxTotal) = SubSeq(all, 1, max)
  <2>1. CASE Len(flows) > maxTotal
    <3>1. Cut(flows, maxTotal) = SubSeq(flows, 1, maxTotal) /\ max = maxTotal
      BY <1>1, <1>5, <2>1 DEF Cut
    <3>2. \A i \in 1 .. maxTotal : flows[i] = all[i]
      BY <1>1, <1>3, <1>5, <2>1 DEF IsBeginning
    <3>3. maxTotal <= Len(flows) /\ maxTotal <= Len(all)
      BY <1>1, <1>5, <2>1
    <3>4. SubSeq(flows, 1, maxTotal) = SubSeq(all, 1, maxTotal)
      BY <1>1, <1>3, <3>2, <3>3, SlicesAgree
    <3>5. QED
      BY <3>1, <3>4
  <2>2. CASE Len(flows) <= maxTotal
    <3>1. Cut(flows, maxTotal) = flows /\ flows = SubSeq(flows, 1, Len(flows))
      BY <1>3, <2>2, WholeSlice DEF Cut
    <3>2. max = Len(flows)
      BY <1>1, <1>4, <1>5, <1>6, <2>2
    <3>3. \A i \in 1 .. Len(flows) : flows[i] = all[i]
      BY <1>3 DEF IsBeginning
    <3>4. Len(flows) <= Len(flows)
      BY <1>5
    <3>5. SubSeq(flows, 1, Len(flows)) = SubSeq(all, 1, Len(flows))
      BY <1>3, <1>5, <3>3, <3>4, SlicesAgree
    <3>6. QED
      BY <3>1, <3>2, <3>5
  <2>3. QED
    BY <1>1, <1>5, <2>1, <2>2
<1>8. emitted' = SubSeq(all, 1, max)
  BY <1>4, <1>7
<1>9. ~done /\ done' /\ scoring' = scoring /\ maxTotal' = maxTotal
      /\ maxPerEntrypoint' = maxPerEntrypoint
  BY DEF Emit, input
<1>10. QED
  BY <1>8, <1>9, Zenon DEF Abstract!Select, all, Emit

LEMMA DisabledIsSelect ==
  ASSUME IInv, Disabled
  PROVE  Abstract!Select
<1> DEFINE all == Abstract!AllBest
           max == IF Len(all) < maxTotal THEN Len(all) ELSE maxTotal
<1>1. Inputs /\ maxTotal \in Nat /\ NumEntrypoints \in 0 .. NumEntrypoints
  BY StaticFlowAssumption DEF IInv, TypeOK, Inputs
<1>2. IsList(all) /\ (maxPerEntrypoint = 0 => all = <<>>)
  BY <1>1, BestUpToIsBeginning DEF Abstract!AllBest
<1>3. emitted = <<>> /\ emitted' = emitted /\ ~done /\ done' = TRUE
      /\ scoring' = scoring /\ maxTotal' = maxTotal /\ maxPerEntrypoint' = maxPerEntrypoint
  BY DEF IInv, EmittedIsCut, Disabled, input
<1> HIDE DEF all
<1>4. max = 0
  <2>1. Len(all) \in Nat /\ (all = <<>> => Len(all) = 0)
    BY <1>2, ListFacts
  <2>2. maxTotal = 0 \/ maxPerEntrypoint = 0
    BY DEF Disabled
  <2>3. QED
    BY <1>1, <1>2, <2>1, <2>2
<1>5. SubSeq(all, 1, max) = <<>>
  <2>1. 0 \in 0 .. Len(all)
    BY <1>2, ListFacts
  <2>2. SubSeq(all, 1, 0) = [i \in 1 .. 0 |-> all[i]]
    BY <1>2, <2>1, SliceIsList
  <2>3. [i \in 1 .. 0 |-> all[i]] = <<>>
    OBVIOUS
  <2>4. QED
    BY <1>4, <2>2, <2>3
<1>6. emitted' = SubSeq(all, 1, max)
  BY <1>3, <1>5
<1>7. QED
  BY <1>3, <1>6, Zenon DEF Abstract!Select, all

(* The loop with its early exit, its cap per entrypoint and its final cut  *)
(* returns what the selection without a loop returns, and nothing before   *)
(* (the safety part of ImplementsSelection).                               *)
THEOREM LoopSelects == Spec => Abstract!Init /\ [][Abstract!Select]_(Abstract!vars)
<1>1. Init => Abstract!Init
  BY DEF Init, Abstract!Init
<1>2. IInv /\ FlowsAreBest /\ [Next]_vars => [Abstract!Select]_(Abstract!vars)
  <2>1. ASSUME IInv, FlowsAreBest, Disabled \/ Emit
        PROVE  Abstract!Select
    BY <2>1, EmitIsSelect, DisabledIsSelect
  <2>2. ASSUME Extend \/ UNCHANGED vars
        PROVE  UNCHANGED Abstract!vars
    BY <2>2 DEF Extend, vars, input, Abstract!vars
  <2>3. QED
    BY <2>1, <2>2 DEF Next
<1>3. IInv /\ FlowsAreBest /\ [Next]_vars => IInv' /\ FlowsAreBest'
  BY FlowsStayBest, ExtendInv, EmitInv, DisabledInv, StutterInv DEF Next
<1>4. QED
  BY InitInv, FlowsStayBest, <1>1, <1>2, <1>3, PTL DEF Spec
==============================================================================
