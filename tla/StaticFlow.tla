----------------------------- MODULE StaticFlow ------------------------------
(***************************************************************************)
(* enrich_static_flows of analysis/flow.py: which scored pairs of an       *)
(* entrypoint and a target become static-flow candidates.                  *)
(*                                                                         *)
(* Entrypoints are numbered in the order of the audit's list.  Targets are *)
(* numbered in the order that breaks ties: workers before consumers, then  *)
(* by id.  scoring[x][t] is the score of the pair, 0 where _score_target   *)
(* returns no candidate (module StaticFlowScoring).                        *)
(***************************************************************************)
EXTENDS Integers, Sequences

CONSTANTS
  NumEntrypoints,
  NumTargets,
  TotalCaps,          \* the values of max_candidates_total to consider
  PerEntrypointCaps,  \* the values of max_candidates_per_entrypoint to consider
  Scorings            \* the scorings to consider

Entrypoints == 1 .. NumEntrypoints
Targets == 1 .. NumTargets

ASSUME StaticFlowAssumption ==
  /\ NumEntrypoints \in Nat /\ NumTargets \in Nat
  /\ TotalCaps \subseteq Nat /\ PerEntrypointCaps \subseteq Nat
  /\ Scorings \subseteq [Entrypoints -> [Targets -> Nat]]

VARIABLES
  scoring,
  maxTotal,          \* flow.max_candidates_total of the configuration
  maxPerEntrypoint,  \* flow.max_candidates_per_entrypoint
  next,     \* the entrypoint the loop comes to next
  flows,    \* flow_candidates, the working list
  emitted,  \* the returned candidates; flow_000n is the n-th
  done

input == <<scoring, maxTotal, maxPerEntrypoint>>
vars == <<input, next, flows, emitted, done>>
------------------------------------------------------------------------------
Candidates(x) == {t \in Targets : scoring[x][t] > 0}

(* Slip: ties go to the larger id. *)
BeforeByLargerId(x, t, u) ==
  \/ scoring[x][t] > scoring[x][u]
  \/ scoring[x][t] = scoring[x][u] /\ t > u

(* The sort key: higher score first, ties by kind and id of the target. *)
Before(x, t, u) ==
  \/ scoring[x][t] > scoring[x][u]
  \/ scoring[x][t] = scoring[x][u] /\ t < u

(* s is the sorted list of x's candidates, cut off at the cap per entrypoint. *)
IsTop(x, s) ==
  /\ \A i \in DOMAIN s : s[i] \in Candidates(x)
  /\ \A i, j \in DOMAIN s : i < j => Before(x, s[i], s[j])
  /\ \A t \in Candidates(x) :
       \/ \E i \in DOMAIN s : s[i] = t
       \/ Len(s) = maxPerEntrypoint /\ \A i \in DOMAIN s : Before(x, s[i], t)

TargetLists == UNION {[1 .. n -> Targets] : n \in 0 .. maxPerEntrypoint}

Flow(x, t) == [entrypoint |-> x, target |-> t]
FlowsOf(x, s) == [i \in 1 .. Len(s) |-> Flow(x, s[i])]
(* Slip: the total cap is only looked at between entrypoints. *)
Uncut(list, n) == list

Cut(list, n) == IF Len(list) <= n THEN list ELSE SubSeq(list, 1, n)

(* Slip: entrypoints counted from zero. *)
InitAtZero ==
  /\ scoring \in Scorings
  /\ maxTotal \in TotalCaps /\ maxPerEntrypoint \in PerEntrypointCaps
  /\ next = 0
  /\ flows = <<>> /\ emitted = <<>>
  /\ done = FALSE

Init ==
  /\ scoring \in Scorings
  /\ maxTotal \in TotalCaps /\ maxPerEntrypoint \in PerEntrypointCaps
  /\ next = 1
  /\ flows = <<>> /\ emitted = <<>>
  /\ done = FALSE

(* A cap of zero: nothing is scored, the result is empty. *)
Disabled ==
  /\ ~done
  /\ maxTotal = 0 \/ maxPerEntrypoint = 0
  /\ done' = TRUE
  /\ UNCHANGED <<input, next, flows, emitted>>

(* One turn of the loop; no turn follows once the total cap is reached. *)
Extend ==
  /\ ~done /\ maxTotal > 0 /\ maxPerEntrypoint > 0
  /\ next <= NumEntrypoints /\ Len(flows) < maxTotal
  /\ \E s \in TargetLists :
       /\ IsTop(next, s)
       /\ flows' = flows \o FlowsOf(next, s)
  /\ next' = next + 1
  /\ UNCHANGED <<input, emitted, done>>

(* Slip: the loop ends when the next entrypoint might not fit. *)
EmitEarly ==
  /\ ~done /\ maxTotal > 0 /\ maxPerEntrypoint > 0
  /\ next > NumEntrypoints \/ Len(flows) + maxPerEntrypoint > maxTotal
  /\ emitted' = Cut(flows, maxTotal)
  /\ done' = TRUE
  /\ UNCHANGED <<input, next, flows>>

(* The loop is over: the working list is cut off at the total cap. *)
Emit ==
  /\ ~done /\ maxTotal > 0 /\ maxPerEntrypoint > 0
  /\ next > NumEntrypoints \/ Len(flows) >= maxTotal
  /\ emitted' = Cut(flows, maxTotal)
  /\ done' = TRUE
  /\ UNCHANGED <<input, next, flows>>

Next == Disabled \/ Extend \/ Emit

Spec == Init /\ [][Next]_vars /\ WF_vars(Next)
------------------------------------------------------------------------------
FlowType == [entrypoint : Entrypoints, target : Targets]

(* The types of the variables (core/models.py StaticFlowCandidate). *)
TypeOK ==
  /\ scoring \in [Entrypoints -> [Targets -> Nat]]
  /\ maxTotal \in Nat /\ maxPerEntrypoint \in Nat
  /\ next \in 1 .. NumEntrypoints + 1
  /\ flows \in Seq(FlowType) /\ emitted \in Seq(FlowType)
  /\ done \in BOOLEAN

Precedes(f, g) ==
  \/ f.entrypoint < g.entrypoint
  \/ f.entrypoint = g.entrypoint /\ Before(f.entrypoint, f.target, g.target)

Ordered(list) == \A i, j \in DOMAIN list : i < j => Precedes(list[i], list[j])

Windowed(list) ==
  \A i, j \in DOMAIN list :
    i < j /\ list[i].entrypoint = list[j].entrypoint => j - i < maxPerEntrypoint

(* The result keeps both caps, no pair appears twice (so no two ids stand  *)
(* for one pair), and ids follow the entrypoints and then the ranking,     *)
(* although the working list outgrows the total cap before it is cut.      *)
ResultIsRankedAndCapped ==
  /\ Len(emitted) <= maxTotal
  /\ Ordered(emitted)
  /\ Windowed(emitted)

(* A candidate is left out for one of two reasons only: the cap per        *)
(* entrypoint is used up by better candidates of its own entrypoint, or    *)
(* the total cap is used up by candidates that precede it.  In particular  *)
(* an entrypoint with a candidate goes empty-handed only if earlier        *)
(* entrypoints fill the whole result.                                      *)
LeftOutForAReason ==
  done /\ maxTotal > 0 /\ maxPerEntrypoint > 0 =>
    \A x \in Entrypoints : \A t \in Candidates(x) :
      \/ \E i \in DOMAIN emitted : emitted[i] = Flow(x, t)
      \/ /\ Len(emitted) = maxTotal
         /\ \A i \in DOMAIN emitted : Precedes(emitted[i], Flow(x, t))
      \/ \E i \in DOMAIN emitted :
           /\ i + maxPerEntrypoint - 1 \in DOMAIN emitted
           /\ \A j \in i .. i + maxPerEntrypoint - 1 :
                emitted[j].entrypoint = x /\ Before(x, emitted[j].target, t)
------------------------------------------------------------------------------
(* The abstract loop-free selection, over the inputs, the result and the   *)
(* end of the loop; `next` and the working list are hidden.                *)
Abstract == INSTANCE FlowSelection
  WITH NumEntrypoints <- NumEntrypoints, NumTargets <- NumTargets,
       TotalCaps <- TotalCaps, PerEntrypointCaps <- PerEntrypointCaps, Scorings <- Scorings,
       scoring <- scoring, maxTotal <- maxTotal, maxPerEntrypoint <- maxPerEntrypoint,
       emitted <- emitted, done <- done
==============================================================================
