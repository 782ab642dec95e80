---------------------------- MODULE FlowSelection ----------------------------
(***************************************************************************)
(* What enrich_static_flows promises, without its loop: rank the           *)
(* candidates of every entrypoint, keep the best of each, put them one     *)
(* after the other and return the beginning of that list.  No entrypoint   *)
(* is skipped and nothing stops early, and a result is returned.           *)
(***************************************************************************)
EXTENDS Integers, Sequences, FiniteSets

CONSTANTS NumEntrypoints, NumTargets, TotalCaps, PerEntrypointCaps, Scorings

VARIABLES scoring, maxTotal, maxPerEntrypoint, emitted, done

Candidates(x) == {t \in 1 .. NumTargets : scoring[x][t] > 0}

Rank(x, t) ==
  Cardinality({u \in Candidates(x) : \/ scoring[x][u] > scoring[x][t]
                                     \/ scoring[x][u] = scoring[x][t] /\ u <= t})

Best(x) ==
  LET n == Cardinality(Candidates(x))
      kept == IF n < maxPerEntrypoint THEN n ELSE maxPerEntrypoint
  IN [r \in 1 .. kept |->
        [entrypoint |-> x, target |-> CHOOSE t \in Candidates(x) : Rank(x, t) = r]]

BestUpTo[x \in 0 .. NumEntrypoints] == IF x = 0 THEN <<>> ELSE BestUpTo[x - 1] \o Best(x)

AllBest == BestUpTo[NumEntrypoints]

Init ==
  /\ scoring \in Scorings
  /\ maxTotal \in TotalCaps /\ maxPerEntrypoint \in PerEntrypointCaps
  /\ emitted = <<>>
  /\ done = FALSE

Select ==
  /\ ~done
  /\ done' = TRUE
  /\ emitted' = SubSeq(AllBest, 1, IF Len(AllBest) < maxTotal THEN Len(AllBest) ELSE maxTotal)
  /\ UNCHANGED <<scoring, maxTotal, maxPerEntrypoint>>

vars == <<scoring, maxTotal, maxPerEntrypoint, emitted, done>>

Spec == Init /\ [][Select]_vars /\ WF_vars(Select)
==============================================================================
