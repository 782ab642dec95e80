------------------------------- MODULE Reasoning -------------------------------
(***************************************************************************)
(* build_reasoning_result of reasoning/engine.py: the items that the       *)
(* reason command derives from the result of an audit, category by         *)
(* category.  Within a category the n-th item has the number n.            *)
(***************************************************************************)
EXTENDS Reports

CONSTANT MaxItems  \* MAX_ITEMS_PER_CATEGORY

ASSUME ReasoningAssumption == MaxItems \in Nat \ {0}

(* _filtered_evidence_ids: only evidence that the detections or candidates *)
(* of the same result have.                                                *)
Known(r, evidence) ==
  Pick(evidence, {i \in DOMAIN evidence : evidence[i] \in Elements(AllEvidence(r))})

Item(r, category, related, c, missing, steps) ==
  [category |-> category, related |-> related, confidence |-> c.confidence,
   evidence |-> Known(r, c.evidence), missing |-> missing, steps |-> steps]

(* What an item about a candidate or an edge refers to, itself first. *)
Related(r, ref) ==
  CASE ref.kind = "flow" ->
         <<ref, Ref("entrypoint", r.flows[ref.n].entrypoint),
           Ref("target", r.flows[ref.n].target)>>
    [] ref.kind = "edge" -> <<ref, r.edges[ref.n].source, r.edges[ref.n].target>>
    [] OTHER -> <<ref>>

Subject(r, ref) ==
  CASE ref.kind = "flow" -> r.flows[ref.n]
    [] ref.kind = "edge" -> r.edges[ref.n]
    [] ref.kind = "primitive" -> r.primitives[ref.n]
    [] ref.kind = "boundary" -> r.boundaries[ref.n]

(* One item for each of the given candidates, with all that they miss. *)
ItemsAbout(r, category, refs) ==
  [i \in DOMAIN refs |->
     Item(r, category, Related(r, refs[i]), Subject(r, refs[i]),
          Subject(r, refs[i]).missing, <<>>)]

(* _high_value_surfaces: primitives take the room that flows leave. *)
Surfaces(r) ==
  LET flows == FirstOf(Refs("flow", r.flows), MaxItems)
      primitives == FirstOf(Refs("primitive", r.primitives), MaxItems - Len(flows))
  IN  ItemsAbout(r, "surface", flows \o primitives)

(* _invariant_hypotheses *)
Hypotheses(r) ==
  LET refs == FirstOf(Refs("boundary", r.boundaries), MaxItems)
  IN  [i \in DOMAIN refs |->
         Item(r, "invariant", <<refs[i]>>, Subject(r, refs[i]), <<"runtime path">>, <<>>)]

ConfidenceRank(c) ==
  CASE c.confidence = "high" -> 0 [] c.confidence = "medium" -> 1 [] OTHER -> 2

(* The sort key of _primitive_triage: surest first, then most evidence. *)
ByTriage(primitives) ==
  {p \in Pairs(primitives) :
     LET a == primitives[p[1]] b == primitives[p[2]] IN
     \/ ConfidenceRank(a) < ConfidenceRank(b)
     \/ /\ ConfidenceRank(a) = ConfidenceRank(b)
        /\ \/ Len(a.evidence) > Len(b.evidence)
           \/ Len(a.evidence) = Len(b.evidence) /\ IdBefore(p[1], p[2])}

(* Slip: the primitives are cut before they are sorted. *)
TriageOfFirst(r) ==
  LET first == FirstOf(Numbers(r.primitives), MaxItems)
      best == Sorted(first, {p \in Pairs(first) : p \in ByTriage(r.primitives)})
  IN  [i \in DOMAIN best |->
         LET p == r.primitives[best[i]] IN
         Item(r, "triage", <<Ref("primitive", best[i])>>, p, p.missing, p.steps)]

(* _primitive_triage *)
Triage(r) ==
  LET ranked == Sorted(Numbers(r.primitives), ByTriage(r.primitives))
      best == FirstOf(ranked, MaxItems)
  IN  [i \in DOMAIN best |->
         LET p == r.primitives[best[i]] IN
         Item(r, "triage", <<Ref("primitive", best[i])>>, p, p.missing, p.steps)]

(* An item for each entry, until the category is full. *)
MissingItems(r, entries) ==
  LET kept == FirstOf(entries, MaxItems) IN
  [i \in DOMAIN kept |->
     Item(r, "missing", Related(r, kept[i].of), Subject(r, kept[i].of),
          <<kept[i].text>>, <<>>)]

(* _missing_evidence: of primitives, of flows, and of all edges but those  *)
(* to files.                                                               *)
MissingEvidence(r) ==
  LET ofEdges == Missing("edge", r.edges) IN
  MissingItems(r, Missing("primitive", r.primitives) \o Missing("flow", r.flows)
                    \o Pick(ofEdges, {i \in DOMAIN ofEdges :
                                        Subject(r, ofEdges[i].of).type # "defined_in"}))

GlobalStep == [confidence |-> "low", evidence |-> <<>>]

(* _safe_next_steps: each step of a primitive, and a general one at the    *)
(* end, for which there is room only if the loop did not return.           *)
SafeNextSteps(r) ==
  LET entries == ReviewSteps(r)
      items == [i \in 1 .. Len(FirstOf(entries, MaxItems)) |->
                  Item(r, "step", <<entries[i].of>>, Subject(r, entries[i].of),
                       <<>>, <<entries[i].text>>)]
  IN  IF Len(items) < MaxItems /\ r.primitives \o r.flows \o r.boundaries # <<>>
        THEN Append(items, Item(r, "step", <<>>, GlobalStep, <<>>, <<"general">>))
        ELSE items

(* build_reasoning_result *)
ReasoningItems(r) ==
  [surface |-> Surfaces(r), invariant |-> Hypotheses(r), triage |-> Triage(r),
   missing |-> MissingEvidence(r), step |-> SafeNextSteps(r)]
================================================================================
