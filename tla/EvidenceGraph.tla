----------------------------- MODULE EvidenceGraph ----------------------------
(***************************************************************************)
(* build_evidence_graph of analysis/graph.py: the nodes and edges of one   *)
(* audit, one action per turn of a loop.                                   *)
(*                                                                         *)
(* Consumers and workers are both targets.  They are numbered in the order *)
(* of their ids, in which cons_... comes before worker_....                *)
(***************************************************************************)
EXTENDS EnterpriseResolver, Evidence

CONSTANTS
  Audits,             \* the detections and candidates to consider
  MaxResolverEdges,   \* MAX_RESOLVER_EDGES_PER_ENTRYPOINT
  MaxSameFileEdges,   \* MAX_SAME_FILE_EDGES_PER_ENTRYPOINT
  MaxHandlerEdges,    \* MAX_HANDLER_CORRELATION_EDGES_PER_ENTRYPOINT
  MaxLowSignalEdges,  \* MAX_TOTAL_LOW_SIGNAL_CORRELATION_EDGES
  Texts               \* what an edge may be said to miss: one text for each way

ASSUME GraphAssumption ==
  /\ MaxResolverEdges \in Nat /\ MaxSameFileEdges \in Nat
  /\ MaxHandlerEdges \in Nat /\ MaxLowSignalEdges \in Nat
  /\ {"resolved", "same_file_correlation", "handler_name_correlation"} \subseteq Texts

Confidences == {"high", "medium", "low"}

(* What the passes before give: detections and candidates with lists of    *)
(* evidence, flows between detections that exist.                          *)
IsAudit(a) ==
  /\ a.files \in Seq(Name)
  /\ \A list \in {a.entrypoints, a.targets, a.flows, a.boundaries, a.primitives} :
       /\ IsList(list)
       /\ \A i \in DOMAIN list : list[i].evidence \in Seq(Nat)
  /\ \A x \in DOMAIN a.entrypoints :
       LET e == a.entrypoints[x] IN
       /\ e.file \in Name /\ e.handler \in Handler
       /\ e.words \subseteq Words /\ IsFiniteSet(e.words)
  /\ \A t \in DOMAIN a.targets :
       LET target == a.targets[t] IN
       /\ target.file \in Name /\ target.pattern \in Name /\ target.text \subseteq Name
       /\ target.kind \in {"consumer", "worker"}
  /\ \A i \in DOMAIN a.flows :
       LET flow == a.flows[i] IN
       /\ flow.entrypoint \in DOMAIN a.entrypoints /\ flow.target \in DOMAIN a.targets
       /\ flow.confidence \in Confidences /\ flow.missing \in Seq(Texts)

ASSUME AuditAssumption == \A a \in Audits : IsAudit(a)

VARIABLES
  audit,
  nodes,   \* the references of the nodes, in the order they are added
  edges,
  phase,   \* the loop that is running
  next,    \* its next turn
  item,    \* the next evidence of a boundary or primitive
  linked,  \* linked_targets
  spent    \* the edges taken from the common budget of correlations

vars == <<audit, nodes, edges, phase, next, item, linked, spent>>
-------------------------------------------------------------------------------
EntrypointIds == DOMAIN audit.entrypoints
TargetIds == DOMAIN audit.targets

DetectionRefs ==
  Refs("entrypoint", audit.entrypoints) \o Refs("target", audit.targets)

CandidateRefs ==
  Refs("boundary", audit.boundaries) \o Refs("primitive", audit.primitives)
    \o Refs("flow", audit.flows)

(* Slip: files come after the detections that are defined in them. *)
NodeRefsFilesLast == DetectionRefs \o CandidateRefs \o Refs("file", audit.files)

NodeRefs == Refs("file", audit.files) \o DetectionRefs \o CandidateRefs

Record(r) ==
  CASE r.kind = "entrypoint" -> audit.entrypoints[r.n]
    [] r.kind = "target" -> audit.targets[r.n]
    [] r.kind = "boundary" -> audit.boundaries[r.n]
    [] r.kind = "primitive" -> audit.primitives[r.n]

EvidenceOf(r) == {Record(r).evidence[i] : i \in DOMAIN Record(r).evidence}

Edge(type, source, target, confidence, evidence, missing) ==
  [type |-> type, source |-> source, target |-> target, confidence |-> confidence,
   evidence |-> evidence, missing |-> missing]

HasNode(r) == \E i \in DOMAIN nodes : nodes[i] = r

(* The edge to a detection's file, if that has a node by now. *)
DefinedIn(r) ==
  LET files == Pick(Refs("file", audit.files),
                    {f \in DOMAIN audit.files : /\ HasNode(Ref("file", f))
                                               /\ audit.files[f] = Record(r).file})
  IN  IF r.kind \in {"entrypoint", "target"}
        THEN [i \in DOMAIN files |->
               Edge("defined_in", r, files[i], "high", Record(r).evidence, <<>>)]
        ELSE <<>>
-------------------------------------------------------------------------------
(* The three ways to connect an entrypoint with targets. *)
Candidates(way, x) ==
  LET e == audit.entrypoints[x] IN
  {t \in TargetIds :
     LET target == audit.targets[t] IN
     CASE way = "resolved" -> Resolves(e, target)
       [] way = "same_file_correlation" -> target.file = e.file
       [] way = "handler_name_correlation" -> HandlerMatchRank(e.handler, target) < 2}

Rank(way, x, t) ==
  LET e == audit.entrypoints[x] target == audit.targets[t] IN
  CASE way = "resolved" -> 0 - Score(e, target)
    [] way = "same_file_correlation" -> IF target.kind = "worker" THEN 0 ELSE 1
    [] way = "handler_name_correlation" -> HandlerMatchRank(e.handler, target)

(* The sort keys: best rank first, ties by id. *)
Before(way, x, t, u) ==
  \/ Rank(way, x, t) < Rank(way, x, u)
  \/ Rank(way, x, t) = Rank(way, x, u) /\ t < u

Cap(way) ==
  CASE way = "resolved" -> MaxResolverEdges
    [] way = "same_file_correlation" -> MaxSameFileEdges
    [] way = "handler_name_correlation" -> MaxHandlerEdges

(* Slip: the list is cut before it is sorted. *)
FirstByName(way, x, n) ==
  SelectSeq([i \in TargetIds |-> i],
            LAMBDA t : /\ t \in Candidates(way, x)
                       /\ Cardinality({u \in Candidates(way, x) : u < t}) < n)

(* The n best candidates of x, in order. *)
Best(way, x, n) ==
  LET all == Candidates(way, x) IN
  CHOOSE s \in [1 .. Least(n, Cardinality(all)) -> all] :
    /\ \A i, j \in DOMAIN s : i < j => Before(way, x, s[i], s[j])
    /\ \A t \in all : \/ \E i \in DOMAIN s : s[i] = t
                      \/ \A i \in DOMAIN s : Before(way, x, s[i], t)
-------------------------------------------------------------------------------
Init ==
  /\ audit \in Audits
  /\ nodes = <<>> /\ edges = <<>>
  /\ phase = "nodes" /\ next = 1
  /\ item = 1 /\ linked = {} /\ spent = 0

Phases == <<"nodes", "flows", "resolved", "same_file_correlation",
            "handler_name_correlation", "boundary_evidence",
            "primitive_evidence", "done">>

LowSignal == {"same_file_correlation", "handler_name_correlation"}
EvidenceLinks == {"boundary_evidence", "primitive_evidence"}

Turns ==
  CASE phase = "nodes" -> Len(NodeRefs)
    [] phase = "flows" -> Len(audit.flows)
    [] phase \in {"resolved"} \cup LowSignal -> Len(audit.entrypoints)
    [] phase = "boundary_evidence" -> Len(audit.boundaries)
    [] phase = "primitive_evidence" -> Len(audit.primitives)
    [] phase = "done" -> 0

(* A loop ends with its input; the two correlations end with the budget, too. *)
LoopOver ==
  \/ next > Turns
  \/ phase \in LowSignal /\ spent >= MaxLowSignalEdges

(* Slip: the turn is not reset. *)
NextLoopKeepsTurn ==
  /\ phase # "done" /\ LoopOver
  /\ \E i \in 1 .. Len(Phases) - 1 : Phases[i] = phase /\ phase' = Phases[i + 1]
  /\ item' = 1 /\ linked' = {}
  /\ UNCHANGED <<audit, nodes, edges, next, spent>>

NextLoop ==
  /\ phase # "done" /\ LoopOver
  /\ \E i \in 1 .. Len(Phases) - 1 : Phases[i] = phase /\ phase' = Phases[i + 1]
  /\ next' = 1 /\ item' = 1 /\ linked' = {}
  /\ UNCHANGED <<audit, nodes, edges, spent>>

(* _add_detection_node, _add_reference_node *)
AddNode ==
  /\ phase = "nodes" /\ ~LoopOver
  /\ nodes' = Append(nodes, NodeRefs[next])
  /\ edges' = edges \o DefinedIn(NodeRefs[next])
  /\ next' = next + 1
  /\ UNCHANGED <<audit, phase, item, linked, spent>>

FlowEdges(i) ==
  LET flow == audit.flows[i]
      source == Ref("entrypoint", flow.entrypoint)
      target == Ref("target", flow.target)
  IN  IF HasNode(source) /\ HasNode(Ref("flow", i)) /\ HasNode(target)
        THEN <<Edge("static_flow_source", source, Ref("flow", i), flow.confidence,
                    flow.evidence, flow.missing),
               Edge("static_flow_target", Ref("flow", i), target, flow.confidence,
                    flow.evidence, flow.missing)>>
        ELSE <<>>

AddFlow ==
  /\ phase = "flows" /\ ~LoopOver
  /\ edges' = edges \o FlowEdges(next)
  /\ next' = next + 1
  /\ UNCHANGED <<audit, nodes, phase, item, linked, spent>>

RouteType(t) == IF audit.targets[t].kind = "worker"
                  THEN "route_to_worker_candidate" ELSE "route_to_consumer_candidate"

(* A correlation rests on the evidence of both ends, and says what is       *)
(* missing to make it more than that: a text of its own for each way.      *)
Correlation(way, type, x, t, confidence) ==
  Edge(type, Ref("entrypoint", x), Ref("target", t), confidence,
       Distinct(audit.entrypoints[x].evidence \o audit.targets[t].evidence), <<way>>)

RouteEdge(x, t) ==
  Correlation("resolved", RouteType(t), x, t,
              ResolvedConfidence(audit.entrypoints[x], audit.targets[t]))

(* The resolved edges of x, but for those with an end that has no node.     *)
RouteEdges(x) ==
  LET best == Best("resolved", x, Cap("resolved")) IN
  Pick([i \in DOMAIN best |-> RouteEdge(x, best[i])],
       {i \in DOMAIN best : HasNode(Ref("entrypoint", x)) /\ HasNode(Ref("target", best[i]))})

AddResolved ==
  /\ phase = "resolved" /\ ~LoopOver
  /\ edges' = edges \o RouteEdges(next)
  /\ next' = next + 1
  /\ UNCHANGED <<audit, nodes, phase, item, linked, spent>>

(* Slip: the budget is looked at between entrypoints only. *)
CorrelateWholly ==
  /\ phase \in LowSignal /\ ~LoopOver
  /\ LET best == Best(phase, next, Cap(phase)) IN
     /\ edges' = edges \o [i \in DOMAIN best |->
          Correlation(phase, phase, next, best[i], "medium")]
     /\ spent' = spent + Len(best)
  /\ next' = next + 1
  /\ UNCHANGED <<audit, nodes, phase, item, linked>>

(* Correlations of one entrypoint, as many as its cap and the budget allow. *)
Correlate ==
  /\ phase \in LowSignal /\ ~LoopOver
  /\ LET best == Best(phase, next, Least(Cap(phase), MaxLowSignalEdges - spent)) IN
     /\ edges' = edges \o [i \in DOMAIN best |->
          Correlation(phase, phase, next, best[i], "medium")]
     /\ spent' = spent + Len(best)
  /\ next' = next + 1
  /\ UNCHANGED <<audit, nodes, phase, item, linked>>

Source == Ref(IF phase = "boundary_evidence" THEN "boundary" ELSE "primitive", next)

EvidenceTargets ==
  DetectionRefs
    \o (IF phase = "primitive_evidence" THEN Refs("boundary", audit.boundaries) ELSE <<>>)

(* Slip: a target is linked once for each evidence it shares. *)
LinkEveryEvidence ==
  /\ phase \in EvidenceLinks /\ ~LoopOver
  /\ item <= Len(Record(Source).evidence)
  /\ LET sharing == Pick(EvidenceTargets,
           {i \in DOMAIN EvidenceTargets :
              Record(Source).evidence[item] \in EvidenceOf(EvidenceTargets[i])}) IN
     edges' = edges \o [i \in DOMAIN sharing |->
       Edge(phase, Source, sharing[i], "high", <<Record(Source).evidence[item]>>, <<>>)]
  /\ item' = item + 1
  /\ UNCHANGED <<audit, nodes, phase, next, linked, spent>>

(* One evidence of a source: all targets that have it and are not linked yet. *)
LinkEvidence ==
  /\ phase \in EvidenceLinks /\ ~LoopOver
  /\ item <= Len(Record(Source).evidence)
  /\ LET sharing == Pick(EvidenceTargets,
           {i \in DOMAIN EvidenceTargets :
              /\ Record(Source).evidence[item] \in EvidenceOf(EvidenceTargets[i])
              /\ EvidenceTargets[i] # Source /\ EvidenceTargets[i] \notin linked}) IN
     /\ edges' = edges \o [i \in DOMAIN sharing |->
          Edge(phase, Source, sharing[i], "high", <<Record(Source).evidence[item]>>, <<>>)]
     /\ linked' = linked \cup {sharing[i] : i \in DOMAIN sharing}
  /\ item' = item + 1
  /\ UNCHANGED <<audit, nodes, phase, next, spent>>

(* Slip: the marks of one source are kept for the next. *)
NextSourceKeepsMarks ==
  /\ phase \in EvidenceLinks /\ ~LoopOver
  /\ item > Len(Record(Source).evidence)
  /\ next' = next + 1 /\ item' = 1
  /\ UNCHANGED <<audit, nodes, edges, phase, linked, spent>>

NextSource ==
  /\ phase \in EvidenceLinks /\ ~LoopOver
  /\ item > Len(Record(Source).evidence)
  /\ next' = next + 1 /\ item' = 1 /\ linked' = {}
  /\ UNCHANGED <<audit, nodes, edges, phase, spent>>

Next ==
  \/ NextLoop \/ AddNode \/ AddFlow \/ AddResolved
  \/ Correlate \/ LinkEvidence \/ NextSource

Spec == Init /\ [][Next]_vars
-------------------------------------------------------------------------------
(* The types of the variables (core/models.py EvidenceGraph). *)
Node == [kind : {"file", "entrypoint", "target", "boundary", "primitive", "flow"}, n : Nat]

EdgeType ==
  [type : {"defined_in", "static_flow_source", "static_flow_target",
           "route_to_worker_candidate", "route_to_consumer_candidate"}
            \cup LowSignal \cup EvidenceLinks,
   source : Node, target : Node, confidence : Confidences,
   evidence : Seq(Nat), missing : Seq(Texts)]

TypeOK ==
  /\ nodes \in Seq(Node) /\ edges \in Seq(EdgeType)
  /\ phase \in {Phases[i] : i \in DOMAIN Phases}
  /\ next \in 1 .. Turns + 1 /\ item \in Nat \ {0}
  /\ linked \subseteq {EvidenceTargets[i] : i \in DOMAIN EvidenceTargets}
  /\ spent \in Nat

Linked(type, source, target) ==
  \E i \in DOMAIN edges :
    edges[i].type = type /\ edges[i].source = source /\ edges[i].target = target

(* Two things are connected at most once in the same way, however many     *)
(* evidences they share and whichever indexes a target was found in.       *)
NothingLinkedTwice ==
  Len(edges) = Cardinality({<<edges[i].type, edges[i].source, edges[i].target>> :
                              i \in DOMAIN edges})

(* No edge has an end without a node, and none is missing in the end       *)
(* because a node was not there yet: all detections are joined with their  *)
(* files and all static flows with both of their ends.                     *)
GraphIsComplete ==
  /\ UNION {{edges[i].source, edges[i].target} : i \in DOMAIN edges}
       \subseteq {nodes[i] : i \in DOMAIN nodes}
  /\ phase = "done" =>
       /\ \A i \in DOMAIN DetectionRefs : \A f \in DOMAIN audit.files :
            audit.files[f] = Record(DetectionRefs[i]).file =>
              Linked("defined_in", DetectionRefs[i], Ref("file", f))
       /\ \A i \in DOMAIN audit.flows :
            /\ Linked("static_flow_source", Ref("entrypoint", audit.flows[i].entrypoint),
                      Ref("flow", i))
            /\ Linked("static_flow_target", Ref("flow", i),
                      Ref("target", audit.flows[i].target))

CorrelationsOf(ways, xs) ==
  {i \in DOMAIN edges : edges[i].type \in ways /\ edges[i].source.n \in xs}

(* Same-file and handler correlations together keep the common budget, and *)
(* each entrypoint keeps the cap of each kind.                             *)
CorrelationsKeepTheirCaps ==
  /\ Cardinality(CorrelationsOf(LowSignal, EntrypointIds)) <= MaxLowSignalEdges
  /\ \A way \in LowSignal : \A x \in EntrypointIds :
       Cardinality(CorrelationsOf({way}, {x})) <= Cap(way)

EdgeTypes(way) == IF way = "resolved"
                    THEN {"route_to_worker_candidate", "route_to_consumer_candidate"}
                    ELSE {way}

(* A candidate is left out for one of two reasons only: its entrypoint has *)
(* a full quota of better ones, or, for the two correlations, the common   *)
(* budget is used up by same-file correlations and by correlations of its  *)
(* own kind from entrypoints that do not come later.                       *)
LeftOutForAReason ==
  phase = "done" =>
    \A way \in {"resolved"} \cup LowSignal : \A x \in EntrypointIds :
      LET of == CorrelationsOf(EdgeTypes(way), {x}) IN
      \A t \in Candidates(way, x) :
        \/ \E i \in of : edges[i].target.n = t
        \/ /\ Cardinality(of) = Cap(way)
           /\ \A i \in of : Before(way, x, edges[i].target.n, t)
        \/ /\ way \in LowSignal /\ spent = MaxLowSignalEdges
           /\ CorrelationsOf({way}, {y \in EntrypointIds : y > x}) = {}
           /\ \A i \in of : Before(way, x, edges[i].target.n, t)

(* Boundaries and primitives are linked with exactly the detections (and   *)
(* primitives with the boundaries) they share an evidence with, and the    *)
(* edge names one that both have.                                          *)
EvidenceLinksAreExact ==
  phase = "done" =>
    /\ \A i \in DOMAIN edges : edges[i].type \in EvidenceLinks =>
         edges[i].evidence[1] \in EvidenceOf(edges[i].source) \cap EvidenceOf(edges[i].target)
    /\ \A b \in DOMAIN audit.boundaries : \A i \in DOMAIN DetectionRefs :
         Linked("boundary_evidence", Ref("boundary", b), DetectionRefs[i])
           <=> EvidenceOf(Ref("boundary", b)) \cap EvidenceOf(DetectionRefs[i]) # {}
    /\ \A p \in DOMAIN audit.primitives :
         \A r \in {DetectionRefs[i] : i \in DOMAIN DetectionRefs}
                    \cup {Ref("boundary", b) : b \in DOMAIN audit.boundaries} :
           Linked("primitive_evidence", Ref("primitive", p), r)
             <=> EvidenceOf(Ref("primitive", p)) \cap EvidenceOf(r) # {}

(* A route link is of high confidence only if the text names the handler's *)
(* class, however many other words and the method agree, and a class that  *)
(* is named in full always makes it so.                                    *)
ConfidenceFollowsTheClass ==
  \A i \in DOMAIN edges :
    edges[i].type \in EdgeTypes("resolved") =>
      LET h == audit.entrypoints[edges[i].source.n].handler
          text == TargetText(audit.targets[edges[i].target.n])
      IN  /\ edges[i].confidence = "high" =>
               h.class # <<>> /\ Occurs(<<Last(h.class)>>, text)
          /\ h.class # <<>> /\ Occurs(h.class, text) => edges[i].confidence = "high"

(* The indexes are no second filter: the threshold rejects nothing they    *)
(* found, and what they do not find would have been rejected, too, unless  *)
(* the class is named only as a part of a longer name, or is a common word *)
(* (a class called Get).                                                   *)
IndexFindsWhatScores ==
  \A x \in EntrypointIds : \A t \in TargetIds :
    LET e == audit.entrypoints[x] target == audit.targets[t] IN
    /\ Indexed(e, target) => Score(e, target) >= 40
    /\ Score(e, target) >= 40 =>
         \/ Indexed(e, target)
         \/ /\ Occurs(e.handler.class, TargetText(target))
            /\ \/ e.handler.class \notin TargetText(target)
               \/ SimpleClassOf(e.handler) \subseteq Short \cup StopWords
===============================================================================
