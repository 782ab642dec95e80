-------------------------------- MODULE Reports --------------------------------
(***************************************************************************)
(* What the reports of an audit say: report/sarif.py, report/markdown.py,  *)
(* report/html.py and report/review_queue.py as functions of its result.   *)
(* Wording and layout are left out; a candidate, detection or edge is      *)
(* named by its kind and the number of its id.                             *)
(***************************************************************************)
EXTENDS Evidence, Focus

CONSTANTS
  BriefEdges,   \* how many edges the brief shows, no more than the viewer
  ViewerEdges   \* _GRAPH_PREVIEW_EDGE_LIMIT

ASSUME ReportsAssumption ==
  BriefEdges \in Nat /\ ViewerEdges \in Nat /\ BriefEdges <= ViewerEdges

FirstOf(list, n) == SubSeq(list, 1, IF Len(list) < n THEN Len(list) ELSE n)
-------------------------------------------------------------------------------
(* The candidates of one category as rows of a report.  Only boundaries    *)
(* are left out if they have no evidence.                                  *)
Rows(category, list, mode) ==
  [i \in DOMAIN list |->
     [category |-> category, n |-> i, kind |-> list[i].type,
      confidence |-> list[i].confidence, evidence |-> list[i].evidence,
      focus |-> Focus(category, list[i], mode)]]

AllRows(r, mode) ==
  Pick(Rows("boundary", r.boundaries, mode),
       {i \in DOMAIN r.boundaries : r.boundaries[i].evidence # <<>>})
    \o Rows("primitive", r.primitives, mode)
    \o Rows("static_flow", r.flows, mode)

(* The kinds in the order of the sort keys: category by category, and in   *)
(* alphabetical order in each.                                             *)
BoundaryKinds ==
  <<"data_to_config", "data_to_database", "data_to_directory", "data_to_file",
    "data_to_job", "data_to_template", "data_to_url", "external_to_internal",
    "low_priv_to_privileged_consumer", "parser_to_consumer", "request_to_worker">>

PrimitiveKinds ==
  <<"auth_context_confusion", "cache_poisoning", "config_control",
    "directory_query_control", "file_read", "file_write",
    "internal_request_trigger", "job_control", "parser_differential",
    "path_control", "query_control", "template_control", "tenant_confusion",
    "type_control", "url_control">>

FlowKinds == <<"consumer", "worker">>

Kinds == BoundaryKinds \o PrimitiveKinds \o FlowKinds

Place(kind) == CHOOSE i \in DOMAIN Kinds : Kinds[i] = kind

(* _result_sort_key: category, rule and candidate id. *)
ByKind(rows) ==
  {p \in Pairs(rows) :
     LET a == rows[p[1]] b == rows[p[2]] IN
     \/ Place(a.kind) < Place(b.kind)
     \/ a.kind = b.kind /\ IdBefore(a.n, b.n)}

(* focus_sort_key before _row_sort_key *)
ByFocus(rows) ==
  {p \in Pairs(rows) :
     LET a == rows[p[1]] b == rows[p[2]] IN
     \/ a.focus.match /\ ~b.focus.match
     \/ a.focus.match = b.focus.match /\ a.focus.score > b.focus.score
     \/ a.focus = b.focus /\ p \in ByKind(rows)}

(* Slip: the queue keeps to what the lens likes. *)
QueueOfMatches(r) ==
  LET all == AllRows(r, r.focus.mode)
      rows == Pick(all, {i \in DOMAIN all : all[i].focus.match})
  IN  Sorted(rows, ByFocus(rows))

(* render_review_queue_jsonl *)
ReviewQueue(r) ==
  LET rows == AllRows(r, r.focus.mode) IN Sorted(rows, ByFocus(rows))

Level(row) == IF row.category # "boundary" /\ row.confidence = "high"
                THEN "warning" ELSE "note"

(* render_sarif, which knows no lens *)
Sarif(r) ==
  LET all == AllRows(r, "all")
      rows == Sorted(all, ByKind(all))
  IN  [rules |-> {rows[i].kind : i \in DOMAIN rows},
       results |-> [i \in DOMAIN rows |->
         [category |-> rows[i].category, n |-> rows[i].n, rule |-> rows[i].kind,
          level |-> Level(rows[i]), evidence |-> rows[i].evidence]]]
-------------------------------------------------------------------------------
(* _GRAPH_EDGE_PRIORITY, the same in both reports *)
Priorities ==
  <<"static_flow_source", "static_flow_target", "route_to_worker_candidate",
    "route_to_consumer_candidate", "handler_name_correlation",
    "same_file_correlation", "boundary_evidence", "primitive_evidence", "defined_in">>

Priority(edge) == CHOOSE p \in DOMAIN Priorities : Priorities[p] = edge.type

(* The order of the previews, by type and id. *)
ByPriority(list) ==
  {p \in Pairs(list) :
     \/ Priority(list[p[1]]) < Priority(list[p[2]])
     \/ list[p[1]].type = list[p[2]].type /\ IdBefore(p[1], p[2])}

Numbers(list) == [i \in DOMAIN list |-> i]

(* Slip: the edges are cut before they are sorted. *)
PreviewOfFirst(list, n) ==
  LET kept == FirstOf(list, n) IN
  [edges |-> Sorted(Numbers(kept), ByPriority(kept)), more |-> Len(list) > n]

(* _render_evidence_graph, _render_graph_preview: the numbers of the first *)
(* edges by priority and id, and the note that there are more.             *)
Preview(list, n) ==
  [edges |-> FirstOf(Sorted(Numbers(list), ByPriority(list)), n), more |-> Len(list) > n]

(* Each entry of each candidate's list, with the candidate's name. *)
Entries(kind, lists) ==
  Joined([i \in DOMAIN lists |->
                [k \in DOMAIN lists[i] |->
                   [of |-> [kind |-> kind, n |-> i], text |-> lists[i][k]]]])

Missing(kind, list) == Entries(kind, [i \in DOMAIN list |-> list[i].missing])

ReviewSteps(r) == Entries("primitive", [i \in DOMAIN r.primitives |-> r.primitives[i].steps])

Evidences(list) == Joined([i \in DOMAIN list |-> list[i].evidence])

AllEvidence(r) ==
  Evidences(r.entrypoints) \o Evidences(r.targets) \o Evidences(r.boundaries)
    \o Evidences(r.primitives) \o Evidences(r.flows)

(* Slip: what was seen already is not skipped. *)
IndexOfEverything(r) == AllEvidence(r)

(* _render_evidence_index *)
EvidenceIndex(r) == Distinct(AllEvidence(r))

(* render_research_brief *)
Brief(r) ==
  [focus |-> r.focus,
   graph |-> Preview(r.edges, BriefEdges),
   missing |-> Missing("primitive", r.primitives),
   steps |-> ReviewSteps(r),
   index |-> EvidenceIndex(r)]

(* render_evidence_viewer: links lead from the cards to the index.         *)
Viewer(r) ==
  LET graph == Preview(r.edges, ViewerEdges)
      shown == [i \in DOMAIN graph.edges |-> r.edges[graph.edges[i]]]
  IN  [focus |-> r.focus,
       graph |-> graph,
       missing |-> Missing("primitive", r.primitives) \o Missing("flow", r.flows)
                     \o Missing("edge", r.edges),
       steps |-> ReviewSteps(r),
       links |-> Elements(AllEvidence(r)) \cup Elements(Evidences(shown)),
       index |-> EvidenceIndex(r)]
================================================================================
