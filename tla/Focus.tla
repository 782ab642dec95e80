--------------------------------- MODULE Focus ---------------------------------
(***************************************************************************)
(* core/focus.py: the lens through which an audit ranks its candidates.    *)
(* A lens likes some types and some words; it never hides a candidate.     *)
(***************************************************************************)
EXTENDS Integers, FiniteSets

Modes == {"all", "import-upload", "worker-queue", "template-workflow",
          "url-internal-request"}

(* _FOCUS_PROFILES: the types of boundaries, primitives and flow targets   *)
(* that a lens likes, and its keywords.                                    *)
Profile(mode) ==
  CASE mode = "import-upload" ->
         [types |-> {"data_to_file", "data_to_config", "parser_to_consumer",
                     "data_to_directory", "path_control", "file_write", "file_read",
                     "config_control", "parser_differential",
                     "directory_query_control", "consumer"},
          keywords |-> {"import", "upload", "parser", "file", "config", "directory",
                        "archive", "zip", "path"}]
    [] mode = "worker-queue" ->
         [types |-> {"request_to_worker", "data_to_job",
                     "low_priv_to_privileged_consumer", "job_control",
                     "type_control", "worker"},
          keywords |-> {"worker", "queue", "job", "task", "async"}]
    [] mode = "template-workflow" ->
         [types |-> {"data_to_template", "data_to_config", "parser_to_consumer",
                     "template_control", "config_control", "parser_differential",
                     "type_control", "consumer"},
          keywords |-> {"template", "workflow", "render", "parser", "config"}]
    [] mode = "url-internal-request" ->
         [types |-> {"data_to_url", "external_to_internal", "url_control",
                     "internal_request_trigger", "consumer"},
          keywords |-> {"url", "internal", "http", "redirect", "callback", "fetch",
                        "webhook", "network", "outbound"}]

(* The keywords among the words that explain a boundary, and among the     *)
(* missing evidence and review steps of a primitive: the texts are fixed   *)
(* by the type (analysis/boundary.py, analysis/primitives.py).             *)
Explained(type) ==
  CASE type = "request_to_worker" -> {"worker"}
    [] type = "data_to_file" -> {"file"}
    [] type = "data_to_url" -> {"network", "outbound"}
    [] type \in {"data_to_template", "template_control"} -> {"template"}
    [] type = "data_to_job" -> {"job"}
    [] type \in {"data_to_directory", "directory_query_control"} -> {"directory"}
    [] type = "external_to_internal" -> {"internal"}
    [] type = "parser_to_consumer" -> {"archive", "file", "template"}
    [] type = "path_control" -> {"directory", "path"}
    [] type = "file_write" -> {"file", "job"}
    [] type = "file_read" -> {"file"}
    [] type = "url_control" -> {"outbound", "url"}
    [] type = "internal_request_trigger" -> {"internal", "outbound"}
    [] type = "job_control" -> {"job", "queue", "worker"}
    [] type = "parser_differential" -> {"parser"}
    [] OTHER -> {}

Lens(score) == [match |-> score > 0, score |-> score]

(* score_boundary_focus, score_primitive_focus, score_static_flow_focus:   *)
(* a type that is liked counts 50, a keyword 10; outside the worker lens   *)
(* the type of a flow's target counts only along with a keyword.           *)
Focus(category, c, mode) ==
  IF mode = "all" THEN [match |-> TRUE, score |-> 0]
  ELSE LET words == IF category = "static_flow" THEN c.words ELSE Explained(c.type)
           hits == words \cap Profile(mode).keywords
           liked == c.type \in Profile(mode).types
       IN  IF category = "static_flow" /\ mode # "worker-queue" /\ hits = {}
             THEN Lens(0)
             ELSE Lens((IF liked THEN 50 ELSE 0) + 10 * Cardinality(hits))

Matches(category, list, mode) ==
  Cardinality({i \in DOMAIN list : Focus(category, list[i], mode).match})

(* summarize_focus_matches *)
FocusSummary(r, mode) ==
  LET boundaries == Matches("boundary", r.boundaries, mode)
      primitives == Matches("primitive", r.primitives, mode)
      flows == Matches("static_flow", r.flows, mode)
  IN  [mode |-> mode, boundary |-> boundaries, primitive |-> primitives,
       static_flow |-> flows, total |-> boundaries + primitives + flows]
================================================================================
