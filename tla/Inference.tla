------------------------------- MODULE Inference -------------------------------
(***************************************************************************)
(* infer_boundaries of analysis/boundary.py and classify_primitives of     *)
(* analysis/primitives.py, as tables of rules over the detections' evidence.*)
(* Lists of evidence are sets here: both functions drop repeated ids.      *)
(***************************************************************************)
EXTENDS Lists

EvidenceOf(list) == UNION {list[i].evidence : i \in DOMAIN list}

(* Slip: one consumer stands for all of its type. *)
FirstOfType(consumers, types) ==
  UNION {consumers[i].evidence :
           i \in {j \in DOMAIN consumers :
                   /\ consumers[j].type \in types
                   /\ \A k \in 1 .. j - 1 : consumers[k].type \notin types}}

OfType(consumers, types) ==
  UNION {consumers[i].evidence :
           i \in {j \in DOMAIN consumers : consumers[j].type \in types}}

(* A rule applies if each of its groups has evidence, and then takes all.  *)
Rule(type, confidence, groups) ==
  [type |-> type, confidence |-> confidence, groups |-> groups]

(* Slip: the condition is forgotten. *)
AppliesAlways(rule) == rule.groups # {}

Applies(rule) == \A g \in rule.groups : g # {}

BoundaryRules(entrypoints, consumers, workers) ==
  LET requests == EvidenceOf(entrypoints)
      background == EvidenceOf(workers)
      of(types) == OfType(consumers, types)
      jobs == of({"queue_operation"}) \cup background
  IN
  <<Rule("request_to_worker", "medium", {requests, background}),
    Rule("data_to_file", "medium", {of({"file_operation"})}),
    Rule("data_to_url", "medium", {of({"network_operation"})}),
    Rule("data_to_template", "medium", {of({"template_operation"})}),
    Rule("data_to_config", "medium", {of({"config_operation"})}),
    Rule("data_to_job", "medium", {jobs}),
    Rule("data_to_database", "medium", {of({"database_operation"})}),
    Rule("data_to_directory", "medium", {of({"directory_operation"})}),
    Rule("external_to_internal", "medium", {requests, of({"network_operation"})}),
    Rule("low_priv_to_privileged_consumer", "low", {requests, jobs}),
    Rule("parser_to_consumer", "medium",
         {of({"parser_operation", "archive_operation"}),
          of({"file_operation", "template_operation", "config_operation"})})>>

InferBoundaries(entrypoints, consumers, workers) ==
  LET all == BoundaryRules(entrypoints, consumers, workers)
      rules == Pick(all, {i \in DOMAIN all : Applies(all[i])})
  IN  [i \in DOMAIN rules |-> [type |-> rules[i].type,
                               confidence |-> rules[i].confidence,
                               evidence |-> UNION rules[i].groups]]
-------------------------------------------------------------------------------
Primitive(type, confidence, evidence) ==
  [type |-> type, confidence |-> confidence, evidence |-> evidence]

(* A primitive that a boundary suggests, with the boundary's confidence    *)
(* and evidence.                                                           *)
Suggested(boundaries, boundaryType, type, evidence) ==
  LET found == Pick(boundaries, {i \in DOMAIN boundaries : boundaries[i].type = boundaryType})
  IN  [i \in DOMAIN found |->
         Primitive(type, found[i].confidence, found[i].evidence \cup evidence)]

(* The consumers whose snippets have one of the terms. *)
WithTerms(consumers, terms) ==
  Pick(consumers, {i \in DOMAIN consumers : consumers[i].terms \cap terms # {}})

SuggestedByTerms(consumers, terms, type) ==
  LET evidence == EvidenceOf(WithTerms(consumers, terms))
  IN  IF evidence = {} THEN <<>> ELSE <<Primitive(type, "low", evidence)>>

If(condition, list) == IF condition THEN list ELSE <<>>

FilePrimitives(boundaries, consumers) ==
  LET files == Pick(consumers, {i \in DOMAIN consumers : consumers[i].type = "file_operation"})
      shows(term) == WithTerms(files, {term}) # <<>>
      suggested(type) == Suggested(boundaries, "data_to_file", type, EvidenceOf(files))
  IN  If(shows("write"), suggested("file_write"))
        \o If(shows("read"), suggested("file_read"))
        \o If(shows("path") \/ ~(shows("write") \/ shows("read")), suggested("path_control"))

WithConfidence(list, confidence) ==
  [i \in DOMAIN list |-> [list[i] EXCEPT !.confidence = confidence]]

ClassifyPrimitives(boundaries, consumers, workers) ==
  LET of(types) == OfType(consumers, types)
      suggested(boundaryType, type, types) ==
        Suggested(boundaries, boundaryType, type, of(types))
      jobs == Suggested(boundaries, "data_to_job", "job_control",
                        of({"queue_operation"}) \cup EvidenceOf(workers))
      requestJobs == Suggested(boundaries, "request_to_worker", "job_control",
                               of({"queue_operation"}) \cup EvidenceOf(workers))
  IN  FilePrimitives(boundaries, consumers)
        \o suggested("data_to_url", "url_control", {"network_operation"})
        \o WithConfidence(suggested("data_to_url", "internal_request_trigger",
                                    {"network_operation"}), "low")
        \o suggested("data_to_template", "template_control", {"template_operation"})
        \o (IF jobs # <<>> THEN jobs ELSE requestJobs)
        \o suggested("data_to_config", "config_control", {"config_operation"})
        \o suggested("data_to_database", "query_control", {"database_operation"})
        \o suggested("data_to_directory", "directory_query_control", {"directory_operation"})
        \o suggested("parser_to_consumer", "parser_differential",
                     {"parser_operation", "archive_operation"})
        \o If(of({"deserialization"}) # {},
              <<Primitive("type_control", "low", of({"deserialization"}))>>)
        \o SuggestedByTerms(consumers, {"cache", "session"}, "cache_poisoning")
        \o SuggestedByTerms(consumers, {"auth", "permission", "admin"}, "auth_context_confusion")
        \o SuggestedByTerms(consumers, {"tenant", "workspace", "org"}, "tenant_confusion")
================================================================================
