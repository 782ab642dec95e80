------------------------------- MODULE Inventory -------------------------------
(***************************************************************************)
(* detect_entrypoints, detect_consumers and detect_workers of              *)
(* analysis/detectors.py, then infer_boundaries and classify_primitives:   *)
(* what becomes of the matches in the files of a repository.  The order in *)
(* which the detectors find something within one file is left open.        *)
(***************************************************************************)
EXTENDS Detectors, Inference

CONSTANTS
  Repositories,  \* per file its traits and the hint of its path, the
                 \* selections of the configuration, and a bound per stage
  Names,         \* what tells routes and handlers apart
  Terms,         \* the sets of telling terms a consumer's line can have
  None

Evidences == [stage : {"entrypoints", "consumers", "workers"}, n : Nat \ {0}]

ASSUME InventoryAssumption ==
  /\ \A r \in Repositories : IsList(r.traits)
  /\ None \notin Evidences

VARIABLES
  repo,
  stage,
  file,         \* the file the stage looks at
  found,        \* history: all matches, in the order they were found
  numbered,     \* the evidences the stage has numbered
  entrypoints, consumers, workers,
  boundaries, primitives

detections == <<entrypoints, consumers, workers>>
vars == <<repo, stage, file, found, numbered, detections, boundaries, primitives>>
--------------------------------------------------------------------------------
NumFiles == Len(repo.traits)

IsAllowed(pattern) == pattern \in Allowed(stage, repo.selections[stage])

FoundIn(s) == {i \in DOMAIN found : found[i].stage = s}

(* Evidence is numbered within its stage: ev_ep_0001, ev_cons_0001, ...    *)
EvidenceId == [stage |-> stage, n |-> numbered + 1]

Match(pattern) ==
  [stage |-> stage, file |-> file, pattern |-> pattern,
   id |-> IF IsAllowed(pattern) THEN EvidenceId ELSE None]

(* Whatever is found, what the configuration does not allow has no effect. *)
Find(pattern) ==
  /\ Cardinality(FoundIn(stage)) < repo.bounds[stage]
  /\ found' = Append(found, Match(pattern))
  /\ numbered' = IF IsAllowed(pattern) THEN numbered + 1 ELSE numbered
  /\ UNCHANGED <<repo, stage, file, boundaries, primitives>>

(* add_entrypoint *)
FindEntrypoint ==
  /\ stage = "entrypoints" /\ file <= NumFiles
  /\ \E d \in EntrypointDetectors(repo.traits[file]) :
     \E name \in (IF d.named THEN Names ELSE {None}) :
       /\ Find(d.pattern)
       /\ entrypoints' =
            IF IsAllowed(d.pattern)
              THEN Append(entrypoints,
                          [id |-> Len(entrypoints) + 1, file |-> file, hint |-> d.hint,
                           name |-> name, evidence |-> {EvidenceId}])
              ELSE entrypoints
  /\ UNCHANGED <<consumers, workers>>

FindConsumer ==
  /\ stage = "consumers" /\ file <= NumFiles
  /\ \E pattern \in ConsumerPatterns(repo.traits[file]), terms \in Terms :
       /\ Find(pattern)
       /\ consumers' =
            IF IsAllowed(pattern)
              THEN Append(consumers,
                          [id |-> Len(consumers) + 1, file |-> file,
                           type |-> ConsumerType(pattern), terms |-> terms,
                           evidence |-> {EvidenceId}])
              ELSE consumers
  /\ UNCHANGED <<entrypoints, workers>>

NewWorker(pattern) ==
  [id |-> Len(workers) + 1, file |-> file, pattern |-> pattern, evidence |-> {EvidenceId}]

WithEvidence(i) == [workers EXCEPT ![i].evidence = @ \cup {EvidenceId}]

WorkersOf(f) == {i \in DOMAIN workers : workers[i].file = f}
First(ids) == CHOOSE i \in ids : \A j \in ids : i <= j

(* The worker under a key of worker_keys. *)
SameWorker(pattern) == {i \in WorkersOf(file) : workers[i].pattern = pattern}

(* Each task of a task file is a worker; tasks are looked for first. *)
FindTask ==
  /\ stage = "workers" /\ file <= NumFiles /\ "task_xml" \in repo.traits[file]
  /\ WorkersOf(file) = SameWorker("taskengine_task")
  /\ Find("taskengine_task")
  /\ workers' = IF IsAllowed("taskengine_task")
                  THEN Append(workers, NewWorker("taskengine_task")) ELSE workers
  /\ UNCHANGED <<entrypoints, consumers>>

(* A pattern makes one worker per file, with all its evidence. *)
FindWorker ==
  /\ stage = "workers" /\ file <= NumFiles
  /\ \E pattern \in LineWorkers :
       /\ Find(pattern)
       /\ workers' = IF ~IsAllowed(pattern) THEN workers
                     ELSE IF SameWorker(pattern) = {} THEN Append(workers, NewWorker(pattern))
                     ELSE WithEvidence(First(SameWorker(pattern)))
  /\ UNCHANGED <<entrypoints, consumers>>

(* The path of a file is evidence for its first worker, or a worker itself. *)
WithPathHint ==
  IF WorkersOf(file) = {} THEN Append(workers, NewWorker("path_hint"))
  ELSE WithEvidence(First(WorkersOf(file)))

PathHint ==
  /\ stage = "workers" /\ file <= NumFiles /\ repo.hints[file] # None
  /\ found' = Append(found, Match("path_hint"))
  /\ numbered' = IF IsAllowed("path_hint") THEN numbered + 1 ELSE numbered
  /\ workers' = IF IsAllowed("path_hint") THEN WithPathHint ELSE workers
  /\ file' = file + 1
  /\ UNCHANGED <<repo, stage, entrypoints, consumers, boundaries, primitives>>

NextFile ==
  /\ stage \in {"entrypoints", "consumers", "workers"} /\ file <= NumFiles
  /\ ~(stage = "workers" /\ repo.hints[file] # None)
  /\ file' = file + 1
  /\ UNCHANGED <<repo, stage, found, numbered, detections, boundaries, primitives>>

SameKey(d, e) == d.file = e.file /\ d.hint = e.hint /\ d.name = e.name /\ e.name # None

WithAll(e, list, ids) == [e EXCEPT !.evidence = UNION {list[j].evidence : j \in ids}]

(* Slip: only neighbours are compared. *)
DedupeNeighbours(list) ==
  LET kept == Pick(list, {i \in DOMAIN list : i = 1 \/ ~SameKey(list[i - 1], list[i])})
      run(e) == {j \in DOMAIN list : j >= e.id /\ \A k \in e.id + 1 .. j : SameKey(list[k], e)}
  IN  [i \in DOMAIN kept |-> WithAll(kept[i], list, run(kept[i]))]

(* _dedupe_entrypoints: the first of a key stays and takes the evidence of *)
(* the others; those without route and handler all stay.                   *)
DedupeEntrypoints(list) ==
  LET kept == Pick(list, {i \in DOMAIN list : \A j \in 1 .. i - 1 : ~SameKey(list[j], list[i])})
      all(e) == {j \in DOMAIN list : j = e.id \/ SameKey(list[j], e)}
  IN  [i \in DOMAIN kept |-> WithAll(kept[i], list, all(kept[i]))]

EndStage ==
  /\ file > NumFiles
  /\ \/ /\ stage = "entrypoints" /\ stage' = "consumers"
        /\ entrypoints' = DedupeEntrypoints(entrypoints)
     \/ /\ stage = "consumers" /\ stage' = "workers"
        /\ UNCHANGED entrypoints
     \/ /\ stage = "workers" /\ stage' = "boundaries"
        /\ UNCHANGED entrypoints
  /\ file' = 1 /\ numbered' = 0
  /\ UNCHANGED <<repo, found, consumers, workers, boundaries, primitives>>

Infer ==
  /\ stage = "boundaries" /\ stage' = "primitives"
  /\ boundaries' = InferBoundaries(entrypoints, consumers, workers)
  /\ UNCHANGED <<repo, file, found, numbered, detections, primitives>>

Classify ==
  /\ stage = "primitives" /\ stage' = "done"
  /\ primitives' = ClassifyPrimitives(boundaries, consumers, workers)
  /\ UNCHANGED <<repo, file, found, numbered, detections, boundaries>>

Init ==
  /\ repo \in Repositories
  /\ stage = "entrypoints" /\ file = 1
  /\ found = <<>> /\ numbered = 0
  /\ entrypoints = <<>> /\ consumers = <<>> /\ workers = <<>>
  /\ boundaries = <<>> /\ primitives = <<>>

Next ==
  \/ FindEntrypoint \/ FindConsumer \/ FindTask \/ FindWorker \/ PathHint
  \/ NextFile \/ EndStage \/ Infer \/ Classify

Spec == Init /\ [][Next]_vars
--------------------------------------------------------------------------------
(* The types of the variables (core/models.py). *)
TypeOK ==
  /\ file \in 1 .. NumFiles + 1 /\ numbered \in Nat
  /\ \A list \in {entrypoints, consumers, workers} : \A i \in DOMAIN list :
       /\ list[i].id \in Nat \ {0} /\ list[i].file \in 1 .. NumFiles
       /\ list[i].evidence \in (SUBSET Evidences) \ {{}}
  /\ \A list \in {boundaries, primitives} : \A i \in DOMAIN list :
       /\ list[i].confidence \in {"medium", "low"}
       /\ list[i].evidence \in (SUBSET Evidences) \ {{}}

Detected(s) ==
  CASE s = "entrypoints" -> entrypoints
    [] s = "consumers" -> consumers
    [] s = "workers" -> workers

Selected(m) ==
  LET selection == repo.selections[m.stage] IN
  /\ selection.include = {} \/ m.pattern \in selection.include
  /\ m.pattern \notin selection.exclude

(* Every match the configuration does not deselect is evidence of exactly  *)
(* one detection, in its own file: no detector's pattern is missing from   *)
(* the table of known ones (it would be dropped silently), merging loses   *)
(* nothing, and nothing is attached to another file's worker.              *)
EveryMatchIsKept ==
  \A i \in DOMAIN found :
    LET m == found[i] list == Detected(m.stage) IN
    /\ m.id = None <=> ~Selected(m)
    /\ m.id # None =>
         /\ \A j \in 1 .. i - 1 : found[j].id # m.id
         /\ \E d \in DOMAIN list :
              /\ m.id \in list[d].evidence /\ list[d].file = m.file
              /\ \A e \in DOMAIN list \ {d} : m.id \notin list[e].evidence

(* Once its stage is over, no entrypoint with a route or a handler is      *)
(* listed twice, no file has two workers for one pattern (tasks aside),    *)
(* and the ids left by merging are still in order.                         *)
DetectionsAreDistinct ==
  /\ stage # "entrypoints" =>
       \A i, j \in DOMAIN entrypoints : i < j =>
         entrypoints[i].id < entrypoints[j].id /\ ~SameKey(entrypoints[i], entrypoints[j])
  /\ \A i, j \in DOMAIN workers :
       i < j /\ workers[i].file = workers[j].file /\ workers[i].pattern = workers[j].pattern
         => workers[i].pattern = "taskengine_task"

(* Nothing that was detected beyond the entrypoints is forgotten: it       *)
(* supports a boundary or a primitive, but for processes without a telling *)
(* term, and for parsers and archives that nothing is read into.  And of   *)
(* every boundary about data a primitive keeps all evidence.               *)
EveryDetectionIsClassified ==
  stage = "done" =>
    LET used == EvidenceOf(boundaries) \cup EvidenceOf(primitives)
        telling == {"cache", "session", "auth", "permission", "admin",
                    "tenant", "workspace", "org"}
        isTarget(c) == c.type \in {"file_operation", "template_operation", "config_operation"}
    IN
    /\ EvidenceOf(workers) \subseteq used
    /\ \A i \in DOMAIN consumers :
         LET c == consumers[i] IN
         \/ c.evidence \subseteq used
         \/ /\ c.terms \cap telling = {}
            /\ \/ c.type = "process_operation"
               \/ /\ c.type \in {"parser_operation", "archive_operation"}
                  /\ ~ \E j \in DOMAIN consumers : isTarget(consumers[j])
    /\ \A i \in DOMAIN boundaries :
         \/ boundaries[i].type \in {"external_to_internal", "request_to_worker",
                                    "low_priv_to_privileged_consumer"}
         \/ \E p \in DOMAIN primitives : boundaries[i].evidence \subseteq primitives[p].evidence
================================================================================
