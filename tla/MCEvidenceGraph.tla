---------------------------- MODULE MCEvidenceGraph ---------------------------
(* Two entrypoints out of four handlers (qualified, plain, with a common   *)
(* word, none) and any of six targets in two files; caps of two per        *)
(* entrypoint and a common budget of three.  Boundaries and primitives are *)
(* those that module Inference derives from the detections.                *)
EXTENDS AuditReports, TLC

Ext == INSTANCE SequencesExt
Rules == INSTANCE Inference

MCWords == {"acme", "cart", "cartitem", "get", "save", "main", "java"}
MCBegins == {<<"cart", "cartitem">>}

CartFile == <<"cart", "java">>
MainFile == <<"main", "java">>

Entry(file, class, method, words) ==
  [file |-> file, handler |-> [class |-> class, method |-> method], words |-> words]

HandlerPool ==
  {Entry(MainFile, <<"acme", "cart">>, "save", {"java"}),
   Entry(CartFile, <<"cart">>, NoMethod, {}),
   Entry(MainFile, <<"get">>, "save", {"main", "java"}),
   Entry(CartFile, <<>>, NoMethod, {"cart"})}

Consumer(type, file, text) ==
  [kind |-> "consumer", type |-> type, terms |-> {"write"},
   file |-> file, pattern |-> <<"get">>, text |-> text]
Worker(file, text) ==
  [kind |-> "worker", type |-> "background_job", terms |-> {},
   file |-> file, pattern |-> <<"get">>, text |-> text]

(* In the order of their ids: consumers, then workers. *)
TargetPool ==
  <<Consumer("network_operation", MainFile, {<<"acme", "cart">>}),
    Consumer("file_operation", MainFile, {<<"save">>, <<"main">>}),
    Consumer("deserialization", CartFile, {<<"acme", "cartitem">>}),
    Worker(MainFile, {<<"cart">>, <<"save">>}),
    Worker(CartFile, {<<"cartitem">>, <<"get">>}),
    Worker(MainFile, {})>>

WithSets(list) == [i \in DOMAIN list |-> [list[i] EXCEPT !.evidence = Ext!ToSet(@)]]
WithLists(list) ==
  [i \in DOMAIN list |-> [list[i] EXCEPT !.evidence = Ext!SetToSortSeq(@, LAMBDA m, n : m < n)]]

(* The first entrypoint was found twice, so it has two evidences; it has a *)
(* flow to every target, and those to workers have "worker" in their ids.  *)
MCAudit(first, second, ids) ==
  LET chosen == SelectSeq(<<1, 2, 3, 4, 5, 6>>, LAMBDA i : i \in ids)
      entrypoints == <<first @@ [evidence |-> <<11, 12>>], second @@ [evidence |-> <<13>>]>>
      targets == [i \in DOMAIN chosen |-> TargetPool[chosen[i]] @@ [evidence |-> <<20 + i>>]]
      of(kind) == SelectSeq(WithSets(targets), LAMBDA t : t.kind = kind)
      boundaries == Rules!InferBoundaries(WithSets(entrypoints), of("consumer"), of("worker"))
      primitives == WithLists(Rules!ClassifyPrimitives(boundaries, of("consumer"), of("worker")))
      near(t) == IF t.file = first.file THEN {"same", "file", "proximity"} ELSE {}
  IN  [files |-> <<MainFile, CartFile>>,
       entrypoints |-> entrypoints,
       targets |-> targets,
       flows |-> [i \in DOMAIN targets |->
                    [entrypoint |-> 1, target |-> i, type |-> targets[i].kind,
                     confidence |-> "low", evidence |-> <<11, 12, 20 + i>>,
                     words |-> {targets[i].kind} \cup near(targets[i]),
                     missing |-> <<"dispatch">>]],
       boundaries |-> WithLists(boundaries),
       primitives |-> [i \in DOMAIN primitives |->
                         primitives[i] @@ [missing |-> <<"origin">>,
                                           steps |-> <<"trace", "document">>]]]

MCAudits == {MCAudit(first, second, ids) :
               first \in HandlerPool, second \in HandlerPool, ids \in (SUBSET (1 .. 6)) \ {{}}}
===============================================================================
