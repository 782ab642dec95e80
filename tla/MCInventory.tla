------------------------------ MODULE MCInventory ------------------------------
(* For each kind of file, beside a plain one, two entrypoints, and three   *)
(* for one kind; for workers three matches beside the hints of two paths;  *)
(* for consumers two, with an entrypoint and a worker or without.  The     *)
(* selections are the default, a narrow one, and one without path hints.   *)
EXTENDS Inventory

All == [include |-> {}, exclude |-> {}]
Default == [entrypoints |-> All, consumers |-> All, workers |-> All]
Some ==
  [entrypoints |-> [include |-> {"express_route", "flask_route"}, exclude |-> {"flask_route"}],
   consumers |-> [include |-> {}, exclude |-> {"config_operation"}],
   workers |-> [include |-> {"consume", "path_hint"}, exclude |-> {}]]
NoHints == [Default EXCEPT !.workers.exclude = {"path_hint"}]

Bounds(e, c, w) == [entrypoints |-> e, consumers |-> c, workers |-> w]

Repository(traits, hints, selections, bounds) ==
  [traits |-> traits, hints |-> hints, selections |-> selections, bounds |-> bounds]

Kinds ==
  {{"next_api", "url_config"}, {"nestjs", "hapi", "url_config"}, {"web_xml"}, {"server_xml"},
   {"zsec_xml"}, {"product_api_xml"}, {"servlet_forward"}, {"java"}, {"kotlin"},
   {"pyramid", "starlette"}, {"sanic", "tornado"}, {"aiohttp", "bottle", "urlpatterns"},
   {"go"}, {"csharp"}, {"rust"}, {"play"}, {"elixir"}, {"clojure"}, {"haskell"},
   {"sinatra", "ruby"}, {"php"}, {"adap_xml"}}

MCRepositories ==
  {Repository(<<kind, {}>>, <<None, None>>, selections, Bounds(2, 0, 0)) :
     kind \in Kinds, selections \in {Default, Some}}
  \cup
  {Repository(<<{"php"}, {}>>, <<None, None>>, Default, Bounds(3, 0, 0))}
  \cup
  {Repository(<<{"task_xml"}, {}>>, <<first, "jobs">>, selections, Bounds(0, 0, 3)) :
     first \in {None, "task"}, selections \in {Default, Some, NoHints}}
  \cup
  {Repository(<<{"zsec_xml"}>>, <<None>>, Default, Bounds(e, 2, w)) :
     e \in 0 .. 1, w \in 0 .. 1}

MCTerms == {{}, {"write"}, {"read", "path"}, {"auth"}}
================================================================================
