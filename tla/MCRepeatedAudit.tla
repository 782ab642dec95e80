--------------------------- MODULE MCRepeatedAudit ---------------------------
(* A repository with text files, one that is not, one that is large and a  *)
(* link, one of them in a directory of the default ignore list and one     *)
(* beside a possible output directory; output directories outside the      *)
(* repository, above it, directly inside it, ignored by name, next to      *)
(* sources, and spelled with "~"; derived results even in its root.        *)
EXTENDS RepeatedAudit, TLC

MCRepo == <<"work", "repo">>
MCHome == <<"home">>

MCSourceFiles ==
  LET kind == [app |-> "text", lib |-> "text", same |-> "text", built |-> "text",
               log |-> "noisy", dump |-> "large", link |-> "symlink"]
      path == [app   |-> <<"src", "app.py">>,
               lib   |-> <<"src", "report", "lib.py">>,
               same  |-> <<"app.py">>,
               built |-> <<"build", "gen.py">>,
               log   |-> <<"src", "run.log">>,
               dump  |-> <<"src", "dump.sql">>,
               link  |-> <<"src", "link.py">>]
  IN [p \in {MCRepo \o path[f] : f \in DOMAIN path} |->
        kind[CHOOSE f \in DOMAIN path : p = MCRepo \o path[f]]]

MCIgnoreDirs == {"build", "outputs"}

Dir(base, path) == [base |-> base, path |-> path]

MCOutputDirs == {Dir("root", MCRepo \o <<"outputs">>),
                 Dir("root", MCRepo \o <<"report">>),
                 Dir("root", MCRepo \o <<"src", "audit">>),
                 Dir("root", MCRepo),
                 Dir("root", <<"work">>),
                 Dir("home", <<"out">>)}

(* What invariant-os.yml may hold: nothing of its own, ignored paths spelled *)
(* in three ways, and a focus with an entry that finds nothing.              *)
MCOwnFiles ==
  {None,
   "ignorePaths" :> {<<".", "src", "report", "">>, <<"app.py">>} @@ "maxFileBytes" :> 2,
   "ignorePaths" :> {<<".", "", "work", "repo", "src">>} @@ "ignoreDirs" :> {"audit"},
   "focusFiles" :> {<<"src", ".", "report">>, <<"app.py">>} @@ "maxFileBytes" :> 2}

Line(config, maxFileBytes, mode) ==
  [config |-> config, maxFileBytes |-> maxFileBytes, mode |-> mode]

(* Options: none, a limit that is refused, a file with a focus beside a    *)
(* limit and a lens, and a file that is no mapping.                        *)
MCCommandLines ==
  {Line(None, None, None),
   Line(None, -1, None),
   Line("focusFiles" :> {<<".", "src", "">>} @@ "maxFileBytes" :> 2, 1, "worker-queue"),
   Line(Malformed, None, None)}

(* An entry that seems to name the repository. *)
DotSlash == {"ignorePaths" :> {<<".", "">>}, None}
OnlyDefaults == {None}
NoOptions == {Line(None, None, None)}

TildeOutputDirs == {Dir("home", <<"out">>), Dir("root", MCRepo \o <<"report">>)}
==============================================================================
