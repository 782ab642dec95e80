---------------------------- MODULE RepeatedAudit ----------------------------
(***************************************************************************)
(* What an audit indexes when its own earlier output, or the output of     *)
(* another command, lies inside the audited repository.                    *)
(*                                                                         *)
(* A path is the sequence of its components from the file system's root.   *)
(* The result of an audit is a function of the indexed files and their     *)
(* contents; equal results have equal artefacts, so a result is known by   *)
(* its position among the distinct results seen so far.                    *)
(***************************************************************************)
EXTENDS Configuration

CONSTANTS
  Repo, Cwd, Home,  \* the repository root, the working directory, the home directory
  SourceFiles,      \* SourceFiles[p]: what the repository's file p is, see Kinds
  OwnFiles,         \* what the repository's invariant-os.yml may hold
  CommandLines,     \* the other options of an audit: [config, maxFileBytes, mode]
  OutputDirs,       \* spellings of --output-dir, see Spellings
  MaxCommands,      \* bound: commands in a behaviour
  MaxEdits          \* bound: edits of a source file or of invariant-os.yml

Kinds == {"text", "noisy", "binary", "large", "symlink"}
Spellings == [base : {"home", "cwd", "root"}, path : Seq(STRING)]

(* A path has no empty part and no dot; what splitting a text at slashes   *)
(* gives has at least one part, but it may be any text.                    *)
IsPath(p) == p \in Seq(STRING) /\ \A i \in DOMAIN p : p[i] \notin {"", "."}
IsEntry(entry) == entry \in Seq(STRING) /\ entry # <<>>

Files == (OwnFiles \cup {line.config : line \in CommandLines}) \ {None, Malformed}

ASSUME RepeatedAuditAssumption ==
  /\ IsPath(Repo)
  /\ \A p \in DOMAIN SourceFiles :
       SourceFiles[p] \in Kinds /\ IsPath(p) /\ IsStrictPrefix(Repo, p)
  /\ OutputDirs \subseteq Spellings
  /\ \A file \in Files : \A key \in {"ignorePaths", "focusFiles"} \cap DOMAIN file :
       file[key] # Malformed => \A entry \in file[key] : IsEntry(entry)
  /\ MaxCommands \in Nat /\ MaxEdits \in Nat

AuditResult == "audit_result.json"
AuditFiles  == {AuditResult, "research_brief.md"}  \* the other four behave like the brief
ReasonFile  == "reason_result.json"

VARIABLES
  fs,       \* fs[p]: content of the existing file p
  own,      \* the content of invariant-os.yml, or None; no source file here
  results,  \* the distinct audit results so far: the indexed files with their contents
  log,      \* history of audits: [dir, options, result, world]
  edits,    \* edits so far
  commands  \* commands so far

vars == <<fs, own, results, log, edits, commands>>
------------------------------------------------------------------------------
Under(p, dir) == IsPrefix(dir, p)
Relative(p) == SubSeq(p, Len(Repo) + 1, Len(p))
InRepo(p) == IsStrictPrefix(Repo, p)

(* Where the artefacts of --output-dir d go: Path(d), relative to the      *)
(* working directory, with "~" an ordinary name.                           *)
WriteDir(d) == CASE d.base = "home" -> Cwd \o <<"~">> \o d.path
                 [] d.base = "cwd"  -> Cwd \o d.path
                 [] d.base = "root" -> d.path

(* What the ignore is computed from: Path(d).expanduser().                 *)
ExpandedDir(d) == IF d.base = "home" THEN Home \o d.path ELSE WriteDir(d)

(* Slip: nothing is ignored. *)
IgnoreNothing(d) == {}

(* apply_output_dir_ignore: only a directory strictly inside the repository. *)
IgnorePaths(d) == {dir \in {ExpandedDir(d)} : InRepo(dir)}

Kind(p) == IF p \in DOMAIN SourceFiles THEN SourceFiles[p] ELSE "text"

Size(p) == IF Kind(p) = "large" THEN 2 ELSE 1

(* The walk enters no directory with an ignored name and none that is, or  *)
(* lies under, an ignored path; the names above the repository do not count. *)
Walked(p, config) ==
  /\ \A i \in 1 .. Len(Relative(p)) - 1 : Relative(p)[i] \notin config.ignoreDirs
  /\ \A dir \in config.ignorePaths : ~Under(p, dir)

InFocus(p, config) ==
  config.focusFiles = {} \/ \E entry \in config.focusFiles : MatchesEntry(Relative(p), entry)

(* index_repository. *)
Indexed(config) ==
  {p \in DOMAIN fs : /\ InRepo(p) /\ Walked(p, config) /\ InFocus(p, config)
                     /\ Kind(p) \in {"text", "large"} /\ Size(p) <= config.maxFileBytes}

Number(result) ==
  IF Contains(results, result) THEN CHOOSE i \in DOMAIN results : results[i] = result
                               ELSE Len(results) + 1

Written(dir, names, content) ==
  LET paths == {Append(dir, name) : name \in names} IN
  [p \in DOMAIN fs \cup paths |-> IF p \in paths THEN content ELSE fs[p]]

(* A directory that holds the repository is not one for output alone. *)
InOutput(p, d) == InRepo(WriteDir(d)) /\ Under(p, WriteDir(d))

(* What an audit into d can see of the world besides its own output. *)
World(d) ==
  [own |-> own, files |-> [p \in {p \in DOMAIN fs : InRepo(p) /\ ~InOutput(p, d)} |-> fs[p]]]
------------------------------------------------------------------------------
Init ==
  /\ fs = [p \in DOMAIN SourceFiles |-> <<"source", 0>>]
  /\ own \in OwnFiles
  /\ results = <<>> /\ log = <<>> /\ edits = 0 /\ commands = 0

(* The operator edits one file of the repository. *)
Edit(p) ==
  /\ edits < MaxEdits
  /\ edits' = edits + 1
  /\ fs' = [fs EXCEPT ![p] = <<"source", edits + 1>>]
  /\ UNCHANGED <<own, results, log, commands>>

(* ... or the configuration. *)
Configure(file) ==
  /\ edits < MaxEdits /\ file # own
  /\ edits' = edits + 1
  /\ own' = file
  /\ UNCHANGED <<fs, results, log, commands>>

(* audit REPO --output-dir d, from the check of the root to the last       *)
(* write.  An audit whose configuration is refused ends before it changes  *)
(* anything.                                                               *)
Audit(d, options) ==
  /\ commands < MaxCommands
  /\ WriteDir(d) # Repo
  /\ ConfigurationOf(Repo, own, options) # None
  /\ LET config == [ConfigurationOf(Repo, own, options) EXCEPT
                      !.ignorePaths = @ \cup IgnorePaths(d)]
         result == [p \in Indexed(config) |-> fs[p]]
         n == Number(result)
     IN /\ results' = IF n > Len(results) THEN Append(results, result) ELSE results
        /\ fs' = Written(WriteDir(d), AuditFiles, <<"audit", n>>)
        /\ log' = Append(log, [dir |-> d, options |-> options, result |-> n,
                              world |-> World(d)])
  /\ commands' = commands + 1
  /\ UNCHANGED <<own, edits>>

(* reason WRITE_DIR(from)/audit_result.json --output-dir to. *)
Reason(from, to) ==
  /\ commands < MaxCommands
  /\ LET input == Append(WriteDir(from), AuditResult) IN
     /\ input \in DOMAIN fs
     /\ fs' = Written(WriteDir(to), {ReasonFile}, <<"reason", fs[input][2]>>)
  /\ commands' = commands + 1
  /\ UNCHANGED <<own, results, log, edits>>

Next ==
  \/ \E p \in DOMAIN SourceFiles : Edit(p)
  \/ \E file \in OwnFiles : Configure(file)
  \/ \E d \in OutputDirs, options \in CommandLines : Audit(d, options)
  \/ \E from, to \in OutputDirs : Reason(from, to)

Spec == Init /\ [][Next]_vars
------------------------------------------------------------------------------
(* Two audits into one directory, with the same options, that see the same *)
(* repository, apart from what that directory holds, give the same result: *)
(* an audit never feeds on its own output, however many audits, edits and  *)
(* derived results came in between and wherever in the repository the      *)
(* directory is.                                                           *)
RepeatedAuditIsStable ==
  \A i, j \in DOMAIN log :
    log[i].dir = log[j].dir /\ log[i].options = log[j].options /\ log[i].world = log[j].world
      => log[i].result = log[j].result

(* The path an entry spells. *)
Spelled(entry) == Pick(entry, {i \in DOMAIN entry : entry[i] # "" /\ entry[i] # "."})

(* Nothing but dots before an empty part: "./" and ".//x". *)
FromRoot(entry) ==
  \E n \in DOMAIN entry : entry[n] = "" /\ \A i \in 1 .. n - 1 : entry[i] = "."

Ignores(entry, p) == Under(p, (IF FromRoot(entry) THEN <<>> ELSE Repo) \o Spelled(entry))

(* No dot and no empty part but the "./" it starts and the "/" it ends with. *)
IsTidy(entry) == LET rest == WithoutDots(entry) IN
  \/ rest = Spelled(rest)
  \/ rest = Append(Spelled(rest), "") /\ Len(rest) > 1

Names(entry, p) ==
  IF EndsInSlash(entry) THEN IsStrictPrefix(Spelled(entry), Relative(p))
                        ELSE IsPrefix(Spelled(entry), Relative(p))

(* What is indexed is exactly what the configuration says.  Of the three   *)
(* places a value may come from, the first that has it decides: the        *)
(* command line, the file, which is the one named there or else the        *)
(* repository's own, and the defaults.  Nothing is indexed that is too     *)
(* large, in the output directory, in an ignored one, or outside the       *)
(* focus; and whatever is none of that is indexed, even next to the output *)
(* directory or under a directory of the same name elsewhere.  The two     *)
(* kinds of entries are not read alike: an ignored one leads where its     *)
(* names lead, from the root of the file system if they follow "./" or     *)
(* ".//"; one of the focus finds nothing if it has a dot or an empty part  *)
(* inside.                                                                 *)
IndexedAsConfigured ==
  \A i \in DOMAIN log :
    LET options == log[i].options
        file == ChosenFile(log[i].world.own, options)
        limit == IF options.maxFileBytes # None THEN options.maxFileBytes
                 ELSE IF "maxFileBytes" \in DOMAIN file THEN file.maxFileBytes
                 ELSE DefaultMaxBytes
        focus == Value(file, "focusFiles")
    IN
    \A p \in DOMAIN SourceFiles :
      p \in DOMAIN results[log[i].result] <=>
        /\ SourceFiles[p] \in {"text", "large"} /\ Size(p) <= limit
        /\ ~InOutput(p, log[i].dir)
        /\ Value(file, "ignoreDirs") \cap Range(Front(Relative(p))) = {}
        /\ DefaultIgnoreDirs \cap Range(Front(Relative(p))) = {}
        /\ \A e \in Value(file, "ignorePaths") : ~Ignores(e, p)
        /\ focus = {} \/ \E e \in focus : IsTidy(e) /\ Names(e, p)

(* "Config paths must be local repository-relative paths" (README.md), and *)
(* test_load_audit_config_rejects_non_local_config_paths: a path that an   *)
(* accepted configuration ignores is one in the repository.                *)
IgnoredPathsAreLocal ==
  \A i \in DOMAIN log :
    \A dir \in ConfigurationOf(Repo, log[i].world.own, log[i].options).ignorePaths :
      Under(dir, Repo)
==============================================================================
