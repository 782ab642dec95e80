----------------------------- MODULE Configuration -----------------------------
(***************************************************************************)
(* core/config.py: from a YAML file and the options of the command line to *)
(* the configuration of an audit, or to its refusal.                       *)
(*                                                                         *)
(* The content of a file is a function from the keys it has to their       *)
(* values.  A path entry is the sequence of its parts between the slashes, *)
(* so that "src/" is <<"src", "">> and "./a" is <<".", "a">>.              *)
(***************************************************************************)
EXTENDS Integers, SequencesExt, Lists

CONSTANTS
  DefaultIgnoreDirs,  \* DEFAULT_IGNORE_DIRS
  DefaultMaxBytes,
  Patterns,           \* the names of all detector patterns
  Malformed,          \* a value of a type its key does not allow
  None                \* no such option, no such file, no configuration

Modes == {"all", "import-upload", "worker-queue", "template-workflow",
          "url-internal-request"}

Defaults ==
  [mode |-> "all", ignoreDirs |-> DefaultIgnoreDirs, ignorePaths |-> {}, focusFiles |-> {},
   detectors |-> {}, maxTotal |-> 500, maxPerEntrypoint |-> 8,
   llm |-> FALSE, semgrep |-> FALSE, maxFileBytes |-> DefaultMaxBytes]
-------------------------------------------------------------------------------
StartsAbsolute(entry) == Len(entry) > 1 /\ entry[1] = ""

EndsInSlash(entry) == Len(entry) > 1 /\ Last(entry) = ""

(* The entry without the "./" it starts with, however often. *)
WithoutDots(entry) ==
  LET n == CHOOSE n \in 0 .. Len(entry) - 1 :
             /\ \A i \in 1 .. n : entry[i] = "."
             /\ n = Len(entry) - 1 \/ entry[n + 1] # "."
  IN  SubSeq(entry, n + 1, Len(entry))

(* _validate_relative_path: what it accepts, and what it makes of it.      *)
(* The check for a leading slash comes before the dots are removed.        *)
IsLocal(entry) ==
  /\ entry # <<"">> /\ ~StartsAbsolute(entry) /\ ".." \notin Range(entry)
  /\ ~(Len(entry) > 1 /\ entry[1] \in {"http:", "https:"})

Normalized(entry) ==
  LET rest == WithoutDots(entry) IN IF rest = <<"">> THEN <<"", "">> ELSE rest

(* (repo / entry).resolve(): an absolute entry replaces the repository.    *)
Resolved(repo, entry) ==
  LET parts == Pick(entry, {i \in DOMAIN entry : entry[i] \notin {"", "."}})
  IN  IF StartsAbsolute(entry) THEN parts ELSE repo \o parts

(* _matches_focus_entry: a comparison of spellings, of a path relative to  *)
(* the repository with the entry.                                          *)
MatchesEntry(path, entry) ==
  LET rest == WithoutDots(entry)
  IN  IF EndsInSlash(rest) THEN IsStrictPrefix(Front(rest), path)
                           ELSE IsPrefix(rest, path)
-------------------------------------------------------------------------------
Value(file, key) == IF key \in DOMAIN file THEN file[key] ELSE Defaults[key]

(* What _apply_payload raises an error about: values of the wrong type, an *)
(* unknown lens, and entries that are not local.                           *)
WellFormed(file) ==
  /\ \A key \in DOMAIN file : file[key] # Malformed
  /\ Value(file, "mode") \in Modes
  /\ \A key \in {"ignorePaths", "focusFiles"} : \A entry \in Value(file, key) : IsLocal(entry)

(* _apply_payload: directories are added to the defaults, the rest is set. *)
Applied(repo, file) ==
  [key \in DOMAIN Defaults |->
     CASE key = "ignoreDirs" -> DefaultIgnoreDirs \cup Value(file, key)
       [] key = "ignorePaths" -> {Resolved(repo, Normalized(e)) : e \in Value(file, key)}
       [] key = "focusFiles" -> {Normalized(e) : e \in Value(file, key)}
       [] OTHER -> Value(file, key)]

(* _validate_config, on the final values. *)
IsValid(config) ==
  /\ config.mode \in Modes
  /\ config.maxFileBytes >= 0 /\ config.maxTotal >= 0 /\ config.maxPerEntrypoint >= 0
  /\ ~config.llm /\ ~config.semgrep
  /\ config.detectors \subseteq Patterns

(* The option, if the command line has it. *)
Or(option, value) == IF option = None THEN value ELSE option

(* _resolved_config_path: a file named on the command line replaces the    *)
(* repository's own; Malformed is one that is no local YAML mapping.       *)
ChosenFile(own, options) ==
  IF options.config # None THEN options.config
  ELSE IF own # None THEN own
  ELSE <<>>

(* Slip: the limit of a file wins over the command line. *)
ConfigurationOfFileFirst(repo, own, options) ==
  LET file == ChosenFile(own, options)
      config == IF "maxFileBytes" \in DOMAIN file \/ options.maxFileBytes = None
                  THEN Applied(repo, file)
                  ELSE [Applied(repo, file) EXCEPT !.maxFileBytes = options.maxFileBytes]
  IN  IF file # Malformed /\ WellFormed(file) /\ IsValid(config) THEN config ELSE None

(* load_audit_config: the configuration, or None if it is refused.         *)
ConfigurationOf(repo, own, options) ==
  LET file == ChosenFile(own, options)
      config == [Applied(repo, file) EXCEPT
                   !.maxFileBytes = Or(options.maxFileBytes, @),
                   !.mode = Or(options.mode, @)]
  IN  IF file # Malformed /\ WellFormed(file) /\ IsValid(config) THEN config ELSE None
================================================================================
