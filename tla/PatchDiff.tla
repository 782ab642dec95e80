------------------------------- MODULE PatchDiff -------------------------------
(***************************************************************************)
(* The patch-diff command of cli.py, for a diff from a file as for one that*)
(* it has git make: the diff is parsed, and the files and hunks found are  *)
(* linked to the evidence of the audit.  A refused diff ends the command.  *)
(***************************************************************************)
EXTENDS PatchParser, PatchCorrelation

CONSTANT AuditsOf(_)  \* the audits to consider with a diff

ASSUME AuditsAssumption == \A one \in Diffs : \A a \in AuditsOf(one) : IsAudit(a)

vars == <<parserVars, correlationVars>>

(* PatchHunk and PatchChangedFile, as far as engine.py reads them. *)
AsHunk(record) ==
  [start |-> record.new, count |-> record.newCount, added |-> Elements(record.added)]

AsFile(record) ==
  [paths |-> {record.old, record.new} \ {NoPath},
   hunks |-> [j \in DOMAIN record.hunks |-> AsHunk(record.hunks[j])]]

AsPatch(list) == [i \in DOMAIN list |-> AsFile(list[i])]

Init ==
  /\ ParserInit
  /\ audit \in AuditsOf(diff) /\ patch = <<>> /\ AtStart

(* parse_unified_diff, whose result build_patch_diff_result is given. *)
Parse ==
  /\ ParserNext
  /\ patch' = IF parsing' = "done" THEN AsPatch(parsed) ELSE patch
  /\ UNCHANGED <<audit, stage>>

(* build_patch_diff_result *)
Correlate == parsing = "done" /\ CorrelationNext /\ UNCHANGED parserVars

Next == Parse \/ Correlate

Spec == Init /\ [][Next]_vars
================================================================================
