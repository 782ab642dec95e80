------------------------------ MODULE Workbench ------------------------------
(***************************************************************************)
(* The three commands of the command line (audit, reason, patch-diff) over *)
(* one shared artefact directory.                                          *)
(*                                                                         *)
(* An audit reads the repository once per stage (index, three detectors,   *)
(* static flow) while somebody may be editing it, then writes six files    *)
(* one after the other; reason and patch-diff read audit_result.json and   *)
(* write two files each.  Every file is written in place: write_text       *)
(* truncates the file and fills it, so between the two anything may        *)
(* happen - a reader, a second command on the same directory, a kill.      *)
(***************************************************************************)
EXTENDS Naturals, Sequences

CONSTANTS
  Auditors,   \* processes that run `audit` on the directory
  Reasoners,  \* processes that run `reason`
  Patchers,   \* processes that run `patch-diff`
  MaxRuns,    \* bound: commands started in a behaviour
  MaxEdits,   \* bound: edits of the audited repository
  MaxFaults   \* bound: kills, I/O errors and exceptions

ASSUME WorkbenchAssumption ==
  /\ Auditors \cap Reasoners = {}
  /\ Auditors \cap Patchers = {}
  /\ Reasoners \cap Patchers = {}
  /\ MaxRuns \in Nat /\ MaxEdits \in Nat /\ MaxFaults \in Nat

Processes == Auditors \cup Reasoners \cup Patchers

(* The stages of run_audit that read the repository, in order. *)
Stages == <<"index", "entrypoints", "consumers", "workers", "static_flow">>

(* What each command writes, in the order of its write_text calls. *)
AuditOutputs  == <<"json", "markdown", "graph", "html", "sarif", "review_queue">>
ReasonOutputs == <<"reason_json", "reason_markdown">>
PatchOutputs  == <<"patch_json", "patch_markdown">>

Outputs(p) == CASE p \in Auditors  -> AuditOutputs
                [] p \in Reasoners -> ReasonOutputs
                [] p \in Patchers  -> PatchOutputs

Names(outputs) == {outputs[i] : i \in DOMAIN outputs}
Files == Names(AuditOutputs) \cup Names(ReasonOutputs) \cup Names(PatchOutputs)

(* Rendered inside the write call of their own file, after earlier files   *)
(* of the same command were written; the JSON documents are all serialised *)
(* before the first write.                                                 *)
LateRendered == {"markdown", "html", "review_queue", "reason_markdown", "patch_markdown"}

Absent == [state |-> "absent", run |-> 0, text |-> <<>>]
Empty  == [state |-> "empty",  run |-> 0, text |-> <<>>]  \* truncated, not filled since
Torn   == [state |-> "torn",   run |-> 0, text |-> <<>>]  \* part of a text, or of two
Complete(r, t) == [state |-> "whole", run |-> r, text |-> t]

VARIABLES
  rev,      \* revision of the audited repository
  file,     \* file[n]: what the artefact n holds
  pc,       \* pc[p]: "idle", "scan", "load", "write"
  text,     \* text[p]: for an audit the revisions its stages have read; for
            \* reason and patch-diff the audit text they were derived from
  at,       \* at[p]: position of the output p writes next
  open,     \* open[p]: p holds that output open, truncated
  run,      \* run[p]: number of p's current or last run
  exit,     \* exit[p]: how that run ended
  runs,     \* commands started so far
  faults,   \* faults so far
  overlap,  \* history: two processes of one command were once active at the same time
  beside    \* history: the processes beside whose last run a rival was active

history == <<overlap, beside>>
vars == <<rev, file, pc, text, at, open, run, exit, runs, faults, history>>
control == <<pc, text, at, open, run, exit>>

Whole(n) == file[n].state = "whole"
Active(p) == pc[p] # "idle"

(* Who writes what p reads or writes. *)
Peers(p) == {q \in Processes \ {p} : Outputs(q) = Outputs(p)}
Rivals(p) == Peers(p) \cup (Auditors \ {p})

------------------------------------------------------------------------------
Init ==
  /\ rev = 0
  /\ file = [n \in Files |-> Absent]
  /\ pc = [p \in Processes |-> "idle"]
  /\ text = [p \in Processes |-> <<>>]
  /\ at = [p \in Processes |-> 1]
  /\ open = [p \in Processes |-> FALSE]
  /\ run = [p \in Processes |-> 0]
  /\ exit = [p \in Processes |-> "none"]
  /\ runs = 0 /\ faults = 0
  /\ overlap = FALSE /\ beside = {}

(* Somebody commits, saves or deletes a file of the audited repository. *)
Edit ==
  /\ rev < MaxEdits
  /\ rev' = rev + 1
  /\ UNCHANGED <<file, control, runs, faults, history>>

Remember(p) ==
  /\ overlap' = (overlap \/ \E q \in Peers(p) : Active(q))
  /\ beside' = (beside \ {p}) \cup {q \in Processes : Active(q) /\ p \in Rivals(q)}
                \cup {q \in {p} : \E r \in Rivals(p) : Active(r)}

(* Slip: the position in the outputs is left where the last run stopped. *)
StartWhereStopped(p) ==
  /\ ~Active(p) /\ runs < MaxRuns
  /\ runs' = runs + 1
  /\ run' = [run EXCEPT ![p] = runs + 1]
  /\ pc' = [pc EXCEPT ![p] = IF p \in Auditors THEN "scan" ELSE "load"]
  /\ text' = [text EXCEPT ![p] = <<>>]
  /\ exit' = [exit EXCEPT ![p] = "none"]
  /\ Remember(p)
  /\ UNCHANGED <<rev, file, at, open, faults>>

(* The operator starts a command. *)
Start(p) ==
  /\ ~Active(p) /\ runs < MaxRuns
  /\ runs' = runs + 1
  /\ run' = [run EXCEPT ![p] = runs + 1]
  /\ pc' = [pc EXCEPT ![p] = IF p \in Auditors THEN "scan" ELSE "load"]
  /\ text' = [text EXCEPT ![p] = <<>>]
  /\ at' = [at EXCEPT ![p] = 1]
  /\ exit' = [exit EXCEPT ![p] = "none"]
  /\ Remember(p)
  /\ UNCHANGED <<rev, file, open, faults>>

(* One stage of run_audit reads the repository as it is now. *)
Scan(p) ==
  /\ pc[p] = "scan"
  /\ text' = [text EXCEPT ![p] = Append(@, rev)]
  /\ pc' = [pc EXCEPT ![p] = IF Len(text'[p]) = Len(Stages) THEN "write" ELSE "scan"]
  /\ UNCHANGED <<rev, file, at, open, run, exit, runs, faults, history>>

(* Slip: what is there is taken, whole or not. *)
AcceptedIfPresent(content) == content.state # "absent"

(* reason and patch-diff read audit_result.json and validate it; what is   *)
(* absent, truncated or mixed is refused with an error.                    *)
Accepted(content) == content.state = "whole"

(* Slip: what cannot be read counts as an audit without findings. *)
LoadOrNothing(p) ==
  /\ pc[p] = "load"
  /\ text' = [text EXCEPT ![p] = IF Accepted(file["json"]) THEN file["json"].text ELSE <<>>]
  /\ pc' = [pc EXCEPT ![p] = "write"]
  /\ UNCHANGED <<rev, file, at, open, run, exit, runs, faults, history>>

(* Slip: the command polls for an audit it can read. *)
LoadWhenReadable(p) ==
  /\ pc[p] = "load" /\ Accepted(file["json"])
  /\ text' = [text EXCEPT ![p] = file["json"].text]
  /\ pc' = [pc EXCEPT ![p] = "write"]
  /\ UNCHANGED <<rev, file, at, open, run, exit, runs, faults, history>>

Load(p) ==
  /\ pc[p] = "load"
  /\ IF Accepted(file["json"])
       THEN /\ text' = [text EXCEPT ![p] = file["json"].text]
            /\ pc' = [pc EXCEPT ![p] = "write"]
            /\ UNCHANGED exit
       ELSE /\ pc' = [pc EXCEPT ![p] = "idle"]
            /\ exit' = [exit EXCEPT ![p] = "failed"]
            /\ UNCHANGED text
  /\ UNCHANGED <<rev, file, at, open, run, runs, faults, history>>

(* Slip: the old content is written over, not truncated. *)
WrittenOver(content) == content

(* write_text opens the file for writing: its old content is gone. *)
Truncated(content) == Empty

Open(p) ==
  /\ pc[p] = "write" /\ ~open[p]
  /\ open' = [open EXCEPT ![p] = TRUE]
  /\ file' = [file EXCEPT ![Outputs(p)[at[p]]] = Truncated(@)]
  /\ UNCHANGED <<rev, pc, text, at, run, exit, runs, faults, history>>

(* The text goes to the start of the file, block by block.  If another      *)
(* process filled the file after this one truncated it, blocks or the tail *)
(* of the other text may stay, unless it is the same text.                 *)
Filled(p, content) ==
  LET mine == Complete(run[p], text[p]) IN
  IF content = Empty \/ content.text = text[p] THEN {mine} ELSE {mine, Torn}

(* Slips: success is reported one output too early; the end is missed. *)
AdvanceOneShort(p) ==
  IF at[p] = Len(Outputs(p)) - 1
    THEN /\ pc' = [pc EXCEPT ![p] = "idle"]
         /\ exit' = [exit EXCEPT ![p] = "ok"]
         /\ UNCHANGED at
    ELSE /\ at' = [at EXCEPT ![p] = @ + 1]
         /\ UNCHANGED <<pc, exit>>

AdvanceBeyond(p) ==
  /\ at' = [at EXCEPT ![p] = @ + 1]
  /\ UNCHANGED <<pc, exit>>

Advance(p) ==
  IF at[p] = Len(Outputs(p))
    THEN /\ pc' = [pc EXCEPT ![p] = "idle"]
         /\ exit' = [exit EXCEPT ![p] = "ok"]
         /\ UNCHANGED at
    ELSE /\ at' = [at EXCEPT ![p] = @ + 1]
         /\ UNCHANGED <<pc, exit>>

Fill(p) ==
  /\ pc[p] = "write" /\ open[p]
  /\ LET n == Outputs(p)[at[p]] IN
     \E content \in Filled(p, file[n]) : file' = [file EXCEPT ![n] = content]
  /\ open' = [open EXCEPT ![p] = FALSE]
  /\ Advance(p)
  /\ UNCHANGED <<rev, text, run, runs, faults, history>>

(* The command ends early, with no file of its own open. *)
Quit(p, reason) ==
  /\ faults < MaxFaults /\ faults' = faults + 1
  /\ pc' = [pc EXCEPT ![p] = "idle"]
  /\ exit' = [exit EXCEPT ![p] = reason]
  /\ UNCHANGED <<rev, text, at, run, runs, history>>

(* An exception: a file that was indexed is gone when a detector opens it, *)
(* or a renderer raises before its output is opened.                       *)
Raise(p) ==
  /\ ~open[p]
  /\ \/ /\ pc[p] = "scan"
        /\ Len(text[p]) \in 1 .. 3
        /\ rev # text[p][1]
     \/ /\ pc[p] = "write"
        /\ at[p] = 1 \/ Outputs(p)[at[p]] \in LateRendered
  /\ Quit(p, "failed")
  /\ UNCHANGED <<file, open>>

(* The process is killed, or the write fails half way. *)
Kill(p) ==
  /\ Active(p)
  /\ Quit(p, "killed")
  /\ open' = [open EXCEPT ![p] = FALSE]
  /\ LET n == Outputs(p)[at[p]] IN
     IF open[p] THEN \E left \in {file[n], Torn} : file' = [file EXCEPT ![n] = left]
                ELSE UNCHANGED file

Work(p) == Scan(p) \/ Load(p) \/ Open(p) \/ Fill(p)

Next ==
  \/ Edit
  \/ \E p \in Processes : Start(p) \/ Work(p) \/ Raise(p) \/ Kill(p)

(* A command that was started is scheduled by the operating system; nobody *)
(* promises that a command is started again.                               *)
Spec == Init /\ [][Next]_vars /\ \A p \in Processes : WF_vars(Work(p))
------------------------------------------------------------------------------
Texts == UNION {[1 .. n -> 0 .. MaxEdits] : n \in 0 .. Len(Stages)}
Contents == {Absent, Empty, Torn} \cup
              {Complete(r, t) : r \in 1 .. MaxRuns, t \in [1 .. Len(Stages) -> 0 .. MaxEdits]}

(* The types of the variables (cli.py, core/output.py). *)
TypeOK ==
  /\ rev \in 0 .. MaxEdits /\ runs \in 0 .. MaxRuns /\ faults \in 0 .. MaxFaults
  /\ overlap \in BOOLEAN /\ beside \subseteq Processes
  /\ file \in [Files -> Contents]
  /\ pc \in [Processes -> {"idle", "scan", "load", "write"}]
  /\ text \in [Processes -> Texts]
  /\ at \in [Processes -> Nat \ {0}]
  /\ \A p \in Processes : at[p] <= Len(Outputs(p))
  /\ open \in [Processes -> BOOLEAN]
  /\ run \in [Processes -> 0 .. MaxRuns]
  /\ exit \in [Processes -> {"none", "ok", "failed", "killed"}]

(* Whatever was killed, raised or read half way: as long as a command does *)
(* not run twice at once in one directory, an artefact that comes earlier  *)
(* in its order of writing is never older than a later one.  So if the     *)
(* first and the last artefact come from one run, nothing older is left in *)
(* between.                                                                *)
GenerationsDescend ==
  ~overlap =>
    \A p \in Processes : \A i, j \in DOMAIN Outputs(p) :
      i < j /\ Whole(Outputs(p)[i]) /\ Whole(Outputs(p)[j])
        => file[Outputs(p)[i]].run >= file[Outputs(p)[j]].run

(* No rival was active beside the last run of p, and none has started since. *)
Undisturbed(p) == p \notin beside /\ \A q \in Rivals(p) : run[q] < run[p]

(* A command that reports success has replaced the complete set of its     *)
(* artefacts, whatever torn or older files it found: until a rival starts  *)
(* they are all its own.                                                   *)
SuccessIsComplete ==
  \A p \in Processes :
    exit[p] = "ok" /\ Undisturbed(p)
      => \A n \in Names(Outputs(p)) : file[n] = Complete(run[p], text[p])

(* Nothing in a derived result tells which audit it is about, so what the  *)
(* operator may rely on is the order of the commands: if reason or         *)
(* patch-diff succeeds and no audit ran beside it or after it, there is a  *)
(* whole audit result and the derived files are about that one.            *)
DerivedIsCurrent ==
  \A p \in Reasoners \cup Patchers :
    exit[p] = "ok" /\ Undisturbed(p)
      => /\ Whole("json")
         /\ \A n \in Names(Outputs(p)) : Whole(n) /\ file[n].text = file["json"].text

(* Audits without a lock are harmless if they saw the same repository: the *)
(* pipeline is deterministic, so when all of them have succeeded every     *)
(* artefact holds that one text in full, however their writes interleaved. *)
IdenticalAuditsConverge ==
  \A t \in {text[p] : p \in Auditors} :
    (\A p \in Auditors : exit[p] = "ok" /\ text[p] = t)
      => \A n \in Names(AuditOutputs) : Whole(n) /\ file[n].text = t

(* reason and patch-diff never publish a result about a torn audit: every  *)
(* derived file holds the text of one audit run that read all its stages,  *)
(* in their order, from a repository that never went back.                 *)
DerivedFromOneAudit ==
  \A n \in Names(ReasonOutputs) \cup Names(PatchOutputs) :
    Whole(n) => /\ Len(file[n].text) = Len(Stages)
                /\ \A s, t \in DOMAIN file[n].text : s < t => file[n].text[s] <= file[n].text[t]

(* Every command that was started ends: with success, with an error, or    *)
(* killed; none waits for an artefact another command would have to write. *)
EveryCommandEnds == \A p \in Processes : Active(p) ~> ~Active(p)
==============================================================================
