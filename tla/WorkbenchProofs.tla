---------------------------- MODULE WorkbenchProofs ----------------------------
(***************************************************************************)
(* For any number of processes of each command, any number of commands,    *)
(* edits and faults: what module Workbench says of the artefacts.          *)
(*                                                                         *)
(* The inductive invariant says where every active command is, which files *)
(* it has passed, and what the files it passed hold.                       *)
(***************************************************************************)
EXTENDS Workbench, SequenceTheorems, TLAPS

FullTexts == [1 .. Len(Stages) -> 0 .. MaxEdits]

(* The revisions of a text never go back, and none comes after r. *)
Grown(t, r) == /\ \A s, u \in DOMAIN t : s < u => t[s] <= t[u]
               /\ \A s \in DOMAIN t : t[s] <= r

CommandOK(p) ==
  /\ run[p] <= runs
  /\ Active(p) => run[p] >= 1
  /\ pc[p] = "scan" => p \in Auditors /\ Len(text[p]) < Len(Stages)
  /\ pc[p] = "load" => p \notin Auditors
  /\ pc[p] \in {"scan", "load"} => at[p] = 1
  /\ pc[p] = "write" \/ exit[p] = "ok" => text[p] \in FullTexts
  /\ open[p] => pc[p] = "write"
  /\ exit[p] = "ok" => ~Active(p)
  /\ Grown(text[p], rev)

CommandsOK == \A p \in Processes : CommandOK(p)

FilesOK == \A n \in Files : Whole(n) => file[n].run <= runs /\ Grown(file[n].text, rev)

(* What the history variables know of the present. *)
OneAtATime ==
  ~overlap => \A p \in Processes : \A q \in Peers(p) : ~(Active(p) /\ Active(q))

Alone == \A p \in Processes : Undisturbed(p) => \A q \in Rivals(p) : ~Active(q)

(* p has filled its i-th output and gone on. *)
Passed(p, i) == exit[p] = "ok" \/ (pc[p] = "write" /\ i < at[p])

(* The outputs before the position of an active command are its own, those *)
(* from there on are older.                                                *)
Generations ==
  ~overlap =>
    \A p \in Processes : Active(p) =>
      \A i \in DOMAIN Outputs(p) : Whole(Outputs(p)[i]) =>
        /\ i < at[p] => file[Outputs(p)[i]].run = run[p]
        /\ i >= at[p] => file[Outputs(p)[i]].run < run[p]

(* Whoever is undisturbed finds what it wrote, and the input it read. *)
OwnFiles ==
  \A p \in Processes : Undisturbed(p) =>
    \A i \in DOMAIN Outputs(p) :
      /\ Passed(p, i) => file[Outputs(p)[i]] = Complete(run[p], text[p])
      /\ open[p] /\ i = at[p] => file[Outputs(p)[i]] = Empty

OwnSource ==
  \A p \in Reasoners \cup Patchers :
    Undisturbed(p) /\ (pc[p] = "write" \/ exit[p] = "ok")
      => Whole("json") /\ text[p] = file["json"].text

(* p, with the text t, has truncated its i-th output or is beyond it. *)
Reopened(p, i, t) ==
  /\ text[p] = t
  /\ Passed(p, i) \/ (open[p] /\ i = at[p])

(* Another text in a file was put there by an audit that will come back to *)
(* it, or has to start again; and so was a truncated one.                  *)
Converging ==
  Auditors # {} =>
    \A t \in FullTexts, i \in DOMAIN AuditOutputs :
      LET content == file[AuditOutputs[i]] IN
      /\ (\A p \in Auditors : Reopened(p, i, t))
           => content = Empty \/ (content.state = "whole" /\ content.text = t)
      /\ content = Empty => \E p \in Auditors : ~(text[p] = t /\ Passed(p, i))

IInv ==
  /\ TypeOK /\ CommandsOK /\ FilesOK
  /\ OneAtATime /\ Alone
  /\ GenerationsDescend /\ Generations
  /\ OwnFiles /\ OwnSource
  /\ Converging
-------------------------------------------------------------------------------
(* The three lists of outputs: what they name, and that they share nothing. *)
LEMMA OutputsOfCommand ==
  ASSUME NEW p \in Processes
  PROVE  /\ p \in Auditors => Outputs(p) = AuditOutputs
         /\ p \in Reasoners => Outputs(p) = ReasonOutputs
         /\ p \in Patchers => Outputs(p) = PatchOutputs
<1> QED
  BY WorkbenchAssumption DEF Outputs, Processes

LEMMA OutputLists ==
  /\ Len(AuditOutputs) = 6 /\ DOMAIN AuditOutputs = 1 .. 6
  /\ Len(ReasonOutputs) = 2 /\ DOMAIN ReasonOutputs = 1 .. 2
  /\ Len(PatchOutputs) = 2 /\ DOMAIN PatchOutputs = 1 .. 2
  /\ \A i \in DOMAIN AuditOutputs : AuditOutputs[i] \in Names(AuditOutputs)
  /\ \A i \in DOMAIN ReasonOutputs : ReasonOutputs[i] \in Names(ReasonOutputs)
  /\ \A i \in DOMAIN PatchOutputs : PatchOutputs[i] \in Names(PatchOutputs)
  /\ \A i, j \in DOMAIN AuditOutputs : AuditOutputs[i] = AuditOutputs[j] => i = j
  /\ \A i, j \in DOMAIN ReasonOutputs : ReasonOutputs[i] = ReasonOutputs[j] => i = j
  /\ \A i, j \in DOMAIN PatchOutputs : PatchOutputs[i] = PatchOutputs[j] => i = j
  /\ Names(AuditOutputs) \cap Names(ReasonOutputs) = {}
  /\ Names(AuditOutputs) \cap Names(PatchOutputs) = {}
  /\ Names(ReasonOutputs) \cap Names(PatchOutputs) = {}
  /\ "json" \in Names(AuditOutputs)
<1> QED
  BY DEF AuditOutputs, ReasonOutputs, PatchOutputs, Names

LEMMA OutputFacts ==
  ASSUME NEW p \in Processes
  PROVE  /\ Len(Outputs(p)) \in Nat \ {0}
         /\ DOMAIN Outputs(p) = 1 .. Len(Outputs(p))
         /\ \A i \in DOMAIN Outputs(p) : Outputs(p)[i] \in Files
         /\ \A i \in DOMAIN Outputs(p) : Outputs(p)[i] \in Names(Outputs(p))
         /\ \A i, j \in DOMAIN Outputs(p) : Outputs(p)[i] = Outputs(p)[j] => i = j
<1>1. Outputs(p) \in {AuditOutputs, ReasonOutputs, PatchOutputs}
  BY OutputsOfCommand DEF Processes
<1>2. Names(AuditOutputs) \subseteq Files /\ Names(ReasonOutputs) \subseteq Files
      /\ Names(PatchOutputs) \subseteq Files
  BY DEF Files
<1> QED
  BY <1>1, <1>2, OutputLists

(* Two commands of different kinds write different files, and only audits  *)
(* write the result that the others read.                                  *)
LEMMA OutputsApart ==
  ASSUME NEW p \in Processes, NEW q \in Processes,
         NEW i \in DOMAIN Outputs(p), NEW j \in DOMAIN Outputs(q),
         Outputs(p) # Outputs(q)
  PROVE  Outputs(p)[i] # Outputs(q)[j]
<1>1. /\ Outputs(p) \in {AuditOutputs, ReasonOutputs, PatchOutputs}
      /\ Outputs(q) \in {AuditOutputs, ReasonOutputs, PatchOutputs}
  BY OutputsOfCommand DEF Processes
<1>2. Outputs(p)[i] \in Names(Outputs(p)) /\ Outputs(q)[j] \in Names(Outputs(q))
  BY OutputFacts
<1> QED
  BY <1>1, <1>2, OutputLists

LEMMA OnlyAuditsWriteJson ==
  ASSUME NEW q \in Processes, q \notin Auditors, NEW j \in DOMAIN Outputs(q)
  PROVE  Outputs(q)[j] # "json"
<1>1. Outputs(q) \in {ReasonOutputs, PatchOutputs}
  BY OutputsOfCommand DEF Processes
<1>2. Outputs(q)[j] \in Names(Outputs(q))
  BY OutputFacts
<1> QED
  BY <1>1, <1>2, OutputLists

LEMMA StagesLength == Len(Stages) = 5
<1> QED
  BY DEF Stages

(* What a stage adds to a text. *)
LEMMA TextGrows ==
  ASSUME NEW t \in Texts, NEW r \in 0 .. MaxEdits
  PROVE  /\ Len(t) \in 0 .. Len(Stages) /\ DOMAIN t = 1 .. Len(t)
         /\ \A s \in DOMAIN t : t[s] \in 0 .. MaxEdits
         /\ Len(Append(t, r)) = Len(t) + 1
         /\ Append(t, r) \in [1 .. Len(t) + 1 -> 0 .. MaxEdits]
         /\ \A s \in 1 .. Len(t) : Append(t, r)[s] = t[s]
         /\ Append(t, r)[Len(t) + 1] = r
         /\ Len(t) = Len(Stages) => t \in FullTexts
<1>1. PICK n \in 0 .. Len(Stages) : t \in [1 .. n -> 0 .. MaxEdits]
  BY DEF Texts
<1>2. n \in Nat
  BY <1>1, StagesLength
<1>3. t \in Seq(0 .. MaxEdits) /\ Len(t) = n
  <2>1. t \in Seq(0 .. MaxEdits)
    BY <1>1, <1>2, SeqDef
  <2>2. DOMAIN t = 1 .. n /\ DOMAIN t = 1 .. Len(t) /\ Len(t) \in Nat
    BY <1>1, <2>1, LenProperties
  <2> QED
    BY <1>2, <2>1, <2>2
<1>4. /\ Append(t, r) \in Seq(0 .. MaxEdits) /\ Len(Append(t, r)) = n + 1
      /\ \A s \in 1 .. n : Append(t, r)[s] = t[s]
      /\ Append(t, r)[n + 1] = r
  BY <1>2, <1>3
<1>5. Append(t, r) \in [1 .. n + 1 -> 0 .. MaxEdits]
  BY <1>4, LenProperties
<1> QED
  BY <1>1, <1>2, <1>3, <1>4, <1>5 DEF FullTexts

LEMMA FullTextFacts ==
  ASSUME NEW t \in FullTexts
  PROVE  t \in Texts /\ Len(t) = Len(Stages) /\ DOMAIN t = 1 .. Len(Stages)
<1> QED
  BY StagesLength DEF FullTexts, Texts

LEMMA ContentFacts ==
  /\ Absent \in Contents /\ Empty \in Contents /\ Torn \in Contents
  /\ \A r \in 1 .. MaxRuns : \A t \in FullTexts : Complete(r, t) \in Contents
  /\ \A c \in Contents : c.state = "whole" =>
       c.run \in 1 .. MaxRuns /\ c.text \in FullTexts /\ c = Complete(c.run, c.text)
  /\ \A r, t : Complete(r, t).state = "whole" /\ Complete(r, t).run = r /\ Complete(r, t).text = t
  /\ Absent.state # "whole" /\ Empty.state # "whole" /\ Torn.state # "whole"
  /\ Torn # Empty /\ Absent # Empty
  /\ \A c \in Contents : c \in {Absent, Empty, Torn} \/ c.state = "whole"
  /\ Torn.text = <<>> /\ Absent.text = <<>>
<1>1. Contents = {Absent, Empty, Torn} \cup {Complete(r, t) : r \in 1 .. MaxRuns, t \in FullTexts}
  BY DEF Contents, FullTexts
<1>2. \A r, t : Complete(r, t).state = "whole" /\ Complete(r, t).run = r /\ Complete(r, t).text = t
  BY DEF Complete
<1>3. Absent.state = "absent" /\ Empty.state = "empty" /\ Torn.state = "torn"
  BY DEF Absent, Empty, Torn
<1>4. Torn.text = <<>> /\ Absent.text = <<>>
  BY DEF Absent, Torn
<1>5. \A c \in Contents : c.state = "whole" =>
       c.run \in 1 .. MaxRuns /\ c.text \in FullTexts /\ c = Complete(c.run, c.text)
  <2> SUFFICES ASSUME NEW c \in Contents, c.state = "whole"
               PROVE  c.run \in 1 .. MaxRuns /\ c.text \in FullTexts /\ c = Complete(c.run, c.text)
    OBVIOUS
  <2>1. PICK r \in 1 .. MaxRuns, t \in FullTexts : c = Complete(r, t)
    BY <1>1, <1>3
  <2> QED
    BY <1>2, <2>1
<1> QED
  BY <1>1, <1>2, <1>3, <1>4, <1>5
-------------------------------------------------------------------------------
(* The steps of one command, each with what it leaves alone. *)
LEMMA NextCases ==
  ASSUME [Next]_vars
  PROVE  \/ UNCHANGED vars
         \/ Edit
         \/ \E p \in Processes : \/ Start(p) \/ Scan(p) \/ Load(p) \/ Open(p) \/ Fill(p)
                                 \/ Raise(p) \/ Kill(p)
<1> QED
  BY DEF Next, Work

(* The output a command comes to next is one of its own. *)
LEMMA Position ==
  ASSUME TypeOK, NEW p \in Processes
  PROVE  at[p] \in DOMAIN Outputs(p) /\ Outputs(p)[at[p]] \in Files
<1>1. at[p] \in Nat \ {0} /\ at[p] <= Len(Outputs(p))
  BY DEF TypeOK
<1> QED
  BY <1>1, OutputFacts

LEMMA FilledFacts ==
  ASSUME TypeOK, CommandsOK, NEW p \in Processes, pc[p] = "write",
         NEW n \in Files, NEW content \in Filled(p, file[n])
  PROVE  /\ content \in Contents
         /\ content = Complete(run[p], text[p])
              \/ (content = Torn /\ file[n] # Empty /\ file[n].text # text[p])
<1>1. run[p] \in 1 .. MaxRuns /\ text[p] \in FullTexts
  BY DEF TypeOK, CommandsOK, CommandOK, Active
<1> QED
  BY <1>1, ContentFacts DEF Filled

(* Advance goes to the next output, or ends the command after the last.    *)
LEMMA AdvanceFacts ==
  ASSUME TypeOK, NEW p \in Processes, Advance(p)
  PROVE  \/ /\ at[p] = Len(Outputs(p))
            /\ pc' = [pc EXCEPT ![p] = "idle"]
            /\ exit' = [exit EXCEPT ![p] = "ok"]
            /\ at' = at
         \/ /\ at[p] < Len(Outputs(p))
            /\ at' = [at EXCEPT ![p] = at[p] + 1]
            /\ pc' = pc /\ exit' = exit
<1>1. at[p] \in Nat \ {0} /\ at[p] <= Len(Outputs(p)) /\ Len(Outputs(p)) \in Nat
  BY OutputFacts DEF TypeOK
<1> QED
  BY <1>1 DEF Advance

(* What the steps that write do to the files. *)
LEMMA FillEffect ==
  ASSUME TypeOK, CommandsOK, NEW p \in Processes, Fill(p)
  PROVE  \E content \in Contents :
           /\ file' = [file EXCEPT ![Outputs(p)[at[p]]] = content]
           /\ \/ content = Complete(run[p], text[p])
              \/ /\ content = Torn
                 /\ file[Outputs(p)[at[p]]] # Empty
                 /\ file[Outputs(p)[at[p]]].text # text[p]
<1> QED
  BY Position, FilledFacts DEF Fill

LEMMA KillEffect ==
  ASSUME TypeOK, NEW p \in Processes, Kill(p)
  PROVE  \/ file' = file
         \/ open[p] /\ file' = [file EXCEPT ![Outputs(p)[at[p]]] = Torn]
<1>1. CASE open[p]
  <2>1. PICK left \in {file[Outputs(p)[at[p]]], Torn} :
          file' = [file EXCEPT ![Outputs(p)[at[p]]] = left]
    BY <1>1 DEF Kill
  <2> QED
    BY <1>1, <2>1 DEF TypeOK
<1>2. CASE ~open[p]
  BY <1>2 DEF Kill
<1> QED
  BY <1>1, <1>2

LEMMA TypeStep ==
  ASSUME TypeOK, CommandsOK, [Next]_vars
  PROVE  TypeOK'
<1>1. CASE UNCHANGED vars
  BY <1>1 DEF TypeOK, vars, history
<1>2. CASE Edit
  <2>1. rev' \in 0 .. MaxEdits
    BY <1>2, WorkbenchAssumption DEF TypeOK, Edit
  <2> QED
    BY <1>2, <2>1 DEF TypeOK, Edit, control, history
<1>3. ASSUME NEW p \in Processes, Start(p) PROVE TypeOK'
  <2>1. /\ runs' \in 0 .. MaxRuns
        /\ run' \in [Processes -> 0 .. MaxRuns]
        /\ at' \in [Processes -> Nat \ {0}]
        /\ \A q \in Processes : at'[q] <= Len(Outputs(q))
    BY <1>3, WorkbenchAssumption, OutputFacts DEF TypeOK, Start
  <2>2. <<>> \in Texts
    BY StagesLength DEF Texts
  <2>3. /\ text' \in [Processes -> Texts]
        /\ pc' \in [Processes -> {"idle", "scan", "load", "write"}]
        /\ exit' \in [Processes -> {"none", "ok", "failed", "killed"}]
    BY <1>3, <2>2 DEF TypeOK, Start
  <2>4. overlap' \in BOOLEAN /\ beside' \subseteq Processes
    BY <1>3 DEF TypeOK, Start, Remember
  <2> QED
    BY <1>3, <2>1, <2>3, <2>4 DEF TypeOK, Start
<1>4. ASSUME NEW p \in Processes, Scan(p) PROVE TypeOK'
  <2>1. text[p] \in Texts /\ rev \in 0 .. MaxEdits /\ Len(text[p]) < Len(Stages)
    BY <1>4 DEF TypeOK, CommandsOK, CommandOK, Scan
  <2>2. Append(text[p], rev) \in Texts
    <3>1. /\ Append(text[p], rev) \in [1 .. Len(text[p]) + 1 -> 0 .. MaxEdits]
          /\ Len(text[p]) + 1 \in 0 .. Len(Stages)
      BY <2>1, TextGrows, StagesLength
    <3> QED
      BY <3>1 DEF Texts
  <2>3. text' \in [Processes -> Texts]
    BY <1>4, <2>2 DEF TypeOK, Scan
  <2>4. pc' \in [Processes -> {"idle", "scan", "load", "write"}]
    BY <1>4 DEF TypeOK, Scan
  <2> QED
    BY <1>4, <2>3, <2>4 DEF TypeOK, Scan, history
<1>5. ASSUME NEW p \in Processes, Load(p) PROVE TypeOK'
  <2>1. Accepted(file["json"]) => file["json"].text \in Texts
    BY ContentFacts, FullTextFacts, OutputLists DEF TypeOK, Accepted, Files
  <2>2. /\ text' \in [Processes -> Texts]
        /\ pc' \in [Processes -> {"idle", "scan", "load", "write"}]
        /\ exit' \in [Processes -> {"none", "ok", "failed", "killed"}]
    BY <1>5, <2>1 DEF TypeOK, Load
  <2> QED
    BY <1>5, <2>2 DEF TypeOK, Load, history
<1>6. ASSUME NEW p \in Processes, Open(p) PROVE TypeOK'
  <2>1. file' \in [Files -> Contents] /\ open' \in [Processes -> BOOLEAN]
    BY <1>6, ContentFacts DEF TypeOK, Open, Truncated
  <2> QED
    BY <1>6, <2>1 DEF TypeOK, Open, history
<1>7. ASSUME NEW p \in Processes, Fill(p) PROVE TypeOK'
  <2>1. file' \in [Files -> Contents] /\ open' \in [Processes -> BOOLEAN]
    BY <1>7, FillEffect DEF TypeOK, Fill
  <2>2. /\ pc' \in [Processes -> {"idle", "scan", "load", "write"}]
        /\ exit' \in [Processes -> {"none", "ok", "failed", "killed"}]
    BY <1>7, AdvanceFacts DEF TypeOK, Fill
  <2>3. /\ at' \in [Processes -> Nat \ {0}]
        /\ \A q \in Processes : at'[q] <= Len(Outputs(q))
    <3>1. \A q \in Processes : Len(Outputs(q)) \in Nat \ {0}
      BY OutputFacts
    <3>2. \/ at' = at
          \/ at[p] < Len(Outputs(p)) /\ at' = [at EXCEPT ![p] = at[p] + 1]
      BY <1>7, AdvanceFacts DEF Fill
    <3>3. at \in [Processes -> Nat \ {0}] /\ at[p] + 1 \in Nat \ {0}
      BY DEF TypeOK
    <3>4. at' \in [Processes -> Nat \ {0}]
      BY <3>2, <3>3
    <3>5. ASSUME NEW q \in Processes PROVE at'[q] <= Len(Outputs(q))
      <4>1. at[q] <= Len(Outputs(q)) /\ Len(Outputs(q)) \in Nat
        BY <3>1 DEF TypeOK
      <4>2. CASE q = p /\ at'[q] = at[q] + 1 /\ at[q] < Len(Outputs(q))
        BY <4>1, <4>2, <3>3
      <4>3. CASE at'[q] = at[q]
        BY <4>1, <4>3
      <4> QED
        BY <3>2, <3>3, <4>2, <4>3
    <3> QED
      BY <3>4, <3>5
  <2> QED
    BY <1>7, <2>1, <2>2, <2>3 DEF TypeOK, Fill, history
<1>8. ASSUME NEW p \in Processes, Raise(p) PROVE TypeOK'
  <2>1. /\ faults' \in 0 .. MaxFaults
        /\ pc' \in [Processes -> {"idle", "scan", "load", "write"}]
        /\ exit' \in [Processes -> {"none", "ok", "failed", "killed"}]
    BY <1>8, WorkbenchAssumption DEF TypeOK, Raise, Quit
  <2> QED
    BY <1>8, <2>1 DEF TypeOK, Raise, Quit, history
<1>9. ASSUME NEW p \in Processes, Kill(p) PROVE TypeOK'
  <2>1. /\ faults' \in 0 .. MaxFaults
        /\ pc' \in [Processes -> {"idle", "scan", "load", "write"}]
        /\ exit' \in [Processes -> {"none", "ok", "failed", "killed"}]
    BY <1>9, WorkbenchAssumption DEF TypeOK, Kill, Quit
  <2>2. file' \in [Files -> Contents]
    BY <1>9, ContentFacts, KillEffect DEF TypeOK
  <2>3. open' \in [Processes -> BOOLEAN]
    BY <1>9 DEF TypeOK, Kill
  <2> QED
    BY <1>9, <2>1, <2>2, <2>3 DEF TypeOK, Kill, Quit, history
<1> QED
  BY <1>1, <1>2, <1>3, <1>4, <1>5, <1>6, <1>7, <1>8, <1>9, NextCases
-------------------------------------------------------------------------------
Acts(p) == \/ Start(p) \/ Scan(p) \/ Load(p) \/ Open(p) \/ Fill(p) \/ Raise(p) \/ Kill(p)

Same(q) == /\ pc'[q] = pc[q] /\ text'[q] = text[q] /\ at'[q] = at[q]
           /\ open'[q] = open[q] /\ run'[q] = run[q] /\ exit'[q] = exit[q]

(* A step of one command leaves the others where they are. *)
LEMMA OthersWait ==
  ASSUME TypeOK, NEW p \in Processes, Acts(p), NEW q \in Processes, q # p
  PROVE  Same(q)
<1>1. CASE Start(p)
  BY <1>1 DEF TypeOK, Same, Start
<1>2. CASE Scan(p)
  BY <1>2 DEF TypeOK, Same, Scan
<1>3. CASE Load(p)
  BY <1>3 DEF TypeOK, Same, Load
<1>4. CASE Open(p)
  BY <1>4 DEF TypeOK, Same, Open
<1>5. CASE Fill(p)
  BY <1>5, AdvanceFacts DEF TypeOK, Same, Fill
<1>6. CASE Raise(p)
  BY <1>6 DEF TypeOK, Same, Raise, Quit
<1>7. CASE Kill(p)
  BY <1>7 DEF TypeOK, Same, Kill, Quit
<1> QED
  BY <1>1, <1>2, <1>3, <1>4, <1>5, <1>6, <1>7 DEF Acts

(* Only Start counts commands, and no command edits the repository. *)
LEMMA CountersGrow ==
  ASSUME TypeOK, NEW p \in Processes, Acts(p)
  PROVE  runs <= runs' /\ rev' = rev
<1>1. runs \in Nat
  BY WorkbenchAssumption DEF TypeOK
<1> QED
  BY <1>1 DEF Acts, Start, Scan, Load, Open, Fill, Raise, Kill, Quit

LEMMA GrownAppend ==
  ASSUME NEW t \in Texts, NEW r \in 0 .. MaxEdits, Grown(t, r)
  PROVE  Grown(Append(t, r), r)
<1> DEFINE n == Len(t)
           a == Append(t, r)
<1>1. /\ n \in Nat /\ DOMAIN t = 1 .. n /\ DOMAIN a = 1 .. n + 1
      /\ \A s \in 1 .. n : a[s] = t[s] /\ t[s] \in 0 .. MaxEdits
      /\ a[n + 1] = r
  BY TextGrows, StagesLength
<1>2. /\ \A s, u \in 1 .. n : s < u => t[s] <= t[u]
      /\ \A s \in 1 .. n : t[s] <= r
  BY <1>1 DEF Grown
<1> HIDE DEF n, a
<1>3. r <= r
  BY WorkbenchAssumption
<1>4. /\ \A s \in 1 .. n + 1 : s \in 1 .. n \/ s = n + 1
      /\ \A s \in 1 .. n + 1 : ~(n + 1 < s)
  BY <1>1
<1>5. \A s, u \in DOMAIN a : s < u => a[s] <= a[u]
  BY <1>1, <1>2, <1>4
<1>6. \A s \in DOMAIN a : a[s] <= r
  BY <1>1, <1>2, <1>3, <1>4
<1>7. Grown(a, r)
  BY <1>5, <1>6 DEF Grown
<1> QED
  BY <1>7 DEF a

LEMMA GrownLater ==
  ASSUME NEW t \in Texts, NEW r \in Nat, NEW u \in Nat, r <= u, Grown(t, r)
  PROVE  Grown(t, u)
<1>1. \A s \in DOMAIN t : t[s] \in Nat
  BY TextGrows, WorkbenchAssumption
<1> QED
  BY <1>1 DEF Grown

LEMMA CommandsStep ==
  ASSUME TypeOK, CommandsOK, FilesOK, [Next]_vars
  PROVE  CommandsOK'
<1> USE DEF CommandsOK
<1>0. runs \in Nat /\ rev \in Nat /\ rev \in 0 .. MaxEdits
  BY WorkbenchAssumption DEF TypeOK
<1>1. CASE UNCHANGED vars
  BY <1>1 DEF CommandOK, vars, history, Active
<1>2. CASE Edit
  <2> SUFFICES ASSUME NEW p \in Processes PROVE CommandOK(p)'
    OBVIOUS
  <2>1. text[p] \in Texts /\ Grown(text[p], rev)
    BY DEF TypeOK, CommandOK
  <2>2. Grown(text[p], rev + 1)
    BY <1>0, <2>1, GrownLater
  <2> QED
    BY <1>2, <2>2 DEF CommandOK, Edit, control, history, Active
<1>3. ASSUME NEW p \in Processes, Acts(p), NEW q \in Processes, q # p
      PROVE  CommandOK(q)'
  <2>1. Same(q) /\ runs <= runs' /\ rev' = rev
    BY <1>3, OthersWait, CountersGrow
  <2>2. run[q] \in Nat /\ runs' \in Nat
    <3>1. TypeOK'
      BY TypeStep
    <3> QED
      BY <3>1, WorkbenchAssumption DEF TypeOK
  <2> QED
    BY <1>0, <2>1, <2>2 DEF CommandOK, Same, Active
<1>4. ASSUME NEW p \in Processes, Acts(p) PROVE CommandOK(p)'
  <2>0. CommandOK(p) /\ run[p] \in Nat
    BY WorkbenchAssumption DEF TypeOK
  <2>1. CASE Start(p)
    <3>1. /\ runs' = runs + 1 /\ run'[p] = runs + 1 /\ text'[p] = <<>> /\ at'[p] = 1
          /\ exit'[p] = "none" /\ open'[p] = open[p]
          /\ pc'[p] = IF p \in Auditors THEN "scan" ELSE "load"
      BY <2>1 DEF TypeOK, Start
    <3>2. ~open[p]
      BY <2>0, <2>1 DEF CommandOK, Start, Active
    <3>3. Grown(<<>>, rev')
      BY DEF Grown
    <3>4. Len(<<>>) = 0
      OBVIOUS
    <3> QED
      BY <1>0, <3>1, <3>2, <3>3, <3>4, StagesLength DEF CommandOK, Active
  <2>2. CASE Scan(p)
    <3>1. /\ text'[p] = Append(text[p], rev)
          /\ pc'[p] = IF Len(Append(text[p], rev)) = Len(Stages) THEN "write" ELSE "scan"
          /\ at' = at /\ open' = open /\ run' = run /\ exit' = exit /\ runs' = runs /\ rev' = rev
          /\ text[p] \in Texts
      BY <2>2 DEF TypeOK, Scan
    <3>2. /\ Len(text[p]) \in Nat /\ Len(text[p]) < Len(Stages)
          /\ Len(Append(text[p], rev)) = Len(text[p]) + 1
          /\ Append(text[p], rev) \in [1 .. Len(text[p]) + 1 -> 0 .. MaxEdits]
      BY <1>0, <2>0, <2>2, <3>1, TextGrows, StagesLength DEF CommandOK, Scan
    <3>3. Grown(Append(text[p], rev), rev)
      BY <1>0, <2>0, <3>1, GrownAppend DEF CommandOK
    <3>4. Len(Append(text[p], rev)) = Len(Stages) => Append(text[p], rev) \in FullTexts
      BY <3>2, StagesLength DEF FullTexts
    <3>5. Len(Append(text[p], rev)) # Len(Stages) => Len(Append(text[p], rev)) < Len(Stages)
      BY <3>2, StagesLength
    <3>6. pc[p] = "scan"
      BY <2>2 DEF Scan
    <3> QED
      BY <2>0, <3>1, <3>3, <3>4, <3>5, <3>6 DEF CommandOK, Active
  <2>3. CASE Load(p)
    <3>1. CASE Accepted(file["json"])
      <4>1. file["json"] \in Contents /\ Whole("json") /\ "json" \in Files
        BY <3>1, OutputLists DEF TypeOK, Accepted, Whole, Files
      <4>2. file["json"].text \in FullTexts /\ Grown(file["json"].text, rev)
        BY <4>1, ContentFacts DEF FilesOK, Whole
      <4>3. /\ text'[p] = file["json"].text /\ pc'[p] = "write"
            /\ at' = at /\ open' = open /\ run' = run /\ exit' = exit /\ runs' = runs /\ rev' = rev
        BY <2>3, <3>1 DEF TypeOK, Load
      <4> QED
        BY <2>0, <2>3, <4>2, <4>3 DEF CommandOK, Active, Load
    <3>2. CASE ~Accepted(file["json"])
      <4>1. /\ text' = text /\ pc'[p] = "idle" /\ exit'[p] = "failed"
            /\ at' = at /\ open' = open /\ run' = run /\ runs' = runs /\ rev' = rev
        BY <2>3, <3>2 DEF TypeOK, Load
      <4> QED
        BY <2>0, <2>3, <4>1 DEF CommandOK, Active, Load
    <3> QED
      BY <3>1, <3>2
  <2>4. CASE Open(p)
    <3>1. /\ open'[p] = TRUE /\ pc' = pc /\ text' = text /\ at' = at /\ run' = run
          /\ exit' = exit /\ runs' = runs /\ rev' = rev /\ pc[p] = "write"
      BY <2>4 DEF TypeOK, Open
    <3> QED
      BY <2>0, <3>1 DEF CommandOK, Active
  <2>5. CASE Fill(p)
    <3>1. /\ open'[p] = FALSE /\ text' = text /\ run' = run /\ runs' = runs /\ rev' = rev
          /\ pc[p] = "write"
          /\ \/ pc'[p] = "idle" /\ exit'[p] = "ok"
             \/ pc' = pc /\ exit' = exit
      BY <2>5, AdvanceFacts DEF TypeOK, Fill
    <3> QED
      BY <2>0, <3>1 DEF CommandOK, Active
  <2>6. CASE Raise(p) \/ Kill(p)
    <3>1. /\ open'[p] = FALSE /\ text' = text /\ run' = run /\ runs' = runs /\ rev' = rev
          /\ pc'[p] = "idle" /\ exit'[p] \in {"failed", "killed"}
      BY <2>6 DEF TypeOK, Raise, Kill, Quit
    <3> QED
      BY <2>0, <3>1 DEF CommandOK, Active
  <2> QED
    BY <1>4, <2>1, <2>2, <2>3, <2>4, <2>5, <2>6 DEF Acts
<1> QED
  BY <1>1, <1>2, <1>3, <1>4, NextCases DEF Acts
-------------------------------------------------------------------------------
(* A command changes at most the file at its position, and what it leaves  *)
(* there is whole only if it has filled it.                                *)
LEMMA WhatChanges ==
  ASSUME TypeOK, CommandsOK, NEW p \in Processes, Acts(p), NEW n \in Files,
         file'[n] # file[n]
  PROVE  /\ n = Outputs(p)[at[p]] /\ pc[p] = "write"
         /\ \/ Open(p) /\ file'[n] = Empty
            \/ Kill(p) /\ open[p] /\ file'[n] = Torn
            \/ Fill(p) /\ file'[n] = Torn
            \/ Fill(p) /\ file'[n] = Complete(run[p], text[p])
<1>1. CASE Open(p)
  BY <1>1 DEF TypeOK, Open, Truncated
<1>2. CASE Fill(p)
  BY <1>2, FillEffect DEF TypeOK, Fill
<1>3. CASE Kill(p)
  BY <1>3, KillEffect DEF TypeOK, CommandsOK, CommandOK
<1>4. CASE Start(p) \/ Scan(p) \/ Load(p) \/ Raise(p)
  BY <1>4 DEF Start, Scan, Load, Raise
<1> QED
  BY <1>1, <1>2, <1>3, <1>4 DEF Acts

LEMMA FilesStep ==
  ASSUME TypeOK, CommandsOK, FilesOK, [Next]_vars
  PROVE  FilesOK'
<1>0. runs \in Nat /\ rev \in Nat /\ rev \in 0 .. MaxEdits
  BY WorkbenchAssumption DEF TypeOK
<1> SUFFICES ASSUME NEW n \in Files, Whole(n)'
             PROVE  file'[n].run <= runs' /\ Grown(file'[n].text, rev')
  BY DEF FilesOK
<1>1. ASSUME file' = file, runs' = runs, rev <= rev', rev' \in Nat
      PROVE  file'[n].run <= runs' /\ Grown(file'[n].text, rev')
  <2>1. file[n] \in Contents /\ Whole(n)
    BY <1>1 DEF TypeOK, Whole
  <2>2. file[n].text \in Texts /\ file[n].run <= runs /\ Grown(file[n].text, rev)
    BY <2>1, ContentFacts, FullTextFacts DEF FilesOK, Whole
  <2> QED
    BY <1>0, <1>1, <2>2, GrownLater
<1>2. CASE UNCHANGED vars
  BY <1>0, <1>1, <1>2 DEF vars
<1>3. CASE Edit
  BY <1>0, <1>1, <1>3 DEF Edit
<1>4. ASSUME NEW p \in Processes, Acts(p)
      PROVE  file'[n].run <= runs' /\ Grown(file'[n].text, rev')
  <2>0. runs <= runs' /\ rev' = rev /\ runs' \in Nat
    <3>1. TypeOK'
      BY TypeStep
    <3> QED
      BY <1>4, <3>1, CountersGrow, WorkbenchAssumption DEF TypeOK
  <2>1. CASE file'[n] = file[n]
    <3>1. file[n] \in Contents /\ Whole(n)
      BY <2>1 DEF TypeOK, Whole
    <3>2. file[n].run \in Nat /\ file[n].run <= runs /\ Grown(file[n].text, rev)
      BY <3>1, ContentFacts, WorkbenchAssumption DEF FilesOK, Whole
    <3> QED
      BY <1>0, <2>0, <2>1, <3>2
  <2>2. CASE file'[n] # file[n]
    <3>1. file'[n] = Complete(run[p], text[p])
      BY <1>4, <2>2, WhatChanges, ContentFacts DEF Whole
    <3>2. run[p] <= runs /\ run[p] \in Nat /\ Grown(text[p], rev)
      BY WorkbenchAssumption DEF TypeOK, CommandsOK, CommandOK
    <3> QED
      BY <1>0, <2>0, <3>1, <3>2, ContentFacts
  <2> QED
    BY <2>1, <2>2
<1> QED
  BY <1>2, <1>3, <1>4, NextCases DEF Acts

(* A command becomes active only by its start. *)
LEMMA OnlyStartActivates ==
  ASSUME TypeOK, NEW p \in Processes, Acts(p), ~Start(p)
  PROVE  /\ Active(p)' => Active(p)
         /\ run' = run /\ runs' = runs /\ overlap' = overlap /\ beside' = beside
<1>1. CASE Scan(p) \/ Load(p) \/ Open(p)
  BY <1>1 DEF Scan, Load, Open, Active, history
<1>2. CASE Fill(p)
  BY <1>2 DEF Fill, Active, history
<1>3. CASE Raise(p) \/ Kill(p)
  BY <1>3 DEF TypeOK, Raise, Kill, Quit, Active, history
<1> QED
  BY <1>1, <1>2, <1>3 DEF Acts

LEMMA OneAtATimeStep ==
  ASSUME TypeOK, OneAtATime, [Next]_vars
  PROVE  OneAtATime'
<1> USE DEF OneAtATime
<1>1. CASE UNCHANGED vars
  BY <1>1 DEF vars, history, Active, Peers
<1>2. CASE Edit
  BY <1>2 DEF Edit, control, history, Active, Peers
<1>3. ASSUME NEW p \in Processes, Acts(p) PROVE OneAtATime'
  <2> SUFFICES ASSUME ~overlap', NEW x \in Processes, NEW y \in Peers(x),
                      Active(x)', Active(y)'
               PROVE  FALSE
    BY DEF Peers
  <2>0. y \in Processes /\ y # x /\ x \in Peers(y)
    BY DEF Peers
  <2>1. CASE Start(p)
    <3>1. ~overlap /\ \A q \in Peers(p) : ~Active(q)
      BY <2>1 DEF Start, Remember, TypeOK
    <3>2. \A q \in Processes \ {p} : Active(q)' = Active(q)
      BY <1>3, OthersWait DEF Same, Active
    <3> QED
      BY <2>0, <3>1, <3>2
  <2>2. CASE ~Start(p)
    <3>1. ~overlap /\ \A q \in Processes : Active(q)' => Active(q)
      BY <1>3, <2>2, OnlyStartActivates, OthersWait DEF Same, Active
    <3> QED
      BY <2>0, <3>1
  <2> QED
    BY <2>1, <2>2
<1> QED
  BY <1>1, <1>2, <1>3, NextCases DEF Acts

(* Nobody becomes undisturbed but by starting while no rival is active. *)
LEMMA UndisturbedBefore ==
  ASSUME TypeOK, CommandsOK, NEW p \in Processes, Acts(p), NEW q \in Processes, Undisturbed(q)'
  PROVE  \/ Start(p) /\ p = q /\ \A x \in Rivals(q) : ~Active(x)
         \/ Start(p) /\ p # q /\ Undisturbed(q) /\ p \notin Rivals(q)
         \/ ~Start(p) /\ Undisturbed(q)
<1>0. /\ q \notin beside' /\ \A x \in Rivals(q) : run'[x] < run'[q]
      /\ Rivals(q) \subseteq Processes
      /\ run \in [Processes -> Nat] /\ runs \in Nat
  BY WorkbenchAssumption DEF Undisturbed, Rivals, Peers, Processes, TypeOK
<1>1. CASE ~Start(p)
  BY <1>0, <1>1, OnlyStartActivates DEF Undisturbed
<1>2. CASE Start(p) /\ p = q
  BY <1>0, <1>2 DEF Start, Remember
<1>3. CASE Start(p) /\ p # q
  <2>1. /\ q \notin beside
        /\ run'[p] = runs + 1 /\ \A x \in Processes \ {p} : run'[x] = run[x]
    BY <1>0, <1>3 DEF Start, Remember
  <2>2. run[p] <= runs /\ run[q] <= runs
    BY DEF CommandsOK, CommandOK
  <2>3. p \notin Rivals(q)
    BY <1>0, <1>3, <2>1, <2>2
  <2>4. \A x \in Rivals(q) : run[x] < run[q]
    BY <1>0, <1>3, <2>1, <2>3
  <2> QED
    BY <1>3, <2>1, <2>3, <2>4 DEF Undisturbed
<1> QED
  BY <1>1, <1>2, <1>3

LEMMA AloneStep ==
  ASSUME TypeOK, CommandsOK, Alone, [Next]_vars
  PROVE  Alone'
<1> USE DEF Alone
<1>1. CASE UNCHANGED vars
  BY <1>1 DEF vars, history, Active, Undisturbed
<1>2. CASE Edit
  BY <1>2 DEF Edit, control, history, Active, Undisturbed
<1>3. ASSUME NEW p \in Processes, Acts(p) PROVE Alone'
  <2> SUFFICES ASSUME NEW q \in Processes, Undisturbed(q)', NEW x \in Rivals(q), Active(x)'
               PROVE  FALSE
    OBVIOUS
  <2>0. x \in Processes /\ x # q
    BY DEF Rivals, Peers, Processes
  <2>1. x # p => Active(x)
    BY <1>3, <2>0, OthersWait DEF Same, Active
  <2>2. ~Start(p) => Active(x)
    BY <1>3, <2>1, OnlyStartActivates
  <2> QED
    BY <1>3, <2>0, <2>1, <2>2, UndisturbedBefore
<1> QED
  BY <1>1, <1>2, <1>3, NextCases DEF Acts

(* What commands of another kind do does not touch the outputs of q.       *)
LEMMA OutputsKept ==
  ASSUME TypeOK, CommandsOK, NEW p \in Processes, Acts(p),
         NEW q \in Processes, Outputs(p) # Outputs(q), NEW i \in DOMAIN Outputs(q)
  PROVE  file'[Outputs(q)[i]] = file[Outputs(q)[i]]
<1>1. Outputs(q)[i] # Outputs(p)[at[p]]
  BY Position, OutputsApart
<1> QED
  BY <1>1, WhatChanges, OutputFacts

(* The same for one list of outputs, whoever writes it. *)
Descending(p) ==
  \A i, j \in DOMAIN Outputs(p) :
    i < j /\ Whole(Outputs(p)[i]) /\ Whole(Outputs(p)[j])
      => file[Outputs(p)[i]].run >= file[Outputs(p)[j]].run

Boundary(p) ==
  Active(p) =>
    \A i \in DOMAIN Outputs(p) : Whole(Outputs(p)[i]) =>
      /\ i < at[p] => file[Outputs(p)[i]].run = run[p]
      /\ i >= at[p] => file[Outputs(p)[i]].run < run[p]

LEMMA GenerationsOfOne ==
  ASSUME TypeOK, CommandsOK, FilesOK, NEW p \in Processes, Acts(p), Descending(p), Boundary(p)
  PROVE  Descending(p)' /\ Boundary(p)'
<1> DEFINE O == Outputs(p)
<1>0. /\ at[p] \in DOMAIN O /\ DOMAIN O = 1 .. Len(O) /\ Len(O) \in Nat
      /\ \A i \in DOMAIN O : O[i] \in Files
      /\ \A i, j \in DOMAIN O : O[i] = O[j] => i = j
      /\ run[p] \in Nat /\ runs \in Nat
      /\ \A i \in DOMAIN O : Whole(O[i]) => file[O[i]].run \in Nat
  BY Position, OutputFacts, ContentFacts, WorkbenchAssumption DEF TypeOK, Whole
<1>1. \A i \in DOMAIN O : i # at[p] => file'[O[i]] = file[O[i]]
  BY <1>0, WhatChanges
<1>2. CASE Start(p)
  <2>1. /\ file' = file /\ run'[p] = runs + 1 /\ at'[p] = 1
    BY <1>2 DEF TypeOK, Start
  <2>2. \A i \in DOMAIN O : Whole(O[i]) => file[O[i]].run <= runs
    BY <1>0 DEF FilesOK
  <2>3. \A i \in DOMAIN O : i >= 1 /\ ~(i < 1)
    BY <1>0
  <2>4. \A n \in Nat : n <= runs => n < runs + 1
    BY <1>0
  <2>5. \A i \in DOMAIN O : file'[O[i]].state = "whole" => file'[O[i]].run < run'[p]
    BY <1>0, <2>1, <2>2, <2>4 DEF Whole
  <2>6. Boundary(p)'
    BY <2>1, <2>3, <2>5 DEF Boundary, Whole
  <2> QED
    BY <2>1, <2>6 DEF Descending, Whole
<1>3. CASE Scan(p) \/ Load(p) \/ Raise(p)
  <2>1. file' = file /\ at' = at /\ run' = run
    BY <1>3 DEF Scan, Load, Raise, Quit
  <2>2. Active(p)' => Active(p)
    BY <1>3, OnlyStartActivates DEF Scan, Load, Raise, Start, Active
  <2> QED
    BY <2>1, <2>2 DEF Descending, Boundary, Whole
<1>4. CASE Open(p) \/ Kill(p)
  <2>1. /\ at' = at /\ run' = run
        /\ Active(p)' => Active(p)
    BY <1>4 DEF Open, Kill, Quit, Active
  <2>2. file'[O[at[p]]] = file[O[at[p]]] \/ file'[O[at[p]]].state # "whole"
    <3>1. CASE Open(p)
      BY <1>0, <3>1, ContentFacts DEF TypeOK, Open, Truncated
    <3>2. CASE Kill(p)
      BY <1>0, <3>2, KillEffect, ContentFacts DEF TypeOK
    <3> QED
      BY <1>4, <3>1, <3>2
  <2>3. \A i \in DOMAIN O : file'[O[i]].state = "whole" => file'[O[i]] = file[O[i]] /\ Whole(O[i])
    BY <1>1, <2>2 DEF Whole
  <2>4. Descending(p)'
    BY <2>3 DEF Descending, Whole
  <2>5. Boundary(p)'
    <3> SUFFICES ASSUME Active(p)', NEW i \in DOMAIN O, file'[O[i]].state = "whole"
                 PROVE  /\ i < at'[p] => file'[O[i]].run = run'[p]
                        /\ i >= at'[p] => file'[O[i]].run < run'[p]
      BY DEF Boundary, Whole
    <3>1. Active(p) /\ file'[O[i]] = file[O[i]] /\ Whole(O[i])
      BY <2>1, <2>3
    <3>2. /\ i < at[p] => file[O[i]].run = run[p]
          /\ i >= at[p] => file[O[i]].run < run[p]
      BY <3>1 DEF Boundary, Whole
    <3> QED
      BY <2>1, <3>1, <3>2
  <2> QED
    BY <2>4, <2>5
<1>5. CASE Fill(p)
  <2>1. /\ run' = run /\ Active(p)
        /\ at'[p] = at[p] + 1 \/ ~Active(p)'
    BY <1>5, AdvanceFacts DEF Fill, Active, TypeOK
  <2>2. file'[O[at[p]]].state = "whole" => file'[O[at[p]]].run = run[p]
    <3>1. PICK content \in Contents :
             /\ file' = [file EXCEPT ![O[at[p]]] = content]
             /\ content = Complete(run[p], text[p]) \/ content = Torn
      BY <1>5, FillEffect
    <3> QED
      BY <1>0, <3>1, ContentFacts DEF Whole, TypeOK
  <2>3. ASSUME NEW i \in DOMAIN O, file'[O[i]].state = "whole"
        PROVE  /\ i <= at[p] => file'[O[i]].run = run[p]
               /\ i > at[p] => file'[O[i]].run < run[p]
    <3>1. CASE i = at[p]
      BY <1>0, <2>2, <2>3, <3>1
    <3>2. CASE i # at[p]
      <4>1. file'[O[i]] = file[O[i]] /\ Whole(O[i])
        BY <1>1, <2>3, <3>2 DEF Whole
      <4>2. /\ i < at[p] => file[O[i]].run = run[p]
            /\ i >= at[p] => file[O[i]].run < run[p]
        BY <2>1, <4>1 DEF Boundary, Whole
      <4>3. (i <= at[p] => i < at[p]) /\ (i > at[p] => i >= at[p])
        BY <1>0, <3>2
      <4> QED
        BY <4>1, <4>2, <4>3
    <3> QED
      BY <3>1, <3>2
  <2>4. Descending(p)'
    <3> SUFFICES ASSUME NEW i \in DOMAIN O, NEW j \in DOMAIN O, i < j,
                        file'[O[i]].state = "whole", file'[O[j]].state = "whole"
                 PROVE  file'[O[i]].run >= file'[O[j]].run
      BY DEF Descending, Whole
    <3>1. CASE i <= at[p] /\ j <= at[p]
      BY <1>0, <2>3, <3>1
    <3>2. CASE i <= at[p] /\ j > at[p]
      <4>1. file'[O[i]].run = run[p] /\ file'[O[j]].run < run[p]
        BY <2>3, <3>2
      <4>2. file'[O[j]].run \in Nat
        BY <1>0, <1>1, <3>2 DEF Whole
      <4> QED
        BY <1>0, <4>1, <4>2
    <3>3. CASE i > at[p] /\ j > at[p]
      <4>1. file'[O[i]] = file[O[i]] /\ file'[O[j]] = file[O[j]]
        BY <1>0, <1>1, <3>3
      <4> QED
        BY <4>1 DEF Descending, Whole
    <3> QED
      BY <1>0, <3>1, <3>2, <3>3
  <2>5. Boundary(p)'
    <3> SUFFICES ASSUME Active(p)', NEW i \in DOMAIN O, file'[O[i]].state = "whole"
                 PROVE  /\ i < at'[p] => file'[O[i]].run = run'[p]
                        /\ i >= at'[p] => file'[O[i]].run < run'[p]
      BY DEF Boundary, Whole
    <3>1. at'[p] = at[p] + 1
      BY <2>1
    <3>2. (i < at[p] + 1 => i <= at[p]) /\ (i >= at[p] + 1 => i > at[p])
      BY <1>0
    <3> QED
      BY <2>1, <2>3, <3>1, <3>2
  <2> QED
    BY <2>4, <2>5
<1> QED
  BY <1>2, <1>3, <1>4, <1>5 DEF Acts

LEMMA GenerationsStep ==
  ASSUME TypeOK, CommandsOK, FilesOK, OneAtATime, GenerationsDescend, Generations, [Next]_vars
  PROVE  GenerationsDescend' /\ Generations'
<1>0. /\ GenerationsDescend <=> (~overlap => \A q \in Processes : Descending(q))
      /\ Generations <=> (~overlap => \A q \in Processes : Boundary(q))
  BY DEF GenerationsDescend, Generations, Descending, Boundary
<1>1. CASE UNCHANGED vars
  BY <1>1 DEF vars, history, GenerationsDescend, Generations, Whole, Active
<1>2. CASE Edit
  BY <1>2 DEF Edit, control, history, GenerationsDescend, Generations, Whole, Active
<1>3. ASSUME NEW p \in Processes, Acts(p)
      PROVE  GenerationsDescend' /\ Generations'
  <2>1. SUFFICES ASSUME ~overlap', NEW q \in Processes
                 PROVE  Descending(q)' /\ Boundary(q)'
    BY DEF GenerationsDescend, Generations, Descending, Boundary
  <2>2. ~overlap /\ Descending(p) /\ Boundary(p) /\ Descending(q) /\ Boundary(q)
    BY <1>0, <1>3, <2>1, OnlyStartActivates DEF Start, Remember, TypeOK
  <2>3. Descending(p)' /\ Boundary(p)'
    BY <1>3, <2>2, GenerationsOfOne
  <2>4. CASE q # p /\ Outputs(q) = Outputs(p)
    <3>1. q \in Peers(p) /\ p \in Peers(q)
      BY <2>4 DEF Peers
    <3>2. ~(Active(p) /\ Active(q))' /\ (Active(p) \/ Start(p))
      <4>1. OneAtATime'
        BY OneAtATimeStep
      <4> QED
        BY <1>3, <2>1, <3>1, <4>1
           DEF OneAtATime, Acts, Scan, Load, Open, Fill, Raise, Kill, Quit, Active
    <3>3. Start(p) => Active(p)'
      BY DEF Start, Active, TypeOK
    <3>4. Active(q)' => Active(q)
      BY <1>3, <2>4, OthersWait DEF Same, Active
    <3>5. ~Active(q)'
      BY <2>2, <3>1, <3>2, <3>3, <3>4 DEF OneAtATime
    <3> QED
      BY <2>3, <2>4, <3>5 DEF Descending, Boundary
  <2>5. CASE Outputs(q) # Outputs(p)
    <3>1. Same(q) /\ \A i \in DOMAIN Outputs(q) : file'[Outputs(q)[i]] = file[Outputs(q)[i]]
      BY <1>3, <2>5, OthersWait, OutputsKept
    <3> QED
      BY <2>2, <3>1 DEF Descending, Boundary, Whole, Same, Active
  <2> QED
    BY <2>3, <2>4, <2>5
<1> QED
  BY <1>1, <1>2, <1>3, NextCases DEF Acts
-------------------------------------------------------------------------------
(* Steps of other commands leave an undisturbed one its files.             *)
LEMMA OthersKeepOut ==
  ASSUME TypeOK, CommandsOK, Alone, NEW p \in Processes, Acts(p),
         NEW q \in Processes, q # p, Undisturbed(q)'
  PROVE  /\ Same(q) /\ Undisturbed(q)
         /\ \A i \in DOMAIN Outputs(q) : file'[Outputs(q)[i]] = file[Outputs(q)[i]]
         /\ q \notin Auditors => file'["json"] = file["json"]
<1>1. Same(q) /\ Undisturbed(q)
  BY OthersWait, UndisturbedBefore
<1>2. CASE p \in Rivals(q)
  <2>1. ~Active(p)
    BY <1>1, <1>2 DEF Alone
  <2>2. file' = file
    BY <2>1 DEF Acts, Start, Scan, Load, Open, Fill, Raise, Kill, Active
  <2> QED
    BY <1>1, <2>2
<1>3. CASE p \notin Rivals(q)
  <2>1. Outputs(p) # Outputs(q) /\ p \notin Auditors
    BY <1>3 DEF Rivals, Peers
  <2>2. Outputs(p)[at[p]] # "json"
    BY <2>1, Position, OnlyAuditsWriteJson
  <2>3. file'["json"] = file["json"]
    BY <2>2, WhatChanges, OutputLists DEF Files
  <2> QED
    BY <1>1, <2>1, <2>3, OutputsKept
<1> QED
  BY <1>2, <1>3

(* What an undisturbed command does with its own files. *)
LEMMA OwnFilesOfOne ==
  ASSUME TypeOK, CommandsOK, OwnFiles, NEW p \in Processes, Acts(p), Undisturbed(p)',
         NEW i \in DOMAIN Outputs(p)
  PROVE  /\ Passed(p, i)' => file'[Outputs(p)[i]] = Complete(run'[p], text'[p])
         /\ open'[p] => (i = at'[p] => file'[Outputs(p)[i]] = Empty)
<1> DEFINE n == Outputs(p)[i]
<1>0. /\ at[p] \in DOMAIN Outputs(p) /\ i \in Nat \ {0} /\ i <= Len(Outputs(p))
      /\ DOMAIN Outputs(p) = 1 .. Len(Outputs(p)) /\ Len(Outputs(p)) \in Nat
      /\ n \in Files
      /\ i # at[p] => n # Outputs(p)[at[p]]
      /\ CommandOK(p)
  BY Position, OutputFacts DEF CommandsOK
<1>1. CASE Start(p)
  <2>1. /\ exit'[p] = "none" /\ pc'[p] # "write" /\ open'[p] = open[p]
        /\ ~open[p]
    BY <1>0, <1>1 DEF TypeOK, Start, CommandOK, Active
  <2> QED
    BY <2>1 DEF Passed
<1>2. ASSUME ~Start(p)
      PROVE  /\ run' = run
             /\ Passed(p, i) => file[n] = Complete(run[p], text[p])
             /\ open[p] => (i = at[p] => file[n] = Empty)
  BY <1>2, UndisturbedBefore, OnlyStartActivates DEF OwnFiles
<1>3. CASE Scan(p) \/ Load(p)
  <2>1. /\ ~open[p] /\ open' = open /\ at'[p] = 1
        /\ exit'[p] # "ok"
    BY <1>0, <1>3 DEF TypeOK, Scan, Load, CommandOK, Active
  <2> QED
    BY <1>0, <2>1 DEF Passed
<1>4. CASE Open(p)
  <2>1. /\ at' = at /\ pc' = pc /\ exit' = exit /\ text' = text /\ run' = run
        /\ exit[p] # "ok" /\ pc[p] = "write"
    BY <1>0, <1>4 DEF Open, CommandOK, Active
  <2>2. i = at[p] => file'[n] = Empty
    BY <1>0, <1>4 DEF TypeOK, Open, Truncated
  <2>3. i # at[p] => file'[n] = file[n]
    BY <1>0, WhatChanges
  <2>4. ~Start(p)
    BY <1>4 DEF Open, Start, Active
  <2>5. Passed(p, i)' => Passed(p, i) /\ i # at[p]
    BY <1>0, <2>1 DEF Passed
  <2> QED
    BY <1>2, <2>1, <2>2, <2>3, <2>4, <2>5
<1>5. CASE Fill(p)
  <2>1. /\ open'[p] = FALSE /\ text' = text /\ open[p] /\ pc[p] = "write"
        /\ ~Start(p)
    BY <1>5 DEF TypeOK, Fill, Start, Active
  <2>2. i = at[p] => file'[n] = Complete(run[p], text[p])
    <3>1. i = at[p] => file[n] = Empty
      BY <1>2, <2>1
    <3>2. PICK content \in Contents :
             /\ file' = [file EXCEPT ![Outputs(p)[at[p]]] = content]
             /\ \/ content = Complete(run[p], text[p])
                \/ file[Outputs(p)[at[p]]] # Empty
      BY <1>5, FillEffect
    <3> QED
      BY <1>0, <3>1, <3>2 DEF TypeOK
  <2>3. i # at[p] => file'[n] = file[n]
    BY <1>0, WhatChanges
  <2>4. Passed(p, i)' => i = at[p] \/ Passed(p, i)
    <3>1. CASE at[p] = Len(Outputs(p))
      <4>1. i < at[p] \/ i = at[p]
        <5>1. \A k, m \in Nat : k <= m => k < m \/ k = m
          OBVIOUS
        <5>2. i \in Nat /\ at[p] \in Nat /\ i <= at[p]
          BY <1>0, <3>1
        <5> QED
          BY <5>1, <5>2
      <4> QED
        BY <2>1, <4>1 DEF Passed
    <3>2. CASE at'[p] = at[p] + 1 /\ exit' = exit
      BY <1>0, <2>1, <3>2 DEF Passed
    <3>3. at[p] = Len(Outputs(p)) \/ (at'[p] = at[p] + 1 /\ exit' = exit)
      BY <1>5, AdvanceFacts DEF Fill, TypeOK
    <3> QED
      BY <3>1, <3>2, <3>3
  <2> QED
    BY <1>2, <2>1, <2>2, <2>3, <2>4
<1>6. CASE Raise(p) \/ Kill(p)
  <2>1. open'[p] = FALSE /\ pc'[p] = "idle" /\ exit'[p] # "ok"
    BY <1>6 DEF TypeOK, Raise, Kill, Quit
  <2> QED
    BY <2>1 DEF Passed
<1> QED
  BY <1>1, <1>3, <1>4, <1>5, <1>6 DEF Acts

LEMMA OwnFilesStep ==
  ASSUME TypeOK, CommandsOK, Alone, OwnFiles, [Next]_vars
  PROVE  OwnFiles'
<1>1. CASE UNCHANGED vars
  BY <1>1 DEF vars, history, OwnFiles, Undisturbed, Passed
<1>2. CASE Edit
  BY <1>2 DEF Edit, control, history, OwnFiles, Undisturbed, Passed
<1>3. ASSUME NEW p \in Processes, Acts(p) PROVE OwnFiles'
  <2> SUFFICES ASSUME NEW q \in Processes, Undisturbed(q)', NEW i \in DOMAIN Outputs(q)
               PROVE  /\ Passed(q, i)' => file'[Outputs(q)[i]] = Complete(run'[q], text'[q])
                      /\ open'[q] => (i = at'[q] => file'[Outputs(q)[i]] = Empty)
    BY DEF OwnFiles
  <2>1. CASE q = p
    BY <1>3, <2>1, OwnFilesOfOne
  <2>2. CASE q # p
    <3>1. /\ Same(q) /\ Undisturbed(q)
          /\ file'[Outputs(q)[i]] = file[Outputs(q)[i]]
      BY <1>3, <2>2, OthersKeepOut
    <3>2. Passed(q, i)' = Passed(q, i)
      BY <3>1 DEF Passed, Same
    <3> QED
      BY <3>1, <3>2 DEF OwnFiles, Same
  <2> QED
    BY <2>1, <2>2
<1> QED
  BY <1>1, <1>2, <1>3, NextCases DEF Acts

LEMMA OwnSourceStep ==
  ASSUME TypeOK, CommandsOK, Alone, OwnSource, [Next]_vars
  PROVE  OwnSource'
<1>1. CASE UNCHANGED vars
  BY <1>1 DEF vars, history, OwnSource, Undisturbed, Whole
<1>2. CASE Edit
  BY <1>2 DEF Edit, control, history, OwnSource, Undisturbed, Whole
<1>3. ASSUME NEW p \in Processes, Acts(p) PROVE OwnSource'
  <2> SUFFICES ASSUME NEW q \in Reasoners \cup Patchers, Undisturbed(q)',
                      pc'[q] = "write" \/ exit'[q] = "ok"
               PROVE  file'["json"].state = "whole" /\ text'[q] = file'["json"].text
    BY DEF OwnSource, Whole
  <2>0. q \in Processes /\ q \notin Auditors
    BY WorkbenchAssumption DEF Processes
  <2>1. CASE q # p
    <3>1. Same(q) /\ Undisturbed(q) /\ file'["json"] = file["json"]
      BY <1>3, <2>0, <2>1, OthersKeepOut
    <3> QED
      BY <3>1 DEF OwnSource, Same, Whole
  <2>2. CASE q = p /\ Load(p)
    BY <2>2 DEF TypeOK, Load, Accepted, CommandsOK, CommandOK, Active
  <2>3. CASE q = p /\ (Open(p) \/ Fill(p))
    <3>1. Undisturbed(p) /\ pc[p] = "write" /\ text' = text
      BY <1>3, <2>2, <2>3, UndisturbedBefore DEF Open, Fill, Start, Active
    <3>2. Outputs(p)[at[p]] # "json"
      BY <2>0, <2>3, Position, OnlyAuditsWriteJson
    <3>3. file'["json"] = file["json"]
      BY <1>3, <3>2, WhatChanges, OutputLists DEF Files
    <3> QED
      BY <2>3, <3>1, <3>3 DEF OwnSource, Whole
  <2>4. CASE q = p /\ (Start(p) \/ Raise(p) \/ Kill(p))
    BY <2>4 DEF TypeOK, Start, Raise, Kill, Quit
  <2>5. CASE q = p /\ Scan(p)
    BY <2>0, <2>5 DEF Scan, CommandsOK, CommandOK
  <2> QED
    BY <1>3, <2>1, <2>2, <2>3, <2>4, <2>5 DEF Acts
<1> QED
  BY <1>1, <1>2, <1>3, NextCases DEF Acts
-------------------------------------------------------------------------------
(* Converging for one text and one output. *)
Settles(t, i) ==
  /\ (\A p \in Auditors : Reopened(p, i, t))
       => \/ file[AuditOutputs[i]] = Empty
          \/ file[AuditOutputs[i]].state = "whole" /\ file[AuditOutputs[i]].text = t
  /\ file[AuditOutputs[i]] = Empty => \E p \in Auditors : ~(text[p] = t /\ Passed(p, i))

LEMMA AuditSettles ==
  ASSUME TypeOK, CommandsOK, NEW p \in Auditors, Acts(p),
         NEW t \in FullTexts, NEW i \in DOMAIN AuditOutputs, Settles(t, i)
  PROVE  Settles(t, i)'
<1> DEFINE n == AuditOutputs[i]
<1>0. /\ p \in Processes /\ Outputs(p) = AuditOutputs
      /\ at[p] \in DOMAIN AuditOutputs /\ DOMAIN AuditOutputs = 1 .. 6 /\ Len(AuditOutputs) = 6
      /\ n \in Files /\ i \in Nat \ {0} /\ at[p] \in Nat
      /\ i # at[p] => n # AuditOutputs[at[p]]
      /\ CommandOK(p)
  BY OutputsOfCommand, Position, OutputLists DEF CommandsOK, Processes, Files
<1>1. /\ i # at[p] => file'[n] = file[n]
      /\ \A q \in Auditors \ {p} : Same(q)
  BY <1>0, WhatChanges, OthersWait DEF Processes
<1>2. ASSUME exit'[p] # "ok", ~open'[p], pc'[p] # "write" \/ at'[p] = 1
      PROVE  Settles(t, i)'
  <2>1. ~Passed(p, i)'
    BY <1>0, <1>2 DEF Passed
  <2>2. ~Reopened(p, i, t)'
    BY <1>2, <2>1 DEF Reopened
  <2> QED
    BY <2>1, <2>2 DEF Settles
<1>3. CASE Start(p) \/ Raise(p) \/ Kill(p)
  <2>1. exit'[p] # "ok" /\ ~open'[p] /\ pc'[p] # "write"
    BY <1>0, <1>3 DEF TypeOK, Start, Raise, Kill, Quit, CommandOK, Active
  <2> QED
    BY <1>2, <2>1
<1>4. CASE Scan(p) \/ Load(p)
  <2>1. exit'[p] # "ok" /\ ~open'[p] /\ at'[p] = 1
    BY <1>0, <1>4 DEF TypeOK, Scan, Load, CommandOK, Active
  <2> QED
    BY <1>2, <2>1
<1>5. ASSUME i # at[p], Reopened(p, i, t)' => Reopened(p, i, t),
             (text[p] = t /\ Passed(p, i))' => text[p] = t /\ Passed(p, i)
      PROVE  Settles(t, i)'
  <2>1. \A q \in Auditors :
          /\ Reopened(q, i, t)' => Reopened(q, i, t)
          /\ (text[q] = t /\ Passed(q, i))' => text[q] = t /\ Passed(q, i)
    BY <1>1, <1>5 DEF Reopened, Passed, Same
  <2>2. file'[n] = file[n]
    BY <1>1, <1>5
  <2> QED
    BY <2>1, <2>2 DEF Settles
<1>6. CASE Open(p)
  <2>1. /\ pc[p] = "write" /\ pc' = pc /\ at' = at /\ exit' = exit /\ text' = text
        /\ exit[p] # "ok"
    BY <1>0, <1>6 DEF Open, CommandOK, Active
  <2>2. CASE i = at[p]
    <3>1. file'[n] = Empty
      BY <1>0, <1>6, <2>2 DEF TypeOK, Open, Truncated
    <3>2. ~Passed(p, i)'
      BY <1>0, <2>1, <2>2 DEF Passed
    <3> QED
      BY <3>1, <3>2 DEF Settles
  <2>3. CASE i # at[p]
    BY <1>5, <2>1, <2>3 DEF Reopened, Passed
  <2> QED
    BY <2>2, <2>3
<1>7. CASE Fill(p)
  <2>1. /\ pc[p] = "write" /\ open[p] /\ open'[p] = FALSE /\ text' = text
        /\ exit[p] # "ok"
    BY <1>0, <1>7 DEF TypeOK, Fill, CommandOK, Active
  <2>2. CASE i = at[p]
    <3>1. PICK content \in Contents :
             /\ file' = [file EXCEPT ![AuditOutputs[at[p]]] = content]
             /\ \/ content = Complete(run[p], text[p])
                \/ content = Torn /\ file[n] # Empty /\ file[n].text # text[p]
      BY <1>0, <1>7, <2>2, FillEffect
    <3>2. file'[n] = content /\ content # Empty
      BY <1>0, <2>2, <3>1, ContentFacts DEF TypeOK
    <3>3. ASSUME \A q \in Auditors : Reopened(q, i, t)'
          PROVE  content.state = "whole" /\ content.text = t
      <4>1. text[p] = t
        BY <2>1, <3>3 DEF Reopened
      <4>2. Reopened(p, i, t)
        BY <2>1, <2>2, <4>1 DEF Reopened
      <4>3. \A q \in Auditors : Reopened(q, i, t)
        BY <1>1, <3>3, <4>2 DEF Reopened, Passed, Same
      <4> QED
        BY <3>1, <4>1, <4>3, ContentFacts DEF Settles
    <3> QED
      BY <3>2, <3>3 DEF Settles
  <2>3. CASE i # at[p]
    <3>1. CASE at[p] = 6
      <4>1. i < at[p]
        BY <1>0, <2>3, <3>1
      <4> QED
        BY <1>5, <2>1, <2>3, <4>1 DEF Reopened, Passed
    <3>2. CASE at'[p] = at[p] + 1 /\ exit' = exit
      <4>1. i < at'[p] => i < at[p]
        BY <1>0, <2>3, <3>2
      <4> QED
        BY <1>5, <2>1, <2>3, <3>2, <4>1 DEF Reopened, Passed
    <3>3. at[p] = 6 \/ (at'[p] = at[p] + 1 /\ exit' = exit)
      BY ZenonT(40), <1>0, <1>7, AdvanceFacts DEF Fill, TypeOK
    <3> QED
      BY <3>1, <3>2, <3>3
  <2> QED
    BY <2>2, <2>3
<1> QED
  BY <1>3, <1>4, <1>6, <1>7 DEF Acts

LEMMA ConvergingStep ==
  ASSUME TypeOK, CommandsOK, Converging, [Next]_vars
  PROVE  Converging'
<1>1. CASE UNCHANGED vars
  BY <1>1 DEF vars, Converging, Reopened, Passed
<1>2. CASE Edit
  BY <1>2 DEF Edit, control, Converging, Reopened, Passed
<1>3. ASSUME NEW p \in Processes, Acts(p) PROVE Converging'
  <2> SUFFICES ASSUME Auditors # {}, NEW t \in FullTexts, NEW i \in DOMAIN AuditOutputs
               PROVE  Settles(t, i)'
    BY DEF Converging, Settles
  <2>1. Settles(t, i)
    BY DEF Converging, Settles
  <2>2. CASE p \in Auditors
    BY <1>3, <2>1, <2>2, AuditSettles
  <2>3. CASE p \notin Auditors
    <3>1. PICK q \in Auditors : TRUE
      OBVIOUS
    <3>2. q \in Processes /\ Outputs(q) = AuditOutputs
      BY OutputsOfCommand DEF Processes
    <3>3. Outputs(p) # Outputs(q)
      <4>1. Outputs(p) \in {ReasonOutputs, PatchOutputs}
        BY <2>3, OutputsOfCommand DEF Processes
      <4> QED
        BY <3>2, <4>1, OutputLists
    <3>4. file'[AuditOutputs[i]] = file[AuditOutputs[i]]
      BY <1>3, <3>2, <3>3, OutputsKept
    <3>5. \A x \in Auditors : Same(x)
      BY <1>3, <2>3, OthersWait DEF Processes
    <3>6. \A x \in Auditors : /\ Reopened(x, i, t)' = Reopened(x, i, t)
                             /\ (text[x] = t /\ Passed(x, i))' = (text[x] = t /\ Passed(x, i))
      BY <3>5 DEF Reopened, Passed, Same
    <3> QED
      BY <2>1, <3>4, <3>6 DEF Settles
  <2> QED
    BY <2>2, <2>3
<1> QED
  BY <1>1, <1>2, <1>3, NextCases DEF Acts
-------------------------------------------------------------------------------
LEMMA InitInv == Init => IInv
<1> SUFFICES ASSUME Init PROVE IInv
  OBVIOUS
<1>1. TypeOK
  <2>1. <<>> \in Texts
    BY StagesLength DEF Texts
  <2>2. /\ rev \in 0 .. MaxEdits /\ runs \in 0 .. MaxRuns /\ faults \in 0 .. MaxFaults
        /\ run \in [Processes -> 0 .. MaxRuns]
    BY WorkbenchAssumption DEF Init
  <2>3. file \in [Files -> Contents]
    BY ContentFacts DEF Init
  <2>4. at \in [Processes -> Nat \ {0}] /\ \A p \in Processes : at[p] <= Len(Outputs(p))
    BY OutputFacts DEF Init
  <2>5. /\ text \in [Processes -> Texts]
        /\ pc \in [Processes -> {"idle", "scan", "load", "write"}]
        /\ open \in [Processes -> BOOLEAN]
        /\ exit \in [Processes -> {"none", "ok", "failed", "killed"}]
        /\ overlap \in BOOLEAN /\ beside \subseteq Processes
    BY <2>1 DEF Init
  <2> QED
    BY <2>2, <2>3, <2>4, <2>5 DEF TypeOK
<1>2. \A p \in Processes : ~Active(p) /\ exit[p] = "none" /\ ~open[p]
  BY DEF Init, Active
<1>3. CommandsOK
  BY <1>2 DEF Init, CommandsOK, CommandOK, Grown, Active
<1>4. \A n \in Files : file[n] = Absent /\ ~Whole(n)
  BY ContentFacts DEF Init, Whole
<1>5. FilesOK
  BY <1>4 DEF FilesOK
<1>6. OneAtATime /\ Alone
  BY <1>2 DEF OneAtATime, Alone, Peers, Rivals, Processes
<1>7. GenerationsDescend
  BY <1>4, OutputFacts DEF GenerationsDescend
<1>8. Generations
  BY <1>2 DEF Generations
<1>9. \A p \in Processes : \A i : ~Passed(p, i)
  BY <1>2 DEF Passed, Active
<1>10. OwnFiles
  BY <1>2, <1>9 DEF OwnFiles
<1>11. OwnSource
  BY <1>2 DEF OwnSource, Active, Processes
<1>12. Converging
  BY <1>2, <1>9 DEF Converging, Reopened, Processes
<1> QED
  BY <1>1, <1>3, <1>5, <1>6, <1>7, <1>8, <1>10, <1>11, <1>12 DEF IInv

LEMMA NextInv == IInv /\ [Next]_vars => IInv'
<1> QED
  BY TypeStep, CommandsStep, FilesStep, OneAtATimeStep, AloneStep, GenerationsStep,
     OwnFilesStep, OwnSourceStep, ConvergingStep DEF IInv

LEMMA SuccessFollows ==
  ASSUME IInv
  PROVE  SuccessIsComplete
<1> SUFFICES ASSUME NEW p \in Processes, exit[p] = "ok", Undisturbed(p),
                    NEW i \in DOMAIN Outputs(p)
             PROVE  file[Outputs(p)[i]] = Complete(run[p], text[p])
  BY DEF SuccessIsComplete, Names
<1> QED
  BY DEF IInv, OwnFiles, Passed

LEMMA CurrencyFollows ==
  ASSUME IInv
  PROVE  DerivedIsCurrent
<1> SUFFICES ASSUME NEW p \in Reasoners \cup Patchers, exit[p] = "ok", Undisturbed(p)
             PROVE  /\ Whole("json")
                    /\ \A n \in Names(Outputs(p)) : Whole(n) /\ file[n].text = file["json"].text
  BY DEF DerivedIsCurrent
<1>1. Whole("json") /\ text[p] = file["json"].text
  BY DEF IInv, OwnSource
<1>2. \A n \in Names(Outputs(p)) : file[n] = Complete(run[p], text[p])
  BY SuccessFollows DEF SuccessIsComplete, Processes
<1> QED
  BY <1>1, <1>2, ContentFacts DEF Whole

LEMMA OneAuditFollows ==
  ASSUME IInv
  PROVE  DerivedFromOneAudit
<1> SUFFICES ASSUME NEW n \in Files, Whole(n)
             PROVE  /\ Len(file[n].text) = Len(Stages)
                    /\ \A s, t \in DOMAIN file[n].text : s < t => file[n].text[s] <= file[n].text[t]
  BY DEF DerivedFromOneAudit, Files
<1>1. file[n].text \in FullTexts
  BY ContentFacts DEF IInv, TypeOK, Whole
<1>2. Grown(file[n].text, rev)
  BY DEF IInv, FilesOK
<1> QED
  BY <1>1, <1>2, FullTextFacts DEF Grown

LEMMA ConvergenceFollows ==
  ASSUME IInv
  PROVE  IdenticalAuditsConverge
<1> SUFFICES ASSUME NEW q \in Auditors, NEW i \in DOMAIN AuditOutputs,
                    \A p \in Auditors : exit[p] = "ok" /\ text[p] = text[q]
             PROVE  Whole(AuditOutputs[i]) /\ file[AuditOutputs[i]].text = text[q]
  BY DEF IdenticalAuditsConverge, Names
<1>1. text[q] \in FullTexts
  BY DEF IInv, CommandsOK, CommandOK, Processes
<1>2. \A p \in Auditors : Passed(p, i) /\ Reopened(p, i, text[q])
  BY DEF Passed, Reopened
<1> QED
  BY <1>1, <1>2 DEF IInv, Converging, Whole

(* The invariant that carries everything below.                            *)
THEOREM Invariance == Spec => []IInv
<1> QED
  BY InitInv, NextInv, PTL DEF Spec

(* The variables of the commands and of their directory keep their types   *)
(* (cli.py, core/output.py).                                               *)
THEOREM TypeCorrectness == Spec => []TypeOK
<1>1. IInv => TypeOK
  BY DEF IInv
<1> QED
  BY <1>1, Invariance, PTL

(* After kills and exceptions anywhere, and as long as no command runs     *)
(* twice at once, no artefact is newer than one written before it          *)
(* (write_audit_outputs and its two relatives).                            *)
THEOREM OlderOutputsComeLast == Spec => []GenerationsDescend
<1>1. IInv => GenerationsDescend
  BY DEF IInv
<1> QED
  BY <1>1, Invariance, PTL

(* An undisturbed command that reports success has left all of its files   *)
(* complete and its own (cli.py, the exit after the writers).              *)
THEOREM SuccessMeansComplete == Spec => []SuccessIsComplete
<1>1. IInv => SuccessIsComplete
  BY SuccessFollows
<1> QED
  BY <1>1, Invariance, PTL

(* What an undisturbed reason or patch-diff leaves is about the audit      *)
(* result that is there (cli.py, the path of the audit that is read).      *)
THEOREM SuccessMeansCurrent == Spec => []DerivedIsCurrent
<1>1. IInv => DerivedIsCurrent
  BY CurrencyFollows
<1> QED
  BY <1>1, Invariance, PTL

(* No derived file is about a torn audit (the load and validation of       *)
(* audit_result.json).                                                     *)
THEOREM DerivedRestsOnOneAudit == Spec => []DerivedFromOneAudit
<1>1. IInv => DerivedFromOneAudit
  BY OneAuditFollows
<1> QED
  BY <1>1, Invariance, PTL

(* However many audits overlapped, were killed and started again: when all *)
(* have succeeded and saw the same repository, every artefact is whole and *)
(* holds that result (write_text without a lock).                          *)
THEOREM OverlappingAuditsConverge == Spec => []IdenticalAuditsConverge
<1>1. IInv => IdenticalAuditsConverge
  BY ConvergenceFollows
<1> QED
  BY <1>1, Invariance, PTL
================================================================================
