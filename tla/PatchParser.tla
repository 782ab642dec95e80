----------------------------- MODULE PatchParser ------------------------------
(***************************************************************************)
(* parse_unified_diff of patchdiff/parser.py: one pass over the lines of a *)
(* diff, each told by what it starts with, which rebuilds the changed      *)
(* files, their hunks and the numbers of the added and removed lines.      *)
(* Its lines are those of str.splitlines, which also ends one at a form    *)
(* feed and at other characters that git leaves inside a line.             *)
(*                                                                         *)
(* A line is a record with a "tag", what the parser tests its beginning    *)
(* against, and what the parser reads from the rest.  Left out are names   *)
(* that git quotes, as it does those with a line break of any kind, names  *)
(* that begin or end with a blank or have two in a row, and lines that     *)
(* look like the header with a name but are without one.                   *)
(***************************************************************************)
EXTENDS Lists, Functions, Paths

CONSTANT Diffs  \* the diffs to consider, see IsDiff

DevNull == <<Root, "dev", "null">>
------------------------------------------------------------------------------
(* What git prints, and the program is given: a diff is                    *)
(*   [files, cover, signature]                                             *)
(* a list of changed files, between the mail header and the signature line *)
(* "-- " of git format-patch if these are asked for.  A file is            *)
(*   [change, old, new, hunks],   a hunk   [old, new, body],               *)
(* the hunk's body a list of [sign, begins, rest]: a line of the source    *)
(* that begins with "begins" and goes on with "rest"; or, with the sign    *)
(* "no newline", git's note that the source ends without one; or, with the *)
(* sign "broken", what a line break inside the line before it, or inside   *)
(* the heading at the end of the hunk's header, makes a line of its own.   *)
(* That may begin with anything, and go on with a name, or with the four   *)
(* numbers of a hunk's header.                                             *)
IsName(path) ==
  /\ IsList(path) /\ path # <<>> /\ path[1] # Blank /\ {".", Root} \cap Elements(path) = {}
  /\ \A i \in DOMAIN path : path[i] = Blank => i < Len(path) /\ path[i + 1] # Blank

BodyTags == {"+", "-", " ", "+++", "---", "no newline", "other"}
NameTags == {"rename from ", "rename to ", "--- ", "+++ "}
ModeTags == {"new file mode", "deleted file mode"}

IsPiece(line) ==
  \/ line.begins \in BodyTags \cup NameTags \cup ModeTags
  \/ line.begins = "diff --git " /\ \E k \in 2 .. Len(line.rest) - 1 : line.rest[k] = Blank
  \/ line.begins = "@@" /\ Len(line.rest) = 4 /\ Elements(line.rest) \subseteq Nat

IsBodyLine(line) ==
  /\ line.sign \in {" ", "-", "+", "no newline", "broken"}
  /\ IsList(line.rest) /\ line.rest # <<>>
  /\ line.sign = "broken" => IsPiece(line)

IsHunk(hunk) ==
  /\ hunk.old \in Nat /\ hunk.new \in Nat /\ IsList(hunk.body)
  /\ \A i \in DOMAIN hunk.body : IsBodyLine(hunk.body[i])

IsChangedFile(file) ==
  /\ file.change \in {"added", "deleted", "renamed", "modified"}
  /\ IsName(file.old) /\ IsName(file.new)
  /\ file.change # "renamed" => file.old = file.new
  /\ IsList(file.hunks) /\ \A j \in DOMAIN file.hunks : IsHunk(file.hunks[j])

IsDiff(d) ==
  /\ IsList(d.files) /\ \A i \in DOMAIN d.files : IsChangedFile(d.files[i])
  /\ d.cover \in BOOLEAN /\ d.signature \in BOOLEAN

ASSUME DiffsAssumption == \A d \in Diffs : IsDiff(d)

Tagged(tag) == <<[tag |-> tag]>>
WithPath(tag, raw) == <<[tag |-> tag, path |-> raw]>>

(* How the line of the source looks in the diff.  A context line that is   *)
(* empty loses its blank under diff.suppressBlankEmpty.                    *)
RawTag(line) ==
  CASE line.sign = "broken"                       -> line.begins
    [] line.sign = "-" /\ line.begins = "-- "     -> "--- "
    [] line.sign = "-" /\ line.begins = "--"      -> "---"
    [] line.sign = "+" /\ line.begins = "++ "     -> "+++ "
    [] line.sign = "+" /\ line.begins = "++"      -> "+++"
    [] line.sign = " " /\ line.begins = "nothing" -> "other"
    [] OTHER                                      -> line.sign

RawLine(line) ==
  IF RawTag(line) = "@@"
    THEN [tag |-> "@@", old |-> line.rest[1], new |-> line.rest[2],
          oldCount |-> line.rest[3], newCount |-> line.rest[4]]
    ELSE [tag |-> RawTag(line), path |-> line.rest]

(* How many of the first n lines of a body are on one side. *)
CountTo(body, n, signs) == Cardinality({i \in 1 .. n : body[i].sign \in signs})
OldSide == {" ", "-"}
NewSide == {" ", "+"}

RawBody(hunk) == [i \in DOMAIN hunk.body |-> RawLine(hunk.body[i])]

RawHunk(hunk) ==
  LET count(side) == CountTo(hunk.body, Len(hunk.body), side) IN
  <<[tag |-> "@@", old |-> hunk.old, new |-> hunk.new,
     oldCount |-> count(OldSide), newCount |-> count(NewSide)]>> \o RawBody(hunk)

RawHunks(file) == [j \in DOMAIN file.hunks |-> RawHunk(file.hunks[j])]

(* The header of a file: its first line, what git calls the extended       *)
(* header, and the names, if there are hunks.                              *)
FirstLine(file) ==
  [tag |-> "diff --git ",
   path |-> (<<"a">> \o file.old) \o <<Blank>> \o (<<"b">> \o file.new)]

Extended(file) ==
  CASE file.change = "added"   -> Tagged("new file mode")
    [] file.change = "deleted" -> Tagged("deleted file mode")
    [] file.change = "renamed" -> WithPath("rename from ", file.old)
                                    \o WithPath("rename to ", file.new)
    [] OTHER -> Tagged("other")

Names(file) ==
  IF file.hunks = <<>> THEN <<>>
  ELSE WithPath("--- ", IF file.change = "added" THEN DevNull ELSE <<"a">> \o file.old)
         \o WithPath("+++ ", IF file.change = "deleted" THEN DevNull ELSE <<"b">> \o file.new)

RawHeader(file) == Extended(file) \o Names(file)

RawFile(file) == <<FirstLine(file)>> \o (RawHeader(file) \o Joined(RawHunks(file)))

RawFiles(d) == [i \in DOMAIN d.files |-> RawFile(d.files[i])]

Text(d) ==
  (IF d.cover THEN Tagged("other") \o Tagged("---") ELSE <<>>)
    \o (Joined(RawFiles(d)) \o (IF d.signature THEN Tagged("-") ELSE <<>>))
------------------------------------------------------------------------------
VARIABLES
  diff,     \* the input
  lines,    \* the lines of its text that are left to read
  parsing,  \* "reading", "refused" (ValueError), "done"
  parsed,   \* `records`: the files so far; the last one is `current`, its last
            \* hunk, if it has one, `current_hunk`
  oldLine, newLine

parserVars == <<diff, lines, parsing, parsed, oldLine, newLine>>

NoPath == <<>>

(* raw_line.split(): the words of a line, told apart by its blanks. *)
FirstWord(text) == SubSeq(text, 1, Cardinality({i \in DOMAIN text : \A j \in 1 .. i : text[j] # Blank}))
OtherWords(text) == SubSeq(text, Len(FirstWord(text)) + 2, Len(text))

(* _normalize_path *)
(* Slip: git's prefix is kept. *)
Prefixed(raw) == raw

Unprefixed(raw) ==
  IF InPrefix(raw) THEN Tail(raw) ELSE raw

Dots(path) ==
  {i \in DOMAIN path : i < Len(path) /\ path[i + 1] # Blank /\ \A j \in 1 .. i : path[j] = "."}

Stripped(raw) ==
  LET path == Unprefixed(raw) IN SubSeq(path, Cardinality(Dots(path)) + 1, Len(path))

NormalizedPath(raw) == IF raw = DevNull THEN NoPath ELSE Stripped(raw)

IsAbsolute(path) == 1 \in DOMAIN path /\ path[1] = Root

(* A ".." between blanks is part of a name. *)
Outside(path) ==
  \/ IsAbsolute(path)
  \/ \E i \in DOMAIN path :
       /\ path[i] = ".."
       /\ i - 1 \in DOMAIN path => path[i - 1] # Blank
       /\ i + 1 \in DOMAIN path => path[i + 1] # Blank

(* Slip: only absolute paths are refused. *)
Absolute(raw) == raw # DevNull /\ IsAbsolute(Stripped(raw))

NonLocal(raw) == raw # DevNull /\ Outside(Stripped(raw))

ParserInit ==
  /\ diff \in Diffs /\ lines = Text(diff)
  /\ parsing = "reading"
  /\ parsed = <<>>
  /\ oldLine = 0 /\ newLine = 0

Line == lines[1]
Current == Len(parsed)
CurrentHunk == Len(parsed[Current].hunks)
InsideFile == parsed # <<>>
InsideHunk == InsideFile /\ CurrentHunk > 0

Reads(tags) ==
  /\ parsing = "reading" /\ lines # <<>> /\ Line.tag \in tags
  /\ lines' = Tail(lines)
  /\ UNCHANGED <<diff, parsing>>

(* The third and the fourth word of the header. *)
OldWord == FirstWord(Line.path)
NewWord == FirstWord(OtherWords(Line.path))

StartFile ==
  /\ Reads({"diff --git "})
  /\ ~NonLocal(OldWord) /\ ~NonLocal(NewWord)
  /\ parsed' = Append(parsed, [old |-> NormalizedPath(OldWord), new |-> NormalizedPath(NewWord),
                               hint |-> "none", hunks |-> <<>>])
  /\ UNCHANGED <<oldLine, newLine>>

FileMode ==
  /\ InsideFile /\ Reads(ModeTags)
  /\ parsed' = [parsed EXCEPT ![Current].hint =
                  IF Line.tag = "new file mode" THEN "added" ELSE "deleted"]
  /\ UNCHANGED <<oldLine, newLine>>

RenameLine ==
  /\ InsideFile /\ Reads({"rename from ", "rename to "}) /\ ~NonLocal(Line.path)
  /\ parsed' = [parsed EXCEPT
       ![Current] = IF Line.tag = "rename from "
                      THEN [@ EXCEPT !.old = NormalizedPath(Line.path), !.hint = "renamed"]
                      ELSE [@ EXCEPT !.new = NormalizedPath(Line.path), !.hint = "renamed"]]
  /\ UNCHANGED <<oldLine, newLine>>

(* Tested before it is known whether the line belongs to a hunk. *)
NameLine ==
  /\ InsideFile /\ Reads({"--- ", "+++ "}) /\ ~NonLocal(Line.path)
  /\ parsed' = [parsed EXCEPT
       ![Current] = IF Line.tag = "--- " THEN [@ EXCEPT !.old = NormalizedPath(Line.path)]
                                         ELSE [@ EXCEPT !.new = NormalizedPath(Line.path)]]
  /\ UNCHANGED <<oldLine, newLine>>

HunkLine ==
  /\ InsideFile /\ Reads({"@@"})
  /\ parsed' = [parsed EXCEPT ![Current].hunks = Append(@,
       [old |-> Line.old, new |-> Line.new, oldCount |-> Line.oldCount, newCount |-> Line.newCount,
        added |-> <<>>, removed |-> <<>>])]
  /\ oldLine' = Line.old /\ newLine' = Line.new

AddedLine ==
  /\ InsideHunk /\ Reads({"+"})
  /\ parsed' = [parsed EXCEPT ![Current].hunks[CurrentHunk].added = Append(@, newLine)]
  /\ newLine' = newLine + 1
  /\ UNCHANGED oldLine

(* Slip: a removed line counts in the new version, too. *)
RemovedLineCountsTwice ==
  /\ InsideHunk /\ Reads({"-"})
  /\ parsed' = [parsed EXCEPT ![Current].hunks[CurrentHunk].removed = Append(@, oldLine)]
  /\ oldLine' = oldLine + 1 /\ newLine' = newLine + 1

RemovedLine ==
  /\ InsideHunk /\ Reads({"-"})
  /\ parsed' = [parsed EXCEPT ![Current].hunks[CurrentHunk].removed = Append(@, oldLine)]
  /\ oldLine' = oldLine + 1
  /\ UNCHANGED newLine

(* Slip: a context line counts in the new version only. *)
ContextLineCountsOnce ==
  /\ InsideHunk /\ Reads({" "})
  /\ newLine' = newLine + 1
  /\ UNCHANGED <<parsed, oldLine>>

ContextLine ==
  /\ InsideHunk /\ Reads({" "})
  /\ oldLine' = oldLine + 1 /\ newLine' = newLine + 1
  /\ UNCHANGED parsed

(* Lines before the first file, body lines without a hunk, and lines that  *)
(* look like the rest of a header or like nothing known.                   *)
Ignore ==
  /\ \/ ~InsideFile /\ lines # <<>> /\ Reads({Line.tag} \ {"diff --git "})
     \/ InsideFile /\ ~InsideHunk /\ Reads(BodyTags)
     \/ InsideHunk /\ Reads({"+++", "---", "no newline", "other"})
  /\ UNCHANGED <<parsed, oldLine, newLine>>

(* ValueError: the command ends and writes nothing. *)
Refuse ==
  /\ parsing = "reading" /\ lines # <<>>
  /\ \/ Line.tag = "diff --git " /\ (NonLocal(OldWord) \/ NonLocal(NewWord))
     \/ /\ InsideFile /\ Line.tag \in NameTags
        /\ NonLocal(Line.path)
  /\ parsing' = "refused"
  /\ UNCHANGED <<diff, lines, parsed, oldLine, newLine>>

Finish ==
  /\ parsing = "reading" /\ lines = <<>>
  /\ parsing' = "done"
  /\ UNCHANGED <<diff, lines, parsed, oldLine, newLine>>

ParserNext ==
  \/ StartFile \/ FileMode \/ RenameLine \/ NameLine \/ HunkLine
  \/ AddedLine \/ RemovedLine \/ ContextLine \/ Ignore \/ Refuse \/ Finish

ParserSpec == ParserInit /\ [][ParserNext]_parserVars

(* _change_type *)
ChangeType(record) ==
  IF record.hint # "none" THEN record.hint
  ELSE IF record.old = NoPath THEN "added"
  ELSE IF record.new = NoPath THEN "deleted"
  ELSE IF record.old # record.new THEN "renamed"
  ELSE "modified"
------------------------------------------------------------------------------
(* The list has the number of each line with the sign: how many lines of   *)
(* that side come before it in the hunk.                                   *)
AreNumbers(list, body, start, sign, side) ==
  /\ Len(list) = CountTo(body, Len(body), {sign})
  /\ \A i \in DOMAIN body : body[i].sign = sign =>
       list[CountTo(body, i, {sign})] = start + CountTo(body, i - 1, side)

(* The hunk has the place and the lines that the text's meaning gives it.  *)
Exact(record, hunk) ==
  /\ record.old = hunk.old /\ record.new = hunk.new
  /\ AreNumbers(record.added, hunk.body, hunk.new, "+", NewSide)
  /\ AreNumbers(record.removed, hunk.body, hunk.old, "-", OldSide)

(* Every line of the hunk begins in the diff as its sign says, and none is *)
(* broken.                                                                 *)
PlainHunk(hunk) == \A i \in DOMAIN hunk.body : RawTag(hunk.body[i]) = hunk.body[i].sign

(* A piece of a line looks like the beginning of a file or of a hunk.      *)
Forged(d) ==
  \E i \in DOMAIN d.files : \E j \in DOMAIN d.files[i].hunks :
    LET body == d.files[i].hunks[j].body IN
    \E k \in DOMAIN body : RawTag(body[k]) \in {"diff --git ", "@@"}

LastHunk(i, j) == i = Len(diff.files) /\ j = Len(diff.files[i].hunks)

(* test_parse_unified_diff_records_changed_file_hunk_and_added_lines: the  *)
(* files and hunks are those of the diff and the added and removed lines   *)
(* of every hunk are the numbers these lines have in the two versions.     *)
EveryHunkIsExact ==
  parsing = "done" =>
    /\ Len(parsed) = Len(diff.files)
    /\ \A i \in DOMAIN parsed :
         /\ Len(parsed[i].hunks) = Len(diff.files[i].hunks)
         /\ \A j \in DOMAIN parsed[i].hunks :
              Exact(parsed[i].hunks[j], diff.files[i].hunks[j])

(* Lines that look like headers, and the pieces of broken ones, do no harm *)
(* outside their own hunk: every other hunk, of the same file and of the   *)
(* files after it, still has its place and exactly its lines.  Only the    *)
(* last hunk may take a mail signature for a line.  (A piece that looks    *)
(* like the beginning of a file or a hunk starts one.)                     *)
PlainHunksAreExact ==
  parsing = "done" /\ ~Forged(diff) =>
    /\ Len(parsed) = Len(diff.files)
    /\ \A i \in DOMAIN parsed :
         /\ Len(parsed[i].hunks) = Len(diff.files[i].hunks)
         /\ \A j \in DOMAIN parsed[i].hunks :
              PlainHunk(diff.files[i].hunks[j]) /\ ~(diff.signature /\ LastHunk(i, j))
                => Exact(parsed[i].hunks[j], diff.files[i].hunks[j])

IsRecordOf(record, change, old, new) ==
  /\ ChangeType(record) = change
  /\ change # "added" => record.old = old
  /\ change # "deleted" => record.new = new

(* test_parse_unified_diff_records_changed_file_hunk_and_added_lines and   *)
(* test_parse_unified_diff_detects_added_deleted_and_renamed_files: every  *)
(* file of a diff is recorded with its names and the change made to it.    *)
EveryFileIsNamed ==
  parsing = "done" =>
    \A i \in DOMAIN parsed :
      LET file == diff.files[i] IN IsRecordOf(parsed[i], file.change, file.old, file.new)

(* A file without a hunk and with a blank in its name is known from its    *)
(* first line only, unless it was renamed.                                 *)
Named(file) == file.hunks # <<>> \/ file.change = "renamed" \/ Blank \notin Elements(file.old)

(* A file renamed without another change has its names from lines without  *)
(* git's prefixes: out of or into a directory called a or b, that          *)
(* directory is taken for the prefix.                                      *)
Recorded(file, path) ==
  IF file.change = "renamed" /\ file.hunks = <<>> /\ InPrefix(path) THEN Tail(path) ELSE path

(* A file whose hunks are plain has the change and the names git gave it,  *)
(* however the header spells them, and but for the directories above.      *)
FilesAreExact ==
  parsing = "done" /\ ~Forged(diff) =>
    \A i \in DOMAIN parsed :
      LET file == diff.files[i]
          plain == \A j \in DOMAIN file.hunks : PlainHunk(file.hunks[j])
      IN  plain /\ Named(file) =>
            IsRecordOf(parsed[i], file.change, Recorded(file, file.old), Recorded(file, file.new))

(* What could lead out of the repository. *)
Suspicious(path) == {Root, ".."} \cap Elements(path) # {}

SuspiciousLine(line) ==
  RawTag(line) \in NameTags \cup {"diff --git "} /\ Suspicious(line.rest)

(* A diff is refused only if the name of a file, or a line that looks as   *)
(* if it named one, leads out of the repository, and what is accepted      *)
(* never does.                                                             *)
OnlyLocalPaths ==
  /\ parsing = "refused" =>
       \E i \in DOMAIN diff.files :
         LET file == diff.files[i] IN
         \/ Suspicious(file.old) \/ Suspicious(file.new)
         \/ \E j \in DOMAIN file.hunks :
              \E k \in DOMAIN file.hunks[j].body : SuspiciousLine(file.hunks[j].body[k])
  /\ \A i \in DOMAIN parsed : ~Outside(parsed[i].old) /\ ~Outside(parsed[i].new)

(* Whatever a hunk's lines look like, the lines it is said to add are      *)
(* different ones in the range its header gives, which each piece of a     *)
(* broken line can lead at most one line beyond: so far, and no further,   *)
(* may a hunk link to evidence that it does not touch.                     *)
AddedLinesStayInHunk ==
  ~Forged(diff) =>
    \A i \in DOMAIN parsed : \A j \in DOMAIN parsed[i].hunks :
      LET added == parsed[i].hunks[j].added
          hunk == diff.files[i].hunks[j]
          last == hunk.new + CountTo(hunk.body, Len(hunk.body), NewSide \cup {"broken"}) - 1
      IN Elements(added) \subseteq hunk.new .. last /\ IsInjective(added)
==============================================================================
