------------------------------ MODULE MCPatchDiff ------------------------------
(* The diffs of MCPatchParser, with an audit that knows one line of each   *)
(* of two files; and, to vary the links, audits of two detections with up  *)
(* to two lines of evidence in two files, before, in, near and far behind  *)
(* the hunks of patches of one and two files.  The caps are within reach.  *)
EXTENDS PatchDiff, MCPatchParser

X == <<"src", "x">>
Y == <<"a", "y">>

At(id, file, line) == [id |-> id, file |-> file, line |-> line]

Evidence == {At("e1", X, 1), At("e2", X, 4), At("e3", X, 9), At("e4", Y, 4), At("e5", Y, 6)}

Lists(S, max) == UNION {[1 .. n -> S] : n \in 0 .. max}

Detection(id, type, evidence) == [id |-> id, type |-> type, evidence |-> evidence]

VariedAudits ==
  {<<Detection("entry", "EVIDENCE", first), Detection("boundary", "BOUNDARY", second)>> :
     first \in Lists(Evidence, 2), second \in Lists(Evidence, 2) \ {<<>>}}

OneAudit ==
  <<Detection("entry", "EVIDENCE", <<At("e1", X, 11), At("e2", <<"lib", "y">>, 40)>>)>>

Replaced == Hunk(4, 4, <<Plain(" "), Plain("-"), Plain("+")>>)
Deleted  == Hunk(3, 2, <<Plain("-")>>)
Grown    == Hunk(5, 6, <<Plain("+"), Plain("+"), Plain("+")>>)
Torn     == Hunk(1, 1, <<Plain("+")>> \o [n \in 1 .. 3 |-> Piece("+", <<"x">>)])

Modified(file, hunks) == File("modified", file, file, hunks)

HunkLists == {<<>>, <<Replaced>>, <<Deleted, Replaced>>, <<Deleted, Grown>>, <<Torn>>}

VariedFiles ==
  {<<Modified(X, hunks)>> : hunks \in HunkLists}
    \cup {<<Modified(<<"y">>, first), Modified(X, second)>> :
             first \in {<<>>, <<Replaced>>}, second \in {<<Replaced>>, <<Deleted, Grown>>}}
    \cup {<<File("renamed", X, Y, <<Grown>>)>>}

VariedDiffs == {Diff(files, FALSE, FALSE) : files \in VariedFiles}

AllDiffs == MCDiffs \cup VariedDiffs
MCAuditsOf(one) == IF one \in VariedDiffs THEN VariedAudits ELSE {OneAudit}
================================================================================
