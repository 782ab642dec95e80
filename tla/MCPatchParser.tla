---------------------------- MODULE MCPatchParser -----------------------------
(* Two families of diffs.  In the first, the first hunk of a file takes    *)
(* every body of up to three lines, among them lines of the source that    *)
(* begin with dashes or plus signs, and another hunk and another file      *)
(* follow.  In the second, the files vary: their change, their paths, one  *)
(* of them with a blank, and whether they have hunks.                      *)
EXTENDS PatchParser

SourceLine(sign, begins, rest) == [sign |-> sign, begins |-> begins, rest |-> rest]
Plain(sign) == SourceLine(sign, "", <<"x">>)

Piece(begins, rest) == SourceLine("broken", begins, rest)

PlainLines == {Plain(sign) : sign \in {" ", "-", "+"}}
HeaderLike == {SourceLine("-", "-- ", <<"note">>), SourceLine("+", "++ ", <<"i">>),
               SourceLine("-", "-- ", <<"..", "note">>), SourceLine("+", "++ ", <<Root, "i">>),
               SourceLine("-", "--", <<"n">>), SourceLine("+", "++", <<"i">>),
               SourceLine(" ", "-- ", <<"note">>), SourceLine(" ", "nothing", <<"x">>),
               Plain("no newline")}

Broken == {Piece("+", <<"x">>), Piece("-", <<"x">>), Piece(" ", <<"x">>),
           Piece("--- ", <<"..", "y">>), Piece("rename to ", <<"y">>),
           Piece("deleted file mode", <<"x">>), Piece("@@", <<4, 3, 0, 1>>),
           Piece("diff --git ", <<"a", "y", Blank, "b", "y">>)}

Bodies(lineSet, max) == UNION {[1 .. n -> lineSet] : n \in 1 .. max}

Hunk(old, new, body) == [old |-> old, new |-> new, body |-> body]
File(change, old, new, hunks) == [change |-> change, old |-> old, new |-> new, hunks |-> hunks]
Diff(files, cover, signature) == [files |-> files, cover |-> cover, signature |-> signature]

PlainHunkAt(line) == Hunk(line, line + 1, <<Plain(" "), Plain("-"), Plain("+"), Plain("+")>>)
OtherFile == File("modified", <<"lib", "y">>, <<"lib", "y">>, <<PlainHunkAt(1)>>)

ByBody ==
  {Diff(<<File("modified", <<"src", "x">>, <<"src", "x">>, <<Hunk(10, 10, body), PlainHunkAt(30)>>),
          OtherFile>>, FALSE, signature)
     : body \in Bodies(PlainLines \cup HeaderLike \cup Broken, 3), signature \in BOOLEAN}

SomePaths == {<<"src", "x">>, <<"a", "x">>, <<"..", "x">>, <<"src", "my", Blank, "x">>,
          <<"src", "..", Blank, "x">>}

ChangedFiles ==
  {File(change, old, old, hunks) : change \in {"modified", "added", "deleted"},
                                   old \in SomePaths, hunks \in {<<>>, <<PlainHunkAt(5)>>}}
    \cup {File("renamed", old, <<"b", "x">>, hunks) :
                                   old \in SomePaths, hunks \in {<<>>, <<PlainHunkAt(5)>>}}

ByFile == {Diff(<<f, OtherFile, g>>, cover, FALSE) :
             f \in ChangedFiles, g \in ChangedFiles, cover \in BOOLEAN}

MCDiffs == ByBody \cup ByFile

(* A diff of one file with one hunk of up to three lines. *)
SmallDiffs ==
  {Diff(<<File("modified", <<"src", "x">>, <<"src", "x">>, <<Hunk(10, 10, body)>>)>>, FALSE, FALSE)
     : body \in Bodies(PlainLines \cup {SourceLine("-", "-- ", <<"note">>)}, 3)}

(* Two files, each with any change; names with a blank and without. *)
NamedDiffs ==
  {Diff(<<f, g>>, FALSE, FALSE) :
     f, g \in {f \in ChangedFiles : f.old \in {<<"src", "x">>, <<"src", "my", Blank, "x">>}}}
==============================================================================
