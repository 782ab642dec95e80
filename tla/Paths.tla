--------------------------------- MODULE Paths ---------------------------------
(***************************************************************************)
(* The paths of patchdiff: a path is the sequence of its components.       *)
(* Root, as the first one, makes it an absolute path; Blank stands for the *)
(* blanks in a name, in the place of the slash that joins the others.      *)
(***************************************************************************)
EXTENDS Sequences, Naturals

Root == "/"
Blank == " "

(* What _normalize_path, of the parser and of the engine, takes for git's  *)
(* prefix: a first directory called a or b.                                *)
InPrefix(path) == Len(path) > 1 /\ path[1] \in {"a", "b"} /\ path[2] # Blank
================================================================================
