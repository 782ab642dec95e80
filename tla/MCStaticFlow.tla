---------------------------- MODULE MCStaticFlow -----------------------------
(* Three entrypoints, three targets, scores below and at the threshold and *)
(* above it, so that ties, empty entrypoints and both caps occur.          *)
EXTENDS StaticFlow

MCScorings == [1 .. 3 -> [1 .. 3 -> {0, 60, 90}]]

(* The loop with its early exit implements the selection without it: what  *)
(* it returns is the beginning of the list of all entrypoints' best        *)
(* candidates, so a smaller total cap only shortens the result; and it     *)
(* does return, whichever cap or end of the input it meets first.          *)
ImplementsSelection == Abstract!Spec
==============================================================================
