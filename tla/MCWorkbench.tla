----------------------------- MODULE MCWorkbench -----------------------------
(* The values of the constants are in the two configurations of this       *)
(* module: one audit beside reason and patch-diff, and two audits.         *)
EXTENDS Workbench
==============================================================================
