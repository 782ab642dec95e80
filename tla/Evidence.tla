------------------------------- MODULE Evidence -------------------------------
(***************************************************************************)
(* Evidence ids: core/evidence.py numbers the evidence, and the helpers    *)
(* _unique_evidence and _combined_evidence_ids of the analysis and the     *)
(* reports merge lists of it.  Edges, detections and candidates have ids   *)
(* of the same make, so a number stands for each of them.                  *)
(***************************************************************************)
EXTENDS Lists

CONSTANT IdWidth  \* the digits a number is padded to

ASSUME EvidenceAssumption == IdWidth \in Nat \ {0}

TenTo[d \in Nat] == IF d = 0 THEN 1 ELSE 10 * TenTo[d - 1]

(* The digits of an id: the number's own, or the padding's. *)
Digits(n) ==
  LET own == CHOOSE d \in 1 .. n : TenTo[d - 1] <= n /\ n < TenTo[d]
  IN  IF own < IdWidth THEN IdWidth ELSE own

(* The order of two ids as strings: digit by digit from the left. *)
IdBefore(m, n) ==
  LET a == m * TenTo[Digits(n)]
      b == n * TenTo[Digits(m)]
  IN  a < b \/ (a = b /\ m < n)

(* Whatever has an id is referred to by it. *)
Ref(kind, n) == [kind |-> kind, n |-> n]
Refs(kind, list) == [i \in DOMAIN list |-> Ref(kind, i)]

(* The list without repetitions, each value at its first place. *)
Distinct(list) == Pick(list, FirstOccurrences(list))
===============================================================================
