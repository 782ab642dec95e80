--------------------------------- MODULE Lists ---------------------------------
(***************************************************************************)
(* Comprehensions over lists ([x for x in list if ...]), written without   *)
(* recursion: the elements at some positions, in their order.              *)
(***************************************************************************)
EXTENDS Integers, Sequences, FiniteSets

Elements(list) == {list[i] : i \in DOMAIN list}
IsList(list) == list \in Seq(Elements(list))

Nth(positions, m) ==
  CHOOSE i \in positions : Cardinality({j \in positions : j <= i}) = m

Pick(list, positions) ==
  [m \in 1 .. Cardinality(positions) |-> list[Nth(positions, m)]]

(* sorted(list, key=...): `before` is the strict order of the positions, the *)
(* set of its pairs.                                                       *)
Pairs(list) == (DOMAIN list) \X (DOMAIN list)

Sorted(list, before) ==
  LET ranked == {<<i, Cardinality({j \in DOMAIN list : j = i \/ <<j, i>> \in before})>> :
                   i \in DOMAIN list}
  IN  [m \in DOMAIN list |-> list[(CHOOSE p \in ranked : p[2] = m)[1]]]

(* [x for list in lists for x in list] *)
Joined(lists) ==
  LET upTo[n \in 0 .. Len(lists)] == IF n = 0 THEN <<>> ELSE upTo[n - 1] \o lists[n]
  IN  upTo[Len(lists)]

FirstOccurrences(list) == {i \in DOMAIN list : \A j \in 1 .. i - 1 : list[j] # list[i]}
================================================================================
