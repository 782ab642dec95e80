------------------------- MODULE MCStaticFlowScoring -------------------------
(* The scores, caps and threshold of flow.py; up to four terms, with three *)
(* tokens so that declared parameters pass their cap and the third of the  *)
(* exact handlers (90 each, at most 200) gets only what is left.  One      *)
(* token has two spellings, and one spelling has no token.                 *)
EXTENDS StaticFlowScoring

Types == {"HANDLER_EXACT", "HANDLER_METHOD", "DECLARED_PARAMETER", "REQUEST_PARAMETER",
          "ROUTE_TOKEN"}

Score == [HANDLER_EXACT |-> 90, HANDLER_METHOD |-> 45, DECLARED_PARAMETER |-> 20,
          REQUEST_PARAMETER |-> 40, ROUTE_TOKEN |-> 10]

Cap == [HANDLER_EXACT |-> 200, HANDLER_METHOD |-> 200, DECLARED_PARAMETER |-> 40,
        REQUEST_PARAMETER |-> 40, ROUTE_TOKEN |-> 20]

MCToken == [v \in {"com.a.b", "com/a/b", "cart", "save", "do"} |->
              CASE v \in {"com.a.b", "com/a/b"} -> "comab"
                [] v = "do" -> "none"
                [] OTHER -> v]

Term(type, value) == [type |-> type, value |-> value]

Pool == {Term("HANDLER_METHOD", "save"), Term("REQUEST_PARAMETER", "save"),
         Term("ROUTE_TOKEN", "cart")}
          \cup {Term("HANDLER_EXACT", value) : value \in DOMAIN MCToken}
          \cup {Term("DECLARED_PARAMETER", value) : value \in {"com.a.b", "com/a/b", "cart", "save"}}

RawTerms == UNION {[1 .. n -> Pool] : n \in 1 .. 4}
TargetTexts == {{"save"}, {"com.a.b", "cart"}, {"com/a/b", "comab", "cart", "save"}}
==============================================================================
