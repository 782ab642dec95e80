-------------------------- MODULE EnterpriseResolver --------------------------
(***************************************************************************)
(* analysis/enterprise_resolver.py, and the handler terms of               *)
(* analysis/graph.py: how well the handler of an entrypoint matches the    *)
(* text around a consumer or a worker.                                     *)
(*                                                                         *)
(* A name is a sequence of words (com.acme.Cart has three), a text is the  *)
(* set of the longest names found in it; case is left out.  A word occurs  *)
(* in the middle of another one only as its beginning (Cart in CartItem).  *)
(***************************************************************************)
EXTENDS Integers, Sequences, FiniteSets

CONSTANTS
  Words,
  Short,    \* the words of fewer than four letters
  StopWords,
  Begins,   \* <<a, b>>: the longer word b begins with a
  NoMethod

ASSUME ResolverAssumption ==
  /\ Short \subseteq Words /\ StopWords \subseteq Words
  /\ Begins \subseteq Words \X Words
  /\ NoMethod \notin Words

Name == Seq(Words) \ {<<>>}

(* class is <<>> and method NoMethod where _handler_parts returns None.    *)
Handler == [class : Seq(Words), method : Words \cup {NoMethod}]

WordsOf(text) == UNION {{n[i] : i \in DOMAIN n} : n \in text}

MeaningfulTokens(words) == words \ (Short \cup StopWords)

Last(n) == n[Len(n)]

(* c.lower() in text.lower() *)
Occurs(c, text) ==
  \E n \in text : \E k \in 0 .. Len(n) - Len(c) : \A i \in DOMAIN c :
    \/ n[k + i] = c[i]
    \/ i = Len(c) /\ <<c[i], n[k + i]>> \in Begins

MethodOf(h) == {h.method} \ {NoMethod}
SimpleClassOf(h) == IF h.class = <<>> THEN {} ELSE {Last(h.class)}

(* e.words: the words of route, framework hint and evidence. *)
SourceTokens(e) ==
  MeaningfulTokens(e.words \cup MethodOf(e.handler)
                     \cup {e.handler.class[i] : i \in DOMAIN e.handler.class})

(* t.text: the names in the evidence; path and pattern are searched, too. *)
TargetText(t) == t.text \cup {t.file, t.pattern}
TargetTokens(t) == MeaningfulTokens(WordsOf(TargetText(t)))

Least(a, b) == IF a < b THEN a ELSE b

ClassScore(h, t) ==
  IF h.class # <<>> /\ Occurs(h.class, TargetText(t)) THEN 90
  ELSE IF SimpleClassOf(h) \cap TargetTokens(t) # {} THEN 60
  ELSE 0

MethodScore(h, t) == IF h.method \in TargetTokens(t) THEN 45 ELSE 0

(* Slip: common words count although nothing of the handler is found. *)
UnanchoredScore(e, t) ==
  ClassScore(e.handler, t) + MethodScore(e.handler, t)
    + Least(60, 20 * Cardinality(SourceTokens(e) \cap TargetTokens(t)))

(* Words in common only add to a score that the handler gave. *)
Score(e, t) ==
  LET named == ClassScore(e.handler, t) + MethodScore(e.handler, t) IN
  IF named = 0 THEN 0
  ELSE named + Least(30, 10 * Cardinality(SourceTokens(e) \cap TargetTokens(t)))

(* Slip: the method is not looked up. *)
ClassTokens(h) == MeaningfulTokens(SimpleClassOf(h))

HandlerTokens(h) == MeaningfulTokens(SimpleClassOf(h) \cup MethodOf(h))

(* Found in an index: by the qualified name, or by a token of the handler. *)
Indexed(e, t) ==
  \/ Len(e.handler.class) > 1 /\ e.handler.class \in TargetText(t)
  \/ HandlerTokens(e.handler) \cap TargetTokens(t) # {}

Resolves(e, t) == Indexed(e, t) /\ Score(e, t) >= 40

ResolvedConfidence(e, t) == IF Score(e, t) >= 80 THEN "high" ELSE "medium"

(* _handler_terms of graph.py: the class as written, then its simple name. *)
HandlerTerms(h) ==
  LET long(n) == Len(n) > 1 \/ (Len(n) = 1 /\ n[1] \notin Short) IN
  SelectSeq(IF Len(h.class) > 1 THEN <<h.class, <<Last(h.class)>>>> ELSE <<h.class>>,
            long)

(* _handler_match_rank: 0 for the whole class, 1 for its simple name, or 2. *)
HandlerMatchRank(h, t) ==
  LET terms == HandlerTerms(h)
      found == {i \in DOMAIN terms : Occurs(terms[i], t.text)}
  IN  IF found = {} THEN 2 ELSE IF 1 \in found THEN 0 ELSE 1
===============================================================================
