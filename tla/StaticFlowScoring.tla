-------------------------- MODULE StaticFlowScoring --------------------------
(***************************************************************************)
(* How analysis/flow.py scores one entrypoint against one target: the      *)
(* source terms are deduplicated and cut off, each term that the target    *)
(* mentions adds its score up to the cap of its signal type, proximity in  *)
(* one file adds a bonus, and a candidate needs a term signal and a        *)
(* minimal score.                                                          *)
(*                                                                         *)
(* A term is [type, value], the value as it is spelled in the source, but  *)
(* for case.  Deduplication goes by the value's token, which keeps letters *)
(* and digits only: com.a.b and com/a/b are one term, spelled like the     *)
(* first of them.  What is looked for in a target is the token too, except *)
(* for an exact handler, which is looked for as it is spelled.             *)
(***************************************************************************)
EXTENDS Lists, Functions

CONSTANTS
  SignalTypes,     \* the term signal types in use
  Values,          \* spellings of terms
  Token,           \* Token[v]: _normalize_token of a spelling
  NoToken,         \* what is left of a spelling too short or a stop word
  TermScore,       \* TermScore[s]: what one term of type s is worth
  SignalCap,       \* SignalCap[s]: what all terms of type s are worth at most
  ProximityScore,  \* what proximity in one file is worth
  MinScore,        \* MIN_STATIC_FLOW_SCORE
  MaxSourceTerms,  \* MAX_SOURCE_TERMS_PER_ENTRYPOINT
  MaxTargetTerms,  \* MAX_TARGET_TERMS_PER_TARGET
  TermLists,       \* the sequences of raw terms to consider
  Texts            \* the sets of spellings and tokens a target may mention

Terms == [type : SignalTypes, value : Values]

ASSUME ScoringAssumption ==
  /\ IsFiniteSet(SignalTypes)
  /\ TermScore \in [SignalTypes -> Nat \ {0}]
  /\ SignalCap \in [SignalTypes -> Nat \ {0}]
  /\ ProximityScore \in Nat
  /\ MinScore \in Nat \ {0}
  /\ MaxSourceTerms \in Nat /\ MaxTargetTerms \in Nat
  /\ DOMAIN Token = Values
  /\ TermLists \subseteq Seq(Terms)

None == 0  \* no candidate; a candidate's score is at least MinScore

VARIABLES
  raw,     \* terms of the entrypoint in the order they are collected
  target,  \* [text, tokens, near]: what occurs in the target's text, the words
           \* kept of it, and whether it lies near the entrypoint in its file
  pc,      \* "terms", "match", "proximity", "done"
  terms,   \* the deduplicated, cut off terms
  k,       \* position of the next term to match
  scoreByType,
  signals, \* the signals so far: [type, score]
  near,    \* the proximity signal was appended
  score    \* the candidate's score, or None

vars == <<raw, target, pc, terms, k, scoreByType, signals, near, score>>
------------------------------------------------------------------------------
(* _meaningful_tokens: not all that occurs in the text is a word of it, and *)
(* the words are an unordered set when it is cut, so any may be kept.       *)
Words(text) ==
  {t \in SUBSET (text \cap {Token[v] : v \in Values}) : Cardinality(t) <= MaxTargetTerms}

Init ==
  /\ raw \in TermLists
  /\ \E text \in Texts : \E tokens \in Words(text), isNear \in BOOLEAN :
       target = [text |-> text, tokens |-> tokens, near |-> isNear]
  /\ pc = "terms" /\ terms = <<>> /\ k = 1
  /\ scoreByType = [s \in SignalTypes |-> 0]
  /\ signals = <<>> /\ near = FALSE /\ score = None

(* _dedupe_terms: the first term of each type and token, if it has one.     *)
Keys(list) == [i \in DOMAIN list |-> [type |-> list[i].type, token |-> Token[list[i].value]]]

Firsts(list) == {i \in FirstOccurrences(Keys(list)) : Token[list[i].value] # NoToken}

Prefix(list, n) == SubSeq(list, 1, IF Len(list) < n THEN Len(list) ELSE n)

(* _source_terms, cut off *)
SourceTerms(list) == Prefix(Pick(list, Firsts(list)), MaxSourceTerms)

CollectTerms ==
  /\ pc = "terms"
  /\ terms' = SourceTerms(raw)
  /\ pc' = "match"
  /\ UNCHANGED <<raw, target, k, scoreByType, signals, near, score>>

(* Slip: only the words that were kept are looked at. *)
MatchesWord(term, t) == Token[term.value] \in t.tokens

(* _term_matches_target: tokens are looked for among the words that were   *)
(* kept and anywhere in the text, so the words change nothing.             *)
Matches(term, t) ==
  /\ Token[term.value] # NoToken
  /\ IF term.type = "HANDLER_EXACT" THEN term.value \in t.text
     ELSE Token[term.value] \in t.tokens \/ Token[term.value] \in t.text

(* _capped_signal_score: 0 once the type's cap is reached. *)
CappedScore(type, current) ==
  LET room == IF current < SignalCap[type] THEN SignalCap[type] - current ELSE 0 IN
  IF TermScore[type] < room THEN TermScore[type] ELSE room

(* Slip: the signal lists the score of its term before the cap. *)
MatchTermUncapped ==
  /\ pc = "match" /\ k <= Len(terms)
  /\ LET term == terms[k]
         gain == CappedScore(term.type, scoreByType[term.type])
     IN IF Matches(term, target) /\ gain > 0
          THEN /\ scoreByType' = [scoreByType EXCEPT ![term.type] = @ + gain]
               /\ signals' = Append(signals, [type |-> term.type, score |-> TermScore[term.type]])
          ELSE UNCHANGED <<scoreByType, signals>>
  /\ k' = k + 1
  /\ UNCHANGED <<raw, target, pc, terms, near, score>>

(* One turn of the loop over the source terms. *)
MatchTerm ==
  /\ pc = "match" /\ k <= Len(terms)
  /\ LET term == terms[k]
         gain == CappedScore(term.type, scoreByType[term.type])
     IN IF Matches(term, target) /\ gain > 0
          THEN /\ scoreByType' = [scoreByType EXCEPT ![term.type] = @ + gain]
               /\ signals' = Append(signals, [type |-> term.type, score |-> gain])
          ELSE UNCHANGED <<scoreByType, signals>>
  /\ k' = k + 1
  /\ UNCHANGED <<raw, target, pc, terms, near, score>>

EndOfTerms ==
  /\ pc = "match" /\ k > Len(terms)
  /\ pc' = "proximity"
  /\ UNCHANGED <<raw, target, terms, k, scoreByType, signals, near, score>>

Total(f) == FoldFunction(LAMBDA x, y : x + y, 0, f)

(* The proximity signal and the decision whether there is a candidate. *)
Decide ==
  /\ pc = "proximity"
  /\ near' = target.near
  /\ LET total == Total(scoreByType)
                    + (IF target.near THEN ProximityScore ELSE 0)
     IN score' = IF signals # <<>> /\ total >= MinScore THEN total ELSE None
  /\ pc' = "done"
  /\ UNCHANGED <<raw, target, terms, k, scoreByType, signals>>

Next == CollectTerms \/ MatchTerm \/ EndOfTerms \/ Decide

Spec == Init /\ [][Next]_vars
------------------------------------------------------------------------------
(* One spelling for each type and token, the first, of those before the cut. *)
Considered ==
  LET differs(i, j) == raw[i].type # raw[j].type \/ Token[raw[i].value] # Token[raw[j].value]
      first == {i \in DOMAIN raw : /\ Token[raw[i].value] # NoToken
                                   /\ \A j \in 1 .. i - 1 : differs(i, j)}
  IN  {raw[i] : i \in {i \in first : Cardinality({j \in first : j < i}) < MaxSourceTerms}}

(* What is looked for in the text. *)
Sought(term) == IF term.type = "HANDLER_EXACT" THEN term.value ELSE Token[term.value]

(* The score is a closed form of how many of these terms the text has: per *)
(* type their number times their worth, but no more than the cap, plus the *)
(* bonus.  Neither a repeated or respelled term, nor the order in which    *)
(* they are matched, nor the words an unordered cut happened to keep       *)
(* matters, so that the score is the same in every run of the program.     *)
(* What does matter of the order is said here too: which spelling comes    *)
(* first, and what comes before the cut.                                   *)
ScoreIsReproducible ==
  LET number(s) == Cardinality({t \in Considered : t.type = s /\ Sought(t) \in target.text})
      worth(s) == LET sum == number(s) * TermScore[s] IN
                  IF sum < SignalCap[s] THEN sum ELSE SignalCap[s]
      total == Total([s \in SignalTypes |-> worth(s)])
                 + (IF target.near THEN ProximityScore ELSE 0)
      evidence == \E s \in SignalTypes : number(s) > 0
  IN pc = "done" => score = IF evidence /\ total >= MinScore THEN total ELSE None

(* The signals a candidate lists account for its score to the last point,  *)
(* and hold more than the bonus: nobody is sent to a pair of detections    *)
(* just because they are close to each other.                              *)
SignalsExplainScore ==
  score # None =>
    LET term == Total([i \in DOMAIN signals |-> signals[i].score]) IN
    /\ score = term + (IF near THEN ProximityScore ELSE 0)
    /\ term > 0
==============================================================================
