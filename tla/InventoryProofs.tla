---------------------------- MODULE InventoryProofs ----------------------------
(***************************************************************************)
(* Proofs about the detections, boundaries and primitives of one audit,    *)
(* for all repositories, selections and orders of what is found.           *)
(***************************************************************************)
EXTENDS Inventory, ListLemmas
--------------------------------------------------------------------------------
(* The inductive invariant.                                                *)

MatchStages == {"entrypoints", "consumers", "workers"}
Stages == MatchStages \cup {"boundaries", "primitives", "done"}

Order(s) ==
  CASE s = "entrypoints" -> 1
    [] s = "consumers" -> 2
    [] s = "workers" -> 3
    [] s = "boundaries" -> 4
    [] s = "primitives" -> 5
    [] s = "done" -> 6

Control ==
  /\ repo \in Repositories /\ stage \in Stages
  /\ file \in 1 .. NumFiles + 1 /\ numbered \in Nat
  /\ IsList(found)

(* A match of a known pattern, made by now, with the next number of its    *)
(* stage if the configuration selects it.                                  *)
IsMatch(m) ==
  /\ m.stage \in MatchStages /\ Order(m.stage) <= Order(stage)
  /\ m.file \in 1 .. NumFiles
  /\ m.id = None <=> ~Selected(m)
  /\ m.id # None => /\ m.id \in Evidences /\ m.id.stage = m.stage
                    /\ m.stage = stage => m.id.n <= numbered

FoundAreMatches == \A i \in DOMAIN found : IsMatch(found[i])

IdsDiffer ==
  \A i, j \in DOMAIN found : found[i].id = found[j].id /\ found[i].id # None => i = j

(* The evidences of stage s in file f. *)
IdsOf(s, f) ==
  {found[i].id : i \in {j \in DOMAIN found :
                          found[j].stage = s /\ found[j].file = f /\ found[j].id # None}}

FieldsOf(s) ==
  CASE s = "entrypoints" -> {"id", "file", "hint", "name", "evidence"}
    [] s = "consumers" -> {"id", "file", "type", "terms", "evidence"}
    [] s = "workers" -> {"id", "file", "pattern", "evidence"}

IsDetection(s, d) ==
  /\ DOMAIN d = FieldsOf(s)
  /\ d.id \in Nat \ {0} /\ d.file \in 1 .. NumFiles
  /\ d.evidence # {} /\ d.evidence \subseteq IdsOf(s, d.file)

(* All evidences of stage s, each in one detection of its own file.        *)
Keeps(s, list) ==
  /\ IsList(list)
  /\ \A d \in DOMAIN list : IsDetection(s, list[d])
  /\ \A d, e \in DOMAIN list : list[d].evidence \cap list[e].evidence # {} => d = e
  /\ \A i \in DOMAIN found : found[i].stage = s /\ found[i].id # None =>
       \E d \in DOMAIN list : found[i].id \in list[d].evidence

EvidenceIsKept == \A s \in MatchStages : Keeps(s, Detected(s))

(* Entrypoints are numbered before they are merged, and distinct after.    *)
EntrypointsAreDistinct ==
  IF stage = "entrypoints"
    THEN \A i \in DOMAIN entrypoints : entrypoints[i].id = i
    ELSE \A i, j \in DOMAIN entrypoints : i < j =>
           entrypoints[i].id < entrypoints[j].id /\ ~SameKey(entrypoints[i], entrypoints[j])

WorkersAreDistinct ==
  \A i, j \in DOMAIN workers :
    i < j /\ workers[i].file = workers[j].file /\ workers[i].pattern = workers[j].pattern
      => workers[i].pattern = "taskengine_task"

ConsumersAreKnown ==
  \A i \in DOMAIN consumers :
    consumers[i].type \in {ConsumerType(pattern) : pattern \in KnownConsumers}

Inferred ==
  /\ boundaries = IF stage \in {"primitives", "done"}
                    THEN InferBoundaries(entrypoints, consumers, workers) ELSE <<>>
  /\ primitives = IF stage = "done"
                    THEN ClassifyPrimitives(boundaries, consumers, workers) ELSE <<>>

IInv ==
  /\ Control /\ FoundAreMatches /\ IdsDiffer /\ EvidenceIsKept
  /\ EntrypointsAreDistinct /\ WorkersAreDistinct /\ ConsumersAreKnown
  /\ Inferred
--------------------------------------------------------------------------------
(* No detector's pattern is missing from the table of known ones.          *)

LEMMA EntrypointsAreKnown ==
  ASSUME NEW traits, NEW d \in EntrypointDetectors(traits)
  PROVE  d.pattern \in Known("entrypoints")
<1>1. d \in JavaScriptDetectors \cup ServerConfigDetectors \cup JavaDetectors
            \cup PythonDetectors \cup OtherLanguageDetectors
            \cup WebLanguageDetectors \cup LineDetectors
  BY DEF EntrypointDetectors
<1>2. d \in JavaScriptDetectors => d.pattern \in KnownEntrypoints
  BY DEF JavaScriptDetectors, Detector, KnownEntrypoints
<1>3. d \in ServerConfigDetectors => d.pattern \in KnownEntrypoints
  BY DEF ServerConfigDetectors, Detector, KnownEntrypoints
<1>4. d \in JavaDetectors => d.pattern \in KnownEntrypoints
  BY DEF JavaDetectors, Detector, KnownEntrypoints
<1>5. d \in PythonDetectors => d.pattern \in KnownEntrypoints
  BY DEF PythonDetectors, Detector, KnownEntrypoints
<1>6. d \in OtherLanguageDetectors => d.pattern \in KnownEntrypoints
  BY DEF OtherLanguageDetectors, Detector, KnownEntrypoints
<1>7. d \in WebLanguageDetectors => d.pattern \in KnownEntrypoints
  BY DEF WebLanguageDetectors, Detector, KnownEntrypoints
<1>8. d \in LineDetectors => d.pattern \in KnownEntrypoints
  BY DEF LineDetectors, Detector, KnownEntrypoints
<1>9. QED
  BY <1>1, <1>2, <1>3, <1>4, <1>5, <1>6, <1>7, <1>8 DEF Known

LEMMA OthersAreKnown ==
  /\ \A traits : ConsumerPatterns(traits) \subseteq Known("consumers")
  /\ LineWorkers \cup {"taskengine_task", "path_hint"} \subseteq Known("workers")
  /\ "taskengine_task" \notin LineWorkers
BY DEF ConsumerPatterns, Known, KnownConsumers, KnownWorkers, LineConsumers, LineWorkers

(* What is allowed is what is selected. *)
LEMMA AllowedIsSelected ==
  ASSUME NEW pattern \in Known(stage), NEW m, m.stage = stage, m.pattern = pattern
  PROVE  IsAllowed(pattern) <=> Selected(m)
BY DEF IsAllowed, Allowed, Selected
--------------------------------------------------------------------------------
(* A match.                                                                *)

LEMMA MatchStagesDiffer ==
  /\ \A s \in MatchStages : Order(s) \in Nat
  /\ \A s \in Stages : Order(s) \in Nat
  /\ MatchStages \subseteq Stages
BY DEF MatchStages, Stages, Order

Finds(pattern) ==
  /\ stage \in MatchStages /\ file <= NumFiles /\ pattern \in Known(stage)
  /\ found' = Append(found, Match(pattern))
  /\ numbered' = (IF IsAllowed(pattern) THEN numbered + 1 ELSE numbered)
  /\ repo' = repo /\ stage' = stage

LEMMA FoundGrows ==
  ASSUME Control, FoundAreMatches, IdsDiffer, NEW pattern, Finds(pattern)
  PROVE  /\ IsList(found)' /\ FoundAreMatches' /\ IdsDiffer'
         /\ \A s, f : IdsOf(s, f) \subseteq IdsOf(s, f)'
         /\ IsAllowed(pattern) => /\ \A s, f : s = stage /\ f = file => EvidenceId \in IdsOf(s, f)'
                                  /\ EvidenceId # None
                                  /\ \A s, f : EvidenceId \notin IdsOf(s, f)
         /\ \A i \in DOMAIN found' :
              \/ i \in DOMAIN found /\ found'[i] = found[i]
              \/ /\ found'[i].stage = stage
                 /\ IF IsAllowed(pattern) THEN found'[i].id = EvidenceId
                                          ELSE found'[i].id = None
<1> DEFINE l == Len(found)
<1> PICK m : m = Match(pattern)
  OBVIOUS
<1>1. /\ stage \in MatchStages /\ file \in 1 .. NumFiles /\ pattern \in Known(stage)
      /\ found' = Append(found, m) /\ repo' = repo /\ stage' = stage /\ NumFiles' = NumFiles
      /\ numbered \in Nat /\ numbered' \in Nat
      /\ numbered' = (IF IsAllowed(pattern) THEN numbered + 1 ELSE numbered)
  <2>1. NumFiles' = NumFiles
    BY DEF Finds, NumFiles
  <2>2. file \in 1 .. NumFiles
    <3>1. NumFiles \in Nat
      BY InventoryAssumption, ListFacts DEF Control, NumFiles
    <3>2. QED
      BY <3>1 DEF Control, Finds
  <2>3. QED
    BY <2>1, <2>2 DEF Control, Finds
<1>2. /\ IsList(found') /\ l \in Nat /\ DOMAIN found = 1 .. l /\ DOMAIN found' = 1 .. l + 1
      /\ \A i \in 1 .. l : found'[i] = found[i]
      /\ found'[l + 1] = m
  <2>1. IsList(found)
    BY DEF Control
  <2>2. /\ IsList(Append(found, m)) /\ Len(found) \in Nat /\ DOMAIN found = 1 .. Len(found)
        /\ Len(Append(found, m)) = Len(found) + 1
        /\ DOMAIN Append(found, m) = 1 .. Len(found) + 1
        /\ \A i \in 1 .. Len(found) : Append(found, m)[i] = found[i]
        /\ Append(found, m)[Len(found) + 1] = m
    BY <2>1, ListAppend
  <2>3. QED
    BY <1>1, <2>2
<1>3. \A i \in 1 .. l + 1 : i \in 1 .. l \/ i = l + 1
  BY <1>2
<1>4. /\ m.stage = stage /\ m.file = file /\ m.pattern = pattern
      /\ m.id = (IF IsAllowed(pattern) THEN EvidenceId ELSE None)
  BY DEF Match
<1>5. /\ EvidenceId \in Evidences /\ EvidenceId.stage = stage
      /\ EvidenceId.n = numbered + 1 /\ EvidenceId # None
  BY <1>1, InventoryAssumption DEF EvidenceId, Evidences, MatchStages
<1> HIDE DEF l
<1>6. IsAllowed(pattern) <=> Selected(m)
  BY <1>1, <1>4, AllowedIsSelected
<1>7. \A n : Selected(n)' <=> Selected(n)
  BY <1>1 DEF Selected
<1>8. IsMatch(m)'
  <2>1. Order(m.stage) <= Order(stage')
    <3>1. \A n \in Nat : n <= n
      OBVIOUS
    <3>2. QED
      BY <1>1, <1>4, <3>1, MatchStagesDiffer
  <2>4. m.id # None => IsAllowed(pattern) /\ m.id = EvidenceId /\ m.id.n <= numbered'
    BY <1>1, <1>4, <1>5
  <2>5. m.id = None <=> ~Selected(m)
    BY <1>4, <1>5, <1>6
  <2>6. QED
    BY <1>1, <1>4, <1>5, <1>7, <2>1, <2>4, <2>5 DEF IsMatch
<1>9. \A n : IsMatch(n) => IsMatch(n)'
  <2>1. \A n : n.id \in Evidences /\ n.id.n <= numbered => n.id.n <= numbered'
    <3>1. \A a \in Evidences : a.n \in Nat
      BY DEF Evidences
    <3>2. \A k \in Nat : k <= numbered => k <= numbered + 1
      BY <1>1
    <3>3. QED
      BY <1>1, <3>1, <3>2
  <2>2. QED
    BY <1>1, <1>7, <2>1 DEF IsMatch
<1>10. FoundAreMatches'
  <2>1. \A i \in DOMAIN found : IsMatch(found[i])
    BY DEF FoundAreMatches
  <2>2. \A n : n \in {found[i] : i \in DOMAIN found} \cup {m} => IsMatch(n)'
    BY <1>8, <1>9, <2>1
  <2>3. \A i \in DOMAIN found' : found'[i] \in {found[k] : k \in DOMAIN found} \cup {m}
    BY <1>2, <1>3
  <2>4. QED
    BY <2>2, <2>3 DEF FoundAreMatches
<1>11. IsAllowed(pattern) => \A i \in DOMAIN found : found[i].id # EvidenceId
  <2>1. \A i \in DOMAIN found : found[i].id = EvidenceId =>
          found[i].id.stage = stage /\ found[i].id.n <= numbered
    BY <1>5 DEF FoundAreMatches, IsMatch
  <2>2. ~(numbered + 1 <= numbered)
    BY <1>1
  <2>3. QED
    BY <1>5, <2>1, <2>2
<1>12. IdsDiffer'
  <2>1. \A i \in 1 .. l : found[i].id = m.id => m.id = None
    BY <1>2, <1>4, <1>11
  <2>2. \A i, j \in 1 .. l : found[i].id = found[j].id /\ found[i].id # None => i = j
    BY <1>2 DEF IdsDiffer
  <2>3. \A i, j \in DOMAIN found' : found'[i].id = found'[j].id /\ found'[i].id # None => i = j
    BY <1>2, <1>3, <2>1, <2>2
  <2>4. QED
    BY <2>3 DEF IdsDiffer
<1>13. \A s, f : IdsOf(s, f) \subseteq IdsOf(s, f)'
  BY <1>2, <1>3 DEF IdsOf
<1>14. IsAllowed(pattern) => \A s, f : s = stage /\ f = file => EvidenceId \in IdsOf(s, f)'
  <2>1. l + 1 \in DOMAIN found'
    BY <1>2
  <2>2. \A s, f : s = found'[l + 1].stage /\ f = found'[l + 1].file /\ found'[l + 1].id # None
                  => found'[l + 1].id \in IdsOf(s, f)'
    BY <2>1 DEF IdsOf
  <2>3. QED
    BY <1>2, <1>4, <1>5, <2>2
<1>15. IsAllowed(pattern) => \A s, f : EvidenceId \notin IdsOf(s, f)
  BY <1>11 DEF IdsOf
<1>16. \A i \in DOMAIN found' :
         \/ i \in DOMAIN found /\ found'[i] = found[i]
         \/ /\ found'[i].stage = stage
            /\ IF IsAllowed(pattern) THEN found'[i].id = EvidenceId ELSE found'[i].id = None
  BY <1>2, <1>3, <1>4
<1>17. QED
  BY <1>2, <1>5, <1>10, <1>12, <1>13, <1>14, <1>15, <1>16
--------------------------------------------------------------------------------
(* What a match does to the list of its stage, and to the others.          *)

LEMMA FilesStay ==
  ASSUME repo' = repo
  PROVE  NumFiles' = NumFiles
BY DEF NumFiles

LEMMA KeepsOthers ==
  ASSUME Control, FoundAreMatches, IdsDiffer, NEW pattern, Finds(pattern),
         NEW s, NEW list, Keeps(s, list), s # stage \/ ~IsAllowed(pattern)
  PROVE  Keeps(s, list)'
<1>1. /\ \A f : IdsOf(s, f) \subseteq IdsOf(s, f)'
      /\ \A i \in DOMAIN found' :
           \/ i \in DOMAIN found /\ found'[i] = found[i]
           \/ /\ found'[i].stage = stage
              /\ IF IsAllowed(pattern) THEN found'[i].id = EvidenceId
                                       ELSE found'[i].id = None
      /\ NumFiles' = NumFiles
  BY FoundGrows, FilesStay DEF Finds
<1>2. \A d \in DOMAIN list : IsDetection(s, list[d])'
  BY <1>1 DEF Keeps, IsDetection
<1>3. \A i \in DOMAIN found' : found'[i].stage = s /\ found'[i].id # None =>
        \E d \in DOMAIN list : found'[i].id \in list[d].evidence
  BY <1>1 DEF Keeps
<1>4. QED
  BY <1>2, <1>3 DEF Keeps

(* The evidence of a new detection is new.                                 *)
LEMMA KeepsNew ==
  ASSUME Control, FoundAreMatches, IdsDiffer, NEW pattern, Finds(pattern), IsAllowed(pattern),
         NEW s, s = stage, NEW list, Keeps(s, list),
         NEW d, DOMAIN d = FieldsOf(s), d.id = Len(list) + 1, d.file = file,
         d.evidence = {EvidenceId}
  PROVE  Keeps(s, Append(list, d))'
<1>1. PICK id, f : id = EvidenceId /\ f = file
  OBVIOUS
<1>2. /\ \A g : IdsOf(s, g) \subseteq IdsOf(s, g)'
      /\ id \in IdsOf(s, f)' /\ \A g : id \notin IdsOf(s, g)
      /\ \A i \in DOMAIN found' :
           \/ i \in DOMAIN found /\ found'[i] = found[i]
           \/ found'[i].stage = s /\ found'[i].id = id
  BY <1>1, FoundGrows
<1>3. NumFiles' = NumFiles /\ f \in 1 .. NumFiles
  <2>1. NumFiles \in Nat
    BY InventoryAssumption, ListFacts DEF Control, NumFiles
  <2>2. QED
    BY <1>1, <2>1, FilesStay DEF Finds, Control
<1>4. PICK new : new = Append(list, d)
  OBVIOUS
<1>5. /\ IsList(new) /\ Len(list) \in Nat /\ DOMAIN list = 1 .. Len(list)
      /\ DOMAIN new = 1 .. Len(list) + 1
      /\ \A i \in 1 .. Len(list) : new[i] = list[i]
      /\ new[Len(list) + 1] = d
  <2>1. IsList(list)
    BY DEF Keeps
  <2>2. /\ IsList(Append(list, d)) /\ Len(list) \in Nat /\ DOMAIN list = 1 .. Len(list)
        /\ Len(Append(list, d)) = Len(list) + 1
        /\ DOMAIN Append(list, d) = 1 .. Len(list) + 1
        /\ \A i \in 1 .. Len(list) : Append(list, d)[i] = list[i]
        /\ Append(list, d)[Len(list) + 1] = d
    BY <2>1, ListAppend
  <2>3. QED
    BY <1>4, <2>2
<1>6. \A i \in 1 .. Len(list) + 1 : i \in 1 .. Len(list) \/ i = Len(list) + 1
  BY <1>5
<1>7. IsDetection(s, d)'
  <2>1. Len(list) + 1 \in Nat \ {0}
    BY <1>5
  <2>2. QED
    BY <1>1, <1>2, <1>3, <2>1 DEF IsDetection, FieldsOf
<1>8. \A i \in DOMAIN new : IsDetection(s, new[i])'
  <2>1. \A i \in 1 .. Len(list) : IsDetection(s, list[i])'
    BY <1>2, <1>3, <1>5 DEF Keeps, IsDetection
  <2>2. QED
    BY <1>5, <1>6, <1>7, <2>1
<1>9. \A i, j \in DOMAIN new : new[i].evidence \cap new[j].evidence # {} => i = j
  <2>1. \A i \in 1 .. Len(list) : id \notin list[i].evidence
    BY <1>2, <1>5 DEF Keeps, IsDetection
  <2>2. \A i, j \in 1 .. Len(list) : list[i].evidence \cap list[j].evidence # {} => i = j
    BY <1>5 DEF Keeps
  <2>3. QED
    BY <1>1, <1>5, <1>6, <2>1, <2>2
<1>10. \A i \in DOMAIN found' : found'[i].stage = s /\ found'[i].id # None =>
         \E k \in DOMAIN new : found'[i].id \in new[k].evidence
  <2>1. Len(list) + 1 \in DOMAIN new /\ id \in new[Len(list) + 1].evidence
    BY <1>1, <1>5
  <2>2. \A i \in DOMAIN found : found[i].stage = s /\ found[i].id # None =>
          \E k \in DOMAIN new : found[i].id \in new[k].evidence
    BY <1>5, <1>6 DEF Keeps
  <2>3. QED
    BY <1>2, <2>1, <2>2
<1>11. Keeps(s, new)'
  BY <1>5, <1>8, <1>9, <1>10 DEF Keeps
<1>12. QED
  BY <1>4, <1>11

(* One more evidence for a detection of the same file.                     *)
LEMMA KeepsMore ==
  ASSUME Control, FoundAreMatches, IdsDiffer, NEW pattern, Finds(pattern), IsAllowed(pattern),
         NEW s, s = stage, s \in MatchStages, NEW list, Keeps(s, list),
         NEW k \in DOMAIN list, list[k].file = file
  PROVE  LET id == EvidenceId
             new == [list EXCEPT ![k].evidence = @ \cup {id}]
         IN  /\ \A l : l = new => Keeps(s, l)'
             /\ DOMAIN new = DOMAIN list
             /\ \A i \in DOMAIN list : \A x \in FieldsOf(s) \ {"evidence"} : new[i][x] = list[i][x]
<1>1. PICK id, f : id = EvidenceId /\ f = file
  OBVIOUS
<1>2. /\ \A g : IdsOf(s, g) \subseteq IdsOf(s, g)'
      /\ id \in IdsOf(s, f)' /\ \A g : id \notin IdsOf(s, g)
      /\ \A i \in DOMAIN found' :
           \/ i \in DOMAIN found /\ found'[i] = found[i]
           \/ found'[i].stage = s /\ found'[i].id = id
      /\ NumFiles' = NumFiles
  BY <1>1, FoundGrows, FilesStay DEF Finds
<1>3. PICK new : new = [list EXCEPT ![k].evidence = @ \cup {id}]
  OBVIOUS
<1>4. /\ DOMAIN list = 1 .. Len(list) /\ Len(list) \in Nat
      /\ \A i \in DOMAIN list : DOMAIN list[i] = FieldsOf(s) /\ IsDetection(s, list[i])
      /\ {"id", "file", "evidence"} \subseteq FieldsOf(s)
  <2>1. {"id", "file", "evidence"} \subseteq FieldsOf(s)
    BY DEF FieldsOf, MatchStages
  <2>2. QED
    BY <2>1, ListFacts DEF Keeps, IsDetection
<1>5. /\ new = [i \in DOMAIN list |-> new[i]]
      /\ \A i \in DOMAIN list : i # k => new[i] = list[i]
      /\ DOMAIN new[k] = FieldsOf(s)
      /\ new[k].evidence = list[k].evidence \cup {id}
      /\ \A x \in FieldsOf(s) \ {"evidence"} : new[k][x] = list[k][x]
  <2>1. new = [i \in DOMAIN list |-> IF i = k THEN [list[k] EXCEPT !.evidence = @ \cup {id}]
                                              ELSE list[i]]
    BY <1>3
  <2>2. new[k] = [list[k] EXCEPT !.evidence = @ \cup {id}]
    BY <2>1
  <2>3. /\ DOMAIN new[k] = DOMAIN list[k]
        /\ \A x \in DOMAIN list[k] : new[k][x] = (IF x = "evidence" THEN list[k].evidence \cup {id}
                                                  ELSE list[k][x])
    BY <2>2
  <2>4. QED
    BY <1>4, <2>1, <2>3
<1>6. new[k].id = list[k].id /\ new[k].file = list[k].file
  BY <1>4, <1>5
<1>7. IsList(new) /\ DOMAIN new = DOMAIN list
  <2>1. new = [i \in 1 .. Len(list) |-> new[i]]
    BY <1>4, <1>5
  <2>2. QED
    BY <1>4, <1>5, <2>1, MapIsList
<1>8. \A i \in DOMAIN new : IsDetection(s, new[i])'
  <2>1. \A i \in DOMAIN list : IsDetection(s, list[i])'
    BY <1>2, <1>4 DEF IsDetection
  <2>2. IsDetection(s, new[k])'
    <3>1. /\ list[k].id \in Nat \ {0} /\ list[k].file \in 1 .. NumFiles'
          /\ list[k].evidence \subseteq IdsOf(s, list[k].file)' /\ list[k].file = f
      BY <1>1, <2>1 DEF IsDetection
    <3>2. new[k].evidence \subseteq IdsOf(s, f)' /\ new[k].evidence # {}
      BY <1>2, <1>5, <3>1
    <3>3. QED
      BY <1>5, <1>6, <3>1, <3>2 DEF IsDetection, FieldsOf
  <2>3. QED
    BY <1>5, <1>7, <2>1, <2>2
<1>9. \A i, j \in DOMAIN new : new[i].evidence \cap new[j].evidence # {} => i = j
  <2>1. \A i \in DOMAIN list : id \notin list[i].evidence
    BY <1>2, <1>4 DEF IsDetection
  <2>2. \A i, j \in DOMAIN list : list[i].evidence \cap list[j].evidence # {} => i = j
    BY DEF Keeps
  <2>3. QED
    BY <1>5, <1>7, <2>1, <2>2
<1>10. \A i \in DOMAIN found' : found'[i].stage = s /\ found'[i].id # None =>
         \E d \in DOMAIN new : found'[i].id \in new[d].evidence
  <2>1. id \in new[k].evidence
    BY <1>5
  <2>2. \A d \in DOMAIN list : list[d].evidence \subseteq new[d].evidence
    BY <1>5
  <2>3. \A i \in DOMAIN found : found[i].stage = s /\ found[i].id # None =>
          \E d \in DOMAIN new : found[i].id \in new[d].evidence
    BY <1>7, <2>2 DEF Keeps
  <2>4. QED
    BY <1>2, <1>7, <2>1, <2>3
<1>11. Keeps(s, new)'
  BY <1>7, <1>8, <1>9, <1>10 DEF Keeps
<1>12. \A i \in DOMAIN list : \A x \in FieldsOf(s) \ {"evidence"} : new[i][x] = list[i][x]
  BY <1>5
<1>13. QED
  BY <1>1, <1>3, <1>7, <1>11, <1>12
--------------------------------------------------------------------------------
(* Merging the entrypoints.                                                *)

LEMMA SameKeyIsTransitive ==
  /\ \A d, e : SameKey(d, e) => SameKey(e, d)
  /\ \A c, d, e : SameKey(c, d) /\ SameKey(d, e) => SameKey(c, e)
BY DEF SameKey

LEMMA MergingKeeps ==
  ASSUME NEW list, Keeps("entrypoints", list), \A i \in DOMAIN list : list[i].id = i
  PROVE  LET new == DedupeEntrypoints(list) IN
         /\ Keeps("entrypoints", new)
         /\ \A i, j \in DOMAIN new : i < j =>
              new[i].id < new[j].id /\ ~SameKey(new[i], new[j])
<1> DEFINE fields == {"id", "file", "hint", "name", "evidence"}
           P == {i \in DOMAIN list : \A j \in 1 .. i - 1 : ~SameKey(list[j], list[i])}
           Group(k) == {j \in DOMAIN list : j = k \/ SameKey(list[j], list[k])}
           kept == Pick(list, P)
           new == DedupeEntrypoints(list)
<1>1. /\ IsList(list) /\ DOMAIN list = 1 .. Len(list) /\ Len(list) \in Nat
      /\ \A k \in DOMAIN list : /\ IsDetection("entrypoints", list[k])
                                /\ DOMAIN list[k] = fields
  BY ListFacts DEF Keeps, IsDetection, FieldsOf
<1>2. /\ IsList(kept) /\ Len(kept) = Cardinality(P) /\ Cardinality(P) \in Nat
      /\ \A i \in DOMAIN kept : \E k \in P : kept[i] = list[k]
      /\ \A k \in P : \E i \in DOMAIN kept : kept[i] = list[k]
      /\ \A i, j \in DOMAIN kept : i < j =>
           \E k, l \in P : k < l /\ kept[i] = list[k] /\ kept[j] = list[l]
  <2>1. P \in SUBSET DOMAIN list
    OBVIOUS
  <2> HIDE DEF P
  <2>2. QED
    BY <1>1, <2>1, PickIsList
<1>3. new = [i \in DOMAIN kept |->
               WithAll(kept[i], list,
                       {j \in DOMAIN list : j = kept[i].id \/ SameKey(list[j], kept[i])})]
  BY DEF DedupeEntrypoints
<1>4. \A k \in P : k \in DOMAIN list /\ \A j \in DOMAIN list : j < k => ~SameKey(list[j], list[k])
  BY <1>1
<1> HIDE DEF kept, new, P
<1>5. ASSUME NEW i \in DOMAIN new
      PROVE  \E k \in P :
               /\ kept[i] = list[k] /\ DOMAIN new[i] = fields
               /\ new[i].id = k /\ new[i].file = list[k].file
               /\ new[i].hint = list[k].hint /\ new[i].name = list[k].name
               /\ new[i].evidence = UNION {list[j].evidence : j \in Group(k)}
  <2>1. PICK k \in P : kept[i] = list[k]
    BY <1>2, <1>3
  <2>2. list[k].id = k /\ DOMAIN list[k] = fields
    BY <1>1, <1>4
  <2>3. new[i] = [list[k] EXCEPT !.evidence = UNION {list[j].evidence : j \in Group(k)}]
    BY <1>3, <2>1, <2>2 DEF WithAll
  <2> HIDE DEF Group
  <2>4. /\ DOMAIN new[i] = fields
        /\ new[i].evidence = UNION {list[j].evidence : j \in Group(k)}
        /\ new[i].id = list[k].id /\ new[i].file = list[k].file
        /\ new[i].hint = list[k].hint /\ new[i].name = list[k].name
    BY <2>2, <2>3
  <2>5. QED
    BY <2>1, <2>2, <2>4
<1>6. IsList(new) /\ DOMAIN new = DOMAIN kept
  <2>1. DOMAIN kept = 1 .. Len(kept) /\ Len(kept) \in Nat
    BY <1>2, ListFacts
  <2>2. new = [i \in 1 .. Len(kept) |-> new[i]]
    BY <1>3, <2>1
  <2>3. QED
    BY <2>1, <2>2, MapIsList
<1>7. \A i \in DOMAIN new : IsDetection("entrypoints", new[i])
  <2> TAKE i \in DOMAIN new
  <2>1. PICK k \in P :
          /\ DOMAIN new[i] = fields /\ new[i].id = k /\ new[i].file = list[k].file
          /\ new[i].evidence = UNION {list[j].evidence : j \in Group(k)}
    BY <1>5
  <2>2. k \in Group(k) /\ IsDetection("entrypoints", list[k]) /\ k \in Nat \ {0}
    BY <1>1, <1>4
  <2>3. \A j \in Group(k) : list[j].file = list[k].file /\ IsDetection("entrypoints", list[j])
    BY <1>1, <1>4 DEF SameKey
  <2>4. new[i].evidence # {}
    BY <2>1, <2>2 DEF IsDetection
  <2>5. new[i].evidence \subseteq IdsOf("entrypoints", list[k].file)
    BY <2>1, <2>3 DEF IsDetection
  <2>6. QED
    BY <2>1, <2>2, <2>4, <2>5 DEF IsDetection, FieldsOf
<1>8. ASSUME NEW k \in P, NEW l \in P, NEW j \in Group(k), j \in Group(l)
      PROVE  k = l
  <2>1. k = l \/ (SameKey(list[k], list[l]) /\ SameKey(list[l], list[k]))
    BY <1>8, SameKeyIsTransitive
  <2>2. k \in Nat /\ l \in Nat
    BY <1>1, <1>4
  <2>3. k = l \/ k < l \/ l < k
    BY <2>2
  <2>4. QED
    BY <1>4, <2>1, <2>3
<1>9. \A i, j \in DOMAIN new : i < j =>
        \E k, l \in P : /\ k < l /\ kept[i] = list[k] /\ kept[j] = list[l]
                        /\ new[i].id = k /\ new[j].id = l
                        /\ ~SameKey(new[i], new[j])
  <2> SUFFICES ASSUME NEW i \in DOMAIN kept, NEW j \in DOMAIN kept, i < j
               PROVE  \E k, l \in P : /\ k < l /\ kept[i] = list[k] /\ kept[j] = list[l]
                                      /\ new[i].id = k /\ new[j].id = l
                                      /\ ~SameKey(new[i], new[j])
    BY <1>6
  <2> i \in DOMAIN new /\ j \in DOMAIN new
    BY <1>6
  <2>1. PICK k, l \in P : k < l /\ kept[i] = list[k] /\ kept[j] = list[l]
    BY <1>2
  <2>2. PICK m \in P : /\ kept[i] = list[m] /\ new[i].id = m /\ new[i].file = list[m].file
                       /\ new[i].hint = list[m].hint /\ new[i].name = list[m].name
    BY <1>5
  <2>3. PICK n \in P : /\ kept[j] = list[n] /\ new[j].id = n /\ new[j].file = list[n].file
                       /\ new[j].hint = list[n].hint /\ new[j].name = list[n].name
    BY <1>5
  <2>4. m = k /\ n = l
    <3>1. \A a, b \in P : list[a] = list[b] => a = b
      BY <1>4
    <3>2. QED
      BY ZenonT(40), <2>1, <2>2, <2>3, <3>1
  <2>5. ~SameKey(list[k], list[l])
    BY <1>4, <2>1
  <2>6. ~SameKey(new[i], new[j])
    BY <2>2, <2>3, <2>4, <2>5 DEF SameKey
  <2>7. QED
    BY <2>1, <2>2, <2>3, <2>4, <2>6
<1>10. \A i, j \in DOMAIN new : new[i].evidence \cap new[j].evidence # {} => i = j
  <2> SUFFICES ASSUME NEW i \in DOMAIN new, NEW j \in DOMAIN new,
                      NEW x, x \in new[i].evidence, x \in new[j].evidence
               PROVE  i = j
    OBVIOUS
  <2>1. PICK k \in P : /\ new[i].id = k
                       /\ new[i].evidence = UNION {list[m].evidence : m \in Group(k)}
    BY <1>5
  <2>2. PICK l \in P : /\ new[j].id = l
                       /\ new[j].evidence = UNION {list[m].evidence : m \in Group(l)}
    BY <1>5
  <2>3. PICK m \in Group(k), n \in Group(l) : x \in list[m].evidence /\ x \in list[n].evidence
    BY <2>1, <2>2
  <2>4. m = n
    BY <2>3 DEF Keeps
  <2>5. k = l
    BY <1>8, <2>3, <2>4
  <2>6. i \in Int /\ j \in Int /\ k \in Int
    <3>1. i \in 1 .. Len(new) /\ j \in 1 .. Len(new)
      BY <1>6, ListFacts
    <3>2. QED
      BY <1>1, <1>4, <3>1
  <2>7. ~(i < j) /\ ~(j < i)
    BY <1>9, <2>1, <2>2, <2>5, <2>6
  <2>8. QED
    BY <2>6, <2>7
<1>11. \A i \in DOMAIN found : found[i].stage = "entrypoints" /\ found[i].id # None =>
         \E d \in DOMAIN new : found[i].id \in new[d].evidence
  <2> SUFFICES ASSUME NEW d \in DOMAIN list
               PROVE  \E i \in DOMAIN new : list[d].evidence \subseteq new[i].evidence
    BY DEF Keeps
  <2> DEFINE S == {j \in DOMAIN list : j = d \/ SameKey(list[j], list[d])}
  <2>1. S \in SUBSET Nat /\ S # {}
    BY <1>1
  <2>2. PICK k \in S : \A j \in S : k <= j
    <3> HIDE DEF S
    <3>1. QED
      BY <2>1, LeastElement
  <2>3. \A j \in DOMAIN list : j < k => ~SameKey(list[j], list[k])
    <3>1. \A j \in DOMAIN list : j < k => ~(k <= j)
      BY <1>1, <2>1, <2>2
    <3>2. \A j \in DOMAIN list : SameKey(list[j], list[k]) => j \in S
      BY <2>2, SameKeyIsTransitive
    <3>3. QED
      BY <2>2, <3>1, <3>2
  <2>4. k \in P
    <3>1. k \in DOMAIN list /\ \A j \in 1 .. k - 1 : j \in DOMAIN list /\ j < k
      BY <1>1, <2>2
    <3>2. QED
      BY <2>3, <3>1 DEF P
  <2>5. d \in Group(k)
    BY <2>2, SameKeyIsTransitive
  <2>6. PICK i \in DOMAIN kept : kept[i] = list[k]
    BY <1>2, <2>4
  <2>7. PICK l \in P : /\ kept[i] = list[l]
                       /\ new[i].evidence = UNION {list[j].evidence : j \in Group(l)}
    BY <1>5, <1>6
  <2>8. l = k
    BY <1>4, <2>4, <2>6, <2>7
  <2>9. QED
    BY <1>6, <2>5, <2>7, <2>8
<1>12. Keeps("entrypoints", new)
  BY <1>6, <1>7, <1>10, <1>11 DEF Keeps
<1>13. \A i, j \in DOMAIN new : i < j => new[i].id < new[j].id /\ ~SameKey(new[i], new[j])
  BY <1>9
<1>14. QED
  BY <1>12, <1>13 DEF new
--------------------------------------------------------------------------------
(* The steps.                                                              *)

LEMMA ListsAfter ==
  ASSUME NEW E, NEW C, NEW W, entrypoints' = E, consumers' = C, workers' = W,
         Keeps("entrypoints", E)', Keeps("consumers", C)', Keeps("workers", W)'
  PROVE  EvidenceIsKept'
<1>1. /\ Detected("entrypoints")' = E /\ Detected("consumers")' = C /\ Detected("workers")' = W
  BY DEF Detected
<1>2. \A s \in MatchStages : s = "entrypoints" \/ s = "consumers" \/ s = "workers"
  BY DEF MatchStages
<1>3. \A s \in MatchStages : \A l : l = Detected(s)' => Keeps(s, l)'
  BY <1>1, <1>2
<1>4. QED
  BY <1>3 DEF EvidenceIsKept, Keeps

(* What every match does, in whatever stage.                               *)
LEMMA AfterFind ==
  ASSUME IInv, NEW pattern, Finds(pattern), file' \in {file, file + 1},
         boundaries' = boundaries, primitives' = primitives
  PROVE  /\ Control' /\ FoundAreMatches' /\ IdsDiffer' /\ Inferred'
         /\ \A s \in MatchStages : s # stage \/ ~IsAllowed(pattern) =>
              \A l : l = Detected(s) => Keeps(s, l)'
<1>1. /\ Control /\ FoundAreMatches /\ IdsDiffer
      /\ stage \in MatchStages /\ stage' = stage /\ repo' = repo
  BY DEF IInv, Finds
<1>2. IsList(found)' /\ FoundAreMatches' /\ IdsDiffer'
  BY <1>1, FoundGrows
<1>3. Control'
  <2>1. NumFiles \in Nat /\ NumFiles' = NumFiles
    BY <1>1, InventoryAssumption, ListFacts, FilesStay DEF Control, NumFiles
  <2>2. file' \in 1 .. NumFiles + 1 /\ numbered' \in Nat
    BY <1>1, <2>1 DEF Finds, Control
  <2>3. QED
    BY <1>1, <1>2, <2>1, <2>2 DEF Control
<1>4. Inferred'
  BY <1>1 DEF IInv, Inferred, MatchStages
<1>5. \A s \in MatchStages : s # stage \/ ~IsAllowed(pattern) =>
        \A l : l = Detected(s) => Keeps(s, l)'
  BY <1>1, KeepsOthers DEF IInv, EvidenceIsKept
<1>6. QED
  BY <1>2, <1>3, <1>4, <1>5

LEMMA EntrypointStep == IInv /\ FindEntrypoint => IInv'
<1> SUFFICES ASSUME IInv, FindEntrypoint
             PROVE  IInv'
  OBVIOUS
<1>1. PICK d \in EntrypointDetectors(repo.traits[file]) : \E name :
        /\ Find(d.pattern)
        /\ entrypoints' =
             IF IsAllowed(d.pattern)
               THEN Append(entrypoints,
                           [id |-> Len(entrypoints) + 1, file |-> file, hint |-> d.hint,
                            name |-> name, evidence |-> {EvidenceId}])
               ELSE entrypoints
  BY DEF FindEntrypoint
<1>2. Finds(d.pattern) /\ stage = "entrypoints" /\ stage' = stage
  BY <1>1, EntrypointsAreKnown DEF FindEntrypoint, Find, Finds, MatchStages
<1>3. /\ file' = file /\ boundaries' = boundaries /\ primitives' = primitives
      /\ consumers' = consumers /\ workers' = workers
  BY <1>1 DEF FindEntrypoint, Find
<1>4. /\ Control' /\ FoundAreMatches' /\ IdsDiffer' /\ Inferred'
      /\ \A s \in MatchStages : s # stage \/ ~IsAllowed(d.pattern) =>
           \A l : l = Detected(s) => Keeps(s, l)'
  BY <1>2, <1>3, AfterFind
<1>5. PICK E, C, W : E = entrypoints /\ C = consumers /\ W = workers
  OBVIOUS
<1>6. /\ Detected("entrypoints") = E /\ Detected("consumers") = C /\ Detected("workers") = W
      /\ MatchStages = {"entrypoints", "consumers", "workers"}
  BY <1>5 DEF Detected, MatchStages
<1>7. Keeps("consumers", C)' /\ Keeps("workers", W)'
  BY <1>2, <1>4, <1>6
<1>8. WorkersAreDistinct' /\ ConsumersAreKnown'
  BY <1>3 DEF IInv, WorkersAreDistinct, ConsumersAreKnown
<1>9. Keeps("entrypoints", E) /\ \A i \in DOMAIN E : E[i].id = i
  BY <1>2, <1>5, <1>6 DEF IInv, EvidenceIsKept, EntrypointsAreDistinct
<1>10. CASE ~IsAllowed(d.pattern)
  <2>1. Keeps("entrypoints", E)' /\ entrypoints' = E
    BY <1>1, <1>4, <1>5, <1>6, <1>10
  <2>2. EvidenceIsKept'
    BY <1>3, <1>5, <1>7, <2>1, ListsAfter
  <2>3. EntrypointsAreDistinct'
    BY <1>2, <1>9, <2>1 DEF EntrypointsAreDistinct
  <2>4. QED
    BY <1>4, <1>8, <2>2, <2>3 DEF IInv
<1>11. CASE IsAllowed(d.pattern)
  <2> PICK name : entrypoints' = Append(entrypoints,
                    [id |-> Len(entrypoints) + 1, file |-> file, hint |-> d.hint,
                     name |-> name, evidence |-> {EvidenceId}])
    BY <1>1, <1>11
  <2>1. PICK e : e = [id |-> Len(E) + 1, file |-> file, hint |-> d.hint,
                      name |-> name, evidence |-> {EvidenceId}]
    OBVIOUS
  <2>2. DOMAIN e = FieldsOf("entrypoints")
    BY <2>1 DEF FieldsOf
  <2>3. /\ e.id = Len(E) + 1 /\ e.file = file /\ e.evidence = {EvidenceId}
        /\ entrypoints' = Append(E, e)
    BY <1>1, <1>5, <1>11, <2>1
  <2>4. Control /\ FoundAreMatches /\ IdsDiffer
    BY DEF IInv
  <2>5. Keeps("entrypoints", Append(E, e))'
    BY <1>2, <1>9, <1>11, <2>2, <2>3, <2>4, KeepsNew
  <2>6. EvidenceIsKept'
    <3>1. PICK new : new = Append(E, e)
      OBVIOUS
    <3>2. Keeps("entrypoints", new)' /\ entrypoints' = new
      BY <2>3, <2>5, <3>1
    <3>3. QED
      BY <1>3, <1>5, <1>7, <3>2, ListsAfter
  <2>7. EntrypointsAreDistinct'
    <3>1. /\ IsList(Append(E, e)) /\ Len(E) \in Nat /\ DOMAIN E = 1 .. Len(E)
          /\ Len(Append(E, e)) = Len(E) + 1 /\ DOMAIN Append(E, e) = 1 .. Len(E) + 1
          /\ \A i \in 1 .. Len(E) : Append(E, e)[i] = E[i]
          /\ Append(E, e)[Len(E) + 1] = e
      BY <1>9, ListAppend DEF Keeps
    <3>2. \A i \in 1 .. Len(E) + 1 : i \in 1 .. Len(E) \/ i = Len(E) + 1
      BY <3>1
    <3>3. \A i \in DOMAIN Append(E, e) : Append(E, e)[i].id = i
      BY <1>9, <2>3, <3>1, <3>2
    <3>4. QED
      BY <1>2, <2>3, <3>3 DEF EntrypointsAreDistinct
  <2>8. QED
    BY <1>4, <1>8, <2>6, <2>7 DEF IInv
<1>12. QED
  BY <1>10, <1>11

LEMMA ConsumerStep == IInv /\ FindConsumer => IInv'
<1> SUFFICES ASSUME IInv, FindConsumer
             PROVE  IInv'
  OBVIOUS
<1>1. PICK pattern \in ConsumerPatterns(repo.traits[file]), terms \in Terms :
        /\ Find(pattern)
        /\ consumers' =
             IF IsAllowed(pattern)
               THEN Append(consumers,
                           [id |-> Len(consumers) + 1, file |-> file,
                            type |-> ConsumerType(pattern), terms |-> terms,
                            evidence |-> {EvidenceId}])
               ELSE consumers
  BY DEF FindConsumer
<1>2. /\ Finds(pattern) /\ stage = "consumers" /\ stage' = stage
      /\ pattern \in KnownConsumers
  BY <1>1, OthersAreKnown DEF FindConsumer, Find, Finds, MatchStages, Known
<1>3. /\ file' = file /\ boundaries' = boundaries /\ primitives' = primitives
      /\ entrypoints' = entrypoints /\ workers' = workers
  BY <1>1 DEF FindConsumer, Find
<1>4. /\ Control' /\ FoundAreMatches' /\ IdsDiffer' /\ Inferred'
      /\ \A s \in MatchStages : s # stage \/ ~IsAllowed(pattern) =>
           \A l : l = Detected(s) => Keeps(s, l)'
  BY <1>2, <1>3, AfterFind
<1>5. PICK E, C, W : E = entrypoints /\ C = consumers /\ W = workers
  OBVIOUS
<1>6. /\ Detected("entrypoints") = E /\ Detected("consumers") = C /\ Detected("workers") = W
      /\ MatchStages = {"entrypoints", "consumers", "workers"}
  BY <1>5 DEF Detected, MatchStages
<1>7. Keeps("entrypoints", E)' /\ Keeps("workers", W)'
  BY <1>2, <1>4, <1>6
<1>8. WorkersAreDistinct' /\ EntrypointsAreDistinct'
  BY <1>2, <1>3 DEF IInv, WorkersAreDistinct, EntrypointsAreDistinct, SameKey
<1>9. Keeps("consumers", C)
  BY <1>6 DEF IInv, EvidenceIsKept
<1>10. CASE ~IsAllowed(pattern)
  <2>1. Keeps("consumers", C)' /\ consumers' = C
    BY <1>1, <1>4, <1>5, <1>6, <1>10
  <2>2. EvidenceIsKept'
    BY <1>3, <1>5, <1>7, <2>1, ListsAfter
  <2>3. ConsumersAreKnown'
    BY <1>5, <2>1 DEF IInv, ConsumersAreKnown
  <2>4. QED
    BY <1>4, <1>8, <2>2, <2>3 DEF IInv
<1>11. CASE IsAllowed(pattern)
  <2>1. PICK c : c = [id |-> Len(C) + 1, file |-> file, type |-> ConsumerType(pattern),
                      terms |-> terms, evidence |-> {EvidenceId}]
    OBVIOUS
  <2>2. DOMAIN c = FieldsOf("consumers")
    BY <2>1 DEF FieldsOf
  <2>3. /\ c.id = Len(C) + 1 /\ c.file = file /\ c.evidence = {EvidenceId}
        /\ c.type = ConsumerType(pattern) /\ consumers' = Append(C, c)
    BY <1>1, <1>5, <1>11, <2>1
  <2>4. Control /\ FoundAreMatches /\ IdsDiffer
    BY DEF IInv
  <2>5. Keeps("consumers", Append(C, c))'
    BY <1>2, <1>9, <1>11, <2>2, <2>3, <2>4, KeepsNew
  <2>6. EvidenceIsKept'
    <3>1. PICK new : new = Append(C, c)
      OBVIOUS
    <3>2. Keeps("consumers", new)' /\ consumers' = new
      BY <2>3, <2>5, <3>1
    <3>3. QED
      BY <1>3, <1>5, <1>7, <3>2, ListsAfter
  <2>7. ConsumersAreKnown'
    <3>1. /\ IsList(Append(C, c)) /\ Len(C) \in Nat /\ DOMAIN C = 1 .. Len(C)
          /\ Len(Append(C, c)) = Len(C) + 1 /\ DOMAIN Append(C, c) = 1 .. Len(C) + 1
          /\ \A i \in 1 .. Len(C) : Append(C, c)[i] = C[i]
          /\ Append(C, c)[Len(C) + 1] = c
      BY <1>9, ListAppend DEF Keeps
    <3>2. \A i \in 1 .. Len(C) + 1 : i \in 1 .. Len(C) \/ i = Len(C) + 1
      BY <3>1
    <3>3. PICK types : types = {ConsumerType(p) : p \in KnownConsumers}
      OBVIOUS
    <3>4. ConsumerType(pattern) \in types /\ \A i \in DOMAIN C : C[i].type \in types
      BY <1>2, <1>5, <3>3 DEF IInv, ConsumersAreKnown
    <3>5. \A i \in DOMAIN Append(C, c) : Append(C, c)[i].type \in types
      BY <2>3, <3>1, <3>2, <3>4
    <3>6. QED
      BY <2>3, <3>3, <3>5 DEF ConsumersAreKnown
  <2>8. QED
    BY <1>4, <1>8, <2>6, <2>7 DEF IInv
<1>12. QED
  BY <1>10, <1>11

(* A worker more, or a worker's evidence, in the file that is looked at.   *)
LEMMA WorkersGrow ==
  ASSUME IInv, stage = "workers", NEW pattern, Finds(pattern), IsAllowed(pattern),
         \/ /\ workers' = Append(workers, NewWorker(pattern))
            /\ pattern = "taskengine_task" \/ SameWorker(pattern) = {}
         \/ \E k \in WorkersOf(file) : workers' = WithEvidence(k)
  PROVE  /\ \A l : l = workers' => Keeps("workers", l)'
         /\ WorkersAreDistinct'
<1>1. PICK W : W = workers
  OBVIOUS
<1>2. /\ Keeps("workers", W) /\ Control /\ FoundAreMatches /\ IdsDiffer
      /\ "workers" \in MatchStages
  <2>1. Detected("workers") = W /\ "workers" \in MatchStages
    BY <1>1 DEF Detected, MatchStages
  <2>2. QED
    BY <2>1 DEF IInv, EvidenceIsKept
<1>3. \A i, j \in DOMAIN W :
        i < j /\ W[i].file = W[j].file /\ W[i].pattern = W[j].pattern
          => W[i].pattern = "taskengine_task"
  BY <1>1 DEF IInv, WorkersAreDistinct
<1>4. CASE /\ workers' = Append(workers, NewWorker(pattern))
           /\ pattern = "taskengine_task" \/ SameWorker(pattern) = {}
  <2>1. PICK w : w = NewWorker(pattern)
    OBVIOUS
  <2>2. /\ DOMAIN w = FieldsOf("workers") /\ w.id = Len(W) + 1 /\ w.file = file
        /\ w.evidence = {EvidenceId} /\ w.pattern = pattern
    BY <1>1, <2>1 DEF NewWorker, FieldsOf
  <2>3. Keeps("workers", Append(W, w))'
    BY <1>2, <2>2, KeepsNew
  <2>4. workers' = Append(W, w)
    BY <1>1, <1>4, <2>1
  <2>5. /\ IsList(Append(W, w)) /\ Len(W) \in Nat /\ DOMAIN W = 1 .. Len(W)
        /\ Len(Append(W, w)) = Len(W) + 1 /\ DOMAIN Append(W, w) = 1 .. Len(W) + 1
        /\ \A i \in 1 .. Len(W) : Append(W, w)[i] = W[i]
        /\ Append(W, w)[Len(W) + 1] = w
    BY <1>2, ListAppend DEF Keeps
  <2>6. \A i \in 1 .. Len(W) + 1 : i \in 1 .. Len(W) \/ (i = Len(W) + 1 /\ \A j \in 1 .. Len(W) : ~(i < j))
    BY <2>5
  <2>7. \A i \in DOMAIN W : W[i].file = file /\ W[i].pattern = pattern => pattern = "taskengine_task"
    BY <1>1, <1>4 DEF SameWorker, WorkersOf
  <2>8. ~(Len(W) + 1 < Len(W) + 1)
    BY <2>5
  <2>9. PICK new : new = Append(W, w)
    OBVIOUS
  <2>10. \A i, j \in DOMAIN new :
           i < j /\ new[i].file = new[j].file /\ new[i].pattern = new[j].pattern
             => new[i].pattern = "taskengine_task"
    BY <1>3, <2>2, <2>5, <2>6, <2>7, <2>8, <2>9
  <2>11. WorkersAreDistinct'
    BY <2>4, <2>9, <2>10 DEF WorkersAreDistinct
  <2>12. QED
    BY <2>3, <2>4, <2>11
<1>5. ASSUME NEW k \in WorkersOf(file), workers' = WithEvidence(k)
      PROVE  /\ \A l : l = workers' => Keeps("workers", l)'
             /\ WorkersAreDistinct'
  <2>1. PICK id : id = EvidenceId
    OBVIOUS
  <2>2. PICK new : new = [W EXCEPT ![k].evidence = @ \cup {id}]
    OBVIOUS
  <2>3. k \in DOMAIN W /\ W[k].file = file
    BY <1>1 DEF WorkersOf
  <2>4. /\ \A l : l = new => Keeps("workers", l)'
        /\ DOMAIN new = DOMAIN W
        /\ \A i \in DOMAIN W : \A x \in FieldsOf("workers") \ {"evidence"} : new[i][x] = W[i][x]
    BY <1>2, <2>1, <2>2, <2>3, KeepsMore
  <2>5. workers' = new
    BY <1>1, <1>5, <2>1, <2>2 DEF WithEvidence
  <2>6. \A i \in DOMAIN W : new[i].file = W[i].file /\ new[i].pattern = W[i].pattern
    <3>1. {"file", "pattern"} \subseteq FieldsOf("workers") \ {"evidence"}
      BY DEF FieldsOf
    <3>2. QED
      BY <2>4, <3>1
  <2>7. \A i, j \in DOMAIN new :
          i < j /\ new[i].file = new[j].file /\ new[i].pattern = new[j].pattern
            => new[i].pattern = "taskengine_task"
    BY <1>3, <2>4, <2>6
  <2>8. WorkersAreDistinct'
    BY <2>5, <2>7 DEF WorkersAreDistinct
  <2>9. QED
    BY <2>4, <2>5, <2>8
<1>6. QED
  BY <1>4, <1>5

(* A worker is found, or it is not allowed.                                *)
LEMMA WorkersStep ==
  ASSUME IInv, stage = "workers", NEW pattern, Finds(pattern),
         file' \in {file, file + 1}, boundaries' = boundaries, primitives' = primitives,
         entrypoints' = entrypoints, consumers' = consumers,
         IF IsAllowed(pattern)
           THEN \/ /\ workers' = Append(workers, NewWorker(pattern))
                   /\ pattern = "taskengine_task" \/ SameWorker(pattern) = {}
                \/ \E k \in WorkersOf(file) : workers' = WithEvidence(k)
           ELSE workers' = workers
  PROVE  IInv'
<1>1. /\ Control' /\ FoundAreMatches' /\ IdsDiffer' /\ Inferred'
      /\ \A s \in MatchStages : s # stage \/ ~IsAllowed(pattern) =>
           \A l : l = Detected(s) => Keeps(s, l)'
  BY AfterFind
<1>2. PICK E, C, W : E = entrypoints /\ C = consumers /\ W = workers'
  OBVIOUS
<1>3. /\ Detected("entrypoints") = E /\ Detected("consumers") = C /\ Detected("workers") = workers
      /\ MatchStages = {"entrypoints", "consumers", "workers"}
  BY <1>2 DEF Detected, MatchStages
<1>4. Keeps("entrypoints", E)' /\ Keeps("consumers", C)'
  BY <1>1, <1>3
<1>5. stage' = stage /\ EntrypointsAreDistinct' /\ ConsumersAreKnown'
  <2>1. stage' = stage
    BY DEF Finds
  <2>2. QED
    BY <2>1 DEF IInv, EntrypointsAreDistinct, ConsumersAreKnown, SameKey
<1>6. Keeps("workers", W)' /\ WorkersAreDistinct'
  <2>1. CASE IsAllowed(pattern)
    BY <1>2, <2>1, WorkersGrow
  <2>2. CASE ~IsAllowed(pattern)
    <3>1. workers' = workers /\ Keeps("workers", W)'
      BY <1>1, <1>2, <1>3, <2>2
    <3>2. QED
      BY <3>1 DEF IInv, WorkersAreDistinct
  <2>3. QED
    BY <2>1, <2>2
<1>7. EvidenceIsKept'
  BY <1>2, <1>4, <1>6, ListsAfter
<1>8. QED
  BY <1>1, <1>5, <1>6, <1>7 DEF IInv

LEMMA FirstIsOne ==
  ASSUME IInv, NEW ids, ids # {}, ids \subseteq DOMAIN workers
  PROVE  First(ids) \in ids
<1>1. DOMAIN workers \subseteq Nat
  <2>1. Detected("workers") = workers /\ "workers" \in MatchStages
    BY DEF Detected, MatchStages
  <2>2. IsList(workers)
    BY <2>1 DEF IInv, EvidenceIsKept, Keeps
  <2>3. QED
    BY <2>2, ListFacts
<1>2. \E i \in ids : \A j \in ids : i <= j
  BY <1>1, LeastElement
<1>3. QED
  BY <1>2 DEF First

LEMMA WorkerSteps == IInv /\ (FindTask \/ FindWorker \/ PathHint) => IInv'
<1> SUFFICES ASSUME IInv, FindTask \/ FindWorker \/ PathHint
             PROVE  IInv'
  OBVIOUS
<1>1. CASE FindTask
  <2>1. /\ stage = "workers" /\ Find("taskengine_task") /\ file <= NumFiles
        /\ workers' = (IF IsAllowed("taskengine_task")
                         THEN Append(workers, NewWorker("taskengine_task")) ELSE workers)
        /\ entrypoints' = entrypoints /\ consumers' = consumers
    BY <1>1 DEF FindTask
  <2>2. /\ Finds("taskengine_task") /\ file' = file
        /\ boundaries' = boundaries /\ primitives' = primitives
    BY <2>1, OthersAreKnown DEF Find, Finds, MatchStages
  <2>3. QED
    BY <2>1, <2>2, WorkersStep
<1>2. CASE FindWorker
  <2>1. PICK pattern \in LineWorkers :
          /\ Find(pattern)
          /\ workers' = IF ~IsAllowed(pattern) THEN workers
                        ELSE IF SameWorker(pattern) = {} THEN Append(workers, NewWorker(pattern))
                        ELSE WithEvidence(First(SameWorker(pattern)))
    BY <1>2 DEF FindWorker
  <2>2. /\ stage = "workers" /\ file <= NumFiles
        /\ entrypoints' = entrypoints /\ consumers' = consumers
    BY <1>2 DEF FindWorker
  <2>3. /\ Finds(pattern) /\ file' = file
        /\ boundaries' = boundaries /\ primitives' = primitives
    BY <2>1, <2>2, OthersAreKnown DEF Find, Finds, MatchStages
  <2>4. /\ SameWorker(pattern) \subseteq WorkersOf(file)
        /\ WorkersOf(file) \subseteq DOMAIN workers
    BY DEF SameWorker, WorkersOf
  <2>5. SameWorker(pattern) # {} => First(SameWorker(pattern)) \in WorkersOf(file)
    BY <2>4, FirstIsOne
  <2>6. QED
    BY <2>1, <2>2, <2>3, <2>5, WorkersStep
<1>3. CASE PathHint
  <2>1. /\ stage = "workers" /\ file <= NumFiles /\ found' = Append(found, Match("path_hint"))
        /\ numbered' = (IF IsAllowed("path_hint") THEN numbered + 1 ELSE numbered)
        /\ workers' = (IF IsAllowed("path_hint") THEN WithPathHint ELSE workers)
        /\ file' = file + 1 /\ repo' = repo /\ stage' = stage
        /\ entrypoints' = entrypoints /\ consumers' = consumers
        /\ boundaries' = boundaries /\ primitives' = primitives
    BY <1>3 DEF PathHint
  <2>2. Finds("path_hint")
    BY <2>1, OthersAreKnown DEF Finds, MatchStages
  <2>3. WorkersOf(file) \subseteq DOMAIN workers /\ SameWorker("path_hint") \subseteq WorkersOf(file)
    BY DEF SameWorker, WorkersOf
  <2>4. WorkersOf(file) # {} => First(WorkersOf(file)) \in WorkersOf(file)
    BY <2>3, FirstIsOne
  <2>5. IsAllowed("path_hint") =>
          \/ /\ workers' = Append(workers, NewWorker("path_hint"))
             /\ SameWorker("path_hint") = {}
          \/ \E k \in WorkersOf(file) : workers' = WithEvidence(k)
    BY <2>1, <2>3, <2>4 DEF WithPathHint
  <2>6. QED
    BY <2>1, <2>2, <2>5, WorkersStep
<1>4. QED
  BY <1>1, <1>2, <1>3

(* Nothing is found, and the stage may move on.                            *)
LEMMA SameMatches ==
  ASSUME IInv, found' = found, repo' = repo, stage' \in Stages,
         \/ stage' = stage /\ numbered' = numbered
         \/ Order(stage) < Order(stage')
  PROVE  /\ FoundAreMatches' /\ IdsDiffer' /\ NumFiles' = NumFiles
         /\ \A s, l : Keeps(s, l) => Keeps(s, l)'
<1>1. NumFiles' = NumFiles
  BY FilesStay
<1>2. /\ \A s \in Stages : Order(s) \in Nat
      /\ stage \in Stages /\ MatchStages \subseteq Stages
  BY MatchStagesDiffer DEF IInv, Control
<1>3. \A m : Selected(m)' <=> Selected(m)
  BY DEF Selected
<1>4. ASSUME NEW m, IsMatch(m)
      PROVE  IsMatch(m)'
  <2>1. /\ m.stage \in MatchStages /\ Order(m.stage) \in Nat
        /\ Order(m.stage) <= Order(stage) /\ Order(stage) \in Nat /\ Order(stage') \in Nat
    BY <1>2, <1>4 DEF IsMatch
  <2>2. Order(m.stage) <= Order(stage')
    BY <2>1
  <2>3. m.stage = stage' => stage' = stage /\ numbered' = numbered
    <3>1. Order(stage) < Order(stage') => m.stage # stage'
      BY <2>1
    <3>2. QED
      BY <3>1
  <2>4. QED
    BY <1>1, <1>3, <1>4, <2>2, <2>3 DEF IsMatch
<1>5. FoundAreMatches'
  BY <1>4 DEF IInv, FoundAreMatches
<1>6. IdsDiffer'
  BY DEF IInv, IdsDiffer
<1>7. \A s, f : IdsOf(s, f)' = IdsOf(s, f)
  BY DEF IdsOf
<1>8. \A s, d : IsDetection(s, d)' <=> IsDetection(s, d)
  BY <1>1, <1>7 DEF IsDetection
<1>9. \A s, l : Keeps(s, l) => Keeps(s, l)'
  BY <1>8 DEF Keeps
<1>10. QED
  BY <1>1, <1>5, <1>6, <1>9

(* Three lists that stay keep what they keep.                              *)
LEMMA ListsKept ==
  ASSUME EvidenceIsKept, \A s, l : Keeps(s, l) => Keeps(s, l)',
         entrypoints' = entrypoints, consumers' = consumers, workers' = workers
  PROVE  EvidenceIsKept'
<1>1. PICK E, C, W : E = entrypoints /\ C = consumers /\ W = workers
  OBVIOUS
<1>2. /\ Detected("entrypoints") = E /\ Detected("consumers") = C /\ Detected("workers") = W
      /\ MatchStages = {"entrypoints", "consumers", "workers"}
  BY <1>1 DEF Detected, MatchStages
<1>3. Keeps("entrypoints", E) /\ Keeps("consumers", C) /\ Keeps("workers", W)
  BY <1>2 DEF EvidenceIsKept
<1>4. Keeps("entrypoints", E)' /\ Keeps("consumers", C)' /\ Keeps("workers", W)'
  BY <1>3
<1>5. QED
  BY <1>1, <1>4, ListsAfter

LEMMA NextFileStep == IInv /\ NextFile => IInv'
<1> SUFFICES ASSUME IInv, NextFile
             PROVE  IInv'
  OBVIOUS
<1>1. /\ stage' = stage /\ repo' = repo /\ found' = found /\ numbered' = numbered
      /\ file <= NumFiles /\ file' = file + 1
      /\ entrypoints' = entrypoints /\ consumers' = consumers /\ workers' = workers
      /\ boundaries' = boundaries /\ primitives' = primitives
  BY DEF NextFile, detections
<1>2. /\ FoundAreMatches' /\ IdsDiffer' /\ NumFiles' = NumFiles
      /\ \A s, l : Keeps(s, l) => Keeps(s, l)'
  BY <1>1, SameMatches DEF IInv, Control
<1>3. Control'
  <2>1. NumFiles \in Nat
    BY InventoryAssumption, ListFacts DEF IInv, Control, NumFiles
  <2>2. file' \in 1 .. NumFiles + 1
    BY <1>1, <2>1 DEF IInv, Control
  <2>3. QED
    BY <1>1, <1>2, <2>2 DEF IInv, Control
<1>4. EvidenceIsKept'
  BY <1>1, <1>2, ListsKept DEF IInv
<1>5. EntrypointsAreDistinct' /\ WorkersAreDistinct' /\ ConsumersAreKnown' /\ Inferred'
  BY <1>1 DEF IInv, EntrypointsAreDistinct, SameKey, WorkersAreDistinct,
              ConsumersAreKnown, Inferred
<1>6. QED
  BY <1>2, <1>3, <1>4, <1>5 DEF IInv

LEMMA EndStageStep == IInv /\ EndStage => IInv'
<1> SUFFICES ASSUME IInv, EndStage
             PROVE  IInv'
  OBVIOUS
<1>1. /\ repo' = repo /\ found' = found /\ numbered' = 0 /\ file' = 1
      /\ consumers' = consumers /\ workers' = workers
      /\ boundaries' = boundaries /\ primitives' = primitives
      /\ \/ /\ stage = "entrypoints" /\ stage' = "consumers"
            /\ entrypoints' = DedupeEntrypoints(entrypoints)
         \/ /\ stage = "consumers" /\ stage' = "workers" /\ entrypoints' = entrypoints
         \/ /\ stage = "workers" /\ stage' = "boundaries" /\ entrypoints' = entrypoints
  BY DEF EndStage
<1>2. stage' \in Stages /\ Order(stage) < Order(stage')
  BY <1>1 DEF Stages, MatchStages, Order
<1>3. /\ FoundAreMatches' /\ IdsDiffer' /\ NumFiles' = NumFiles
      /\ \A s, l : Keeps(s, l) => Keeps(s, l)'
  BY <1>1, <1>2, SameMatches
<1>4. Control'
  <2>1. NumFiles \in Nat
    BY InventoryAssumption, ListFacts DEF IInv, Control, NumFiles
  <2>2. file' \in 1 .. NumFiles + 1
    BY <1>1, <2>1
  <2>3. QED
    BY <1>1, <1>2, <1>3, <2>2 DEF IInv, Control
<1>5. WorkersAreDistinct' /\ ConsumersAreKnown'
  BY <1>1 DEF IInv, WorkersAreDistinct, ConsumersAreKnown
<1>6. Inferred'
  BY <1>1 DEF IInv, Inferred
<1>7. EvidenceIsKept' /\ EntrypointsAreDistinct'
  <2>1. CASE stage # "entrypoints"
    BY <1>1, <1>3, <2>1, ListsKept DEF IInv, EntrypointsAreDistinct, SameKey
  <2>2. CASE stage = "entrypoints"
    <3>1. PICK E, C, W : E = entrypoints /\ C = consumers /\ W = workers
      OBVIOUS
    <3>2. /\ Detected("entrypoints") = E /\ Detected("consumers") = C
          /\ Detected("workers") = W
          /\ MatchStages = {"entrypoints", "consumers", "workers"}
      BY <3>1 DEF Detected, MatchStages
    <3>3. Keeps("entrypoints", E) /\ Keeps("consumers", C) /\ Keeps("workers", W)
      BY <3>2 DEF IInv, EvidenceIsKept
    <3>4. \A i \in DOMAIN E : E[i].id = i
      BY <2>2, <3>1 DEF IInv, EntrypointsAreDistinct
    <3>5. PICK new : new = DedupeEntrypoints(E)
      OBVIOUS
    <3>6. /\ Keeps("entrypoints", new)
          /\ \A i, j \in DOMAIN new : i < j =>
               new[i].id < new[j].id /\ ~SameKey(new[i], new[j])
      BY <3>3, <3>4, <3>5, MergingKeeps
    <3>7. Keeps("entrypoints", new)' /\ Keeps("consumers", C)' /\ Keeps("workers", W)'
      BY <1>3, <3>3, <3>6
    <3>8. entrypoints' = new /\ consumers' = C /\ workers' = W /\ stage' = "consumers"
      BY <1>1, <2>2, <3>1, <3>5
    <3>9. EvidenceIsKept'
      BY <3>7, <3>8, ListsAfter
    <3>10. EntrypointsAreDistinct'
      BY <3>6, <3>8 DEF EntrypointsAreDistinct, SameKey
    <3>11. QED
      BY <3>9, <3>10
  <2>3. QED
    BY <2>1, <2>2
<1>8. QED
  BY <1>3, <1>4, <1>5, <1>6, <1>7 DEF IInv

LEMMA InferenceSteps == IInv /\ (Infer \/ Classify \/ UNCHANGED vars) => IInv'
<1> SUFFICES ASSUME IInv, Infer \/ Classify \/ UNCHANGED vars
             PROVE  IInv'
  OBVIOUS
<1>1. /\ repo' = repo /\ found' = found /\ numbered' = numbered /\ file' = file
      /\ entrypoints' = entrypoints /\ consumers' = consumers /\ workers' = workers
  BY DEF Infer, Classify, vars, detections
<1>2. stage' \in Stages /\ (stage' = stage \/ Order(stage) < Order(stage'))
  BY DEF Infer, Classify, vars, Stages, MatchStages, Order, IInv, Control
<1>3. /\ FoundAreMatches' /\ IdsDiffer' /\ NumFiles' = NumFiles
      /\ \A s, l : Keeps(s, l) => Keeps(s, l)'
  BY <1>1, <1>2, SameMatches
<1>4. Control'
  BY <1>1, <1>2, <1>3 DEF IInv, Control
<1>5. stage = "entrypoints" <=> stage' = "entrypoints"
  BY DEF Infer, Classify, vars
<1>6. EvidenceIsKept' /\ EntrypointsAreDistinct' /\ WorkersAreDistinct' /\ ConsumersAreKnown'
  BY <1>1, <1>3, <1>5, ListsKept
     DEF IInv, EntrypointsAreDistinct, SameKey, WorkersAreDistinct, ConsumersAreKnown
<1>7. Inferred'
  <2>1. CASE Infer
    BY <1>1, <2>1 DEF IInv, Inferred, Infer
  <2>2. CASE Classify
    BY <1>1, <2>2 DEF IInv, Inferred, Classify
  <2>3. CASE UNCHANGED vars
    BY <1>1, <2>3 DEF IInv, Inferred, vars
  <2>4. QED
    BY <2>1, <2>2, <2>3
<1>8. QED
  BY <1>3, <1>4, <1>6, <1>7 DEF IInv

LEMMA InvariantStart == Init => IInv
<1> SUFFICES ASSUME Init
             PROVE  IInv
  OBVIOUS
<1>1. /\ repo \in Repositories /\ stage = "entrypoints" /\ file = 1
      /\ found = <<>> /\ numbered = 0 /\ entrypoints = <<>> /\ consumers = <<>>
      /\ workers = <<>> /\ boundaries = <<>> /\ primitives = <<>>
  BY DEF Init
<1>2. IsList(<<>>) /\ DOMAIN <<>> = {}
  BY DEF IsList
<1>3. Control
  <2>1. NumFiles \in Nat
    BY <1>1, InventoryAssumption, ListFacts DEF NumFiles
  <2>2. QED
    BY <1>1, <1>2, <2>1 DEF Control, Stages, MatchStages
<1>4. FoundAreMatches /\ IdsDiffer
  BY <1>1, <1>2 DEF FoundAreMatches, IdsDiffer
<1>5. \A s : Keeps(s, <<>>)
  BY <1>1, <1>2 DEF Keeps
<1>6. EvidenceIsKept
  BY <1>1, <1>5 DEF EvidenceIsKept, MatchStages, Detected
<1>7. EntrypointsAreDistinct /\ WorkersAreDistinct /\ ConsumersAreKnown /\ Inferred
  BY <1>1, <1>2 DEF EntrypointsAreDistinct, WorkersAreDistinct, ConsumersAreKnown, Inferred
<1>8. QED
  BY <1>3, <1>4, <1>6, <1>7 DEF IInv

LEMMA InvariantStep == IInv /\ [Next]_vars => IInv'
BY EntrypointStep, ConsumerStep, WorkerSteps, NextFileStep, EndStageStep, InferenceSteps
   DEF Next

(* Of every audit, in whatever order it finds what: the invariant above.   *)
THEOREM InventoryIsKept == Spec => []IInv
BY InvariantStart, InvariantStep, PTL DEF Spec
--------------------------------------------------------------------------------
(* What becomes of the matches.                                            *)

(* Every match the configuration does not deselect is evidence of exactly  *)
(* one detection, in its own file (detect_entrypoints, detect_consumers,   *)
(* detect_workers, _dedupe_entrypoints).                                   *)
THEOREM NoMatchIsLost == Spec => []EveryMatchIsKept
<1>1. IInv => EveryMatchIsKept
  <2> SUFFICES ASSUME IInv, NEW i \in DOMAIN found
               PROVE  /\ found[i].id = None <=> ~Selected(found[i])
                      /\ found[i].id # None =>
                           /\ \A j \in 1 .. i - 1 : found[j].id # found[i].id
                           /\ \E d \in DOMAIN Detected(found[i].stage) :
                                /\ found[i].id \in Detected(found[i].stage)[d].evidence
                                /\ Detected(found[i].stage)[d].file = found[i].file
                                /\ \A e \in DOMAIN Detected(found[i].stage) \ {d} :
                                     found[i].id \notin Detected(found[i].stage)[e].evidence
    BY DEF EveryMatchIsKept
  <2> DEFINE m == found[i]
             list == Detected(m.stage)
  <2>1. IsMatch(m) /\ m.stage \in MatchStages
    BY DEF IInv, FoundAreMatches, IsMatch
  <2>2. Keeps(m.stage, list)
    BY <2>1 DEF IInv, EvidenceIsKept
  <2> HIDE DEF list
  <2>3. ASSUME m.id # None
        PROVE  \A j \in 1 .. i - 1 : found[j].id # m.id
    <3>1. DOMAIN found = 1 .. Len(found) /\ Len(found) \in Nat
      BY ListFacts DEF IInv, Control
    <3>2. \A j \in 1 .. i - 1 : j \in DOMAIN found /\ j # i
      BY <3>1
    <3>3. QED
      BY <2>3, <3>2 DEF IInv, IdsDiffer
  <2>4. ASSUME m.id # None
        PROVE  \E d \in DOMAIN list :
                 /\ m.id \in list[d].evidence /\ list[d].file = m.file
                 /\ \A e \in DOMAIN list \ {d} : m.id \notin list[e].evidence
    <3>1. PICK d \in DOMAIN list : m.id \in list[d].evidence
      BY <2>2, <2>4 DEF Keeps
    <3>2. m.id \in IdsOf(m.stage, list[d].file)
      BY <2>2, <3>1 DEF Keeps, IsDetection
    <3>3. list[d].file = m.file
      BY <2>4, <3>2 DEF IdsOf, IInv, IdsDiffer
    <3>4. \A e \in DOMAIN list \ {d} : m.id \notin list[e].evidence
      BY <2>2, <3>1 DEF Keeps
    <3>5. QED
      BY <3>1, <3>3, <3>4
  <2>5. QED
    BY <2>1, <2>3, <2>4 DEF IsMatch, list
<1>2. QED
  BY <1>1, InventoryIsKept, PTL

(* No entrypoint with a route or a handler is listed twice once its stage  *)
(* is over, and no file has two workers for one pattern but for tasks      *)
(* (_dedupe_entrypoints, worker_keys of detect_workers).                   *)
THEOREM NothingIsDetectedTwice == Spec => []DetectionsAreDistinct
<1>1. IInv => DetectionsAreDistinct
  BY DEF IInv, EntrypointsAreDistinct, WorkersAreDistinct, DetectionsAreDistinct
<1>2. QED
  BY <1>1, InventoryIsKept, PTL
--------------------------------------------------------------------------------
(* What is inferred from the detections.                                   *)

(* Evidence out of S for everything in a list, and some confidence.        *)
Sound(list, S) ==
  /\ IsList(list)
  /\ \A i \in DOMAIN list : /\ list[i].confidence \in {"medium", "low"}
                            /\ list[i].evidence # {} /\ list[i].evidence \subseteq S

Covers(list, x) == \E e \in Elements(list) : x \subseteq e.evidence

LEMMA SoundConcat ==
  ASSUME NEW S, NEW s, Sound(s, S), NEW t, Sound(t, S)
  PROVE  /\ Sound(s \o t, S)
         /\ Elements(s) \subseteq Elements(s \o t) /\ Elements(t) \subseteq Elements(s \o t)
<1>1. /\ IsList(s) /\ IsList(t) /\ IsList(s \o t)
      /\ Elements(s \o t) = Elements(s) \cup Elements(t)
  BY ListConcat, ElementsOfConcat DEF Sound
<1>2. \A e \in Elements(s) \cup Elements(t) :
        e.confidence \in {"medium", "low"} /\ e.evidence # {} /\ e.evidence \subseteq S
  BY DEF Sound, Elements
<1>3. \A i \in DOMAIN (s \o t) : (s \o t)[i] \in Elements(s \o t)
  BY DEF Elements
<1>4. QED
  BY <1>1, <1>2, <1>3 DEF Sound

LEMMA SoundEmpty ==
  ASSUME NEW S
  PROVE  Sound(<<>>, S)
BY DEF Sound, IsList, Elements

LEMMA SoundSingle ==
  ASSUME NEW S, NEW type, NEW x, x # {}, x \subseteq S
  PROVE  /\ Sound(<<Primitive(type, "low", x)>>, S)
         /\ Covers(<<Primitive(type, "low", x)>>, x)
<1> DEFINE p == Primitive(type, "low", x)
           list == <<p>>
<1>1. p.confidence = "low" /\ p.evidence = x
  BY DEF Primitive
<1> HIDE DEF p
<1>2. list \in Seq({p}) /\ DOMAIN list = 1 .. 1 /\ list[1] = p
  OBVIOUS
<1>3. IsList(list)
  BY <1>2, SequenceIsList
<1>4. \A i \in DOMAIN list : list[i] = p
  BY <1>2
<1>5. p \in Elements(list)
  BY <1>2 DEF Elements
<1>6. QED
  BY <1>1, <1>3, <1>4, <1>5 DEF Sound, Covers, p

LEMMA SuggestedIsSound ==
  ASSUME NEW S, NEW bs, Sound(bs, S), NEW boundaryType, NEW type, NEW x, x \subseteq S
  PROVE  LET s == Suggested(bs, boundaryType, type, x) IN
         /\ Sound(s, S)
         /\ \A i \in DOMAIN bs : bs[i].type = boundaryType =>
              s # <<>> /\ Covers(s, bs[i].evidence)
<1> DEFINE P == {i \in DOMAIN bs : bs[i].type = boundaryType}
           picked == Pick(bs, P)
           s == Suggested(bs, boundaryType, type, x)
<1>1. /\ IsList(picked)
      /\ \A i \in DOMAIN picked : \E k \in P : picked[i] = bs[k]
      /\ \A k \in P : \E i \in DOMAIN picked : picked[i] = bs[k]
  <2>1. IsList(bs) /\ P \in SUBSET DOMAIN bs
    BY DEF Sound
  <2> HIDE DEF P
  <2>2. QED
    BY <2>1, PickIsList
<1>2. s = [i \in DOMAIN picked |->
             [type |-> type, confidence |-> picked[i].confidence,
              evidence |-> picked[i].evidence \cup x]]
  BY DEF Suggested, Primitive
<1>3. \A k \in P : k \in DOMAIN bs /\ bs[k].type = boundaryType
  OBVIOUS
<1>4. \A k \in DOMAIN bs : bs[k].type = boundaryType => k \in P
  OBVIOUS
<1> HIDE DEF P, picked, s
<1>5. DOMAIN picked = 1 .. Len(picked) /\ Len(picked) \in Nat
  BY <1>1, ListFacts
<1>6. IsList(s) /\ DOMAIN s = DOMAIN picked
  <2>1. s = [i \in 1 .. Len(picked) |-> s[i]]
    BY <1>2, <1>5
  <2>2. QED
    BY <1>5, <2>1, MapIsList
<1>7. \A i \in DOMAIN s : /\ s[i].confidence = picked[i].confidence
                          /\ s[i].evidence = picked[i].evidence \cup x
  BY <1>2
<1>8. Sound(s, S)
  <2>1. \A i \in DOMAIN picked : /\ picked[i].confidence \in {"medium", "low"}
                                 /\ picked[i].evidence # {} /\ picked[i].evidence \subseteq S
    BY <1>1, <1>3 DEF Sound
  <2>2. QED
    BY <1>6, <1>7, <2>1 DEF Sound
<1>9. ASSUME NEW k \in DOMAIN bs, bs[k].type = boundaryType
      PROVE  s # <<>> /\ Covers(s, bs[k].evidence)
  <2>1. PICK i \in DOMAIN s : picked[i] = bs[k]
    BY <1>1, <1>4, <1>6, <1>9
  <2>2. s # <<>>
    BY <2>1
  <2>3. s[i] \in Elements(s) /\ bs[k].evidence \subseteq s[i].evidence
    BY <1>7, <2>1 DEF Elements
  <2>4. QED
    BY <2>2, <2>3 DEF Covers
<1>10. QED
  BY <1>8, <1>9 DEF s

LEMMA ConfidenceIsChanged ==
  ASSUME NEW S, NEW bs, Sound(bs, S), NEW boundaryType, NEW type, NEW x, x \subseteq S
  PROVE  Sound(WithConfidence(Suggested(bs, boundaryType, type, x), "low"), S)
<1> DEFINE s == Suggested(bs, boundaryType, type, x)
           t == WithConfidence(s, "low")
<1>1. Sound(s, S)
  BY SuggestedIsSound
<1>2. \A i \in DOMAIN s : DOMAIN s[i] = {"type", "confidence", "evidence"}
  BY DEF Suggested, Primitive
<1>3. t = [i \in DOMAIN s |-> [s[i] EXCEPT !.confidence = "low"]]
  BY DEF WithConfidence
<1> HIDE DEF s, t
<1>4. DOMAIN s = 1 .. Len(s) /\ Len(s) \in Nat
  BY <1>1, ListFacts DEF Sound
<1>5. IsList(t) /\ DOMAIN t = DOMAIN s
  <2>1. t = [i \in 1 .. Len(s) |-> t[i]]
    BY <1>3, <1>4
  <2>2. QED
    BY <1>4, <2>1, MapIsList
<1>6. \A i \in DOMAIN t : t[i].confidence = "low" /\ t[i].evidence = s[i].evidence
  BY <1>2, <1>3
<1>7. QED
  BY <1>1, <1>5, <1>6 DEF Sound, t, s

LEMMA PickedEvidence ==
  ASSUME NEW C, IsList(C), NEW P \in SUBSET DOMAIN C
  PROVE  /\ IsList(Pick(C, P)) /\ EvidenceOf(Pick(C, P)) \subseteq EvidenceOf(C)
         /\ \A k \in P : C[k].evidence \subseteq EvidenceOf(Pick(C, P))
<1> DEFINE p == Pick(C, P)
<1>1. /\ IsList(p)
      /\ \A i \in DOMAIN p : \E k \in P : p[i] = C[k]
      /\ \A k \in P : \E i \in DOMAIN p : p[i] = C[k]
  BY PickIsList
<1> HIDE DEF p
<1>2. EvidenceOf(p) \subseteq EvidenceOf(C)
  BY <1>1 DEF EvidenceOf
<1>3. \A k \in P : C[k].evidence \subseteq EvidenceOf(p)
  BY <1>1 DEF EvidenceOf
<1>4. QED
  BY <1>1, <1>2, <1>3 DEF p

LEMMA TermsAreSuggested ==
  ASSUME NEW S, NEW C, IsList(C), EvidenceOf(C) \subseteq S, NEW terms, NEW type
  PROVE  LET s == SuggestedByTerms(C, terms, type) IN
         /\ Sound(s, S)
         /\ \A i \in DOMAIN C : C[i].terms \cap terms # {} /\ C[i].evidence # {}
              => Covers(s, C[i].evidence)
<1> DEFINE P == {i \in DOMAIN C : C[i].terms \cap terms # {}}
           x == EvidenceOf(WithTerms(C, terms))
           s == SuggestedByTerms(C, terms, type)
<1>1. /\ x \subseteq EvidenceOf(C)
      /\ \A k \in DOMAIN C : C[k].terms \cap terms # {} => C[k].evidence \subseteq x
  <2>1. P \in SUBSET DOMAIN C /\ WithTerms(C, terms) = Pick(C, P)
    BY DEF WithTerms
  <2>2. \A k \in DOMAIN C : C[k].terms \cap terms # {} => k \in P
    OBVIOUS
  <2> HIDE DEF P
  <2>3. QED
    BY <2>1, <2>2, PickedEvidence
<1>2. s = IF x = {} THEN <<>> ELSE <<Primitive(type, "low", x)>>
  BY DEF SuggestedByTerms
<1> HIDE DEF x, s
<1>3. CASE x = {}
  BY <1>1, <1>2, <1>3, SoundEmpty DEF s
<1>4. CASE x # {}
  <2>1. Sound(s, S) /\ Covers(s, x)
    BY <1>1, <1>2, <1>4, SoundSingle
  <2>2. \A i \in DOMAIN C : C[i].terms \cap terms # {} => Covers(s, C[i].evidence)
    BY <1>1, <2>1 DEF Covers
  <2>3. QED
    BY <2>1, <2>2 DEF s
<1>5. QED
  BY <1>3, <1>4

(* A file boundary always becomes a primitive of some kind.                *)
LEMMA FilesAreClassified ==
  ASSUME NEW S, NEW bs, Sound(bs, S), NEW C, IsList(C), EvidenceOf(C) \subseteq S
  PROVE  LET s == FilePrimitives(bs, C) IN
         /\ Sound(s, S)
         /\ \A i \in DOMAIN bs : bs[i].type = "data_to_file" => Covers(s, bs[i].evidence)
<1> DEFINE P == {i \in DOMAIN C : C[i].type = "file_operation"}
           files == Pick(C, P)
           shows(term) == WithTerms(files, {term}) # <<>>
           suggested(type) == Suggested(bs, "data_to_file", type, EvidenceOf(files))
           a == If(shows("write"), suggested("file_write"))
           b == If(shows("read"), suggested("file_read"))
           c == If(shows("path") \/ ~(shows("write") \/ shows("read")), suggested("path_control"))
<1>1. FilePrimitives(bs, C) = (a \o b) \o c
  BY DEF FilePrimitives
<1>2. EvidenceOf(files) \subseteq S
  <2>1. P \in SUBSET DOMAIN C
    OBVIOUS
  <2> HIDE DEF P
  <2>2. QED
    BY <2>1, PickedEvidence
<1> HIDE DEF files
<1>3. \A type : /\ Sound(suggested(type), S)
                /\ \A i \in DOMAIN bs : bs[i].type = "data_to_file"
                     => Covers(suggested(type), bs[i].evidence)
  BY <1>2, SuggestedIsSound
<1> HIDE DEF suggested, shows
<1>4. Sound(a, S) /\ Sound(b, S) /\ Sound(c, S)
  BY <1>3, SoundEmpty DEF If
<1>5. a = suggested("file_write") \/ b = suggested("file_read") \/ c = suggested("path_control")
  BY DEF If
<1> HIDE DEF a, b, c
<1>6. /\ Sound(a \o b, S)
      /\ Elements(a) \subseteq Elements(a \o b) /\ Elements(b) \subseteq Elements(a \o b)
  BY <1>4, SoundConcat
<1>7. /\ Sound((a \o b) \o c, S)
      /\ Elements(a \o b) \subseteq Elements((a \o b) \o c)
      /\ Elements(c) \subseteq Elements((a \o b) \o c)
  BY <1>4, <1>6, SoundConcat
<1>8. \A i \in DOMAIN bs : bs[i].type = "data_to_file" => Covers((a \o b) \o c, bs[i].evidence)
  BY <1>3, <1>5, <1>6, <1>7 DEF Covers
<1>9. QED
  BY <1>1, <1>7, <1>8

DataBoundaries ==
  {"data_to_file", "data_to_url", "data_to_template", "data_to_config", "data_to_job",
   "data_to_database", "data_to_directory", "parser_to_consumer"}

TellingTerms == {"cache", "session", "auth", "permission", "admin", "tenant", "workspace", "org"}

LEMMA PrimitivesAreSound ==
  ASSUME NEW S, NEW bs, Sound(bs, S), NEW C, IsList(C), EvidenceOf(C) \subseteq S,
         NEW W, EvidenceOf(W) \subseteq S
  PROVE  LET ps == ClassifyPrimitives(bs, C, W) IN
         /\ Sound(ps, S)
         /\ \A i \in DOMAIN bs : bs[i].type \in DataBoundaries => Covers(ps, bs[i].evidence)
         /\ \A i \in DOMAIN C :
              C[i].evidence # {}
                /\ (C[i].type = "deserialization" \/ C[i].terms \cap TellingTerms # {})
                => Covers(ps, C[i].evidence)
<1> DEFINE of(types) == OfType(C, types)
           suggested(boundaryType, type, types) == Suggested(bs, boundaryType, type, of(types))
           background == of({"queue_operation"}) \cup EvidenceOf(W)
           jobs == Suggested(bs, "data_to_job", "job_control", background)
           requestJobs == Suggested(bs, "request_to_worker", "job_control", background)
           l1 == FilePrimitives(bs, C)
           l2 == suggested("data_to_url", "url_control", {"network_operation"})
           l3 == WithConfidence(suggested("data_to_url", "internal_request_trigger",
                                          {"network_operation"}), "low")
           l4 == suggested("data_to_template", "template_control", {"template_operation"})
           l5 == IF jobs # <<>> THEN jobs ELSE requestJobs
           l6 == suggested("data_to_config", "config_control", {"config_operation"})
           l7 == suggested("data_to_database", "query_control", {"database_operation"})
           l8 == suggested("data_to_directory", "directory_query_control",
                           {"directory_operation"})
           l9 == suggested("parser_to_consumer", "parser_differential",
                           {"parser_operation", "archive_operation"})
           l10 == If(of({"deserialization"}) # {},
                     <<Primitive("type_control", "low", of({"deserialization"}))>>)
           l11 == SuggestedByTerms(C, {"cache", "session"}, "cache_poisoning")
           l12 == SuggestedByTerms(C, {"auth", "permission", "admin"}, "auth_context_confusion")
           l13 == SuggestedByTerms(C, {"tenant", "workspace", "org"}, "tenant_confusion")
           ps == ClassifyPrimitives(bs, C, W)
<1>1. ps = l1 \o l2 \o l3 \o l4 \o l5 \o l6 \o l7 \o l8 \o l9 \o l10 \o l11 \o l12 \o l13
  BY DEF ClassifyPrimitives
<1>2. \A types : of(types) \subseteq S
  BY DEF OfType, EvidenceOf
<1>3. background \subseteq S
  BY <1>2
<1> HIDE DEF of, background
<1>4. /\ Sound(l1, S)
      /\ \A i \in DOMAIN bs : bs[i].type = "data_to_file" => Covers(l1, bs[i].evidence)
  BY FilesAreClassified
<1>5. \A boundaryType, type, types :
        /\ Sound(suggested(boundaryType, type, types), S)
        /\ \A i \in DOMAIN bs : bs[i].type = boundaryType =>
             Covers(suggested(boundaryType, type, types), bs[i].evidence)
  BY <1>2, SuggestedIsSound
<1>6. /\ Sound(jobs, S) /\ Sound(requestJobs, S)
      /\ \A i \in DOMAIN bs : bs[i].type = "data_to_job" =>
           jobs # <<>> /\ Covers(jobs, bs[i].evidence)
  BY <1>3, SuggestedIsSound
<1>7. Sound(l3, S)
  BY <1>2, ConfidenceIsChanged
<1>8. /\ Sound(l10, S)
      /\ \A i \in DOMAIN C : C[i].evidence # {} /\ C[i].type = "deserialization"
           => Covers(l10, C[i].evidence)
  <2>1. \A i \in DOMAIN C : C[i].type = "deserialization" =>
          C[i].evidence \subseteq of({"deserialization"})
    BY DEF of, OfType
  <2>2. CASE of({"deserialization"}) = {}
    BY <2>1, <2>2, SoundEmpty DEF If
  <2>3. CASE of({"deserialization"}) # {}
    <3>1. l10 = <<Primitive("type_control", "low", of({"deserialization"}))>>
      BY <2>3 DEF If
    <3>2. Sound(l10, S) /\ Covers(l10, of({"deserialization"}))
      BY <1>2, <2>3, <3>1, SoundSingle
    <3> HIDE DEF l10
    <3>3. QED
      BY <2>1, <3>2 DEF Covers
  <2>4. QED
    BY <2>2, <2>3
<1>9. /\ Sound(l11, S) /\ Sound(l12, S) /\ Sound(l13, S)
      /\ \A i \in DOMAIN C : C[i].evidence # {} /\ C[i].terms \cap TellingTerms # {}
           => Covers(l11, C[i].evidence) \/ Covers(l12, C[i].evidence) \/ Covers(l13, C[i].evidence)
  <2>1. TellingTerms = {"cache", "session"} \cup {"auth", "permission", "admin"}
                         \cup {"tenant", "workspace", "org"}
    BY DEF TellingTerms
  <2>2. /\ Sound(l11, S)
        /\ \A i \in DOMAIN C : C[i].terms \cap {"cache", "session"} # {} /\ C[i].evidence # {}
             => Covers(l11, C[i].evidence)
    BY TermsAreSuggested
  <2>3. /\ Sound(l12, S)
        /\ \A i \in DOMAIN C :
             C[i].terms \cap {"auth", "permission", "admin"} # {} /\ C[i].evidence # {}
             => Covers(l12, C[i].evidence)
    BY TermsAreSuggested
  <2>4. /\ Sound(l13, S)
        /\ \A i \in DOMAIN C :
             C[i].terms \cap {"tenant", "workspace", "org"} # {} /\ C[i].evidence # {}
             => Covers(l13, C[i].evidence)
    BY TermsAreSuggested
  <2> HIDE DEF l11, l12, l13
  <2>5. QED
    BY <2>1, <2>2, <2>3, <2>4
<1>10. /\ Sound(l2, S) /\ Sound(l4, S) /\ Sound(l5, S) /\ Sound(l6, S)
       /\ Sound(l7, S) /\ Sound(l8, S) /\ Sound(l9, S)
  BY <1>5, <1>6
<1>11. \A i \in DOMAIN bs : bs[i].type \in DataBoundaries =>
         \/ Covers(l1, bs[i].evidence) \/ Covers(l2, bs[i].evidence)
         \/ Covers(l4, bs[i].evidence) \/ Covers(l5, bs[i].evidence)
         \/ Covers(l6, bs[i].evidence) \/ Covers(l7, bs[i].evidence)
         \/ Covers(l8, bs[i].evidence) \/ Covers(l9, bs[i].evidence)
  <2> SUFFICES ASSUME NEW i \in DOMAIN bs, bs[i].type \in DataBoundaries
               PROVE  \/ Covers(l1, bs[i].evidence) \/ Covers(l2, bs[i].evidence)
                      \/ Covers(l4, bs[i].evidence) \/ Covers(l5, bs[i].evidence)
                      \/ Covers(l6, bs[i].evidence) \/ Covers(l7, bs[i].evidence)
                      \/ Covers(l8, bs[i].evidence) \/ Covers(l9, bs[i].evidence)
    OBVIOUS
  <2>1. bs[i].type = "data_to_file" => Covers(l1, bs[i].evidence)
    BY <1>4
  <2>2. bs[i].type = "data_to_url" => Covers(l2, bs[i].evidence)
    BY <1>5
  <2>3. bs[i].type = "data_to_template" => Covers(l4, bs[i].evidence)
    BY <1>5
  <2>4. bs[i].type = "data_to_job" => Covers(l5, bs[i].evidence)
    BY <1>6
  <2>5. bs[i].type = "data_to_config" => Covers(l6, bs[i].evidence)
    BY <1>5
  <2>6. bs[i].type = "data_to_database" => Covers(l7, bs[i].evidence)
    BY <1>5
  <2>7. bs[i].type = "data_to_directory" => Covers(l8, bs[i].evidence)
    BY <1>5
  <2>8. bs[i].type = "parser_to_consumer" => Covers(l9, bs[i].evidence)
    BY <1>5
  <2>9. QED
    BY <2>1, <2>2, <2>3, <2>4, <2>5, <2>6, <2>7, <2>8 DEF DataBoundaries
<1> HIDE DEF l1, l2, l3, l4, l5, l6, l7, l8, l9, l10, l11, l12, l13, ps
<1>12. ASSUME NEW a, NEW b, Sound(a, S), Sound(b, S)
       PROVE  Sound(a \o b, S) /\ Elements(a \o b) = Elements(a) \cup Elements(b)
  BY <1>12, SoundConcat, ElementsOfConcat DEF Sound
<1> DEFINE m2 == l1 \o l2
           m3 == m2 \o l3
           m4 == m3 \o l4
           m5 == m4 \o l5
           m6 == m5 \o l6
           m7 == m6 \o l7
           m8 == m7 \o l8
           m9 == m8 \o l9
           m10 == m9 \o l10
           m11 == m10 \o l11
           m12 == m11 \o l12
           m13 == m12 \o l13
<1>13. ps = m13
  BY <1>1
<1>14. Sound(m2, S) /\ Elements(m2) = Elements(l1) \cup Elements(l2)
  BY <1>4, <1>10, <1>12
<1> HIDE DEF m2
<1>15. Sound(m3, S) /\ Elements(m3) = Elements(m2) \cup Elements(l3)
  BY <1>7, <1>12, <1>14
<1> HIDE DEF m3
<1>16. Sound(m4, S) /\ Elements(m4) = Elements(m3) \cup Elements(l4)
  BY <1>10, <1>12, <1>15
<1> HIDE DEF m4
<1>17. Sound(m5, S) /\ Elements(m5) = Elements(m4) \cup Elements(l5)
  BY <1>10, <1>12, <1>16
<1> HIDE DEF m5
<1>18. Sound(m6, S) /\ Elements(m6) = Elements(m5) \cup Elements(l6)
  BY <1>10, <1>12, <1>17
<1> HIDE DEF m6
<1>19. Sound(m7, S) /\ Elements(m7) = Elements(m6) \cup Elements(l7)
  BY <1>10, <1>12, <1>18
<1> HIDE DEF m7
<1>20. Sound(m8, S) /\ Elements(m8) = Elements(m7) \cup Elements(l8)
  BY <1>10, <1>12, <1>19
<1> HIDE DEF m8
<1>21. Sound(m9, S) /\ Elements(m9) = Elements(m8) \cup Elements(l9)
  BY <1>10, <1>12, <1>20
<1> HIDE DEF m9
<1>22. Sound(m10, S) /\ Elements(m10) = Elements(m9) \cup Elements(l10)
  BY <1>8, <1>12, <1>21
<1> HIDE DEF m10
<1>23. Sound(m11, S) /\ Elements(m11) = Elements(m10) \cup Elements(l11)
  BY <1>9, <1>12, <1>22
<1> HIDE DEF m11
<1>24. Sound(m12, S) /\ Elements(m12) = Elements(m11) \cup Elements(l12)
  BY <1>9, <1>12, <1>23
<1> HIDE DEF m12
<1>25. Sound(m13, S) /\ Elements(m13) = Elements(m12) \cup Elements(l13)
  BY <1>9, <1>12, <1>24
<1> HIDE DEF m13
<1>26. /\ Sound(ps, S)
       /\ \A l \in {l1, l2, l4, l5, l6, l7, l8, l9, l10, l11, l12, l13} :
            Elements(l) \subseteq Elements(ps)
  BY <1>13, <1>14, <1>15, <1>16, <1>17, <1>18, <1>19, <1>20, <1>21, <1>22, <1>23, <1>24, <1>25
<1>27. \A l \in {l1, l2, l4, l5, l6, l7, l8, l9, l10, l11, l12, l13} :
         \A x : Covers(l, x) => Covers(ps, x)
  BY <1>26 DEF Covers
<1>28. \A i \in DOMAIN bs : bs[i].type \in DataBoundaries => Covers(ps, bs[i].evidence)
  BY <1>11, <1>27
<1>29. \A i \in DOMAIN C :
         C[i].evidence # {}
           /\ (C[i].type = "deserialization" \/ C[i].terms \cap TellingTerms # {})
           => Covers(ps, C[i].evidence)
  BY <1>8, <1>9, <1>27
<1>30. QED
  BY <1>26, <1>28, <1>29 DEF ps

BoundaryTypes ==
  DataBoundaries \cup {"external_to_internal", "request_to_worker",
                       "low_priv_to_privileged_consumer"}

DirectTypes ==
  {"file_operation", "network_operation", "template_operation", "config_operation",
   "database_operation", "directory_operation", "queue_operation"}

LEMMA RulesCover ==
  ASSUME NEW E, NEW C, NEW W
  PROVE  LET rules == BoundaryRules(E, C, W)
             S == EvidenceOf(E) \cup EvidenceOf(C) \cup EvidenceOf(W)
             read == OfType(C, {"parser_operation", "archive_operation"})
             target == OfType(C, {"file_operation", "template_operation", "config_operation"})
         IN
         /\ IsList(rules)
         /\ \A k \in DOMAIN rules :
              /\ rules[k].type \in BoundaryTypes /\ rules[k].confidence \in {"medium", "low"}
              /\ rules[k].groups # {} /\ \A g \in rules[k].groups : g \subseteq S
         /\ EvidenceOf(W) # {} =>
              \E k \in DOMAIN rules :
                Applies(rules[k]) /\ EvidenceOf(W) \subseteq UNION rules[k].groups
         /\ \A type \in DirectTypes : OfType(C, {type}) # {} =>
              \E k \in DOMAIN rules :
                Applies(rules[k]) /\ OfType(C, {type}) \subseteq UNION rules[k].groups
         /\ read # {} /\ target # {} =>
              \E k \in DOMAIN rules :
                Applies(rules[k]) /\ read \subseteq UNION rules[k].groups
<1> DEFINE requests == EvidenceOf(E)
           background == EvidenceOf(W)
           of(types) == OfType(C, types)
           read == of({"parser_operation", "archive_operation"})
           target == of({"file_operation", "template_operation", "config_operation"})
           S == EvidenceOf(E) \cup EvidenceOf(C) \cup EvidenceOf(W)
           jobs == of({"queue_operation"}) \cup background
           r1 == Rule("request_to_worker", "medium", {requests, background})
           r2 == Rule("data_to_file", "medium", {of({"file_operation"})})
           r3 == Rule("data_to_url", "medium", {of({"network_operation"})})
           r4 == Rule("data_to_template", "medium", {of({"template_operation"})})
           r5 == Rule("data_to_config", "medium", {of({"config_operation"})})
           r6 == Rule("data_to_job", "medium", {jobs})
           r7 == Rule("data_to_database", "medium", {of({"database_operation"})})
           r8 == Rule("data_to_directory", "medium", {of({"directory_operation"})})
           r9 == Rule("external_to_internal", "medium", {requests, of({"network_operation"})})
           r10 == Rule("low_priv_to_privileged_consumer", "low", {requests, jobs})
           r11 == Rule("parser_to_consumer", "medium", {read, target})
           rules == BoundaryRules(E, C, W)
           R == {r1, r2, r3, r4, r5, r6, r7, r8, r9, r10, r11}
<1>1. rules = <<r1, r2, r3, r4, r5, r6, r7, r8, r9, r10, r11>>
  BY DEF BoundaryRules
<1>2. /\ requests \subseteq S /\ background \subseteq S /\ jobs \subseteq S
      /\ \A types : of(types) \subseteq S
  BY DEF OfType, EvidenceOf
<1>3. \A type, confidence, groups :
        /\ Rule(type, confidence, groups).type = type
        /\ Rule(type, confidence, groups).confidence = confidence
        /\ Rule(type, confidence, groups).groups = groups
  BY DEF Rule
<1> HIDE DEF of, requests, background, S, jobs, read, target
<1>4. \A r \in R : /\ r.type \in BoundaryTypes /\ r.confidence \in {"medium", "low"}
                   /\ r.groups # {} /\ \A g \in r.groups : g \subseteq S
  <2>1. read \subseteq S /\ target \subseteq S
    BY <1>2 DEF read, target
  <2>2. QED
    BY <1>2, <1>3, <2>1 DEF BoundaryTypes, DataBoundaries
<1>5. /\ r2.groups = {of({"file_operation"})} /\ r3.groups = {of({"network_operation"})}
      /\ r4.groups = {of({"template_operation"})} /\ r5.groups = {of({"config_operation"})}
      /\ r6.groups = {jobs} /\ r7.groups = {of({"database_operation"})}
      /\ r8.groups = {of({"directory_operation"})} /\ r11.groups = {read, target}
  BY <1>3
<1> HIDE DEF r1, r2, r3, r4, r5, r6, r7, r8, r9, r10, r11, rules
<1>6. rules \in Seq(R) /\ \A r \in R : \E k \in DOMAIN rules : rules[k] = r
  <2>1. /\ rules \in Seq(R) /\ DOMAIN rules = 1 .. 11
        /\ rules[1] = r1 /\ rules[2] = r2 /\ rules[3] = r3 /\ rules[4] = r4
        /\ rules[5] = r5 /\ rules[6] = r6 /\ rules[7] = r7 /\ rules[8] = r8
        /\ rules[9] = r9 /\ rules[10] = r10 /\ rules[11] = r11
    BY <1>1
  <2>2. QED
    BY <2>1
<1>7. IsList(rules) /\ \A k \in DOMAIN rules : rules[k] \in R
  <2>1. IsList(rules)
    BY <1>6, SequenceIsList
  <2>2. rules \in [1 .. Len(rules) -> R] /\ DOMAIN rules = 1 .. Len(rules)
    BY <1>6, LenProperties
  <2>3. QED
    BY <2>1, <2>2
<1>8. jobs = of({"queue_operation"}) \cup background
  BY DEF jobs
<1> HIDE DEF R
<1>9. {r2, r3, r4, r5, r6, r7, r8, r11} \subseteq R
  BY DEF R
<1>10. \A r \in R : (\A g \in r.groups : g # {}) =>
         \E k \in DOMAIN rules : Applies(rules[k]) /\ rules[k].groups = r.groups
  BY <1>6 DEF Applies
<1>11. background # {} =>
         \E k \in DOMAIN rules : Applies(rules[k]) /\ background \subseteq UNION rules[k].groups
  <2>1. background # {} => \E k \in DOMAIN rules : Applies(rules[k]) /\ rules[k].groups = {jobs}
    BY <1>5, <1>8, <1>9, <1>10
  <2>2. background \subseteq UNION {jobs}
    BY <1>8
  <2>3. QED
    BY <2>1, <2>2
<1>12. ASSUME NEW type \in DirectTypes, of({type}) # {}
       PROVE  \E k \in DOMAIN rules : Applies(rules[k]) /\ of({type}) \subseteq UNION rules[k].groups
  <2>1. \E r \in {r2, r3, r4, r5, r6, r7, r8} : r.groups = {of({type})} \/ (r.groups = {jobs} /\ type = "queue_operation")
    BY <1>5 DEF DirectTypes
  <2>2. \E g : g # {} /\ of({type}) \subseteq g /\ \E r \in R : r.groups = {g}
    BY <1>8, <1>9, <1>12, <2>1
  <2>3. PICK g : g # {} /\ of({type}) \subseteq g /\ \E r \in R : r.groups = {g}
    BY <2>2
  <2>4. PICK k \in DOMAIN rules : Applies(rules[k]) /\ rules[k].groups = {g}
    BY <1>10, <2>3
  <2>5. QED
    BY <2>3, <2>4
<1>13. read # {} /\ target # {} =>
         \E k \in DOMAIN rules : Applies(rules[k]) /\ read \subseteq UNION rules[k].groups
  BY <1>5, <1>9, <1>10
<1>14. QED
  BY <1>4, <1>7, <1>11, <1>12, <1>13 DEF rules, S, background, of, read, target

LEMMA BoundariesAreSound ==
  ASSUME NEW E, NEW C, NEW W
  PROVE  LET bs == InferBoundaries(E, C, W)
             S == EvidenceOf(E) \cup EvidenceOf(C) \cup EvidenceOf(W)
             read == OfType(C, {"parser_operation", "archive_operation"})
             target == OfType(C, {"file_operation", "template_operation", "config_operation"})
         IN
         /\ Sound(bs, S) /\ \A i \in DOMAIN bs : bs[i].type \in BoundaryTypes
         /\ EvidenceOf(W) # {} => Covers(bs, EvidenceOf(W))
         /\ \A type \in DirectTypes : OfType(C, {type}) # {} => Covers(bs, OfType(C, {type}))
         /\ read # {} /\ target # {} => Covers(bs, read)
<1> DEFINE S == EvidenceOf(E) \cup EvidenceOf(C) \cup EvidenceOf(W)
           of(types) == OfType(C, types)
           background == EvidenceOf(W)
           read == of({"parser_operation", "archive_operation"})
           target == of({"file_operation", "template_operation", "config_operation"})
           all == BoundaryRules(E, C, W)
           P == {i \in DOMAIN all : Applies(all[i])}
           rules == Pick(all, P)
           bs == InferBoundaries(E, C, W)
<1>1. /\ IsList(all)
      /\ \A k \in DOMAIN all :
           /\ all[k].type \in BoundaryTypes /\ all[k].confidence \in {"medium", "low"}
           /\ all[k].groups # {} /\ \A g \in all[k].groups : g \subseteq S
      /\ background # {} =>
           \E k \in DOMAIN all : Applies(all[k]) /\ background \subseteq UNION all[k].groups
      /\ \A type \in DirectTypes : of({type}) # {} =>
           \E k \in DOMAIN all : Applies(all[k]) /\ of({type}) \subseteq UNION all[k].groups
      /\ read # {} /\ target # {} =>
           \E k \in DOMAIN all : Applies(all[k]) /\ read \subseteq UNION all[k].groups
  BY RulesCover
<1>2. bs = [i \in DOMAIN rules |-> [type |-> rules[i].type, confidence |-> rules[i].confidence,
                                    evidence |-> UNION rules[i].groups]]
  BY DEF InferBoundaries
<1> HIDE DEF S, of, background, read, target, all, bs
<1>3. \A k : k \in P <=> k \in DOMAIN all /\ Applies(all[k])
  OBVIOUS
<1>4. P \in SUBSET DOMAIN all
  OBVIOUS
<1> HIDE DEF P
<1>5. /\ IsList(rules)
      /\ \A i \in DOMAIN rules : \E k \in P : rules[i] = all[k]
      /\ \A k \in P : \E i \in DOMAIN rules : rules[i] = all[k]
  BY <1>1, <1>4, PickIsList
<1> HIDE DEF rules
<1>6. DOMAIN rules = 1 .. Len(rules) /\ Len(rules) \in Nat
  BY <1>5, ListFacts
<1>7. IsList(bs) /\ DOMAIN bs = DOMAIN rules
  <2>1. bs = [i \in 1 .. Len(rules) |-> bs[i]]
    BY <1>2, <1>6
  <2>2. QED
    BY <1>6, <2>1, MapIsList
<1>8. \A i \in DOMAIN bs : /\ bs[i].type = rules[i].type
                           /\ bs[i].confidence = rules[i].confidence
                           /\ bs[i].evidence = UNION rules[i].groups
  BY <1>2
<1>9. \A i \in DOMAIN bs : /\ bs[i].type \in BoundaryTypes
                           /\ bs[i].confidence \in {"medium", "low"}
                           /\ bs[i].evidence # {} /\ bs[i].evidence \subseteq S
  <2> SUFFICES ASSUME NEW i \in DOMAIN bs
               PROVE  /\ bs[i].type \in BoundaryTypes /\ bs[i].confidence \in {"medium", "low"}
                      /\ bs[i].evidence # {} /\ bs[i].evidence \subseteq S
    OBVIOUS
  <2>1. PICK k \in P : rules[i] = all[k]
    BY <1>5, <1>7
  <2>2. Applies(all[k]) /\ k \in DOMAIN all
    BY <1>3
  <2>3. PICK g \in all[k].groups : g # {}
    BY <1>1, <2>2 DEF Applies
  <2>4. bs[i].evidence # {} /\ bs[i].evidence \subseteq S
    BY <1>1, <1>8, <2>1, <2>2, <2>3
  <2>5. QED
    BY <1>1, <1>8, <2>1, <2>2, <2>4
<1>10. ASSUME NEW x, \E k \in DOMAIN all : Applies(all[k]) /\ x \subseteq UNION all[k].groups
       PROVE  Covers(bs, x)
  <2>1. PICK k \in P : x \subseteq UNION all[k].groups
    BY <1>3, <1>10
  <2>2. PICK i \in DOMAIN bs : rules[i] = all[k]
    BY <1>5, <1>7
  <2>3. x \subseteq bs[i].evidence /\ bs[i] \in Elements(bs)
    BY <1>8, <2>1, <2>2 DEF Elements
  <2>4. QED
    BY <2>3 DEF Covers
<1>11. /\ background # {} => Covers(bs, background)
       /\ \A type \in DirectTypes : of({type}) # {} => Covers(bs, of({type}))
       /\ read # {} /\ target # {} => Covers(bs, read)
  BY <1>1, <1>10
<1>12. Sound(bs, S)
  BY <1>7, <1>9 DEF Sound
<1>13. QED
  BY <1>9, <1>11, <1>12 DEF bs, S, background, of, read, target

(* Whatever a boundary or a primitive covers is used.                      *)
LEMMA CoveredIsUsed ==
  ASSUME NEW list, NEW x, Covers(list, x)
  PROVE  x \subseteq EvidenceOf(list)
BY DEF Covers, Elements, EvidenceOf

LEMMA EvidencesAreKnown ==
  ASSUME IInv
  PROVE  /\ \A list \in {entrypoints, consumers, workers} :
              /\ IsList(list) /\ EvidenceOf(list) \subseteq Evidences
              /\ \A i \in DOMAIN list :
                   /\ list[i].id \in Nat \ {0} /\ list[i].file \in 1 .. NumFiles
                   /\ list[i].evidence # {}
         /\ EvidenceOf(entrypoints) \cup EvidenceOf(consumers) \cup EvidenceOf(workers)
              \subseteq Evidences
<1>1. \A s, f : IdsOf(s, f) \subseteq Evidences
  BY DEF IdsOf, IInv, FoundAreMatches, IsMatch
<1>2. \A list \in {entrypoints, consumers, workers} : \E s \in MatchStages : Keeps(s, list)
  <2>1. /\ Detected("entrypoints") = entrypoints /\ Detected("consumers") = consumers
        /\ Detected("workers") = workers
        /\ MatchStages = {"entrypoints", "consumers", "workers"}
    BY DEF Detected, MatchStages
  <2>2. QED
    BY <2>1 DEF IInv, EvidenceIsKept
<1>3. \A list : (\E s \in MatchStages : Keeps(s, list)) =>
        /\ IsList(list) /\ EvidenceOf(list) \subseteq Evidences
        /\ \A i \in DOMAIN list :
             /\ list[i].id \in Nat \ {0} /\ list[i].file \in 1 .. NumFiles
             /\ list[i].evidence # {}
  BY <1>1 DEF Keeps, IsDetection, EvidenceOf
<1>4. QED
  BY <1>2, <1>3

(* The boundaries and primitives of every state.                           *)
LEMMA InferredIsSound ==
  ASSUME IInv
  PROVE  /\ Sound(boundaries, Evidences) /\ Sound(primitives, Evidences)
         /\ \A i \in DOMAIN boundaries : boundaries[i].type \in BoundaryTypes
<1> DEFINE S == EvidenceOf(entrypoints) \cup EvidenceOf(consumers) \cup EvidenceOf(workers)
<1>1. S \subseteq Evidences /\ IsList(consumers)
  BY EvidencesAreKnown
<1>2. Sound(<<>>, Evidences) /\ DOMAIN <<>> = {}
  BY SoundEmpty
<1>3. /\ Sound(boundaries, Evidences)
      /\ \A i \in DOMAIN boundaries : boundaries[i].type \in BoundaryTypes
  <2>1. CASE boundaries = <<>>
    BY <1>2, <2>1
  <2>2. CASE boundaries = InferBoundaries(entrypoints, consumers, workers)
    <3>1. /\ Sound(boundaries, S)
          /\ \A i \in DOMAIN boundaries : boundaries[i].type \in BoundaryTypes
      BY <2>2, BoundariesAreSound
    <3>2. QED
      BY <1>1, <3>1 DEF Sound
  <2>3. QED
    BY <2>1, <2>2 DEF IInv, Inferred
<1>4. Sound(primitives, Evidences)
  <2>1. CASE primitives = <<>>
    BY <1>2, <2>1
  <2>2. CASE primitives = ClassifyPrimitives(boundaries, consumers, workers)
    BY <1>1, <1>3, <2>2, PrimitivesAreSound
  <2>3. QED
    BY <2>1, <2>2 DEF IInv, Inferred
<1>5. QED
  BY <1>3, <1>4

(* The types of core/models.py: no detection, boundary or primitive is     *)
(* without evidence, and all evidence is numbered within its stage.        *)
THEOREM TypeCorrectness == Spec => []TypeOK
<1>1. IInv => TypeOK
  <2> SUFFICES ASSUME IInv
               PROVE  TypeOK
    OBVIOUS
  <2>1. \A list \in {entrypoints, consumers, workers} : \A i \in DOMAIN list :
          /\ list[i].id \in Nat \ {0} /\ list[i].file \in 1 .. NumFiles
          /\ list[i].evidence \in (SUBSET Evidences) \ {{}}
    BY EvidencesAreKnown DEF EvidenceOf
  <2>2. \A list \in {boundaries, primitives} : \A i \in DOMAIN list :
          /\ list[i].confidence \in {"medium", "low"}
          /\ list[i].evidence \in (SUBSET Evidences) \ {{}}
    BY InferredIsSound DEF Sound
  <2>3. QED
    BY <2>1, <2>2 DEF IInv, Control, TypeOK
<1>2. QED
  BY <1>1, InventoryIsKept, PTL

(* Nothing that was detected beyond the entrypoints is forgotten by the    *)
(* rules of infer_boundaries and classify_primitives, but for the cases    *)
(* the property names; and of every boundary about data a primitive keeps  *)
(* all evidence.                                                           *)
THEOREM DetectionsAreClassified == Spec => []EveryDetectionIsClassified
<1>1. IInv => EveryDetectionIsClassified
  <2> SUFFICES ASSUME IInv, stage = "done"
               PROVE  EveryDetectionIsClassified
    BY DEF EveryDetectionIsClassified
  <2> DEFINE used == EvidenceOf(boundaries) \cup EvidenceOf(primitives)
             S == EvidenceOf(entrypoints) \cup EvidenceOf(consumers) \cup EvidenceOf(workers)
             of(types) == OfType(consumers, types)
             read == of({"parser_operation", "archive_operation"})
             target == of({"file_operation", "template_operation", "config_operation"})
             isTarget(c) == c.type \in {"file_operation", "template_operation", "config_operation"}
  <2>1. /\ boundaries = InferBoundaries(entrypoints, consumers, workers)
        /\ primitives = ClassifyPrimitives(boundaries, consumers, workers)
    BY DEF IInv, Inferred
  <2>2. /\ IsList(consumers) /\ S \subseteq Evidences
        /\ \A i \in DOMAIN consumers : consumers[i].evidence # {}
    BY EvidencesAreKnown
  <2>3. /\ Sound(boundaries, S) /\ \A i \in DOMAIN boundaries : boundaries[i].type \in BoundaryTypes
        /\ EvidenceOf(workers) # {} => Covers(boundaries, EvidenceOf(workers))
        /\ \A type \in DirectTypes : of({type}) # {} => Covers(boundaries, of({type}))
        /\ read # {} /\ target # {} => Covers(boundaries, read)
    BY <2>1, BoundariesAreSound
  <2>4. /\ \A i \in DOMAIN boundaries : boundaries[i].type \in DataBoundaries
             => Covers(primitives, boundaries[i].evidence)
        /\ \A i \in DOMAIN consumers :
             consumers[i].evidence # {}
               /\ (consumers[i].type = "deserialization" \/ consumers[i].terms \cap TellingTerms # {})
             => Covers(primitives, consumers[i].evidence)
    BY <2>1, <2>2, <2>3, PrimitivesAreSound
  <2>5. \A x : Covers(boundaries, x) \/ Covers(primitives, x) => x \subseteq used
    BY CoveredIsUsed
  <2>6. \A types : \A i \in DOMAIN consumers : consumers[i].type \in types =>
          consumers[i].evidence \subseteq of(types)
    BY DEF OfType
  <2> HIDE DEF used, S, of
  <2>7. EvidenceOf(workers) \subseteq used
    BY <2>3, <2>5
  <2>8. ASSUME NEW i \in DOMAIN consumers
        PROVE  LET c == consumers[i] IN
               \/ c.evidence \subseteq used
               \/ /\ c.terms \cap TellingTerms = {}
                  /\ \/ c.type = "process_operation"
                     \/ /\ c.type \in {"parser_operation", "archive_operation"}
                        /\ ~ \E j \in DOMAIN consumers : isTarget(consumers[j])
    <3> DEFINE c == consumers[i]
    <3>1. /\ c.type \in DirectTypes \cup {"deserialization", "process_operation",
                                          "parser_operation", "archive_operation"}
          /\ c.evidence # {}
      <4>1. \A pattern \in KnownConsumers :
              ConsumerType(pattern) \in DirectTypes \cup {"deserialization", "process_operation",
                                          "parser_operation", "archive_operation"}
        BY DEF KnownConsumers, LineConsumers, ConsumerType, DirectTypes
      <4>2. QED
        BY <2>2, <4>1 DEF IInv, ConsumersAreKnown
    <3>2. c.terms \cap TellingTerms # {} \/ c.type = "deserialization" => c.evidence \subseteq used
      BY <2>4, <2>5, <3>1
    <3>3. c.type \in DirectTypes => c.evidence \subseteq used
      <4>1. c.evidence \subseteq of({c.type})
        BY <2>6
      <4>2. QED
        BY <2>3, <2>5, <3>1, <4>1
    <3>4. c.type \in {"parser_operation", "archive_operation"}
            /\ (\E j \in DOMAIN consumers : isTarget(consumers[j]))
          => c.evidence \subseteq used
      <4>1. \A j \in DOMAIN consumers : isTarget(consumers[j]) => target # {}
        BY <2>2, <2>6
      <4>2. c.type \in {"parser_operation", "archive_operation"} => c.evidence \subseteq read
        BY <2>6
      <4>3. QED
        BY <2>3, <2>5, <3>1, <4>1, <4>2
    <3>5. QED
      BY <3>1, <3>2, <3>3, <3>4
  <2>9. ASSUME NEW i \in DOMAIN boundaries
        PROVE  \/ boundaries[i].type \in {"external_to_internal", "request_to_worker",
                                          "low_priv_to_privileged_consumer"}
               \/ \E p \in DOMAIN primitives : boundaries[i].evidence \subseteq primitives[p].evidence
    BY <2>3, <2>4 DEF BoundaryTypes, Covers, Elements
  <2>10. QED
    BY <2>7, <2>8, <2>9 DEF EveryDetectionIsClassified, used, TellingTerms
<1>2. QED
  BY <1>1, InventoryIsKept, PTL
================================================================================
