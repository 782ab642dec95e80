--------------------------- MODULE PatchCorrelation ---------------------------
(***************************************************************************)
(* patchdiff/engine.py: how the hunks of a patch are linked to the         *)
(* evidence of an audit, and which review items come of it.                *)
(*                                                                         *)
(* For every changed file, the hunks are matched with all records of that  *)
(* file by line; if no hunk matches any, the file is linked as a whole.    *)
(* Links are told apart without the evidence they rest on, so one link may *)
(* stand for several, and all loops stop at the cap.                       *)
(***************************************************************************)
EXTENDS Lists, Functions, Paths

CONSTANTS
  Window,          \* LINE_PROXIMITY_WINDOW
  MaxCorrelations, \* MAX_CORRELATIONS
  MaxVariants      \* MAX_VARIANT_CANDIDATES

(* An audit is the sequence of its detections, in the order entrypoints,   *)
(* consumers, workers, boundaries, primitives, flows: each                 *)
(*   [id, type, evidence],   its evidence a list of [id, file, line].      *)
(* A patch is a sequence of files [paths, hunks], each hunk [start, count, *)
(* added]: its range and added lines in the new version.                   *)
ASSUME CorrelationAssumption ==
  /\ Window \in Nat
  /\ MaxCorrelations \in Nat \ {0} /\ MaxVariants \in Nat \ {0}

VARIABLES
  audit, patch,
  pc,           \* "collect", "hunks", "file", "variants", "done"
  records,      \* _collect_evidence_records
  d, f, h, r,   \* positions: of the detection, the changed file, the hunk, and
                \* the evidence of that detection or the record
  hunkMatched,
  correlations, \* the links so far; patch_corr_000n is the n-th
  c,            \* position of the correlation _build_variants comes to
  variants

input == <<audit, patch>>
stage == <<pc, records, d, f, h, r, hunkMatched, correlations, c, variants>>
correlationVars == <<input, stage>>
------------------------------------------------------------------------------
(* _EvidenceRecord *)
Record(detection, e) ==
  [evidence |-> e.id, related |-> detection.id, type |-> detection.type,
   file |-> e.file, line |-> e.line]

AllRecords(detections) ==
  UNION {{Record(detection, e) : e \in Elements(detection.evidence)} : detection \in Elements(detections)}

SameKey(x, y) == x.evidence = y.evidence /\ x.related = y.related /\ x.type = y.type

(* A hunk may add lines outside its range: the parser does not hold it to  *)
(* the range that its header gives.                                        *)
IsPatch(files) ==
  /\ IsList(files)
  /\ \A i \in DOMAIN files :
       /\ IsList(files[i].hunks)
       /\ \A hunk \in Elements(files[i].hunks) :
            hunk.start \in Nat /\ hunk.count \in Nat /\ hunk.added \subseteq Nat

(* Within an audit the id of an evidence tells where it is. *)
IsAudit(a) ==
  /\ IsList(a) /\ \A i \in DOMAIN a : IsList(a[i].evidence)
  /\ \A x \in AllRecords(a) : x.line \in Int
  /\ \A x, y \in AllRecords(a) : SameKey(x, y) => x = y

(* _normalize_path strips what may be git's prefix, once more for the      *)
(* patch, whose paths the parser has stripped, and for the evidence, whose *)
(* paths never had one.                                                    *)
Normalized(path) == IF InPrefix(path) THEN Tail(path) ELSE path

InFile(x, changed) == Normalized(x.file) \in {Normalized(path) : path \in changed.paths}

Hunks == patch[f].hunks

(* _hunk_correlation_type, "none" for no link. *)
LinkType(line, hunk) ==
  LET end == hunk.start + hunk.count
      overlap == line \in hunk.added \cup (hunk.start .. end - 1)
      near == line \in hunk.start - Window .. end + Window
  IN IF overlap THEN "LINE_OVERLAP" ELSE IF near THEN "LINE_PROXIMITY" ELSE "none"

(* _append_correlation: hunk 0 stands for no hunk. *)
Link(file, hunk, x, type) ==
  [file |-> file, hunk |-> hunk, related |-> x.related, source |-> x.type, type |-> type,
   evidence |-> x.evidence, line |-> x.line,
   confidence |-> IF type = "LINE_OVERLAP" THEN "medium" ELSE "low"]

Key(link) == <<link.file, link.hunk, link.related, link.source, link.type>>

(* Slip: the set of keys is not consulted. *)
AlwaysLinked(list, link) == Append(list, link)

Linked(list, link) ==
  IF \E i \in DOMAIN list : Key(list[i]) = Key(link) THEN list ELSE Append(list, link)

VariantKey(link) == <<link.source, link.related, link.file, link.hunk>>
------------------------------------------------------------------------------
(* Where build_patch_diff_result begins. *)
AtStart ==
  /\ pc = "collect" /\ records = <<>>
  /\ d = 1 /\ f = 1 /\ h = 1 /\ r = 1
  /\ hunkMatched = FALSE
  /\ correlations = <<>>
  /\ c = 1 /\ variants = <<>>

(* _add_candidate_records: one record for each evidence of the detection,  *)
(* unless it is there.                                                     *)
AddRecord ==
  /\ pc = "collect" /\ d <= Len(audit) /\ r <= Len(audit[d].evidence)
  /\ LET x == Record(audit[d], audit[d].evidence[r]) IN
     records' = IF \E i \in DOMAIN records : SameKey(records[i], x)
                  THEN records ELSE Append(records, x)
  /\ r' = r + 1
  /\ UNCHANGED <<input, pc, d, f, h, hunkMatched, correlations, c, variants>>

NextDetection ==
  /\ pc = "collect" /\ d <= Len(audit) /\ r > Len(audit[d].evidence)
  /\ d' = d + 1 /\ r' = 1
  /\ UNCHANGED <<input, pc, records, f, h, hunkMatched, correlations, c, variants>>

EndOfAudit ==
  /\ pc = "collect" /\ d > Len(audit)
  /\ pc' = "hunks"
  /\ UNCHANGED <<input, records, d, f, h, r, hunkMatched, correlations, c, variants>>

(* Full: both loops return at once. *)
StopAtCap == IF Len(correlations') >= MaxCorrelations THEN "variants" ELSE pc

(* One hunk with one record: only those of its file are considered.      *)
MatchHunk ==
  /\ pc = "hunks" /\ f <= Len(patch) /\ h <= Len(Hunks) /\ r <= Len(records)
  /\ LET x == records[r]
         type == LinkType(x.line, Hunks[h])
     IN IF ~InFile(x, patch[f]) \/ type = "none"
          THEN UNCHANGED <<hunkMatched, correlations, pc>>
          ELSE /\ hunkMatched' = TRUE
               /\ correlations' = Linked(correlations, Link(f, h, x, type))
               /\ pc' = StopAtCap
  /\ r' = r + 1
  /\ UNCHANGED <<input, records, d, f, h, c, variants>>

(* Slip: the mark is cleared for every hunk, not for every file. *)
NextHunkClearsMark ==
  /\ pc = "hunks" /\ f <= Len(patch) /\ h <= Len(Hunks) /\ r > Len(records)
  /\ h' = h + 1 /\ r' = 1
  /\ hunkMatched' = (hunkMatched /\ h = Len(Hunks))
  /\ UNCHANGED <<input, pc, records, d, f, correlations, c, variants>>

(* Slip: the records are an iterator that the first hunk uses up. *)
NextHunkWithoutRecords ==
  /\ pc = "hunks" /\ f <= Len(patch) /\ h <= Len(Hunks) /\ r > Len(records)
  /\ h' = h + 1
  /\ UNCHANGED <<input, pc, records, d, f, r, hunkMatched, correlations, c, variants>>

NextHunk ==
  /\ pc = "hunks" /\ f <= Len(patch) /\ h <= Len(Hunks) /\ r > Len(records)
  /\ h' = h + 1 /\ r' = 1
  /\ UNCHANGED <<input, pc, records, d, f, hunkMatched, correlations, c, variants>>

EndOfHunks ==
  /\ pc = "hunks" /\ f <= Len(patch) /\ h > Len(Hunks)
  /\ pc' = IF hunkMatched THEN "hunks" ELSE "file"
  /\ f' = IF hunkMatched THEN f + 1 ELSE f
  /\ h' = 1 /\ r' = 1
  /\ hunkMatched' = FALSE
  /\ UNCHANGED <<input, records, d, correlations, c, variants>>

(* No hunk matched: the file with one of its records. *)
LinkFile ==
  /\ pc = "file" /\ r <= Len(records)
  /\ IF InFile(records[r], patch[f])
       THEN /\ correlations' = Linked(correlations, Link(f, 0, records[r], "SAME_FILE"))
            /\ pc' = StopAtCap
       ELSE UNCHANGED <<correlations, pc>>
  /\ r' = r + 1
  /\ UNCHANGED <<input, records, d, f, h, hunkMatched, c, variants>>

NextFile ==
  /\ pc = "file" /\ r > Len(records)
  /\ f' = f + 1 /\ r' = 1
  /\ pc' = "hunks"
  /\ UNCHANGED <<input, records, d, h, hunkMatched, correlations, c, variants>>

EndOfPatch ==
  /\ pc = "hunks" /\ f > Len(patch)
  /\ pc' = "variants"
  /\ UNCHANGED <<input, records, d, f, h, r, hunkMatched, correlations, c, variants>>

(* Slip: the hunk is not part of the key. *)
BuildVariantPerFile ==
  LET key(link) == <<link.source, link.related, link.file>> IN
  /\ pc = "variants" /\ c <= Len(correlations)
  /\ variants' = IF \E i \in DOMAIN variants : key(variants[i]) = key(correlations[c])
                   THEN variants ELSE Append(variants, correlations[c])
  /\ c' = c + 1
  /\ UNCHANGED <<input, pc, records, d, f, h, r, hunkMatched, correlations>>

(* _build_variants: the first link of each related item and hunk. *)
BuildVariant ==
  /\ pc = "variants" /\ c <= Len(correlations)
  /\ variants' = IF \E i \in DOMAIN variants : VariantKey(variants[i]) = VariantKey(correlations[c])
                   THEN variants ELSE Append(variants, correlations[c])
  /\ c' = c + 1
  /\ UNCHANGED <<input, pc, records, d, f, h, r, hunkMatched, correlations>>

(* The slice to the cap, once all are built. *)
CutVariants ==
  /\ pc = "variants" /\ c > Len(correlations)
  /\ variants' = SubSeq(variants, 1, IF Len(variants) < MaxVariants THEN Len(variants) ELSE MaxVariants)
  /\ pc' = "done"
  /\ UNCHANGED <<input, records, d, f, h, r, hunkMatched, correlations, c>>

CorrelationNext ==
  \/ AddRecord \/ NextDetection \/ EndOfAudit
  \/ MatchHunk \/ NextHunk \/ EndOfHunks \/ LinkFile \/ NextFile \/ EndOfPatch
  \/ BuildVariant \/ CutVariants
------------------------------------------------------------------------------
LinkTypes == {"LINE_OVERLAP", "LINE_PROXIMITY", "SAME_FILE"}

(* The types of the variables (core/models.py PatchCorrelation); no two    *)
(* links and no two review items have one key, and both caps are kept.     *)
TypeOK ==
  /\ IsAudit(audit) /\ IsPatch(patch)
  /\ pc \in {"collect", "hunks", "file", "variants", "done"}
  /\ d \in 1 .. Len(audit) + 1 /\ f \in 1 .. Len(patch) + 1
  /\ h \in Nat \ {0} /\ r \in Nat \ {0}
  /\ records \in Seq(AllRecords(audit))
  /\ hunkMatched \in BOOLEAN
  /\ IsList(correlations) /\ Len(correlations) <= MaxCorrelations
  /\ \A i \in DOMAIN correlations : correlations[i].type \in LinkTypes
  /\ IsInjective([i \in DOMAIN correlations |-> Key(correlations[i])])
  /\ c \in 1 .. Len(correlations) + 1
  /\ IsList(variants)
  /\ IsInjective([i \in DOMAIN variants |-> VariantKey(variants[i])])
  /\ pc = "done" => Len(variants) <= MaxVariants

(* The distance of a line from the lines a hunk has in the new version. *)
Distance(line, hunk) ==
  CASE line < hunk.start -> hunk.start - line
    [] line >= hunk.start + hunk.count -> line - (hunk.start + hunk.count)
    [] OTHER -> 0

Inside(line, hunk) == line \in hunk.added \/ line \in hunk.start .. hunk.start + hunk.count - 1

Near(x, i, j) ==
  LET hunk == patch[i].hunks[j]
  IN InFile(x, patch[i]) /\ (Inside(x.line, hunk) \/ Distance(x.line, hunk) <= Window)

(* What one detection says of one place.  The file is the changed one by   *)
(* its name, unless a name begins with a directory called a or b.          *)
Says(detection, link) ==
  LET changed == patch[link.file] IN
  /\ detection.id = link.related /\ detection.type = link.source
  /\ \E e \in Elements(detection.evidence) :
       /\ e.id = link.evidence /\ e.line = link.line
       /\ InFile(e, changed)
       /\ e.file \in changed.paths \/ \E path \in changed.paths \cup {e.file} : InPrefix(path)

(* Every link rests on a detection of the audit with evidence in the       *)
(* changed file; a link to a hunk on a line as near as the link's type     *)
(* says; a link to the whole file on there being no hunk near any evidence *)
(* of that file.  So no file is linked both by lines and as a whole.       *)
LinksAreJustified ==
  \A i \in DOMAIN correlations :
    LET link == correlations[i] IN
    /\ \E detection \in Elements(audit) : Says(detection, link)
    /\ CASE link.type = "SAME_FILE" ->
              link.hunk = 0 /\ \A x \in AllRecords(audit), j \in DOMAIN patch[link.file].hunks :
                                  ~Near(x, link.file, j)
         [] OTHER ->
              LET hunk == patch[link.file].hunks[link.hunk] IN
              /\ Inside(link.line, hunk) \/ Distance(link.line, hunk) <= Window
              /\ link.type = "LINE_OVERLAP" <=> Inside(link.line, hunk)

Reported(i, j, x) ==
  \E link \in Elements(correlations) :
    link.file = i /\ link.hunk = j /\ link.related = x.related /\ link.source = x.type

Earlier(link, i, j) == link.file < i \/ (link.file = i /\ link.hunk <= j)

(* Nothing near a change is missed: a hunk is linked to every detection    *)
(* with evidence near it, also if another evidence of that detection was   *)
(* linked before, and a file that no hunk links is linked to each of its   *)
(* detections - unless the cap was used up by links of earlier hunks.      *)
NothingNearIsMissed ==
  pc = "done" =>
    \A i \in DOMAIN patch :
      LET here == {x \in AllRecords(audit) : InFile(x, patch[i])}
          full(j) == Len(correlations) = MaxCorrelations
                       /\ Earlier(correlations[MaxCorrelations], i, j)
          anyNear == \E x \in here, j \in DOMAIN patch[i].hunks : Near(x, i, j)
      IN /\ \A x \in here, j \in DOMAIN patch[i].hunks :
              Near(x, i, j) => Reported(i, j, x) \/ full(j)
         /\ ~anyNear => \A x \in here : Reported(i, 0, x) \/ full(0)

(* The first link of one detection to one hunk. *)
IsFirst(k) == \A l \in 1 .. k - 1 : VariantKey(correlations[l]) # VariantKey(correlations[k])

(* Every link has one review item, shared only by links of one detection   *)
(* to one hunk and made of the first of these, unless the items of earlier *)
(* links use up their cap.                                                 *)
EveryLinkHasItsItem ==
  pc = "done" =>
    \A i \in DOMAIN correlations :
      \/ \E j \in DOMAIN variants, k \in 1 .. i :
           /\ variants[j] = correlations[k] /\ IsFirst(k)
           /\ VariantKey(correlations[k]) = VariantKey(correlations[i])
      \/ /\ Len(variants) = MaxVariants
         /\ \A j \in DOMAIN variants : \E k \in 1 .. i : correlations[k] = variants[j]
==============================================================================
