# InvariantOS: verification project

InvariantOS is a local, deterministic static-audit pipeline: `audit` indexes a
repository, runs detectors over it and writes a set of artefacts; `reason` and
`patch-diff` derive further artefacts from `audit_result.json`. This directory
holds TLA+ models of its parts, the TLC configurations that check them and the
TLAPS proofs of all their invariants.
Paths are relative to `src/invariant_os/` unless they begin with `tests/`.

## 1. Inventory

| component | source | state | operations | what is hard, what makes it correct |
|---|---|---|---|---|
| commands and artefact directory | `cli.py`, `core/output.py`, `reasoning/output.py`, `patchdiff/output.py` | six + two + two files, written in place | `audit`, `reason`, `patch-diff` | kills and exceptions between writes, commands that overlap, readers of torn files; a successful audit leaves one complete set, derived files come from one audit |
| orchestration | `core/audit.py` | none, the repository is read again by each stage | index, three detectors, boundaries, primitives, flows, graph, focus | edits between stages |
| configuration | `core/config.py`, `core/constants.py` | the merged configuration | defaults, YAML, options, output-directory ignore | precedence, validation of what is overridden; the ignored directory is the one that is written |
| indexer | `analysis/indexer.py` | list of file records | walk with pruning, kinds, focus | own output becoming input; sources pruned by accident |
| detectors | `analysis/detectors.py` | entrypoints, consumers, workers with evidence and ids | pattern matching, deduplication, merging | evidence lost in merging, ids not unique |
| boundaries, primitives | `analysis/boundary.py`, `analysis/primitives.py` | candidates | rule tables | each type at most once, evidence kept |
| static flows | `analysis/flow.py` | terms, scores, candidate list | score pairs, select under two caps | cuts, ties, early exit, unordered sets |
| evidence graph | `analysis/graph.py`, `analysis/enterprise_resolver.py` | nodes, edges | nodes, edges, correlations, resolver | shared budget, dangling ends |
| focus | `core/focus.py` | a rank per candidate | rank, sort, count | sorts and never drops; the counts are those of the queue |
| reasoning | `reasoning/engine.py` | items in five categories | items per category, caps | what is left out at a cap, references to evidence that exists |
| patch parser | `patchdiff/parser.py` | files, hunks, two line counters | one pass over the lines | lines that look like headers, lines broken inside, paths |
| patch correlation | `patchdiff/engine.py` | links, review items | match by line or file, cap | one mark over nested loops, keys that leave things out, cap |
| git input | `patchdiff/gitdiff.py` | none | one external call | validation only |
| reports | `report/*.py` | none | SARIF log, brief, viewer, review queue | four renderings of one result with their own orders and limits; they agree |
| models, safety, LLM stub | `core/models.py`, `core/safety.py`, `core/evidence.py`, `llm/*` | none | record types, constants | none |

Components interact only through values (a stage gets the lists of earlier
stages) and through files: the repository, which every reading stage opens
again, and the artefact directory, which all three commands share without a
lock. Within one command nothing runs concurrently; concurrency is between
commands, and between a command and whoever edits the repository. The hazards
found in the code, each at its line, are listed in `PROJECT.json`.

## 2. Modules

**`Workbench`** - the three commands as processes over one directory. `Scan` is
one stage of `run_audit` that reads the repository (`text[p]` collects the
revisions seen, which stands for everything rendered from them), `Load` is the
read and validation of `audit_result.json`, `Open`/`Fill` are the two halves of
`write_text` (truncate, write), `Raise` is an exception at the places the code
lets one through (a detector whose file is gone, a renderer called between two
writes), `Kill` ends a process anywhere. Two history variables say what the
program itself never knows: `overlap`, that a command once ran twice at the same
time, and `beside`, the processes beside whose last run a *rival* was active. The
rivals of a process are those that write what it reads or writes: its peers and
all audits. `Undisturbed(p)` is what an operator can arrange: no rival ran beside
the last run of `p`, none has started since. **`WorkbenchProofs`** holds the
theorems.

**`RepeatedAudit`** - the file system as a function from paths to contents, with
`audit` and `reason` as single steps: where the output goes
(`WriteDir`), what the ignore is computed from (`ExpandedDir`), the walk with
its pruning (`Walked`) and the filters (`Indexed`). Results are numbered by
their content, so that "the same result" is equality of numbers. `Configure` puts
another `invariant-os.yml` into the repository (or removes it), and every audit
has a command line; **`Configuration`** turns both into the configuration the
indexer gets, or into a refusal: which file is chosen, how path entries are
checked, normalised and resolved, which keys add to the defaults and which
replace them, what is validated after the options were applied. Entries are lists of
their parts between slashes, so that `./`, `.//x` and `a/./b` are what they are, and
`IndexedAsConfigured` says what an audit makes of each of them. `World(d)` is the
history of what an audit could see outside its output directory.
**`RepeatedAuditProofs`** holds the theorem.

**`StaticFlowScoring`** - `_score_target` and what feeds it: deduplication and
cut of the source terms, one step per term with the cap of its type, proximity,
decision. A term is kept as it is spelled: deduplication goes by the token of the
spelling (`Token`, what `_normalize_token` leaves of it), so that the first of two
spellings stands for both, while an exact handler is looked for as it is spelled and
all other terms as tokens. The set whose cut depends on the hash seed (`_meaningful_tokens`) is a
nondeterministic choice. **`StaticFlowScoringProofs`** holds the theorems.

**`StaticFlow`** - the loop of `enrich_static_flows` over scored pairs. Targets are
numbered in the order that breaks ties (workers first, then by id), and
`_dedupe_candidates` has nothing left to do then, since each target occurs once.
**`FlowSelection`** is the abstract specification: rank, keep the best of each,
concatenate, cut; one step, no loop and no early exit. `StaticFlow` ends with the
refinement mapping (`Abstract == INSTANCE FlowSelection WITH ...`), and
`ImplementsSelection` is `Abstract!Spec`. **`StaticFlowProofs`** holds the theorems.

**`PatchParser`** - one action per branch of `parse_unified_diff`. The input is a
*meaning* (files, hunks, bodies); `Text` prints it as git does (external), the
parser reads the lines, and the properties compare what it rebuilt with the
meaning. A body line is known by its sign and what its text begins with, which
is all the parser's tests can see; the sign "no newline" stands for git's note that
the source ends without one. The lines of the program are those of `splitlines()`,
which also ends one at a form feed, a carriage return and some other characters that git
leaves where they are: what such a character makes of the rest of a line is a line
with the sign "broken", and may begin with anything, a header's words included.
`Forged` tells the diffs in which such a piece looks like the beginning of a file or
hunk. A path is a sequence of components, and
`Blank` in it is a blank in a name: `FirstWord` and `OtherWords` are what
splitting the header line at blanks makes of it. `IsDiff` says what git prints, and
is all that the proofs know of a diff. Left out are names that git quotes (with tabs,
quotes, line breaks of any kind or bytes beyond ASCII), names that begin or end with a
blank, which `_normalize_path` strips, names with two blanks in a row, and lines that
look like a header with a name but have none.

**`PatchCorrelation`** - evidence records with their deduplication (`AddRecord`
for each evidence, `NextDetection` for each detection), the nested loops of
`_build_correlations` with `hunkMatched` and the cap, `_build_variants` and its
slice. Where the code collects the records of a file first, `MatchHunk` and
`LinkFile` pass over the others. The properties restate "near" by a distance, not
by the range tests of the code, and compare names as they are spelled. `IsAudit` says
what is known of an audit: an evidence id tells where the evidence is. `IsPatch` says
of a patch only what kinds of numbers it has: the lines a hunk is said to add need not lie
in its range.

**`PatchDiff`** - the command `patch-diff`: the parser, and then the correlation on what
it rebuilt (`AsPatch`). This is the module that is checked and proved about: nothing is
assumed of patches, they are what the parser makes of a diff. **`Paths`** has what parser
and engine share. **`PatchProofs`** holds the theorems about all of them.

**`EnterpriseResolver`** - the resolver's scores on names made of words: the
qualified class (90), its simple name (60), the method (45), words in common (at
most 30, and only on top of these), the thresholds, the index that decides which
targets are scored, and the looser match of the handler correlations. `Begins`
says which words are the beginning of a longer one, since the class is searched
as a substring.

**`EvidenceGraph`** - EXTENDS the resolver; one action per turn of each loop of
`build_evidence_graph`: `AddNode` (with the edge to the file), `AddFlow`, `AddResolved`,
`Correlate` (same-file, then handler names, with the common budget),
`LinkEvidence`/`NextSource` (the shared-evidence links with the marks of one source).
Consumers and workers are one list of targets, in the order of their ids. **`Evidence`**
holds what it shares with the reports: references, and the ids `..._0001` with their
padding. **`Lists`** is what all of them do with lists: `Pick`, the members of a list
with a property in their order, `Sorted`, the arrangement of a list under a strict order
of its positions, `Joined`, a list of lists one after the other. They are defined by
places and by a recursive function, not by a recursive operator, so that they can be
reasoned about. `Texts` are the types an edge may have in a list that was cut, beside
those of the graph itself.

**`AuditReports`** - composes the graph with what is done with it. After the last
loop `AssembleResult` makes the result under any lens; `RenderSarif`,
`RenderBrief`, `RenderViewer`, `RenderQueue` follow in the order of
`write_audit_outputs`, and `Reason` derives its items from the same result. What
they compute is in **`Focus`** (the lenses, rank, counts), **`Reports`** (rows and
levels of the log, order of the queue, previews of the graph, missing evidence,
steps, links, evidence index) and **`Reasoning`** (the five categories, their
order, caps and evidence filter), as operators on a result: these parts of the
program are pure functions. **`AuditReportsProofs`** holds the theorems of the graph
and of what is derived from it.

**`Detectors`**, **`Inference`**, **`Inventory`** - what becomes of matches.
`Detectors` holds the tables: which detector looks at which kind of file, under
which pattern, and the separate table of patterns a configuration may name.
`Inventory` finds matches in any order within a file (`FindEntrypoint`,
`FindConsumer`, `FindTask`, `FindWorker`, `PathHint`), numbers them, merges
workers at once and entrypoints at the end (`EndStage`), and passes the result
to the rule tables of `Inference` (`Infer`, `Classify`). `found` is a history
variable: all matches, with the evidence id each got. **`InventoryProofs`** holds
the theorems.

**`ListLemmas`** - what the proofs share about lists and numbers: `Induction` and
`LeastElement` (from the well-foundedness of the naturals), `Ranking` (a finite set
with a strict order is enumerated by exactly one ascending list),
`PickProperties`, what `Sorted` arranges, and what concatenations contain.

Definitions marked "Slip" are mistakes somebody could make in the definition
below them; for each property there is one that violates it, so that the
property is known to depend on the code.

## 3. Runs

| run | bounds | shows |
|---|---|---|
| `workbench_shared` | 1 audit, 1 reason, 1 patch-diff process, 3 commands, 1 edit, 1 fault | `GenerationsDescend`: after kills and exceptions the artefacts are ordered by age in the order of writing. `SuccessIsComplete`: a successful command replaces all of its files. `DerivedFromOneAudit`: no torn audit is used. `DerivedIsCurrent`: after a successful, undisturbed `reason` or `patch-diff` the derived files are about the audit result that is there. `EveryCommandEnds` under weak fairness of each process |
| `workbench_two_audits` | 2 audit processes, 3 commands, 1 edit, no fault | `IdenticalAuditsConverge`: overlapping audits of the same revision leave intact files |
| `repeated_audit` | 7 source files of every kind, 6 output directories (inside, the root itself, above it, ignored by name, next to sources, `~`), 4 contents of `invariant-os.yml`, 4 command lines, 3 commands, 1 edit of either sort | `RepeatedAuditIsStable`: an audit never feeds on its own output. `IndexedAsConfigured`: what is indexed is what the command line, the chosen file and the defaults say, in this order, nothing less and nothing more |
| `repeated_audit_tilde` | the same with the repository as working directory | violated, see findings |
| `repeated_audit_entries` | one configuration with an ignored path `./` | violated, see findings |
| `static_flow_scoring` | every list of up to 4 terms of 12 over 5 signal types, with two spellings of one token and one without a token, cut at 3; 3 target texts, token cut at 2; the real scores and caps | `ScoreIsReproducible`, `SignalsExplainScore` |
| `static_flow` | 3 entrypoints, 3 targets, scores 0/60/90, total cap 0, 2, 4, cap per entrypoint 0, 2 | `ResultIsRankedAndCapped`, `LeftOutForAReason`, `ImplementsSelection` (with termination) |
| `patch_parser_comment` | one file, one hunk | violated, see findings |
| `patch_parser_names` | two files with any change, with and without a blank in the name | violated, see findings |
| `patch_diff` | every body of up to 3 lines of 20 kinds in the first of two hunks, with a second file; every pair of changed files out of 40, names with a blank and directories called `a` and `b` among them; 10 diffs of 1-2 files and up to 2 hunks against all audits of 2 detections with up to 2 of 5 evidences each; window 1, caps 3 and 2 | of the parser: `PlainHunksAreExact`, `FilesAreExact`, `OnlyLocalPaths`, `AddedLinesStayInHunk`; of the links and review items: `LinksAreJustified`, `NothingNearIsMissed`, `EveryLinkHasItsItem` |
| `evidence_graph` | up to 2 of 4 entrypoints and any choice of 6 targets; resolver, same-file and handler caps 2, budget 3; all five lenses; ids of one digit, 4 edges in the brief, 9 in the viewer, 3 items per category | of the graph: `NothingLinkedTwice`, `GraphIsComplete`, `CorrelationsKeepTheirCaps`, `LeftOutForAReason`, `EvidenceLinksAreExact`, `ConfidenceFollowsTheClass`, `IndexFindsWhatScores`; of what is derived from it: `FocusOnlyReorders`, `FocusCountsAreTheQueues`, `PreviewsKeepTheOrder`, `EveryReferenceResolves`, `ReasoningOmitsOnlyWhenFull` |
| `inventory` | a file of each of 22 kinds beside a plain one, 2 or 3 matches per stage, 2 route names, 4 sets of terms, 3 selections | `EveryMatchIsKept`, `DetectionsAreDistinct`, `EveryDetectionIsClassified` |

Why the bounds are enough. Three commands let an audit fail over an older set and a
reader meet either; every process writes at least two files, and one fault reaches each
point between two of them. The cut at three of four terms, the window of one line and
the caps of two to four put every cap within reach and one step beyond it. Three
entrypoints are an earlier one that fills the result, one that is cut and one that
starves. A body of three lines has a line before and after any odd one. Two entrypoints
and a budget of three let same-file edges starve the handler correlations wholly,
partly, or not at all; the targets are chosen so that each way to match (in full, by
simple name, as the beginning of a longer word, by method, by common words, not at all)
occurs. Two matches per file are a detection and its duplicate, three a duplicate with
another one in between. Every row of the detector tables is used by some file. The
contents of the configuration and the command lines have each key from each of its
sources, path entries with dots, slashes at the end, a blank first part and a dot inside
(beside an entry that finds something, so that both can be told apart), an invalid value
that only the final validation sees, and a file that is none. Of the kinds of body lines
three are plain, nine look like something else, and eight are pieces of a broken line,
among them a file, a hunk and a name that leads out of the repository; one of the diffs
against all audits has a hunk whose added lines go beyond its range. With ids of one
digit the tenth edge sorts before the second, as with four the ten-thousandth sorts
before the 1001st; three, four and nine are limits that some graphs stay below, meet,
and exceed. In a genuine audit the steps cannot fill their category (at most 15
primitives of two steps, 50 items); with three items they do, and `reason` accepts any
audit file. `CHECK_DEADLOCK` is off since every model ends: commands are not started for
ever, and the loops are over.

Fairness. `Workbench!Spec` asks for weak fairness of each process's own steps:
the operating system schedules a process that was started. Nothing is asked of
edits, starts, faults. `StaticFlow!Spec` asks that a running loop goes on.

## 4. Findings

1. *The ignored output directory is not always the written one*
   (`core/config.py:88`): the ignore expands `~`, the writer does not. Run
   `repeated_audit_tilde` finds an audit that indexes its predecessor's output,
   against `tests/test_audit_cli.py:283`.
2. *A removed line beginning with `-- ` is taken for a file header*
   (`patchdiff/parser.py:46`): the line is lost, the later removed lines are
   misnumbered and the file gets another old path. Run `patch_parser_comment`,
   against `tests/test_patchdiff_parser.py:32`. `PlainHunksAreExact` and
   `AddedLinesStayInHunk` show that the damage stays in that hunk and in the
   names of that file.
3. *A file with a blank in its name may be recorded under pieces of it*
   (`patchdiff/parser.py:24`): `diff --git a/my file b/my file` is split at blanks,
   and when no later line names the file (an empty file, a binary one, a changed
   mode) the pieces stay. Run `patch_parser_names`, against
   `tests/test_patchdiff_parser.py:23` and `:71`. `FilesAreExact` shows that files
   with hunks are named right, blanks or not.
4. *An entry of the configuration can lead out of the repository*
   (`core/config.py:286`): that it begins with a slash is tested before its leading
   `./` is removed, so that `./` is accepted and ends as `/`, and `.//x` as `/x`. Among
   the ignored paths, the one ignores every file and the other a path of the file system.
   Run `repeated_audit_entries`, against `README.md:95` ("Config paths must be local
   repository-relative paths") and `tests/test_config.py:97`. `IndexedAsConfigured` shows
   that no other spelling does.

What the models show beside these, and no document of the program denies: a killed audit
leaves artefacts of two runs; a torn file can be the result of two audits of *different*
revisions; a derived result may rest on an audit that failed after its first file, and
is not marked when a newer audit replaces it; artefacts in another output directory
inside the repository are indexed; a form feed, carriage return or similar character
inside a line of the source breaks that line for the parser, which then counts lines
that are not there, up to one for each piece, or takes a piece for a header, a hunk or a
file; a file renamed unchanged out of a directory called `a` or `b` loses that directory
in its name; `a/y` and `y` count as one file in correlation; a review item has the
confidence of the first of its links, not of the best; a consumer that starts a process
supports no boundary and no primitive, nor does a parser or archive when no file,
template or configuration operation exists; the resolver's index misses a class that the
text names only as part of a longer name or that has a common word for its name,
although its score would pass; `job_control` is never derived from `request_to_worker`,
because `data_to_job` holds whenever that does; of two spellings of one handler
(`com.a.B`, `com/a/B`) only the first is looked for; `--config` replaces the
repository's own file, the two are not merged; a focus entry with a dot or an empty part
inside finds nothing; the previews of the graph order edges by their ids as text, so the
ten-thousandth comes before the 1001st; the keyword `file` of the lens `import-upload`
matches the signal `same_file_proximity`, and the keyword `worker` every id of a worker.

## 5. Proofs

Checked by TLAPS for every value of the constants, each under the assumption of
its module and no other (TLC evaluates the same assumptions in the runs). Every
invariant of the code that these theorems name is also checked by a run.

**`StaticFlowProofs`**: every number of entrypoints and targets, every scoring and
every pair of caps, under `StaticFlowAssumption` (the constants are naturals and
the scorings are total functions into them). `TypeCorrectness`,
`RankedAndCapped` (`ResultIsRankedAndCapped`), `NothingElseIsLeftOut`
(`LeftOutForAReason`). The properties speak of the returned list and are not
inductive. The inductive invariant says of the *working* list that it is ordered
(`Ordered`), that candidates of one entrypoint lie within a window of the cap's
width (`Windowed`), that it holds only entrypoints already passed (`AllPassed`),
that each candidate of these is in it or has a full window of better ones
(`PassedAreCovered`), and that the returned list is its cut (`EmittedIsCut`).
`PassedAreCovered` carries the last theorem: at the early exit it tells a
candidate that lost its entrypoint's ranking from one whose entrypoint was never
reached. `LoopSelects` is the safety part of the refinement: the initial states of
the loop are initial states of `FlowSelection`, and each of its steps is `Select`
or changes nothing there. Before it returns, the working list is what the abstract
specification has for the entrypoints passed (`FlowsAreBest`); `BestIsList` shows that
the ranking chosen there exists and is unique, and `BestUpToIsBeginning` that the
entrypoints behind the early exit cannot change what is cut.

**`StaticFlowScoringProofs`**: every list of terms, target, score, cap and limit, under
`ScoringAssumption` (scores and caps are positive, a proximity score may be zero).
`ScoreHasClosedForm` (`ScoreIsReproducible`), `SignalsAccountForScore`
(`SignalsExplainScore`), `ScoresAreKept` (the invariant). `TypesScoreWhatTheyAreWorth`
says that a type has the capped worth of the *set* of its terms seen so far - after that
the order of matching cannot matter -, `SignalsAddUp` that the signals listed sum up to
the scores. `SourceTermsAreDistinct` shows that the terms kept are the first spellings
of different tokens, which is what makes a count of terms one of a set. Both sums are
folds; `TotalCountsPoints` turns a fold into the cardinality of a set (`n` points above
`x` for `f[x] = n`), where adding to one number adds as many points.

**`WorkbenchProofs`**: any number of processes of each command, commands, edits and
faults, under `WorkbenchAssumption` (the sets of processes are disjoint, the
bounds are naturals). `TypeCorrectness`, `OlderOutputsComeLast`
(`GenerationsDescend`), `SuccessMeansComplete` (`SuccessIsComplete`),
`SuccessMeansCurrent` (`DerivedIsCurrent`), `DerivedRestsOnOneAudit`
(`DerivedFromOneAudit`), `OverlappingAuditsConverge` (`IdenticalAuditsConverge`).
The properties speak of commands that have ended; the invariant says what a
command has made of the directory while it runs. `OneAtATime` and `Alone` translate
the history variables into facts about who is active now. `Generations` puts the
border between a command's own files and older ones at its position. `OwnFiles`
and `OwnSource` say what an undisturbed process finds where it has been. For
overlapping audits nothing of the kind holds, and the argument is another one
(`Converging`): a file with a text other than `t`, or a truncated one, was left by
an audit that has not passed it with `t` - so it will come to it, or has to
start again before all have succeeded on `t`.

**`PatchProofs`**, the parser: every diff, with any number of files, hunks and lines and
whatever the lines begin with and wherever they break, under `DiffsAssumption` (each is
one that git prints, see `IsDiff`). `PlainHunksAreExactAlways`, `FilesAreExactAlways`,
`OnlyLocalPathsAlways`, `AddedLinesStayInHunkAlways`, each for the property it is named
after. The parser sees lines, the properties speak of the meaning that was printed, and
the invariant joins them (`Place`): what is left to read is what is left of the text
after some line of some section of some file (`At`; section 0 is the header, the others
are hunks), or of the cover, or nothing. The place says what the records hold: files
that are left are `Finished`, the one being read is right up to that line (`HeaderUpTo`,
`HunkUpTo`). Two things are not as one would write them first. A name is known only from
the line on that says it (`OldKnown`, `NewKnown`): the first line of a header gets names
with blanks wrong and leaves the repair to later ones. And counters and records are
exact only where every line so far is plain; of a hunk that is not, the invariant keeps
that the counter has not gone further than the lines and the pieces it passed
(`Counters`), which is why the lines said to be added leave the range of the header by
no more than the pieces. Of a diff with a piece that looks like the beginning of a file
or hunk (`Forged`) the invariant keeps no place, but still that each record has its
types (`Typed`). `WhatComesNext` tells which lines can follow a place (and so that each
step moves from one place to the next), `TextIsRead` that the printed text begins at
one. `OnlyLocalPaths` needs no place: what is accepted was tested (`Local`), and what is
refused is traced back to the meaning (`RefusalBlames`), through what splitting and
stripping leave of a name (`TwoWords`, `OutsideIsSuspicious`).

**`PatchProofs`**, the command: every diff and every audit with it, all windows and caps,
under `DiffsAssumption`, `AuditsAssumption` and `CorrelationAssumption`; of patches nothing is
assumed. `CommandInvariance` joins both invariants: until the diff is parsed the correlation
waits where it begins (`Waiting`), and then its patch is what the parser made.
`CommandParses` shows that the command implements the specification of the parser, so that
the theorems above hold of it, and `ParsedFilesAreAPatch` that whatever the parser accepts is a
patch (`IsPatch`), forged pieces or not.

**`PatchProofs`**, the correlation, over the command's specification: `TypeCorrectness`,
`LinksRestOnEvidence` (`LinksAreJustified`), `NothingIsMissed`
(`NothingNearIsMissed`), `LinksHaveItems` (`EveryLinkHasItsItem`). The invariant
follows the loops: `Collected` (the evidence passed is in the records), `Justified`
(where each link comes from), `FilesDone`, `HunksDone`, `RecordsDone` (what is
reported of the files, hunks and records passed, and that the mark is set exactly
if something near was met), `NothingMissed` (the same with the cap, once a loop
has returned), `ItemsDone` (each review item was the first link of its key, in the order of
links).
`TypeIsDistance` joins the range tests of the code with the distance of the
properties. The mark is what the proof of a link to a whole file rests on, the
last link at the cap is what tells why something is not reported.

**`RepeatedAuditProofs`**: all repositories, contents, configurations and output
directories, any number of audits, edits and derived results. `AuditsAreStable`
(`RepeatedAuditIsStable`) under `IgnoredWhereWritten`: inside the repository the ignored
directory is the one that is written. `OnlyTildeDiffers` shows that only the spelling
`~` breaks this, which is the finding above: the violation has that one cause. The
invariant names the function an audit computes (`ResultOf`): from its command and the
world outside its output directory; `IndexIgnoresOutput` shows that the index depends on
nothing else. `EverythingConfiguredIsIndexed` (`IndexedAsConfigured`) holds under
`IgnoredIsWritten` (no directory that is not the output is ignored as such, either). The
invariant adds that sources stay in the file system and that each audit saw all of them
but its own output (`LogRecorded`); the rest is about spellings: `WithoutDotsFacts` and
`SpelledFromEnd` on the leading `./`, `FromRootFacts` on what is left when nothing but
dots comes before a slash, and `IgnoredEntry` and `FocusEntry` on what an entry finds,
exactly, for every spelling.

**`AuditReportsProofs`**, first part: every set of audits, all caps and budgets, under the
assumptions of the graph and of the resolver (an audit's references point into its
own lists, words and limits are what their names say). `TypeCorrectness`,
`NothingIsLinkedTwice`, `GraphIsAlwaysComplete`, `CapsAreKept`,
`NoneIsLeftOutWithoutReason`, `EvidenceIsLinkedExactly`, `ConfidenceNeedsTheClass`,
`IndexIsNoFilter`: all seven properties the run checks of the graph, and its types.
The invariant `GraphIsMadeInTurns` speaks of turns of loops. `EdgesAreMade`: every edge
belongs to a turn that is over, or to the running one and its target is marked.
`DefinitionsAreDone`, `FlowsAreDone`, `LinksAreDone`: a turn that is over left out
nothing. `MarksAreLinked`: a mark stands for a link of the running source, which is
why the marks, and not the graph, are enough to link nothing twice.
`BudgetIsCounted`: the counter is the number of correlations in the graph.
`LinksAreExplained`: a candidate left out has `Cap` better ones before it, or the
budget is gone *and no later entrypoint has any*, which keeps the reason valid when
later turns find the budget empty. `PipelineBuildsTheGraph` shows that the composed
pipeline implements the specification of the graph, so that all of this holds of it.

**`AuditReportsProofs`**, second part: in addition every lens, width of the ids and limit of the
reports, under `ReportsAssumption` (the brief shows no more edges than the viewer, as
its limit says), `ReasoningAssumption`, `EvidenceAssumption` and `ReportableAssumption`
(a boundary rests on evidence, the candidates are of the kinds the reports have a place
for - which for boundaries and primitives is what `Inference` derives).
`PreviewsAreInOrder` (`PreviewsKeepTheOrder`),
`ReferencesResolve` (`EveryReferenceResolves`), `LensHidesNothing` (`FocusOnlyReorders`),
`CountsAreOfTheQueue` (`FocusCountsAreTheQueues`), `OmissionsAreOfFullCategories`
(`ReasoningOmitsOnlyWhenFull`): all five properties the run checks of the reports. Their
invariant `PipelineInv` adds to that of the graph that the graph is done before the
result is put together, and that each report is the rendering of that one result
(`ReportsAreOfOneResult`). What is left is about pure functions, in four arguments.
*Sorting*: `Sorted` is an arrangement of its list (every member once, in the order of the
keys), shown once for any strict order of positions; that the keys are strict orders is
what is to be shown of each: ids compared as text are ordered as fractions of powers of
ten (`TenToGrows`, `FractionsAreOrdered`, `IdsAreOrdered`), and ids of equally many digits as
numbers (`SameDigitsOrder`). *Names*: a row of the queue or the log is determined by its
category and number, so that both orders are orders of the same set of names
(`AllRowsFacts`, `KeysAreOrdered`), and two lists of one set of names are compared through it
(`QueueOrder`). *Evidence*: no edge rests on evidence that its ends lack
(`EdgesRepeatEvidence`, from the invariant of the graph), which is why an index over
detections and candidates has a card for the links of the edges, too. *Limits*: each
category of the reasoning is about a beginning of a list of candidates (`SurfacesAreAbout`,
`TriageIsAbout`, `MissingIsAbout`, `StepsAreAbout`), and a beginning that is shorter than the
limit is all of it; which beginning, each category's own order says.

**`InventoryProofs`**: all repositories, selections of detectors and orders in which
matches are found, under `InventoryAssumption`. `TypeCorrectness`, `NoMatchIsLost`
(`EveryMatchIsKept`), `NothingIsDetectedTwice` (`DetectionsAreDistinct`),
`DetectionsAreClassified` (`EveryDetectionIsClassified`), `InventoryIsKept` (the
invariant). `IdsDiffer` numbers the matches, `EvidenceIsKept` puts every number into
exactly one detection of its file, which merging must preserve (and
`EntrypointsAreDistinct` says when it has been done); `ConsumersAreKnown` and
`Inferred` lead from a detector's pattern over its consumer type to the rule that
uses it, case by case through the tables.

**`ListLemmas`** has no theorem of the program. Two of its lemmas are inductions: the
induction rules of the library take an operator and cannot be used with the
installed provers, but a *set* closed under the successor can (`Induction`, from
the well-foundedness of `<` on the naturals).

Only model-checked:

- liveness: `EveryCommandEnds`, and that the selection returns at all (the part of
  `ImplementsSelection` that `LoopSelects` leaves). Both rest on fairness, which is out
  of the prover's reach.

## 6. Not modelled

Text matching of the detectors (what a regular expression finds; several may
find the same line, `@app.get` is found by both the express and the fastapi
pattern); layout and escaping of the reports, titles and summaries, and the
Markdown files of `reason` and `patch-diff` (they list the items of their JSON in
its order); how terms are extracted from source text (the scoring is checked for
arbitrary lists of terms); argument validation; the external git call; the record
types and the constants copied into results; the LLM stub, which no command uses.

## 7. Plan

Done, the most important behaviour first: the artefact directory with its history
and proofs; repeated audits with the configuration and the stability proof; flow
scoring and selection with the abstract specification and proofs; patch parser,
patch correlation with proofs; evidence graph with resolver and common budget;
inventory with boundaries and primitives; focus, reports and reasoning on one
assembled result; the proofs of scoring, refinement, evidence graph, inventory,
reports and patch parser, and of the patch-diff command as a whole.

Every invariant that a passing run checks is proved.

Left to model, should the code grow into it: a model of the two Markdown writers of `reason`
and `patch-diff` once they do more than list; the matching of the regular
expressions, as a table of which patterns can find the same line; the checks of
command arguments in `cli.py`, of which the choice between a patch file and a git
range is the only one with alternatives.
