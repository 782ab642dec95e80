----------------------------- MODULE AuditReports -----------------------------
(***************************************************************************)
(* From the evidence graph to the artefacts: core/audit.py puts the result *)
(* together, core/output.py renders its reports one after the other, and   *)
(* the reason command derives its items from the same result.              *)
(***************************************************************************)
EXTENDS EvidenceGraph, Reasoning

(* What the passes before give the reports: a boundary rests on evidence,  *)
(* and every kind of candidate is one that the reports have a place for.   *)
IsReportable(a) ==
  /\ \A i \in DOMAIN a.boundaries :
       a.boundaries[i].type \in Elements(BoundaryKinds) /\ a.boundaries[i].evidence # <<>>
  /\ \A i \in DOMAIN a.primitives :
       LET p == a.primitives[i] IN
       p.type \in Elements(PrimitiveKinds) /\ IsList(p.missing) /\ IsList(p.steps)
  /\ \A i \in DOMAIN a.flows : a.flows[i].type \in Elements(FlowKinds)

ASSUME ReportableAssumption == \A a \in Audits : IsReportable(a)

VARIABLES
  result,    \* the AuditResult, or NoResult
  artifacts  \* what has been rendered of it, by name

reportVars == <<result, artifacts>>
allVars == <<vars, reportVars>>

NoResult == <<>>

PipelineInit == Init /\ result = NoResult /\ artifacts = <<>>

BuildGraph == Next /\ UNCHANGED reportVars

(* The AuditResult with the summary of a lens. *)
Assembled(focus) ==
  [files |-> audit.files, entrypoints |-> audit.entrypoints, targets |-> audit.targets,
   flows |-> audit.flows, boundaries |-> audit.boundaries, primitives |-> audit.primitives,
   edges |-> edges, focus |-> focus]

(* Slip: the summary counts for the default lens. *)
AssembleResultForAll ==
  /\ phase = "done" /\ result = NoResult
  /\ \E mode \in Modes :
       result' = Assembled([FocusSummary(audit, "all") EXCEPT !.mode = mode])
  /\ UNCHANGED <<vars, artifacts>>

(* The end of run_audit, with any lens in the configuration. *)
AssembleResult ==
  /\ phase = "done" /\ result = NoResult
  /\ \E mode \in Modes :
       result' = Assembled(FocusSummary(audit, mode))
  /\ UNCHANGED <<vars, artifacts>>

Write(name, before, content) ==
  /\ result # NoResult
  /\ DOMAIN artifacts = before
  /\ artifacts' = [a \in before \cup {name} |-> IF a = name THEN content ELSE artifacts[a]]
  /\ UNCHANGED <<vars, result>>

(* write_audit_outputs, in its order *)
RenderSarif == Write("sarif", {}, Sarif(result))
RenderBrief == Write("brief", {"sarif"}, Brief(result))
RenderViewer == Write("viewer", {"sarif", "brief"}, Viewer(result))
RenderQueue == Write("queue", {"sarif", "brief", "viewer"}, ReviewQueue(result))

(* The reason command, on the audit's artefact. *)
Reason == Write("reasoning", {"sarif", "brief", "viewer", "queue"}, ReasoningItems(result))

PipelineNext ==
  \/ BuildGraph \/ AssembleResult
  \/ RenderSarif \/ RenderBrief \/ RenderViewer \/ RenderQueue \/ Reason

PipelineSpec == PipelineInit /\ [][PipelineNext]_allVars
-------------------------------------------------------------------------------
Written(name) == name \in DOMAIN artifacts

(* A lens reorders the review queue and hides nothing: the queue and the   *)
(* SARIF log have the same candidates, each once, and all of the result.   *)
(* Candidates that the lens likes come first, those it likes equally in    *)
(* the order of the log.                                                   *)
FocusOnlyReorders ==
  Written("queue") =>
    LET queue == artifacts["queue"]
        log == artifacts["sarif"].results
        names(list) == {<<list[i].category, list[i].n>> : i \in DOMAIN list}
        at(row) == CHOOSE i \in DOMAIN log :
                     log[i].category = row.category /\ log[i].n = row.n
    IN  /\ names(queue) = names(log)
        /\ names(queue) = ({"boundary"} \X DOMAIN result.boundaries)
                            \cup ({"primitive"} \X DOMAIN result.primitives)
                            \cup ({"static_flow"} \X DOMAIN result.flows)
        /\ Len(queue) = Cardinality(names(queue)) /\ Len(log) = Len(queue)
        /\ \A i, j \in DOMAIN queue : i < j =>
             /\ queue[j].focus.match => queue[i].focus.match
             /\ queue[j].focus.score <= queue[i].focus.score
             /\ queue[i].focus = queue[j].focus => at(queue[i]) < at(queue[j])

(* The numbers of matches that the result, the brief and the viewer state  *)
(* are the numbers of rows that the review queue marks as matches.         *)
FocusCountsAreTheQueues ==
  Written("queue") =>
    LET marked(category) ==
          Cardinality({i \in DOMAIN artifacts["queue"] :
                         /\ artifacts["queue"][i].category = category
                         /\ artifacts["queue"][i].focus.match})
    IN  \A focus \in {result.focus, artifacts["brief"].focus, artifacts["viewer"].focus} :
          /\ focus.boundary = marked("boundary")
          /\ focus.primitive = marked("primitive")
          /\ focus.static_flow = marked("static_flow")
          /\ focus.total = marked("boundary") + marked("primitive") + marked("static_flow")

ShownIn(name) == artifacts[name].graph.edges

(* The previews leave out only what matters less: the brief shows the      *)
(* beginning of what the viewer shows, an edge is left out only if its     *)
(* type has no higher priority than those shown, or it is a later one of   *)
(* the same type.  Later by its id as text: with ids padded to four digits *)
(* the ten-thousandth edge comes before the 1001st.                        *)
PreviewsKeepTheOrder ==
  Written("viewer") =>
    LET list == result.edges
        brief == ShownIn("brief") viewer == ShownIn("viewer")
    IN  /\ Len(brief) <= Len(viewer) /\ brief = SubSeq(viewer, 1, Len(brief))
        /\ \A name \in {"brief", "viewer"} :
             /\ artifacts[name].graph.more <=> Len(ShownIn(name)) < Len(list)
             /\ \A k \in DOMAIN ShownIn(name) :
                  \A j \in DOMAIN list \ {ShownIn(name)[i] : i \in 1 .. k} :
                    LET i == ShownIn(name)[k] IN
                    \/ Priority(list[i]) < Priority(list[j])
                    \/ list[i].type = list[j].type /\ (i < j \/ Digits(i) # Digits(j))

(* Every link of the viewer leads to one card of the evidence index, and   *)
(* an item of the reasoning keeps all the evidence of what it is about,    *)
(* although both filter by what detections and candidates list.            *)
EveryReferenceResolves ==
  /\ Written("viewer") =>
       LET index == artifacts["viewer"].index IN
       \A e \in artifacts["viewer"].links :
         Cardinality({i \in DOMAIN index : index[i] = e}) = 1
  /\ Written("reasoning") =>
       \A category \in DOMAIN artifacts["reasoning"] :
         LET items == artifacts["reasoning"][category] IN
         \A i \in DOMAIN items :
           items[i].related # <<>> =>
             items[i].evidence = Subject(result, items[i].related[1]).evidence

(* What the i-th item of a category of the reasoning is about. *)
About(category, i) == artifacts["reasoning"][category][i].related[1]

(* As many items as there are candidates for them, if there is room. *)
Keeps(category, n) == Len(artifacts["reasoning"][category]) = Least(n, MaxItems)

(* The m-th primitive is to be reviewed before the n-th: it is surer, or   *)
(* as sure with more evidence, or else an earlier one (by its id, if that  *)
(* needs more digits than the other's).                                    *)
Surer(m, n) ==
  LET a == result.primitives[m]
      b == result.primitives[n]
      equal == ConfidenceRank(a) = ConfidenceRank(b)
  IN  \/ ConfidenceRank(a) < ConfidenceRank(b)
      \/ equal /\ Len(a.evidence) > Len(b.evidence)
      \/ /\ equal /\ Len(a.evidence) = Len(b.evidence)
         /\ m < n \/ Digits(m) # Digits(n)

SurfacesInOrder ==
  LET f == Len(result.flows) IN
  /\ Keeps("surface", f + Len(result.primitives))
  /\ \A i \in DOMAIN artifacts["reasoning"]["surface"] :
       About("surface", i) = IF i <= f THEN Ref("flow", i) ELSE Ref("primitive", i - f)

HypothesesInOrder ==
  /\ Keeps("invariant", Len(result.boundaries))
  /\ \A i \in DOMAIN artifacts["reasoning"]["invariant"] :
       About("invariant", i) = Ref("boundary", i)

TriageInOrder ==
  LET triaged == DOMAIN artifacts["reasoning"]["triage"] IN
  /\ Keeps("triage", Len(result.primitives))
  /\ \A i \in triaged :
       /\ About("triage", i) \in {Ref("primitive", n) : n \in DOMAIN result.primitives}
       /\ \A j \in triaged : i < j => Surer(About("triage", i).n, About("triage", j).n)
       /\ \A n \in DOMAIN result.primitives :
            (\A j \in triaged : n # About("triage", j).n) => Surer(About("triage", i).n, n)

MissingInOrder ==
  LET missing == artifacts["viewer"].missing
      items == artifacts["reasoning"]["missing"]
  IN  /\ Keeps("missing", Len(missing))
      /\ \A i \in DOMAIN items : /\ About("missing", i) = missing[i].of
                                 /\ items[i].missing = <<missing[i].text>>

StepsInOrder ==
  LET steps == artifacts["viewer"].steps
      items == artifacts["reasoning"]["step"]
  IN  /\ Keeps("step", Len(steps) + IF artifacts["queue"] = <<>> THEN 0 ELSE 1)
      /\ \A i \in DOMAIN items :
           /\ i <= Len(steps) => /\ items[i].related = <<steps[i].of>>
                                 /\ items[i].steps = <<steps[i].text>>
           /\ i > Len(steps) => items[i].related = <<>>

(* Every category of the reasoning is the beginning of what there is for   *)
(* it, and leaves something out only if it is full: of the flows and then  *)
(* the primitives, of the boundaries, of the primitives by their triage,   *)
(* of the viewer's list of missing evidence, and of the viewer's review    *)
(* steps and the general one after them, which needs something to review.  *)
ReasoningOmitsOnlyWhenFull ==
  Written("reasoning") =>
    SurfacesInOrder /\ HypothesesInOrder /\ TriageInOrder /\ MissingInOrder /\ StepsInOrder
===============================================================================
