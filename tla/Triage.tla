------------------------------- MODULE Triage -------------------------------
(***************************************************************************)
(* From the screens of a whole review to the findings it reports: the      *)
(* signals that run_review follows up, the findings located for them, and  *)
(* finish_findings with every stage of refinement, enrichment and test     *)
(* plans (review/workflow.rs, steps 2 to 7).                               *)
(*                                                                         *)
(* A stage is a step: its requests run at once, and their answers are      *)
(* applied in order when all are in.  Review has the counters and the      *)
(* skipped items of the same run; here it is the findings that matter.     *)
(***************************************************************************)
EXTENDS Refine

CONSTANTS Cap,            \* context characters per request
          Screens,        \* what may be screened: file -> its regions' sizes and answers
          Thresholds, DefaultThreshold,
          FollowUpCaps,   \* --follow-ups, or NoCap
          Candidates,     \* the evidence regions' first lines
          LocateAnswers, TaintAnswers, VoteAnswers, Strengths, PlanAnswers,
          MaxEnrich, MaxPlans,
          HiddenSets      \* the fingerprints that reviewers may have asked to hide

ASSUME TriageAssumption ==
    /\ TopK <= MaxEnrich
    /\ NoMatch \notin Candidates

VARIABLES stage,
          screen,      \* the screens of this run
          cap, voi,    \* --follow-ups and --follow-up-strategy
          signals, followed,
          calls,       \* history: requests of the pipelines
          findings,
          located,     \* history: the findings as located
          suppressed,  \* history: the findings dropped because they are hidden
          gone,        \* history: exonerated findings, with what was folded in
          counts,      \* RefineCounts
          considered   \* history: stage -> the findings asked about and passed over

vars == <<stage, screen, cap, voi, signals, followed, calls, findings, located,
          suppressed, gone, counts, considered>>

\* A changed file is one request, a source file one for each region.
ScreenOf(f) ==
    LET s == screen[f] IN
    IF Len(s.answers) = 1 THEN ScreenFile(Cap, s.sizes[1], s.answers[1])
    ELSE ScreenSourceFile(Cap, s.sizes, s.answers)

Matrix ==
    [f \in {g \in DOMAIN screen : ScreenOf(g) # Failed} |-> ScreenOf(f).probabilities]

ScreenStep ==
    /\ stage = "screen"
    /\ signals' = ThresholdSignals(Matrix, Thresholds, DefaultThreshold)
    /\ stage' = "select"
    /\ UNCHANGED <<screen, cap, voi, followed, calls, findings, located, suppressed,
                   gone, counts, considered>>

SelectStep ==
    /\ stage = "select"
    /\ followed' = IF voi THEN SelectByValue(signals, cap) ELSE SelectFollowUps(signals, cap)
    /\ stage' = "locate"
    /\ UNCHANGED <<screen, cap, voi, signals, calls, findings, located, suppressed,
                   gone, counts, considered>>

\* Findings arrive in the order of the follow-ups, or of the shards merged.
LocateStep ==
    /\ stage = "locate"
    /\ \E answers \in [DOMAIN followed -> LocateAnswers] :
         LET results == [i \in DOMAIN followed |-> Locate(followed[i], Candidates, answers[i])]
             found == SelectSeq(results, LAMBDA r : r \notin {Failed, Nothing})
         IN /\ calls' = MapThenSumSet(LAMBDA i : Calls(Candidates, answers[i]), DOMAIN followed)
            /\ findings' \in {found, Reverse(found)}
            /\ located' = ToSet(found)
    /\ stage' = "suppress"
    /\ UNCHANGED <<screen, cap, voi, signals, followed, suppressed, gone, counts, considered>>

\* A finding is known again in a later run by its file, dimension, mechanism
\* and evidence, of which each region's line stands for its own.
Fingerprint(f) == <<f.file, f.dim, f.mechanism, f.line>>

SuppressStep ==
    /\ stage = "suppress"
    /\ \E hide \in HiddenSets :
         LET Shown(f) == Fingerprint(f) \notin hide IN
         /\ findings' = SelectSeq(findings, Shown)
         /\ suppressed' = {f \in located : ~Shown(f)}
         /\ counts' = [counts EXCEPT !.suppressed = Len(findings) - Len(findings')]
    /\ stage' = "finish"
    /\ UNCHANGED <<screen, cap, voi, signals, followed, calls, located, gone, considered>>

---------------------------------------------------------------------------
\* finish_findings
Asked(targets) == {findings[i] : i \in targets}

Consider(name, targets, Eligible(_)) ==
    considered' = [considered EXCEPT ![name] =
        [asked |-> Asked(targets),
         passed |-> {f \in ToSet(findings) : Eligible(f)} \ Asked(targets)]]

FinishStep ==
    /\ stage = "finish"
    /\ \/ findings # <<>> /\ findings' = BySeverity(Canonical(findings)) /\ stage' = "dedupe"
       \/ findings' = BySeverity(Canonical(findings)) /\ stage' = "enrich"
    /\ UNCHANGED <<screen, cap, voi, signals, followed, calls, located, suppressed,
                   gone, counts, considered>>

DedupeStep ==
    /\ stage = "dedupe"
    /\ \E answers \in [{Id(f) : f \in ToSet(findings)} -> 0..MaxCandidates] :
         LET kept == Dedupe(findings, answers) IN
         /\ findings' = BySeverity(kept)
         /\ counts' = [counts EXCEPT !.clustered = Clustered(findings, kept)]
    /\ stage' = "taint"
    /\ UNCHANGED <<screen, cap, voi, signals, followed, calls, located, suppressed, gone, considered>>

TraceStep ==
    /\ stage = "taint"
    /\ \E answers \in [{Id(findings[i]) : i \in TaintTargets(findings)} -> TaintAnswers] :
         findings' = Trace(findings, answers)
    /\ Consider("taint", TaintTargets(findings), Injectable)
    /\ stage' = "counterfactual"
    /\ UNCHANGED <<screen, cap, voi, signals, followed, calls, located, suppressed,
                   gone, counts>>

CalibrateStep ==
    /\ stage = "counterfactual"
    /\ \E facts \in [{Id(findings[i]) : i \in CounterfactualTargets(findings)}
                        -> {Failed, "none", "open", "holds"}] :
         /\ findings' = Calibrate(findings, facts)
         /\ gone' = {f \in ToSet(Calibrated(findings, facts)) : f.exonerated = "holds"}
         /\ counts' = [counts EXCEPT !.exonerated = Len(findings) - Len(findings')]
    /\ Consider("counterfactual", CounterfactualTargets(findings), LAMBDA f : TRUE)
    /\ stage' = "ensemble"
    /\ UNCHANGED <<screen, cap, voi, signals, followed, calls, located, suppressed>>

VoteStep ==
    /\ stage = "ensemble"
    /\ \E votes \in [{Id(findings[i]) : i \in VoteTargets(findings)} -> VoteAnswers] :
         /\ findings' = BySeverity(Vote(findings, votes))
         /\ counts' = [counts EXCEPT !.needsHuman =
                Cardinality({i \in DOMAIN findings' : findings'[i].human = TRUE})]
    /\ Consider("ensemble", VoteTargets(findings), Blocking)
    /\ stage' = "pairwise"
    /\ UNCHANGED <<screen, cap, voi, signals, followed, calls, located, suppressed, gone>>

RankStep ==
    /\ stage = "pairwise"
    /\ \E strength \in [{Id(f) : f \in ToSet(Ranked(findings))} -> Strengths] \cup {Failed} :
         findings' = Rank(findings, strength)
    /\ stage' = "enrich"
    /\ UNCHANGED <<screen, cap, voi, signals, followed, calls, located, suppressed,
                   gone, counts, considered>>

EnrichStep ==
    /\ stage = "enrich"
    /\ LET targets == FirstWhere(findings, MaxEnrich, LAMBDA f : TRUE) IN
       /\ \E fixes \in [targets -> {Failed, "noSuggestion", "validateInput"}] :
            findings' = [i \in DOMAIN findings |->
                IF i \in targets THEN [findings[i] EXCEPT !.fix = Suggest(findings[i], fixes[i])]
                ELSE findings[i]]
       /\ Consider("enrich", targets, LAMBDA f : TRUE)
    /\ stage' = "plan"
    /\ UNCHANGED <<screen, cap, voi, signals, followed, calls, located, suppressed,
                   gone, counts>>

PlanStep ==
    /\ stage = "plan"
    /\ LET targets == FirstWhere(findings, MaxPlans, ShouldPlan) IN
       \E plans \in [targets -> PlanAnswers], evidence \in {Cap, Cap + 1} :
         findings' = [i \in DOMAIN findings |->
             IF i \in targets
             THEN LET plan == PlanOf(findings[i], Cap, evidence, plans[i]) IN
                  [findings[i] EXCEPT !.plan = IF plan = Failed THEN Nothing ELSE plan]
             ELSE findings[i]]
    /\ stage' = "report"
    /\ UNCHANGED <<screen, cap, voi, signals, followed, calls, located, suppressed,
                   gone, counts, considered>>

Init ==
    /\ stage = "screen" /\ screen \in Screens /\ cap \in FollowUpCaps /\ voi \in BOOLEAN
    /\ signals = <<>> /\ followed = <<>> /\ calls = 0
    /\ findings = <<>> /\ located = {} /\ suppressed = {} /\ gone = {}
    /\ counts = [suppressed |-> 0, clustered |-> 0, exonerated |-> 0, needsHuman |-> 0]
    /\ considered = [s \in {"taint", "counterfactual", "ensemble", "enrich"} |->
                        [asked |-> {}, passed |-> {}]]

Next ==
    \/ ScreenStep \/ SelectStep \/ LocateStep \/ SuppressStep \/ FinishStep
    \/ DedupeStep \/ TraceStep \/ CalibrateStep \/ VoteStep \/ RankStep
    \/ EnrichStep \/ PlanStep

Spec == Init /\ [][Next]_vars

---------------------------------------------------------------------------
\* A finding located is hidden because a reviewer asked for it, reported, folded
\* into one that is, or was exonerated alone or with the finding it was folded
\* into; and the report's counts say how many went each way
\* (workflow.rs:531-540, refine/mod.rs:53-79, workflow.rs:729-800).
NothingVanishes ==
    LET Related(f) == ToSet(f.related)
        listed == {Id(f) : f \in ToSet(findings)}
        folded == UNION {Related(f) : f \in ToSet(findings)}
        cleared == {Id(f) : f \in gone} \cup UNION {Related(f) : f \in gone}
        hidden == {Id(f) : f \in suppressed}
    IN stage \notin {"screen", "select", "locate"} =>
        /\ listed \cup folded \cup cleared \cup hidden = {Id(f) : f \in located}
        /\ listed \cap folded = {} /\ (listed \cup folded) \cap (cleared \cup hidden) = {}
        /\ cleared \cap hidden = {}
        /\ counts.suppressed = Cardinality(hidden)
        /\ Len(findings) + counts.clustered + counts.exonerated + counts.suppressed
             = Cardinality(located)

\* Every capped stage spends its requests on the worst findings there are for
\* it, although the stage before may have left another order (refine/mod.rs:62,
\* 73) and ranking may have reordered the first (workflow.rs:767-770).
BudgetOnWorst ==
    \A s \in DOMAIN considered :
        \A f \in considered[s].asked, g \in considered[s].passed : f.severity >= g.severity

\* A step takes a blocking finding away only by folding it into another
\* blocking one, by a chain that explains its demotion, by a fact that
\* exonerates it, or because a reviewer hid it; and nothing becomes blocking
\* that was located as less
\* (refine/taint.rs:9-11, refine/ensemble.rs:6-8, refine/mod.rs:17-18).
FoldedIn(f, g) == Id(f) \in ToSet(g.related)

BlockingSurvives ==
    [][stage \notin {"screen", "select", "locate"} =>
        /\ \A f \in {g \in ToSet(findings) : Blocking(g)} :
             \/ \E g \in ToSet(findings') : Id(g) = Id(f) /\ Blocking(g)
             \/ \E g \in ToSet(findings') : FoldedIn(f, g) /\ Blocking(g)
             \/ \E g \in ToSet(findings') : Id(g) = Id(f) /\ g.taint # Nothing
             \/ \E g \in gone' : Id(g) = Id(f)
             \/ f \in suppressed'
        /\ \A g \in ToSet(findings') : Blocking(g) =>
             \E f \in ToSet(findings) : Id(f) = Id(g) /\ Blocking(f)]_vars

\* What any region's answer puts at its threshold is a signal.  Under a cap
\* every dimension with a signal is followed before any is followed twice, a
\* signal is passed over only for a better one of its policy or for a
\* dimension's first, a larger cap never loses a signal, and the pipelines
\* cost no more than voi.rs estimates (workflow.rs:812-850,
\* voi.rs:75-163).
Better(a, b) == IF voi THEN Worthier(a, b) ELSE MoreProbable(a, b)
Follow(n) == ToSet(IF voi THEN SelectByValue(signals, n) ELSE SelectFollowUps(signals, n))

SelectionFair ==
    LET chosen == ToSet(followed)
        Twice(s) == \E t \in chosen : t # s /\ t.dim = s.dim
    IN stage \notin {"screen", "select"} =>
        /\ \A f \in DOMAIN Matrix, d \in Dimensions, q \in Questions :
             (q \in QuestionsOf(d) /\ \E i \in DOMAIN screen[f].answers :
                 screen[f].answers[i][q] >= ThresholdOf(Thresholds, DefaultThreshold, d))
             => \E s \in ToSet(signals) : s.file = f /\ s.dim = d
        /\ Len(followed) = IF cap = NoCap \/ Len(signals) < cap THEN Len(signals) ELSE cap
        /\ \A s \in ToSet(signals) \ chosen :
             /\ \E t \in chosen : t.dim = s.dim \/ ~\E u \in chosen : Twice(u)
             /\ \A t \in chosen : Better(t, s) \/ ~Twice(t)
        /\ cap # NoCap => Follow(cap) \subseteq Follow(cap + 1)
        /\ calls <= EstimatedCalls * Len(followed)

\* A cap costs the least: in the selection and in every stage after it.
BudgetWellSpent == SelectionFair /\ BudgetOnWorst

\* What a request carries and what it drops is what there was, within the
\* budget, and nothing is trimmed while there is room or for something of less
\* priority (context.rs:52-96).
ContextAccounted ==
    \A f \in DOMAIN screen : \A i \in DOMAIN screen[f].sizes :
        LET sizes == screen[f].sizes[i]
            sent == Assemble(Cap, sizes)
            Sum(s) == FoldLeft(LAMBDA a, b : a + b, 0, s)
        IN /\ Sum(sent.kept) <= Cap
           /\ Sum(sent.kept) + sent.drops.chars = Sum(sizes)
           /\ \A k \in DOMAIN sizes :
                /\ sent.kept[k] <= sizes[k]
                /\ sent.kept[k] < sizes[k] => Sum(SubSeq(sent.kept, 1, k)) = Cap
           /\ sent.drops.items = Cardinality({k \in DOMAIN sizes : sent.kept[k] < sizes[k]})
=============================================================================
