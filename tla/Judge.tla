------------------------------- MODULE Judge -------------------------------
(***************************************************************************)
(* The narrow questions a review asks of one file, signal or finding:      *)
(* review/judgments.rs and codebase_judgments.rs, meta.rs, explain.rs,     *)
(* test_planner.rs, and the context budget of context.rs that each request *)
(* is assembled under.                                                     *)
(*                                                                         *)
(* An answer is what System One may say; a text is the number of its       *)
(* characters.  Probabilities and severities are whole numbers.            *)
(***************************************************************************)
EXTENDS Lists, Integers, FiniteSetsExt

CONSTANTS Dimensions,
          Failed,   \* a request that failed, after its retries
          Nothing,  \* no finding, no suggestion, no plan
          MinLocationConfidence, MinMetaConfidence, MinPlanConfidence, MinFixConfidence,
          RouteSeverity, BlockingSeverity

\* The answer that no candidate supports the concern.
NoMatch == 0

---------------------------------------------------------------------------
\* ContextBudget: items in order of priority; what does not fit is trimmed
\* and counted, and whatever follows finds nothing left.
NoDrops == [chars |-> 0, items |-> 0]

\* Mutant: a trimmed item leaves what remains untouched.
TakeTextKeeps(budget, size) ==
    LET kept == Min({size, budget.remaining}) IN
    [remaining |-> IF kept < size THEN budget.remaining ELSE budget.remaining - kept,
     kept |-> Append(budget.kept, kept),
     drops |-> [chars |-> budget.drops.chars + (size - kept),
                items |-> budget.drops.items + (IF kept < size THEN 1 ELSE 0)]]

TakeText(budget, size) ==
    LET kept == Min({size, budget.remaining}) IN
    [remaining |-> budget.remaining - kept,
     kept |-> Append(budget.kept, kept),
     drops |-> [chars |-> budget.drops.chars + (size - kept),
                items |-> budget.drops.items + (IF kept < size THEN 1 ELSE 0)]]

Fresh(cap) == [remaining |-> cap, kept |-> <<>>, drops |-> NoDrops]

Assemble(cap, sizes) == FoldLeft(TakeText, Fresh(cap), sizes)

AddDrops(a, b) == [chars |-> a.chars + b.chars, items |-> a.items + b.items]

---------------------------------------------------------------------------
\* Screening.  Three questions make up the security probability.
Questions == (Dimensions \ {"security"}) \cup {"security", "cryptoSecrets", "misconfig"}
QuestionsOf(dim) == IF dim = "security" THEN {"security", "cryptoSecrets", "misconfig"} ELSE {dim}

Probabilities(answer) == [d \in Dimensions |-> Max({answer[q] : q \in QuestionsOf(d)})]

\* One request for a changed file: its patch, base, related tests, neighbours
\* and signatures, in that order.
ScreenFile(cap, sizes, answer) ==
    IF answer = Failed THEN Failed
    ELSE [probabilities |-> Probabilities(answer), dropped |-> Assemble(cap, sizes).drops]

\* Mutant: the last region's answer stands for the file.
MergeRegionsLast(answers) == Probabilities(answers[Len(answers)])

MergeRegions(answers) ==
    [d \in Dimensions |-> Max({Probabilities(answers[i])[d] : i \in DOMAIN answers})]

\* One request per region of a source file, each under a budget of its own;
\* a failure of any is a failure of the file.
ScreenSourceFile(cap, regions, answers) ==
    IF \E i \in DOMAIN answers : answers[i] = Failed THEN Failed
    ELSE [probabilities |-> MergeRegions(answers),
          dropped |-> FoldLeft(AddDrops, NoDrops,
                          [i \in DOMAIN regions |-> Assemble(cap, regions[i]).drops])]

---------------------------------------------------------------------------
\* locate_signal and locate_source_signal: four requests and one of routing,
\* each of which may fail (a.fails) or end the pipeline.
Finding(signal, a) ==
    [file |-> signal.file, dim |-> signal.dim, line |-> a.at, located |-> a.sure,
     mechanism |-> a.mechanism, classified |-> a.classified, severity |-> a.severity,
     owner |-> IF a.severity >= RouteSeverity THEN a.owner ELSE Nothing,
     action |-> IF a.severity >= BlockingSeverity THEN "request_changes" ELSE "comment",
     related |-> <<>>, taint |-> Nothing, exonerated |-> Nothing, human |-> Nothing,
     rank |-> 0, fix |-> Nothing, plan |-> Nothing]

NoEvidence(candidates, a) == a.at \notin candidates \/ a.sure < MinLocationConfidence

Locate(signal, candidates, a) ==
    CASE candidates = {} -> Nothing
      [] a.fails = 1 -> Failed
      [] NoEvidence(candidates, a) -> Nothing
      [] a.fails = 2 -> Failed
      [] a.mechanism = "noIssue" -> Nothing
      [] a.fails \in {3, 4} -> Failed
      [] a.supported < MinMetaConfidence -> Nothing
      [] a.fails = 5 /\ a.severity >= RouteSeverity -> Failed
      [] OTHER -> Finding(signal, a)

\* The requests that a pipeline sends.
Calls(candidates, a) ==
    CASE candidates = {} -> 0
      [] a.fails = 1 \/ NoEvidence(candidates, a) -> 1
      [] a.fails = 2 \/ a.mechanism = "noIssue" -> 2
      [] a.fails = 3 -> 3
      [] a.fails = 4 \/ a.supported < MinMetaConfidence -> 4
      [] a.severity >= RouteSeverity -> 5
      [] OTHER -> 4

---------------------------------------------------------------------------
\* explain.rs: a catch-all or uncertain mechanism is asked nothing.
Suggestible(f) == f.mechanism # "other" /\ f.classified >= MinFixConfidence

Suggest(f, answer) ==
    IF Suggestible(f) /\ answer \notin {Failed, "noSuggestion"} THEN answer ELSE Nothing

\* test_planner.rs
PlannedMechanisms == {"branch", "failure", "boundary", "integration"}

ShouldPlan(f) ==
    /\ f.dim = "testGap" /\ f.line > 0
    /\ f.located \in MinLocationConfidence..100
    /\ f.classified \in MinPlanConfidence..100
    /\ f.mechanism \in PlannedMechanisms

Strategies(mechanism) ==
    CASE mechanism = "branch" -> {"unitRegression", "branchTable"}
      [] mechanism = "failure" -> {"failurePath"}
      [] mechanism = "boundary" -> {"boundaryTable", "propertyInvariant"}
      [] mechanism = "integration" -> {"componentIntegration"}
      [] OTHER -> {}

\* The evidence whole, or no plan; then as much context as fits.
Anchored(cap, evidence) == evidence <= cap

PlanOf(f, cap, evidence, answer) ==
    CASE ~ShouldPlan(f) \/ ~Anchored(cap, evidence) -> Nothing
      [] answer = Failed -> Failed
      [] answer \in Strategies(f.mechanism) -> answer
      [] OTHER -> Nothing
=============================================================================
