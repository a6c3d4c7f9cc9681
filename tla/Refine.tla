------------------------------- MODULE Refine -------------------------------
(***************************************************************************)
(* review/refine: what is done to the located findings of a whole review.  *)
(* Each stage asks about at most its budget of findings, all at once, and  *)
(* applies the answers in order; a failed request leaves its finding as it *)
(* was.  Every operator takes the findings and the answers and returns the *)
(* findings.                                                               *)
(***************************************************************************)
EXTENDS Judge, Select

CONSTANTS TaintMechanisms,   \* TAINT_MECHANISMS
          MinSink, LowExploitability,  \* in percent, and percent cubed
          ClusterWindow, MaxCandidates, MaxTaint, MaxCounterfactual, MaxEnsemble, TopK

Id(f) == <<f.file, f.dim>>
Blocking(f) == f.action = "request_changes"

Worse(a, b) == a.severity > b.severity

\* Mutant: the order the stage before left is taken for the order of severity.
BySeverityAsIs(findings) == findings

BySeverity(findings) == StableSort(findings, Worse)

\* One signal per file and dimension, so nothing is left to the order in which
\* shards and requests brought the findings.
Earlier(a, b) ==
    \/ FileOrder[a.file] < FileOrder[b.file]
    \/ /\ a.file = b.file
       /\ \/ a.line < b.line
          \/ a.line = b.line /\ DimensionOrder[a.dim] < DimensionOrder[b.dim]

Canonical(findings) == StableSort(findings, Earlier)

---------------------------------------------------------------------------
\* dedupe: each finding is compared with the kept ones near it, closest first.
Distance(a, b) == IF a.line < b.line THEN b.line - a.line ELSE a.line - b.line

Near(reps, f) ==
    LET positions == SelectSeq([i \in DOMAIN reps |-> i],
            LAMBDA i : reps[i].file = f.file /\ Distance(reps[i], f) <= ClusterWindow)
    IN Take(StableSort(positions, LAMBDA i, j : Distance(reps[i], f) < Distance(reps[j], f)),
            MaxCandidates)

\* Mutant: what had been folded into a finding is forgotten when it is folded.
FoldIntoForgets(rep, f) == [rep EXCEPT !.related = <<Id(f)>>]

FoldInto(rep, f) == [rep EXCEPT !.related = (@ \o <<Id(f)>>) \o f.related]

\* The answer names a candidate, or none: distinct, unsure, unknown or failed.
KeepOrFold(reps, f, answer) ==
    LET near == Near(reps, f) IN
    IF answer \in DOMAIN near
    THEN [reps EXCEPT ![near[answer]] = FoldInto(@, f)]
    ELSE Append(reps, f)

DedupeFile(group, answers) ==
    FoldLeft(LAMBDA reps, f : KeepOrFold(reps, f, answers[Id(f)]), <<>>, group)

\* Files in the order of their worst finding; findings in order within each.
Dedupe(findings, answers) ==
    LET firsts == SelectSeq([i \in DOMAIN findings |-> i],
            LAMBDA i : \A j \in 1..(i - 1) : findings[j].file # findings[i].file)
        Group(i) == SelectSeq(findings, LAMBDA f : f.file = findings[i].file)
    IN FlattenSeq([k \in DOMAIN firsts |-> DedupeFile(Group(firsts[k]), answers)])

Clustered(before, after) == Len(before) - Len(after)

---------------------------------------------------------------------------
\* taint: an injection-class finding whose chain is implausible is demoted
\* from blocking to a comment, never dropped.
Injectable(f) == f.dim = "security" /\ f.mechanism \in TaintMechanisms
TaintTargets(findings) == FirstWhere(findings, MaxTaint, Injectable)

\* exploitability = untrusted * reaches * (1 - sanitized); the second request
\* is sent only when the data plausibly reaches the sink.
Untrusted(source, confidence) ==
    CASE source = "untrusted" -> confidence
      [] source = "unknown" -> 50
      [] source = "trusted" -> 100 - confidence

Exploitability(a) ==
    Untrusted(a.source, a.confidence) * a.reaches *
        (100 - (IF a.reaches < MinSink THEN 0 ELSE a.sanitized))

ChainFailed(a) == a.source = Failed \/ (a.reaches >= MinSink /\ a.sanitized = Failed)

\* Mutant: a demoted finding keeps no chain to explain it.
TracedSilently(f, a) ==
    IF ~ChainFailed(a) /\ Exploitability(a) < LowExploitability
    THEN [f EXCEPT !.action = "comment"] ELSE f

Traced(f, a) ==
    IF ChainFailed(a) THEN f
    ELSE [f EXCEPT !.taint = Exploitability(a),
                   !.action = IF Exploitability(a) < LowExploitability THEN "comment" ELSE @]

Trace(findings, chains) ==
    [i \in DOMAIN findings |->
        IF i \in TaintTargets(findings)
        THEN Traced(findings[i], chains[Id(findings[i])]) ELSE findings[i]]

---------------------------------------------------------------------------
\* counterfactual: a fact that the context shows exonerates the finding.
CounterfactualTargets(findings) == FirstWhere(findings, MaxCounterfactual, LAMBDA f : TRUE)

Calibrated(findings, facts) ==
    [i \in DOMAIN findings |->
        IF i \in CounterfactualTargets(findings) /\ facts[Id(findings[i])] # Failed
        THEN [findings[i] EXCEPT !.exonerated = facts[Id(findings[i])]] ELSE findings[i]]

\* "holds" is a fact that is not "none", at EXONERATION_DROP or above.
Calibrate(findings, facts) ==
    SelectSeq(Calibrated(findings, facts), LAMBDA f : f.exonerated # "holds")

---------------------------------------------------------------------------
\* ensemble: the votes of three readings; a spread, or a low mean, asks for a
\* human and changes nothing else.
VoteTargets(findings) == FirstWhere(findings, MaxEnsemble, Blocking)

NeedsHumanSpread == 50
NeedsHumanMean == 50

NeedsHuman(votes) ==
    \/ Max(ToSet(votes)) - Min(ToSet(votes)) >= NeedsHumanSpread
    \/ FoldLeft(LAMBDA sum, v : sum + v, 0, votes) < NeedsHumanMean * Len(votes)

Vote(findings, votes) ==
    [i \in DOMAIN findings |->
        LET v == votes[Id(findings[i])] IN
        IF i \in VoteTargets(findings) /\ v # Failed
        THEN [findings[i] EXCEPT !.human = NeedsHuman(v)] ELSE findings[i]]

---------------------------------------------------------------------------
\* pairwise: the first K are reordered by strength, ties in place, unless any
\* batch of comparisons failed.
Ranked(findings) == Take(findings, TopK)

Rank(findings, strength) ==
    IF Len(Ranked(findings)) < 2 \/ strength = Failed THEN findings
    ELSE LET order == StableSort(Ranked(findings),
                 LAMBDA a, b : strength[Id(a)] > strength[Id(b)])
         IN [i \in DOMAIN findings |->
                IF i \in DOMAIN order THEN [order[i] EXCEPT !.rank = i] ELSE findings[i]]
=============================================================================
