------------------------------ MODULE Approval ------------------------------
(***************************************************************************)
(* Automatic approval: cli github_review, adapters/approval.rs and the     *)
(* decision of review/merge_confidence.rs, against a pull request that     *)
(* moves while it is read.                                                 *)
(*                                                                         *)
(* The evidence is collected twice, five requests each time: once before   *)
(* the review is published and once, between two more reads of the pull    *)
(* request, before the approval is posted.  Heads may be force-pushed away *)
(* and back; the base only advances.  What the decision asks of the report *)
(* and the history alone is one boolean, which ages: a history recent      *)
(* enough for the first round may be too old for the second.               *)
(***************************************************************************)
EXTENDS Naturals, FiniteSets

CONSTANTS Heads,        \* commits the pull request's branch points to
          Reviewed,     \* the head the report and the run are for
          Bases,        \* 1..n, the commits the base branch advances through
          MergeBase,    \* of each base commit with each head
          Files,        \* what each head changes, seen from each merge base
          Unsupported,  \* the files of each head without a textual patch
          CheckRuns,    \* names of check runs
          Statuses,     \* names of commit statuses
          Required,     \* ApprovalPolicy.required_checks
          MaxPushes     \* bound: how often the head moves

ASSUME ApprovalAssumption ==
    /\ Reviewed \in Heads
    /\ IsFiniteSet(Bases) /\ Bases = 1..Cardinality(Bases) /\ 1 \in Bases
    /\ MergeBase \in [Bases -> [Heads -> Nat]]
    /\ \A b \in Bases, h \in Heads : IsFiniteSet(Files[MergeBase[b][h]][h])
    /\ DOMAIN Unsupported = Heads
    /\ CheckRuns \cap Statuses = {}   \* a name in both is a duplicate, never passed
    /\ Required \subseteq CheckRuns \cup Statuses
    /\ MaxPushes \in Nat

Checks == CheckRuns \cup Statuses
\* "unusable" stands for failed, neutral, skipped, stale, duplicated and for a
\* result without a link; "absent" is not listed at all.
CheckStates == {"absent", "pending", "passed", "unusable"}

VARIABLES head, base, ready,   \* the pull request: ready is open and not a draft
          checks,      \* the latest result of each check on the reviewed head
          pushes,
          report,      \* [screened, base, sound]: matrix, reviewed_base, the rest
          pc, round,
          evidence,    \* what this round has read so far
          before,      \* the base that approve_current_head read first
          artifact,    \* what the sanitized report says about approval
          approvals,   \* approvals on GitHub: the base read last, for each
          green,       \* history: checks that passed since the second round began
          trouble      \* history: a failed request, a short listing, a kill

pull == <<head, base, ready, checks, pushes>>
vars == <<pull, report, pc, round, evidence, before, artifact, approvals, green, trouble>>

NoEvidence == [base |-> 0, count |-> 0, mergeBase |-> 0, files |-> {}, patched |-> FALSE,
               results |-> <<>>]
Ended == {"approved", "rejected", "withheld", "unconfirmed", "failed", "killed"}
Reading == {"pull", "compare", "files", "runs", "statuses"}
Requests == Reading \cup {"before", "after", "post"}
Places == Requests \cup {"assess", "publish", "refused"} \cup Ended

Changed(b, h) == Files[MergeBase[b][h]][h]

-----------------------------------------------------------------------------
Init ==
    /\ head = Reviewed /\ base = 1 /\ ready = TRUE /\ pushes = 0
    /\ checks \in [Checks -> CheckStates]
    /\ \E b \in Bases, sound \in BOOLEAN : \E screened \in SUBSET Changed(b, Reviewed) :
         report = [screened |-> screened, base |-> MergeBase[b][Reviewed], sound |-> sound]
    /\ pc = "pull" /\ round = 1
    /\ evidence = NoEvidence /\ before = 0
    /\ artifact = "unassessed" /\ approvals = {}
    /\ green = {} /\ trouble = FALSE

\* An error ends the first round's run before anything is published; in the
\* second it comes back from approve_current_head and is recorded.
Refuse == pc' = IF round = 1 THEN "failed" ELSE "refused"

Current == head = Reviewed /\ ready

\* current_pull, as approval_evidence calls it.
ReadPull ==
    /\ pc = "pull"
    /\ IF Current
         THEN /\ evidence' = [NoEvidence EXCEPT !.base = base, !.count = Cardinality(Changed(base, head))]
              /\ pc' = "compare"
         ELSE Refuse /\ UNCHANGED evidence
    /\ UNCHANGED <<pull, report, round, before, artifact, approvals, green, trouble>>

Compare ==
    /\ pc = "compare"
    /\ evidence' = [evidence EXCEPT !.mergeBase = MergeBase[evidence.base][Reviewed]]
    /\ pc' = "files"
    /\ UNCHANGED <<pull, report, round, before, artifact, approvals, green, trouble>>

\* pull_files lists the files of the head of that moment, with their patches;
\* GitHub stops listing a large pull request's files.
ReadFiles ==
    /\ pc = "files"
    /\ \E listed \in SUBSET Changed(base, head) :
         /\ evidence' = [evidence EXCEPT !.files = listed,
                                          !.patched = listed \cap Unsupported[head] = {}]
         /\ trouble' = (trouble \/ listed # Changed(base, head))
    /\ pc' = "runs"
    /\ UNCHANGED <<pull, report, round, before, artifact, approvals, green>>

\* Mutant: results of the first round are kept.
ReadRunsOnce ==
    /\ pc = "runs"
    /\ evidence' = [evidence EXCEPT !.results =
         [c \in CheckRuns |-> IF round = 1 THEN checks[c] ELSE "passed"]]
    /\ pc' = "statuses"
    /\ UNCHANGED <<pull, report, round, before, artifact, approvals, green, trouble>>

ReadRuns ==
    /\ pc = "runs"
    /\ evidence' = [evidence EXCEPT !.results = [c \in CheckRuns |-> checks[c]]]
    /\ pc' = "statuses"
    /\ UNCHANGED <<pull, report, round, before, artifact, approvals, green, trouble>>

ReadStatuses ==
    /\ pc = "statuses"
    /\ evidence' = [evidence EXCEPT !.results =
         [c \in Checks |-> IF c \in CheckRuns THEN @[c] ELSE checks[c]]]
    /\ pc' = "assess"
    /\ UNCHANGED <<pull, report, round, before, artifact, approvals, green, trouble>>

-----------------------------------------------------------------------------
(* approval_evidence's unknowns and the decision they enter.               *)

\* Mutant: a truncated inventory goes unnoticed.
CoveredUncounted ==
    /\ evidence.patched /\ evidence.files \subseteq report.screened
    /\ Cardinality(evidence.files) = Cardinality(report.screened)
    /\ report.base = evidence.mergeBase

Covered ==
    /\ evidence.count = Cardinality(evidence.files)
    /\ evidence.patched /\ evidence.files \subseteq report.screened
    /\ Cardinality(evidence.files) = Cardinality(report.screened)
    /\ report.base = evidence.mergeBase

Listed == {c \in Checks : evidence.results[c] # "absent"}

ChecksPass ==
    /\ \A c \in Listed : evidence.results[c] = "passed"
    /\ Required \subseteq Listed

Eligible == report.sound /\ Covered /\ ChecksPass

\* Before publishing, the decision only goes into the report's artifact.
AssessFirst ==
    /\ pc = "assess" /\ round = 1
    /\ artifact' = IF Eligible THEN "eligible" ELSE "ineligible"
    /\ pc' = "publish"
    /\ UNCHANGED <<pull, report, round, evidence, before, approvals, green, trouble>>

\* publish, which Publish models: GitHub takes the review or refuses it.
PublishReview ==
    /\ pc = "publish"
    /\ \/ /\ artifact = "eligible"
          /\ pc' = "before" /\ round' = 2
          /\ green' = {c \in Checks : checks[c] = "passed"}
          /\ UNCHANGED <<artifact, trouble>>
       \/ /\ artifact = "ineligible"
          /\ pc' = "rejected"
          /\ UNCHANGED <<round, artifact, green, trouble>>
       \/ /\ artifact' = "ineligible" /\ trouble' = TRUE
          /\ pc' = "withheld"
          /\ UNCHANGED <<round, green>>
    /\ UNCHANGED <<pull, report, evidence, before, approvals>>

-----------------------------------------------------------------------------
(* approve_current_head.                                                   *)

\* Mutant: the first base is not kept.
ReadBeforeForgets ==
    /\ pc = "before"
    /\ IF Current THEN pc' = "pull" ELSE Refuse
    /\ UNCHANGED <<pull, report, round, evidence, before, artifact, approvals, green, trouble>>

ReadBefore ==
    /\ pc = "before"
    /\ IF Current THEN before' = base /\ pc' = "pull" ELSE Refuse /\ UNCHANGED before
    /\ UNCHANGED <<pull, report, round, evidence, artifact, approvals, green, trouble>>

Reassess ==
    /\ pc = "assess" /\ round = 2
    /\ IF Eligible THEN pc' = "after" ELSE Refuse
    /\ UNCHANGED <<pull, report, round, evidence, before, artifact, approvals, green, trouble>>

\* Mutant: the base is not compared.
ReadAfterAnyBase ==
    /\ pc = "after"
    /\ IF Current THEN before' = base /\ pc' = "post" ELSE Refuse /\ UNCHANGED before
    /\ UNCHANGED <<pull, report, round, evidence, artifact, approvals, green, trouble>>

ReadAfter ==
    /\ pc = "after"
    /\ IF Current /\ base = before THEN pc' = "post" ELSE Refuse
    /\ UNCHANGED <<pull, report, round, evidence, before, artifact, approvals, green, trouble>>

\* The approval names the reviewed commit; its answer may be lost.
Post ==
    /\ pc = "post"
    /\ approvals' = approvals \cup {before}
    /\ \/ pc' = "approved" /\ UNCHANGED trouble
       \/ pc' = "refused" /\ trouble' = TRUE
    /\ UNCHANGED <<pull, report, round, evidence, before, artifact, green>>

\* Mutant: the artifact keeps the first decision.
RecordRefusalOnlyLogs ==
    /\ pc = "refused"
    /\ pc' = "unconfirmed"
    /\ UNCHANGED <<pull, report, round, evidence, before, artifact, approvals, green, trouble>>

\* The error clears eligibility and is written before it ends the run.
RecordRefusal ==
    /\ pc = "refused"
    /\ artifact' = "ineligible"
    /\ pc' = "unconfirmed"
    /\ UNCHANGED <<pull, report, round, evidence, before, approvals, green, trouble>>

RequestFails ==
    /\ pc \in Requests
    /\ Refuse
    /\ trouble' = TRUE
    /\ UNCHANGED <<pull, report, round, evidence, before, artifact, approvals, green>>

\* Publication fails, or the process is killed anywhere.
Stop ==
    /\ pc \notin Ended
    /\ pc' = "killed"
    /\ trouble' = TRUE
    /\ UNCHANGED <<pull, report, round, evidence, before, artifact, approvals, green>>

-----------------------------------------------------------------------------
(* The pull request moves.                                                 *)

observer == <<report, pc, round, evidence, before, artifact, approvals, trouble>>

Push ==
    /\ pushes < MaxPushes
    /\ pushes' = pushes + 1
    /\ head' \in Heads \ {head}
    /\ UNCHANGED <<base, ready, checks, green, observer>>

AdvanceBase ==
    /\ base + 1 \in Bases
    /\ base' = base + 1
    /\ UNCHANGED <<head, ready, checks, pushes, green, observer>>

\* Closed, reopened, made a draft, marked ready.
ChangeReady ==
    /\ ready' = ~ready
    /\ UNCHANGED <<head, base, checks, pushes, green, observer>>

\* A check starts, starts over, ends, or its result grows stale.
ChangeCheck(c) ==
    /\ \E result \in CheckStates \ {"absent"} :
         /\ result = "passed" => checks[c] = "pending"
         /\ checks' = [checks EXCEPT ![c] = result]
         /\ green' = IF round = 2 /\ result = "passed" THEN green \cup {c} ELSE green
    /\ UNCHANGED <<head, base, ready, pushes, observer>>

\* The outcome history or its last observations grow too old.
Age ==
    /\ report.sound
    /\ report' = [report EXCEPT !.sound = FALSE]
    /\ UNCHANGED <<pull, pc, round, evidence, before, artifact, approvals, green, trouble>>

Run ==
    \/ ReadPull \/ Compare \/ ReadFiles \/ ReadRuns \/ ReadStatuses \/ AssessFirst
    \/ PublishReview \/ ReadBefore \/ Reassess \/ ReadAfter \/ Post \/ RecordRefusal
    \/ RequestFails \/ Stop

World == Push \/ AdvanceBase \/ ChangeReady \/ Age \/ \E c \in Checks : ChangeCheck(c)

Next == Run \/ World

\* The process runs until it ends.
Spec == Init /\ [][Next]_vars /\ WF_vars(Run)

-----------------------------------------------------------------------------
TypeOK ==
    /\ head \in Heads /\ base \in Bases /\ ready \in BOOLEAN /\ pushes \in 0..MaxPushes
    /\ checks \in [Checks -> CheckStates]
    /\ report.base \in Nat /\ report.sound \in BOOLEAN
    /\ pc \in Places /\ round \in 1..2
    /\ evidence.base \in Bases \cup {0} /\ before \in Bases \cup {0}
    /\ pc = "assess" => evidence.results \in [Checks -> CheckStates]
    /\ artifact \in {"unassessed", "eligible", "ineligible"}
    /\ approvals \subseteq Bases
    /\ green \subseteq Checks
    /\ trouble \in BOOLEAN

(* An approved commit was reviewed whole: every file it changes was        *)
(* screened, although the listing may be cut short and the head and the    *)
(* base may move, and the head move back, while they are read; and unless  *)
(* the head moved, each file has a textual patch (approval.rs:203-234).    *)
ApprovedWasCovered ==
    \A b \in approvals :
        /\ report.screened = Changed(b, Reviewed)
        /\ pushes = 0 => Unsupported[Reviewed] \cap report.screened = {}

(* docs/merge-confidence.md:143, "Publication verifies the current live PR *)
(* base and head": the merge base reviewed is that of the base read last,  *)
(* between five requests that each may see another base.                   *)
ApprovedOnReviewedBase ==
    \A b \in approvals : MergeBase[b][Reviewed] = report.base

(* docs/merge-confidence.md:225, eligibility is recomputed "immediately    *)
(* before an exact-commit approval": every required check has passed at    *)
(* some moment after the review was published, not just before it.         *)
ApprovedOnFreshChecks == approvals # {} => Required \subseteq green

(* An approval rests on the base that was reviewed and on checks that      *)
(* passed since: on what holds now, not on what the review started from.   *)
ApprovedOnEvidence == ApprovedOnReviewedBase /\ ApprovedOnFreshChecks

(* A run that ended by itself after publishing says "eligible" in its      *)
(* artifact exactly when GitHub confirmed the approval (mod.rs:631-671).   *)
ArtifactTellsOutcome ==
    pc \in {"approved", "rejected", "withheld", "unconfirmed"} =>
        (artifact = "eligible" <=> pc = "approved")

Routine ==
    /\ Current /\ ~trouble
    /\ report.sound /\ report.base = MergeBase[base][Reviewed]
    /\ report.screened = Changed(base, Reviewed)
    /\ report.screened \cap Unsupported[Reviewed] = {}
    /\ \A c \in Checks : checks[c] = "passed"

(* A routine change that stays so while the run reads it, without trouble, *)
(* is approved, unless the base advances: no two of the guards in the two  *)
(* rounds contradict each other.                                           *)
RoutineChangeApproved ==
    \A b \in Bases : [](Routine /\ base = b) => <>(pc = "approved")
=============================================================================
