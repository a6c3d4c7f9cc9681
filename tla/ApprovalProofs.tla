--------------------------- MODULE ApprovalProofs ---------------------------
(***************************************************************************)
(* Approval's guarantees about what moves while an approval is decided on, *)
(* for every number of heads, base commits, files and checks.              *)
(*                                                                         *)
(* The base: it is read three times, first as before, then with the        *)
(* evidence, and last when it must equal before.  It only advances, so the *)
(* reading in the middle is the same, and so is the merge base it gave.    *)
(* The checks: a result read in the second round was true in it.           *)
(* The files: as many as the reviewed head changes were listed, all of     *)
(* them screened, and no more were screened; so they are the same.         *)
(* The outcome history, module Outcomes, which an approval rests on, comes *)
(* last: exports are accepted, look at nothing ahead, and expire.          *)
(***************************************************************************)
EXTENDS Approval, Outcomes, FiniteSetTheorems, WellFoundedInduction, TLAPS

Collected == {"compare", "files", "runs", "statuses", "assess", "after"}

Shapes ==
    /\ DOMAIN report = {"screened", "base", "sound"}
    /\ DOMAIN evidence = {"base", "count", "mergeBase", "files", "patched", "results"}
    /\ pc = "statuses" => evidence.results \in [CheckRuns -> CheckStates]

Rounds ==
    /\ pc = "publish" => round = 1
    /\ pc \in {"before", "after", "post"} => round = 2
    /\ approvals # {} => round = 2 /\ pc \in {"approved", "refused", "unconfirmed", "killed"}

BasesInOrder ==
    /\ evidence.base <= base
    /\ round = 2 /\ pc \in Collected \cup {"pull", "post"} =>
         before \in Bases /\ before <= base
    /\ round = 2 /\ pc \in Collected => before <= evidence.base

MergeBaseRead ==
    /\ pc \in Collected \ {"compare"} =>
         evidence.mergeBase = MergeBase[evidence.base][Reviewed]
    /\ pc = "after" => report.base = evidence.mergeBase
    /\ pc = "post" => report.base = MergeBase[before][Reviewed]

ChecksAreFresh ==
    /\ round = 2 => \A c \in Checks : checks[c] = "passed" => c \in green
    /\ round = 2 /\ pc = "statuses" =>
         \A c \in CheckRuns : evidence.results[c] = "passed" => c \in green
    /\ round = 2 /\ pc = "assess" =>
         \A c \in Checks : evidence.results[c] = "passed" => c \in green
    /\ pc \in {"after", "post"} => Required \subseteq green

IInv ==
    /\ TypeOK /\ Shapes /\ Rounds /\ BasesInOrder /\ MergeBaseRead /\ ChecksAreFresh
    /\ ApprovedOnReviewedBase /\ ApprovedOnFreshChecks

-----------------------------------------------------------------------------
(* Base commits are numbers, so that they can be compared.                 *)
LEMMA BasesAreNumbers == Bases \subseteq Nat
  BY ApprovalAssumption, FS_CardinalityType DEF ApprovalAssumption

LEMMA ReadingsAreNumbers ==
    ASSUME TypeOK PROVE base \in Nat /\ evidence.base \in Nat /\ before \in Nat
<1>1. base \in Bases /\ evidence.base \in Bases \cup {0} /\ before \in Bases \cup {0}
  BY DEF TypeOK
<1>2. ASSUME NEW b \in Bases \cup {0} PROVE b \in Nat
  BY BasesAreNumbers
<1> QED
  BY <1>1, <1>2

(* Nothing has been read, and nothing approved.                            *)
LEMMA InitHolds == Init => IInv
<1> SUFFICES ASSUME Init PROVE IInv
  OBVIOUS
<1> USE DEF Init, NoEvidence
<1>1. TypeOK
  <2>1. head \in Heads /\ base \in Bases /\ ready \in BOOLEAN /\ pushes \in 0..MaxPushes
    BY ApprovalAssumption DEF ApprovalAssumption
  <2>2. report.base \in Nat /\ report.sound \in BOOLEAN
    BY ApprovalAssumption DEF ApprovalAssumption
  <2>3. pc \in Places /\ pc # "assess" /\ round \in 1..2
    BY DEF Places, Requests, Reading
  <2>4. evidence.base = 0 /\ before = 0
    OBVIOUS
  <2>5. approvals = {} /\ green = {} /\ artifact = "unassessed" /\ trouble = FALSE
    OBVIOUS
  <2> QED
    BY <2>1, <2>2, <2>3, <2>4, <2>5 DEF TypeOK
<1>2. Shapes /\ Rounds /\ MergeBaseRead /\ ChecksAreFresh
  BY DEF Shapes, Rounds, MergeBaseRead, ChecksAreFresh, Collected
<1>3. BasesInOrder
  BY DEF BasesInOrder
<1>4. ApprovedOnReviewedBase /\ ApprovedOnFreshChecks
  BY DEF ApprovedOnReviewedBase, ApprovedOnFreshChecks
<1> QED
  BY <1>1, <1>2, <1>3, <1>4 DEF IInv

-----------------------------------------------------------------------------
(* The run reads its evidence.                                             *)
LEMMA ReadPullKeeps == ASSUME IInv, ReadPull PROVE IInv'
<1> USE DEF IInv, ReadPull, pull, Refuse
<1>1. TypeOK'
  BY DEF TypeOK, Refuse, NoEvidence, Places, Requests, Reading, Ended
<1>2. Shapes'
  BY DEF Shapes, Refuse, NoEvidence
<1>3. BasesInOrder'
  <2>1. base \in Nat /\ evidence.base <= base
    BY BasesAreNumbers DEF TypeOK, BasesInOrder
  <2>2. evidence'.base = base \/ (evidence' = evidence /\ pc' \in {"failed", "refused"})
    BY DEF Refuse, NoEvidence
  <2>3. round = 2 => before \in Bases /\ before <= base
    BY DEF BasesInOrder
  <2> QED
    BY <2>1, <2>2, <2>3 DEF BasesInOrder, Collected
<1>4. Rounds' /\ MergeBaseRead' /\ ChecksAreFresh' /\ ApprovedOnReviewedBase' /\ ApprovedOnFreshChecks'
  BY DEF Rounds, MergeBaseRead, ChecksAreFresh, ApprovedOnReviewedBase, ApprovedOnFreshChecks, Collected
<1> QED
  BY <1>1, <1>2, <1>3, <1>4

LEMMA CompareKeeps == ASSUME IInv, Compare PROVE IInv'
<1> USE DEF IInv, Compare, pull
<1>1. TypeOK'
  BY DEF TypeOK, Shapes, Places, Requests, Reading, Ended
<1>2. Shapes' /\ Rounds' /\ BasesInOrder' /\ MergeBaseRead' /\ ChecksAreFresh' /\ ApprovedOnReviewedBase' /\ ApprovedOnFreshChecks'
  BY DEF Shapes, Rounds, BasesInOrder, MergeBaseRead, ChecksAreFresh, ApprovedOnReviewedBase, ApprovedOnFreshChecks, Collected
<1> QED
  BY <1>1, <1>2

LEMMA ReadFilesKeeps == ASSUME IInv, ReadFiles PROVE IInv'
<1> USE DEF IInv, ReadFiles, pull
<1>1. TypeOK'
  BY DEF TypeOK, Places, Requests, Reading, Ended
<1>2. Shapes' /\ Rounds' /\ BasesInOrder' /\ MergeBaseRead' /\ ChecksAreFresh' /\ ApprovedOnReviewedBase' /\ ApprovedOnFreshChecks'
  BY DEF Shapes, Rounds, BasesInOrder, MergeBaseRead, ChecksAreFresh, ApprovedOnReviewedBase, ApprovedOnFreshChecks, Collected
<1> QED
  BY <1>1, <1>2

(* A result that is read in the second round passed in it.                 *)
LEMMA ReadRunsKeeps == ASSUME IInv, ReadRuns PROVE IInv'
<1> USE DEF IInv, ReadRuns, pull
<1>1. TypeOK'
  BY DEF TypeOK, Places, Requests, Reading, Ended
<1>2. Shapes'
  BY DEF Shapes, TypeOK, Checks
<1>3. ChecksAreFresh'
  BY DEF ChecksAreFresh, Shapes, Checks
<1>4. Rounds' /\ BasesInOrder' /\ MergeBaseRead' /\ ApprovedOnReviewedBase' /\ ApprovedOnFreshChecks'
  BY DEF Rounds, BasesInOrder, MergeBaseRead, ApprovedOnReviewedBase, ApprovedOnFreshChecks, Collected
<1> QED
  BY <1>1, <1>2, <1>3, <1>4

LEMMA ReadStatusesKeeps == ASSUME IInv, ReadStatuses PROVE IInv'
<1> USE DEF IInv, ReadStatuses, pull
<1>1. TypeOK'
  BY DEF TypeOK, Shapes, Checks, Places, Requests, Reading, Ended
<1>2. ChecksAreFresh'
  BY DEF ChecksAreFresh, Shapes
<1>3. Shapes' /\ Rounds' /\ BasesInOrder' /\ MergeBaseRead' /\ ApprovedOnReviewedBase' /\ ApprovedOnFreshChecks'
  BY DEF Shapes, Rounds, BasesInOrder, MergeBaseRead, ApprovedOnReviewedBase, ApprovedOnFreshChecks, Collected
<1> QED
  BY <1>1, <1>2, <1>3

LEMMA AssessFirstKeeps == ASSUME IInv, AssessFirst PROVE IInv'
<1> USE DEF IInv, AssessFirst, pull
<1>1. TypeOK'
  BY DEF TypeOK, Places, Requests, Reading, Ended
<1>2. Shapes' /\ Rounds' /\ BasesInOrder' /\ MergeBaseRead' /\ ChecksAreFresh' /\ ApprovedOnReviewedBase' /\ ApprovedOnFreshChecks'
  BY DEF Shapes, Rounds, BasesInOrder, MergeBaseRead, ChecksAreFresh, ApprovedOnReviewedBase, ApprovedOnFreshChecks, Collected
<1> QED
  BY <1>1, <1>2

(* The second round begins with what has passed by now.                    *)
LEMMA PublishReviewKeeps == ASSUME IInv, PublishReview PROVE IInv'
<1> USE DEF IInv, PublishReview, pull
<1>1. TypeOK'
  <2>1. round' \in 1..2 /\ artifact' \in {"unassessed", "eligible", "ineligible"}
    BY DEF TypeOK
  <2>2. green' \subseteq Checks /\ trouble' \in BOOLEAN
    BY DEF TypeOK
  <2>3. pc' \in Places /\ pc' # "assess"
    BY DEF Places, Requests, Ended
  <2> QED
    BY <2>1, <2>2, <2>3 DEF TypeOK
<1>2. ApprovedOnFreshChecks'
  BY DEF ApprovedOnFreshChecks, Rounds
<1>3. Shapes' /\ Rounds' /\ BasesInOrder' /\ MergeBaseRead' /\ ChecksAreFresh' /\ ApprovedOnReviewedBase'
  BY DEF Shapes, Rounds, BasesInOrder, MergeBaseRead, ChecksAreFresh, ApprovedOnReviewedBase, Collected
<1> QED
  BY <1>1, <1>2, <1>3

-----------------------------------------------------------------------------
LEMMA ReadBeforeKeeps == ASSUME IInv, ReadBefore PROVE IInv'
<1> USE DEF IInv, ReadBefore, pull, Refuse
<1>1. TypeOK'
  BY DEF TypeOK, Places, Requests, Reading, Ended
<1>2. BasesInOrder'
  BY BasesAreNumbers DEF BasesInOrder, Collected, TypeOK, Rounds
<1>3. Shapes' /\ Rounds' /\ MergeBaseRead' /\ ChecksAreFresh' /\ ApprovedOnReviewedBase' /\ ApprovedOnFreshChecks'
  BY DEF Shapes, Rounds, MergeBaseRead, ChecksAreFresh, ApprovedOnReviewedBase, ApprovedOnFreshChecks, Collected
<1> QED
  BY <1>1, <1>2, <1>3

(* Only evidence of the merge base reviewed, with every required check     *)
(* passed, leads on to the last reading.                                   *)
LEMMA ReassessKeeps == ASSUME IInv, Reassess PROVE IInv'
<1> USE DEF IInv, Reassess, pull, Refuse
<1>1. TypeOK'
  BY DEF TypeOK, Places, Requests, Reading, Ended
<1>2. MergeBaseRead'
  BY DEF MergeBaseRead, Collected, Eligible, Covered
<1>3. ChecksAreFresh'
  <2>1. pc' = "after" => Required \subseteq green
    <3> SUFFICES ASSUME Eligible, NEW c \in Required PROVE c \in green
      OBVIOUS
    <3>1. c \in Checks /\ evidence.results[c] = "passed"
      BY DEF Eligible, ChecksPass, Listed
    <3> QED
      BY <3>1 DEF ChecksAreFresh
  <2> QED
    BY <2>1 DEF ChecksAreFresh
<1>4. Shapes' /\ Rounds' /\ BasesInOrder' /\ ApprovedOnReviewedBase' /\ ApprovedOnFreshChecks'
  BY DEF Shapes, Rounds, BasesInOrder, ApprovedOnReviewedBase, ApprovedOnFreshChecks, Collected
<1> QED
  BY <1>1, <1>2, <1>3, <1>4

(* The base read last is the first one, so the one in between was, too.    *)
LEMMA ReadAfterKeeps == ASSUME IInv, ReadAfter PROVE IInv'
<1> USE DEF IInv, ReadAfter, pull, Refuse
<1>1. TypeOK'
  BY DEF TypeOK, Places, Requests, Reading, Ended
<1>2. MergeBaseRead'
  <2>1. pc' = "post" => before = evidence.base
    <3>1. base \in Nat /\ evidence.base \in Nat
      BY ReadingsAreNumbers
    <3> QED
      BY <3>1 DEF BasesInOrder, Collected, Rounds
  <2> QED
    BY <2>1 DEF MergeBaseRead, Collected
<1>3. Shapes' /\ Rounds' /\ BasesInOrder' /\ ChecksAreFresh' /\ ApprovedOnReviewedBase' /\ ApprovedOnFreshChecks'
  BY DEF Shapes, Rounds, BasesInOrder, ChecksAreFresh, ApprovedOnReviewedBase, ApprovedOnFreshChecks, Collected
<1> QED
  BY <1>1, <1>2, <1>3

LEMMA PostKeeps == ASSUME IInv, Post PROVE IInv'
<1> USE DEF IInv, Post, pull
<1>1. TypeOK'
  BY DEF TypeOK, BasesInOrder, Rounds, Places, Requests, Reading, Ended
<1>2. Rounds'
  BY DEF Rounds
<1>3. ApprovedOnReviewedBase'
  BY DEF ApprovedOnReviewedBase, MergeBaseRead
<1>4. ApprovedOnFreshChecks'
  BY DEF ApprovedOnFreshChecks, ChecksAreFresh
<1>5. Shapes' /\ BasesInOrder' /\ MergeBaseRead' /\ ChecksAreFresh'
  BY DEF Shapes, BasesInOrder, MergeBaseRead, ChecksAreFresh, Collected
<1> QED
  BY <1>1, <1>2, <1>3, <1>4, <1>5

LEMMA RecordRefusalKeeps == ASSUME IInv, RecordRefusal PROVE IInv'
<1> USE DEF IInv, RecordRefusal, pull
<1>1. TypeOK'
  BY DEF TypeOK, Places, Requests, Reading, Ended
<1>2. Shapes' /\ Rounds' /\ BasesInOrder' /\ MergeBaseRead' /\ ChecksAreFresh' /\ ApprovedOnReviewedBase' /\ ApprovedOnFreshChecks'
  BY DEF Shapes, Rounds, BasesInOrder, MergeBaseRead, ChecksAreFresh, ApprovedOnReviewedBase, ApprovedOnFreshChecks, Collected
<1> QED
  BY <1>1, <1>2

LEMMA RequestFailsKeeps == ASSUME IInv, RequestFails PROVE IInv'
<1> USE DEF IInv, RequestFails, pull, Refuse
<1>1. TypeOK'
  BY DEF TypeOK, Places, Requests, Reading, Ended
<1>2. Shapes' /\ Rounds' /\ BasesInOrder' /\ MergeBaseRead' /\ ChecksAreFresh' /\ ApprovedOnReviewedBase' /\ ApprovedOnFreshChecks'
  BY DEF Shapes, Rounds, BasesInOrder, MergeBaseRead, ChecksAreFresh, ApprovedOnReviewedBase, ApprovedOnFreshChecks, Collected
<1> QED
  BY <1>1, <1>2

LEMMA StopKeeps == ASSUME IInv, Stop PROVE IInv'
<1> USE DEF IInv, Stop, pull
<1>1. TypeOK'
  BY DEF TypeOK, Places, Requests, Reading, Ended
<1>2. Shapes' /\ Rounds' /\ BasesInOrder' /\ MergeBaseRead' /\ ChecksAreFresh' /\ ApprovedOnReviewedBase' /\ ApprovedOnFreshChecks'
  BY DEF Shapes, Rounds, BasesInOrder, MergeBaseRead, ChecksAreFresh, ApprovedOnReviewedBase, ApprovedOnFreshChecks, Collected
<1> QED
  BY <1>1, <1>2

-----------------------------------------------------------------------------
(* The pull request moves under the run.                                   *)
LEMMA PushKeeps == ASSUME IInv, Push PROVE IInv'
<1> USE DEF IInv, Push, observer
<1>1. TypeOK'
  <2>1. pushes' \in 0..MaxPushes
    BY ApprovalAssumption DEF ApprovalAssumption, TypeOK
  <2>2. head' \in Heads
    OBVIOUS
  <2> QED
    BY <2>1, <2>2 DEF TypeOK
<1>2. Shapes' /\ Rounds' /\ BasesInOrder' /\ MergeBaseRead' /\ ChecksAreFresh' /\ ApprovedOnReviewedBase' /\ ApprovedOnFreshChecks'
  BY DEF Shapes, Rounds, BasesInOrder, MergeBaseRead, ChecksAreFresh, ApprovedOnReviewedBase, ApprovedOnFreshChecks, Collected
<1> QED
  BY <1>1, <1>2

LEMMA AdvanceBaseKeeps == ASSUME IInv, AdvanceBase PROVE IInv'
<1> USE DEF IInv, AdvanceBase, observer
<1>1. TypeOK'
  BY DEF TypeOK
<1>2. BasesInOrder'
  <2>1. /\ base \in Nat /\ base' = base + 1 /\ evidence.base \in Nat
        /\ before \in Nat
    BY ReadingsAreNumbers
  <2> QED
    BY <2>1 DEF BasesInOrder
<1>3. Shapes' /\ Rounds' /\ MergeBaseRead' /\ ChecksAreFresh' /\ ApprovedOnReviewedBase' /\ ApprovedOnFreshChecks'
  BY DEF Shapes, Rounds, MergeBaseRead, ChecksAreFresh, ApprovedOnReviewedBase, ApprovedOnFreshChecks, Collected
<1> QED
  BY <1>1, <1>2, <1>3

LEMMA ChangeReadyKeeps == ASSUME IInv, ChangeReady PROVE IInv'
<1> USE DEF IInv, ChangeReady, observer
<1>1. TypeOK' /\ Shapes' /\ Rounds' /\ BasesInOrder' /\ MergeBaseRead' /\ ChecksAreFresh' /\ ApprovedOnReviewedBase' /\ ApprovedOnFreshChecks'
  BY DEF TypeOK, Shapes, Rounds, BasesInOrder, MergeBaseRead, ChecksAreFresh, ApprovedOnReviewedBase, ApprovedOnFreshChecks, Collected
<1> QED
  BY <1>1

(* A check that passes in the second round is noted when it does.          *)
LEMMA ChangeCheckKeeps == ASSUME IInv, NEW c \in Checks, ChangeCheck(c) PROVE IInv'
<1> USE DEF IInv, ChangeCheck, observer
<1>1. TypeOK'
  <2>1. checks' \in [Checks -> CheckStates]
    BY DEF TypeOK
  <2>2. green' \subseteq Checks
    BY DEF TypeOK
  <2> QED
    BY <2>1, <2>2 DEF TypeOK
<1>2. ChecksAreFresh'
  <2>1. green \subseteq green'
    OBVIOUS
  <2>2. round = 2 => \A d \in Checks : checks'[d] = "passed" => d \in green'
    BY DEF TypeOK, ChecksAreFresh
  <2> QED
    BY <2>1, <2>2 DEF ChecksAreFresh
<1>3. ApprovedOnFreshChecks'
  BY DEF ApprovedOnFreshChecks
<1>4. Shapes' /\ Rounds' /\ BasesInOrder' /\ MergeBaseRead' /\ ApprovedOnReviewedBase'
  BY DEF Shapes, Rounds, BasesInOrder, MergeBaseRead, ApprovedOnReviewedBase, Collected
<1> QED
  BY <1>1, <1>2, <1>3, <1>4

LEMMA AgeKeeps == ASSUME IInv, Age PROVE IInv'
<1>0. /\ report'.base = report.base /\ report'.sound = FALSE
      /\ DOMAIN report' = DOMAIN report
  BY DEF IInv, Age, Shapes
<1>u. UNCHANGED <<head, base, ready, checks, pushes, pc, round, evidence, before, artifact,
                  approvals, green, trouble>>
  BY DEF Age, pull
<1> USE <1>u DEF IInv
<1>1. TypeOK'
  BY <1>0 DEF TypeOK
<1>2. Shapes'
  BY <1>0 DEF Shapes
<1>3. MergeBaseRead'
  BY <1>0 DEF MergeBaseRead
<1>4. ApprovedOnReviewedBase'
  BY <1>0 DEF ApprovedOnReviewedBase
<1>5. Rounds' /\ BasesInOrder' /\ ChecksAreFresh' /\ ApprovedOnFreshChecks'
  BY DEF Rounds, BasesInOrder, ChecksAreFresh, ApprovedOnFreshChecks, Collected
<1> QED
  BY <1>1, <1>2, <1>3, <1>4, <1>5

-----------------------------------------------------------------------------
LEMMA NextKeeps == IInv /\ [Next]_vars => IInv'
<1> SUFFICES ASSUME IInv, [Next]_vars PROVE IInv'
  OBVIOUS
<1>1. CASE Run
  BY <1>1, ReadPullKeeps, CompareKeeps, ReadFilesKeeps, ReadRunsKeeps, ReadStatusesKeeps,
     AssessFirstKeeps, PublishReviewKeeps, ReadBeforeKeeps, ReassessKeeps, ReadAfterKeeps,
     PostKeeps, RecordRefusalKeeps, RequestFailsKeeps, StopKeeps DEF Run
<1>2. CASE World
  BY <1>2, PushKeeps, AdvanceBaseKeeps, ChangeReadyKeeps, ChangeCheckKeeps, AgeKeeps DEF World
<1>3. CASE UNCHANGED vars
  <2> USE <1>3 DEF vars, pull, IInv
  <2>1. TypeOK' /\ Shapes' /\ Rounds' /\ BasesInOrder'
    BY DEF TypeOK, Shapes, Rounds, BasesInOrder
  <2>2. MergeBaseRead' /\ ChecksAreFresh' /\ ApprovedOnReviewedBase' /\ ApprovedOnFreshChecks'
    BY DEF MergeBaseRead, ChecksAreFresh, ApprovedOnReviewedBase, ApprovedOnFreshChecks
  <2> QED
    BY <2>1, <2>2
<1> QED
  BY <1>1, <1>2, <1>3 DEF Next

(* The inductive invariant of an approval in progress.                     *)
THEOREM ApprovalInvariant == Spec => []IInv
<1>1. Init => IInv
  BY InitHolds
<1>2. IInv /\ [Next]_vars => IInv'
  BY NextKeeps
<1> QED
  BY <1>1, <1>2, PTL DEF Spec

(* Every state of an approval in progress is well typed.                   *)
THEOREM ApprovalTypeCorrect == Spec => []TypeOK
<1>1. IInv => TypeOK
  BY DEF IInv
<1> QED
  BY <1>1, ApprovalInvariant, PTL

(* docs/merge-confidence.md:143: an approval rests on the merge base that  *)
(* was reviewed, although any of the requests may see another base.        *)
THEOREM BaseIsTheReviewedOne == Spec => []ApprovedOnReviewedBase
<1>1. IInv => ApprovedOnReviewedBase
  BY DEF IInv
<1> QED
  BY <1>1, ApprovalInvariant, PTL

(* docs/merge-confidence.md:225: every required check of an approved       *)
(* commit has passed since the review was published.                       *)
THEOREM ChecksPassedAgain == Spec => []ApprovedOnFreshChecks
<1>1. IInv => ApprovedOnFreshChecks
  BY DEF IInv
<1> QED
  BY <1>1, ApprovalInvariant, PTL

(* docs/merge-confidence.md:143, :225: an approval rests on the reviewed   *)
(* merge base and on checks that passed again.                             *)
THEOREM ApprovalRestsOnEvidence == Spec => []ApprovedOnEvidence
<1>1. ApprovedOnReviewedBase /\ ApprovedOnFreshChecks => ApprovedOnEvidence
  BY DEF ApprovedOnEvidence
<1> QED
  BY <1>1, BaseIsTheReviewedOne, ChecksPassedAgain, PTL

-----------------------------------------------------------------------------
(* The files: what the report covers, counted and listed.                  *)
Whole(b) ==
    /\ report.screened = Changed(b, Reviewed)
    /\ pushes = 0 => Unsupported[Reviewed] \cap report.screened = {}

FilesCounted ==
    /\ \E b \in Bases : /\ report.base = MergeBase[b][Reviewed]
                        /\ report.screened \subseteq Changed(b, Reviewed)
    /\ pushes = 0 => head = Reviewed
    /\ pc \in Collected => evidence.count = Cardinality(Changed(evidence.base, Reviewed))
    /\ pc \in Collected \ {"compare", "files"} /\ evidence.patched /\ pushes = 0 =>
         evidence.files \cap Unsupported[Reviewed] = {}
    /\ pc = "after" => Whole(evidence.base)
    /\ pc = "post" => Whole(before)
    /\ \A b \in approvals : Whole(b)

(* Eligible evidence lists just the files that the reviewed head changes:  *)
(* three counts agree, and each set is part of the next.                   *)
LEMMA CoveredIsWhole ==
    ASSUME IInv, FilesCounted, pc = "assess", Covered
    PROVE  Whole(evidence.base)
<1>1. PICK b \in Bases : /\ report.base = MergeBase[b][Reviewed]
                         /\ report.screened \subseteq Changed(b, Reviewed)
  BY DEF FilesCounted
<1>2. IsFiniteSet(Changed(b, Reviewed))
  BY ApprovalAssumption DEF ApprovalAssumption, Changed
<1>3. Changed(evidence.base, Reviewed) = Changed(b, Reviewed)
  BY <1>1 DEF Covered, IInv, MergeBaseRead, Collected, Changed
<1>4. /\ evidence.files \subseteq report.screened
      /\ Cardinality(evidence.files) = Cardinality(report.screened)
      /\ Cardinality(evidence.files) = Cardinality(Changed(evidence.base, Reviewed))
      /\ evidence.patched
  BY DEF Covered, FilesCounted, Collected
<1>5. IsFiniteSet(report.screened)
  BY <1>1, <1>2, FS_Subset
<1>6. evidence.files = report.screened
  BY <1>4, <1>5, FS_Subset
<1>7. report.screened = Changed(evidence.base, Reviewed)
  BY <1>1, <1>2, <1>3, <1>4, FS_Subset
<1>8. pushes = 0 => Unsupported[Reviewed] \cap report.screened = {}
  BY <1>4, <1>6 DEF FilesCounted, Collected
<1> QED
  BY <1>7, <1>8 DEF Whole

(* What is reviewed stays what it was; only a push changes the head.       *)
LEMMA ScopeStays ==
    ASSUME IInv, [Next]_vars
    PROVE  /\ report'.base = report.base /\ report'.screened = report.screened
           /\ Push \/ (head' = head /\ pushes' = pushes)
<1>1. CASE Age
  BY <1>1 DEF Age, pull, IInv, Shapes
<1>2. CASE ~Age
  BY <1>2 DEF Next, Run, World, vars, pull, observer, ReadPull, Compare, ReadFiles, ReadRuns,
     ReadStatuses, AssessFirst, PublishReview, ReadBefore, Reassess, ReadAfter, Post,
     RecordRefusal, RequestFails, Stop, Push, AdvanceBase, ChangeReady, ChangeCheck
<1> QED
  BY <1>1, <1>2

LEMMA FilesStayCounted == IInv /\ FilesCounted /\ [Next]_vars => FilesCounted'
<1> SUFFICES ASSUME IInv, FilesCounted, [Next]_vars PROVE FilesCounted'
  OBVIOUS
<1>1. /\ report'.base = report.base /\ report'.screened = report.screened
      /\ Push \/ (head' = head /\ pushes' = pushes)
  BY ScopeStays
<1>2. pushes \in Nat
  BY ApprovalAssumption DEF ApprovalAssumption, IInv, TypeOK
<1>3. pushes' = 0 => pushes = 0 /\ head' = head /\ head = Reviewed
  BY <1>1, <1>2 DEF Push, FilesCounted
<1>4. \E b \in Bases : /\ report'.base = MergeBase[b][Reviewed]
                       /\ report'.screened \subseteq Changed(b, Reviewed)
  BY <1>1 DEF FilesCounted
<1>5. \A b : Whole(b) => /\ report'.screened = Changed(b, Reviewed)
                         /\ pushes' = 0 => Unsupported[Reviewed] \cap report'.screened = {}
  BY <1>1, <1>3 DEF Whole
<1>6. CASE UNCHANGED <<pc, evidence, before, approvals>>
  BY <1>3, <1>4, <1>5, <1>6 DEF FilesCounted, Whole
<1>7. CASE ReadPull
  <2>1. \/ /\ pc' = "compare" /\ evidence'.count = Cardinality(Changed(base, Reviewed))
           /\ evidence'.base = base
        \/ pc' \in {"failed", "refused"}
    BY <1>7 DEF ReadPull, Current, Refuse, NoEvidence
  <2>2. UNCHANGED approvals
    BY <1>7 DEF ReadPull
  <2> QED
    BY <1>3, <1>4, <1>5, <2>1, <2>2 DEF FilesCounted, Whole, Collected
<1>8. CASE Compare
  <2>1. /\ pc = "compare" /\ pc' = "files" /\ UNCHANGED approvals
        /\ evidence'.count = evidence.count /\ evidence'.base = evidence.base
    BY <1>8 DEF Compare, IInv, Shapes
  <2> QED
    BY <1>3, <1>4, <1>5, <2>1 DEF FilesCounted, Whole, Collected
<1>9. CASE ReadFiles
  <2>1. /\ pc = "files" /\ pc' = "runs" /\ UNCHANGED approvals
        /\ evidence'.count = evidence.count /\ evidence'.base = evidence.base
        /\ evidence'.patched => evidence'.files \cap Unsupported[head] = {}
    BY <1>9 DEF ReadFiles, IInv, Shapes
  <2> QED
    BY <1>3, <1>4, <1>5, <2>1 DEF FilesCounted, Whole, Collected
<1>10. CASE ReadRuns \/ ReadStatuses
  <2>1. /\ pc \in {"runs", "statuses"} /\ pc' \in {"statuses", "assess"} /\ UNCHANGED approvals
        /\ evidence'.count = evidence.count /\ evidence'.base = evidence.base
        /\ evidence'.patched = evidence.patched /\ evidence'.files = evidence.files
    BY <1>10 DEF ReadRuns, ReadStatuses, IInv, Shapes
  <2> QED
    BY <1>3, <1>4, <1>5, <2>1 DEF FilesCounted, Whole, Collected
<1>11. CASE Reassess
  <2>1. /\ pc = "assess" /\ UNCHANGED <<evidence, approvals>>
        /\ (pc' = "after" /\ Covered) \/ pc' \in {"failed", "refused"}
    BY <1>11 DEF Reassess, Refuse, Eligible
  <2>2. pc' = "after" => Whole(evidence.base)
    BY <2>1, CoveredIsWhole
  <2> QED
    BY <1>3, <1>4, <1>5, <2>1, <2>2 DEF FilesCounted, Whole, Collected
<1>12. CASE ReadAfter
  <2>1. /\ pc = "after" /\ UNCHANGED <<before, approvals>>
        /\ (pc' = "post" /\ base = before) \/ pc' \in {"failed", "refused"}
    BY <1>12 DEF ReadAfter, Refuse
  <2>2. pc' = "post" => before = evidence.base
    <3>1. base \in Nat /\ evidence.base \in Nat
      BY ReadingsAreNumbers DEF IInv
    <3> QED
      BY <2>1, <3>1 DEF IInv, BasesInOrder, Collected, Rounds
  <2> QED
    BY <1>3, <1>4, <1>5, <2>1, <2>2 DEF FilesCounted, Whole, Collected
<1>13. CASE Post
  <2>1. /\ pc = "post" /\ approvals' = approvals \cup {before} /\ pc' \in {"approved", "refused"}
    BY <1>13 DEF Post
  <2> QED
    BY <1>3, <1>4, <1>5, <2>1 DEF FilesCounted, Whole, Collected
<1>14. CASE AssessFirst \/ PublishReview \/ ReadBefore \/ RecordRefusal \/ RequestFails \/ Stop
  <2>1. /\ UNCHANGED approvals
        /\ pc' \in {"publish", "before", "rejected", "withheld", "pull", "failed", "refused",
                    "unconfirmed", "killed"}
    BY <1>14 DEF AssessFirst, PublishReview, ReadBefore, RecordRefusal, RequestFails, Stop, Refuse
  <2> QED
    BY <1>3, <1>4, <1>5, <2>1 DEF FilesCounted, Whole, Collected
<1>15. World \/ UNCHANGED vars => UNCHANGED <<pc, evidence, before, approvals>>
  BY DEF World, Push, AdvanceBase, ChangeReady, ChangeCheck, Age, vars, pull, observer
<1> QED
  BY <1>6, <1>7, <1>8, <1>9, <1>10, <1>11, <1>12, <1>13, <1>14, <1>15 DEF Next, Run

(* approval.rs:203-234: an approved commit was reviewed whole, every file   *)
(* it changes screened and, unless the head moved, with a textual patch,    *)
(* although the listing may be cut short and the head may move meanwhile.   *)
THEOREM ApprovedCommitWasCovered == Spec => []ApprovedWasCovered
<1>1. Init => FilesCounted
  <2> SUFFICES ASSUME Init PROVE FilesCounted
    OBVIOUS
  <2>1. \E b \in Bases : /\ report.base = MergeBase[b][Reviewed]
                         /\ report.screened \subseteq Changed(b, Reviewed)
    BY DEF Init
  <2> QED
    BY <2>1 DEF Init, FilesCounted, Collected
<1>2. FilesCounted => ApprovedWasCovered
  BY DEF FilesCounted, Whole, ApprovedWasCovered
<1> QED
  BY <1>1, <1>2, FilesStayCounted, ApprovalInvariant, PTL DEF Spec

-----------------------------------------------------------------------------
(* Until the second round ends, the artifact keeps the first decision.     *)
Recorded ==
    /\ round = 2 /\ pc \notin Ended => artifact = "eligible"
    /\ pc = "refused" => round = 2
    /\ ArtifactTellsOutcome

LEMMA RecordStays == IInv /\ Recorded /\ [Next]_vars => Recorded'
<1> SUFFICES ASSUME IInv, Recorded, [Next]_vars PROVE Recorded'
  OBVIOUS
<1>1. round \in 1..2 /\ (pc \in {"before", "after", "post"} => round = 2)
  BY DEF IInv, TypeOK, Rounds
<1>2. CASE UNCHANGED <<pc, round, artifact>>
  BY <1>2 DEF Recorded, ArtifactTellsOutcome
<1>3. CASE ReadPull \/ Compare \/ ReadFiles \/ ReadRuns \/ ReadStatuses \/ ReadBefore
           \/ Reassess \/ ReadAfter \/ RequestFails
  <2>1. /\ pc \in Requests \cup {"assess"} /\ UNCHANGED <<round, artifact>>
        /\ \/ pc' \in Requests \cup {"assess"}
           \/ pc' = IF round = 1 THEN "failed" ELSE "refused"
    BY <1>3 DEF ReadPull, Compare, ReadFiles, ReadRuns, ReadStatuses, ReadBefore, Reassess,
       ReadAfter, RequestFails, Refuse, Requests, Reading
  <2> QED
    BY <1>1, <2>1 DEF Recorded, ArtifactTellsOutcome, Requests, Reading, Ended
<1>4. CASE Post \/ RecordRefusal \/ Stop
  BY <1>1, <1>4 DEF Post, RecordRefusal, Stop, Recorded, ArtifactTellsOutcome, Ended
<1>5. CASE AssessFirst \/ PublishReview
  BY <1>1, <1>5 DEF AssessFirst, PublishReview, Recorded, ArtifactTellsOutcome, Ended, IInv, Rounds
<1>6. World \/ UNCHANGED vars => UNCHANGED <<pc, round, artifact>>
  BY DEF World, Push, AdvanceBase, ChangeReady, ChangeCheck, Age, vars, pull, observer
<1> QED
  BY <1>2, <1>3, <1>4, <1>5, <1>6 DEF Next, Run

(* mod.rs:631-671: a run that ended by itself after publishing says         *)
(* "eligible" in its artifact exactly when GitHub confirmed the approval.   *)
THEOREM ArtifactIsHonest == Spec => []ArtifactTellsOutcome
<1>1. Init => Recorded
  BY DEF Init, Recorded, ArtifactTellsOutcome
<1>2. Recorded => ArtifactTellsOutcome
  BY DEF Recorded
<1> QED
  BY <1>1, <1>2, RecordStays, ApprovalInvariant, PTL DEF Spec
-----------------------------------------------------------------------------
(* The outcome history that a decision rests on (module Outcomes).  What   *)
(* the world shows is never taken back, and what it shows later carries a  *)
(* later time; so a history is at most incomplete, and only of what was    *)
(* not in when it was exported.                                            *)

Watched ==
    /\ now \in Nat \ {0}
    /\ \A h \in DOMAIN captured : captured[h].at \in 0..now
    /\ \A h \in DOMAIN merged :
         /\ h \in DOMAIN captured /\ merged[h].at \in 1..now
         /\ captured[h].at <= merged[h].at
         /\ merged[h].receipt \in Nat /\ merged[h].at <= merged[h].receipt
    /\ (DOMAIN labels) \subseteq (DOMAIN merged) \X Kinds
    /\ \A h \in DOMAIN merged, k \in Kinds : <<h, k>> \in DOMAIN labels =>
         /\ labels[<<h, k>>].at \in merged[h].at..now
         /\ labels[<<h, k>>].available \in Nat
         /\ labels[<<h, k>>].at <= labels[<<h, k>>].available
         /\ IF labels[<<h, k>>].occurred THEN labels[<<h, k>>].at <= Matures(h, k)
            ELSE labels[<<h, k>>].at >= Matures(h, k)

Seen(h, k) == [occurred |-> labels[<<h, k>>].occurred, at |-> labels[<<h, k>>].at]

\* In time for an export as of some time: a merge's own label, watched out.
InTime(h, k, asOf) ==
    /\ <<h, k>> \in DOMAIN labels
    /\ labels[<<h, k>>].available <= Boundary(h, asOf)
    /\ Matures(h, k) <= Boundary(h, asOf)

\* A record says what was seen.
TrueRecord(rec, asOf) ==
    /\ rec.head \in DOMAIN merged
    /\ rec.mergedAt = merged[rec.head].at /\ rec.recordedAt = captured[rec.head].at
    /\ rec.risk = captured[rec.head].risk
    /\ merged[rec.head].at <= asOf /\ merged[rec.head].receipt <= asOf
    /\ \A k \in Kinds : rec.labels[k] # Unknown =>
         InTime(rec.head, k, asOf) /\ rec.labels[k] = Seen(rec.head, k)

\* What was in at the export is there, if it may train.
Remembered(h) ==
    merged[h].at < Cutoff /\ merged[h].receipt <= history.asOf =>
        \E rec \in history.records :
            /\ rec.head = h
            /\ \A k \in Kinds : InTime(h, k, history.asOf) => rec.labels[k] = Seen(h, k)

Filed ==
    history # NoHistory =>
        /\ history.asOf \in Nat /\ Cutoff < history.asOf /\ history.asOf <= now
        /\ \A r, s \in history.records : r.head = s.head => r = s
        /\ \A rec \in history.records : TrueRecord(rec, history.asOf)
        /\ \A h \in DOMAIN merged : Remembered(h)

(* The world goes on: nothing that was seen changes.                       *)
Grows ==
    /\ \A h \in DOMAIN captured : h \in DOMAIN captured' /\ captured'[h] = captured[h]
    /\ \A h \in DOMAIN merged : h \in DOMAIN merged' /\ merged'[h] = merged[h]
    /\ \A hk \in DOMAIN labels : hk \in DOMAIN labels' /\ labels'[hk] = labels[hk]
    /\ \A h \in DOMAIN merged' \ DOMAIN merged : merged'[h].at = now
    /\ \A hk \in DOMAIN labels' \ DOMAIN labels : labels'[hk].available >= now
    /\ now' >= now

LEMMA WorldGrows ==
    ASSUME Watched, [HistoryNext]_historyVars
    PROVE  Watched' /\ Grows
<1> USE OutcomesAssumption DEF Configured
<1>1. CASE Tick
  BY <1>1 DEF Tick, Watched, Grows, Matures
<1>2. ASSUME NEW h \in Merges, NEW r \in Reports, Capture(h, r) PROVE Watched' /\ Grows
  BY <1>2 DEF Capture, Add, Watched, Grows, Matures
<1>3. ASSUME NEW h \in Merges, Merge(h) PROVE Watched' /\ Grows
  <2>1. PICK receipt \in now..(now + MaxDelay) :
          merged' = Add(merged, h, [at |-> now, receipt |-> receipt])
    BY <1>3 DEF Merge
  <2>2. /\ DOMAIN merged' = DOMAIN merged \cup {h} /\ h \notin DOMAIN merged
        /\ \A g \in DOMAIN merged : merged'[g] = merged[g]
        /\ merged'[h].at = now /\ merged'[h].receipt = receipt
        /\ h \in DOMAIN captured /\ UNCHANGED <<now, captured, labels>>
    BY <1>3, <2>1 DEF Merge, Add
  <2>3. Watched'
    BY <2>2 DEF Watched, Matures
  <2>4. Grows
    BY <2>2 DEF Grows, Watched
  <2> QED
    BY <2>3, <2>4
<1>4. ASSUME NEW h \in Merges, NEW k \in Kinds, NEW occurred \in BOOLEAN, Observe(h, k, occurred)
      PROVE  Watched' /\ Grows
  <2>1. PICK available \in now..(now + MaxDelay) :
          labels' = Add(labels, <<h, k>>,
                          [occurred |-> occurred, at |-> now, available |-> available])
    BY <1>4 DEF Observe
  <2>2. /\ DOMAIN labels' = DOMAIN labels \cup {<<h, k>>} /\ <<h, k>> \notin DOMAIN labels
        /\ \A hk \in DOMAIN labels : labels'[hk] = labels[hk]
        /\ labels'[<<h, k>>].at = now /\ labels'[<<h, k>>].available = available
        /\ labels'[<<h, k>>].occurred = occurred
        /\ h \in DOMAIN merged /\ UNCHANGED <<now, captured, merged>>
    BY <1>4, <2>1 DEF Observe, Add
  <2>3. /\ Window[k] \in Nat
        /\ IF occurred THEN now <= Matures(h, k) ELSE now >= Matures(h, k)
    <3>1. Window[k] \in Nat
      OBVIOUS
    <3>2. merged[h].at \in Nat
      BY <2>2 DEF Watched
    <3>3. Matures(h, k) \in Nat
      BY <3>1, <3>2 DEF Matures
    <3> QED
      BY <1>4, <3>1, <3>3 DEF Observe, Watched
  <2>4. Watched'
    BY <2>1, <2>2, <2>3 DEF Watched, Matures
  <2>5. Grows
    BY <2>1, <2>2 DEF Grows, Watched
  <2> QED
    BY <2>4, <2>5
<1>5. CASE (\E asOf \in 0..MaxTime : Export(asOf)) \/ UNCHANGED historyVars
  BY <1>5 DEF Export, historyVars, Watched, Grows, Matures
<1> QED
  BY <1>1, <1>2, <1>3, <1>4, <1>5 DEF HistoryNext

(* An export reads what is there, all of it.                               *)
Full(hist) ==
    \A h \in DOMAIN merged : merged[h].at <= hist.asOf /\ merged[h].receipt <= hist.asOf =>
        \E rec \in hist.records :
            /\ rec.head = h
            /\ \A k \in Kinds : InTime(h, k, hist.asOf) => rec.labels[k] = Seen(h, k)

LEMMA ExportIsTrue ==
    ASSUME Watched, NEW asOf \in 0..MaxTime, Export(asOf)
    PROVE  Filed' /\ Full(history')
<1> USE OutcomesAssumption DEF Configured
<1> DEFINE record(h) == [head |-> h, mergedAt |-> merged[h].at,
                         recordedAt |-> captured[h].at, risk |-> captured[h].risk,
                         labels |-> [k \in Kinds |-> Exported(h, k, asOf)]]
<1>1. /\ Cutoff < asOf /\ asOf <= now /\ asOf \in Nat
      /\ UNCHANGED <<now, captured, merged, labels>>
      /\ history'.asOf = asOf /\ history'.records = {record(h) : h \in Joined(asOf)}
  BY DEF Export
<1>2. \A h \in DOMAIN merged, k \in Kinds :
        /\ InTime(h, k, asOf) => Exported(h, k, asOf) = Seen(h, k)
        /\ ~InTime(h, k, asOf) => Exported(h, k, asOf) = Unknown
  <2> SUFFICES ASSUME NEW h \in DOMAIN merged, NEW k \in Kinds
               PROVE  /\ InTime(h, k, asOf) => Exported(h, k, asOf) = Seen(h, k)
                      /\ ~InTime(h, k, asOf) => Exported(h, k, asOf) = Unknown
    OBVIOUS
  <2>1. Boundary(h, asOf) \in Nat /\ Boundary(h, asOf) <= now
    BY <1>1 DEF Boundary, Watched
  <2>2. InTime(h, k, asOf) => <<h, k>> \in Supplied
    BY <2>1 DEF InTime, Supplied, Watched
  <2>3. <<h, k>> \in Supplied => <<h, k>> \in DOMAIN labels
    BY DEF Supplied
  <2> QED
    BY <2>2, <2>3 DEF InTime, Exported, Seen
<1>3. \A h : h \in Joined(asOf) <=>
        h \in DOMAIN merged /\ merged[h].at <= asOf /\ merged[h].receipt <= asOf
  BY <1>1 DEF Joined, KnownMerges, Watched
<1>4. \A h \in Joined(asOf) : TrueRecord(record(h), asOf)
  BY <1>2, <1>3 DEF TrueRecord
<1>5. \A rec \in history'.records : TrueRecord(rec, asOf)
  BY <1>1, <1>4
<1>6. Full(history')
  <2> SUFFICES ASSUME NEW h \in DOMAIN merged, merged[h].at <= asOf, merged[h].receipt <= asOf
               PROVE  \E rec \in history'.records :
                 rec.head = h /\ \A k \in Kinds : InTime(h, k, asOf) => rec.labels[k] = Seen(h, k)
    BY <1>1 DEF Full
  <2>1. h \in Joined(asOf)
    BY <1>3
  <2>2. record(h) \in history'.records /\ record(h).head = h
    BY <1>1, <2>1
  <2>3. \A k \in Kinds : InTime(h, k, asOf) => record(h).labels[k] = Seen(h, k)
    BY <1>2
  <2> HIDE DEF record
  <2> QED
    BY <2>2, <2>3
<1>7. \A r, s \in history'.records : r.head = s.head => r = s
  BY <1>1
<1> HIDE DEF record
<1>8. ASSUME NEW h \in DOMAIN merged PROVE Remembered(h)'
  <2>1. merged[h].at < Cutoff => merged[h].at <= asOf
    BY <1>1 DEF Watched
  <2> QED
    BY <1>1, <1>6, <2>1 DEF Full, Remembered, InTime, Seen, Boundary, Matures
<1> QED
  BY <1>1, <1>5, <1>6, <1>7, <1>8 DEF Filed, TrueRecord, InTime, Seen, Boundary, Matures

LEMMA HistoryStays ==
    ASSUME Watched, Filed, [HistoryNext]_historyVars
    PROVE  Filed'
<1> USE OutcomesAssumption DEF Configured
<1>1. CASE \E asOf \in 0..MaxTime : Export(asOf)
  BY <1>1, ExportIsTrue
<1>2. CASE history' = history /\ history # NoHistory
  <2>1. Grows /\ Watched'
    BY WorldGrows
  <2>2. /\ history.asOf \in Nat /\ Cutoff < history.asOf /\ history.asOf <= now /\ now' >= now
        /\ now \in Nat /\ now' \in Nat
    BY <1>2, <2>1 DEF Filed, Watched, Grows
  <2>3. ASSUME NEW rec \in history.records PROVE TrueRecord(rec, history.asOf)'
    <3>1. TrueRecord(rec, history.asOf)
      BY <1>2 DEF Filed
    <3>2. \A k \in Kinds : InTime(rec.head, k, history.asOf) =>
            InTime(rec.head, k, history.asOf)' /\ Seen(rec.head, k)' = Seen(rec.head, k)
      BY <1>2, <2>1, <3>1 DEF Grows, InTime, Seen, TrueRecord, Boundary, Matures
    <3>3. merged'[rec.head] = merged[rec.head] /\ captured'[rec.head] = captured[rec.head]
          /\ rec.head \in DOMAIN merged'
      BY <2>1, <3>1 DEF Grows, TrueRecord, Watched
    <3> QED
      BY <1>2, <3>1, <3>2, <3>3 DEF TrueRecord
  <2>4. ASSUME NEW h \in DOMAIN merged' PROVE Remembered(h)'
    <3>1. CASE h \notin DOMAIN merged
      BY <1>2, <2>1, <2>2, <3>1 DEF Grows, Remembered
    <3>2. CASE h \in DOMAIN merged /\ merged[h].at < Cutoff /\ merged[h].receipt <= history.asOf
      <4>1. PICK rec \in history.records :
              /\ rec.head = h
              /\ \A k \in Kinds : InTime(h, k, history.asOf) => rec.labels[k] = Seen(h, k)
        BY <1>2, <3>2 DEF Filed, Remembered
      <4>2. merged'[h] = merged[h]
        BY <2>1, <3>2 DEF Grows
      <4>3. ASSUME NEW k \in Kinds, InTime(h, k, history.asOf)'
            PROVE  InTime(h, k, history.asOf) /\ Seen(h, k)' = Seen(h, k)
        <5>1. <<h, k>> \in DOMAIN labels' /\ labels'[<<h, k>>].available <= Cutoff
          BY <1>2, <3>2, <4>2, <4>3 DEF InTime, Boundary
        <5>2. labels'[<<h, k>>].available \in Nat
          BY <2>1, <5>1 DEF Watched
        <5>3. <<h, k>> \in DOMAIN labels
          BY <2>1, <2>2, <5>1, <5>2 DEF Grows
        <5>4. labels'[<<h, k>>] = labels[<<h, k>>]
          BY <2>1, <5>3 DEF Grows
        <5> QED
          BY <1>2, <4>2, <4>3, <5>3, <5>4 DEF InTime, Seen, Boundary, Matures
      <4> QED
        BY <1>2, <4>1, <4>3 DEF Remembered
    <3>3. CASE h \in DOMAIN merged /\ ~(merged[h].at < Cutoff /\ merged[h].receipt <= history.asOf)
      BY <1>2, <2>1, <3>3 DEF Grows, Remembered
    <3> QED
      BY <3>1, <3>2, <3>3
  <2> QED
    BY <1>2, <2>2, <2>3, <2>4 DEF Filed
<1>3. CASE history' = history /\ history = NoHistory
  BY <1>3 DEF Filed
<1>4. history' = history \/ \E asOf \in 0..MaxTime : Export(asOf)
  BY DEF HistoryNext, historyVars, Tick, Capture, Merge, Observe
<1> QED
  BY <1>1, <1>2, <1>3, <1>4

LEMMA HistoryInvariance == HistorySpec => [](Watched /\ Filed)
<1>1. HistoryInit => Watched /\ Filed
  BY DEF HistoryInit, Watched, Filed
<1>2. Watched /\ Filed /\ [HistoryNext]_historyVars => (Watched /\ Filed)'
  BY WorldGrows, HistoryStays
<1> QED
  BY <1>1, <1>2, PTL DEF HistorySpec

(* What trains, and what is held out, by what was seen of it.              *)
LEMMA Cohorts ==
    ASSUME Watched, NEW hist, hist.asOf \in Nat,
           NEW rec \in hist.records, TrueRecord(rec, hist.asOf), NEW k \in Kinds, rec.labels[k] # Unknown
    PROVE  /\ rec \in Training(hist, k) <=> rec.mergedAt < Cutoff
           /\ rec \in HeldOut(hist, k) <=> rec.mergedAt >= Cutoff
<1>1. InTime(rec.head, k, hist.asOf) /\ rec.labels[k] = Seen(rec.head, k)
  BY DEF TrueRecord
<1>2. /\ rec.mergedAt = merged[rec.head].at /\ rec.mergedAt \in Nat
      /\ labels[<<rec.head, k>>].at \in Nat /\ labels[<<rec.head, k>>].available \in Nat
      /\ labels[<<rec.head, k>>].at <= labels[<<rec.head, k>>].available
      /\ rec.labels[k].at = labels[<<rec.head, k>>].at
      /\ Cutoff \in Nat /\ Window[k] \in Nat
  BY OutcomesAssumption, <1>1 DEF TrueRecord, InTime, Seen, Watched, Configured
<1>3. rec \in Labelled(hist, k)
  BY DEF Labelled
<1>4. rec.mergedAt < Cutoff => rec \in Training(hist, k)
  BY <1>1, <1>2, <1>3 DEF InTime, Matures, Boundary, Training
<1>5. rec.mergedAt >= Cutoff => rec \in HeldOut(hist, k)
  BY <1>1, <1>2, <1>3 DEF InTime, Matures, Boundary, HeldOut
<1>6. /\ rec \in Training(hist, k) => rec.mergedAt < Cutoff
      /\ rec \in HeldOut(hist, k) => rec.mergedAt >= Cutoff
  BY DEF Training, HeldOut
<1> QED
  BY <1>2, <1>4, <1>5, <1>6

(* collect.py:310-330, merge_confidence.rs:484-561: the assessment accepts  *)
(* whatever the collector exports, and uses every label of it, for any      *)
(* outcomes and windows, however late receipts come in.                     *)
THEOREM ExportsAreAccepted == HistorySpec => []ExportAccepted
<1>1. Watched /\ Filed => ExportAccepted
  <2> SUFFICES ASSUME Watched, Filed, history # NoHistory
               PROVE  Valid(history) /\ \A k \in Kinds : Immature(history, k) = {}
    BY DEF ExportAccepted
  <2>1. ASSUME NEW rec \in history.records
        PROVE  /\ 0 < rec.mergedAt /\ rec.mergedAt <= history.asOf
               /\ rec.recordedAt <= rec.mergedAt
    BY DEF Filed, TrueRecord, Watched
  <2>2. ASSUME NEW rec \in history.records, NEW k \in Kinds, rec.labels[k] # Unknown
        PROVE  /\ rec.labels[k].at \in rec.mergedAt..history.asOf
               /\ IF rec.labels[k].occurred THEN rec.labels[k].at <= rec.mergedAt + Window[k]
                  ELSE rec.labels[k].at >= rec.mergedAt + Window[k]
    <3>1. /\ TrueRecord(rec, history.asOf) /\ InTime(rec.head, k, history.asOf)
          /\ rec.labels[k] = Seen(rec.head, k) /\ rec.head \in DOMAIN merged
      BY <2>2 DEF Filed, TrueRecord
    <3>2. /\ rec.labels[k].at = labels[<<rec.head, k>>].at
          /\ rec.labels[k].occurred = labels[<<rec.head, k>>].occurred
          /\ rec.mergedAt = merged[rec.head].at
      BY <3>1 DEF Seen, TrueRecord
    <3>3. /\ merged[rec.head].at \in Nat /\ labels[<<rec.head, k>>].at \in Nat
          /\ merged[rec.head].at <= labels[<<rec.head, k>>].at
          /\ labels[<<rec.head, k>>].available \in Nat
          /\ labels[<<rec.head, k>>].at <= labels[<<rec.head, k>>].available
          /\ IF labels[<<rec.head, k>>].occurred
             THEN labels[<<rec.head, k>>].at <= Matures(rec.head, k)
             ELSE labels[<<rec.head, k>>].at >= Matures(rec.head, k)
      BY <3>1 DEF Watched, InTime
    <3>4. Boundary(rec.head, history.asOf) \in Nat
          /\ Boundary(rec.head, history.asOf) <= history.asOf /\ history.asOf \in Nat
      BY OutcomesAssumption DEF Boundary, Filed, Configured
    <3>5. labels[<<rec.head, k>>].at <= history.asOf
      BY <3>1, <3>3, <3>4 DEF InTime
    <3> QED
      BY <3>2, <3>3, <3>4, <3>5 DEF Matures
  <2>3. Valid(history)
    BY <2>1, <2>2 DEF Valid, Filed
  <2>4. ASSUME NEW k \in Kinds PROVE Immature(history, k) = {}
    <3>1. ASSUME NEW rec \in Labelled(history, k)
          PROVE  rec \in Training(history, k) \/ rec \in HeldOut(history, k)
      <4>1. rec \in history.records /\ rec.labels[k] # Unknown
        BY <3>1 DEF Labelled
      <4>2. rec.mergedAt \in Nat /\ Cutoff \in Nat
        BY OutcomesAssumption, <4>1 DEF Filed, TrueRecord, Watched, Configured
      <4>3. TrueRecord(rec, history.asOf) /\ history.asOf \in Nat
        BY <4>1 DEF Filed
      <4> QED
        BY <4>1, <4>2, <4>3, Cohorts
    <3> QED
      BY <3>1 DEF Immature
  <2> QED
    BY <2>3, <2>4
<1> QED
  BY <1>1, HistoryInvariance, PTL

(* collect.py:318-324: nothing that trains was unknown at the cutoff, and a *)
(* later export drops nothing of a cohort and adds to the training only     *)
(* what had no receipt, for any outcomes, windows and delays.               *)
THEOREM NothingLooksAhead == HistorySpec => NoLookAhead
<1>1. ASSUME Watched, Filed, Watched', Filed', Grows, [HistoryNext]_historyVars,
             history # NoHistory, history' # NoHistory, history'.asOf >= history.asOf,
             NEW k \in Kinds
      PROVE  /\ \A r \in Training(history', k) : labels[<<r.head, k>>].available <= Cutoff
             /\ Heard(Training(history, k), k) \subseteq Heard(Training(history', k), k)
             /\ \A t \in Heard(Training(history', k), k) \ Heard(Training(history, k), k) :
                  merged[t[1]].receipt > history.asOf
             /\ Heard(HeldOut(history, k), k) \subseteq Heard(HeldOut(history', k), k)
  <2>1. CASE history' = history
    <3>1. ASSUME NEW rec \in Training(history, k)
          PROVE  labels[<<rec.head, k>>].available <= Cutoff
      <4>1. rec \in history.records /\ rec.labels[k] # Unknown /\ rec.mergedAt < Cutoff
        BY <3>1 DEF Training, Labelled
      <4> QED
        BY <1>1, <4>1 DEF Filed, TrueRecord, InTime, Boundary
    <3> QED
      BY <2>1, <3>1
  <2>2. CASE \E asOf \in 0..MaxTime : Export(asOf)
    <3>1. /\ UNCHANGED <<captured, merged, labels>> /\ Full(history')
          /\ history.asOf \in Nat /\ history'.asOf \in Nat /\ Cutoff < history.asOf
          /\ Cutoff \in Nat
      BY OutcomesAssumption, <1>1, <2>2, ExportIsTrue DEF Export, Filed, Configured
    <3>2. \A rec \in history'.records : TrueRecord(rec, history'.asOf)
      BY <1>1, <3>1 DEF Filed, TrueRecord, InTime, Seen, Boundary, Matures
    <3>3. \A rec \in history.records : TrueRecord(rec, history.asOf)
      BY <1>1 DEF Filed
    <3>4. ASSUME NEW rec \in history.records, rec.labels[k] # Unknown
          PROVE  \E new \in history'.records :
                   /\ new.head = rec.head /\ new.mergedAt = rec.mergedAt
                   /\ new.labels[k] = rec.labels[k]
      <4>1. /\ InTime(rec.head, k, history.asOf) /\ rec.labels[k] = Seen(rec.head, k)
            /\ rec.head \in DOMAIN merged /\ rec.mergedAt = merged[rec.head].at
            /\ merged[rec.head].at <= history.asOf /\ merged[rec.head].receipt <= history.asOf
        BY <3>3, <3>4 DEF TrueRecord
      <4>2. /\ merged[rec.head].at \in Nat /\ merged[rec.head].receipt \in Nat
            /\ labels[<<rec.head, k>>].available \in Nat /\ Matures(rec.head, k) \in Nat
        BY OutcomesAssumption, <1>1, <4>1 DEF Watched, InTime, Matures, Configured
      <4>3. InTime(rec.head, k, history'.asOf)
        BY <1>1, <3>1, <4>1, <4>2 DEF InTime, Boundary
      <4>4. PICK new \in history'.records : new.head = rec.head /\ new.labels[k] = Seen(rec.head, k)
        BY <1>1, <3>1, <4>1, <4>2, <4>3 DEF Full
      <4>5. new.mergedAt = rec.mergedAt
        BY <3>2, <4>1, <4>4 DEF TrueRecord
      <4> QED
        BY <4>1, <4>4, <4>5
    <3>5. ASSUME NEW rec \in history'.records, rec.labels[k] # Unknown, rec.mergedAt < Cutoff
          PROVE  /\ labels[<<rec.head, k>>].available <= Cutoff
                 /\ merged[rec.head].receipt \in Nat
                 /\ merged[rec.head].receipt <= history.asOf =>
                      \E old \in history.records :
                        /\ old.head = rec.head /\ old.mergedAt = rec.mergedAt
                        /\ old.labels[k] = rec.labels[k]
      <4>1. /\ InTime(rec.head, k, history'.asOf) /\ rec.labels[k] = Seen(rec.head, k)
            /\ rec.head \in DOMAIN merged /\ rec.mergedAt = merged[rec.head].at
        BY <3>2, <3>5 DEF TrueRecord
      <4>2. /\ InTime(rec.head, k, history.asOf) /\ labels[<<rec.head, k>>].available <= Cutoff
            /\ merged[rec.head].receipt \in Nat
        BY <1>1, <3>5, <4>1 DEF InTime, Boundary, Watched
      <4>3. ASSUME merged[rec.head].receipt <= history.asOf
            PROVE  \E old \in history.records :
                        /\ old.head = rec.head /\ old.mergedAt = rec.mergedAt
                        /\ old.labels[k] = rec.labels[k]
        <5>1. PICK old \in history.records :
                old.head = rec.head /\ old.labels[k] = Seen(rec.head, k)
          BY <1>1, <3>5, <4>1, <4>2, <4>3 DEF Filed, Remembered
        <5>2. old.mergedAt = rec.mergedAt
          BY <3>3, <4>1, <5>1 DEF TrueRecord
        <5> QED
          BY <4>1, <5>1, <5>2
      <4> QED
        BY <4>2, <4>3
    <3>6. \A rec \in history.records : rec.labels[k] # Unknown =>
            /\ rec \in Training(history, k) <=> rec.mergedAt < Cutoff
            /\ rec \in HeldOut(history, k) <=> rec.mergedAt >= Cutoff
      BY <1>1, <3>1, <3>3, Cohorts
    <3>7. \A rec \in history'.records : rec.labels[k] # Unknown =>
            /\ rec \in Training(history', k) <=> rec.mergedAt < Cutoff
            /\ rec \in HeldOut(history', k) <=> rec.mergedAt >= Cutoff
      BY <1>1, <3>1, <3>2, Cohorts
    <3>8. \A hist : /\ \A rec \in Training(hist, k) : rec \in hist.records /\ rec.labels[k] # Unknown
                    /\ \A rec \in HeldOut(hist, k) : rec \in hist.records /\ rec.labels[k] # Unknown
      BY DEF Training, HeldOut, Labelled
    <3>9. \A r \in Training(history', k) : labels[<<r.head, k>>].available <= Cutoff
      BY <3>5, <3>7, <3>8
    <3>10. Heard(Training(history, k), k) \subseteq Heard(Training(history', k), k)
      BY <3>4, <3>6, <3>7, <3>8 DEF Heard
    <3>11. Heard(HeldOut(history, k), k) \subseteq Heard(HeldOut(history', k), k)
      BY <3>4, <3>6, <3>7, <3>8 DEF Heard
    <3>12. ASSUME NEW rec \in Training(history', k),
                  <<rec.head, rec.labels[k]>> \notin Heard(Training(history, k), k)
           PROVE  merged[rec.head].receipt > history.asOf
      <4>1. rec \in history'.records /\ rec.labels[k] # Unknown /\ rec.mergedAt < Cutoff
        BY <3>7, <3>8
      <4>2. ASSUME NEW old \in history.records, old.head = rec.head, old.mergedAt = rec.mergedAt,
                   old.labels[k] = rec.labels[k]
            PROVE  FALSE
        <5>1. old \in Training(history, k)
          BY <3>6, <4>1, <4>2
        <5> QED
          BY <3>12, <4>2, <5>1 DEF Heard
      <4>3. merged[rec.head].receipt \in Nat /\ ~(merged[rec.head].receipt <= history.asOf)
        BY <3>5, <4>1, <4>2
      <4> QED
        BY <3>1, <4>3
    <3>13. \A t \in Heard(Training(history', k), k) \ Heard(Training(history, k), k) :
             merged[t[1]].receipt > history.asOf
      BY <3>12 DEF Heard
    <3> QED
      BY <3>9, <3>10, <3>11, <3>13
  <2>3. history' = history \/ \E asOf \in 0..MaxTime : Export(asOf)
    BY <1>1 DEF HistoryNext, historyVars, Tick, Capture, Merge, Observe
  <2> QED
    BY <2>1, <2>2, <2>3
<1>2. Watched /\ Filed /\ (Watched /\ Filed)' /\ [HistoryNext]_historyVars =>
        [(history # NoHistory /\ history' # NoHistory /\ history'.asOf >= history.asOf) =>
          \A k \in Kinds :
             /\ \A r \in Training(history', k) : labels[<<r.head, k>>].available <= Cutoff
             /\ Heard(Training(history, k), k) \subseteq Heard(Training(history', k), k)
             /\ \A t \in Heard(Training(history', k), k) \ Heard(Training(history, k), k) :
                  merged[t[1]].receipt > history.asOf
             /\ Heard(HeldOut(history, k), k) \subseteq Heard(HeldOut(history', k), k)]_historyVars
  BY <1>1, WorldGrows
<1> QED
  BY <1>2, HistoryInvariance, PTL DEF NoLookAhead, HistorySpec

(* A bounded set of times has a latest one, which Max then gives.          *)
LEMMA LatestIsOne ==
    ASSUME NEW S \in SUBSET Nat, NEW bound \in Nat, \A s \in S : s <= bound
    PROVE  Latest(S) \in S \cup {0}
<1> DEFINE times == {0} \cup S
           spare == {n \in 0..bound : bound - n \in times}
<1>1. spare \subseteq Nat /\ bound \in spare
  BY SMT
<1>2. PICK n \in spare : \A m \in spare : n <= m
  <2> HIDE DEF spare
  <2>1. PICK n \in spare : \A m \in spare : <<m, n>> \notin OpToRel(<, Nat)
    BY <1>1, NatLessThanWellFounded, WFMin, Zenon
  <2>2. \A m \in spare : ~(m < n)
    BY <1>1, <2>1, Zenon DEF OpToRel
  <2> QED
    BY <1>1, <2>2
<1>4. \A t \in times : bound - t \in spare
  BY SMT
<1>5. bound - n \in times /\ \A t \in times : bound - n >= t
  BY <1>2, <1>4, SMT
<1> HIDE DEF times, spare
<1>6. Max(times) \in times
  BY <1>5, Zenon DEF Max
<1> QED
  BY <1>6 DEF Latest, times

\* What a decision on report r needs of merge h.
Backed(h, k, r) ==
    /\ merged[h].at >= Cutoff /\ merged[h].at + Window[k] <= now
    /\ now - merged[h].at <= Policy.maxHistoryAge + Window[k]
    /\ Bin(captured[h].risk) = Bin(Risk(r))
    /\ \E g \in DOMAIN merged :
         <<g, k>> \in DOMAIN labels /\ now - labels[<<g, k>>].at <= Policy.maxHistoryAge

(* merge_confidence.rs:1026-1052: a change is eligible only on its own      *)
(* checks, and on a merge of its score bin that was held out and watched to *)
(* the end recently, whatever the age of the export.                        *)
THEOREM EvidenceExpires == HistorySpec => []EligibleIsRecent
<1>1. Watched /\ Filed => EligibleIsRecent
  <2> DEFINE e(tip, at) == [head |-> "candidate", reviewedHead |-> "candidate", assessedAt |-> now,
                            complete |-> TRUE,
                            checks |-> {[name |-> n, head |-> tip, status |-> "passed", at |-> at]
                                        : n \in Policy.required}]
  <2> SUFFICES ASSUME Watched, Filed, NEW r \in Reports, NEW at \in {t \in {now - 1, now} : t > 0},
                      NEW tip \in {"candidate", "other"}, EligibleFor(r, history, e(tip, at))
               PROVE  /\ tip = r.head
                      /\ \A k \in Kinds : \E h \in DOMAIN merged : Backed(h, k, r)
    BY DEF EligibleIsRecent, Backed
  <2>1. tip = r.head
    <3>1. PICK n \in Policy.required : TRUE
      BY OutcomesAssumption DEF Configured
    <3> DEFINE check == [name |-> n, head |-> tip, status |-> "passed", at |-> at]
    <3>2. check \in e(tip, at).checks /\ check.head = tip
      OBVIOUS
    <3>3. check.head = e(tip, at).head /\ e(tip, at).head = r.head
      BY <3>2 DEF EligibleFor, ChecksFit
    <3> QED
      BY <3>2, <3>3
  <2>2. /\ history # NoHistory /\ history.asOf <= now
        /\ \A k \in Kinds : CohortsRecent(history, k, Bin(Risk(r)), now)
    BY DEF EligibleFor
  <2> HIDE DEF e
  <2>3. ASSUME NEW k \in Kinds
        PROVE  \E h \in DOMAIN merged : Backed(h, k, r)
    <3> DEFINE held == InBin(HeldOut(history, k), Bin(Risk(r)))
    <3> DEFINE merges == {rec.mergedAt : rec \in held}
               sights == {rec.labels[k].at : rec \in held}
    <3>1. /\ Recent(Latest(sights), Policy.maxHistoryAge, now)
          /\ Recent(Latest(merges), Policy.maxHistoryAge + Window[k], now)
      BY <2>2 DEF CohortsRecent
    <3>2. /\ now \in Nat /\ history.asOf \in Nat /\ Window[k] \in Nat /\ Cutoff \in Nat
          /\ Policy.maxHistoryAge \in Nat
      BY OutcomesAssumption, <2>2 DEF Watched, Filed, Configured
    <3>3. ASSUME NEW rec \in held
          PROVE  /\ rec.head \in DOMAIN merged /\ rec.mergedAt = merged[rec.head].at
                 /\ rec.mergedAt \in Nat /\ rec.mergedAt <= now
                 /\ rec.mergedAt >= Cutoff /\ rec.mergedAt + Window[k] <= now
                 /\ Bin(captured[rec.head].risk) = Bin(Risk(r))
                 /\ <<rec.head, k>> \in DOMAIN labels
                 /\ rec.labels[k].at = labels[<<rec.head, k>>].at
                 /\ rec.labels[k].at \in Nat /\ rec.labels[k].at <= now
      <4>1. /\ rec \in history.records /\ rec.labels[k] # Unknown /\ rec.mergedAt >= Cutoff
            /\ rec.mergedAt + Window[k] <= history.asOf /\ Bin(rec.risk) = Bin(Risk(r))
        BY <3>3 DEF InBin, HeldOut, Labelled
      <4>2. /\ rec.head \in DOMAIN merged /\ rec.mergedAt = merged[rec.head].at
            /\ rec.risk = captured[rec.head].risk
            /\ InTime(rec.head, k, history.asOf) /\ rec.labels[k] = Seen(rec.head, k)
        BY <2>2, <4>1 DEF Filed, TrueRecord
      <4>3. /\ <<rec.head, k>> \in DOMAIN labels /\ rec.labels[k].at = labels[<<rec.head, k>>].at
        BY <4>2 DEF InTime, Seen
      <4>4. /\ labels[<<rec.head, k>>].at \in Nat /\ labels[<<rec.head, k>>].at <= now
            /\ merged[rec.head].at \in Nat /\ merged[rec.head].at <= now
        BY <4>2, <4>3 DEF Watched
      <4> QED
        BY <2>2, <3>2, <4>1, <4>2, <4>3, <4>4
    <3> HIDE DEF held
    <3>4. Latest(merges) \in merges
      <4>1. merges \subseteq Nat /\ \A t \in merges : t <= now
        BY <3>3
      <4> HIDE DEF merges, sights
      <4>2. Latest(merges) \in merges \cup {0}
        BY <3>2, <4>1, LatestIsOne
      <4> QED
        BY <3>1, <4>2 DEF Recent
    <3>5. Latest(sights) \in sights
      <4>1. sights \subseteq Nat /\ \A t \in sights : t <= now
        BY <3>3
      <4> HIDE DEF merges, sights
      <4>2. Latest(sights) \in sights \cup {0}
        BY <3>2, <4>1, LatestIsOne
      <4> QED
        BY <3>1, <4>2 DEF Recent
    <3>6. PICK m \in held : m.mergedAt = Latest(merges)
      BY <3>4
    <3>7. PICK s \in held : s.labels[k].at = Latest(sights)
      BY <3>5
    <3>8. /\ now - m.mergedAt <= Policy.maxHistoryAge + Window[k]
          /\ now - s.labels[k].at <= Policy.maxHistoryAge
      BY <3>1, <3>6, <3>7 DEF Recent
    <3> QED
      BY <3>3, <3>8 DEF Backed
  <2> QED
    BY <2>1, <2>3
<1> QED
  BY <1>1, HistoryInvariance, PTL
=============================================================================
