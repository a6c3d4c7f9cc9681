------------------------------- MODULE Review -------------------------------
(***************************************************************************)
(* review/workflow.rs run_review: the staged funnel of one review, from    *)
(* discovery to the report, with what each stage does to the next when     *)
(* some of its requests fail or find the call budget exhausted.            *)
(*                                                                         *)
(* A stage is one step here; Stage checks how it unfolds.  What matters to *)
(* the report is which requests succeeded, failed or were deferred, and    *)
(* whether the circuit breaker stopped the stage.                          *)
(***************************************************************************)
EXTENDS Naturals, FiniteSets

CONSTANTS Discovered,   \* source files under the scopes
          Dimensions,
          Breaker,      \* CIRCUIT_BREAKER
          MaxProfiles,  \* MAX_PROFILES
          MaxFollowUps, \* --follow-ups N, at least the number of signals if absent
          Options       \* the sets of options runs are started with

ASSUME ReviewAssumption ==
    /\ IsFiniteSet(Discovered) /\ IsFiniteSet(Dimensions)
    /\ Breaker \in Nat \ {0} /\ MaxProfiles \in Nat /\ MaxFollowUps \in Nat
    /\ Options \subseteq SUBSET
         {"allowEmpty", "tiered", "shard", "voi", "budget", "specs", "testPlans"}
    \* rejected on entry
    /\ \A o \in Options : "shard" \in o => o \cap {"testPlans", "specs", "voi"} = {}
    /\ \A o \in Options : ~({"tiered", "specs"} \subseteq o)

VARIABLES options,   \* how this run was started
          stage,     \* the next stage, or "report" or "error" at the end
          owned,     \* the discovered files that this run's shard contains
          files,     \* files still under review
          dismissed, \* TierSummary.dismissed
          matrix,    \* files screened
          signals,   \* cells at or above their threshold
          followed,  \* the signals that were followed up
          located,   \* the signals whose follow-up succeeded, finding or not
          skipped,   \* <<stage, item>> of every recorded failure
          deferred,  \* did the budget turn any request away?
          unclear,   \* spec checks that ended deferred or uncertain
          partial,   \* ReviewReport.partial
          sent,      \* history: files and signals whose requests were started
          failing,   \* history: has every request so far failed?
          failed     \* history: has any?

vars == <<options, stage, owned, files, dismissed, matrix, signals, followed, located, skipped,
          deferred, unclear, partial, sent, failing, failed>>

fixed == <<options, owned>>

Smaller(a, b) == IF a <= b THEN a ELSE b
Results == {"ok", "failed", "deferred"}
Sharded == "shard" \in options
Tiered == "tiered" \in options
FiniteBudget == "budget" \in options
OptionalProfilesSkipped == "voi" \in options /\ FiniteBudget

\* What run_stage makes of the results of its items, the first of which are
\* the probe: it trips when the probe is full and failed altogether.
Tripped(outcome, probe) ==
    Cardinality(probe) = Breaker /\ \A i \in probe : outcome[i] = "failed"
Heard(items, outcome, probe) == IF Tripped(outcome, probe) THEN probe ELSE items
Kept(items, outcome, probe) ==
    {i \in Heard(items, outcome, probe) : outcome[i] = "ok"}

\* Mutant: a deferral is not a skipped item.
RunStageSkipsFailures(name, items, outcome, probe) ==
    LET heard == Heard(items, outcome, probe) IN
    /\ Cardinality(probe) = Smaller(Breaker, Cardinality(items))
    /\ FiniteBudget \/ \A i \in items : outcome[i] # "deferred"
    /\ skipped' = skipped \cup ({name} \X {i \in heard : outcome[i] = "failed"})
    /\ deferred' = (deferred \/ \E i \in heard : outcome[i] = "deferred")
    /\ sent' = sent + Cardinality(heard)
    /\ failing' = (failing /\ \A i \in heard : outcome[i] = "failed")
    /\ failed' = (failed \/ \E i \in heard : outcome[i] = "failed")

RunStage(name, items, outcome, probe) ==
    LET heard == Heard(items, outcome, probe)
        lost == heard \ Kept(items, outcome, probe) IN
    /\ Cardinality(probe) = Smaller(Breaker, Cardinality(items))
    /\ FiniteBudget \/ \A i \in items : outcome[i] # "deferred"
    /\ skipped' = skipped \cup ({name} \X lost)
    /\ deferred' = (deferred \/ \E i \in heard : outcome[i] = "deferred")
    /\ sent' = sent + Cardinality(heard)
    /\ failing' = (failing /\ \A i \in heard : outcome[i] = "failed")
    /\ failed' = (failed \/ \E i \in heard : outcome[i] = "failed")

-----------------------------------------------------------------------------
Init ==
    /\ options \in Options
    /\ stage = IF Tiered THEN "tier" ELSE "screen"
    /\ owned \in IF Sharded THEN SUBSET Discovered ELSE {Discovered}
    /\ files = owned
    /\ dismissed = {} /\ matrix = {} /\ signals = {} /\ followed = {}
    /\ located = {} /\ skipped = {} /\ unclear = {}
    /\ deferred = FALSE /\ partial = FALSE
    /\ sent = 0 /\ failing = TRUE /\ failed = FALSE

\* Nothing to review: an empty report when that is allowed or this is a shard.
Empty ==
    /\ stage \in {"tier", "screen"} /\ files = {} /\ dismissed = {}
    /\ stage' = IF "allowEmpty" \in options \/ Sharded THEN "report" ELSE "error"
    /\ partial' = Sharded
    /\ UNCHANGED <<fixed, files, dismissed, matrix, signals, followed, located, skipped,
                   deferred, unclear, sent, failing, failed>>

\* Tier 0 asks one question per file that has a cheap state; only a confident
\* "no concern" dismisses the file, an error or uncertainty retains it.  It is
\* not a run_stage: nothing is skipped and no breaker watches it.
TierZero ==
    /\ stage = "tier" /\ files # {}
    /\ \E answer \in [files -> {"noState", "clear", "concern", "failed", "deferred"}] :
         LET asked == {f \in files : answer[f] # "noState"} IN
         /\ FiniteBudget \/ \A f \in files : answer[f] # "deferred"
         /\ dismissed' = {f \in files : answer[f] = "clear"}
         /\ deferred' = \E f \in files : answer[f] = "deferred"
         /\ sent' = Cardinality(asked)
         /\ failing' = \A f \in asked : answer[f] = "failed"
         /\ failed' = \E f \in asked : answer[f] = "failed"
    /\ files' = files \ dismissed'
    /\ stage' = IF files' = {} THEN "report" ELSE "screen"
    /\ partial' = (files' = {})
    /\ UNCHANGED <<fixed, matrix, signals, followed, located, skipped, unclear>>

\* Mutant: a screen that kept nothing is fatal, deferred or not.
ScreenDeferralFatal ==
    /\ stage = "screen" /\ files # {}
    /\ \E outcome \in [files -> Results], probe \in SUBSET files :
         /\ RunStage("screen", files, outcome, probe)
         /\ matrix' = Kept(files, outcome, probe)
         /\ stage' = IF matrix' = {} THEN "error" ELSE "profile"
         /\ signals' \in SUBSET (matrix' \X Dimensions)
    /\ UNCHANGED <<fixed, files, dismissed, followed, located, unclear, partial>>

\* Screening: fatal when the breaker trips or when no file was screened and
\* nothing was deferred.  The probabilities then decide which cells are signals.
Screen ==
    /\ stage = "screen" /\ files # {}
    /\ \E outcome \in [files -> Results], probe \in SUBSET files :
         /\ RunStage("screen", files, outcome, probe)
         /\ matrix' = Kept(files, outcome, probe)
         /\ \/ /\ Tripped(outcome, probe) \/ (matrix' = {} /\ ~deferred')
               /\ stage' = "error"
               /\ signals' = {}
            \/ /\ ~Tripped(outcome, probe) /\ (matrix' # {} \/ deferred')
               /\ stage' = "profile"
               /\ signals' \in SUBSET (matrix' \X Dimensions)
    /\ UNCHANGED <<fixed, files, dismissed, followed, located, unclear, partial>>

\* Optional profiles of the riskiest files: not even the breaker ends the run.
Profile ==
    /\ stage = "profile"
    /\ \E top \in SUBSET matrix :
         /\ Cardinality(top) = IF OptionalProfilesSkipped THEN 0
                               ELSE Smaller(MaxProfiles, Cardinality(matrix))
         /\ \E outcome \in [top -> Results], probe \in SUBSET top :
              RunStage("profile", top, outcome, probe)
    /\ stage' = "locate"
    /\ UNCHANGED <<fixed, files, dismissed, matrix, signals, followed, located, unclear, partial>>

\* Mutant: the cap is not applied.
LocateUncapped ==
    /\ stage = "locate"
    /\ followed' = signals
    /\ \E outcome \in [signals -> Results], probe \in SUBSET signals :
         /\ RunStage("locate", signals, outcome, probe)
         /\ located' = Kept(signals, outcome, probe)
         /\ stage' = IF Tripped(outcome, probe) THEN "error" ELSE "finish"
    /\ UNCHANGED <<fixed, files, dismissed, matrix, signals, unclear, partial>>

\* Follow up the signals the cap admits; a tripped breaker is fatal here.
Locate ==
    /\ stage = "locate"
    /\ \E chosen \in SUBSET signals :
         /\ Cardinality(chosen) = Smaller(MaxFollowUps, Cardinality(signals))
         /\ followed' = chosen
         /\ \E outcome \in [chosen -> Results], probe \in SUBSET chosen :
              /\ RunStage("locate", chosen, outcome, probe)
              /\ located' = Kept(chosen, outcome, probe)
              /\ stage' = IF Tripped(outcome, probe) THEN "error" ELSE "finish"
    /\ UNCHANGED <<fixed, files, dismissed, matrix, signals, unclear, partial>>

\* Mutant: follow-ups omitted by the cap do not count.
IncompleteUncapped ==
    Sharded \/ unclear' # {} \/ deferred' \/ skipped' # {} \/ dismissed # {}

Incomplete ==
    Sharded \/ unclear' # {} \/ followed # signals \/ deferred'
        \/ skipped' # {} \/ dismissed # {}

\* Spec checks, which every file still under review gets even when its screen
\* failed; then refinement and enrichment, whose failures leave the finding as
\* it is and show only as deferrals; then test plans, whose failures are
\* skipped items.  The report is put together last.
Finish ==
    /\ stage = "finish"
    /\ unclear' \in SUBSET (IF "specs" \in options THEN files ELSE {})
    /\ \E starved \in BOOLEAN : deferred' = (deferred \/ (starved /\ FiniteBudget))
    /\ \E planless \in SUBSET (IF "testPlans" \in options THEN located ELSE {}) :
         skipped' = skipped \cup ({"testPlan"} \X planless)
    /\ partial' = Incomplete
    /\ stage' = "report"
    /\ UNCHANGED <<fixed, files, dismissed, matrix, signals, followed, located, sent, failing, failed>>

Next == Empty \/ TierZero \/ Screen \/ Profile \/ Locate \/ Finish

Spec == Init /\ [][Next]_vars

-----------------------------------------------------------------------------
Items == Discovered \cup (Discovered \X Dimensions)

TypeOK ==
    /\ options \in Options
    /\ stage \in {"tier", "screen", "profile", "locate", "finish", "report", "error"}
    /\ owned \subseteq Discovered
    /\ {files, dismissed, matrix, unclear} \subseteq SUBSET owned
    /\ located \subseteq followed /\ followed \subseteq signals
    /\ signals \subseteq matrix \X Dimensions
    /\ Cardinality(followed) <= MaxFollowUps
    /\ skipped \subseteq {"screen", "profile", "locate", "testPlan"} \X Items
    /\ {deferred, partial, failing, failed} \subseteq BOOLEAN
    /\ sent \in Nat

Reported == stage = "report"

(* A report that is not marked partial is the whole review: every source   *)
(* file was screened, every signal was followed up and located, and every  *)
(* requested spec check reached a conclusion.                              *)
NotPartialIsComplete ==
    Reported /\ ~partial =>
        /\ matrix = Discovered
        /\ located = signals
        /\ unclear = {}
        /\ ~deferred

(* Every file the run owns is accounted for exactly once in the report:    *)
(* screened, dismissed by tier 0, or skipped by the screen.                *)
EveryFileAccounted ==
    Reported =>
        LET lost == {f \in owned : <<"screen", f>> \in skipped} IN
        /\ matrix \cup dismissed \cup lost = owned
        /\ matrix \cap dismissed = {} /\ matrix \cap lost = {} /\ dismissed \cap lost = {}

(* The report tells what the run did with all its files.                   *)
ReportAccounts == TypeOK /\ NotPartialIsComplete /\ EveryFileAccounted

(* Running out of budget never fails a run: if no request failed, a        *)
(* nonempty review ends in a report, however early the calls ran out.      *)
BudgetNeverFatal ==
    stage = "error" => owned = {} \/ failed

(* docs/scaling.md:174, "A circuit breaker aborts early when the first     *)
(* units all fail, instead of sending every request": while every request  *)
(* fails, no more than the breaker allows are sent, whatever the stages;   *)
(* except by tier 0, whose requests no breaker watches.                    *)
SystemicFailureAborts == failing /\ "tiered" \notin options => sent <= Breaker

(* Trouble is contained: neither a budget nor an outage costs too much.    *)
TroubleContained == BudgetNeverFatal /\ SystemicFailureAborts

=============================================================================
