------------------------------- MODULE Stage -------------------------------
(***************************************************************************)
(* review/workflow.rs run_stage and tolerate: the requests of one stage go *)
(* out through an ordered, bounded stream, a failed file is skipped, and   *)
(* a circuit breaker watches the first Breaker results.                    *)
(*                                                                         *)
(* buffered(n) keeps at most n requests between the first one not yet      *)
(* handed over and the last one started: a finished request still takes a  *)
(* place until everything before it has been handed over.                  *)
(***************************************************************************)
EXTENDS Naturals, Sequences

CONSTANTS Items,        \* how many requests the stage has, in order 1..Items
          Breaker,      \* CIRCUIT_BREAKER: 5
          Concurrency   \* MOMUS_CONCURRENCY

ASSUME StageAssumption ==
    /\ Items \in Nat
    /\ Breaker \in Nat \ {0}
    /\ Concurrency \in Nat \ {0}

VARIABLES phase,      \* "probe", "rest", then "kept" or "tripped"
          started,    \* requests started so far: 1..started
          drained,    \* results handed to tolerate so far: 1..drained
          result,     \* what became of each request
          kept,       \* the successes, in the order they were handed over
          skipped,    \* the failures and deferrals, in that order
          failures,   \* tolerate's counter: failures that are not deferrals
          exhausted   \* has the call budget run out?

stageVars == <<phase, started, drained, result, kept, skipped, failures, exhausted>>

Fewer(a, b) == IF a <= b THEN a ELSE b

Results == {"ok", "failed", "deferred"}
Probes == Fewer(Items, Breaker)
LastOf(p) == IF p = "probe" THEN Probes ELSE Items
Window(p) == IF p = "probe" THEN Fewer(Concurrency, Breaker) ELSE Concurrency
Running == phase \in {"probe", "rest"}

-----------------------------------------------------------------------------
StageInit ==
    /\ phase = "probe"
    /\ started = 0
    /\ drained = 0
    /\ result = [i \in 1..Items |-> "unsent"]
    /\ kept = <<>>
    /\ skipped = <<>>
    /\ failures = 0
    /\ exhausted \in BOOLEAN

\* Mutant: one request past the end of the phase.
StartOneMore ==
    /\ Running
    /\ started <= LastOf(phase)
    /\ started - drained < Window(phase)
    /\ started' = started + 1
    /\ result' = [result EXCEPT ![started + 1] = "running"]
    /\ UNCHANGED <<phase, drained, kept, skipped, failures, exhausted>>

Start ==
    /\ Running
    /\ started < LastOf(phase)
    /\ started - drained < Window(phase)
    /\ started' = started + 1
    /\ result' = [result EXCEPT ![started + 1] = "running"]
    /\ UNCHANGED <<phase, drained, kept, skipped, failures, exhausted>>

\* A request ends, in any order; a tripped breaker drops the stream, and with it
\* the requests still running.  A deferral needs an exhausted budget.
Finish(i) ==
    /\ Running
    /\ result[i] = "running"
    /\ \E outcome \in Results :
         /\ outcome = "deferred" => exhausted
         /\ result' = [result EXCEPT ![i] = outcome]
    /\ UNCHANGED <<phase, started, drained, kept, skipped, failures, exhausted>>

\* Another request of the run reserves the last call.
Exhaust ==
    /\ ~exhausted
    /\ exhausted' = TRUE
    /\ UNCHANGED <<phase, started, drained, result, kept, skipped, failures>>

Keep ==
    /\ Running
    /\ drained < started /\ result[drained + 1] = "ok"
    /\ kept' = Append(kept, drained + 1)
    /\ drained' = drained + 1
    /\ UNCHANGED <<phase, started, result, skipped, failures, exhausted>>

\* Mutant: a deferral counts as a failure.
CountedDeferral == failures + 1

Counted == IF result[drained + 1] = "deferred" THEN failures ELSE failures + 1

Trips == phase = "probe" /\ kept = <<>> /\ Counted >= Breaker

\* Mutant: the failure that trips the breaker is returned but not recorded.
SkipForgetsLast ==
    /\ Running
    /\ drained < started /\ result[drained + 1] \in {"failed", "deferred"}
    /\ skipped' = IF Trips THEN skipped ELSE Append(skipped, drained + 1)
    /\ failures' = Counted
    /\ drained' = drained + 1
    /\ phase' = IF Trips THEN "tripped" ELSE phase
    /\ UNCHANGED <<started, result, kept, exhausted>>

\* Every failure is recorded, the one that trips the breaker too.
Skip ==
    /\ Running
    /\ drained < started /\ result[drained + 1] \in {"failed", "deferred"}
    /\ skipped' = Append(skipped, drained + 1)
    /\ failures' = Counted
    /\ drained' = drained + 1
    /\ phase' = IF Trips THEN "tripped" ELSE phase
    /\ UNCHANGED <<started, result, kept, exhausted>>

\* Mutant: a stage with a skipped file never ends.
NextPhaseWaits ==
    /\ Running
    /\ Len(kept) = LastOf(phase)
    /\ phase' = IF phase = "probe" /\ Items > Probes THEN "rest" ELSE "kept"
    /\ failures' = 0
    /\ UNCHANGED <<started, drained, result, kept, skipped, exhausted>>

\* The probe's stream ends; the rest, if any, runs without the breaker.
NextPhase ==
    /\ Running
    /\ drained = LastOf(phase)
    /\ phase' = IF phase = "probe" /\ Items > Probes THEN "rest" ELSE "kept"
    /\ failures' = 0
    /\ UNCHANGED <<started, drained, result, kept, skipped, exhausted>>

StageNext == Start \/ Keep \/ Skip \/ NextPhase \/ Exhaust \/ \E i \in 1..Items : Finish(i)

StageSpec == StageInit /\ [][StageNext]_stageVars

\* The stream is polled, and every request ends (Client's EveryCallEnds).
StageFairSpec ==
    /\ StageSpec
    /\ WF_stageVars(Start) /\ WF_stageVars(Keep) /\ WF_stageVars(Skip) /\ WF_stageVars(NextPhase)
    /\ \A i \in 1..Items : WF_stageVars(Finish(i))

-----------------------------------------------------------------------------
StageTypeOK ==
    /\ phase \in {"probe", "rest", "kept", "tripped"}
    /\ started \in 0..Items
    /\ drained \in 0..started
    /\ result \in [1..Items -> Results \cup {"unsent", "running"}]
    /\ kept \in Seq(1..Items)
    /\ skipped \in Seq(1..Items)
    /\ failures \in 0..Items
    /\ exhausted \in BOOLEAN

RangeOf(s) == {s[i] : i \in DOMAIN s}
Ascending(s) == \A i, j \in DOMAIN s : i < j => s[i] < s[j]

(* One bad file never ends a run nor vanishes from it: every result handed *)
(* over is in exactly one of the two lists, in item order, under the       *)
(* verdict it had, and a stage that returns Ok has heard of every item.    *)
OneVerdictEach ==
    /\ StageTypeOK
    /\ Ascending(kept) /\ Ascending(skipped)
    /\ RangeOf(kept) = {i \in 1..drained : result[i] = "ok"}
    /\ RangeOf(skipped) = {i \in 1..drained : result[i] \in {"failed", "deferred"}}
    /\ phase = "kept" => drained = Items

(* A systemic failure sends at most Breaker requests, whatever the         *)
(* configured concurrency and the order in which responses arrive.         *)
SystemicFailureIsCheap ==
    (\A i \in 1..Items : result[i] \notin {"ok", "deferred"}) => started <= Breaker

(* The breaker trips only when Breaker results all failed: neither a       *)
(* success nor a deferral under an exhausted budget counts as a failure.   *)
TripsOnlyWhenSystemic ==
    phase = "tripped" =>
        /\ drained = Breaker
        /\ \A i \in 1..Breaker : result[i] = "failed"

(* The breaker costs little and is never wrong.                            *)
BreakerExact == SystemicFailureIsCheap /\ TripsOnlyWhenSystemic

(* Every stage ends, with its results or with the breaker's error.         *)
StageEnds == <>(phase \in {"kept", "tripped"})

=============================================================================
