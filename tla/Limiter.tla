------------------------------- MODULE Limiter -------------------------------
(***************************************************************************)
(* review/limiter.rs: AdaptiveLimiter, the adaptive gate every HTTP        *)
(* request of a run passes through.                                        *)
(*                                                                         *)
(* A task registers for the next notification, tests capacity under the    *)
(* mutex, and either takes a permit or parks on the notification (with a   *)
(* timer when a cooldown is running).  A permit holder reports at most one *)
(* response - healthy() or throttled(), as TypeSafeClient::system_one does *)
(* - and then drops the permit.  Each of the three changes the state under *)
(* the mutex first and calls notify_waiters after releasing it: two steps. *)
(*                                                                         *)
(* Time is relative: cooldown and the timers count the ticks that are      *)
(* left, so no clock value grows.  acquire() reads the clock twice, once   *)
(* to test the cooldown and once to compute how long to sleep, and time    *)
(* passes between the two reads.                                           *)
(***************************************************************************)
EXTENDS Naturals, FiniteSets

CONSTANTS Tasks,          \* the tasks that share the gate
          ConfiguredCap,  \* the cap the operator configured, zero included
          StartLimit,     \* 3: in-flight requests the gate starts with
          HealthyRun,     \* 8: healthy responses that earn one more slot
          MaxPause        \* 300 s: the longest pause a response can ask for

ASSUME LimiterAssumption ==
    /\ IsFiniteSet(Tasks)
    /\ ConfiguredCap \in Nat
    /\ StartLimit \in Nat \ {0}
    /\ HealthyRun \in Nat \ {0}
    /\ MaxPause \in Nat

VARIABLES pc,        \* where each task is
          active,    \* State.active
          limit,     \* State.limit
          healthy,   \* State.healthy
          cooldown,  \* ticks until State.cooldown, 0 once it has passed
          timer,     \* ticks left of each task's sleep(delay)
          woken,     \* tasks whose current Notified future has fired
          slipped    \* auxiliary: whom the cooldown kept out when acquire read
                     \* the clock first, and was over when it read it again

gate == <<active, limit, healthy, cooldown>>
vars == <<pc, active, limit, healthy, cooldown, timer, woken, slipped>>

Least(a, b) == IF a <= b THEN a ELSE b
Most(a, b) == IF a >= b THEN a ELSE b

Cap == Most(ConfiguredCap, 1)

Places == {"idle", "loop", "test", "await", "sleep",
           "hold", "answered", "replied", "dropped"}

Registered == {t \in Tasks : pc[t] \in {"test", "await", "sleep"}}
Holders    == {t \in Tasks : pc[t] \in {"hold", "answered", "replied"}}
Notifiers  == {t \in Tasks : pc[t] \in {"answered", "dropped"}}

Goto(t, place) == pc' = [pc EXCEPT ![t] = place]

\* Notify::notify_waiters wakes every future registered now; it stores nothing.
NotifyWaiters == woken' = woken \cup Registered

-----------------------------------------------------------------------------
Init ==
    /\ pc = [t \in Tasks |-> "idle"]
    /\ active = 0
    /\ limit = Least(StartLimit, Cap)
    /\ healthy = 0
    /\ cooldown = 0
    /\ timer = [t \in Tasks |-> 0]
    /\ woken = {}
    /\ slipped = {}

Call(t) ==
    /\ pc[t] = "idle"
    /\ Goto(t, "loop")
    /\ UNCHANGED <<gate, timer, woken, slipped>>

\* notified() and enable(), before the mutex is taken.
Register(t) ==
    /\ pc[t] = "loop"
    /\ Goto(t, "test")
    /\ woken' = woken \ {t}
    /\ UNCHANGED <<gate, timer, slipped>>

\* Mutant: the comparison is off by one.
CanEnterOneMore == cooldown = 0 /\ active <= limit

CanEnter == cooldown = 0 /\ active < limit

Admit(t) ==
    /\ pc[t] = "test"
    /\ CanEnter
    /\ active' = active + 1
    /\ Goto(t, "hold")
    /\ woken' = woken \ {t}
    /\ UNCHANGED <<limit, healthy, cooldown, timer, slipped>>

Left(ticks, slip) == IF ticks >= slip THEN ticks - slip ELSE 0

\* Time passes between the two clock reads, and the second decides between
\* the bare notification and a timer.
Block(t) ==
    /\ pc[t] = "test"
    /\ ~CanEnter
    /\ \E slip \in 0..cooldown :
         /\ cooldown' = cooldown - slip
         /\ timer' = [u \in Tasks |-> IF u = t THEN cooldown - slip
                                              ELSE Left(timer[u], slip)]
         /\ Goto(t, IF slip = cooldown THEN "await" ELSE "sleep")
         /\ slipped' = IF slip = cooldown /\ cooldown > 0
                         THEN slipped \cup {t} ELSE slipped
    /\ UNCHANGED <<active, limit, healthy, woken>>

Wake(t) ==
    /\ \/ pc[t] = "await" /\ t \in woken
       \/ pc[t] = "sleep" /\ (t \in woken \/ timer[t] = 0)
    /\ Goto(t, "loop")
    /\ timer' = [timer EXCEPT ![t] = 0]
    /\ woken' = woken \ {t}
    /\ slipped' = slipped \ {t}
    /\ UNCHANGED gate

\* Dropping the future of a parked task: a stage abandons its requests.
Cancel(t) ==
    /\ pc[t] \in {"await", "sleep"}
    /\ Goto(t, "idle")
    /\ timer' = [timer EXCEPT ![t] = 0]
    /\ woken' = woken \ {t}
    /\ slipped' = slipped \ {t}
    /\ UNCHANGED gate

-----------------------------------------------------------------------------
Healthy(t) ==
    /\ pc[t] = "hold"
    /\ IF healthy + 1 >= HealthyRun
         THEN healthy' = 0 /\ limit' = Least(limit + 1, Cap)
         ELSE healthy' = healthy + 1 /\ UNCHANGED limit
    /\ Goto(t, "answered")
    /\ UNCHANGED <<active, cooldown, timer, woken, slipped>>

\* Mutants of the next action: a short pause cuts a running cooldown; halving
\* has no floor.
ThrottledCutsShort(t) ==
    /\ pc[t] = "hold"
    /\ limit' = Most(limit \div 2, 1)
    /\ healthy' = 0
    /\ \E pause \in 0..(MaxPause + 1) : cooldown' = Least(pause, MaxPause)
    /\ Goto(t, "answered")
    /\ UNCHANGED <<active, timer, woken, slipped>>

ThrottledNoFloor(t) ==
    /\ pc[t] = "hold"
    /\ limit' = limit \div 2
    /\ healthy' = 0
    /\ \E pause \in 0..(MaxPause + 1) :
         cooldown' = Most(cooldown, Least(pause, MaxPause))
    /\ Goto(t, "answered")
    /\ UNCHANGED <<active, timer, woken, slipped>>

Throttled(t) ==
    /\ pc[t] = "hold"
    /\ limit' = Most(limit \div 2, 1)
    /\ healthy' = 0
    /\ \E pause \in 0..(MaxPause + 1) :
         cooldown' = Most(cooldown, Least(pause, MaxPause))
    /\ Goto(t, "answered")
    /\ UNCHANGED <<active, timer, woken, slipped>>

NotifyAnswer(t) ==
    /\ pc[t] = "answered"
    /\ NotifyWaiters
    /\ Goto(t, "replied")
    /\ UNCHANGED <<gate, timer, slipped>>

\* Mutant: a permit dropped before any response keeps its slot.
DropLeaks(t) ==
    /\ pc[t] \in {"hold", "replied"}
    /\ active' = IF pc[t] = "hold" THEN active ELSE active - 1
    /\ Goto(t, "dropped")
    /\ UNCHANGED <<limit, healthy, cooldown, timer, woken, slipped>>

\* Permit::drop, also on an error or a cancellation before any response.
Drop(t) ==
    /\ pc[t] \in {"hold", "replied"}
    /\ active' = active - 1
    /\ Goto(t, "dropped")
    /\ UNCHANGED <<limit, healthy, cooldown, timer, woken, slipped>>

\* Mutant: the drop frees the slot and tells nobody.
NotifyDropSilent(t) ==
    /\ pc[t] = "dropped"
    /\ Goto(t, "idle")
    /\ UNCHANGED <<gate, timer, woken, slipped>>

NotifyDrop(t) ==
    /\ pc[t] = "dropped"
    /\ NotifyWaiters
    /\ Goto(t, "idle")
    /\ UNCHANGED <<gate, timer, slipped>>

Tick ==
    /\ cooldown > 0
    /\ cooldown' = cooldown - 1
    /\ timer' = [u \in Tasks |-> Left(timer[u], 1)]
    /\ UNCHANGED <<pc, active, limit, healthy, woken, slipped>>

-----------------------------------------------------------------------------
\* What a task does by itself once it has called acquire or holds a permit.
Work(t) ==
    \/ Register(t) \/ Admit(t) \/ Block(t) \/ Wake(t)
    \/ Healthy(t) \/ Throttled(t) \/ NotifyAnswer(t) \/ Drop(t) \/ NotifyDrop(t)

Next == Tick \/ \E t \in Tasks : Call(t) \/ Cancel(t) \/ Work(t)

Spec == Init /\ [][Next]_vars

\* The runtime polls every task that can run, and time passes.
FairSpec == Spec /\ WF_vars(Tick) /\ \A t \in Tasks : WF_vars(Work(t))

-----------------------------------------------------------------------------
TypeOK ==
    /\ pc \in [Tasks -> Places]
    /\ active \in Nat
    /\ limit \in 1..Cap
    /\ healthy \in 0..(HealthyRun - 1)
    /\ cooldown \in 0..MaxPause
    /\ timer \in [Tasks -> 0..MaxPause]
    /\ woken \subseteq Registered
    /\ slipped \subseteq {t \in Tasks : pc[t] = "await"}

(* The counter the mutex guards is the number of live permits: no path -   *)
(* error, retry, cancellation, throttle - leaks a slot or frees it twice.  *)
PermitAccounting == active = Cardinality(Holders)

(* No task oversleeps: whatever extends the cooldown while a task sleeps,  *)
(* its timer fires no later than the cooldown ends.                        *)
TimersEndWithCooldown == \A t \in Tasks : timer[t] <= cooldown

(* limiter.rs:37, "Register before testing capacity; this avoids a lost    *)
(* wakeup": a task parked on the notification alone is either notified     *)
(* already or some permit or pending notify_waiters is left to notify it.  *)
(* It is not so: of whom a cooldown's end strands between the clock reads  *)
(* this is violated, and the next property says what holds instead.        *)
NoStrandedWaiter ==
    \A t \in Tasks : pc[t] = "await" =>
        t \in woken \/ Holders \cup Notifiers # {}

(* Who waits is woken, and no later than the cooldown ends.  Whom the full *)
(* gate keeps out always has a permit or a pending notify_waiters to wake  *)
(* it.  Only who slipped between the two clock reads may have neither; the *)
(* gate is then open, so the next request enters, and wakes it on leaving. *)
WaitersWake ==
    /\ TimersEndWithCooldown
    /\ \A t \in Tasks :
         pc[t] = "await" /\ t \notin woken /\ Holders \cup Notifiers = {} =>
            t \in slipped /\ cooldown = 0

Waiting(t) == pc[t] \in {"loop", "test", "await", "sleep"}

(* The gate stalls for nobody else: while a request waits that did not slip *)
(* between the clock reads, somebody gets a permit or they all give up.     *)
SomebodyEnters ==
    (\E t \in Tasks : Waiting(t))
        ~> (Holders # {} \/ \A t \in Tasks : Waiting(t) => t \in slipped \ woken)

\* The gate as its callers see it.
Abstract == INSTANCE Gate WITH holders <- Holders
ImplementsGate == Abstract!GateSpec

=============================================================================
