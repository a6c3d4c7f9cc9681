-------------------------- MODULE SchedulingProofs --------------------------
(***************************************************************************)
(* How requests are scheduled, for every set of tasks, every list of items *)
(* and every configuration.  Limiter: type correctness, the accounting of  *)
(* permits, the implementation of Gate, and who is sure to be woken,       *)
(* whatever time passes between acquire's two clock reads.  Stage: one     *)
(* verdict for each request, and a breaker that is cheap and never wrong.  *)
(***************************************************************************)
EXTENDS Limiter, Stage, FiniteSetTheorems, SequenceTheorems, TLAPS

LEMMA CapPositive == Cap \in Nat \ {0} /\ Least(StartLimit, Cap) \in 1..Cap
  BY LimiterAssumption DEF Cap, Most, Least

LEMMA HoldersFinite == IsFiniteSet(Holders) /\ IsFiniteSet(Holders')
  BY LimiterAssumption, FS_Subset DEF Holders

(* Every step keeps the set of holders and the counter, admits one task    *)
(* below the limit, or lets one holder go: the two move together.          *)
LEMMA StepHolders ==
  ASSUME TypeOK, [Next]_vars
  PROVE  \/ Holders' = Holders /\ active' = active
         \/ \E t \in Tasks \ Holders :
              /\ Holders' = Holders \cup {t}
              /\ active' = active + 1
              /\ active < limit
         \/ \E t \in Holders : Holders' = Holders \ {t} /\ active' = active - 1
<1> USE DEF TypeOK, Places, Holders, gate, Goto
<1>1. CASE Tick
  BY <1>1 DEF Tick
<1>2. ASSUME NEW t \in Tasks,
             \/ Call(t) \/ Cancel(t) \/ Register(t) \/ Wake(t)
             \/ NotifyAnswer(t) \/ NotifyDrop(t)
      PROVE  Holders' = Holders /\ active' = active
  BY <1>2 DEF Call, Cancel, Register, Wake, NotifyAnswer, NotifyDrop
<1>3. ASSUME NEW t \in Tasks, Healthy(t) \/ Throttled(t)
      PROVE  Holders' = Holders /\ active' = active
  BY <1>3 DEF Healthy, Throttled
<1>4. ASSUME NEW t \in Tasks, Block(t)
      PROVE  Holders' = Holders /\ active' = active
  <2>1. pc[t] = "test" /\ active' = active
    BY <1>4 DEF Block
  <2>2. \E place \in {"await", "sleep"} : Goto(t, place)
    BY <1>4 DEF Block
  <2>3. QED
    BY <2>1, <2>2
<1>5. ASSUME NEW t \in Tasks, Admit(t)
      PROVE  t \notin Holders /\ Holders' = Holders \cup {t}
             /\ active' = active + 1 /\ active < limit
  BY <1>5 DEF Admit, CanEnter
<1>6. ASSUME NEW t \in Tasks, Drop(t)
      PROVE  t \in Holders /\ Holders' = Holders \ {t} /\ active' = active - 1
  BY <1>6 DEF Drop
<1>7. CASE UNCHANGED vars
  BY <1>7 DEF vars
<1>8. QED
  BY <1>1, <1>2, <1>3, <1>4, <1>5, <1>6, <1>7 DEF Next, Work

LEMMA StepAccounting ==
  ASSUME TypeOK, PermitAccounting, [Next]_vars
  PROVE  PermitAccounting' /\ active' \in Nat
<1> USE HoldersFinite DEF PermitAccounting
<1>1. CASE Holders' = Holders /\ active' = active
  BY <1>1 DEF TypeOK
<1>2. ASSUME NEW t \in Tasks \ Holders,
             Holders' = Holders \cup {t}, active' = active + 1
      PROVE  PermitAccounting' /\ active' \in Nat
  BY <1>2, FS_AddElement DEF TypeOK
<1>3. ASSUME NEW t \in Holders, Holders' = Holders \ {t}, active' = active - 1
      PROVE  PermitAccounting' /\ active' \in Nat
  <2>1. Cardinality(Holders') = Cardinality(Holders) - 1
    BY <1>3, FS_RemoveElement
  <2>2. Cardinality(Holders') \in Nat
    BY FS_CardinalityType
  <2>3. QED
    BY <1>3, <2>1, <2>2
<1>4. QED
  BY <1>1, <1>2, <1>3, StepHolders

(* The counter alone is not inductive: that it stays a natural number      *)
(* needs the count of holders, and the bound on timers needs that only     *)
(* sleeping tasks have one.                                                *)
IInv ==
    /\ TypeOK
    /\ PermitAccounting
    /\ TimersEndWithCooldown

LEMMA InitIInv == Init => IInv
<1> SUFFICES ASSUME Init
             PROVE  IInv
  OBVIOUS
<1>1. Holders = {}
  BY DEF Init, Holders
<1>2. PermitAccounting
  BY <1>1, FS_EmptySet DEF Init, PermitAccounting
<1>3. TypeOK /\ TimersEndWithCooldown
  BY LimiterAssumption, CapPositive
  DEF Init, TypeOK, TimersEndWithCooldown, Places, Registered
<1>4. QED
  BY <1>2, <1>3 DEF IInv

LEMMA NextIInv == IInv /\ [Next]_vars => IInv'
<1> SUFFICES ASSUME IInv, [Next]_vars
             PROVE  (TypeOK /\ TimersEndWithCooldown)'
  BY StepAccounting DEF IInv
<1>0. active' \in Nat
  BY StepAccounting DEF IInv
<1> USE <1>0, LimiterAssumption, CapPositive
    DEF IInv, TypeOK, TimersEndWithCooldown, Places, Registered, gate, Goto
<1>1. CASE Tick
  BY <1>1 DEF Tick, Left
<1>2. ASSUME NEW t \in Tasks, Call(t)
      PROVE  (TypeOK /\ TimersEndWithCooldown)'
  BY <1>2 DEF Call
<1>3. ASSUME NEW t \in Tasks, Cancel(t) \/ Wake(t)
      PROVE  (TypeOK /\ TimersEndWithCooldown)'
  BY <1>3 DEF Cancel, Wake
<1>4. ASSUME NEW t \in Tasks, Register(t)
      PROVE  (TypeOK /\ TimersEndWithCooldown)'
  BY <1>4 DEF Register
<1>5. ASSUME NEW t \in Tasks, Admit(t)
      PROVE  (TypeOK /\ TimersEndWithCooldown)'
  BY <1>5 DEF Admit, CanEnter
<1>6. ASSUME NEW t \in Tasks, Block(t)
      PROVE  (TypeOK /\ TimersEndWithCooldown)'
  <2>1. PICK slip \in 0..cooldown :
          /\ cooldown' = cooldown - slip
          /\ timer' = [u \in Tasks |-> IF u = t THEN cooldown - slip
                                               ELSE Left(timer[u], slip)]
          /\ Goto(t, IF slip = cooldown THEN "await" ELSE "sleep")
          /\ slipped' = IF slip = cooldown /\ cooldown > 0
                          THEN slipped \cup {t} ELSE slipped
    BY <1>6 DEF Block
  <2>2. UNCHANGED <<active, limit, healthy, woken>> /\ pc[t] = "test"
    BY <1>6 DEF Block
  <2>3. QED
    BY <2>1, <2>2 DEF Left
<1>7. ASSUME NEW t \in Tasks, Healthy(t)
      PROVE  (TypeOK /\ TimersEndWithCooldown)'
  BY <1>7 DEF Healthy, Least
<1>8. ASSUME NEW t \in Tasks, Throttled(t)
      PROVE  (TypeOK /\ TimersEndWithCooldown)'
  BY <1>8 DEF Throttled, Least, Most
<1>9. ASSUME NEW t \in Tasks, NotifyAnswer(t) \/ NotifyDrop(t)
      PROVE  (TypeOK /\ TimersEndWithCooldown)'
  BY <1>9 DEF NotifyAnswer, NotifyDrop, NotifyWaiters
<1>10. ASSUME NEW t \in Tasks, Drop(t)
       PROVE  (TypeOK /\ TimersEndWithCooldown)'
  BY <1>10 DEF Drop
<1>11. CASE UNCHANGED vars
  BY <1>11 DEF vars
<1>12. QED
  BY <1>1, <1>2, <1>3, <1>4, <1>5, <1>6, <1>7, <1>8, <1>9, <1>10, <1>11
  DEF Next, Work

LEMMA Inductive == Spec => []IInv
<1>1. QED
  BY InitIInv, NextIInv, PTL DEF Spec

(* Type correctness: for every configured cap, zero included, the limit    *)
(* stays in 1..Cap, the cooldown never exceeds the bound on a pause and    *)
(* only registered tasks are ever marked notified.                         *)
THEOREM TypeCorrect == Spec => []TypeOK
<1>1. IInv => TypeOK
  BY DEF IInv
<1>2. QED
  BY <1>1, Inductive, PTL

(* The counter under the mutex is the number of live permits, whatever the *)
(* order of throttles, releases, cancellations and wake-ups.               *)
THEOREM PermitsAccounted == Spec => []PermitAccounting
<1>1. IInv => PermitAccounting
  BY DEF IInv
<1>2. QED
  BY <1>1, Inductive, PTL

(* No sleeper's timer outlasts the shared cooldown.                        *)
THEOREM TimersBounded == Spec => []TimersEndWithCooldown
<1>1. IInv => TimersEndWithCooldown
  BY DEF IInv
<1>2. QED
  BY <1>1, Inductive, PTL

-----------------------------------------------------------------------------
(* The gate its callers rely on: at most Cap permits are out at once, even *)
(* while a throttle has pushed the limit below the number in flight.       *)
THEOREM GateImplemented == Spec => ImplementsGate
<1> USE DEF Abstract!GateSpec, Abstract!GateInit, Abstract!GateNext,
            Abstract!Enter, Abstract!Leave
<1>1. Init => Abstract!GateInit
  BY DEF Init, Holders
<1>2. IInv /\ [Next]_vars => [Abstract!GateNext]_Holders
  <2> SUFFICES ASSUME IInv, [Next]_vars
               PROVE  [Abstract!GateNext]_Holders
    OBVIOUS
  <2>1. ASSUME NEW t \in Tasks \ Holders,
               Holders' = Holders \cup {t}, active < limit
        PROVE  Abstract!GateNext
    <3>1. Cardinality(Holders) < Cap
      BY <2>1, CapPositive DEF IInv, TypeOK, PermitAccounting
    <3>2. Abstract!Cardinality(Holders) = Cardinality(Holders)
      BY DEF Abstract!Cardinality, Cardinality
    <3>3. QED
      BY <2>1, <3>1, <3>2
  <2>2. ASSUME NEW t \in Holders, Holders' = Holders \ {t}
        PROVE  Abstract!GateNext
    <3>1. t \in Tasks
      BY DEF Holders
    <3>2. QED
      BY <2>2, <3>1
  <2>3. QED
    BY <2>1, <2>2, StepHolders DEF IInv
<1>3. QED
  BY <1>1, <1>2, Inductive, PTL DEF Spec, ImplementsGate

-----------------------------------------------------------------------------
(* Whatever time passes between the two clock reads of acquire, whom the   *)
(* full gate keeps out is woken: it parks while a permit is out, and each  *)
(* permit wakes whom it finds.  Whom nobody is left to wake slipped        *)
(* between the reads, and stands before an open gate.                      *)
THEOREM WaitersAreWoken == Spec => []WaitersWake
<1>1. Init => WaitersWake
  BY InitIInv DEF Init, IInv, WaitersWake
<1>2. IInv /\ WaitersWake /\ [Next]_vars => WaitersWake'
  <2> DEFINE Alone(t) ==
        pc[t] = "await" /\ t \notin woken /\ Holders \cup Notifiers = {}
  <2> SUFFICES ASSUME IInv, WaitersWake, [Next]_vars,
                      NEW u \in Tasks, Alone(u)'
               PROVE  (u \in slipped /\ cooldown = 0)'
    BY NextIInv DEF IInv, WaitersWake
  <2> USE DEF IInv, TypeOK, Places, WaitersWake, Holders, Notifiers,
              Registered, gate, Goto
  <2>1. CASE Tick
    BY <2>1 DEF Tick
  <2>2. ASSUME NEW t \in Tasks, Call(t) \/ Cancel(t) \/ Wake(t) \/ Register(t)
        PROVE  (u \in slipped /\ cooldown = 0)'
    BY <2>2 DEF Call, Cancel, Wake, Register
  <2>3. ASSUME NEW t \in Tasks, Admit(t) \/ Healthy(t) \/ Throttled(t) \/ Drop(t)
        PROVE  FALSE
    BY <2>3 DEF Admit, Healthy, Throttled, Drop
  <2>4. ASSUME NEW t \in Tasks, Block(t)
        PROVE  (u \in slipped /\ cooldown = 0)'
    <3>1. PICK slip \in 0..cooldown :
            /\ cooldown' = cooldown - slip
            /\ Goto(t, IF slip = cooldown THEN "await" ELSE "sleep")
            /\ slipped' = IF slip = cooldown /\ cooldown > 0
                            THEN slipped \cup {t} ELSE slipped
      BY <2>4 DEF Block
    <3>2. pc[t] = "test" /\ ~CanEnter /\ woken' = woken
      BY <2>4 DEF Block
    <3>3. Holders \cup Notifiers = {}
      BY <3>1, <3>2
    <3>4. active = 0
      BY <3>3, FS_EmptySet DEF PermitAccounting
    <3>5. cooldown > 0
      BY <3>2, <3>4, CapPositive DEF CanEnter
    <3>6. CASE u = t
      BY <3>1, <3>5, <3>6
    <3>7. CASE u # t
      BY <3>1, <3>2, <3>3, <3>5, <3>7
    <3>8. QED
      BY <3>6, <3>7
  <2>5. ASSUME NEW t \in Tasks, NotifyAnswer(t) \/ NotifyDrop(t)
        PROVE  FALSE
    BY <2>5 DEF NotifyAnswer, NotifyDrop, NotifyWaiters
  <2>6. CASE UNCHANGED vars
    BY <2>6 DEF vars
  <2>7. QED
    BY <2>1, <2>2, <2>3, <2>4, <2>5, <2>6 DEF Next, Work
<1>3. QED
  BY <1>1, <1>2, Inductive, PTL DEF Spec

---------------------------------------------------------------------------
\* Stage

AllFailed(n) == \A i \in 1..n : result[i] = "failed"
Sound(i) == result[i] \in {"ok", "deferred"}

(* The stream keeps its order: what was started and what was handed over.  *)
InOrder ==
    /\ \A i \in 1..Items : i > started => result[i] = "unsent"
    /\ \A i \in 1..drained : result[i] \in Results
    /\ phase = "probe" => started <= Probes

(* The counter is all there is while everything failed, and what the       *)
(* breaker would have tripped for did not happen.                          *)
CountRight ==
    /\ failures <= drained
    /\ phase = "probe" => (failures = drained <=> AllFailed(drained))
    /\ (phase = "probe" /\ kept = <<>>) => failures < Breaker
    /\ (phase = "rest" \/ started > Breaker) => \E i \in 1..drained : Sound(i)

StageInv == OneVerdictEach /\ InOrder /\ CountRight /\ TripsOnlyWhenSystemic

---------------------------------------------------------------------------
(* The probe never has more than Breaker requests, nor more than there are. *)
LEMMA ProbesBounded ==
    /\ Probes \in Nat /\ Probes <= Items /\ Probes <= Breaker
    /\ Items > Probes => Probes = Breaker
  BY StageAssumption DEF Probes, Fewer

(* What is appended is behind everything in the list, and in it.           *)
LEMMA AppendNext ==
    ASSUME NEW s \in Seq(1..Items), NEW n \in Nat, n + 1 <= Items,
           Ascending(s), \A i \in DOMAIN s : s[i] <= n
    PROVE  /\ Append(s, n + 1) \in Seq(1..Items)
           /\ Ascending(Append(s, n + 1))
           /\ RangeOf(Append(s, n + 1)) = RangeOf(s) \cup {n + 1}
  <1> DEFINE t == Append(s, n + 1)
  <1>1. n + 1 \in 1..Items
    BY StageAssumption
  <1>2. /\ t \in Seq(1..Items) /\ Len(t) = Len(s) + 1 /\ DOMAIN t = 1..(Len(s) + 1)
        /\ DOMAIN s = 1..Len(s) /\ Len(s) \in Nat
        /\ \A i \in 1..Len(s) : t[i] = s[i]
        /\ t[Len(s) + 1] = n + 1
    BY <1>1
  <1>3. \A i \in 1..Len(s) : s[i] \in 1..Items /\ s[i] <= n
    <2>1. \A i \in 1..Len(s) : s[i] \in 1..Items
      BY ElementOfSeq
    <2> QED BY <2>1, <1>2
  <1>4. Ascending(t)
    <2> SUFFICES ASSUME NEW i \in 1..(Len(s) + 1), NEW j \in 1..(Len(s) + 1), i < j
                 PROVE  t[i] < t[j]
      BY <1>2 DEF Ascending
    <2>1. CASE j = Len(s) + 1
      <3>1. i \in 1..Len(s)
        BY <2>1, <1>2
      <3> QED BY <3>1, <2>1, <1>2, <1>3
    <2>2. CASE j # Len(s) + 1
      <3>1. i \in 1..Len(s) /\ j \in 1..Len(s)
        BY <2>2, <1>2
      <3> QED BY <3>1, <1>2 DEF Ascending
    <2> QED BY <2>1, <2>2
  <1>5. RangeOf(t) = RangeOf(s) \cup {n + 1}
    <2>1. RangeOf(t) \subseteq RangeOf(s) \cup {n + 1}
      BY <1>2 DEF RangeOf
    <2>2. RangeOf(s) \subseteq RangeOf(t)
      BY <1>2 DEF RangeOf
    <2>3. n + 1 \in RangeOf(t)
      BY <1>2 DEF RangeOf
    <2> QED BY <2>1, <2>2, <2>3
  <1> QED BY <1>2, <1>4, <1>5

---------------------------------------------------------------------------
LEMMA StageInitHolds == StageInit => StageInv
  <1> SUFFICES ASSUME StageInit PROVE StageInv
    OBVIOUS
  <1> USE StageAssumption DEF StageInit
  <1>1. StageTypeOK
    BY DEF StageTypeOK, Results
  <1>2. OneVerdictEach
    BY <1>1 DEF OneVerdictEach, Ascending, RangeOf
  <1>3. InOrder
    BY ProbesBounded DEF InOrder
  <1>4. CountRight
    BY DEF CountRight, AllFailed
  <1>5. TripsOnlyWhenSystemic
    BY DEF TripsOnlyWhenSystemic
  <1> QED BY <1>2, <1>3, <1>4, <1>5 DEF StageInv

(* A step that touches no result and no list changes none of the verdicts. *)
LEMMA StartKeeps == StageInv /\ Start => StageInv'
  <1> SUFFICES ASSUME StageInv, Start PROVE StageInv'
    OBVIOUS
  <1> USE StageAssumption, ProbesBounded
  <1>1. /\ StageTypeOK /\ OneVerdictEach /\ InOrder /\ CountRight /\ TripsOnlyWhenSystemic
        /\ started \in 0..Items /\ drained \in 0..started
    BY DEF StageInv, OneVerdictEach, StageTypeOK
  <1>2. started < LastOf(phase) /\ LastOf(phase) \in Nat /\ LastOf(phase) <= Items
        /\ started' = started + 1
        /\ result' = [result EXCEPT ![started + 1] = "running"]
        /\ UNCHANGED <<phase, drained, kept, skipped, failures, exhausted>>
    BY DEF Start, LastOf, Running
  <1>3. \A i \in 1..drained : result'[i] = result[i]
    BY <1>1, <1>2 DEF StageTypeOK
  <1>4. StageTypeOK'
    <2>1. started + 1 \in 1..Items /\ started' \in 0..Items /\ drained' \in 0..started'
      BY <1>1, <1>2
    <2>2. result' \in [1..Items -> Results \cup {"unsent", "running"}]
      BY <1>1, <1>2, <2>1 DEF StageTypeOK
    <2> QED BY <1>1, <1>2, <2>1, <2>2 DEF StageTypeOK
  <1>5. OneVerdictEach'
    BY <1>1, <1>2, <1>3, <1>4 DEF OneVerdictEach, Ascending, RangeOf
  <1>6. InOrder'
    BY <1>1, <1>2, <1>3 DEF InOrder, StageTypeOK, LastOf
  <1>7. CountRight'
    BY <1>1, <1>2, <1>3 DEF CountRight, AllFailed, Sound, Start, Running, LastOf
  <1>8. TripsOnlyWhenSystemic'
    BY <1>2 DEF TripsOnlyWhenSystemic, Start, Running
  <1> QED BY <1>5, <1>6, <1>7, <1>8 DEF StageInv

(* A request that ends was running, so nothing handed over changes.        *)
LEMMA FinishKeeps == ASSUME NEW i \in 1..Items PROVE StageInv /\ Finish(i) => StageInv'
  <1> SUFFICES ASSUME StageInv, Finish(i) PROVE StageInv'
    OBVIOUS
  <1> USE StageAssumption, ProbesBounded
  <1>1. /\ StageTypeOK /\ OneVerdictEach /\ InOrder /\ CountRight /\ TripsOnlyWhenSystemic
        /\ started \in 0..Items /\ drained \in 0..started
    BY DEF StageInv, OneVerdictEach, StageTypeOK
  <1>2. /\ result[i] = "running" /\ phase \in {"probe", "rest"}
        /\ UNCHANGED <<phase, started, drained, kept, skipped, failures, exhausted>>
    BY DEF Finish, Running
  <1> PICK outcome \in Results : result' = [result EXCEPT ![i] = outcome]
    BY DEF Finish
  <1>3. i \notin 1..drained /\ i <= started
    BY <1>1, <1>2 DEF InOrder, Results
  <1>4. /\ \A j \in 1..drained : result'[j] = result[j]
        /\ \A j \in 1..Items : j > started => result'[j] = result[j]
    BY <1>1, <1>3 DEF StageTypeOK
  <1>5. StageTypeOK'
    BY <1>1, <1>2 DEF StageTypeOK
  <1>6. OneVerdictEach'
    BY <1>1, <1>2, <1>4, <1>5 DEF OneVerdictEach, Ascending, RangeOf
  <1>7. InOrder'
    BY <1>1, <1>2, <1>4 DEF InOrder
  <1>8. CountRight'
    BY <1>1, <1>2, <1>4 DEF CountRight, AllFailed, Sound
  <1>9. TripsOnlyWhenSystemic'
    BY <1>2 DEF TripsOnlyWhenSystemic
  <1> QED BY <1>6, <1>7, <1>8, <1>9 DEF StageInv

(* What the two actions that hand a result over have in common.            *)
LEMMA HandedOver ==
    ASSUME StageInv, Running, drained < started
    PROVE  /\ drained \in Nat /\ started \in Nat /\ drained + 1 \in 1..Items
           /\ failures \in Nat /\ failures <= drained
           /\ \A k \in DOMAIN kept : kept[k] <= drained
           /\ \A k \in DOMAIN skipped : skipped[k] <= drained
           /\ 1..(drained + 1) = (1..drained) \cup {drained + 1}
  <1> USE StageAssumption
  <1>1. /\ started \in 0..Items /\ drained \in 0..started /\ failures \in 0..Items
        /\ failures <= drained
    BY DEF StageInv, OneVerdictEach, StageTypeOK, CountRight
  <1>2. RangeOf(kept) \subseteq 1..drained /\ RangeOf(skipped) \subseteq 1..drained
    BY DEF StageInv, OneVerdictEach
  <1>3. \A k \in DOMAIN kept : kept[k] \in 1..drained
    BY <1>2 DEF RangeOf
  <1>4. \A k \in DOMAIN skipped : skipped[k] \in 1..drained
    BY <1>2 DEF RangeOf
  <1> QED BY <1>1, <1>3, <1>4

LEMMA KeepKeeps == StageInv /\ Keep => StageInv'
  <1> SUFFICES ASSUME StageInv, Keep PROVE StageInv'
    OBVIOUS
  <1> USE StageAssumption, ProbesBounded
  <1>1. /\ StageTypeOK /\ OneVerdictEach /\ InOrder /\ CountRight
        /\ kept \in Seq(1..Items) /\ Ascending(kept) /\ Ascending(skipped)
        /\ phase \in {"probe", "rest"}
    BY DEF StageInv, OneVerdictEach, StageTypeOK, Keep, Running
  <1>2. /\ drained < started /\ result[drained + 1] = "ok"
        /\ kept' = Append(kept, drained + 1) /\ drained' = drained + 1
        /\ UNCHANGED <<phase, started, result, skipped, failures, exhausted>>
    BY DEF Keep
  <1>3. /\ drained \in Nat /\ started \in Nat /\ drained + 1 \in 1..Items
        /\ failures \in Nat /\ failures <= drained
        /\ \A k \in DOMAIN kept : kept[k] <= drained
        /\ 1..(drained + 1) = (1..drained) \cup {drained + 1}
    BY <1>2, HandedOver DEF Keep
  <1>4. /\ kept' \in Seq(1..Items) /\ Ascending(kept')
        /\ RangeOf(kept') = RangeOf(kept) \cup {drained + 1}
    <2>1. /\ kept \in Seq(1..Items) /\ Ascending(kept)
          /\ drained \in Nat /\ drained + 1 <= Items
          /\ \A k \in DOMAIN kept : kept[k] <= drained
      BY <1>1, <1>3
    <2> QED BY <2>1, <1>2, AppendNext
  <1>5. StageTypeOK'
    BY <1>1, <1>2, <1>3, <1>4 DEF StageTypeOK
  <1>6. OneVerdictEach'
    <2>1. Ascending(skipped)'
      BY <1>1, <1>2 DEF Ascending
    <2>2. RangeOf(kept)' = {i \in 1..drained' : result'[i] = "ok"}
      <3>1. RangeOf(kept)' = {i \in 1..drained : result[i] = "ok"} \cup {drained + 1}
        BY <1>1, <1>4 DEF OneVerdictEach
      <3>2. 1..drained' = (1..drained) \cup {drained + 1}
        BY <1>2, <1>3
      <3> QED BY <1>2, <3>1, <3>2
    <2>3. RangeOf(skipped)' = {i \in 1..drained' : result'[i] \in {"failed", "deferred"}}
      <3>1. RangeOf(skipped)' = {i \in 1..drained : result[i] \in {"failed", "deferred"}}
        BY <1>1, <1>2 DEF OneVerdictEach, RangeOf
      <3>2. 1..drained' = (1..drained) \cup {drained + 1}
        BY <1>2, <1>3
      <3> QED BY <1>2, <3>1, <3>2
    <2> QED BY <1>1, <1>2, <1>4, <1>5, <2>1, <2>2, <2>3 DEF OneVerdictEach
  <1>7. InOrder'
    BY <1>1, <1>2, <1>3 DEF InOrder, Results
  <1>8. kept' # <<>>
    BY <1>1, <1>2
  <1>9. CountRight'
    BY <1>1, <1>2, <1>3, <1>8 DEF CountRight, AllFailed, Sound
  <1>10. TripsOnlyWhenSystemic'
    BY <1>1, <1>2 DEF TripsOnlyWhenSystemic
  <1> QED BY <1>6, <1>7, <1>9, <1>10 DEF StageInv

(* The interesting step: the breaker counts, and may trip.                 *)
LEMMA SkipKeeps == StageInv /\ Skip => StageInv'
  <1> SUFFICES ASSUME StageInv, Skip PROVE StageInv'
    OBVIOUS
  <1> USE StageAssumption, ProbesBounded
  <1>1. /\ StageTypeOK /\ OneVerdictEach /\ InOrder /\ CountRight
        /\ skipped \in Seq(1..Items) /\ Ascending(kept) /\ Ascending(skipped)
        /\ phase \in {"probe", "rest"}
    BY DEF StageInv, OneVerdictEach, StageTypeOK, Skip, Running
  <1>2. /\ drained < started /\ result[drained + 1] \in {"failed", "deferred"}
        /\ skipped' = Append(skipped, drained + 1) /\ drained' = drained + 1
        /\ failures' = Counted /\ phase' = IF Trips THEN "tripped" ELSE phase
        /\ UNCHANGED <<started, result, kept, exhausted>>
    BY DEF Skip
  <1>3. /\ drained \in Nat /\ started \in Nat /\ drained + 1 \in 1..Items
        /\ failures \in Nat /\ failures <= drained
        /\ \A k \in DOMAIN skipped : skipped[k] <= drained
        /\ 1..(drained + 1) = (1..drained) \cup {drained + 1}
    BY <1>2, HandedOver DEF Skip
  <1>4. /\ skipped' \in Seq(1..Items) /\ Ascending(skipped')
        /\ RangeOf(skipped') = RangeOf(skipped) \cup {drained + 1}
    <2>1. /\ skipped \in Seq(1..Items) /\ Ascending(skipped)
          /\ drained \in Nat /\ drained + 1 <= Items
          /\ \A k \in DOMAIN skipped : skipped[k] <= drained
      BY <1>1, <1>3
    <2> QED BY <2>1, <1>2, AppendNext
  <1>5. /\ failures' \in 0..(drained + 1)
        /\ result[drained + 1] = "deferred" => failures' = failures
        /\ result[drained + 1] = "failed" => failures' = failures + 1
    BY <1>2, <1>3 DEF Counted
  <1>6. StageTypeOK'
    BY <1>1, <1>2, <1>3, <1>4, <1>5 DEF StageTypeOK
  <1>7. OneVerdictEach'
    <2>1. Ascending(kept)'
      BY <1>1, <1>2 DEF Ascending
    <2>2. RangeOf(kept)' = {i \in 1..drained' : result'[i] = "ok"}
      <3>1. RangeOf(kept)' = {i \in 1..drained : result[i] = "ok"}
        BY <1>1, <1>2 DEF OneVerdictEach, RangeOf
      <3>2. 1..drained' = (1..drained) \cup {drained + 1}
        BY <1>2, <1>3
      <3> QED BY <1>2, <3>1, <3>2
    <2>3. RangeOf(skipped)' = {i \in 1..drained' : result'[i] \in {"failed", "deferred"}}
      <3>1. RangeOf(skipped)' = {i \in 1..drained : result[i] \in {"failed", "deferred"}} \cup {drained + 1}
        BY <1>1, <1>4 DEF OneVerdictEach
      <3>2. 1..drained' = (1..drained) \cup {drained + 1}
        BY <1>2, <1>3
      <3> QED BY <1>2, <3>1, <3>2
    <2> QED BY <1>1, <1>2, <1>4, <1>6, <2>1, <2>2, <2>3 DEF OneVerdictEach
  <1>8. InOrder'
    BY <1>1, <1>2, <1>3 DEF InOrder, Results
  <1>9. AllFailed(drained + 1) <=> AllFailed(drained) /\ result[drained + 1] = "failed"
    BY <1>3 DEF AllFailed
  <1>10. AllFailed(drained)' <=> AllFailed(drained + 1)
    BY <1>2 DEF AllFailed
  <1>11. phase = "probe" => (failures' = drained' <=> AllFailed(drained)')
    BY <1>1, <1>2, <1>3, <1>5, <1>9, <1>10 DEF CountRight
  <1>12. CountRight'
    <2>1. phase' = "probe" => phase = "probe" /\ ~Trips
      BY <1>1, <1>2
    <2>2. (phase' = "probe" /\ kept' = <<>>) => failures' < Breaker
      BY <1>2, <1>3, <1>5, <2>1 DEF Trips
    <2>3. (phase' = "rest" \/ started' > Breaker) => \E i \in 1..drained' : Sound(i)'
      <3>1. phase' = "rest" => phase = "rest"
        BY <1>1, <1>2
      <3> QED BY <1>1, <1>2, <1>3, <3>1 DEF CountRight, Sound
    <2>4. failures' <= drained'
      BY <1>2, <1>3, <1>5
    <2> QED BY <1>11, <2>1, <2>2, <2>3, <2>4 DEF CountRight
  <1>13. TripsOnlyWhenSystemic'
    <2> SUFFICES ASSUME Trips
                 PROVE  drained' = Breaker /\ AllFailed(drained)'
      BY <1>1, <1>2, <1>10 DEF TripsOnlyWhenSystemic, AllFailed
    <2>1. phase = "probe" /\ failures' >= Breaker /\ drained + 1 <= Breaker
      BY <1>1, <1>2, <1>3 DEF Trips, InOrder
    <2>2. failures' = drained' /\ drained' = Breaker
      BY <2>1, <1>2, <1>3, <1>5
    <2> QED BY <2>1, <2>2, <1>11
  <1> QED BY <1>7, <1>8, <1>12, <1>13 DEF StageInv

(* The rest begins only when the probe heard something else than failures. *)
LEMMA NextPhaseKeeps == StageInv /\ NextPhase => StageInv'
  <1> SUFFICES ASSUME StageInv, NextPhase PROVE StageInv'
    OBVIOUS
  <1> USE StageAssumption, ProbesBounded
  <1>1. /\ StageTypeOK /\ OneVerdictEach /\ InOrder /\ CountRight
        /\ started \in 0..Items /\ drained \in 0..started
        /\ phase \in {"probe", "rest"}
    BY DEF StageInv, OneVerdictEach, StageTypeOK, NextPhase, Running
  <1>2. /\ drained = LastOf(phase) /\ failures' = 0
        /\ phase' = IF phase = "probe" /\ Items > Probes THEN "rest" ELSE "kept"
        /\ UNCHANGED <<started, drained, result, kept, skipped, exhausted>>
    BY DEF NextPhase
  <1>3. StageTypeOK'
    BY <1>1, <1>2 DEF StageTypeOK
  <1>4. phase' = "kept" => drained = Items
    BY <1>1, <1>2 DEF LastOf
  <1>5. OneVerdictEach'
    BY <1>1, <1>2, <1>3, <1>4 DEF OneVerdictEach, Ascending, RangeOf
  <1>6. InOrder'
    BY <1>1, <1>2 DEF InOrder
  <1>7. phase' = "rest" => \E i \in 1..drained : Sound(i)
    <2> SUFFICES ASSUME phase' = "rest", \A i \in 1..drained : ~Sound(i) PROVE FALSE
      OBVIOUS
    <2>1. phase = "probe" /\ drained = Breaker
      BY <1>1, <1>2 DEF LastOf
    <2>2. AllFailed(drained)
      BY <1>1 DEF AllFailed, InOrder, Results, Sound
    <2>3. kept = <<>>
      <3>1. RangeOf(kept) = {}
        BY <1>1, <2>2 DEF OneVerdictEach, AllFailed
      <3>2. kept \in Seq(1..Items)
        BY <1>1 DEF StageTypeOK
      <3>3. DOMAIN kept = 1..Len(kept) /\ Len(kept) \in Nat
        BY <3>2, LenProperties
      <3>4. DOMAIN kept = {}
        BY <3>1 DEF RangeOf
      <3>5. Len(kept) = 0
        BY <3>3, <3>4
      <3> QED BY <3>2, <3>5, EmptySeq
    <2> QED BY <1>1, <2>1, <2>2, <2>3 DEF CountRight
  <1>8. CountRight'
    BY <1>1, <1>2, <1>7 DEF CountRight, Sound
  <1>9. TripsOnlyWhenSystemic'
    BY <1>2 DEF TripsOnlyWhenSystemic
  <1> QED BY <1>5, <1>6, <1>8, <1>9 DEF StageInv

LEMMA ExhaustKeeps == StageInv /\ Exhaust => StageInv'
  BY DEF StageInv, Exhaust, OneVerdictEach, StageTypeOK, Ascending, RangeOf, InOrder, CountRight,
         AllFailed, Sound, TripsOnlyWhenSystemic

LEMMA StageNextKeeps == StageInv /\ [StageNext]_stageVars => StageInv'
  <1>1. StageInv /\ UNCHANGED stageVars => StageInv'
    BY DEF stageVars, StageInv, OneVerdictEach, StageTypeOK, Ascending, RangeOf, InOrder, CountRight,
           AllFailed, Sound, TripsOnlyWhenSystemic
  <1> QED
    BY <1>1, StartKeeps, FinishKeeps, KeepKeeps, SkipKeeps, NextPhaseKeeps, ExhaustKeeps DEF StageNext

THEOREM StageInvariance == StageSpec => []StageInv
  BY StageInitHolds, StageNextKeeps, PTL DEF StageSpec

---------------------------------------------------------------------------
(* One bad file never ends a run nor vanishes from it: run_stage and       *)
(* tolerate give every request handed over one verdict, in its order.      *)
THEOREM VerdictsExact == StageSpec => []OneVerdictEach
  <1>1. StageInv => OneVerdictEach
    BY DEF StageInv
  <1> QED BY <1>1, StageInvariance, PTL

(* An outage costs at most CIRCUIT_BREAKER requests at any concurrency, as *)
(* the rest begins only after a success or a deferral; and the breaker     *)
(* trips only when that many results were failures, and all of them.       *)
THEOREM BreakerNeverWrong == StageSpec => []BreakerExact
  <1>1. StageInv => BreakerExact
    <2> SUFFICES ASSUME StageInv PROVE SystemicFailureIsCheap
      BY DEF BreakerExact, StageInv
    <2>1. started \in 0..Items /\ drained \in 0..started
      BY DEF StageInv, OneVerdictEach, StageTypeOK
    <2>2. started > Breaker => \E i \in 1..drained : Sound(i)
      BY DEF StageInv, CountRight
    <2> QED BY <2>1, <2>2, StageAssumption DEF SystemicFailureIsCheap, Sound
  <1> QED BY <1>1, StageInvariance, PTL
=============================================================================
