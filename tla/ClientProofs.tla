---------------------------- MODULE ClientProofs ----------------------------
(***************************************************************************)
(* The meters, permits and entries of the System One client, for any       *)
(* number of calls, units, versions, retries and runs.                     *)
(*                                                                         *)
(* Turn is the table that every step of a call follows: where it goes,     *)
(* what it counts and whether it keeps its permit.  The invariants of      *)
(* permits and counters are proved from the table alone.                   *)
(***************************************************************************)
EXTENDS Client, FiniteSetTheorems, TLAPS

(* A valid answer has a version, and only a call with a retry left backs   *)
(* off.                                                                    *)
Answered ==
    /\ \A r \in Requests : pc[r] \in {"store", "orphan"} => reply[r] \in Versions
    /\ \A r \in Requests : pc[r] = "backoff" => attempt[r] < MaxRetries

At(place) == {r \in Requests : pc[r] = place}

Counters ==
    /\ BudgetLimit # Unlimited => meters.reserved <= BudgetLimit
    /\ meters.deferred = Cardinality(At("deferred"))
    /\ meters.hits = Cardinality(At("cached"))
    /\ meters.calls + Cardinality(At("flight")) <= meters.reserved

(* The calls that missed: all that are past the cache, and some of those   *)
(* that were cancelled.  Each has sent at most what its attempts allow.    *)
AfterMiss == Places \ {"new", "lookup", "cached", "cancelled"}
Used(r, k) == k < attempt[r] \/ (k = attempt[r] /\ pc[r] \notin {"gate", "reserve"})
Spent(M) == {x \in M \X (0..MaxRetries) : Used(x[1], x[2])}
Missed(M) ==
    /\ \A r \in Requests : pc[r] \in AfterMiss => r \in M
    /\ \A r \in M : pc[r] \in AfterMiss \cup {"cancelled"}
    /\ meters.misses = Cardinality(M)
    /\ meters.reserved <= Cardinality(Spent(M))
Misses == \E M \in SUBSET Requests : Missed(M)

IInv == TypeOK /\ Answered /\ PermitsHeld /\ Counters /\ Misses

---------------------------------------------------------------------------
Follows(from, to) ==
    \/ from = "new" /\ to \in {"lookup", "gate"}
    \/ from = "lookup" /\ to \in {"cached", "gate", "cancelled"}
    \/ from = "gate" /\ to \in {"reserve", "cancelled"}
    \/ from = "reserve" /\ to \in {"flight", "deferred"}
    \/ from = "flight" /\ to \in {"store", "live", "malformed", "backoff", "failed", "cancelled"}
    \/ from = "backoff" /\ to \in {"gate", "cancelled"}
    \/ from = "store" /\ to \in {"live", "orphan"}
    \/ from = "orphan" /\ to = "cancelled"

One(condition) == IF condition THEN 1 ELSE 0

Turn(r, to) ==
    /\ Follows(pc[r], to)
    /\ Goto(r, to)
    /\ holders' = IF to \in Holding THEN holders \cup {r} ELSE holders \ {r}
    /\ meters'.hits = meters.hits + One(to = "cached")
    /\ meters'.misses = meters.misses + One(pc[r] \in {"new", "lookup"} /\ to = "gate")
    /\ meters'.calls = meters.calls + One(pc[r] = "flight" /\ to \in {"store", "live", "malformed"})
    /\ meters'.reserved = meters.reserved + One(to = "flight")
    /\ meters'.deferred = meters.deferred + One(to = "deferred")
    /\ to = "flight" => BudgetLeft
    /\ to = "backoff" => attempt[r] < MaxRetries
    /\ attempt' = IF pc[r] = "backoff" /\ to = "gate" THEN [attempt EXCEPT ![r] = @ + 1]
                  ELSE attempt

LEMMA MeterNames == DOMAIN NoMeters = {"hits", "misses", "calls", "reserved", "deferred"}
  BY DEF NoMeters

(* Every step of a call is in the table.                                   *)
LEMMA StepTurns ==
    ASSUME TypeOK, PermitsHeld, NEW r \in Requests, Step(r) \/ Cancel(r)
    PROVE  \E to \in Places : Turn(r, to)
  <1> USE MeterNames DEF Turn, Follows, One, Places, Holding, Ended, Goto, Count
  <1>1. /\ pc[r] \in Places /\ holders \subseteq Requests
        /\ meters \in [DOMAIN NoMeters -> Nat]
        /\ pc[r] \in Holding <=> r \in holders
    BY DEF TypeOK, PermitsHeld
  <1>2. CASE Start(r)
    <2>1. CASE pc'[r] = "lookup"
      BY <1>1, <1>2, <2>1 DEF Start, TypeOK
    <2>2. CASE pc'[r] # "lookup"
      BY <1>1, <1>2, <2>2 DEF Start, TypeOK
    <2> QED BY <2>1, <2>2
  <1>3. CASE Lookup(r)
    BY <1>1, <1>3 DEF Lookup, fixed
  <1>4. CASE Acquire(r)
    BY <1>1, <1>4 DEF Acquire, G!Enter
  <1>5. CASE Send(r)
    BY <1>1, <1>5 DEF Send
  <1>6. CASE Defer(r)
    BY <1>1, <1>6 DEF Defer, G!Leave
  <1>7. CASE AnswerValid(r)
    BY <1>1, <1>7 DEF AnswerValid, G!Leave
  <1>8. CASE AnswerMalformed(r)
    BY <1>1, <1>8 DEF AnswerMalformed, G!Leave
  <1>9. CASE Retry(r)
    BY <1>1, <1>9 DEF Retry, G!Leave
  <1>10. CASE Fail(r)
    BY <1>1, <1>10 DEF Fail, G!Leave
  <1>11. CASE Backoff(r)
    BY <1>1, <1>11 DEF Backoff
  <1>12. CASE Store(r)
    BY <1>1, <1>12 DEF Store, G!Leave
  <1>13. CASE OrphanStore(r)
    BY <1>1, <1>13 DEF OrphanStore
  <1>14. CASE Cancel(r)
    <2>1. CASE pc[r] = "store"
      <3>1. Turn(r, "orphan")
        BY <1>1, <1>14, <2>1 DEF Cancel, G!Leave
      <3> QED BY <3>1
    <2>2. CASE pc[r] # "store"
      <3>1. Turn(r, "cancelled")
        BY <1>1, <1>14, <2>2 DEF Cancel, G!Leave
      <3> QED BY <3>1
    <2> QED BY <2>1, <2>2
  <1> QED
    BY <1>2, <1>3, <1>4, <1>5, <1>6, <1>7, <1>8, <1>9, <1>10, <1>11, <1>12, <1>13, <1>14 DEF Step

---------------------------------------------------------------------------
(* What the table says of where the calls are.                             *)
LEMMA Places1 ==
    ASSUME TypeOK, NEW r \in Requests, NEW to \in Places, Turn(r, to)
    PROVE  /\ pc' \in [Requests -> Places]
           /\ pc'[r] = to /\ \A q \in Requests \ {r} : pc'[q] = pc[q]
           /\ pc[r] \in Places /\ pc[r] # to
           /\ attempt' \in [Requests -> Nat]
           /\ \A q \in Requests \ {r} : attempt'[q] = attempt[q]
           /\ attempt'[r] = attempt[r] + One(pc[r] = "backoff" /\ to = "gate")
  <1>1. MaxRetries \in Nat
    BY ClientAssumption
  <1>2. pc \in [Requests -> Places] /\ attempt \in [Requests -> 0..MaxRetries]
    BY DEF TypeOK
  <1>3. pc[r] # to
    BY DEF Turn, Follows
  <1> QED BY <1>1, <1>2, <1>3 DEF Turn, Goto, One

LEMMA AtFinite == ASSUME NEW p PROVE IsFiniteSet(At(p)) /\ Cardinality(At(p)) \in Nat
  <1>1. At(p) \subseteq Requests /\ IsFiniteSet(Requests)
    BY ClientAssumption DEF At
  <1> QED BY <1>1, FS_Subset, FS_CardinalityType

(* A place gains the call that comes and loses the one that goes.          *)
LEMMA AtTurns ==
    ASSUME TypeOK, NEW r \in Requests, NEW to \in Places, Turn(r, to), NEW p
    PROVE  Cardinality(At(p))' = Cardinality(At(p)) + One(p = to) - One(p = pc[r])
  <1> USE Places1, AtFinite DEF One
  <1>1. CASE p = to
    <2>1. At(p)' = At(p) \cup {r} /\ r \notin At(p)
      BY <1>1 DEF At
    <2>2. Cardinality(At(p) \cup {r}) = Cardinality(At(p)) + 1
      BY <2>1, FS_AddElement
    <2> QED BY <1>1, <2>1, <2>2
  <1>2. CASE p = pc[r]
    <2>1. At(p)' = At(p) \ {r} /\ r \in At(p)
      BY <1>2 DEF At
    <2>2. Cardinality(At(p) \ {r}) = Cardinality(At(p)) - 1
      BY <2>1, FS_RemoveElement
    <2> QED BY <1>2, <2>1, <2>2
  <1>3. CASE p # to /\ p # pc[r]
    <2>1. At(p)' = At(p)
      BY <1>3 DEF At
    <2> QED BY <1>3, <2>1
  <1> QED BY <1>1, <1>2, <1>3

LEMMA PermitsTurn ==
    ASSUME TypeOK, PermitsHeld, NEW r \in Requests, NEW to \in Places, Turn(r, to)
    PROVE  PermitsHeld'
  <1>1. pc'[r] = to /\ \A q \in Requests \ {r} : pc'[q] = pc[q]
    BY Places1
  <1>2. holders' = IF to \in Holding THEN holders \cup {r} ELSE holders \ {r}
    BY DEF Turn
  <1> QED BY <1>1, <1>2 DEF PermitsHeld

LEMMA CountersTurn ==
    ASSUME TypeOK, Counters, NEW r \in Requests, NEW to \in Places, Turn(r, to)
    PROVE  Counters'
  <1>1. /\ meters.hits \in Nat /\ meters.misses \in Nat /\ meters.calls \in Nat
        /\ meters.reserved \in Nat /\ meters.deferred \in Nat
    BY MeterNames DEF TypeOK
  <1>2. BudgetLimit # Unlimited => BudgetLimit \in Nat
    BY ClientAssumption
  <1>3. Follows(pc[r], to)
    BY DEF Turn
  <1>4. ASSUME NEW p
        PROVE  Cardinality(At(p))' = Cardinality(At(p)) + One(p = to) - One(p = pc[r])
    BY AtTurns
  <1>5. \A p : Cardinality(At(p)) \in Nat
    BY AtFinite
  <1>6. BudgetLimit # Unlimited => meters'.reserved <= BudgetLimit
    BY <1>1, <1>2 DEF Turn, BudgetLeft, Counters, One
  <1>7. meters'.deferred = Cardinality(At("deferred"))'
    <2>1. meters'.deferred = meters.deferred + One(to = "deferred")
      BY DEF Turn
    <2>2. Cardinality(At("deferred"))' = Cardinality(At("deferred"))
                                         + One("deferred" = to) - One("deferred" = pc[r])
      BY <1>4
    <2>3. pc[r] # "deferred"
      BY <1>3 DEF Follows
    <2>4. meters.deferred = Cardinality(At("deferred"))
      BY DEF Counters
    <2> QED BY <1>1, <2>1, <2>2, <2>3, <2>4 DEF One
  <1>8. meters'.hits = Cardinality(At("cached"))'
    <2>1. meters'.hits = meters.hits + One(to = "cached")
      BY DEF Turn
    <2>2. Cardinality(At("cached"))' = Cardinality(At("cached"))
                                       + One("cached" = to) - One("cached" = pc[r])
      BY <1>4
    <2>3. pc[r] # "cached"
      BY <1>3 DEF Follows
    <2>4. meters.hits = Cardinality(At("cached"))
      BY DEF Counters
    <2> QED BY <1>1, <2>1, <2>2, <2>3, <2>4 DEF One
  <1>9. meters'.calls + Cardinality(At("flight"))' <= meters'.reserved
    <2>1. /\ meters'.reserved = meters.reserved + One(to = "flight")
          /\ meters'.calls = meters.calls
               + One(pc[r] = "flight" /\ to \in {"store", "live", "malformed"})
      BY DEF Turn
    <2>2. Cardinality(At("flight"))' = Cardinality(At("flight"))
                                       + One("flight" = to) - One("flight" = pc[r])
      BY <1>4
    <2>3. to = "flight" => pc[r] # "flight"
      BY <1>3 DEF Follows
    <2>4. meters.calls + Cardinality(At("flight")) <= meters.reserved
      BY DEF Counters
    <2>5. Cardinality(At("flight")) \in Nat
      BY <1>5
    <2> QED BY <1>1, <2>1, <2>2, <2>3, <2>4, <2>5 DEF One
  <1> QED
    <2>1. BudgetLimit # Unlimited => meters.reserved' <= BudgetLimit
      BY <1>6
    <2> QED BY <1>7, <1>8, <1>9, <2>1 DEF Counters

---------------------------------------------------------------------------
(* An attempt once sent stays sent, whatever its call does next.           *)
LEMMA SpentGrows ==
    ASSUME TypeOK, NEW r \in Requests, NEW to \in Places, Turn(r, to),
           NEW M \in SUBSET Requests, Missed(M),
           NEW N \in SUBSET Requests, M \subseteq N, to = "flight" => r \in M
    PROVE  /\ Spent(M) \subseteq Spent(N)'
           /\ to = "flight" =>
                <<r, attempt[r]>> \in Spent(N)' /\ <<r, attempt[r]>> \notin Spent(M)
  <1>1. /\ pc'[r] = to /\ \A q \in Requests \ {r} : pc'[q] = pc[q]
        /\ \A q \in Requests \ {r} : attempt'[q] = attempt[q]
        /\ attempt'[r] = attempt[r] + One(pc[r] = "backoff" /\ to = "gate")
    BY Places1
  <1>2. /\ MaxRetries \in Nat /\ \A q \in Requests : attempt[q] \in 0..MaxRetries
    BY ClientAssumption DEF TypeOK
  <1>3. Follows(pc[r], to)
    BY DEF Turn
  <1>4. r \in M => pc[r] \notin {"new", "lookup"}
    BY DEF Missed, AfterMiss
  <1>5. ASSUME NEW q \in M, NEW k \in 0..MaxRetries, Used(q, k)
        PROVE  k < attempt'[q] \/ (k = attempt'[q] /\ pc'[q] \notin {"gate", "reserve"})
    <2>1. CASE q # r
      BY <1>1, <1>5, <2>1 DEF Used
    <2>2. CASE q = r /\ pc[r] = "backoff" /\ to = "gate"
      BY <1>1, <1>2, <1>5, <2>2 DEF Used, One
    <2>3. CASE q = r /\ ~(pc[r] = "backoff" /\ to = "gate")
      <3>1. attempt'[r] = attempt[r]
        BY <1>1, <1>2, <2>3 DEF One
      <3>2. pc[r] \notin {"gate", "reserve"} => to \notin {"gate", "reserve"}
        BY <1>3, <1>4, <1>5, <2>3 DEF Follows
      <3> QED BY <1>1, <1>5, <2>3, <3>1, <3>2 DEF Used
    <2> QED BY <2>1, <2>2, <2>3
  <1>6. Spent(M) \subseteq Spent(N)'
    BY <1>5 DEF Spent, Used
  <1>7. CASE to = "flight"
    <2>1. pc[r] = "reserve"
      BY <1>3, <1>7 DEF Follows
    <2>2. attempt'[r] = attempt[r]
      BY <1>1, <1>2, <1>7 DEF One
    <2>3. <<r, attempt[r]>> \in Spent(N)'
      BY <1>1, <1>2, <1>7, <2>2 DEF Spent, Used
    <2>4. <<r, attempt[r]>> \notin Spent(M)
      BY <1>2, <2>1 DEF Spent, Used
    <2> QED BY <1>6, <2>3, <2>4
  <1> QED BY <1>6, <1>7

LEMMA PairsFinite ==
    ASSUME NEW M \in SUBSET Requests, NEW S, S \subseteq M \X (0..MaxRetries)
    PROVE  /\ IsFiniteSet(M) /\ Cardinality(M) \in Nat
           /\ IsFiniteSet(S) /\ Cardinality(S) \in Nat
           /\ Cardinality(S) <= Cardinality(M) * (MaxRetries + 1)
  <1>1. IsFiniteSet(M) /\ Cardinality(M) \in Nat
    BY ClientAssumption, FS_Subset, FS_CardinalityType
  <1>2. MaxRetries \in Nat
    BY ClientAssumption
  <1>3. IsFiniteSet(0..MaxRetries) /\ Cardinality(0..MaxRetries) = MaxRetries + 1
    BY <1>2, FS_Interval
  <1>4. /\ IsFiniteSet(M \X (0..MaxRetries))
        /\ Cardinality(M \X (0..MaxRetries)) = Cardinality(M) * (MaxRetries + 1)
    BY <1>1, <1>3, FS_Product
  <1>5. IsFiniteSet(S) /\ Cardinality(S) <= Cardinality(M \X (0..MaxRetries))
    BY <1>4, FS_Subset
  <1> QED BY <1>1, <1>4, <1>5, FS_CardinalityType

LEMMA MissesTurn ==
    ASSUME TypeOK, Misses, NEW r \in Requests, NEW to \in Places, Turn(r, to)
    PROVE  Misses'
  <1>1. PICK M \in SUBSET Requests : Missed(M)
    BY DEF Misses
  <1> DEFINE misses == pc[r] \in {"new", "lookup"} /\ to = "gate"
  <1>2. PICK N \in SUBSET Requests :
          M \subseteq N /\ N = IF misses THEN M \cup {r} ELSE M
    OBVIOUS
  <1>3. /\ pc'[r] = to /\ \A q \in Requests \ {r} : pc'[q] = pc[q]
        /\ pc[r] \in Places
    BY Places1
  <1>4. Follows(pc[r], to)
    BY DEF Turn
  <1>5. /\ \A q \in Requests : pc[q] \in AfterMiss => q \in M
        /\ \A q \in M : pc[q] \in AfterMiss \cup {"cancelled"}
        /\ meters.misses = Cardinality(M)
        /\ meters.reserved <= Cardinality(Spent(M))
    BY <1>1 DEF Missed
  <1>6. \A q \in Requests : pc'[q] \in AfterMiss => q \in N
    <2>1. to \in AfterMiss => pc[r] \in AfterMiss \/ misses
      BY <1>4 DEF AfterMiss, Follows, Places, Holding, Ended
    <2> QED BY <1>2, <1>3, <1>5, <2>1
  <1>7. \A q \in N : pc'[q] \in AfterMiss \cup {"cancelled"}
    <2>1. r \in M => to \in AfterMiss \cup {"cancelled"}
      BY <1>4, <1>5 DEF AfterMiss, Follows, Places, Holding, Ended
    <2>2. misses => to \in AfterMiss
      BY DEF AfterMiss, Places
    <2> QED BY <1>2, <1>3, <1>5, <2>1, <2>2
  <1>8. Cardinality(N) = Cardinality(M) + One(misses)
    <2>1. misses => r \notin M
      BY <1>5 DEF AfterMiss
    <2>2. IsFiniteSet(M) /\ Cardinality(M) \in Nat
      BY PairsFinite
    <2>3. CASE misses
      <3>1. N = M \cup {r} /\ One(misses) = 1
        BY <1>2, <2>3 DEF One
      <3>2. Cardinality(M \cup {r}) = Cardinality(M) + 1
        BY <2>1, <2>2, <2>3, FS_AddElement
      <3> QED BY <3>1, <3>2
    <2>4. CASE ~misses
      <3>1. N = M /\ One(misses) = 0
        BY <1>2, <2>4 DEF One
      <3> QED BY <2>2, <3>1
    <2> QED BY <2>3, <2>4
  <1>9. /\ meters'.misses = meters.misses + One(misses)
        /\ meters'.reserved = meters.reserved + One(to = "flight")
        /\ meters.misses \in Nat /\ meters.reserved \in Nat
    BY MeterNames DEF Turn, TypeOK
  <1> HIDE DEF misses
  <1>10. to = "flight" => r \in M
    BY <1>4, <1>5 DEF Follows, AfterMiss, Places, Holding
  <1>11. /\ Spent(M) \subseteq Spent(N)'
         /\ to = "flight" =>
              <<r, attempt[r]>> \in Spent(N)' /\ <<r, attempt[r]>> \notin Spent(M)
    BY <1>1, <1>2, <1>10, SpentGrows
  <1>12. /\ IsFiniteSet(Spent(N)') /\ Cardinality(Spent(N)') \in Nat
         /\ IsFiniteSet(Spent(M)) /\ Cardinality(Spent(M)) \in Nat
    <2>1. Spent(M) \subseteq M \X (0..MaxRetries)
      BY DEF Spent
    <2>2. Spent(N)' \subseteq N \X (0..MaxRetries)
      BY DEF Spent
    <2> QED BY <2>1, <2>2, PairsFinite
  <1>13. meters'.reserved <= Cardinality(Spent(N)')
    <2>1. CASE to = "flight"
      <3>1. Spent(M) \cup {<<r, attempt[r]>>} \subseteq Spent(N)'
        BY <1>11, <2>1
      <3>2. Cardinality(Spent(M) \cup {<<r, attempt[r]>>}) = Cardinality(Spent(M)) + 1
        BY <1>11, <1>12, <2>1, FS_AddElement
      <3>3. Cardinality(Spent(M) \cup {<<r, attempt[r]>>}) <= Cardinality(Spent(N)')
        BY <1>12, <3>1, FS_Subset
      <3> QED BY <1>5, <1>9, <1>12, <2>1, <3>2, <3>3 DEF One
    <2>2. CASE to # "flight"
      <3>1. Cardinality(Spent(M)) <= Cardinality(Spent(N)')
        BY <1>11, <1>12, FS_Subset
      <3> QED BY <1>5, <1>9, <1>12, <2>2, <3>1 DEF One
    <2> QED BY <2>1, <2>2
  <1>14. meters'.misses = Cardinality(N)
    BY <1>5, <1>8, <1>9
  <1>15. Missed(N)'
    BY <1>6, <1>7, <1>13, <1>14 DEF Missed
  <1> QED BY <1>2, <1>15 DEF Misses

---------------------------------------------------------------------------
(* Types and answers, which depend on what each step does.                 *)
Typed == TypeOK /\ Answered

LEMMA StepTyped ==
    ASSUME Typed, PermitsHeld, NEW r \in Requests, Step(r) \/ Cancel(r)
    PROVE  Typed'
  <1>1. PICK to \in Places : Turn(r, to)
    BY StepTurns DEF Typed
  <1>2. /\ pc' \in [Requests -> Places] /\ pc'[r] = to
        /\ \A q \in Requests \ {r} : pc'[q] = pc[q]
        /\ \A q \in Requests \ {r} : attempt'[q] = attempt[q]
        /\ pc[r] \in Places
    BY <1>1, Places1 DEF Typed
  <1>3. TypeOK /\ Answered
    BY DEF Typed
  <1>4. /\ MaxRetries \in Nat /\ UnitOf[r] \in Units
        /\ \A v \in Versions : v \in Nat \ {0}
    <2>1. IsFiniteSet(Versions) /\ Versions = 1..Cardinality(Versions)
      BY ClientAssumption
    <2>2. Cardinality(Versions) \in Nat
      BY <2>1, FS_CardinalityType
    <2> QED BY <2>1, <2>2, ClientAssumption
  <1>5. attempt' \in [Requests -> 0..MaxRetries]
    BY <1>1, <1>3, <1>4 DEF Turn, TypeOK, Answered
  <1>6. holders' \subseteq Requests
    BY <1>1, <1>3 DEF Turn, TypeOK
  <1>7. meters' \in [DOMAIN NoMeters -> Nat]
    <2>1. \A m \in DOMAIN NoMeters : [meters EXCEPT ![m] = @ + 1] \in [DOMAIN NoMeters -> Nat]
      BY <1>3 DEF TypeOK
    <2>2. \/ UNCHANGED meters
          \/ \E m \in {"hits", "misses", "calls", "reserved", "deferred"} : Count(m)
      BY DEF Step, Start, Lookup, Acquire, Send, Defer, AnswerValid, AnswerMalformed, Retry,
             Fail, Backoff, Store, OrphanStore, Cancel
    <2> QED BY <1>3, <2>1, <2>2, MeterNames DEF Count, TypeOK
  <1>8. /\ resolved' \in [Requests -> Versions \cup {Latest}]
        /\ known' \in Versions \cup {Latest}
    <2>1. Models \subseteq Versions \cup {Latest}
      BY ClientAssumption
    <2>2. CASE Start(r)
      BY <1>3, <2>1, <2>2 DEF Start, Resolve, TypeOK
    <2>3. CASE AnswerValid(r)
      <3>1. reply[r] \in Versions
        BY <1>3, <2>3 DEF AnswerValid, TypeOK
      <3> QED BY <1>3, <2>3, <3>1 DEF AnswerValid, RecordModel, TypeOK
    <2>4. CASE UNCHANGED <<resolved, known>>
      BY <1>3, <2>4 DEF TypeOK
    <2> QED
      BY <2>2, <2>3, <2>4 DEF Step, Lookup, Acquire, Send, Defer, AnswerMalformed, Retry,
             Fail, Backoff, Store, OrphanStore, Cancel
  <1>9. reply' \in [Requests -> Versions \cup {0}]
    <2>1. reply' = reply \/ reply' = [reply EXCEPT ![r] = 0]
      BY DEF Step, Start, Lookup, Acquire, Send, Defer, AnswerValid, AnswerMalformed, Retry,
             Fail, Backoff, Store, OrphanStore, Cancel
    <2> QED BY <1>3, <2>1 DEF TypeOK
  <1>10. cache' \in [Versions -> [Units -> Versions \cup {NoEntry}]]
    <2>1. CASE Store(r) \/ OrphanStore(r)
      <3>1. reply[r] \in Versions
        BY <1>3, <2>1 DEF Store, OrphanStore, Answered
      <3>2. \/ cache' = [cache EXCEPT ![reply[r]][UnitOf[r]] = reply[r]]
            \/ cache' = cache
        BY <2>1 DEF Store, OrphanStore, WriteEntry
      <3> DEFINE row == [cache[reply[r]] EXCEPT ![UnitOf[r]] = reply[r]]
      <3>3. row \in [Units -> Versions \cup {NoEntry}]
        <4>1. cache[reply[r]] \in [Units -> Versions \cup {NoEntry}]
          BY <1>3, <3>1 DEF TypeOK
        <4> QED BY <3>1, <4>1
      <3>4. \/ cache' = [cache EXCEPT ![reply[r]] = row]
            \/ cache' = cache
        BY <3>2
      <3> HIDE DEF row
      <3> QED BY <1>3, <3>1, <3>3, <3>4 DEF TypeOK
    <2>2. CASE UNCHANGED cache
      BY <1>3, <2>2 DEF TypeOK
    <2> QED
      BY <2>1, <2>2 DEF Step, Start, Lookup, Acquire, Send, Defer, AnswerValid,
             AnswerMalformed, Retry, Fail, Backoff, Cancel
  <1>11. /\ seen' \subseteq Versions
         /\ UNCHANGED <<model, server, run, warm>>
    <2>1. CASE AnswerValid(r)
      <3>1. reply[r] \in Versions
        BY <1>3, <2>1 DEF AnswerValid, TypeOK
      <3> QED BY <1>3, <2>1, <3>1 DEF AnswerValid, TypeOK
    <2>2. CASE UNCHANGED seen /\ ~AnswerValid(r)
      BY <1>3, <2>2 DEF Step, Start, Lookup, Acquire, Send, Defer, AnswerMalformed, Retry,
             Fail, Backoff, Store, OrphanStore, Cancel, TypeOK, fixed
    <2> QED
      BY <2>1, <2>2 DEF Step, Start, Lookup, Acquire, Send, Defer, AnswerMalformed, Retry,
             Fail, Backoff, Store, OrphanStore, Cancel, fixed
  <1>12. TypeOK'
    BY <1>2, <1>3, <1>5, <1>6, <1>7, <1>8, <1>9, <1>10, <1>11 DEF TypeOK
  <1>13. \A q \in Requests : pc'[q] \in {"store", "orphan"} => reply'[q] \in Versions
    <2>1. ASSUME NEW q \in Requests, q # r, pc'[q] \in {"store", "orphan"}
          PROVE  reply'[q] \in Versions
      <3>1. reply'[q] = reply[q]
        BY <1>3, <2>1 DEF TypeOK, Step, Start, Lookup, Acquire, Send, Defer, AnswerValid,
               AnswerMalformed, Retry, Fail, Backoff, Store, OrphanStore, Cancel
      <3> QED BY <1>2, <1>3, <2>1, <3>1 DEF Answered
    <2>2. ASSUME to \in {"store", "orphan"}
          PROVE  reply'[r] \in Versions
      <3>1. CASE AnswerValid(r)
        BY <1>3, <3>1 DEF AnswerValid, TypeOK
      <3>2. CASE Cancel(r)
        BY <1>2, <1>3, <2>2, <3>2 DEF Cancel, Goto, TypeOK, Answered
      <3>3. CASE Step(r) /\ ~AnswerValid(r)
        <4>1. Follows(pc[r], to)
          BY <1>1 DEF Turn
        <4>2. pc[r] \in {"flight", "store"}
          BY <2>2, <4>1 DEF Follows
        <4> QED
          BY <1>2, <1>3, <2>2, <3>3, <4>2 DEF TypeOK, Goto, Step, Start, Lookup, Acquire, Send,
             Defer, AnswerMalformed, Retry, Fail, Backoff, Store, OrphanStore
      <3> QED BY <3>1, <3>2, <3>3
    <2> QED BY <1>2, <2>1, <2>2
  <1>14. \A q \in Requests : pc'[q] = "backoff" => attempt'[q] < MaxRetries
    BY <1>1, <1>2, <1>3 DEF Turn, Answered, TypeOK
  <1> QED BY <1>12, <1>13, <1>14 DEF Typed, Answered

---------------------------------------------------------------------------
LEMMA Deployed == Versions \subseteq Nat \ {0} /\ 1 \in Versions
  <1>1. IsFiniteSet(Versions) /\ Versions # {} /\ Versions = 1..Cardinality(Versions)
    BY ClientAssumption
  <1>2. Cardinality(Versions) \in Nat
    BY <1>1, FS_CardinalityType
  <1> QED BY <1>1, <1>2

(* A run that begins has sent and counted nothing.                         *)
Fresh ==
    /\ pc = [r \in Requests |-> "new"]
    /\ attempt = [r \in Requests |-> 0]
    /\ holders = {}
    /\ meters = NoMeters

LEMMA FreshRun == Fresh => Answered /\ PermitsHeld /\ Counters /\ Misses
  <1> SUFFICES ASSUME Fresh PROVE Answered /\ PermitsHeld /\ Counters /\ Misses
    OBVIOUS
  <1>1. PermitsHeld /\ Answered
    BY DEF Fresh, PermitsHeld, Answered, Holding
  <1>2. /\ At("deferred") = {} /\ At("cached") = {} /\ At("flight") = {}
    BY DEF Fresh, At
  <1>3. Cardinality({}) = 0
    BY FS_EmptySet
  <1>4. Counters
    <2>1. meters.reserved = 0 /\ meters.deferred = 0 /\ meters.hits = 0 /\ meters.calls = 0
      BY DEF Fresh, NoMeters
    <2>2. BudgetLimit # Unlimited => 0 <= BudgetLimit
      BY ClientAssumption
    <2>3. 0 + Cardinality(At("flight")) <= 0
      BY <1>2, <1>3
    <2> QED BY <1>2, <1>3, <2>1, <2>2, <2>3 DEF Counters
  <1>5. Missed({})
    <2>1. Spent({}) = {}
      <3>1. {} \X (0..MaxRetries) = {}
        OBVIOUS
      <3> QED BY <3>1 DEF Spent
    <2>2. \A r \in Requests : pc[r] \notin AfterMiss
      BY DEF Fresh, AfterMiss
    <2>3. meters.misses = 0 /\ meters.reserved = 0
      BY DEF Fresh, NoMeters
    <2> QED BY <1>3, <2>1, <2>2, <2>3 DEF Missed
  <1> QED BY <1>1, <1>4, <1>5 DEF Misses

LEMMA InitHolds == Init => IInv
  <1> SUFFICES ASSUME Init PROVE IInv
    OBVIOUS
  <1>1. Fresh
    BY DEF Init, Fresh
  <1>2. MaxRetries \in Nat /\ 1 \in Versions
    BY ClientAssumption, Deployed
  <1>3. TypeOK
    <2>1. /\ pc \in [Requests -> Places] /\ meters \in [DOMAIN NoMeters -> Nat]
      BY DEF Init, Places, NoMeters
    <2>2. /\ cache \in [Versions -> [Units -> Versions \cup {NoEntry}]] /\ warm \in BOOLEAN
      BY ClientAssumption DEF Init, AllCached
    <2> QED BY <1>2, <2>1, <2>2 DEF Init, TypeOK
  <1> QED BY <1>1, <1>3, FreshRun DEF IInv

LEMMA RestartHolds ==
    ASSUME TypeOK, Restart
    PROVE  IInv'
  <1>1. Fresh'
    BY DEF Restart, Fresh
  <1>2. (Answered /\ PermitsHeld /\ Counters /\ Misses)'
    BY <1>1, FreshRun, PTL
  <1>3. MaxRetries \in Nat
    BY ClientAssumption
  <1>4. TypeOK'
    <2>1. /\ pc' \in [Requests -> Places] /\ meters' \in [DOMAIN NoMeters -> Nat]
      BY DEF Restart, Places, NoMeters
    <2>2. warm' \in BOOLEAN /\ run' \in Nat
      BY ClientAssumption DEF Restart, AllCached, TypeOK
    <2> QED BY <1>3, <2>1, <2>2 DEF Restart, TypeOK
  <1> QED BY <1>2, <1>4 DEF IInv

(* The server answers and is upgraded without any call moving.             *)
LEMMA ServerHolds ==
    ASSUME IInv, Deploy \/ \E r \in Requests : Serve(r)
    PROVE  IInv'
  <1>1. UNCHANGED <<pc, attempt, holders, meters>>
    BY DEF Deploy, Serve
  <1>2. (PermitsHeld /\ Counters)'
    BY <1>1 DEF IInv, PermitsHeld, Counters, At
  <1>3. Misses'
    <2>1. PICK M \in SUBSET Requests : Missed(M)
      BY DEF IInv, Misses
    <2>2. Missed(M)'
      BY <1>1, <2>1 DEF Missed, Spent, Used
    <2> QED BY <2>2 DEF Misses
  <1>4. (TypeOK /\ Answered)'
    <2>1. CASE Deploy
      BY <2>1 DEF IInv, Deploy, fixed, TypeOK, Answered
    <2>2. ASSUME NEW r \in Requests, Serve(r)
          PROVE  (TypeOK /\ Answered)'
      BY <2>2 DEF IInv, Serve, fixed, TypeOK, Answered
    <2> QED BY <2>1, <2>2
  <1> QED BY <1>2, <1>3, <1>4 DEF IInv

LEMMA NextHolds == IInv /\ [Next]_vars => IInv'
  <1> SUFFICES ASSUME IInv, [Next]_vars PROVE IInv'
    OBVIOUS
  <1>1. CASE Deploy \/ \E r \in Requests : Serve(r)
    BY <1>1, ServerHolds
  <1>2. CASE Restart
    BY <1>2, RestartHolds DEF IInv
  <1>3. ASSUME NEW r \in Requests, Step(r) \/ Cancel(r)
        PROVE  IInv'
    <2>1. TypeOK /\ Answered /\ PermitsHeld /\ Counters /\ Misses
      BY DEF IInv
    <2>2. PICK to \in Places : Turn(r, to)
      BY <1>3, <2>1, StepTurns
    <2>3. PermitsHeld' /\ Counters' /\ Misses'
      BY <2>1, <2>2, PermitsTurn, CountersTurn, MissesTurn
    <2>4. Typed'
      BY <1>3, <2>1, StepTyped DEF Typed
    <2> QED BY <2>3, <2>4 DEF IInv, Typed
  <1>4. CASE UNCHANGED vars
    <2>1. PICK M \in SUBSET Requests : Missed(M)
      BY DEF IInv, Misses
    <2>2. Missed(M)'
      BY <1>4, <2>1 DEF vars, Missed, Spent, Used
    <2> QED
      BY <1>4, <2>2 DEF vars, IInv, TypeOK, Answered, PermitsHeld, Counters, At, Misses
  <1> QED BY <1>1, <1>2, <1>3, <1>4 DEF Next

(* The invariant of the client: what StepTurns' table preserves.           *)
THEOREM Invariance == Spec => []IInv
  BY InitHolds, NextHolds, PTL DEF Spec

LEMMA BudgetFollows == IInv => BudgetHolds
  <1> SUFFICES ASSUME IInv PROVE BudgetHolds
    OBVIOUS
  <1>1. PICK M \in SUBSET Requests : Missed(M)
    BY DEF IInv, Misses
  <1>2. /\ meters.hits \in Nat /\ meters.misses \in Nat /\ meters.calls \in Nat
        /\ meters.reserved \in Nat
    BY MeterNames DEF IInv, TypeOK
  <1>3. /\ meters.misses = Cardinality(M) /\ meters.reserved <= Cardinality(Spent(M))
        /\ meters.hits = Cardinality(At("cached"))
        /\ \A r \in Requests : pc[r] \in AfterMiss => r \in M
        /\ \A r \in M : pc[r] \in AfterMiss \cup {"cancelled"}
    BY <1>1 DEF Missed, IInv, Counters
  <1>4. Spent(M) \subseteq M \X (0..MaxRetries)
    BY DEF Spent
  <1>5. /\ IsFiniteSet(M) /\ Cardinality(M) \in Nat /\ Cardinality(Spent(M)) \in Nat
        /\ Cardinality(Spent(M)) <= Cardinality(M) * (MaxRetries + 1)
    BY <1>4, PairsFinite
  <1>6. meters.reserved <= meters.misses * (MaxRetries + 1)
    <2>1. MaxRetries \in Nat
      BY ClientAssumption
    <2>2. Cardinality(M) * (MaxRetries + 1) \in Nat
      BY <1>5, <2>1
    <2> QED BY <1>2, <1>3, <1>5, <2>2
  <1>7. /\ IsFiniteSet(At("cached")) /\ At("cached") \cap M = {}
        /\ At("cached") \cup M \subseteq Requests
    BY <1>3, AtFinite DEF At, AfterMiss
  <1>8. Cardinality(At("cached") \cup M) = meters.hits + meters.misses
    <2>1. Cardinality({}) = 0
      BY FS_EmptySet
    <2>2. Cardinality(At("cached") \cup M)
            = Cardinality(At("cached")) + Cardinality(M) - Cardinality(At("cached") \cap M)
      BY <1>5, <1>7, FS_Union
    <2>3. Cardinality(At("cached") \cap M) = 0
      BY <1>7, <2>1
    <2> QED BY <1>2, <1>3, <2>2, <2>3
  <1>9. meters.hits + meters.misses <= Cardinality(Requests)
    BY <1>7, <1>8, ClientAssumption, FS_Subset
  <1>10. ASSUME \A r \in Requests : pc[r] \in Ended \ {"cancelled"}
         PROVE  meters.hits + meters.misses = Cardinality(Requests)
    <2>1. \A r \in Requests : r \in At("cached") \/ r \in M
      BY <1>3, <1>10 DEF At, AfterMiss, Places, Ended
    <2>2. At("cached") \cup M = Requests
      BY <1>7, <2>1
    <2> QED BY <1>8, <2>2
  <1>11. meters.calls <= meters.reserved
    <2>1. meters.calls + Cardinality(At("flight")) <= meters.reserved
      BY DEF IInv, Counters
    <2>2. Cardinality(At("flight")) \in Nat
      BY AtFinite
    <2> QED BY <1>2, <2>1, <2>2
  <1> QED BY <1>6, <1>9, <1>10, <1>11 DEF BudgetHolds, IInv, Counters, At

(* For any number of calls, retries, runs and versions, what is counted is *)
(* what happens: a permit is out exactly while a call needs one, a run     *)
(* sends no more than its budget, and each call is a hit, a miss or still  *)
(* undecided (TypeSafeClient::system_one, CallBudget, CacheStats).         *)
THEOREM MetersNeverWrong == Spec => []MetersExact
  <1>1. IInv => MetersExact
    BY BudgetFollows DEF IInv, MetersExact
  <1> QED BY <1>1, Invariance, PTL

(* Whatever a call stores, and however late, the file of a version gets an *)
(* answer of that version (ResultCache::store).                            *)
THEOREM EntriesSound == Spec => OnlySoundEntries
  <1> DEFINE Sound == \A v \in Versions, u \in Units :
                        cache'[v][u] # cache[v][u] => cache'[v][u] = v
  <1>1. ASSUME IInv, [Next]_vars
        PROVE  [Sound]_cache
    <2>1. SUFFICES ASSUME cache' # cache PROVE Sound
      OBVIOUS
    <2>2. PICK r \in Requests : Store(r) \/ OrphanStore(r)
      BY <1>1, <2>1 DEF vars, Next, Deploy, Restart, Serve, Cancel, Step, Start, Lookup, Acquire,
         Send, Defer, AnswerValid, AnswerMalformed, Retry, Fail, Backoff
    <2>3. /\ cache' = [cache EXCEPT ![reply[r]][UnitOf[r]] = reply[r]]
          /\ cache \in [Versions -> [Units -> Versions \cup {NoEntry}]]
      BY <1>1, <2>1, <2>2 DEF Store, OrphanStore, WriteEntry, IInv, TypeOK
    <2> QED BY <2>3
  <1> QED BY <1>1, Invariance, PTL DEF Spec, OnlySoundEntries

---------------------------------------------------------------------------
(* Only this run's responses resolve the alias; a warm run has a file for  *)
(* every call and has asked the server nothing.                            *)
Resolved ==
    /\ known # Latest => known \in seen
    /\ \A r \in Requests : pc[r] \in {"lookup", "cached"} =>
         CacheEnabled /\ (model = Latest => resolved[r] \in seen)

Warm ==
    warm => /\ CacheEnabled /\ known = Latest /\ AllCached(cache)
            /\ meters.reserved = 0 /\ meters.misses = 0
            /\ \A r \in Requests :
                 /\ pc[r] \in {"new", "lookup", "cached", "cancelled"}
                 /\ pc[r] = "lookup" => resolved[r] = model

Trust == Resolved /\ Warm

Begun ==
    /\ known = Latest /\ meters = NoMeters
    /\ \A r \in Requests : pc[r] = "new"
    /\ warm = (CacheEnabled /\ AllCached(cache))

LEMMA TrustBegins == Begun => Trust
  <1> SUFFICES ASSUME Begun PROVE Trust
    OBVIOUS
  <1>1. meters.reserved = 0 /\ meters.misses = 0
    BY DEF Begun, NoMeters
  <1> QED BY <1>1 DEF Begun, Trust, Resolved, Warm

LEMMA TrustStep ==
    ASSUME TypeOK, PermitsHeld, Trust, NEW r \in Requests, Step(r) \/ Cancel(r)
    PROVE  Trust'
  <1>1. PICK to \in Places : Turn(r, to)
    BY StepTurns
  <1>2. /\ pc'[r] = to /\ \A q \in Requests \ {r} : pc'[q] = pc[q]
        /\ Follows(pc[r], to)
    BY <1>1, Places1 DEF Turn
  <1>3. /\ resolved \in [Requests -> Versions \cup {Latest}] /\ reply[r] \in Versions \cup {0}
        /\ known \in Versions \cup {Latest} /\ seen \subseteq Versions
    BY DEF TypeOK
  <1>4. UNCHANGED <<model, warm>> /\ seen \subseteq seen'
    BY DEF Step, Start, Lookup, Acquire, Send, Defer, AnswerValid, AnswerMalformed, Retry,
           Fail, Backoff, Store, OrphanStore, Cancel, fixed
  <1>5. \/ UNCHANGED known
        \/ AnswerValid(r) /\ known' \in seen'
    BY DEF Step, Start, Lookup, Acquire, Send, Defer, AnswerValid, AnswerMalformed, Retry,
           Fail, Backoff, Store, OrphanStore, Cancel, fixed, RecordModel
  <1>6. /\ \A q \in Requests \ {r} : resolved'[q] = resolved[q]
        /\ ~Start(r) => resolved' = resolved
    BY <1>3 DEF Step, Start, Lookup, Acquire, Send, Defer, AnswerValid, AnswerMalformed, Retry,
           Fail, Backoff, Store, OrphanStore, Cancel, fixed
  <1>7. ASSUME Start(r)
        PROVE  /\ resolved'[r] = Resolve /\ UNCHANGED <<known, cache, seen>>
               /\ to = IF CacheEnabled /\ Resolve # Latest THEN "lookup" ELSE "gate"
    BY <1>2, <1>3, <1>7 DEF Start, Goto, TypeOK
  <1>8. Resolved'
    <2>1. known' # Latest => known' \in seen'
      BY <1>4, <1>5 DEF Trust, Resolved
    <2>2. ASSUME NEW q \in Requests, q # r, pc'[q] \in {"lookup", "cached"}
          PROVE  CacheEnabled /\ (model = Latest => resolved'[q] \in seen')
      BY <1>2, <1>4, <1>6, <2>2 DEF Trust, Resolved
    <2>3. ASSUME to \in {"lookup", "cached"}
          PROVE  CacheEnabled /\ (model = Latest => resolved'[r] \in seen')
      <3>1. CASE Start(r)
        BY <1>4, <1>7, <2>3, <3>1 DEF Trust, Resolved, Resolve
      <3>2. CASE ~Start(r)
        <4>1. pc[r] = "lookup"
          BY <1>2, <2>3, <3>2 DEF Follows, Step, Lookup, Acquire, Send, Defer, AnswerValid,
             AnswerMalformed, Retry, Fail, Backoff, Store, OrphanStore, Cancel
        <4> QED BY <1>4, <1>6, <3>2, <4>1 DEF Trust, Resolved
      <3> QED BY <3>1, <3>2
    <2> QED BY <1>2, <1>4, <2>1, <2>2, <2>3 DEF Resolved
  <1>9. Warm'
    <2> SUFFICES ASSUME warm PROVE Warm'
      BY <1>4 DEF Warm
    <2>1. /\ CacheEnabled /\ known = Latest /\ AllCached(cache)
          /\ meters.reserved = 0 /\ meters.misses = 0
          /\ \A q \in Requests :
               /\ pc[q] \in {"new", "lookup", "cached", "cancelled"}
               /\ pc[q] = "lookup" => resolved[q] = model
      BY DEF Trust, Warm
    <2>2. model # Latest /\ cache[model][UnitOf[r]] = model /\ Resolve = model
      BY <2>1 DEF AllCached, Resolve
    <2>3. Start(r) \/ Lookup(r) \/ (Cancel(r) /\ pc[r] = "lookup")
      BY <2>1 DEF Step, Acquire, Send, Defer, AnswerValid, AnswerMalformed, Retry,
         Fail, Backoff, Store, OrphanStore, Cancel
    <2>4. UNCHANGED <<known, cache>>
      BY <2>3 DEF Start, Lookup, Cancel
    <2>5. \/ to = "lookup" /\ resolved'[r] = model
          \/ to \in {"cached", "cancelled"}
      <3>1. CASE Start(r)
        BY <1>7, <2>1, <2>2, <3>1
      <3>2. CASE Lookup(r)
        BY <1>2, <1>3, <2>1, <2>2, <3>2 DEF Lookup, Goto, TypeOK
      <3>3. CASE Cancel(r) /\ pc[r] = "lookup"
        BY <1>2, <3>3 DEF Cancel, Goto, TypeOK
      <3> QED BY <2>3, <3>1, <3>2, <3>3
    <2>6. meters'.reserved = 0 /\ meters'.misses = 0
      BY <1>1, <2>1, <2>5 DEF Turn, One
    <2>7. \A q \in Requests : /\ pc'[q] \in {"new", "lookup", "cached", "cancelled"}
                              /\ pc'[q] = "lookup" => resolved'[q] = model
      BY <1>2, <1>6, <2>1, <2>5
    <2>8. AllCached(cache)'
      BY <1>4, <2>1, <2>4 DEF AllCached
    <2> QED BY <1>4, <2>1, <2>4, <2>6, <2>7, <2>8 DEF Warm
  <1> QED BY <1>8, <1>9 DEF Trust

(* For any number of calls, runs and versions: the cache serves an alias   *)
(* only as a version that this run heard of, and a rerun over a complete   *)
(* cache of a pinned model sends nothing (ResultCache::resolve_model and   *)
(* lookup).                                                                *)
THEOREM CacheNeverMisleads == Spec => []CacheIsTrusted
  <1>1. Init => Trust
    <2>1. Init => Begun
      BY DEF Init, Begun
    <2> QED BY <2>1, TrustBegins
  <1>2. IInv /\ Trust /\ [Next]_vars => Trust'
    <2> SUFFICES ASSUME IInv, Trust, [Next]_vars PROVE Trust'
      OBVIOUS
    <2>1. CASE Restart
      <3>1. Begun'
        BY <2>1 DEF Restart, Begun, AllCached
      <3> QED BY <3>1, TrustBegins, PTL
    <2>2. ASSUME NEW r \in Requests, Step(r) \/ Cancel(r)
          PROVE  Trust'
      BY <2>2, TrustStep DEF IInv
    <2>3. CASE Deploy \/ (\E r \in Requests : Serve(r)) \/ UNCHANGED vars
      <3>1. UNCHANGED <<model, pc, resolved, known, cache, meters, seen, warm>>
        BY <2>3 DEF Deploy, Serve, vars, fixed
      <3> QED BY <3>1 DEF Trust, Resolved, Warm, AllCached
    <2> QED BY <2>1, <2>2, <2>3 DEF Next
  <1>3. Trust => CacheIsTrusted
    BY DEF Trust, Resolved, Warm, CacheIsTrusted, AliasObservedLive, WarmRunIsFree
  <1> QED BY <1>1, <1>2, <1>3, Invariance, PTL DEF Spec
=============================================================================
