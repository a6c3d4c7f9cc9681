------------------------------- MODULE Client -------------------------------
(***************************************************************************)
(* review/typesafe.rs TypeSafeClient::system_one, with the CallBudget it   *)
(* reserves attempts from (review/budget.rs) and the ResultCache in front  *)
(* of the server (adapters/cache.rs).  One process runs many calls at once *)
(* and may crash and be run again; only the cache directory survives.      *)
(*                                                                         *)
(* Model versions are numbers in the order the server deploys them, and    *)
(* Latest is the mutable alias.  The permit of the adaptive gate is the    *)
(* abstract one of Gate, which Limiter implements.                         *)
(***************************************************************************)
EXTENDS Naturals, FiniteSets

CONSTANTS Requests,      \* the calls of one run
          Units,         \* distinct (questions, redacted state) pairs
          UnitOf,        \* the unit each call asks about
          Versions,      \* 1..n: the versions the server deploys in turn
          Models,        \* the models a run may be configured with: Latest, versions
          CacheEnabled,  \* FALSE under --no-cache
          BudgetLimit,   \* --budget calls=N, or Unlimited
          Unlimited,
          MaxRetries,    \* 3
          GateCap,
          MaxRuns        \* bound: how many times the program is run

Latest  == 0
NoEntry == 0   \* absent, unreadable, not JSON, or with invalid answers

ASSUME ClientAssumption ==
    /\ IsFiniteSet(Requests)
    /\ UnitOf \in [Requests -> Units]
    /\ IsFiniteSet(Versions) /\ Versions # {}
    /\ Versions = 1..Cardinality(Versions)
    /\ Models \subseteq Versions \cup {Latest}
    /\ CacheEnabled \in BOOLEAN
    /\ Unlimited \notin Nat
    /\ BudgetLimit \in Nat \cup {Unlimited}
    /\ MaxRetries \in Nat
    /\ GateCap \in Nat \ {0}
    /\ MaxRuns \in Nat

VARIABLES model,     \* TYPESAFE_DEFAULT_MODEL, the same in every run
          pc,        \* where each call is
          resolved,  \* resolve_model's answer when the call started
          attempt,   \* the retry loop's counter
          reply,     \* the version that served the call in flight, 0 before
          known,     \* the alias map: what model resolves to, Latest if unknown
          cache,     \* the directory: the version whose answer each file holds
          server,    \* the version deployed now
          holders,   \* calls that hold a permit of the gate
          meters,    \* hits, misses, calls, reserved, deferred
          run,       \* how many times the program has been started
          seen,      \* history: versions that valid responses of this run named
          warm       \* history: every unit was cached for model when the run began

vars == <<model, pc, resolved, attempt, reply, known, cache, server, holders, meters,
          run, seen, warm>>
fixed == <<model, run, seen, warm>>

Ended == {"cached", "live", "malformed", "failed", "deferred", "cancelled"}
Holding == {"reserve", "flight", "store"}
Places == {"new", "lookup", "gate", "backoff", "orphan"} \cup Holding \cup Ended

G == INSTANCE Gate WITH Tasks <- Requests, Cap <- GateCap

Goto(r, place) == pc' = [pc EXCEPT ![r] = place]
Count(meter) == meters' = [meters EXCEPT ![meter] = @ + 1]

\* ResultCache::resolve_model
Resolve == IF known = Latest THEN model ELSE known

AllCached(files) == \A r \in Requests : model # Latest /\ files[model][UnitOf[r]] = model

NoMeters == [hits |-> 0, misses |-> 0, calls |-> 0, reserved |-> 0, deferred |-> 0]

-----------------------------------------------------------------------------
\* Mutant: a resolution saved by an earlier run is trusted.
InitTrustsDisk ==
    /\ model \in Models
    /\ pc = [r \in Requests |-> "new"]
    /\ resolved = [r \in Requests |-> Latest]
    /\ attempt = [r \in Requests |-> 0]
    /\ reply = [r \in Requests |-> 0]
    /\ known = 1
    /\ cache = [v \in Versions |-> [u \in Units |-> v]]
    /\ warm = FALSE
    /\ server = 1
    /\ holders = {}
    /\ meters = NoMeters
    /\ run = 1
    /\ seen = {}

Init ==
    /\ model \in Models
    /\ pc = [r \in Requests |-> "new"]
    /\ resolved = [r \in Requests |-> Latest]
    /\ attempt = [r \in Requests |-> 0]
    /\ reply = [r \in Requests |-> 0]
    /\ known = Latest
    /\ \E files \in [Versions -> [Units -> Versions \cup {NoEntry}]] :
         /\ \A v \in Versions, u \in Units : files[v][u] \in {NoEntry, v}
         /\ cache = files
         /\ warm = (CacheEnabled /\ AllCached(files))
    /\ server = 1
    /\ holders = {}
    /\ meters = NoMeters
    /\ run = 1
    /\ seen = {}

\* Mutant: any name the run has not resolved yet is taken for an alias.
StartMisjudgesPinned(r) ==
    /\ pc[r] = "new"
    /\ resolved' = [resolved EXCEPT ![r] = Resolve]
    /\ IF CacheEnabled /\ known # Latest
         THEN Goto(r, "lookup") /\ UNCHANGED meters
         ELSE Goto(r, "gate") /\ Count("misses")
    /\ UNCHANGED <<attempt, reply, known, cache, server, holders, model, run, seen, warm>>

\* The cache is consulted unless it is off or the alias is still unresolved.
Start(r) ==
    /\ pc[r] = "new"
    /\ resolved' = [resolved EXCEPT ![r] = Resolve]
    /\ IF CacheEnabled /\ Resolve # Latest
         THEN Goto(r, "lookup") /\ UNCHANGED meters
         ELSE Goto(r, "gate") /\ Count("misses")
    /\ UNCHANGED <<attempt, reply, known, cache, server, holders, model, run, seen, warm>>

\* lookup resolves the model again, in a blocking thread; the answer counts
\* only when it names the model resolved when the call started.
Lookup(r) ==
    /\ pc[r] = "lookup"
    /\ IF cache[Resolve][UnitOf[r]] = resolved[r]
         THEN Goto(r, "cached") /\ Count("hits")
         ELSE Goto(r, "gate") /\ Count("misses")
    /\ UNCHANGED <<resolved, attempt, reply, known, cache, server, holders, fixed>>

Acquire(r) ==
    /\ pc[r] = "gate"
    /\ G!Enter(r)
    /\ Goto(r, "reserve")
    /\ UNCHANGED <<resolved, attempt, reply, known, cache, server, meters, fixed>>

\* Mutant: the ceiling is tested after the fact.
BudgetLeftOneMore == BudgetLimit # Unlimited => meters.reserved <= BudgetLimit

BudgetLeft == BudgetLimit # Unlimited => meters.reserved < BudgetLimit

\* CallBudget::reserve, then the request is on the wire.
Send(r) ==
    /\ pc[r] = "reserve"
    /\ BudgetLeft
    /\ Count("reserved")
    /\ reply' = [reply EXCEPT ![r] = 0]
    /\ Goto(r, "flight")
    /\ UNCHANGED <<resolved, attempt, known, cache, server, holders, fixed>>

Defer(r) ==
    /\ pc[r] = "reserve"
    /\ ~BudgetLeft
    /\ Count("deferred")
    /\ G!Leave(r)
    /\ Goto(r, "deferred")
    /\ UNCHANGED <<resolved, attempt, reply, known, cache, server, fixed>>

-----------------------------------------------------------------------------
\* The server answers with the version deployed when it handles the request.
Serve(r) ==
    /\ pc[r] = "flight" /\ reply[r] = 0
    /\ reply' = [reply EXCEPT ![r] = server]
    /\ UNCHANGED <<pc, resolved, attempt, known, cache, server, holders, meters, fixed>>

Deploy ==
    /\ server + 1 \in Versions
    /\ server' = server + 1
    /\ UNCHANGED <<pc, resolved, attempt, reply, known, cache, holders, meters, fixed>>

\* ResultCache::record_model: an answer under the requested name changes nothing.
RecordModel(v) == known' = IF v = model THEN known ELSE v

\* A response with valid answers; the permit is kept until the store is done.
AnswerValid(r) ==
    /\ pc[r] = "flight" /\ reply[r] # 0
    /\ Count("calls")
    /\ RecordModel(reply[r])
    /\ seen' = seen \cup {reply[r]}
    /\ IF CacheEnabled
         THEN Goto(r, "store") /\ UNCHANGED holders
         ELSE Goto(r, "live") /\ G!Leave(r)
    /\ UNCHANGED <<resolved, attempt, reply, cache, server, model, run, warm>>

\* A response that parses with invalid answers is returned, never remembered.
AnswerMalformed(r) ==
    /\ pc[r] = "flight" /\ reply[r] # 0
    /\ Count("calls")
    /\ G!Leave(r)
    /\ Goto(r, "malformed")
    /\ UNCHANGED <<resolved, attempt, reply, known, cache, server, fixed>>

\* Mutants: one retry too many; the permit is kept through the backoff.
RetryOnceMore(r) ==
    /\ pc[r] = "flight"
    /\ attempt[r] <= MaxRetries
    /\ G!Leave(r)
    /\ Goto(r, "backoff")
    /\ UNCHANGED <<resolved, attempt, reply, known, cache, server, meters, fixed>>

RetryKeepsPermit(r) ==
    /\ pc[r] = "flight"
    /\ attempt[r] < MaxRetries
    /\ Goto(r, "backoff")
    /\ UNCHANGED <<resolved, attempt, reply, known, cache, server, holders, meters, fixed>>

\* A connect error, a timeout, 429, 529 or 5xx, before the retries run out.
Retry(r) ==
    /\ pc[r] = "flight"
    /\ attempt[r] < MaxRetries
    /\ G!Leave(r)
    /\ Goto(r, "backoff")
    /\ UNCHANGED <<resolved, attempt, reply, known, cache, server, meters, fixed>>

\* The same after the last retry, another status, or an unreadable body.
Fail(r) ==
    /\ pc[r] = "flight"
    /\ G!Leave(r)
    /\ Goto(r, "failed")
    /\ UNCHANGED <<resolved, attempt, reply, known, cache, server, meters, fixed>>

Backoff(r) ==
    /\ pc[r] = "backoff"
    /\ attempt' = [attempt EXCEPT ![r] = @ + 1]
    /\ Goto(r, "gate")
    /\ UNCHANGED <<resolved, reply, known, cache, server, holders, meters, fixed>>

\* Mutant: the entry is filed under what the alias resolves to by now.
WriteEntryResolved(r) ==
    \/ cache' = [cache EXCEPT ![Resolve][UnitOf[r]] = reply[r]]
    \/ UNCHANGED cache

\* ResultCache::store under the version that answered; a failed write is silent.
WriteEntry(r) ==
    \/ cache' = [cache EXCEPT ![reply[r]][UnitOf[r]] = reply[r]]
    \/ UNCHANGED cache

Store(r) ==
    /\ pc[r] = "store"
    /\ WriteEntry(r)
    /\ G!Leave(r)
    /\ Goto(r, "live")
    /\ UNCHANGED <<resolved, attempt, reply, known, server, meters, fixed>>

-----------------------------------------------------------------------------
\* A stage drops the future at an await.  The blocking store thread goes on.
Cancel(r) ==
    /\ pc[r] \in {"lookup", "gate", "flight", "store", "backoff"}
    /\ Goto(r, IF pc[r] = "store" THEN "orphan" ELSE "cancelled")
    /\ IF pc[r] \in Holding THEN G!Leave(r) ELSE UNCHANGED holders
    /\ UNCHANGED <<resolved, attempt, reply, known, cache, server, meters, fixed>>

OrphanStore(r) ==
    /\ pc[r] = "orphan"
    /\ WriteEntry(r)
    /\ Goto(r, "cancelled")
    /\ UNCHANGED <<resolved, attempt, reply, known, server, holders, meters, fixed>>

\* The process dies anywhere and is run again over the same directory.
Restart ==
    /\ run < MaxRuns
    /\ run' = run + 1
    /\ pc' = [r \in Requests |-> "new"]
    /\ resolved' = [r \in Requests |-> Latest]
    /\ attempt' = [r \in Requests |-> 0]
    /\ reply' = [r \in Requests |-> 0]
    /\ known' = Latest
    /\ holders' = {}
    /\ meters' = NoMeters
    /\ seen' = {}
    /\ warm' = (CacheEnabled /\ AllCached(cache))
    /\ UNCHANGED <<model, cache, server>>

Step(r) ==
    \/ Start(r) \/ Lookup(r) \/ Acquire(r) \/ Send(r) \/ Defer(r)
    \/ AnswerValid(r) \/ AnswerMalformed(r) \/ Retry(r) \/ Fail(r)
    \/ Backoff(r) \/ Store(r) \/ OrphanStore(r)

Next ==
    \/ Deploy
    \/ Restart
    \/ \E r \in Requests : Step(r) \/ Serve(r) \/ Cancel(r)

Spec == Init /\ [][Next]_vars

\* Every future is polled; a call in flight ends, at the client's timeout at
\* the latest, so Step is never stuck on a silent server.
FairSpec == Spec /\ \A r \in Requests : WF_vars(Step(r))

-----------------------------------------------------------------------------
TypeOK ==
    /\ model \in Models
    /\ pc \in [Requests -> Places]
    /\ resolved \in [Requests -> Versions \cup {Latest}]
    /\ attempt \in [Requests -> 0..MaxRetries]
    /\ reply \in [Requests -> Versions \cup {0}]
    /\ known \in Versions \cup {Latest}
    /\ cache \in [Versions -> [Units -> Versions \cup {NoEntry}]]
    /\ server \in Versions
    /\ holders \subseteq Requests
    /\ meters \in [DOMAIN NoMeters -> Nat]
    /\ run \in Nat
    /\ seen \subseteq Versions
    /\ warm \in BOOLEAN

(* A permit is out exactly while a call reserves, waits for its response   *)
(* or stores it: not while it backs off, and never after it ended.         *)
PermitsHeld == holders = {r \in Requests : pc[r] \in Holding}

(* A run never sends more HTTP attempts, retries included, than its budget *)
(* allows, and reports one deferral per call it turned away and one hit or *)
(* miss per call past its lookup, whatever became of it.                   *)
BudgetHolds ==
    /\ BudgetLimit # Unlimited => meters.reserved <= BudgetLimit
    /\ meters.deferred = Cardinality({r \in Requests : pc[r] = "deferred"})
    /\ meters.hits = Cardinality({r \in Requests : pc[r] = "cached"})
    /\ meters.hits + meters.misses <= Cardinality(Requests)
    /\ (\A r \in Requests : pc[r] \in Ended \ {"cancelled"}) =>
         meters.hits + meters.misses = Cardinality(Requests)
    /\ meters.calls <= meters.reserved
    /\ meters.reserved <= meters.misses * (MaxRetries + 1)

(* What is counted is what happens: permits, attempts, hits and deferrals. *)
MetersExact == TypeOK /\ PermitsHeld /\ BudgetHolds

(* An answer served from the cache for an alias is of a version that a     *)
(* valid response of this very run named: the directory alone never        *)
(* resolves an alias.                                                      *)
AliasObservedLive ==
    \A r \in Requests : pc[r] = "cached" /\ model = Latest =>
        resolved[r] \in seen

(* What a response leaves in the directory is an answer of the version in  *)
(* the file's key, however late it arrives and whatever the alias became.  *)
OnlySoundEntries ==
    [][\A v \in Versions, u \in Units :
         cache'[v][u] # cache[v][u] => cache'[v][u] = v]_cache

(* A rerun over a complete cache of a pinned model sends nothing, so it    *)
(* succeeds under any budget, zero included.                               *)
WarmRunIsFree ==
    warm => /\ meters.reserved = 0 /\ meters.misses = 0
            /\ \A r \in Requests : pc[r] \in {"new", "lookup", "cached", "cancelled"}

(* The directory neither resolves an alias nor forgets a pinned model.     *)
CacheIsTrusted == AliasObservedLive /\ WarmRunIsFree

(* Every call ends: retries are bounded, and a call that backs off does    *)
(* not sit on the permit it is going to ask for again.                     *)
EveryCallEnds == <>[](\A r \in Requests : pc[r] \in Ended)

=============================================================================
