# Momus Review in TLA+

A model of `momus` where its correctness depends on order, failure, concurrency
or a limit: what happens between two reads of a checkout, between a review's
requests, between two reads of a pull request, and between two writes of a file;
and what the review concludes from the answers in between. Each module names the code it
translates; line numbers refer to the repository at the commit that holds this
directory.

Contents: [inventory](#the-system), [modules](#modules),
[runs](#runs-and-what-they-show), [disagreements](#where-code-and-text-disagree),
[proofs](#proofs), [limits](#what-is-not-modelled), [plan](#plan).

## The system

`momus` asks a judgment service (TypeSafe "System One") many small questions
about source files, in stages, and turns the answers into a report.

```
 cli ── discovery (strategies, git, index) ── the checkout, while work goes on
  │
  ├─ run_review (workflow) ── run_stage ── TypeSafeClient ── AdaptiveLimiter
  │          │                                   │   │
  │          └ voi / judgments / refine          │   ├ CallBudget
  │                                              │   └ ResultCache ── directory
  ├ auxiliary: upgrades, docs drift              └ HTTP ── System One
  ├ planner, shard_merge: one review in parts
  ├ merge_confidence ── the history that eval/outcomes/collect.py exports
  ├ report_store: latest.json, history/
  ├ github-review: publish ── approval ── GitHub
  └ dashboard: reads reports, appends feedback.json ── read by the next run
```

| component | state | operations | what is hard |
|---|---|---|---|
| request gate `review/limiter.rs` | live permits, current limit, healthy streak, cooldown, wait list | acquire, healthy, throttled, drop | lost wakeups, two clock reads, cancelled waits, halving and growing at the limits |
| call budget `review/budget.rs` | attempts reserved, calls deferred | reserve, defer | concurrent reservation, retries count too |
| client `review/typesafe.rs` | retry counter per call | resolve, look up, acquire, reserve, send, retry, store | cancellation at each await, a permit across the right steps only |
| result cache `adapters/cache.rs` | alias map in memory, one file per answer | resolve, record, lookup, store | a mutable alias, responses out of order, crash and rerun, late writes |
| stage runner `review/workflow.rs` | ordered buffer, kept, skipped, failures | probe, rest, tolerate | completions in any order, breaker against deferrals |
| funnel `review/workflow.rs` | files, matrix, signals, findings, skipped, partial | tier 0, screen, profile, locate, specs, refine, plans | `partial` must see what every stage left undone |
| reviews directory `adapters/report_store.rs`, `feedback_store.rs` | latest.json, history/, feedback.json | save, record, supersede, append | two writes that are not atomic, a moving checkout, concurrent votes |
| publisher `review/publish.rs`, `domain/github_review.rs`, `adapters/github.rs` | comments and one summary on GitHub | plan, review, demote, summary | a head that moves, kills and lost answers between requests, re-runs |
| approval `adapters/approval.rs`, `cli/mod.rs` | the evidence of one round, the artifact | two rounds of five reads, three reads of the pull request, one POST | every read may see another pull request |
| discovery `review/changes.rs`, `codebase.rs`, `adapters/git.rs`, `cli/mod.rs` | what each command said, the file being read, the files found | resolve, list, compare, read, claim clean | every command sees another checkout; renames, untracked files, exchanged directories |
| context and index `review/index.rs`, `context.rs`, `regions.rs`, `adapters/imports.rs` | entries kept between runs | extract, read, write, resolve | an entry of an earlier run, or a malformed one |
| judgments `review/judgments.rs`, `codebase_judgments.rs`, `explain.rs`, `test_planner.rs` | none | screen, locate, enrich, plan | early returns, one budget of characters for many texts |
| selection `review/voi.rs`, `workflow.rs` | none | rank, cap | order and ties, one slot for each dimension |
| refinement `review/refine/` | the findings | dedupe, taint, counterfactual, ensemble, pairwise | each stage spends a budget on a list another stage left |
| shards `review/planner.rs`, `shard_merge.rs` | the saved partial reports | plan, key, validate, merge | partial reports of different checkouts or runs |
| outcome model `review/merge_confidence.rs`, `eval/outcomes/collect.py` | receipts, labels, the exported history | capture, export, validate, cohorts, assess | what was known when, boundaries applied twice |
| local checks `review/auxiliary.rs`, `upgrades.rs`, `docs_drift.rs` | none | collect, redact, compare, append | conclusions from absence, redaction before comparison |
| dashboard `dashboard/` | the append lock | vote, serve | several handlers at once |
| others (`spec_drift`, `tour`, SARIF, ...) | none | text in, text out | data, not control |

How they interact. All stages of a run share one client, and through it one
gate, one budget and one alias map: what one call does to them every other call
sees. A stage may drop the futures it is waiting for, so cancellation reaches
into the client and the gate. The budget turns requests away, and each stage
must treat that as neither a success nor a failure. The report is saved to the
directory the dashboard reads, and votes appended there decide what the next
run drops. `github-review` reads the same report later, in a process of its own,
and talks to GitHub only through requests each of which may fail, be applied
without an answer, or see a pull request that has moved.

What makes each component correct:

- *gate*: no permit is lost or counted twice; never more than the cap; nobody
  waits without a waker; a cooldown is neither cut short nor overslept.
- *budget and client*: attempts stay within the budget; hits, misses and
  deferrals account for every call; a permit is held only while a request is
  out or being stored; every call ends.
- *cache*: an entry is an answer of the version in its key; a saved directory
  never resolves an alias; a complete directory makes a pinned rerun free.
- *stage*: each item gets one verdict; the breaker trips for systemic failures
  and only for them, cheaply; the stage ends.
- *funnel*: a report that is not marked partial left nothing undone; every
  file is accounted for; an exhausted budget is never an error.
- *publisher*: a finding is posted once, there is one summary, and a run that
  succeeds has lost none.
- *approval*: what is approved is what was reviewed, on the base it was
  reviewed against, with checks that passed since.
- *discovery*: what is reviewed is what changed, each text under its own path and
  old name; a clean report is of its commit; unmarked evidence is whole.
- *triage*: no finding vanishes without a trace, every cap is spent on the
  worst there is, a blocking finding keeps its weight or has an explanation.
- *shards*: an accepted merge is one review of one checkout by one model.
- *outcome model*: whatever is exported is accepted; nothing trains on what came
  after the cutoff; eligibility expires.
- *local checks*: upgrades told are exactly the difference of two inventories;
  drift is told on evidence only.
- *directory*: no review and no vote is lost; a superseded file disappears;
  hidden findings stay out of later reports; a report marked clean is of the
  commit it names.

## Modules

| module | models | state and actions against the code |
|---|---|---|
| `Gate` | what a gate promises | `holders`; `Enter`, `Leave` |
| `Limiter` | `AdaptiveLimiter` | `active`, `limit`, `healthy`, `cooldown` are `State`'s fields; any time may pass between the two clock reads of `acquire` (`Block`); `pc` is where each task is in `acquire`, or between a response and its `notify_waiters` |
| `Client` | `system_one`, `CallBudget`, `ResultCache` | an instance of `Gate` stands for the limiter; `known` is the alias map, `cache` the directory, `meters` the counters; one action per await or lock |
| `Stage` | `run_stage`, `tolerate` | `started`/`drained` are the two ends of `buffered(n)`; `phase` is the probe, then the rest |
| `Review` | `run_review` | one action per stage; `RunStage` is what `Stage` shows a stage to do |
| `Publish` | `publish`, `plan`, `demote_inline`, `summary_body` | one action per request; a request that changes GitHub has a second step for its answer, so that the answer can be lost |
| `Approval` | `github_review`'s approval, `approval_evidence`, `approve_current_head` | one action per request; the pull request moves in actions of its own |
| `Store` | `run_mode`, `persist_report`, `save_report`, `save_history_in`, `post_feedback`, `append_feedback`, `FeedbackLog` | one action per git command, file written or removed, lock taken, and answer to the browser |
| `Lists` | `sort_by`, filters | operators |
| `GitWorld` | git and the file system, as `adapters/git.rs` uses them (external), and the developer who works on | `world`; edits, renames, staging, commits, switches, an exchange of directories |
| `Patch` | `domain/patch.rs`, `candidate_hunks` | a hunk is its header and its body; parsing is the header's arithmetic |
| `Paths`, `Imports`, `Index` | `domain/language.rs`, `adapters/imports.rs`, `review/regions.rs`, `review/index.rs`, `index_store.rs` | operators on paths and texts; the store is a function from keys to entries |
| `Evidence` | `repository_evidence` | operators: what is passed over, refused and retained under the limits, and (`Collect`) all of it in a checkout that holds still, for `Advise` |
| `Discovery` | `changed_files*`, `repository_files*`, `repository_evidence`, `read_repo_file_limit`, `run_mode`'s identity and clean claim | one action for each git command, open, read and stat; `mode` is the command line's choice of four |
| `Select` | `select_follow_ups`, `voi::select` | operators |
| `Judge` | `judgments`, `codebase_judgments`, `explain`, `test_planner`, `ContextBudget` | an answer is what the service may say; a text is its length |
| `Refine` | `review/refine/` | findings and answers to findings |
| `Triage` | `run_review`, steps 2 to 7, and `finish_findings` | one action per stage over `Select`, `Judge` and `Refine`, and one that drops hidden findings |
| `WholeReview` | what a merge promises | `report` of one unsharded review |
| `Merge` | `planner`, `validate`, `merge_reports` | `Scan`, `Edit`, `MergeReports` of any tuple of saved parts |
| `Outcomes` | `collect.py`, `validate_history`, `estimate`'s cohorts, `merge_assessment` | `Capture`, `Merge`, `Observe`, `Export`, `Tick` |
| `Upgrades`, `DocsDrift` | the two comparisons | operators on texts whose lines are dependencies, calls or declarations |
| `Advise` | `attach`, `redact` | collect, redact, compare, append |
| `MC*` | | small constants for TLC |
| `ClientProofs`, `ReviewProofs`, `PublishProofs`, `StoreProofs`, `MergeProofs`, `DiscoveryProofs` | | theorems about the module of the same name |
| `SchedulingProofs` | | theorems about `Limiter` and `Stage` |
| `ApprovalProofs` | | theorems about `Approval` and `Outcomes` |

How they compose. `Client` uses `Gate`'s actions for its permits, and `Limiter`
is shown to implement `Gate`. `Stage` relies on every request ending, which is
`Client`'s `EveryCallEnds`. `Review` uses a stage as one step whose possible
results are those of `Stage`: each item is heard in one of three ways unless the
probe failed altogether. `Triage` is the same run of `run_review` as `Review`
seen from its findings: the one counts requests and what is left undone, the
other follows each finding. `Discovery` and `Advise` share `GitWorld`, `Evidence`
and `Paths`: the one has the checkout moving under the reads, the other what is
concluded from what was read. `Merge` is shown to implement `WholeReview`.
`Approval`'s publication step and `Store`'s review step stand for whole runs of
`Publish` and `Review`; `Approval`'s condition on the history is `Outcomes`'s
`EligibleFor`.

Abstractions that several modules share. A model version, commit, file, finding
or check is a model value or a small number. What a server answers, which check
passes and which files fail are nondeterministic. Time in `Limiter` is a count
of ticks left. A file replaced by rename is one variable, since a reader sees
the old one or the new one whole. A text is a sequence of lines, each a word of
a small vocabulary that says what the code's patterns would see in it. A definition whose comment begins with
"Mutant" is never used by a specification: it is the definition that follows it
with a plausible bug, and shows that the properties would notice.

History variables record the past for a property and are read by no action:
`seen`, `warm` in `Client`; `sent`, `failing`, `failed` in `Review`;
`slipped` in `Limiter`; `green`, `trouble` in `Approval`; `recorded`, `interrupted`, `written`, and
`wished` of a run or report in `Store`; `past`, `moves` and `bases` in
`Discovery`; `calls`, `located`, `suppressed`, `gone` and `considered` in `Triage`.

## Runs and what they show

| run | configuration | properties |
|---|---|---|
| `limiter` | 3 tasks, cap 2, pause up to 2 ticks, two healthy answers per slot, any time between the two clock reads | `PermitAccounting`, `WaitersWake`, `ImplementsGate`, `SomebodyEnters` |
| `client` | 3 calls about one unit, an alias or a pinned model, two versions, budget 2, one retry, gate of 2, one crash | `MetersExact`, `CacheIsTrusted`, `OnlySoundEntries`, `EveryCallEnds` |
| `stage` | 5 items, breaker 3, concurrency 4 | `OneVerdictEach`, `BreakerExact`, `StageEnds` |
| `review` | 3 files, 7 sets of options, breaker 2, two follow-ups | `ReportAccounts`, `TroubleContained` |
| `triage` | 2 files of one and two regions, 3 dimensions, up to 3 follow-ups, both strategies, each budget of refinement 1, pairwise and enrichment 2, one finding that may be hidden | `NothingVanishes`, `BudgetWellSpent`, `ContextAccounted`, `BlockingSurvives` |
| `changes` | 6 checkouts, 4 modes, two overlapping scopes, three commits on two branches, three index directories, one move of the developer (two in `scan`) | `ChangesAreExact`, `CandidatesFit`, `CleanIsExact`, `TextsAreTheirOwn`, `EvidenceComplete` |
| `advise` | every pair of small Cargo and npm manifests and lockfiles, npm's in both layouts, with and without credentials; a manifest of another kind that changes; two sources and a guide that change, move or go | `UpgradesReconcile`, `DriftIsProven` |
| `merge` | 2 files in 2 shards, 2 models, 2 scans and 1 edit between them | `CompleteSetMerges`, `MergesOneReview` |
| `outcomes` | 3 changes, one outcome watched for one unit, cutoff 3 of 6 units, receipts and labels up to 1 late, two score bins | `ExportAccepted`, `EligibleIsRecent`, `NoLookAhead` |
| `publish` | 3 runs, 2 heads, 5 findings (two near each other, one outside the diff, one reported twice, one fixed later), cap 2, room for two lines under the first head and none under the second, one foreign comment | `SaidOnce`, `RejectedOnlyWhenMoved`, `NothingLost` |
| `approval` | 2 heads, 2 base commits, 3 files, one check run required and one status not, two pushes | `ApprovedWasCovered`, `ApprovedOnEvidence`, `ArtifactTellsOutcome`, `RoutineChangeApproved` |
| `store` | 2 reviews, 2 votes on 2 handlers, 2 commits, a legacy file of either mode, 2 moves of the checkout | `HistoryExact`, `VotesKept`, `ReportIsTrue` |

What the properties say, in short; the definitions carry comments that say what
they mean exactly and which sentence or line they are about.

- `WaitersWake`: a sleeper's timer ends with the cooldown, and a parked task has
  somebody who will notify it, or has slipped between the clock reads and stands
  before an open gate. `SomebodyEnters`: while tasks keep coming, one gets in.
- `MetersExact`: types, permits and the budget: a permit is held only across the
  steps that need it, and the counters account for every call.
- `CacheIsTrusted`: the directory alone never resolves an alias, and a complete
  directory makes a rerun with a pinned model free.
- `BreakerExact`: a systemic failure costs a bounded number of requests, and only
  a systemic failure trips the breaker.
- `ReportAccounts`: an unmarked report left nothing undone, and every file is in it.
- `TroubleContained`: an exhausted budget is no error, and an outage without tier
  0 costs no more than the breaker allows.
- `NothingVanishes`, `BlockingSurvives`: each located finding is reported, folded
  into one that is, or hidden or exonerated and counted; one that blocks is lost
  only so.
- `BudgetWellSpent`: selection is fair between dimensions and no stage passes over
  a worse finding for a milder one.
- `ContextAccounted`: what a request carries and what it drops is what there was.
- `ChangesAreExact`: a pinned review reads exactly what the commit changed,
  whatever happens meanwhile; the other modes do in a checkout that holds still.
- `CandidatesFit`: pieces of hunks lie where the texts have them, with every added
  line in one of them.
- `CleanIsExact`, `ReportIsTrue`: a report that is marked clean is of the commit it
  names, from discovery's side and from that of the saved directory; findings
  hidden when a run began are not in its report.
- `TextsAreTheirOwn`: a text read for a path was that path's, and the index is
  what a first run would build.
- `EvidenceComplete`: evidence without unknowns has left nothing out. It is no
  snapshot, as `git.rs:685-686` says: while paths move under it, each path that Git
  knew all along is told, each that nothing happened to is told as it is, and
  nothing is told that never was.
- `UpgradesReconcile`: the changes told turn the one inventory into the other, and
  two versions are told as an upgrade only where nothing else can be meant.
  `DriftIsProven`: a call is called drift on evidence that is there to see.
- `MergesOneReview`, `CompleteSetMerges`: what is merged is one whole review, and
  a complete set is never refused.
- `ExportAccepted`, `NoLookAhead`, `EligibleIsRecent`: the two programs agree on
  windows and cutoffs, training never looks ahead, eligibility expires.
- `SaidOnce`: no finding is posted twice, and there is one summary.
- `ApprovedOnEvidence`: on the base last read, with checks passed since.
- `VotesKept`: the log is the votes that were written, in order, and holds every
  one that an answer tells of.
- `HistoryExact`: a review once in the history stays, and counts once.

`TypeOK` of a module is part of one of its properties (`MetersExact`,
`OneVerdictEach`, `ReportAccounts`, `SaidOnce`), or is proved below.

Why the bounds are enough. The behaviours at stake need few actors: two tasks
to race for a slot and a third whose release or throttle comes between; two
responses to arrive out of order and a third call to be answered after them; a
probe, a window that is larger than it, and a rest; one run that fails, one that
repeats it, and a third that finds what both left. The base of a pull request
has to advance once, and the head to move away and back, which is two pushes. A
legacy history file can be superseded once, and the race is between one
writer's two steps and its death. The cap in `publish` (2) is smaller than the
number of findings and `ListMax` is 1, so that both the cap and "and n more"
happen; the budget in `client` (2) is smaller than the attempts that three calls
with one retry may make; `MaxFollowUps` (2) is smaller than the number of
signals. Constants of the code are scaled with the rest: the breaker is 3
instead of 5, the healthy run 2 instead of 8, the longest pause 2 ticks. The
proofs below hold for the real values.

In `triage` two findings may be folded, one exonerated and one left, or one hidden
and the others folded or exonerated, and the
budget of each stage is one less than what is there for it; a third screening has
a region that failed. In `merge` one shard may be scanned before and one after
the edit, or twice, with either model. In `outcomes` one change is in training,
one held out and one too young at the same time. In `changes` one move between
any two commands shows whether a claim survives it: `MaxEvidenceLines` is 3,
`UntrackedChunkLines` 4 and a diff has one line of context, so that texts of seven
lines are cut in several pieces; the evidence limits are smaller than what the
checkouts hold. The limits of a commit's inventory, which are errors, are just
reached by the largest commit; one less and its scan fails. In `advise` a lock file is any subset of five entries, of which
four are the limit, or one without a package, a manifest any two lines of six, and
an npm lock file one of eleven: of the new layout, of the old nested one, of both,
of neither, nested too deep, or unreadable.

Counters that would grow without end are bounded by constants whose comments
say "bound": `MaxRuns`, `MaxPushes`, `MaxMoves`, `MaxVotes`, `MaxReading`,
`MaxForeign`. `MaxReading = 1` in `store` lets one review at a time read its
input while others save; two that both read add interleavings of steps that
touch nothing shared.

`store` uses the symmetry of the handlers and `outcomes` that of the heads; both
check only safety and steps.

Fairness, and why the code justifies it:

- `Limiter`: the runtime polls every task that can run (`Work`) and time passes
  (`Tick`). Nothing makes a task call, or a stage cancel.
- `Client`: each future is polled, and a request in flight ends, at the HTTP
  client's timeout at the latest; the server answering is not assumed.
- `Stage`: the stream is polled, and each request that was started ends, in any
  order. The budget running out is not assumed.
- `Approval`: one sequential process that runs until it ends. What moves the pull
  request is under no fairness.
- `Review`, `Publish`, `Store`, `Discovery`, `Triage`, `Merge`, `Outcomes`, `Advise`: safety
  and steps only. A run that is never repeated posts nothing more, and nobody
  promises that it will be. That `run_review` ends once its stages do follows from
  its shape, a chain without a loop, and is no property here; that stages end is
  `StageEnds`.

Deadlock is checked where the system should never stop (`limiter`). The other
modules model runs that end, so their configurations switch the check off; that
they end, and do not just stop, is what `EveryCallEnds`, `StageEnds`
and `RoutineChangeApproved` say where it could fail.

One assumption of `publish` deserves mention: `Serial`. The workflows of the
repository's own CI put runs for one pull request into a concurrency group;
the sample in `README.md` (lines 165-185) does not. With `Serial = FALSE` two
runs may both read the comments before either posts, and TLC then finds
`PostedOnce` violated; so "re-runs never repeat a comment" holds for runs one
after the other, which is what the word says.

## Where code and text disagree

Eight sentences of comments or documents that the code does not keep. The
properties above state what does hold; where a model needs only one change to
show the disagreement, it is named.

| text | what happens | how to see it |
|---|---|---|
| `review/limiter.rs:37` "this avoids a lost wakeup" | `acquire` reads the clock twice. If a cooldown ends between the reads, the delay is zero and the task waits for a notification although no permit is out and nobody will send one. It stays there until another task happens to take and drop a permit | make `NoStrandedWaiter`, which says what the comment does, an invariant of `Limiter.cfg`: it is violated by the eleventh state |
| `docs/scaling.md:72` "a model change observed during a run invalidates subsequent alias lookups" | the response handled last decides the alias; two responses in flight across a deployment, handled in the opposite order, put the alias back to the older version, whose entries then answer later calls | two calls with different `reply` in `Client`, the older one recorded last |
| `docs/scaling.md:174` "a circuit breaker aborts early when the first units all fail" | tier 0 is not a `run_stage`: an outage costs one request per file before screening can abort | drop `"tiered" \notin options` from `TroubleContained` |
| `domain/github_review.rs:547` "an identical re-run leaves the summary unchanged" | a finding outside the diff that is near one the first run posted changes its reason in the second run, so the summary is rewritten | two runs of `Publish` with the same report |
| `domain/feedback.rs:29` "so a reviewer can change their mind" | the dashboard looks the finding up in the saved report; after the next run the hidden finding is not there, and the vote is answered with 404 | `Store`'s `Vote` is enabled for findings of `latest` only |
| `adapters/git.rs:674` "Renames preserve their old path" | each scope is compared by itself; a file that moves from a part that only the wider scope has into a scope listed before is an addition there, and in the wider one it has been seen, so its old path is told nowhere | drop `RenamedAcross` from `EvidenceComplete` in `Discovery.cfg` |
| `review/docs_drift.rs:272` "Changes already override the current inventory" | a rename takes its old path out of the inventory even when a change listed earlier put a new file there; a function that is now in that file is told as gone | drop `Reused` from `DriftIsProven` |
| `domain/feedback.rs:130-133` "line-independent ... Survives edits elsewhere in the file" | the evidence text of a docs-drift or upgrade advisory contains `path:line`, so an edit above it gives it another fingerprint and a hidden advisory comes back | not in a model: `Advise` gives an advisory its line in its identity |

A smaller observation: the comments at `workflow.rs:99` and `:121` say that the
rest of a stage starts only once the probe had a success. A probe of failures and
at least one deferral has fewer failures than `CIRCUIT_BREAKER`, and the rest is
then started without one. It costs no request, because a deferral means that the
budget is gone: what is not in the cache is deferred as well.

## Proofs

The proof system checks these for every value of the constants that the named
assumption of the module allows.

`SchedulingProofs`, the limiter. `IInv` is `TypeOK`, `PermitAccounting` and
`TimersEndWithCooldown`. Type correctness needs no more than itself, but for
`active \in Nat` after a drop, which needs the accounting: the permit that is
dropped is one of `Holders`, so the counter is positive. The timers need it that
throttling takes a maximum. `TypeCorrect`, `PermitsAccounted`, `TimersBounded`
follow. `GateImplemented` maps `Admit` to `Enter`, `Drop` to `Leave` and every
other action to a stutter; that `Enter`'s cap holds is `active < limit <= Cap`
together with the accounting. `WaitersAreWoken` is about a parked task that nobody is
left to notify. While no permit is out the limit keeps nobody out, so it was a
cooldown that did, and it parked on the bare notification only if that ended between
the two clock reads; a new cooldown needs a response, and with it a permit. Whoever
gives up the last permit notifies all that are parked.

`ClientProofs`. `Turn` is a table: where a call may go from where it is, which
meter that moves and whether it keeps its permit. `StepTurns` shows that every
action of a call follows it, and the rest is proved from the table. `Counters`
keeps the deferrals and hits equal to the calls in those places, and the answers
and the calls in flight together below the attempts. `Misses` is the part that is
not obvious: a cancelled call may or may not have been a miss, and the state does
not tell, so the invariant says that some set `M` of calls has as many members as
there are misses, holds every call past the cache, and otherwise only cancelled
ones; and that the attempts are no more than `Spent(M)`, the pairs of a call of `M`
and an attempt it has made. A request adds a pair that was not in it, a retry
loses none, and the product `M \X (0..MaxRetries)` bounds them all:
`MetersNeverWrong`. `EntriesSound` needs that a call that stores has an answer,
and that its orphan keeps it. `CacheNeverMisleads` adds that a resolution comes
with a version in `seen`, and that in a warm run no call is past the lookup. The
assumption says that the server has some version from the start.

`SchedulingProofs`, the stages. `StageInv` adds to `OneVerdictEach` and `TripsOnlyWhenSystemic` that
nothing past `started` is sent, and that what is handed over has a result
(`InOrder`); and that in the probe the counter reaches the number of results only
if all of them failed (`CountRight`). The rest of a stage begins only after a
success or a deferral: otherwise all results of the probe failed, they are
`Breaker` many, and the breaker has tripped. So a systemic failure never reaches
the configured concurrency. Theorems: `VerdictsExact` and `BreakerNeverWrong`.

`ReviewProofs`. One lemma about a stage, `StageHeard`, whatever its items are: what
it kept it heard, unless it tripped it heard all, and if it only heard failures
it heard no more than the breaker allows. `IInv` adds where a file may be: before
the screen, only tier 0 has taken any (`Before`); after it, each owned file is in
exactly one of the matrix, the dismissed and the failed screens, and what was
followed up and not located is among the skipped (`After`). A stage that only
failed does not hand over to the next one (`Recovered`), so an outage costs one
breaker. Theorems: `ReportNeverHides` and `TroubleStaysSmall`.

`PublishProofs`. First what counting gives: a finite set of numbers has its first
few, so `plan`'s cut at `MaxInline` is there and the body counts what it omits.
`MovedAt` says that a diff read while the head was the run's describes it, which
is `RejectedIsMoved`, for any number of runs at once. The rest assumes `Serial`.
`Once` says that no two comments of the bot are about one finding, that there is
one summary, that the plan's fresh findings are still fresh when they are posted
(`FreshAt`), because no other run is active, and that the summary that was
found is still the one: `SaysOnce`. `KeptAt` follows each finding of the report
from the plan on: it is posted, or named in the body, or about to be posted; when
the review is rejected, demotion turns the last into the second: `LosesNothing`.

`StoreProofs`. `IInv` adds two facts to the properties. `ReadIsCurrent`: a
handler that is about to write has read the log that is in the file, because it
holds the lock and only its holder writes; hence an append is an append, and what
an answer is about to tell begins the log for good, which is `VotesKept`. `SavedFirst`: a run that is about to remove a legacy file has
written its successor, because nothing is ever taken out of `history`; hence
`ReviewsKept`. `CountedOnce` follows along the same steps: a pair that is in the
directory twice belongs to a run between its two writes or to one that died
there. Theorems: `StoreTypeCorrect`, `VotesNeverLost`, and
`HistoryNeverWrong` (from `ReviewsNeverLost` and `NeverCountedTwice`), for any
number of reviews and handlers at once, moves and votes. `ReportsAreTrue` needs no
induction over the log: `LastVotes`, that a fingerprint with entries has a last
one, is kept by every append, and with it the code's latest entry is what the
voters asked for. `HonestAt` says what a review that is under way may claim. Its
point is `Settled`: the tree was clean when it was read if it is found clean
after, and the head is the run's if it is so at the end, because the
checkout would have to move twice to hide a change.

`ApprovalProofs`. The base is read three times: as `before`, with the evidence,
and last, when it must equal `before`. `BasesInOrder` says that the three are in
ascending order, because a base branch only advances; equality of the outer two
then forces the middle one, and with it the merge base the decision compared
(`MergeBaseRead`) to be that of the base read last: `BaseIsTheReviewedOne`.
`ChecksAreFresh` says that a result that was read in the second round as passed
passed in it; the decision asks that of every required check:
`ChecksPassedAgain`. The two are `ApprovalRestsOnEvidence`, and
`ApprovalTypeCorrect` is proved with them. The order of base
commits is an assumption about the repository (nobody force-pushes the base
branch); it is in the model's `AdvanceBase`. `ApprovedCommitWasCovered` counts:
`FilesCounted` says that the pull request's number of changed files is that of the
reviewed head; what was listed is screened, what was screened is changed there, and
the three numbers agree, so the three sets do (`CoveredIsWhole`). `Recorded`
says that the artifact keeps the first decision until the second round ends:
`ArtifactIsHonest`.

`ApprovalProofs` also has the history an approval rests on: it extends
`Outcomes` and uses the assumption of that module. `Grows`: what was captured, merged or observed stays as it is, and what
comes later carries a later time. So each record of an export stays true
(`TrueRecord`), and what may train of a later one was there (`Remembered`),
because its time is before the cutoff and the export came after. Labels are
exported with the same window and boundary that the assessment applies
(`Cohorts`): `ExportsAreAccepted`, `NothingLooksAhead` and `EvidenceExpires`, whose
last dates are taken from sets that are bounded by the clock and so have a
latest member. `NoLookAhead` speaks of heads and their labels of one kind: a whole
record may change from one export to the next when a label of another kind comes
in.

`MergeProofs`. In a strict total order a finite set has a first few, and only one
set is that (`FirstFew`); the top of a union is the top of the tops
(`TopOfTops`), which is why each shard may choose its own profiles. `PartOK` is what
every saved report of a shard satisfies: it has each file of its shard in one
place, and its rows are of its model and its inventory. Shards are disjoint, and
their union is the inventory, by the remainder of the hash; so parts that are
not refused combine to one whole review (`AcceptedIsReview`), and every step of
`Merge` is one of `WholeReview` or a stutter: `MergeIsOneReview`.
`CompleteSetIsAccepted` takes the reasons for a refusal one by one.

`DiscoveryProofs`. The assumption is what a checkout is (no two paths are one
file), that the paths are known, and `StoreHonest`: an entry of the index
directory may be missing, cut short or another text's, but nobody forges one under
the key of a text. `Shape` says where a review is and what it has by then, and is
inductive by itself: what the developer does to a checkout leaves it one
(`StepsOfCheckouts`), a path is filed once, the identity is settled before
anything is read, and a clean review that nothing has moved under is still clean.

`OwnTexts` has two halves. `Read` follows a text from the open to the file list. A
file that is open may be moved away, and what is read of it then is the text of
another path; but it can only come back as it is (`Compared`), so that the
comparison by inode and size that ends the read either fails or finds a text the
path once had. A fourth move, which writes to the file once it has been read
elsewhere and exchanged back, defeats it, and the property says so. `BuildIsFresh`
shows that an index built over an honest store is the one built over none,
although several paths write entries back under one key.

`ExactChanges` follows what is filed while a review is `Steady`: a pinned one
always is, another while nothing has moved, or if the one move left the checkout
clean and at its commit. `SteadyBefore` says that steadiness is not regained, so
that all the commands of a review compared one source (`Listed`), read its texts
(`InHand`), and filed what the finished scopes want of it and nothing else
(`Filed`). `FiledIsExact` turns that into the statement of the property, that the
files are those of the first scope each is due in.

`CleanClaims` says that a report that calls its source clean is the review of the
commit it names, wherever one move falls. `Scanned` and `Held` are `Filed` for a
scan, which skips links and reads the rest. What was read steadily is the
commit (`SteadyIsOfCommit`). `Claimed` is about the other case: if the move
did spoil the reading, the checkout is not as it was found, and the status or the
head, which are asked one after the other, tell; neither alone would do, since a
commit of the change is clean and an edit leaves the head.

Only model-checked: the liveness properties (`SomebodyEnters`, `EveryCallEnds`,
`StageEnds`, `RoutineChangeApproved`), since the prover has no
`ENABLED`; `CandidatesFit`, `EvidenceComplete`, `UpgradesReconcile`,
`DriftIsProven`, and the properties of `Triage`. These are about what folds and
recursive functions compute from texts, listings and rankings, for which one needs
induction over data: the evidence is gathered path by path within its limits, a hunk is
split piece by piece, `Current` overrides change after change, `Dedupe` folds
finding into finding, and a budget of characters is spent section by section.

## What is not modelled

Inside the modules:

- `Limiter`: the order in which tokio wakes tasks; any order is allowed.
- `Client`: the contents of questions and answers, redaction, token counts. A
  server that echoes the alias as its model is treated by the code as having
  observed nothing and is left out.
- `Review`: what is in the findings (`Triage`), the local checks (`Advise`), and
  the texts of reports.
- `Discovery`: submodules, binary files, file modes and the markers for a missing
  newline. `trim_end` (`git.rs:484`) drops blank context lines at the end of a
  patch, so a hunk may hold fewer lines than its header says; `CandidatesFit`
  allows that. A path that is out of the index but still on disk is a deletion
  for the evidence and a whole new file for discovery, as in the code. Two moves,
  away and back, can defeat the clean check, and a tracked file unstaged between
  two commands has an empty patch: `CleanIsExact` and `QuietIsExact` are stated
  below that. `reviewed_base` is resolved by a command of its own before
  discovery resolves its base (`cli/mod.rs:442-446`), and the two may differ if
  the branch moves in between.
- `Index`, `Imports`, `Paths`: the patterns by which a line is recognised, and the
  table of languages, which the configurations give a small part of.
- `Judge`: the wording of questions; profiles, on which nothing depends.
- `Refine`: how strengths are fitted from pairwise comparisons; any strengths may
  come out.
- `Merge`: an alias that resolves differently in two scans, which `Client` has;
  the merge asks for a pinned model. `refine` stands for the equality of all the
  configuration that `validate` compares. `MaxProfiles` is cut to 1.
- `Outcomes`: the floating-point bounds and calibration; that the evidence is
  there and recent is what an approval needs of it. Training may still grow after
  an export, by a merge whose own receipt came in late; `NoLookAhead` says by that
  only.
- `Advise`: redaction masks one line at a time, without PEM blocks over several
  lines; the order among the advisories; changes of several scopes, whose order is by
  scope and then path; `p_revert`, which is computed again.
- `Publish`: a comment that is deleted, or a page of comments that shifts, while
  the list is read; a request of a killed run that GitHub applies later; an
  empty fingerprint, for which the code posts without a marker. The size limit of
  the summary is a number of list entries (`Room`): that one long entry is left
  out and a shorter one after it is not, and the notice that replaces a body which
  redaction made too long, are not told apart. Two runs at once (`Serial = FALSE`)
  are outside the run, so the hazard at `publish.rs:75` has no property.
- `Approval`: the dry run, which posts nothing; a pull request whose base branch
  is changed to another branch; the conditions that concern the report and the
  outcome history alone, which are one boolean that may expire.
- `Store`: the readers of the history (a listing may miss an entry that is being
  superseded while it is read); two dashboards in two processes, for which the
  comment in `feedback_store.rs` promises nothing; a checkout that moves away and
  back between two checks, which no inspection by commands can notice;
  the name of a history entry is read from `HEAD` again after the review, and is
  modelled, but no property claims that it is the reviewed commit.

Components that have no module are listed with the reason in `PROJECT.json`:
specification drift, of which only the conclusion is in `Review`; the tour, an
ordering of files for a reader; data types, vocabulary and serialization to SARIF
and Markdown; terminal and browser output; and the offline evaluation programs.

## Plan

In the order of importance; the first eleven are done.

1. `Limiter` with `Gate`: the gate every request passes.
2. `Client` over `Gate`: budget, cache, retries.
3. `Stage`: one stage and its breaker.
4. `Review`: the funnel.
5. `Publish`: re-runs against GitHub.
6. `Approval`: the decision against a moving pull request.
7. `Store`: the directory and the votes.
8. `Outcomes`: the collector and the assessment over one history.
9. `Merge` and `WholeReview`: N scans of a checkout that may change.
10. `Select`, `Judge`, `Refine`, `Triage`: from screens to findings.
11. `Discovery` with `GitWorld`, `Patch`, `Index`, `Evidence`; `Advise` with
    `Upgrades` and `DocsDrift`.
12. `spec_drift`: limits on bytes and candidates, and the chain of confident
    answers to at most one contradiction.
13. The publisher's rendering that later runs parse again: markers, topics and
    lines read back from a comment's body.
14. Timestamps: names of history files and the age of approvals, with their
    calendar; `tune_threshold`.

Abstract specifications worth stating: the gate and the whole review (done); a
set of posted findings and one summary for the publisher; a log with atomic
append for the votes.

Theorems to prove next: of `Triage`, that no finding is lost between two stages,
from what each stage's operator keeps; of `Discovery`'s evidence, that a path that
is met is told or leaves an unknown; an abstract log with atomic append,
implemented by `Store`.
