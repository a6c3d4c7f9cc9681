-------------------------------- MODULE Store --------------------------------
(***************************************************************************)
(* The reviews directory: latest.json, history/ and feedback.json, written *)
(* by runs of `momus review` and `momus scan` (cli run_mode and            *)
(* persist_report, adapters/report_store.rs) and by the dashboard's votes  *)
(* (dashboard post_feedback, adapters/feedback_store.rs), while the        *)
(* checkout that is reviewed moves.                                        *)
(*                                                                         *)
(* Every file is replaced by a rename, so a read sees a whole one.  What a *)
(* review finds is the content it reads; the funnel is module Review.      *)
(***************************************************************************)
EXTENDS Naturals, Sequences, FiniteSets

CONSTANTS Handlers,   \* requests the dashboard serves at once
          Shas,       \* commits the checkout may be at
          Start,      \* the one it is at first
          OldShas,    \* those that may have been reviewed before files had modes
          Findings,   \* fingerprints
          Present,    \* the findings of each commit's content
          None,
          MaxRuns,    \* bound: how many reviews are run, numbered as they start
          MaxReading, \* bound: how many of them read their input at once
          MaxMoves,   \* bound: how often the checkout changes
          MaxVotes    \* bound: how many requests the dashboard is sent

ASSUME StoreAssumption ==
    /\ Start \in Shas /\ OldShas \subseteq Shas
    /\ Present \in [Shas -> SUBSET Findings]
    /\ None \notin {"changes", "codebase", "committed"} \cup Handlers /\ None \notin BOOLEAN
    /\ MaxRuns \in Nat /\ MaxReading \in Nat /\ MaxMoves \in Nat /\ MaxVotes \in Nat

Runs == 1..MaxRuns

VARIABLES head, dirty, moves,       \* the checkout
          run,          \* [pc, mode, kind, hidden, wished, pinned, head, clean, found, key]
          latest,       \* latest.json
          history,      \* the pairs <<sha, mode>> that have a file
          legacy,       \* the mode of each sha's file without a mode, or None
          log,          \* feedback.json: entries [f, hide]
          lock,         \* APPEND's holder
          request,      \* [pc, f, hide, read] for each handler
          votes,
          recorded,     \* history: pairs that were ever in the directory
          interrupted,  \* history: pairs whose writer died before it was done
          written       \* history: the votes that were written, in order

checkout == <<head, dirty, moves>>
files == <<latest, history, legacy>>
dashboard == <<log, lock, request, votes, written>>
vars == <<checkout, run, files, dashboard, recorded, interrupted>>

NoReport == [kind |-> None, head |-> None, clean |-> FALSE, found |-> {}, wished |-> {}]
Idle == [pc |-> "idle", f |-> None, hide |-> FALSE, read |-> <<>>]
NewRun == [pc |-> "new", mode |-> None, kind |-> None, hidden |-> {}, wished |-> {},
           pinned |-> None, head |-> None, clean |-> FALSE, found |-> {}, key |-> None]
Reading == {"pin", "identify", "clean", "review", "reclean", "rehead", "save"}
Done == [NewRun EXCEPT !.pc = "done"]

Modes == {"changes", "codebase"}

-----------------------------------------------------------------------------
(* FeedbackLog.                                                            *)

Own(entries, f) == {i \in DOMAIN entries : entries[i].f = f}

\* Mutant: the first entry of a fingerprint counts, not the last.
LatestFirst(entries, f) ==
    IF Own(entries, f) = {} THEN None
    ELSE entries[CHOOSE i \in Own(entries, f) : \A j \in Own(entries, f) : i <= j].hide

\* latest() overwrites an entry by a later one of the same fingerprint.
Latest(entries, f) ==
    IF Own(entries, f) = {} THEN None
    ELSE entries[CHOOSE i \in Own(entries, f) : \A j \in Own(entries, f) : j <= i].hide

Suppressed == {f \in Findings : Latest(log, f) = TRUE}

\* History only: what the votes so far ask to hide.
Asked(entries) ==
    {f \in Findings : \E i \in DOMAIN entries : entries[i] = [f |-> f, hide |-> TRUE]
        /\ \A j \in DOMAIN entries : j > i => entries[j].f # f}

-----------------------------------------------------------------------------
\* A directory from before files had modes, or none at all.
Init ==
    /\ head = Start /\ dirty = FALSE /\ moves = 0
    /\ run = [r \in Runs |-> NewRun]
    /\ latest = NoReport
    /\ legacy \in [Shas -> Modes \cup {None}]
    /\ \A s \in Shas \ OldShas : legacy[s] = None
    /\ history = {}
    /\ log = <<>> /\ lock = None /\ votes = 0
    /\ request = [h \in Handlers |-> Idle]
    /\ recorded = {<<s, legacy[s]>> : s \in {t \in Shas : legacy[t] # None}}
    /\ interrupted = {}
    /\ written = <<>>

\* A step of run r that only changes its own state.
Advance(r, from, changed) ==
    /\ run[r].pc = from
    /\ run' = [run EXCEPT ![r] = changed]
    /\ UNCHANGED <<checkout, files, dashboard, recorded, interrupted>>

\* options: an unreadable log is reported and ignored.
ReadFeedback(r) ==
    \E mode \in Modes, kind \in {"worktree", "committed"}, readable \in BOOLEAN :
        /\ \A q \in Runs : q < r => run[q].pc # "new"
        /\ Cardinality({q \in Runs : run[q].pc \in Reading}) < MaxReading
        /\ kind = "committed" => mode = "changes"
        /\ Advance(r, "new", [run[r] EXCEPT
             !.mode = mode, !.kind = kind,
             !.hidden = IF readable THEN Suppressed ELSE {},
             !.wished = IF readable THEN Asked(written) ELSE {},
             !.pc = IF kind = "committed" THEN "pin" ELSE "identify"])

\* --committed-only pins HEAD for everything the review reads.
Pin(r) == Advance(r, "pin", [run[r] EXCEPT !.pinned = head, !.pc = "identify"])

\* Mutant: the head read now replaces the pinned one.
IdentifyActual(r) ==
    Advance(r, "identify", [run[r] EXCEPT !.head = head, !.clean = TRUE, !.pc = "clean"])

\* The pinned head comes before the actual one; they have to agree.
Identify(r) ==
    LET reviewed == IF run[r].kind = "committed" THEN run[r].pinned ELSE head
    IN  Advance(r, "identify", [run[r] EXCEPT
            !.head = reviewed, !.clean = (reviewed = head), !.pc = "clean"])

CheckClean(r) ==
    Advance(r, "clean", [run[r] EXCEPT !.clean = @ /\ ~dirty, !.pc = "review"])

\* run_review: a working tree with changes may hold anything.
RunReview(r) ==
    \E content \in SUBSET Findings :
        /\ run[r].pc = "review"
        /\ run[r].kind = "committed" => content = Present[run[r].pinned]
        /\ run[r].kind # "committed" /\ ~dirty => content = Present[head]
        /\ Advance(r, "review", [run[r] EXCEPT
             !.found = content \ run[r].hidden, !.pc = "reclean"])

RecheckClean(r) ==
    Advance(r, "reclean", [run[r] EXCEPT !.clean = @ /\ ~dirty, !.pc = "rehead"])

RecheckHead(r) ==
    Advance(r, "rehead", [run[r] EXCEPT !.clean = @ /\ head = run[r].head, !.pc = "save"])

\* A scan may be of a shard, whose report stops here: global stages and history
\* are left to the merge.
SaveReport(r) ==
    /\ run[r].pc = "save"
    /\ latest' = [kind |-> run[r].kind, head |-> run[r].head, clean |-> run[r].clean,
                  found |-> run[r].found, wished |-> run[r].wished]
    /\ \/ run' = [run EXCEPT ![r] = [NewRun EXCEPT !.pc = "key", !.mode = run[r].mode]]
       \/ run[r].mode = "codebase" /\ run' = [run EXCEPT ![r] = Done]
    /\ UNCHANGED <<checkout, history, legacy, dashboard, recorded, interrupted>>

\* persist_report asks for HEAD again to name the history file.
ReadKey(r) == Advance(r, "key", [run[r] EXCEPT !.key = head, !.pc = "record"])

Key(r) == <<run[r].key, run[r].mode>>

SaveHistory(r) ==
    /\ run[r].pc = "record"
    /\ history' = history \cup {Key(r)}
    /\ recorded' = recorded \cup {Key(r)}
    /\ run' = [run EXCEPT ![r].pc = "supersede"]
    /\ UNCHANGED <<checkout, latest, legacy, dashboard, interrupted>>

\* Mutant: the legacy file is removed whatever its mode.
RemoveLegacyAnyMode(r) ==
    /\ run[r].pc = "supersede"
    /\ legacy' = [legacy EXCEPT ![run[r].key] = None]
    /\ interrupted' = interrupted \ {Key(r)}
    /\ run' = [run EXCEPT ![r] = Done]
    /\ UNCHANGED <<checkout, latest, history, dashboard, recorded>>

\* Mutant: the superseded file stays.
RemoveLegacyNever(r) ==
    /\ run[r].pc = "supersede"
    /\ run' = [run EXCEPT ![r] = Done]
    /\ UNCHANGED <<checkout, files, dashboard, recorded, interrupted>>

\* Only this step removes a legacy file and none creates one, so that the read
\* and the removal are one step.
RemoveLegacy(r) ==
    /\ run[r].pc = "supersede"
    /\ legacy' = [legacy EXCEPT ![run[r].key] = IF @ = run[r].mode THEN None ELSE @]
    /\ interrupted' = interrupted \ {Key(r)}
    /\ run' = [run EXCEPT ![r] = Done]
    /\ UNCHANGED <<checkout, latest, history, dashboard, recorded>>

\* An error, an interrupt or a kill.  A history that cannot be saved is only
\* logged, and what it leaves behind is the same.
Abort(r) ==
    /\ run[r].pc \notin {"new", "done"}
    /\ run' = [run EXCEPT ![r] = Done]
    /\ interrupted' = IF run[r].pc = "supersede" THEN interrupted \cup {Key(r)} ELSE interrupted
    /\ UNCHANGED <<checkout, files, dashboard, recorded>>

-----------------------------------------------------------------------------
(* post_feedback.                                                          *)

\* An up vote cannot hide, so that hide stands for the whole verdict here.  The
\* finding is looked up in the report that is saved now.
Vote(h) ==
    /\ votes < MaxVotes /\ request[h].pc = "idle"
    /\ votes' = votes + 1
    /\ \E f \in Findings, hide \in BOOLEAN :
         request' = [request EXCEPT ![h] = [Idle EXCEPT !.f = f, !.hide = hide,
                       !.pc = IF f \in latest.found THEN "lock" ELSE "refused"]]
    /\ UNCHANGED <<checkout, run, files, log, lock, written, recorded, interrupted>>

\* Mutant: the log is read before the lock is taken.
ReadLogUnlocked(h) ==
    /\ request[h].pc = "lock"
    /\ request' = [request EXCEPT ![h].pc = "write", ![h].read = log]
    /\ UNCHANGED <<checkout, run, files, log, lock, votes, written, recorded, interrupted>>

\* APPEND is taken and the log is read; an unreadable one is an error.
ReadLog(h) ==
    /\ request[h].pc = "lock" /\ lock = None
    /\ \/ lock' = h /\ request' = [request EXCEPT ![h].pc = "write", ![h].read = log]
       \/ lock' = lock /\ request' = [request EXCEPT ![h] = Idle]
    /\ UNCHANGED <<checkout, run, files, log, votes, written, recorded, interrupted>>

\* The whole log is replaced, or an error is answered; either drops the guard.
WriteLog(h) ==
    LET entry == [f |-> request[h].f, hide |-> request[h].hide]
        grown == Append(request[h].read, entry)
    IN  /\ request[h].pc = "write"
        /\ \/ /\ log' = grown /\ written' = Append(written, entry)
              /\ request' = [request EXCEPT ![h].pc = "saved", ![h].read = grown]
           \/ /\ request' = [request EXCEPT ![h] = Idle]
              /\ UNCHANGED <<log, written>>
        /\ lock' = None
        /\ UNCHANGED <<checkout, run, files, votes, recorded, interrupted>>

\* The browser is told that the vote is saved, and the log as it was then; or
\* the reader of a 404 may go on.
Answer(h) ==
    /\ request[h].pc \in {"saved", "refused"}
    /\ request' = [request EXCEPT ![h] = Idle]
    /\ UNCHANGED <<checkout, run, files, log, lock, votes, written, recorded, interrupted>>

\* The dashboard is stopped and started again.
Restart ==
    /\ \E h \in Handlers : request[h].pc # "idle"
    /\ request' = [h \in Handlers |-> Idle]
    /\ lock' = None
    /\ UNCHANGED <<checkout, run, files, log, votes, written, recorded, interrupted>>

-----------------------------------------------------------------------------
\* Somebody commits, switches, edits or cleans up.
MoveCheckout ==
    /\ moves < MaxMoves
    /\ moves' = moves + 1
    /\ \/ head' \in Shas \ {head} /\ UNCHANGED dirty
       \/ dirty' = ~dirty /\ UNCHANGED head
    /\ UNCHANGED <<run, files, dashboard, recorded, interrupted>>

Review(r) ==
    \/ ReadFeedback(r) \/ Pin(r) \/ Identify(r) \/ CheckClean(r) \/ RunReview(r)
    \/ RecheckClean(r) \/ RecheckHead(r) \/ SaveReport(r) \/ ReadKey(r)
    \/ SaveHistory(r) \/ RemoveLegacy(r)

Serve(h) == ReadLog(h) \/ WriteLog(h) \/ Answer(h)

Next ==
    \/ \E r \in Runs : Review(r) \/ Abort(r)
    \/ \E h \in Handlers : Vote(h) \/ Serve(h)
    \/ Restart \/ MoveCheckout

Spec == Init /\ [][Next]_vars

-----------------------------------------------------------------------------
RunType ==
    [pc : {"new", "key", "record", "supersede", "done"} \cup Reading,
     mode : Modes \cup {None}, kind : {"worktree", "committed", None},
     hidden : SUBSET Findings, wished : SUBSET Findings, found : SUBSET Findings,
     pinned : Shas \cup {None}, head : Shas \cup {None}, key : Shas \cup {None},
     clean : BOOLEAN]

Votes == [f : Findings, hide : BOOLEAN]

RequestType ==
    [pc : {"idle", "lock", "write", "saved", "refused"}, f : Findings \cup {None},
     hide : BOOLEAN, read : Seq(Votes)]

TypeOK ==
    /\ head \in Shas /\ dirty \in BOOLEAN /\ moves \in Nat /\ votes \in Nat
    /\ run \in [Runs -> RunType]
    /\ \A r \in Runs :
         /\ run[r].pc \notin {"new", "done"} => run[r].mode \in Modes
         /\ run[r].pc \in {"record", "supersede"} => run[r].key \in Shas
    /\ latest.found \subseteq Findings
    /\ history \subseteq Shas \X Modes
    /\ legacy \in [Shas -> Modes \cup {None}]
    /\ log \in Seq(Votes) /\ written \in Seq(Votes)
    /\ lock \in Handlers \cup {None}
    /\ request \in [Handlers -> RequestType]
    /\ \A h \in Handlers :
         /\ request[h].pc = "write" <=> lock = h
         /\ request[h].pc \in {"lock", "write"} => request[h].f \in Findings

(* report_store.rs:146-149: once the directory holds a review of a commit  *)
(* in a mode it always does, under the new name or, for a file older than  *)
(* modes, the old one, whichever runs interleave or die.                   *)
ReviewsKept ==
    \A s \in Shas, m \in Modes :
        <<s, m>> \in recorded => <<s, m>> \in history \/ legacy[s] = m

(* report_store.rs:146, leaving a superseded file "would count that review *)
(* twice": a review is in the directory twice only while its writer is     *)
(* between the two steps, or after it died there and until the next run.   *)
CountedOnce ==
    \A s \in Shas, m \in Modes : <<s, m>> \in history /\ legacy[s] = m =>
        \/ <<s, m>> \in interrupted
        \/ \E r \in Runs : run[r].pc = "supersede" /\ Key(r) = <<s, m>>

(* The history holds each review, once.                                    *)
HistoryExact == ReviewsKept /\ CountedOnce

(* docs/jev-pipeline.md:100, "a fingerprint whose latest vote is Hide is   *)
(* dropped": no saved report shows a finding whose last saved vote,     *)
(* when the run began, was to hide it, whoever voted at the same time.     *)
HiddenIsDropped == latest.found \cap latest.wished = {}

\* s is where t began.
Begins(s, t) == Len(s) <= Len(t) /\ \A i \in 1..Len(s) : s[i] = t[i]

(* feedback_store.rs:13: appends of one process are serialized, so that    *)
(* the log is the votes that were written, none lost, twice or out of      *)
(* order, and what a browser is told was saved is in the log, where it was *)
(* said to be; whenever the dashboard dies, also before it answers.        *)
VotesKept ==
    /\ log = written
    /\ \A h \in Handlers : request[h].pc = "saved" => Begins(request[h].read, log)

(* report.rs:473-480: a report that is committed-only, or marked clean, is *)
(* of the head it names and leaves out only what was hidden, although the  *)
(* checkout may move between any two reads of it.  A working tree that     *)
(* moves away and back between two checks is not noticed; two moves.       *)
ReportIsOfItsHead ==
    latest.kind = "committed" \/ (latest.clean /\ moves < 2) =>
        latest.found = Present[latest.head] \ latest.wished

(* A saved report shows what there is, and nothing that was hidden.        *)
ReportIsTrue == HiddenIsDropped /\ ReportIsOfItsHead
==============================================================================
