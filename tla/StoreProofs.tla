----------------------------- MODULE StoreProofs -----------------------------
(***************************************************************************)
(* Store's invariants for every number of reviews, handlers, commits and   *)
(* findings.  Votes are kept because whoever holds the lock still has the  *)
(* log that is in the file; reviews are kept, and counted once, because a  *)
(* run about to remove a legacy file has already written its successor.    *)
(* A report is true because what a review hides is what was voted away     *)
(* when it read the log, and a head it has pinned, or found again at its   *)
(* end, is the head it has read unless the checkout moved there and back.  *)
(***************************************************************************)
EXTENDS Store, TLAPS

ReadIsCurrent == \A h \in Handlers : request[h].pc = "write" => request[h].read = log

SavedFirst == \A r \in Runs : run[r].pc = "supersede" => Key(r) \in history

IInv == TypeOK /\ VotesKept /\ ReadIsCurrent /\ SavedFirst /\ ReviewsKept /\ CountedOnce

-----------------------------------------------------------------------------
(* The invariant holds initially: the directory has only legacy files.     *)
LEMMA InitHolds == Init => IInv
<1> SUFFICES ASSUME Init PROVE IInv
  OBVIOUS
<1> USE StoreAssumption
<1>1. NewRun \in RunType
  BY DEF NewRun, RunType
<1>2. Idle \in RequestType
  BY DEF Idle, RequestType, Votes
<1>3. TypeOK
  <2>1. run \in [Runs -> RunType] /\ request \in [Handlers -> RequestType]
    BY <1>1, <1>2 DEF Init
  <2>2. /\ \A r \in Runs : run[r].pc = "new"
        /\ \A h \in Handlers : request[h].pc = "idle"
    BY DEF Init, NewRun, Idle
  <2>3. /\ head \in Shas /\ dirty \in BOOLEAN /\ moves \in Nat /\ votes \in Nat
        /\ history \subseteq Shas \X Modes
        /\ legacy \in [Shas -> Modes \cup {None}]
        /\ lock = None
    BY DEF Init, StoreAssumption
  <2>8. latest.found \subseteq Findings
    BY DEF Init, NoReport
  <2>9. log \in Seq(Votes) /\ written \in Seq(Votes)
    BY DEF Init
  <2>4. \A h \in Handlers : h # None
    BY DEF StoreAssumption
  <2>5. \A h \in Handlers : (request[h].pc = "write" <=> lock = h)
    BY <2>2, <2>3, <2>4
  <2>6. \A r \in Runs : /\ run[r].pc \notin {"new", "done"} => run[r].mode \in Modes
                        /\ run[r].pc \in {"record", "supersede"} => run[r].key \in Shas
    BY <2>2
  <2>7. \A h \in Handlers : request[h].pc \in {"lock", "write"} => request[h].f \in Findings
    BY <2>2
  <2> QED
    BY <2>1, <2>3, <2>5, <2>6, <2>7, <2>8, <2>9 DEF TypeOK
<1>4. VotesKept /\ ReadIsCurrent /\ SavedFirst
  BY DEF Init, VotesKept, ReadIsCurrent, SavedFirst, NewRun, Idle
<1>5. ReviewsKept
  BY DEF Init, ReviewsKept
<1>6. CountedOnce
  BY DEF Init, CountedOnce
<1> QED
  BY <1>3, <1>4, <1>5, <1>6 DEF IInv

(* A step that changes one run only, neither into nor out of the place     *)
(* between the two writes, keeps the invariant.                            *)
LEMMA AdvanceKeeps ==
    ASSUME IInv, NEW r \in Runs, NEW from, NEW changed \in RunType,
           Advance(r, from, changed),
           from # "supersede", changed.pc # "supersede",
           changed.pc \notin {"new", "done"} => changed.mode \in Modes,
           changed.pc = "record" => changed.key \in Shas
    PROVE  IInv'
<1> USE DEF IInv, Advance, checkout, files, dashboard
<1>1. \A q \in Runs : run'[q] = IF q = r THEN changed ELSE run[q]
  BY DEF TypeOK
<1>2. TypeOK'
  BY <1>1 DEF TypeOK
<1>3. VotesKept' /\ ReadIsCurrent'
  BY DEF VotesKept, ReadIsCurrent
<1>4. SavedFirst'
  BY <1>1 DEF SavedFirst, Key
<1>5. ReviewsKept'
  BY DEF ReviewsKept
<1>6. CountedOnce'
  BY <1>1 DEF CountedOnce, Key
<1> QED
  BY <1>2, <1>3, <1>4, <1>5, <1>6

-----------------------------------------------------------------------------
(* A review's reads and its saved report.                                  *)
LEMMA ReadingKeeps ==
    ASSUME IInv, NEW r \in Runs,
           \/ ReadFeedback(r) \/ Pin(r) \/ Identify(r) \/ CheckClean(r) \/ RunReview(r)
           \/ RecheckClean(r) \/ RecheckHead(r) \/ ReadKey(r)
    PROVE  IInv'
<1> run[r] \in RunType
  BY DEF IInv, TypeOK
<1> head \in Shas /\ dirty \in BOOLEAN
  BY DEF IInv, TypeOK
<1> run[r].pc \notin {"new", "done"} => run[r].mode \in Modes
  BY DEF IInv, TypeOK
<1>1. CASE ReadFeedback(r)
  <2>1. PICK mode \in Modes, kind \in {"worktree", "committed"}, readable \in BOOLEAN :
        Advance(r, "new", [run[r] EXCEPT
             !.mode = mode, !.kind = kind,
             !.hidden = IF readable THEN Suppressed ELSE {},
             !.wished = IF readable THEN Asked(written) ELSE {},
             !.pc = IF kind = "committed" THEN "pin" ELSE "identify"])
    BY <1>1 DEF ReadFeedback
  <2> DEFINE hides == IF readable THEN Suppressed ELSE {}
             wishes == IF readable THEN Asked(written) ELSE {}
             next == IF kind = "committed" THEN "pin" ELSE "identify"
             changed == [run[r] EXCEPT !.mode = mode, !.kind = kind, !.hidden = hides,
                                       !.wished = wishes, !.pc = next]
  <2>2. hides \subseteq Findings /\ wishes \subseteq Findings /\ next \in {"pin", "identify"}
    BY DEF Suppressed, Asked
  <2>3. Advance(r, "new", changed)
    BY <2>1
  <2> HIDE DEF hides, wishes, next
  <2>4. changed \in RunType /\ changed.pc \in {"pin", "identify"} /\ changed.mode \in Modes
    BY <2>2 DEF RunType, Reading
  <2> HIDE DEF changed
  <2> QED
    BY <2>3, <2>4, AdvanceKeeps
<1>2. CASE Pin(r)
  <2> DEFINE changed == [run[r] EXCEPT !.pinned = head, !.pc = "identify"]
  <2>1. changed \in RunType /\ changed.pc = "identify" /\ changed.mode = run[r].mode
    BY DEF RunType, Reading
  <2>2. Advance(r, "pin", changed) /\ run[r].pc = "pin"
    BY <1>2 DEF Pin, Advance
  <2> HIDE DEF changed
  <2> QED
    BY <2>1, <2>2, AdvanceKeeps
<1>3. CASE Identify(r)
  <2> DEFINE reviewed == IF run[r].kind = "committed" THEN run[r].pinned ELSE head
             still == reviewed = head
             changed == [run[r] EXCEPT !.head = reviewed, !.clean = still, !.pc = "clean"]
  <2>1. reviewed \in Shas \cup {None} /\ still \in BOOLEAN
    BY DEF RunType
  <2>2. Advance(r, "identify", changed) /\ run[r].pc = "identify"
    BY <1>3 DEF Identify, Advance
  <2> HIDE DEF reviewed, still
  <2>3. changed \in RunType /\ changed.pc = "clean" /\ changed.mode = run[r].mode
    BY <2>1 DEF RunType, Reading
  <2> HIDE DEF changed
  <2> QED
    BY <2>2, <2>3, AdvanceKeeps
<1>4. CASE CheckClean(r)
  <2> DEFINE changed == [run[r] EXCEPT !.clean = @ /\ ~dirty, !.pc = "review"]
  <2>1. changed \in RunType /\ changed.pc = "review" /\ changed.mode = run[r].mode
    BY DEF RunType, Reading
  <2>2. Advance(r, "clean", changed) /\ run[r].pc = "clean"
    BY <1>4 DEF CheckClean, Advance
  <2> HIDE DEF changed
  <2> QED
    BY <2>1, <2>2, AdvanceKeeps
<1>5. CASE RunReview(r)
  <2> PICK content \in SUBSET Findings :
        /\ run[r].pc = "review"
        /\ Advance(r, "review", [run[r] EXCEPT
             !.found = content \ run[r].hidden, !.pc = "reclean"])
    BY <1>5 DEF RunReview
  <2> DEFINE changed == [run[r] EXCEPT !.found = content \ run[r].hidden, !.pc = "reclean"]
  <2>1. changed \in RunType /\ changed.pc = "reclean" /\ changed.mode = run[r].mode
    BY DEF RunType, Reading
  <2>2. Advance(r, "review", changed)
    OBVIOUS
  <2> HIDE DEF changed
  <2> QED
    BY <2>1, <2>2, AdvanceKeeps
<1>6. CASE RecheckClean(r)
  <2> DEFINE changed == [run[r] EXCEPT !.clean = @ /\ ~dirty, !.pc = "rehead"]
  <2>1. changed \in RunType /\ changed.pc = "rehead" /\ changed.mode = run[r].mode
    BY DEF RunType, Reading
  <2>2. Advance(r, "reclean", changed) /\ run[r].pc = "reclean"
    BY <1>6 DEF RecheckClean, Advance
  <2> HIDE DEF changed
  <2> QED
    BY <2>1, <2>2, AdvanceKeeps
<1>7. CASE RecheckHead(r)
  <2> DEFINE changed == [run[r] EXCEPT !.clean = @ /\ head = run[r].head, !.pc = "save"]
  <2>1. changed \in RunType /\ changed.pc = "save" /\ changed.mode = run[r].mode
    BY DEF RunType, Reading
  <2>2. Advance(r, "rehead", changed) /\ run[r].pc = "rehead"
    BY <1>7 DEF RecheckHead, Advance
  <2> HIDE DEF changed
  <2> QED
    BY <2>1, <2>2, AdvanceKeeps
<1>8. CASE ReadKey(r)
  <2> DEFINE changed == [run[r] EXCEPT !.key = head, !.pc = "record"]
  <2>1. /\ changed \in RunType /\ changed.pc = "record" /\ changed.mode = run[r].mode
        /\ changed.key = head
    BY DEF RunType
  <2>2. Advance(r, "key", changed) /\ run[r].pc = "key"
    BY <1>8 DEF ReadKey, Advance
  <2> HIDE DEF changed
  <2> QED
    BY <2>1, <2>2, AdvanceKeeps
<1> QED
  BY <1>1, <1>2, <1>3, <1>4, <1>5, <1>6, <1>7, <1>8

-----------------------------------------------------------------------------
(* The steps that write the directory.                                     *)
LEMMA SaveReportKeeps == ASSUME IInv, NEW r \in Runs, SaveReport(r) PROVE IInv'
<1> USE DEF IInv, SaveReport, checkout, dashboard
<1> DEFINE saved == [NewRun EXCEPT !.pc = "key", !.mode = run[r].mode]
<1>1. /\ run[r] \in RunType /\ run[r].mode \in Modes
      /\ run[r].found \subseteq Findings
  BY DEF TypeOK, RunType
<1>2. /\ saved \in RunType /\ saved.pc = "key" /\ saved.mode \in Modes
      /\ Done \in RunType /\ Done.pc = "done"
  BY <1>1 DEF NewRun, Done, RunType
<1>3. PICK changed \in {saved, Done} : run' = [run EXCEPT ![r] = changed]
  OBVIOUS
<1>4. \A q \in Runs : run'[q] = IF q = r THEN changed ELSE run[q]
  BY <1>3 DEF TypeOK
<1>5. /\ changed \in RunType /\ changed.pc \in {"key", "done"}
      /\ changed.pc # "done" => changed.mode \in Modes
  BY <1>2
<1> HIDE DEF saved
<1>6. TypeOK'
  BY <1>1, <1>3, <1>4, <1>5 DEF TypeOK
<1>7. VotesKept' /\ ReadIsCurrent' /\ ReviewsKept'
  BY DEF VotesKept, ReadIsCurrent, ReviewsKept
<1>8. SavedFirst' /\ CountedOnce'
  BY <1>4, <1>5 DEF SavedFirst, CountedOnce, Key
<1> QED
  BY <1>6, <1>7, <1>8

LEMMA SaveHistoryKeeps == ASSUME IInv, NEW r \in Runs, SaveHistory(r) PROVE IInv'
<1> USE DEF IInv, SaveHistory, checkout, dashboard
<1>1. /\ run[r] \in RunType /\ run[r].mode \in Modes /\ run[r].key \in Shas
      /\ run[r].pc = "record"
  BY DEF TypeOK
<1>2. \A q \in Runs : run'[q] = IF q = r THEN [run[r] EXCEPT !.pc = "supersede"] ELSE run[q]
  BY DEF TypeOK
<1>3. [run[r] EXCEPT !.pc = "supersede"] \in RunType
  BY <1>1 DEF RunType
<1>4. run' \in [Runs -> RunType]
  BY <1>3 DEF TypeOK
<1>5. \A q \in Runs : /\ run'[q].key = run[q].key /\ run'[q].mode = run[q].mode
                      /\ q # r => run'[q].pc = run[q].pc
  BY <1>1, <1>2, <1>3 DEF RunType
<1>6. run'[r].pc = "supersede"
  BY <1>1, <1>2, <1>3 DEF RunType
<1>7. TypeOK'
  <2>1. history' \subseteq Shas \X Modes
    BY <1>1 DEF TypeOK, Key
  <2>2. \A q \in Runs :
          /\ run'[q].pc \notin {"new", "done"} => run'[q].mode \in Modes
          /\ run'[q].pc \in {"record", "supersede"} => run'[q].key \in Shas
    BY <1>1, <1>5 DEF TypeOK
  <2> QED
    BY <1>4, <2>1, <2>2 DEF TypeOK
<1>8. VotesKept' /\ ReadIsCurrent' /\ ReviewsKept'
  BY DEF VotesKept, ReadIsCurrent, ReviewsKept
<1>9. SavedFirst'
  BY <1>5, <1>6 DEF SavedFirst, Key
<1>10. CountedOnce'
  BY <1>1, <1>5, <1>6 DEF CountedOnce, Key
<1> QED
  BY <1>7, <1>8, <1>9, <1>10

(* The legacy file that is removed has a successor, so nothing is lost.    *)
LEMMA RemoveLegacyKeeps == ASSUME IInv, NEW r \in Runs, RemoveLegacy(r) PROVE IInv'
<1> USE DEF IInv, RemoveLegacy, checkout, dashboard
<1>1. /\ run[r].mode \in Modes /\ run[r].key \in Shas /\ run[r].pc = "supersede"
      /\ Key(r) \in history
  BY DEF TypeOK, SavedFirst
<1>2. Done \in RunType /\ Done.pc = "done"
  BY DEF Done, NewRun, RunType
<1>3. \A q \in Runs : run'[q] = IF q = r THEN Done ELSE run[q]
  BY DEF TypeOK
<1>4. \A s \in Shas : legacy'[s] = IF s = run[r].key /\ legacy[s] = run[r].mode
                                  THEN None ELSE legacy[s]
  BY DEF TypeOK
<1>5. TypeOK'
  <2>1. legacy' \in [Shas -> Modes \cup {None}]
    BY DEF TypeOK
  <2>2. run' \in [Runs -> RunType]
    BY <1>2 DEF TypeOK
  <2> QED
    BY <1>2, <1>3, <2>1, <2>2 DEF TypeOK
<1>6. VotesKept' /\ ReadIsCurrent'
  BY DEF VotesKept, ReadIsCurrent
<1>7. SavedFirst'
  BY <1>2, <1>3 DEF SavedFirst, Key
<1>8. ReviewsKept'
  BY <1>1, <1>4 DEF ReviewsKept, Key
<1>9. CountedOnce'
  <2> SUFFICES ASSUME NEW s \in Shas, NEW m \in Modes,
                      <<s, m>> \in history, legacy'[s] = m
               PROVE  \/ <<s, m>> \in interrupted'
                      \/ \E q \in Runs : run'[q].pc = "supersede" /\ Key(q)' = <<s, m>>
    BY DEF CountedOnce
  <2>1. None \notin Modes
    BY StoreAssumption DEF StoreAssumption, Modes
  <2>2. legacy[s] = m /\ <<s, m>> # Key(r)
    BY <1>1, <1>4, <2>1 DEF Key
  <2>3. \/ <<s, m>> \in interrupted
        \/ \E q \in Runs : run[q].pc = "supersede" /\ Key(q) = <<s, m>>
    BY <2>2 DEF CountedOnce
  <2> QED
    BY <1>3, <2>2, <2>3 DEF Key
<1> QED
  BY <1>5, <1>6, <1>7, <1>8, <1>9

LEMMA AbortKeeps == ASSUME IInv, NEW r \in Runs, Abort(r) PROVE IInv'
<1> USE DEF IInv, Abort, checkout, files, dashboard
<1>1. Done \in RunType /\ Done.pc = "done"
  BY DEF Done, NewRun, RunType
<1>2. \A q \in Runs : run'[q] = IF q = r THEN Done ELSE run[q]
  BY DEF TypeOK
<1>3. TypeOK'
  <2>1. run' \in [Runs -> RunType]
    BY <1>1 DEF TypeOK
  <2> QED
    BY <1>1, <1>2, <2>1 DEF TypeOK
<1>4. VotesKept' /\ ReadIsCurrent' /\ ReviewsKept'
  BY DEF VotesKept, ReadIsCurrent, ReviewsKept
<1>5. SavedFirst'
  BY <1>1, <1>2 DEF SavedFirst, Key
<1>6. CountedOnce'
  BY <1>1, <1>2 DEF CountedOnce, Key
<1> QED
  BY <1>3, <1>4, <1>5, <1>6

-----------------------------------------------------------------------------
(* Votes.  Only the lock's holder writes, and what it read is the log.     *)
LEMMA VoteKeeps == ASSUME IInv, NEW h \in Handlers, Vote(h) PROVE IInv'
<1> USE DEF IInv, checkout, files
<1>1. PICK f \in Findings, hide \in BOOLEAN :
        request' = [request EXCEPT ![h] = [Idle EXCEPT !.f = f, !.hide = hide,
                      !.pc = IF f \in latest.found THEN "lock" ELSE "refused"]]
  BY DEF Vote
<1> DEFINE asked == [Idle EXCEPT !.f = f, !.hide = hide,
                      !.pc = IF f \in latest.found THEN "lock" ELSE "refused"]
<1>2. asked \in RequestType /\ asked.pc \in {"lock", "refused"} /\ asked.f \in Findings
  <2>1. Idle \in RequestType
    BY DEF Idle, RequestType, Votes
  <2> QED
    BY <2>1 DEF RequestType
<1> HIDE DEF asked
<1>3. \A g \in Handlers : request'[g] = IF g = h THEN asked ELSE request[g]
  BY <1>1 DEF TypeOK, asked
<1>4. request[h].pc = "idle"
  BY DEF Vote
<1>5. TypeOK'
  <2>1. request' \in [Handlers -> RequestType]
    BY <1>1, <1>2 DEF TypeOK, asked
  <2>2. votes' \in Nat
    BY DEF Vote, TypeOK
  <2>3. \A g \in Handlers :
          /\ request'[g].pc = "write" <=> lock = g
          /\ request'[g].pc \in {"lock", "write"} => request'[g].f \in Findings
    BY <1>2, <1>3, <1>4 DEF TypeOK
  <2> QED
    BY <2>1, <2>2, <2>3 DEF TypeOK, Vote
<1>6. VotesKept' /\ ReviewsKept'
  BY DEF Vote, VotesKept, ReviewsKept
<1>7. ReadIsCurrent'
  BY <1>2, <1>3 DEF Vote, ReadIsCurrent
<1>8. SavedFirst' /\ CountedOnce'
  BY DEF Vote, SavedFirst, CountedOnce, Key
<1> QED
  BY <1>5, <1>6, <1>7, <1>8

LEMMA ReadLogKeeps == ASSUME IInv, NEW h \in Handlers, ReadLog(h) PROVE IInv'
<1> USE DEF IInv, checkout, files
<1> DEFINE held == [request[h] EXCEPT !.pc = "write", !.read = log]
<1>1. /\ request[h] \in RequestType /\ request[h].f \in Findings
      /\ log \in Seq(Votes) /\ request[h].pc = "lock" /\ lock = None
  BY DEF TypeOK, ReadLog
<1>2. /\ held \in RequestType /\ held.pc = "write" /\ held.f \in Findings /\ held.read = log
  BY <1>1 DEF RequestType
<1>3. Idle \in RequestType /\ Idle.pc = "idle"
  BY DEF Idle, RequestType, Votes
<1>4. PICK answer \in {held, Idle} :
        /\ request' = [request EXCEPT ![h] = answer]
        /\ lock' = IF answer.pc = "write" THEN h ELSE None
  <2>1. CASE lock' = h /\ request' = [request EXCEPT ![h].pc = "write", ![h].read = log]
    <3>1. request' = [request EXCEPT ![h] = held]
      BY <2>1 DEF TypeOK
    <3> QED
      BY <2>1, <3>1, <1>2
  <2>2. CASE lock' = lock /\ request' = [request EXCEPT ![h] = Idle]
    BY <2>2, <1>1, <1>3
  <2> QED
    BY <2>1, <2>2 DEF ReadLog
<1>5. /\ answer \in RequestType
      /\ answer.pc \in {"write", "idle"}
      /\ answer.pc = "write" => answer.f \in Findings /\ answer.read = log
  BY <1>2, <1>3
<1> HIDE DEF held
<1>6. \A g \in Handlers : request'[g] = IF g = h THEN answer ELSE request[g]
  BY <1>4 DEF TypeOK
<1>7. TypeOK'
  <2>1. request' \in [Handlers -> RequestType] /\ lock' \in Handlers \cup {None}
    BY <1>4, <1>5 DEF TypeOK
  <2>2. \A g \in Handlers : g # None
    BY StoreAssumption DEF StoreAssumption
  <2>3. \A g \in Handlers : request[g].pc # "write"
    BY <1>1, <2>2 DEF TypeOK
  <2>4. \A g \in Handlers :
          /\ request'[g].pc = "write" <=> lock' = g
          /\ request'[g].pc \in {"lock", "write"} => request'[g].f \in Findings
    BY <1>4, <1>5, <1>6, <2>2, <2>3 DEF TypeOK
  <2> QED
    BY <2>1, <2>4 DEF TypeOK, ReadLog
<1>8. VotesKept' /\ ReviewsKept'
  BY <1>5, <1>6 DEF ReadLog, VotesKept, ReviewsKept
<1>9. ReadIsCurrent'
  BY <1>5, <1>6 DEF ReadLog, ReadIsCurrent
<1>10. SavedFirst' /\ CountedOnce'
  BY DEF ReadLog, SavedFirst, CountedOnce, Key
<1> QED
  BY <1>7, <1>8, <1>9, <1>10

LEMMA BeginsFurther ==
    ASSUME NEW s \in Seq(Votes), NEW t \in Seq(Votes), NEW u \in Seq(Votes),
           Begins(s, t), Begins(t, u)
    PROVE  Begins(s, u)
<1>1. Len(s) \in Nat /\ Len(t) \in Nat /\ Len(u) \in Nat
  OBVIOUS
<1>2. Len(s) <= Len(u)
  BY <1>1 DEF Begins
<1>3. ASSUME NEW i \in 1..Len(s) PROVE s[i] = u[i]
  BY <1>1 DEF Begins
<1> QED
  BY <1>2, <1>3 DEF Begins

LEMMA WriteLogKeeps == ASSUME IInv, NEW h \in Handlers, WriteLog(h) PROVE IInv'
<1> USE DEF IInv, checkout, files
<1> DEFINE entry == [f |-> request[h].f, hide |-> request[h].hide]
<1>1. /\ request[h] \in RequestType /\ request[h].pc = "write" /\ lock = h
      /\ request[h].f \in Findings /\ request[h].read = log
  BY DEF WriteLog, TypeOK, ReadIsCurrent
<1>2. entry \in Votes
  BY <1>1 DEF RequestType, Votes
<1>3. Idle \in RequestType /\ Idle.pc = "idle"
  BY DEF Idle, RequestType, Votes
<1> DEFINE grown == Append(log, entry)
           saved == [request[h] EXCEPT !.pc = "saved", !.read = grown]
<1>11. log \in Seq(Votes) /\ grown \in Seq(Votes) /\ Begins(log, grown) /\ Begins(grown, grown)
  <2>1. log \in Seq(Votes)
    BY DEF TypeOK
  <2> HIDE DEF entry
  <2>2. grown \in Seq(Votes) /\ Len(grown) = Len(log) + 1 /\ Len(log) \in Nat
        /\ \A i \in 1..Len(log) : grown[i] = log[i]
    BY <1>2, <2>1
  <2> HIDE DEF grown
  <2> QED
    BY <2>1, <2>2 DEF Begins
<1>12. saved \in RequestType /\ saved.pc = "saved" /\ saved.read = grown
  <2> HIDE DEF grown
  <2> QED
    BY <1>1, <1>11 DEF RequestType
<1>13. PICK next \in {saved, Idle} :
         /\ request' = [request EXCEPT ![h] = next]
         /\ next = saved => log' = grown /\ written' = Append(written, entry)
         /\ next = Idle => UNCHANGED <<log, written>>
  <2>1. saved # Idle
    BY <1>3, <1>12
  <2>2. CASE UNCHANGED <<log, written>> /\ request' = [request EXCEPT ![h] = Idle]
    BY <2>1, <2>2
  <2>3. CASE /\ log' = grown /\ written' = Append(written, entry)
             /\ request' = [request EXCEPT ![h].pc = "saved", ![h].read = grown]
    <3>1. request' = [request EXCEPT ![h] = saved]
      BY <2>3 DEF TypeOK
    <3> HIDE DEF saved
    <3> QED
      BY <2>1, <2>3, <3>1
  <2> QED
    BY <1>1, <2>2, <2>3 DEF WriteLog
<1> HIDE DEF saved
<1>4. \A g \in Handlers : request'[g] = IF g = h THEN next ELSE request[g]
  BY <1>13 DEF TypeOK
<1>14. next \in RequestType /\ next.pc \in {"saved", "idle"}
  BY <1>3, <1>12, <1>13
<1>15. Begins(log, log') /\ (next.pc = "saved" => next.read = log')
  <2>1. Begins(log, log)
    BY <1>11 DEF Begins
  <2> QED
    BY <1>3, <1>11, <1>12, <1>13, <2>1
<1>5. VotesKept'
  <2>1. log' = written'
    BY <1>13 DEF VotesKept
  <2>2. ASSUME NEW g \in Handlers, request'[g].pc = "saved" PROVE Begins(request'[g].read, log')
    <3>1. CASE g = h
      <4>1. request'[g].read = log'
        BY <1>4, <1>15, <2>2, <3>1
      <4>2. Begins(log', log')
        BY <1>11, <1>13 DEF Begins
      <4> QED
        BY <4>1, <4>2
    <3>2. CASE g # h
      <4>1. Begins(request[g].read, log) /\ request'[g] = request[g]
        BY <1>4, <2>2, <3>2 DEF VotesKept
      <4>2. request[g].read \in Seq(Votes) /\ log \in Seq(Votes) /\ log' \in Seq(Votes)
        BY <1>11, <1>13 DEF TypeOK, RequestType
      <4>3. Begins(request[g].read, log')
        BY <1>15, <4>1, <4>2, BeginsFurther
      <4> QED
        BY <4>1, <4>3
    <3> QED
      BY <3>1, <3>2
  <2> QED
    BY <2>1, <2>2 DEF VotesKept
<1>6. log' \in Seq(Votes) /\ written' \in Seq(Votes)
  BY <1>5, <1>11, <1>13 DEF VotesKept
<1>7. \A g \in Handlers : request'[g].pc # "write"
  BY <1>1, <1>14, <1>4 DEF TypeOK
<1>8. TypeOK'
  <2>1. request' \in [Handlers -> RequestType] /\ lock' = None
    BY <1>13, <1>14 DEF WriteLog, TypeOK
  <2>2. \A g \in Handlers :
          /\ request'[g].pc = "write" <=> lock' = g
          /\ request'[g].pc \in {"lock", "write"} => request'[g].f \in Findings
    BY StoreAssumption, <1>14, <1>4, <1>7, <2>1 DEF StoreAssumption, TypeOK
  <2> QED
    BY <1>6, <2>1, <2>2 DEF TypeOK, WriteLog
<1>9. ReadIsCurrent'
  BY <1>7 DEF ReadIsCurrent
<1>10. ReviewsKept' /\ SavedFirst' /\ CountedOnce'
  BY DEF WriteLog, ReviewsKept, SavedFirst, CountedOnce, Key
<1> QED
  BY <1>5, <1>8, <1>9, <1>10

LEMMA AnswerKeeps == ASSUME IInv, NEW h \in Handlers, Answer(h) PROVE IInv'
<1> USE DEF IInv, Answer, checkout, files
<1>1. Idle \in RequestType /\ Idle.pc = "idle"
  BY DEF Idle, RequestType, Votes
<1>2. \A g \in Handlers : request'[g] = IF g = h THEN Idle ELSE request[g]
  BY DEF TypeOK
<1>3. TypeOK'
  <2>1. request' \in [Handlers -> RequestType]
    BY <1>1 DEF TypeOK
  <2>2. \A g \in Handlers :
          /\ request'[g].pc = "write" <=> lock' = g
          /\ request'[g].pc \in {"lock", "write"} => request'[g].f \in Findings
    BY <1>1, <1>2 DEF TypeOK
  <2> QED
    BY <2>1, <2>2 DEF TypeOK
<1>4. VotesKept' /\ ReviewsKept'
  BY <1>1, <1>2 DEF VotesKept, ReviewsKept
<1>5. ReadIsCurrent'
  BY <1>1, <1>2 DEF ReadIsCurrent
<1>6. SavedFirst' /\ CountedOnce'
  BY DEF SavedFirst, CountedOnce, Key
<1> QED
  BY <1>3, <1>4, <1>5, <1>6

(* A restart drops the requests in memory and the lock with them.          *)
LEMMA RestartKeeps == ASSUME IInv, Restart PROVE IInv'
<1> USE DEF IInv, Restart, checkout, files
<1>1. Idle \in RequestType /\ Idle.pc = "idle"
  BY DEF Idle, RequestType, Votes
<1>2. TypeOK'
  <2>1. request' \in [Handlers -> RequestType] /\ lock' \in Handlers \cup {None}
    BY <1>1
  <2>2. \A g \in Handlers :
          /\ request'[g].pc = "write" <=> lock' = g
          /\ request'[g].pc \in {"lock", "write"} => request'[g].f \in Findings
    BY StoreAssumption, <1>1 DEF StoreAssumption
  <2> QED
    BY <2>1, <2>2 DEF TypeOK
<1>3. VotesKept' /\ ReadIsCurrent' /\ ReviewsKept'
  BY <1>1 DEF VotesKept, ReadIsCurrent, ReviewsKept
<1>4. SavedFirst' /\ CountedOnce'
  BY DEF SavedFirst, CountedOnce, Key
<1> QED
  BY <1>2, <1>3, <1>4

LEMMA CheckoutKeeps == ASSUME IInv, MoveCheckout \/ UNCHANGED vars PROVE IInv'
<1> USE DEF IInv, MoveCheckout, vars, checkout, files, dashboard
<1>1. TypeOK'
  <2>1. /\ head' \in Shas /\ dirty' \in BOOLEAN /\ moves' \in Nat
        /\ UNCHANGED <<votes, run, latest, history, legacy, log, written, lock, request>>
    <3>1. head \in Shas /\ dirty \in BOOLEAN /\ moves \in Nat
      BY DEF TypeOK
    <3>2. head' \in Shas
      BY <3>1
    <3>3. dirty' \in BOOLEAN
      BY <3>1, Zenon
    <3>4. moves' \in Nat
      BY <3>1
    <3>5. UNCHANGED <<votes, run, latest, history, legacy, log, written, lock, request>>
      OBVIOUS
    <3> QED
      BY <3>2, <3>3, <3>4, <3>5
  <2> QED
    BY <2>1 DEF TypeOK
<1>2. VotesKept' /\ ReadIsCurrent' /\ ReviewsKept' /\ SavedFirst' /\ CountedOnce'
  BY DEF VotesKept, ReadIsCurrent, ReviewsKept, SavedFirst, CountedOnce, Key
<1> QED
  BY <1>1, <1>2

-----------------------------------------------------------------------------
LEMMA NextKeeps == IInv /\ [Next]_vars => IInv'
<1> SUFFICES ASSUME IInv, [Next]_vars PROVE IInv'
  OBVIOUS
<1>1. ASSUME NEW r \in Runs, Review(r) \/ Abort(r) PROVE IInv'
  <2>1. CASE \/ ReadFeedback(r) \/ Pin(r) \/ Identify(r) \/ CheckClean(r) \/ RunReview(r)
             \/ RecheckClean(r) \/ RecheckHead(r) \/ ReadKey(r)
    BY <2>1, ReadingKeeps
  <2>2. CASE SaveReport(r)
    BY <2>2, SaveReportKeeps
  <2>3. CASE SaveHistory(r)
    BY <2>3, SaveHistoryKeeps
  <2>4. CASE RemoveLegacy(r)
    BY <2>4, RemoveLegacyKeeps
  <2>5. CASE Abort(r)
    BY <2>5, AbortKeeps
  <2> QED
    BY <1>1, <2>1, <2>2, <2>3, <2>4, <2>5 DEF Review
<1>2. ASSUME NEW h \in Handlers, Vote(h) \/ Serve(h) PROVE IInv'
  <2>1. CASE Vote(h)
    BY <2>1, VoteKeeps
  <2>2. CASE ReadLog(h)
    BY <2>2, ReadLogKeeps
  <2>3. CASE WriteLog(h)
    BY <2>3, WriteLogKeeps
  <2>4. CASE Answer(h)
    BY <2>4, AnswerKeeps
  <2> QED
    BY <1>2, <2>1, <2>2, <2>3, <2>4 DEF Serve
<1>3. CASE Restart
  BY <1>3, RestartKeeps
<1>4. CASE MoveCheckout \/ UNCHANGED vars
  BY <1>4, CheckoutKeeps
<1> QED
  BY <1>1, <1>2, <1>3, <1>4 DEF Next

(* The inductive invariant of the reviews directory.                       *)
THEOREM DirectoryInvariant == Spec => []IInv
<1>1. Init => IInv
  BY InitHolds
<1>2. IInv /\ [Next]_vars => IInv'
  BY NextKeeps
<1> QED
  BY <1>1, <1>2, PTL DEF Spec

(* Every state of the reviews directory is well typed; in particular the   *)
(* feedback lock is held exactly by the handler that is about to write.    *)
THEOREM StoreTypeCorrect == Spec => []TypeOK
<1>1. IInv => TypeOK
  BY DEF IInv
<1> QED
  BY <1>1, DirectoryInvariant, PTL

(* feedback_store.rs:13: however many votes are served at once and however *)
(* often the dashboard restarts, the log is the votes written, and an      *)
(* answer tells of a log that is still there.                              *)
THEOREM VotesNeverLost == Spec => []VotesKept
<1>1. IInv => VotesKept
  BY DEF IInv
<1> QED
  BY <1>1, DirectoryInvariant, PTL

(* report_store.rs:146-149: whichever reviews interleave or die, a review  *)
(* that was ever in the history still is.                                  *)
THEOREM ReviewsNeverLost == Spec => []ReviewsKept
<1>1. IInv => ReviewsKept
  BY DEF IInv
<1> QED
  BY <1>1, DirectoryInvariant, PTL

(* report_store.rs:146: a review is in the history twice only while its    *)
(* writer is between the two writes, or died there.                        *)
THEOREM NeverCountedTwice == Spec => []CountedOnce
<1>1. IInv => CountedOnce
  BY DEF IInv
<1> QED
  BY <1>1, DirectoryInvariant, PTL

(* report_store.rs:146-149: the history holds every review it ever held,   *)
(* and holds it once but for a replacement that is under way or was cut.   *)
THEOREM HistoryNeverWrong == Spec => []HistoryExact
<1>1. ReviewsKept /\ CountedOnce => HistoryExact
  BY DEF HistoryExact
<1> QED
  BY <1>1, ReviewsNeverLost, NeverCountedTwice, PTL
-----------------------------------------------------------------------------
(* Reports.  What a review hides is what it was asked to.  A review that   *)
(* finds the tree clean after it has read it, and the head unmoved at its  *)
(* end, has read its head, unless the checkout moved twice.                *)
Identified == {"clean", "review", "reclean", "rehead", "save"}

Read == {"reclean", "rehead", "save"}

\* Of two entries of a fingerprint one is later, so that one is the last.
LastVotes ==
    \A f \in Findings : Own(log, f) # {} => \E i \in Own(log, f) : \A j \in Own(log, f) : j <= i

UnmovedAt(r) ==
    run[r].pc \in Identified /\ run[r].kind # "committed" => run[r].head = head

Unmoved == moves = 0 => ~dirty /\ \A r \in Runs : UnmovedAt(r)

\* Nothing can have changed what run r has read but what r will still see.
Settled(r) ==
    /\ run[r].clean /\ moves < 2
    /\ run[r].pc = "reclean" => ~dirty
    /\ run[r].pc = "save" \/ run[r].head = head

HonestAt(r) ==
    /\ run[r].hidden = run[r].wished
    /\ run[r].pc \in Identified /\ run[r].kind = "committed" => run[r].head = run[r].pinned
    /\ run[r].pc \in Read => run[r].found \cap run[r].hidden = {}
    /\ run[r].pc \in Read /\ (run[r].kind = "committed" \/ Settled(r)) =>
         run[r].found = Present[run[r].head] \ run[r].hidden

Honest == Unmoved /\ (\A r \in Runs : HonestAt(r)) /\ ReportIsTrue

(* The vote that counts is the last one, as the log is read and as the     *)
(* voters mean it.                                                         *)
LEMMA HiddenAsAsked == ASSUME IInv, LastVotes PROVE Suppressed = Asked(written)
<1> USE DEF IInv, VotesKept
<1>1. log \in Seq(Votes) /\ DOMAIN log = 1..Len(log) /\ Len(log) \in Nat
  BY DEF TypeOK
<1>2. SUFFICES \A f \in Findings : Latest(log, f) = TRUE <=> f \in Asked(log)
  <2>1. Suppressed \subseteq Findings /\ Asked(log) \subseteq Findings
    BY DEF Suppressed, Asked
  <2>2. \A f \in Findings : f \in Suppressed <=> Latest(log, f) = TRUE
    BY Zenon DEF Suppressed
  <2>3. written = log
    OBVIOUS
  <2> QED
    BY <1>2, <2>1, <2>2, <2>3, Zenon
<1> SUFFICES ASSUME NEW f \in Findings PROVE Latest(log, f) = TRUE <=> f \in Asked(log)
  OBVIOUS
<1>3. CASE Own(log, f) = {}
  <2>1. Latest(log, f) = None /\ None # TRUE
    BY <1>3, StoreAssumption, Zenon DEF StoreAssumption, Latest
  <2>2. f \notin Asked(log)
    BY <1>3 DEF Asked, Own
  <2> QED
    BY <2>1, <2>2
<1>4. CASE Own(log, f) # {}
  <2> DEFINE last == CHOOSE i \in Own(log, f) : \A j \in Own(log, f) : j <= i
  <2>1. last \in Own(log, f) /\ \A j \in Own(log, f) : j <= last
    BY <1>4 DEF LastVotes
  <2>2. Latest(log, f) = log[last].hide
    BY <1>4 DEF Latest
  <2> HIDE DEF last
  <2>3. /\ last \in 1..Len(log) /\ log[last] \in Votes /\ log[last].f = f
        /\ \A j \in 1..Len(log) : log[j].f = f => j <= last
    BY <1>1, <2>1 DEF Own
  <2>4. log[last].hide = TRUE => log[last] = [f |-> f, hide |-> TRUE]
    BY <2>3 DEF Votes
  <2>5. ASSUME log[last].hide = TRUE PROVE f \in Asked(log)
    <3>1. \A j \in DOMAIN log : j > last => log[j].f # f
      BY <1>1, <2>3
    <3> QED
      BY <1>1, <2>3, <2>4, <2>5, <3>1 DEF Asked
  <2>6. ASSUME f \in Asked(log) PROVE log[last].hide = TRUE
    <3>1. PICK i \in 1..Len(log) : /\ log[i] = [f |-> f, hide |-> TRUE]
                                   /\ \A j \in 1..Len(log) : j > i => log[j].f # f
      BY <1>1, <2>6 DEF Asked
    <3>2. i <= last /\ ~(last > i)
      BY <2>3, <3>1
    <3>3. i = last
      BY <2>3, <3>1, <3>2
    <3> QED
      BY <3>1, <3>3
  <2> QED
    BY <2>2, <2>5, <2>6
<1> QED
  BY <1>3, <1>4

(* A log that grows at its end has a last vote wherever it has one.        *)
LEMMA LastVotesStay == IInv /\ LastVotes /\ [Next]_vars => LastVotes'
<1> SUFFICES ASSUME IInv, LastVotes, [Next]_vars PROVE LastVotes'
  OBVIOUS
<1>1. CASE log' = log
  BY <1>1 DEF LastVotes, Own
<1>2. CASE \E h \in Handlers : WriteLog(h) /\ log' # log
  <2>1. PICK h \in Handlers : WriteLog(h) /\ log' # log
    BY <1>2
  <2> DEFINE entry == [f |-> request[h].f, hide |-> request[h].hide]
  <2>2. /\ log \in Seq(Votes) /\ entry \in Votes /\ log' = Append(log, entry)
    BY <2>1 DEF IInv, TypeOK, ReadIsCurrent, WriteLog, Votes, RequestType
  <2> HIDE DEF entry
  <2>3. /\ DOMAIN log = 1..Len(log) /\ Len(log) \in Nat
        /\ DOMAIN log' = 1..(Len(log) + 1)
        /\ \A i \in 1..Len(log) : log'[i] = log[i]
        /\ log'[Len(log) + 1] = entry
    BY <2>2
  <2>4. SUFFICES ASSUME NEW f \in Findings, Own(log, f)' # {}
                 PROVE  \E i \in Own(log, f)' : \A j \in Own(log, f)' : j <= i
    BY DEF LastVotes, Own
  <2>5. CASE entry.f = f
    BY <2>3, <2>5 DEF Own
  <2>6. CASE entry.f # f
    <3>1. Own(log, f)' = Own(log, f)
      BY <2>3, <2>6 DEF Own
    <3> QED
      BY <2>4, <3>1 DEF LastVotes
  <2> QED
    BY <2>5, <2>6
<1>3. log' = log \/ \E h \in Handlers : WriteLog(h)
  <2>1. ASSUME NEW r \in Runs, Review(r) \/ Abort(r) PROVE log' = log
    BY <2>1 DEF Review, dashboard, Advance, ReadFeedback, Pin, Identify, CheckClean, RunReview,
       RecheckClean, RecheckHead, SaveReport, ReadKey, SaveHistory, RemoveLegacy, Abort
  <2>2. ASSUME NEW h \in Handlers, Vote(h) \/ Serve(h) PROVE log' = log \/ WriteLog(h)
    BY <2>2 DEF Serve, Vote, ReadLog, Answer
  <2>3. Restart \/ MoveCheckout \/ UNCHANGED vars => log' = log
    BY DEF Restart, MoveCheckout, vars, dashboard
  <2> QED
    BY <2>1, <2>2, <2>3 DEF Next
<1> QED
  BY <1>1, <1>2, <1>3

(* A step of one review that leaves the checkout and the report alone.     *)
LEMMA OneRunStays ==
    ASSUME IInv, Honest, NEW r \in Runs, UNCHANGED <<checkout, latest>>,
           NEW changed \in RunType, run' = [run EXCEPT ![r] = changed],
           HonestAt(r)', moves = 0 => UnmovedAt(r)'
    PROVE  Honest'
<1>1. \A q \in Runs : q # r => run'[q] = run[q]
  BY DEF IInv, TypeOK
<1>2. \A q \in Runs : HonestAt(q)'
  BY <1>1 DEF Honest, HonestAt, Settled, checkout
<1>3. Unmoved'
  BY <1>1 DEF Honest, Unmoved, UnmovedAt, checkout
<1>4. ReportIsTrue'
  BY DEF Honest, ReportIsTrue, HiddenIsDropped, ReportIsOfItsHead, checkout
<1> QED
  BY <1>2, <1>3, <1>4 DEF Honest

LEMMA ReviewIsHonest ==
    ASSUME IInv, Honest, LastVotes, NEW r \in Runs, Review(r) \/ Abort(r)
    PROVE  Honest'
<1> USE DEF Advance
<1>1. /\ run[r] \in RunType /\ DOMAIN run = Runs /\ head \in Shas /\ dirty \in BOOLEAN
      /\ moves \in Nat
  BY DEF IInv, TypeOK
<1>2. HonestAt(r) /\ (moves = 0 => ~dirty /\ UnmovedAt(r))
  BY DEF Honest, Unmoved
<1>3. Done \in RunType /\ Done.pc = "done" /\ Done.hidden = {} /\ Done.wished = {}
  BY DEF Done, NewRun, RunType
<1>4. CASE ReadFeedback(r)
  <2>1. PICK mode \in Modes, kind \in {"worktree", "committed"}, readable \in BOOLEAN :
          Advance(r, "new", [run[r] EXCEPT
             !.mode = mode, !.kind = kind,
             !.hidden = IF readable THEN Suppressed ELSE {},
             !.wished = IF readable THEN Asked(written) ELSE {},
             !.pc = IF kind = "committed" THEN "pin" ELSE "identify"])
    BY <1>4 DEF ReadFeedback
  <2> DEFINE hides == IF readable THEN Suppressed ELSE {}
             wishes == IF readable THEN Asked(written) ELSE {}
             next == IF kind = "committed" THEN "pin" ELSE "identify"
             changed == [run[r] EXCEPT !.mode = mode, !.kind = kind, !.hidden = hides,
                                       !.wished = wishes, !.pc = next]
  <2>2. hides = wishes /\ hides \subseteq Findings /\ next \in {"pin", "identify"}
    BY HiddenAsAsked DEF Suppressed
  <2>4. run' = [run EXCEPT ![r] = changed] /\ UNCHANGED <<checkout, latest>>
    BY <2>1 DEF files
  <2> HIDE DEF hides, wishes, next
  <2>3. /\ changed \in RunType /\ changed.pc \in {"pin", "identify"}
        /\ changed.hidden = changed.wished
    BY <1>1, <2>2 DEF RunType, Reading
  <2> HIDE DEF changed
  <2>5. HonestAt(r)' /\ UnmovedAt(r)'
    BY <1>1, <2>3, <2>4 DEF HonestAt, UnmovedAt, Identified, Read
  <2> QED
    BY <2>3, <2>4, <2>5, OneRunStays
<1>5. CASE Pin(r) \/ Identify(r) \/ CheckClean(r) \/ RecheckClean(r) \/ RecheckHead(r) \/ ReadKey(r)
  <2>1. PICK changed : run' = [run EXCEPT ![r] = changed]
    BY <1>5 DEF Pin, Identify, CheckClean, RecheckClean, RecheckHead, ReadKey
  <2>2. run'[r] = changed /\ UNCHANGED <<checkout, latest>>
    BY <1>1, <1>5, <2>1 DEF Pin, Identify, CheckClean, RecheckClean, RecheckHead, ReadKey, files
  <2>3. changed \in RunType
    <3>1. CASE Pin(r)
      BY <1>1, <2>2, <3>1 DEF Pin, RunType, Reading
    <3>2. CASE Identify(r)
      BY <1>1, <2>2, <3>2 DEF Identify, RunType, Reading
    <3>3. CASE CheckClean(r)
      BY <1>1, <2>2, <3>3 DEF CheckClean, RunType, Reading
    <3>4. CASE RecheckClean(r)
      BY <1>1, <2>2, <3>4 DEF RecheckClean, RunType, Reading
    <3>5. CASE RecheckHead(r)
      BY <1>1, <2>2, <3>5 DEF RecheckHead, RunType, Reading
    <3>6. CASE ReadKey(r)
      BY <1>1, <2>2, <3>6 DEF ReadKey, RunType
    <3> QED
      BY <1>5, <3>1, <3>2, <3>3, <3>4, <3>5, <3>6
  <2>4. HonestAt(r)' /\ (moves = 0 => UnmovedAt(r)')
    <3>1. CASE Pin(r) \/ ReadKey(r)
      <4>1. /\ run'[r].pc \notin Identified /\ run'[r].pc \notin Read
            /\ run'[r].hidden = run[r].hidden /\ run'[r].wished = run[r].wished
        <5>1. CASE Pin(r)
          BY <1>1, <5>1 DEF Pin, Identified, Read, RunType
        <5>2. CASE ReadKey(r)
          BY <1>1, <5>2 DEF ReadKey, Identified, Read, RunType
        <5> QED
          BY <3>1, <5>1, <5>2
      <4> QED
        BY <1>2, <4>1 DEF HonestAt, UnmovedAt
    <3>2. CASE Identify(r)
      BY <1>1, <1>2, <3>2 DEF Identify, HonestAt, UnmovedAt, Identified, Read, RunType, checkout
    <3>3. CASE CheckClean(r)
      BY <1>1, <1>2, <3>3 DEF CheckClean, HonestAt, UnmovedAt, Identified, Read, RunType, checkout
    <3>4. CASE RecheckClean(r)
      BY <1>1, <1>2, <3>4 DEF RecheckClean, HonestAt, UnmovedAt, Settled, Identified, Read, RunType,
         checkout
    <3>5. CASE RecheckHead(r)
      BY <1>1, <1>2, <3>5 DEF RecheckHead, HonestAt, UnmovedAt, Settled, Identified, Read, RunType,
         checkout
    <3> QED
      BY <1>5, <3>1, <3>2, <3>3, <3>4, <3>5
  <2> QED
    BY <2>1, <2>2, <2>3, <2>4, OneRunStays
<1>6. CASE RunReview(r)
  <2>1. PICK content \in SUBSET Findings :
          /\ run[r].pc = "review"
          /\ run[r].kind = "committed" => content = Present[run[r].pinned]
          /\ run[r].kind # "committed" /\ ~dirty => content = Present[head]
          /\ Advance(r, "review", [run[r] EXCEPT
                                     !.found = content \ run[r].hidden, !.pc = "reclean"])
    BY <1>6 DEF RunReview
  <2> DEFINE changed == [run[r] EXCEPT !.found = content \ run[r].hidden, !.pc = "reclean"]
  <2>2. /\ changed \in RunType /\ run' = [run EXCEPT ![r] = changed]
        /\ UNCHANGED <<checkout, latest>>
    BY <1>1, <2>1 DEF RunType, Reading, files
  <2>3. /\ run'[r].pc = "reclean" /\ run'[r].found = content \ run[r].hidden
        /\ run'[r].hidden = run[r].hidden /\ run'[r].wished = run[r].wished
        /\ run'[r].kind = run[r].kind /\ run'[r].head = run[r].head
        /\ run'[r].pinned = run[r].pinned
    BY <1>1, <2>2 DEF RunType
  <2>4. UnmovedAt(r) => UnmovedAt(r)'
    BY <2>1, <2>2, <2>3 DEF UnmovedAt, Identified, checkout
  <2>5. HonestAt(r)'
    BY <1>2, <2>1, <2>2, <2>3 DEF HonestAt, Settled, Identified, Read, checkout
  <2> HIDE DEF changed
  <2> QED
    BY <1>2, <2>2, <2>4, <2>5, OneRunStays
<1>7. CASE SaveReport(r)
  <2>1. /\ run[r].pc = "save" /\ UNCHANGED checkout
        /\ latest'.kind = run[r].kind /\ latest'.head = run[r].head
        /\ latest'.clean = run[r].clean /\ latest'.found = run[r].found
        /\ latest'.wished = run[r].wished
    BY <1>7 DEF SaveReport
  <2>2. ReportIsTrue'
    BY <1>2, <2>1 DEF HonestAt, Settled, Read, ReportIsTrue, HiddenIsDropped, ReportIsOfItsHead,
       checkout
  <2>3. PICK changed : /\ run' = [run EXCEPT ![r] = changed]
                       /\ changed.pc \in {"key", "done"} /\ changed.hidden = changed.wished
    <3> DEFINE saved == [NewRun EXCEPT !.pc = "key", !.mode = run[r].mode]
    <3>1. saved.pc = "key" /\ saved.hidden = saved.wished
      BY DEF NewRun
    <3>2. run' = [run EXCEPT ![r] = saved] \/ run' = [run EXCEPT ![r] = Done]
      BY <1>7 DEF SaveReport
    <3> HIDE DEF saved
    <3> QED
      BY <1>3, <3>1, <3>2
  <2>4. \A q \in Runs : IF q = r THEN run'[q] = changed ELSE run'[q] = run[q]
    BY <1>1, <2>3
  <2>5. \A q \in Runs : HonestAt(q)'
    BY <2>1, <2>3, <2>4 DEF Honest, HonestAt, Settled, Identified, Read, checkout
  <2>6. Unmoved'
    BY <2>1, <2>3, <2>4 DEF Honest, Unmoved, UnmovedAt, Identified, checkout
  <2> QED
    BY <2>2, <2>5, <2>6 DEF Honest
<1>8. CASE SaveHistory(r)
  <2> DEFINE changed == [run[r] EXCEPT !.pc = "supersede"]
  <2>1. /\ changed \in RunType /\ changed.pc = "supersede"
        /\ changed.hidden = run[r].hidden /\ changed.wished = run[r].wished
    BY <1>1 DEF RunType
  <2>2. run' = [run EXCEPT ![r] = changed] /\ UNCHANGED <<checkout, latest>>
    BY <1>1, <1>8 DEF SaveHistory
  <2> HIDE DEF changed
  <2>3. HonestAt(r)' /\ UnmovedAt(r)'
    BY <1>1, <1>2, <2>1, <2>2 DEF HonestAt, UnmovedAt, Identified, Read
  <2> QED
    BY <2>1, <2>2, <2>3, OneRunStays
<1>9. CASE RemoveLegacy(r) \/ Abort(r)
  <2>1. run' = [run EXCEPT ![r] = Done] /\ UNCHANGED <<checkout, latest>>
    BY <1>9 DEF RemoveLegacy, Abort, files
  <2>2. HonestAt(r)' /\ UnmovedAt(r)'
    BY <1>1, <1>3, <2>1 DEF HonestAt, UnmovedAt, Identified, Read
  <2> QED
    BY <1>3, <2>1, <2>2, OneRunStays
<1> QED
  BY <1>4, <1>5, <1>6, <1>7, <1>8, <1>9 DEF Review

LEMMA HonestStays == IInv /\ Honest /\ LastVotes /\ [Next]_vars => Honest'
<1> SUFFICES ASSUME IInv, Honest, LastVotes, [Next]_vars PROVE Honest'
  OBVIOUS
<1>1. ASSUME NEW r \in Runs, Review(r) \/ Abort(r) PROVE Honest'
  BY <1>1, ReviewIsHonest
<1>2. CASE UNCHANGED <<checkout, run, latest>>
  BY <1>2 DEF Honest, Unmoved, UnmovedAt, HonestAt, Settled, ReportIsTrue, HiddenIsDropped,
     ReportIsOfItsHead, checkout
<1>3. CASE MoveCheckout
  <2>1. /\ moves \in Nat /\ moves' = moves + 1 /\ UNCHANGED <<run, latest>>
    BY <1>3 DEF MoveCheckout, IInv, TypeOK, files
  <2>2. ASSUME NEW r \in Runs, run[r].pc \in Read, run[r].kind # "committed", Settled(r)'
        PROVE  Settled(r)
    BY <2>1, <2>2 DEF Honest, Unmoved, UnmovedAt, Settled, Identified, Read
  <2>3. ASSUME NEW r \in Runs PROVE HonestAt(r)'
    BY <2>1, <2>2 DEF Honest, HonestAt
  <2>4. Unmoved'
    BY <2>1 DEF Unmoved
  <2>5. ReportIsTrue'
    BY <2>1 DEF Honest, ReportIsTrue, HiddenIsDropped, ReportIsOfItsHead
  <2> QED
    BY <2>3, <2>4, <2>5 DEF Honest
<1>4. \/ \E r \in Runs : Review(r) \/ Abort(r)
      \/ MoveCheckout
      \/ UNCHANGED <<checkout, run, latest>>
  BY DEF Next, Serve, vars, checkout, files, Vote, ReadLog, WriteLog, Answer, Restart
<1> QED
  BY <1>1, <1>2, <1>3, <1>4

(* report.rs:473-480: a saved report shows nothing that was hidden when its *)
(* review began, and one that is committed-only or clean is of its head,    *)
(* however reviews, votes and one move of the checkout interleave.          *)
THEOREM ReportsAreTrue == Spec => []ReportIsTrue
<1>1. Init => Honest /\ LastVotes
  <2> SUFFICES ASSUME Init PROVE Honest /\ LastVotes
    OBVIOUS
  <2>1. \A r \in Runs : /\ run[r].pc = "new" /\ run[r].hidden = {} /\ run[r].wished = {}
    BY DEF Init, NewRun
  <2>2. Unmoved /\ \A r \in Runs : HonestAt(r)
    BY <2>1 DEF Init, Unmoved, UnmovedAt, HonestAt, Identified, Read
  <2>3. ReportIsTrue
    BY StoreAssumption DEF StoreAssumption, Init, NoReport, ReportIsTrue, HiddenIsDropped,
       ReportIsOfItsHead
  <2>4. LastVotes
    BY DEF Init, LastVotes, Own
  <2> QED
    BY <2>2, <2>3, <2>4 DEF Honest
<1>2. Honest => ReportIsTrue
  BY DEF Honest
<1> QED
  BY <1>1, <1>2, LastVotesStay, HonestStays, DirectoryInvariant, PTL DEF Spec
=============================================================================
