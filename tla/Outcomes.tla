------------------------------ MODULE Outcomes ------------------------------
(***************************************************************************)
(* The outcome history behind an automatic approval: eval/outcomes/        *)
(* collect.py freezes scores before merges and exports histories, and      *)
(* review/merge_confidence.rs fits, evaluates and judges them.  Between    *)
(* the two stand an export format and a chronological cutoff that both     *)
(* apply.                                                                  *)
(*                                                                         *)
(* Time is in units.  A probability is a fraction <<n, d>>, a limit of the *)
(* policy is in tenths, a risk in thousandths.                             *)
(***************************************************************************)
EXTENDS Integers, FiniteSets, FiniteSetsExt, TLC

CONSTANTS Merges,     \* the heads of the pull requests that get merged
          Kinds,
          Window,     \* outcome -> time for which a merge is watched
          Cutoff,     \* registered before it occurs
          MaxTime, MaxDelay,       \* bounds on the clock, and on what comes late
          LastCapture, LastMerge,  \* bounds on when a score is captured and a merge happens
          Reports,    \* reports that may be assessed
          Policy,     \* an enabled ApprovalPolicy
          Dimensions,
          MinTrain, MinHeldOut, MinBin,
          SeverityMax, BlockingSeverity,
          Unknown, NoHistory

Configured ==
    /\ Cutoff \in Nat \ {0} /\ MaxTime \in Nat /\ Cutoff < MaxTime /\ MaxDelay \in Nat
    /\ \A k \in Kinds : Window[k] \in Nat \ {0}
    /\ Policy.required # {} /\ Policy.maxHistoryAge \in Nat \ {0}

ASSUME OutcomesAssumption == Configured

VARIABLES now,
          captured,  \* head -> the report scored while its pull request was open, and when
          merged,    \* head -> the merge, and when its receipt came in
          labels,    \* <<head, kind>> -> what was observed, and when it was available
          history    \* the last export

historyVars == <<now, captured, merged, labels, history>>

---------------------------------------------------------------------------
\* p_revert and bin: the weighted risk, and the quarter that 1 - exp(-3 risk)
\* falls in.
Risk(report) ==
    LET blocking == Cardinality({f \in report.findings : f.action = "request_changes"})
        severity == Max({0} \cup {f.severity : f \in report.findings})
        gap == Max({0} \cup {report.matrix[f]["testGap"] :
                   f \in {g \in DOMAIN report.matrix : "testGap" \in DOMAIN report.matrix[g]}})
    IN Min({550, 275 * blocking}) + (250 * severity) \div SeverityMax + gap
         + Min({100, 2 * Cardinality(DOMAIN report.matrix)})

Bin(risk) == Cardinality({t \in {96, 232, 463} : risk >= t})

Add(f, k, v) == [x \in DOMAIN f \cup {k} |-> IF x = k THEN v ELSE f[x]]

---------------------------------------------------------------------------
\* What the world does.  Evidence of it may come in later.

Tick ==
    /\ now < MaxTime
    /\ now' = now + 1
    /\ UNCHANGED <<captured, merged, labels, history>>

\* report_score: only a complete, clean and committed review is frozen.
Scorable(r) ==
    /\ r.mode = "changes" /\ ~r.partial /\ r.clean /\ r.committed
    /\ r.skipped = {} /\ r.deferred = 0 /\ ~r.shard /\ r.dropped = 0

Capture(h, report) ==
    /\ h \notin DOMAIN captured
    /\ Scorable(report) /\ now <= LastCapture
    /\ captured' = Add(captured, h, [risk |-> Risk(report), at |-> now])
    /\ UNCHANGED <<now, merged, labels, history>>

\* A merge whose score was not frozen is excluded from every export, and left
\* out here.
Merge(h) ==
    /\ h \in DOMAIN captured \ DOMAIN merged /\ now <= LastMerge
    /\ \E receipt \in now..(now + MaxDelay) :
         merged' = Add(merged, h, [at |-> now, receipt |-> receipt])
    /\ UNCHANGED <<now, captured, labels, history>>

Matures(h, k) == merged[h].at + Window[k]

\* An event inside the window, or surveillance of all of it that found none.
Observe(h, k, occurred) ==
    /\ h \in DOMAIN merged /\ <<h, k>> \notin DOMAIN labels
    /\ IF occurred THEN now <= Matures(h, k)
       ELSE now \in Matures(h, k)..(Matures(h, k) + MaxDelay)
    /\ \E available \in now..(now + MaxDelay) :
         labels' = Add(labels, <<h, k>>, [occurred |-> occurred, at |-> now, available |-> available])
    /\ UNCHANGED <<now, captured, merged, history>>

---------------------------------------------------------------------------
\* export_history, from every receipt that is in.

Supplied == {hk \in DOMAIN labels : labels[hk].available <= now}
KnownMerges == {h \in DOMAIN merged : merged[h].receipt <= now}

Joined(asOf) ==
    {h \in KnownMerges : merged[h].at <= asOf /\ merged[h].receipt <= asOf}

\* Mutant: held-out and training labels share one boundary.
BoundaryAsOf(h, asOf) == asOf

Boundary(h, asOf) == IF merged[h].at < Cutoff THEN Cutoff ELSE asOf

\* Mutant: availability alone lets an early event through.
ExportedEarly(h, k, asOf) ==
    IF <<h, k>> \in Supplied /\ labels[<<h, k>>].available <= Boundary(h, asOf)
    THEN [occurred |-> labels[<<h, k>>].occurred, at |-> labels[<<h, k>>].at] ELSE Unknown

Exported(h, k, asOf) ==
    IF /\ <<h, k>> \in Supplied
       /\ labels[<<h, k>>].available <= Boundary(h, asOf)
       /\ Matures(h, k) <= Boundary(h, asOf)
    THEN [occurred |-> labels[<<h, k>>].occurred, at |-> labels[<<h, k>>].at] ELSE Unknown

Export(asOf) ==
    /\ Cutoff < asOf /\ asOf <= now
    /\ \A hk \in Supplied : hk[1] \in KnownMerges
    /\ \A h \in Joined(asOf) : captured[h].at < merged[h].at
    /\ history' = [asOf |-> asOf,
                   records |-> {[head |-> h, mergedAt |-> merged[h].at,
                                 recordedAt |-> captured[h].at, risk |-> captured[h].risk,
                                 labels |-> [k \in Kinds |-> Exported(h, k, asOf)]]
                                : h \in Joined(asOf)}]
    /\ UNCHANGED <<now, captured, merged, labels>>

---------------------------------------------------------------------------
\* validate_history
Valid(hist) ==
    /\ hist.asOf > Cutoff
    /\ \A r, s \in hist.records : r.head = s.head => r = s
    /\ \A r \in hist.records :
         /\ 0 < r.mergedAt /\ r.mergedAt <= hist.asOf
         /\ r.recordedAt <= r.mergedAt
         /\ \A k \in {j \in Kinds : r.labels[j] # Unknown} :
              /\ r.labels[k].at \in r.mergedAt..hist.asOf
              /\ IF r.labels[k].occurred THEN r.labels[k].at <= r.mergedAt + Window[k]
                 ELSE r.labels[k].at >= r.mergedAt + Window[k]

\* estimate: the cohorts of one outcome
Labelled(hist, k) == {r \in hist.records : r.labels[k] # Unknown}

Training(hist, k) ==
    {r \in Labelled(hist, k) :
        /\ r.mergedAt < Cutoff
        /\ r.mergedAt + Window[k] <= Cutoff /\ r.labels[k].at <= Cutoff}

HeldOut(hist, k) ==
    {r \in Labelled(hist, k) : r.mergedAt >= Cutoff /\ r.mergedAt + Window[k] <= hist.asOf}

Immature(hist, k) == Labelled(hist, k) \ (Training(hist, k) \cup HeldOut(hist, k))

InBin(records, b) == {r \in records : Bin(r.risk) = b}
Events(records, k) == {r \in records : r.labels[k].occurred}
Latest(times) == Max({0} \cup times)

\* Laplace smoothing; an empty bin has the population's rate.
Empirical(records, k) == <<Cardinality(Events(records, k)) + 1, Cardinality(records) + 2>>

Rate(hist, k, b) ==
    LET bin == InBin(Training(hist, k), b)
    IN Empirical(IF bin = {} THEN Training(hist, k) ELSE bin, k)

\* Wilson's bound on e events of n is within l tenths, with 1.96^2 taken as 4.
UpperWithin(e, n, l) ==
    LET a == 2 * l * (n + 4) - 20 * e - 40
    IN a >= 0 /\ n * a * a >= 1600 * (e * (n - e) + n)

BoundWithin(records, k, l) ==
    UpperWithin(Cardinality(Events(records, k)), Cardinality(records), l)

\* Squared error of a rate p on n labels with e events, times (n d^2).
Squared(p, n, e) == (n - e) * p[1] * p[1] + e * (p[2] - p[1]) * (p[2] - p[1])

\* A common multiple of the denominators of the four rates.
Scale(hist, k) ==
    MapThenFoldSet(LAMBDA x, y : x * y, 1, LAMBDA b : Rate(hist, k, b)[2],
        LAMBDA S : CHOOSE s \in S : TRUE, 0..3)

\* Held-out error, bin by bin, no worse than that of the population's rate.
BrierNoWorse(hist, k) ==
    LET base == Empirical(Training(hist, k), k)
        Held(b) == InBin(HeldOut(hist, k), b)
        Error(p, b) == Squared(p, Cardinality(Held(b)), Cardinality(Events(Held(b), k)))
        Share(b) == Scale(hist, k) \div Rate(hist, k, b)[2]
    IN base[2] * base[2] * MapThenSumSet(LAMBDA b : Share(b) * Share(b) * Error(Rate(hist, k, b), b), 0..3)
         <= Scale(hist, k) * Scale(hist, k) * MapThenSumSet(LAMBDA b : Error(base, b), 0..3)

\* |p - e / n|, times n and the denominator of p
Deviation(hist, k, b) ==
    LET held == InBin(HeldOut(hist, k), b)
        p == Rate(hist, k, b)
        excess == p[1] * Cardinality(held) - p[2] * Cardinality(Events(held, k))
    IN Max({excess, 0 - excess})

\* The candidate bin's calibration error, and the mean over all bins, are
\* within the policy's limit.
Calibrated(hist, k, b) ==
    LET Held(c) == Cardinality(InBin(HeldOut(hist, k), c))
        Share(c) == Scale(hist, k) \div Rate(hist, k, c)[2]
    IN /\ 10 * Deviation(hist, k, b) <= Policy.maxCalibration * Rate(hist, k, b)[2] * Held(b)
       /\ 10 * MapThenSumSet(LAMBDA c : Share(c) * Deviation(hist, k, c), 0..3)
            <= Policy.maxCalibration * Scale(hist, k) * Cardinality(HeldOut(hist, k))

Supported(hist, k, b) ==
    LET training == Training(hist, k)
        events == Cardinality(Events(training, k))
    IN /\ Cardinality(training) >= MinTrain
       /\ Cardinality(HeldOut(hist, k)) >= MinHeldOut
       /\ Cardinality(InBin(training, b)) >= MinBin
       /\ events \notin {0, Cardinality(training)}
       /\ Cardinality(InBin(HeldOut(hist, k), b)) >= MinBin

---------------------------------------------------------------------------
\* approval

\* incomplete_spec_evidence, negated: no check, or only settled ones.
SpecSettled(r) ==
    \/ r.specDrift = Unknown
    \/ /\ r.specDrift.documents # {} /\ r.specDrift.checks # {}
       /\ \A c \in r.specDrift.checks :
            /\ c.sure /\ c.file \in DOMAIN r.matrix
            /\ \/ c.status = "notApplicable"
               \/ c.status = "matches" /\ c.source = c.file /\ c.spec \in r.specDrift.documents

\* What the report alone decides.
ReportFit(r) ==
    /\ r.mode = "changes" /\ r.suppressed = 0 /\ SpecSettled(r)
    /\ r.clean /\ r.committed /\ r.base # Unknown
    /\ r.unknowns = {}
    /\ \A f \in DOMAIN r.matrix : DOMAIN r.matrix[f] = Dimensions
    /\ ~r.partial /\ r.skipped = {} /\ r.deferred = 0 /\ r.dropped = 0
    /\ r.dismissed = {} /\ ~r.shard /\ r.followed >= r.signals
    /\ r.screened > 0 /\ Cardinality(DOMAIN r.matrix) = r.screened
    /\ \A f \in r.findings :
         /\ ~f.needsHuman /\ f.evidenced
         /\ f.action # "request_changes"
         /\ f.severity < BlockingSeverity /\ f.severity < Policy.maxSeverity

\* What the fit and its evaluation decide for one outcome.
OutcomeFit(hist, k, b) ==
    /\ Supported(hist, k, b)
    /\ BoundWithin(InBin(Training(hist, k), b), k, Policy.maxProbability[k])
    /\ BoundWithin(InBin(HeldOut(hist, k), b), k, Policy.maxProbability[k])
    /\ Calibrated(hist, k, b) /\ BrierNoWorse(hist, k)

Recent(time, allowed, at) == 0 < time /\ time <= at /\ at - time <= allowed

\* Mutant: an export of today makes its evidence current.
CohortsRecentAsOf(hist, k, b, at) == Recent(hist.asOf, Policy.maxHistoryAge, at)

CohortsRecent(hist, k, b, at) ==
    LET training == InBin(Training(hist, k), b)
        held == InBin(HeldOut(hist, k), b)
        matured == Policy.maxHistoryAge + Window[k]
    IN /\ Recent(Latest({r.labels[k].at : r \in training}), matured, at)
       /\ Recent(Latest({r.labels[k].at : r \in held}), Policy.maxHistoryAge, at)
       /\ Recent(Latest({r.mergedAt : r \in held}), matured, at)

\* Mutant: the checks are judged one by one, whatever commit they ran on.
ChecksFitAnyHead(e) ==
    /\ \A c \in e.checks : c.status = "passed" /\ Recent(c.at, Policy.maxCheckAge, e.assessedAt)
    /\ Policy.required \subseteq {c.name : c \in e.checks}

ChecksFit(e) ==
    /\ \A c, d \in e.checks : c.name = d.name => c = d
    /\ \A c \in e.checks :
         /\ c.head = e.head /\ c.status = "passed"
         /\ Recent(c.at, Policy.maxCheckAge, e.assessedAt)
    /\ Policy.required \subseteq {c.name : c \in e.checks}

EligibleFor(r, hist, e) ==
    /\ ReportFit(r) /\ hist # NoHistory
    /\ \A k \in Kinds : OutcomeFit(hist, k, Bin(Risk(r)))
    /\ e.head = r.head /\ e.head = e.reviewedHead /\ e.assessedAt > 0 /\ e.complete
    /\ hist.asOf <= e.assessedAt /\ e.assessedAt - hist.asOf <= Policy.maxHistoryAge
    /\ \A s \in hist.records : s.head # e.head
    /\ \A k \in Kinds : CohortsRecent(hist, k, Bin(Risk(r)), e.assessedAt)
    /\ ChecksFit(e)

---------------------------------------------------------------------------
HistoryInit ==
    /\ now = 1
    /\ captured = <<>> /\ merged = <<>> /\ labels = <<>>
    /\ history = NoHistory

HistoryNext ==
    \/ Tick
    \/ \E h \in Merges, r \in Reports : Capture(h, r)
    \/ \E h \in Merges : Merge(h)
    \/ \E h \in Merges, k \in Kinds, occurred \in BOOLEAN : Observe(h, k, occurred)
    \/ \E asOf \in 0..MaxTime : Export(asOf)

HistorySpec == HistoryInit /\ [][HistoryNext]_historyVars

---------------------------------------------------------------------------
\* Whatever the collector exports, the assessment accepts, and uses to the
\* last label: the two apply the same windows and boundaries, in two languages
\* (collect.py:310-330, merge_confidence.rs:484-561 and :620-660).
ExportAccepted ==
    history # NoHistory =>
        /\ Valid(history)
        /\ \A k \in Kinds : Immature(history, k) = {}

Heard(records, k) == {<<r.head, r.labels[k]>> : r \in records}

\* No look-ahead.  What trains was known at the cutoff; a later export holds
\* out more, and trains on more only if a merge's own receipt had not come in
\* (collect.py:318-324, merge_confidence.rs:8-15).
NoLookAhead ==
    [][(history # NoHistory /\ history' # NoHistory /\ history'.asOf >= history.asOf) =>
        \A k \in Kinds :
          /\ \A r \in Training(history', k) : labels[<<r.head, k>>].available <= Cutoff
          /\ Heard(Training(history, k), k) \subseteq Heard(Training(history', k), k)
          /\ \A t \in Heard(Training(history', k), k) \ Heard(Training(history, k), k) :
                 merged[t[1]].receipt > history.asOf
          /\ Heard(HeldOut(history, k), k) \subseteq Heard(HeldOut(history', k), k)]_historyVars

\* Evidence expires.  A change is eligible only while a merge of its own score
\* bin, after the cutoff, happened and was watched to the end recently, and
\* its own commit's checks passed recently, however fresh the export
\* (merge_confidence.rs:1026-1052, docs of max_history_age_seconds :341-344).
EligibleIsRecent ==
    \A r \in Reports, at \in {t \in {now - 1, now} : t > 0}, head \in {"candidate", "other"} :
        LET e == [head |-> "candidate", reviewedHead |-> "candidate", assessedAt |-> now,
                  complete |-> TRUE,
                  checks |-> {[name |-> n, head |-> head, status |-> "passed", at |-> at]
                              : n \in Policy.required}]
        IN EligibleFor(r, history, e) =>
            /\ head = r.head
            /\ \A k \in Kinds : \E h \in DOMAIN merged :
                 /\ merged[h].at >= Cutoff /\ merged[h].at + Window[k] <= now
                 /\ now - merged[h].at <= Policy.maxHistoryAge + Window[k]
                 /\ Bin(captured[h].risk) = Bin(Risk(r))
                 /\ \E g \in DOMAIN merged :
                      <<g, k>> \in DOMAIN labels /\ now - labels[<<g, k>>].at <= Policy.maxHistoryAge
=============================================================================
