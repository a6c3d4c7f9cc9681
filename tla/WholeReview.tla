---------------------------- MODULE WholeReview ----------------------------
(***************************************************************************)
(* What a merge of shard reports promises: a report that one unsharded     *)
(* review of the present checkout, by one model, could have produced.      *)
(* Only the checkout and the last report are state.                        *)
(***************************************************************************)
EXTENDS Naturals, FiniteSets

CONSTANTS MaxProfiles, NoReport

VARIABLES checkout,  \* the files discovery would find: path -> content
          report     \* the report of a whole review, or NoReport

FailedScreens(r) == {s[2] : s \in {t \in r.skipped : t[1] = "screen"}}
Lost(r, stage) == \E s \in r.skipped : s[1] = stage

\* Every file has a verdict, a dismissal or a recorded failure, and only one.
Accounted(r, files) ==
    /\ DOMAIN r.matrix \cup r.dismissed \cup FailedScreens(r) = files
    /\ DOMAIN r.matrix \cap (r.dismissed \cup FailedScreens(r)) = {}
    /\ r.dismissed \cap FailedScreens(r) = {}

\* The verdicts are of these contents, and of one model.
OneReview(r, contents) ==
    \A f, g \in DOMAIN r.matrix :
        r.matrix[f].by = r.matrix[g].by /\ r.matrix[f].of = contents[f]

\* The most suspect files were profiled, unless a profile request was lost.
TopProfiled(r) ==
    ~Lost(r, "profile") =>
        /\ Cardinality(r.profiles) =
             IF MaxProfiles < Cardinality(DOMAIN r.matrix)
             THEN MaxProfiles ELSE Cardinality(DOMAIN r.matrix)
        /\ \A f \in r.profiles, g \in DOMAIN r.matrix \ r.profiles :
               r.matrix[f].p >= r.matrix[g].p

IsReviewOf(r, contents) ==
    /\ Accounted(r, DOMAIN contents)
    /\ OneReview(r, contents)
    /\ TopProfiled(r)
    /\ r.profiles \subseteq DOMAIN r.matrix
    /\ r.findings \subseteq DOMAIN r.matrix
    /\ r.partial <=> (r.dismissed # {} \/ r.skipped # {} \/ r.deferred > 0)

Init == report = NoReport

Edit == UNCHANGED report

Review ==
    /\ IsReviewOf(report', checkout)
    /\ UNCHANGED checkout

Next == Edit \/ Review

Spec == Init /\ [][Next]_<<checkout, report>>
=============================================================================
