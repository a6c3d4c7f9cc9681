------------------------------- MODULE Select -------------------------------
(***************************************************************************)
(* Which signals a review follows up: review/workflow.rs steps 2 and 4,    *)
(* select_follow_ups, and review/voi.rs.                                   *)
(*                                                                         *)
(* A probability is a whole number of percent, an impact weight of tenths; *)
(* scores are then whole numbers in the order the code's floats have.      *)
(***************************************************************************)
EXTENDS Lists, Integers, FiniteSetsExt

CONSTANTS DimensionOrder,  \* dimension -> its place in the order of keys
          FileOrder        \* file -> its place in the order of names

NoCap == 0 - 1

\* Step 2: the cells of the matrix at or above their dimension's threshold,
\* most probable first, then by file and dimension.
MoreProbable(a, b) ==
    \/ a.p > b.p
    \/ a.p = b.p /\ FileOrder[a.file] < FileOrder[b.file]
    \/ a.p = b.p /\ a.file = b.file /\ DimensionOrder[a.dim] < DimensionOrder[b.dim]

ThresholdOf(thresholds, default, d) ==
    IF d \in DOMAIN thresholds THEN thresholds[d] ELSE default

ThresholdSignals(matrix, thresholds, default) ==
    LET cells == {[file |-> f, dim |-> d, p |-> matrix[f][d]] :
                     f \in DOMAIN matrix, d \in DOMAIN DimensionOrder}
    IN StableSort(SetToSeq({c \in cells : c.p >= ThresholdOf(thresholds, default, c.dim)}), MoreProbable)

\* One slot for the first signal of every dimension, in order, then the rest.
CoverFirst(order) ==
    LET First(i) == \A j \in 1..(i - 1) : order[j].dim # order[i].dim
        pick(wanted) == SelectSeq([i \in DOMAIN order |-> i], LAMBDA i : First(i) = wanted)
    IN [i \in DOMAIN order |-> order[(pick(TRUE) \o pick(FALSE))[i]]]

\* Mutant: the cap is spent on the order alone.
FollowUpsUncovered(order, cap) == IF cap = NoCap THEN order ELSE Take(order, cap)

\* The dimensions' slots come first under a finite cap only.
FollowUps(order, cap) == IF cap = NoCap THEN order ELSE Take(CoverFirst(order), cap)

SelectFollowUps(signals, cap) == FollowUps(signals, cap)

---------------------------------------------------------------------------
\* voi.rs: the same slots over an order by impact and uncertainty.

ImpactWeight(dim) ==
    CASE dim = "security" -> 30
      [] dim \in {"correctness", "reliability"} -> 20
      [] dim = "compatibility" -> 15
      [] dim = "testGap" -> 10

\* Four evidence judgments and one of routing.
EstimatedCalls == 5

Clamp(p) == Min({100, Max({0, p})})

\* weight * p * (1 + 4p(1 - p)) / calls, in units that keep it whole
Score(signal) ==
    LET p == Clamp(signal.p) IN ImpactWeight(signal.dim) * p * (10000 + 4 * p * (100 - p))

Worthier(a, b) ==
    \/ Score(a) > Score(b)
    \/ Score(a) = Score(b) /\ FileOrder[a.file] < FileOrder[b.file]
    \/ Score(a) = Score(b) /\ a.file = b.file /\ DimensionOrder[a.dim] < DimensionOrder[b.dim]

SelectByValue(signals, cap) == FollowUps(StableSort(signals, Worthier), cap)
=============================================================================
