----------------------------- MODULE MCOutcomes -----------------------------
\* Three merges and one outcome, watched for one unit; two score bins.
EXTENDS Outcomes

MCWindow == [k \in Kinds |-> 1]
MCPolicy ==
    [required |-> {"build"}, maxProbability |-> [k \in Kinds |-> 8], maxCalibration |-> 4,
     maxSeverity |-> 2, maxHistoryAge |-> 1, maxCheckAge |-> 1]

Routine ==
    [mode |-> "changes", suppressed |-> 0, specDrift |-> Unknown, clean |-> TRUE,
     committed |-> TRUE, base |-> "base", head |-> "candidate", unknowns |-> {},
     matrix |-> [f \in {"a"} |-> [d \in Dimensions |-> 0]], partial |-> FALSE, skipped |-> {},
     deferred |-> 0, dropped |-> 0, dismissed |-> {}, shard |-> FALSE, followed |-> 0,
     signals |-> 0, screened |-> 1, findings |-> {}]

Risky ==
    [Routine EXCEPT !.findings = {[severity |-> 3, action |-> "request_changes",
                                   needsHuman |-> FALSE, evidenced |-> TRUE]}]
MCReports == {Routine, Risky}
Symmetric == Permutations(Merges)
=============================================================================
