----------------------------- MODULE MCApproval -----------------------------
(* Two heads, two base commits.  The second base has merged the first      *)
(* commit of the reviewed head, so its merge base is later and one file    *)
(* fewer is changed; the other head shares a file with the reviewed one    *)
(* and changes a file that has no textual patch.                           *)
EXTENDS Approval

CONSTANTS h1, h2, f1, f2, f3, unit, deploy

MCMergeBase == <<[h \in {h1, h2} |-> 1], [h \in {h1, h2} |-> IF h = h1 THEN 2 ELSE 1]>>
MCFiles == <<[h \in {h1, h2} |-> IF h = h1 THEN {f1, f2} ELSE {f1, f3}],
             [h \in {h1, h2} |-> {f2}]>>
MCUnsupported == [h \in {h1, h2} |-> IF h = h1 THEN {} ELSE {f3}]
=============================================================================
