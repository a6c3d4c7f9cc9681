------------------------------ MODULE MCStore ------------------------------
(* Two commits; the second one fixes the finding of the first.             *)
EXTENDS Store, TLC

CONSTANTS a, b, f

AnyHandler == Permutations(Handlers)
MCPresent == [s \in {a, b} |-> IF s = a THEN {f} ELSE {}]
============================================================================
