------------------------------- MODULE Lists -------------------------------
(***************************************************************************)
(* What several modules say of sequences: a stable sort (Rust's sort_by),  *)
(* and the positions that a filter keeps.                                  *)
(***************************************************************************)
EXTENDS Naturals, Sequences, FiniteSets, SequencesExt

\* Before is the strict part of the order; what it does not separate keeps
\* its place.
StableSort(s, Before(_, _)) ==
    LET Ahead(i) == {j \in DOMAIN s :
            Before(s[j], s[i]) \/ (j < i /\ ~Before(s[i], s[j]))}
    IN [k \in DOMAIN s |-> s[CHOOSE i \in DOMAIN s : Cardinality(Ahead(i)) = k - 1]]

\* A set in a total order.
Sorted(S, Before(_, _)) ==
    [k \in 1..Cardinality(S) |-> CHOOSE x \in S : Cardinality({y \in S : Before(y, x)}) = k - 1]

\* .take(n)
Take(s, n) == SubSeq(s, 1, IF n < Len(s) THEN n ELSE Len(s))

\* The first n positions that satisfy Keep, as a set.
FirstWhere(s, n, Keep(_)) ==
    {i \in DOMAIN s : Keep(s[i]) /\ Cardinality({j \in 1..i : Keep(s[j])}) <= n}
=============================================================================
