------------------------------ MODULE MCMerge ------------------------------
\* Two files, one in each of two shards; two models.
EXTENDS Merge

MCHash == [p \in Paths |-> p + 3]
MCStart == [p \in Paths |-> "old"]
=============================================================================
