------------------------------ MODULE MCClient ------------------------------
EXTENDS Client

\* Every call asks about the same unit: calls about different ones share only
\* the gate, the budget and the alias, which these calls share as well.
CONSTANTS r1, r2, r3, u1
MCUnitOf == [r \in Requests |-> u1]
MCVersions == 1..2
=============================================================================
