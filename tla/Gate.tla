-------------------------------- MODULE Gate --------------------------------
(***************************************************************************)
(* What the request gate promises, and nothing about how: at most Cap      *)
(* tasks hold a permit at once, a task takes one permit at a time and      *)
(* gives back only its own.  Limiter implements it; Client is built on it. *)
(***************************************************************************)
EXTENDS Naturals, FiniteSets

CONSTANTS Tasks,    \* the tasks that may ask for a permit
          Cap       \* how many may hold one at once

VARIABLE holders    \* the tasks that hold a permit

GateInit == holders = {}

Enter(t) ==
    /\ t \notin holders
    /\ Cardinality(holders) < Cap
    /\ holders' = holders \cup {t}

Leave(t) ==
    /\ t \in holders
    /\ holders' = holders \ {t}

GateNext == \E t \in Tasks : Enter(t) \/ Leave(t)

GateSpec == GateInit /\ [][GateNext]_holders

=============================================================================
