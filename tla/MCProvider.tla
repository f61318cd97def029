----------------------------- MODULE MCProvider -----------------------------
(* Small instances of Provider for TLC. *)
EXTENDS Provider, TLC

CONSTANTS k1, k2

TwoConnectors == {k1, k2}
SomeValues == {-1, 1}

\* Any calls, awaited or not, and connections that may be refused.
All(hasty) == [hasty |-> hasty, uses |-> UserCalls, calls |-> 3, refuses |-> TRUE]
\* More calls of fewer kinds.
Deep == [hasty |-> FALSE, uses |-> {"subscribe", "listen", "delete", "purge"}, calls |-> 5,
         refuses |-> FALSE]
Crossing == [hasty |-> FALSE, uses |-> {"subscribe", "listen", "cancel"}, calls |-> 5,
             refuses |-> FALSE]
AllScenes == {All(TRUE), All(FALSE), Deep, Crossing}
=============================================================================
