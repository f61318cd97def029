-------------------------- MODULE MCMediateHandler --------------------------
(* Small instances of MediateHandler for TLC. *)
EXTENDS MediateHandler

CONSTANTS p1, p2

TwoPatterns == {p1, p2}

NoFaults == {}
LossOnly == {"loss"}
ConnectionFaults == {"loss", "refuse", "disconnect"}

\* The keys that handle is given.
Keys == INSTANCE RoutingKeys

\* Whatever matches the regular expression of a pattern has been routed to it,
\* and without "#" the two agree: checked for patterns and topics of up to four
\* words.
Up(S, n) == UNION {[1..k -> S] : k \in 1..n}
ASSUME \A p \in Up({"a", "*", "#"}, 4), t \in Up({"a", "b"}, 4) :
    /\ Keys!Matches(p, t) => Keys!Routed(p, t)
    /\ (\A i \in DOMAIN p : p[i] # "#") => (Keys!Matches(p, t) <=> Keys!Routed(p, t))
=============================================================================
