----------------------------- MODULE MCDirectRpc -----------------------------
(* Small instances of DirectRpc for TLC. *)
EXTENDS DirectRpc, TLC

CONSTANTS c1, c2, users, orders, list

TwoCalls == {c1, c2}
LastCall == {c2}

AllNames == {users, orders, list}
Module(m) == [raw |-> FALSE, key |-> m, act |-> list]
Raw(d) == [raw |-> TRUE, key |-> d, act |-> list]

\* Invalid input, and an internal error that an action rejects with itself.
TwoReasons == [kind : {"ValidationError", "InternalErrorException"},
               message : {TRUE}, details : {"none"}]

\* A module whose name is also a raw destination, called as both.
SameName == {Module(users), Raw(users)}
BothPaths == c1 :> <<users, list>> @@ c2 :> <<users>>
=============================================================================
