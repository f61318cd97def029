----------------------------- MODULE RpcPromise -----------------------------
(***************************************************************************)
(* What a caller is promised by IRpcCaller.call (src/app/RpcCommon.ts):    *)
(* every call settles at most once, with the response only if a handler    *)
(* gave one; and once the response has been taken, nothing but the         *)
(* response can settle the call.                                           *)
(***************************************************************************)
CONSTANT Calls

VARIABLES
    phase,      \* "unmade", "waiting", "taken" or how the call settled
    replied     \* calls some handler has responded to

vars == <<phase, replied>>

Init ==
    /\ phase = [c \in Calls |-> "unmade"]
    /\ replied = {}

Moves(c, from, to) ==
    /\ phase[c] = from
    /\ phase' = [phase EXCEPT ![c] = to]

Make(c) == Moves(c, "unmade", "waiting") /\ UNCHANGED replied

\* A handler responds, maybe to a call that has been given up.
Reply(c) ==
    /\ phase[c] # "unmade"
    /\ replied' = replied \cup {c}
    /\ UNCHANGED phase

Take(c) == c \in replied /\ Moves(c, "waiting", "taken") /\ UNCHANGED replied

Resolve(c) == Moves(c, "taken", "answer") /\ UNCHANGED replied

GiveUp(c) ==
    /\ \E why \in {"timeout", "error"} : Moves(c, "waiting", why)
    /\ UNCHANGED replied

Next == \E c \in Calls : Make(c) \/ Reply(c) \/ Take(c) \/ Resolve(c) \/ GiveUp(c)

Spec == Init /\ [][Next]_vars
=============================================================================
