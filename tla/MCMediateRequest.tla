-------------------------- MODULE MCMediateRequest --------------------------
(* Small instances of MediateRequest for TLC. *)
EXTENDS MediateRequest, TLC

CONSTANTS r1, r2, r3, a1, a2, a3, a4

ThreeRequests == {r1, r2, r3}
OneRequest == {r1}
FourActions == {a1, a2, a3, a4}
OneAction == {a1}

Topics == r1 :> <<"request", "orders", "list">> @@ r2 :> <<"request", "users", "list">>
       @@ r3 :> <<"request", "orders", "items", "list">>
\* The first two are for r1, and each is for one of the others.  The next ones are
\* for topics that nobody publishes to: one matches all the others as well, and one
\* makes no regular expression.
Keys == a1 :> <<"request", "orders", "#">> @@ a2 :> <<"request", "*", "list">>
     @@ a3 :> <<"request", "orders|users", "list">> @@ a4 :> <<"request", "orders", "(list">>
Words == {"request", "orders", "users", "items", "list"}
ManyMatched == a3 :> Requests @@ a4 :> {}

\* The details of a validation, a value that is no exception, an exception of
\* the service's own whose details are a text.
Invalid == [kind |-> "ValidationError", message |-> FALSE, details |-> "value"]
SomeReasons ==
    {Invalid,
     [kind |-> "data", message |-> FALSE, details |-> "value"],
     [kind |-> "OwnException", message |-> TRUE, details |-> "text"]}

\* Actions that may do anything, one of which has a result that cannot be
\* serialised; an impatient and an unreadable request; all faults.
Careless(heard, handles) ==
    [handles |-> handles, manner |-> [a \in Actions |-> Manners], why |-> SomeReasons,
     bad |-> {a2}, sends |-> Requests, impatient |-> {r3}, poison |-> {r2},
     heard |-> heard, faults |-> FaultKinds, runs |-> 1]
\* An action that responds, maybe after it has returned, and one that throws,
\* or rejects; a channel may be lost.
Careful(does) ==
    [handles |-> {a1, a2},
     manner |-> [a \in Actions |-> IF a = a2 THEN does ELSE {"resolve", "return"}], why |-> {Invalid},
     bad |-> {}, sends |-> {r1}, impatient |-> {}, poison |-> {},
     heard |-> TRUE, faults |-> {"loss"}, runs |-> 2]
AllScenes == {Careless(TRUE, {a1, a2}), Careless(FALSE, {a1, a2}),
              Careless(TRUE, {a2, a3}), Careless(TRUE, {a2, a4}),
              Careful({"throw"}), Careful({"reject", "return"})}

\* A pattern as the connector's documentation has it, and a topic it stands for.
ShortTopic == r1 :> <<"orders", "list">>
HashKey == a1 :> <<"orders", "#", "#">>
NoneMatched == [a \in {} |-> {}]
OneScene ==
    {[handles |-> Actions, manner |-> a1 :> {"resolve"}, why |-> {}, bad |-> {},
      sends |-> Requests, impatient |-> {}, poison |-> {}, heard |-> TRUE, faults |-> {},
      runs |-> 1]}
=============================================================================
