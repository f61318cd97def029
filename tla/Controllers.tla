----------------------------- MODULE Controllers -----------------------------
(***************************************************************************)
(* The controllers of a service (src/app/ControllerHunter.ts) and the      *)
(* add-on that serves them (src/app/mediate/MediateRpcHandlerAddOnBase.ts):*)
(* init registers every action of every controller class with the RPC      *)
(* handler and starts it; a request then runs the proxies of the actions   *)
(* it matches, which resolve the decorated parameters one by one, call the *)
(* action and answer for it unless it was given resolve or reject.         *)
(***************************************************************************)
EXTENDS Naturals, Sequences, FiniteSets, FiniteSetsExt, Payload

CONSTANTS
    Controllers,    \* the functions the controllers folder exports, in order
    Classes,
    Chain,          \* the classes each export inherits from, itself first
    Methods,
    Params,         \* the decorated parameters of the methods of each class
    Requests,
    Sent,           \* the payloads they may have
    MaxHits         \* bound on the number of actions a request matches

\* @payload with its declaration, @resolveFn or @rejectFn.
Param == [kind : {"payload", "resolve", "reject"}, decl : Declarations]

ASSUME ControllersAssumption == Controllers \in Seq(DOMAIN Chain)
ASSUME ChainAssumption == \A c \in DOMAIN Chain : Chain[c] \in Seq(Classes)
ASSUME ParamsAssumption == Params \in [Classes -> [Methods -> Seq(Param)]]
ASSUME SentAssumption == Sent \subseteq Payloads
ASSUME MaxHitsAssumption == MaxHits \in Nat

VARIABLES
    defined,        \* the methods each class defines of its own
    decorated,      \* those it decorates with @action
    valid,          \* the exports that are decorated controller classes
    payload,        \* of every request
    phase,          \* of the add-on
    next,           \* the position of the export that is being registered
    todo,           \* its actions that are not registered yet
    registered,     \* the actions handed to the handler
    runs,           \* the proxies each request has called
    answer          \* how the promise of each request has settled

source == <<defined, decorated, valid, payload>>
vars == <<source, phase, next, todo, registered, runs, answer>>

Own == Classes \X Methods
\* An action: the class it is registered for, and the function registered,
\* which is that of class "of".
Action == [ctrl : DOMAIN Chain, name : Methods, of : Classes]

\* A proxy that has resolved "args" parameters, the functions it was "given" and
\* the "models" parsed from the payload among them, with the positions of their
\* parameters, until it has called the action, and that has returned or thrown.
Run ==
    [st : {"resolving", "running", "returned", "threw", "over"}, args : Nat,
     given : SUBSET {"resolve", "reject"}, models : SUBSET (Nat \X Values)]

Phases == {"hunting", "starting", "started", "lettering", "lettered", "failed"}
Answers == {"none", "result", "resolved", "rejected", "thrown"}

\* _getMetadata: the parameters that the first class along the chain decorates.
ParamsOf(a) ==
    LET chain == Chain[a.ctrl]
        own == {k \in DOMAIN chain :
                  <<chain[k], a.name>> \in defined /\ Params[chain[k]][a.name] # <<>>}
    IN  IF own = {} THEN <<>> ELSE Params[chain[Min(own)]][a.name]

TypeOK ==
    /\ defined \subseteq Own /\ decorated \subseteq defined
    /\ valid \subseteq DOMAIN Chain
    /\ payload \in [Requests -> Sent]
    /\ phase \in Phases
    /\ next \in 0..Len(Controllers)
    /\ todo \subseteq Action
    /\ registered \subseteq Action
    /\ \A r \in Requests : DOMAIN runs[r] \subseteq Action
    /\ \A r \in Requests : \A a \in DOMAIN runs[r] :
         runs[r][a] \in Run /\ runs[r][a].args <= Len(ParamsOf(a))
    /\ answer \in [Requests -> Answers]

\* Any classes, with the overriding and the decorations they may have.
Init ==
    /\ defined \in SUBSET Own
    /\ decorated \in SUBSET defined
    /\ valid \in SUBSET DOMAIN Chain
    /\ payload \in [Requests -> Sent]
    /\ phase = "hunting"
    /\ next = 0
    /\ todo = {}
    /\ registered = {}
    /\ runs = [r \in Requests |-> <<>>]
    /\ answer = [r \in Requests |-> "none"]

-----------------------------------------------------------------------------
\* Reflect.hasMetadata looks along the classes a class inherits from.
IsDecorated(chain, k, m) == \E j \in k..Len(chain) : <<chain[j], m>> \in decorated

\* The methods that the class at position k of the chain contributes.
Extracted(chain, k) ==
    {m \in Methods : <<chain[k], m>> \in defined /\ IsDecorated(chain, k, m)}

\* _initActions: the first class of the chain that has the action provides it.
ActionsOf(c) ==
    LET chain == Chain[c] IN
    {a \in [ctrl : {c}, name : Methods, of : Classes] : \E k \in DOMAIN chain :
        /\ a.of = chain[k] /\ a.name \in Extracted(chain, k)
        /\ \A j \in 1..(k - 1) : a.name \notin Extracted(chain, j)}

\* _initControllers turns to the next export, or throws if it is no controller.
NextController ==
    /\ phase = "hunting"
    /\ todo = {}
    /\ next < Len(Controllers)
    /\ LET c == Controllers[next + 1] IN
       IF c \in valid
         THEN todo' = ActionsOf(c) /\ UNCHANGED phase
         ELSE phase' = "failed" /\ UNCHANGED todo
    /\ next' = next + 1
    /\ UNCHANGED <<source, registered, runs, answer>>

\* handle of the RPC handler is awaited, and may be rejected.
Register(a) ==
    /\ phase = "hunting"
    /\ a \in todo
    /\ \/ /\ todo' = todo \ {a}
          /\ registered' = registered \cup {a}
          /\ UNCHANGED phase
       \/ /\ phase' = "failed"
          /\ UNCHANGED <<todo, registered>>
    /\ UNCHANGED <<source, next, runs, answer>>

\* Mutant of Hunted: start is not held back by the last registrations.
HuntedEarly ==
    /\ phase = "hunting"
    /\ next = Len(Controllers)
    /\ phase' = "starting"
    /\ UNCHANGED <<source, next, todo, registered, runs, answer>>

\* handleRequests is over.
Hunted ==
    /\ phase = "hunting"
    /\ next = Len(Controllers)
    /\ todo = {}
    /\ phase' = "starting"
    /\ UNCHANGED <<source, next, todo, registered, runs, answer>>

\* start of the RPC handler is awaited.
Started ==
    /\ phase = "starting"
    /\ phase' \in {"started", "failed"}
    /\ UNCHANGED <<source, next, todo, registered, runs, answer>>

\* deadLetter: pause of the RPC handler, which requests may overtake.
DeadLetter ==
    /\ \/ phase = "started" /\ phase' = "lettering"
       \/ phase = "lettering" /\ phase' = "lettered"
    /\ UNCHANGED <<source, next, todo, registered, runs, answer>>

-----------------------------------------------------------------------------
Listens == phase \in {"started", "lettering"}

\* A request is delivered: every matching proxy is called with parameters of
\* its own.
Deliver(r) ==
    /\ Listens
    /\ runs[r] = <<>>
    /\ \E hits \in SUBSET registered :
         /\ hits # {} /\ Cardinality(hits) <= MaxHits
         /\ runs' = [runs EXCEPT ![r] =
                       [a \in hits |-> [st |-> "resolving", args |-> 0, given |-> {},
                                    models |-> {}]]]
    /\ UNCHANGED <<source, phase, next, todo, registered, answer>>

Continues(r, a, run) ==
    /\ runs' = [runs EXCEPT ![r][a] = run]
    /\ UNCHANGED <<source, phase, next, todo, registered>>

Settles(r, how) ==
    answer' = [answer EXCEPT ![r] = IF @ = "none" THEN how ELSE @]

\* A rejected proxy rejects the request, if it is the first to end: the race
\* takes no notice of the others.
Throws(r, a, run) ==
    /\ Continues(r, a, [run EXCEPT !.st = "threw"])
    /\ IF \A b \in DOMAIN runs[r] : runs[r][b].st \in {"resolving", "running", "returned"}
         THEN Settles(r, "thrown")
         ELSE UNCHANGED answer

\* Mutant of GivenTo: the proxies of a request share the object they note it in.
GivenToAll(r, a, f) ==
    /\ runs' = [runs EXCEPT ![r] = [b \in DOMAIN @ |->
                  [@[b] EXCEPT !.given = @ \cup {f},
                               !.args = IF b = a THEN @ + 1 ELSE @]]]
    /\ UNCHANGED <<source, phase, next, todo, registered, answer>>

\* Mutant of GivenTo: the loop goes on past the next parameter.
GivenToPast(r, a, f) ==
    /\ Continues(r, a, [runs[r][a] EXCEPT !.given = @ \cup {f}, !.args = @ + 2])
    /\ UNCHANGED answer

\* @resolveFn or @rejectFn is resolved, and notes that it was.
GivenTo(r, a, f) ==
    /\ Continues(r, a, [runs[r][a] EXCEPT !.given = @ \cup {f}, !.args = @ + 1])
    /\ UNCHANGED answer

\* @payload is parsed, or refused.
ParsedPayload(r, a, decl) ==
    LET run == runs[r][a]
        value == translateModel(decl, payload[r])
    IN  IF value.shape = "refused" THEN Throws(r, a, run)
        ELSE /\ Continues(r, a, [run EXCEPT !.args = @ + 1,
                                       !.models = @ \cup {<<run.args + 1, value>>}])
             /\ UNCHANGED answer

\* _resolveParamValues: the next parameter is resolved.
ResolveParam(r, a) ==
    LET run == runs[r][a]
        param == ParamsOf(a)[run.args + 1]
    IN  /\ run.st = "resolving"
        /\ run.args < Len(ParamsOf(a))
        /\ IF param.kind = "payload" THEN ParsedPayload(r, a, param.decl)
           ELSE GivenTo(r, a, param.kind)

\* The action is called.
CallAction(r, a) ==
    LET run == runs[r][a] IN
    /\ run.st = "resolving"
    /\ run.args = Len(ParamsOf(a))
    /\ Continues(r, a, [run EXCEPT !.st = "running"])
    /\ UNCHANGED answer

\* The action uses a function it was given, maybe after it has returned.
Respond(r, a) ==
    LET run == runs[r][a] IN
    /\ run.st \in {"running", "returned", "over"}
    /\ \/ "resolve" \in run.given /\ Settles(r, "resolved")
       \/ "reject" \in run.given /\ Settles(r, "rejected")
    /\ UNCHANGED <<source, phase, next, todo, registered, runs>>

\* The action returns or throws.
EndAction(r, a) ==
    LET run == runs[r][a] IN
    /\ run.st = "running"
    /\ \/ Continues(r, a, [run EXCEPT !.st = "returned"]) /\ UNCHANGED answer
       \/ Throws(r, a, run)

\* _autoResolve.
AutoResolve(r, a) ==
    LET run == runs[r][a] IN
    /\ run.st = "returned"
    /\ Continues(r, a, [run EXCEPT !.st = "over"])
    /\ IF run.given = {} THEN Settles(r, "result") ELSE UNCHANGED answer

-----------------------------------------------------------------------------
Proxy(r, a) == ResolveParam(r, a) \/ CallAction(r, a) \/ AutoResolve(r, a)

Next ==
    \/ NextController \/ Hunted \/ Started \/ DeadLetter
    \/ \E a \in todo : Register(a)
    \/ \E r \in Requests :
         \/ Deliver(r)
         \/ \E a \in DOMAIN runs[r] : Proxy(r, a) \/ Respond(r, a) \/ EndAction(r, a)

Spec == Init /\ [][Next]_vars

\* What is awaited goes on; actions need neither end nor respond.
FairSpec ==
    /\ Spec
    /\ WF_vars(NextController \/ Hunted \/ Started \/ \E a \in todo : Register(a))
    /\ \A r \in Requests : WF_vars(\E a \in DOMAIN runs[r] : Proxy(r, a))

-----------------------------------------------------------------------------
\* The method that a call of m on an instance of the class runs.
Dispatched(c, m) ==
    LET chain == Chain[c]
        k == CHOOSE k \in DOMAIN chain :
               /\ <<chain[k], m>> \in defined
               /\ \A j \in 1..(k - 1) : <<chain[j], m>> \notin defined
    IN  chain[k]

\* No request is served before every controller has all its actions registered,
\* with the functions that a call of them really runs, however the classes
\* override and decorate each other's methods and whatever failed on the way
\* (ControllerHunter.ts:56-114, MediateRpcHandlerAddOnBase.ts:31-38).
ServesAll ==
    Listens =>
        \A i \in DOMAIN Controllers : LET c == Controllers[i] IN
            \A m \in Methods :
                (\E k \in DOMAIN Chain[c] : <<Chain[c][k], m>> \in decorated) =>
                    [ctrl |-> c, name |-> m, of |-> Dispatched(c, m)] \in registered

\* An action with a declared class is called with models of it, and one that takes
\* an array with one array of models, whether the payload is an array or a single
\* object; if its declaration turns validation on, it is not called with a
\* payload that the class refuses, even when an action which does not validate
\* runs on the same payload (payload.ts:49-127, ControllerHunter.ts:135-168).
OnlyModels ==
    \A r \in Requests : \A a \in DOMAIN runs[r] :
        \A i \in DOMAIN ParamsOf(a) : LET param == ParamsOf(a)[i] IN
            /\ runs[r][a].st \in {"running", "returned", "over"}
            /\ param.kind = "payload" /\ Typed(param.decl)
            /\ payload[r].shape # "none"
            => /\ param.decl.enableValidation = "on" => param.decl.check \in payload[r].passes
               /\ \E value \in Values :
                    /\ <<i, value>> \in runs[r][a].models /\ value.model
                    /\ param.decl.type = "Array" => value.shape = "many"

\* A request that an action which asks for neither resolve nor reject has
\* returned from is answered, whatever other actions it runs beside and even
\* after deadLetter: "Should continue processing existing requests"
\* (ControllerHunter.ts:135-175, MediateRpcHandler.ts:176-184).
Plain(a) == \A i \in DOMAIN ParamsOf(a) : ParamsOf(a)[i].kind = "payload"
ReturnsAnswer ==
    \A r \in Requests :
        (\E a \in DOMAIN runs[r] : Plain(a) /\ runs[r][a].st = "returned")
            ~> answer[r] # "none"
=============================================================================
