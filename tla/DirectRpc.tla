------------------------------ MODULE DirectRpc ------------------------------
(***************************************************************************)
(* RPC over HTTP: HttpRpcCaller and ExpressRpcHandler (src/app/direct),    *)
(* and the add-on that drives the handler (DirectRpcHandlerAddOnBase).     *)
(*                                                                         *)
(* The handler keeps one Express application, whose routes grow with every *)
(* handle, and at most one HTTP server that it knows of (_server).  A call *)
(* goes over a connection of its own, which the server has accepted before *)
(* it has read the request; server.close waits for accepted connections.   *)
(***************************************************************************)
EXTENDS Naturals, Sequences, RpcErrors

CONSTANTS
    Calls,
    PathOf,         \* the path of the URL of each call, a sequence of names
    Routes,         \* the routes that may be registered, of RouteRecord
    Names,          \* of modules, actions and raw destinations
    BadResult,      \* calls whose result or reason cannot be serialised
    Why,            \* the reasons actions fail with
    Impatient,      \* calls made by callImpatient
    PortTaken,      \* whether another process may have the port
    MaxServers      \* bound on the number of calls of start

\* handle({ moduleName: key, actionName: act }) or handle({ rawDest: key }).
RouteRecord == [raw : BOOLEAN, key : Names, act : Names]

ASSUME RoutesAssumption == Routes \subseteq RouteRecord
ASSUME PathAssumption == PathOf \in [Calls -> Seq(Names)]
ASSUME SubsetsAssumption ==
    /\ BadResult \subseteq Calls /\ Impatient \subseteq Calls
    /\ Why \subseteq Reasons
ASSUME PortTakenAssumption == PortTaken \in BOOLEAN
ASSUME MaxServersAssumption == MaxServers \in Nat

VARIABLES
    managed,    \* the add-on drives the handler of this behaviour
    heard,      \* onError has been called
    routes,     \* the routes registered so far, oldest first
    isOpen,     \* _isOpen
    servers,    \* the state of every server ever made
    server,     \* _server: a number, or 0 for null
    addOn,      \* the add-on: "up", "lettered" after deadLetter, or "disposed"
    calls,      \* the calls, on both sides
    retired     \* the caller has been disposed: _requestMaker is null

handlerVars == <<routes, isOpen, servers, server, addOn>>
vars == <<managed, heard, handlerVars, calls, retired>>

\* A server is "binding" until its listening event, "failed" if the port was
\* taken, and "closing" until its close event.
ServerStates == {"binding", "failed", "listening", "closing", "closed"}

\* "at" is the server that accepted the call, "prom" the promise of its
\* run, rejected for the reason "why", and "got" how the promise given to the
\* user of the caller settled.
CallRecord ==
    [st : {"idle", "calling", "connected", "serving", "over"},
     at : Nat,
     prom : {"none", "pending", "resolved", "intended", "unintended"},
     why : Why \cup {NoReason},
     reply : {"none", "ok", "fail", "500", "410", "404"},
     got : {"none", "result", "refusal", "internal", "minor"}]

TypeOK ==
    /\ managed \in BOOLEAN /\ heard \in BOOLEAN /\ retired \in BOOLEAN
    /\ addOn \in {"up", "lettered", "disposed"} /\ isOpen \in BOOLEAN
    /\ routes \in Seq(Routes)
    /\ servers \in Seq(ServerStates)
    /\ server \in 0..Len(servers)
    /\ calls \in [Calls -> CallRecord]

Uncalled ==
    [st |-> "idle", at |-> 0, prom |-> "none", why |-> NoReason,
     reply |-> "none", got |-> "none"]

\* init of the handler and of the caller is over.
Init ==
    /\ managed \in BOOLEAN /\ heard \in BOOLEAN
    /\ routes = <<>>
    /\ isOpen = FALSE
    /\ servers = <<>>
    /\ server = 0
    /\ addOn = "up"
    /\ calls = [c \in Calls |-> Uncalled]
    /\ retired = FALSE

-----------------------------------------------------------------------------
\* Mutant of RouterOf: every handle makes a router anew.
RouterOfLatest(key) == CHOOSE i \in DOMAIN routes :
    /\ routes[i].key = key
    /\ \A j \in (i + 1)..Len(routes) : routes[j].key # key

\* _routers: the first route of a key makes its router.  The router of a raw
\* destination is mounted at the root, the router of a module at its name.
RouterOf(key) == CHOOSE i \in DOMAIN routes :
    /\ routes[i].key = key
    /\ \A j \in 1..(i - 1) : routes[j].key # key

Mount(key) == IF routes[RouterOf(key)].raw THEN <<>> ELSE <<key>>

Below(mount, path) == SubSeq(path, 1, Len(mount)) = mount

\* The paths a route answers to: everything below the mount, '*', or '/act'.
Answers(i, path) ==
    LET r == routes[i] IN
    IF r.raw THEN Below(Mount(r.key), path) ELSE path = Mount(r.key) \o <<r.act>>

\* Express goes through the routers in the order they were made, and through
\* the routes of each in the order they were added to it.
Before(i, j) ==
    LET ri == RouterOf(routes[i].key)
        rj == RouterOf(routes[j].key)
    IN  ri < rj \/ (ri = rj /\ i < j)

\* The route that serves a path, or 0.
RouteFor(path) ==
    LET hit == {i \in DOMAIN routes : Answers(i, path)} IN
    IF hit = {} THEN 0
    ELSE CHOOSE i \in hit : \A j \in hit \ {i} : Before(i, j)

-----------------------------------------------------------------------------
\* The add-on registers its handlers, starts once, and has awaited start
\* before anything else is asked of it.
Started == servers # <<>> /\ servers[1] \notin {"binding", "failed"}

\* handle.
Handle(r) ==
    /\ managed => servers = <<>>
    /\ \A i \in DOMAIN routes : routes[i] # r
    /\ routes' = Append(routes, r)
    /\ UNCHANGED <<managed, heard, isOpen, servers, server, addOn, calls, retired>>

\* start: the port is taken, or not, as soon as listen is called.  The error
\* event of a server that fails ends the process when nobody hears it.
Start ==
    /\ managed => servers = <<>>
    /\ Len(servers) < MaxServers
    /\ \E st \in {"binding", "failed"} :
         /\ st = "binding" => \A n \in DOMAIN servers : servers[n] \notin {"binding", "listening"}
         /\ st = "failed" =>
              /\ heard
              /\ PortTaken \/ \E n \in DOMAIN servers : servers[n] \in {"binding", "listening"}
         /\ servers' = Append(servers, st)
    /\ server' = Len(servers) + 1
    /\ UNCHANGED <<managed, heard, routes, isOpen, addOn, calls, retired>>

\* The callback of listen.
Listening(n) ==
    /\ servers[n] = "binding"
    /\ servers' = [servers EXCEPT ![n] = "listening"]
    /\ isOpen' = TRUE
    /\ UNCHANGED <<managed, heard, routes, server, addOn, calls, retired>>

\* pause and resume.
Switch(open) ==
    /\ ~managed
    /\ isOpen' = open
    /\ UNCHANGED <<managed, heard, routes, servers, server, addOn, calls, retired>>

\* dispose: server.close stops accepting at once.
Closing ==
    servers' = IF server = 0 THEN servers
               ELSE [servers EXCEPT ![server] = "closing"]

\* dispose, of the handler or of the add-on.
Dispose ==
    /\ managed => Started /\ addOn # "disposed"
    /\ Closing
    /\ addOn' = IF managed THEN "disposed" ELSE addOn
    /\ UNCHANGED <<managed, heard, routes, isOpen, server, calls, retired>>

\* Mutant of DeadLetter: disposes without a pause.
DeadLetterDispose ==
    /\ managed /\ Started /\ addOn # "disposed"
    /\ Closing
    /\ addOn' = "lettered"
    /\ UNCHANGED <<managed, heard, routes, isOpen, server, calls, retired>>

\* deadLetter of the add-on: pause, then dispose.
DeadLetter ==
    /\ managed /\ Started /\ addOn # "disposed"
    /\ isOpen' = FALSE
    /\ Closing
    /\ addOn' = "lettered"
    /\ UNCHANGED <<managed, heard, routes, server, calls, retired>>

\* A connection is there until its call has been answered or given up.
Connections(n) ==
    {c \in Calls : calls[c].at = n /\ calls[c].st \in {"connected", "serving"}
                   /\ calls[c].reply = "none"}

\* Mutant of Closed: close does not wait for the connections.
ClosedAtOnce(n) ==
    /\ servers[n] = "closing"
    /\ servers' = [servers EXCEPT ![n] = "closed"]
    /\ server' = 0
    /\ UNCHANGED <<managed, heard, routes, isOpen, addOn, calls, retired>>

\* The callback of server.close, which forgets whatever _server has become.
Closed(n) ==
    /\ servers[n] = "closing"
    /\ Connections(n) = {}
    /\ servers' = [servers EXCEPT ![n] = "closed"]
    /\ server' = 0
    /\ UNCHANGED <<managed, heard, routes, isOpen, addOn, calls, retired>>

-----------------------------------------------------------------------------
Update(c, r) ==
    /\ calls' = [calls EXCEPT ![c] = r]
    /\ UNCHANGED <<managed, heard, handlerVars, retired>>

\* call and callImpatient: after dispose there is no request maker.
Call(c) ==
    /\ ~retired
    /\ calls[c].st = "idle"
    /\ Update(c, [calls[c] EXCEPT !.st = "calling"])

\* dispose of the caller: what is under way goes on.
Retire ==
    /\ ~retired
    /\ retired' = TRUE
    /\ UNCHANGED <<managed, heard, handlerVars, calls>>

\* The call is over, and so is its connection.  callImpatient only rejects.
\* What the action did is kept where the user has been told of it.
Over(c, got) ==
    Update(c, [Uncalled EXCEPT
        !.st = "over",
        !.prom = IF got = "minor" THEN "none" ELSE calls[c].prom,
        !.got = IF c \in Impatient /\ got \in {"result", "refusal"} THEN "none" ELSE got])

\* A connection is accepted by the server that listens, or refused.  Another
\* process that has the port is taken for one that refuses.
Connect(c) ==
    LET open == {n \in DOMAIN servers : servers[n] = "listening"} IN
    /\ calls[c].st = "calling"
    /\ \/ \E n \in open : Update(c, [calls[c] EXCEPT !.st = "connected", !.at = n])
       \/ open = {} /\ Over(c, "minor")

\* The request has been read: the first middleware, then the routes.
Arrive(c) ==
    LET i == RouteFor(PathOf[c]) IN
    /\ calls[c].st = "connected" /\ calls[c].reply = "none"
    /\ Update(c,
         CASE ~isOpen -> [calls[c] EXCEPT !.reply = "410"]
           [] isOpen /\ i = 0 -> [calls[c] EXCEPT !.reply = "404"]
           [] isOpen /\ i # 0 -> [calls[c] EXCEPT !.st = "serving", !.prom = "pending"])

\* Mutant of Settles: the latest one settles the promise.
SettlesLatest(r, how, why) == [r EXCEPT !.prom = how, !.why = why]

\* resolve, reject or wrappedReject: the earliest one settles the promise.
Settles(r, how, why) ==
    IF r.prom = "pending" THEN [r EXCEPT !.prom = how, !.why = why] ELSE r

\* The action calls resolve or reject, maybe after it has returned, or again.
Respond(c) ==
    /\ calls[c].st = "serving"
    /\ \/ Update(c, Settles(calls[c], "resolved", NoReason))
       \/ \E why \in Why : Update(c, Settles(calls[c], "intended", why))

\* The action throws; a ValidationError is intended.
Throw(c) ==
    /\ calls[c].st = "serving"
    /\ \E why \in Why : Update(c, Settles(calls[c],
         IF why.kind = "ValidationError" THEN "intended" ELSE "unintended", why))

\* Mutant of Failed: a status the caller has no case for.
FailedElse(r) == [r EXCEPT !.reply = "502"]

\* The 500 that follows $emitError, which throws when nobody listens: the last
\* catch clause then emits once more, and nothing is sent.
Failed(r) == IF heard THEN [r EXCEPT !.reply = "500"] ELSE r

\* The promise has settled: then, catch and the last catch.
Answer(c) ==
    LET r == calls[c]
        sent == [r EXCEPT !.reply = IF r.prom = "resolved" THEN "ok" ELSE "fail"]
    IN  /\ r.st = "serving" /\ r.reply = "none"
        /\ r.prom \notin {"none", "pending"}
        /\ \/ r.prom # "unintended" /\ Update(c, sent)
           \/ (r.prom = "unintended" \/ c \in BadResult) /\ Update(c, Failed(r))

\* What the response to a call that was rejected on purpose tells its user.
Refusal(c) ==
    LET told == ToldByHttp(CreateResponse(FALSE, CreateError(TRUE, calls[c].why))) IN
    IF told.how = "resolved" THEN "refusal" ELSE "minor"

\* The response reaches the caller.
Receive(c) ==
    LET reply == calls[c].reply IN
    /\ calls[c].st \in {"connected", "serving"}
    /\ \/ reply = "ok" /\ Over(c, "result")
       \/ reply = "fail" /\ Over(c, Refusal(c))
       \/ reply = "500" /\ Over(c, "internal")
       \/ reply \in {"404", "410"} /\ Over(c, "minor")

\* Mutant of Timeout: it only covers the wait for a connection.
TimeoutConnect(c) ==
    /\ calls[c].st = "calling"
    /\ Over(c, "minor")

\* The timeout of the request: the connection is aborted.
Timeout(c) ==
    /\ calls[c].st \in {"calling", "connected", "serving"}
    /\ Over(c, "minor")

-----------------------------------------------------------------------------
ServerStep(n) == Listening(n) \/ Closed(n)
CallStep(c) == Connect(c) \/ Arrive(c) \/ Answer(c) \/ Receive(c)

Next ==
    \/ \E r \in Routes : Handle(r)
    \/ \E open \in BOOLEAN : Switch(open)
    \/ Start \/ Dispose \/ DeadLetter \/ Retire
    \/ \E n \in DOMAIN servers : ServerStep(n)
    \/ \E c \in Calls :
         Call(c) \/ CallStep(c) \/ Respond(c) \/ Throw(c) \/ Timeout(c)

Spec == Init /\ [][Next]_vars

\* Events and continuations run and the timeout of a request is due in the end;
\* actions owe neither a response nor a return.
FairSpec ==
    /\ Spec
    /\ \A n \in 1..MaxServers : WF_vars(n \in DOMAIN servers /\ ServerStep(n))
    /\ \A c \in Calls : WF_vars(CallStep(c)) /\ WF_vars(Timeout(c))

-----------------------------------------------------------------------------
\* The user of the caller is told what the action did first, whatever it does
\* after that and whenever the request times out: a result if it resolved, a
\* refusal if it rejected or its input was invalid, an internal error if it
\* threw or could not be answered (DirectRpcHandler.ts:176-220,
\* DirectRpcCaller.ts:99-118).
ToldTheTruth ==
    \A c \in Calls :
        /\ calls[c].got = "result" => calls[c].prom = "resolved"
        /\ calls[c].got = "refusal" => calls[c].prom = "intended"
        /\ calls[c].got = "internal" => calls[c].prom = "unintended" \/ c \in BadResult

\* After deadLetter the add-on serves no further call, not even one whose
\* connection had been accepted before: "Should stop accepting more request"
\* (DirectRpcHandlerAddOnBase.ts:44-47, DirectRpcHandler.ts:80-86).
DeadLetterHolds ==
    [][addOn = "lettered" =>
        \A c \in Calls : calls[c].st = "connected" => calls'[c].st # "serving"]_vars

\* When the add-on has been disposed of, its server is closed and no call is
\* being served, however many were accepted while it went down
\* (DirectRpcHandler.ts:126-136).
DisposeDrains ==
    managed /\ servers # <<>> /\ server = 0 =>
        /\ \A n \in DOMAIN servers : servers[n] = "closed"
        /\ \A n \in DOMAIN servers : Connections(n) = {}

\* dispose ends, even if the actions it waits for never respond, since the
\* callers give up (DirectRpcHandler.ts:126-136, DirectRpcCaller.ts:95).
DisposeEnds ==
    \A n \in 1..MaxServers :
        (n \in DOMAIN servers /\ servers[n] = "closing")
            ~> (n \in DOMAIN servers /\ servers[n] = "closed")

\* The path a route was registered for.
Meant(r) == IF r.raw THEN <<r.key>> ELSE <<r.key, r.act>>
Own(path) == LET i == RouteFor(path) IN i # 0 /\ Meant(routes[i]) = path

\* A destination that its own handler serves is never taken away from it by
\* what is registered later, raw destinations included
\* (DirectRpcHandler.ts:141-173).
OwnKept ==
    [][\A path \in {Meant(r) : r \in Routes} :
        Own(path) => RouteFor(path)' = RouteFor(path)]_routes

=============================================================================
