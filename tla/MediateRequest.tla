--------------------------- MODULE MediateRequest ---------------------------
(***************************************************************************)
(* A request inside MessageBrokerRpcHandler                                *)
(* (src/app/mediate/MediateRpcHandler.ts): onMessage acknowledges it or    *)
(* gives it back, runs every action whose routing key matches, and answers *)
(* with what its promise settles to.  The actions run concurrently, and    *)
(* the broker delivers again what it has seen no acknowledgement of.       *)
(***************************************************************************)
EXTENDS Naturals, Sequences, FiniteSets, RpcErrors, RoutingKeys

CONSTANTS
    Requests,
    Actions,        \* the functions given to handle
    KeyOf,          \* the routing key each is registered for
    TopicOf,        \* the topic each request is published with
    Literals,       \* the words that a regular expression takes as they are
    Peculiar,       \* what the expression of a key with other words matches
    Malformed,      \* those whose key makes no regular expression at all
    Scenes,         \* the services and the faults a behaviour may have
    MaxLoss,        \* bound on the number of lost channels
    MaxRuns         \* bound on the number of accepted deliveries

Manners == {"resolve", "reject", "return", "throw"}
FaultKinds == {"publish", "loss", "expire"}

\* The actions that are registered, what each may do, the reasons they fail
\* with, and which cannot have their result or reason serialised; the requests
\* that are sent, those sent by callImpatient, and those whose content is not the
\* JSON it claims to be; whether onError has been called; how many accepted
\* deliveries are looked at.
Scene ==
    [handles : SUBSET Actions, manner : [Actions -> SUBSET Manners],
     why : SUBSET Reasons, bad : SUBSET Actions,
     sends : SUBSET Requests, impatient : SUBSET Requests, poison : SUBSET Requests,
     heard : BOOLEAN, faults : SUBSET FaultKinds, runs : 0..MaxRuns]

\* The words of keys and topics are what stands between their dots.
IsWords(key) ==
    key \in Seq(STRING) /\ key # <<>> /\ \A i \in DOMAIN key : key[i] # "."

\* A key whose regular expression is what the key says: each of its words is a
\* wildcard or is taken as it is.
Plain(key) == \A i \in DOMAIN key : key[i] \in {"*", "#"} \cup Literals

ASSUME KeysAssumption == \A a \in Actions : IsWords(KeyOf[a])
ASSUME TopicsAssumption == \A r \in Requests :
    IsWords(TopicOf[r]) /\ \A i \in DOMAIN TopicOf[r] : TopicOf[r][i] # ""
ASSUME WordsAssumption ==
    /\ Literals \cap {"*", "#", "."} = {}
    /\ Peculiar \in [{a \in Actions : ~Plain(KeyOf[a])} -> SUBSET Requests]
    /\ Malformed \subseteq {a \in Actions : ~Plain(KeyOf[a])}
ASSUME ScenesAssumption == \A s \in Scenes : s \in Scene
ASSUME BoundsAssumption == MaxLoss \in Nat /\ MaxRuns \in Nat

VARIABLES
    scene,
    handlers,   \* _handlers
    place,      \* broker: where each request is
    losses,     \* channels lost so far
    runs        \* the deliveries that were accepted, oldest first

vars == <<scene, handlers, place, losses, runs>>

\* A run maps over the handlers "todo", given by their positions, and has
\* "started" some actions, which have "ended" by returning or throwing; the
\* promise "prom" settles, "by" one of them and, if it is rejected, for the
\* reason "why"; then "step" goes from the promise to the end of the chain, and
\* "sent" holds the response.
RunRecord ==
    [req : Requests, todo : SUBSET Nat, started : SUBSET Actions,
     ended : SUBSET Actions, raced : BOOLEAN,
     prom : {"pending", "resolved", "intended", "unintended"},
     by : SUBSET Actions, why : Reasons,
     step : {"waiting", "replying", "excusing", "over"},
     sent : Seq(RpcResponse), reported : BOOLEAN]

TypeOK ==
    /\ scene \in Scenes
    /\ handlers \in Seq(Actions)
    /\ place \in [Requests -> {"unsent", "queued", "held", "acking", "nacking", "gone"}]
    /\ losses \in 0..MaxLoss
    /\ runs \in Seq(RunRecord)
    /\ \A d \in DOMAIN runs : runs[d].todo \subseteq DOMAIN handlers

Init ==
    /\ scene \in Scenes
    /\ handlers = <<>>
    /\ place = [r \in Requests |-> "unsent"]
    /\ losses = 0
    /\ runs = <<>>

-----------------------------------------------------------------------------
\* The actions whose key brings a request to the queue, and those whose regular
\* expression it matches: a key is not checked for words with "*", "+" or "|".
RoutedFor == [r \in Requests |-> {a \in Actions : Routed(KeyOf[a], TopicOf[r])}]
MatchedBy == [r \in Requests |-> {a \in Actions :
    IF Plain(KeyOf[a]) THEN Matches(KeyOf[a], TopicOf[r]) ELSE r \in Peculiar[a]}]

\* _getHandlers: the positions in the order of registration, overridden handlers
\* included.
GetHandlers(r) == {i \in DOMAIN handlers : handlers[i] \in MatchedBy[r]}

\* Mutant of Settles: the latest one settles the promise.
SettlesLatest(run, a, how, why) == [run EXCEPT !.prom = how, !.by = {a}, !.why = why]

\* resolve, reject or wrappedReject of the promise: the earliest one settles.
Settles(run, a, how, why) ==
    IF run.prom = "pending"
      THEN [run EXCEPT !.prom = how, !.by = {a}, !.why = why]
      ELSE run

\* Mutant of Thrown: nobody catches what the race throws.
ThrownUncaught(run, a, why) == run

\* The catch clause around the race.
Thrown(run, a, why) ==
    Settles(run, a, IF why.kind = "ValidationError" THEN "intended" ELSE "unintended", why)

\* handle.
Handle(a) ==
    /\ a \in scene.handles
    /\ \A i \in DOMAIN handlers : handlers[i] # a
    /\ handlers' = Append(handlers, a)
    /\ UNCHANGED <<scene, place, losses, runs>>

Moves(r, to) ==
    /\ place' = [place EXCEPT ![r] = to]
    /\ UNCHANGED <<scene, handlers, losses>>

\* A caller publishes a request.  All patterns are bound to the queue already,
\* by the service that declared it before it was restarted.
Publish(r) ==
    /\ place[r] = "unsent"
    /\ r \in scene.sends
    /\ Moves(r, IF RoutedFor[r] # {} THEN "queued" ELSE "gone")
    /\ UNCHANGED runs

\* Neither the content of a request nor a registered key makes onMessage throw.
Readable(r) == r \notin scene.poison /\ \A i \in DOMAIN handlers : handlers[i] \notin Malformed

\* parseMessage or _routingKeyToRegExp throws: neither ack nor nack is called.
Unreadable(r) ==
    /\ place[r] = "queued"
    /\ ~Readable(r)
    /\ Moves(r, "held")
    /\ UNCHANGED runs

\* Mutant of GivenBack: a request is acknowledged, handler or not.
GivenBackAcked(r) ==
    /\ place[r] = "queued"
    /\ Readable(r)
    /\ GetHandlers(r) = {}
    /\ Moves(r, "acking")
    /\ UNCHANGED runs

\* onMessage finds no handler: nack.
GivenBack(r) ==
    /\ place[r] = "queued"
    /\ Readable(r)
    /\ GetHandlers(r) = {}
    /\ Moves(r, "nacking")
    /\ UNCHANGED runs

\* onMessage acknowledges before it runs anything.
Accepted(r) ==
    /\ place[r] = "queued"
    /\ Readable(r)
    /\ GetHandlers(r) # {}
    /\ Len(runs) < scene.runs
    /\ Moves(r, "acking")
    /\ runs' = Append(runs,
         [req |-> r, todo |-> GetHandlers(r), started |-> {}, ended |-> {},
          raced |-> FALSE, prom |-> "pending", by |-> {}, why |-> NoReason,
          step |-> "waiting", sent |-> <<>>, reported |-> FALSE])

\* The broker receives the acknowledgement.
Acknowledged(r) ==
    /\ place[r] \in {"acking", "nacking"}
    /\ Moves(r, IF place[r] = "acking" THEN "gone" ELSE "queued")
    /\ UNCHANGED runs

\* The channel is lost before the broker has heard of a message: it delivers
\* it again, to this handler once it listens again.
ChannelLost ==
    /\ "loss" \in scene.faults
    /\ losses < MaxLoss
    /\ losses' = losses + 1
    /\ place' = [r \in Requests |->
                   IF place[r] \in {"held", "acking", "nacking"} THEN "queued"
                   ELSE place[r]]
    /\ UNCHANGED <<scene, handlers, runs>>

Expire(r) ==
    /\ "expire" \in scene.faults
    /\ place[r] = "queued"
    /\ Moves(r, "gone")
    /\ UNCHANGED runs

-----------------------------------------------------------------------------
Becomes(d, run) ==
    /\ runs' = [runs EXCEPT ![d] = run]
    /\ UNCHANGED <<scene, handlers, place, losses>>

\* What an action may throw.
Throws(a) == IF "throw" \in scene.manner[a] THEN scene.why ELSE {}

\* The map calls the next action.  One that throws at once ends the map, and
\* there is no race.
MapNext(d) ==
    \E i \in runs[d].todo :
        LET run == runs[d]
            a == handlers[i]
            on == [run EXCEPT !.todo = @ \ {i}, !.started = @ \cup {a}]
        IN  /\ \A j \in run.todo : i <= j
            /\ \/ Becomes(d, on)
               \/ \E why \in Throws(a) :
                    Becomes(d, Thrown([on EXCEPT !.todo = {}, !.ended = @ \cup {a},
                                                 !.raced = TRUE], a, why))

\* Mutant of Respond: what the action did is not wrapped.
RespondUnwrapped(d, a) ==
    LET run == runs[d] IN
    /\ a \in run.started
    /\ run.prom = "pending"
    /\ \E how \in scene.manner[a] \cap {"resolve", "reject"} :
         Becomes(d, Settles(run, a, how, NoReason))

\* An action calls resolve or reject, maybe after it has returned.
Respond(d, a) ==
    LET run == runs[d] IN
    /\ a \in run.started
    /\ run.prom = "pending"
    /\ \/ "resolve" \in scene.manner[a] /\ Becomes(d, Settles(run, a, "resolved", NoReason))
       \/ /\ "reject" \in scene.manner[a]
          /\ \E why \in scene.why : Becomes(d, Settles(run, a, "intended", why))

\* An action ends.  The first one to end settles the race, and what the others
\* throw after that is lost.
End(d, a) ==
    LET run == runs[d]
        on == [run EXCEPT !.ended = @ \cup {a}, !.raced = TRUE]
    IN  /\ run.todo = {}
        /\ a \in run.started \ run.ended
        /\ \/ "return" \in scene.manner[a] /\ Becomes(d, on)
           \/ \E why \in Throws(a) :
                Becomes(d, IF run.raced THEN on ELSE Thrown(on, a, why))

-----------------------------------------------------------------------------
\* $emitError throws what it emits when nobody listens: the rest of the catch
\* clause is skipped, and the last one emits it once more.
Emitted(run, next) ==
    [run EXCEPT !.reported = scene.heard,
                !.step = IF scene.heard THEN next ELSE "over"]

\* The promise has settled: then, or catch.
Continue(d) ==
    LET run == runs[d] IN
    /\ run.step = "waiting"
    /\ run.prom # "pending"
    /\ run.todo = {}
    /\ Becomes(d,
         CASE run.prom = "resolved" -> [run EXCEPT !.step = "replying"]
           [] run.prom = "intended" -> [run EXCEPT !.step = "excusing"]
           [] run.prom = "unintended" -> Emitted(run, "excusing"))

\* publish may fail for the topic, the payload or the connection.
MayPublish(run) ==
    /\ run.req \notin scene.impatient
    /\ run.prom = "unintended" \/ run.by \cap scene.bad = {}
MayFail(run) == ~MayPublish(run) \/ "publish" \in scene.faults

Sent(run, res) == [run EXCEPT !.step = "over", !.sent = <<res>>]

\* Mutant of Reply: the failure of publish is not caught.
ReplyUncaught(d) ==
    LET run == runs[d] IN
    /\ run.step = "replying"
    /\ \/ MayPublish(run) /\ Becomes(d, Sent(run, CreateResponse(TRUE, NoError)))
       \/ MayFail(run) /\ Becomes(d, [run EXCEPT !.step = "over"])

\* The response is published; a failure is only reported.
Reply(d) ==
    LET run == runs[d] IN
    /\ run.step = "replying"
    /\ \/ MayPublish(run) /\ Becomes(d, Sent(run, CreateResponse(TRUE, NoError)))
       \/ MayFail(run) /\ Becomes(d, Emitted(run, "over"))

\* The error response is published, with the reason if it was intended.
Excuse(d) ==
    LET run == runs[d] IN
    /\ run.step = "excusing"
    /\ \/ /\ MayPublish(run)
          /\ Becomes(d, Sent(run, CreateResponse(FALSE,
                                    CreateError(run.prom = "intended", run.why))))
       \/ MayFail(run) /\ Becomes(d, Emitted(run, "over"))

-----------------------------------------------------------------------------
Chain(d) == MapNext(d) \/ Continue(d) \/ Reply(d) \/ Excuse(d)

Next ==
    \/ \E a \in Actions : Handle(a)
    \/ \E r \in Requests :
         \/ Publish(r) \/ Unreadable(r) \/ GivenBack(r) \/ Accepted(r)
         \/ Acknowledged(r) \/ Expire(r)
    \/ ChannelLost
    \/ \E d \in DOMAIN runs :
         Chain(d) \/ \E a \in Actions : Respond(d, a) \/ End(d, a)

Spec == Init /\ [][Next]_vars

\* Deliveries and continuations run; an action that may respond or throw does
\* one of them in the end.
FairSpec ==
    /\ Spec
    /\ \A r \in Requests :
         /\ WF_vars(GivenBack(r) \/ Accepted(r))
         /\ WF_vars(Acknowledged(r))
    /\ \A d \in 1..MaxRuns :
         /\ WF_vars(d \in DOMAIN runs /\ Chain(d))
         /\ \A a \in Actions :
              WF_vars(d \in DOMAIN runs /\ (Respond(d, a) \/ End(d, a)))

-----------------------------------------------------------------------------
\* What the user of a mediate caller is told by the response to a run.
ToldOf(d) == ToldByMessage(runs[d].sent[1])

\* The response agrees with how the promise of the run first settled, while
\* other actions go on responding, returning and throwing, and the response is
\* being published: the caller is told of a success only if an action resolved
\* first, and of an internal error only if one threw first or meant to say so
\* (MediateRpcHandler.ts:164-213, MediateRpcCaller.ts:152-159).
ResponseIsFirst ==
    \A d \in DOMAIN runs : runs[d].sent # <<>> =>
        /\ runs[d].sent[1].isSuccess <=> runs[d].prom = "resolved"
        /\ ToldOf(d).how = "rejected" =>
             \/ runs[d].prom = "unintended"
             \/ runs[d].why.kind = "InternalErrorException"

\* An intended reason reaches the user of the caller whole, as the exception it
\* was or in a MinorException, though it crosses the wire as JSON and its details
\* partly as JSON within JSON; of one that was not intended nothing does,
\* whichever action threw it: "If this error is unintended, we should not send it
\* back to caller" (RpcCommon.ts:304-316, 365-391).
ReasonArrives ==
    \A d \in DOMAIN runs : LET run == runs[d] IN
        /\ run.sent # <<>> /\ run.prom = "intended" /\ Lasting(run.why) =>
             ToldOf(d).error = Faithful(run.why)
        /\ run.sent # <<>> /\ run.prom = "unintended" =>
             ToldOf(d).error = CreateError(FALSE, NoReason)

\* A run that ends without a response has been reported to the error handler,
\* wherever its chain failed (MediateRpcHandler.ts:192-215).
NothingSilent ==
    scene.heard =>
        \A d \in DOMAIN runs :
            runs[d].step = "over" => runs[d].sent # <<>> \/ runs[d].reported

\* Nothing but a channel may fail.
Sound ==
    /\ scene.faults \subseteq {"loss"} /\ scene.heard
    /\ scene.bad = {} /\ scene.impatient = {} /\ scene.poison = {}
    /\ scene.handles \cap Malformed = {}

\* Every accepted delivery whose actions respond or throw is answered
\* (MediateRpcHandler.ts:164-215).
Answered ==
    \A d \in 1..MaxRuns :
        Sound /\ d \in DOMAIN runs ~> d \in DOMAIN runs /\ runs[d].sent # <<>>

\* A request that the exchange has routed to the queue for the sake of an action
\* with a plain key is run once that action is registered, however often it was
\* given back before that and redelivered after the loss of a channel
\* (MediateRpcHandler.ts:151-161, 227-245).
HandledOnceRegistered ==
    \A r \in Requests :
        (Sound /\ place[r] # "unsent"
            /\ \E i \in DOMAIN handlers :
                  handlers[i] \in RoutedFor[r] /\ Plain(KeyOf[handlers[i]]))
            ~> \E d \in DOMAIN runs : runs[d].req = r

\* No action with a plain key runs on a request that was not published to its own
\* pattern, whatever other patterns, plain or not, brought the request to the
\* queue they share: there the regular expression agrees with the exchange
\* (MediateRpcHandler.ts:227-245).
OwnRequestsOnly ==
    \A d \in DOMAIN runs : \A a \in runs[d].started :
        Plain(KeyOf[a]) => a \in RoutedFor[runs[d].req]
=============================================================================
