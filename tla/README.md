# micro-fleet service-communication: TLA+ models and proofs

This directory holds the formal model of `@micro-fleet/service-communication`
(`src/src/app` in the repository): RPC between micro-services over HTTP
("direct") and over a RabbitMQ topic exchange ("mediate"). The models are
translated from the code; every definition is tied to its lines by the `map` of
`PROJECT.json`. TLC checks them on small instances, and TLAPS proves the main
safety results for every value of the constants.

Paths in this file are relative to `src/src/app`.

## The system

| Component | State it keeps | Operations | Talks to |
|---|---|---|---|
| `TopicMessageBrokerConnector` (`MessageBrokerConnector.ts`) | `_connectionPrm`, `_consumeChanPrm`, `_publishChanPrm`, `_consumerTag`, `_queue`, `_queueBound`, `_messageExpiredIn`, `_subscribedPatterns`, `_isConnected`, `_isConnecting` | `connect`, `disconnect`, `subscribe`, `unsubscribe(All)`, `listen`, `stopListen`, `publish`, `deleteQueue`, `emptyQueue` | amqplib: promises, channel and connection events; timers |
| `MessageBrokerRpcCaller` (`mediate/MediateRpcCaller.ts`) | `$emitter`, one listener and one timer per call | `call`, `callImpatient`, `dispose` | a connector of its own or a shared one |
| `MessageBrokerRpcHandler` (`mediate/MediateRpcHandler.ts`) | `_handlers`, by routing key | `handle`, `start`, `pause`, `resume`, `dispose`, `onMessage` | a connector; the actions |
| `ExpressRpcHandler` (`direct/DirectRpcHandler.ts`) | `_app`, `_routers`, `_server`, `_isOpen` | `handle`, `start`, `pause`, `resume`, `dispose`, one middleware per request | Express, `http.Server`; the actions |
| `HttpRpcCaller` (`direct/DirectRpcCaller.ts`) | `_requestMaker`, `_baseAddress` | `call`, `callImpatient`, `dispose` | request-promise |
| Bases (`RpcCommon.ts`) | `$emitter`, `_hasErrHandler` | `onError`, `$emitError`, `$createError`, `$rebuildError` | the four classes above |
| Handler add-ons (`*/…AddOnBase.ts`, `*/Default…AddOn.ts`) | the handler they own | `init`, `deadLetter`, `dispose` | a handler; `ControllerHunter` |
| `ControllerHunter` | nothing but the registrations it makes | `hunt`, the proxies of the actions | a handler; controllers |
| Injected `resolve`/`reject` (`decorators/resolveFn.ts`, `rejectFn.ts`) | a flag on the parameters of a proxy | the parameter resolvers | `ControllerHunter` |
| `MessageBrokerProviderAddOn` | `_connectors` | `create`, `init`, `deadLetter`, `dispose` | connectors |
| `@payload` and parameter decorators (`decorators/payload.ts`, `param-decor-base.ts`) | class meta data | the parser of a parameter | `ControllerHunter` |
| Other decorators, constants, exports, `register-addon.ts` | class meta data | none at run time | |

### What is hard here

Everything runs on one Node.js thread, but nearly every method awaits, and no
method is guarded against being called while another one is waiting. A step of
the models is what runs between two awaits; the actions interleave wherever the
code awaits.

- *The shared connector.* All calls of a caller share one queue, one channel and
  **one** consumer tag; each call starts a consumer, and each call that ends
  cancels the consumer which the tag names at that moment.
- *Promises that are replaced.* A lost connection replaces the connection
  promise and both channel promises, while `disconnect` and the re-creation
  timers hold older ones.
- *Races to settle.* A response, a timeout and an error race to settle a call;
  several actions run concurrently on one request and race to settle its
  promise.
- *Partial failure.* Every step of a chain may be rejected, and the clauses that
  clean up await further requests, which may be rejected too.
- *Two judges.* The exchange routes a message by a pattern, the handler by a regular
  expression of its own; an error is taken apart by one side and put together
  by the other; the broker holds a queue to the declaration it was first given.
- *At-least-once delivery.* A request is acknowledged before its actions run and
  delivered again when the acknowledgement is lost.

`PROJECT.json` lists these hazards at their lines, with the properties that
would catch each of them.

### What makes each component correct

- Connector: one connection and one channel of each kind at a time; channels come
  back after a loss; `disconnect` ends and leaves nothing connected, as far as the
  broker answers it.
- Mediate caller: a call settles once, with a response that some handler gave or
  with a rejection that no response preceded; it leaves no binding behind;
  while it waits, some consumer is there to hear the response.
- Mediate handler: after `pause` or `dispose` nothing is consumed; what is bound
  can be found by a later `dispose`; a request is answered by the first outcome
  of its actions, which arrives as it was meant; an action runs on the requests
  published to its pattern, on all of them and on no others, if the pattern has no
  words that the regular expression reads otherwise; a failure to answer is reported.
- Direct RPC: the caller is told what the action did; `deadLetter` accepts nothing
  more; `dispose` waits for what is being served, and ends; a destination keeps
  its handler.
- Controllers and add-ons: nothing is served before everything is registered;
  an action that declares a class is given nothing but models of it, and where it
  asks for validation nothing that fails it; a proxy answers for those actions that do
  not answer for themselves.
- Provider and queues: a bound queue is the one its connector says, with the
  expiration it says; generated queues die with their connection; no connector
  is forgotten before it has been disconnected; `deadLetter` silences all of them,
  unless calls of `listen` and `stopListen` have overlapped.

## Modules

| Module | Models | Composed of |
|---|---|---|
| `Connector` | the consuming side of the connector as the RPC classes see it: the FIFO of AMQP requests, their rejections, the consumer tag, the broker's queue, the life of the link in one variable | instantiated by the next two |
| `MediateCaller` | concurrent calls of one mediate caller | `Connector`, `RpcPromise` |
| `RpcPromise` | abstract: what `IRpcCaller.call` promises | |
| `BrokerConnection` | connection life cycle in detail: dials, channel promises, timers, `disconnect` | |
| `MediateHandler` | `handle`, `start`/`resume`, `pause`, `dispose`, awaited or overlapping | `Connector` |
| `MediateRequest` | a request from its delivery to its response, and what the caller is told | `RpcErrors`, `RoutingKeys` |
| `RpcErrors` | `$createError`, `$rebuildError` and the continuations of both callers, as operators | |
| `RoutingKeys` | the exchange's routing and the handler's regular expression, as operators | |
| `DirectRpc` | HTTP caller, Express handler and the add-on that drives it | `RpcErrors` |
| `Controllers` | the hunter, its proxies and the mediate add-on | `Payload` |
| `Payload` | what `@payload` makes of a payload, as operators | |
| `Provider` | the add-on's connectors, their queues at the broker, `init` of callers and handlers | |
| `MC*` | constants for TLC | the module named after `MC` |
| `MediateCallerProofs`, `BrokerConnectionProofs`, `MediateHandlerProofs`, `MediateRequestProofs`, `DirectRpcProofs`, `ControllersProofs`, `ProviderProofs` | proofs | the module they are named after |
| `MediateCallerRefinement` | proof that `MediateCaller` implements `RpcPromise` | `MediateCallerProofs` |

`Connector` abstracts the connection to `link`; `BrokerConnection` has the
detail that justifies it (`"down"` is a pending channel promise, `"up"` a resolved
one, `"dead"` a rejected one, `"gone"` a disconnected connector, `"closed"` a
promise that is resolved to a channel which the broker has closed).

### State and actions against the code

*Connector.* `pipe` is amqplib's queue of requests of the consuming channel:
amqplib sends one request at a time per channel and answers in order. `refused`
holds rejections whose continuation has not run. `Submit` is the call of a
connector method up to its first await: it fails at once if
`assertConnection` does, waits while the channel promise is pending, and
appends otherwise. `Bound`, `Consumed`, `Unbound`, `Cancelled` are the effect at
the broker together with the assignments that follow the await.
`assertQueue` and `bindQueue`, two requests made by one `bindQueue` method, are
one step.

*MediateCaller.* `pc[c]` is the await at which the chain of `call` stands,
`stop[c][why]` the await of the `stopWaiting` started by the answer, the timeout
or the `catch` clause, `outcome[c]` how the promise of the user settled.
`Subscribed` is everything from the reply to `bindQueue` to the call of
`listen`: it arms the timer before `$emitter.once`, which throws after `dispose`.
`Deliver` is `onMessage` up to its await of `stopWaiting`, `Stopped` what follows.

*BrokerConnection.* Promises are numbered in the order they are made, and a field
is the number of a promise or 0. `chan[k][m]` says what promise `m` waits for:
an older promise (`resetChannels`), a connection (`createChannel`), or the broker.
Continuations that are ready run before timers, frames and calls of the user, as
in Node.js: the latter are guarded by `AtRest`. `closing` is the place of
`disconnect`: what it awaits, which channels the broker still owes a confirmation
(`owed`), and whether closing one was `refused`. amqplib calls back `close()` of a channel
and of a connection only when the broker confirms it; `close()` of a channel that is closed
already is rejected. A connection that is lost while a confirmation is owed therefore leaves
`disconnect` waiting for ever: `owed` is never emptied (`CloseReply`), or the farewell never
comes (`FarewellLost`). While it waits, the session is `"closing"`; a user who does not
await his `disconnect` ("hasty") may go on using channels, since `assertConnection` looks
at the connection alone.

*MediateHandler.* A call is its number; `left` counts what its `Promise.all` still
awaits. `Reached` and `Skipped` are what `unsubscribeAll` gets to: it maps over
an array from which each of its calls removes an element.

*Provider.* `conn[c]` is a connector: `link` its connection, `ch` the consuming
channel, `pipe` the requests that wait on it, `queue` and `ttl` what the setters
last stored, `hangup` who waits in `disconnect`. A request takes its queue and
expiration when the channel is there (`Read`), since `bindQueue` reads them after
its await; `declare` is followed by `bind`, between which a setter may run.
`queues` is the broker's side; a request that it refuses closes the channel and
rejects the whole pipe (`Broken`). `disconnect` has amqplib send the closing of the channel
at once: of the requests that wait, only the oldest has reached the broker, which still
serves it, with nobody to hear the reply (`Closed`, `ServeClosing`). `listen` checks
nothing, so that a connector may have several consumers; each has a number, and `tag` is the
one in `_consumerTag`. `crossed` is history: the last `listen` was called while the
connector was listening or about to, or was followed by a `stopListen` before it had
ended. `job` is the `Promise.all` of `deadLetter` or
`dispose`.

*MediateRequest.* A run is one accepted delivery: `todo` the positions in `_handlers`
of what the map has not called yet, `prom` and `by` the promise and what settled it, `raced` whether
`Promise.race` is decided, `step` the place in `.then(...).catch(...)`. A routing key is
`Plain` if each of its words is a wildcard or one of `Literals`, the words a regular expression
takes as they are. Of any other key (`li*t`, `a|b`) `Peculiar` says, arbitrarily, what its
expression matches; one in `Malformed` (`(list`) makes none: once it is registered, every
message throws before it is acknowledged (`Readable`, `Unreadable`).

*DirectRpc.* `servers` are the `http.Server`s ever made, `server` is `_server`.
`calls[c]` holds both sides of a call, whose connection is accepted (`Connect`)
before its request is read (`Arrive`): what happens in between is what `pause`
and `dispose` can race with. `RouteFor` evaluates Express' order of routers and
routes over the registrations.

*Controllers.* `defined`, `decorated` and `valid` are the source code of the
controllers, arbitrary and fixed. `runs[r][a]` is the proxy of action `a` on
request `r`, with the number of parameters it has resolved and the functions it
noted as injected, and the models it has parsed with the positions of their parameters.
`payload[r]` is what the request carries, which every proxy parses in its own way.

*RpcErrors, RoutingKeys, Payload.* Pure functions over small sets: a reason is
its class, whether it has a message, and the sort of its details; a topic is a
sequence of words; a payload is nothing, one object or several, with the checks it passes.
`Checks` are the validations there are, of a class or of some of its properties
(`isPartial`); a declaration turns its check on or off, or leaves it to the translator,
which then does those in `ByDefault` (`Validates`).
The exchange and the regular expression are both matched from the left: `Ends` is
where the first words of a pattern may end in a topic, for what one word may
stand for (`RoutedTo`, `MatchedTo`; the latter goes over the dots as well).

## Runs

Passing runs:

| Run | Shows | Bounds |
|---|---|---|
| `caller` | `WaitingNeverDeaf`: the shared tag never leaves a waiting call without a consumer while nothing fails. `AnsweredNeverRejected`. `NoOrphanBinding`. `KeepsPromise`: refinement of `RpcPromise`. `CallSettles`: every call settles, unless its `onMessage` was broken off after it had cleared the timeout | two calls, the least that share a tag; two losses, so that a call that lived through one meets another; refused reconnection, disconnection and `dispose` at any point; one call whose request cannot be published, one whose response cannot be rebuilt |
| `connection` | `OneConnection`, `OneChannelPerKind`, `RejectedForCause`, `ChannelRecovers`, `DisconnectCloses`, `DisconnectEnds` | three connections (two reconnections, or two sessions and a reconnection) and three promises of each kind of channel; `Scenarios` are the seven sets of faults a behaviour may have: all broker faults without `disconnect`, losses with channel errors, and `disconnect` alone, with each family of faults, and with a user who does not await it |
| `handler` | `PausedAcceptsNothing`, `BoundIsListed`, `CallsSettle` | two patterns, the least with which `unsubscribeAll` passes over one; five awaited calls, or four that overlap; one loss, a refused reconnection, a disconnection |
| `request` | `ResponseIsFirst`, `ReasonArrives`, `NothingSilent`, `OwnRequestsOnly`, `Answered`, `HandledOnceRegistered` | three requests and two actions with overlapping plain patterns, so that one request is for both and each of the others for one; a third action whose key matches all requests and is routed none, and a fourth whose key makes no expression, each beside one of the first two in a scene of its own; in these and the two other careless scenes the actions may do anything for three kinds of reasons, one request is impatient, one unreadable, one result cannot be serialised, all faults, one accepted delivery, with and without an error handler; in the careful scenes, where one action responds and one throws or rejects, a channel is lost and two deliveries are accepted, so that a redelivery fits |
| `direct` | `ToldTheTruth`, `DisposeDrains`, `DeadLetterHolds`, `DisposeEnds`, `OwnKept` | two calls, one to a module and one to a raw destination of the same name; two servers; two kinds of reasons; a port that another process may hold; with and without the add-on and an error handler |
| `controllers` | `ServesAll`, `OnlyModels`, `ReturnsAnswer` | two classes, one extending the other, both exported, two methods: all 81 ways to define and decorate them, with parameters that take a model that is validated, an array of models that is not, a model whose validation is left to the translator, the raw payload, and `reject`; payloads of one and of several objects that pass both checks, one, or none; one request that matches up to three actions |
| `provider` | `BoundAsSaid`, `TempQueuesDie`, `NoneForgotten`, `DeadLettered`, `JobSettles` | two connectors, the least that share a queue or a `Promise.all`; two values of the expiration; two generated names each; three calls of any kind beside `init`, awaited or not, with refused connections; or five calls that subscribe, listen, delete and purge; or five that subscribe, listen and stop listening, so that consumers overlap |

`MCMediateHandler` also evaluates, for all patterns and topics of up to four words, that what
the regular expression matches has been routed, and that the two agree on
patterns without `#`.

Violations, each listed under `findings`: what the code does against what its
comments or tests say.

| Run | Shows |
|---|---|
| `caller_hangs` | A connection lost while `onMessage` awaits `stopWaiting` leaves the call pending for ever: its timeout has been cleared. |
| `connection_zombie` | `disconnect` is rejected by a channel that the broker has closed, and then forgets the connection without closing it. |
| `handler_dispose` | `dispose` leaves every second pattern bound. |
| `handler_deaf` | After a reconnection the channel is back, but nothing consumes. |
| `request_unrouted` | A `#` that stands for no word: the exchange routes the request to the queue, the regular expression does not match it, and it is given back for ever. |

### Constants that vary within a run

Some variables never change and stand for a choice made once per behaviour, so
that one run covers what would otherwise be several: `faults` (BrokerConnection),
`careful` (MediateHandler: the user awaits each call), `managed` and `heard`
(DirectRpc: the add-on drives the handler; `onError` has been called), `scene`
(MediateRequest: the manners of the actions, the faults, what is sent; Provider: the
calls users make and whether they await them), `defined`, `decorated`, `valid`,
`payload` (Controllers).

### Bounds in guards

`MaxConn`, `MaxChan`, `MaxLoss`, `MaxCalls`, `MaxHasty`, `MaxRuns`, `MaxServers`,
`MaxHits` and `MaxAuto` limit the number of connections, channel promises, losses,
calls, overlapping calls, accepted deliveries, servers, matching actions and
generated names; `calls` and `runs` of a scene do so for that scene. Each appears
only in the guard of the action that creates what it counts. `ChannelError` and
`ConnectionLost` also keep room for the promise that must replace the one they
break, so that a bound never looks like a channel that fails to come back.

The models stop when the users stop calling, so the runs do not check deadlock.

## Fairness

Liveness is checked under weak fairness of what Node.js and the broker do by
themselves: continuations of settled promises, armed timers, replies on a live
channel, delivery to a live consumer, and the opening of a channel of a live
connection. Users, faults and the actions of controllers owe nothing, with two
exceptions that are the hypotheses of their properties: in `request`
an action that may respond or throw does so in the end, and a pending channel
promise in `MediateCaller` and `MediateHandler` resolves unless it is
rejected, which is what `ChannelRecovers` shows of `BrokerConnection`.
No strong fairness is assumed. The replies that `disconnect` awaits (`BrokerReply`) come only
over a connection that is there, which is why `DisconnectEnds` excepts a connection that is
lost while one is owed (`Unanswered`). `DisposeEnds` of `DirectRpc` rests on the caller's
timeout, a timer, since the server has none of its own.

## Proofs

Every invariant that a passing run checks, and every action property, is a theorem
of its specification, for every value of the constants.

| Theorem | Says | Inductive invariant |
|---|---|---|
| `MediateCallerProofs!TypeCorrect` | `Spec => []TypeOK` | `TypeOK` |
| `MediateCallerProofs!AnswerStands` | `Spec => []AnsweredNeverRejected` | `IInv` |
| `MediateCallerProofs!NothingLeftBehind` | `Spec => []NoOrphanBinding` | `IInv /\ SInv` |
| `MediateCallerProofs!WaitingHears` | `Spec => []WaitingNeverDeaf` | `IInv /\ SInv /\ CalmInv` |
| `MediateCallerRefinement!CallerKeepsPromise` | `Spec => KeepsPromise` | `IInv`; each action maps to a step or a stutter of `RpcPromise` |
| `BrokerConnectionProofs!TypeCorrect` | `Spec => []TypeOK` | `StateTypeOK` |
| `BrokerConnectionProofs!SingleConnection` | `Spec => []OneConnection` | `Undisturbed` |
| `BrokerConnectionProofs!SingleChannels` | `Spec => []OneChannelPerKind` | `Undisturbed`, `CurrentInv` |
| `BrokerConnectionProofs!RejectionHasCause` | `Spec => []RejectedForCause` | the two above and `Unharmed` |
| `BrokerConnectionProofs!DisconnectedCleanly` | `Spec => []DisconnectCloses` | `Faultless` |
| `MediateHandlerProofs!TypeCorrect` | `Spec => []TypeOK` | `Base` |
| `MediateHandlerProofs!BoundListed` | `Spec => []BoundIsListed` | itself, with `Base` |
| `MediateHandlerProofs!PausedIsDeaf` | `Spec => []PausedAcceptsNothing` | `Base`, `Deaf` |
| `MediateRequestProofs!TypeCorrect` | `Spec => []TypeOK` | `ChainInv` |
| `MediateRequestProofs!FirstAnswers` | `Spec => []ResponseIsFirst` | `ChainInv` |
| `MediateRequestProofs!ReasonsArrive` | `Spec => []ReasonArrives` | `ChainInv` |
| `MediateRequestProofs!NoneSilent` | `Spec => []NothingSilent` | `ChainInv` |
| `MediateRequestProofs!OwnRequests` | `Spec => []OwnRequestsOnly` | `OwnInv`, and the lemma `MatchesRouted` |
| `DirectRpcProofs!TypeCorrect` | `Spec => []TypeOK` | `Inv` |
| `DirectRpcProofs!TruthTold` | `Spec => []ToldTheTruth` | `Inv` (`CallsOK`) |
| `DirectRpcProofs!DeadLetterHeld` | `Spec => DeadLetterHolds`, an action property | `Inv` (`AddOnInv`) |
| `DirectRpcProofs!DisposeDrained` | `Spec => []DisposeDrains` | `Inv` (`AddOnInv`, `ClosedInv`) |
| `DirectRpcProofs!OwnServes` | `Spec => OwnKept`, an action property | `Inv` |
| `ControllersProofs!TypeCorrect` | `Spec => []TypeOK` | `Inv` |
| `ControllersProofs!AllServed` | `Spec => []ServesAll` | `Inv` (`HuntInv`) |
| `ControllersProofs!ModelsOnly` | `Spec => []OnlyModels` | `Inv` (`RunsOK`) |
| `ProviderProofs!TypeCorrect` | `Spec => []TypeOK` | `Core` |
| `ProviderProofs!QueuesGoWithOwner` | `Spec => []TempQueuesDie` | itself, with `Core` |
| `ProviderProofs!NobodyForgotten` | `Spec => []NoneForgotten` | `Core`, `Known` |
| `ProviderProofs!NobodyConsumes` | `Spec => []DeadLettered` | `Core`, `Known`, `Silence` |
| `ProviderProofs!BoundWhereSaid` | `Spec => []BoundAsSaid` | `Core`, `Bindings` |

The assumptions are the named `ASSUME`s of the modules: the types of the constants;
that what stands for "none" is no value (`NoTag \notin Calls`); that keys and topics
are sequences of words, none of which is a dot, and none of a topic empty (`KeysAssumption`,
`TopicsAssumption`); that no literal word is a wildcard, and that `Peculiar` and `Malformed`
are about keys that are not plain (`WordsAssumption`); that the checks a translator does by
default are checks (`ChecksAssumption`); that a connector can name its queue at all (`MaxAuto` is not 0).

### The caller

`AnsweredNeverRejected` is not inductive: that `onMessage` has run does not by
itself prevent the timeout or the `catch` clause from running. `IInv` adds why
they do not. Every request in `pipe` or `refused` is one that somebody waits for at
that place of the code (`RequestsExpected`), and a call has at most one request of
its own chain among them (`Apart`); so the chain is rejected by what it awaits and
by nothing else. A response exists only once the request has been published,
which is the last step of the chain that can fail, and a delivered response has
disarmed the timer and removed the listener (`CallOK`).

`NoOrphanBinding` needs to know that a topic of a call that has begun to stop is
bound only while a request to unbind it is in the FIFO (`Undoing` in `Tidy`): the
call's own bind is served before any `stopWaiting` starts, since until then there is
neither a listener nor a timer (`Orderly`), and a FIFO keeps it so. `Sole` and `Minded` say
which request each `stopWaiting` waits for, so that one which has ended has none.

`WaitingNeverDeaf` is a count. Calls cancel each other's consumers through the one
`_consumerTag`, so no invariant can say which consumer a call hears from; but as
long as nothing goes wrong there are at least as many consumers as calls that
have started one and not stopped (`Calm`). Starting adds one on both sides; a cancel
that is answered takes at most one consumer away and ends one call, which had
started its own: its `consume` was ahead of its `stopWaiting` in the FIFO (`First`).

### The connection

`SingleConnection` needs more than its property, since a new dial is only harmless
when the older ones are over: `Undisturbed` says that the session, once on, stays on,
that no connection is attempted before it, and that the attempts which are delayed,
dialing or open are none but the one `_connectionPrm` stands for. `Current`
says the same of the promises of a kind of channel: those before the latest are closed or
rejected, a latest one that is chained waits for the one before it, and a timer that
is still of use is that of a closed one. `Unharmed` adds, for behaviours without the causes
that `RejectedForCause` names, that no promise is rejected. `Faultless` is about the other
family of behaviours, in which users disconnect and connect at will, awaiting each `disconnect`,
but the broker never fails: it says at each await of `disconnect`, the farewell included, which
promises have been closed so far. Who does not await is excluded for a reason: a channel
that he opens once `disconnect` is past its kind keeps its listener, whose timer finds the fields
forgotten and makes a channel promise without a connection, which is rejected and makes the
`disconnect` of the next session throw.

### The handler

`left`, what a call still awaits, is a counter in the model, and its type is a
fact about the FIFO: `Accounts` says it is the number of requests of the call in
`pipe` or `refused`. The lemma `Halves` gives what `unsubscribeAll` reaches of an
array that shrinks under it. `Tended` is for users who await each call: only the last
call is pending, and a consumer is there only if the newest call of
`start`, `pause` and `dispose` that has not failed is a `start`, or a request to
cancel it is on its way.

### The request

`ChainInv` relates where a run is in its chain, its promise and its response, from
which the three statements about responses follow with what `$createError` and
`$rebuildError` do to a reason. `OwnRequests` rests on `MatchesRouted`: whatever the
regular expression matches, the exchange routes, for plain patterns and for topics of any length;
by descent to a least position at which the two would part.

### HTTP, controllers, provider

`DirectRpcProofs` keeps for each call that the reply under way agrees with what the
action did first (`CallsOK`), and of a handler that the add-on drives that it has one
server, shut after `deadLetter` (`AddOnInv`). `OwnKept` is a fact about Express' order
(`RouterFacts`, `RouteForFacts`): the first match stays the first when a route is added.

`ControllersProofs` keeps that the exports behind `next` have their actions registered or
about to be (`HuntInv`), and that the parameters resolved so far have been given models, of
payloads that pass where the declaration validates (`ModelFor` in `RunsOK`).

`ProviderProofs` has one lemma per operation of a connector, which says how it
changes, and reads the invariants off these. `Core` is what holds of each connector by
itself. `Known`: until `dispose` has begun the list has every connector that was made, and
after that those it still waits for. `Silence`: a consumer belongs to an open channel, and as
long as the last `listen` of its connector crossed nothing it is the only one and the tag is
its tag (`Marked`, `Straight`, `Solo`); while `deadLetter` is under way nobody asks to
consume, and whoever still does, and crossed nothing, is waited for (`Awaited`).
`Bindings`: a request that waits carries
the queue and expiration the connector says (`Agreed`), a queue that is about to be bound
has been declared so (`Declared`), and one that was bound is (`Bound`).

### What the proofs changed

Attempts that failed corrected the model: the reasons an action can fail with exclude
combinations that `HandlerRejection` does not have (`Reasons`), with which what arrives
could be stated more simply (`Faithful`); `MaxAuto` had to be positive, since a connector that
cannot generate a name has no queue; and `todo` became a set of positions, since an
overriding handler is called beside the one it overrides.

### What is only model-checked

The liveness properties (`CallSettles`, `ChannelRecovers`, `DisconnectEnds`, `CallsSettle`,
`Answered`, `HandledOnceRegistered`, `DisposeEnds`, `ReturnsAnswer`, `JobSettles`), which are
under fairness and out of the prover's reach, and that the regular expression matches all that is
routed by patterns without `#` (an assumption that TLC evaluates in `MCMediateHandler`).
TLC has checked every inductive invariant of the table on the instance of its
component's run.

## Assumptions about the environment

- *amqplib* (0.5) keeps at most one request of a channel in flight, FIFO. A closed
  channel rejects all of its requests. `close()` of a channel or a connection is called back
  only when the broker confirms it, and never if the connection is lost before; `close()` of a
  channel that is closed is rejected; a connection that is closing ignores what arrives.
  `unbindQueue` and `cancel` of what is not
  there succeed, as RabbitMQ does.
- A *caller's* queue has a random name and is exclusive, so that it dies with
  its connection; a *handler's* queue has a name and survives it.
- Errors of the consuming channel are in `BrokerConnection`, and in
  `MediateHandler` and `Provider` where the code itself provokes one (`consume` from
  a queue that nobody declared, a queue declared in another way, a queue of
  another connection). `MediateCaller` has none.
- `MediateRequest` delivers a message again after a lost channel, which
  presumes that the handler has been made to listen again (see `handler_deaf`).
- All patterns of `MediateRequest` are bound when it starts, by an earlier run of
  the service: that is how requests precede their handlers.
- The network of `Provider` is sound: losses are in `BrokerConnection` and
  `MediateHandler`. `connect` is called once per connector, as the `if (!isActive)`
  of the initialisers has it; a connector has one pattern; nobody
  calls `disconnect` on a connector that is disconnecting.
- *HTTP*: one connection per call, gone when the call is over. `listen` finds the
  port free or taken at once (no `cluster`). A connection to another process that
  holds the port counts as refused. The `error` event of a server that nobody
  listens to ends the process.

## Known behaviour without a run

Met while modelling; each follows from the actions named.

- Two overlapping calls overwrite each other's tag; the last to end finds no tag
  and leaves a consumer running (`Consumed`, `Cancelled`), and so does a `deadLetter`
  that follows (`Listen`; the exception of `DeadLettered`).
- `disconnect` never ends when the connection is lost while the broker owes it the
  confirmation of a closing (`Unanswered`).
- Only dots are escaped in a routing key: `a|b` and `li*t` match topics that the exchange does
  not route by them, and `(list` makes `onMessage` throw for every message, which is then
  neither acknowledged nor given back (`MatchedBy`, `Readable`).
- `enableValidation` is documented as "Default `false`", but when it is left out nothing is
  passed on and the translator decides; when it is `false`, an action gets models of payloads
  that nobody has validated (`Validates`).
- `$emitError` without an error handler throws inside the `catch` clause of
  `onMessage`, so that the caller is sent no error (`Emitted`); likewise over HTTP
  (`Failed`).
- A raw destination's route matches every POST (`Answers`).
- `start` of the Express handler never settles when the port is taken, or when
  `dispose` comes before the listening event (`Start`, `Closing`).
- `isActive` stays true after a refused dial and after `disconnect`.
- A timeout that fires before `consume` is answered rejects the call, whose request
  is published all the same.
- `pause` before the reply to `consume` does nothing.
- When an action has already returned, what a slower one throws is lost (`End`).
- A call that is rejected by an intended `InternalErrorException` gets a
  `MinorException` (`Receive`).
- `callImpatient` of the HTTP caller never resolves (`Over`); that of the mediate
  caller catches a failure and resolves with the exception.
- A handler that overrides another one is called beside it (`Handle`, `GetHandlers`).
- String details of an exception that are not JSON make `$rebuildError` throw: the
  mediate call never settles, and over HTTP it is rejected with a
  `MinorException`. An `Error` that an action rejects with loses its message, and
  an exception class of the service's own arrives as a plain object
  (`CreateError`, `RebuildError`).
- `@payload` on an array parameter without `ItemClass` wraps an array in an array
  (`toArray`).
- An override that decorates no parameters inherits the decorations of the method
  it overrides, with `@rejectFn` also that its result is not sent (`ParamsOf`).
- A `messageExpiredIn` of 0, "Unlimited", is sent as a `messageTtl` of 0, with which
  what cannot be delivered at once is dropped (`Expiration`).
- `deleteQueue` while `consume` is unanswered deletes a queue that is being consumed
  (`Ask`).
- `disconnect` forgets the tag before the channel is closed, so that a `deadLetter`
  during a user's `disconnect` is fulfilled while messages still arrive (`Ended`);
  a connector that is created after `dispose` has begun is forgotten with the
  rest; a second `dispose` after a failed one is fulfilled although the connection
  that the first one failed to close is open (`Dispose`, link "left"). For
  these reasons `BoundAsSaid`, `NoneForgotten` and `DeadLettered` are stated of users
  who await what they call (a setter between `declare` and `bind` is thus not caught by
  `BoundAsSaid`, only the queue it leaves behind by `TempQueuesDie`); `TempQueuesDie` and
  `JobSettles` hold of all. Likewise `PausedAcceptsNothing` is stated of users who await, and
  `DeadLetterHolds` and `DisposeDrains` of the add-on, which starts once and awaits it.
- `registerDirectCaller` and `registerMediateCaller` bind the same key. `filter.ts`
  appends to the array of filters a class inherits, and so to that of its base.

## Not modelled

- The other decorators (`@action`, `@controller`, `@filter`, `@rawMessage`, `@rpcRequest`):
  they store meta data when a class is loaded, or return a field of the request.
  What the filters do is not in this code, which stores them and never runs them.
- Constants, exports and the bindings of the dependency container: declarations,
  without an operation at run time. The accessors of the default add-ons and of
  the callers (`timeout`, `baseAddress`, `controllerPath`) store a value.
- What is abstracted from `@payload`: what `extractFn` extracts is taken for the payload.
- `callImpatient` of the mediate caller: it publishes and changes nothing; its
  requests are those without `replyTo` in `MediateRequest`.

## Plan

1. Model more: a caller composed with a handler over one exchange; channel errors in
   `MediateCaller`; losses of the connection in `Provider`.
2. Prove more: that without `#` the exchange and the regular expression agree on every
   pattern and topic; what `@payload` makes of each kind of payload.
3. `BrokerConnection` shown to implement the `link` of `Connector`.
