--------------------------- MODULE MediateCaller ---------------------------
(***************************************************************************)
(* MessageBrokerRpcCaller.call (src/app/mediate/MediateRpcCaller.ts): an   *)
(* RPC over the message broker.  Every call subscribes to a topic of its   *)
(* own, starts a consumer on the connector's queue, publishes a request    *)
(* and waits for the response, a timeout or an error.  The calls of one    *)
(* caller run concurrently over one connector, and share its queue, its    *)
(* channel and its single _consumerTag.                                    *)
(*                                                                         *)
(* One identifier stands for a call, its correlationId, its reply topic    *)
(* and the tag of the consumer it starts.                                  *)
(***************************************************************************)
EXTENDS Naturals, Sequences

CONSTANTS
    Calls,          \* the calls made on this caller
    NoTag,
    Faults,
    MaxLoss,
    BadPayload,     \* calls whose request may be impossible to publish, for
                    \* its destination or for what JSON.stringify makes of it
    BadReply        \* calls whose response $rebuildError may fail to rebuild

ASSUME NoTagAssumption == NoTag \notin Calls
ASSUME MaxLossAssumption == MaxLoss \in Nat
ASSUME BadPayloadAssumption == BadPayload \subseteq Calls
ASSUME BadReplyAssumption == BadReply \subseteq Calls

\* Why stopWaiting runs.
Why == {"answer", "timeout", "error"}

VARIABLES
    pc,         \* where the promise chain of the call is
    outcome,    \* how the promise returned to the user settled
    stop,       \* the progress of each run of stopWaiting
    timer,      \* calls whose timeout is armed
    listener,   \* calls with an onMessage registered at $emitter
    request,    \* the request: "none", "sent", or "replied" by some handler
    disposed,   \* $emitter is null
    patterns    \* the connector's _subscribedPatterns

VARIABLES link, losses, pipe, refused, tag, bound, consumers, queue

\* A caller's queue has a random name: it is exclusive.
INSTANCE Connector
    WITH Topics <- Calls, Tags <- Calls, Waiters <- Calls \X (Why \cup {"call"}),
         Exclusive <- TRUE

ASSUME FaultsAssumption == Faults \subseteq FaultKinds

callVars == <<pc, outcome, stop, timer, listener, request, disposed, patterns>>
brokerVars == <<tag, bound, consumers, queue>>
connectorVars == <<link, losses, pipe, refused, brokerVars>>
vars == <<callVars, connectorVars>>

Places == {"idle", "subscribing", "listening", "publishing", "sent", "failed"}
Outcomes == Why \cup {"none"}
StopStates == {"none", "unbinding", "cancelling", "done", "failed"}

TypeOK ==
    /\ pc \in [Calls -> Places]
    /\ outcome \in [Calls -> Outcomes]
    /\ stop \in [Calls -> [Why -> StopStates]]
    /\ timer \subseteq Calls
    /\ listener \subseteq Calls
    /\ request \in [Calls -> {"none", "sent", "replied"}]
    /\ disposed \in BOOLEAN
    /\ patterns \subseteq Calls
    /\ ConnectorTypeOK

Init ==
    /\ pc = [c \in Calls |-> "idle"]
    /\ outcome = [c \in Calls |-> "none"]
    /\ stop = [c \in Calls |-> [w \in Why |-> "none"]]
    /\ timer = {}
    /\ listener = {}
    /\ request = [c \in Calls |-> "none"]
    /\ disposed = FALSE
    /\ patterns = {}
    /\ ConnectorInit

-----------------------------------------------------------------------------
\* Mutant of Settle: the last one to run settles the promise.
SettleLast(c, how) == outcome' = [outcome EXCEPT ![c] = how]

\* resolve and reject: the first one to run settles the promise.
Settle(c, how) ==
    outcome' = [outcome EXCEPT ![c] = IF @ = "none" THEN how ELSE @]

\* stopWaiting starts: unsubscribe is called.
StopWaiting(c, why, listed, sent, left) ==
    /\ stop' = [stop EXCEPT ![c][why] = "unbinding"]
    /\ patterns' = Unlisted(c, listed)
    /\ Submit(Unbind(c, <<c, why>>), sent, left)

\* The catch handler of the chain: it neither clears the timer nor removes
\* the listener.
Fail(c, listed, sent, left) ==
    /\ pc' = [pc EXCEPT ![c] = "failed"]
    /\ Settle(c, "error")
    /\ StopWaiting(c, "error", listed, sent, left)

\* stopWaiting ends: an onMessage that awaited it settles the call, unless
\* $rebuildError throws.
Stopped(c, why) ==
    /\ stop' = [stop EXCEPT ![c][why] = "done"]
    /\ \/ why = "answer" /\ Settle(c, "answer")
       \/ (why # "answer" \/ c \in BadReply) /\ UNCHANGED outcome

-----------------------------------------------------------------------------
\* call: _isInit fails after dispose.
Call(c) ==
    /\ pc[c] = "idle"
    /\ ~disposed
    /\ pc' = [pc EXCEPT ![c] = "subscribing"]
    /\ Submit(Bind(c, <<c, "call">>), pipe, refused)
    /\ UNCHANGED <<outcome, stop, timer, listener, request, disposed,
                   link, losses, patterns, brokerVars>>

\* The topic is bound.  The timer is armed before $emitter.once, which
\* throws once the caller has been disposed.
Subscribed(c) ==
    LET r == Bind(c, <<c, "call">>) IN
    /\ Reply(r)
    /\ Bound(r)
    /\ timer' = timer \cup {c}
    /\ IF disposed
         THEN /\ Fail(c, patterns, Tail(pipe), refused)
              /\ UNCHANGED listener
         ELSE /\ pc' = [pc EXCEPT ![c] = "listening"]
              /\ listener' = listener \cup {c}
              /\ patterns' = patterns \cup {c}
              /\ Submit(Consume(c, <<c, "call">>), Tail(pipe), refused)
              /\ UNCHANGED <<outcome, stop>>
    /\ UNCHANGED <<request, disposed, link, losses>>

\* The consumer is started.
Listening(c) ==
    LET r == Consume(c, <<c, "call">>) IN
    /\ Reply(r)
    /\ Consumed(r)
    /\ pc' = [pc EXCEPT ![c] = "publishing"]
    /\ pipe' = Tail(pipe)
    /\ UNCHANGED <<outcome, stop, timer, listener, request, disposed,
                   link, losses, refused, patterns>>

\* publish, once the publishing channel is there or known not to be.
Publish(c) ==
    /\ pc[c] = "publishing"
    /\ link # "down"
    /\ \/ /\ link = "up"
          /\ pc' = [pc EXCEPT ![c] = "sent"]
          /\ request' = [request EXCEPT ![c] = "sent"]
          /\ UNCHANGED <<outcome, stop, pipe, refused, patterns>>
       \/ /\ link # "up" \/ c \in BadPayload
          /\ Fail(c, patterns, pipe, refused)
          /\ UNCHANGED request
    /\ UNCHANGED <<timer, listener, disposed, link, losses, brokerVars>>

\* subscribe or listen is rejected.
CallRefused(c) ==
    /\ \E r \in {Bind(c, <<c, "call">>), Consume(c, <<c, "call">>)} :
         /\ r \in refused
         /\ Fail(c, patterns, pipe, refused \ {r})
    /\ UNCHANGED <<timer, listener, request, disposed, link, losses, brokerVars>>

\* Mutant of Timeout: stops waiting without a rejection.
TimeoutSilent(c) ==
    /\ c \in timer
    /\ timer' = timer \ {c}
    /\ listener' = listener \ {c}
    /\ StopWaiting(c, "timeout", patterns, pipe, refused)
    /\ UNCHANGED <<outcome, pc, request, disposed, link, losses, brokerVars>>

\* The timeout fires.
Timeout(c) ==
    /\ c \in timer
    /\ timer' = timer \ {c}
    /\ listener' = listener \ {c}
    /\ StopWaiting(c, "timeout", patterns, pipe, refused)
    /\ Settle(c, "timeout")
    /\ UNCHANGED <<pc, request, disposed, link, losses, brokerVars>>

\* Mutant of Deliver: the timer is not cleared.
DeliverTimed(c) ==
    /\ link = "up"
    /\ consumers # {}
    /\ Taken(c)
    /\ IF c \in listener
         THEN /\ listener' = listener \ {c}
              /\ StopWaiting(c, "answer", patterns, pipe, refused)
         ELSE UNCHANGED <<listener, stop, patterns, pipe, refused>>
    /\ UNCHANGED <<timer, pc, outcome, request, disposed,
                   link, losses, tag, bound, consumers>>

\* A response is delivered to any consumer of the queue; onMessage of its
\* correlationId runs if it is still registered, else the message is dropped.
Deliver(c) ==
    /\ link = "up"
    /\ consumers # {}
    /\ Taken(c)
    /\ IF c \in listener
         THEN /\ timer' = timer \ {c}
              /\ listener' = listener \ {c}
              /\ StopWaiting(c, "answer", patterns, pipe, refused)
         ELSE UNCHANGED <<timer, listener, stop, patterns, pipe, refused>>
    /\ UNCHANGED <<pc, outcome, request, disposed,
                   link, losses, tag, bound, consumers>>

\* unsubscribe is done: stopListen cancels the consumer of the moment, which
\* need not be the one this call started, or finds none to cancel.
Unsubscribed(c, why) ==
    LET r == Unbind(c, <<c, why>>) IN
    /\ Reply(r)
    /\ Unbound(r)
    /\ IF isListening
         THEN /\ stop' = [stop EXCEPT ![c][why] = "cancelling"]
              /\ Submit(Cancel(tag, <<c, why>>), Tail(pipe), refused)
              /\ UNCHANGED outcome
         ELSE /\ Stopped(c, why)
              /\ pipe' = Tail(pipe)
              /\ UNCHANGED refused
    /\ UNCHANGED <<pc, timer, listener, request, disposed, link, losses, patterns>>

\* stopListen is done.
ConsumerStopped(c, why) ==
    \E g \in Calls :
      LET r == Cancel(g, <<c, why>>) IN
      /\ Reply(r)
      /\ Cancelled(r)
      /\ Stopped(c, why)
      /\ pipe' = Tail(pipe)
      /\ UNCHANGED <<pc, timer, listener, request, disposed,
                     link, losses, refused, patterns>>

\* unsubscribe or stopListen is rejected: swallowed after a timeout or an
\* error, but onMessage is then left without settling the call.
StopRefused(c, why) ==
    /\ \E r \in {Unbind(c, <<c, why>>)} \cup {Cancel(g, <<c, why>>) : g \in Calls} :
         /\ r \in refused
         /\ refused' = refused \ {r}
    /\ stop' = [stop EXCEPT ![c][why] = "failed"]
    /\ UNCHANGED <<pc, outcome, timer, listener, request, disposed,
                   link, losses, pipe, patterns, brokerVars>>

\* dispose: removeAllListeners, and no emitter any more; the calls under way
\* keep their timers and their connector.
Dispose ==
    /\ "dispose" \in Faults
    /\ ~disposed
    /\ disposed' = TRUE
    /\ listener' = {}
    /\ UNCHANGED <<pc, outcome, stop, timer, request, patterns, connectorVars>>

-----------------------------------------------------------------------------
\* Some handler of the request answers; several handlers may.
Respond(c) ==
    /\ request[c] # "none"
    /\ request' = [request EXCEPT ![c] = "replied"]
    /\ Routed(c)
    /\ UNCHANGED <<pc, outcome, stop, timer, listener, disposed, patterns>>

\* A response waits in the queue for longer than messageExpiredIn.
Expire(c) ==
    /\ Taken(c)
    /\ UNCHANGED <<callVars, link, losses, pipe, refused, tag, bound, consumers>>

LinkStep ==
    /\ Open \/ Lose \/ OpenFails \/ Disconnect
    /\ UNCHANGED callVars

CallStep(c) ==
    \/ Subscribed(c) \/ Listening(c) \/ Publish(c) \/ CallRefused(c)
    \/ \E why \in Why :
         Unsubscribed(c, why) \/ ConsumerStopped(c, why) \/ StopRefused(c, why)

Next ==
    \/ \E c \in Calls :
         \/ Call(c) \/ CallStep(c) \/ Timeout(c)
         \/ Deliver(c) \/ Respond(c) \/ Expire(c)
    \/ Dispose
    \/ LinkStep

Spec == Init /\ [][Next]_vars

\* The event loop runs every continuation and every timer; the broker answers
\* every request of a live channel and delivers to a live consumer; a pending
\* channel opens or fails.  Handlers may never respond, and faults may never
\* happen.
Fairness ==
    /\ \A c \in Calls :
         WF_vars(CallStep(c)) /\ WF_vars(Timeout(c)) /\ WF_vars(Deliver(c))
    /\ WF_vars(Open /\ UNCHANGED callVars)

FairSpec == Spec /\ Fairness

-----------------------------------------------------------------------------
Busy(c) == \E w \in Why : stop[c][w] \in {"unbinding", "cancelling"}
StopBegun(c) == \E w \in Why : stop[c][w] # "none"

\* Nothing has gone wrong yet: no connection is lost, no call has failed.
Untroubled ==
    /\ losses = 0 /\ link \in {"down", "up"}
    /\ \A c \in Calls : pc[c] # "failed"

\* As long as nothing goes wrong, a call that has started its consumer, whose
\* onMessage is registered and that has not begun to stop, has some consumer
\* to hear from, whatever the other calls cancel through the shared
\* _consumerTag (MediateRpcCaller.ts:139-142,
\* MessageBrokerConnector.ts:412-425).
WaitingNeverDeaf ==
    Untroubled =>
        \A c \in listener :
            pc[c] \in {"publishing", "sent"} /\ ~StopBegun(c) => consumers # {}

\* Once onMessage has run for a call it cannot be reported as timed out or
\* failed, even while stopWaiting is still under way
\* (MediateRpcCaller.ts:147-160).
AnsweredNeverRejected ==
    \A c \in Calls : stop[c]["answer"] # "none" => outcome[c] \in {"none", "answer"}

\* A call that has settled and has nothing under way leaves no binding and no
\* listed pattern behind, whichever of response, timeout, error, lost
\* connection and disconnection came first (MediateRpcCaller.ts:139-190).
\* A connector that has been disconnected keeps its list.
NoOrphanBinding ==
    \A c \in Calls :
        pc[c] \in {"sent", "failed"} /\ StopBegun(c) /\ ~Busy(c) =>
            /\ c \notin bound
            /\ link = "gone" \/ c \notin patterns

\* The calls implement the promise of RpcCommon.ts:125-129: one outcome, and
\* a response that was really given (MediateRpcCaller.ts:123-192).
phase ==
    [c \in Calls |->
        IF pc[c] = "idle" THEN "unmade"
        ELSE IF outcome[c] # "none" THEN outcome[c]
        ELSE IF stop[c]["answer"] # "none" THEN "taken"
        ELSE "waiting"]

Promise ==
    INSTANCE RpcPromise WITH replied <- {c \in Calls : request[c] = "replied"}

KeepsPromise == Promise!Spec

\* Every call settles, through lost connections, refused reconnections, a
\* disposed caller and requests that cannot be published; but for one whose
\* onMessage had cleared the timeout and was then broken off
\* (MediateRpcCaller.ts:123-192).
BrokenOff(c) ==
    \/ stop[c]["answer"] = "failed"
    \/ c \in BadReply /\ stop[c]["answer"] = "done"

CallSettles ==
    \A c \in Calls : pc[c] # "idle" ~> outcome[c] # "none" \/ BrokenOff(c)

\* Every call settles, without exception: the timeout is there "In case this
\* request never has response." (MediateRpcCaller.ts:162)
EveryCallSettles ==
    \A c \in Calls : pc[c] # "idle" ~> outcome[c] # "none"
=============================================================================
