--------------------------- MODULE MediateHandler ---------------------------
(***************************************************************************)
(* MessageBrokerRpcHandler (src/app/mediate/MediateRpcHandler.ts) from the *)
(* outside: handle, start or resume, pause and dispose, each of which      *)
(* awaits requests on the consuming channel of a connector whose queue has *)
(* a name.  Callers need not await one call before they make the next.     *)
(*                                                                         *)
(* A call is known by its number, which also stands for the tag of the     *)
(* consumer that it starts.                                                *)
(***************************************************************************)
EXTENDS Naturals, Sequences, FiniteSets

CONSTANTS
    Patterns,   \* the destinations handlers are registered for
    MaxCalls,   \* bound on the number of calls
    MaxHasty,   \* the bound for a user who does not await them
    Faults,
    MaxLoss

ASSUME MaxCallsAssumption == MaxCalls \in Nat /\ MaxHasty \in 0..MaxCalls
ASSUME MaxLossAssumption == MaxLoss \in Nat

VARIABLES
    careful,    \* the user of this behaviour awaits every call before making
                \* the next, and starts only what is not started
    calls,      \* the calls made so far, oldest first
    listed,     \* _subscribedPatterns
    asked,      \* _consumeChanPrm is there
    declared    \* broker: the queue exists

VARIABLES link, losses, pipe, refused, tag, bound, consumers, queue

Ids == 1..MaxCalls
NoTag == 0

INSTANCE Connector
    WITH Topics <- Patterns, Tags <- Ids, Waiters <- Ids, Exclusive <- FALSE

ASSUME FaultsAssumption == Faults \subseteq FaultKinds

brokerVars == <<tag, bound, consumers, queue>>
vars == <<careful, calls, listed, asked, declared, link, losses, pipe, refused,
          brokerVars>>

\* "left" counts the promises a call still awaits.
CallRecord ==
    [did : {"handle", "start", "pause", "dispose"}, left : Nat,
     st : {"pending", "done", "failed"}]

Elements(s) == {s[i] : i \in DOMAIN s}

TypeOK ==
    /\ careful \in BOOLEAN
    /\ calls \in Seq(CallRecord)
    /\ listed \in Seq(Patterns)
    /\ asked \in BOOLEAN
    /\ declared \in BOOLEAN
    /\ ConnectorTypeOK

Init ==
    /\ careful \in BOOLEAN
    /\ calls = <<>>
    /\ listed = <<>>
    /\ asked = FALSE
    /\ declared = FALSE
    /\ ConnectorInit

-----------------------------------------------------------------------------
Made(did, left, st) == calls' = Append(calls, [did |-> did, left |-> left, st |-> st])

\* A call that makes requests rs, and settles at once when there are none.
Making(did, rs) ==
    /\ Made(did, Len(rs), IF rs = <<>> THEN "done" ELSE "pending")
    /\ pipe' = IF Usable THEN pipe \o rs ELSE pipe
    /\ refused' = IF Usable THEN refused ELSE refused \cup Elements(rs)

Rejecting(did) ==
    /\ Made(did, 0, "failed")
    /\ UNCHANGED <<pipe, refused>>

Lifecycle == {i \in DOMAIN calls : calls[i].did # "handle"}
LastOf(S) == CHOOSE i \in S : \A j \in S : j <= i
Started == Lifecycle # {} /\ calls[LastOf(Lifecycle)].did = "start"

\* The user makes the next call, which gets number Self.
Self == Len(calls) + 1
MayCall ==
    /\ Len(calls) < IF careful THEN MaxCalls ELSE MaxHasty
    /\ careful => \A i \in DOMAIN calls : calls[i].st # "pending"

\* One promise of call i resolves or is rejected: Promise.all is rejected by
\* the first rejection, and resolves when all have.
Settled(i, ok) ==
    calls' = [calls EXCEPT
        ![i].left = @ - 1,
        ![i].st = CASE ~ok -> "failed"
                    [] ok /\ @ = "pending" /\ calls[i].left = 1 -> "done"
                    [] OTHER -> @]

\* Mutant of StopRequests: cancels whatever _consumerTag is.
StopRequestsAlways == <<Cancel(tag, Self)>>

\* stopListen has nothing to ask for when no consumer tag is set.
StopRequests == IF isListening THEN <<Cancel(tag, Self)>> ELSE <<>>

Unsubscribing(ps) == [i \in DOMAIN ps |-> Unbind(ps[i], Self)]

\* unsubscribeAll maps over the list while every unsubscribe takes its pattern
\* out of it: the map passes over the pattern that has moved up.
Reached(s) == [i \in 1..((Len(s) + 1) \div 2) |-> s[2 * i - 1]]
Skipped(s) == [i \in 1..(Len(s) \div 2) |-> s[2 * i]]

-----------------------------------------------------------------------------
\* handle: the handler is added, then its pattern subscribed.
Handle(p) ==
    /\ MayCall
    /\ IF link = "gone"
         THEN Rejecting("handle") /\ UNCHANGED asked
         ELSE Making("handle", <<Bind(p, Self)>>) /\ asked' = TRUE
    /\ UNCHANGED <<careful, listed, declared, link, losses, brokerVars>>

\* start and resume: without a channel there is nothing to listen on.
Start ==
    /\ MayCall
    /\ careful => ~Started
    /\ IF asked
         THEN Making("start", <<Consume(Self, Self)>>)
         ELSE Rejecting("start")
    /\ UNCHANGED <<careful, listed, asked, declared, link, losses, brokerVars>>

Pause ==
    /\ MayCall
    /\ Making("pause", StopRequests)
    /\ UNCHANGED <<careful, listed, asked, declared, link, losses, brokerVars>>

\* Mutant of Dispose: takes the whole list, and unbinds what the map reaches.
DisposeForgetful ==
    /\ MayCall
    /\ IF link = "gone"
         THEN IF listed = <<>> THEN Making("dispose", <<>>) ELSE Rejecting("dispose")
         ELSE Making("dispose", StopRequests \o Unsubscribing(Reached(listed)))
    /\ listed' = IF link = "gone" THEN listed ELSE <<>>
    /\ UNCHANGED <<careful, asked, declared, link, losses, brokerVars>>

\* Mutant of Dispose: awaits the whole list.
DisposeAwaitsAll ==
    /\ MayCall
    /\ LET n == Len(StopRequests) + Len(listed) IN
       Made("dispose", n, IF n = 0 THEN "done" ELSE "pending")
    /\ LET rs == StopRequests \o Unsubscribing(Reached(listed)) IN
       /\ pipe' = IF Usable THEN pipe \o rs ELSE pipe
       /\ refused' = IF Usable THEN refused ELSE refused \cup Elements(rs)
    /\ listed' = IF link = "gone" THEN listed ELSE Skipped(listed)
    /\ UNCHANGED <<careful, asked, declared, link, losses, brokerVars>>

\* dispose: stopListen and unsubscribeAll.  Every pattern leaves the list as
\* soon as its unsubscribe is called, unless the connector is disconnected.
Dispose ==
    /\ MayCall
    /\ IF link = "gone"
         THEN IF listed = <<>> THEN Making("dispose", <<>>) ELSE Rejecting("dispose")
         ELSE Making("dispose", StopRequests \o Unsubscribing(Reached(listed)))
    /\ listed' = IF link = "gone" THEN listed ELSE Skipped(listed)
    /\ UNCHANGED <<careful, asked, declared, link, losses, brokerVars>>

-----------------------------------------------------------------------------
Served(r) ==
    /\ Reply(r)
    /\ pipe' = Tail(pipe)
    /\ Settled(r.who, TRUE)

\* subscribe: assertQueue and bindQueue have been answered.
Subscribed ==
    \E p \in Patterns, i \in DOMAIN calls :
      LET r == Bind(p, i) IN
      /\ Served(r)
      /\ Bound(r)
      /\ declared' = TRUE
      /\ listed' = IF p \in Elements(listed) THEN listed ELSE Append(listed, p)
      /\ UNCHANGED <<careful, asked, link, losses, refused>>

\* listen: the consumer is there.
Listening ==
    \E i \in DOMAIN calls :
      LET r == Consume(i, i) IN
      /\ declared
      /\ Served(r)
      /\ Consumed(r)
      /\ UNCHANGED <<careful, listed, asked, declared, link, losses, refused>>

\* unsubscribe.
Unsubscribed ==
    \E p \in Patterns, i \in DOMAIN calls :
      LET r == Unbind(p, i) IN
      /\ Served(r)
      /\ Unbound(r)
      /\ UNCHANGED <<careful, listed, asked, declared, link, losses, refused>>

\* stopListen.
ConsumerStopped ==
    \E g \in Ids, i \in DOMAIN calls :
      LET r == Cancel(g, i) IN
      /\ Served(r)
      /\ Cancelled(r)
      /\ UNCHANGED <<careful, listed, asked, declared, link, losses, refused>>

\* consume names a queue nobody has declared: the broker closes the channel.
QueueMissing ==
    /\ ~declared
    /\ \E i \in DOMAIN calls : Reply(Consume(i, i))
    /\ link' = "closed"
    /\ AllRefused
    /\ UNCHANGED <<careful, calls, listed, asked, declared, losses, brokerVars>>

\* CHANNEL_RECREATE_DELAY is over.
Recreate ==
    /\ link = "closed"
    /\ link' = "down"
    /\ UNCHANGED <<careful, calls, listed, asked, declared, losses, pipe, refused, brokerVars>>

Refused ==
    \E r \in refused :
      /\ refused' = refused \ {r}
      /\ Settled(r.who, FALSE)
      /\ UNCHANGED <<careful, listed, asked, declared, link, losses, pipe, brokerVars>>

Answer ==
    \/ Subscribed \/ Listening \/ Unsubscribed \/ ConsumerStopped
    \/ QueueMissing \/ Refused

LinkStep ==
    /\ \/ (Open \/ Lose \/ OpenFails) /\ UNCHANGED asked
       \/ Disconnect /\ asked' = FALSE
    /\ UNCHANGED <<careful, calls, listed, declared>>

Next ==
    \/ \E p \in Patterns : Handle(p)
    \/ Start \/ Pause \/ Dispose
    \/ Answer \/ Recreate \/ LinkStep

Spec == Init /\ [][Next]_vars

\* The broker answers, rejections run, the channel is re-created and opened;
\* the user and the faults owe nothing.
FairSpec ==
    /\ Spec
    /\ WF_vars(Answer)
    /\ WF_vars(Recreate)
    /\ WF_vars(Open /\ UNCHANGED <<careful, calls, listed, asked, declared>>)

-----------------------------------------------------------------------------
Quiet == \A i \in DOMAIN calls : calls[i].st # "pending"

\* For a user who awaits every call: once nothing is under way and the last
\* thing that succeeded was a pause or a dispose, no consumer is left, whatever
\* was lost and refused before: "Keeps running, but not accepts any more
\* incoming requests." (RpcCommon.ts:233)
PausedAcceptsNothing ==
    careful /\ Quiet /\ Lifecycle # {} =>
        LET c == calls[LastOf(Lifecycle)] IN
        c.did \in {"pause", "dispose"} /\ c.st = "done" => consumers = {}

\* As long as no call has been refused, a bound pattern is in
\* _subscribedPatterns, where a later unsubscribeAll can find it, or is being
\* unbound, in whatever order handle and dispose overlap
\* (MessageBrokerConnector.ts:453-499).
BoundIsListed ==
    refused = {} /\ (\A i \in DOMAIN calls : calls[i].st # "failed") =>
        \A p \in bound :
            \/ p \in Elements(listed)
            \/ \E r \in InFlight : r.op = "unbind" /\ r.key = p

\* Every call settles, whatever happens to the connection, to the channel and
\* to the other requests of the same Promise.all (MediateRpcHandler.ts:109-148).
CallsSettle ==
    \A i \in Ids : (i \in DOMAIN calls) ~> (i \in DOMAIN calls /\ calls[i].st # "pending")

\* After a dispose that nothing follows no pattern is bound: "Stop listening
\* then unsbuscribe all topic patterns." (MediateRpcHandler.ts:110)
DisposeUnsubscribes ==
    careful /\ Quiet /\ calls # <<>> =>
        LET c == calls[Len(calls)] IN
        c.did = "dispose" /\ c.st = "done" => bound = {}

\* A handler that was started, and has seen its connection lost and restored,
\* hears requests: "Starts listening to requests." (RpcCommon.ts:228)
StartedHears ==
    careful /\ Quiet /\ link = "up" /\ Started /\ calls[LastOf(Lifecycle)].st = "done"
        => consumers # {}
=============================================================================
