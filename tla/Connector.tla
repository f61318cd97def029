----------------------------- MODULE Connector -----------------------------
(***************************************************************************)
(* The consuming side of TopicMessageBrokerConnector, as the RPC classes   *)
(* that share a connector see it: subscribe, unsubscribe, listen and       *)
(* stopListen are asynchronous calls, each of which is one or more AMQP    *)
(* requests on the connector's only consuming channel.  amqplib sends the  *)
(* requests of a channel one at a time, in the order they were made, so    *)
(* the requests in flight are a FIFO; a channel that dies rejects them     *)
(* all.  What the waiting caller does with a reply or a rejection is its   *)
(* own business: a module that INSTANCEs this one conjoins these steps     *)
(* with the continuation that runs when the promise settles.               *)
(*                                                                         *)
(* The life of the connection is reduced to "link"; module                 *)
(* BrokerConnection has it in detail.                                      *)
(***************************************************************************)
EXTENDS Naturals, Sequences

CONSTANTS
    Topics,     \* the matching patterns that are subscribed to
    Tags,       \* the consumer tags the broker hands out
    NoTag,      \* _consumerTag is null
    Waiters,    \* who waits for the reply to a request
    Exclusive,  \* whether the queue dies with its connection (auto-gen name)
    Faults,     \* the faults that happen: any of FaultKinds
    MaxLoss     \* bound on the number of lost connections

FaultKinds == {"loss", "refuse", "disconnect", "dispose"}

VARIABLES
    link,       \* the promises of the channels: "down" while they are pending,
                \* "up" resolved, "closed" resolved to a consuming channel that
                \* has died, "dead" rejected for good, "gone" disconnected
    losses,     \* connections lost so far
    pipe,       \* requests made on the consuming channel, oldest first
    refused,    \* requests rejected, whose continuation has not run yet
    tag,        \* _consumerTag
    bound,      \* broker: the patterns bound to the connector's queue
    consumers,  \* broker: the live consumers of the queue
    queue       \* broker: the messages in the queue, by their topic

Request == [op : {"bind", "unbind"}, key : Topics, who : Waiters]
      \cup [op : {"consume", "cancel"}, key : Tags, who : Waiters]

ConnectorTypeOK ==
    /\ link \in {"down", "up", "closed", "dead", "gone"}
    /\ losses \in 0..MaxLoss
    /\ pipe \in Seq(Request)
    /\ refused \subseteq Request
    /\ tag \in Tags \cup {NoTag}
    /\ bound \subseteq Topics
    /\ consumers \subseteq Tags
    /\ queue \subseteq Topics

\* connect() has been called; the channels are opened at their first use.
ConnectorInit ==
    /\ link = "down"
    /\ losses = 0
    /\ pipe = <<>>
    /\ refused = {}
    /\ tag = NoTag
    /\ bound = {}
    /\ consumers = {}
    /\ queue = {}

-----------------------------------------------------------------------------
\* subscribe: assertQueue and bindQueue.
Bind(t, w) == [op |-> "bind", key |-> t, who |-> w]
\* listen: consume.  g is the consumer tag the broker will answer with.
Consume(g, w) == [op |-> "consume", key |-> g, who |-> w]
\* unsubscribe: unbindQueue.
Unbind(t, w) == [op |-> "unbind", key |-> t, who |-> w]
\* stopListen: cancel.
Cancel(g, w) == [op |-> "cancel", key |-> g, who |-> w]

\* assertConnection fails once disconnected; awaiting a rejected channel
\* promise throws, and so does a channel that has closed.  While the promise is
\* pending the request waits for it.
Usable == link \in {"down", "up"}

\* Request r is made, when the requests in flight are "sent" and the pending
\* rejections "left" (a continuation has already consumed its own).
Submit(r, sent, left) ==
    /\ pipe' = IF Usable THEN Append(sent, r) ELSE sent
    /\ refused' = IF Usable THEN left ELSE left \cup {r}

\* Mutant of Unlisted: drops the pattern only once the channel is there.
UnlistedIfUp(t, listed) == IF link = "up" THEN listed \ {t} ELSE listed

\* unsubscribe drops the pattern before it awaits the channel, but not
\* when assertConnection fails.
Unlisted(t, listed) == IF link = "gone" THEN listed ELSE listed \ {t}

isListening == tag # NoTag

\* The broker handles the oldest request of the channel and its reply arrives.
Reply(r) ==
    /\ link = "up"
    /\ pipe # <<>>
    /\ r = Head(pipe)

Bound(r) ==
    /\ bound' = bound \cup {r.key}
    /\ UNCHANGED <<tag, consumers, queue>>

\* Mutant of Consumed: keeps the tag of the first consumer.
ConsumedOnce(r) ==
    /\ consumers' = consumers \cup {r.key}
    /\ tag' = IF isListening THEN tag ELSE r.key
    /\ UNCHANGED <<bound, queue>>

\* Mutant of Consumed: keeps the whole reply for the tag.
ConsumedReply(r) ==
    /\ consumers' = consumers \cup {r.key}
    /\ tag' = r
    /\ UNCHANGED <<bound, queue>>

Consumed(r) ==
    /\ consumers' = consumers \cup {r.key}
    /\ tag' = r.key
    /\ UNCHANGED <<bound, queue>>

Unbound(r) ==
    /\ bound' = bound \ {r.key}
    /\ UNCHANGED <<tag, consumers, queue>>

Cancelled(r) ==
    /\ consumers' = consumers \ {r.key}
    /\ tag' = NoTag
    /\ UNCHANGED <<bound, queue>>

\* A message routed to the queue, when its topic is bound to it.
Routed(t) ==
    /\ queue' = IF t \in bound THEN queue \cup {t} ELSE queue
    /\ UNCHANGED <<link, losses, pipe, refused, tag, bound, consumers>>

\* A message leaves the queue: delivered or expired.
Taken(t) ==
    /\ t \in queue
    /\ queue' = queue \ {t}

-----------------------------------------------------------------------------
InFlight == {pipe[i] : i \in DOMAIN pipe}

\* The broker forgets the consumers of a connection that closes, and its
\* exclusive queue.
QueueDeleted ==
    /\ consumers' = {}
    /\ bound' = IF Exclusive THEN {} ELSE bound
    /\ queue' = IF Exclusive THEN {} ELSE queue

AllRefused ==
    /\ pipe' = <<>>
    /\ refused' = refused \cup InFlight

\* The channel promises resolve: first use, or after a reconnection.
Open ==
    /\ link = "down"
    /\ link' = "up"
    /\ UNCHANGED <<losses, pipe, refused, tag, bound, consumers, queue>>

\* The connection breaks: the channels reject what they had in flight, and
\* resetChannels leaves promises that the reconnection will resolve.
Lose ==
    /\ "loss" \in Faults
    /\ link = "up"
    /\ losses < MaxLoss
    /\ link' = "down"
    /\ losses' = losses + 1
    /\ AllRefused
    /\ QueueDeleted
    /\ UNCHANGED tag

\* The only reconnection attempt is refused, or the new connection is lost
\* before its channels are open: the channel promises are rejected for good.
OpenFails ==
    /\ "refuse" \in Faults
    /\ link = "down"
    /\ link' = "dead"
    /\ AllRefused
    /\ UNCHANGED <<losses, tag, bound, consumers, queue>>

\* Somebody who shares the connector disconnects it.
Disconnect ==
    /\ "disconnect" \in Faults
    /\ link = "up"
    /\ link' = "gone"
    /\ tag' = NoTag
    /\ AllRefused
    /\ QueueDeleted
    /\ UNCHANGED losses
=============================================================================
