-------------------------- MODULE BrokerConnection --------------------------
(***************************************************************************)
(* The connection life cycle of TopicMessageBrokerConnector                *)
(* (src/app/MessageBrokerConnector.ts): connect, the automatic reconnection*)
(* after a loss, the two lazily opened channels and their re-creation, and *)
(* disconnect, which awaits several promises in turn while all of this     *)
(* goes on.                                                                *)
(*                                                                         *)
(* Connections and channel promises are numbered in the order they are     *)
(* made.  _connectionPrm and the channel promise fields hold a number, or  *)
(* 0 for null.                                                             *)
(***************************************************************************)
EXTENDS Naturals, Sequences

CONSTANTS
    Scenarios,  \* the sets of faults, of FaultKinds, a behaviour may have
    MaxConn,    \* bound on the number of connections ever attempted
    MaxChan     \* bound on the number of promises of either channel

\* "loss": the connection breaks while no channel promise is pending;
\* "pendingLoss": it breaks while one is; "refuse": a dial fails;
\* "channel": the broker closes a channel; "exchange": it refuses
\* assertExchange; "disconnect": the user disconnects, and may connect again;
\* "hasty": he subscribes and publishes without awaiting his disconnect.
FaultKinds ==
    {"loss", "pendingLoss", "refuse", "channel", "exchange", "disconnect", "hasty"}

ASSUME ScenariosAssumption == Scenarios \subseteq SUBSET FaultKinds
ASSUME MaxConnAssumption == MaxConn \in Nat
ASSUME MaxChanAssumption == MaxChan \in Nat

Kinds == {"consume", "publish"}

VARIABLES
    faults,         \* the faults of this behaviour, which never change
    session,        \* what the user does: "off", "on" or "closing"
    isConnected,    \* _isConnected
    isConnecting,   \* _isConnecting
    conn,           \* the state of each connection attempt
    connPrm,        \* _connectionPrm
    chan,           \* chan[k]: the channel promises of kind k
    chanPrm,        \* _consumeChanPrm and _publishChanPrm
    timers,         \* timers[k]: armed re-creation timers, by their oldCh
    closing         \* where disconnect is, and what it awaits there

vars == <<faults, session, isConnected, isConnecting, conn, connPrm, chan,
          chanPrm, timers, closing>>
flags == <<isConnected, isConnecting>>

\* "closing": disconnect has asked the broker to close the connection.
ConnStates == {"delayed", "dialing", "open", "closing", "closed", "failed"}

\* A channel promise is "chained" to an older one by resetChannels, "waiting"
\* for a connection, "opening" on it, "open" (resolved), "closed" (resolved to
\* a channel that has closed since) or "rejected".  "of" is the older promise
\* or the connection; "heard": the channel has its close listener.
ChanStates == {"chained", "waiting", "opening", "open", "closed", "rejected"}
Channel == [st : ChanStates, of : Nat, heard : BOOLEAN]
Pending == {"chained", "waiting", "opening"}

\* disconnect closes the "consume" channel, then the "publish" channel, awaits
\* the broker's "replies" to both, closes the "connection" and, with everything
\* forgotten already, waits for the broker's "farewell".
Steps == {"none", "consume", "publish", "replies", "connection", "farewell"}

\* awaits: the promise or connection awaited at this step; owed: the channels,
\* by kind and promise, whose closing the broker still has to confirm; refused:
\* closing a channel has thrown because it was closed.
Closing ==
    [at : Steps, awaits : Nat, owed : SUBSET (Kinds \X Nat), refused : BOOLEAN]

StateTypeOK ==
    /\ session \in {"off", "on", "closing"}
    /\ isConnected \in BOOLEAN
    /\ isConnecting \in BOOLEAN
    /\ conn \in Seq(ConnStates)
    /\ connPrm \in 0..Len(conn)
    /\ chan \in [Kinds -> Seq(Channel)]
    /\ chanPrm \in [Kinds -> Nat]
    /\ \A k \in Kinds : chanPrm[k] \in 0..Len(chan[k])
    /\ timers \in [Kinds -> SUBSET Nat]
    /\ closing \in Closing

TypeOK == faults \subseteq FaultKinds /\ StateTypeOK

NotClosing == [at |-> "none", awaits |-> 0, owed |-> {}, refused |-> FALSE]

Init ==
    /\ faults \in Scenarios
    /\ session = "off"
    /\ isConnected = FALSE
    /\ isConnecting = FALSE
    /\ conn = <<>>
    /\ connPrm = 0
    /\ chan = [k \in Kinds |-> <<>>]
    /\ chanPrm = [k \in Kinds |-> 0]
    /\ timers = [k \in Kinds |-> {}]
    /\ closing = NotClosing

isActive == isConnecting \/ isConnected

-----------------------------------------------------------------------------
ConnSettled(n) == conn[n] \notin {"delayed", "dialing"}
ChanSettled(k, m) == chan[k][m].st \notin Pending

\* Node.js runs the continuations of the promises that have settled before it
\* turns to the next timer, frame or call: those wait for AtRest.
ChannelReady(k, m) ==
    \/ chan[k][m].st = "chained" /\ ChanSettled(k, chan[k][m].of)
    \/ chan[k][m].st = "waiting" /\ ConnSettled(chan[k][m].of)

ClosingReady ==
    \/ closing.at \in Kinds
       /\ (closing.awaits = 0 \/ ChanSettled(closing.at, closing.awaits))
    \/ closing.at = "replies" /\ (closing.refused \/ closing.owed = {})
    \/ closing.at = "connection"
       /\ (closing.awaits = 0 \/ ConnSettled(closing.awaits))

AtRest ==
    /\ ~ClosingReady
    /\ \A k \in Kinds : \A m \in DOMAIN chan[k] : ~ChannelReady(k, m)

-----------------------------------------------------------------------------
Chained(m) == [st |-> "chained", of |-> m, heard |-> FALSE]

\* createChannel awaits _connectionPrm; awaiting null yields no connection.
Created ==
    [st |-> IF connPrm = 0 THEN "rejected" ELSE "waiting", of |-> connPrm,
     heard |-> FALSE]

\* Mutant of NewChannel: the field points past the new promise.
NewChannelPast(k, c) ==
    /\ Len(chan[k]) < MaxChan
    /\ chan' = [chan EXCEPT ![k] = Append(@, c)]
    /\ chanPrm' = [chanPrm EXCEPT ![k] = Len(chan[k]) + 2]

\* A promise of a new channel takes the place of the current one of its kind.
NewChannel(k, c) ==
    /\ Len(chan[k]) < MaxChan
    /\ chan' = [chan EXCEPT ![k] = Append(@, c)]
    /\ chanPrm' = [chanPrm EXCEPT ![k] = Len(chan[k]) + 1]

Becomes(k, m, st) == chan' = [chan EXCEPT ![k][m].st = st]

\* What is left of the channels of connection n when it closes.
Orphaned(n) ==
    [k \in Kinds |-> [m \in DOMAIN chan[k] |->
        LET c == chan[k][m] IN
        CASE c.of = n /\ c.st = "opening" -> [c EXCEPT !.st = "rejected"]
          [] c.of = n /\ c.st = "open" -> [c EXCEPT !.st = "closed"]
          [] OTHER -> c]]

\* The close event of each of those channels arms a re-creation timer.
TimersAfter(n) ==
    [k \in Kinds |->
        IF \E m \in DOMAIN chan[k] :
             chan[k][m].of = n /\ chan[k][m].st = "open" /\ chan[k][m].heard
          THEN timers[k] \cup {chanPrm[k]}
          ELSE timers[k]]

SomePending == \E k \in Kinds : \E m \in DOMAIN chan[k] : chan[k][m].st \in Pending

-----------------------------------------------------------------------------
\* connect and createConnection.
Connect ==
    /\ AtRest
    /\ session = "off"
    /\ Len(conn) < MaxConn
    /\ session' = "on"
    /\ isConnecting' = TRUE
    /\ conn' = Append(conn, "dialing")
    /\ connPrm' = Len(conn) + 1
    /\ UNCHANGED <<faults, isConnected, chan, chanPrm, timers, closing>>

\* amqp.connect succeeds.
Connected(n) ==
    /\ AtRest
    /\ conn[n] = "dialing"
    /\ conn' = [conn EXCEPT ![n] = "open"]
    /\ isConnected' = TRUE
    /\ isConnecting' = FALSE
    /\ UNCHANGED <<faults, session, connPrm, chan, chanPrm, timers, closing>>

\* amqp.connect fails: no flag is reset and nothing dials again.
DialFails(n) ==
    /\ AtRest
    /\ "refuse" \in faults
    /\ conn[n] = "dialing"
    /\ conn' = [conn EXCEPT ![n] = "failed"]
    /\ UNCHANGED <<faults, session, flags, connPrm, chan, chanPrm, timers, closing>>

\* Mutant of ConnectionLost: the promise of the lost connection stays until
\* the next dial.
ConnectionLostKept(n) ==
    /\ AtRest
    /\ conn[n] = "open"
    /\ IF SomePending THEN "pendingLoss" \in faults ELSE "loss" \in faults
    /\ Len(conn) < MaxConn
    /\ \A k \in Kinds : chanPrm[k] # 0 => Len(chan[k]) < MaxChan
    /\ isConnected' = FALSE
    /\ isConnecting' = TRUE
    /\ conn' = Append([conn EXCEPT ![n] = "closed"], "delayed")
    /\ timers' = TimersAfter(n)
    /\ chan' = [k \in Kinds |->
                  IF chanPrm[k] = 0 THEN Orphaned(n)[k]
                  ELSE Append(Orphaned(n)[k], Chained(chanPrm[k]))]
    /\ chanPrm' = [k \in Kinds |->
                     IF chanPrm[k] = 0 THEN 0 ELSE Len(chan[k]) + 1]
    /\ UNCHANGED <<faults, session, connPrm, closing>>

\* The connection breaks: its channels close first, then its own close event
\* runs reconnect and resetChannels.
ConnectionLost(n) ==
    /\ AtRest
    /\ conn[n] = "open"
    /\ IF SomePending THEN "pendingLoss" \in faults ELSE "loss" \in faults
    /\ Len(conn) < MaxConn
    /\ \A k \in Kinds : chanPrm[k] # 0 => Len(chan[k]) < MaxChan
    /\ isConnected' = FALSE
    /\ isConnecting' = TRUE
    /\ conn' = Append([conn EXCEPT ![n] = "closed"], "delayed")
    /\ connPrm' = Len(conn) + 1
    /\ timers' = TimersAfter(n)
    /\ chan' = [k \in Kinds |->
                  IF chanPrm[k] = 0 THEN Orphaned(n)[k]
                  ELSE Append(Orphaned(n)[k], Chained(chanPrm[k]))]
    /\ chanPrm' = [k \in Kinds |->
                     IF chanPrm[k] = 0 THEN 0 ELSE Len(chan[k]) + 1]
    /\ UNCHANGED <<faults, session, closing>>

\* Mutant of ReconnectTimer: the timer keeps dialing (setInterval).
ReconnectInterval(n) ==
    /\ AtRest
    /\ conn[n] = "delayed"
    /\ Len(conn) < MaxConn
    /\ conn' = Append(conn, "dialing")
    /\ connPrm' = Len(conn) + 1
    /\ UNCHANGED <<faults, session, flags, chan, chanPrm, timers, closing>>

\* reconnectDelay is over: the only attempt to dial again.
ReconnectTimer(n) ==
    /\ AtRest
    /\ conn[n] = "delayed"
    /\ conn' = [conn EXCEPT ![n] = "dialing"]
    /\ connPrm' = n
    /\ UNCHANGED <<faults, session, flags, chan, chanPrm, timers, closing>>

-----------------------------------------------------------------------------
\* subscribe or publish finds no channel promise and makes one: they check the
\* connection only, so that a disconnect under way does not stop them.
UseChannel(k) ==
    /\ AtRest
    /\ session # "on" => "hasty" \in faults
    /\ connPrm # 0 /\ isActive
    /\ chanPrm[k] = 0
    /\ NewChannel(k, Created)
    /\ UNCHANGED <<faults, session, flags, conn, connPrm, timers, closing>>

\* The promise that resetChannels chained goes on once the older one settles.
ChainStep(k, m) ==
    LET old == chan[k][m].of IN
    /\ chan[k][m].st = "chained"
    /\ \/ /\ chan[k][old].st = "rejected"
          /\ Becomes(k, m, "rejected")
       \/ /\ chan[k][old].st \in {"open", "closed"}
          /\ chan' = [chan EXCEPT ![k] =
                       [@ EXCEPT ![m] = Created, ![old].heard = FALSE]]
    /\ UNCHANGED <<faults, session, flags, conn, connPrm, chanPrm, timers, closing>>

\* createChannel gets its connection, live or not, or its rejection.
AskChannel(k, m) ==
    LET n == chan[k][m].of IN
    /\ chan[k][m].st = "waiting"
    /\ \/ conn[n] = "open" /\ Becomes(k, m, "opening")
       \/ conn[n] \in {"closing", "closed", "failed"} /\ Becomes(k, m, "rejected")
    /\ UNCHANGED <<faults, session, flags, conn, connPrm, chanPrm, timers, closing>>

\* Mutant of ChannelOpened: no close listener.
ChannelOpenedUnheard(k, m) ==
    /\ AtRest
    /\ chan[k][m].st = "opening"
    /\ conn[chan[k][m].of] = "open"
    /\ Becomes(k, m, "open")
    /\ UNCHANGED <<faults, session, flags, conn, connPrm, chanPrm, timers, closing>>

\* The broker opens the channel and asserts the exchange.  A connection that is
\* closing hears of nothing any more.
ChannelOpened(k, m) ==
    /\ AtRest
    /\ chan[k][m].st = "opening"
    /\ conn[chan[k][m].of] = "open"
    /\ chan' = [chan EXCEPT ![k][m].st = "open", ![k][m].heard = TRUE]
    /\ UNCHANGED <<faults, session, flags, conn, connPrm, chanPrm, timers, closing>>

\* The broker refuses assertExchange, and closes the channel.
ExchangeRefused(k, m) ==
    /\ AtRest
    /\ "exchange" \in faults
    /\ chan[k][m].st = "opening"
    /\ conn[chan[k][m].of] = "open"
    /\ Becomes(k, m, "rejected")
    /\ UNCHANGED <<faults, session, flags, conn, connPrm, chanPrm, timers, closing>>

\* The broker closes a channel after an error on it.  The guard on the length
\* keeps room for the channel that will replace it.
ChannelError(k, m) ==
    /\ AtRest
    /\ "channel" \in faults
    /\ chan[k][m].st = "open"
    /\ conn[chan[k][m].of] = "open"
    /\ Len(chan[k]) < MaxChan
    /\ Becomes(k, m, "closed")
    /\ timers' = IF chan[k][m].heard
                   THEN [timers EXCEPT ![k] = @ \cup {chanPrm[k]}]
                   ELSE timers
    /\ UNCHANGED <<faults, session, flags, conn, connPrm, chanPrm, closing>>

\* Mutant of RecreateTimer: no check that the promise is still the old one.
RecreateTimerUnchecked(k, old) ==
    /\ AtRest
    /\ old \in timers[k]
    /\ timers' = [timers EXCEPT ![k] = @ \ {old}]
    /\ NewChannel(k, Created)
    /\ UNCHANGED <<faults, session, flags, conn, connPrm, closing>>

\* CHANNEL_RECREATE_DELAY is over: a new channel, unless the promise has been
\* replaced meanwhile.
RecreateTimer(k, old) ==
    /\ AtRest
    /\ old \in timers[k]
    /\ timers' = [timers EXCEPT ![k] = @ \ {old}]
    /\ IF chanPrm[k] = old
         THEN NewChannel(k, Created)
         ELSE UNCHANGED <<chan, chanPrm>>
    /\ UNCHANGED <<faults, session, flags, conn, connPrm, closing>>

-----------------------------------------------------------------------------
\* disconnect: the consuming channel's promise is read first.
Disconnect ==
    /\ AtRest
    /\ "disconnect" \in faults
    /\ session = "on"
    /\ session' = "closing"
    /\ closing' =
         [NotClosing EXCEPT !.at = "consume", !.awaits = chanPrm["consume"]]
    /\ UNCHANGED <<faults, flags, conn, connPrm, chan, chanPrm, timers>>

\* The finally clause, whether or not everything was closed.
Forgotten ==
    /\ connPrm' = 0
    /\ chanPrm' = [k \in Kinds |-> 0]

\* disconnect settles.
Ended ==
    /\ session' = "off"
    /\ closing' = NotClosing

\* Mutant of After: there is nothing after the second channel.
AfterNothing(k) ==
    [closing EXCEPT !.at = "publish",
                    !.awaits = IF k = "consume" THEN chanPrm["publish"] ELSE 0]

\* What disconnect turns to after the channel of kind k.
After(k) ==
    IF k = "consume"
      THEN [closing EXCEPT !.at = "publish", !.awaits = chanPrm["publish"]]
      ELSE [closing EXCEPT !.at = "replies", !.awaits = 0]

\* One channel is awaited, stripped of its listeners and asked to close.  A
\* rejected promise throws at once; what a closed channel answers is kept for
\* Promise.all.
CloseChannel(k) ==
    LET m == closing.awaits IN
    /\ closing.at = k
    /\ \/ /\ m = 0
          /\ closing' = After(k)
          /\ UNCHANGED <<session, connPrm, chan, chanPrm>>
       \/ /\ m # 0 /\ chan[k][m].st = "open"
          /\ chan' = [chan EXCEPT ![k][m].st = "closed", ![k][m].heard = FALSE]
          /\ closing' = [After(k) EXCEPT !.owed = @ \cup {<<k, m>>}]
          /\ UNCHANGED <<session, connPrm, chanPrm>>
       \/ /\ m # 0 /\ chan[k][m].st = "closed"
          /\ chan' = [chan EXCEPT ![k][m].heard = FALSE]
          /\ closing' = [After(k) EXCEPT !.refused = TRUE]
          /\ UNCHANGED <<session, connPrm, chanPrm>>
       \/ /\ m # 0 /\ chan[k][m].st = "rejected"
          /\ Forgotten /\ Ended
          /\ UNCHANGED chan
    /\ UNCHANGED <<faults, flags, conn, timers>>

CarriedBy(c) == chan[c[1]][c[2]].of

\* The broker confirms, on connection n, that a channel is closed.  When the
\* connection is lost first, amqplib never calls back.
CloseReply(n) ==
    /\ AtRest
    /\ conn[n] = "open"
    /\ \E c \in closing.owed : /\ CarriedBy(c) = n
                              /\ closing' = [closing EXCEPT !.owed = @ \ {c}]
    /\ UNCHANGED <<faults, session, flags, conn, connPrm, chan, chanPrm, timers>>

\* Mutant of ChannelsClosed: returns before the connection is closed.
ChannelsClosedOnly ==
    /\ closing.at = "replies"
    /\ closing.refused \/ closing.owed = {}
    /\ Forgotten /\ Ended
    /\ UNCHANGED <<faults, flags, conn, chan, timers>>

\* Promise.all: a channel that refused to close throws at once, even though
\* another reply is awaited.
ChannelsClosed ==
    /\ closing.at = "replies"
    /\ \/ closing.refused /\ Forgotten /\ Ended
       \/ /\ ~closing.refused /\ closing.owed = {}
          /\ closing' = [closing EXCEPT !.at = "connection", !.awaits = connPrm]
          /\ UNCHANGED <<session, connPrm, chanPrm>>
    /\ UNCHANGED <<faults, flags, conn, chan, timers>>

\* The connection is awaited, stripped of its listeners and asked to close:
\* neither flag changes, and finally does not wait for the broker.
CloseConnection ==
    LET n == closing.awaits IN
    /\ closing.at = "connection"
    /\ \/ /\ n # 0 /\ conn[n] = "open"
          /\ conn' = [conn EXCEPT ![n] = "closing"]
          /\ closing' = [closing EXCEPT !.at = "farewell"]
          /\ UNCHANGED session
       \/ /\ n = 0 \/ conn[n] \in {"closed", "failed"}
          /\ Ended
          /\ UNCHANGED conn
    /\ Forgotten
    /\ UNCHANGED <<faults, flags, chan, timers>>

\* Connection n has closed, and nobody listens to it: its channels hear of it.
Gone(n) ==
    /\ AtRest
    /\ conn[n] = "closing"
    /\ conn' = [conn EXCEPT ![n] = "closed"]
    /\ chan' = Orphaned(n)
    /\ timers' = TimersAfter(n)
    /\ UNCHANGED <<faults, flags, connPrm, chanPrm>>

\* The broker confirms that the connection is closed.
Farewell(n) == Gone(n) /\ Ended

\* The connection is lost before: conn.close() is never called back.
FarewellLost(n) == "loss" \in faults /\ Gone(n) /\ UNCHANGED <<session, closing>>

-----------------------------------------------------------------------------
DialStep(n) == Connected(n) \/ DialFails(n) \/ ReconnectTimer(n)

BrokerReply(n) == CloseReply(n) \/ Farewell(n)

ChannelStep(k) ==
    \/ \E m \in DOMAIN chan[k] :
         \/ ChainStep(k, m) \/ AskChannel(k, m) \/ ChannelOpened(k, m)
         \/ ExchangeRefused(k, m)
    \/ \E old \in timers[k] : RecreateTimer(k, old)

Next ==
    \/ Connect \/ Disconnect \/ ChannelsClosed \/ CloseConnection
    \/ \E n \in DOMAIN conn :
         \/ DialStep(n) \/ BrokerReply(n)
         \/ ConnectionLost(n) \/ FarewellLost(n)
    \/ \E k \in Kinds :
         \/ ChannelStep(k) \/ UseChannel(k) \/ CloseChannel(k)
         \/ \E m \in DOMAIN chan[k] : ChannelError(k, m)

Spec == Init /\ [][Next]_vars

\* Dials end, timers fire, the broker answers and continuations run; the user
\* and the faults owe nothing.
Fairness ==
    /\ \A n \in 1..MaxConn : /\ WF_vars(n \in DOMAIN conn /\ DialStep(n))
                             /\ WF_vars(n \in DOMAIN conn /\ BrokerReply(n))
    /\ \A k \in Kinds : WF_vars(ChannelStep(k)) /\ WF_vars(CloseChannel(k))
    /\ WF_vars(ChannelsClosed) /\ WF_vars(CloseConnection)

FairSpec == Spec /\ Fairness

-----------------------------------------------------------------------------
Alive == {n \in DOMAIN conn : conn[n] \in {"delayed", "dialing", "open"}}

\* A loss, its reconnection and the two re-creation timers race, and yet, as
\* long as nobody disconnects, a connection never carries two channels of a
\* kind (MessageBrokerConnector.ts:182, 436, 571-572, 589-591).
OneChannelPerKind ==
    "disconnect" \notin faults =>
    \A k \in Kinds : \A m, o \in DOMAIN chan[k] :
        /\ chan[k][m].st \in {"opening", "open"}
        /\ chan[k][o].st \in {"opening", "open"}
        /\ chan[k][m].of = chan[k][o].of
        => m = o

\* As long as nobody disconnects, the connector keeps one connection attempt
\* at most, and it is the one _connectionPrm stands for
\* (MessageBrokerConnector.ts:516-545).
OneConnection == "disconnect" \notin faults => \A n \in Alive : n = connPrm

\* When disconnect is over, nothing of the session is left that is connected
\* or will connect: "Closes all channels and the connection."
\* (MessageBrokerConnector.ts:113)
DisconnectLeavesNothing == session = "off" => Alive = {}

\* It does so whatever is still dialing or being opened, and however often the
\* user connects again, as long as the broker never fails
\* (MessageBrokerConnector.ts:303-347).
DisconnectCloses == faults \subseteq {"disconnect"} => DisconnectLeavesNothing

Opened(k) == chanPrm[k] # 0 /\ chan[k][chanPrm[k]].st = "open"
Rejected(k) == chanPrm[k] # 0 /\ chan[k][chanPrm[k]].st = "rejected"

\* A channel that was asked for comes back whatever closed it, unless its
\* promise is rejected or forgotten: a lost connection, its reconnection and
\* the re-creation timers never leave it closed or pending for ever
\* (MessageBrokerConnector.ts:547-598).
ChannelRecovers ==
    \A k \in Kinds : chanPrm[k] # 0 ~> Opened(k) \/ Rejected(k) \/ chanPrm[k] = 0

\* Nothing but a refused dial, a refused exchange or a connection lost in the
\* middle of opening a channel rejects the promise of a channel, as long as
\* nobody disconnects (MessageBrokerConnector.ts:530-561, 600-619).
RejectedForCause ==
    faults \cap {"refuse", "exchange", "pendingLoss", "disconnect"} = {} =>
        \A k \in Kinds : ~Rejected(k)

\* What disconnect has asked the broker on a connection that is lost by now.
Unanswered ==
    \/ closing.at = "replies" /\ \E c \in closing.owed : conn[CarriedBy(c)] = "closed"
    \/ closing.at = "farewell" /\ conn[closing.awaits] = "closed"

\* disconnect settles, whatever happens to the connection and the channels
\* while it awaits their promises one after the other, unless a connection is
\* lost on which the broker owes it a reply (MessageBrokerConnector.ts:303-347).
DisconnectEnds == session = "closing" ~> session = "off" \/ Unanswered
=============================================================================
