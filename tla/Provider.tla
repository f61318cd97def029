------------------------------ MODULE Provider ------------------------------
(***************************************************************************)
(* The connectors of a service and their queues:                           *)
(* MessageBrokerProviderAddOn creates, silences and disconnects them, the  *)
(* RPC callers and handlers take theirs from it in init, and each          *)
(* TopicMessageBrokerConnector declares its queue when it subscribes.      *)
(*                                                                         *)
(* A connector's calls go over its consuming channel, which the broker     *)
(* serves in order and closes when it refuses a request.  The network is   *)
(* sound here, but the broker may refuse a connection.                     *)
(***************************************************************************)
EXTENDS Integers, Sequences, FiniteSets, Functions

CONSTANTS
    Connectors,
    Expiry,         \* messageExpiredIn of the options of the add-on
    Values,         \* the values it may be set to
    NoOne,          \* nobody owns the queue exclusively
    MaxAuto,        \* bound on the generated names of a connector
    Scenes          \* the users and the broker a behaviour may have

ASSUME ExpiryAssumption == Values \subseteq Int /\ Expiry \in Values
ASSUME NoOneAssumption == NoOne \notin Connectors
ASSUME MaxAutoAssumption == MaxAuto \in Nat \ {0}

\* Whether the users await none of their calls before the next; the calls they
\* make, and how many of them but for init; whether the broker may refuse
\* connections.
UserCalls == {"callerInit", "queue", "messageExpiredIn", "subscribe", "listen", "disconnect",
              "cancel", "delete", "purge"}
Scene == [hasty : BOOLEAN, uses : SUBSET UserCalls, calls : Nat, refuses : BOOLEAN]
ASSUME ScenesAssumption == Scenes \subseteq Scene

\* Mutant of Expiration: the value as it comes.
ExpirationRaw(val) == val

\* What the setter makes of a value.
Expiration(val) == IF val >= 0 THEN val ELSE 0

\* The queue name of the options, and the auto-gen names.
HandlerQueue == <<>>
AutoQueues == Connectors \X (1..MaxAuto)
Queues == {HandlerQueue} \cup AutoQueues

VARIABLES
    scene,
    conn,       \* the connectors
    list,       \* _connectors
    job,        \* the deadLetter or dispose that was called last
    queues,     \* broker: the queues there are
    dropped,    \* broker: the names of the queues that were deleted
    calls       \* calls made so far

vars == <<scene, conn, list, job, queues, dropped, calls>>

\* A call that awaits its turn on the consuming channel; "by" the provider or a
\* user; its queue, ttl and tag are those of when the channel was there.
Ops == {"declare", "bind", "consume", "cancel", "delete", "purge", "close"}
Callers == {"user", "deadLetter", "dispose"}
Call == [op : Ops, by : Callers, queue : Queues, ttl : Nat, tag : Nat]

\* A link is "new" before connect, "hanging" while its connection closes, and
\* "left" when disconnect has forgotten a connection that it did not close;
\* "hangup" is a disconnect that waits for the channel or the connection.
Links == {"unmade", "new", "dialing", "refused", "up", "hanging", "off", "left"}
Channels == {"none", "opening", "open", "broken"}

\* The broker numbers the consumers of a connector; _consumerTag is one of
\* those numbers, or 0 for null.  "crossed" is history: when the connector was
\* told to listen last, it was listening or about to already, or it has been told
\* to stop before that call of listen had ended.
Connector ==
    [link : Links, ch : Channels, pipe : Seq(Call), hangup : {"no", "user", "dispose"},
     queue : Queues, autos : 0..MaxAuto, ttl : Nat,
     queueBound : BOOLEAN, subscribed : BOOLEAN, tag : Nat, tags : Nat,
     crossed : BOOLEAN]

Queue == [ttl : Nat, owner : Connectors \cup {NoOne}, bound : SUBSET Connectors,
          consumers : SUBSET (Connectors \X Nat)]

Job == [what : {"none", "deadLetter", "dispose"}, waits : SUBSET Connectors,
        st : {"idle", "pending", "done", "failed"}]

TypeOK ==
    /\ scene \in Scenes
    /\ conn \in [Connectors -> Connector]
    /\ list \subseteq Connectors
    /\ job \in Job
    /\ DOMAIN queues \subseteq Queues /\ Range(queues) \subseteq Queue
    /\ dropped \subseteq Queues
    /\ calls \in 0..scene.calls

\* init of the add-on is over: it has read its options.
Init ==
    /\ scene \in Scenes
    /\ conn = [c \in Connectors |->
         [link |-> "unmade", ch |-> "none", pipe |-> <<>>, hangup |-> "no",
          queue |-> HandlerQueue, autos |-> 0, ttl |-> Expiration(Expiry),
          queueBound |-> FALSE, subscribed |-> FALSE, tag |-> 0, tags |-> 0,
          crossed |-> FALSE]]
    /\ list = {}
    /\ job = [what |-> "none", waits |-> {}, st |-> "idle"]
    /\ queues = <<>>
    /\ dropped = {}
    /\ calls = 0

-----------------------------------------------------------------------------
Put(c, r) == conn' = [conn EXCEPT ![c] = r]

Waiting(c, ops) == \E i \in DOMAIN conn[c].pipe : conn[c].pipe[i].op \in ops

Consumes(c) == \E q \in DOMAIN queues : \E t \in queues[q].consumers : t[1] = c

\* assertConnection, and then a channel that takes requests.
Usable(c) == conn[c].link \in {"dialing", "refused", "up"}
Takes(c) == /\ Usable(c) /\ conn[c].ch \in {"opening", "open"}
            /\ ~Waiting(c, {"close"})

\* The queue, its expiration and the tag are read when the channel is there.
Read(r, call) == [call EXCEPT !.queue = r.queue, !.ttl = r.ttl, !.tag = r.tag]

Asked(r, op, by) == [op |-> op, by |-> by, queue |-> r.queue, ttl |-> r.ttl, tag |-> r.tag]

With(r, op, by) == [r EXCEPT !.pipe = Append(@, Asked(r, op, by))]

\* A call of the job has ended: Promise.all.
JobAfter(c, by, ok) ==
    LET waits == job.waits \ {c} IN
    IF by # job.what \/ c \notin job.waits THEN job
    ELSE [job EXCEPT !.waits = waits,
                     !.st = IF @ # "pending" THEN @ ELSE IF ~ok THEN "failed"
                            ELSE IF waits = {} THEN "done" ELSE @]

\* Mutant of Ended: the list is emptied by the first connector that is off.
EndedEarly(c, by, ok) ==
    /\ job' = JobAfter(c, by, ok)
    /\ list' = IF by = "dispose" /\ ok THEN {} ELSE list

\* dispose forgets the connectors when all of them have been disconnected.
Ended(c, by, ok) ==
    /\ job' = JobAfter(c, by, ok)
    /\ list' = IF job.what = "dispose" /\ job.st # "done" /\ job'.st = "done" THEN {} ELSE list

\* The end of the channel or of its connection rejects what waits for it.
RejectAll(c) ==
    IF c \in job.waits THEN Ended(c, job.what, FALSE) ELSE UNCHANGED <<job, list>>

\* A call of a user.
Calls(op) ==
    /\ op \in scene.uses
    /\ calls < scene.calls
    /\ calls' = calls + 1

-----------------------------------------------------------------------------
\* create, and init of a handler up to connect.
Create(c) ==
    /\ scene.hasty \/ job.what # "dispose"
    /\ conn[c].link = "unmade"
    /\ Put(c, [conn[c] EXCEPT !.link = "new"])
    /\ list' = list \cup {c}
    /\ UNCHANGED <<scene, job, queues, dropped, calls>>

\* init of a caller with no connector of its own: a generated queue, and
\* maybe another expiration.
CallerInit(c) ==
    /\ scene.hasty \/ job.what # "dispose"
    /\ "callerInit" \in scene.uses
    /\ conn[c].link = "unmade"
    /\ \E val \in Values :
         Put(c, [conn[c] EXCEPT !.link = "dialing", !.ttl = Expiration(val),
                                !.queue = <<c, 1>>, !.autos = 1])
    /\ list' = list \cup {c}
    /\ UNCHANGED <<scene, job, queues, dropped, calls>>

\* isActive: connect has been called.
IsActive(c) == conn[c].link \notin {"unmade", "new"}

\* init of a handler or of a caller with a connector: connect, unless it is
\* active.
Connect(c) ==
    /\ scene.hasty \/ job.what # "dispose"
    /\ conn[c].link # "unmade"
    /\ ~IsActive(c)
    /\ Put(c, [conn[c] EXCEPT !.link = "dialing"])
    /\ UNCHANGED <<scene, list, job, queues, dropped, calls>>

\* Who awaits subscribe does not change the queue while it is being declared.
MaySet(c) == conn[c].link # "unmade" /\ (scene.hasty \/ ~Waiting(c, {"declare", "bind"}))

\* Mutant of SetQueue: it may be changed after binding.
SetQueueBound(c) ==
    /\ Calls("queue")
    /\ MaySet(c)
    /\ Put(c, [conn[c] EXCEPT !.queue = HandlerQueue])
    /\ UNCHANGED <<scene, list, job, queues, dropped>>

\* The setter of queue.
SetQueue(c) ==
    /\ Calls("queue")
    /\ MaySet(c)
    /\ ~conn[c].queueBound
    /\ \/ Put(c, [conn[c] EXCEPT !.queue = HandlerQueue])
       \/ /\ conn[c].autos < MaxAuto
          /\ Put(c, [conn[c] EXCEPT !.queue = <<c, conn[c].autos + 1>>, !.autos = @ + 1])
    /\ UNCHANGED <<scene, list, job, queues, dropped>>

\* The setter of messageExpiredIn.
SetMessageExpiredIn(c) ==
    /\ Calls("messageExpiredIn")
    /\ MaySet(c)
    /\ ~conn[c].queueBound
    /\ \E val \in Values : Put(c, [conn[c] EXCEPT !.ttl = Expiration(val)])
    /\ UNCHANGED <<scene, list, job, queues, dropped>>

\* subscribe opens the channel when there is none.
Subscribe(c) ==
    /\ Calls("subscribe")
    /\ Takes(c) \/ (conn[c].link \in {"dialing", "up"} /\ conn[c].ch = "none"
                     /\ conn[c].hangup = "no")
    /\ Put(c, [With(conn[c], "declare", "user") EXCEPT
                  !.ch = IF @ = "none" THEN "opening" ELSE @])
    /\ UNCHANGED <<scene, list, job, queues, dropped>>

\* listen checks nothing: every call of a caller listens, whether another has
\* made the connector listen or not.
Listen(c) ==
    /\ Calls("listen")
    /\ scene.hasty \/ job.what = "none"
    /\ Takes(c)
    /\ Put(c, [With(conn[c], "consume", "user") EXCEPT
                  !.crossed = Consumes(c) \/ Waiting(c, {"consume"})])
    /\ UNCHANGED <<scene, list, job, queues, dropped>>

\* stopListen, deleteQueue and emptyQueue.  stopListen cancels the consumer whose
\* tag there is, which may be that of a channel that is gone.
Ask(c, op) ==
    /\ Calls(op)
    /\ Takes(c)
    /\ op = "cancel" => conn[c].tag # 0
    /\ op = "delete" => conn[c].tag = 0
    /\ Put(c, [With(conn[c], op, "user") EXCEPT
                  !.crossed = @ \/ (op = "cancel" /\ Waiting(c, {"consume"}))])
    /\ UNCHANGED <<scene, list, job, queues, dropped>>

-----------------------------------------------------------------------------
\* disconnect throws when there is no connection to await, or when the channel
\* has been closed by the broker.
Throws(r) == r.link = "refused" \/ (r.link \in {"dialing", "up"} /\ r.ch = "broken")
\* It ends at once when the connection has been forgotten or was never made.
Ends(r) == r.link \notin {"dialing", "refused", "up"}

\* The channel is asked to close at once.  Of the calls that wait for it, the
\* oldest is with the broker; the others are never sent, and all are rejected in
\* the end.
Closed(r, by) ==
    LET close == Asked(r, "close", by) IN
    [r EXCEPT !.pipe = IF @ = <<>> THEN <<close>> ELSE <<Head(@), close>>]

\* disconnect, up to what it has to wait for.
Disconnected(r, by) ==
    IF Ends(r) THEN r
    ELSE IF Throws(r)
    THEN [r EXCEPT !.link = IF @ = "up" THEN "left" ELSE "off", !.ch = "none", !.tag = 0]
    ELSE IF r.ch # "none" THEN [Closed(r, by) EXCEPT !.hangup = by, !.tag = 0]
    ELSE [r EXCEPT !.hangup = by, !.link = IF @ = "up" THEN "hanging" ELSE @]

\* disconnect by a user, who has not called it yet.
Disconnect(c) ==
    /\ Calls("disconnect")
    /\ scene.hasty \/ job.what # "dispose"
    /\ conn[c].hangup = "no"
    /\ Put(c, Disconnected(conn[c], "user"))
    /\ UNCHANGED <<scene, list, job, queues, dropped>>

StartJob(what, waits, fails) ==
    job' = [what |-> what, waits |-> waits,
            st |-> IF fails THEN "failed" ELSE IF waits = {} THEN "done" ELSE "pending"]

\* Mutant of DeadLetter: it awaits none of the connectors.
DeadLetterUnawaited ==
    LET asked == {c \in list : conn[c].tag # 0 /\ Takes(c)} IN
    /\ job.what = "none"
    /\ scene.hasty \/ \A c \in list : ~Waiting(c, {"consume", "close"})
    /\ conn' = [c \in Connectors |->
                  IF c \in asked THEN With(conn[c], "cancel", "deadLetter") ELSE conn[c]]
    /\ StartJob("deadLetter", {}, FALSE)
    /\ UNCHANGED <<scene, list, queues, dropped, calls>>

\* deadLetter: stopListen of every connector.
DeadLetter ==
    LET asked == {c \in list : conn[c].tag # 0 /\ Takes(c)} IN
    /\ job.what = "none"
    /\ scene.hasty \/ \A c \in list : ~Waiting(c, {"consume", "close"})
    /\ conn' = [c \in Connectors |->
                  IF c \in asked THEN With(conn[c], "cancel", "deadLetter") ELSE conn[c]]
    /\ StartJob("deadLetter", asked, \E c \in list \ asked : conn[c].tag # 0)
    /\ UNCHANGED <<scene, list, queues, dropped, calls>>

\* dispose: disconnect of every connector.  It may be called again when it has
\* failed, but not while a user disconnects.
Dispose ==
    LET waits == {c \in list : ~Ends(conn[c]) /\ ~Throws(conn[c])} IN
    /\ \/ job.what = "none"
       \/ job.what = "deadLetter" /\ (scene.hasty \/ job.st # "pending")
       \/ job.what = "dispose" /\ job.st = "failed" /\ job.waits = {}
    /\ \A c \in list : conn[c].hangup = "no"
    /\ conn' = [c \in Connectors |->
                  IF c \in list THEN Disconnected(conn[c], "dispose") ELSE conn[c]]
    /\ StartJob("dispose", waits, \E c \in list : Throws(conn[c]))
    /\ list' = IF job'.st = "done" THEN {} ELSE list
    /\ UNCHANGED <<scene, queues, dropped, calls>>

-----------------------------------------------------------------------------
\* The dial: the connection is there, or refused.
Dialed(c) ==
    LET r == conn[c] IN
    /\ r.link = "dialing"
    /\ Put(c, [r EXCEPT !.link = IF r.hangup # "no" /\ r.ch = "none" THEN "hanging" ELSE "up"])
    /\ UNCHANGED <<scene, list, job, queues, dropped, calls>>

Refuse(c) ==
    LET r == conn[c] IN
    /\ scene.refuses
    /\ r.link = "dialing"
    /\ Put(c, [r EXCEPT !.link = IF r.hangup = "no" THEN "refused" ELSE "off",
                        !.ch = IF @ = "none" \/ r.hangup # "no" THEN "none" ELSE "broken",
                        !.pipe = <<>>, !.hangup = "no"])
    /\ RejectAll(c)
    /\ UNCHANGED <<scene, queues, dropped, calls>>

\* createConsumeChannel, and again 100 ms after the broker has closed it.
OpenChannel(c) ==
    LET r == conn[c] IN
    /\ r.link = "up" /\ r.ch = "opening"
    /\ Put(c, [r EXCEPT !.ch = "open", !.pipe = [i \in DOMAIN @ |-> Read(r, @[i])]])
    /\ UNCHANGED <<scene, list, job, queues, dropped, calls>>

Recreate(c) ==
    /\ conn[c].link = "up" /\ conn[c].ch = "broken"
    /\ Put(c, [conn[c] EXCEPT !.ch = "opening"])
    /\ UNCHANGED <<scene, list, job, queues, dropped, calls>>

\* conn.close: the broker deletes the exclusive queues of the connection.
HangUp(c) ==
    /\ conn[c].link = "hanging"
    /\ Put(c, [conn[c] EXCEPT !.link = "off", !.hangup = "no"])
    /\ queues' = Restrict(queues, {q \in DOMAIN queues : queues[q].owner # c})
    /\ Ended(c, conn[c].hangup, TRUE)
    /\ UNCHANGED <<scene, dropped, calls>>

-----------------------------------------------------------------------------
\* Mutant of Exclusively: the temp queue is not deleted with its connection.
ExclusivelyNever(q, c) == NoOne

\* An auto-gen queue is declared as exclusive.
Exclusively(q, c) == IF q \in AutoQueues THEN c ELSE NoOne

\* What makes the broker close the channel: a queue that is not there, belongs
\* to another connection, or was declared in another way.
Refused(c, call) ==
    IF call.queue \notin DOMAIN queues THEN call.op \in {"bind", "consume", "purge"}
    ELSE LET q == queues[call.queue] IN
         /\ call.op \notin {"cancel", "close"}
         /\ \/ q.owner \notin {NoOne, c}
            \/ call.op = "declare" /\ (q.ttl # call.ttl \/ q.owner # Exclusively(call.queue, c))

\* The queues without those consumers.
Without(consumers) ==
    [q \in DOMAIN queues |-> [queues[q] EXCEPT !.consumers = @ \ consumers]]

\* The channel of a connector is gone, and all its consumers with it.
Silent(c) == Without({c} \X Nat)

\* Mutant of Broken: what is under way is never settled.
BrokenSilently(c) ==
    /\ Put(c, [conn[c] EXCEPT !.ch = "broken", !.pipe = <<>>])
    /\ queues' = Silent(c)
    /\ UNCHANGED <<list, job, dropped>>

\* The broker closes the channel: everything under way is rejected.
Broken(c) ==
    /\ Put(c, [conn[c] EXCEPT !.ch = "broken", !.pipe = <<>>])
    /\ queues' = Silent(c)
    /\ RejectAll(c)
    /\ UNCHANGED dropped

\* The queues after a request that the broker grants.
QueuesAfter(c, call) ==
    LET name == call.queue
        new == [ttl |-> call.ttl, owner |-> Exclusively(name, c), bound |-> {}, consumers |-> {}]
    IN  CASE call.op = "declare" -> [q \in DOMAIN queues \cup {name} |->
                                       IF q \in DOMAIN queues THEN queues[q] ELSE new]
          [] call.op = "bind" -> [queues EXCEPT ![name].bound = @ \cup {c}]
          [] call.op = "consume" ->
               [queues EXCEPT ![name].consumers = @ \cup {<<c, conn[c].tags + 1>>}]
          [] call.op = "delete" -> Restrict(queues, DOMAIN queues \ {name})
          [] call.op = "cancel" -> Without({<<c, call.tag>>})
          [] call.op = "close" -> Silent(c)
          [] call.op = "purge" -> queues

\* What the connector does with the reply: bindQueue after assertQueue, the
\* queue is bound, the consumer's tag, the closing of the connection.
Replied(r, call) ==
    CASE call.op = "declare" -> [r EXCEPT !.pipe = Append(@, [call EXCEPT !.op = "bind"])]
      [] call.op = "bind" -> [r EXCEPT !.queueBound = TRUE, !.subscribed = TRUE]
      [] call.op = "consume" -> [r EXCEPT !.tag = r.tags + 1, !.tags = @ + 1]
      [] call.op = "cancel" -> [r EXCEPT !.tag = 0]
      [] call.op = "close" -> [r EXCEPT !.ch = "none", !.link = "hanging"]
      [] call.op \in {"delete", "purge"} -> r

DroppedAfter(call) == IF call.op = "delete" THEN dropped \cup {call.queue} ELSE dropped

\* The broker serves the oldest request of the channel, and the reply arrives.
Serve(c) ==
    LET r == conn[c]
        call == Head(r.pipe)
    IN  /\ r.ch = "open" /\ r.pipe # <<>>
        /\ call.op = "close" \/ ~Waiting(c, {"close"})
        /\ IF Refused(c, call) THEN Broken(c)
           ELSE /\ Put(c, Replied([r EXCEPT !.pipe = Tail(@)], call))
                /\ queues' = QueuesAfter(c, call)
                /\ dropped' = DroppedAfter(call)
                /\ IF call.by = "deadLetter" THEN Ended(c, call.by, TRUE)
                   ELSE IF call.op = "close" /\ job.what = "deadLetter" THEN RejectAll(c)
                   ELSE UNCHANGED <<job, list>>
        /\ UNCHANGED <<scene, calls>>

\* It serves one of a channel that is closing: the reply, or that it refuses and
\* closes the channel itself, is ignored.
ServeClosing(c) ==
    LET r == conn[c]
        call == Head(r.pipe)
    IN  /\ r.ch = "open" /\ r.pipe # <<>>
        /\ call.op # "close" /\ Waiting(c, {"close"})
        /\ Put(c, [r EXCEPT !.pipe = Tail(@)])
        /\ IF Refused(c, call) THEN queues' = Silent(c) /\ UNCHANGED dropped
           ELSE queues' = QueuesAfter(c, call) /\ dropped' = DroppedAfter(call)
        /\ UNCHANGED <<scene, list, job, calls>>

-----------------------------------------------------------------------------
NetworkStep(c) ==
    \/ Dialed(c) \/ Refuse(c) \/ OpenChannel(c) \/ Recreate(c) \/ HangUp(c)
    \/ Serve(c) \/ ServeClosing(c)

Next ==
    \/ \E c \in Connectors :
         \/ Create(c) \/ CallerInit(c) \/ Connect(c)
         \/ SetQueue(c) \/ SetMessageExpiredIn(c)
         \/ Subscribe(c) \/ Listen(c) \/ Disconnect(c)
         \/ \E op \in {"cancel", "delete", "purge"} : Ask(c, op)
         \/ NetworkStep(c)
    \/ DeadLetter \/ Dispose

Spec == Init /\ [][Next]_vars

\* Dials end, the broker answers, and timers fire.
FairSpec == Spec /\ \A c \in Connectors : WF_vars(NetworkStep(c))

-----------------------------------------------------------------------------
\* A connector that has subscribed is bound to the queue that it would listen
\* to, delete or unbind, and the queue has the expiration that the connector
\* says, whatever the other connectors declare meanwhile: "Queue can only be
\* changed before it is bound" (MessageBrokerConnector.ts:230-252, 622-643).
BoundAsSaid ==
    \A c \in Connectors : LET r == conn[c] IN
        ~scene.hasty /\ r.subscribed /\ r.link = "up" /\ r.queue \notin dropped =>
            /\ r.queue \in DOMAIN queues
            /\ c \in queues[r.queue].bound /\ r.ttl = queues[r.queue].ttl

\* No generated queue outlives its connection, however often it was renamed
\* while it was being declared: "Setting queue as 'exclusive' to delete the temp
\* queue when connection closes" (MessageBrokerConnector.ts:624-630).
TempQueuesDie ==
    \A q \in DOMAIN queues \ {HandlerQueue} : conn[q[1]].link \in {"up", "hanging", "left"}

\* The provider knows every connector whose connection is open or may come to
\* be, while connectors are refused, broken, and disconnected by others, until
\* it has disconnected it or disconnect has failed
\* (MessageBrokerProviderAddOn.ts:51-59, 107-111).
NoneForgotten ==
    ~scene.hasty => \A c \in Connectors :
        conn[c].link \in {"dialing", "refused", "up", "hanging"} => c \in list

\* When deadLetter is fulfilled none of the connectors consumes any more, those
\* included whose channel broke and whose tags are stale.  The exception are those
\* whose last listen crossed another one or a stopListen: there is one tag, which
\* then need not be that of the consumer (MessageBrokerProviderAddOn.ts:100-102,
\* MessageBrokerConnector.ts:384-425).
DeadLettered ==
    ~scene.hasty /\ job.what = "deadLetter" /\ job.st = "done" =>
        \A c \in list : Consumes(c) => conn[c].crossed

\* deadLetter and dispose settle, whatever is refused meanwhile, on whichever
\* connector (MessageBrokerProviderAddOn.ts:100-111).
JobSettles == job.st = "pending" ~> job.st # "pending"
=============================================================================
