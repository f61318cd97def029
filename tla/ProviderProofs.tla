--------------------------- MODULE ProviderProofs ---------------------------
(***************************************************************************)
(* What is proved of Provider for every set of connectors, of values, of   *)
(* scenes and every number of generated names: type correctness; that no   *)
(* generated queue outlives its connection; that the add-on forgets no     *)
(* connector; that deadLetter leaves no consumer behind but of connectors  *)
(* whose calls of listen crossed; and that a connector is bound to the     *)
(* queue that it says.                                                     *)
(***************************************************************************)
EXTENDS Provider, TLAPS

\* The names the queue of a connector may have.
Names(c) == {HandlerQueue} \cup {<<c, i>> : i \in 1..MaxAuto}

LEMMA NamesAreQueues ==
    ASSUME NEW c \in Connectors, NEW q \in Names(c)
    PROVE  q \in Queues /\ (q \in AutoQueues => q # HandlerQueue /\ q[1] = c)
           /\ (q \notin AutoQueues => q = HandlerQueue)
<1>1. CASE q = HandlerQueue
  <2>1. HandlerQueue \notin AutoQueues
    BY DEF HandlerQueue, AutoQueues
  <2> QED
    BY <1>1, <2>1 DEF Queues
<1>2. ASSUME NEW i \in 1..MaxAuto, q = <<c, i>>
      PROVE  q \in AutoQueues /\ q # HandlerQueue /\ q[1] = c
  BY <1>2 DEF AutoQueues, HandlerQueue
<1> QED
  BY <1>1, <1>2 DEF Names, Queues

LEMMA AutoNames == HandlerQueue \notin AutoQueues /\ \A q \in AutoQueues : q[1] \in Connectors
<1>1. HandlerQueue \notin AutoQueues
  BY DEF HandlerQueue, AutoQueues
<1>2. \A q \in AutoQueues : q[1] \in Connectors
  BY DEF AutoQueues
<1> QED
  BY <1>1, <1>2

\* The calls that await their turn.
In(r) == {r.pipe[i] : i \in DOMAIN r.pipe}

LEMMA WaitingIn ==
    ASSUME NEW c \in Connectors, NEW ops
    PROVE  Waiting(c, ops) <=> \E k \in In(conn[c]) : k.op \in ops
BY DEF Waiting, In

\* What holds of every connector by itself: its channel is open only while its
\* connection is up, what hangs has been hung up, and nothing waits for a
\* channel that nobody has asked for.
Fit(c, r) ==
    /\ r.ch = "open" => r.link = "up"
    /\ r.link = "hanging" => r.hangup # "no"
    /\ r.queue \in Names(c)
    /\ \A k \in In(r) : k.queue \in Names(c) /\ (k.by = "deadLetter" => k.op = "cancel")
    /\ r.link \in {"unmade", "new"} => r.ch = "none"
    /\ r.link \in {"unmade", "new", "dialing", "refused", "up"} /\ r.ch = "none" => In(r) = {}
    /\ r.ch = "broken" => In(r) = {}
    /\ r.ch = "opening" => \A k \in In(r) : k.op # "bind"
    /\ r.subscribed => r.queueBound /\ r.link \notin {"unmade", "new", "dialing"}
    /\ r.link \in {"dialing", "up"} => \A k \in In(r) : k.op = "close" => r.hangup # "no"

OwnerOf(q) == IF q \in AutoQueues THEN q[1] ELSE NoOne

Core ==
    /\ TypeOK
    /\ \A c \in Connectors : Fit(c, conn[c])
    /\ \A q \in DOMAIN queues : queues[q].owner = OwnerOf(q)

Change(c) ==
    /\ conn' \in [Connectors -> Connector]
    /\ Fit(c, conn'[c])
    /\ \A d \in Connectors \ {c} : conn'[d] = conn[d]

LEMMA PutChanges ==
    ASSUME Core, NEW c \in Connectors, NEW s \in Connector, Fit(c, s), Put(c, s)
    PROVE  Change(c) /\ conn'[c] = s
<1>1. conn' \in [Connectors -> Connector] /\ conn'[c] = s
      /\ \A d \in Connectors \ {c} : conn'[d] = conn[d]
  BY DEF Core, TypeOK, Put
<1> QED
  BY <1>1 DEF Change

-----------------------------------------------------------------------------
\* Reading the queue anew changes nothing else.
LEMMA ReadIs ==
    ASSUME NEW r \in Connector, NEW k \in Call
    PROVE  /\ Read(r, k) \in Call /\ Read(r, k).op = k.op /\ Read(r, k).by = k.by
           /\ Read(r, k).queue = r.queue /\ Read(r, k).ttl = r.ttl /\ Read(r, k).tag = r.tag
<1>1. r.queue \in Queues /\ r.ttl \in Nat /\ r.tag \in Nat
  BY DEF Connector
<1> QED
  BY <1>1 DEF Read, Call

\* A call is put behind the others.
LEMMA AskedIs ==
    ASSUME NEW r \in Connector, NEW op \in Ops, NEW by \in Callers
    PROVE  LET k == Asked(r, op, by) IN
           /\ k \in Call /\ k.op = op /\ k.by = by
           /\ k.queue = r.queue /\ k.ttl = r.ttl /\ k.tag = r.tag
BY DEF Asked, Call, Connector

\* Nothing that starts or cancels a consumer waits behind a call of listen.
Ordered(r) ==
    \A i, j \in DOMAIN r.pipe :
        i < j /\ r.pipe[i].op = "consume" => r.pipe[j].op \notin {"consume", "cancel"}

LEMMA WithAdds ==
    ASSUME NEW c \in Connectors, NEW r \in Connector, Fit(c, r),
           NEW op \in Ops, NEW by \in Callers
    PROVE  LET s == With(r, op, by)
               k == Asked(r, op, by) IN
           /\ s \in Connector /\ In(s) = In(r) \cup {k}
           /\ s.link = r.link /\ s.ch = r.ch /\ s.hangup = r.hangup /\ s.queue = r.queue
           /\ s.autos = r.autos /\ s.ttl = r.ttl /\ s.queueBound = r.queueBound
           /\ s.subscribed = r.subscribed /\ s.tag = r.tag /\ s.crossed = r.crossed
           /\ \/ Ordered(r) /\ op \notin {"consume", "cancel"}
              \/ \A j \in In(r) : j.op # "consume"
              => Ordered(s)
<1> DEFINE k == Asked(r, op, by)
           s == With(r, op, by)
<1>1. k \in Call /\ k.op = op
  BY AskedIs
<1>3. s = [r EXCEPT !.pipe = Append(r.pipe, k)]
  BY DEF With
<1> HIDE DEF k
<1>4. r.pipe \in Seq(Call) /\ Append(r.pipe, k) \in Seq(Call)
  BY <1>1 DEF Connector
<1> HIDE DEF s
<1>5. /\ s \in Connector /\ s.pipe = Append(r.pipe, k)
      /\ s.link = r.link /\ s.ch = r.ch /\ s.hangup = r.hangup /\ s.queue = r.queue
      /\ s.autos = r.autos /\ s.ttl = r.ttl /\ s.queueBound = r.queueBound
      /\ s.subscribed = r.subscribed /\ s.tag = r.tag /\ s.crossed = r.crossed
  BY <1>3, <1>4 DEF Connector
<1>6. /\ DOMAIN r.pipe = 1..Len(r.pipe) /\ Len(r.pipe) \in Nat
      /\ DOMAIN s.pipe = DOMAIN r.pipe \cup {Len(r.pipe) + 1}
      /\ s.pipe[Len(r.pipe) + 1] = k
      /\ \A i \in DOMAIN r.pipe : s.pipe[i] = r.pipe[i]
  BY <1>4, <1>5
<1>7. In(s) = In(r) \cup {k}
  BY <1>6 DEF In
<1>8. ASSUME Ordered(r) /\ op \notin {"consume", "cancel"} PROVE Ordered(s)
  BY <1>1, <1>6, <1>8 DEF Ordered
<1>9. ASSUME \A j \in In(r) : j.op # "consume" PROVE Ordered(s)
  <2>1. \A i \in DOMAIN r.pipe : r.pipe[i].op # "consume"
    BY <1>9 DEF In
  <2>2. ASSUME NEW i \in DOMAIN s.pipe, NEW j \in DOMAIN s.pipe, i < j PROVE s.pipe[i].op # "consume"
    <3>1. i \in DOMAIN r.pipe
      BY <1>6, <2>2
    <3> QED
      BY <1>6, <2>1, <3>1
  <2> QED
    BY <2>2 DEF Ordered
<1> QED
  BY <1>5, <1>7, <1>8, <1>9 DEF k, s

\* disconnect.
Hung(r, s, by) ==
    /\ s.queue = r.queue /\ s.ttl = r.ttl /\ s.queueBound = r.queueBound
    /\ s.subscribed = r.subscribed
    /\ s.crossed = r.crossed /\ \A k \in In(s) : k \in In(r) \/ k.op = "close"
    /\ \/ Ends(r) /\ s = r
       \/ /\ ~Ends(r) /\ Throws(r)
          /\ r.ch # "open" /\ s.ch = "none" /\ s.hangup = r.hangup
          /\ s.link = IF r.link = "up" THEN "left" ELSE "off"
       \/ /\ ~Ends(r) /\ ~Throws(r)
          /\ s.hangup = by /\ s.ch = r.ch
          /\ r.ch # "none" => s.link = r.link /\ \E k \in In(s) : k.op = "close"
          /\ r.ch = "none" => In(s) = In(r)
                              /\ s.link = IF r.link = "up" THEN "hanging" ELSE r.link

LEMMA DisconnectedHangs ==
    ASSUME NEW c \in Connectors, NEW r \in Connector, Fit(c, r), NEW by \in {"user", "dispose"}
    PROVE  /\ Disconnected(r, by) \in Connector /\ Fit(c, Disconnected(r, by))
           /\ Hung(r, Disconnected(r, by), by)
<1> DEFINE s == Disconnected(r, by)
<1>1. CASE Ends(r)
  <2>1. s = r
    BY <1>1 DEF Disconnected
  <2> QED
    BY <1>1, <2>1 DEF Hung
<1>2. CASE ~Ends(r) /\ Throws(r)
  <2>1. s = [r EXCEPT !.link = IF r.link = "up" THEN "left" ELSE "off", !.ch = "none", !.tag = 0]
    BY <1>2 DEF Disconnected
  <2> HIDE DEF s
  <2>2. /\ s \in Connector /\ s.link = (IF r.link = "up" THEN "left" ELSE "off") /\ s.ch = "none"
        /\ s.queue = r.queue /\ s.ttl = r.ttl /\ s.queueBound = r.queueBound
        /\ s.subscribed = r.subscribed /\ s.hangup = r.hangup /\ s.pipe = r.pipe
        /\ s.crossed = r.crossed
    BY <2>1 DEF Connector, Links, Channels
  <2>3. In(s) = In(r) /\ r.ch # "open"
    BY <1>2, <2>2 DEF In, Throws, Fit
  <2> QED
    BY <1>2, <2>2, <2>3 DEF s, Hung, Fit
<1>3. CASE ~Ends(r) /\ ~Throws(r) /\ r.ch # "none"
  <2> DEFINE k == Asked(r, "close", by)
             pipe == IF r.pipe = <<>> THEN <<k>> ELSE <<Head(r.pipe), k>>
  <2>1. s = [[r EXCEPT !.pipe = pipe] EXCEPT !.hangup = by, !.tag = 0]
    BY <1>3 DEF Disconnected, Closed
  <2>2. k \in Call /\ k.op = "close" /\ k.by = by /\ k.queue = r.queue
    <3>1. "close" \in Ops /\ by \in Callers
      BY DEF Ops, Callers
    <3> QED
      BY <3>1, AskedIs
  <2> HIDE DEF s, k
  <2>3. /\ pipe \in Seq(Call) /\ \A i \in DOMAIN pipe : pipe[i] = k \/ (i \in DOMAIN r.pipe /\ pipe[i] = r.pipe[i])
        /\ \E i \in DOMAIN pipe : pipe[i] = k
    <3>1. r.pipe \in Seq(Call) /\ DOMAIN r.pipe = 1..Len(r.pipe) /\ Len(r.pipe) \in Nat
      BY DEF Connector
    <3>2. CASE r.pipe = <<>>
      <4>1. pipe = <<k>>
        BY <3>2
      <4> QED
        BY <2>2, <4>1
    <3>3. CASE r.pipe # <<>>
      <4>1. pipe = <<r.pipe[1], k>> /\ 1 \in DOMAIN r.pipe /\ r.pipe[1] \in Call
        BY <3>1, <3>3
      <4> HIDE DEF pipe
      <4> QED
        BY <2>2, <4>1
    <3> QED
      BY <3>2, <3>3
  <2> HIDE DEF pipe
  <2>4. /\ s \in Connector /\ s.pipe = pipe /\ s.hangup = by
        /\ s.link = r.link /\ s.ch = r.ch /\ s.queue = r.queue /\ s.ttl = r.ttl
        /\ s.queueBound = r.queueBound /\ s.subscribed = r.subscribed /\ s.crossed = r.crossed
    BY <2>1, <2>3 DEF Connector
  <2>5. k \in In(s) /\ \A j \in In(s) : j \in In(r) \/ j = k
    BY <2>3, <2>4 DEF In
  <2>6. r.ch # "broken" /\ r.link \in {"dialing", "up"}
    BY <1>3 DEF Throws, Ends, Fit
  <2>7. Fit(c, s)
    BY <1>3, <2>2, <2>4, <2>5, <2>6 DEF Fit
  <2> QED
    BY <1>3, <2>2, <2>4, <2>5, <2>7 DEF s, Hung
<1>4. CASE ~Ends(r) /\ ~Throws(r) /\ r.ch = "none"
  <2>1. s = [r EXCEPT !.hangup = by, !.link = IF r.link = "up" THEN "hanging" ELSE r.link]
    BY <1>4 DEF Disconnected
  <2> HIDE DEF s
  <2>2. /\ s \in Connector /\ s.pipe = r.pipe /\ s.hangup = by
        /\ s.link = (IF r.link = "up" THEN "hanging" ELSE r.link) /\ s.ch = r.ch
        /\ s.queue = r.queue /\ s.ttl = r.ttl
        /\ s.queueBound = r.queueBound /\ s.subscribed = r.subscribed /\ s.crossed = r.crossed
    BY <2>1 DEF Connector, Links
  <2>3. In(s) = In(r)
    BY <2>2 DEF In
  <2> QED
    BY <1>4, <2>2, <2>3 DEF s, Hung, Fit
<1> QED
  BY <1>1, <1>2, <1>3, <1>4

-----------------------------------------------------------------------------
\* What a user does to the connector of which the broker hears nothing.
Settings(c) ==
    /\ Change(c)
    /\ conn'[c].ch = conn[c].ch /\ In(conn'[c]) = In(conn[c])
    /\ conn'[c].hangup = conn[c].hangup /\ conn'[c].tag = conn[c].tag
    /\ conn'[c].subscribed = conn[c].subscribed
    /\ conn'[c].pipe = conn[c].pipe /\ conn'[c].crossed = conn[c].crossed
    /\ \/ conn'[c].link = conn[c].link
       \/ /\ scene.hasty \/ job.what # "dispose"
          /\ \/ conn[c].link = "unmade" /\ c \in list'
             \/ conn[c].link = "new"
          /\ conn'[c].link \in {"new", "dialing"}
    /\ \/ conn'[c].queue = conn[c].queue /\ conn'[c].ttl = conn[c].ttl
       \/ conn[c].link = "unmade"
       \/ ~conn[c].queueBound /\ (scene.hasty \/ ~Waiting(c, {"declare", "bind"}))
    /\ list \subseteq list' /\ list' \subseteq Connectors
    /\ UNCHANGED <<scene, job, queues, dropped>>
    /\ calls' \in 0..scene.calls

LEMMA ExpirationIsNat == \A val \in Values : Expiration(val) \in Nat
BY ExpiryAssumption DEF Expiration

LEMMA CallsBound ==
    ASSUME TypeOK
    PROVE  /\ calls \in 0..scene.calls
           /\ \A op : Calls(op) => calls' \in 0..scene.calls
<1>1. scene.calls \in Nat /\ calls \in 0..scene.calls
  BY ScenesAssumption DEF TypeOK, Scene
<1> QED
  BY <1>1 DEF Calls

LEMMA MakingSets ==
    ASSUME Core, NEW c \in Connectors, Create(c) \/ CallerInit(c) \/ Connect(c)
    PROVE  Settings(c)
<1> DEFINE r == conn[c]
<1>1. r \in Connector /\ Fit(c, r) /\ list \subseteq Connectors /\ calls \in 0..scene.calls
  BY CallsBound DEF Core, TypeOK
<1>2. CASE Create(c) \/ Connect(c)
  <2>1. PICK l \in {"new", "dialing"} : Put(c, [r EXCEPT !.link = l])
    BY <1>2 DEF Create, Connect
  <2> DEFINE s == [r EXCEPT !.link = l]
  <2> HIDE DEF r
  <2>2. /\ s \in Connector /\ s.link = l /\ s.ch = r.ch /\ s.pipe = r.pipe /\ s.hangup = r.hangup
        /\ s.tag = r.tag /\ s.subscribed = r.subscribed /\ s.queueBound = r.queueBound
        /\ s.queue = r.queue /\ s.ttl = r.ttl /\ s.crossed = r.crossed
    BY <1>1 DEF Connector, Links
  <2>3. r.link \in {"unmade", "new"}
    BY <1>1, <1>2 DEF r, Create, Connect, IsActive
  <2>4. In(s) = In(r)
    BY <2>2 DEF In
  <2> HIDE DEF s
  <2>5. Fit(c, s)
    BY <1>1, <2>2, <2>3, <2>4 DEF Fit
  <2>6. Change(c) /\ conn'[c] = s
    BY <2>1, <2>2, <2>5, PutChanges DEF s, r
  <2> QED
    BY <1>1, <1>2, <2>2, <2>3, <2>4, <2>6 DEF Settings, r, Create, Connect
<1>3. CASE CallerInit(c)
  <2>1. PICK val \in Values :
          Put(c, [r EXCEPT !.link = "dialing", !.ttl = Expiration(val),
                           !.queue = <<c, 1>>, !.autos = 1])
    BY <1>3 DEF CallerInit
  <2> DEFINE s == [r EXCEPT !.link = "dialing", !.ttl = Expiration(val),
                            !.queue = <<c, 1>>, !.autos = 1]
  <2>2. Expiration(val) \in Nat /\ 1 \in 0..MaxAuto /\ <<c, 1>> \in Names(c) /\ <<c, 1>> \in Queues
    <3>1. 1 \in 1..MaxAuto /\ 1 \in 0..MaxAuto
      BY MaxAutoAssumption
    <3>2. <<c, 1>> \in Names(c)
      BY <3>1 DEF Names
    <3> QED
      BY <3>1, <3>2, ExpirationIsNat, NamesAreQueues
  <2>3. r.link = "unmade"
    BY <1>3 DEF CallerInit
  <2> HIDE DEF r
  <2>4. /\ s \in Connector /\ s.link = "dialing" /\ s.ch = r.ch /\ s.pipe = r.pipe
        /\ s.hangup = r.hangup /\ s.tag = r.tag /\ s.subscribed = r.subscribed
        /\ s.queueBound = r.queueBound /\ s.queue = <<c, 1>> /\ s.crossed = r.crossed
    BY <1>1, <2>2 DEF Connector, Links
  <2>5. In(s) = In(r)
    BY <2>4 DEF In
  <2> HIDE DEF s
  <2>6. Fit(c, s)
    BY <1>1, <2>2, <2>3, <2>4, <2>5 DEF Fit
  <2>7. Change(c) /\ conn'[c] = s
    BY <2>1, <2>4, <2>6, PutChanges DEF s, r
  <2> QED
    BY <1>1, <1>3, <2>3, <2>4, <2>5, <2>7 DEF Settings, r, CallerInit
<1> QED
  BY <1>2, <1>3

LEMMA SettingSets ==
    ASSUME Core, NEW c \in Connectors, SetQueue(c) \/ SetMessageExpiredIn(c)
    PROVE  Settings(c)
<1> DEFINE r == conn[c]
<1>1. r \in Connector /\ Fit(c, r) /\ list \subseteq Connectors /\ TypeOK
  BY DEF Core, TypeOK
<1>2. /\ calls' \in 0..scene.calls /\ ~r.queueBound /\ UNCHANGED <<scene, list, job, queues, dropped>>
      /\ scene.hasty \/ ~Waiting(c, {"declare", "bind"})
  BY <1>1, CallsBound DEF SetQueue, SetMessageExpiredIn, MaySet
<1>3. PICK q \in Names(c), n \in 0..MaxAuto, t \in Nat :
        Put(c, [r EXCEPT !.queue = q, !.autos = n, !.ttl = t])
  <2>1. r = [r EXCEPT !.queue = r.queue] /\ r = [r EXCEPT !.ttl = r.ttl] /\ r = [r EXCEPT !.autos = r.autos]
    BY <1>1 DEF Connector
  <2>2. r.queue \in Names(c) /\ r.autos \in 0..MaxAuto /\ r.ttl \in Nat
    BY <1>1 DEF Connector, Fit
  <2>3. CASE SetMessageExpiredIn(c)
    <3>1. PICK val \in Values : Put(c, [r EXCEPT !.ttl = Expiration(val)])
      BY <2>3 DEF SetMessageExpiredIn
    <3>2. Expiration(val) \in Nat
      BY ExpirationIsNat
    <3> HIDE DEF r
    <3>3. [r EXCEPT !.ttl = Expiration(val)]
          = [r EXCEPT !.queue = r.queue, !.autos = r.autos, !.ttl = Expiration(val)]
      BY <1>1 DEF Connector
    <3> QED
      BY <2>2, <3>1, <3>2, <3>3
  <2>4. CASE SetQueue(c)
    <3>1. \/ Put(c, [r EXCEPT !.queue = HandlerQueue])
          \/ /\ r.autos < MaxAuto
             /\ Put(c, [r EXCEPT !.queue = <<c, r.autos + 1>>, !.autos = r.autos + 1])
      BY <2>4 DEF SetQueue
    <3> HIDE DEF r
    <3>2. CASE Put(c, [r EXCEPT !.queue = HandlerQueue])
      <4>1. [r EXCEPT !.queue = HandlerQueue]
            = [r EXCEPT !.queue = HandlerQueue, !.autos = r.autos, !.ttl = r.ttl]
        BY <1>1 DEF Connector
      <4>2. HandlerQueue \in Names(c)
        BY DEF Names
      <4> QED
        BY <2>2, <3>2, <4>1, <4>2
    <3>3. CASE r.autos < MaxAuto /\ Put(c, [r EXCEPT !.queue = <<c, r.autos + 1>>, !.autos = r.autos + 1])
      <4> DEFINE q == <<c, r.autos + 1>>
                 n == r.autos + 1
      <4>1. n \in 0..MaxAuto /\ n \in 1..MaxAuto
        BY <2>2, <3>3, MaxAutoAssumption
      <4>2. q \in Names(c)
        BY <4>1 DEF Names
      <4> HIDE DEF q, n
      <4>3. [r EXCEPT !.queue = q, !.autos = n] = [r EXCEPT !.queue = q, !.autos = n, !.ttl = r.ttl]
        BY <1>1 DEF Connector
      <4> QED
        BY <2>2, <3>3, <4>1, <4>2, <4>3 DEF q, n
    <3> QED
      BY <3>1, <3>2, <3>3
  <2> QED
    BY <2>3, <2>4
<1> DEFINE s == [r EXCEPT !.queue = q, !.autos = n, !.ttl = t]
<1>4. q \in Queues
  BY NamesAreQueues
<1> HIDE DEF r
<1>5. /\ s \in Connector /\ s.link = r.link /\ s.ch = r.ch /\ s.pipe = r.pipe
      /\ s.hangup = r.hangup /\ s.tag = r.tag /\ s.subscribed = r.subscribed
      /\ s.queueBound = r.queueBound /\ s.queue = q /\ s.crossed = r.crossed
  BY <1>1, <1>4 DEF Connector
<1>6. In(s) = In(r)
  BY <1>5 DEF In
<1> HIDE DEF s
<1>7. Fit(c, s)
  BY <1>1, <1>5, <1>6 DEF Fit
<1>8. Change(c) /\ conn'[c] = s
  BY <1>3, <1>5, <1>7, PutChanges DEF s, r
<1> QED
  BY <1>1, <1>2, <1>5, <1>6, <1>8 DEF Settings, r

\* A user's request k: what it makes of the connector, and when it crosses a
\* call of listen.
Crosses(c, k) ==
    IF k.op = "consume" THEN Consumes(c) \/ Waiting(c, {"consume"})
    ELSE conn[c].crossed \/ (k.op = "cancel" /\ Waiting(c, {"consume"}))

Asking(c) ==
    /\ Change(c)
    /\ conn'[c].link = conn[c].link /\ conn[c].link \in {"dialing", "refused", "up"}
    /\ conn'[c].hangup = conn[c].hangup /\ conn'[c].tag = conn[c].tag
    /\ conn'[c].queue = conn[c].queue /\ conn'[c].ttl = conn[c].ttl
    /\ conn'[c].subscribed = conn[c].subscribed
    /\ conn[c].ch = "open" => conn'[c].ch = "open"
    /\ conn[c].ch \in {"opening", "open"} \/ In(conn[c]) = {}
    /\ \E k \in Call :
         /\ In(conn'[c]) = In(conn[c]) \cup {k}
         /\ k.op \notin {"bind", "close"}
         /\ k.op = "consume" => scene.hasty \/ job.what = "none"
         /\ k.queue = conn[c].queue /\ k.ttl = conn[c].ttl /\ k.tag = conn[c].tag
         /\ conn'[c].crossed <=> Crosses(c, k)
         /\ \/ Ordered(conn[c]) /\ k.op \notin {"consume", "cancel"}
            \/ \A j \in In(conn[c]) : j.op # "consume"
            => Ordered(conn'[c])
    /\ UNCHANGED <<scene, list, job, queues, dropped>>
    /\ calls' \in 0..scene.calls

\* Two fields of a connector are set, the same or others.
LEMMA SetAgain ==
    ASSUME NEW r \in Connector
    PROVE  /\ \A ch : [r EXCEPT !.ch = ch] = [r EXCEPT !.ch = ch, !.crossed = r.crossed]
           /\ \A x : [r EXCEPT !.crossed = x] = [r EXCEPT !.ch = r.ch, !.crossed = x]
BY DEF Connector

\* What subscribe, listen and the others ask, put in the same way.
LEMMA RequestPuts ==
    ASSUME Core, NEW c \in Connectors,
           Subscribe(c) \/ Listen(c) \/ \E op \in {"cancel", "delete", "purge"} : Ask(c, op)
    PROVE  \E op \in {"declare", "consume", "cancel", "delete", "purge"},
              ch \in {conn[c].ch, "opening"}, x \in BOOLEAN :
             /\ Put(c, [With(conn[c], op, "user") EXCEPT !.ch = ch, !.crossed = x])
             /\ x <=> Crosses(c, Asked(conn[c], op, "user"))
             /\ ch # conn[c].ch => conn[c].ch = "none" /\ conn[c].link \in {"dialing", "up"}
             /\ ch \in {"opening", "open"} /\ conn[c].link \in {"dialing", "refused", "up"}
             /\ op = "consume" => scene.hasty \/ job.what = "none"
<1> DEFINE r == conn[c]
           w(op) == With(r, op, "user")
<1>1. r \in Connector /\ Fit(c, r)
  BY DEF Core, TypeOK
<1>2. ASSUME NEW op \in {"declare", "consume", "cancel", "delete", "purge"}
      PROVE  w(op) \in Connector /\ w(op).ch = r.ch /\ w(op).crossed = r.crossed
             /\ Asked(r, op, "user").op = op
  <2>1. op \in Ops /\ "user" \in Callers
    BY DEF Ops, Callers
  <2> HIDE DEF r
  <2> QED
    BY <1>1, <2>1, WithAdds, AskedIs
<1>3. r.crossed \in BOOLEAN
  BY <1>1 DEF Connector
<1>4. CASE Subscribe(c)
  <2> DEFINE ch == IF r.ch = "none" THEN "opening" ELSE r.ch
  <2>1. Put(c, [w("declare") EXCEPT !.ch = ch])
    BY <1>2, <1>4 DEF Subscribe
  <2>2. Put(c, [w("declare") EXCEPT !.ch = ch, !.crossed = r.crossed])
    BY <1>2, <2>1, SetAgain
  <2>3. r.crossed <=> Crosses(c, Asked(r, "declare", "user"))
    BY <1>2 DEF Crosses
  <2>4. Takes(c) \/ (r.link \in {"dialing", "up"} /\ r.ch = "none")
    BY <1>4 DEF Subscribe
  <2> QED
    BY <1>3, <2>2, <2>3, <2>4 DEF Takes, Usable
<1>5. CASE Listen(c)
  <2>1. PICK x \in BOOLEAN : x <=> Consumes(c) \/ Waiting(c, {"consume"})
    OBVIOUS
  <2>2. Put(c, [w("consume") EXCEPT !.crossed = x]) /\ Takes(c) /\ (scene.hasty \/ job.what = "none")
    <3>1. (Consumes(c) \/ Waiting(c, {"consume"})) = x
      <4>1. (Consumes(c) \/ Waiting(c, {"consume"})) \in BOOLEAN
        BY DEF Consumes, Waiting
      <4> QED
        BY <2>1, <4>1
    <3> QED
      BY <1>5, <3>1 DEF Listen
  <2>3. Put(c, [w("consume") EXCEPT !.ch = r.ch, !.crossed = x])
    BY <1>2, <2>2, SetAgain
  <2>4. x <=> Crosses(c, Asked(r, "consume", "user"))
    BY <1>2, <2>1 DEF Crosses
  <2> QED
    BY <2>2, <2>3, <2>4 DEF Takes, Usable
<1>6. ASSUME NEW op \in {"cancel", "delete", "purge"}, Ask(c, op)
      PROVE  /\ Takes(c)
             /\ \E x \in BOOLEAN : /\ Put(c, [w(op) EXCEPT !.ch = r.ch, !.crossed = x])
                                   /\ x <=> Crosses(c, Asked(r, op, "user"))
  <2> DEFINE P == r.crossed \/ (op = "cancel" /\ Waiting(c, {"consume"}))
  <2>1. PICK x \in BOOLEAN : x <=> P
    OBVIOUS
  <2>2. P = x
    BY <1>3, <2>1
  <2>3. Takes(c) /\ Put(c, [w(op) EXCEPT !.crossed = P])
    BY <1>2, <1>6 DEF Ask
  <2>4. P <=> Crosses(c, Asked(r, op, "user"))
    BY <1>2 DEF Crosses
  <2> HIDE DEF P
  <2>5. Put(c, [w(op) EXCEPT !.ch = r.ch, !.crossed = x])
    BY <1>2, <2>2, <2>3, SetAgain
  <2> QED
    BY <2>1, <2>3, <2>4, <2>5
<1>7. ASSUME NEW op \in {"cancel", "delete", "purge"}, Ask(c, op)
      PROVE  \E x \in BOOLEAN :
             /\ Put(c, [w(op) EXCEPT !.ch = r.ch, !.crossed = x])
             /\ x <=> Crosses(c, Asked(r, op, "user"))
             /\ r.ch \in {"opening", "open"} /\ r.link \in {"dialing", "refused", "up"}
  BY <1>6, <1>7 DEF Takes, Usable
<1> QED
  BY <1>4, <1>5, <1>7

LEMMA RequestAsks ==
    ASSUME Core, NEW c \in Connectors,
           Subscribe(c) \/ Listen(c) \/ \E op \in {"cancel", "delete", "purge"} : Ask(c, op)
    PROVE  Asking(c)
<1> DEFINE r == conn[c]
<1>1. r \in Connector /\ Fit(c, r) /\ TypeOK
  BY DEF Core, TypeOK
<1>2. calls' \in 0..scene.calls /\ UNCHANGED <<scene, list, job, queues, dropped>>
  BY <1>1, CallsBound DEF Subscribe, Listen, Ask
<1>3. PICK op \in {"declare", "consume", "cancel", "delete", "purge"}, ch \in {r.ch, "opening"},
           x \in BOOLEAN :
        /\ Put(c, [With(r, op, "user") EXCEPT !.ch = ch, !.crossed = x])
        /\ x <=> Crosses(c, Asked(r, op, "user"))
        /\ ch # r.ch => r.ch = "none" /\ r.link \in {"dialing", "up"}
        /\ ch \in {"opening", "open"} /\ r.link \in {"dialing", "refused", "up"}
        /\ op = "consume" => scene.hasty \/ job.what = "none"
  BY RequestPuts
<1> DEFINE w == With(r, op, "user")
           s == [w EXCEPT !.ch = ch, !.crossed = x]
           k == Asked(r, op, "user")
<1>4. /\ w \in Connector /\ In(w) = In(r) \cup {k}
      /\ w.link = r.link /\ w.ch = r.ch /\ w.hangup = r.hangup /\ w.queue = r.queue
      /\ w.ttl = r.ttl /\ w.queueBound = r.queueBound
      /\ w.subscribed = r.subscribed /\ w.tag = r.tag
      /\ \/ Ordered(r) /\ op \notin {"consume", "cancel"}
         \/ \A j \in In(r) : j.op # "consume"
         => Ordered(w)
      /\ k \in Call /\ k.op = op /\ k.by = "user" /\ k.queue = r.queue /\ k.ttl = r.ttl
      /\ k.tag = r.tag
  <2>1. op \in Ops /\ "user" \in Callers
    BY DEF Ops, Callers
  <2> HIDE DEF r
  <2> QED
    BY <1>1, <2>1, WithAdds, AskedIs
<1> HIDE DEF r, w, k
<1>6. /\ s \in Connector /\ s.ch = ch /\ s.pipe = w.pipe /\ s.crossed = x
      /\ s.link = r.link /\ s.hangup = r.hangup /\ s.queue = r.queue
      /\ s.ttl = r.ttl /\ s.queueBound = r.queueBound
      /\ s.subscribed = r.subscribed /\ s.tag = r.tag
  BY <1>1, <1>3, <1>4 DEF Connector, Channels
<1>7. In(s) = In(r) \cup {k} /\ (Ordered(s) <=> Ordered(w))
  BY <1>4, <1>6 DEF In, Ordered
<1> HIDE DEF s
<1>8. Fit(c, s)
  BY <1>1, <1>3, <1>4, <1>6, <1>7 DEF Fit
<1>9. Change(c) /\ conn'[c] = s
  BY <1>3, <1>6, <1>8, PutChanges DEF s, w, r
<1>10. /\ r.ch = "open" => s.ch = "open"
       /\ r.ch \in {"opening", "open"} \/ In(r) = {}
  BY <1>1, <1>3, <1>6 DEF Fit
<1>11. s.crossed <=> Crosses(c, k)
  BY <1>3, <1>6 DEF k, r
<1> QED
  BY <1>2, <1>3, <1>4, <1>6, <1>7, <1>9, <1>10, <1>11 DEF Asking, r

-----------------------------------------------------------------------------
\* What the end of a call makes of the job and of the list.
JobStep(c, by, ok) ==
    /\ job' \in Job /\ job'.what = job.what
    /\ job'.waits \subseteq job.waits /\ job.waits \subseteq job'.waits \cup {c}
    /\ job'.waits # job.waits => by = job.what
    /\ job'.waits # job.waits /\ job.st = "pending" /\ ~ok => job'.st = "failed"
    /\ job'.st # job.st => job.st = "pending" /\ job'.st \in {"failed", "done"}
    /\ job'.st # job.st /\ job'.st = "done" => job'.waits = {} /\ ok /\ by = job.what /\ job.waits = {c}
    /\ \/ list' = list
       \/ list' = {} /\ job.what = "dispose" /\ job.st = "pending" /\ job'.st = "done"

LEMMA EndedSteps ==
    ASSUME TypeOK, NEW c \in Connectors, NEW by, NEW ok \in BOOLEAN, Ended(c, by, ok)
    PROVE  JobStep(c, by, ok)
<1>1. job \in Job /\ job' = JobAfter(c, by, ok)
      /\ (list' = list \/ (list' = {} /\ job.what = "dispose" /\ job.st # "done" /\ job'.st = "done"))
  BY DEF TypeOK, Ended
<1>2. CASE by # job.what \/ c \notin job.waits
  <2>1. job' = job
    BY <1>1, <1>2 DEF JobAfter
  <2> QED
    BY <1>1, <2>1 DEF JobStep
<1>3. CASE by = job.what /\ c \in job.waits
  <2> DEFINE waits == job.waits \ {c}
             st == IF job.st # "pending" THEN job.st ELSE IF ~ok THEN "failed"
                   ELSE IF waits = {} THEN "done" ELSE job.st
  <2>1. job' = [job EXCEPT !.waits = waits, !.st = st]
    BY <1>1, <1>3 DEF JobAfter
  <2>2. waits \in SUBSET Connectors /\ st \in {"idle", "pending", "done", "failed"}
    BY <1>1 DEF Job
  <2> HIDE DEF waits, st
  <2>3. job' \in Job /\ job'.what = job.what /\ job'.waits = waits /\ job'.st = st
    BY <1>1, <2>1, <2>2 DEF Job
  <2> QED
    BY <1>1, <1>3, <2>3 DEF JobStep, waits, st
<1> QED
  BY <1>2, <1>3

LEMMA RejectAllSteps ==
    ASSUME TypeOK, NEW c \in Connectors, RejectAll(c)
    PROVE  JobStep(c, job.what, FALSE)
<1>1. CASE Ended(c, job.what, FALSE)
  BY <1>1, EndedSteps
<1>2. CASE UNCHANGED <<job, list>>
  BY <1>2 DEF JobStep, TypeOK
<1> QED
  BY <1>1, <1>2 DEF RejectAll

-----------------------------------------------------------------------------
\* What the network and the broker do to the channel of a connector.
DialedTo(c) ==
    /\ Change(c) /\ conn[c].link = "dialing" /\ conn'[c].link \in {"hanging", "up"}
    /\ conn'[c].link = "hanging" <=> conn[c].hangup # "no" /\ conn[c].ch = "none"
    /\ conn'[c].ch = conn[c].ch /\ In(conn'[c]) = In(conn[c])
    /\ conn'[c].hangup = conn[c].hangup /\ conn'[c].tag = conn[c].tag
    /\ conn'[c].queue = conn[c].queue /\ conn'[c].ttl = conn[c].ttl
    /\ conn'[c].subscribed = conn[c].subscribed
    /\ conn'[c].pipe = conn[c].pipe /\ conn'[c].crossed = conn[c].crossed

LEMMA DialedChanges ==
    ASSUME Core, NEW c \in Connectors, Dialed(c)
    PROVE  DialedTo(c)
<1> DEFINE r == conn[c]
<1>1. r \in Connector /\ Fit(c, r) /\ r.link = "dialing"
  BY DEF Core, TypeOK, Dialed
<1>2. PICK l \in {"hanging", "up"} :
        Put(c, [r EXCEPT !.link = l]) /\ (l = "hanging" <=> r.hangup # "no" /\ r.ch = "none")
  BY DEF Dialed
<1> DEFINE s == [r EXCEPT !.link = l]
<1> HIDE DEF r
<1>3. /\ s \in Connector /\ s.link = l /\ s.ch = r.ch /\ s.pipe = r.pipe
      /\ s.hangup = r.hangup /\ s.tag = r.tag /\ s.subscribed = r.subscribed
      /\ s.queueBound = r.queueBound /\ s.queue = r.queue /\ s.ttl = r.ttl
      /\ s.crossed = r.crossed
  BY <1>1 DEF Connector, Links
<1>4. In(s) = In(r)
  BY <1>3 DEF In
<1> HIDE DEF s
<1>5. Fit(c, s)
  BY <1>1, <1>2, <1>3, <1>4 DEF Fit
<1>6. Change(c) /\ conn'[c] = s
  BY <1>2, <1>3, <1>5, PutChanges DEF s, r
<1> QED
  BY <1>1, <1>2, <1>3, <1>4, <1>6 DEF DialedTo, r

Emptied(c) ==
    /\ Change(c) /\ In(conn'[c]) = {} /\ conn'[c].ch # "open"
    /\ conn'[c].tag = conn[c].tag /\ conn'[c].queue = conn[c].queue
    /\ conn'[c].ttl = conn[c].ttl /\ conn'[c].subscribed = conn[c].subscribed
    /\ conn'[c].ch \notin {"opening", "open"}

LEMMA EmptyPipe == \A r : r.pipe = <<>> => In(r) = {}
BY DEF In

LEMMA RefuseChanges ==
    ASSUME Core, NEW c \in Connectors, Refuse(c)
    PROVE  /\ Emptied(c) /\ conn[c].link = "dialing" /\ conn'[c].link \in {"refused", "off"}
           /\ conn'[c].link = "refused" <=> conn[c].hangup = "no"
           /\ UNCHANGED <<scene, queues, dropped, calls>>
           /\ JobStep(c, job.what, FALSE)
<1> DEFINE r == conn[c]
<1>1. r \in Connector /\ Fit(c, r) /\ r.link = "dialing" /\ TypeOK
  BY DEF Core, TypeOK, Refuse
<1>2. PICK l \in {"refused", "off"}, ch \in {"none", "broken"} :
        /\ Put(c, [r EXCEPT !.link = l, !.ch = ch, !.pipe = <<>>, !.hangup = "no"])
        /\ l = "refused" <=> r.hangup = "no"
  BY DEF Refuse
<1> DEFINE s == [r EXCEPT !.link = l, !.ch = ch, !.pipe = <<>>, !.hangup = "no"]
<1>3. UNCHANGED <<scene, queues, dropped, calls>> /\ JobStep(c, job.what, FALSE)
  BY <1>1, RejectAllSteps DEF Refuse
<1> HIDE DEF r
<1>4. /\ s \in Connector /\ s.link = l /\ s.ch = ch /\ s.pipe = <<>>
      /\ s.hangup = "no" /\ s.tag = r.tag /\ s.subscribed = r.subscribed
      /\ s.queueBound = r.queueBound /\ s.queue = r.queue /\ s.ttl = r.ttl
  <2>1. <<>> \in Seq(Call) /\ l \in Links /\ ch \in Channels
    BY DEF Links, Channels
  <2> QED
    BY <1>1, <2>1 DEF Connector
<1>5. In(s) = {}
  BY <1>4, EmptyPipe
<1> HIDE DEF s
<1>6. Fit(c, s)
  BY <1>1, <1>4, <1>5 DEF Fit
<1>7. Change(c) /\ conn'[c] = s
  BY <1>2, <1>4, <1>6, PutChanges DEF s, r
<1> QED
  BY <1>1, <1>2, <1>3, <1>4, <1>5, <1>7 DEF Emptied, r

Opened(c) ==
    /\ Change(c) /\ conn[c].link = "up" /\ conn'[c].link = "up"
    /\ conn[c].ch # "open"
    /\ conn'[c].hangup = conn[c].hangup /\ conn'[c].tag = conn[c].tag
    /\ conn'[c].queue = conn[c].queue /\ conn'[c].ttl = conn[c].ttl
    /\ conn'[c].subscribed = conn[c].subscribed
    /\ conn'[c].crossed = conn[c].crossed
    /\ conn[c].ch = "opening" \/ In(conn'[c]) = {}
    /\ Ordered(conn[c]) => Ordered(conn'[c])
    /\ \A j \in In(conn[c]) : \E k \in In(conn'[c]) : k.op = j.op
    /\ \A k \in In(conn'[c]) :
         \E j \in In(conn[c]) : /\ k.op = j.op /\ k.by = j.by /\ k.op # "bind"
                                /\ k.queue = conn[c].queue /\ k.ttl = conn[c].ttl
    /\ UNCHANGED <<scene, list, job, queues, dropped, calls>>

LEMMA OpeningOpens ==
    ASSUME Core, NEW c \in Connectors, OpenChannel(c) \/ Recreate(c)
    PROVE  Opened(c)
<1> DEFINE r == conn[c]
<1>1. r \in Connector /\ Fit(c, r) /\ r.link = "up"
      /\ UNCHANGED <<scene, list, job, queues, dropped, calls>>
  BY DEF Core, TypeOK, OpenChannel, Recreate
<1>2. CASE OpenChannel(c)
  <2> DEFINE pipe == [i \in DOMAIN r.pipe |-> Read(r, r.pipe[i])]
             s == [r EXCEPT !.ch = "open", !.pipe = pipe]
  <2>1. Put(c, s) /\ r.ch = "opening"
    BY <1>2 DEF OpenChannel
  <2> HIDE DEF r
  <2>2. r.pipe \in Seq(Call) /\ r.queue \in Queues
    BY <1>1 DEF Connector
  <2>3. \A i \in DOMAIN r.pipe : /\ r.pipe[i] \in Call /\ pipe[i] \in Call
                                 /\ pipe[i].op = r.pipe[i].op /\ pipe[i].by = r.pipe[i].by
                                 /\ pipe[i].queue = r.queue /\ pipe[i].ttl = r.ttl
    BY <1>1, <2>2, ReadIs
  <2>4. pipe \in Seq(Call) /\ DOMAIN pipe = DOMAIN r.pipe
    <3>1. DOMAIN r.pipe = 1..Len(r.pipe) /\ Len(r.pipe) \in Nat
      BY <2>2
    <3>2. pipe \in [1..Len(r.pipe) -> Call]
      BY <2>3, <3>1
    <3> HIDE DEF pipe
    <3> QED
      BY <3>1, <3>2
  <2> HIDE DEF pipe
  <2>5. /\ s \in Connector /\ s.link = r.link /\ s.ch = "open" /\ s.pipe = pipe
        /\ s.hangup = r.hangup /\ s.tag = r.tag /\ s.subscribed = r.subscribed
        /\ s.queueBound = r.queueBound /\ s.queue = r.queue /\ s.ttl = r.ttl
        /\ s.crossed = r.crossed
    BY <1>1, <2>4 DEF Connector, Channels
  <2>6. \A k \in In(s) : \E j \in In(r) : /\ k.op = j.op /\ k.by = j.by
                                          /\ k.queue = r.queue /\ k.ttl = r.ttl
    BY <2>3, <2>4, <2>5 DEF In
  <2>10. \A j \in In(r) : \E k \in In(s) : k.op = j.op
    BY <2>3, <2>4, <2>5 DEF In
  <2>11. Ordered(r) => Ordered(s)
    BY <2>3, <2>4, <2>5 DEF Ordered
  <2> HIDE DEF s
  <2>7. Fit(c, s)
    BY <1>1, <2>1, <2>5, <2>6 DEF Fit
  <2>8. Change(c) /\ conn'[c] = s
    BY <2>1, <2>5, <2>7, PutChanges DEF r
  <2>9. \A k \in In(r) : k.op # "bind"
    BY <1>1, <2>1 DEF Fit
  <2> QED
    BY <1>1, <2>1, <2>5, <2>6, <2>8, <2>9, <2>10, <2>11 DEF Opened, r
<1>3. CASE Recreate(c)
  <2> DEFINE s == [r EXCEPT !.ch = "opening"]
  <2>1. Put(c, s) /\ r.ch = "broken"
    BY <1>3 DEF Recreate
  <2> HIDE DEF r
  <2>2. /\ s \in Connector /\ s.link = r.link /\ s.ch = "opening" /\ s.pipe = r.pipe
        /\ s.hangup = r.hangup /\ s.tag = r.tag /\ s.subscribed = r.subscribed
        /\ s.queueBound = r.queueBound /\ s.queue = r.queue /\ s.ttl = r.ttl
        /\ s.crossed = r.crossed
    BY <1>1 DEF Connector, Channels
  <2>3. In(r) = {} /\ In(s) = {} /\ (Ordered(r) => Ordered(s))
    <3>1. In(s) = In(r) /\ (Ordered(r) => Ordered(s))
      BY <2>2 DEF In, Ordered
    <3> QED
      BY <1>1, <2>1, <3>1 DEF Fit
  <2> HIDE DEF s
  <2>4. Fit(c, s)
    BY <1>1, <2>2, <2>3 DEF Fit
  <2>5. Change(c) /\ conn'[c] = s
    BY <2>1, <2>2, <2>4, PutChanges DEF r
  <2> QED
    BY <1>1, <2>1, <2>2, <2>3, <2>5 DEF Opened, r
<1> QED
  BY <1>2, <1>3

\* The connection closes, and takes its own queues along.
LEMMA HangUpChanges ==
    ASSUME Core, NEW c \in Connectors, HangUp(c)
    PROVE  /\ Change(c) /\ conn[c].link = "hanging" /\ conn'[c].link = "off"
           /\ conn[c].ch # "open" /\ conn'[c].ch = conn[c].ch /\ conn'[c].hangup = "no"
           /\ In(conn'[c]) = In(conn[c]) /\ conn'[c].tag = conn[c].tag
           /\ conn'[c].queue = conn[c].queue /\ conn'[c].ttl = conn[c].ttl
           /\ conn'[c].subscribed = conn[c].subscribed
           /\ conn'[c].pipe = conn[c].pipe /\ conn'[c].crossed = conn[c].crossed
           /\ DOMAIN queues' = {q \in DOMAIN queues : queues[q].owner # c}
           /\ \A q \in DOMAIN queues' : queues'[q] = queues[q]
           /\ JobStep(c, conn[c].hangup, TRUE)
           /\ UNCHANGED <<scene, dropped, calls>>
<1> DEFINE r == conn[c]
           s == [r EXCEPT !.link = "off", !.hangup = "no"]
<1>1. r \in Connector /\ Fit(c, r) /\ r.link = "hanging" /\ TypeOK /\ Put(c, s)
  BY DEF Core, TypeOK, HangUp
<1>2. JobStep(c, r.hangup, TRUE) /\ UNCHANGED <<scene, dropped, calls>>
  BY <1>1, EndedSteps DEF HangUp
<1>3. /\ DOMAIN queues' = {q \in DOMAIN queues : queues[q].owner # c}
      /\ \A q \in DOMAIN queues' : queues'[q] = queues[q]
  BY DEF HangUp, Restrict
<1> HIDE DEF r
<1>4. /\ s \in Connector /\ s.link = "off" /\ s.ch = r.ch /\ s.pipe = r.pipe
      /\ s.hangup = "no" /\ s.tag = r.tag /\ s.subscribed = r.subscribed
      /\ s.queueBound = r.queueBound /\ s.queue = r.queue /\ s.ttl = r.ttl
      /\ s.crossed = r.crossed
  BY <1>1 DEF Connector, Links
<1>5. In(s) = In(r)
  BY <1>4 DEF In
<1> HIDE DEF s
<1>6. Fit(c, s) /\ r.ch # "open"
  BY <1>1, <1>4, <1>5 DEF Fit
<1>7. Change(c) /\ conn'[c] = s
  BY <1>1, <1>4, <1>6, PutChanges DEF r
<1> QED
  BY <1>1, <1>2, <1>3, <1>4, <1>5, <1>6, <1>7 DEF r

LEMMA QueuesTyped ==
    ASSUME TypeOK
    PROVE  \A q \in DOMAIN queues : q \in Queues /\ queues[q] \in Queue
BY DEF TypeOK, Range

LEMMA WithoutQueues ==
    ASSUME TypeOK, NEW gone
    PROVE  /\ DOMAIN Without(gone) = DOMAIN queues
           /\ \A q \in DOMAIN queues :
                /\ Without(gone)[q] \in Queue
                /\ Without(gone)[q].ttl = queues[q].ttl /\ Without(gone)[q].owner = queues[q].owner
                /\ Without(gone)[q].bound = queues[q].bound
                /\ Without(gone)[q].consumers = queues[q].consumers \ gone
<1>1. DOMAIN Without(gone) = DOMAIN queues
  BY DEF Without
<1>2. ASSUME NEW q \in DOMAIN queues
      PROVE  /\ Without(gone)[q] \in Queue
             /\ Without(gone)[q].ttl = queues[q].ttl /\ Without(gone)[q].owner = queues[q].owner
             /\ Without(gone)[q].bound = queues[q].bound
             /\ Without(gone)[q].consumers = queues[q].consumers \ gone
  <2>1. queues[q] \in Queue /\ Without(gone)[q] = [queues[q] EXCEPT !.consumers = queues[q].consumers \ gone]
    BY QueuesTyped DEF Without
  <2> QED
    BY <2>1 DEF Queue
<1> QED
  BY <1>1, <1>2

LEMMA SilentQueues ==
    ASSUME TypeOK, NEW c \in Connectors
    PROVE  /\ DOMAIN Silent(c) = DOMAIN queues
           /\ \A q \in DOMAIN queues :
                /\ Silent(c)[q] \in Queue
                /\ Silent(c)[q].ttl = queues[q].ttl /\ Silent(c)[q].owner = queues[q].owner
                /\ Silent(c)[q].bound = queues[q].bound
                /\ \A u \in Silent(c)[q].consumers : u \in queues[q].consumers /\ u[1] # c
<1>1. ASSUME NEW q \in DOMAIN queues, NEW u \in queues[q].consumers, u[1] = c
      PROVE  u \in {c} \X Nat
  <2>1. u \in Connectors \X Nat
    BY QueuesTyped DEF Queue
  <2> QED
    BY <1>1, <2>1
<1> QED
  BY <1>1, WithoutQueues DEF Silent

LEMMA BrokenChanges ==
    ASSUME Core, NEW c \in Connectors, Broken(c), conn[c].ch = "open"
    PROVE  /\ Emptied(c) /\ conn[c].link = "up" /\ conn'[c].link = "up"
           /\ DOMAIN queues' = DOMAIN queues
           /\ \A q \in DOMAIN queues :
                /\ queues'[q] \in Queue
                /\ queues'[q].ttl = queues[q].ttl /\ queues'[q].owner = queues[q].owner
                /\ queues'[q].bound = queues[q].bound
                /\ \A u \in queues'[q].consumers : u \in queues[q].consumers /\ u[1] # c
           /\ JobStep(c, job.what, FALSE) /\ UNCHANGED dropped
<1> DEFINE r == conn[c]
<1>1. r \in Connector /\ Fit(c, r) /\ r.link = "up" /\ TypeOK
  BY DEF Core, TypeOK, Fit
<1> DEFINE s == [r EXCEPT !.ch = "broken", !.pipe = <<>>]
<1>2. Put(c, s)
  BY DEF Broken
<1>3. UNCHANGED dropped /\ queues' = Silent(c) /\ JobStep(c, job.what, FALSE)
  BY <1>1, RejectAllSteps DEF Broken
<1> HIDE DEF r
<1>4. /\ s \in Connector /\ s.link = r.link /\ s.ch = "broken" /\ s.pipe = <<>>
      /\ s.hangup = r.hangup /\ s.tag = r.tag /\ s.subscribed = r.subscribed
      /\ s.queueBound = r.queueBound /\ s.queue = r.queue /\ s.ttl = r.ttl
  <2>1. <<>> \in Seq(Call) /\ "broken" \in Channels
    BY DEF Channels
  <2> QED
    BY <1>1, <2>1 DEF Connector
<1>5. In(s) = {}
  BY <1>4, EmptyPipe
<1> HIDE DEF s
<1>6. Fit(c, s)
  BY <1>1, <1>4, <1>5 DEF Fit
<1>7. Change(c) /\ conn'[c] = s
  BY <1>2, <1>4, <1>6, PutChanges DEF r
<1> QED
  BY <1>1, <1>3, <1>4, <1>5, <1>7, SilentQueues DEF Emptied, r

-----------------------------------------------------------------------------
\* What a request k that is granted makes of the queues.
Afterwards(c, k, Q) ==
    /\ \A q \in DOMAIN Q : q \in Queues /\ Q[q] \in Queue
    /\ \A q \in DOMAIN Q \cap DOMAIN queues :
         /\ Q[q].ttl = queues[q].ttl /\ Q[q].owner = queues[q].owner
         /\ queues[q].bound \subseteq Q[q].bound
    /\ \A q \in DOMAIN Q \ DOMAIN queues :
         k.op = "declare" /\ q = k.queue /\ Q[q].owner = Exclusively(q, c)
    /\ \A q \in DOMAIN queues \ DOMAIN Q : k.op = "delete" /\ q = k.queue
    /\ \A q \in DOMAIN Q : \A u \in Q[q].consumers :
         /\ \/ q \in DOMAIN queues /\ u \in queues[q].consumers
            \/ k.op = "consume" /\ u = <<c, conn[c].tags + 1>>
         /\ k.op = "cancel" => u # <<c, k.tag>>
         /\ k.op = "close" => u[1] # c
    /\ k.op = "declare" => k.queue \in DOMAIN Q /\ Q[k.queue].ttl = k.ttl
    /\ k.op = "bind" => k.queue \in DOMAIN Q /\ c \in Q[k.queue].bound

LEMMA GrantedQueues ==
    ASSUME TypeOK, NEW c \in Connectors, NEW k \in Call, ~Refused(c, k)
    PROVE  Afterwards(c, k, QueuesAfter(c, k))
<1> DEFINE Q == QueuesAfter(c, k)
           name == k.queue
<1>1. name \in Queues /\ k.ttl \in Nat /\ k.op \in Ops
  BY DEF Call
<1>2. \A q \in DOMAIN queues : q \in Queues /\ queues[q] \in Queue
  BY QueuesTyped
<1>3. CASE k.op = "declare"
  <2> DEFINE new == [ttl |-> k.ttl, owner |-> Exclusively(name, c), bound |-> {}, consumers |-> {}]
  <2>1. new \in Queue
    BY <1>1 DEF Queue, Exclusively
  <2>2. Q = [q \in DOMAIN queues \cup {name} |-> IF q \in DOMAIN queues THEN queues[q] ELSE new]
    BY <1>3 DEF QueuesAfter
  <2>3. new.ttl = k.ttl /\ new.owner = Exclusively(name, c) /\ new.consumers = {}
    OBVIOUS
  <2> HIDE DEF Q, new
  <2>4. /\ DOMAIN Q = DOMAIN queues \cup {name}
        /\ \A q \in DOMAIN queues : Q[q] = queues[q]
        /\ name \notin DOMAIN queues => Q[name] = new
    BY <2>2
  <2>5. Q[name].ttl = k.ttl
    BY <1>3, <2>3, <2>4 DEF Refused
  <2> QED
    BY <1>1, <1>2, <1>3, <2>1, <2>3, <2>4, <2>5 DEF Afterwards, Q
<1>4. CASE k.op = "bind"
  <2>1. name \in DOMAIN queues
    BY <1>4 DEF Refused
  <2>2. Q = [queues EXCEPT ![name].bound = queues[name].bound \cup {c}]
    BY <1>4 DEF QueuesAfter
  <2> HIDE DEF Q
  <2>3. /\ DOMAIN Q = DOMAIN queues /\ \A q \in DOMAIN queues \ {name} : Q[q] = queues[q]
        /\ Q[name] = [queues[name] EXCEPT !.bound = queues[name].bound \cup {c}]
    BY <2>1, <2>2
  <2>4. /\ Q[name] \in Queue /\ Q[name].ttl = queues[name].ttl /\ Q[name].owner = queues[name].owner
        /\ Q[name].bound = queues[name].bound \cup {c}
        /\ Q[name].consumers = queues[name].consumers
    BY <1>2, <2>1, <2>3 DEF Queue
  <2> QED
    BY <1>2, <1>4, <2>1, <2>3, <2>4 DEF Afterwards, Q
<1>5. CASE k.op = "consume"
  <2>1. name \in DOMAIN queues
    BY <1>5 DEF Refused
  <2> DEFINE new == <<c, conn[c].tags + 1>>
  <2>2. Q = [queues EXCEPT ![name].consumers = queues[name].consumers \cup {new}]
    BY <1>5 DEF QueuesAfter
  <2>5. new \in Connectors \X Nat
    BY DEF TypeOK, Connector
  <2> HIDE DEF Q, new
  <2>3. /\ DOMAIN Q = DOMAIN queues /\ \A q \in DOMAIN queues \ {name} : Q[q] = queues[q]
        /\ Q[name] = [queues[name] EXCEPT !.consumers = queues[name].consumers \cup {new}]
    BY <2>1, <2>2
  <2>4. /\ Q[name] \in Queue /\ Q[name].ttl = queues[name].ttl /\ Q[name].owner = queues[name].owner
        /\ Q[name].bound = queues[name].bound
        /\ Q[name].consumers = queues[name].consumers \cup {new}
    BY <1>2, <2>1, <2>3, <2>5 DEF Queue
  <2> QED
    BY <1>2, <1>5, <2>1, <2>3, <2>4 DEF Afterwards, Q, new
<1>6. CASE k.op = "delete"
  <2>1. Q = Restrict(queues, DOMAIN queues \ {name})
    BY <1>6 DEF QueuesAfter
  <2>2. DOMAIN Q = DOMAIN queues \ {name} /\ \A q \in DOMAIN Q : Q[q] = queues[q]
    BY <2>1 DEF Restrict
  <2> HIDE DEF Q
  <2> QED
    BY <1>2, <1>6, <2>2 DEF Afterwards, Q
<1>7. CASE k.op = "close"
  <2>1. Q = Silent(c)
    BY <1>7 DEF QueuesAfter
  <2> HIDE DEF Q
  <2> QED
    BY <1>2, <1>7, <2>1, SilentQueues DEF Afterwards, Q
<1>9. CASE k.op = "cancel"
  <2>1. Q = Without({<<c, k.tag>>})
    BY <1>9 DEF QueuesAfter
  <2> HIDE DEF Q
  <2> QED
    BY <1>2, <1>9, <2>1, WithoutQueues DEF Afterwards, Q
<1>8. CASE k.op = "purge"
  <2>1. Q = queues
    BY <1>8 DEF QueuesAfter
  <2> HIDE DEF Q
  <2> QED
    BY <1>2, <1>8, <2>1 DEF Afterwards, Q
<1> QED
  BY <1>1, <1>3, <1>4, <1>5, <1>6, <1>7, <1>8, <1>9 DEF Ops

\* The oldest call k of a connector is granted, and answered.
Granted(c, k) ==
    /\ Change(c) /\ k \in In(conn[c]) /\ k \in Call
    /\ conn[c].ch = "open" /\ conn[c].link = "up"
    /\ conn'[c].hangup = conn[c].hangup /\ conn'[c].crossed = conn[c].crossed
    /\ conn'[c].queue = conn[c].queue /\ conn'[c].ttl = conn[c].ttl
    /\ k.op = "close" \/ \A j \in In(conn[c]) : j.op # "close"
    /\ \A j \in In(conn'[c]) :
         \/ j \in In(conn[c])
         \/ k.op = "declare" /\ j.op = "bind" /\ j.queue = k.queue /\ j.ttl = k.ttl
    /\ Ordered(conn[c]) =>
         /\ Ordered(conn'[c])
         /\ k.op = "consume" => \A j \in In(conn'[c]) : j.op \notin {"consume", "cancel"}
    /\ conn'[c].tag = IF k.op = "consume" THEN conn[c].tags + 1
                      ELSE IF k.op = "cancel" THEN 0 ELSE conn[c].tag
    /\ conn'[c].subscribed = (k.op = "bind" \/ conn[c].subscribed)
    /\ conn'[c].link = IF k.op = "close" THEN "hanging" ELSE "up"
    /\ conn'[c].ch = IF k.op = "close" THEN "none" ELSE "open"
    /\ Afterwards(c, k, queues')
    /\ dropped' = DroppedAfter(k)
    /\ k.by = "deadLetter" => JobStep(c, "deadLetter", TRUE)
    /\ k.by # "deadLetter" => JobStep(c, job.what, FALSE)

LEMMA RepliedIs ==
    ASSUME NEW c \in Connectors, NEW r \in Connector, Fit(c, r), r.ch = "open",
           NEW k \in Call, NEW t \in Connector, k \in In(r), In(t) \subseteq In(r),
           t.link = r.link, t.ch = r.ch, t.hangup = r.hangup, t.queue = r.queue,
           t.ttl = r.ttl, t.queueBound = r.queueBound, t.subscribed = r.subscribed, t.tag = r.tag,
           t.tags = r.tags, t.crossed = r.crossed
    PROVE  LET s == Replied(t, k) IN
           /\ s \in Connector /\ Fit(c, s)
           /\ s.hangup = r.hangup /\ s.queue = r.queue /\ s.ttl = r.ttl
           /\ s.crossed = r.crossed /\ (k.op # "declare" => In(s) = In(t))
           /\ Ordered(t) => Ordered(s)
           /\ \A j \in In(s) : \/ j \in In(r)
                               \/ k.op = "declare" /\ j.op = "bind" /\ j.queue = k.queue /\ j.ttl = k.ttl
           /\ s.tag = IF k.op = "consume" THEN r.tags + 1 ELSE IF k.op = "cancel" THEN 0 ELSE r.tag
           /\ s.subscribed = (k.op = "bind" \/ r.subscribed)
           /\ s.link = IF k.op = "close" THEN "hanging" ELSE r.link
           /\ s.ch = IF k.op = "close" THEN "none" ELSE "open"
<1> DEFINE s == Replied(t, k)
<1>1. k.op \in Ops /\ r.link = "up" /\ k.queue \in Names(c) /\ (k.by = "deadLetter" => k.op = "cancel")
  BY DEF Call, Fit
<1>2. CASE k.op = "declare"
  <2> DEFINE b == [k EXCEPT !.op = "bind"]
  <2>1. b \in Call /\ b.op = "bind" /\ b.by = k.by /\ b.queue = k.queue /\ b.ttl = k.ttl
    BY DEF Call, Ops
  <2>2. s = [t EXCEPT !.pipe = Append(t.pipe, b)]
    BY <1>2 DEF Replied
  <2> HIDE DEF b, s
  <2>3. t.pipe \in Seq(Call) /\ Append(t.pipe, b) \in Seq(Call)
    BY <2>1 DEF Connector
  <2>4. /\ s \in Connector /\ s.link = r.link /\ s.ch = r.ch /\ s.pipe = Append(t.pipe, b)
        /\ s.hangup = r.hangup /\ s.tag = r.tag /\ s.subscribed = r.subscribed
        /\ s.queueBound = r.queueBound /\ s.queue = r.queue /\ s.ttl = r.ttl
        /\ s.crossed = r.crossed
    BY <2>2, <2>3 DEF Connector
  <2>5. /\ DOMAIN t.pipe = 1..Len(t.pipe) /\ Len(t.pipe) \in Nat
        /\ DOMAIN s.pipe = DOMAIN t.pipe \cup {Len(t.pipe) + 1}
        /\ s.pipe[Len(t.pipe) + 1] = b
        /\ \A i \in DOMAIN t.pipe : s.pipe[i] = t.pipe[i]
    BY <2>3, <2>4
  <2>6. In(s) = In(t) \cup {b} /\ (Ordered(t) => Ordered(s))
    <3>1. In(s) = In(t) \cup {b}
      BY <2>5 DEF In
    <3>2. Ordered(t) => Ordered(s)
      BY <2>1, <2>5 DEF Ordered
    <3> QED
      BY <3>1, <3>2
  <2>7. Fit(c, s)
    BY <1>1, <1>2, <2>1, <2>4, <2>6 DEF Fit
  <2>8. s.subscribed \in BOOLEAN
    BY <2>4 DEF Connector
  <2> QED
    BY <1>2, <2>1, <2>4, <2>6, <2>7, <2>8 DEF s
<1>3. CASE k.op \in {"delete", "purge"}
  <2>1. s = t
    BY <1>3 DEF Replied
  <2>2. Fit(c, t) /\ r.subscribed \in BOOLEAN
    BY <1>1 DEF Fit, Connector
  <2> HIDE DEF s
  <2> QED
    BY <1>1, <1>3, <2>1, <2>2 DEF s
<1>4. CASE k.op = "bind"
  <2>1. s = [t EXCEPT !.queueBound = TRUE, !.subscribed = TRUE]
    BY <1>4 DEF Replied
  <2> HIDE DEF s
  <2>2. /\ s \in Connector /\ s.link = r.link /\ s.ch = r.ch /\ s.pipe = t.pipe
        /\ s.hangup = r.hangup /\ s.tag = r.tag /\ s.subscribed /\ s.queueBound
        /\ s.queue = r.queue /\ s.ttl = r.ttl /\ s.crossed = r.crossed
        /\ s.subscribed \in BOOLEAN
    BY <2>1 DEF Connector
  <2>3. In(s) = In(t) /\ (Ordered(t) => Ordered(s))
    BY <2>2 DEF In, Ordered
  <2>4. Fit(c, s)
    BY <1>1, <2>2, <2>3 DEF Fit
  <2> QED
    BY <1>1, <1>4, <2>2, <2>3, <2>4 DEF s
<1>5. CASE k.op \in {"consume", "cancel"}
  <2> DEFINE tag == IF k.op = "consume" THEN r.tags + 1 ELSE 0
             tags == IF k.op = "consume" THEN r.tags + 1 ELSE r.tags
  <2>1. s = [t EXCEPT !.tag = tag, !.tags = tags]
    <3>1. CASE k.op = "consume"
      BY <1>5, <3>1 DEF Replied
    <3>2. CASE k.op = "cancel"
      <4>1. s = [t EXCEPT !.tag = 0]
        BY <1>5, <3>2 DEF Replied
      <4> QED
        BY <3>2, <4>1 DEF Connector
    <3> QED
      BY <1>5, <3>1, <3>2
  <2>5. tag \in Nat /\ tags \in Nat
    BY DEF Connector
  <2> HIDE DEF s, tag, tags
  <2>2. /\ s \in Connector /\ s.link = r.link /\ s.ch = r.ch /\ s.pipe = t.pipe
        /\ s.hangup = r.hangup /\ s.tag = tag /\ s.subscribed = r.subscribed
        /\ s.queueBound = r.queueBound /\ s.queue = r.queue /\ s.ttl = r.ttl
        /\ s.subscribed \in BOOLEAN /\ s.crossed = r.crossed
    BY <2>1, <2>5 DEF Connector
  <2>3. In(s) = In(t) /\ (Ordered(t) => Ordered(s))
    BY <2>2 DEF In, Ordered
  <2>4. Fit(c, s)
    BY <1>1, <2>2, <2>3 DEF Fit
  <2> QED
    BY <1>1, <1>5, <2>2, <2>3, <2>4 DEF s, tag
<1>6. CASE k.op = "close"
  <2>1. s = [t EXCEPT !.ch = "none", !.link = "hanging"]
    BY <1>6 DEF Replied
  <2> HIDE DEF s
  <2>2. /\ s \in Connector /\ s.link = "hanging" /\ s.ch = "none" /\ s.pipe = t.pipe
        /\ s.hangup = r.hangup /\ s.tag = r.tag /\ s.subscribed = r.subscribed
        /\ s.queueBound = r.queueBound /\ s.queue = r.queue /\ s.ttl = r.ttl
        /\ s.subscribed \in BOOLEAN /\ s.crossed = r.crossed
    BY <2>1 DEF Connector, Links, Channels
  <2>3. In(s) = In(t) /\ (Ordered(t) => Ordered(s))
    BY <2>2 DEF In, Ordered
  <2>4. Fit(c, s)
    BY <1>1, <1>6, <2>2, <2>3 DEF Fit
  <2> QED
    BY <1>1, <1>6, <2>2, <2>3, <2>4 DEF s
<1> QED
  BY <1>1, <1>2, <1>3, <1>4, <1>5, <1>6 DEF Ops

\* The oldest call is taken out.
LEMMA TailIs ==
    ASSUME NEW r \in Connector, r.pipe # <<>>
    PROVE  LET k == Head(r.pipe)
               t == [r EXCEPT !.pipe = Tail(r.pipe)] IN
           /\ k \in Call /\ t \in Connector
           /\ t.link = r.link /\ t.ch = r.ch /\ t.hangup = r.hangup
           /\ t.tag = r.tag /\ t.subscribed = r.subscribed
           /\ t.queueBound = r.queueBound /\ t.queue = r.queue /\ t.ttl = r.ttl
           /\ t.tags = r.tags /\ t.crossed = r.crossed
           /\ k \in In(r) /\ In(t) \subseteq In(r) /\ \A j \in In(r) : j = k \/ j \in In(t)
           /\ Ordered(r) =>
                /\ Ordered(t)
                /\ k.op = "consume" => \A j \in In(t) : j.op \notin {"consume", "cancel"}
<1> DEFINE k == Head(r.pipe)
           t == [r EXCEPT !.pipe = Tail(r.pipe)]
<1>1. r.pipe \in Seq(Call) /\ k \in Call /\ Tail(r.pipe) \in Seq(Call)
  BY DEF Connector
<1>2. /\ t \in Connector /\ t.link = r.link /\ t.ch = r.ch /\ t.pipe = Tail(r.pipe)
      /\ t.hangup = r.hangup /\ t.tag = r.tag /\ t.subscribed = r.subscribed
      /\ t.queueBound = r.queueBound /\ t.queue = r.queue /\ t.ttl = r.ttl
      /\ t.tags = r.tags /\ t.crossed = r.crossed
  BY <1>1 DEF Connector
<1>3. /\ DOMAIN r.pipe = 1..Len(r.pipe) /\ Len(r.pipe) \in Nat /\ Len(r.pipe) >= 1
      /\ k = r.pipe[1] /\ DOMAIN t.pipe = 1..(Len(r.pipe) - 1)
      /\ \A i \in 1..(Len(r.pipe) - 1) : t.pipe[i] = r.pipe[i + 1]
  BY <1>1, <1>2
<1>4. \A i \in DOMAIN t.pipe : i \in Nat /\ i >= 1 /\ i + 1 \in DOMAIN r.pipe /\ t.pipe[i] = r.pipe[i + 1]
  BY <1>3
<1>5. ASSUME NEW i \in DOMAIN r.pipe, i # 1 PROVE r.pipe[i] \in In(t)
  <2>1. i - 1 \in 1..(Len(r.pipe) - 1) /\ (i - 1) + 1 = i
    BY <1>3, <1>5
  <2>2. t.pipe[i - 1] = r.pipe[i] /\ i - 1 \in DOMAIN t.pipe
    BY <1>3, <2>1
  <2> QED
    BY <2>2 DEF In
<1> HIDE DEF t, k
<1>6. k \in In(r) /\ 1 \in DOMAIN r.pipe
  <2>1. 1 \in DOMAIN r.pipe
    BY <1>3
  <2> QED
    BY <1>3, <2>1 DEF In
<1>7. In(t) \subseteq In(r)
  BY <1>4 DEF In
<1>8. \A j \in In(r) : j = k \/ j \in In(t)
  <2>1. \A i \in DOMAIN r.pipe : r.pipe[i] = k \/ r.pipe[i] \in In(t)
    BY <1>3, <1>5
  <2> QED
    BY <2>1 DEF In
<1>9. ASSUME Ordered(r) PROVE Ordered(t)
  <2>1. ASSUME NEW i \in DOMAIN t.pipe, NEW j \in DOMAIN t.pipe, i < j, t.pipe[i].op = "consume"
        PROVE  t.pipe[j].op \notin {"consume", "cancel"}
    <3>1. i + 1 \in DOMAIN r.pipe /\ j + 1 \in DOMAIN r.pipe /\ i + 1 < j + 1
          /\ r.pipe[i + 1].op = "consume" /\ t.pipe[j] = r.pipe[j + 1]
      BY <1>4, <2>1
    <3> QED
      BY <1>9, <3>1 DEF Ordered
  <2> QED
    BY <2>1 DEF Ordered
<1>10. ASSUME Ordered(r), k.op = "consume", NEW j \in In(t) PROVE j.op \notin {"consume", "cancel"}
  <2>1. PICK i \in DOMAIN t.pipe : j = t.pipe[i]
    BY DEF In
  <2>2. i + 1 \in DOMAIN r.pipe /\ j = r.pipe[i + 1] /\ 1 < i + 1 /\ r.pipe[1].op = "consume"
    BY <1>3, <1>4, <1>10, <2>1
  <2> QED
    BY <1>6, <1>10, <2>2 DEF Ordered
<1> QED
  BY <1>1, <1>2, <1>6, <1>7, <1>8, <1>9, <1>10 DEF k, t

LEMMA ServeGrants ==
    ASSUME Core, NEW c \in Connectors, Serve(c)
    PROVE  /\ conn[c].ch = "open" /\ UNCHANGED <<scene, calls>>
           /\ \/ Broken(c)
              \/ \E k : Granted(c, k)
<1> DEFINE r == conn[c]
           k == Head(r.pipe)
           t == [r EXCEPT !.pipe = Tail(r.pipe)]
<1>1. r \in Connector /\ Fit(c, r) /\ TypeOK /\ r.ch = "open" /\ r.pipe # <<>>
      /\ UNCHANGED <<scene, calls>>
  BY DEF Core, TypeOK, Serve
<1>2. CASE ~Refused(c, k)
  <2>1. /\ Put(c, Replied(t, k)) /\ queues' = QueuesAfter(c, k)
        /\ dropped' = DroppedAfter(k)
        /\ IF k.by = "deadLetter" THEN Ended(c, "deadLetter", TRUE)
           ELSE IF k.op = "close" /\ job.what = "deadLetter" THEN RejectAll(c)
           ELSE UNCHANGED <<job, list>>
    BY <1>2 DEF Serve
  <2>2. k.op = "close" \/ \A j \in In(r) : j.op # "close"
    <3>1. k.op = "close" \/ ~Waiting(c, {"close"})
      BY DEF Serve
    <3> QED
      BY <3>1, WaitingIn
  <2> HIDE DEF r
  <2>3. /\ k \in Call /\ t \in Connector
        /\ t.link = r.link /\ t.ch = r.ch /\ t.hangup = r.hangup
        /\ t.tag = r.tag /\ t.subscribed = r.subscribed
        /\ t.queueBound = r.queueBound /\ t.queue = r.queue /\ t.ttl = r.ttl
        /\ t.tags = r.tags /\ t.crossed = r.crossed
        /\ k \in In(r) /\ In(t) \subseteq In(r)
        /\ Ordered(r) =>
             /\ Ordered(t)
             /\ k.op = "consume" => \A j \in In(t) : j.op \notin {"consume", "cancel"}
    BY <1>1, TailIs
  <2> HIDE DEF t, k
  <2> DEFINE s == Replied(t, k)
  <2>5. /\ s \in Connector /\ Fit(c, s)
        /\ s.hangup = r.hangup /\ s.queue = r.queue /\ s.ttl = r.ttl
        /\ s.crossed = r.crossed /\ (k.op # "declare" => In(s) = In(t))
        /\ Ordered(t) => Ordered(s)
        /\ \A j \in In(s) : \/ j \in In(r)
                            \/ k.op = "declare" /\ j.op = "bind" /\ j.queue = k.queue /\ j.ttl = k.ttl
        /\ s.tag = IF k.op = "consume" THEN r.tags + 1 ELSE IF k.op = "cancel" THEN 0 ELSE r.tag
        /\ s.subscribed = (k.op = "bind" \/ r.subscribed)
        /\ s.link = IF k.op = "close" THEN "hanging" ELSE r.link
        /\ s.ch = IF k.op = "close" THEN "none" ELSE "open"
    BY <1>1, <2>3, RepliedIs
  <2> HIDE DEF s
  <2>6. Change(c) /\ conn'[c] = s
    BY <2>1, <2>5, PutChanges DEF s, r
  <2>7. Afterwards(c, k, queues')
    BY <1>1, <1>2, <2>1, <2>3, GrantedQueues
  <2>8. /\ k.by = "deadLetter" => JobStep(c, "deadLetter", TRUE)
        /\ k.by # "deadLetter" => JobStep(c, job.what, FALSE)
    <3>1. UNCHANGED <<job, list>> => JobStep(c, job.what, FALSE)
      BY <1>1 DEF JobStep, TypeOK
    <3> QED
      BY <1>1, <2>1, <3>1, EndedSteps, RejectAllSteps
  <2>9. r.link = "up"
    BY <1>1 DEF Fit
  <2>11. Ordered(r) =>
           /\ Ordered(s)
           /\ k.op = "consume" => \A j \in In(s) : j.op \notin {"consume", "cancel"}
    BY <2>3, <2>5
  <2>10. Granted(c, k)
    BY <1>1, <2>1, <2>2, <2>3, <2>5, <2>6, <2>7, <2>8, <2>9, <2>11 DEF Granted, r
  <2> QED
    BY <1>1, <2>10 DEF r
<1>3. CASE Refused(c, k)
  BY <1>1, <1>3 DEF Serve
<1> QED
  BY <1>2, <1>3

\* A call of a channel that is closing is served, as the broker serves k, and
\* nobody hears of it.
Skipped(c, k) ==
    /\ Change(c) /\ k \in In(conn[c]) /\ k \in Call
    /\ conn[c].ch = "open" /\ conn[c].link = "up"
    /\ conn'[c].ch = conn[c].ch /\ conn'[c].link = conn[c].link
    /\ conn'[c].queue = conn[c].queue /\ conn'[c].ttl = conn[c].ttl
    /\ conn'[c].subscribed = conn[c].subscribed /\ conn'[c].crossed = conn[c].crossed
    /\ In(conn'[c]) \subseteq In(conn[c]) /\ \E j \in In(conn'[c]) : j.op = "close"
    /\ Afterwards(c, k, queues') /\ dropped' = DroppedAfter(k)
    /\ UNCHANGED <<scene, list, job, calls>>

LEMMA ServeClosingSkips ==
    ASSUME Core, NEW c \in Connectors, ServeClosing(c)
    PROVE  \E k : Skipped(c, k)
<1> DEFINE r == conn[c]
           h == Head(r.pipe)
           t == [r EXCEPT !.pipe = Tail(r.pipe)]
<1>1. /\ r \in Connector /\ Fit(c, r) /\ TypeOK /\ r.ch = "open" /\ r.pipe # <<>>
      /\ UNCHANGED <<scene, list, job, calls>> /\ Put(c, t)
      /\ IF Refused(c, h) THEN queues' = Silent(c) /\ UNCHANGED dropped
         ELSE queues' = QueuesAfter(c, h) /\ dropped' = DroppedAfter(h)
  BY DEF Core, TypeOK, ServeClosing
<1>2. PICK j \in In(r) : j.op = "close" /\ h.op # "close"
  BY WaitingIn DEF ServeClosing
<1> HIDE DEF r
<1>3. /\ h \in Call /\ t \in Connector
      /\ t.link = r.link /\ t.ch = r.ch /\ t.hangup = r.hangup
      /\ t.tag = r.tag /\ t.subscribed = r.subscribed
      /\ t.queueBound = r.queueBound /\ t.queue = r.queue /\ t.ttl = r.ttl
      /\ t.crossed = r.crossed
      /\ h \in In(r) /\ In(t) \subseteq In(r) /\ \A i \in In(r) : i = h \/ i \in In(t)
  BY <1>1, TailIs
<1> HIDE DEF t, h
<1>4. Fit(c, t)
  BY <1>1, <1>2, <1>3 DEF Fit
<1>5. Change(c) /\ conn'[c] = t
  BY <1>1, <1>3, <1>4, PutChanges DEF r
<1>6. r.link = "up" /\ j \in In(t) /\ j \in Call
  <2>1. r.pipe \in Seq(Call)
    BY <1>1 DEF Connector
  <2>2. j \in Call
    BY <2>1 DEF In
  <2>3. j \in In(t)
    BY <1>2, <1>3
  <2> QED
    BY <1>1, <2>2, <2>3 DEF Fit
<1>7. PICK k \in In(r) : k \in Call /\ Afterwards(c, k, queues') /\ dropped' = DroppedAfter(k)
  <2>1. CASE ~Refused(c, h)
    BY <1>1, <1>3, <2>1, GrantedQueues
  <2>2. CASE Refused(c, h)
    <3>1. ~Refused(c, j)
      BY <1>2 DEF Refused
    <3>2. queues' = QueuesAfter(c, j) /\ dropped' = DroppedAfter(j)
      BY <1>1, <1>2, <2>2 DEF QueuesAfter, DroppedAfter
    <3> QED
      BY <1>1, <1>6, <3>1, <3>2, GrantedQueues
  <2> QED
    BY <2>1, <2>2
<1> QED
  BY <1>1, <1>2, <1>3, <1>5, <1>6, <1>7 DEF Skipped, r

-----------------------------------------------------------------------------
\* The calls of the add-on.
LEMMA DisconnectChanges ==
    ASSUME Core, NEW c \in Connectors, Disconnect(c)
    PROVE  /\ Change(c) /\ Hung(conn[c], conn'[c], "user") /\ conn[c].hangup = "no"
           /\ scene.hasty \/ job.what # "dispose"
           /\ UNCHANGED <<scene, list, job, queues, dropped>> /\ calls' \in 0..scene.calls
<1> DEFINE s == Disconnected(conn[c], "user")
<1>1. /\ conn[c] \in Connector /\ Fit(c, conn[c]) /\ TypeOK /\ Put(c, s)
      /\ conn[c].hangup = "no" /\ (scene.hasty \/ job.what # "dispose")
      /\ UNCHANGED <<scene, list, job, queues, dropped>> /\ Calls("disconnect")
  BY DEF Core, TypeOK, Disconnect
<1>2. s \in Connector /\ Fit(c, s) /\ Hung(conn[c], s, "user")
  BY <1>1, DisconnectedHangs
<1> HIDE DEF s
<1>3. Change(c) /\ conn'[c] = s
  BY <1>1, <1>2, PutChanges
<1> QED
  BY <1>1, <1>2, <1>3, CallsBound

Stopped == {c \in list : conn[c].tag # 0 /\ Takes(c)}

LEMMA DeadLetterChanges ==
    ASSUME Core, DeadLetter
    PROVE  /\ conn' \in [Connectors -> Connector]
           /\ \A c \in Connectors :
                /\ Fit(c, conn'[c])
                /\ conn'[c].link = conn[c].link /\ conn'[c].ch = conn[c].ch
                /\ conn'[c].hangup = conn[c].hangup /\ conn'[c].tag = conn[c].tag
                /\ conn'[c].queue = conn[c].queue /\ conn'[c].ttl = conn[c].ttl
                /\ conn'[c].subscribed = conn[c].subscribed /\ conn'[c].crossed = conn[c].crossed
                /\ (\A j \in In(conn[c]) : j.op # "consume") => Ordered(conn'[c])
                /\ \A k \in In(conn'[c]) :
                     k \in In(conn[c]) \/ (k.op = "cancel" /\ k.tag = conn[c].tag)
           /\ job' \in Job /\ job'.what = "deadLetter" /\ job'.waits = Stopped
           /\ (job'.st # "failed" => \A c \in list \ Stopped : conn[c].tag = 0)
           /\ (job'.st = "done" => Stopped = {})
           /\ UNCHANGED <<scene, list, queues, dropped, calls>>
<1>1. TypeOK /\ list \subseteq Connectors /\ \A c \in Connectors : conn[c] \in Connector /\ Fit(c, conn[c])
  BY DEF Core, TypeOK
<1>2. /\ conn' = [c \in Connectors |->
                    IF c \in Stopped THEN With(conn[c], "cancel", "deadLetter") ELSE conn[c]]
      /\ StartJob("deadLetter", Stopped, \E c \in list \ Stopped : conn[c].tag # 0)
      /\ UNCHANGED <<scene, list, queues, dropped, calls>>
  BY DEF DeadLetter, Stopped
<1>3. ASSUME NEW c \in Connectors
      PROVE  /\ conn'[c] \in Connector /\ Fit(c, conn'[c])
             /\ conn'[c].link = conn[c].link /\ conn'[c].ch = conn[c].ch
             /\ conn'[c].hangup = conn[c].hangup /\ conn'[c].tag = conn[c].tag
             /\ conn'[c].queue = conn[c].queue /\ conn'[c].ttl = conn[c].ttl
             /\ conn'[c].subscribed = conn[c].subscribed /\ conn'[c].crossed = conn[c].crossed
             /\ (\A j \in In(conn[c]) : j.op # "consume") => Ordered(conn'[c])
             /\ \A k \in In(conn'[c]) :
                     k \in In(conn[c]) \/ (k.op = "cancel" /\ k.tag = conn[c].tag)
  <2>1. CASE c \notin Stopped
    <3>1. conn'[c] = conn[c]
      BY <1>2, <2>1
    <3>2. (\A j \in In(conn[c]) : j.op # "consume") => Ordered(conn[c])
      BY DEF In, Ordered
    <3> QED
      BY <1>1, <3>1, <3>2
  <2>2. CASE c \in Stopped
    <3> DEFINE r == conn[c]
               s == With(r, "cancel", "deadLetter")
               k == Asked(r, "cancel", "deadLetter")
    <3>1. conn'[c] = s
      BY <1>2, <2>2
    <3>2. /\ s \in Connector /\ In(s) = In(r) \cup {k}
          /\ s.link = r.link /\ s.ch = r.ch /\ s.hangup = r.hangup /\ s.queue = r.queue
          /\ s.ttl = r.ttl /\ s.queueBound = r.queueBound
          /\ s.subscribed = r.subscribed /\ s.tag = r.tag /\ s.crossed = r.crossed
          /\ (\A j \in In(r) : j.op # "consume") => Ordered(s)
          /\ k.op = "cancel" /\ k.by = "deadLetter" /\ k.queue = r.queue /\ k.tag = r.tag
      <4>1. "cancel" \in Ops /\ "deadLetter" \in Callers
        BY DEF Ops, Callers
      <4> HIDE DEF r
      <4> QED
        BY <1>1, <4>1, WithAdds, AskedIs DEF r
    <3>4. r.ch \in {"opening", "open"}
      BY <2>2 DEF Stopped, Takes
    <3> HIDE DEF s, k, r
    <3>5. Fit(c, s)
      BY <1>1, <3>2, <3>4 DEF Fit, r
    <3> QED
      BY <3>1, <3>2, <3>5 DEF r
  <2> QED
    BY <2>1, <2>2
<1>4. conn' \in [Connectors -> Connector]
  BY <1>2, <1>3
<1>5. Stopped \subseteq Connectors
  BY <1>1 DEF Stopped
<1>6. job' \in Job /\ job'.what = "deadLetter" /\ job'.waits = Stopped
      /\ (job'.st # "failed" => \A c \in list \ Stopped : conn[c].tag = 0)
      /\ (job'.st = "done" => Stopped = {})
  BY <1>2, <1>5 DEF StartJob, Job
<1> QED
  BY <1>2, <1>3, <1>4, <1>6

Hanging == {c \in list : ~Ends(conn[c]) /\ ~Throws(conn[c])}

LEMMA DisposeChanges ==
    ASSUME Core, Dispose
    PROVE  /\ conn' \in [Connectors -> Connector]
           /\ \A c \in Connectors : Fit(c, conn'[c])
           /\ \A c \in list : Hung(conn[c], conn'[c], "dispose") /\ conn[c].hangup = "no"
           /\ \A c \in Connectors \ list : conn'[c] = conn[c]
           /\ job' \in Job /\ job'.what = "dispose" /\ job'.waits = Hanging
           /\ (job'.st # "failed" => \A c \in list : ~Throws(conn[c]))
           /\ (job'.st = "done" => Hanging = {})
           /\ list' = IF job'.st = "done" THEN {} ELSE list
           /\ UNCHANGED <<scene, queues, dropped, calls>>
<1>1. TypeOK /\ list \subseteq Connectors /\ \A c \in Connectors : conn[c] \in Connector /\ Fit(c, conn[c])
  BY DEF Core, TypeOK
<1>2. /\ conn' = [c \in Connectors |->
                    IF c \in list THEN Disconnected(conn[c], "dispose") ELSE conn[c]]
      /\ StartJob("dispose", Hanging, \E c \in list : Throws(conn[c]))
      /\ list' = (IF job'.st = "done" THEN {} ELSE list)
      /\ UNCHANGED <<scene, queues, dropped, calls>>
      /\ \A c \in list : conn[c].hangup = "no"
  BY DEF Dispose, Hanging
<1>3. \A c \in list : /\ Disconnected(conn[c], "dispose") \in Connector
                      /\ Fit(c, Disconnected(conn[c], "dispose"))
                      /\ Hung(conn[c], Disconnected(conn[c], "dispose"), "dispose")
  BY <1>1, DisconnectedHangs
<1>4. /\ \A c \in list : conn'[c] = Disconnected(conn[c], "dispose")
      /\ \A c \in Connectors \ list : conn'[c] = conn[c]
      /\ conn' \in [Connectors -> Connector]
  BY <1>1, <1>2, <1>3
<1>5. Hanging \subseteq Connectors
  BY <1>1 DEF Hanging
<1>6. job' \in Job /\ job'.what = "dispose" /\ job'.waits = Hanging
      /\ (job'.st # "failed" => \A c \in list : ~Throws(conn[c]))
      /\ (job'.st = "done" => Hanging = {})
  BY <1>2, <1>5 DEF StartJob, Job
<1> QED
  BY <1>1, <1>2, <1>3, <1>4, <1>6

-----------------------------------------------------------------------------
\* A step of one connector that leaves the queues alone.
LEMMA CoreKept ==
    ASSUME Core, conn' \in [Connectors -> Connector], \A d \in Connectors : Fit(d, conn'[d]),
           list' \subseteq Connectors, job' \in Job, UNCHANGED <<scene, queues, dropped>>,
           calls' \in 0..scene.calls
    PROVE  Core'
<1>1. TypeOK'
  BY DEF Core, TypeOK
<1>2. \A c \in Connectors : Fit(c, conn[c])'
  BY DEF Fit, In, Names
<1> QED
  BY <1>1, <1>2 DEF Core

LEMMA ChangeFits ==
    ASSUME Core, NEW c \in Connectors, Change(c)
    PROVE  conn' \in [Connectors -> Connector] /\ \A d \in Connectors : Fit(d, conn'[d])
BY DEF Core, Change

LEMMA CoreInit == Init => Core
<1> SUFFICES ASSUME Init PROVE Core
  OBVIOUS
<1> DEFINE r == [link |-> "unmade", ch |-> "none", pipe |-> <<>>, hangup |-> "no",
                 queue |-> HandlerQueue, autos |-> 0, ttl |-> Expiration(Expiry),
                 queueBound |-> FALSE, subscribed |-> FALSE, tag |-> 0, tags |-> 0,
                 crossed |-> FALSE]
<1>1. conn = [c \in Connectors |-> r] /\ queues = <<>>
  BY DEF Init
<1>2. Expiration(Expiry) \in Nat /\ 0 \in 0..MaxAuto /\ HandlerQueue \in Queues /\ <<>> \in Seq(Call)
  BY ExpirationIsNat, ExpiryAssumption, MaxAutoAssumption DEF Queues
<1>3. r \in Connector
  BY <1>2 DEF Connector, Links, Channels
<1>4. \A c \in Connectors : Fit(c, r)
  BY DEF Fit, In, Names
<1>5. 0 \in 0..scene.calls /\ scene \in Scenes
  BY ScenesAssumption DEF Init, Scene
<1>6. DOMAIN queues = {}
  BY <1>1
<1>7. job \in Job
  BY DEF Init, Job
<1> HIDE DEF r
<1>8. TypeOK
  BY <1>1, <1>3, <1>5, <1>6, <1>7 DEF Init, TypeOK, Range
<1> QED
  BY <1>1, <1>4, <1>6, <1>8 DEF Core

\* A request of c that changes the queues as the broker grants it.
LEMMA CoreAfterwards ==
    ASSUME Core, NEW c \in Connectors, NEW k \in Call, k \in In(conn[c]), Change(c),
           Afterwards(c, k, queues'), dropped' = DroppedAfter(k),
           job' \in Job, list' \subseteq Connectors, UNCHANGED <<scene, calls>>
    PROVE  Core'
<1>1. conn' \in [Connectors -> Connector] /\ \A d \in Connectors : Fit(d, conn'[d])
  BY ChangeFits
<1>2. DOMAIN queues' \subseteq Queues /\ Range(queues') \subseteq Queue
  BY DEF Afterwards, Range
<1>3. dropped' \subseteq Queues
  BY DEF Core, DroppedAfter, Call, TypeOK
<1>4. TypeOK'
  BY <1>1, <1>2, <1>3 DEF Core, TypeOK
<1>5. \A d \in Connectors : Fit(d, conn[d])'
  BY <1>1 DEF Fit, In, Names
<1>6. ASSUME NEW q \in DOMAIN queues' PROVE queues'[q].owner = OwnerOf(q)
  <2>1. CASE q \in DOMAIN queues
    BY <2>1 DEF Core, Afterwards
  <2>2. CASE q \notin DOMAIN queues
    <3>1. q = k.queue /\ queues'[q].owner = Exclusively(q, c)
      BY <1>6, <2>2 DEF Afterwards
    <3>2. q \in Names(c)
      BY <3>1 DEF Core, Fit
    <3> QED
      BY <3>1, <3>2, NamesAreQueues DEF Exclusively, OwnerOf
  <2> QED
    BY <2>1, <2>2
<1> QED
  BY <1>4, <1>5, <1>6 DEF Core, OwnerOf

LEMMA CoreServe ==
    ASSUME Core, NEW c \in Connectors, Serve(c)
    PROVE  Core'
<1>1. conn[c].ch = "open" /\ UNCHANGED <<scene, calls>> /\ TypeOK
  BY ServeGrants DEF Core
<1>2. CASE Broken(c)
  <2>1. /\ Emptied(c) /\ JobStep(c, job.what, FALSE) /\ UNCHANGED dropped
        /\ DOMAIN queues' = DOMAIN queues
        /\ \A q \in DOMAIN queues : queues'[q] \in Queue /\ queues'[q].owner = queues[q].owner
    BY <1>1, <1>2, BrokenChanges
  <2>2. conn' \in [Connectors -> Connector] /\ \A d \in Connectors : Fit(d, conn'[d])
    BY <2>1, ChangeFits DEF Emptied
  <2>3. DOMAIN queues' \subseteq Queues /\ Range(queues') \subseteq Queue
    BY <1>1, <2>1 DEF TypeOK, Range
  <2>4. TypeOK'
    BY <1>1, <2>1, <2>2, <2>3 DEF TypeOK, JobStep
  <2>5. \A d \in Connectors : Fit(d, conn[d])'
    BY <2>2 DEF Fit, In, Names
  <2>6. \A q \in DOMAIN queues' : queues'[q].owner = OwnerOf(q)
    BY <2>1 DEF Core
  <2> QED
    BY <2>4, <2>5, <2>6 DEF Core, OwnerOf
<1>3. ASSUME NEW k, Granted(c, k) PROVE Core'
  <2>1. job' \in Job /\ list' \subseteq Connectors
    BY <1>1, <1>3 DEF Granted, JobStep, TypeOK
  <2> QED
    BY <1>1, <1>3, <2>1, CoreAfterwards DEF Granted
<1> QED
  BY <1>2, <1>3, ServeGrants

LEMMA CoreServeClosing ==
    ASSUME Core, NEW c \in Connectors, ServeClosing(c)
    PROVE  Core'
<1>1. PICK k : Skipped(c, k)
  BY ServeClosingSkips
<1>2. job' \in Job /\ list' \subseteq Connectors
  BY <1>1 DEF Skipped, Core, TypeOK
<1> QED
  BY <1>1, <1>2, CoreAfterwards DEF Skipped

LEMMA CoreNext == Core /\ [Next]_vars => Core'
<1> SUFFICES ASSUME Core, [Next]_vars PROVE Core'
  OBVIOUS
<1>1. TypeOK /\ list \subseteq Connectors /\ job \in Job /\ calls \in 0..scene.calls
  BY CallsBound DEF Core, TypeOK
<1>2. ASSUME NEW c \in Connectors, Settings(c) PROVE Core'
  BY <1>1, <1>2, ChangeFits, CoreKept DEF Settings
<1>3. ASSUME NEW c \in Connectors, Asking(c) PROVE Core'
  BY <1>1, <1>3, ChangeFits, CoreKept DEF Asking
<1>4. ASSUME NEW c \in Connectors, Disconnect(c) PROVE Core'
  BY <1>1, <1>4, DisconnectChanges, ChangeFits, CoreKept
<1>5. CASE DeadLetter
  BY <1>1, <1>5, DeadLetterChanges, CoreKept
<1>6. CASE Dispose
  <2>1. list' \subseteq Connectors
    BY <1>1, <1>6, DisposeChanges
  <2> QED
    BY <1>1, <1>6, <2>1, DisposeChanges, CoreKept
<1>7. ASSUME NEW c \in Connectors, Dialed(c) PROVE Core'
  <2>1. Change(c) /\ UNCHANGED <<scene, list, job, queues, dropped, calls>>
    BY <1>7, DialedChanges DEF DialedTo, Dialed
  <2> QED
    BY <1>1, <2>1, ChangeFits, CoreKept
<1>8. ASSUME NEW c \in Connectors, Refuse(c) PROVE Core'
  <2>1. Change(c) /\ UNCHANGED <<scene, queues, dropped, calls>> /\ job' \in Job
        /\ list' \subseteq Connectors
    BY <1>1, <1>8, RefuseChanges DEF Emptied, JobStep
  <2> QED
    BY <1>1, <2>1, ChangeFits, CoreKept
<1>9. ASSUME NEW c \in Connectors, OpenChannel(c) \/ Recreate(c) PROVE Core'
  <2>1. Change(c) /\ UNCHANGED <<scene, list, job, queues, dropped, calls>>
    BY <1>9, OpeningOpens DEF Opened
  <2> QED
    BY <1>1, <2>1, ChangeFits, CoreKept
<1>10. ASSUME NEW c \in Connectors, HangUp(c) PROVE Core'
  <2>1. /\ Change(c) /\ UNCHANGED <<scene, dropped, calls>> /\ job' \in Job
        /\ list' \subseteq Connectors
        /\ DOMAIN queues' \subseteq DOMAIN queues
        /\ \A q \in DOMAIN queues' : queues'[q] = queues[q]
    BY <1>1, <1>10, HangUpChanges DEF JobStep
  <2>2. conn' \in [Connectors -> Connector] /\ \A d \in Connectors : Fit(d, conn'[d])
    BY <2>1, ChangeFits
  <2>3. TypeOK'
    BY <1>1, <2>1, <2>2 DEF TypeOK, Range
  <2>4. \A d \in Connectors : Fit(d, conn[d])'
    BY <2>2 DEF Fit, In, Names
  <2> QED
    BY <2>1, <2>3, <2>4 DEF Core, OwnerOf
<1>11. CASE UNCHANGED vars
  BY <1>11 DEF vars, Core, TypeOK, Range, Fit, In, Names, OwnerOf
<1> QED
  BY <1>2, <1>3, <1>4, <1>5, <1>6, <1>7, <1>8, <1>9, <1>10, <1>11,
     MakingSets, SettingSets, RequestAsks, CoreServe, CoreServeClosing DEF Next, NetworkStep

\* The facts about every connector and queue hold of every behaviour.
THEOREM CoreAlways == Spec => []Core
<1>1. Init => Core
  BY CoreInit
<1>2. Core /\ [Next]_vars => Core'
  BY CoreNext
<1> QED
  BY <1>1, <1>2, PTL DEF Spec

\* Every variable stays within its type: no queue is known by a name that
\* nobody gave it, and an expiration is never negative, whatever it is set to.
THEOREM TypeCorrect == Spec => []TypeOK
<1>1. Core => TypeOK
  BY DEF Core
<1> QED
  BY <1>1, CoreAlways, PTL

-----------------------------------------------------------------------------
\* The links of a connection that is there, or that nobody knows to be gone.
Bonds == {"up", "hanging", "left"}

\* The links of a connection that is open or may come to be.
Live == {"dialing", "refused", "up", "hanging"}

LEMMA HungLinks ==
    ASSUME NEW r, NEW s, NEW by, Hung(r, s, by)
    PROVE  /\ r.link \in Bonds => s.link \in Bonds
           /\ s.link \in Live => r.link \in Live
           /\ s.link = "up" => r.link = "up" /\ s.ch = r.ch
           /\ s.link # "unmade" => r.link # "unmade"
<1>1. CASE Ends(r)
  BY <1>1 DEF Hung
<1>2. CASE ~Ends(r) /\ Throws(r)
  BY <1>2 DEF Hung, Bonds, Live, Ends
<1>3. CASE ~Ends(r) /\ ~Throws(r) /\ r.ch = "none"
  BY <1>3 DEF Hung, Bonds, Live, Ends
<1>4. CASE ~Ends(r) /\ ~Throws(r) /\ r.ch # "none"
  BY <1>4 DEF Hung, Bonds, Live, Ends
<1> QED
  BY <1>1, <1>2, <1>3, <1>4

LEMMA GeneratedNames ==
    ASSUME Core, NEW q \in DOMAIN queues
    PROVE  q = HandlerQueue \/ (q # HandlerQueue /\ q[1] \in Connectors /\ queues[q].owner = q[1])
<1>1. q \in Queues
  BY QueuesTyped DEF Core
<1> QED
  BY <1>1, AutoNames DEF Core, OwnerOf, Queues

LEMMA BondsKept ==
    ASSUME Core, TempQueuesDie, DOMAIN queues' \subseteq DOMAIN queues,
           \A d \in Connectors : conn[d].link \in Bonds => conn'[d].link \in Bonds
    PROVE  TempQueuesDie'
<1> SUFFICES ASSUME NEW q \in DOMAIN queues', q # HandlerQueue
             PROVE  conn'[q[1]].link \in Bonds
  BY DEF TempQueuesDie, Bonds
<1>1. conn[q[1]].link \in Bonds
  BY DEF TempQueuesDie, Bonds
<1> QED
  BY <1>1, GeneratedNames

LEMMA TempAfterwards ==
    ASSUME Core, TempQueuesDie, NEW c \in Connectors, NEW k \in In(conn[c]), Change(c),
           conn'[c].link \in Bonds, Afterwards(c, k, queues')
    PROVE  TempQueuesDie'
<1> SUFFICES ASSUME NEW q \in DOMAIN queues', q # HandlerQueue
             PROVE  conn'[q[1]].link \in Bonds
  BY DEF TempQueuesDie, Bonds
<1>1. CASE q \in DOMAIN queues
  <2>1. conn[q[1]].link \in Bonds /\ q[1] \in Connectors
    BY <1>1, GeneratedNames DEF TempQueuesDie, Bonds
  <2> QED
    BY <2>1 DEF Change
<1>2. CASE q \notin DOMAIN queues
  <2>1. q = k.queue
    BY <1>2 DEF Afterwards
  <2>2. q \in Names(c)
    BY <2>1 DEF Core, Fit
  <2> QED
    BY <2>2 DEF Names
<1> QED
  BY <1>1, <1>2

LEMMA TempServe ==
    ASSUME Core, TempQueuesDie, NEW c \in Connectors, Serve(c) \/ ServeClosing(c)
    PROVE  TempQueuesDie'
<1>1. CASE Serve(c) /\ Broken(c)
  <2>1. Change(c) /\ conn'[c].link = "up" /\ DOMAIN queues' = DOMAIN queues
    BY <1>1, ServeGrants, BrokenChanges DEF Emptied
  <2> QED
    BY <2>1, BondsKept DEF Change, Bonds
<1>2. ASSUME NEW k, Granted(c, k) PROVE TempQueuesDie'
  <2>1. Change(c) /\ conn'[c].link \in Bonds /\ k \in In(conn[c]) /\ Afterwards(c, k, queues')
    BY <1>2 DEF Granted, Bonds
  <2> QED
    BY <2>1, TempAfterwards
<1>3. ASSUME NEW k, Skipped(c, k) PROVE TempQueuesDie'
  <2>1. Change(c) /\ conn'[c].link \in Bonds /\ k \in In(conn[c]) /\ Afterwards(c, k, queues')
    BY <1>3 DEF Skipped, Bonds
  <2> QED
    BY <2>1, TempAfterwards
<1> QED
  BY <1>1, <1>2, <1>3, ServeGrants, ServeClosingSkips

LEMMA TempNext == Core /\ TempQueuesDie /\ [Next]_vars => TempQueuesDie'
<1> SUFFICES ASSUME Core, TempQueuesDie, [Next]_vars PROVE TempQueuesDie'
  OBVIOUS
<1>2. ASSUME NEW c \in Connectors, Settings(c) PROVE TempQueuesDie'
  BY <1>2, BondsKept DEF Settings, Change, Bonds
<1>3. ASSUME NEW c \in Connectors, Asking(c) PROVE TempQueuesDie'
  BY <1>3, BondsKept DEF Asking, Change, Bonds
<1>4. ASSUME NEW c \in Connectors, Disconnect(c) PROVE TempQueuesDie'
  <2>1. Change(c) /\ Hung(conn[c], conn'[c], "user") /\ queues' = queues
    BY <1>4, DisconnectChanges
  <2> QED
    BY <2>1, HungLinks, BondsKept DEF Change
<1>5. CASE DeadLetter
  <2>1. queues' = queues /\ \A d \in Connectors : conn'[d].link = conn[d].link
    BY <1>5, DeadLetterChanges
  <2> QED
    BY <2>1, BondsKept
<1>6. CASE Dispose
  <2>1. /\ queues' = queues /\ \A d \in list : Hung(conn[d], conn'[d], "dispose")
        /\ \A d \in Connectors \ list : conn'[d] = conn[d]
    BY <1>6, DisposeChanges
  <2> QED
    BY <2>1, HungLinks, BondsKept
<1>7. ASSUME NEW c \in Connectors, Dialed(c) PROVE TempQueuesDie'
  <2>1. DialedTo(c) /\ queues' = queues
    BY <1>7, DialedChanges DEF Dialed
  <2> QED
    BY <2>1, BondsKept DEF DialedTo, Change, Bonds
<1>8. ASSUME NEW c \in Connectors, Refuse(c) PROVE TempQueuesDie'
  <2>1. Change(c) /\ conn[c].link = "dialing" /\ queues' = queues
    BY <1>8, RefuseChanges DEF Emptied
  <2> QED
    BY <2>1, BondsKept DEF Change, Bonds
<1>9. ASSUME NEW c \in Connectors, OpenChannel(c) \/ Recreate(c) PROVE TempQueuesDie'
  <2>1. Opened(c)
    BY <1>9, OpeningOpens
  <2> QED
    BY <2>1, BondsKept DEF Opened, Change, Bonds
<1>10. ASSUME NEW c \in Connectors, HangUp(c) PROVE TempQueuesDie'
  <2>1. Change(c) /\ DOMAIN queues' = {q \in DOMAIN queues : queues[q].owner # c}
    BY <1>10, HangUpChanges
  <2> SUFFICES ASSUME NEW q \in DOMAIN queues', q # HandlerQueue
               PROVE  conn'[q[1]].link \in Bonds
    BY DEF TempQueuesDie, Bonds
  <2>2. q[1] \in Connectors /\ q[1] # c /\ conn[q[1]].link \in Bonds
    BY <2>1, GeneratedNames DEF TempQueuesDie, Bonds
  <2> QED
    BY <2>1, <2>2 DEF Change
<1>11. CASE UNCHANGED vars
  BY <1>11 DEF vars, TempQueuesDie
<1> QED
  BY <1>2, <1>3, <1>4, <1>5, <1>6, <1>7, <1>8, <1>9, <1>10, <1>11,
     MakingSets, SettingSets, RequestAsks, TempServe DEF Next, NetworkStep

\* No generated queue outlives its connection, however often a connector is
\* renamed while one is being declared: a queue is owned by the connector that
\* its name was generated for, and goes with that one's connection.
THEOREM QueuesGoWithOwner == Spec => []TempQueuesDie
<1>1. Init => TempQueuesDie
  BY DEF Init, TempQueuesDie
<1>2. Core /\ TempQueuesDie /\ [Next]_vars => TempQueuesDie'
  BY TempNext
<1> QED
  BY <1>1, <1>2, CoreAlways, PTL DEF Spec

-----------------------------------------------------------------------------
\* Until dispose is called every connector is in the list, and the dispose that
\* is under way waits for every connection that is left.
Known ==
    ~scene.hasty =>
        /\ job.what # "dispose" => \A c \in Connectors : conn[c].link # "unmade" => c \in list
        /\ job.what = "dispose" /\ job.st = "pending" =>
             \A c \in Connectors : conn[c].link \in Live => c \in job.waits
        /\ \A c \in Connectors : conn[c].link \in Live => c \in list

\* A step that opens no connection, and ends one that the job awaits when it
\* says so.
LEMMA KnownKept ==
    ASSUME Known, TypeOK, NEW c \in Connectors, NEW by, NEW ok \in BOOLEAN,
           JobStep(c, by, ok), scene' = scene,
           ok => by = "deadLetter" \/ conn'[c].link \notin Live,
           \A d \in Connectors : /\ conn'[d].link \in Live => conn[d].link \in Live
                                 /\ conn'[d].link # "unmade" => conn[d].link # "unmade"
    PROVE  Known'
<1> SUFFICES ASSUME ~scene.hasty PROVE Known'
  BY DEF Known
<1>1. job'.what = job.what
  BY DEF JobStep
<1>2. ASSUME job'.what # "dispose", NEW d \in Connectors, conn'[d].link # "unmade"
      PROVE  d \in list'
  BY <1>1, <1>2 DEF Known, JobStep
<1>3. ASSUME job'.what = "dispose", job'.st = "pending", NEW d \in Connectors, conn'[d].link \in Live
      PROVE  d \in job'.waits
  <2>1. job.st = "pending" /\ d \in job.waits
    BY <1>1, <1>3 DEF Known, JobStep
  <2>2. CASE job'.waits = job.waits
    BY <2>1, <2>2
  <2>3. CASE job'.waits # job.waits
    <3>1. ok /\ by = "dispose"
      BY <1>1, <1>3, <2>1, <2>3 DEF JobStep
    <3> QED
      BY <1>3, <2>1, <3>1 DEF JobStep
  <2> QED
    BY <2>2, <2>3
<1>4. ASSUME NEW d \in Connectors, conn'[d].link \in Live PROVE d \in list'
  <2>1. conn[d].link \in Live /\ d \in list
    BY <1>4 DEF Known
  <2>2. CASE list' # list
    <3>1. job.what = "dispose" /\ job.st = "pending" /\ job'.st = "done"
      BY <2>2 DEF JobStep
    <3>2. ok /\ by = "dispose" /\ job.waits = {c}
      BY <3>1 DEF JobStep
    <3> QED
      BY <1>4, <2>1, <3>1, <3>2 DEF Known
  <2> QED
    BY <2>1, <2>2
<1> QED
  BY <1>2, <1>3, <1>4 DEF Known, Live

\* A step of which the add-on learns nothing.
LEMMA KnownStays ==
    ASSUME Known, UNCHANGED <<scene, job, list>>,
           \A d \in Connectors : /\ conn'[d].link \in Live => conn[d].link \in Live
                                 /\ conn'[d].link # "unmade" => conn[d].link # "unmade"
    PROVE  Known'
  BY DEF Known, Live

LEMMA KnownServe ==
    ASSUME Core, Known, NEW c \in Connectors, Serve(c) \/ ServeClosing(c)
    PROVE  Known'
<1>1. TypeOK
  BY DEF Core
<1>2. CASE Serve(c) /\ Broken(c)
  <2>1. /\ Change(c) /\ conn[c].link = "up" /\ conn'[c].link = "up" /\ scene' = scene
        /\ JobStep(c, job.what, FALSE)
    BY <1>2, ServeGrants, BrokenChanges DEF Emptied
  <2>2. \A d \in Connectors : /\ conn'[d].link \in Live => conn[d].link \in Live
                              /\ conn'[d].link # "unmade" => conn[d].link # "unmade"
    BY <2>1 DEF Change, Live
  <2> QED
    BY <1>1, <2>1, <2>2, KnownKept
<1>3. ASSUME NEW k, Granted(c, k), scene' = scene PROVE Known'
  <2>1. \A d \in Connectors : /\ conn'[d].link \in Live => conn[d].link \in Live
                              /\ conn'[d].link # "unmade" => conn[d].link # "unmade"
    BY <1>3 DEF Granted, Change, Live
  <2>2. CASE k.by = "deadLetter"
    <3>1. JobStep(c, "deadLetter", TRUE)
      BY <1>3, <2>2 DEF Granted
    <3> QED
      BY <1>1, <1>3, <2>1, <3>1, KnownKept
  <2>3. CASE k.by # "deadLetter"
    <3>1. JobStep(c, job.what, FALSE)
      BY <1>3, <2>3 DEF Granted
    <3> QED
      BY <1>1, <1>3, <2>1, <3>1, KnownKept
  <2> QED
    BY <2>2, <2>3
<1>4. ASSUME NEW k, Skipped(c, k) PROVE Known'
  BY <1>4, KnownStays DEF Skipped, Change
<1> QED
  BY <1>2, <1>3, <1>4, ServeGrants, ServeClosingSkips

LEMMA KnownDispose ==
    ASSUME Core, Known, Dispose
    PROVE  Known'
<1> SUFFICES ASSUME ~scene.hasty PROVE Known'
  BY DisposeChanges DEF Known
<1>1. /\ scene' = scene /\ job'.what = "dispose" /\ job'.waits = Hanging
      /\ job'.st = "done" => Hanging = {}
      /\ list' = IF job'.st = "done" THEN {} ELSE list
      /\ \A d \in Connectors \ list : conn'[d] = conn[d]
  BY DisposeChanges
<1>2. ASSUME NEW d \in Connectors, conn'[d].link \in Live PROVE d \in list /\ d \in Hanging
  <2>1. d \in list
    BY <1>1, <1>2 DEF Known
  <2>2. Hung(conn[d], conn'[d], "dispose") /\ conn[d].hangup = "no" /\ Fit(d, conn[d])
    BY <2>1, DisposeChanges DEF Core
  <2>3. ~Ends(conn[d])
    BY <1>2, <2>2 DEF Hung, Ends, Live, Fit
  <2>4. ~Throws(conn[d])
    BY <1>2, <2>2, <2>3 DEF Hung, Live
  <2> QED
    BY <2>1, <2>3, <2>4 DEF Hanging
<1> QED
  BY <1>1, <1>2 DEF Known, Live

LEMMA KnownNext == Core /\ Known /\ [Next]_vars => Known'
<1> SUFFICES ASSUME Core, Known, [Next]_vars PROVE Known'
  OBVIOUS
<1>1. TypeOK
  BY DEF Core
<1>2. ASSUME NEW c \in Connectors, Settings(c) PROVE Known'
  <2>1. CASE conn'[c].link = conn[c].link
    BY <1>2, <2>1 DEF Settings, Change, Known, Live
  <2>2. CASE conn'[c].link # conn[c].link /\ ~scene.hasty
    <3>1. /\ job.what # "dispose" /\ c \in list' /\ list \subseteq list' /\ UNCHANGED <<scene, job>>
          /\ \A d \in Connectors \ {c} : conn'[d] = conn[d]
      BY <1>2, <2>2 DEF Settings, Change, Known
    <3> QED
      BY <2>2, <3>1 DEF Known, Live
  <2>3. CASE scene.hasty
    BY <1>2, <2>3 DEF Settings, Known
  <2> QED
    BY <2>1, <2>2, <2>3
<1>3. ASSUME NEW c \in Connectors, Asking(c) PROVE Known'
  BY <1>3, KnownStays DEF Asking, Change
<1>4. ASSUME NEW c \in Connectors, Disconnect(c) PROVE Known'
  <2>1. /\ Change(c) /\ Hung(conn[c], conn'[c], "user") /\ UNCHANGED <<scene, job, list>>
    BY <1>4, DisconnectChanges
  <2> QED
    BY <2>1, HungLinks, KnownStays DEF Change
<1>5. CASE DeadLetter
  <2>1. /\ job.what = "none" /\ job'.what = "deadLetter" /\ UNCHANGED <<scene, list>>
        /\ \A d \in Connectors : conn'[d].link = conn[d].link
    BY <1>5, DeadLetterChanges DEF DeadLetter
  <2> QED
    BY <2>1 DEF Known, Live
<1>6. CASE Dispose
  BY <1>6, KnownDispose
<1>7. ASSUME NEW c \in Connectors, Dialed(c) PROVE Known'
  <2>1. DialedTo(c) /\ UNCHANGED <<scene, job, list>>
    BY <1>7, DialedChanges DEF Dialed
  <2>2. \A d \in Connectors : /\ conn'[d].link \in Live => conn[d].link \in Live
                              /\ conn'[d].link # "unmade" => conn[d].link # "unmade"
    BY <2>1 DEF DialedTo, Change, Live
  <2> QED
    BY <2>1, <2>2, KnownStays
<1>8. ASSUME NEW c \in Connectors, Refuse(c) PROVE Known'
  <2>1. /\ Change(c) /\ conn[c].link = "dialing" /\ scene' = scene
        /\ \E by : JobStep(c, by, FALSE)
    BY <1>8, RefuseChanges DEF Emptied
  <2>2. \A d \in Connectors : /\ conn'[d].link \in Live => conn[d].link \in Live
                              /\ conn'[d].link # "unmade" => conn[d].link # "unmade"
    BY <2>1 DEF Change, Live
  <2> QED
    BY <1>1, <2>1, <2>2, KnownKept
<1>9. ASSUME NEW c \in Connectors, OpenChannel(c) \/ Recreate(c) PROVE Known'
  <2>1. Opened(c)
    BY <1>9, OpeningOpens
  <2> QED
    BY <2>1, KnownStays DEF Opened, Change
<1>10. ASSUME NEW c \in Connectors, HangUp(c) PROVE Known'
  <2>1. /\ Change(c) /\ conn[c].link = "hanging" /\ conn'[c].link = "off" /\ scene' = scene
        /\ JobStep(c, conn[c].hangup, TRUE)
    BY <1>10, HangUpChanges
  <2>2. /\ conn'[c].link \notin Live
        /\ \A d \in Connectors : /\ conn'[d].link \in Live => conn[d].link \in Live
                                 /\ conn'[d].link # "unmade" => conn[d].link # "unmade"
    BY <2>1 DEF Change, Live
  <2> QED
    BY <1>1, <2>1, <2>2, KnownKept
<1>11. CASE UNCHANGED vars
  BY <1>11 DEF vars, Known, Live
<1> QED
  BY <1>2, <1>3, <1>4, <1>5, <1>6, <1>7, <1>8, <1>9, <1>10, <1>11,
     MakingSets, SettingSets, RequestAsks, KnownServe DEF Next, NetworkStep

LEMMA KnownInit == Init => Known
<1> SUFFICES ASSUME Init PROVE Known
  OBVIOUS
<1>1. \A c \in Connectors : conn[c].link = "unmade"
  BY DEF Init
<1>2. job.what = "none"
  BY DEF Init
<1> QED
  BY <1>1, <1>2 DEF Known, Live

LEMMA KnownAlways == Spec => []Known
<1>1. Core /\ Known /\ [Next]_vars => Known'
  BY KnownNext
<1> QED
  BY <1>1, KnownInit, CoreAlways, PTL DEF Spec

\* The add-on forgets no connector whose connection is open or may come to be:
\* dispose empties the list only when the connectors it was waiting for are off,
\* and it was waiting for all that were left.
THEOREM NobodyForgotten == Spec => []NoneForgotten
<1>1. Known => NoneForgotten
  BY DEF Known, NoneForgotten, Live
<1> QED
  BY <1>1, KnownAlways, PTL

-----------------------------------------------------------------------------
\* Whether c consumes from one of the queues qs.
Eats(c, qs) == \E q \in DOMAIN qs : \E u \in qs[q].consumers : u[1] = c

\* The connectors whose last listen crossed nothing, and whose channel is not
\* about to close.
Straight(c, cn) ==
    /\ ~scene.hasty /\ ~cn[c].crossed /\ cn[c].ch \in {"opening", "open"}
    /\ \A k \in In(cn[c]) : k.op # "close"

\* The tag is that of every consumer of c, and who cancels cancels that one;
\* before listen has ended there is none.
Solo(c, cn, qs) ==
    /\ Ordered(cn[c])
    /\ Eats(c, qs) => \A k \in In(cn[c]) :
                         k.op # "consume" /\ (k.op = "cancel" => k.tag = cn[c].tag)
    /\ \A q \in DOMAIN qs : \A u \in qs[q].consumers :
         u[1] = c => u = <<c, cn[c].tag>> /\ cn[c].tag # 0

\* Who consumes has an open channel.
Marked(c, cn, qs) ==
    /\ Eats(c, qs) => cn[c].ch = "open"
    /\ Straight(c, cn) => Solo(c, cn, qs)

Tagged(cn, qs) == \A c \in Connectors : Marked(c, cn, qs)

\* Nobody starts to consume once deadLetter has been called, and unless it has
\* failed it awaits everyone who consumes and whose listen crossed nothing.
Awaited(cn, qs, jb) ==
    /\ \A c \in Connectors : \A k \in In(cn[c]) : k.op # "consume"
    /\ jb.st \in {"pending", "done"} =>
         \A c \in Connectors : Eats(c, qs) /\ ~cn[c].crossed => c \in jb.waits
    /\ jb.st = "done" => jb.waits = {}

Silence ==
    /\ Tagged(conn, queues)
    /\ ~scene.hasty /\ job.what = "deadLetter" => Awaited(conn, queues, job)

LEMMA SilenceThen ==
    ASSUME scene' = scene, Tagged(conn', queues'),
           ~scene.hasty /\ job'.what = "deadLetter" => Awaited(conn', queues', job')
    PROVE  Silence'
<1>1. Tagged(conn, queues)'
  BY DEF Tagged, Marked, Straight, Solo, Ordered, Eats, In
<1>2. ~scene'.hasty /\ job'.what = "deadLetter" => Awaited(conn, queues, job)'
  BY DEF Awaited, Eats, In
<1> QED
  BY <1>1, <1>2 DEF Silence

\* No consumer is added for d.
Fewer(d) ==
    \A q \in DOMAIN queues' : \A u \in queues'[q].consumers :
        u[1] = d => q \in DOMAIN queues /\ u \in queues[q].consumers

LEMMA FewerEats ==
    ASSUME NEW d, Fewer(d), Eats(d, queues')
    PROVE  Eats(d, queues)
  BY DEF Fewer, Eats

\* A step in which the calls of d stay, or others come that are of no account.
LEMMA MarkedKept ==
    ASSUME NEW d \in Connectors, Marked(d, conn, queues), Fewer(d),
           conn'[d].ch = conn[d].ch, conn'[d].crossed = conn[d].crossed,
           conn'[d].tag = conn[d].tag, conn'[d].pipe = conn[d].pipe
    PROVE  Marked(d, conn', queues')
<1>1. In(conn'[d]) = In(conn[d]) /\ (Ordered(conn[d]) => Ordered(conn'[d]))
  BY DEF In, Ordered
<1>2. Eats(d, queues') => Eats(d, queues)
  BY FewerEats
<1>3. ASSUME Straight(d, conn') PROVE Solo(d, conn', queues')
  <2>1. Solo(d, conn, queues)
    BY <1>1, <1>3 DEF Straight, Marked
  <2> QED
    BY <1>1, <1>2, <2>1 DEF Solo, Fewer
<1> QED
  BY <1>2, <1>3 DEF Marked

\* A step of c, in which no one else starts to consume.
LEMMA TaggedOthers ==
    ASSUME Tagged(conn, queues), NEW c \in Connectors, Change(c), Marked(c, conn', queues'),
           \A d \in Connectors \ {c} : Fewer(d)
    PROVE  Tagged(conn', queues')
<1>1. ASSUME NEW d \in Connectors, d # c PROVE Marked(d, conn', queues')
  BY <1>1, MarkedKept DEF Tagged, Change
<1> QED
  BY <1>1 DEF Tagged

\* A channel that is neither open nor opening has no consumers.
LEMMA MarkedNone ==
    ASSUME NEW d, ~Eats(d, queues'), conn'[d].ch \notin {"opening", "open"}
    PROVE  Marked(d, conn', queues')
  BY DEF Marked, Straight

\* A step that ends a call of the job, in which no one asks to consume.
LEMMA AwaitedKept ==
    ASSUME Awaited(conn, queues, job), NEW c \in Connectors, NEW by, NEW ok \in BOOLEAN,
           JobStep(c, by, ok), job.what = "deadLetter",
           ok => by # "deadLetter" \/ conn'[c].crossed \/ ~Eats(c, queues'),
           \A d \in Connectors : /\ Eats(d, queues') /\ ~conn'[d].crossed =>
                                      Eats(d, queues) /\ ~conn[d].crossed
                                 /\ \A k \in In(conn'[d]) : k.op # "consume"
    PROVE  Awaited(conn', queues', job')
<1>1. ASSUME job'.st = "done" PROVE job'.waits = {}
  BY <1>1 DEF Awaited, JobStep
<1>2. ASSUME job'.st \in {"pending", "done"}, NEW d \in Connectors, Eats(d, queues'),
             ~conn'[d].crossed
      PROVE  d \in job'.waits
  <2>1. job.st \in {"pending", "done"} /\ d \in job.waits
    BY <1>2 DEF Awaited, JobStep
  <2>2. job.st = "pending"
    BY <2>1 DEF Awaited
  <2>3. CASE job'.waits # job.waits
    <3>1. ok /\ by = "deadLetter"
      BY <1>2, <2>2, <2>3 DEF JobStep
    <3> QED
      BY <1>2, <2>1, <3>1 DEF JobStep
  <2> QED
    BY <2>1, <2>3
<1> QED
  BY <1>1, <1>2 DEF Awaited

\* A step that leaves the job alone.
LEMMA AwaitedStays ==
    ASSUME Awaited(conn, queues, job), job' = job,
           \A d \in Connectors : /\ Eats(d, queues') /\ ~conn'[d].crossed =>
                                      Eats(d, queues) /\ ~conn[d].crossed
                                 /\ \A k \in In(conn'[d]) : k.op # "consume"
    PROVE  Awaited(conn', queues', job')
  BY DEF Awaited

\* A request that is granted leaves a connector with its one tag, or none.
LEMMA MarkedGranted ==
    ASSUME Core, NEW c \in Connectors, Marked(c, conn, queues), NEW k, Granted(c, k)
    PROVE  /\ Marked(c, conn', queues')
           /\ Straight(c, conn) /\ k.op = "cancel" => ~Eats(c, queues')
           /\ k.op # "consume" => \A d \in Connectors : Fewer(d)
           /\ \A d \in Connectors \ {c} : Fewer(d)
<1>1. /\ conn[c].tags \in Nat /\ k \in In(conn[c])
      /\ \A q \in DOMAIN queues' : \A u \in queues'[q].consumers :
           /\ \/ q \in DOMAIN queues /\ u \in queues[q].consumers
              \/ k.op = "consume" /\ u = <<c, conn[c].tags + 1>>
           /\ k.op = "cancel" => u # <<c, k.tag>>
           /\ k.op = "close" => u[1] # c
  BY DEF Core, TypeOK, Connector, Granted, Afterwards
<1>2. k.op # "consume" => \A d \in Connectors : Fewer(d)
  BY <1>1 DEF Fewer
<1>3. \A d \in Connectors \ {c} : Fewer(d)
  BY <1>1 DEF Fewer
<1>4. k.op = "close" => ~Eats(c, queues')
  BY <1>1 DEF Eats
<1>5. k.op # "consume" /\ Eats(c, queues') => Eats(c, queues)
  BY <1>2, FewerEats
<1>6. ASSUME Straight(c, conn), k.op = "cancel" PROVE ~Eats(c, queues')
  <2>1. SUFFICES ASSUME NEW q \in DOMAIN queues', NEW u \in queues'[q].consumers, u[1] = c
                 PROVE  FALSE
    BY DEF Eats
  <2>2. q \in DOMAIN queues /\ u \in queues[q].consumers /\ Eats(c, queues) /\ u # <<c, k.tag>>
    BY <1>1, <1>6, <2>1 DEF Eats
  <2>3. k.tag = conn[c].tag /\ u = <<c, conn[c].tag>>
    BY <1>1, <1>6, <2>1, <2>2 DEF Marked, Solo
  <2> QED
    BY <2>2, <2>3
<1>7. ASSUME Straight(c, conn') PROVE Solo(c, conn', queues')
  <2>1. k.op # "close" /\ Straight(c, conn)
    BY <1>7 DEF Straight, Granted
  <2>2. Solo(c, conn, queues) /\ Ordered(conn'[c])
    BY <2>1 DEF Marked, Solo, Granted
  <2>3. ASSUME NEW q \in DOMAIN queues', NEW u \in queues'[q].consumers, u[1] = c
        PROVE  u = <<c, conn'[c].tag>> /\ conn'[c].tag # 0
    <3>1. Eats(c, queues')
      BY <2>3 DEF Eats
    <3>2. k.op # "cancel"
      BY <1>6, <2>1, <3>1
    <3>3. CASE q \in DOMAIN queues /\ u \in queues[q].consumers
      <4>1. Eats(c, queues) /\ u = <<c, conn[c].tag>> /\ conn[c].tag # 0
        BY <2>2, <2>3, <3>3 DEF Eats, Solo
      <4>2. k.op # "consume"
        BY <1>1, <2>2, <4>1 DEF Solo
      <4> QED
        BY <3>2, <4>1, <4>2 DEF Granted
    <3>4. CASE k.op = "consume" /\ u = <<c, conn[c].tags + 1>>
      BY <1>1, <3>4 DEF Granted
    <3> QED
      BY <1>1, <3>3, <3>4
  <2>4. ASSUME Eats(c, queues'), NEW j \in In(conn'[c])
        PROVE  j.op # "consume" /\ (j.op = "cancel" => j.tag = conn'[c].tag)
    <3>1. CASE k.op = "consume"
      BY <2>2, <2>4, <3>1 DEF Solo, Granted
    <3>2. CASE k.op # "consume"
      <4>1. Eats(c, queues) /\ k.op # "cancel"
        BY <1>5, <1>6, <2>1, <2>4, <3>2
      <4>2. conn'[c].tag = conn[c].tag /\ (j \in In(conn[c]) \/ j.op = "bind")
        BY <2>4, <3>2, <4>1 DEF Granted
      <4> QED
        BY <2>2, <4>1, <4>2 DEF Solo
    <3> QED
      BY <3>1, <3>2
  <2> QED
    BY <2>2, <2>3, <2>4 DEF Solo
<1>8. Eats(c, queues') => conn'[c].ch = "open"
  BY <1>4 DEF Granted
<1> QED
  BY <1>2, <1>3, <1>6, <1>7, <1>8 DEF Marked

LEMMA SilenceServe ==
    ASSUME Core, Silence, NEW c \in Connectors, Serve(c)
    PROVE  Silence'
<1>1. scene' = scene /\ Tagged(conn, queues)
  BY ServeGrants DEF Silence
<1>2. CASE Broken(c)
  <2>1. /\ Emptied(c) /\ Change(c) /\ JobStep(c, job.what, FALSE)
        /\ DOMAIN queues' = DOMAIN queues
        /\ \A q \in DOMAIN queues : \A u \in queues'[q].consumers :
             u \in queues[q].consumers /\ u[1] # c
    BY <1>2, ServeGrants, BrokenChanges DEF Emptied
  <2>2. ~Eats(c, queues') /\ \A d \in Connectors : Fewer(d)
    BY <2>1 DEF Eats, Fewer
  <2>3. Tagged(conn', queues')
    BY <1>1, <2>1, <2>2, MarkedNone, TaggedOthers DEF Emptied
  <2>4. ASSUME ~scene.hasty, job'.what = "deadLetter" PROVE Awaited(conn', queues', job')
    <3>1. job.what = "deadLetter" /\ Awaited(conn, queues, job)
      BY <2>1, <2>4 DEF JobStep, Silence
    <3>2. \A d \in Connectors : \A k \in In(conn'[d]) : k.op # "consume"
      BY <2>1, <3>1 DEF Emptied, Change, Awaited
    <3>3. \A d \in Connectors : Eats(d, queues') => Eats(d, queues) /\ conn'[d] = conn[d]
      BY <2>1, <2>2, FewerEats DEF Change
    <3> QED
      BY <2>1, <3>1, <3>2, <3>3, AwaitedKept
  <2> QED
    BY <1>1, <2>3, <2>4, SilenceThen
<1>3. ASSUME NEW k, Granted(c, k) PROVE Silence'
  <2>1. /\ Marked(c, conn', queues')
        /\ Straight(c, conn) /\ k.op = "cancel" => ~Eats(c, queues')
        /\ k.op # "consume" => \A d \in Connectors : Fewer(d)
        /\ \A d \in Connectors \ {c} : Fewer(d)
    BY <1>1, <1>3, MarkedGranted DEF Tagged
  <2>2. Change(c) /\ k \in In(conn[c]) /\ conn'[c].crossed = conn[c].crossed
    BY <1>3 DEF Granted
  <2>3. Tagged(conn', queues')
    BY <1>1, <2>1, <2>2, TaggedOthers
  <2>4. ASSUME ~scene.hasty, job'.what = "deadLetter" PROVE Awaited(conn', queues', job')
    <3>1. job.what = "deadLetter" /\ Awaited(conn, queues, job)
      BY <1>3, <2>4 DEF Granted, JobStep, Silence
    <3>2. /\ k.op # "consume"
          /\ \A d \in Connectors : \A j \in In(conn'[d]) : j.op # "consume"
      BY <1>3, <2>2, <3>1 DEF Granted, Change, Awaited
    <3>3. \A d \in Connectors : /\ Eats(d, queues') => Eats(d, queues)
                                 /\ conn'[d].crossed = conn[d].crossed
      BY <2>1, <2>2, <3>2, FewerEats DEF Change
    <3>4. CASE k.by = "deadLetter"
      <4>1. k.op = "cancel" /\ JobStep(c, "deadLetter", TRUE)
        BY <1>3, <2>2, <3>4 DEF Granted, Core, Fit
      <4>2. ~conn[c].crossed => Straight(c, conn)
        BY <1>3, <2>4, <4>1 DEF Straight, Granted
      <4> QED
        BY <2>1, <3>1, <3>2, <3>3, <4>1, <4>2, AwaitedKept
    <3>5. CASE k.by # "deadLetter"
      <4>1. JobStep(c, job.what, FALSE)
        BY <1>3, <3>5 DEF Granted
      <4> QED
        BY <3>1, <3>2, <3>3, <4>1, AwaitedKept
    <3> QED
      BY <3>4, <3>5
  <2> QED
    BY <1>1, <2>3, <2>4, SilenceThen
<1> QED
  BY <1>2, <1>3, ServeGrants

\* Who is served while the channel closes may start to consume, until it closes.
LEMMA SilenceServeClosing ==
    ASSUME Core, Silence, NEW c \in Connectors, ServeClosing(c)
    PROVE  Silence'
<1>1. PICK k : Skipped(c, k)
  BY ServeClosingSkips
<1>2. /\ Change(c) /\ UNCHANGED <<scene, job>> /\ Tagged(conn, queues) /\ k \in In(conn[c])
      /\ conn'[c].ch = "open" /\ In(conn'[c]) \subseteq In(conn[c])
      /\ conn'[c].crossed = conn[c].crossed
  BY <1>1 DEF Skipped, Silence
<1>3. Marked(c, conn', queues')
  BY <1>1 DEF Skipped, Marked, Straight
<1>4. /\ k.op # "consume" => \A d \in Connectors : Fewer(d)
      /\ \A d \in Connectors \ {c} : Fewer(d)
  BY <1>1 DEF Skipped, Afterwards, Fewer
<1>5. Tagged(conn', queues')
  BY <1>2, <1>3, <1>4, TaggedOthers
<1>6. ASSUME ~scene.hasty, job'.what = "deadLetter" PROVE Awaited(conn', queues', job')
  <2>1. Awaited(conn, queues, job)
    BY <1>2, <1>6 DEF Silence
  <2>2. k.op # "consume" /\ \A d \in Connectors : \A j \in In(conn'[d]) : j.op # "consume"
    BY <1>2, <2>1 DEF Awaited, Change
  <2>3. \A d \in Connectors : /\ Eats(d, queues') => Eats(d, queues)
                               /\ conn'[d].crossed = conn[d].crossed
    BY <1>2, <1>4, <2>2, FewerEats DEF Change
  <2> QED
    BY <1>2, <2>1, <2>2, <2>3, AwaitedStays
<1> QED
  BY <1>2, <1>5, <1>6, SilenceThen

\* The guard of DeadLetter keeps those apart who are about to consume, or to
\* close their channel.
LEMMA SilenceDeadLetter ==
    ASSUME Core, Known, Silence, DeadLetter
    PROVE  Silence'
<1>1. /\ job'.what = "deadLetter" /\ job'.waits = Stopped /\ UNCHANGED <<scene, list, queues>>
      /\ job'.st # "failed" => \A c \in list \ Stopped : conn[c].tag = 0
      /\ job'.st = "done" => Stopped = {}
      /\ \A c \in Connectors :
           /\ conn'[c].ch = conn[c].ch /\ conn'[c].tag = conn[c].tag
           /\ conn'[c].crossed = conn[c].crossed
           /\ (\A j \in In(conn[c]) : j.op # "consume") => Ordered(conn'[c])
           /\ \A k \in In(conn'[c]) :
                k \in In(conn[c]) \/ (k.op = "cancel" /\ k.tag = conn[c].tag)
  BY DeadLetterChanges
<1>2. ASSUME ~scene.hasty, NEW c \in Connectors, c \notin list
      PROVE  In(conn[c]) = {} /\ conn[c].ch = "none"
  <2>1. conn[c].link = "unmade" /\ Fit(c, conn[c])
    BY <1>2 DEF DeadLetter, Known, Core
  <2> QED
    BY <2>1 DEF Fit
<1>3. ASSUME ~scene.hasty, NEW c \in Connectors, NEW k \in In(conn[c])
      PROVE  k.op \notin {"consume", "close"}
  <2>1. c \in list => ~Waiting(c, {"consume", "close"})
    BY <1>3 DEF DeadLetter
  <2> QED
    BY <1>2, <1>3, <2>1, WaitingIn
<1>4. ASSUME NEW c \in Connectors PROVE Marked(c, conn', queues')
  <2>1. Marked(c, conn, queues) /\ (Eats(c, queues') => Eats(c, queues))
    BY <1>1 DEF Silence, Tagged
  <2>2. ASSUME Straight(c, conn') PROVE Solo(c, conn', queues')
    <3>1. Straight(c, conn) /\ Ordered(conn'[c])
      BY <1>1, <1>3, <2>2 DEF Straight
    <3>2. Solo(c, conn, queues)
      BY <2>1, <3>1 DEF Marked
    <3> QED
      BY <1>1, <3>1, <3>2 DEF Solo
  <2> QED
    BY <1>1, <2>1, <2>2 DEF Marked
<1>5. ASSUME ~scene.hasty PROVE Awaited(conn', queues', job')
  <2>1. \A c \in Connectors : \A k \in In(conn'[c]) : k.op # "consume"
    <3> SUFFICES ASSUME NEW c \in Connectors, NEW k \in In(conn'[c]) PROVE k.op # "consume"
      OBVIOUS
    <3>1. k \in In(conn[c]) \/ k.op = "cancel"
      BY <1>1
    <3> QED
      BY <1>3, <1>5, <3>1
  <2>2. ASSUME NEW c \in Connectors, Eats(c, queues'), ~conn'[c].crossed,
               job'.st \in {"pending", "done"}
        PROVE  c \in job'.waits
    <3>1. Eats(c, queues) /\ ~conn[c].crossed /\ Marked(c, conn, queues)
      BY <1>1, <2>2 DEF Silence, Tagged
    <3>2. conn[c].ch = "open" /\ Straight(c, conn)
      BY <1>3, <1>5, <3>1 DEF Marked, Straight
    <3>3. conn[c].tag # 0
      BY <3>1, <3>2 DEF Marked, Solo, Eats
    <3>4. c \in list
      BY <1>2, <1>5, <3>2
    <3> QED
      BY <1>1, <2>2, <3>3, <3>4
  <2> QED
    BY <1>1, <2>1, <2>2 DEF Awaited
<1>6. Tagged(conn', queues')
  BY <1>4 DEF Tagged
<1> QED
  BY <1>1, <1>5, <1>6, SilenceThen

\* disconnect leaves no channel that could be taken for one that stays.
LEMMA MarkedHung ==
    ASSUME NEW d \in Connectors, Marked(d, conn, queues), NEW by, Hung(conn[d], conn'[d], by),
           queues' = queues
    PROVE  Marked(d, conn', queues')
<1>1. Fewer(d)
  BY DEF Fewer
<1>2. CASE Ends(conn[d])
  BY <1>1, <1>2, MarkedKept DEF Hung
<1>3. CASE ~Ends(conn[d]) /\ (Throws(conn[d]) \/ conn[d].ch = "none")
  <2>1. conn[d].ch # "open" /\ conn'[d].ch = "none"
    BY <1>3 DEF Hung
  <2>2. ~Eats(d, queues')
    BY <2>1 DEF Marked
  <2> QED
    BY <2>1, <2>2, MarkedNone
<1>4. CASE ~Ends(conn[d]) /\ ~Throws(conn[d]) /\ conn[d].ch # "none"
  <2>1. conn'[d].ch = conn[d].ch /\ \E k \in In(conn'[d]) : k.op = "close"
    BY <1>4 DEF Hung
  <2> QED
    BY <2>1 DEF Marked, Straight
<1> QED
  BY <1>2, <1>3, <1>4

\* A request keeps a connector with its one tag, unless it crosses a listen.
LEMMA MarkedAsking ==
    ASSUME Core, NEW c \in Connectors, Marked(c, conn, queues), Asking(c)
    PROVE  Marked(c, conn', queues')
<1>1. PICK k \in Call :
        /\ In(conn'[c]) = In(conn[c]) \cup {k} /\ k.tag = conn[c].tag
        /\ conn'[c].crossed <=> Crosses(c, k)
        /\ \/ Ordered(conn[c]) /\ k.op \notin {"consume", "cancel"}
           \/ \A j \in In(conn[c]) : j.op # "consume"
           => Ordered(conn'[c])
  BY DEF Asking
<1>2. /\ queues' = queues /\ conn'[c].tag = conn[c].tag
      /\ conn[c].ch = "open" => conn'[c].ch = "open"
      /\ conn[c].ch \in {"opening", "open"} \/ In(conn[c]) = {}
  BY DEF Asking
<1>3. Eats(c, queues) <=> Consumes(c)
  BY DEF Eats, Consumes
<1>4. Waiting(c, {"consume"}) <=> \E j \in In(conn[c]) : j.op = "consume"
  BY WaitingIn
<1>5. ASSUME Straight(c, conn') PROVE Solo(c, conn', queues')
  <2>1. ~Crosses(c, k) /\ ~scene.hasty /\ \A j \in In(conn[c]) : j.op # "close"
    BY <1>1, <1>5 DEF Straight
  <2>2. CASE k.op = "consume"
    <3>1. ~Eats(c, queues) /\ \A j \in In(conn[c]) : j.op # "consume"
      BY <1>3, <1>4, <2>1, <2>2 DEF Crosses
    <3> QED
      BY <1>1, <1>2, <3>1 DEF Solo, Eats
  <2>3. CASE k.op # "consume" /\ conn[c].ch \in {"opening", "open"}
    <3>1. ~conn[c].crossed /\ (k.op = "cancel" => \A j \in In(conn[c]) : j.op # "consume")
      BY <1>4, <2>1, <2>3 DEF Crosses
    <3>2. Solo(c, conn, queues)
      BY <2>1, <2>3, <3>1 DEF Marked, Straight
    <3>3. Ordered(conn'[c])
      BY <1>1, <2>3, <3>1, <3>2 DEF Solo
    <3> QED
      BY <1>1, <1>2, <2>3, <3>2, <3>3 DEF Solo
  <2>4. CASE k.op # "consume" /\ conn[c].ch \notin {"opening", "open"}
    <3>1. ~Eats(c, queues) /\ In(conn[c]) = {}
      BY <1>2, <2>4 DEF Marked
    <3> QED
      BY <1>1, <1>2, <3>1 DEF Solo, Eats
  <2> QED
    BY <2>2, <2>3, <2>4
<1> QED
  BY <1>2, <1>5 DEF Marked

\* A channel that opens has no consumers yet.
LEMMA MarkedOpened ==
    ASSUME NEW c \in Connectors, Marked(c, conn, queues), Opened(c)
    PROVE  Marked(c, conn', queues')
<1>1. ~Eats(c, queues')
  BY DEF Opened, Marked
<1>2. ASSUME Straight(c, conn') PROVE Ordered(conn'[c])
  <2>1. CASE conn[c].ch = "opening"
    <3>1. Straight(c, conn)
      BY <1>2, <2>1 DEF Straight, Opened
    <3> QED
      BY <3>1 DEF Marked, Solo, Opened
  <2>2. CASE In(conn'[c]) = {}
    BY <2>2 DEF In, Ordered
  <2> QED
    BY <2>1, <2>2 DEF Opened
<1> QED
  BY <1>1, <1>2 DEF Marked, Solo, Eats

\* A step of c that leaves the queues and the job alone, and asks for nothing
\* once deadLetter has been called.
LEMMA SilenceStays ==
    ASSUME Silence, NEW c \in Connectors, Change(c), UNCHANGED <<scene, job, queues>>,
           Marked(c, conn', queues'),
           ~scene.hasty /\ job.what = "deadLetter" =>
             /\ ~conn'[c].crossed => ~conn[c].crossed
             /\ \A k \in In(conn'[c]) : k.op = "consume" => \E j \in In(conn[c]) : j.op = "consume"
    PROVE  Silence'
<1>1. Tagged(conn', queues')
  BY TaggedOthers DEF Silence, Fewer
<1>2. ASSUME ~scene.hasty, job'.what = "deadLetter" PROVE Awaited(conn', queues', job')
  <2>1. Awaited(conn, queues, job)
    BY <1>2 DEF Silence
  <2>2. \A d \in Connectors : \A k \in In(conn'[d]) : k.op # "consume"
    BY <1>2, <2>1 DEF Awaited, Change
  <2>3. \A d \in Connectors : ~conn'[d].crossed => ~conn[d].crossed
    BY <1>2 DEF Change
  <2> QED
    BY <2>1, <2>2, <2>3, AwaitedStays
<1> QED
  BY <1>1, <1>2, SilenceThen

LEMMA SilenceRefuse ==
    ASSUME Core, Silence, NEW c \in Connectors, Refuse(c)
    PROVE  Silence'
<1>1. /\ Emptied(c) /\ Change(c) /\ In(conn'[c]) = {} /\ conn[c].link = "dialing"
      /\ UNCHANGED <<scene, queues>> /\ JobStep(c, job.what, FALSE)
  BY RefuseChanges DEF Emptied
<1>2. conn[c].ch # "open"
  BY <1>1 DEF Core, Fit
<1>3. ~Eats(c, queues')
  BY <1>1, <1>2 DEF Silence, Tagged, Marked
<1>4. Tagged(conn', queues')
  BY <1>1, <1>3, MarkedNone, TaggedOthers DEF Silence, Emptied, Fewer
<1>5. ASSUME ~scene.hasty, job'.what = "deadLetter" PROVE Awaited(conn', queues', job')
  <2>1. job.what = "deadLetter" /\ Awaited(conn, queues, job)
    BY <1>1, <1>5 DEF JobStep, Silence
  <2>2. \A d \in Connectors : /\ \A k \in In(conn'[d]) : k.op # "consume"
                              /\ Eats(d, queues') => conn'[d] = conn[d]
    BY <1>1, <1>3, <2>1 DEF Change, Awaited
  <2> QED
    BY <1>1, <2>1, <2>2, AwaitedKept
<1> QED
  BY <1>1, <1>4, <1>5, SilenceThen

LEMMA SilenceHangUp ==
    ASSUME Core, Silence, NEW c \in Connectors, HangUp(c)
    PROVE  Silence'
<1>1. /\ Change(c) /\ conn[c].ch # "open" /\ In(conn'[c]) = In(conn[c]) /\ scene' = scene
      /\ conn'[c].ch = conn[c].ch /\ conn'[c].tag = conn[c].tag
      /\ conn'[c].pipe = conn[c].pipe /\ conn'[c].crossed = conn[c].crossed
      /\ DOMAIN queues' \subseteq DOMAIN queues
      /\ \A q \in DOMAIN queues' : queues'[q] = queues[q]
      /\ JobStep(c, conn[c].hangup, TRUE)
  BY HangUpChanges
<1>2. \A d \in Connectors : Fewer(d)
  BY <1>1 DEF Fewer
<1>3. ~Eats(c, queues')
  BY <1>1, <1>2, FewerEats DEF Silence, Tagged, Marked
<1>4. Marked(c, conn', queues')
  BY <1>1, <1>2, MarkedKept DEF Silence, Tagged
<1>5. Tagged(conn', queues')
  BY <1>1, <1>2, <1>4, TaggedOthers DEF Silence
<1>6. ASSUME ~scene.hasty, job'.what = "deadLetter" PROVE Awaited(conn', queues', job')
  <2>1. job.what = "deadLetter" /\ Awaited(conn, queues, job)
    BY <1>1, <1>6 DEF JobStep, Silence
  <2>2. \A d \in Connectors : /\ \A k \in In(conn'[d]) : k.op # "consume"
                              /\ Eats(d, queues') => Eats(d, queues)
                              /\ conn'[d].crossed = conn[d].crossed
    BY <1>1, <1>2, <2>1, FewerEats DEF Change, Awaited
  <2> QED
    BY <1>1, <1>3, <2>1, <2>2, AwaitedKept
<1> QED
  BY <1>1, <1>5, <1>6, SilenceThen

LEMMA SilenceDispose ==
    ASSUME Core, Silence, Dispose
    PROVE  Silence'
<1>1. /\ job'.what = "dispose" /\ UNCHANGED <<scene, queues>>
      /\ \A d \in list : Hung(conn[d], conn'[d], "dispose")
      /\ \A d \in Connectors \ list : conn'[d] = conn[d]
  BY DisposeChanges
<1>2. ASSUME NEW d \in Connectors PROVE Marked(d, conn', queues')
  <2>1. Marked(d, conn, queues) /\ Fewer(d)
    BY <1>1 DEF Silence, Tagged, Fewer
  <2>2. CASE d \in list
    BY <1>1, <2>1, <2>2, MarkedHung
  <2>3. CASE d \notin list
    BY <1>1, <2>1, <2>3, MarkedKept
  <2> QED
    BY <2>2, <2>3
<1>3. Tagged(conn', queues')
  BY <1>2 DEF Tagged
<1> QED
  BY <1>1, <1>3, SilenceThen

LEMMA SilenceNext == Core /\ Known /\ Silence /\ [Next]_vars => Silence'
<1> SUFFICES ASSUME Core, Known, Silence, [Next]_vars PROVE Silence'
  OBVIOUS
<1>1. \A c \in Connectors : Marked(c, conn, queues) /\ (queues' = queues => Fewer(c))
  BY DEF Silence, Tagged, Fewer
<1>2. ASSUME NEW c \in Connectors, Settings(c) PROVE Silence'
  <2>1. /\ UNCHANGED <<scene, job, queues>> /\ Change(c) /\ In(conn'[c]) = In(conn[c])
        /\ conn'[c].ch = conn[c].ch /\ conn'[c].crossed = conn[c].crossed
        /\ conn'[c].tag = conn[c].tag /\ conn'[c].pipe = conn[c].pipe
    BY <1>2 DEF Settings
  <2>2. Marked(c, conn', queues')
    BY <1>1, <2>1, MarkedKept
  <2> QED
    BY <2>1, <2>2, SilenceStays
<1>3. ASSUME NEW c \in Connectors, Asking(c) PROVE Silence'
  <2>1. PICK k \in Call : /\ In(conn'[c]) = In(conn[c]) \cup {k}
                          /\ k.op = "consume" => scene.hasty \/ job.what = "none"
                          /\ conn'[c].crossed <=> Crosses(c, k)
    BY <1>3 DEF Asking
  <2>2. UNCHANGED <<scene, job, queues>> /\ Change(c)
    BY <1>3 DEF Asking
  <2>3. Marked(c, conn', queues')
    BY <1>1, <1>3, MarkedAsking
  <2>4. k.op # "consume" /\ conn[c].crossed => conn'[c].crossed
    BY <2>1 DEF Crosses
  <2> QED
    BY <2>1, <2>2, <2>3, <2>4, SilenceStays
<1>4. ASSUME NEW c \in Connectors, Disconnect(c) PROVE Silence'
  <2>1. Change(c) /\ Hung(conn[c], conn'[c], "user") /\ UNCHANGED <<scene, job, queues>>
    BY <1>4, DisconnectChanges
  <2>2. /\ \A k \in In(conn'[c]) : k.op = "consume" => k \in In(conn[c])
        /\ conn'[c].crossed = conn[c].crossed
    BY <2>1 DEF Hung
  <2>3. Marked(c, conn', queues')
    BY <1>1, <2>1, MarkedHung
  <2> QED
    BY <2>1, <2>2, <2>3, SilenceStays
<1>5. CASE DeadLetter
  BY <1>5, SilenceDeadLetter
<1>6. CASE Dispose
  BY <1>6, SilenceDispose
<1>7. ASSUME NEW c \in Connectors, Dialed(c) PROVE Silence'
  <2>1. DialedTo(c) /\ UNCHANGED <<scene, job, queues>>
    BY <1>7, DialedChanges DEF Dialed
  <2>2. Marked(c, conn', queues')
    BY <1>1, <2>1, MarkedKept DEF DialedTo
  <2> QED
    BY <2>1, <2>2, SilenceStays DEF DialedTo
<1>8. ASSUME NEW c \in Connectors, Refuse(c) PROVE Silence'
  BY <1>8, SilenceRefuse
<1>9. ASSUME NEW c \in Connectors, OpenChannel(c) \/ Recreate(c) PROVE Silence'
  <2>1. Opened(c)
    BY <1>9, OpeningOpens
  <2>2. Marked(c, conn', queues')
    BY <1>1, <2>1, MarkedOpened
  <2> QED
    BY <2>1, <2>2, SilenceStays DEF Opened
<1>10. ASSUME NEW c \in Connectors, HangUp(c) PROVE Silence'
  BY <1>10, SilenceHangUp
<1>11. CASE UNCHANGED vars
  <2>1. Tagged(conn', queues') /\ scene' = scene
    BY <1>11 DEF vars, Silence
  <2> QED
    BY <1>11, <2>1, SilenceThen DEF vars, Silence
<1> QED
  BY <1>2, <1>3, <1>4, <1>5, <1>6, <1>7, <1>8, <1>9, <1>10, <1>11,
     MakingSets, SettingSets, RequestAsks, SilenceServe, SilenceServeClosing DEF Next, NetworkStep

\* When deadLetter is fulfilled none of the connectors consumes any more, but
\* those whose last listen crossed another one or a stopListen: who consumes
\* otherwise has the tag of its consumer, everyone with a tag is asked and
\* awaited, and those whose channel breaks meanwhile reject deadLetter.
THEOREM NobodyConsumes == Spec => []DeadLettered
<1>1. Init => Silence
  <2> SUFFICES ASSUME Init PROVE Silence
    OBVIOUS
  <2>1. /\ job.what = "none" /\ \A c \in Connectors : ~Eats(c, queues)
        /\ \A c \in Connectors : conn[c].ch = "none"
    BY DEF Init, Eats
  <2> QED
    BY <2>1 DEF Silence, Tagged, Marked, Straight
<1>2. Core /\ Known /\ Silence /\ [Next]_vars => Silence'
  BY SilenceNext
<1>3. Core /\ Silence => DeadLettered
  <2>1. Core => list \subseteq Connectors
    BY DEF Core, TypeOK
  <2> QED
    BY <2>1 DEF Silence, Awaited, Eats, DeadLettered, Consumes
<1> QED
  BY <1>1, <1>2, <1>3, CoreAlways, KnownAlways, PTL DEF Spec

-----------------------------------------------------------------------------
\* A request to declare or to bind is about the queue and the expiration that
\* its connector says, as nobody sets them meanwhile.
Agreed(cn) ==
    ~scene.hasty => \A c \in Connectors : \A k \in In(cn[c]) :
        k.op \in {"declare", "bind"} => k.queue = cn[c].queue /\ k.ttl = cn[c].ttl

\* The queue that is going to be bound is there, and as it was declared.
Declared(cn, qs, gone) ==
    \A c \in Connectors : cn[c].link = "up" => \A k \in In(cn[c]) : k.op = "bind" =>
        k.queue \in gone \/ (k.queue \in DOMAIN qs /\ qs[k.queue].ttl = k.ttl)

\* BoundAsSaid of these connectors and queues.
Bound(cn, qs, gone) ==
    ~scene.hasty => \A c \in Connectors :
        cn[c].subscribed /\ cn[c].link = "up" /\ cn[c].queue \notin gone =>
            /\ cn[c].queue \in DOMAIN qs
            /\ c \in qs[cn[c].queue].bound /\ cn[c].ttl = qs[cn[c].queue].ttl

Bindings == Agreed(conn) /\ Declared(conn, queues, dropped) /\ Bound(conn, queues, dropped)

LEMMA BindingsThen ==
    ASSUME scene' = scene, Agreed(conn'), Declared(conn', queues', dropped'),
           Bound(conn', queues', dropped')
    PROVE  Bindings'
  BY DEF Bindings, Agreed, Declared, Bound, In

\* A step of the queues that neither removes a queue of d nor changes it, unless
\* the queue is dropped, and unbinds nobody.
Spared(d) ==
    /\ dropped \subseteq dropped'
    /\ \A q \in DOMAIN queues \cap Names(d) :
         \/ q \in dropped'
         \/ /\ q \in DOMAIN queues' /\ queues'[q].ttl = queues[q].ttl
            /\ queues[q].bound \subseteq queues'[q].bound

\* What a step of another one, or of its own that opens nothing, leaves of the
\* bindings of d.
LEMMA BindingsOf ==
    ASSUME Core, Bindings, NEW d \in Connectors, Spared(d),
           conn'[d].link = "up" => conn[d].link = "up"
                                   \/ (conn[d].link = "dialing" /\ conn[d].ch # "open"
                                       /\ In(conn'[d]) \subseteq In(conn[d])),
           conn'[d].queue = conn[d].queue, conn'[d].ttl = conn[d].ttl,
           conn'[d].subscribed = conn[d].subscribed,
           \A k \in In(conn'[d]) : k.op = "bind" => k \in In(conn[d])
    PROVE  /\ conn'[d].link = "up" => \A k \in In(conn'[d]) : k.op = "bind" =>
                \/ k.queue \in dropped'
                \/ k.queue \in DOMAIN queues' /\ queues'[k.queue].ttl = k.ttl
           /\ ~scene.hasty /\ conn'[d].subscribed /\ conn'[d].link = "up"
              /\ conn'[d].queue \notin dropped' =>
                /\ conn'[d].queue \in DOMAIN queues'
                /\ d \in queues'[conn'[d].queue].bound
                /\ conn'[d].ttl = queues'[conn'[d].queue].ttl
<1>1. Fit(d, conn[d])
  BY DEF Core
<1>2. ASSUME conn'[d].link = "up", NEW k \in In(conn'[d]), k.op = "bind"
      PROVE  \/ k.queue \in dropped'
             \/ k.queue \in DOMAIN queues' /\ queues'[k.queue].ttl = k.ttl
  <2>1. k \in In(conn[d]) /\ k.queue \in Names(d)
    BY <1>1, <1>2 DEF Fit
  <2>2. CASE conn[d].link = "up"
    <3>1. k.queue \in dropped \/ (k.queue \in DOMAIN queues /\ queues[k.queue].ttl = k.ttl)
      BY <1>2, <2>1, <2>2 DEF Bindings, Declared
    <3> QED
      BY <2>1, <3>1 DEF Spared
  <2>3. CASE conn[d].link = "dialing" /\ conn[d].ch # "open"
    <3>1. conn[d].ch \in {"none", "opening", "broken"}
      BY <2>3 DEF Core, TypeOK, Connector, Channels
    <3> QED
      BY <1>1, <1>2, <2>1, <2>3, <3>1 DEF Fit
  <2> QED
    BY <1>2, <2>2, <2>3
<1>3. ASSUME ~scene.hasty, conn'[d].subscribed, conn'[d].link = "up", conn'[d].queue \notin dropped'
      PROVE  /\ conn'[d].queue \in DOMAIN queues'
             /\ d \in queues'[conn'[d].queue].bound
             /\ conn'[d].ttl = queues'[conn'[d].queue].ttl
  <2>1. conn[d].link = "up" /\ conn[d].queue \in Names(d)
    BY <1>1, <1>3 DEF Fit
  <2>2. /\ conn[d].queue \notin dropped
        /\ conn[d].queue \in DOMAIN queues /\ d \in queues[conn[d].queue].bound
        /\ conn[d].ttl = queues[conn[d].queue].ttl
    BY <1>3, <2>1 DEF Bindings, Bound, Spared
  <2> QED
    BY <1>3, <2>1, <2>2 DEF Spared
<1> QED
  BY <1>2, <1>3

\* A step that asks nobody to declare or to bind.
LEMMA BindingsKept ==
    ASSUME Core, Bindings, scene' = scene,
           \A d \in Connectors :
               /\ Spared(d)
               /\ conn'[d].link = "up" => conn[d].link = "up"
                                          \/ (conn[d].link = "dialing" /\ conn[d].ch # "open"
                                              /\ In(conn'[d]) \subseteq In(conn[d]))
               /\ conn'[d].queue = conn[d].queue /\ conn'[d].ttl = conn[d].ttl
               /\ conn'[d].subscribed = conn[d].subscribed
               /\ \A k \in In(conn'[d]) :
                    \/ k \in In(conn[d])
                    \/ k.op # "bind" /\ (k.op = "declare" =>
                                           k.queue = conn[d].queue /\ k.ttl = conn[d].ttl)
    PROVE  Bindings'
<1>1. Agreed(conn')
  BY DEF Bindings, Agreed
<1>2. Declared(conn', queues', dropped')
  BY BindingsOf DEF Declared
<1>3. Bound(conn', queues', dropped')
  BY BindingsOf DEF Bound
<1> QED
  BY <1>1, <1>2, <1>3, BindingsThen

\* A connector that is renamed, or given another expiration, is neither bound
\* nor about to be.
LEMMA BindingsSettings ==
    ASSUME Core, Bindings, NEW c \in Connectors, Settings(c)
    PROVE  Bindings'
<1>1. /\ UNCHANGED <<scene, queues, dropped>> /\ In(conn'[c]) = In(conn[c])
      /\ conn'[c].subscribed = conn[c].subscribed /\ Fit(c, conn[c])
      /\ conn'[c].link = "up" => conn[c].link = "up"
      /\ \A d \in Connectors \ {c} : conn'[d] = conn[d]
  BY DEF Settings, Change, Core
<1>2. CASE conn'[c].queue = conn[c].queue /\ conn'[c].ttl = conn[c].ttl
  <2>1. \A d \in Connectors : Spared(d)
    BY <1>1 DEF Spared
  <2> QED
    BY <1>1, <1>2, <2>1, BindingsKept
<1>3. CASE ~(conn'[c].queue = conn[c].queue /\ conn'[c].ttl = conn[c].ttl)
  <2>1. ~scene.hasty => \A k \in In(conn[c]) : k.op \notin {"declare", "bind"}
    <3>1. CASE conn[c].link = "unmade"
      BY <1>1, <3>1 DEF Fit
    <3>2. CASE conn[c].link # "unmade"
      <4>1. scene.hasty \/ ~Waiting(c, {"declare", "bind"})
        BY <1>3, <3>2 DEF Settings
      <4> QED
        BY <4>1, WaitingIn
    <3> QED
      BY <3>1, <3>2
  <2>2. conn'[c].link = "up" => ~conn'[c].subscribed
    BY <1>1, <1>3 DEF Settings, Fit
  <2>3. Agreed(conn')
    BY <1>1, <2>1 DEF Bindings, Agreed
  <2>4. Declared(conn', queues', dropped')
    BY <1>1 DEF Bindings, Declared
  <2>5. Bound(conn', queues', dropped')
    BY <1>1, <2>2 DEF Bindings, Bound
  <2> QED
    BY <1>1, <2>3, <2>4, <2>5, BindingsThen
<1> QED
  BY <1>2, <1>3

LEMMA BindingsServe ==
    ASSUME Core, Bindings, NEW c \in Connectors, Serve(c)
    PROVE  Bindings'
<1>1. scene' = scene
  BY ServeGrants
<1>2. CASE Broken(c)
  <2>1. /\ Emptied(c) /\ Change(c) /\ conn[c].link = "up" /\ dropped' = dropped
        /\ DOMAIN queues' = DOMAIN queues
        /\ \A q \in DOMAIN queues :
             queues'[q].ttl = queues[q].ttl /\ queues'[q].bound = queues[q].bound
    BY <1>2, ServeGrants, BrokenChanges DEF Emptied
  <2>2. \A d \in Connectors : Spared(d)
    BY <2>1 DEF Spared
  <2> QED
    BY <1>1, <2>1, <2>2, BindingsKept DEF Emptied, Change
<1>3. ASSUME NEW k, Granted(c, k) PROVE Bindings'
  <2>1. /\ Change(c) /\ k \in In(conn[c]) /\ conn[c].link = "up"
        /\ conn'[c].queue = conn[c].queue /\ conn'[c].ttl = conn[c].ttl
        /\ \A j \in In(conn'[c]) :
             \/ j \in In(conn[c])
             \/ k.op = "declare" /\ j.op = "bind" /\ j.queue = k.queue /\ j.ttl = k.ttl
    BY <1>3 DEF Granted
  <2>2. \A d \in Connectors : Spared(d)
    <3>1. /\ \A q \in DOMAIN queues' \cap DOMAIN queues :
               queues'[q].ttl = queues[q].ttl /\ queues[q].bound \subseteq queues'[q].bound
          /\ \A q \in DOMAIN queues \ DOMAIN queues' : k.op = "delete" /\ q = k.queue
          /\ dropped' = IF k.op = "delete" THEN dropped \cup {k.queue} ELSE dropped
      BY <1>3 DEF Granted, Afterwards, DroppedAfter
    <3> QED
      BY <3>1 DEF Spared
  <2>3. Agreed(conn')
    <3> SUFFICES ASSUME ~scene.hasty, NEW d \in Connectors, NEW j \in In(conn'[d]),
                        j.op \in {"declare", "bind"}
                 PROVE  j.queue = conn'[d].queue /\ j.ttl = conn'[d].ttl
      BY DEF Agreed
    <3>1. CASE d # c
      BY <2>1, <3>1 DEF Change, Bindings, Agreed
    <3>2. CASE d = c
      BY <2>1, <3>2 DEF Bindings, Agreed
    <3> QED
      BY <3>1, <3>2
  <2>4. \A d \in Connectors : d # c =>
          /\ conn'[d] = conn[d]
          /\ conn'[d].link = "up" => \A j \in In(conn'[d]) : j.op = "bind" =>
               \/ j.queue \in dropped'
               \/ j.queue \in DOMAIN queues' /\ queues'[j.queue].ttl = j.ttl
          /\ ~scene.hasty /\ conn'[d].subscribed /\ conn'[d].link = "up"
             /\ conn'[d].queue \notin dropped' =>
               /\ conn'[d].queue \in DOMAIN queues'
               /\ d \in queues'[conn'[d].queue].bound
               /\ conn'[d].ttl = queues'[conn'[d].queue].ttl
    <3> SUFFICES ASSUME NEW d \in Connectors, d # c
                 PROVE  /\ conn'[d] = conn[d]
                        /\ conn'[d].link = "up" => \A j \in In(conn'[d]) : j.op = "bind" =>
                             \/ j.queue \in dropped'
                             \/ j.queue \in DOMAIN queues' /\ queues'[j.queue].ttl = j.ttl
                        /\ ~scene.hasty /\ conn'[d].subscribed /\ conn'[d].link = "up"
                           /\ conn'[d].queue \notin dropped' =>
                             /\ conn'[d].queue \in DOMAIN queues'
                             /\ d \in queues'[conn'[d].queue].bound
                             /\ conn'[d].ttl = queues'[conn'[d].queue].ttl
      OBVIOUS
    <3>1. conn'[d] = conn[d]
      BY <2>1 DEF Change
    <3> QED
      BY <2>2, <3>1, BindingsOf
  <2>5. ASSUME NEW j \in In(conn[c]), j.op = "bind"
        PROVE  \/ j.queue \in dropped'
               \/ j.queue \in DOMAIN queues' /\ queues'[j.queue].ttl = j.ttl
    <3>1. j.queue \in Names(c)
      BY DEF Core, Fit
    <3>2. j.queue \in dropped \/ (j.queue \in DOMAIN queues /\ queues[j.queue].ttl = j.ttl)
      BY <2>1, <2>5 DEF Bindings, Declared
    <3> QED
      BY <2>2, <3>1, <3>2 DEF Spared
  <2>6. ASSUME NEW j \in In(conn'[c]), j.op = "bind"
        PROVE  \/ j.queue \in dropped'
               \/ j.queue \in DOMAIN queues' /\ queues'[j.queue].ttl = j.ttl
    <3>1. CASE j \in In(conn[c])
      BY <2>5, <2>6, <3>1
    <3>2. CASE k.op = "declare" /\ j.queue = k.queue /\ j.ttl = k.ttl
      BY <1>3, <3>2 DEF Granted, Afterwards
    <3> QED
      BY <2>1, <3>1, <3>2
  <2>7. ASSUME ~scene.hasty, conn'[c].subscribed, conn'[c].link = "up", conn'[c].queue \notin dropped'
        PROVE  /\ conn'[c].queue \in DOMAIN queues'
               /\ c \in queues'[conn'[c].queue].bound
               /\ conn'[c].ttl = queues'[conn'[c].queue].ttl
    <3>1. CASE k.op = "bind"
      <4>1. k.queue = conn[c].queue /\ k.ttl = conn[c].ttl
        BY <2>1, <2>7, <3>1 DEF Bindings, Agreed
      <4>2. k.queue \in DOMAIN queues' /\ c \in queues'[k.queue].bound
        BY <1>3, <3>1 DEF Granted, Afterwards
      <4>3. queues'[k.queue].ttl = k.ttl
        BY <2>1, <2>5, <2>7, <3>1, <4>1
      <4> QED
        BY <2>1, <4>1, <4>2, <4>3
    <3>2. CASE k.op # "bind"
      <4>1. conn[c].subscribed
        BY <1>3, <2>7, <3>2 DEF Granted
      <4>2. conn[c].queue \in Names(c)
        BY DEF Core, Fit
      <4>3. conn[c].queue \notin dropped
        BY <2>1, <2>2, <2>7 DEF Spared
      <4>4. /\ conn[c].queue \in DOMAIN queues /\ c \in queues[conn[c].queue].bound
            /\ conn[c].ttl = queues[conn[c].queue].ttl
        BY <2>1, <2>7, <4>1, <4>3 DEF Bindings, Bound
      <4> QED
        BY <2>1, <2>2, <2>7, <4>2, <4>4 DEF Spared
    <3> QED
      BY <3>1, <3>2
  <2>8. Declared(conn', queues', dropped')
    BY <2>4, <2>6 DEF Declared
  <2>9. Bound(conn', queues', dropped')
    BY <2>4, <2>7 DEF Bound
  <2> QED
    BY <1>1, <2>3, <2>8, <2>9, BindingsThen
<1> QED
  BY <1>2, <1>3, ServeGrants

LEMMA BindingsServeClosing ==
    ASSUME Core, Bindings, NEW c \in Connectors, ServeClosing(c)
    PROVE  Bindings'
<1>1. PICK k : Skipped(c, k)
  BY ServeClosingSkips
<1>2. \A d \in Connectors : Spared(d)
  <2>1. /\ \A q \in DOMAIN queues' \cap DOMAIN queues :
             queues'[q].ttl = queues[q].ttl /\ queues[q].bound \subseteq queues'[q].bound
        /\ \A q \in DOMAIN queues \ DOMAIN queues' : k.op = "delete" /\ q = k.queue
        /\ dropped' = IF k.op = "delete" THEN dropped \cup {k.queue} ELSE dropped
    BY <1>1 DEF Skipped, Afterwards, DroppedAfter
  <2> QED
    BY <2>1 DEF Spared
<1> QED
  BY <1>1, <1>2, BindingsKept DEF Skipped, Change

LEMMA BindingsHangUp ==
    ASSUME Core, Bindings, NEW c \in Connectors, HangUp(c)
    PROVE  Bindings'
<1>1. /\ Change(c) /\ conn'[c].link = "off" /\ In(conn'[c]) = In(conn[c])
      /\ conn'[c].queue = conn[c].queue /\ conn'[c].ttl = conn[c].ttl
      /\ conn'[c].subscribed = conn[c].subscribed
      /\ DOMAIN queues' = {q \in DOMAIN queues : queues[q].owner # c}
      /\ \A q \in DOMAIN queues' : queues'[q] = queues[q]
      /\ UNCHANGED <<scene, dropped>>
  BY HangUpChanges
<1>2. \A d \in Connectors \ {c} : Spared(d)
  <2> SUFFICES ASSUME NEW d \in Connectors \ {c}, NEW q \in DOMAIN queues, q \in Names(d)
               PROVE  queues[q].owner # c
    BY <1>1 DEF Spared
  <2>1. queues[q].owner = OwnerOf(q)
    BY DEF Core
  <2> QED
    BY <2>1, NamesAreQueues, NoOneAssumption DEF OwnerOf
<1>3. Agreed(conn')
  BY <1>1 DEF Change, Bindings, Agreed
<1>4. \A d \in Connectors : conn'[d].link = "up" => d # c /\ conn'[d] = conn[d] /\ Spared(d)
  BY <1>1, <1>2 DEF Change
<1>5. Declared(conn', queues', dropped')
  BY <1>4, BindingsOf DEF Declared
<1>6. Bound(conn', queues', dropped')
  BY <1>4, BindingsOf DEF Bound
<1> QED
  BY <1>1, <1>3, <1>5, <1>6, BindingsThen

LEMMA BindingsNext == Core /\ Bindings /\ [Next]_vars => Bindings'
<1> SUFFICES ASSUME Core, Bindings, [Next]_vars PROVE Bindings'
  OBVIOUS
<1>1. UNCHANGED <<queues, dropped>> => \A d \in Connectors : Spared(d)
  BY DEF Spared
<1>2. ASSUME NEW c \in Connectors, Settings(c) PROVE Bindings'
  BY <1>2, BindingsSettings
<1>3. ASSUME NEW c \in Connectors, Asking(c) PROVE Bindings'
  BY <1>1, <1>3, BindingsKept DEF Asking, Change
<1>4. ASSUME NEW c \in Connectors, Disconnect(c) PROVE Bindings'
  <2>1. Change(c) /\ Hung(conn[c], conn'[c], "user") /\ UNCHANGED <<scene, queues, dropped>>
    BY <1>4, DisconnectChanges
  <2>2. /\ conn'[c].queue = conn[c].queue /\ conn'[c].ttl = conn[c].ttl
        /\ conn'[c].subscribed = conn[c].subscribed
        /\ \A k \in In(conn'[c]) : k \in In(conn[c]) \/ k.op = "close"
    BY <2>1 DEF Hung
  <2> QED
    BY <1>1, <2>1, <2>2, HungLinks, BindingsKept DEF Change
<1>5. CASE DeadLetter
  <2>1. /\ UNCHANGED <<scene, queues, dropped>>
        /\ \A d \in Connectors :
             /\ conn'[d].link = conn[d].link
             /\ conn'[d].queue = conn[d].queue /\ conn'[d].ttl = conn[d].ttl
             /\ conn'[d].subscribed = conn[d].subscribed
             /\ \A k \in In(conn'[d]) : k \in In(conn[d]) \/ k.op = "cancel"
    BY <1>5, DeadLetterChanges
  <2> QED
    BY <1>1, <2>1, BindingsKept
<1>6. CASE Dispose
  <2>1. /\ UNCHANGED <<scene, queues, dropped>>
        /\ \A d \in list : Hung(conn[d], conn'[d], "dispose")
        /\ \A d \in Connectors \ list : conn'[d] = conn[d]
    BY <1>6, DisposeChanges
  <2>2. \A d \in list :
             /\ conn'[d].queue = conn[d].queue /\ conn'[d].ttl = conn[d].ttl
             /\ conn'[d].subscribed = conn[d].subscribed
             /\ \A k \in In(conn'[d]) : k \in In(conn[d]) \/ k.op = "close"
    BY <2>1 DEF Hung
  <2>3. \A d \in Connectors :
             /\ conn'[d].link = "up" => conn[d].link = "up"
             /\ conn'[d].queue = conn[d].queue /\ conn'[d].ttl = conn[d].ttl
             /\ conn'[d].subscribed = conn[d].subscribed
             /\ \A k \in In(conn'[d]) : k \in In(conn[d]) \/ k.op = "close"
    BY <2>1, <2>2, HungLinks
  <2> QED
    BY <1>1, <2>1, <2>3, BindingsKept
<1>7. ASSUME NEW c \in Connectors, Dialed(c) PROVE Bindings'
  <2>1. DialedTo(c) /\ UNCHANGED <<scene, queues, dropped>>
    BY <1>7, DialedChanges DEF Dialed
  <2>2. conn[c].link = "dialing" /\ conn[c].ch # "open"
    BY <2>1 DEF DialedTo, Core, Fit
  <2> QED
    BY <1>1, <2>1, <2>2, BindingsKept DEF DialedTo, Change
<1>8. ASSUME NEW c \in Connectors, Refuse(c) PROVE Bindings'
  <2>1. /\ Emptied(c) /\ conn'[c].link \in {"refused", "off"} /\ UNCHANGED <<scene, queues, dropped>>
    BY <1>8, RefuseChanges
  <2> QED
    BY <1>1, <2>1, BindingsKept DEF Emptied, Change
<1>9. ASSUME NEW c \in Connectors, OpenChannel(c) \/ Recreate(c) PROVE Bindings'
  <2>1. Opened(c)
    BY <1>9, OpeningOpens
  <2> QED
    BY <1>1, <2>1, BindingsKept DEF Opened, Change
<1>10. ASSUME NEW c \in Connectors, HangUp(c) PROVE Bindings'
  BY <1>10, BindingsHangUp
<1>11. CASE UNCHANGED vars
  BY <1>11 DEF vars, Bindings, Agreed, Declared, Bound, In
<1> QED
  BY <1>2, <1>3, <1>4, <1>5, <1>6, <1>7, <1>8, <1>9, <1>10, <1>11,
     MakingSets, SettingSets, RequestAsks, BindingsServe, BindingsServeClosing DEF Next, NetworkStep

LEMMA BindingsInit == Init => Bindings
<1> SUFFICES ASSUME Init PROVE Bindings
  OBVIOUS
<1>1. \A c \in Connectors : ~conn[c].subscribed /\ conn[c].link = "unmade" /\ In(conn[c]) = {}
  BY DEF Init, In
<1> QED
  BY <1>1 DEF Bindings, Agreed, Declared, Bound

\* A connector that has subscribed is bound to the queue that it says it has,
\* and the queue has the expiration that the connector says, whatever the other
\* connectors declare, delete or take along when their connections close.
THEOREM BoundWhereSaid == Spec => []BoundAsSaid
<1>1. Bindings => BoundAsSaid
  BY DEF Bindings, Bound, BoundAsSaid
<1>2. Core /\ Bindings /\ [Next]_vars => Bindings'
  BY BindingsNext
<1> QED
  BY <1>1, <1>2, BindingsInit, CoreAlways, PTL DEF Spec
=============================================================================
