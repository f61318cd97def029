----------------------- MODULE BrokerConnectionProofs -----------------------
(***************************************************************************)
(* What is proved of BrokerConnection for every bound and every choice of  *)
(* faults: type correctness; that a connector nobody disconnects has one   *)
(* connection at most, with one channel of a kind, whose promise is        *)
(* rejected for a cause only; and that without faults disconnect leaves    *)
(* nothing behind.                                                         *)
(***************************************************************************)
EXTENDS BrokerConnection, TLAPS

\* Replacing an element of a sequence by one of the same type.
LEMMA SeqExcept ==
    ASSUME NEW S, NEW s \in Seq(S), NEW t, DOMAIN t = DOMAIN s,
           t = [i \in DOMAIN s |-> t[i]],
           \A i \in DOMAIN s : t[i] \in S
    PROVE  t \in Seq(S) /\ Len(t) = Len(s)
<1>1. DOMAIN s = 1..Len(s) /\ Len(s) \in Nat
  OBVIOUS
<1>2. t \in [1..Len(s) -> S]
  BY <1>1
<1> QED
  BY <1>1, <1>2

\* Channel promises that are replaced one by one keep their type.
LEMMA ChannelsType ==
    ASSUME StateTypeOK, NEW new, new = [k \in Kinds |-> new[k]],
           \A k \in Kinds : /\ new[k] = [m \in DOMAIN chan[k] |-> new[k][m]]
                            /\ \A m \in DOMAIN chan[k] : new[k][m] \in Channel
    PROVE  /\ new \in [Kinds -> Seq(Channel)]
           /\ \A k \in Kinds : Len(new[k]) = Len(chan[k])
<1>1. ASSUME NEW k \in Kinds
      PROVE  new[k] \in Seq(Channel) /\ Len(new[k]) = Len(chan[k])
  <2>1. chan[k] \in Seq(Channel) /\ DOMAIN new[k] = DOMAIN chan[k]
    BY DEF StateTypeOK
  <2> QED
    BY <2>1, SeqExcept
<1> QED
  BY <1>1

\* The fields keep pointing at promises when none goes away.
LEMMA SameLength ==
    ASSUME StateTypeOK, chan' \in [Kinds -> Seq(Channel)],
           \A k \in Kinds : Len(chan'[k]) = Len(chan[k])
    PROVE  \A k \in Kinds : chanPrm[k] \in 0..Len(chan'[k])
BY DEF StateTypeOK

LEMMA BecomesType ==
    ASSUME StateTypeOK, NEW k \in Kinds, NEW m \in DOMAIN chan[k],
           NEW st \in ChanStates, NEW h \in BOOLEAN,
           \/ chan' = [chan EXCEPT ![k][m].st = st]
           \/ chan' = [chan EXCEPT ![k][m].heard = h]
           \/ chan' = [chan EXCEPT ![k][m].st = st, ![k][m].heard = h]
    PROVE  /\ chan' \in [Kinds -> Seq(Channel)]
           /\ \A j \in Kinds : Len(chan'[j]) = Len(chan[j])
<1>1. chan \in [Kinds -> Seq(Channel)]
  BY DEF StateTypeOK
<1>2. \A j \in Kinds : \A i \in DOMAIN chan[j] : chan[j][i] \in Channel
  BY <1>1
<1>3. chan' = [j \in Kinds |-> chan'[j]]
  BY <1>1
<1>4. ASSUME NEW j \in Kinds
      PROVE  /\ chan'[j] = [i \in DOMAIN chan[j] |-> chan'[j][i]]
             /\ \A i \in DOMAIN chan[j] : chan'[j][i] \in Channel
  <2>1. chan[j] \in Seq(Channel)
    BY <1>1
  <2>2. chan[j] = [i \in DOMAIN chan[j] |-> chan[j][i]]
    BY <2>1
  <2>3. CASE j # k
    BY <1>1, <1>2, <2>2, <2>3
  <2>4. CASE j = k
    <3> DEFINE e == [chan[k][m] EXCEPT !.st = st]
               f == [chan[k][m] EXCEPT !.heard = h]
               g == [chan[k][m] EXCEPT !.st = st, !.heard = h]
    <3>1. e \in Channel /\ f \in Channel /\ g \in Channel
      BY <1>2 DEF Channel
    <3>2. \E x \in {e, f, g} : chan' = [chan EXCEPT ![k] = [chan[k] EXCEPT ![m] = x]]
      <4>1. CASE chan' = [chan EXCEPT ![k][m].st = st]
        <5>1. chan' = [chan EXCEPT ![k] = [chan[k] EXCEPT ![m] = e]]
          BY <1>1, <4>1
        <5> QED
          BY <5>1
      <4>2. CASE chan' = [chan EXCEPT ![k][m].heard = h]
        <5>1. chan' = [chan EXCEPT ![k] = [chan[k] EXCEPT ![m] = f]]
          BY <1>1, <4>2
        <5> QED
          BY <5>1
      <4>3. CASE chan' = [chan EXCEPT ![k][m].st = st, ![k][m].heard = h]
        <5>1. chan' = [chan EXCEPT ![k] = [chan[k] EXCEPT ![m] = g]]
          BY <1>1, <4>3
        <5> QED
          BY <5>1
      <4> QED
        BY <4>1, <4>2, <4>3
    <3>3. PICK x \in Channel : chan'[k] = [chan[k] EXCEPT ![m] = x]
      <4> HIDE DEF e, f, g
      <4>1. PICK x \in {e, f, g} : chan' = [chan EXCEPT ![k] = [chan[k] EXCEPT ![m] = x]]
        BY <3>2
      <4> QED
        BY <1>1, <3>1, <4>1
    <3> QED
      BY <1>2, <2>2, <2>4, <3>3
  <2> QED
    BY <2>3, <2>4
<1> QED
  BY <1>3, <1>4, ChannelsType

\* A new channel promise joins those of its kind.
LEMMA NewChannelType ==
    ASSUME StateTypeOK, NEW k \in Kinds, NEW c \in Channel, NewChannel(k, c)
    PROVE  /\ chan' \in [Kinds -> Seq(Channel)]
           /\ chanPrm' \in [Kinds -> Nat]
           /\ \A j \in Kinds : chanPrm'[j] \in 0..Len(chan'[j])
<1>1. chan \in [Kinds -> Seq(Channel)] /\ chanPrm \in [Kinds -> Nat]
      /\ \A j \in Kinds : chanPrm[j] \in 0..Len(chan[j])
  BY DEF StateTypeOK
<1>2. chan' = [chan EXCEPT ![k] = Append(chan[k], c)]
      /\ chanPrm' = [chanPrm EXCEPT ![k] = Len(chan[k]) + 1]
  BY DEF NewChannel
<1>3. Append(chan[k], c) \in Seq(Channel) /\ Len(chan[k]) \in Nat
      /\ Len(Append(chan[k], c)) = Len(chan[k]) + 1
  BY <1>1
<1> QED
  BY <1>1, <1>2, <1>3

LEMMA CreatedType == StateTypeOK => Created \in Channel
BY DEF StateTypeOK, Created, Channel, ChanStates

\* A connection is marked closing or closed.
LEMMA ClosedType ==
    ASSUME StateTypeOK, NEW n
    PROVE  \A st \in {"closing", "closed"} :
              /\ [conn EXCEPT ![n] = st] \in Seq(ConnStates)
              /\ Len([conn EXCEPT ![n] = st]) = Len(conn)
<1> TAKE st \in {"closing", "closed"}
<1> DEFINE t == [conn EXCEPT ![n] = st]
<1>1. conn \in Seq(ConnStates)
  BY DEF StateTypeOK
<1>2. /\ DOMAIN t = DOMAIN conn /\ t = [i \in DOMAIN conn |-> t[i]]
      /\ \A i \in DOMAIN conn : t[i] \in ConnStates
  BY <1>1 DEF ConnStates
<1> HIDE DEF t
<1>3. t \in Seq(ConnStates) /\ Len(t) = Len(conn)
  BY <1>1, <1>2, SeqExcept
<1> QED
  BY <1>3 DEF t

LEMMA OrphanedType ==
    ASSUME StateTypeOK, NEW n
    PROVE  /\ Orphaned(n) \in [Kinds -> Seq(Channel)]
           /\ \A k \in Kinds : Len(Orphaned(n)[k]) = Len(chan[k])
           /\ TimersAfter(n) \in [Kinds -> SUBSET Nat]
<1>1. chan \in [Kinds -> Seq(Channel)] /\ chanPrm \in [Kinds -> Nat]
      /\ timers \in [Kinds -> SUBSET Nat]
  BY DEF StateTypeOK
<1>2. \A k \in Kinds : \A m \in DOMAIN chan[k] : chan[k][m] \in Channel
  BY <1>1
<1> DEFINE o == Orphaned(n)
<1>3. ASSUME NEW k \in Kinds, NEW m \in DOMAIN chan[k] PROVE o[k][m] \in Channel
  BY <1>2, <1>3 DEF Orphaned, Channel, ChanStates
<1>4. o = [k \in Kinds |-> o[k]]
      /\ \A k \in Kinds : o[k] = [m \in DOMAIN chan[k] |-> o[k][m]]
  BY DEF Orphaned
<1>5. o \in [Kinds -> Seq(Channel)] /\ \A k \in Kinds : Len(o[k]) = Len(chan[k])
  <2> HIDE DEF o
  <2> QED
    BY <1>3, <1>4, ChannelsType
<1>6. TimersAfter(n) \in [Kinds -> SUBSET Nat]
  BY <1>1 DEF TimersAfter
<1> QED
  BY <1>5, <1>6

\* A channel is chained to the one it replaces when its connection is lost.
LEMMA ChainedType ==
    ASSUME StateTypeOK, NEW o \in [Kinds -> Seq(Channel)],
           \A k \in Kinds : Len(o[k]) = Len(chan[k]),
           chan' = [k \in Kinds |->
                      IF chanPrm[k] = 0 THEN o[k]
                      ELSE Append(o[k], Chained(chanPrm[k]))],
           chanPrm' = [k \in Kinds |->
                         IF chanPrm[k] = 0 THEN 0 ELSE Len(chan[k]) + 1]
    PROVE  /\ chan' \in [Kinds -> Seq(Channel)]
           /\ chanPrm' \in [Kinds -> Nat]
           /\ \A k \in Kinds : chanPrm'[k] \in 0..Len(chan'[k])
<1>1. chanPrm \in [Kinds -> Nat] /\ chan \in [Kinds -> Seq(Channel)]
  BY DEF StateTypeOK
<1>2. ASSUME NEW k \in Kinds
      PROVE  /\ chan'[k] \in Seq(Channel)
             /\ chanPrm'[k] \in 0..Len(chan'[k])
  <2>1. Chained(chanPrm[k]) \in Channel
    BY <1>1 DEF Chained, Channel, ChanStates
  <2>2. o[k] \in Seq(Channel) /\ Len(chan[k]) \in Nat /\ Len(o[k]) = Len(chan[k])
    BY <1>1
  <2>3. Append(o[k], Chained(chanPrm[k])) \in Seq(Channel)
        /\ Len(Append(o[k], Chained(chanPrm[k]))) = Len(chan[k]) + 1
    BY <2>1, <2>2
  <2> QED
    BY <2>2, <2>3
<1>3. \A k \in Kinds : chanPrm'[k] \in Nat
  BY <1>1
<1> QED
  BY <1>2, <1>3

-----------------------------------------------------------------------------
LEMMA StateTypeInit == Init => StateTypeOK
<1> SUFFICES ASSUME Init PROVE StateTypeOK
  OBVIOUS
<1>1. conn \in Seq(ConnStates) /\ connPrm \in 0..Len(conn)
  BY DEF Init
<1>2. /\ chan \in [Kinds -> Seq(Channel)] /\ chanPrm \in [Kinds -> Nat]
      /\ \A k \in Kinds : chanPrm[k] \in 0..Len(chan[k])
  BY DEF Init
<1>3. timers \in [Kinds -> SUBSET Nat] /\ closing \in Closing
  BY DEF Init, NotClosing, Steps, Closing
<1> QED
  BY <1>1, <1>2, <1>3 DEF Init, StateTypeOK

LEMMA ForgottenType ==
    ASSUME StateTypeOK, Forgotten
    PROVE  /\ connPrm' = 0
           /\ chanPrm' \in [Kinds -> Nat]
           /\ \A k \in Kinds : chanPrm'[k] = 0
BY DEF Forgotten

LEMMA EndedType == Ended => session' = "off" /\ closing' \in Closing
BY DEF Ended, NotClosing, Steps, Closing

LEMMA StateTypeStep == StateTypeOK /\ [Next]_vars => StateTypeOK'
<1> SUFFICES ASSUME StateTypeOK, [Next]_vars PROVE StateTypeOK'
  OBVIOUS
<1>t. /\ conn \in Seq(ConnStates) /\ connPrm \in 0..Len(conn) /\ Len(conn) \in Nat
      /\ chan \in [Kinds -> Seq(Channel)] /\ chanPrm \in [Kinds -> Nat]
      /\ \A k \in Kinds : chanPrm[k] \in 0..Len(chan[k])
      /\ timers \in [Kinds -> SUBSET Nat]
      /\ closing \in Closing
  BY DEF StateTypeOK
\* Steps that change no connection and one channel promise at most.
<1>c. ASSUME /\ chan' \in [Kinds -> Seq(Channel)]
             /\ \A k \in Kinds : Len(chan'[k]) = Len(chan[k]),
             UNCHANGED <<session, flags, conn, connPrm, chanPrm, timers, closing>>
      PROVE  StateTypeOK'
  BY <1>t, <1>c DEF StateTypeOK, flags
<1>1. CASE Connect
  BY <1>1, <1>t DEF Connect, StateTypeOK, ConnStates
<1>2. ASSUME NEW n \in DOMAIN conn, DialStep(n) PROVE StateTypeOK'
  <2>1. PICK st \in ConnStates : conn' = [conn EXCEPT ![n] = st]
    BY <1>2 DEF DialStep, Connected, DialFails, ReconnectTimer, ConnStates
  <2>2. conn' \in Seq(ConnStates) /\ Len(conn') = Len(conn)
    BY <1>t, <2>1
  <2>3. /\ connPrm' = connPrm \/ connPrm' = n
        /\ isConnected' \in BOOLEAN /\ isConnecting' \in BOOLEAN
        /\ UNCHANGED <<session, chan, chanPrm, timers, closing>>
    BY <1>2 DEF DialStep, Connected, DialFails, ReconnectTimer, StateTypeOK, flags
  <2>4. connPrm' \in 0..Len(conn')
    BY <1>2, <1>t, <2>2, <2>3
  <2> QED
    BY <1>t, <2>2, <2>3, <2>4 DEF StateTypeOK
<1>3. ASSUME NEW n \in DOMAIN conn, ConnectionLost(n) PROVE StateTypeOK'
  <2>1. /\ Orphaned(n) \in [Kinds -> Seq(Channel)]
        /\ \A k \in Kinds : Len(Orphaned(n)[k]) = Len(chan[k])
        /\ TimersAfter(n) \in [Kinds -> SUBSET Nat]
    BY OrphanedType
  <2>2. /\ chan' \in [Kinds -> Seq(Channel)]
        /\ chanPrm' \in [Kinds -> Nat]
        /\ \A k \in Kinds : chanPrm'[k] \in 0..Len(chan'[k])
    BY <1>3, <2>1, ChainedType DEF ConnectionLost
  <2>3. conn' \in Seq(ConnStates) /\ connPrm' \in 0..Len(conn')
    BY <1>3, <1>t DEF ConnectionLost, ConnStates
  <2> QED
    BY <1>3, <2>1, <2>2, <2>3 DEF ConnectionLost, StateTypeOK
<1>4. ASSUME NEW k \in Kinds, UseChannel(k) PROVE StateTypeOK'
  <2>1. /\ chan' \in [Kinds -> Seq(Channel)]
        /\ chanPrm' \in [Kinds -> Nat]
        /\ \A j \in Kinds : chanPrm'[j] \in 0..Len(chan'[j])
    BY <1>4, CreatedType, NewChannelType DEF UseChannel
  <2> QED
    BY <1>4, <2>1 DEF UseChannel, StateTypeOK, flags
<1>5. ASSUME NEW k \in Kinds, NEW m \in DOMAIN chan[k], ChainStep(k, m)
      PROVE  StateTypeOK'
  <2> DEFINE old == chan[k][m].of
  <2>1. CASE Becomes(k, m, "rejected")
    <3>1. "rejected" \in ChanStates
      BY DEF ChanStates
    <3> QED
      BY <1>5, <1>c, <2>1, <3>1, BecomesType DEF ChainStep, Becomes
  <2>2. CASE chan' = [chan EXCEPT ![k] =
                           [@ EXCEPT ![m] = Created, ![old].heard = FALSE]]
    <3> DEFINE new == [chan[k] EXCEPT ![m] = Created, ![old].heard = FALSE]
    <3>1. /\ chan[k] \in Seq(Channel) /\ Created \in Channel
          /\ \A i \in DOMAIN chan[k] : chan[k][i] \in Channel
      BY <1>t, CreatedType
    <3>2. new = [i \in DOMAIN chan[k] |-> new[i]] /\ DOMAIN new = DOMAIN chan[k]
      OBVIOUS
    <3>3. \A i \in DOMAIN chan[k] : new[i] \in Channel
      BY <3>1 DEF Channel
    <3>4. new \in Seq(Channel) /\ Len(new) = Len(chan[k])
      <4> HIDE DEF new
      <4> QED
        BY <3>1, <3>2, <3>3, SeqExcept
    <3>5. chan' = [chan EXCEPT ![k] = new]
      BY <1>t, <2>2
    <3>6. /\ chan' \in [Kinds -> Seq(Channel)]
          /\ \A j \in Kinds : Len(chan'[j]) = Len(chan[j])
      <4> HIDE DEF new
      <4> QED
        BY <1>t, <3>4, <3>5
    <3> QED
      BY <1>5, <1>c, <3>6 DEF ChainStep
  <2> QED
    BY <1>5, <2>1, <2>2 DEF ChainStep
<1>6. ASSUME NEW k \in Kinds, NEW m \in DOMAIN chan[k],
             AskChannel(k, m) \/ ChannelOpened(k, m) \/ ExchangeRefused(k, m)
      PROVE  StateTypeOK'
  <2>1. {"opening", "rejected", "open"} \subseteq ChanStates
    BY DEF ChanStates
  <2>2. UNCHANGED <<session, flags, conn, connPrm, chanPrm, timers, closing>>
    BY <1>6 DEF AskChannel, ChannelOpened, ExchangeRefused
  <2>3. \/ \E st \in {"opening", "rejected"} : Becomes(k, m, st)
        \/ chan' = [chan EXCEPT ![k][m].st = "open", ![k][m].heard = TRUE]
    BY <1>6 DEF AskChannel, ChannelOpened, ExchangeRefused
  <2>4. /\ chan' \in [Kinds -> Seq(Channel)]
        /\ \A j \in Kinds : Len(chan'[j]) = Len(chan[j])
    <3>1. CASE \E st \in {"opening", "rejected"} : Becomes(k, m, st)
      <4>1. PICK st \in ChanStates : chan' = [chan EXCEPT ![k][m].st = st]
        BY <2>1, <3>1 DEF Becomes
      <4> QED
        BY <4>1, BecomesType
    <3>2. CASE chan' = [chan EXCEPT ![k][m].st = "open", ![k][m].heard = TRUE]
      BY <2>1, <3>2, BecomesType
    <3> QED
      BY <2>3, <3>1, <3>2
  <2> QED
    BY <1>c, <2>2, <2>4
<1>7. ASSUME NEW k \in Kinds, NEW old \in timers[k], RecreateTimer(k, old)
      PROVE  StateTypeOK'
  <2>1. timers' \in [Kinds -> SUBSET Nat]
    BY <1>7, <1>t DEF RecreateTimer
  <2>2. /\ chan' \in [Kinds -> Seq(Channel)]
        /\ chanPrm' \in [Kinds -> Nat]
        /\ \A j \in Kinds : chanPrm'[j] \in 0..Len(chan'[j])
    BY <1>7, <1>t, CreatedType, NewChannelType DEF RecreateTimer
  <2> QED
    BY <1>7, <2>1, <2>2 DEF RecreateTimer, StateTypeOK, flags
<1>8. ASSUME NEW k \in Kinds, NEW m \in DOMAIN chan[k], ChannelError(k, m)
      PROVE  StateTypeOK'
  <2>1. "closed" \in ChanStates
    BY DEF ChanStates
  <2>2. /\ chan' \in [Kinds -> Seq(Channel)]
        /\ \A j \in Kinds : Len(chan'[j]) = Len(chan[j])
    BY <1>8, <2>1, BecomesType DEF ChannelError, Becomes
  <2>3. timers' \in [Kinds -> SUBSET Nat]
    BY <1>8, <1>t DEF ChannelError
  <2> QED
    BY <1>8, <1>t, <2>2, <2>3 DEF ChannelError, StateTypeOK, flags
<1>9. CASE Disconnect
  <2>1. closing' \in Closing
    BY <1>9, <1>t DEF Disconnect, NotClosing, Closing, Steps, Kinds
  <2> QED
    BY <1>9, <1>t, <2>1 DEF Disconnect, StateTypeOK, flags
<1>10. ASSUME NEW k \in Kinds, CloseChannel(k) PROVE StateTypeOK'
  <2> DEFINE m == closing.awaits
  <2>1. UNCHANGED <<flags, conn, timers>>
    BY <1>10 DEF CloseChannel
  <2>2. \/ UNCHANGED chan
        \/ m \in Nat \ {0} /\ chan' = [chan EXCEPT ![k][m].st = "closed", ![k][m].heard = FALSE]
        \/ m \in Nat \ {0} /\ chan' = [chan EXCEPT ![k][m].heard = FALSE]
    BY <1>10, <1>t DEF CloseChannel
  <2>3. /\ chan' \in [Kinds -> Seq(Channel)]
        /\ \A j \in Kinds : Len(chan'[j]) = Len(chan[j])
    <3>1. CASE UNCHANGED chan
      BY <1>t, <3>1
    <3>2. CASE m \in DOMAIN chan[k]
      <4>1. "closed" \in ChanStates
        BY DEF ChanStates
      <4> QED
        BY <2>2, <3>1, <3>2, <4>1, BecomesType
    <3>3. CASE m \notin DOMAIN chan[k]
      <4>1. chan[k] = [i \in DOMAIN chan[k] |-> chan[k][i]]
        BY <1>t
      <4>2. chan' = chan
        BY <1>t, <2>2, <3>3, <4>1
      <4> QED
        BY <1>t, <4>2
    <3> QED
      BY <3>1, <3>2, <3>3
  <2>4. \/ /\ \/ closing' = After(k)
              \/ closing' = [After(k) EXCEPT !.owed = @ \cup {<<k, m>>}]
              \/ closing' = [After(k) EXCEPT !.refused = TRUE]
           /\ UNCHANGED <<session, connPrm, chanPrm>>
        \/ Forgotten /\ Ended
    BY <1>10 DEF CloseChannel
  <2>5. After(k) \in Closing
    BY <1>t DEF After, Steps, Kinds, Closing
  <2>6. CASE Forgotten /\ Ended
    <3>1. \A j \in Kinds : Len(chan'[j]) \in Nat
      BY <2>3
    <3> QED
      BY <1>t, <2>1, <2>3, <2>6, <3>1, ForgottenType, EndedType DEF StateTypeOK, flags
  <2>7. CASE closing' \in Closing /\ UNCHANGED <<session, connPrm, chanPrm>>
    BY <1>t, <2>1, <2>3, <2>7 DEF StateTypeOK, flags
  <2>8. [After(k) EXCEPT !.owed = @ \cup {<<k, m>>}] \in Closing
    BY <1>t, <2>5 DEF Closing
  <2>9. [After(k) EXCEPT !.refused = TRUE] \in Closing
    BY <2>5 DEF Closing
  <2> QED
    BY <2>4, <2>5, <2>6, <2>7, <2>8, <2>9
<1>11. CASE ChannelsClosed
  <2>1. UNCHANGED <<flags, conn, chan, timers>>
    BY <1>11 DEF ChannelsClosed
  <2>2. CASE Forgotten /\ Ended
    BY <1>t, <2>1, <2>2, ForgottenType, EndedType DEF StateTypeOK, flags
  <2>3. CASE ~(Forgotten /\ Ended)
    <3>1. closing' = [closing EXCEPT !.at = "connection", !.awaits = connPrm]
          /\ UNCHANGED <<session, connPrm, chanPrm>>
      BY <1>11, <2>3 DEF ChannelsClosed
    <3>2. connPrm \in Nat
      BY <1>t
    <3>3. closing' \in Closing
      BY <1>t, <3>1, <3>2 DEF Closing, Steps
    <3> QED
      BY <1>t, <2>1, <3>1, <3>3 DEF StateTypeOK, flags
  <2> QED
    BY <2>2, <2>3
<1>12. CASE CloseConnection
  <2>1. Forgotten /\ UNCHANGED <<flags, chan, timers>>
    BY <1>12 DEF CloseConnection
  <2>2. conn' \in Seq(ConnStates)
    <3>1. [conn EXCEPT ![closing.awaits] = "closing"] \in Seq(ConnStates)
      BY ClosedType
    <3> QED
      BY <1>12, <1>t, <3>1 DEF CloseConnection
  <2>3. session' \in {"off", "on", "closing"} /\ closing' \in Closing
    <3>1. [closing EXCEPT !.at = "farewell"] \in Closing
      BY <1>t DEF Closing, Steps
    <3>2. session \in {"off", "on", "closing"}
      BY DEF StateTypeOK
    <3> QED
      BY <1>12, <3>1, <3>2, EndedType DEF CloseConnection
  <2>4. Len(conn') \in Nat /\ \A k \in Kinds : Len(chan[k]) \in Nat
    BY <1>t, <2>2
  <2> QED
    BY <1>t, <2>1, <2>2, <2>3, <2>4, ForgottenType DEF StateTypeOK, flags
<1>14. ASSUME NEW n \in DOMAIN conn, CloseReply(n) PROVE StateTypeOK'
  <2>1. closing' \in Closing
    BY <1>14, <1>t DEF CloseReply, Closing
  <2> QED
    BY <1>14, <1>t, <2>1 DEF CloseReply, StateTypeOK, flags
<1>15. ASSUME NEW n \in DOMAIN conn, Gone(n),
              Ended \/ UNCHANGED <<session, closing>>
       PROVE  StateTypeOK'
  <2>1. /\ chan' \in [Kinds -> Seq(Channel)]
        /\ \A k \in Kinds : Len(chan'[k]) = Len(chan[k])
        /\ timers' \in [Kinds -> SUBSET Nat]
        /\ conn' \in Seq(ConnStates) /\ Len(conn') = Len(conn)
    BY <1>15, OrphanedType, ClosedType DEF Gone
  <2>2. session' \in {"off", "on", "closing"} /\ closing' \in Closing
    BY <1>15, EndedType DEF StateTypeOK
  <2> QED
    BY <1>15, <1>t, <2>1, <2>2 DEF Gone, StateTypeOK, flags
<1>13. CASE UNCHANGED vars
  BY <1>13 DEF vars, flags, StateTypeOK
<1> QED
  BY <1>1, <1>2, <1>3, <1>4, <1>5, <1>6, <1>7, <1>8, <1>9, <1>10, <1>11,
     <1>12, <1>13, <1>14, <1>15
     DEF Next, ChannelStep, BrokerReply, Farewell, FarewellLost

LEMMA TypeInit == Init => TypeOK
<1>1. Init => faults \subseteq FaultKinds
  BY ScenariosAssumption DEF Init
<1> QED
  BY <1>1, StateTypeInit DEF TypeOK

\* No step changes the faults of the behaviour.
LEMMA FaultsStay == [Next]_vars => UNCHANGED faults
<1>1. \A k \in Kinds :
        ChannelStep(k) \/ UseChannel(k) \/ CloseChannel(k) => UNCHANGED faults
  BY DEF ChannelStep, ChainStep, AskChannel, ChannelOpened, ExchangeRefused,
     RecreateTimer, UseChannel, CloseChannel
<1>2. \A n \in DOMAIN conn :
        DialStep(n) \/ BrokerReply(n) \/ ConnectionLost(n) \/ FarewellLost(n)
        => UNCHANGED faults
  BY DEF DialStep, Connected, DialFails, ReconnectTimer, ConnectionLost, BrokerReply,
         CloseReply, Farewell, FarewellLost, Gone
<1>3. Connect \/ Disconnect \/ ChannelsClosed \/ CloseConnection => UNCHANGED faults
  BY DEF Connect, Disconnect, ChannelsClosed, CloseConnection
<1> QED
  BY <1>1, <1>2, <1>3 DEF Next, ChannelError, vars

LEMMA TypeStep == TypeOK /\ [Next]_vars => TypeOK'
BY FaultsStay, StateTypeStep DEF TypeOK

\* The promise fields and the awaited promises always stand for promises that
\* were made, through every reconnection, re-creation and disconnection
\* (MessageBrokerConnector.ts:178-194).
THEOREM TypeCorrect == Spec => []TypeOK
BY TypeInit, TypeStep, PTL DEF Spec

-----------------------------------------------------------------------------
\* Nobody disconnects: the first connection is the only one that is dialed by
\* connect, and every other replaces one that has closed.
Undisturbed ==
    /\ session # "closing"
    /\ closing = NotClosing
    /\ session = "off" => conn = <<>>
    /\ \A n \in Alive : n = connPrm
    /\ \A n \in DOMAIN conn : conn[n] # "closing"

LEMMA UndisturbedInit == Init => Undisturbed
BY DEF Init, Undisturbed, Alive

\* The broker has no request of disconnect to reply to.
LEMMA UndisturbedQuiet ==
    Undisturbed => \A n \in DOMAIN conn : ~BrokerReply(n) /\ ~FarewellLost(n)
BY DEF Undisturbed, NotClosing, BrokerReply, CloseReply, Farewell, FarewellLost, Gone

LEMMA UndisturbedStep ==
    ASSUME "disconnect" \notin faults
    PROVE  StateTypeOK /\ Undisturbed /\ [Next]_vars => Undisturbed'
<1> SUFFICES ASSUME StateTypeOK, Undisturbed, [Next]_vars PROVE Undisturbed'
  OBVIOUS
<1>t. conn \in Seq(ConnStates) /\ Len(conn) \in Nat /\ DOMAIN conn = 1..Len(conn)
  BY DEF StateTypeOK
<1>u. /\ session # "closing" /\ closing.at = "none"
      /\ session = "off" => conn = <<>>
      /\ \A n \in DOMAIN conn :
           /\ conn[n] \in {"delayed", "dialing", "open"} => n = connPrm
           /\ conn[n] # "closing"
  BY DEF Undisturbed, Alive, NotClosing
<1>0. ASSUME UNCHANGED <<session, conn, connPrm, closing>> PROVE Undisturbed'
  BY <1>0 DEF Undisturbed, Alive, NotClosing
<1>1. CASE Connect
  <2>1. conn = <<>> /\ conn' = <<"dialing">> /\ connPrm' = 1
    BY <1>1, <1>u DEF Connect
  <2>2. \A n \in DOMAIN conn' : n = connPrm' /\ conn'[n] # "closing"
    BY <2>1
  <2> QED
    BY <1>1, <2>2 DEF Connect, Undisturbed, Alive, NotClosing
<1>2. ASSUME NEW n \in DOMAIN conn, DialStep(n) PROVE Undisturbed'
  <2>1. /\ conn[n] \in {"delayed", "dialing"} /\ session # "off"
        /\ UNCHANGED <<session, closing>>
        /\ connPrm' = connPrm \/ connPrm' = n
    BY <1>2, <1>u DEF DialStep, Connected, DialFails, ReconnectTimer, flags
  <2>2. PICK st \in {"dialing", "open", "failed"} : conn' = [conn EXCEPT ![n] = st]
    BY <1>2 DEF DialStep, Connected, DialFails, ReconnectTimer
  <2>3. connPrm = n /\ connPrm' = n
    BY <1>2, <1>u, <2>1
  <2>4. \A i \in DOMAIN conn' :
          /\ conn'[i] \in {"delayed", "dialing", "open"} => i = connPrm'
          /\ conn'[i] # "closing"
    BY <1>t, <1>u, <2>2, <2>3
  <2> QED
    BY <2>1, <2>4 DEF Undisturbed, Alive, NotClosing
<1>3. ASSUME NEW n \in DOMAIN conn, ConnectionLost(n) PROVE Undisturbed'
  <2>1. /\ conn[n] = "open" /\ UNCHANGED <<session, closing>>
        /\ conn' = Append([conn EXCEPT ![n] = "closed"], "delayed")
        /\ connPrm' = Len(conn) + 1
    BY <1>3 DEF ConnectionLost
  <2>2. session # "off" /\ n = connPrm
    BY <1>3, <1>u, <2>1
  <2> DEFINE s == [conn EXCEPT ![n] = "closed"]
  <2>3. Len(s) = Len(conn) /\ DOMAIN s = 1..Len(conn) /\ s \in Seq(ConnStates)
    <3>1. s \in Seq(ConnStates) /\ Len(s) = Len(conn)
      BY ClosedType
    <3> HIDE DEF s
    <3> QED
      BY <1>t, <3>1
  <2>4. \A i \in 1..Len(conn) : s[i] \notin {"delayed", "dialing", "open", "closing"}
    BY <1>t, <1>u, <2>2
  <2>5. \A i \in DOMAIN conn' :
          /\ conn'[i] \in {"delayed", "dialing", "open"} => i = connPrm'
          /\ conn'[i] # "closing"
    <3> HIDE DEF s
    <3>1. conn' = Append(s, "delayed")
      BY <2>1 DEF s
    <3>2. /\ DOMAIN conn' = 1..(Len(conn) + 1)
          /\ \A i \in 1..Len(conn) : conn'[i] = s[i]
          /\ conn'[Len(conn) + 1] = "delayed"
      <4>1. "delayed" \in ConnStates
        BY DEF ConnStates
      <4> QED
        BY <1>t, <2>3, <3>1, <4>1
    <3> QED
      BY <1>t, <2>1, <2>4, <3>2
  <2> QED
    BY <2>1, <2>2, <2>5 DEF Undisturbed, Alive, NotClosing
<1>4. ASSUME NEW k \in Kinds,
             \/ ChannelStep(k) \/ UseChannel(k)
             \/ \E m \in DOMAIN chan[k] : ChannelError(k, m)
      PROVE  Undisturbed'
  BY <1>0, <1>4 DEF ChannelStep, ChainStep, AskChannel, ChannelOpened,
     ExchangeRefused, RecreateTimer, UseChannel, ChannelError
<1>5. CASE Disconnect
  BY <1>5 DEF Disconnect
<1>6. ASSUME NEW k \in Kinds, CloseChannel(k) PROVE Undisturbed'
  BY <1>6, <1>u DEF CloseChannel, Kinds
<1>7. CASE ChannelsClosed
  BY <1>7, <1>u DEF ChannelsClosed
<1>8. CASE CloseConnection
  BY <1>8, <1>u DEF CloseConnection
<1>9. CASE UNCHANGED vars
  BY <1>0, <1>9 DEF vars
<1>10. \A n \in DOMAIN conn : ~BrokerReply(n) /\ ~FarewellLost(n)
  BY UndisturbedQuiet
<1> QED
  BY <1>1, <1>2, <1>3, <1>4, <1>5, <1>6, <1>7, <1>8, <1>9, <1>10 DEF Next

\* As long as nobody disconnects, losses, refused dials and reconnection
\* timers never leave the connector with two connections, nor with one that
\* _connectionPrm does not stand for (MessageBrokerConnector.ts:516-545).
THEOREM SingleConnection == Spec => []OneConnection
<1> DEFINE Inv == TypeOK /\ ("disconnect" \notin faults => Undisturbed)
<1>1. Init => Inv
  BY TypeInit, UndisturbedInit
<1>2. Inv /\ [Next]_vars => Inv'
  <2> SUFFICES ASSUME Inv, [Next]_vars PROVE Inv'
    OBVIOUS
  <2>1. TypeOK'
    BY TypeStep
  <2>2. UNCHANGED faults
    BY FaultsStay
  <2>3. ASSUME "disconnect" \notin faults PROVE Undisturbed'
    <3>1. StateTypeOK /\ Undisturbed
      BY <2>3 DEF TypeOK
    <3> QED
      BY <2>3, <3>1, UndisturbedStep
  <2> QED
    BY <2>1, <2>2, <2>3
<1>3. Inv => OneConnection
  BY DEF Undisturbed, OneConnection
<1> QED
  BY <1>1, <1>2, <1>3, PTL DEF Spec

-----------------------------------------------------------------------------
\* What the steps do to the promises, one by one.

LEMMA Grown ==
    ASSUME StateTypeOK, NEW k \in Kinds, NEW c, NewChannel(k, c)
    PROVE  /\ chanPrm'[k] = Len(chan[k]) + 1 /\ Len(chan'[k]) = Len(chan[k]) + 1
           /\ chan'[k][Len(chan[k]) + 1] = c
           /\ \A m \in 1..Len(chan[k]) : chan'[k][m] = chan[k][m]
           /\ \A j \in Kinds \ {k} : chan'[j] = chan[j] /\ chanPrm'[j] = chanPrm[j]
<1>1. chan \in [Kinds -> Seq(Channel)] /\ chanPrm \in [Kinds -> Nat]
  BY DEF StateTypeOK
<1>2. chan' = [chan EXCEPT ![k] = Append(chan[k], c)]
      /\ chanPrm' = [chanPrm EXCEPT ![k] = Len(chan[k]) + 1]
  BY DEF NewChannel
<1>3. PICK s \in Seq(Channel) : s = chan[k]
  BY <1>1
<1>4. /\ Len(Append(s, c)) = Len(s) + 1 /\ Append(s, c)[Len(s) + 1] = c
      /\ \A m \in 1..Len(s) : Append(s, c)[m] = s[m]
  <2>1. s \in Seq(Channel \cup {c})
    OBVIOUS
  <2> QED
    BY <2>1
<1> QED
  BY <1>1, <1>2, <1>3, <1>4

\* Promise m of kind k is the only one that has changed, but for listeners.
Alters(k, m) ==
    /\ \A j \in Kinds \ {k} : chan'[j] = chan[j]
    /\ DOMAIN chan'[k] = DOMAIN chan[k] /\ Len(chan'[k]) = Len(chan[k])
    /\ \A i \in DOMAIN chan[k] \ {m} :
         chan'[k][i].st = chan[k][i].st /\ chan'[k][i].of = chan[k][i].of

LEMMA Altered ==
    ASSUME StateTypeOK, StateTypeOK', NEW k \in Kinds, NEW m \in DOMAIN chan[k]
    PROVE  /\ \A st : Becomes(k, m, st) =>
                /\ Alters(k, m)
                /\ chan'[k][m].st = st /\ chan'[k][m].of = chan[k][m].of
           /\ ChannelOpened(k, m) =>
                /\ Alters(k, m)
                /\ chan'[k][m].st = "open" /\ chan'[k][m].of = chan[k][m].of
           /\ ChainStep(k, m) =>
                /\ Alters(k, m) /\ chan[k][m].st = "chained"
                /\ \/ /\ chan'[k][m].st = "rejected"
                      /\ chan[k][chan[k][m].of].st = "rejected"
                   \/ /\ chan[k][chan[k][m].of].st \in {"open", "closed"}
                      /\ chan'[k][m].st = Created.st /\ chan'[k][m].of = Created.of
<1>1. /\ chan \in [Kinds -> Seq(Channel)] /\ chan' \in [Kinds -> Seq(Channel)]
      /\ \A i \in DOMAIN chan[k] : chan[k][i] \in Channel
      /\ DOMAIN chan[k] = 1..Len(chan[k]) /\ DOMAIN chan'[k] = 1..Len(chan'[k])
      /\ Len(chan[k]) \in Nat /\ Len(chan'[k]) \in Nat
  BY DEF StateTypeOK
<1>2. ASSUME DOMAIN chan'[k] = DOMAIN chan[k] PROVE Len(chan'[k]) = Len(chan[k])
  <2>1. ASSUME NEW a \in Nat, NEW b \in Nat, 1..a = 1..b PROVE a <= b
    <3>1. a = 0 \/ a \in 1..a
      OBVIOUS
    <3> QED
      BY <2>1, <3>1
  <2>2. 1..Len(chan'[k]) = 1..Len(chan[k])
    BY <1>1, <1>2
  <2>3. Len(chan'[k]) <= Len(chan[k]) /\ Len(chan[k]) <= Len(chan'[k])
    BY <1>1, <2>1, <2>2
  <2>4. ASSUME NEW a \in Nat, NEW b \in Nat, a <= b, b <= a PROVE a = b
    BY <2>4
  <2>5. Len(chan'[k]) \in Nat /\ Len(chan[k]) \in Nat
    BY <1>1
  <2> QED
    BY <2>3, <2>4, <2>5
<1>3. ASSUME NEW st, Becomes(k, m, st)
      PROVE  /\ Alters(k, m)
             /\ chan'[k][m].st = st /\ chan'[k][m].of = chan[k][m].of
  <2>1. chan' = [chan EXCEPT ![k] = [chan[k] EXCEPT ![m] = [chan[k][m] EXCEPT !.st = st]]]
    BY <1>1, <1>3 DEF Becomes
  <2> QED
    BY <1>1, <1>2, <2>1 DEF Alters, Channel
<1>4. ASSUME ChannelOpened(k, m)
      PROVE  /\ Alters(k, m)
             /\ chan'[k][m].st = "open" /\ chan'[k][m].of = chan[k][m].of
  <2> DEFINE c == [chan[k][m] EXCEPT !.st = "open", !.heard = TRUE]
  <2>1. chan' = [chan EXCEPT ![k] = [chan[k] EXCEPT ![m] = c]]
    BY <1>1, <1>4 DEF ChannelOpened
  <2> QED
    BY <1>1, <1>2, <2>1 DEF Alters, Channel
<1>5. ASSUME ChainStep(k, m)
      PROVE  /\ Alters(k, m) /\ chan[k][m].st = "chained"
             /\ \/ /\ chan'[k][m].st = "rejected"
                   /\ chan[k][chan[k][m].of].st = "rejected"
                \/ /\ chan[k][chan[k][m].of].st \in {"open", "closed"}
                   /\ chan'[k][m].st = Created.st /\ chan'[k][m].of = Created.of
  <2>1. PICK old : old = chan[k][m].of
    OBVIOUS
  <2>2. /\ chan[k][m].st = "chained"
        /\ \/ Becomes(k, m, "rejected") /\ chan[k][old].st = "rejected"
           \/ /\ chan[k][old].st \in {"open", "closed"}
              /\ chan' = [chan EXCEPT ![k] =
                           [chan[k] EXCEPT ![m] = Created, ![old].heard = FALSE]]
    BY <1>1, <1>5, <2>1 DEF ChainStep
  <2>3. CASE Becomes(k, m, "rejected") /\ chan[k][old].st = "rejected"
    BY <1>3, <2>1, <2>2, <2>3
  <2>4. CASE /\ chan[k][old].st \in {"open", "closed"}
             /\ chan' = [chan EXCEPT ![k] =
                          [chan[k] EXCEPT ![m] = Created, ![old].heard = FALSE]]
    <3>1. old # m
      BY <2>2, <2>4
    <3>2. chan'[k] = [[chan[k] EXCEPT ![m] = Created]
                        EXCEPT ![old].heard = FALSE]
      BY <1>1, <2>4
    <3>3. /\ DOMAIN chan'[k] = DOMAIN chan[k]
          /\ chan'[k][m] = Created
          /\ \A i \in DOMAIN chan[k] \ {m, old} : chan'[k][i] = chan[k][i]
          /\ old \in DOMAIN chan[k] =>
               chan'[k][old] = [chan[k][old] EXCEPT !.heard = FALSE]
      BY <3>1, <3>2
    <3> QED
      BY <1>1, <1>2, <2>1, <2>2, <2>4, <3>3 DEF Alters, Channel
  <2> QED
    BY <2>2, <2>3, <2>4
<1> QED
  BY <1>3, <1>4, <1>5

\* A lost connection takes its channels with it, and resetChannels replaces
\* each promise that is in use.
LEMMA Lost ==
    ASSUME StateTypeOK, StateTypeOK', NEW n, ConnectionLost(n), NEW k \in Kinds
    PROVE  /\ \A m \in 1..Len(chan[k]) :
                /\ m \in DOMAIN chan'[k]
                /\ chan'[k][m].of = chan[k][m].of
                /\ IF chan[k][m].of = n /\ chan[k][m].st = "opening"
                     THEN chan'[k][m].st = "rejected"
                     ELSE IF chan[k][m].of = n /\ chan[k][m].st = "open"
                       THEN chan'[k][m].st = "closed"
                       ELSE chan'[k][m].st = chan[k][m].st
           /\ IF chanPrm[k] = 0
                THEN chanPrm'[k] = 0 /\ Len(chan'[k]) = Len(chan[k])
                ELSE /\ chanPrm'[k] = Len(chan[k]) + 1
                     /\ Len(chan'[k]) = Len(chan[k]) + 1
                     /\ chan'[k][Len(chan[k]) + 1].st = "chained"
                     /\ chan'[k][Len(chan[k]) + 1].of = chanPrm[k]
           /\ \A t \in timers'[k] : t \in timers[k] \/ (t = chanPrm[k] /\ chan[k] # <<>>)
<1>1. /\ chan \in [Kinds -> Seq(Channel)] /\ Len(chan[k]) \in Nat
      /\ DOMAIN chan[k] = 1..Len(chan[k])
      /\ \A m \in DOMAIN chan[k] : chan[k][m] \in Channel
  BY DEF StateTypeOK
<1>2. PICK o : o = Orphaned(n)[k]
  OBVIOUS
<1>3. /\ DOMAIN o = DOMAIN chan[k]
      /\ \A m \in DOMAIN chan[k] : o[m] =
           LET c == chan[k][m] IN
           CASE c.of = n /\ c.st = "opening" -> [c EXCEPT !.st = "rejected"]
             [] c.of = n /\ c.st = "open" -> [c EXCEPT !.st = "closed"]
             [] OTHER -> c
  BY <1>2 DEF Orphaned
<1>4. \A m \in 1..Len(chan[k]) :
        /\ o[m].of = chan[k][m].of
        /\ IF chan[k][m].of = n /\ chan[k][m].st = "opening"
             THEN o[m].st = "rejected"
             ELSE IF chan[k][m].of = n /\ chan[k][m].st = "open"
               THEN o[m].st = "closed"
               ELSE o[m].st = chan[k][m].st
  BY <1>1, <1>3 DEF Channel
<1>5. o \in Seq(Channel) /\ Len(o) = Len(chan[k])
  BY <1>2, OrphanedType
<1>6. IF chanPrm[k] = 0
        THEN chanPrm'[k] = 0 /\ chan'[k] = o
        ELSE chanPrm'[k] = Len(chan[k]) + 1 /\ chan'[k] = Append(o, Chained(chanPrm[k]))
  BY <1>2 DEF ConnectionLost
<1>7. \A t \in timers'[k] : t \in timers[k] \/ (t = chanPrm[k] /\ chan[k] # <<>>)
  BY <1>1 DEF ConnectionLost, TimersAfter
<1>8. CASE chanPrm[k] = 0
  BY <1>1, <1>3, <1>4, <1>5, <1>6, <1>7, <1>8
<1>9. CASE chanPrm[k] # 0
  <2> DEFINE c == Chained(chanPrm[k])
  <2>1. c.st = "chained" /\ c.of = chanPrm[k] /\ c \in Channel
    BY DEF Chained, Channel, StateTypeOK, ChanStates
  <2> HIDE DEF c
  <2>2. /\ Len(Append(o, c)) = Len(o) + 1 /\ Append(o, c)[Len(o) + 1] = c
        /\ \A m \in 1..Len(o) : m \in DOMAIN Append(o, c) /\ Append(o, c)[m] = o[m]
    BY <1>1, <1>5, <2>1
  <2>3. chanPrm'[k] = Len(chan[k]) + 1 /\ chan'[k] = Append(o, c)
    BY <1>6, <1>9 DEF c
  <2> QED
    BY <1>4, <1>5, <1>7, <1>9, <2>1, <2>2, <2>3
<1> QED
  BY <1>8, <1>9

-----------------------------------------------------------------------------
\* Nobody disconnects: only the latest promise of a kind is still good for
\* anything, and it is about the current connection.
Current(k) ==
    LET p == chanPrm[k] IN
    /\ p = Len(chan[k])
    /\ connPrm = 0 => p = 0
    /\ \A m \in 1..(p - 1) : chan[k][m].st \in {"closed", "rejected"}
    /\ p # 0 /\ chan[k][p].st = "chained" => p > 1 /\ chan[k][p].of = p - 1
    /\ p # 0 /\ chan[k][p].st \in {"waiting", "opening", "open"} =>
         chan[k][p].of = connPrm
    /\ \A t \in timers[k] : t \in 1..p /\ (t = p => chan[k][t].st = "closed")

\* A step of one promise keeps this.
LEMMA CurrentAltered ==
    ASSUME StateTypeOK, NEW k \in Kinds, Current(k),
           NEW m \in DOMAIN chan[k], chan[k][m].st \in Pending \cup {"open"},
           Alters(k, m), UNCHANGED <<connPrm, chanPrm>>,
           \/ chan'[k][m].st \in {"closed", "rejected"}
           \/ chan'[k][m].st \in {"waiting", "opening", "open"} /\ chan'[k][m].of = connPrm,
           \A t \in timers'[k] :
               t \in timers[k] \/ (t = chanPrm[k] /\ chan'[k][m].st = "closed")
    PROVE  m = chanPrm[k] /\ Current(k)'
<1>1. DOMAIN chan[k] = 1..Len(chan[k]) /\ Len(chan[k]) \in Nat
  BY DEF StateTypeOK
<1>2. m = chanPrm[k] /\ m = Len(chan[k]) /\ m # 0
  BY <1>1 DEF Current, Pending
<1>3. chan'[k][m].st # "chained"
  OBVIOUS
<1>4. \A i \in 1..(m - 1) : chan'[k][i].st = chan[k][i].st
  BY <1>1, <1>2 DEF Alters
<1>5. \A t \in timers'[k] : t \in 1..m /\ (t = m => chan'[k][t].st = "closed")
  BY <1>1, <1>2 DEF Current, Pending
<1>6. chanPrm'[k] = m /\ Len(chan'[k]) = m /\ connPrm' = connPrm
  BY <1>2 DEF Alters
<1> QED
  BY <1>2, <1>3, <1>4, <1>5, <1>6 DEF Current

\* So does a step that leaves the promises of the kind alone.
LEMMA CurrentAlone ==
    ASSUME NEW k \in Kinds, Current(k), chan'[k] = chan[k], chanPrm'[k] = chanPrm[k],
           connPrm' = connPrm \/ (connPrm' # 0 /\ chanPrm[k] = 0),
           timers'[k] \subseteq timers[k]
    PROVE  Current(k)'
BY DEF Current

\* And so does a new promise.
LEMMA CurrentGrown ==
    ASSUME StateTypeOK, NEW k \in Kinds, Current(k), NewChannel(k, Created),
           chan[k] = <<>> \/ chan[k][chanPrm[k]].st \in {"closed", "rejected"},
           connPrm # 0, UNCHANGED connPrm, timers'[k] \subseteq timers[k]
    PROVE  Current(k)'
<1>1. Len(chan[k]) \in Nat /\ chanPrm[k] = Len(chan[k])
  BY DEF StateTypeOK, Current
<1>2. /\ chanPrm'[k] = Len(chan[k]) + 1 /\ Len(chan'[k]) = Len(chan[k]) + 1
      /\ chan'[k][Len(chan[k]) + 1] = Created
      /\ \A m \in 1..Len(chan[k]) : chan'[k][m] = chan[k][m]
  BY Grown
<1>3. Created.st = "waiting" /\ Created.of = connPrm
  BY DEF Created
<1>4. \A m \in 1..Len(chan[k]) : chan[k][m].st \in {"closed", "rejected"}
  BY <1>1 DEF Current
<1>5. \A t \in timers'[k] : t \in 1..Len(chan[k])
  BY <1>1 DEF Current
<1> QED
  BY <1>1, <1>2, <1>3, <1>4, <1>5 DEF Current

\* When a connection is lost nothing waits for it.
LEMMA CurrentLost ==
    ASSUME StateTypeOK, StateTypeOK', NEW k \in Kinds, Current(k),
           Undisturbed, NEW n \in DOMAIN conn, ConnectionLost(n)
    PROVE  /\ chanPrm[k] # 0 => chan[k][chanPrm[k]].st \notin {"chained", "waiting"}
           /\ Current(k)'
<1>1. /\ Len(chan[k]) \in Nat /\ chanPrm[k] = Len(chan[k])
      /\ DOMAIN chan[k] = 1..Len(chan[k])
      /\ \A m \in DOMAIN chan[k] : chan[k][m].st \in ChanStates
  <2>1. chan[k] \in Seq(Channel)
    BY DEF StateTypeOK
  <2>2. \A m \in DOMAIN chan[k] : chan[k][m] \in Channel
    BY <2>1
  <2> QED
    BY <2>1, <2>2 DEF Current, Channel
<1>2. n = connPrm /\ conn[n] = "open" /\ AtRest /\ connPrm' # 0
  BY DEF Undisturbed, Alive, ConnectionLost, StateTypeOK
<1>3. \A m \in DOMAIN chan[k] : ~ChannelReady(k, m)
  BY <1>2 DEF AtRest
<1>4. ASSUME chanPrm[k] # 0
      PROVE  chan[k][chanPrm[k]].st \notin {"chained", "waiting"}
  <2> DEFINE p == chanPrm[k]
  <2>1. p \in DOMAIN chan[k] /\ p \in Nat
    BY <1>1, <1>4
  <2>2. chan[k][p].st # "waiting"
    BY <1>2, <1>3, <1>4, <2>1 DEF ChannelReady, ConnSettled, Current
  <2>3. ASSUME chan[k][p].st = "chained" PROVE FALSE
    <3>1. chan[k][p].of = p - 1 /\ p - 1 \in 1..(p - 1)
      BY <1>4, <2>1, <2>3 DEF Current
    <3>2. ChanSettled(k, p - 1)
      BY <3>1 DEF Current, ChanSettled, Pending
    <3> QED
      BY <1>3, <2>1, <2>3, <3>1, <3>2 DEF ChannelReady
  <2> QED
    BY <2>2, <2>3
<1>5. \A m \in 1..Len(chan[k]) : chan'[k][m].st \in {"closed", "rejected"}
  <2> SUFFICES ASSUME NEW m \in 1..Len(chan[k])
               PROVE  chan'[k][m].st \in {"closed", "rejected"}
    OBVIOUS
  <2>1. CASE m # chanPrm[k]
    <3>1. chan[k][m].st \in {"closed", "rejected"}
      BY <1>1, <2>1 DEF Current
    <3> QED
      BY <3>1, Lost
  <2>2. CASE m = chanPrm[k]
    <3>1. \/ chan[k][m].st \in {"opening", "open"} /\ chan[k][m].of = n
          \/ chan[k][m].st \in {"closed", "rejected"}
      BY <1>1, <1>2, <1>4, <2>2 DEF Current, ChanStates
    <3> QED
      BY <3>1, Lost
  <2> QED
    BY <2>1, <2>2
<1>6. \A t \in timers'[k] : t \in 1..Len(chan[k])
  <2>1. \A t \in timers'[k] : t \in timers[k] \/ (t = chanPrm[k] /\ chan[k] # <<>>)
    BY Lost
  <2>2. chan[k] # <<>> => chanPrm[k] # 0
    BY <1>1 DEF StateTypeOK
  <2> QED
    BY <1>1, <2>1, <2>2 DEF Current
<1>7. CASE chanPrm[k] = 0
  <2>1. chanPrm'[k] = 0 /\ Len(chan'[k]) = 0
    BY <1>1, <1>7, Lost
  <2>2. timers'[k] = {}
    BY <1>1, <1>6, <1>7
  <2> QED
    BY <1>2, <1>4, <2>1, <2>2 DEF Current
<1>8. CASE chanPrm[k] # 0
  <2>1. /\ chanPrm'[k] = Len(chan[k]) + 1 /\ Len(chan'[k]) = Len(chan[k]) + 1
        /\ chan'[k][Len(chan[k]) + 1].st = "chained"
        /\ chan'[k][Len(chan[k]) + 1].of = Len(chan[k])
    BY <1>1, <1>8, Lost
  <2> QED
    BY <1>1, <1>2, <1>4, <1>5, <1>6, <1>8, <2>1 DEF Current
<1> QED
  BY <1>7, <1>8

CurrentInv == \A k \in Kinds : Current(k)

LEMMA CurrentStep ==
    ASSUME "disconnect" \notin faults, StateTypeOK, StateTypeOK', Undisturbed,
           CurrentInv, [Next]_vars
    PROVE  CurrentInv'
<1> SUFFICES ASSUME NEW k \in Kinds PROVE Current(k)'
  BY DEF CurrentInv
<1>c. Current(k) /\ \A j \in Kinds : Current(j)
  BY DEF CurrentInv
<1>p. chanPrm[k] = 0 => chan[k] = <<>>
  BY <1>c DEF Current, StateTypeOK
<1>1. CASE Connect
  <2>1. connPrm = 0
    BY <1>1 DEF Connect, Undisturbed, StateTypeOK
  <2>2. connPrm' # 0
    BY <1>1 DEF Connect, StateTypeOK
  <2> QED
    BY <1>1, <1>c, <2>1, <2>2, CurrentAlone DEF Connect, Current
<1>2. ASSUME NEW n \in DOMAIN conn, DialStep(n) PROVE Current(k)'
  <2>1. connPrm' = connPrm
    BY <1>2 DEF DialStep, Connected, DialFails, ReconnectTimer, Undisturbed, Alive
  <2>2. UNCHANGED <<chan, chanPrm, timers>>
    BY <1>2 DEF DialStep, Connected, DialFails, ReconnectTimer
  <2> QED
    BY <1>c, <2>1, <2>2, CurrentAlone
<1>3. ASSUME NEW n \in DOMAIN conn, ConnectionLost(n) PROVE Current(k)'
  BY <1>3, <1>c, CurrentLost
<1>4. ASSUME NEW j \in Kinds, NEW m \in DOMAIN chan[j],
             ChainStep(j, m) \/ AskChannel(j, m) \/ ChannelOpened(j, m)
             \/ ExchangeRefused(j, m) \/ ChannelError(j, m)
      PROVE  Current(k)'
  <2>0. /\ chan[j][m].st \in Pending \cup {"open"}
        /\ UNCHANGED <<connPrm, chanPrm>>
        /\ \A i \in Kinds \ {j} : timers'[i] = timers[i]
    BY <1>4 DEF ChainStep, AskChannel, ChannelOpened, ExchangeRefused, ChannelError,
                Pending, StateTypeOK
  <2>1. /\ Alters(j, m)
        /\ \/ chan'[j][m].st \in {"closed", "rejected"}
           \/ /\ chan'[j][m].st \in {"waiting", "opening", "open"}
              /\ chan'[j][m].of = connPrm
        /\ \A t \in timers'[j] :
             t \in timers[j] \/ (t = chanPrm[j] /\ chan'[j][m].st = "closed")
    <3>1. m = chanPrm[j]
      <4>1. DOMAIN chan[j] = 1..Len(chan[j]) /\ Len(chan[j]) \in Nat
        BY DEF StateTypeOK
      <4>2. chanPrm[j] = Len(chan[j]) /\ m \in Nat /\ m <= chanPrm[j] /\ m >= 1
        BY <1>c, <4>1 DEF Current
      <4>3. m \notin 1..(chanPrm[j] - 1)
        BY <1>c, <2>0 DEF Current, Pending
      <4> QED
        BY <4>1, <4>2, <4>3
    <3>2. m # 0
      BY DEF StateTypeOK
    <3>3. CASE ChainStep(j, m)
      <4>1. Created.st = "rejected" \/ (Created.st = "waiting" /\ Created.of = connPrm)
        BY DEF Created
      <4>2. timers' = timers
        BY <3>3 DEF ChainStep
      <4> HIDE DEF Created
      <4> QED
        BY <3>3, <4>1, <4>2, Altered
    <3>4. CASE AskChannel(j, m)
      <4>1. chan[j][m].of = connPrm
        BY <1>c, <3>1, <3>2, <3>4 DEF AskChannel, Current
      <4> QED
        BY <3>4, <4>1, Altered DEF AskChannel
    <3>5. CASE ChannelOpened(j, m)
      <4>1. chan[j][m].of = connPrm
        BY <1>c, <3>1, <3>2, <3>5 DEF ChannelOpened, Current
      <4> QED
        BY <3>5, <4>1, Altered DEF ChannelOpened
    <3>6. CASE ExchangeRefused(j, m)
      BY <3>6, Altered DEF ExchangeRefused
    <3>7. CASE ChannelError(j, m)
      <4>1. \A t \in timers'[j] : t \in timers[j] \cup {chanPrm[j]}
        BY <3>7 DEF ChannelError, StateTypeOK
      <4> QED
        BY <3>7, <4>1, Altered DEF ChannelError
    <3> QED
      BY <1>4, <3>3, <3>4, <3>5, <3>6, <3>7
  <2>2. CASE j = k
    BY <1>c, <2>0, <2>1, <2>2, CurrentAltered
  <2>3. CASE j # k
    BY <1>c, <2>0, <2>1, <2>3, CurrentAlone DEF Alters
  <2> QED
    BY <2>2, <2>3
<1>5. ASSUME NEW j \in Kinds, NEW old \in timers[j], RecreateTimer(j, old)
      PROVE  Current(k)'
  <2>1. UNCHANGED connPrm /\ timers'[k] \subseteq timers[k]
    BY <1>5 DEF RecreateTimer, StateTypeOK
  <2>2. CASE chanPrm[j] = old /\ j = k
    <3>1. old \in 1..chanPrm[k] /\ chan[k][chanPrm[k]].st = "closed"
      BY <1>c, <2>2 DEF Current
    <3>2. connPrm # 0
      BY <1>c, <2>2, <3>1 DEF Current, StateTypeOK
    <3>3. NewChannel(k, Created)
      BY <1>5, <2>2 DEF RecreateTimer
    <3> QED
      BY <1>c, <2>1, <3>1, <3>2, <3>3, CurrentGrown
  <2>3. CASE chanPrm[j] = old /\ j # k
    BY <1>5, <1>c, <2>1, <2>3, CurrentAlone, Grown DEF RecreateTimer
  <2>4. CASE chanPrm[j] # old
    BY <1>5, <1>c, <2>1, <2>4, CurrentAlone DEF RecreateTimer
  <2> QED
    BY <2>2, <2>3, <2>4
<1>6. ASSUME NEW j \in Kinds, UseChannel(j) PROVE Current(k)'
  <2>1. UNCHANGED <<connPrm, timers>> /\ connPrm # 0 /\ NewChannel(j, Created)
        /\ chanPrm[j] = 0
    BY <1>6 DEF UseChannel
  <2>2. CASE j = k
    BY <1>c, <1>p, <2>1, <2>2, CurrentGrown
  <2>3. CASE j # k
    BY <1>c, <2>1, <2>3, CurrentAlone, Grown
  <2> QED
    BY <2>2, <2>3
<1>7. ~Disconnect /\ ~ChannelsClosed /\ ~CloseConnection /\ \A j \in Kinds : ~CloseChannel(j)
  BY DEF Disconnect, ChannelsClosed, CloseConnection, CloseChannel, Undisturbed,
         NotClosing, Kinds
<1>8. CASE UNCHANGED vars
  BY <1>8, <1>c, CurrentAlone DEF vars
<1> QED
  BY <1>1, <1>2, <1>3, <1>4, <1>5, <1>6, <1>7, <1>8, UndisturbedQuiet
     DEF Next, ChannelStep

UninterruptedInv == "disconnect" \notin faults => Undisturbed /\ CurrentInv

LEMMA CurrentInit == Init => CurrentInv
<1> SUFFICES ASSUME Init, NEW k \in Kinds PROVE Current(k)
  BY DEF CurrentInv
<1>1. chan[k] = <<>> /\ chanPrm[k] = 0 /\ timers[k] = {} /\ connPrm = 0
  BY DEF Init
<1> QED
  BY <1>1 DEF Current

LEMMA Uninterrupted == Spec => [](TypeOK /\ UninterruptedInv)
<1> DEFINE Inv == TypeOK /\ UninterruptedInv
<1>1. Init => Inv
  BY TypeInit, UndisturbedInit, CurrentInit DEF UninterruptedInv
<1>2. Inv /\ [Next]_vars => Inv'
  <2> SUFFICES ASSUME Inv, [Next]_vars PROVE Inv'
    OBVIOUS
  <2>1. TypeOK' /\ UNCHANGED faults
    BY TypeStep, FaultsStay
  <2>2. ASSUME "disconnect" \notin faults PROVE Undisturbed' /\ CurrentInv'
    <3>1. StateTypeOK /\ StateTypeOK' /\ Undisturbed /\ CurrentInv
      BY <2>1, <2>2 DEF TypeOK, UninterruptedInv
    <3> QED
      BY <2>2, <3>1, UndisturbedStep, CurrentStep
  <2> QED
    BY <2>1, <2>2 DEF UninterruptedInv
<1> QED
  BY <1>1, <1>2, PTL DEF Spec

\* A loss, its reconnection and the two re-creation timers race, and yet, as
\* long as nobody disconnects, a connection never carries two channels of a
\* kind (MessageBrokerConnector.ts:182, 436, 571-572, 589-591).
THEOREM SingleChannels == Spec => []OneChannelPerKind
<1>1. TypeOK /\ UninterruptedInv => OneChannelPerKind
  <2> SUFFICES ASSUME TypeOK, UninterruptedInv, "disconnect" \notin faults,
                      NEW k \in Kinds, NEW m \in DOMAIN chan[k],
                      chan[k][m].st \in {"opening", "open"}
               PROVE  m = chanPrm[k]
    BY DEF OneChannelPerKind
  <2>1. DOMAIN chan[k] = 1..Len(chan[k]) /\ Len(chan[k]) \in Nat
    BY DEF TypeOK, StateTypeOK
  <2>2. chanPrm[k] = Len(chan[k]) /\ m \notin 1..(chanPrm[k] - 1)
    BY DEF UninterruptedInv, CurrentInv, Current
  <2> QED
    BY <2>1, <2>2
<1> QED
  BY <1>1, Uninterrupted, PTL

-----------------------------------------------------------------------------
\* Nothing rejects a promise: the connection is there or on its way.
Unharmed ==
    /\ \A k \in Kinds : \A m \in DOMAIN chan[k] : chan[k][m].st # "rejected"
    /\ connPrm # 0 => conn[connPrm] \in {"delayed", "dialing", "open"}

LEMMA UnharmedStep ==
    ASSUME faults \cap {"refuse", "exchange", "pendingLoss", "disconnect"} = {},
           StateTypeOK, StateTypeOK', Undisturbed, CurrentInv, CurrentInv',
           Unharmed, [Next]_vars
    PROVE  Unharmed'
<1> DEFINE Sane(k) == \A m \in DOMAIN chan[k] : chan[k][m].st # "rejected"
           There == connPrm # 0 => conn[connPrm] \in {"delayed", "dialing", "open"}
<1>t. /\ conn \in Seq(ConnStates) /\ Len(conn) \in Nat /\ connPrm \in 0..Len(conn)
      /\ \A k \in Kinds : Len(chan[k]) \in Nat /\ DOMAIN chan[k] = 1..Len(chan[k])
                          /\ DOMAIN chan'[k] = 1..Len(chan'[k])
  BY DEF StateTypeOK
<1>0. There /\ \A k \in Kinds : Sane(k) /\ Current(k) /\ Current(k)'
  BY DEF Unharmed, CurrentInv
<1>s. There' /\ (\A k \in Kinds : Sane(k)') => Unharmed'
  BY DEF Unharmed
<1>1. CASE Connect
  <2>1. There'
    BY <1>1, <1>t DEF Connect
  <2> QED
    BY <1>0, <1>1, <1>s, <2>1 DEF Connect
<1>2. ASSUME NEW n \in DOMAIN conn, DialStep(n) PROVE Unharmed'
  <2>1. connPrm' = connPrm /\ UNCHANGED chan
    BY <1>2 DEF DialStep, Connected, DialFails, ReconnectTimer, Undisturbed, Alive
  <2>2. conn' = [conn EXCEPT ![n] = "open"] \/ conn' = [conn EXCEPT ![n] = "dialing"]
    BY <1>2 DEF DialStep, Connected, DialFails, ReconnectTimer
  <2>3. There'
    BY <1>0, <1>t, <2>1, <2>2
  <2> QED
    BY <1>0, <1>s, <2>1, <2>3
<1>3. ASSUME NEW n \in DOMAIN conn, ConnectionLost(n) PROVE Unharmed'
  <2>1. conn' = Append([conn EXCEPT ![n] = "closed"], "delayed") /\ connPrm' = Len(conn) + 1
    BY <1>3 DEF ConnectionLost
  <2>2. There'
    <3>1. [conn EXCEPT ![n] = "closed"] \in Seq(ConnStates)
          /\ Len([conn EXCEPT ![n] = "closed"]) = Len(conn)
      BY ClosedType
    <3>2. PICK s \in Seq(ConnStates) : s = [conn EXCEPT ![n] = "closed"]
      BY <3>1
    <3>3. conn' = Append(s, "delayed") /\ Len(s) = Len(conn)
      BY <2>1, <3>1, <3>2
    <3>4. Append(s, "delayed")[Len(s) + 1] = "delayed"
      BY DEF ConnStates
    <3> QED
      BY <2>1, <3>3, <3>4
  <2>3. ~SomePending
    BY <1>3 DEF ConnectionLost
  <2>4. ASSUME NEW k \in Kinds PROVE Sane(k)'
    <3>1. \A m \in 1..Len(chan[k]) : chan'[k][m].st # "rejected"
      <4> SUFFICES ASSUME NEW m \in 1..Len(chan[k]) PROVE chan'[k][m].st # "rejected"
        OBVIOUS
      <4>1. chan[k][m].st \notin {"opening", "rejected"}
        BY <1>0, <1>t, <2>3 DEF SomePending, Pending
      <4> QED
        BY <1>3, <4>1, Lost
    <3>2. CASE chanPrm[k] = 0
      BY <1>3, <1>t, <3>1, <3>2, Lost
    <3>3. CASE chanPrm[k] # 0
      <4>1. /\ Len(chan'[k]) = Len(chan[k]) + 1
            /\ chan'[k][Len(chan[k]) + 1].st = "chained"
        BY <1>3, <3>3, Lost
      <4> QED
        BY <1>t, <3>1, <4>1
    <3> QED
      BY <3>2, <3>3
  <2> QED
    BY <1>s, <2>2, <2>4
<1>4. ASSUME NEW k \in Kinds,
             \/ \E m \in DOMAIN chan[k] :
                  ChainStep(k, m) \/ AskChannel(k, m) \/ ChannelOpened(k, m)
                  \/ ExchangeRefused(k, m) \/ ChannelError(k, m)
      PROVE  Unharmed'
  <2>1. PICK m \in DOMAIN chan[k] :
          ChainStep(k, m) \/ AskChannel(k, m) \/ ChannelOpened(k, m)
          \/ ExchangeRefused(k, m) \/ ChannelError(k, m)
    BY <1>4
  <2>2. UNCHANGED <<conn, connPrm, chanPrm>> /\ m \in Nat /\ m # 0
    BY <1>t, <2>1 DEF ChainStep, AskChannel, ChannelOpened, ExchangeRefused, ChannelError
  <2>3. chan[k][m].st \in Pending => m = chanPrm[k]
    BY <1>0, <1>t DEF Current, Pending
  <2>4. Alters(k, m) /\ chan'[k][m].st # "rejected"
    <3>1. CASE ChainStep(k, m)
      <4>1. chan[k][m].st = "chained"
        BY <3>1 DEF ChainStep
      <4>2. m = chanPrm[k] /\ chan[k][m].of = m - 1 /\ m > 1
        BY <1>0, <2>2, <2>3, <4>1 DEF Current, Pending
      <4>3. chan[k][chan[k][m].of].st # "rejected"
        BY <1>0, <1>t, <2>2, <4>2
      <4>4. connPrm # 0
        BY <1>0, <2>2, <4>2 DEF Current
      <4>5. Created.st = "waiting"
        BY <4>4 DEF Created
      <4> QED
        BY <3>1, <4>3, <4>5, Altered
    <3>2. CASE AskChannel(k, m)
      <4>1. chan[k][m].st = "waiting"
        BY <3>2 DEF AskChannel
      <4>2. m = chanPrm[k] /\ chan[k][m].of = connPrm
        BY <1>0, <2>2, <2>3, <4>1 DEF Current, Pending
      <4>3. connPrm # 0
        BY <1>0, <2>2, <4>2 DEF Current
      <4>4. Becomes(k, m, "opening")
        BY <1>0, <3>2, <4>2, <4>3 DEF AskChannel
      <4> QED
        BY <4>4, Altered
    <3>3. CASE ChannelOpened(k, m)
      BY <3>3, Altered
    <3>4. CASE ExchangeRefused(k, m)
      BY <3>4 DEF ExchangeRefused
    <3>5. CASE ChannelError(k, m)
      BY <3>5, Altered DEF ChannelError
    <3> QED
      BY <2>1, <3>1, <3>2, <3>3, <3>4, <3>5
  <2>5. \A j \in Kinds : Sane(j)'
    BY <1>0, <2>4 DEF Alters
  <2> QED
    BY <1>0, <1>s, <2>2, <2>5
<1>5. ASSUME NEW k \in Kinds,
             UseChannel(k) \/ \E old \in timers[k] : RecreateTimer(k, old)
      PROVE  Unharmed'
  <2>1. UNCHANGED <<conn, connPrm>>
    BY <1>5 DEF UseChannel, RecreateTimer
  <2>2. \/ UNCHANGED chan
        \/ NewChannel(k, Created) /\ connPrm # 0
    <3>1. CASE UseChannel(k)
      BY <3>1 DEF UseChannel
    <3>2. ASSUME NEW old \in timers[k], RecreateTimer(k, old)
          PROVE  UNCHANGED chan \/ (NewChannel(k, Created) /\ connPrm # 0)
      <4>1. CASE chanPrm[k] = old
        <5>1. old \in 1..chanPrm[k] /\ chanPrm[k] \in Nat
          BY <1>0, <1>t DEF Current
        <5>2. connPrm # 0
          BY <1>0, <4>1, <5>1 DEF Current
        <5> QED
          BY <3>2, <4>1, <5>2 DEF RecreateTimer
      <4>2. CASE chanPrm[k] # old
        BY <3>2, <4>2 DEF RecreateTimer
      <4> QED
        BY <4>1, <4>2
    <3> QED
      BY <1>5, <3>1, <3>2
  <2>3. ASSUME NewChannel(k, Created), connPrm # 0, NEW j \in Kinds PROVE Sane(j)'
    <3>1. Created.st = "waiting"
      BY <2>3 DEF Created
    <3>2. CASE j = k
      <4>1. /\ Len(chan'[k]) = Len(chan[k]) + 1 /\ chan'[k][Len(chan[k]) + 1] = Created
            /\ \A m \in 1..Len(chan[k]) : chan'[k][m] = chan[k][m]
        BY <2>3, Grown
      <4>2. \A m \in 1..(Len(chan[k]) + 1) : chan'[k][m].st # "rejected"
        BY <1>0, <1>t, <3>1, <4>1
      <4> QED
        BY <1>t, <3>2, <4>1, <4>2
    <3>3. CASE j # k
      BY <1>0, <2>3, <3>3, Grown
    <3> QED
      BY <3>2, <3>3
  <2> QED
    BY <1>0, <1>s, <2>1, <2>2, <2>3
<1>6. ~Disconnect /\ ~ChannelsClosed /\ ~CloseConnection /\ \A k \in Kinds : ~CloseChannel(k)
  BY DEF Disconnect, ChannelsClosed, CloseConnection, CloseChannel, Undisturbed,
         NotClosing, Kinds
<1>7. CASE UNCHANGED vars
  BY <1>0, <1>7, <1>s DEF vars
<1> QED
  BY <1>1, <1>2, <1>3, <1>4, <1>5, <1>6, <1>7, UndisturbedQuiet DEF Next, ChannelStep

\* Nothing but a refused dial, a refused exchange or a connection lost in the
\* middle of opening a channel rejects the promise of a channel, as long as
\* nobody disconnects (MessageBrokerConnector.ts:530-561, 600-619).
THEOREM RejectionHasCause == Spec => []RejectedForCause
<1> DEFINE Kind == faults \cap {"refuse", "exchange", "pendingLoss", "disconnect"} = {}
           Base == TypeOK /\ UninterruptedInv
           Inv == Kind => Unharmed
<1>1. Init => Inv
  BY DEF Init, Unharmed
<1>2. Base /\ Base' /\ Inv /\ [Next]_vars => Inv'
  <2> SUFFICES ASSUME Base, Base', Inv, [Next]_vars, Kind PROVE Unharmed'
    BY FaultsStay
  <2>1. UNCHANGED faults
    BY FaultsStay
  <2>2. "disconnect" \notin faults
    OBVIOUS
  <2>3. /\ StateTypeOK /\ StateTypeOK' /\ Undisturbed /\ CurrentInv /\ CurrentInv'
        /\ Unharmed
    BY <2>1, <2>2 DEF TypeOK, UninterruptedInv
  <2> QED
    BY <2>3, UnharmedStep
<1>3. Base /\ Inv => RejectedForCause
  BY DEF RejectedForCause, Rejected, Unharmed, TypeOK, StateTypeOK
<1> QED
  BY <1>1, <1>2, <1>3, Uninterrupted, PTL DEF Spec

-----------------------------------------------------------------------------
\* The broker never fails, and the user disconnects and connects: the latest
\* promise of a kind is the only one whose channel is not closed, until
\* disconnect has closed it.
Through(k) ==
    \/ closing.at \in {"replies", "connection", "farewell"}
    \/ closing.at = "publish" /\ k = "consume"

ConnFaultless ==
    /\ \A n \in DOMAIN conn :
         /\ conn[n] \in {"dialing", "open", "closing", "closed"}
         /\ conn[n] \in {"dialing", "open"} => n = connPrm
         /\ conn[n] = "closing" => closing.at = "farewell" /\ closing.awaits = n
    /\ connPrm = 0 <=> session = "off" \/ closing.at = "farewell"
    /\ connPrm = 0 => \A k \in Kinds : chanPrm[k] = 0
    /\ connPrm # 0 => conn[connPrm] \in {"dialing", "open"}
    /\ session = "closing" <=> closing.at # "none"
    /\ closing.at \in Kinds => closing.awaits = chanPrm[closing.at]
    /\ closing.at = "connection" => closing.awaits = connPrm
    /\ ~closing.refused

ChanFaultless(k) ==
    /\ timers[k] = {}
    /\ \A m \in DOMAIN chan[k] :
         /\ chan[k][m].st # "closed" <=> m = chanPrm[k] /\ ~Through(k)
         /\ chan[k][m].st # "closed" =>
              chan[k][m].of = connPrm /\ chan[k][m].st \in {"waiting", "opening", "open"}

Faultless == ConnFaultless /\ \A k \in Kinds : ChanFaultless(k)

LEMMA FaultlessInit == Init => Faultless
BY DEF Init, Faultless, ConnFaultless, ChanFaultless, NotClosing

LEMMA FaultlessStep ==
    ASSUME faults \subseteq {"disconnect"}, StateTypeOK, StateTypeOK', Faultless,
           [Next]_vars
    PROVE  Faultless'
<1>t. /\ conn \in Seq(ConnStates) /\ Len(conn) \in Nat /\ connPrm \in 0..Len(conn)
      /\ DOMAIN conn = 1..Len(conn)
      /\ \A k \in Kinds : /\ Len(chan[k]) \in Nat /\ DOMAIN chan[k] = 1..Len(chan[k])
                          /\ DOMAIN chan'[k] = 1..Len(chan'[k])
                          /\ chanPrm[k] \in 0..Len(chan[k])
  BY DEF StateTypeOK
<1>0. ConnFaultless /\ \A k \in Kinds : ChanFaultless(k)
  BY DEF Faultless
<1>s. ConnFaultless' /\ (\A k \in Kinds : ChanFaultless(k)') => Faultless'
  BY DEF Faultless
<1>c. ASSUME NEW k \in Kinds, chan'[k] = chan[k], chanPrm'[k] = chanPrm[k],
             timers'[k] = timers[k], UNCHANGED <<connPrm, closing>>
      PROVE  ChanFaultless(k)'
  BY <1>0, <1>c DEF ChanFaultless, Through
<1>d. \A n \in DOMAIN conn : ~DialFails(n) /\ ~ConnectionLost(n) /\ ~ReconnectTimer(n)
  BY <1>0 DEF DialFails, ConnectionLost, ReconnectTimer, ConnFaultless
<1>e. \A k \in Kinds : \A m \in DOMAIN chan[k] : ~ExchangeRefused(k, m) /\ ~ChannelError(k, m)
  BY DEF ExchangeRefused, ChannelError
<1>1. CASE Connect
  <2>1. /\ connPrm = 0 /\ closing.at = "none" /\ ~closing.refused /\ UNCHANGED closing
        /\ \A k \in Kinds : chanPrm[k] = 0
        /\ conn' = Append(conn, "dialing") /\ connPrm' = Len(conn) + 1
        /\ session' = "on" /\ UNCHANGED <<chan, chanPrm, timers>>
    BY <1>0, <1>1 DEF Connect, ConnFaultless
  <2>2. /\ DOMAIN conn' = 1..(Len(conn) + 1) /\ conn'[Len(conn) + 1] = "dialing"
        /\ \A n \in DOMAIN conn : conn'[n] = conn[n]
    BY <1>t, <2>1 DEF ConnStates
  <2>3. \A n \in DOMAIN conn : conn[n] = "closed"
    BY <1>0, <1>t, <2>1 DEF ConnFaultless
  <2>4. ConnFaultless'
    BY <1>t, <2>1, <2>2, <2>3 DEF ConnFaultless, Kinds
  <2>5. ASSUME NEW k \in Kinds PROVE ChanFaultless(k)'
    <3>1. \A m \in DOMAIN chan[k] : chan[k][m].st = "closed"
      BY <1>0, <1>t, <2>1 DEF ChanFaultless
    <3> QED
      BY <1>0, <1>t, <2>1, <3>1 DEF ChanFaultless
  <2> QED
    BY <1>s, <2>4, <2>5
<1>2. ASSUME NEW n \in DOMAIN conn, Connected(n) PROVE Faultless'
  <2>1. conn' = [conn EXCEPT ![n] = "open"] /\ conn[n] = "dialing"
        /\ UNCHANGED <<session, connPrm, chan, chanPrm, timers, closing>>
    BY <1>2 DEF Connected
  <2>2. ConnFaultless'
    BY <1>0, <1>t, <2>1 DEF ConnFaultless
  <2> QED
    BY <1>c, <1>s, <2>1, <2>2
<1>3. ASSUME NEW k \in Kinds, NEW m \in DOMAIN chan[k],
             ChainStep(k, m) \/ AskChannel(k, m) \/ ChannelOpened(k, m)
      PROVE  Faultless'
  <2>1. /\ UNCHANGED <<session, conn, connPrm, chanPrm, timers, closing>>
        /\ chan[k][m].st # "closed"
    BY <1>3 DEF ChainStep, AskChannel, ChannelOpened
  <2>2. /\ m = chanPrm[k] /\ ~Through(k) /\ chan[k][m].of = connPrm
        /\ chan[k][m].st # "chained"
    BY <1>0, <2>1 DEF ChanFaultless
  <2>3. ConnFaultless'
    BY <1>0, <2>1 DEF ConnFaultless
  <2>5. /\ Alters(k, m) /\ chan'[k][m].of = connPrm
        /\ chan'[k][m].st \in {"opening", "open"}
    <3>1. CASE ChainStep(k, m)
      BY <2>2, <3>1 DEF ChainStep
    <3>2. CASE AskChannel(k, m)
      <4>1. conn[connPrm] \in {"dialing", "open"}
        BY <1>0, <1>t, <2>2 DEF ConnFaultless
      <4>2. Becomes(k, m, "opening")
        BY <2>2, <3>2, <4>1 DEF AskChannel
      <4> QED
        BY <2>2, <4>2, Altered
    <3>3. CASE ChannelOpened(k, m)
      BY <2>2, <3>3, Altered
    <3> QED
      BY <1>3, <3>1, <3>2, <3>3
  <2>6. ChanFaultless(k)'
    BY <1>0, <2>1, <2>2, <2>5 DEF ChanFaultless, Through, Alters
  <2>7. \A j \in Kinds \ {k} : ChanFaultless(j)'
    BY <1>c, <2>1, <2>5 DEF Alters
  <2> QED
    BY <1>s, <2>3, <2>6, <2>7
<1>4. ASSUME NEW k \in Kinds, UseChannel(k) PROVE Faultless'
  <2>1. /\ session = "on" /\ chanPrm[k] = 0 /\ connPrm # 0 /\ NewChannel(k, Created)
        /\ UNCHANGED <<session, conn, connPrm, timers, closing>>
    BY <1>4 DEF UseChannel
  <2>2. closing.at = "none"
    BY <1>0, <2>1 DEF ConnFaultless
  <2>3. ConnFaultless'
    BY <1>0, <2>1, <2>2 DEF ConnFaultless, Kinds
  <2>4. Created.st = "waiting" /\ Created.of = connPrm
    BY <2>1 DEF Created
  <2>5. ChanFaultless(k)'
    <3>1. /\ chanPrm'[k] = Len(chan[k]) + 1 /\ Len(chan'[k]) = Len(chan[k]) + 1
          /\ chan'[k][Len(chan[k]) + 1] = Created
          /\ \A m \in 1..Len(chan[k]) : chan'[k][m] = chan[k][m]
      BY <2>1, Grown
    <3>2. \A m \in 1..Len(chan[k]) : chan[k][m].st = "closed"
      BY <1>0, <1>t, <2>1 DEF ChanFaultless
    <3>3. PICK n \in Nat : n = Len(chan[k])
      BY <1>t
    <3>4. /\ DOMAIN chan'[k] = 1..(n + 1) /\ chanPrm'[k] = n + 1
          /\ chan'[k][n + 1].st = "waiting" /\ chan'[k][n + 1].of = connPrm'
          /\ \A m \in 1..n : chan'[k][m].st = "closed"
      BY <1>t, <2>1, <2>4, <3>1, <3>2, <3>3
    <3>5. \A m \in 1..(n + 1) : m \in 1..n <=> m # n + 1
      OBVIOUS
    <3>6. ~Through(k)' /\ timers'[k] = {}
      BY <1>0, <2>1, <2>2 DEF Through, ChanFaultless
    <3> QED
      BY <3>4, <3>5, <3>6 DEF ChanFaultless
  <2>6. \A j \in Kinds \ {k} : ChanFaultless(j)'
    BY <1>c, <2>1, Grown
  <2> QED
    BY <1>s, <2>3, <2>5, <2>6
<1>5. \A k \in Kinds : ~\E old \in timers[k] : RecreateTimer(k, old)
  BY <1>0 DEF ChanFaultless
<1>6. CASE Disconnect
  <2>1. /\ session = "on" /\ session' = "closing"
        /\ closing' = [NotClosing EXCEPT !.at = "consume",
                                          !.awaits = chanPrm["consume"]]
        /\ UNCHANGED <<conn, connPrm, chan, chanPrm, timers>>
    BY <1>6 DEF Disconnect
  <2>2. closing.at = "none"
    BY <1>0, <2>1 DEF ConnFaultless
  <2>3. ConnFaultless'
    BY <1>0, <2>1, <2>2 DEF ConnFaultless, Kinds, NotClosing
  <2>4. \A k \in Kinds : ChanFaultless(k)'
    BY <1>0, <2>1, <2>2 DEF ChanFaultless, Through, NotClosing
  <2> QED
    BY <1>s, <2>3, <2>4
<1>7. ASSUME NEW k \in Kinds, CloseChannel(k) PROVE Faultless'
  <2>1. /\ closing.at = k /\ session = "closing" /\ closing.awaits = chanPrm[k]
        /\ k = "consume" \/ k = "publish"
    BY <1>0, <1>7 DEF CloseChannel, ConnFaultless, Kinds
  <2>2. ~Through(k)
    BY <2>1 DEF Through
  <2>3. chanPrm[k] # 0 =>
          chanPrm[k] \in DOMAIN chan[k] /\ chan[k][chanPrm[k]].st \notin {"closed", "rejected"}
    BY <1>0, <1>t, <2>2 DEF ChanFaultless
  <2>a. After(k) \in Closing /\ After(k).refused = closing.refused
    BY DEF After, StateTypeOK, Closing, Steps, Kinds
  <2>b. [After(k) EXCEPT !.owed = @ \cup {<<k, closing.awaits>>}] =
          [at |-> After(k).at, awaits |-> After(k).awaits,
           owed |-> After(k).owed \cup {<<k, closing.awaits>>},
           refused |-> After(k).refused]
    BY <2>a DEF Closing
  <2>4. /\ closing'.at = After(k).at /\ closing'.awaits = After(k).awaits
        /\ closing'.refused = closing.refused
        /\ UNCHANGED <<session, conn, connPrm, chanPrm, timers>>
        /\ \/ chanPrm[k] = 0 /\ UNCHANGED chan
           \/ /\ chanPrm[k] # 0
              /\ chan' = [chan EXCEPT ![k][chanPrm[k]].st = "closed",
                                      ![k][chanPrm[k]].heard = FALSE]
    BY <1>7, <2>1, <2>3, <2>a, <2>b DEF CloseChannel
  <2>5. ConnFaultless'
    BY <1>0, <2>1, <2>4 DEF ConnFaultless, After, Kinds
  <2>6. Through(k)'
    BY <2>1, <2>4 DEF Through, After
  <2>7. /\ DOMAIN chan'[k] = DOMAIN chan[k]
        /\ \A m \in DOMAIN chan[k] : chan'[k][m].st = "closed"
        /\ \A j \in Kinds \ {k} : chan'[j] = chan[j]
    <3>1. \A m \in DOMAIN chan[k] \ {chanPrm[k]} : chan[k][m].st = "closed"
      BY <1>0 DEF ChanFaultless
    <3>2. CASE chanPrm[k] = 0 /\ UNCHANGED chan
      BY <1>t, <3>1, <3>2
    <3>3. CASE /\ chanPrm[k] # 0
               /\ chan' = [chan EXCEPT ![k][chanPrm[k]].st = "closed",
                                       ![k][chanPrm[k]].heard = FALSE]
      <4> DEFINE c == [chan[k][chanPrm[k]] EXCEPT !.st = "closed", !.heard = FALSE]
      <4>1. chan \in [Kinds -> Seq(Channel)] /\ chan[k][chanPrm[k]] \in Channel
        BY <2>3, <3>3 DEF StateTypeOK
      <4>2. chan' = [chan EXCEPT ![k] = [chan[k] EXCEPT ![chanPrm[k]] = c]]
        BY <3>3, <4>1
      <4> QED
        BY <2>3, <3>1, <3>3, <4>1, <4>2 DEF Channel
    <3> QED
      BY <2>4, <3>2, <3>3
  <2>8. ChanFaultless(k)'
    BY <1>0, <2>4, <2>6, <2>7 DEF ChanFaultless
  <2>9. ASSUME NEW j \in Kinds \ {k} PROVE ChanFaultless(j)'
    <3>1. Through(j)' <=> Through(j)
      BY <2>1, <2>4 DEF Through, After, Kinds
    <3> QED
      BY <1>0, <2>4, <2>7, <3>1 DEF ChanFaultless
  <2> QED
    BY <1>s, <2>5, <2>8, <2>9
<1>8. CASE ChannelsClosed
  <2>1. closing.at = "replies" /\ session = "closing" /\ ~closing.refused
    BY <1>0, <1>8 DEF ChannelsClosed, ConnFaultless
  <2>2. /\ closing' = [closing EXCEPT !.at = "connection", !.awaits = connPrm]
        /\ UNCHANGED <<session, conn, connPrm, chan, chanPrm, timers>>
    BY <1>8, <2>1 DEF ChannelsClosed
  <2>3. closing'.at = "connection" /\ closing'.awaits = connPrm /\ ~closing'.refused
    BY <2>1, <2>2 DEF StateTypeOK, Closing
  <2>4. ConnFaultless'
    BY <1>0, <2>1, <2>2, <2>3 DEF ConnFaultless, Kinds
  <2>5. \A k \in Kinds : ChanFaultless(k)'
    BY <1>0, <2>1, <2>2, <2>3 DEF ChanFaultless, Through
  <2> QED
    BY <1>s, <2>4, <2>5
<1>9. CASE CloseConnection
  <2>1. closing.at = "connection" /\ closing.awaits = connPrm /\ session = "closing"
    BY <1>0, <1>9 DEF CloseConnection, ConnFaultless
  <2>2. connPrm # 0 /\ connPrm \in DOMAIN conn /\ conn[connPrm] \in {"dialing", "open"}
    BY <1>0, <1>t, <2>1 DEF ConnFaultless
  <2>3. /\ conn' = [conn EXCEPT ![connPrm] = "closing"]
        /\ closing' = [closing EXCEPT !.at = "farewell"]
        /\ UNCHANGED <<session, chan, timers>> /\ Forgotten
    BY <1>9, <2>1, <2>2 DEF CloseConnection
  <2>4. /\ closing'.at = "farewell" /\ closing'.awaits = connPrm
        /\ closing'.refused = closing.refused
    BY <2>1, <2>3 DEF StateTypeOK, Closing
  <2>5. ConnFaultless'
    BY <1>0, <1>t, <2>1, <2>2, <2>3, <2>4 DEF ConnFaultless, Forgotten, Kinds
  <2>6. ASSUME NEW k \in Kinds PROVE ChanFaultless(k)'
    <3>1. \A m \in DOMAIN chan[k] : chan[k][m].st = "closed"
      BY <1>0, <2>1 DEF ChanFaultless, Through
    <3>2. \A m \in DOMAIN chan[k] : m # 0
      BY <1>t
    <3>3. chanPrm'[k] = 0 /\ timers'[k] = {} /\ chan' = chan
      BY <1>0, <2>3 DEF Forgotten, ChanFaultless
    <3> QED
      BY <3>1, <3>2, <3>3 DEF ChanFaultless
  <2> QED
    BY <1>s, <2>5, <2>6
<1>11. ASSUME NEW n \in DOMAIN conn, CloseReply(n) PROVE Faultless'
  <2>1. /\ closing'.at = closing.at /\ closing'.awaits = closing.awaits
        /\ closing'.refused = closing.refused
        /\ UNCHANGED <<session, conn, connPrm, chan, chanPrm, timers>>
    BY <1>11 DEF CloseReply, StateTypeOK, Closing
  <2>2. ConnFaultless'
    BY <1>0, <2>1 DEF ConnFaultless
  <2>3. \A k \in Kinds : ChanFaultless(k)'
    BY <1>0, <2>1 DEF ChanFaultless, Through
  <2> QED
    BY <1>s, <2>2, <2>3
<1>12. ASSUME NEW n \in DOMAIN conn, Farewell(n) PROVE Faultless'
  <2>1. /\ conn[n] = "closing" /\ conn' = [conn EXCEPT ![n] = "closed"]
        /\ chan' = Orphaned(n) /\ timers' = TimersAfter(n)
        /\ UNCHANGED <<connPrm, chanPrm>>
        /\ session' = "off" /\ closing' = NotClosing
    BY <1>12 DEF Farewell, Gone, Ended
  <2>2. closing.at = "farewell" /\ closing.awaits = n /\ connPrm = 0
        /\ \A k \in Kinds : chanPrm[k] = 0
    BY <1>0, <2>1 DEF ConnFaultless
  <2>3. \A i \in DOMAIN conn \ {n} : conn[i] \in {"dialing", "open", "closed"}
    BY <1>0, <2>2 DEF ConnFaultless
  <2>4. ConnFaultless'
    BY <1>0, <1>t, <2>1, <2>2, <2>3 DEF ConnFaultless, NotClosing, Kinds
  <2>5. ASSUME NEW k \in Kinds PROVE ChanFaultless(k)'
    <3>1. \A m \in DOMAIN chan[k] : chan[k][m].st = "closed"
      BY <1>0, <2>2 DEF ChanFaultless, Through
    <3>2. timers'[k] = {}
      BY <1>0, <2>1, <3>1 DEF TimersAfter, ChanFaultless
    <3>3. DOMAIN chan'[k] = DOMAIN chan[k] /\ \A m \in DOMAIN chan[k] : chan'[k][m] = chan[k][m]
      BY <2>1, <3>1 DEF Orphaned
    <3>4. \A m \in DOMAIN chan'[k] : chan'[k][m].st = "closed" /\ m # 0
      BY <1>t, <3>1, <3>3
    <3> QED
      BY <2>1, <2>2, <3>2, <3>4 DEF ChanFaultless
  <2> QED
    BY <1>s, <2>4, <2>5
<1>f. \A n \in DOMAIN conn : ~FarewellLost(n)
  BY DEF FarewellLost
<1>10. CASE UNCHANGED vars
  BY <1>0, <1>10, <1>c, <1>s DEF vars, ConnFaultless
<1> QED
  BY <1>1, <1>2, <1>3, <1>4, <1>5, <1>6, <1>7, <1>8, <1>9, <1>10, <1>11,
     <1>12, <1>d, <1>e, <1>f DEF Next, ChannelStep, DialStep, BrokerReply

\* disconnect closes whatever is still dialing or being opened, however often
\* the user connects again, as long as the broker never fails
\* (MessageBrokerConnector.ts:303-347).
THEOREM DisconnectedCleanly == Spec => []DisconnectCloses
<1> DEFINE Inv == TypeOK /\ (faults \subseteq {"disconnect"} => Faultless)
<1>1. Init => Inv
  BY TypeInit, FaultlessInit
<1>2. Inv /\ [Next]_vars => Inv'
  <2> SUFFICES ASSUME Inv, [Next]_vars PROVE Inv'
    OBVIOUS
  <2>1. TypeOK' /\ UNCHANGED faults
    BY TypeStep, FaultsStay
  <2>2. ASSUME faults \subseteq {"disconnect"} PROVE Faultless'
    <3>1. StateTypeOK /\ StateTypeOK' /\ Faultless
      BY <2>1, <2>2 DEF TypeOK
    <3> QED
      BY <2>2, <3>1, FaultlessStep
  <2> QED
    BY <2>1, <2>2
<1>3. Inv => DisconnectCloses
  BY DEF DisconnectCloses, DisconnectLeavesNothing, Alive, Faultless, ConnFaultless,
         TypeOK, StateTypeOK
<1> QED
  BY <1>1, <1>2, <1>3, PTL DEF Spec
=============================================================================
