--------------------------- MODULE DirectRpcProofs ---------------------------
(***************************************************************************)
(* What is proved of DirectRpc for every set of calls, routes and reasons  *)
(* and every bound: type correctness, what the user of a call is told,     *)
(* what deadLetter and dispose leave behind, and that no route takes a     *)
(* destination from another.                                               *)
(***************************************************************************)
EXTENDS DirectRpc, WellFoundedInduction, TLAPS

\* A set of numbers that is not empty has a least member.
LEMMA Least ==
    ASSUME NEW S \in SUBSET Nat, S # {}
    PROVE  \E n \in S : \A m \in S : n <= m
<1> DEFINE R == OpToRel(<, Nat)
<1>1. IsWellFoundedOn(R, Nat)
  BY NatLessThanWellFounded
<1>2. \A m, n \in Nat : m < n => <<m, n>> \in R
  BY DEF OpToRel
<1> HIDE DEF R
<1>3. PICK n \in S : \A m \in S : ~ (<<m, n>> \in R)
  BY <1>1, WFMin
<1>4. ASSUME NEW m \in S PROVE n <= m
  <2>1. m \in Nat /\ n \in Nat /\ ~(m < n)
    BY <1>2, <1>3
  <2> QED
    BY <2>1
<1> QED
  BY <1>4

-----------------------------------------------------------------------------
\* What is on its way to the user of a call agrees with what its action did
\* first, and so does what the user has been told.
CallOK(c, r) ==
    /\ r.st # "over" => r.got = "none"
    /\ r.reply = "ok" => r.prom = "resolved"
    /\ r.reply = "fail" => r.prom = "intended"
    /\ r.reply = "500" => r.prom = "unintended" \/ (c \in BadResult /\ r.prom # "pending")
    /\ r.got = "result" => r.prom = "resolved"
    /\ r.got = "refusal" => r.prom = "intended"
    /\ r.got = "internal" => r.prom = "unintended" \/ c \in BadResult

CallsOK == \A c \in Calls : CallOK(c, calls[c])

\* A handler that the add-on drives has one server, which listens before anything
\* is asked of the add-on; its server is forgotten when it is closed, and stays
\* shut for requests after deadLetter.
AddOnInv ==
    /\ managed => Len(servers) <= 1
    /\ managed /\ server = 0 => \A n \in DOMAIN servers : servers[n] = "closed"
    /\ addOn # "up" => managed /\ Started
    /\ addOn = "lettered" => ~isOpen

\* A server that is closed has no connections.
ClosedInv == \A n \in DOMAIN servers : servers[n] = "closed" => Connections(n) = {}

\* The inductive invariant.
Inv == TypeOK /\ CallsOK /\ AddOnInv /\ ClosedInv

-----------------------------------------------------------------------------
LEMMA InitInv == Init => Inv
<1> SUFFICES ASSUME Init PROVE Inv
  OBVIOUS
<1>1. Uncalled \in CallRecord
  BY DEF Uncalled, CallRecord
<1>2. servers = <<>> /\ DOMAIN servers = {} /\ Len(servers) = 0
  BY DEF Init
<1>3. TypeOK
  <2>1. calls \in [Calls -> CallRecord]
    BY <1>1 DEF Init
  <2>2. servers \in Seq(ServerStates) /\ routes \in Seq(Routes) /\ server \in 0..Len(servers)
    BY <1>2 DEF Init
  <2> QED
    BY <2>1, <2>2 DEF Init, TypeOK
<1>4. CallsOK
  BY DEF Init, CallsOK, CallOK, Uncalled
<1> QED
  BY <1>2, <1>3, <1>4 DEF Init, Inv, AddOnInv, ClosedInv

-----------------------------------------------------------------------------
\* The steps of a call.

\* A call that keeps its type and tells the truth, and has no new connection,
\* keeps the invariant.
LEMMA UpdateInv ==
    ASSUME Inv, NEW c \in Calls, NEW r \in CallRecord, CallOK(c, r), Update(c, r),
           r.st \in {"connected", "serving"} /\ r.reply = "none" =>
             \/ r.at \in DOMAIN servers /\ servers[r.at] # "closed"
             \/ /\ calls[c].at = r.at /\ calls[c].st \in {"connected", "serving"}
                /\ calls[c].reply = "none"
    PROVE  Inv'
<1>1. calls' = [calls EXCEPT ![c] = r] /\ calls \in [Calls -> CallRecord]
      /\ UNCHANGED <<managed, heard, routes, isOpen, servers, server, addOn, retired>>
  BY DEF Update, handlerVars, Inv, TypeOK
<1>2. calls' \in [Calls -> CallRecord]
      /\ \A b \in Calls : calls'[b] = IF b = c THEN r ELSE calls[b]
  BY <1>1
<1>3. TypeOK'
  BY <1>1, <1>2 DEF Inv, TypeOK
<1>4. CallsOK'
  BY <1>2 DEF Inv, CallsOK
<1>5. AddOnInv'
  BY <1>1 DEF Inv, AddOnInv, Started
<1>6. ASSUME NEW n \in DOMAIN servers, servers[n] = "closed"
      PROVE  Connections(n)' = {}
  <2>1. Connections(n) = {}
    BY <1>6 DEF Inv, ClosedInv
  <2> SUFFICES ASSUME NEW b \in Calls, calls'[b].at = n,
                      calls'[b].st \in {"connected", "serving"}, calls'[b].reply = "none"
               PROVE  FALSE
    BY <1>2 DEF Connections
  <2>2. CASE b = c
    BY <1>2, <1>6, <2>1, <2>2 DEF Connections
  <2>3. CASE b # c
    BY <1>2, <2>1, <2>3 DEF Connections
  <2> QED
    BY <2>2, <2>3
<1>7. ClosedInv'
  BY <1>1, <1>6 DEF ClosedInv
<1> QED
  BY <1>3, <1>4, <1>5, <1>7 DEF Inv

LEMMA CallType ==
    ASSUME Inv, NEW c \in Calls
    PROVE  calls[c] \in CallRecord /\ CallOK(c, calls[c])
BY DEF Inv, TypeOK, CallsOK

LEMMA OverInv ==
    ASSUME Inv, NEW c \in Calls, NEW got \in {"result", "refusal", "internal", "minor"},
           Over(c, got),
           got = "result" => calls[c].prom = "resolved",
           got = "refusal" => calls[c].prom = "intended",
           got = "internal" => calls[c].prom = "unintended" \/ c \in BadResult
    PROVE  Inv'
<1> DEFINE r == [Uncalled EXCEPT
                   !.st = "over",
                   !.prom = IF got = "minor" THEN "none" ELSE calls[c].prom,
                   !.got = IF c \in Impatient /\ got \in {"result", "refusal"} THEN "none"
                           ELSE got]
<1>1. Update(c, r)
  BY DEF Over
<1>2. calls[c] \in CallRecord
  BY CallType
<1>3. r \in CallRecord /\ r.st = "over"
  BY <1>2 DEF CallRecord, Uncalled
<1>4. CallOK(c, r)
  BY DEF CallOK, Uncalled
<1> HIDE DEF r
<1> QED
  BY <1>1, <1>3, <1>4, UpdateInv

LEMMA SettlesInv ==
    ASSUME Inv, NEW c \in Calls, calls[c].st = "serving",
           NEW how \in {"resolved", "intended", "unintended"}, NEW why \in Why \cup {NoReason},
           Update(c, Settles(calls[c], how, why))
    PROVE  Inv'
<1> DEFINE r == Settles(calls[c], how, why)
<1>1. calls[c] \in CallRecord /\ CallOK(c, calls[c])
  BY CallType
<1>2. /\ r \in CallRecord /\ r.st = calls[c].st /\ r.at = calls[c].at
      /\ r.reply = calls[c].reply /\ r.got = calls[c].got
      /\ r.prom = IF calls[c].prom = "pending" THEN how ELSE calls[c].prom
  BY <1>1 DEF Settles, CallRecord
<1> HIDE DEF r
<1>3. CallOK(c, r)
  BY <1>1, <1>2 DEF CallOK
<1> QED
  BY <1>2, <1>3, UpdateInv DEF r

LEMMA CallInv ==
    ASSUME Inv, NEW c \in Calls, Call(c) \/ Connect(c) \/ Arrive(c)
    PROVE  Inv'
<1>1. calls[c] \in CallRecord /\ CallOK(c, calls[c])
  BY CallType
<1>2. CASE Call(c)
  <2> DEFINE r == [calls[c] EXCEPT !.st = "calling"]
  <2>1. Update(c, r) /\ r \in CallRecord /\ r.st = "calling" /\ CallOK(c, r)
    BY <1>1, <1>2 DEF Call, CallRecord, CallOK
  <2> HIDE DEF r
  <2> QED
    BY <2>1, UpdateInv
<1>3. CASE Connect(c)
  <2>1. CASE Over(c, "minor")
    BY <2>1, OverInv
  <2>2. ASSUME NEW n \in DOMAIN servers, servers[n] = "listening",
               Update(c, [calls[c] EXCEPT !.st = "connected", !.at = n])
        PROVE  Inv'
    <3> DEFINE r == [calls[c] EXCEPT !.st = "connected", !.at = n]
    <3>1. n \in Nat
      BY DEF Inv, TypeOK
    <3>2. r \in CallRecord /\ r.at = n /\ CallOK(c, r)
      BY <1>1, <1>3, <3>1 DEF CallRecord, CallOK, Connect
    <3> HIDE DEF r
    <3>3. Update(c, r)
      BY <2>2 DEF r
    <3> QED
      BY <2>2, <3>2, <3>3, UpdateInv
  <2> QED
    BY <1>3, <2>1, <2>2 DEF Connect
<1>4. CASE Arrive(c)
  <2>1. calls[c].st = "connected" /\ calls[c].reply = "none" /\ isOpen \in BOOLEAN
    BY <1>4 DEF Arrive, Inv, TypeOK
  <2>2. ASSUME NEW reply \in {"410", "404"}, Update(c, [calls[c] EXCEPT !.reply = reply])
        PROVE  Inv'
    <3> DEFINE r == [calls[c] EXCEPT !.reply = reply]
    <3>1. r \in CallRecord /\ r.reply # "none" /\ CallOK(c, r)
      BY <1>1, <2>1 DEF CallRecord, CallOK
    <3> HIDE DEF r
    <3>2. Update(c, r)
      BY <2>2 DEF r
    <3> QED
      BY <3>1, <3>2, UpdateInv
  <2>3. ASSUME Update(c, [calls[c] EXCEPT !.st = "serving", !.prom = "pending"])
        PROVE  Inv'
    <3> DEFINE r == [calls[c] EXCEPT !.st = "serving", !.prom = "pending"]
    <3>1. r \in CallRecord /\ r.at = calls[c].at /\ CallOK(c, r)
      BY <1>1, <2>1 DEF CallRecord, CallOK
    <3> HIDE DEF r
    <3>2. Update(c, r)
      BY <2>3 DEF r
    <3> QED
      BY <2>1, <3>1, <3>2, UpdateInv
  <2> QED
    BY <1>4, <2>1, <2>2, <2>3 DEF Arrive
<1> QED
  BY <1>2, <1>3, <1>4

LEMMA ActionInv ==
    ASSUME Inv, NEW c \in Calls, Respond(c) \/ Throw(c)
    PROVE  Inv'
<1>1. calls[c].st = "serving"
  BY DEF Respond, Throw
<1>2. PICK how \in {"resolved", "intended", "unintended"}, why \in Why \cup {NoReason} :
        Update(c, Settles(calls[c], how, why))
  BY DEF Respond, Throw
<1> QED
  BY <1>1, <1>2, SettlesInv

LEMMA AnswerInv ==
    ASSUME Inv, NEW c \in Calls, Answer(c)
    PROVE  Inv'
<1> DEFINE r == calls[c]
           sent == [r EXCEPT !.reply = IF r.prom = "resolved" THEN "ok" ELSE "fail"]
<1>1. r \in CallRecord /\ CallOK(c, r)
  BY CallType
<1>2. /\ r.st = "serving" /\ r.reply = "none"
      /\ r.prom \in {"resolved", "intended", "unintended"}
  BY <1>1 DEF Answer, CallRecord
<1>3. CASE r.prom # "unintended" /\ Update(c, sent)
  <2>1. sent \in CallRecord /\ sent.reply # "none" /\ CallOK(c, sent)
    BY <1>1, <1>2, <1>3 DEF CallRecord, CallOK
  <2> HIDE DEF sent
  <2> QED
    BY <1>3, <2>1, UpdateInv
<1>4. CASE (r.prom = "unintended" \/ c \in BadResult) /\ Update(c, Failed(r))
  <2>1. Failed(r) \in CallRecord /\ Failed(r).at = r.at /\ CallOK(c, Failed(r))
    BY <1>1, <1>2, <1>4 DEF CallRecord, CallOK, Failed
  <2> QED
    BY <1>2, <1>4, <2>1, UpdateInv
<1> QED
  BY <1>3, <1>4 DEF Answer

LEMMA ReceiveInv ==
    ASSUME Inv, NEW c \in Calls, Receive(c) \/ Timeout(c)
    PROVE  Inv'
<1>1. CallOK(c, calls[c])
  BY CallType
<1>2. CASE Timeout(c)
  BY <1>2, OverInv DEF Timeout
<1>3. CASE Receive(c)
  <2>1. Refusal(c) \in {"refusal", "minor"}
    BY DEF Refusal
  <2>2. CASE calls[c].reply = "ok" /\ Over(c, "result")
    BY <1>1, <2>2, OverInv DEF CallOK
  <2>3. CASE calls[c].reply = "fail" /\ Over(c, Refusal(c))
    BY <1>1, <2>1, <2>3, OverInv DEF CallOK
  <2>4. CASE calls[c].reply = "500" /\ Over(c, "internal")
    BY <1>1, <2>4, OverInv DEF CallOK
  <2>5. CASE Over(c, "minor")
    BY <2>5, OverInv
  <2> QED
    BY <1>3, <2>2, <2>3, <2>4, <2>5 DEF Receive
<1> QED
  BY <1>2, <1>3

-----------------------------------------------------------------------------
\* The steps of the handler and its servers.

\* The servers change, but not the calls.
LEMMA ServersInv ==
    ASSUME Inv, UNCHANGED calls, managed' \in BOOLEAN, heard' \in BOOLEAN, retired' \in BOOLEAN,
           addOn' \in {"up", "lettered", "disposed"}, isOpen' \in BOOLEAN,
           routes' \in Seq(Routes), servers' \in Seq(ServerStates), server' \in 0..Len(servers'),
           AddOnInv', ClosedInv'
    PROVE  Inv'
<1>1. TypeOK' /\ CallsOK'
  BY DEF Inv, TypeOK, CallsOK
<1> QED
  BY <1>1 DEF Inv

LEMMA HandleInv ==
    ASSUME Inv, NEW r \in Routes, Handle(r)
    PROVE  Inv'
<1>1. routes' \in Seq(Routes) /\ UNCHANGED <<managed, heard, isOpen, servers, server, addOn, calls, retired>>
  BY DEF Handle, Inv, TypeOK
<1>2. AddOnInv' /\ ClosedInv'
  BY <1>1 DEF Inv, AddOnInv, ClosedInv, Started, Connections
<1> QED
  BY <1>1, <1>2, ServersInv DEF Inv, TypeOK

\* A server that was not closed changes its state.
LEMMA ServerType ==
    ASSUME Inv, NEW n \in DOMAIN servers, NEW st \in ServerStates,
           servers' = [servers EXCEPT ![n] = st]
    PROVE  /\ servers' \in Seq(ServerStates) /\ Len(servers') = Len(servers)
           /\ DOMAIN servers' = DOMAIN servers
           /\ \A m \in DOMAIN servers : servers'[m] = IF m = n THEN st ELSE servers[m]
BY DEF Inv, TypeOK

LEMMA StartInv ==
    ASSUME Inv, Start
    PROVE  Inv'
<1>1. PICK st \in {"binding", "failed"} : servers' = Append(servers, st)
  BY DEF Start
<1>2. /\ managed => servers = <<>>
      /\ server' = Len(servers) + 1
      /\ UNCHANGED <<managed, heard, routes, isOpen, addOn, calls, retired>>
  BY DEF Start
<1>3. servers \in Seq(ServerStates) /\ Len(servers) \in Nat
  BY DEF Inv, TypeOK
<1>4. /\ servers' \in Seq(ServerStates) /\ Len(servers') = Len(servers) + 1
      /\ DOMAIN servers' = 1..(Len(servers) + 1) /\ DOMAIN servers = 1..Len(servers)
      /\ servers'[Len(servers) + 1] = st
      /\ \A n \in 1..Len(servers) : servers'[n] = servers[n]
  BY <1>1, <1>3 DEF ServerStates
<1>5. AddOnInv'
  BY <1>1, <1>2, <1>3, <1>4 DEF Inv, AddOnInv, Started
<1>6. ASSUME NEW n \in DOMAIN servers', servers'[n] = "closed" PROVE Connections(n)' = {}
  <2>1. n \in DOMAIN servers /\ servers[n] = "closed"
    BY <1>1, <1>3, <1>4, <1>6
  <2> QED
    BY <1>2, <2>1 DEF Inv, ClosedInv, Connections
<1>7. ClosedInv'
  BY <1>6 DEF ClosedInv
<1> QED
  BY <1>2, <1>3, <1>4, <1>5, <1>7, ServersInv DEF Inv, TypeOK

LEMMA ListeningInv ==
    ASSUME Inv, NEW n \in DOMAIN servers, Listening(n)
    PROVE  Inv'
<1>1. /\ servers[n] = "binding" /\ servers' = [servers EXCEPT ![n] = "listening"]
      /\ isOpen' = TRUE
      /\ UNCHANGED <<managed, heard, routes, server, addOn, calls, retired>>
  BY DEF Listening
<1>2. "listening" \in ServerStates
  BY DEF ServerStates
<1>3. /\ servers' \in Seq(ServerStates) /\ Len(servers') = Len(servers)
      /\ DOMAIN servers' = DOMAIN servers
      /\ \A m \in DOMAIN servers : servers'[m] = IF m = n THEN "listening" ELSE servers[m]
  BY <1>1, <1>2, ServerType
<1>4. addOn = "up"
  <2>1. managed => n = 1
    BY DEF Inv, TypeOK, AddOnInv
  <2> QED
    BY <1>1, <2>1 DEF Inv, TypeOK, AddOnInv, Started
<1>5. AddOnInv'
  BY <1>1, <1>3, <1>4 DEF Inv, AddOnInv
<1>6. ClosedInv'
  BY <1>1, <1>3 DEF Inv, ClosedInv, Connections
<1> QED
  BY <1>1, <1>3, <1>5, <1>6, ServersInv DEF Inv, TypeOK

LEMMA ClosedStep ==
    ASSUME Inv, NEW n \in DOMAIN servers, Closed(n)
    PROVE  Inv'
<1>1. /\ servers[n] = "closing" /\ servers' = [servers EXCEPT ![n] = "closed"]
      /\ Connections(n) = {} /\ server' = 0
      /\ UNCHANGED <<managed, heard, routes, isOpen, addOn, calls, retired>>
  BY DEF Closed
<1>2. "closed" \in ServerStates
  BY DEF ServerStates
<1>3. /\ servers' \in Seq(ServerStates) /\ Len(servers') = Len(servers)
      /\ DOMAIN servers' = DOMAIN servers
      /\ \A m \in DOMAIN servers : servers'[m] = IF m = n THEN "closed" ELSE servers[m]
  BY <1>1, <1>2, ServerType
<1>4. managed => \A m \in DOMAIN servers : m = n
  BY DEF Inv, TypeOK, AddOnInv
<1>5. Started => Started'
  <2>1. servers # <<>> => 1 \in DOMAIN servers /\ servers' # <<>>
    BY <1>3 DEF Inv, TypeOK
  <2> QED
    BY <1>3, <2>1 DEF Started
<1>6. AddOnInv'
  BY <1>1, <1>3, <1>4, <1>5 DEF Inv, AddOnInv
<1>7. ClosedInv'
  BY <1>1, <1>3 DEF Inv, ClosedInv, Connections
<1>8. server' \in 0..Len(servers')
  BY <1>1, <1>3 DEF Inv, TypeOK
<1> QED
  BY <1>1, <1>3, <1>6, <1>7, <1>8, ServersInv DEF Inv, TypeOK

\* Closing keeps what is known of the servers, and a server that has been closed
\* is none that is known.
LEMMA ClosingInv ==
    ASSUME Inv, Closing
    PROVE  /\ servers' \in Seq(ServerStates) /\ Len(servers') = Len(servers)
           /\ DOMAIN servers' = DOMAIN servers
           /\ \A n \in DOMAIN servers : servers'[n] \in {servers[n], "closing"}
           /\ server = 0 => servers' = servers
           /\ Started => Started'
<1>1. CASE server = 0
  BY <1>1 DEF Closing, Inv, TypeOK, Started
<1>2. CASE server # 0
  <2>1. server \in DOMAIN servers /\ "closing" \in ServerStates
    BY <1>2 DEF Inv, TypeOK, ServerStates
  <2>2. servers' = [servers EXCEPT ![server] = "closing"]
    BY <1>2 DEF Closing
  <2>3. /\ servers' \in Seq(ServerStates) /\ Len(servers') = Len(servers)
        /\ DOMAIN servers' = DOMAIN servers
        /\ \A n \in DOMAIN servers : servers'[n] = IF n = server THEN "closing" ELSE servers[n]
    BY <2>1, <2>2, ServerType
  <2>4. Started => 1 \in DOMAIN servers /\ servers' # <<>>
    BY <2>1, <2>3 DEF Inv, TypeOK, Started
  <2> QED
    BY <1>2, <2>3, <2>4 DEF Started
<1> QED
  BY <1>1, <1>2

LEMMA DisposeInv ==
    ASSUME Inv, Dispose \/ DeadLetter
    PROVE  Inv'
<1>1. Closing /\ UNCHANGED <<managed, heard, routes, server, calls, retired>>
  BY DEF Dispose, DeadLetter
<1>2. /\ servers' \in Seq(ServerStates) /\ Len(servers') = Len(servers)
      /\ DOMAIN servers' = DOMAIN servers
      /\ \A n \in DOMAIN servers : servers'[n] \in {servers[n], "closing"}
      /\ server = 0 => servers' = servers
      /\ Started => Started'
  BY <1>1, ClosingInv
<1>3. /\ addOn' \in {"up", "lettered", "disposed"} /\ isOpen' \in BOOLEAN
      /\ addOn' # "up" => managed /\ Started
      /\ addOn' = "lettered" => ~isOpen'
  BY DEF Dispose, DeadLetter, Inv, TypeOK, AddOnInv
<1>4. AddOnInv'
  BY <1>1, <1>2, <1>3 DEF Inv, AddOnInv
<1>5. ClosedInv'
  BY <1>1, <1>2 DEF Inv, ClosedInv, Connections
<1> QED
  BY <1>1, <1>2, <1>3, <1>4, <1>5, ServersInv DEF Inv, TypeOK

LEMMA SwitchInv ==
    ASSUME Inv, Retire \/ \E open \in BOOLEAN : Switch(open)
    PROVE  Inv'
<1>1. /\ UNCHANGED <<managed, heard, routes, servers, server, addOn, calls>>
      /\ isOpen' \in BOOLEAN /\ retired' \in BOOLEAN
      /\ managed => isOpen' = isOpen
  BY DEF Retire, Switch, handlerVars, Inv, TypeOK
<1>2. AddOnInv'
  BY <1>1 DEF Inv, AddOnInv, Started
<1>3. ClosedInv'
  BY <1>1 DEF Inv, ClosedInv, Connections
<1> QED
  BY <1>1, <1>2, <1>3, ServersInv DEF Inv, TypeOK

LEMMA NextInv == Inv /\ [Next]_vars => Inv'
<1> SUFFICES ASSUME Inv, [Next]_vars PROVE Inv'
  OBVIOUS
<1>1. ASSUME NEW r \in Routes, Handle(r) PROVE Inv'
  BY <1>1, HandleInv
<1>2. CASE Retire \/ \E open \in BOOLEAN : Switch(open)
  BY <1>2, SwitchInv
<1>3. CASE Start \/ Dispose \/ DeadLetter
  BY <1>3, StartInv, DisposeInv
<1>4. ASSUME NEW n \in DOMAIN servers, ServerStep(n) PROVE Inv'
  BY <1>4, ListeningInv, ClosedStep DEF ServerStep
<1>5. ASSUME NEW c \in Calls,
             Call(c) \/ CallStep(c) \/ Respond(c) \/ Throw(c) \/ Timeout(c)
      PROVE  Inv'
  BY <1>5, CallInv, ActionInv, AnswerInv, ReceiveInv DEF CallStep
<1>6. CASE UNCHANGED vars
  BY <1>6 DEF vars, handlerVars, Inv, TypeOK, CallsOK, AddOnInv, ClosedInv, Started, Connections
<1> QED
  BY <1>1, <1>2, <1>3, <1>4, <1>5, <1>6 DEF Next

LEMMA Invariant == Spec => []Inv
BY InitInv, NextInv, PTL DEF Spec

-----------------------------------------------------------------------------
\* Every variable stays of its type (DirectRpcHandler.ts:50-136).
THEOREM TypeCorrect == Spec => []TypeOK
<1>1. Inv => TypeOK
  BY DEF Inv
<1> QED
  BY <1>1, Invariant, PTL

\* The user of the caller is told what the action did first, whatever it does
\* after that and whenever the request times out (DirectRpcHandler.ts:176-220,
\* DirectRpcCaller.ts:99-118).
THEOREM TruthTold == Spec => []ToldTheTruth
<1>1. Inv => ToldTheTruth
  BY DEF Inv, CallsOK, CallOK, ToldTheTruth
<1> QED
  BY <1>1, Invariant, PTL

\* After deadLetter the add-on serves no further call, not even one whose
\* connection was accepted before (DirectRpcHandlerAddOnBase.ts:44-47).
THEOREM DeadLetterHeld == Spec => DeadLetterHolds
<1> DEFINE Held == addOn = "lettered" =>
                     \A c \in Calls : calls[c].st = "connected" => calls'[c].st # "serving"
<1>1. ASSUME Inv, Next PROVE Held
  <2> SUFFICES ASSUME addOn = "lettered", NEW c \in Calls, calls[c].st = "connected",
                      calls'[c].st = "serving"
               PROVE  FALSE
    OBVIOUS
  <2>1. ~isOpen /\ calls \in [Calls -> CallRecord]
    BY <1>1 DEF Inv, AddOnInv, TypeOK
  <2>2. calls' # calls
    OBVIOUS
  <2>3. PICK b \in Calls : \/ Call(b) \/ CallStep(b) \/ Respond(b) \/ Throw(b) \/ Timeout(b)
    BY <1>1, <2>2 DEF Next, Handle, Switch, Start, Dispose, DeadLetter, Retire, ServerStep,
                      Listening, Closed
  <2>4. PICK r : calls' = [calls EXCEPT ![b] = r]
    BY <2>3 DEF CallStep, Call, Connect, Arrive, Answer, Receive, Respond, Throw, Timeout,
                Over, Update
  <2>5. b = c /\ r.st = "serving"
    BY <2>1, <2>4
  <2>6. ~Respond(c) /\ ~Throw(c) /\ ~Answer(c) /\ ~Call(c) /\ ~Connect(c)
    BY DEF Respond, Throw, Answer, Call, Connect
  <2>7. \A got : Over(c, got) => calls'[c].st = "over"
    BY <2>1 DEF Over, Update, Uncalled
  <2>8. Arrive(c)
    BY <2>3, <2>5, <2>6, <2>7 DEF CallStep, Receive, Timeout
  <2>9. Update(c, [calls[c] EXCEPT !.reply = "410"])
    BY <2>1, <2>8 DEF Arrive
  <2> QED
    BY <2>1, <2>9 DEF Update, CallRecord
<1>2. Inv /\ [Next]_vars => [Held]_vars
  BY <1>1
<1> QED
  BY <1>2, Invariant, PTL DEF Spec, DeadLetterHolds

\* When the add-on has been disposed of, its server is closed and no call is
\* being served (DirectRpcHandler.ts:126-136).
THEOREM DisposeDrained == Spec => []DisposeDrains
<1>1. Inv => DisposeDrains
  BY DEF Inv, AddOnInv, ClosedInv, DisposeDrains
<1> QED
  BY <1>1, Invariant, PTL

-----------------------------------------------------------------------------
\* Routers and routes.

\* The router of a registered key is its first route.
LEMMA RouterIs ==
    ASSUME TypeOK, NEW k \in DOMAIN routes
    PROVE  LET rk == RouterOf(routes[k].key)
           IN  /\ rk \in DOMAIN routes /\ rk \in Nat /\ rk <= k
               /\ routes[rk].key = routes[k].key
               /\ \A j \in 1..(rk - 1) : routes[j].key # routes[k].key
<1> DEFINE key == routes[k].key
           same == {i \in DOMAIN routes : routes[i].key = key}
           First(i) == /\ routes[i].key = key
                       /\ \A j \in 1..(i - 1) : routes[j].key # key
           rk == CHOOSE i \in DOMAIN routes : First(i)
<1>1. DOMAIN routes = 1..Len(routes) /\ Len(routes) \in Nat
  BY DEF TypeOK
<1>2. PICK i \in same : \A j \in same : i <= j
  <2>1. same \in SUBSET Nat /\ k \in same
    BY <1>1
  <2> HIDE DEF same
  <2> QED
    BY <2>1, Least
<1>3. First(i)
  <2>1. \A j \in 1..(i - 1) : j \in DOMAIN routes /\ ~ (i <= j)
    BY <1>1
  <2> QED
    BY <1>2, <2>1
<1>4. rk \in DOMAIN routes /\ First(rk)
  BY <1>2, <1>3
<1>5. RouterOf(routes[k].key) = rk
  BY DEF RouterOf
<1> HIDE DEF rk
<1>6. rk <= k
  BY <1>1, <1>4
<1> QED
  BY <1>1, <1>4, <1>5, <1>6

\* Of the routes that serve a path, the one that comes before all others is
\* chosen; there is one, and only one.
LEMMA RouteForIs ==
    ASSUME TypeOK, NEW path, NEW i \in DOMAIN routes, Answers(i, path)
    PROVE  /\ RouteFor(path) \in DOMAIN routes /\ Answers(RouteFor(path), path)
           /\ \A j \in DOMAIN routes : Answers(j, path) /\ j # RouteFor(path)
                                        => Before(RouteFor(path), j)
<1> DEFINE hit == {j \in DOMAIN routes : Answers(j, path)}
           Router(j) == RouterOf(routes[j].key)
           routers == {Router(j) : j \in hit}
           best == CHOOSE j \in hit : \A k \in hit \ {j} : Before(j, k)
<1>1. DOMAIN routes \subseteq Nat /\ \A j \in DOMAIN routes : Router(j) \in Nat
  <2>1. DOMAIN routes \subseteq Nat
    BY DEF TypeOK
  <2> QED
    BY <2>1, RouterIs
<1>2. i \in hit /\ hit \subseteq DOMAIN routes
  OBVIOUS
<1>3. \A j, k : Before(j, k) <=> Router(j) < Router(k) \/ (Router(j) = Router(k) /\ j < k)
  BY DEF Before
<1>4. RouteFor(path) = best
  BY <1>2 DEF RouteFor
<1> HIDE DEF hit, Router
<1>5. PICK m \in routers : \A n \in routers : m <= n
  <2>1. routers \in SUBSET Nat /\ Router(i) \in routers
    BY <1>1, <1>2
  <2> HIDE DEF routers
  <2> QED
    BY <2>1, Least
<1>6. PICK j \in {k \in hit : Router(k) = m} : \A k \in {k \in hit : Router(k) = m} : j <= k
  <2> DEFINE S == {k \in hit : Router(k) = m}
  <2>1. S \in SUBSET Nat /\ S # {}
    BY <1>1, <1>2, <1>5
  <2> HIDE DEF S
  <2>2. \E k \in S : \A l \in S : k <= l
    BY <2>1, Least
  <2> QED
    BY <2>2 DEF S
<1>7. \A k \in hit \ {j} : Before(j, k)
  <2> SUFFICES ASSUME NEW k \in hit, k # j PROVE Before(j, k)
    OBVIOUS
  <2>1. Router(k) \in Nat /\ Router(j) = m /\ m <= Router(k) /\ j \in Nat /\ k \in Nat
    BY <1>1, <1>2, <1>5, <1>6
  <2>2. CASE Router(k) = m
    BY <1>3, <1>6, <2>1, <2>2
  <2>3. CASE Router(k) # m
    <3>1. Router(j) \in Nat /\ Router(j) < Router(k)
      BY <1>1, <1>2, <1>6, <2>1, <2>3
    <3> QED
      BY <1>3, <3>1
  <2> QED
    BY <2>2, <2>3
<1>8. best \in hit /\ \A k \in hit \ {best} : Before(best, k)
  BY <1>6, <1>7
<1> HIDE DEF best
<1> QED
  BY <1>4, <1>8 DEF hit

RouterFacts ==
    \A k \in DOMAIN routes :
        LET rk == RouterOf(routes[k].key)
        IN  /\ rk \in DOMAIN routes /\ rk \in Nat /\ rk <= k
            /\ routes[rk].key = routes[k].key
            /\ \A j \in 1..(rk - 1) : routes[j].key # routes[k].key

RouteForFacts ==
    \A path \in {Meant(r) : r \in Routes}, i \in DOMAIN routes :
        Answers(i, path) =>
            LET best == RouteFor(path)
            IN  /\ best \in DOMAIN routes /\ Answers(best, path)
                /\ \A j \in DOMAIN routes :
                     Answers(j, path) /\ j # best => Before(best, j)

\* What a route is and where it is mounted does not change.
LEMMA RouterKept ==
    ASSUME TypeOK, NEW r \in Routes, Handle(r), RouterFacts, RouterFacts',
           NEW k \in DOMAIN routes
    PROVE  /\ k \in DOMAIN routes' /\ routes'[k] = routes[k]
           /\ RouterOf(routes[k].key)' = RouterOf(routes[k].key)
<1>1. /\ routes \in Seq(Routes) /\ routes' = Append(routes, r)
      /\ Len(routes) \in Nat /\ DOMAIN routes = 1..Len(routes)
  BY DEF TypeOK, Handle
<1>2. DOMAIN routes' = 1..(Len(routes) + 1)
  BY <1>1
<1>3. \A j \in DOMAIN routes : j \in DOMAIN routes' /\ routes'[j] = routes[j]
  BY <1>1, <1>2
<1>4. k \in Nat
  BY <1>1
<1> DEFINE old == RouterOf(routes[k].key)
           new == RouterOf(routes[k].key)'
           key == routes[k].key
<1>5. /\ old \in Nat /\ old <= k /\ old \in DOMAIN routes /\ routes[old].key = key
      /\ \A j \in 1..(old - 1) : routes[j].key # key
  BY DEF RouterFacts
<1>6. /\ new \in Nat /\ new <= k /\ new \in DOMAIN routes' /\ routes'[new].key = key
      /\ \A j \in 1..(new - 1) : routes'[j].key # key
  BY <1>3 DEF RouterFacts
<1>7. RouterOf(routes[k].key)' = new
  OBVIOUS
<1> HIDE DEF old, new, key
<1>8. old = new
  <2>1. new \in DOMAIN routes /\ routes[new].key = key
    BY <1>1, <1>2, <1>3, <1>4, <1>6
  <2>2. ~ (new < old)
    BY <1>1, <1>5, <1>6, <2>1
  <2>3. routes'[old].key = key
    BY <1>3, <1>5
  <2>4. ~ (old < new)
    BY <1>1, <1>5, <1>6, <2>3
  <2> QED
    BY <1>5, <1>6, <2>2, <2>4
<1> QED
  BY <1>3, <1>7, <1>8 DEF old

\* Nor does the order of two routes, nor what they answer to.
LEMMA RouteKept ==
    ASSUME TypeOK, NEW r \in Routes, Handle(r), RouterFacts, RouterFacts',
           NEW i \in DOMAIN routes, NEW j \in DOMAIN routes, NEW path
    PROVE  /\ Before(i, j)' <=> Before(i, j)
           /\ Answers(i, path)' <=> Answers(i, path)
<1>1. /\ i \in DOMAIN routes' /\ routes'[i] = routes[i]
      /\ RouterOf(routes[i].key)' = RouterOf(routes[i].key)
  BY RouterKept
<1>2. /\ j \in DOMAIN routes' /\ routes'[j] = routes[j]
      /\ RouterOf(routes[j].key)' = RouterOf(routes[j].key)
  BY RouterKept
<1>3. RouterOf(routes[i].key) \in DOMAIN routes
  BY DEF RouterFacts
<1>4. routes'[RouterOf(routes[i].key)] = routes[RouterOf(routes[i].key)]
  BY <1>3, RouterKept
<1>5. Mount(routes[i].key)' = Mount(routes[i].key)
  BY <1>1, <1>4 DEF Mount
<1>6. Before(i, j)' <=> Before(i, j)
  BY <1>1, <1>2 DEF Before
<1>7. Answers(i, path)' <=> Answers(i, path)
  BY <1>1, <1>5 DEF Answers
<1> QED
  BY <1>6, <1>7

\* A new route that answers to the path of another one comes after the one
\* that serves it.
LEMMA NewComesAfter ==
    ASSUME TypeOK, NEW r \in Routes, Handle(r), RouterFacts, RouterFacts',
           RouteForFacts,
           NEW own \in Routes, NEW i \in DOMAIN routes, NEW z,
           i = RouteFor(Meant(own)), routes[i] = own,
           z = Len(routes) + 1, Answers(z, Meant(own))'
    PROVE  Before(i, z)'
<1> DEFINE path == Meant(own)
           ri == RouterOf(own.key)
<1>0. PICK rz : rz = RouterOf(routes[z].key)'
  OBVIOUS
<1>1. /\ routes \in Seq(Routes) /\ routes' = Append(routes, r)
      /\ Len(routes) \in Nat /\ DOMAIN routes = 1..Len(routes)
      /\ DOMAIN routes' = 1..z /\ routes'[z] = r
  BY DEF TypeOK, Handle
<1>2. /\ i \in DOMAIN routes /\ routes[i] = own /\ i \in Nat
      /\ routes'[i] = own /\ i < z
  BY <1>1
<1>3. /\ RouterOf(own.key)' = ri /\ ri \in DOMAIN routes /\ ri \in Nat
  BY <1>2, RouterKept DEF RouterFacts
<1>4. /\ rz \in DOMAIN routes' /\ rz \in Nat /\ routes'[rz].key = r.key
      /\ \A j \in 1..(rz - 1) : routes'[j].key # r.key
  <2>1. z \in DOMAIN routes' /\ routes'[z].key = r.key
    BY <1>1
  <2> QED
    BY <1>0, <2>1 DEF RouterFacts
<1>5. Before(i, z)' <=> ri < rz \/ (ri = rz /\ i < z)
  BY <1>0, <1>1, <1>2, <1>3 DEF Before
<1>6. r \in RouteRecord /\ own \in RouteRecord
  BY RoutesAssumption
<1>7. path # <<>> /\ path \in Seq(Names) /\ path[1] = own.key
  BY <1>6 DEF Meant, RouteRecord
<1>8. SUFFICES ASSUME rz < ri PROVE FALSE
  BY <1>2, <1>3, <1>4, <1>5
<1>9. /\ rz \in DOMAIN routes /\ routes'[rz] = routes[rz] /\ routes[rz].key = r.key
      /\ RouterOf(r.key) = rz
  <2>1. rz \in DOMAIN routes
    BY <1>1, <1>3, <1>4, <1>8
  <2>2. routes'[rz] = routes[rz]
    BY <1>1, <2>1
  <2>3. routes[rz].key = r.key
    BY <1>4, <2>2
  <2>4. PICK old : old = RouterOf(routes[rz].key)
    OBVIOUS
  <2>5. /\ old \in Nat /\ old <= rz /\ old \in DOMAIN routes /\ routes[old].key = r.key
    BY <2>1, <2>3, <2>4 DEF RouterFacts
  <2>6. routes'[old].key = r.key
    BY <1>1, <2>5
  <2>7. old >= 1
    BY <1>1, <2>5
  <2>8. old = rz
    BY <1>4, <2>5, <2>6, <2>7
  <2> QED
    BY <2>1, <2>2, <2>3, <2>4, <2>8
<1>10. Mount(routes[z].key)' = Mount(r.key)
  BY <1>0, <1>1, <1>9 DEF Mount
<1>11. Answers(z, path)'
  OBVIOUS
<1>12. IF r.raw THEN Below(Mount(r.key), path) ELSE path = Mount(r.key) \o <<r.act>>
  BY <1>1, <1>10, <1>11 DEF Answers
<1>13. CASE routes[rz].raw
  <2>1. Mount(r.key) = <<>>
    BY <1>9, <1>13 DEF Mount
  <2>2. Answers(rz, path)
    <3>1. SubSeq(path, 1, 0) = <<>>
      BY <1>7
    <3> QED
      BY <1>9, <1>13, <2>1, <3>1 DEF Answers, Below
  <2>3. rz # i
    BY <1>2, <1>8, <1>9
  <2>4. Before(i, rz)
    BY <1>9, <2>2, <2>3 DEF RouteForFacts
  <2>5. ri <= rz
    BY <1>2, <1>3, <1>4, <1>9, <2>4 DEF Before
  <2> QED
    BY <1>3, <1>4, <1>8, <2>5
<1>14. CASE ~routes[rz].raw
  <2>1. Mount(r.key) = <<r.key>>
    BY <1>9, <1>14 DEF Mount
  <2>2. path[1] = r.key
    <3>1. CASE r.raw
      <4>1. SubSeq(path, 1, 1) = <<r.key>>
        BY <1>12, <2>1, <3>1 DEF Below
      <4>2. SubSeq(path, 1, 1)[1] = path[1]
        <5>1. path \in Seq(Names) /\ Len(path) \in Nat /\ Len(path) >= 1
          BY <1>7
        <5> HIDE DEF path
        <5> QED
          BY <5>1
      <4>3. <<r.key>>[1] = r.key
        OBVIOUS
      <4> HIDE DEF path
      <4> QED
        BY <4>1, <4>2, <4>3
    <3>2. CASE ~r.raw
      <4>1. path = <<r.key>> \o <<r.act>>
        BY <1>12, <2>1, <3>2
      <4>2. ASSUME NEW s \in Seq(Names), NEW t \in Seq(Names), Len(s) = 1
            PROVE  (s \o t)[1] = s[1]
        BY <4>2
      <4>3. /\ <<r.key>> \in Seq(Names) /\ Len(<<r.key>>) = 1 /\ <<r.key>>[1] = r.key
            /\ <<r.act>> \in Seq(Names)
        BY <1>6 DEF RouteRecord
      <4>4. (<<r.key>> \o <<r.act>>)[1] = <<r.key>>[1]
        BY <4>2, <4>3
      <4> HIDE DEF path
      <4> QED
        BY <4>1, <4>3, <4>4
    <3> QED
      BY <3>1, <3>2
  <2> QED
    BY <1>3, <1>4, <1>7, <1>8, <1>9, <2>2
<1> QED
  BY <1>13, <1>14

\* A destination that its own handler serves is never taken away from it by
\* what is registered later (DirectRpcHandler.ts:141-173).
THEOREM OwnServes == Spec => OwnKept
<1> DEFINE Paths == {Meant(r) : r \in Routes}
           Kept == \A path \in Paths : Own(path) => RouteFor(path)' = RouteFor(path)
<1>1. TypeOK => RouterFacts
  BY RouterIs DEF RouterFacts
<1>2. TypeOK => RouteForFacts
  <2> SUFFICES ASSUME TypeOK PROVE RouteForFacts
    OBVIOUS
  <2>1. ASSUME NEW path, NEW i \in DOMAIN routes, Answers(i, path)
        PROVE  /\ RouteFor(path) \in DOMAIN routes /\ Answers(RouteFor(path), path)
               /\ \A j \in DOMAIN routes : Answers(j, path) /\ j # RouteFor(path)
                                            => Before(RouteFor(path), j)
    BY <2>1, RouteForIs
  <2> QED
    BY <2>1 DEF RouteForFacts
<1>3. TypeOK' => RouterFacts' /\ RouteForFacts'
  BY <1>1, <1>2, PTL
<1>4. TypeOK /\ TypeOK' /\ [Next]_vars => [Kept]_routes
  <2> SUFFICES ASSUME TypeOK, TypeOK', [Next]_vars, routes' # routes,
                      NEW own \in Routes, Own(Meant(own))
               PROVE  RouteFor(Meant(own))' = RouteFor(Meant(own))
    OBVIOUS
  <2> DEFINE path == Meant(own)
  <2>1. PICK r \in Routes : Handle(r)
    BY DEF Next, vars, handlerVars, Start, Switch, Dispose, DeadLetter, Retire, ServerStep,
           Listening, Closed, Call, CallStep, Connect, Arrive, Answer, Receive, Respond,
           Throw, Timeout, Over, Update
  <2>2. RouterFacts /\ RouterFacts' /\ RouteForFacts /\ RouteForFacts'
    BY <1>1, <1>2, <1>3
  <2>3. PICK i : i = RouteFor(path)
    OBVIOUS
  <2>4. PICK b : b = RouteFor(path)'
    OBVIOUS
  <2>5. PICK z : z = Len(routes) + 1
    OBVIOUS
  <2>6. i # 0 /\ Meant(routes[i]) = path
    BY <2>3 DEF Own
  <2>7. /\ i \in DOMAIN routes /\ Answers(i, path) /\ routes[i] \in Routes
        /\ \A j \in DOMAIN routes : Answers(j, path) /\ j # i => Before(i, j)
    <3>1. \E j \in DOMAIN routes : Answers(j, path)
      BY <2>3, <2>6 DEF RouteFor
    <3>2. i \in DOMAIN routes
      BY <2>2, <2>3, <3>1 DEF RouteForFacts
    <3> QED
      BY <2>2, <2>3, <3>1, <3>2 DEF RouteForFacts, TypeOK
  <2>8. DOMAIN routes' = DOMAIN routes \cup {z} /\ i \in DOMAIN routes'
    BY <2>1, <2>5, <2>7 DEF TypeOK, Handle
  <2>9. Answers(i, path)'
    BY <2>1, <2>2, <2>7, RouteKept
  <2>10. /\ b \in DOMAIN routes' /\ Answers(b, path)'
         /\ i # b => Before(b, i)'
    BY <2>2, <2>4, <2>8, <2>9 DEF RouteForFacts
  <2>11. ASSUME i # b PROVE Before(i, b)'
    <3>1. CASE b = z
      BY <2>1, <2>2, <2>3, <2>5, <2>6, <2>7, <2>10, <3>1, NewComesAfter
    <3>2. CASE b \in DOMAIN routes
      <4>1. Answers(b, path)
        BY <2>1, <2>2, <2>10, <3>2, RouteKept
      <4>2. Before(i, b)
        BY <2>7, <2>11, <3>2, <4>1
      <4> QED
        BY <2>1, <2>2, <2>7, <3>2, <4>2, RouteKept
    <3> QED
      BY <2>8, <2>10, <3>1, <3>2
  <2>12. i = b
    <3> SUFFICES ASSUME i # b PROVE FALSE
      OBVIOUS
    <3>1. Before(i, b)' /\ Before(b, i)'
      BY <2>10, <2>11
    <3>2. /\ RouterOf(routes[i].key)' \in Nat /\ RouterOf(routes[b].key)' \in Nat
      BY <2>2, <2>8, <2>10 DEF RouterFacts
    <3>3. DOMAIN routes' \subseteq Nat
      BY DEF TypeOK
    <3> QED
      BY <2>8, <2>10, <3>1, <3>2, <3>3 DEF Before
  <2> QED
    BY <2>3, <2>4, <2>12
<1> QED
  BY <1>4, TypeCorrect, PTL DEF Spec, OwnKept
=============================================================================
