------------------------- MODULE MediateCallerProofs -------------------------
(***************************************************************************)
(* What is proved of MediateCaller for every set of calls and every choice *)
(* of faults: type correctness; that an answered call stays answered; that *)
(* a call which has stopped leaves nothing behind at the broker; and that  *)
(* a waiting call has a consumer to hear from.                             *)
(***************************************************************************)
EXTENDS MediateCaller, FiniteSets, FiniteSetTheorems, TLAPS

\* Making a request keeps the requests of the channel well-typed.
LEMMA SubmitType ==
    ASSUME NEW r \in Request, NEW sent \in Seq(Request),
           NEW left \in SUBSET Request, Submit(r, sent, left)
    PROVE  pipe' \in Seq(Request) /\ refused' \subseteq Request
<1>1. (pipe' = Append(sent, r) \/ pipe' = sent) /\ refused' \subseteq left \cup {r}
  BY DEF Submit
<1> QED
  BY <1>1

\* The requests the caller makes are requests of the connector.
LEMMA RequestType ==
    ASSUME NEW c \in Calls, NEW g \in Calls, NEW why \in Why
    PROVE  /\ Bind(c, <<c, "call">>) \in Request
           /\ Consume(c, <<c, "call">>) \in Request
           /\ Unbind(c, <<c, why>>) \in Request
           /\ Cancel(g, <<c, why>>) \in Request
BY DEF Bind, Consume, Unbind, Cancel, Request, Why

\* What is left of the pipe when its oldest request is served.
LEMMA ServedType ==
    ASSUME NEW r, pipe \in Seq(Request), Reply(r)
    PROVE  Tail(pipe) \in Seq(Request) /\ r \in Request
BY DEF Reply

\* Starting to stop waiting keeps types.
LEMMA StopWaitingType ==
    ASSUME TypeOK, NEW c \in Calls, NEW why \in Why, NEW listed \in SUBSET Calls,
           NEW sent \in Seq(Request), NEW left \in SUBSET Request,
           StopWaiting(c, why, listed, sent, left)
    PROVE  /\ stop' \in [Calls -> [Why -> StopStates]]
           /\ patterns' \subseteq Calls
           /\ pipe' \in Seq(Request)
           /\ refused' \subseteq Request
<1>1. pipe' \in Seq(Request) /\ refused' \subseteq Request
  BY RequestType, SubmitType DEF StopWaiting
<1>2. stop' = [stop EXCEPT ![c][why] = "unbinding"] /\ patterns' \subseteq Calls
  BY DEF StopWaiting, Unlisted
<1> QED
  BY <1>1, <1>2 DEF TypeOK, StopStates

LEMMA SettleType ==
    ASSUME TypeOK, NEW c \in Calls, NEW how \in Why, Settle(c, how)
    PROVE  outcome' \in [Calls -> Outcomes]
BY DEF TypeOK, Settle, Outcomes

LEMMA FailType ==
    ASSUME TypeOK, NEW c \in Calls, NEW listed \in SUBSET Calls,
           NEW sent \in Seq(Request), NEW left \in SUBSET Request,
           Fail(c, listed, sent, left)
    PROVE  /\ pc' \in [Calls -> Places]
           /\ outcome' \in [Calls -> Outcomes]
           /\ stop' \in [Calls -> [Why -> StopStates]]
           /\ patterns' \subseteq Calls
           /\ pipe' \in Seq(Request)
           /\ refused' \subseteq Request
<1>1. "error" \in Why
  BY DEF Why
<1>2. pc' = [pc EXCEPT ![c] = "failed"] /\ Settle(c, "error")
      /\ StopWaiting(c, "error", listed, sent, left)
  BY DEF Fail
<1>3. pc' \in [Calls -> Places]
  BY <1>2 DEF TypeOK, Places
<1> QED
  BY <1>1, <1>2, <1>3, SettleType, StopWaitingType

LEMMA StoppedType ==
    ASSUME TypeOK, NEW c \in Calls, NEW why \in Why, Stopped(c, why)
    PROVE  /\ outcome' \in [Calls -> Outcomes]
           /\ stop' \in [Calls -> [Why -> StopStates]]
<1>1. "answer" \in Why
  BY DEF Why
<1>2. outcome' = outcome \/ Settle(c, "answer")
  BY DEF Stopped
<1>3. stop' = [stop EXCEPT ![c][why] = "done"]
  BY DEF Stopped
<1>4. outcome' \in [Calls -> Outcomes]
  BY <1>1, <1>2, SettleType DEF TypeOK
<1> QED
  BY <1>3, <1>4 DEF TypeOK, StopStates

LEMMA RefusedType ==
    ASSUME TypeOK, AllRefused
    PROVE  pipe' \in Seq(Request) /\ refused' \subseteq Request
<1>1. InFlight \subseteq Request
  BY DEF TypeOK, ConnectorTypeOK, InFlight
<1> QED
  BY <1>1 DEF TypeOK, ConnectorTypeOK, AllRefused

-----------------------------------------------------------------------------
LEMMA TypeInit == Init => TypeOK
<1> SUFFICES ASSUME Init PROVE TypeOK
  OBVIOUS
<1>1. ConnectorTypeOK
  BY MaxLossAssumption DEF Init, ConnectorInit, ConnectorTypeOK
<1>2. stop \in [Calls -> [Why -> StopStates]]
  BY DEF Init, StopStates
<1> QED
  BY <1>1, <1>2 DEF Init, TypeOK, Places, Outcomes

LEMMA TypeStep == TypeOK /\ [Next]_vars => TypeOK'
<1> SUFFICES ASSUME TypeOK, [Next]_vars PROVE TypeOK'
  OBVIOUS
<1> USE DEF TypeOK, ConnectorTypeOK, Places, Outcomes, StopStates
<1>1. ASSUME NEW c \in Calls, Call(c) PROVE TypeOK'
  <2>1. pipe' \in Seq(Request) /\ refused' \subseteq Request
    BY <1>1, SubmitType, RequestType DEF Call, Why
  <2> QED
    BY <1>1, <2>1 DEF Call, brokerVars
<1>2. ASSUME NEW c \in Calls, Subscribed(c) PROVE TypeOK'
  <2> DEFINE r == Bind(c, <<c, "call">>)
  <2>1. Reply(r) /\ Bound(r) /\ r.key = c
    BY <1>2 DEF Subscribed, Bind
  <2>2. Tail(pipe) \in Seq(Request)
    BY <2>1, ServedType
  <2>3. bound' \subseteq Calls /\ timer' \subseteq Calls
    BY <1>2, <2>1 DEF Subscribed, Bound
  <2>4. CASE disposed
    BY <1>2, <2>1, <2>2, <2>3, <2>4, FailType DEF Subscribed, Bound
  <2>5. CASE ~disposed
    <3>1. pipe' \in Seq(Request) /\ refused' \subseteq Request
      BY <1>2, <2>2, <2>5, SubmitType, RequestType DEF Subscribed, Why
    <3> QED
      BY <1>2, <2>1, <2>3, <2>5, <3>1 DEF Subscribed, Bound
  <2> QED
    BY <2>4, <2>5
<1>3. ASSUME NEW c \in Calls, Listening(c) PROVE TypeOK'
  <2>1. Tail(pipe) \in Seq(Request)
    BY <1>3, ServedType DEF Listening
  <2>2. consumers' = consumers \cup {c} /\ tag' = c
        /\ UNCHANGED <<bound, queue>>
    BY <1>3 DEF Listening, Consumed, Consume
  <2> QED
    BY <1>3, <2>1, <2>2 DEF Listening
<1>4. ASSUME NEW c \in Calls, Publish(c) PROVE TypeOK'
  <2>1. CASE ~(Fail(c, patterns, pipe, refused) /\ UNCHANGED request)
    BY <1>4, <2>1 DEF Publish, brokerVars
  <2>2. CASE Fail(c, patterns, pipe, refused) /\ UNCHANGED request
    BY <1>4, <2>2, FailType DEF Publish, brokerVars
  <2> QED
    BY <2>1, <2>2
<1>5. ASSUME NEW c \in Calls, CallRefused(c) PROVE TypeOK'
  <2>1. PICK r \in refused : Fail(c, patterns, pipe, refused \ {r})
    BY <1>5 DEF CallRefused
  <2>2. refused \ {r} \in SUBSET Request
    OBVIOUS
  <2>3. /\ pc' \in [Calls -> Places]
        /\ outcome' \in [Calls -> Outcomes]
        /\ stop' \in [Calls -> [Why -> StopStates]]
        /\ patterns' \subseteq Calls
        /\ pipe' \in Seq(Request)
        /\ refused' \subseteq Request
    BY <2>1, <2>2, FailType
  <2> QED
    BY <1>5, <2>3 DEF CallRefused, brokerVars
<1>6. ASSUME NEW c \in Calls, Timeout(c) PROVE TypeOK'
  <2>1. "timeout" \in Why
    BY DEF Why
  <2>2. StopWaiting(c, "timeout", patterns, pipe, refused)
        /\ Settle(c, "timeout")
    BY <1>6 DEF Timeout
  <2>3. outcome' \in [Calls -> Outcomes]
    BY <2>1, <2>2, SettleType
  <2>4. /\ stop' \in [Calls -> [Why -> StopStates]]
        /\ patterns' \subseteq Calls
        /\ pipe' \in Seq(Request)
        /\ refused' \subseteq Request
    BY <2>1, <2>2, StopWaitingType
  <2> QED
    BY <1>6, <2>3, <2>4 DEF Timeout, brokerVars
<1>7. ASSUME NEW c \in Calls, Deliver(c) PROVE TypeOK'
  <2>1. "answer" \in Why /\ queue' \subseteq Calls
    BY <1>7 DEF Why, Deliver, Taken
  <2>2. CASE c \in listener
    BY <1>7, <2>1, <2>2, StopWaitingType DEF Deliver
  <2>3. CASE c \notin listener
    BY <1>7, <2>1, <2>3 DEF Deliver
  <2> QED
    BY <2>2, <2>3
<1>8. ASSUME NEW c \in Calls, NEW why \in Why, Unsubscribed(c, why)
      PROVE  TypeOK'
  <2>1. Tail(pipe) \in Seq(Request)
    BY <1>8, ServedType DEF Unsubscribed
  <2>2. bound' \subseteq Calls /\ UNCHANGED <<tag, consumers, queue>>
    BY <1>8 DEF Unsubscribed, Unbound
  <2>3. CASE isListening
    <3>1. tag \in Calls
      BY <2>3 DEF isListening
    <3>2. pipe' \in Seq(Request) /\ refused' \subseteq Request
      BY <1>8, <2>1, <2>3, <3>1, SubmitType, RequestType DEF Unsubscribed
    <3>3. stop' = [stop EXCEPT ![c][why] = "cancelling"] /\ UNCHANGED outcome
      BY <1>8, <2>3 DEF Unsubscribed
    <3> QED
      BY <1>8, <2>2, <3>2, <3>3 DEF Unsubscribed
  <2>4. CASE ~isListening
    BY <1>8, <2>1, <2>2, <2>4, StoppedType DEF Unsubscribed
  <2> QED
    BY <2>3, <2>4
<1>9. ASSUME NEW c \in Calls, NEW why \in Why, ConsumerStopped(c, why)
      PROVE  TypeOK'
  <2>1. PICK g \in Calls : Reply(Cancel(g, <<c, why>>))
                           /\ Cancelled(Cancel(g, <<c, why>>))
    BY <1>9 DEF ConsumerStopped
  <2>2. Tail(pipe) \in Seq(Request)
    BY <2>1, ServedType
  <2>3. consumers' \subseteq Calls /\ tag' = NoTag /\ UNCHANGED <<bound, queue>>
    BY <2>1 DEF Cancelled
  <2> QED
    BY <1>9, <2>2, <2>3, StoppedType DEF ConsumerStopped
<1>10. ASSUME NEW c \in Calls, NEW why \in Why, StopRefused(c, why)
       PROVE  TypeOK'
  <2>1. refused' \subseteq Request
    BY <1>10 DEF StopRefused
  <2>2. stop' = [stop EXCEPT ![c][why] = "failed"]
    BY <1>10 DEF StopRefused
  <2> QED
    BY <1>10, <2>1, <2>2 DEF StopRefused, brokerVars
<1>11. ASSUME NEW c \in Calls, Respond(c) PROVE TypeOK'
  BY <1>11 DEF Respond, Routed
<1>12. ASSUME NEW c \in Calls, Expire(c) PROVE TypeOK'
  BY <1>12 DEF Expire, Taken, callVars
<1>13. CASE Dispose
  BY <1>13 DEF Dispose, connectorVars, brokerVars
<1>14. CASE LinkStep
  <2>1. CASE Open
    BY <1>14, <2>1 DEF LinkStep, Open, callVars
  <2>2. CASE Lose
    <3>1. losses' \in 0..MaxLoss
      BY <2>2, MaxLossAssumption DEF Lose
    <3> QED
      BY <1>14, <2>2, <3>1, RefusedType DEF LinkStep, Lose, QueueDeleted, callVars
  <2>3. CASE OpenFails
    BY <1>14, <2>3, RefusedType DEF LinkStep, OpenFails, callVars
  <2>4. CASE Disconnect
    BY <1>14, <2>4, RefusedType DEF LinkStep, Disconnect, QueueDeleted, callVars
  <2> QED
    BY <1>14, <2>1, <2>2, <2>3, <2>4 DEF LinkStep
<1>15. CASE UNCHANGED vars
  BY <1>15 DEF vars, callVars, connectorVars, brokerVars
<1> QED
  BY <1>1, <1>2, <1>3, <1>4, <1>5, <1>6, <1>7, <1>8, <1>9, <1>10, <1>11,
     <1>12, <1>13, <1>14, <1>15 DEF Next, CallStep

\* Every variable keeps its type: in particular the requests on the channel
\* and the continuations that wait for them stay those of known calls
\* (MediateRpcCaller.ts:123-192).
THEOREM TypeCorrect == Spec => []TypeOK
BY TypeInit, TypeStep, PTL DEF Spec
-----------------------------------------------------------------------------
\* The requests of subscribe and listen, against those of stopWaiting.
IsCall(r) == r.op \in {"bind", "consume"}

\* Somebody waits for every request that is under way: the call that is at
\* that place of its chain, or a stopWaiting that has begun.
Expected(r) ==
    \/ /\ r = Bind(r.key, <<r.key, "call">>)
       /\ pc[r.key] = "subscribing"
    \/ /\ r = Consume(r.key, <<r.key, "call">>)
       /\ pc[r.key] = "listening"
    \/ /\ ~IsCall(r)
       /\ \E c \in Calls, w \in Why : r.who = <<c, w>> /\ stop[c][w] # "none"

Els(s) == {s[i] : i \in DOMAIN s}

\* A call has at most one request of its own in a pipe.
OnceIn(s) ==
    \A i, j \in DOMAIN s :
        IsCall(s[i]) /\ IsCall(s[j]) /\ s[i].key = s[j].key => i = j

\* Neither does a call have one in the pipe and another one refused.
Apart(s, left) ==
    /\ OnceIn(s)
    /\ \A x \in Els(s), y \in left : ~(IsCall(x) /\ IsCall(y) /\ x.key = y.key)

RequestsExpected == \A r \in Els(pipe) \cup refused : Expected(r)

CallOK(c) ==
    /\ pc[c] \in {"idle", "subscribing"} =>
         outcome[c] = "none" /\ stop[c]["answer"] = "none" /\ c \notin timer
    /\ request[c] # "none" => pc[c] = "sent"
    /\ c \in queue => request[c] = "replied"
    /\ c \in listener /\ pc[c] # "failed" => outcome[c] = "none"
    /\ stop[c]["answer"] # "none" =>
         /\ pc[c] = "sent"
         /\ c \notin timer
         /\ c \notin listener
         /\ outcome[c] \in {"none", "answer"}

IInv ==
    /\ TypeOK
    /\ RequestsExpected
    /\ Apart(pipe, refused)
    /\ \A c \in Calls : CallOK(c)
\* A request joins a pipe.
LEMMA AppendFacts ==
    ASSUME NEW s \in Seq(Request), NEW r \in Request
    PROVE  /\ Els(Append(s, r)) = Els(s) \cup {r}
           /\ OnceIn(s) /\ (\A x \in Els(s) : ~(IsCall(x) /\ IsCall(r) /\ x.key = r.key))
                => OnceIn(Append(s, r))
<1>1. Len(Append(s, r)) = Len(s) + 1 /\ Append(s, r)[Len(s) + 1] = r
      /\ \A i \in 1..Len(s) : Append(s, r)[i] = s[i]
  OBVIOUS
<1>2. DOMAIN s = 1..Len(s) /\ DOMAIN Append(s, r) = 1..(Len(s) + 1) /\ Len(s) \in Nat
  OBVIOUS
<1>3. Els(Append(s, r)) = Els(s) \cup {r}
  BY <1>1, <1>2 DEF Els
<1>4. ASSUME OnceIn(s),
             \A x \in Els(s) : ~(IsCall(x) /\ IsCall(r) /\ x.key = r.key)
      PROVE  OnceIn(Append(s, r))
  BY <1>1, <1>2, <1>4 DEF OnceIn, Els
<1> QED
  BY <1>3, <1>4

\* The oldest request leaves a pipe.
LEMMA TailFacts ==
    ASSUME NEW s \in Seq(Request), s # <<>>
    PROVE  /\ Tail(s) \in Seq(Request)
           /\ Els(Tail(s)) \subseteq Els(s)
           /\ Head(s) \in Els(s)
           /\ OnceIn(s) =>
                /\ OnceIn(Tail(s))
                /\ \A x \in Els(Tail(s)) :
                     ~(IsCall(x) /\ IsCall(Head(s)) /\ x.key = Head(s).key)
<1>1. /\ Len(s) \in Nat /\ Len(s) >= 1
      /\ Tail(s) \in Seq(Request)
      /\ Len(Tail(s)) = Len(s) - 1
      /\ \A i \in 1..(Len(s) - 1) : Tail(s)[i] = s[i + 1]
      /\ Head(s) = s[1]
  OBVIOUS
<1>2. DOMAIN s = 1..Len(s) /\ DOMAIN Tail(s) = 1..(Len(s) - 1)
  BY <1>1
<1>3. Els(Tail(s)) \subseteq Els(s) /\ Head(s) \in Els(s)
  BY <1>1, <1>2 DEF Els
<1>4. ASSUME OnceIn(s) PROVE OnceIn(Tail(s))
  BY <1>1, <1>2, <1>4 DEF OnceIn
<1>5. ASSUME OnceIn(s), NEW x \in Els(Tail(s))
      PROVE  ~(IsCall(x) /\ IsCall(Head(s)) /\ x.key = Head(s).key)
  <2>1. PICK i \in 1..(Len(s) - 1) : x = s[i + 1]
    BY <1>1, <1>2 DEF Els
  <2>2. i + 1 \in DOMAIN s /\ 1 \in DOMAIN s /\ i + 1 # 1
    BY <1>1, <1>2
  <2> QED
    BY <1>1, <1>5, <2>1, <2>2 DEF OnceIn
<1> QED
  BY <1>1, <1>3, <1>4, <1>5

\* What is under way after a request has been made, and that no call has two
\* requests of its own if it had none before.
LEMMA SubmitFacts ==
    ASSUME NEW r \in Request, NEW sent \in Seq(Request),
           NEW left \in SUBSET Request, Submit(r, sent, left), Apart(sent, left),
           \A x \in Els(sent) \cup left : ~(IsCall(x) /\ IsCall(r) /\ x.key = r.key)
    PROVE  /\ Els(pipe') \cup refused' = Els(sent) \cup left \cup {r}
           /\ Apart(pipe', refused')
<1>1. CASE Usable
  <2>1. pipe' = Append(sent, r) /\ refused' = left
    BY <1>1 DEF Submit
  <2>2. Els(Append(sent, r)) = Els(sent) \cup {r} /\ OnceIn(Append(sent, r))
    BY AppendFacts DEF Apart
  <2> QED
    BY <2>1, <2>2 DEF Apart
<1>2. CASE ~Usable
  <2>1. pipe' = sent /\ refused' = left \cup {r}
    BY <1>2 DEF Submit
  <2> QED
    BY <2>1 DEF Apart
<1> QED
  BY <1>1, <1>2

\* The oldest request is served.
LEMMA ServedFacts ==
    ASSUME TypeOK, Apart(pipe, refused), NEW r, Reply(r)
    PROVE  /\ Tail(pipe) \in Seq(Request)
           /\ r \in Els(pipe)
           /\ Els(Tail(pipe)) \subseteq Els(pipe)
           /\ Apart(Tail(pipe), refused)
           /\ \A x \in Els(Tail(pipe)) \cup refused :
                ~(IsCall(x) /\ IsCall(r) /\ x.key = r.key)
<1>1. pipe \in Seq(Request) /\ pipe # <<>> /\ r = Head(pipe)
  BY DEF Reply, TypeOK, ConnectorTypeOK
<1>2. /\ Tail(pipe) \in Seq(Request)
      /\ Els(Tail(pipe)) \subseteq Els(pipe)
      /\ r \in Els(pipe)
      /\ OnceIn(Tail(pipe))
      /\ \A x \in Els(Tail(pipe)) : ~(IsCall(x) /\ IsCall(r) /\ x.key = r.key)
  BY <1>1, TailFacts DEF Apart
<1> QED
  BY <1>2 DEF Apart

\* A call that has a request of its own under way is subscribing or listening.
LEMMA CallPlace ==
    ASSUME RequestsExpected, NEW x \in Els(pipe) \cup refused, IsCall(x)
    PROVE  /\ pc[x.key] \in {"subscribing", "listening"}
           /\ \/ x = Bind(x.key, <<x.key, "call">>)
              \/ x = Consume(x.key, <<x.key, "call">>)
           /\ x.op = "bind" <=> pc[x.key] = "subscribing"
BY DEF RequestsExpected, Expected, Bind, Consume

\* A request stays expected while its call stays where it is.
LEMMA StaysExpected ==
    ASSUME NEW x, Expected(x), IsCall(x) => pc'[x.key] = pc[x.key],
           \A d \in Calls, w \in Why : stop[d][w] # "none" => stop'[d][w] # "none"
    PROVE  Expected(x)'
<1>1. CASE IsCall(x)
  BY <1>1 DEF Expected
<1>2. CASE ~IsCall(x)
  <2>1. PICK c \in Calls, w \in Why : x.who = <<c, w>> /\ stop[c][w] # "none"
    BY <1>2 DEF Expected, IsCall, Bind, Consume
  <2>2. stop'[c][w] # "none"
    BY <2>1
  <2> QED
    BY <1>2, <2>1, <2>2 DEF Expected, IsCall
<1> QED
  BY <1>1, <1>2

\* stopWaiting has started.
LEMMA StopWaitingFacts ==
    ASSUME TypeOK, NEW c \in Calls, NEW why \in Why, NEW listed \in SUBSET Calls,
           NEW sent \in Seq(Request), NEW left \in SUBSET Request,
           Apart(sent, left), StopWaiting(c, why, listed, sent, left)
    PROVE  /\ Els(pipe') \cup refused' = Els(sent) \cup left \cup {Unbind(c, <<c, why>>)}
           /\ Apart(pipe', refused')
           /\ \A d \in Calls, w \in Why :
                stop'[d][w] = IF d = c /\ w = why THEN "unbinding" ELSE stop[d][w]
           /\ Expected(Unbind(c, <<c, why>>))'
<1> DEFINE r == Unbind(c, <<c, why>>)
<1>1. r \in Request /\ ~IsCall(r) /\ r.who = <<c, why>>
  BY RequestType DEF Unbind, IsCall
<1>2. Submit(r, sent, left) /\ stop' = [stop EXCEPT ![c][why] = "unbinding"]
  BY DEF StopWaiting
<1>3. \A d \in Calls, w \in Why :
        stop'[d][w] = IF d = c /\ w = why THEN "unbinding" ELSE stop[d][w]
  BY <1>2 DEF TypeOK
<1>4. Els(pipe') \cup refused' = Els(sent) \cup left \cup {r} /\ Apart(pipe', refused')
  BY <1>1, <1>2, SubmitFacts
<1>5. Expected(r)'
  <2>1. stop'[c][why] # "none"
    BY <1>3
  <2> QED
    BY <1>1, <2>1 DEF Expected, IsCall
<1> QED
  BY <1>3, <1>4, <1>5

\* The catch handler has run, for a call that has no request of its own left.
LEMMA FailFacts ==
    ASSUME IInv, NEW c \in Calls, NEW listed \in SUBSET Calls,
           NEW sent \in Seq(Request), NEW left \in SUBSET Request,
           Fail(c, listed, sent, left), Apart(sent, left),
           Els(sent) \cup left \subseteq Els(pipe) \cup refused,
           \A x \in Els(sent) \cup left : ~(IsCall(x) /\ x.key = c)
    PROVE  /\ RequestsExpected'
           /\ Apart(pipe', refused')
           /\ pc' = [pc EXCEPT ![c] = "failed"]
           /\ \A d \in Calls : d # c => outcome'[d] = outcome[d]
           /\ \A d \in Calls : stop'[d]["answer"] = stop[d]["answer"]
<1>1. /\ pc' = [pc EXCEPT ![c] = "failed"]
      /\ outcome' = [outcome EXCEPT ![c] = IF @ = "none" THEN "error" ELSE @]
      /\ StopWaiting(c, "error", listed, sent, left)
      /\ "error" \in Why /\ "answer" \in Why
  BY DEF Fail, Settle, Why
<1>2. /\ Els(pipe') \cup refused' = Els(sent) \cup left \cup {Unbind(c, <<c, "error">>)}
      /\ Apart(pipe', refused')
      /\ \A d \in Calls, w \in Why :
           stop'[d][w] = IF d = c /\ w = "error" THEN "unbinding" ELSE stop[d][w]
      /\ Expected(Unbind(c, <<c, "error">>))'
  BY <1>1, StopWaitingFacts DEF IInv
<1>3. ASSUME NEW x \in Els(sent) \cup left PROVE Expected(x)'
  <2>1. Expected(x)
    BY <1>3 DEF IInv, RequestsExpected
  <2>2. IsCall(x) => pc'[x.key] = pc[x.key]
    BY <1>1
  <2> QED
    BY <1>2, <2>1, <2>2, StaysExpected
<1>4. RequestsExpected'
  BY <1>2, <1>3 DEF RequestsExpected
<1> QED
  BY <1>1, <1>2, <1>4 DEF IInv, TypeOK

LEMMA InvInit == Init => IInv
<1> SUFFICES ASSUME Init PROVE IInv
  OBVIOUS
<1>1. pipe = <<>> /\ refused = {} /\ queue = {}
  BY DEF Init, ConnectorInit
<1>2. RequestsExpected /\ Apart(pipe, refused)
  BY <1>1 DEF RequestsExpected, Apart, Els, OnceIn
<1>3. ASSUME NEW c \in Calls PROVE CallOK(c)
  BY <1>1 DEF Init, CallOK, Why
<1> QED
  BY <1>2, <1>3, TypeInit DEF IInv

\* Every step keeps the invariant, action by action.
LEMMA InvStep == IInv /\ [Next]_vars => IInv'
<1> SUFFICES ASSUME IInv, [Next]_vars
             PROVE  RequestsExpected' /\ Apart(pipe', refused')
                    /\ \A d \in Calls : CallOK(d)'
  BY TypeStep DEF IInv, Apart, OnceIn, IsCall, Els
<1>t. /\ TypeOK /\ RequestsExpected /\ Apart(pipe, refused)
      /\ pipe \in Seq(Request) /\ refused \in SUBSET Request
      /\ patterns \in SUBSET Calls
      /\ {"answer", "timeout", "error"} = Why
      /\ \A d \in Calls : CallOK(d)
  BY DEF IInv, TypeOK, ConnectorTypeOK, Why
<1>k. ASSUME UNCHANGED <<pipe, refused, pc, stop>>
      PROVE  RequestsExpected' /\ Apart(pipe', refused')
  BY <1>t, <1>k DEF RequestsExpected, Expected
<1>1. ASSUME NEW c \in Calls, Call(c)
      PROVE  RequestsExpected' /\ Apart(pipe', refused')
             /\ \A d \in Calls : CallOK(d)'
  <2> DEFINE r == Bind(c, <<c, "call">>)
  <2>1. r \in Request /\ r.key = c /\ IsCall(r)
    BY RequestType, <1>t DEF Bind, IsCall
  <2>2. /\ pc[c] = "idle" /\ pc' = [pc EXCEPT ![c] = "subscribing"]
        /\ Submit(r, pipe, refused)
        /\ UNCHANGED <<outcome, stop, timer, listener, request, queue>>
    BY <1>1 DEF Call, brokerVars
  <2>3. \A x \in Els(pipe) \cup refused : ~(IsCall(x) /\ x.key = c)
    BY <2>2, <1>t, CallPlace
  <2>4. Els(pipe') \cup refused' = Els(pipe) \cup refused \cup {r}
        /\ Apart(pipe', refused')
    BY <1>t, <2>1, <2>2, <2>3, SubmitFacts
  <2>5. Expected(r)'
    BY <2>1, <2>2 DEF Expected, TypeOK, IInv
  <2>6. ASSUME NEW x \in Els(pipe) \cup refused PROVE Expected(x)'
    BY <1>t, <2>2, <2>3, StaysExpected DEF RequestsExpected
  <2>7. ASSUME NEW d \in Calls PROVE CallOK(d)'
    BY <1>t, <2>2 DEF CallOK, TypeOK
  <2> QED
    BY <2>4, <2>5, <2>6, <2>7 DEF RequestsExpected
<1>2. ASSUME NEW c \in Calls, Subscribed(c)
      PROVE  RequestsExpected' /\ Apart(pipe', refused')
             /\ \A d \in Calls : CallOK(d)'
  <2> DEFINE r == Bind(c, <<c, "call">>)
             q == Consume(c, <<c, "call">>)
  <2>1. r.key = c /\ IsCall(r) /\ Reply(r) /\ UNCHANGED <<request, queue>>
        /\ timer' = timer \cup {c}
    BY <1>2 DEF Subscribed, Bind, IsCall, Bound
  <2>2. /\ Tail(pipe) \in Seq(Request) /\ r \in Els(pipe)
        /\ Els(Tail(pipe)) \subseteq Els(pipe)
        /\ Apart(Tail(pipe), refused)
        /\ \A x \in Els(Tail(pipe)) \cup refused : ~(IsCall(x) /\ x.key = c)
    BY <1>t, <2>1, ServedFacts
  <2>3. pc[c] = "subscribing"
    BY <1>t, <2>1, <2>2, CallPlace DEF Bind
  <2>4. CASE disposed
    <3>1. Fail(c, patterns, Tail(pipe), refused) /\ UNCHANGED listener
      BY <1>2, <2>4 DEF Subscribed
    <3>2. /\ RequestsExpected' /\ Apart(pipe', refused')
          /\ pc' = [pc EXCEPT ![c] = "failed"]
          /\ \A d \in Calls : d # c => outcome'[d] = outcome[d]
          /\ \A d \in Calls : stop'[d]["answer"] = stop[d]["answer"]
      BY <1>t, <2>2, <3>1, FailFacts
    <3>3. ASSUME NEW d \in Calls PROVE CallOK(d)'
      BY <1>t, <2>1, <2>3, <3>1, <3>2 DEF CallOK, TypeOK
    <3> QED
      BY <3>2, <3>3
  <2>5. CASE ~disposed
    <3>1. /\ pc' = [pc EXCEPT ![c] = "listening"]
          /\ listener' = listener \cup {c}
          /\ Submit(q, Tail(pipe), refused)
          /\ UNCHANGED <<outcome, stop>>
      BY <1>2, <2>5 DEF Subscribed
    <3>2. q \in Request /\ q.key = c
      BY RequestType, <1>t DEF Consume
    <3>3. Els(pipe') \cup refused' = Els(Tail(pipe)) \cup refused \cup {q}
          /\ Apart(pipe', refused')
      BY <1>t, <2>2, <3>1, <3>2, SubmitFacts
    <3>4. Expected(q)'
      BY <3>1, <3>2, <1>t DEF Expected, TypeOK
    <3>5. ASSUME NEW x \in Els(Tail(pipe)) \cup refused PROVE Expected(x)'
      BY <1>t, <2>2, <3>1, StaysExpected DEF RequestsExpected
    <3>6. ASSUME NEW d \in Calls PROVE CallOK(d)'
      BY <1>t, <2>1, <2>3, <3>1 DEF CallOK, TypeOK
    <3> QED
      BY <3>3, <3>4, <3>5, <3>6 DEF RequestsExpected
  <2> QED
    BY <2>4, <2>5
<1>3. ASSUME NEW c \in Calls, Listening(c)
      PROVE  RequestsExpected' /\ Apart(pipe', refused')
             /\ \A d \in Calls : CallOK(d)'
  <2> DEFINE r == Consume(c, <<c, "call">>)
  <2>1. /\ r.key = c /\ IsCall(r) /\ Reply(r)
        /\ pc' = [pc EXCEPT ![c] = "publishing"] /\ pipe' = Tail(pipe)
        /\ UNCHANGED <<refused, outcome, stop, timer, listener, request, queue>>
    BY <1>3 DEF Listening, Consume, IsCall, Consumed
  <2>2. /\ r \in Els(pipe) /\ Els(Tail(pipe)) \subseteq Els(pipe)
        /\ Apart(Tail(pipe), refused)
        /\ \A x \in Els(Tail(pipe)) \cup refused : ~(IsCall(x) /\ x.key = c)
    BY <1>t, <2>1, ServedFacts
  <2>3. pc[c] = "listening"
    BY <1>t, <2>1, <2>2, CallPlace DEF Consume
  <2>4. ASSUME NEW x \in Els(Tail(pipe)) \cup refused PROVE Expected(x)'
    BY <1>t, <2>1, <2>2, StaysExpected DEF RequestsExpected
  <2>5. ASSUME NEW d \in Calls PROVE CallOK(d)'
    BY <1>t, <2>1, <2>3 DEF CallOK, TypeOK
  <2> QED
    BY <2>1, <2>2, <2>4, <2>5 DEF RequestsExpected
<1>4. ASSUME NEW c \in Calls, Publish(c)
      PROVE  RequestsExpected' /\ Apart(pipe', refused')
             /\ \A d \in Calls : CallOK(d)'
  <2>1. pc[c] = "publishing" /\ UNCHANGED <<timer, listener, queue>>
    BY <1>4 DEF Publish, brokerVars
  <2>2. \A x \in Els(pipe) \cup refused : ~(IsCall(x) /\ x.key = c)
    BY <1>t, <2>1, CallPlace
  <2>3. CASE ~(Fail(c, patterns, pipe, refused) /\ UNCHANGED request)
    <3>1. /\ pc' = [pc EXCEPT ![c] = "sent"]
          /\ request' = [request EXCEPT ![c] = "sent"]
          /\ UNCHANGED <<outcome, stop, pipe, refused>>
      BY <1>4, <2>3 DEF Publish
    <3>2. ASSUME NEW x \in Els(pipe) \cup refused PROVE Expected(x)'
      BY <1>t, <2>2, <3>1, StaysExpected DEF RequestsExpected
    <3>3. ASSUME NEW d \in Calls PROVE CallOK(d)'
      BY <1>t, <2>1, <3>1 DEF CallOK, TypeOK
    <3> QED
      BY <1>t, <3>1, <3>2, <3>3 DEF RequestsExpected
  <2>4. CASE Fail(c, patterns, pipe, refused) /\ UNCHANGED request
    <3>1. Fail(c, patterns, pipe, refused) /\ UNCHANGED request
      BY <2>4
    <3>2. /\ RequestsExpected' /\ Apart(pipe', refused')
          /\ pc' = [pc EXCEPT ![c] = "failed"]
          /\ \A d \in Calls : d # c => outcome'[d] = outcome[d]
          /\ \A d \in Calls : stop'[d]["answer"] = stop[d]["answer"]
      BY <1>t, <2>2, <3>1, FailFacts
    <3>3. ASSUME NEW d \in Calls PROVE CallOK(d)'
      BY <1>t, <2>1, <3>1, <3>2 DEF CallOK, TypeOK
    <3> QED
      BY <3>2, <3>3
  <2> QED
    BY <2>3, <2>4
<1>5. ASSUME NEW c \in Calls, CallRefused(c)
      PROVE  RequestsExpected' /\ Apart(pipe', refused')
             /\ \A d \in Calls : CallOK(d)'
  <2>1. PICK r \in {Bind(c, <<c, "call">>), Consume(c, <<c, "call">>)} :
             r \in refused /\ Fail(c, patterns, pipe, refused \ {r})
    BY <1>5 DEF CallRefused
  <2>2. IsCall(r) /\ r.key = c /\ UNCHANGED <<timer, listener, request, queue>>
    BY <1>5 DEF Bind, Consume, IsCall, CallRefused, brokerVars
  <2>3. pc[c] \in {"subscribing", "listening"}
    BY <1>t, <2>1, <2>2, CallPlace
  <2>4. \A x \in refused : IsCall(x) /\ x.key = c => x = r
    BY <1>t, <2>1, <2>2, CallPlace DEF Bind, Consume
  <2>5. \A x \in Els(pipe) \cup (refused \ {r}) : ~(IsCall(x) /\ x.key = c)
    BY <1>t, <2>1, <2>2, <2>4 DEF Apart
  <2>6. Apart(pipe, refused \ {r})
    BY <1>t DEF Apart
  <2>7. /\ RequestsExpected' /\ Apart(pipe', refused')
        /\ pc' = [pc EXCEPT ![c] = "failed"]
        /\ \A d \in Calls : d # c => outcome'[d] = outcome[d]
        /\ \A d \in Calls : stop'[d]["answer"] = stop[d]["answer"]
    BY <1>t, <2>1, <2>5, <2>6, FailFacts
  <2>8. ASSUME NEW d \in Calls PROVE CallOK(d)'
    BY <1>t, <2>2, <2>3, <2>7 DEF CallOK, TypeOK
  <2> QED
    BY <2>7, <2>8
<1>6. ASSUME NEW c \in Calls, Timeout(c)
      PROVE  RequestsExpected' /\ Apart(pipe', refused')
             /\ \A d \in Calls : CallOK(d)'
  <2>1. /\ c \in timer /\ timer' = timer \ {c} /\ listener' = listener \ {c}
        /\ StopWaiting(c, "timeout", patterns, pipe, refused)
        /\ outcome' = [outcome EXCEPT ![c] = IF @ = "none" THEN "timeout" ELSE @]
        /\ UNCHANGED <<pc, request, queue>>
    BY <1>6 DEF Timeout, Settle, brokerVars
  <2>2. /\ Els(pipe') \cup refused'
             = Els(pipe) \cup refused \cup {Unbind(c, <<c, "timeout">>)}
        /\ Apart(pipe', refused')
        /\ \A d \in Calls, w \in Why :
             stop'[d][w] = IF d = c /\ w = "timeout" THEN "unbinding" ELSE stop[d][w]
        /\ Expected(Unbind(c, <<c, "timeout">>))'
    BY <1>t, <2>1, StopWaitingFacts
  <2>3. ASSUME NEW x \in Els(pipe) \cup refused PROVE Expected(x)'
    BY <1>t, <2>1, <2>2, StaysExpected DEF RequestsExpected
  <2>4. ASSUME NEW d \in Calls PROVE CallOK(d)'
    BY <1>t, <2>1, <2>2 DEF CallOK, TypeOK
  <2> QED
    BY <2>2, <2>3, <2>4 DEF RequestsExpected
<1>7. ASSUME NEW c \in Calls, Deliver(c)
      PROVE  RequestsExpected' /\ Apart(pipe', refused')
             /\ \A d \in Calls : CallOK(d)'
  <2>1. /\ c \in queue /\ queue' = queue \ {c}
        /\ UNCHANGED <<pc, outcome, request>>
    BY <1>7 DEF Deliver, Taken
  <2>2. CASE c \in listener
    <3>1. /\ timer' = timer \ {c} /\ listener' = listener \ {c}
          /\ StopWaiting(c, "answer", patterns, pipe, refused)
      BY <1>7, <2>2 DEF Deliver
    <3>2. /\ Els(pipe') \cup refused'
               = Els(pipe) \cup refused \cup {Unbind(c, <<c, "answer">>)}
          /\ Apart(pipe', refused')
          /\ \A d \in Calls, w \in Why :
               stop'[d][w] = IF d = c /\ w = "answer" THEN "unbinding" ELSE stop[d][w]
          /\ Expected(Unbind(c, <<c, "answer">>))'
      BY <1>t, <3>1, StopWaitingFacts
    <3>3. ASSUME NEW x \in Els(pipe) \cup refused PROVE Expected(x)'
      BY <1>t, <2>1, <3>2, StaysExpected DEF RequestsExpected
    <3>4. ASSUME NEW d \in Calls PROVE CallOK(d)'
      BY <1>t, <2>1, <2>2, <3>1, <3>2 DEF CallOK, TypeOK
    <3> QED
      BY <3>2, <3>3, <3>4 DEF RequestsExpected
  <2>3. CASE c \notin listener
    <3>1. UNCHANGED <<timer, listener, stop, pipe, refused>>
      BY <1>7, <2>3 DEF Deliver
    <3>2. ASSUME NEW d \in Calls PROVE CallOK(d)'
      BY <1>t, <2>1, <3>1 DEF CallOK
    <3> QED
      BY <1>k, <2>1, <3>1, <3>2
  <2> QED
    BY <2>2, <2>3
<1>8. ASSUME NEW c \in Calls, NEW why \in Why, Unsubscribed(c, why)
      PROVE  RequestsExpected' /\ Apart(pipe', refused')
             /\ \A d \in Calls : CallOK(d)'
  <2> DEFINE r == Unbind(c, <<c, why>>)
  <2>1. /\ Reply(r) /\ ~IsCall(r) /\ r.who = <<c, why>>
        /\ UNCHANGED <<pc, timer, listener, request, queue>>
    BY <1>8 DEF Unsubscribed, Unbind, IsCall, Unbound
  <2>2. /\ Tail(pipe) \in Seq(Request) /\ r \in Els(pipe)
        /\ Els(Tail(pipe)) \subseteq Els(pipe) /\ Apart(Tail(pipe), refused)
    BY <1>t, <2>1, ServedFacts
  <2>3. stop[c][why] # "none"
    BY <1>t, <2>1, <2>2 DEF RequestsExpected, Expected, Bind, Consume, IsCall
  <2>4. CASE isListening
    <3>1. PICK g \in Calls : g = tag
      BY <1>t, <2>4 DEF isListening, TypeOK, ConnectorTypeOK
    <3> DEFINE q == Cancel(g, <<c, why>>)
    <3>2. /\ stop' = [stop EXCEPT ![c][why] = "cancelling"]
          /\ Submit(q, Tail(pipe), refused)
          /\ UNCHANGED outcome
      BY <1>8, <2>4, <3>1 DEF Unsubscribed
    <3>3. q \in Request /\ ~IsCall(q) /\ q.who = <<c, why>>
      BY <3>1, RequestType DEF Cancel, IsCall
    <3>4. Els(pipe') \cup refused' = Els(Tail(pipe)) \cup refused \cup {q}
          /\ Apart(pipe', refused')
      BY <1>t, <2>2, <3>2, <3>3, SubmitFacts
    <3>5. \A d \in Calls, w \in Why :
            stop'[d][w] = IF d = c /\ w = why THEN "cancelling" ELSE stop[d][w]
      BY <1>t, <3>2 DEF TypeOK
    <3>6. Expected(q)'
      <4>1. stop'[c][why] # "none"
        BY <3>5
      <4> QED
        BY <3>3, <4>1 DEF Expected, IsCall
    <3>7. ASSUME NEW x \in Els(Tail(pipe)) \cup refused PROVE Expected(x)'
      BY <1>t, <2>1, <2>2, <3>5, StaysExpected DEF RequestsExpected
    <3>8. ASSUME NEW d \in Calls PROVE CallOK(d)'
      <4>1. stop'[d]["answer"] # "none" => stop[d]["answer"] # "none"
        BY <1>t, <2>3, <3>5
      <4>2. stop[d]["answer"] # "none" => stop'[d]["answer"] # "none"
        BY <1>t, <3>5
      <4> QED
        BY <1>t, <2>1, <3>2, <4>1, <4>2 DEF CallOK
    <3> QED
      BY <3>4, <3>6, <3>7, <3>8 DEF RequestsExpected
  <2>5. CASE ~isListening
    <3>1. Stopped(c, why) /\ pipe' = Tail(pipe) /\ UNCHANGED refused
      BY <1>8, <2>5 DEF Unsubscribed
    <3>2. \A d \in Calls, w \in Why :
            stop'[d][w] = IF d = c /\ w = why THEN "done" ELSE stop[d][w]
      BY <1>t, <3>1 DEF Stopped, TypeOK
    <3>3. ASSUME NEW x \in Els(Tail(pipe)) \cup refused PROVE Expected(x)'
      BY <1>t, <2>1, <2>2, <3>2, StaysExpected DEF RequestsExpected
    <3>4. ASSUME NEW d \in Calls PROVE CallOK(d)'
      <4>1. (stop'[d]["answer"] # "none") <=> (stop[d]["answer"] # "none")
        BY <1>t, <2>3, <3>2
      <4>2. outcome'[d] = outcome[d] \/ (d = c /\ why = "answer" /\ outcome'[d] = "answer")
        BY <1>t, <3>1 DEF Stopped, Settle, TypeOK
      <4> QED
        BY <1>t, <2>1, <2>3, <4>1, <4>2 DEF CallOK
    <3> QED
      BY <2>2, <3>1, <3>3, <3>4 DEF RequestsExpected
  <2> QED
    BY <2>4, <2>5
<1>9. ASSUME NEW c \in Calls, NEW why \in Why, ConsumerStopped(c, why)
      PROVE  RequestsExpected' /\ Apart(pipe', refused')
             /\ \A d \in Calls : CallOK(d)'
  <2>1. PICK g \in Calls : /\ Reply(Cancel(g, <<c, why>>))
                           /\ Cancelled(Cancel(g, <<c, why>>))
                           /\ Stopped(c, why)
                           /\ pipe' = Tail(pipe)
                           /\ UNCHANGED <<pc, timer, listener, request, refused>>
    BY <1>9 DEF ConsumerStopped
  <2> DEFINE r == Cancel(g, <<c, why>>)
  <2>2. ~IsCall(r) /\ r.who = <<c, why>> /\ UNCHANGED queue
    BY <2>1 DEF Cancel, IsCall, Cancelled
  <2>3. /\ r \in Els(pipe)
        /\ Els(Tail(pipe)) \subseteq Els(pipe) /\ Apart(Tail(pipe), refused)
    BY <1>t, <2>1, ServedFacts
  <2>4. stop[c][why] # "none"
    BY <1>t, <2>2, <2>3 DEF RequestsExpected, Expected, Bind, Consume, IsCall
  <2>5. \A d \in Calls, w \in Why :
          stop'[d][w] = IF d = c /\ w = why THEN "done" ELSE stop[d][w]
    BY <1>t, <2>1 DEF Stopped, TypeOK
  <2>6. ASSUME NEW x \in Els(Tail(pipe)) \cup refused PROVE Expected(x)'
    BY <1>t, <2>1, <2>3, <2>5, StaysExpected DEF RequestsExpected
  <2>7. ASSUME NEW d \in Calls PROVE CallOK(d)'
    <3>1. (stop'[d]["answer"] # "none") <=> (stop[d]["answer"] # "none")
      BY <1>t, <2>4, <2>5
    <3>2. outcome'[d] = outcome[d] \/ (d = c /\ why = "answer" /\ outcome'[d] = "answer")
      BY <1>t, <2>1 DEF Stopped, Settle, TypeOK
    <3> QED
      BY <1>t, <2>1, <2>2, <2>4, <3>1, <3>2 DEF CallOK
  <2> QED
    BY <2>1, <2>3, <2>6, <2>7 DEF RequestsExpected
<1>10. ASSUME NEW c \in Calls, NEW why \in Why, StopRefused(c, why)
       PROVE  RequestsExpected' /\ Apart(pipe', refused')
              /\ \A d \in Calls : CallOK(d)'
  <2>1. PICK r \in {Unbind(c, <<c, why>>)} \cup {Cancel(g, <<c, why>>) : g \in Calls} :
          r \in refused /\ refused' = refused \ {r}
    BY <1>10 DEF StopRefused
  <2>2. /\ stop' = [stop EXCEPT ![c][why] = "failed"]
        /\ UNCHANGED <<pc, outcome, timer, listener, request, pipe, queue>>
    BY <1>10 DEF StopRefused, brokerVars
  <2>3. ~IsCall(r) /\ r.who = <<c, why>>
    BY DEF Unbind, Cancel, IsCall
  <2>4. stop[c][why] # "none"
    BY <1>t, <2>1, <2>3 DEF RequestsExpected, Expected, Bind, Consume, IsCall
  <2>5. \A d \in Calls, w \in Why :
          stop'[d][w] = IF d = c /\ w = why THEN "failed" ELSE stop[d][w]
    BY <1>t, <2>2 DEF TypeOK
  <2>6. ASSUME NEW x \in Els(pipe) \cup refused' PROVE Expected(x)'
    BY <1>t, <2>1, <2>2, <2>5, StaysExpected DEF RequestsExpected
  <2>7. Apart(pipe', refused')
    BY <1>t, <2>1, <2>2 DEF Apart
  <2>8. ASSUME NEW d \in Calls PROVE CallOK(d)'
    <3>1. (stop'[d]["answer"] # "none") <=> (stop[d]["answer"] # "none")
      BY <1>t, <2>4, <2>5
    <3> QED
      BY <1>t, <2>2, <3>1 DEF CallOK
  <2> QED
    BY <2>2, <2>6, <2>7, <2>8 DEF RequestsExpected
<1>11. ASSUME NEW c \in Calls, Respond(c)
       PROVE  RequestsExpected' /\ Apart(pipe', refused')
              /\ \A d \in Calls : CallOK(d)'
  <2>1. /\ request[c] # "none" /\ request' = [request EXCEPT ![c] = "replied"]
        /\ queue' \subseteq queue \cup {c}
        /\ UNCHANGED <<pc, outcome, stop, timer, listener, pipe, refused>>
    BY <1>11 DEF Respond, Routed
  <2>2. ASSUME NEW d \in Calls PROVE CallOK(d)'
    BY <1>t, <2>1 DEF CallOK, TypeOK
  <2> QED
    BY <1>k, <2>1, <2>2
<1>12. ASSUME NEW c \in Calls, Expire(c)
       PROVE  RequestsExpected' /\ Apart(pipe', refused')
              /\ \A d \in Calls : CallOK(d)'
  <2>1. /\ queue' \subseteq queue
        /\ UNCHANGED <<pc, outcome, stop, timer, listener, request, pipe, refused>>
    BY <1>12 DEF Expire, Taken, callVars
  <2>2. ASSUME NEW d \in Calls PROVE CallOK(d)'
    BY <1>t, <2>1 DEF CallOK
  <2> QED
    BY <1>k, <2>1, <2>2
<1>13. CASE Dispose
  <2>1. /\ listener' = {}
        /\ UNCHANGED <<pc, outcome, stop, timer, request, pipe, refused, queue>>
    BY <1>13 DEF Dispose, connectorVars, brokerVars
  <2>2. ASSUME NEW d \in Calls PROVE CallOK(d)'
    BY <1>t, <2>1 DEF CallOK
  <2> QED
    BY <1>k, <2>1, <2>2
<1>14. CASE LinkStep
  <2>1. UNCHANGED <<pc, outcome, stop, timer, listener, request>>
    BY <1>14 DEF LinkStep, callVars
  <2>2. queue' \subseteq queue
    BY <1>14 DEF LinkStep, Open, Lose, OpenFails, Disconnect, QueueDeleted
  <2>3. ASSUME NEW d \in Calls PROVE CallOK(d)'
    BY <1>t, <2>1, <2>2 DEF CallOK
  <2>4. CASE Open
    BY <1>k, <2>1, <2>3, <2>4 DEF Open
  <2>5. CASE AllRefused
    <3>1. pipe' = <<>> /\ refused' = refused \cup Els(pipe)
      BY <2>5 DEF AllRefused, InFlight, Els
    <3>2. ASSUME NEW x \in Els(pipe) \cup refused PROVE Expected(x)'
      BY <1>t, <2>1, StaysExpected DEF RequestsExpected
    <3>3. Els(pipe') = {} /\ Apart(pipe', refused')
      BY <3>1 DEF Els, Apart, OnceIn
    <3> QED
      BY <2>3, <3>1, <3>2, <3>3 DEF RequestsExpected
  <2> QED
    BY <1>14, <2>4, <2>5 DEF LinkStep, Lose, OpenFails, Disconnect
<1>15. CASE UNCHANGED vars
  <2>1. UNCHANGED <<pc, outcome, stop, timer, listener, request, pipe, refused, queue>>
    BY <1>15 DEF vars, callVars, connectorVars, brokerVars
  <2>2. ASSUME NEW d \in Calls PROVE CallOK(d)'
    BY <1>t, <2>1 DEF CallOK
  <2> QED
    BY <1>k, <2>1, <2>2
<1> QED
  BY <1>1, <1>2, <1>3, <1>4, <1>5, <1>6, <1>7, <1>8, <1>9, <1>10, <1>11,
     <1>12, <1>13, <1>14, <1>15 DEF Next, CallStep

\* Once onMessage has run for a call, neither its timeout nor its catch handler
\* can settle it: both are ruled out by where the call then is
\* (MediateRpcCaller.ts:147-190).
THEOREM AnswerStands == Spec => []AnsweredNeverRejected
<1>1. IInv => AnsweredNeverRejected
  BY DEF IInv, CallOK, AnsweredNeverRejected
<1> QED
  BY <1>1, InvInit, InvStep, PTL DEF Spec

-----------------------------------------------------------------------------
\* No one waits for two requests.
Sole(s, left) ==
    /\ \A i, j \in DOMAIN s : s[i].who = s[j].who => i = j
    /\ \A x \in Els(s), y \in left : x.who # y.who
    /\ \A x, y \in left : x.who = y.who => x = y

\* A request to unbind or to cancel is the one its stopWaiting waits for.
Minded(x, st) ==
    ~IsCall(x) => \E c \in Calls, w \in Why :
        /\ x.who = <<c, w>>
        /\ \/ x = Unbind(c, <<c, w>>) /\ st[c][w] = "unbinding"
           \/ x.op = "cancel" /\ st[c][w] = "cancelling"

\* The queue is bound to nothing while there is no channel, and a topic whose
\* call has begun to stop is going to be unbound.
Undoing(lk, bd, st, s) ==
    /\ lk # "up" => bd = {}
    /\ \A c \in bd : (\E w \in Why : st[c][w] # "none") =>
         \E w \in Why : Unbind(c, <<c, w>>) \in Els(s)

Tidy(s, left, st, lk, bd) ==
    /\ Sole(s, left)
    /\ \A x \in Els(s) \cup left : Minded(x, st)
    /\ Undoing(lk, bd, st, s)

\* A call begins to stop at most once for each reason, and drops its pattern.
Orderly(c) ==
    /\ pc[c] \in {"idle", "subscribing"} =>
         c \notin listener /\ c \notin patterns /\ \A w \in Why : stop[c][w] = "none"
    /\ stop[c]["error"] # "none" => pc[c] = "failed"
    /\ stop[c]["timeout"] # "none" =>
         c \notin timer /\ c \notin listener /\ stop[c]["answer"] = "none"
    /\ (\E w \in Why : stop[c][w] # "none") => link = "gone" \/ c \notin patterns

SInv == Tidy(pipe, refused, stop, link, bound) /\ \A c \in Calls : Orderly(c)

LEMMA SoleSubmit ==
    ASSUME NEW r \in Request, NEW sent \in Seq(Request),
           NEW left \in SUBSET Request, Submit(r, sent, left), Sole(sent, left),
           \A x \in Els(sent) \cup left : x.who # r.who
    PROVE  /\ Sole(pipe', refused')
           /\ Els(sent) \subseteq Els(pipe') /\ (Usable => r \in Els(pipe'))
           /\ Els(pipe') \cup refused' \subseteq Els(sent) \cup left \cup {r}
<1>1. CASE Usable
  <2>1. pipe' = Append(sent, r) /\ refused' = left
    BY <1>1 DEF Submit
  <2>2. Els(Append(sent, r)) = Els(sent) \cup {r}
    BY AppendFacts
  <2>3. ASSUME NEW i \in DOMAIN pipe', NEW j \in DOMAIN pipe', pipe'[i].who = pipe'[j].who
        PROVE  i = j
    <3>1. /\ Len(sent) \in Nat /\ DOMAIN sent = 1..Len(sent)
          /\ DOMAIN pipe' = 1..(Len(sent) + 1) /\ pipe'[Len(sent) + 1] = r
          /\ \A k \in 1..Len(sent) : pipe'[k] = sent[k] /\ sent[k] \in Els(sent)
      BY <2>1 DEF Els
    <3>2. CASE i \in 1..Len(sent) /\ j \in 1..Len(sent)
      BY <2>3, <3>1, <3>2 DEF Sole
    <3>3. CASE i \in 1..Len(sent) /\ j = Len(sent) + 1
      BY <2>3, <3>1, <3>3
    <3>4. CASE j \in 1..Len(sent) /\ i = Len(sent) + 1
      BY <2>3, <3>1, <3>4
    <3> QED
      BY <3>1, <3>2, <3>3, <3>4
  <2> QED
    BY <1>1, <2>1, <2>2, <2>3 DEF Sole
<1>2. CASE ~Usable
  <2>1. pipe' = sent /\ refused' = left \cup {r}
    BY <1>2 DEF Submit
  <2> QED
    BY <1>2, <2>1 DEF Sole
<1> QED
  BY <1>1, <1>2

LEMMA SoleServed ==
    ASSUME TypeOK, Sole(pipe, refused), NEW r, Reply(r)
    PROVE  /\ Tail(pipe) \in Seq(Request) /\ Sole(Tail(pipe), refused)
           /\ \A x \in Els(Tail(pipe)) \cup refused : x.who # r.who
           /\ Els(pipe) = Els(Tail(pipe)) \cup {r} /\ link = "up"
<1>1. pipe \in Seq(Request) /\ pipe # <<>> /\ r = Head(pipe) /\ link = "up"
  BY DEF Reply, TypeOK, ConnectorTypeOK
<1>2. /\ Len(pipe) \in Nat /\ Len(pipe) >= 1 /\ Tail(pipe) \in Seq(Request)
      /\ DOMAIN pipe = 1..Len(pipe) /\ DOMAIN Tail(pipe) = 1..(Len(pipe) - 1)
      /\ \A i \in 1..(Len(pipe) - 1) : Tail(pipe)[i] = pipe[i + 1]
      /\ r = pipe[1]
  BY <1>1
<1>3. \A i, j \in DOMAIN Tail(pipe) : Tail(pipe)[i].who = Tail(pipe)[j].who => i = j
  <2> SUFFICES ASSUME NEW i \in 1..(Len(pipe) - 1), NEW j \in 1..(Len(pipe) - 1),
                      Tail(pipe)[i].who = Tail(pipe)[j].who
               PROVE  i = j
    BY <1>2
  <2>1. i + 1 \in DOMAIN pipe /\ j + 1 \in DOMAIN pipe /\ pipe[i + 1].who = pipe[j + 1].who
    BY <1>2
  <2>2. i + 1 = j + 1
    BY <2>1 DEF Sole
  <2> QED
    BY <1>2, <2>2
<1>4. ASSUME NEW x \in Els(pipe) PROVE x \in Els(Tail(pipe)) \cup {r}
  <2>1. PICK i \in 1..Len(pipe) : x = pipe[i]
    BY <1>2 DEF Els
  <2>2. CASE i = 1
    BY <1>2, <2>1, <2>2
  <2>3. CASE i # 1
    <3>1. i - 1 \in DOMAIN Tail(pipe) /\ Tail(pipe)[i - 1] = pipe[i]
      BY <1>2, <2>1, <2>3
    <3> QED
      BY <2>1, <3>1 DEF Els
  <2> QED
    BY <2>2, <2>3
<1>5. Els(Tail(pipe)) \subseteq Els(pipe) /\ r \in Els(pipe)
  BY <1>1, TailFacts
<1>6. ASSUME NEW x \in Els(Tail(pipe)) PROVE x.who # r.who
  <2>1. PICK i \in 1..(Len(pipe) - 1) : x = pipe[i + 1]
    BY <1>2 DEF Els
  <2>2. i + 1 \in DOMAIN pipe /\ 1 \in DOMAIN pipe /\ i + 1 # 1
    BY <1>2
  <2> QED
    BY <1>2, <2>1, <2>2 DEF Sole
<1> QED
  BY <1>1, <1>2, <1>3, <1>4, <1>5, <1>6 DEF Sole

\* Who waits for a request says what it is about.
LEMMA WhoCalls ==
    ASSUME RequestsExpected, NEW x \in Els(pipe) \cup refused, NEW c \in Calls,
           x.who = <<c, "call">>
    PROVE  IsCall(x) /\ x.key = c /\ pc[c] \in {"subscribing", "listening"}
<1>1. Expected(x)
  BY DEF RequestsExpected
<1>2. IsCall(x)
  BY <1>1 DEF Expected, Why, IsCall, Bind, Consume
<1> QED
  BY <1>1, <1>2 DEF Expected, Bind, Consume

LEMMA WhoStops ==
    ASSUME RequestsExpected, Tidy(pipe, refused, stop, link, bound),
           NEW x \in Els(pipe) \cup refused, NEW c \in Calls, NEW why \in Why, x.who = <<c, why>>
    PROVE  /\ ~IsCall(x)
           /\ \/ x = Unbind(c, <<c, why>>) /\ stop[c][why] = "unbinding"
              \/ x.op = "cancel" /\ stop[c][why] = "cancelling"
<1>1. Expected(x) /\ Minded(x, stop)
  BY DEF RequestsExpected, Tidy
<1>2. ~IsCall(x)
  BY <1>1 DEF Expected, Why, IsCall, Bind, Consume
<1>3. PICK d \in Calls, w \in Why :
        /\ x.who = <<d, w>>
        /\ \/ x = Unbind(d, <<d, w>>) /\ stop[d][w] = "unbinding"
           \/ x.op = "cancel" /\ stop[d][w] = "cancelling"
  BY <1>1, <1>2 DEF Minded
<1>4. d = c /\ w = why
  BY <1>3
<1> QED
  BY <1>2, <1>3, <1>4

LEMMA MindedStays ==
    ASSUME NEW x, Minded(x, stop),
           \A d \in Calls, w \in Why : x.who = <<d, w>> => stop'[d][w] = stop[d][w]
    PROVE  Minded(x, stop')
  BY DEF Minded

\* stopWaiting has started, for the first time for this reason, after a step of
\* the broker or not.
LEMMA BeginTidy ==
    ASSUME IInv, SInv, NEW c \in Calls, NEW why \in Why, NEW listed \in SUBSET Calls,
           NEW sent \in Seq(Request), NEW left \in SUBSET Request, NEW bd \in SUBSET Calls,
           StopWaiting(c, why, listed, sent, left), stop[c][why] = "none", Sole(sent, left),
           Els(sent) \cup left \subseteq Els(pipe) \cup refused,
           \A x \in Els(pipe) : x \in Els(sent) \/ IsCall(x),
           bd \subseteq bound \cup {c}, link # "up" => bd = {}
    PROVE  /\ Tidy(pipe', refused', stop', link, bd)
           /\ \A d \in Calls, w \in Why :
                stop'[d][w] = IF d = c /\ w = why THEN "unbinding" ELSE stop[d][w]
           /\ patterns' \subseteq listed
           /\ link = "gone" \/ c \notin patterns'
<1> DEFINE r == Unbind(c, <<c, why>>)
<1>1. r \in Request /\ ~IsCall(r) /\ r.who = <<c, why>>
  BY RequestType DEF Unbind, IsCall
<1>2. Submit(r, sent, left) /\ stop' = [stop EXCEPT ![c][why] = "unbinding"]
      /\ patterns' = Unlisted(c, listed)
  BY DEF StopWaiting
<1>3. \A d \in Calls, w \in Why :
        stop'[d][w] = IF d = c /\ w = why THEN "unbinding" ELSE stop[d][w]
  BY <1>2 DEF TypeOK, IInv
<1>4. \A x \in Els(pipe) \cup refused : x.who # <<c, why>>
  BY WhoStops DEF IInv, SInv
<1>5. /\ Sole(pipe', refused') /\ Els(sent) \subseteq Els(pipe') /\ (Usable => r \in Els(pipe'))
      /\ Els(pipe') \cup refused' \subseteq Els(sent) \cup left \cup {r}
  <2>1. \A x \in Els(sent) \cup left : x.who # r.who
    BY <1>1, <1>4
  <2> HIDE DEF r
  <2> QED
    BY <1>1, <1>2, <2>1, SoleSubmit
<1>6. ASSUME NEW x \in Els(pipe') \cup refused' PROVE Minded(x, stop')
  <2>1. CASE x = r
    <3>1. stop'[c][why] = "unbinding"
      BY <1>3
    <3> QED
      BY <1>1, <2>1, <3>1 DEF Minded
  <2>2. CASE x \in Els(pipe) \cup refused
    <3>1. Minded(x, stop) /\ x.who # <<c, why>>
      BY <1>4, <2>2 DEF SInv, Tidy
    <3> QED
      BY <1>3, <3>1, MindedStays
  <2> QED
    BY <1>5, <2>1, <2>2
<1>7. ASSUME NEW d \in bd, NEW v \in Why, stop'[d][v] # "none"
      PROVE  \E w \in Why : Unbind(d, <<d, w>>) \in Els(pipe')
  <2>1. link = "up"
    BY <1>7
  <2>2. CASE d = c
    BY <1>5, <2>1, <2>2 DEF Usable
  <2>3. CASE d # c
    <3>1. d \in bound /\ d \in Calls /\ stop[d][v] # "none"
      BY <1>3, <1>7, <2>3
    <3>2. PICK w \in Why : Unbind(d, <<d, w>>) \in Els(pipe)
      BY <3>1 DEF SInv, Tidy, Undoing
    <3>3. ~IsCall(Unbind(d, <<d, w>>))
      BY DEF Unbind, IsCall
    <3> QED
      BY <1>5, <3>2, <3>3
  <2> QED
    BY <2>2, <2>3
<1>8. Tidy(pipe', refused', stop', link, bd)
  BY <1>5, <1>6, <1>7 DEF Tidy, Undoing
<1> QED
  BY <1>2, <1>3, <1>8 DEF Unlisted

\* What a failed call leaves to be done, and the other calls as they were.
LEMMA FailTidy ==
    ASSUME IInv, SInv, NEW c \in Calls, NEW sent \in Seq(Request), NEW left \in SUBSET Request,
           NEW bd \in SUBSET Calls, Fail(c, patterns, sent, left), pc[c] # "failed",
           Sole(sent, left), Els(sent) \cup left \subseteq Els(pipe) \cup refused,
           \A x \in Els(pipe) : x \in Els(sent) \/ IsCall(x),
           bd \subseteq bound \cup {c}, link # "up" => bd = {}, link' = link,
           UNCHANGED listener, timer' \subseteq timer \cup {c},
           pc[c] # "subscribing" => timer' = timer
    PROVE  Tidy(pipe', refused', stop', link', bd) /\ \A d \in Calls : Orderly(d)'
<1>t. /\ TypeOK /\ patterns \in SUBSET Calls /\ "error" \in Why /\ Orderly(c)
      /\ \A d \in Calls : Orderly(d) /\ CallOK(d)
  BY DEF IInv, TypeOK, Why, SInv
<1>1. stop[c]["error"] = "none"
  BY <1>t DEF Orderly
<1>2. pc' = [pc EXCEPT ![c] = "failed"] /\ StopWaiting(c, "error", patterns, sent, left)
  BY DEF Fail
<1>3. /\ Tidy(pipe', refused', stop', link, bd)
      /\ \A d \in Calls, w \in Why :
           stop'[d][w] = IF d = c /\ w = "error" THEN "unbinding" ELSE stop[d][w]
      /\ patterns' \subseteq patterns
      /\ link = "gone" \/ c \notin patterns'
  BY <1>t, <1>1, <1>2, BeginTidy
<1>4. ASSUME NEW d \in Calls PROVE Orderly(d)'
  <2>1. CASE d = c
    <3>1. pc'[c] = "failed" /\ c \in Calls
      BY <1>2 DEF TypeOK, IInv
    <3>2. /\ stop'[c]["timeout"] = stop[c]["timeout"] /\ stop'[c]["answer"] = stop[c]["answer"]
      BY <1>3 DEF Why
    <3>3. stop[c]["timeout"] # "none" => pc[c] # "subscribing"
      BY <1>t DEF Orderly, Why
    <3> QED
      BY <1>t, <1>3, <2>1, <3>1, <3>2, <3>3 DEF Orderly
  <2>2. CASE d # c
    <3>1. pc'[d] = pc[d] /\ \A w \in Why : stop'[d][w] = stop[d][w]
      BY <1>2, <1>3, <2>2 DEF TypeOK, IInv
    <3>2. d \in timer' => d \in timer
      BY <2>2
    <3> QED
      BY <1>t, <1>3, <3>1, <3>2 DEF Orderly, Why
  <2> QED
    BY <2>1, <2>2
<1> QED
  BY <1>3, <1>4

LEMMA TidyInit == Init => SInv
<1> SUFFICES ASSUME Init PROVE SInv
  OBVIOUS
<1>1. pipe = <<>> /\ refused = {} /\ bound = {}
  BY DEF Init, ConnectorInit
<1>2. Tidy(pipe, refused, stop, link, bound)
  BY <1>1 DEF Tidy, Sole, Undoing, Els
<1>3. \A c \in Calls : Orderly(c)
  BY DEF Init, Orderly, Why
<1> QED
  BY <1>2, <1>3 DEF SInv

\* A step that neither makes nor serves a request.
LEMMA TidyStays ==
    ASSUME SInv, UNCHANGED <<pipe, refused, stop, pc, link, bound, patterns>>,
           timer' \subseteq timer, listener' \subseteq listener
    PROVE  Tidy(pipe', refused', stop', link', bound') /\ \A d \in Calls : Orderly(d)'
  BY DEF SInv, Orderly

\* One run of stopWaiting that was under way is over, or goes on to cancel.
LEMMA OrderlyMoves ==
    ASSUME IInv, SInv, NEW c \in Calls, NEW why \in Why, NEW state \in StopStates \ {"none"},
           stop' = [stop EXCEPT ![c][why] = state], stop[c][why] # "none",
           UNCHANGED <<pc, timer, listener, patterns, link>>
    PROVE  /\ \A d \in Calls, w \in Why :
                stop'[d][w] = IF d = c /\ w = why THEN state ELSE stop[d][w]
           /\ \A d \in Calls : Orderly(d)'
<1>1. \A d \in Calls, w \in Why :
        stop'[d][w] = IF d = c /\ w = why THEN state ELSE stop[d][w]
  BY DEF IInv, TypeOK
<1>2. \A d \in Calls, w \in Why : (stop'[d][w] # "none") <=> (stop[d][w] # "none")
  BY <1>1
<1>3. ASSUME NEW d \in Calls PROVE Orderly(d)'
  <2>1. {"answer", "timeout", "error"} = Why /\ Orderly(d)
    BY DEF Why, SInv
  <2> QED
    BY <1>2, <2>1 DEF Orderly
<1> QED
  BY <1>1, <1>3

\* The request that c waits for is done with; the other ones are untouched.
LEMMA TidyServed ==
    ASSUME IInv, SInv, NEW c \in Calls, NEW why \in Why, NEW r, r.who = <<c, why>>,
           r \in Els(pipe) \cup refused, NEW s, NEW left, NEW st, NEW bd,
           Sole(s, left), Els(s) \subseteq Els(pipe), left \subseteq refused,
           \A x \in Els(s) \cup left : x.who # r.who,
           \A x \in Els(pipe) : x \in Els(s) \/ x = r,
           \A d \in Calls, w \in Why : ~(d = c /\ w = why) => st[d][w] = stop[d][w],
           bd \subseteq bound, r \in Els(pipe) /\ r = Unbind(c, <<c, why>>) => c \notin bd
    PROVE  Tidy(s, left, st, link, bd)
<1>1. ASSUME NEW x \in Els(s) \cup left PROVE Minded(x, st)
  <2>1. Minded(x, stop) /\ x.who # <<c, why>>
    BY <1>1 DEF SInv, Tidy
  <2> QED
    BY <2>1 DEF Minded
<1>2. bd \subseteq Calls /\ (link # "up" => bd = {})
  BY DEF SInv, Tidy, Undoing, IInv, TypeOK, ConnectorTypeOK
<1>3. ASSUME NEW d \in bd, NEW v \in Why, st[d][v] # "none"
      PROVE  \E w \in Why : Unbind(d, <<d, w>>) \in Els(s)
  <2>1. d \in bound /\ d \in Calls
    BY <1>2
  <2>2. \E w \in Why : stop[d][w] # "none"
    <3>1. CASE d = c /\ v = why
      BY <3>1, WhoStops DEF IInv, SInv
    <3>2. CASE ~(d = c /\ v = why)
      BY <1>3, <2>1, <3>2
    <3> QED
      BY <3>1, <3>2
  <2>3. PICK w \in Why : Unbind(d, <<d, w>>) \in Els(pipe)
    BY <2>1, <2>2 DEF SInv, Tidy, Undoing
  <2>4. CASE Unbind(d, <<d, w>>) = r
    <3>1. d = c /\ w = why
      BY <2>4 DEF Unbind
    <3> QED
      BY <2>3, <2>4, <3>1, <1>3
  <2> QED
    BY <2>3, <2>4
<1> QED
  BY <1>1, <1>2, <1>3 DEF Tidy, Undoing

\* Every step leaves the requests tidy and the calls orderly.
LEMMA TidyStep == IInv /\ SInv /\ [Next]_vars => SInv'
<1> SUFFICES ASSUME IInv, SInv, [Next]_vars
             PROVE  Tidy(pipe', refused', stop', link', bound') /\ \A d \in Calls : Orderly(d)'
  BY DEF SInv, Tidy, Sole, Minded, Undoing, IsCall, Els, Unbind
<1>t. /\ TypeOK /\ RequestsExpected /\ Tidy(pipe, refused, stop, link, bound)
      /\ Sole(pipe, refused) /\ \A x \in Els(pipe) \cup refused : Minded(x, stop)
      /\ pipe \in Seq(Request) /\ refused \in SUBSET Request /\ bound \in SUBSET Calls
      /\ patterns \in SUBSET Calls /\ (link # "up" => bound = {})
      /\ {"answer", "timeout", "error"} = Why
      /\ \A d \in Calls : CallOK(d) /\ Orderly(d)
  BY DEF IInv, SInv, Tidy, Undoing, TypeOK, ConnectorTypeOK, Why
<1>1. ASSUME NEW c \in Calls, Call(c)
      PROVE  Tidy(pipe', refused', stop', link', bound') /\ \A d \in Calls : Orderly(d)'
  <2> DEFINE r == Bind(c, <<c, "call">>)
  <2>1. r \in Request /\ r.who = <<c, "call">> /\ IsCall(r)
    BY RequestType, <1>t DEF Bind, IsCall
  <2>2. /\ pc[c] = "idle" /\ pc' = [pc EXCEPT ![c] = "subscribing"]
        /\ Submit(r, pipe, refused)
        /\ UNCHANGED <<stop, timer, listener, link, bound, patterns>>
    BY <1>1 DEF Call, brokerVars
  <2>3. \A x \in Els(pipe) \cup refused : x.who # r.who
    BY <1>t, <2>1, <2>2, WhoCalls
  <2> HIDE DEF r
  <2>4. /\ Sole(pipe', refused') /\ Els(pipe) \subseteq Els(pipe')
        /\ Els(pipe') \cup refused' \subseteq Els(pipe) \cup refused \cup {r}
    BY <1>t, <2>1, <2>2, <2>3, SoleSubmit
  <2>5. \A x \in Els(pipe') \cup refused' : Minded(x, stop')
    BY <1>t, <2>1, <2>2, <2>4 DEF Minded
  <2>6. ASSUME NEW d \in Calls PROVE Orderly(d)'
    BY <1>t, <2>2 DEF Orderly, TypeOK
  <2>7. Undoing(link', bound', stop', pipe')
    BY <1>t, <2>2, <2>4 DEF Tidy, Undoing
  <2> QED
    BY <2>4, <2>5, <2>6, <2>7 DEF Tidy
<1>2. ASSUME NEW c \in Calls, Subscribed(c)
      PROVE  Tidy(pipe', refused', stop', link', bound') /\ \A d \in Calls : Orderly(d)'
  <2> DEFINE r == Bind(c, <<c, "call">>)
             q == Consume(c, <<c, "call">>)
  <2>1. /\ r.key = c /\ r.who = <<c, "call">> /\ IsCall(r) /\ r.op = "bind" /\ Reply(r)
        /\ bound' = bound \cup {c} /\ timer' = timer \cup {c} /\ link' = link
    BY <1>2 DEF Subscribed, Bind, IsCall, Bound
  <2> HIDE DEF r
  <2>2. /\ Tail(pipe) \in Seq(Request) /\ Sole(Tail(pipe), refused)
        /\ \A x \in Els(Tail(pipe)) \cup refused : x.who # r.who
        /\ Els(pipe) = Els(Tail(pipe)) \cup {r} /\ link = "up"
    BY <1>t, <2>1, SoleServed
  <2>3. pc[c] = "subscribing"
    BY <1>t, <2>1, <2>2, CallPlace
  <2>4. CASE disposed
    <3>1. Fail(c, patterns, Tail(pipe), refused) /\ UNCHANGED listener
      BY <1>2, <2>4 DEF Subscribed
    <3>2. bound' \in SUBSET Calls
      BY <1>t, <2>1
    <3> QED
      BY <1>t, <2>1, <2>2, <2>3, <3>1, <3>2, FailTidy
  <2>5. CASE ~disposed
    <3>1. /\ pc' = [pc EXCEPT ![c] = "listening"]
          /\ listener' = listener \cup {c} /\ patterns' = patterns \cup {c}
          /\ Submit(q, Tail(pipe), refused)
          /\ UNCHANGED stop
      BY <1>2, <2>5 DEF Subscribed
    <3>2. q \in Request /\ q.who = r.who /\ IsCall(q)
      BY RequestType, <1>t, <2>1 DEF Consume, IsCall
    <3> HIDE DEF q
    <3>3. /\ Sole(pipe', refused') /\ Els(Tail(pipe)) \subseteq Els(pipe')
          /\ Els(pipe') \cup refused' \subseteq Els(Tail(pipe)) \cup refused \cup {q}
      BY <1>t, <2>2, <3>1, <3>2, SoleSubmit
    <3>4. \A x \in Els(pipe') \cup refused' : Minded(x, stop')
      <4>1. Minded(q, stop')
        BY <3>2 DEF Minded
      <4> QED
        BY <1>t, <2>2, <3>1, <3>3, <4>1
    <3>5. \A w \in Why : stop[c][w] = "none"
      BY <1>t, <2>3 DEF Orderly
    <3>6. ASSUME NEW d \in Calls PROVE Orderly(d)'
      <4>1. CASE d = c
        BY <1>t, <3>1, <3>5, <4>1 DEF Orderly, TypeOK
      <4>2. CASE d # c
        BY <1>t, <2>1, <3>1, <4>2 DEF Orderly, TypeOK
      <4> QED
        BY <4>1, <4>2
    <3>7. Undoing(link', bound', stop', pipe')
      <4>1. link' = "up"
        BY <2>1, <2>2
      <4>2. ASSUME NEW d \in bound', NEW v \in Why, stop'[d][v] # "none"
            PROVE  \E w \in Why : Unbind(d, <<d, w>>) \in Els(pipe')
        <5>1. d \in bound
          BY <2>1, <3>1, <3>5, <4>2
        <5>2. PICK w \in Why : Unbind(d, <<d, w>>) \in Els(pipe)
          BY <1>t, <3>1, <4>2, <5>1 DEF Tidy, Undoing
        <5>3. Unbind(d, <<d, w>>) # r
          BY <2>1 DEF Unbind
        <5> QED
          BY <2>2, <3>3, <5>2, <5>3
      <4> QED
        BY <4>1, <4>2 DEF Undoing
    <3> QED
      BY <3>3, <3>4, <3>6, <3>7 DEF Tidy
  <2> QED
    BY <2>4, <2>5
<1>3. ASSUME NEW c \in Calls, Listening(c)
      PROVE  Tidy(pipe', refused', stop', link', bound') /\ \A d \in Calls : Orderly(d)'
  <2> DEFINE r == Consume(c, <<c, "call">>)
  <2>1. /\ r.key = c /\ r.who = <<c, "call">> /\ IsCall(r) /\ r.op = "consume" /\ Reply(r)
        /\ pc' = [pc EXCEPT ![c] = "publishing"] /\ pipe' = Tail(pipe)
        /\ UNCHANGED <<refused, stop, timer, listener, link, bound, patterns>>
    BY <1>3 DEF Listening, Consume, IsCall, Consumed
  <2> HIDE DEF r
  <2>2. /\ Sole(Tail(pipe), refused) /\ Els(pipe) = Els(Tail(pipe)) \cup {r}
    BY <1>t, <2>1, SoleServed
  <2>3. ASSUME NEW d \in Calls PROVE Orderly(d)'
    <3>1. pc[c] = "listening"
      BY <1>t, <2>1, <2>2, CallPlace
    <3>2. Orderly(d) /\ pc'[d] = IF d = c THEN "publishing" ELSE pc[d]
      BY <1>t, <2>1 DEF TypeOK
    <3> QED
      BY <2>1, <3>1, <3>2 DEF Orderly
  <2>4. \A x \in Els(pipe') \cup refused' : Minded(x, stop')
    BY <1>t, <2>1, <2>2
  <2>5. Undoing(link', bound', stop', pipe')
    <3>1. \A d \in Calls, w \in Why : Unbind(d, <<d, w>>) # r
      BY <2>1 DEF Unbind
    <3> QED
      BY <1>t, <2>1, <2>2, <3>1 DEF Tidy, Undoing
  <2> QED
    BY <2>1, <2>2, <2>3, <2>4, <2>5 DEF Tidy
<1>4. ASSUME NEW c \in Calls, Publish(c)
      PROVE  Tidy(pipe', refused', stop', link', bound') /\ \A d \in Calls : Orderly(d)'
  <2>1. pc[c] = "publishing" /\ UNCHANGED <<timer, listener, link, bound>>
    BY <1>4 DEF Publish, brokerVars
  <2>2. CASE Fail(c, patterns, pipe, refused)
    BY <1>t, <2>1, <2>2, FailTidy
  <2>3. CASE ~Fail(c, patterns, pipe, refused)
    <3>1. pc' = [pc EXCEPT ![c] = "sent"] /\ UNCHANGED <<stop, pipe, refused, patterns>>
      BY <1>4, <2>3 DEF Publish
    <3>2. ASSUME NEW d \in Calls PROVE Orderly(d)'
      <4>1. Orderly(d) /\ pc'[d] = IF d = c THEN "sent" ELSE pc[d]
        BY <1>t, <3>1 DEF TypeOK
      <4>2. CASE d = c
        <5>1. stop[d]["error"] = "none"
          BY <2>1, <4>1, <4>2 DEF Orderly
        <5> QED
          BY <2>1, <3>1, <4>1, <4>2, <5>1 DEF Orderly
      <4>3. CASE d # c
        BY <2>1, <3>1, <4>1, <4>3 DEF Orderly
      <4> QED
        BY <4>2, <4>3
    <3> QED
      BY <1>t, <2>1, <3>1, <3>2
  <2> QED
    BY <2>2, <2>3
<1>5. ASSUME NEW c \in Calls, CallRefused(c)
      PROVE  Tidy(pipe', refused', stop', link', bound') /\ \A d \in Calls : Orderly(d)'
  <2>1. PICK r \in {Bind(c, <<c, "call">>), Consume(c, <<c, "call">>)} :
             r \in refused /\ Fail(c, patterns, pipe, refused \ {r})
    BY <1>5 DEF CallRefused
  <2>2. r.who = <<c, "call">> /\ UNCHANGED <<timer, listener, link, bound>>
    BY <1>5 DEF Bind, Consume, CallRefused, brokerVars
  <2>3. pc[c] # "failed"
    BY <1>t, <2>1, <2>2, WhoCalls
  <2>4. Sole(pipe, refused \ {r}) /\ refused \ {r} \in SUBSET Request
    BY <1>t DEF Sole
  <2> QED
    BY <1>t, <2>1, <2>2, <2>3, <2>4, FailTidy
<1>6. ASSUME NEW c \in Calls, Timeout(c)
      PROVE  Tidy(pipe', refused', stop', link', bound') /\ \A d \in Calls : Orderly(d)'
  <2>1. /\ c \in timer /\ timer' = timer \ {c} /\ listener' = listener \ {c}
        /\ StopWaiting(c, "timeout", patterns, pipe, refused)
        /\ UNCHANGED <<pc, link, bound>>
    BY <1>6 DEF Timeout, brokerVars
  <2>2. stop[c]["timeout"] = "none" /\ stop[c]["answer"] = "none"
        /\ pc[c] \notin {"idle", "subscribing"}
    BY <1>t, <2>1 DEF Orderly, CallOK
  <2>3. /\ Tidy(pipe', refused', stop', link, bound)
        /\ \A d \in Calls, w \in Why :
             stop'[d][w] = IF d = c /\ w = "timeout" THEN "unbinding" ELSE stop[d][w]
        /\ patterns' \subseteq patterns
        /\ link = "gone" \/ c \notin patterns'
    BY <1>t, <2>1, <2>2, BeginTidy
  <2>4. ASSUME NEW d \in Calls PROVE Orderly(d)'
    BY <1>t, <2>1, <2>2, <2>3 DEF Orderly
  <2> QED
    BY <2>1, <2>3, <2>4
<1>7. ASSUME NEW c \in Calls, Deliver(c)
      PROVE  Tidy(pipe', refused', stop', link', bound') /\ \A d \in Calls : Orderly(d)'
  <2>1. UNCHANGED <<pc, link, bound>>
    BY <1>7 DEF Deliver
  <2>2. CASE c \in listener
    <3>1. /\ timer' = timer \ {c} /\ listener' = listener \ {c}
          /\ StopWaiting(c, "answer", patterns, pipe, refused)
      BY <1>7, <2>2 DEF Deliver
    <3>2. stop[c]["timeout"] = "none" /\ stop[c]["answer"] = "none"
          /\ pc[c] \notin {"idle", "subscribing"}
      BY <1>t, <2>2 DEF Orderly, CallOK
    <3>3. /\ Tidy(pipe', refused', stop', link, bound)
          /\ \A d \in Calls, w \in Why :
               stop'[d][w] = IF d = c /\ w = "answer" THEN "unbinding" ELSE stop[d][w]
          /\ patterns' \subseteq patterns
          /\ link = "gone" \/ c \notin patterns'
      BY <1>t, <3>1, <3>2, BeginTidy
    <3>4. ASSUME NEW d \in Calls PROVE Orderly(d)'
      BY <1>t, <2>1, <3>1, <3>2, <3>3 DEF Orderly
    <3> QED
      BY <2>1, <3>3, <3>4
  <2>3. CASE c \notin listener
    <3>1. UNCHANGED <<timer, listener, stop, patterns, pipe, refused>>
      BY <1>7, <2>3 DEF Deliver
    <3> QED
      BY <2>1, <3>1, TidyStays
  <2> QED
    BY <2>2, <2>3
<1>8. ASSUME NEW c \in Calls, NEW why \in Why, Unsubscribed(c, why)
      PROVE  Tidy(pipe', refused', stop', link', bound') /\ \A d \in Calls : Orderly(d)'
  <2> DEFINE r == Unbind(c, <<c, why>>)
  <2>1. /\ Reply(r) /\ r.who = <<c, why>> /\ bound' = bound \ {c}
        /\ UNCHANGED <<pc, timer, listener, patterns, link>>
    BY <1>8 DEF Unsubscribed, Unbind, Unbound
  <2>2. /\ Tail(pipe) \in Seq(Request) /\ Sole(Tail(pipe), refused)
        /\ \A x \in Els(Tail(pipe)) \cup refused : x.who # r.who
        /\ Els(pipe) = Els(Tail(pipe)) \cup {r}
    BY <1>t, <2>1, SoleServed
  <2>3. stop[c][why] # "none"
    BY <1>t, <2>1, <2>2, WhoStops
  <2>4. CASE isListening
    <3>1. PICK g \in Calls : g = tag
      BY <1>t, <2>4 DEF isListening, TypeOK, ConnectorTypeOK
    <3> DEFINE q == Cancel(g, <<c, why>>)
    <3>2. /\ stop' = [stop EXCEPT ![c][why] = "cancelling"]
          /\ Submit(q, Tail(pipe), refused)
      BY <1>8, <2>4, <3>1 DEF Unsubscribed
    <3>3. q \in Request /\ ~IsCall(q) /\ q.who = <<c, why>> /\ q.op = "cancel"
      BY <3>1, RequestType DEF Cancel, IsCall
    <3>4. /\ \A d \in Calls, w \in Why :
               stop'[d][w] = IF d = c /\ w = why THEN "cancelling" ELSE stop[d][w]
          /\ \A d \in Calls : Orderly(d)'
      <4>1. "cancelling" \in StopStates \ {"none"}
        BY DEF StopStates
      <4> QED
        BY <2>1, <2>3, <3>2, <4>1, OrderlyMoves
    <3>5. Tidy(Tail(pipe), refused, stop', link, bound')
      BY <2>1, <2>2, <3>4, TidyServed
    <3> HIDE DEF q, r
    <3>6. /\ Sole(pipe', refused') /\ Els(Tail(pipe)) \subseteq Els(pipe')
          /\ Els(pipe') \cup refused' \subseteq Els(Tail(pipe)) \cup refused \cup {q}
      BY <1>t, <2>1, <2>2, <3>2, <3>3, SoleSubmit
    <3>7. Minded(q, stop')
      <4>1. stop'[c][why] = "cancelling"
        BY <3>4
      <4> QED
        BY <3>3, <4>1 DEF Minded
    <3>8. \A x \in Els(pipe') \cup refused' : Minded(x, stop')
      BY <3>5, <3>6, <3>7 DEF Tidy
    <3>9. Undoing(link', bound', stop', pipe')
      BY <2>1, <3>5, <3>6 DEF Tidy, Undoing
    <3> QED
      BY <3>4, <3>6, <3>8, <3>9 DEF Tidy
  <2>5. CASE ~isListening
    <3>1. stop' = [stop EXCEPT ![c][why] = "done"] /\ pipe' = Tail(pipe) /\ UNCHANGED refused
      BY <1>8, <2>5 DEF Unsubscribed, Stopped
    <3>2. /\ \A d \in Calls, w \in Why :
               stop'[d][w] = IF d = c /\ w = why THEN "done" ELSE stop[d][w]
          /\ \A d \in Calls : Orderly(d)'
      <4>1. "done" \in StopStates \ {"none"}
        BY DEF StopStates
      <4> QED
        BY <2>1, <2>3, <3>1, <4>1, OrderlyMoves
    <3>3. Tidy(Tail(pipe), refused, stop', link, bound')
      BY <2>1, <2>2, <3>2, TidyServed
    <3> QED
      BY <2>1, <3>1, <3>2, <3>3
  <2> QED
    BY <2>4, <2>5
<1>9. ASSUME NEW c \in Calls, NEW why \in Why, ConsumerStopped(c, why)
      PROVE  Tidy(pipe', refused', stop', link', bound') /\ \A d \in Calls : Orderly(d)'
  <2>1. PICK g \in Calls : /\ Reply(Cancel(g, <<c, why>>))
                           /\ Cancelled(Cancel(g, <<c, why>>))
                           /\ Stopped(c, why)
                           /\ pipe' = Tail(pipe)
                           /\ UNCHANGED <<pc, timer, listener, refused, patterns, link>>
    BY <1>9 DEF ConsumerStopped
  <2> DEFINE r == Cancel(g, <<c, why>>)
  <2>2. r.who = <<c, why>> /\ r.op = "cancel" /\ bound' = bound
    BY <2>1 DEF Cancel, Cancelled
  <2>3. /\ Sole(Tail(pipe), refused)
        /\ \A x \in Els(Tail(pipe)) \cup refused : x.who # r.who
        /\ Els(pipe) = Els(Tail(pipe)) \cup {r}
    BY <1>t, <2>1, SoleServed
  <2>4. stop[c][why] # "none" /\ stop' = [stop EXCEPT ![c][why] = "done"]
    BY <1>t, <2>1, <2>2, <2>3, WhoStops DEF Stopped
  <2>5. /\ \A d \in Calls, w \in Why :
             stop'[d][w] = IF d = c /\ w = why THEN "done" ELSE stop[d][w]
        /\ \A d \in Calls : Orderly(d)'
    <3>1. "done" \in StopStates \ {"none"}
      BY DEF StopStates
    <3> QED
      BY <2>1, <2>4, <3>1, OrderlyMoves
  <2>6. r # Unbind(c, <<c, why>>)
    BY <2>2 DEF Unbind
  <2> HIDE DEF r
  <2>7. Tidy(Tail(pipe), refused, stop', link, bound')
    BY <2>2, <2>3, <2>5, <2>6, TidyServed
  <2> QED
    BY <2>1, <2>5, <2>7
<1>10. ASSUME NEW c \in Calls, NEW why \in Why, StopRefused(c, why)
       PROVE  Tidy(pipe', refused', stop', link', bound') /\ \A d \in Calls : Orderly(d)'
  <2>1. PICK r \in {Unbind(c, <<c, why>>)} \cup {Cancel(g, <<c, why>>) : g \in Calls} :
          r \in refused /\ refused' = refused \ {r}
    BY <1>10 DEF StopRefused
  <2>2. /\ stop' = [stop EXCEPT ![c][why] = "failed"]
        /\ UNCHANGED <<pc, timer, listener, patterns, link, pipe, bound>>
    BY <1>10 DEF StopRefused, brokerVars
  <2>3. r.who = <<c, why>>
    BY DEF Unbind, Cancel
  <2>4. stop[c][why] # "none"
    BY <1>t, <2>1, <2>3, WhoStops
  <2>5. /\ \A d \in Calls, w \in Why :
             stop'[d][w] = IF d = c /\ w = why THEN "failed" ELSE stop[d][w]
        /\ \A d \in Calls : Orderly(d)'
    <3>1. "failed" \in StopStates \ {"none"}
      BY DEF StopStates
    <3> QED
      BY <2>2, <2>4, <3>1, OrderlyMoves
  <2>6. /\ Sole(pipe, refused \ {r}) /\ r \notin Els(pipe)
        /\ \A x \in Els(pipe) \cup (refused \ {r}) : x.who # r.who
    BY <1>t, <2>1 DEF Sole
  <2>7. Tidy(pipe, refused \ {r}, stop', link, bound)
    BY <2>1, <2>3, <2>5, <2>6, TidyServed
  <2> QED
    BY <2>1, <2>2, <2>5, <2>7
<1>11. ASSUME NEW c \in Calls, Respond(c) \/ Expire(c)
       PROVE  Tidy(pipe', refused', stop', link', bound') /\ \A d \in Calls : Orderly(d)'
  <2>1. /\ UNCHANGED <<pipe, refused, stop, pc, link, bound, patterns, timer>>
        /\ listener' \subseteq listener
    BY <1>11 DEF Respond, Routed, Expire, Taken, callVars, connectorVars, brokerVars
  <2> QED
    BY <2>1, TidyStays
<1>12. CASE Dispose
  <2>1. /\ UNCHANGED <<pipe, refused, stop, pc, link, bound, patterns, timer>>
        /\ listener' \subseteq listener
    BY <1>12 DEF Dispose, connectorVars, brokerVars
  <2> QED
    BY <2>1, TidyStays
<1>13. CASE LinkStep
  <2>1. UNCHANGED <<pc, stop, timer, listener, patterns>>
    BY <1>13 DEF LinkStep, callVars
  <2>2. /\ link # "gone" /\ bound' = {}
        /\ \/ link' = "up" /\ bound = {} /\ UNCHANGED <<pipe, refused>>
           \/ pipe' = <<>> /\ refused' = refused \cup Els(pipe)
    <3>1. CASE Open
      BY <1>t, <3>1 DEF Open
    <3>2. CASE Lose \/ Disconnect
      BY <3>2 DEF Lose, Disconnect, AllRefused, InFlight, Els, QueueDeleted
    <3>3. CASE OpenFails
      BY <1>t, <3>3 DEF OpenFails, AllRefused, InFlight, Els
    <3> QED
      BY <1>13, <3>1, <3>2, <3>3 DEF LinkStep
  <2>3. ASSUME NEW d \in Calls PROVE Orderly(d)'
    BY <1>t, <2>1, <2>2 DEF Orderly
  <2>4. Undoing(link', bound', stop', pipe')
    BY <2>2 DEF Undoing
  <2>5. CASE UNCHANGED <<pipe, refused>>
    BY <1>t, <2>1, <2>3, <2>4, <2>5 DEF Tidy
  <2>6. CASE pipe' = <<>> /\ refused' = refused \cup Els(pipe)
    <3>1. Els(pipe') = {} /\ DOMAIN pipe' = {}
      BY <2>6 DEF Els
    <3>2. \A x, y \in Els(pipe) : x.who = y.who => x = y
      BY <1>t DEF Sole, Els
    <3>3. Sole(pipe', refused')
      BY <1>t, <2>6, <3>1, <3>2 DEF Sole
    <3> QED
      BY <1>t, <2>1, <2>3, <2>4, <2>6, <3>1, <3>3 DEF Tidy
  <2> QED
    BY <2>2, <2>5, <2>6
<1>14. CASE UNCHANGED vars
  BY <1>14, TidyStays DEF vars, callVars, connectorVars, brokerVars
<1> QED
  BY <1>1, <1>2, <1>3, <1>4, <1>5, <1>6, <1>7, <1>8, <1>9, <1>10, <1>11,
     <1>12, <1>13, <1>14 DEF Next, CallStep

LEMMA TidyAlways == Spec => [](IInv /\ SInv)
<1>1. Init => IInv /\ SInv
  BY InvInit, TidyInit
<1>2. IInv /\ SInv /\ [Next]_vars => (IInv /\ SInv)'
  BY InvStep, TidyStep
<1> QED
  BY <1>1, <1>2, PTL DEF Spec

\* A call that has begun to stop and has nothing under way leaves no binding and
\* no listed pattern behind: its topic is bound only while a request to unbind
\* it is on its way, and unsubscribe has dropped its pattern already
\* (MediateRpcCaller.ts:139-190).
THEOREM NothingLeftBehind == Spec => []NoOrphanBinding
<1>1. IInv /\ SInv => NoOrphanBinding
  <2> SUFFICES ASSUME IInv, SInv, NEW c \in Calls, StopBegun(c), ~Busy(c)
               PROVE  c \notin bound /\ (link = "gone" \/ c \notin patterns)
    BY DEF NoOrphanBinding
  <2>1. ASSUME c \in bound PROVE FALSE
    <3>1. PICK w \in Why : Unbind(c, <<c, w>>) \in Els(pipe)
      BY <2>1 DEF SInv, Tidy, Undoing, StopBegun
    <3>2. Unbind(c, <<c, w>>).who = <<c, w>>
      BY DEF Unbind
    <3>3. stop[c][w] \in {"unbinding", "cancelling"}
      BY <3>1, <3>2, WhoStops DEF IInv, SInv
    <3> QED
      BY <3>3 DEF Busy
  <2> QED
    BY <2>1 DEF SInv, Orderly, StopBegun
<1> QED
  BY <1>1, TidyAlways, PTL

-----------------------------------------------------------------------------
\* The calls whose consumer has been started, and those that have stopped.
Started(p) == {c \in Calls : p[c] \in {"publishing", "sent"}}
Finished(st) == {c \in Calls : \E w \in Why : st[c][w] = "done"}

\* The request of c to consume is on its way, ahead of any of its stopWaiting.
First(s, c) ==
    \E i \in DOMAIN s : /\ s[i] = Consume(c, <<c, "call">>)
                        /\ \A j \in DOMAIN s, w \in Why : s[j].who = <<c, w>> => i < j

\* As long as nothing goes wrong there is a consumer for every call that has
\* started one and has not stopped, though not the one that it started: a call
\* cancels one at most, and not before it has started its own.
Calm(p, st, s, left, cs) ==
    /\ left = {}
    /\ IsFiniteSet(Started(p))
    /\ cs \subseteq Started(p)
    /\ \A c \in Calls, w \in Why : st[c][w] \in {"cancelling", "done"} => c \in Started(p)
    /\ \A c \in Calls : p[c] = "listening" => First(s, c)
    /\ Cardinality(Started(p) \ Finished(st)) <= Cardinality(cs)

CalmInv == Untroubled => Calm(pc, stop, pipe, refused, consumers)

LEMMA FirstAppend ==
    ASSUME NEW s \in Seq(Request), NEW r \in Request, NEW c \in Calls, First(s, c)
    PROVE  First(Append(s, r), c)
<1>1. PICK i \in DOMAIN s : /\ s[i] = Consume(c, <<c, "call">>)
                            /\ \A j \in DOMAIN s, w \in Why : s[j].who = <<c, w>> => i < j
  BY DEF First
<1>2. /\ Len(s) \in Nat /\ DOMAIN s = 1..Len(s) /\ DOMAIN Append(s, r) = 1..(Len(s) + 1)
      /\ \A j \in 1..Len(s) : Append(s, r)[j] = s[j]
  OBVIOUS
<1>3. i \in DOMAIN Append(s, r) /\ Append(s, r)[i] = Consume(c, <<c, "call">>)
  BY <1>1, <1>2
<1>4. ASSUME NEW j \in DOMAIN Append(s, r), NEW w \in Why, Append(s, r)[j].who = <<c, w>>
      PROVE  i < j
  <2>1. CASE j \in 1..Len(s)
    BY <1>1, <1>2, <1>4, <2>1
  <2>2. CASE j = Len(s) + 1
    BY <1>2, <2>2
  <2> QED
    BY <1>2, <2>1, <2>2
<1> QED
  BY <1>3, <1>4 DEF First

LEMMA FirstNew ==
    ASSUME NEW s \in Seq(Request), NEW c \in Calls,
           \A x \in Els(s), w \in Why : x.who # <<c, w>>
    PROVE  First(Append(s, Consume(c, <<c, "call">>)), c)
<1> DEFINE r == Consume(c, <<c, "call">>)
           n == Len(s) + 1
           a == Append(s, r)
<1>1. r.who = <<c, "call">> /\ r \in Request
  BY RequestType DEF Consume, Why
<1>2. r = Consume(c, <<c, "call">>)
  OBVIOUS
<1> HIDE DEF r
<1>3. /\ Len(s) \in Nat /\ DOMAIN s = 1..Len(s) /\ DOMAIN a = 1..n
      /\ \A j \in 1..Len(s) : a[j] = s[j]
      /\ a[n] = r /\ n \in 1..n
  OBVIOUS
<1> HIDE DEF a
<1>4. ASSUME NEW j \in 1..n, NEW w \in Why, a[j].who = <<c, w>>
      PROVE  FALSE
  <2>1. CASE j \in 1..Len(s)
    BY <1>3, <1>4, <2>1 DEF Els
  <2>2. CASE j = n
    BY <1>1, <1>3, <1>4, <2>2 DEF Why
  <2> QED
    BY <1>3, <2>1, <2>2
<1> HIDE DEF n
<1>5. First(a, c)
  <2>1. n \in DOMAIN a /\ a[n] = Consume(c, <<c, "call">>)
    BY <1>2, <1>3
  <2>2. \A j \in DOMAIN a, w \in Why : a[j].who # <<c, w>>
    BY <1>3, <1>4
  <2> QED
    BY <2>1, <2>2 DEF First
<1> QED
  BY <1>2, <1>5 DEF a

LEMMA FirstTail ==
    ASSUME NEW s \in Seq(Request), s # <<>>, NEW c \in Calls, First(s, c)
    PROVE  /\ Head(s) # Consume(c, <<c, "call">>) => First(Tail(s), c)
           /\ \A w \in Why : Head(s).who # <<c, w>>
<1>1. PICK i \in DOMAIN s : /\ s[i] = Consume(c, <<c, "call">>)
                            /\ \A j \in DOMAIN s, w \in Why : s[j].who = <<c, w>> => i < j
  BY DEF First
<1>2. /\ Len(s) \in Nat /\ Len(s) >= 1 /\ Tail(s) \in Seq(Request) /\ DOMAIN s = 1..Len(s)
      /\ DOMAIN Tail(s) = 1..(Len(s) - 1)
      /\ \A j \in 1..(Len(s) - 1) : Tail(s)[j] = s[j + 1]
      /\ Head(s) = s[1]
  OBVIOUS
<1>3. ASSUME Head(s) # Consume(c, <<c, "call">>) PROVE First(Tail(s), c)
  <2>1. i # 1 /\ i - 1 \in DOMAIN Tail(s) /\ Tail(s)[i - 1] = s[i]
    BY <1>1, <1>2, <1>3
  <2>2. ASSUME NEW j \in DOMAIN Tail(s), NEW w \in Why, Tail(s)[j].who = <<c, w>>
        PROVE  i - 1 < j
    <3>1. j + 1 \in DOMAIN s /\ s[j + 1].who = <<c, w>>
      BY <1>2, <2>2
    <3>2. i < j + 1
      BY <1>1, <3>1
    <3> QED
      BY <1>2, <3>2
  <2> QED
    BY <1>1, <2>1, <2>2 DEF First
<1>4. \A w \in Why : Head(s).who # <<c, w>>
  <2>1. 1 \in DOMAIN s /\ ~(i < 1)
    BY <1>2
  <2> QED
    BY <1>1, <1>2, <2>1
<1> QED
  BY <1>3, <1>4

\* What has gone wrong remains so.
LEMMA TroubleStays ==
    ASSUME IInv, [Next]_vars, Untroubled'
    PROVE  Untroubled
<1>t. TypeOK /\ RequestsExpected /\ Apart(pipe, refused)
  BY DEF IInv
<1>1. losses' = 0 /\ link' \in {"down", "up"} /\ \A d \in Calls : pc'[d] # "failed"
  BY DEF Untroubled
<1>2. \A c \in Calls : CallStep(c) => link' = link /\ losses' = losses
  BY DEF CallStep, Subscribed, Listening, Publish, CallRefused, Unsubscribed, ConsumerStopped,
         StopRefused
<1>3. \/ link' = link /\ losses' = losses
      \/ LinkStep
  BY <1>2 DEF Next, Call, Timeout, Deliver, Respond, Routed, Expire, Dispose,
          vars, connectorVars
<1>4. losses = 0 /\ link \in {"down", "up"}
  <2>1. CASE LinkStep
    <3>1. losses \in Nat
      BY MaxLossAssumption DEF IInv, TypeOK, ConnectorTypeOK
    <3> QED
      BY <1>1, <2>1, <3>1 DEF LinkStep, Open, Lose, OpenFails, Disconnect
  <2> QED
    BY <1>1, <1>3, <2>1
<1>5. ASSUME NEW d \in Calls, pc[d] = "failed" PROVE FALSE
  <2>1. ASSUME NEW c \in Calls, NEW v, pc' = [pc EXCEPT ![c] = v], c = d => pc[c] # "failed"
        PROVE  FALSE
    BY <1>1, <1>5, <2>1 DEF IInv, TypeOK
  <2>2. ASSUME NEW c \in Calls, Call(c) PROVE FALSE
    BY <2>1, <2>2 DEF Call
  <2>3. ASSUME NEW c \in Calls, Subscribed(c) PROVE FALSE
    <3>1. Bind(c, <<c, "call">>) \in Els(pipe) /\ IsCall(Bind(c, <<c, "call">>))
          /\ Bind(c, <<c, "call">>).key = c
      BY <1>t, <2>3, ServedFacts DEF Subscribed, Bind, IsCall
    <3>2. pc[c] # "failed"
      BY <1>t, <3>1, CallPlace
    <3> QED
      BY <2>1, <2>3, <3>2 DEF Subscribed, Fail
  <2>4. ASSUME NEW c \in Calls, Listening(c) PROVE FALSE
    <3>1. Consume(c, <<c, "call">>) \in Els(pipe) /\ IsCall(Consume(c, <<c, "call">>))
          /\ Consume(c, <<c, "call">>).key = c
      BY <1>t, <2>4, ServedFacts DEF Listening, Consume, IsCall
    <3>2. pc[c] # "failed"
      BY <1>t, <3>1, CallPlace
    <3> QED
      BY <2>1, <2>4, <3>2 DEF Listening
  <2>5. ASSUME NEW c \in Calls, Publish(c) PROVE FALSE
    BY <2>1, <2>5 DEF Publish, Fail
  <2>6. ASSUME NEW c \in Calls, CallRefused(c) PROVE FALSE
    <3>1. pc' = [pc EXCEPT ![c] = "failed"]
      BY <2>6 DEF CallRefused, Fail
    <3> QED
      BY <1>1, <3>1 DEF IInv, TypeOK
  <2>7. pc' # pc
    BY <1>1, <1>5
  <2> QED
    BY <2>2, <2>3, <2>4, <2>5, <2>6, <2>7 DEF Next, CallStep, Timeout, Deliver, Unsubscribed,
       ConsumerStopped, StopRefused, Respond, Expire, Dispose, LinkStep, vars, callVars
<1> QED
  BY <1>4, <1>5 DEF Untroubled

\* stopWaiting starts while nothing has gone wrong.
LEMMA CalmBegins ==
    ASSUME IInv, SInv, Calm(pc, stop, pipe, refused, consumers), Usable,
           NEW c \in Calls, NEW why \in Why, stop[c][why] = "none",
           StopWaiting(c, why, patterns, pipe, refused)
    PROVE  Calm(pc, stop', pipe', refused', consumers)
<1> DEFINE r == Unbind(c, <<c, why>>)
<1>1. r \in Request /\ pipe \in Seq(Request)
  BY RequestType DEF IInv, TypeOK, ConnectorTypeOK
<1>2. pipe' = Append(pipe, r) /\ refused' = refused
  BY DEF StopWaiting, Submit
<1>3. \A d \in Calls, w \in Why :
        stop'[d][w] = IF d = c /\ w = why THEN "unbinding" ELSE stop[d][w]
  BY DEF StopWaiting, IInv, TypeOK
<1>4. Finished(stop') = Finished(stop)
  BY <1>3 DEF Finished
<1>5. \A d \in Calls : pc[d] = "listening" => First(pipe', d)
  BY <1>1, <1>2, FirstAppend DEF Calm
<1>6. \A d \in Calls, w \in Why : stop'[d][w] \in {"cancelling", "done"} => d \in Started(pc)
  BY <1>3 DEF Calm
<1> QED
  BY <1>2, <1>4, <1>5, <1>6 DEF Calm

\* A run of stopWaiting is served: its call has started its consumer.
LEMMA CalmServed ==
    ASSUME IInv, SInv, Untroubled, Calm(pc, stop, pipe, refused, consumers),
           NEW c \in Calls, NEW why \in Why, NEW r, r.who = <<c, why>>, Reply(r)
    PROVE  /\ Tail(pipe) \in Seq(Request) /\ stop[c][why] # "none"
           /\ c \in Started(pc)
           /\ \A d \in Calls : pc[d] = "listening" => First(Tail(pipe), d)
           /\ \A w \in Why \ {why} : stop[c][w] = "none"
           /\ ~IsCall(r)
           /\ \/ r = Unbind(c, <<c, why>>) /\ stop[c][why] = "unbinding"
              \/ r.op = "cancel" /\ stop[c][why] = "cancelling"
<1>1. /\ TypeOK /\ Sole(pipe, refused) /\ Orderly(c) /\ {"answer", "timeout", "error"} = Why
      /\ pipe \in Seq(Request) /\ pipe # <<>> /\ r = Head(pipe)
  BY DEF IInv, SInv, Tidy, TypeOK, ConnectorTypeOK, Why, Reply
<1>2. Tail(pipe) \in Seq(Request) /\ r \in Els(pipe)
  BY <1>1, SoleServed
<1>3. /\ ~IsCall(r)
      /\ \/ r = Unbind(c, <<c, why>>) /\ stop[c][why] = "unbinding"
         \/ r.op = "cancel" /\ stop[c][why] = "cancelling"
  BY <1>2, WhoStops DEF IInv, SInv
<1>4. \A d \in Calls : r # Consume(d, <<d, "call">>)
  BY <1>3 DEF Consume, IsCall
<1>5. ASSUME NEW d \in Calls, pc[d] = "listening" PROVE First(Tail(pipe), d)
  BY <1>1, <1>4, <1>5, FirstTail DEF Calm
<1>6. pc[c] # "listening"
  BY <1>1, FirstTail DEF Calm
<1>7. pc[c] \notin {"idle", "subscribing", "failed"}
  BY <1>1, <1>3 DEF Orderly, Untroubled
<1>8. c \in Started(pc)
  BY <1>1, <1>6, <1>7 DEF Started, TypeOK, Places
<1>9. \A w \in Why \ {why} : stop[c][w] = "none"
  BY <1>1, <1>3, <1>7 DEF Orderly
<1> QED
  BY <1>2, <1>3, <1>5, <1>8, <1>9

LEMMA CalmCalls ==
    ASSUME IInv, SInv, Untroubled, Untroubled', Calm(pc, stop, pipe, refused, consumers),
           NEW c \in Calls, Call(c) \/ Subscribed(c) \/ Listening(c) \/ Publish(c) \/ CallRefused(c)
    PROVE  Calm(pc', stop', pipe', refused', consumers')
<1>t. /\ TypeOK /\ RequestsExpected /\ pipe \in Seq(Request) /\ Usable /\ Sole(pipe, refused)
      /\ refused \in SUBSET Request /\ Tidy(pipe, refused, stop, link, bound)
  BY DEF IInv, SInv, Tidy, TypeOK, ConnectorTypeOK, Untroubled, Usable
<1>f. pc' # [pc EXCEPT ![c] = "failed"]
  BY <1>t DEF Untroubled, TypeOK
<1>1. CASE Call(c)
  <2>1. /\ pc[c] = "idle" /\ pc' = [pc EXCEPT ![c] = "subscribing"]
        /\ pipe' = Append(pipe, Bind(c, <<c, "call">>))
        /\ UNCHANGED <<refused, stop, consumers>>
    BY <1>1, <1>t DEF Call, Submit, brokerVars
  <2>2. \A d \in Calls : pc'[d] = IF d = c THEN "subscribing" ELSE pc[d]
    BY <1>t, <2>1 DEF TypeOK
  <2>3. Started(pc') = Started(pc)
    BY <2>1, <2>2 DEF Started
  <2>4. Bind(c, <<c, "call">>) \in Request
    BY <1>t, RequestType DEF Why
  <2>5. \A d \in Calls : pc'[d] = "listening" => First(pipe', d)
    BY <1>t, <2>1, <2>2, <2>4, FirstAppend DEF Calm
  <2> QED
    BY <2>1, <2>3, <2>5 DEF Calm
<1>2. CASE Subscribed(c)
  <2> DEFINE r == Bind(c, <<c, "call">>)
             q == Consume(c, <<c, "call">>)
  <2>1. /\ r.key = c /\ IsCall(r) /\ r.op = "bind" /\ Reply(r) /\ r = Head(pipe) /\ pipe # <<>>
        /\ pc' = [pc EXCEPT ![c] = "listening"] /\ pipe' = Append(Tail(pipe), q)
        /\ UNCHANGED <<refused, stop, consumers>>
    BY <1>2, <1>t, <1>f DEF Subscribed, Bind, IsCall, Bound, Fail, Submit, Reply
  <2>2. q \in Request /\ q.who = <<c, "call">>
    BY <1>t, RequestType DEF Why, Consume
  <2>3. \A d \in Calls : r # Consume(d, <<d, "call">>)
    BY DEF Bind, Consume
  <2> HIDE DEF r
  <2>4. /\ Tail(pipe) \in Seq(Request) /\ Els(pipe) = Els(Tail(pipe)) \cup {r}
    BY <1>t, <2>1, SoleServed
  <2>5. pc[c] = "subscribing"
    BY <1>t, <2>1, <2>4, CallPlace
  <2>6. \A d \in Calls : pc'[d] = IF d = c THEN "listening" ELSE pc[d]
    BY <1>t, <2>1 DEF TypeOK
  <2>7. Started(pc') = Started(pc)
    BY <2>5, <2>6 DEF Started
  <2>8. \A x \in Els(Tail(pipe)), w \in Why : x.who # <<c, w>>
    <3>1. \A w \in Why : stop[c][w] = "none"
      BY <2>5 DEF SInv, Orderly
    <3>2. ASSUME NEW x \in Els(Tail(pipe)), NEW w \in Why, x.who = <<c, w>> PROVE FALSE
      <4>1. x \in Els(pipe) \cup refused
        BY <2>4, <3>2
      <4>2. stop[c][w] \in {"unbinding", "cancelling"}
        BY <1>t, <3>2, <4>1, WhoStops
      <4> QED
        BY <3>1, <4>2
    <3> QED
      BY <3>2
  <2>9. First(pipe', c)
    BY <2>1, <2>4, <2>8, FirstNew
  <2>10. ASSUME NEW d \in Calls, d # c, pc[d] = "listening" PROVE First(pipe', d)
    <3>1. First(Tail(pipe), d)
      BY <1>t, <2>1, <2>3, <2>10, FirstTail DEF Calm
    <3> HIDE DEF q
    <3> QED
      BY <2>1, <2>2, <2>4, <3>1, FirstAppend
  <2> QED
    BY <2>1, <2>6, <2>7, <2>9, <2>10 DEF Calm
<1>3. CASE Listening(c)
  <2> DEFINE r == Consume(c, <<c, "call">>)
  <2>1. /\ r.key = c /\ IsCall(r) /\ r.op = "consume" /\ Reply(r) /\ r = Head(pipe) /\ pipe # <<>>
        /\ pc' = [pc EXCEPT ![c] = "publishing"] /\ pipe' = Tail(pipe)
        /\ consumers' = consumers \cup {c} /\ UNCHANGED <<refused, stop>>
    BY <1>3 DEF Listening, Consume, IsCall, Consumed, Reply
  <2>2. \A d \in Calls : d # c => r # Consume(d, <<d, "call">>)
    BY DEF Consume
  <2> HIDE DEF r
  <2>3. r \in Els(pipe)
    BY <1>t, <2>1, SoleServed
  <2>4. pc[c] = "listening"
    BY <1>t, <2>1, <2>3, CallPlace
  <2>5. \A d \in Calls : pc'[d] = IF d = c THEN "publishing" ELSE pc[d]
    BY <1>t, <2>1 DEF TypeOK
  <2>6. Started(pc') = Started(pc) \cup {c} /\ c \notin Started(pc)
    BY <2>4, <2>5 DEF Started
  <2>7. ASSUME NEW d \in Calls, pc'[d] = "listening" PROVE First(pipe', d)
    <3>1. d # c /\ pc[d] = "listening"
      BY <2>5, <2>7
    <3>2. First(pipe, d) /\ Head(pipe) # Consume(d, <<d, "call">>)
      BY <2>1, <2>2, <3>1 DEF Calm
    <3> QED
      BY <1>t, <2>1, <3>2, FirstTail
  <2>8. c \notin Finished(stop) /\ c \notin consumers
    BY <2>6 DEF Calm, Finished
  <2> DEFINE S == Started(pc) \ Finished(stop)
  <2>9. /\ IsFiniteSet(S) /\ IsFiniteSet(consumers)
        /\ c \notin S /\ Started(pc') \ Finished(stop') = S \cup {c}
    <3>1. IsFiniteSet(S) /\ IsFiniteSet(consumers)
      BY FS_Subset DEF Calm
    <3> QED
      BY <2>1, <2>6, <2>8, <3>1
  <2> HIDE DEF S
  <2>10. /\ Cardinality(S \cup {c}) = Cardinality(S) + 1
         /\ Cardinality(consumers \cup {c}) = Cardinality(consumers) + 1
         /\ Cardinality(S) \in Nat /\ Cardinality(consumers) \in Nat
    BY <2>8, <2>9, FS_AddElement, FS_CardinalityType
  <2>11. Cardinality(Started(pc') \ Finished(stop')) <= Cardinality(consumers')
    <3>1. Cardinality(S) <= Cardinality(consumers)
      BY DEF Calm, S
    <3>2. Cardinality(S) + 1 <= Cardinality(consumers) + 1
      BY <2>10, <3>1
    <3>3. Cardinality(Started(pc') \ Finished(stop')) = Cardinality(S) + 1
      BY <2>9, <2>10
    <3>4. Cardinality(consumers') = Cardinality(consumers) + 1
      BY <2>1, <2>10
    <3> QED
      BY <3>2, <3>3, <3>4
  <2>12. IsFiniteSet(Started(pc'))
    BY <2>6, FS_AddElement DEF Calm
  <2> QED
    BY <2>1, <2>6, <2>7, <2>11, <2>12 DEF Calm
<1>4. CASE Publish(c)
  <2>1. pc[c] = "publishing" /\ pc' = [pc EXCEPT ![c] = "sent"]
        /\ UNCHANGED <<pipe, refused, stop, consumers>>
    BY <1>4, <1>f DEF Publish, Fail, brokerVars
  <2>2. \A d \in Calls : pc'[d] = IF d = c THEN "sent" ELSE pc[d]
    BY <1>t, <2>1 DEF TypeOK
  <2>3. Started(pc') = Started(pc)
    BY <2>1, <2>2 DEF Started
  <2>4. \A d \in Calls : pc'[d] = "listening" => First(pipe', d)
    BY <2>1, <2>2 DEF Calm
  <2> QED
    BY <2>1, <2>3, <2>4 DEF Calm
<1>5. CASE CallRefused(c)
  BY <1>5, <1>f DEF CallRefused, Fail
<1> QED
  BY <1>1, <1>2, <1>3, <1>4, <1>5

LEMMA CalmStops ==
    ASSUME IInv, SInv, Untroubled, Calm(pc, stop, pipe, refused, consumers),
           NEW c \in Calls, NEW why \in Why,
           Unsubscribed(c, why) \/ ConsumerStopped(c, why) \/ StopRefused(c, why)
    PROVE  Calm(pc', stop', pipe', refused', consumers')
<1>t. TypeOK /\ Usable /\ tag \in Calls \cup {NoTag}
  BY DEF IInv, TypeOK, ConnectorTypeOK, Untroubled, Usable
<1> DEFINE S == Started(pc) \ Finished(stop)
<1>s. /\ IsFiniteSet(S) /\ IsFiniteSet(consumers)
      /\ Cardinality(S) \in Nat /\ Cardinality(consumers) \in Nat
      /\ Cardinality(S) <= Cardinality(consumers)
  BY FS_Subset, FS_CardinalityType DEF Calm
<1>m. ASSUME NEW st \in StopStates, stop' = [stop EXCEPT ![c][why] = st]
      PROVE  \A d \in Calls, w \in Why :
               stop'[d][w] = IF d = c /\ w = why THEN st ELSE stop[d][w]
  BY <1>t, <1>m DEF TypeOK
<1>1. CASE Unsubscribed(c, why)
  <2> DEFINE r == Unbind(c, <<c, why>>)
             q == Cancel(tag, <<c, why>>)
  <2>1. /\ Reply(r) /\ UNCHANGED <<pc, consumers>>
        /\ \/ /\ tag \in Calls /\ stop' = [stop EXCEPT ![c][why] = "cancelling"]
              /\ pipe' = Append(Tail(pipe), q) /\ refused' = refused
           \/ /\ stop' = [stop EXCEPT ![c][why] = "done"]
              /\ pipe' = Tail(pipe) /\ refused' = refused
    BY <1>1, <1>t DEF Unsubscribed, Unbound, Submit, Stopped, isListening
  <2>2. r.who = <<c, why>> /\ r.op = "unbind"
    BY DEF Unbind
  <2> HIDE DEF r
  <2>3. /\ Tail(pipe) \in Seq(Request) /\ c \in Started(pc)
        /\ \A d \in Calls : pc[d] = "listening" => First(Tail(pipe), d)
        /\ stop[c][why] = "unbinding"
    BY <2>1, <2>2, CalmServed
  <2>4. CASE /\ tag \in Calls /\ stop' = [stop EXCEPT ![c][why] = "cancelling"]
             /\ pipe' = Append(Tail(pipe), q) /\ refused' = refused
    <3>1. q \in Request
      BY <2>4, RequestType
    <3> HIDE DEF q
    <3>2. \A d \in Calls : pc'[d] = "listening" => First(pipe', d)
      BY <2>1, <2>3, <2>4, <3>1, FirstAppend
    <3>3. \A d \in Calls, w \in Why :
            stop'[d][w] = IF d = c /\ w = why THEN "cancelling" ELSE stop[d][w]
      BY <1>m, <2>4 DEF StopStates
    <3>4. Finished(stop') = Finished(stop)
      BY <2>3, <3>3 DEF Finished
    <3>5. \A d \in Calls, w \in Why : stop'[d][w] \in {"cancelling", "done"} => d \in Started(pc)
      BY <2>3, <3>3 DEF Calm
    <3> QED
      BY <2>1, <2>4, <3>2, <3>4, <3>5 DEF Calm
  <2>5. CASE /\ stop' = [stop EXCEPT ![c][why] = "done"]
             /\ pipe' = Tail(pipe) /\ refused' = refused
    <3>3. \A d \in Calls, w \in Why :
            stop'[d][w] = IF d = c /\ w = why THEN "done" ELSE stop[d][w]
      BY <1>m, <2>5 DEF StopStates
    <3>4. Started(pc) \ Finished(stop') \subseteq S
      BY <3>3 DEF Finished
    <3> DEFINE T == Started(pc) \ Finished(stop')
    <3>5. Cardinality(T) <= Cardinality(S) /\ Cardinality(T) \in Nat
      <4> HIDE DEF S, T
      <4> QED
        BY <1>s, <3>4, FS_Subset, FS_CardinalityType DEF T
    <3>6. Cardinality(T) <= Cardinality(consumers)
      BY <1>s, <3>5
    <3>7. \A d \in Calls, w \in Why : stop'[d][w] \in {"cancelling", "done"} => d \in Started(pc)
      BY <2>3, <3>3 DEF Calm
    <3> QED
      BY <2>1, <2>3, <2>5, <3>6, <3>7 DEF Calm
  <2> QED
    BY <2>1, <2>4, <2>5
<1>2. CASE ConsumerStopped(c, why)
  <2>0. PICK g \in Calls : /\ Reply(Cancel(g, <<c, why>>)) /\ Cancelled(Cancel(g, <<c, why>>))
                           /\ Stopped(c, why) /\ pipe' = Tail(pipe)
                           /\ UNCHANGED <<pc, refused>>
    BY <1>2 DEF ConsumerStopped
  <2> DEFINE r == Cancel(g, <<c, why>>)
  <2>1. /\ Reply(r) /\ UNCHANGED <<pc, refused>> /\ pipe' = Tail(pipe)
        /\ consumers' = consumers \ {g} /\ stop' = [stop EXCEPT ![c][why] = "done"]
        /\ r.who = <<c, why>> /\ r.op = "cancel"
    BY <2>0 DEF Cancelled, Stopped, Cancel
  <2> HIDE DEF r
  <2>2. /\ c \in Started(pc) /\ stop[c][why] # "none"
        /\ \A w \in Why \ {why} : stop[c][w] = "none"
        /\ \A d \in Calls : pc[d] = "listening" => First(Tail(pipe), d)
        /\ r = Unbind(c, <<c, why>>) \/ stop[c][why] = "cancelling"
    BY <2>1, CalmServed
  <2>3. stop[c][why] = "cancelling"
    BY <2>1, <2>2 DEF Unbind
  <2>4. \A d \in Calls, w \in Why :
          stop'[d][w] = IF d = c /\ w = why THEN "done" ELSE stop[d][w]
    BY <1>m, <2>1 DEF StopStates
  <2>5. c \in S
    BY <2>2, <2>3 DEF Finished
  <2>6. Started(pc) \ Finished(stop') = S \ {c}
    BY <2>4 DEF Finished
  <2> HIDE DEF S
  <2>7. Cardinality(S \ {c}) = Cardinality(S) - 1
    BY <1>s, <2>5, FS_RemoveElement
  <2>8. Cardinality(consumers \ {g}) >= Cardinality(consumers) - 1
    <3>1. CASE g \in consumers
      <4>1. Cardinality(consumers \ {g}) = Cardinality(consumers) - 1
        BY <1>s, <3>1, FS_RemoveElement
      <4> QED
        BY <1>s, <4>1
    <3>2. CASE g \notin consumers
      <4>1. consumers \ {g} = consumers
        BY <3>2
      <4> QED
        BY <1>s, <4>1
    <3> QED
      BY <3>1, <3>2
  <2>9. Cardinality(S \ {c}) <= Cardinality(consumers \ {g})
    <3>1. Cardinality(consumers \ {g}) \in Nat
      BY <1>s, FS_Subset, FS_CardinalityType
    <3> QED
      BY <1>s, <2>7, <2>8, <3>1
  <2>10. \A d \in Calls, w \in Why : stop'[d][w] \in {"cancelling", "done"} => d \in Started(pc)
    BY <2>2, <2>4 DEF Calm
  <2>11. consumers' \subseteq Started(pc)
    BY <2>1 DEF Calm
  <2>12. Cardinality(Started(pc) \ Finished(stop')) <= Cardinality(consumers')
    BY <2>1, <2>6, <2>9
  <2> QED
    BY <2>1, <2>2, <2>10, <2>11, <2>12 DEF Calm
<1>3. CASE StopRefused(c, why)
  BY <1>3 DEF StopRefused, Calm
<1> QED
  BY <1>1, <1>2, <1>3

LEMMA CalmStep == IInv /\ SInv /\ CalmInv /\ [Next]_vars => CalmInv'
<1> SUFFICES ASSUME IInv, SInv, CalmInv, [Next]_vars, Untroubled'
             PROVE  Calm(pc', stop', pipe', refused', consumers')
  BY DEF CalmInv, Calm, Started, Finished, First, Consume
<1>u. Untroubled
  BY TroubleStays
<1>c. Calm(pc, stop, pipe, refused, consumers) /\ Usable
  BY <1>u DEF CalmInv, Untroubled, Usable
<1>w. {"answer", "timeout", "error"} = Why
  BY DEF Why
<1>1. ASSUME NEW c \in Calls, Call(c) PROVE Calm(pc', stop', pipe', refused', consumers')
  BY <1>1, <1>u, <1>c, CalmCalls
<1>2. ASSUME NEW c \in Calls, CallStep(c) PROVE Calm(pc', stop', pipe', refused', consumers')
  BY <1>2, <1>u, <1>c, CalmCalls, CalmStops DEF CallStep
<1>3. ASSUME NEW c \in Calls, Timeout(c) PROVE Calm(pc', stop', pipe', refused', consumers')
  <2>1. stop[c]["timeout"] = "none"
    BY <1>3, <1>w DEF Timeout, SInv, Orderly
  <2>2. StopWaiting(c, "timeout", patterns, pipe, refused) /\ UNCHANGED <<pc, consumers>>
    BY <1>3 DEF Timeout, brokerVars
  <2>3. Calm(pc, stop', pipe', refused', consumers)
    BY <1>c, <1>w, <2>1, <2>2, CalmBegins
  <2> QED
    BY <2>2, <2>3 DEF Calm
<1>4. ASSUME NEW c \in Calls, Deliver(c) PROVE Calm(pc', stop', pipe', refused', consumers')
  <2>1. CASE c \in listener
    <3>1. stop[c]["answer"] = "none"
      BY <2>1 DEF IInv, CallOK
    <3>2. StopWaiting(c, "answer", patterns, pipe, refused) /\ UNCHANGED <<pc, consumers>>
      BY <1>4, <2>1 DEF Deliver
    <3>3. Calm(pc, stop', pipe', refused', consumers)
      BY <1>c, <1>w, <3>1, <3>2, CalmBegins
    <3> QED
      BY <3>2, <3>3 DEF Calm
  <2>2. CASE c \notin listener
    BY <1>4, <1>c, <2>2 DEF Deliver, Calm
  <2> QED
    BY <2>1, <2>2
<1>5. ASSUME NEW c \in Calls, Respond(c) \/ Expire(c)
      PROVE  Calm(pc', stop', pipe', refused', consumers')
  BY <1>5, <1>c DEF Respond, Routed, Expire, callVars, Calm
<1>6. CASE Dispose \/ UNCHANGED vars
  BY <1>6, <1>c DEF Dispose, vars, callVars, connectorVars, brokerVars, Calm
<1>7. CASE LinkStep
  <2>1. losses' = 0 /\ link' \in {"down", "up"} /\ losses = 0
    BY <1>u DEF Untroubled
  <2>2. UNCHANGED <<pc, stop, pipe, refused, consumers>>
    BY <1>7, <2>1 DEF LinkStep, callVars, Open, Lose, OpenFails, Disconnect
  <2> QED
    BY <1>c, <2>2 DEF Calm
<1> QED
  BY <1>1, <1>2, <1>3, <1>4, <1>5, <1>6, <1>7 DEF Next

LEMMA CalmInit == Init => CalmInv
<1> SUFFICES ASSUME Init PROVE Calm(pc, stop, pipe, refused, consumers)
  BY DEF CalmInv
<1>1. Started(pc) = {} /\ consumers = {} /\ refused = {}
  BY DEF Init, ConnectorInit, Started
<1>2. /\ \A c \in Calls : pc[c] # "listening"
      /\ \A c \in Calls, w \in Why : stop[c][w] = "none"
  BY DEF Init
<1>3. Started(pc) \ Finished(stop) = {}
  BY <1>1
<1>4. IsFiniteSet({}) /\ Cardinality({}) = 0
  BY FS_EmptySet
<1> QED
  BY <1>1, <1>2, <1>3, <1>4 DEF Calm

\* As long as nothing goes wrong, a call that waits for its response has some
\* consumer to hear from: there are as many consumers as calls that have started
\* one and not stopped, whatever they cancel through the shared _consumerTag
\* (MediateRpcCaller.ts:139-142, MessageBrokerConnector.ts:412-425).
THEOREM WaitingHears == Spec => []WaitingNeverDeaf
<1>1. IInv /\ CalmInv => WaitingNeverDeaf
  <2> SUFFICES ASSUME CalmInv, Untroubled, NEW c \in Calls,
                      pc[c] \in {"publishing", "sent"}, ~StopBegun(c), consumers = {}
               PROVE  FALSE
    BY DEF WaitingNeverDeaf, IInv, TypeOK
  <2> DEFINE S == Started(pc) \ Finished(stop)
  <2>1. c \in S
    BY DEF Started, Finished, StopBegun
  <2>2. IsFiniteSet(S) /\ Cardinality(S) <= Cardinality({})
    BY FS_Subset DEF CalmInv, Calm
  <2> HIDE DEF S
  <2>3. Cardinality(S) \in Nat /\ Cardinality(S) # 0 /\ Cardinality({}) = 0
    BY <2>1, <2>2, FS_CardinalityType, FS_EmptySet
  <2> QED
    BY <2>2, <2>3
<1>2. Spec => []CalmInv
  BY CalmInit, CalmStep, TidyAlways, PTL DEF Spec
<1> QED
  BY <1>1, <1>2, TidyAlways, PTL
=============================================================================
