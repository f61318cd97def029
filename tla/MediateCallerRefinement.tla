---------------------- MODULE MediateCallerRefinement ----------------------
(***************************************************************************)
(* MediateCaller implements RpcPromise, for every set of calls and every   *)
(* choice of faults.  The proof rests on the inductive invariant of        *)
(* MediateCallerProofs.                                                    *)
(***************************************************************************)
EXTENDS MediateCallerProofs

Responded == {c \in Calls : request[c] = "replied"}

\* Nothing the phase of a call is read from changes.
Stays(d) ==
    /\ pc'[d] = "idle" <=> pc[d] = "idle"
    /\ outcome'[d] = outcome[d]
    /\ stop'[d]["answer"] # "none" <=> stop[d]["answer"] # "none"

\* When every call stays, so does the abstract state.
LEMMA Stutters ==
    ASSUME \A d \in Calls : Stays(d), UNCHANGED request
    PROVE  UNCHANGED Promise!vars
<1>1. phase' = phase
  BY DEF phase, Stays
<1>2. Responded' = Responded
  BY DEF Responded
<1> QED
  BY <1>1, <1>2 DEF Promise!vars, Responded

\* When every other call stays, the abstract step is one of this call.
LEMMA OneMoves ==
    ASSUME NEW c \in Calls, \A d \in Calls \ {c} : Stays(d)
    PROVE  phase' = [phase EXCEPT ![c] = phase'[c]]
<1>1. \A d \in Calls \ {c} : phase'[d] = phase[d]
  BY DEF phase, Stays
<1>2. phase = [d \in Calls |-> phase[d]] /\ phase' = [d \in Calls |-> phase'[d]]
  BY DEF phase
<1> QED
  BY <1>1, <1>2

\* A call that has been made and has not taken a response is given up, unless
\* it has settled already.
LEMMA GivesUp ==
    ASSUME TypeOK, NEW c \in Calls, NEW how \in {"timeout", "error"}, Settle(c, how),
           pc[c] # "idle", pc'[c] # "idle",
           \A d \in Calls \ {c} : pc'[d] = pc[d],
           stop[c]["answer"] = "none",
           \A d \in Calls : stop'[d]["answer"] = stop[d]["answer"],
           UNCHANGED request
    PROVE  [Promise!Next]_Promise!vars
<1>1. outcome' = [outcome EXCEPT ![c] = IF @ = "none" THEN how ELSE @]
      /\ outcome \in [Calls -> Outcomes]
  BY DEF Settle, TypeOK
<1>2. \A d \in Calls \ {c} : Stays(d)
  BY <1>1 DEF Stays
<1>3. CASE outcome[c] # "none"
  <2>1. Stays(c)
    BY <1>1, <1>3 DEF Stays
  <2> QED
    BY <1>2, <2>1, Stutters
<1>4. CASE outcome[c] = "none"
  <2>1. phase[c] = "waiting" /\ phase'[c] = how
    BY <1>1, <1>4 DEF phase
  <2>2. phase' = [phase EXCEPT ![c] = how]
    BY <1>2, <2>1, OneMoves
  <2>3. Responded' = Responded
    BY DEF Responded
  <2>4. Promise!GiveUp(c)
    BY <2>1, <2>2, <2>3 DEF Promise!GiveUp, Promise!Moves, Responded
  <2> QED
    BY <2>4 DEF Promise!Next
<1> QED
  BY <1>3, <1>4

\* The end of stopWaiting resolves a call that has taken its response, and is
\* not seen by the others.
LEMMA Resolves ==
    ASSUME TypeOK, NEW c \in Calls, NEW why \in Why, Stopped(c, why), CallOK(c),
           stop[c][why] # "none", UNCHANGED <<pc, request>>
    PROVE  [Promise!Next]_Promise!vars
<1>1. \A d \in Calls, w \in Why :
        stop'[d][w] = IF d = c /\ w = why THEN "done" ELSE stop[d][w]
  BY DEF Stopped, TypeOK
<1>2. "answer" \in Why
  BY DEF Why
<1>3. \A d \in Calls :
        stop'[d]["answer"] # "none" <=> stop[d]["answer"] # "none"
  BY <1>1, <1>2
<1>4. CASE outcome' = outcome
  BY <1>3, <1>4, Stutters DEF Stays
<1>5. CASE outcome' # outcome
  <2>1. /\ why = "answer"
        /\ outcome' = [outcome EXCEPT ![c] = IF @ = "none" THEN "answer" ELSE @]
        /\ outcome \in [Calls -> Outcomes]
    BY <1>5 DEF Stopped, Settle, TypeOK
  <2>2. outcome[c] = "none" /\ pc[c] = "sent"
    BY <1>5, <2>1 DEF CallOK
  <2>3. phase[c] = "taken" /\ phase'[c] = "answer"
    BY <2>1, <2>2 DEF phase
  <2>4. \A d \in Calls \ {c} : Stays(d)
    BY <1>3, <2>1 DEF Stays
  <2>5. phase' = [phase EXCEPT ![c] = "answer"]
    BY <2>3, <2>4, OneMoves
  <2>6. Responded' = Responded
    BY DEF Responded
  <2>7. Promise!Resolve(c)
    BY <2>3, <2>5, <2>6 DEF Promise!Resolve, Promise!Moves, Responded
  <2> QED
    BY <2>7 DEF Promise!Next
<1> QED
  BY <1>4, <1>5


-----------------------------------------------------------------------------
LEMMA PromiseInit == Init => Promise!Init
<1> SUFFICES ASSUME Init PROVE Promise!Init
  OBVIOUS
<1>1. phase = [c \in Calls |-> "unmade"]
  BY DEF Init, phase
<1>2. Responded = {}
  BY DEF Init, Responded
<1> QED
  BY <1>1, <1>2 DEF Promise!Init, Responded

\* Every step of the caller, from a state of the invariant, is a step of the
\* promise or is not seen by it.
LEMMA PromiseStep == IInv /\ IInv' /\ [Next]_vars => [Promise!Next]_Promise!vars
<1> SUFFICES ASSUME IInv, IInv', [Next]_vars
             PROVE  [Promise!Next]_Promise!vars
  OBVIOUS
<1>t. /\ TypeOK /\ RequestsExpected /\ Apart(pipe, refused)
      /\ \A d \in Calls : CallOK(d)
      /\ \A d \in Calls : CallOK(d)'
      /\ "answer" \in Why /\ "error" \in Why /\ "timeout" \in Why
  BY DEF IInv, Why
<1>f. ASSUME NEW c \in Calls, NEW listed, NEW sent, NEW left,
             Fail(c, listed, sent, left),
             pc[c] \in {"subscribing", "listening", "publishing"}, UNCHANGED request
      PROVE  [Promise!Next]_Promise!vars
  <2>1. /\ pc' = [pc EXCEPT ![c] = "failed"] /\ Settle(c, "error")
        /\ stop' = [stop EXCEPT ![c]["error"] = "unbinding"]
    BY <1>f DEF Fail, StopWaiting
  <2>2. /\ pc'[c] # "idle" /\ \A d \in Calls \ {c} : pc'[d] = pc[d]
        /\ \A d \in Calls : stop'[d]["answer"] = stop[d]["answer"]
    BY <1>t, <2>1 DEF TypeOK
  <2>3. stop[c]["answer"] = "none" /\ pc[c] # "idle"
    BY <1>t, <1>f DEF CallOK
  <2> QED
    BY <1>t, <1>f, <2>1, <2>2, <2>3, GivesUp
<1>1. ASSUME NEW c \in Calls, Call(c) PROVE [Promise!Next]_Promise!vars
  <2>1. /\ pc[c] = "idle" /\ pc' = [pc EXCEPT ![c] = "subscribing"]
        /\ UNCHANGED <<outcome, stop, request>>
    BY <1>1 DEF Call
  <2>2. \A d \in Calls \ {c} : Stays(d)
    BY <1>t, <2>1 DEF Stays, TypeOK
  <2>3. phase[c] = "unmade" /\ phase'[c] = "waiting"
    BY <1>t, <2>1 DEF phase, CallOK, TypeOK
  <2>4. phase' = [phase EXCEPT ![c] = "waiting"]
    BY <2>2, <2>3, OneMoves
  <2>5. Responded' = Responded
    BY <2>1 DEF Responded
  <2>6. Promise!Make(c)
    BY <2>3, <2>4, <2>5 DEF Promise!Make, Promise!Moves, Responded
  <2> QED
    BY <2>6 DEF Promise!Next
<1>2. ASSUME NEW c \in Calls, Subscribed(c) PROVE [Promise!Next]_Promise!vars
  <2> DEFINE r == Bind(c, <<c, "call">>)
  <2>1. Reply(r) /\ IsCall(r) /\ r.op = "bind" /\ r.key = c
        /\ UNCHANGED request
    BY <1>2 DEF Subscribed, Bind, IsCall
  <2>2. pc[c] = "subscribing"
    BY <1>t, <2>1, ServedFacts, CallPlace
  <2>3. CASE disposed
    BY <1>2, <1>f, <2>1, <2>2, <2>3 DEF Subscribed
  <2>4. CASE ~disposed
    <3>1. pc' = [pc EXCEPT ![c] = "listening"] /\ UNCHANGED <<outcome, stop>>
      BY <1>2, <2>4 DEF Subscribed
    <3>2. \A d \in Calls : Stays(d)
      BY <1>t, <2>2, <3>1 DEF Stays, TypeOK
    <3> QED
      BY <2>1, <3>2, Stutters
  <2> QED
    BY <2>3, <2>4
<1>3. ASSUME NEW c \in Calls, Listening(c) PROVE [Promise!Next]_Promise!vars
  <2> DEFINE r == Consume(c, <<c, "call">>)
  <2>1. /\ Reply(r) /\ IsCall(r) /\ r.key = c
        /\ pc' = [pc EXCEPT ![c] = "publishing"]
        /\ UNCHANGED <<outcome, stop, request>>
    BY <1>3 DEF Listening, Consume, IsCall
  <2>2. pc[c] # "idle"
    BY <1>t, <2>1, ServedFacts, CallPlace
  <2>3. \A d \in Calls : Stays(d)
    BY <1>t, <2>1, <2>2 DEF Stays, TypeOK
  <2> QED
    BY <2>1, <2>3, Stutters
<1>4. ASSUME NEW c \in Calls, Publish(c) PROVE [Promise!Next]_Promise!vars
  <2>1. pc[c] = "publishing"
    BY <1>4 DEF Publish
  <2>2. CASE ~(Fail(c, patterns, pipe, refused) /\ UNCHANGED request)
    <3>1. /\ pc' = [pc EXCEPT ![c] = "sent"]
          /\ request' = [request EXCEPT ![c] = "sent"]
          /\ UNCHANGED <<outcome, stop>>
      BY <1>4, <2>2 DEF Publish
    <3>2. phase' = phase
      BY <1>t, <2>1, <3>1 DEF phase, TypeOK
    <3>3. request[c] = "none"
      BY <1>t, <2>1 DEF CallOK
    <3>4. Responded' = Responded
      BY <1>t, <3>1, <3>3 DEF Responded, TypeOK
    <3> QED
      BY <3>2, <3>4 DEF Promise!vars, Responded
  <2>3. CASE Fail(c, patterns, pipe, refused) /\ UNCHANGED request
    BY <1>f, <2>1, <2>3
  <2> QED
    BY <2>2, <2>3
<1>5. ASSUME NEW c \in Calls, CallRefused(c) PROVE [Promise!Next]_Promise!vars
  <2>1. PICK r \in {Bind(c, <<c, "call">>), Consume(c, <<c, "call">>)} :
             r \in refused /\ Fail(c, patterns, pipe, refused \ {r})
    BY <1>5 DEF CallRefused
  <2>2. IsCall(r) /\ r.key = c /\ UNCHANGED request
    BY <1>5 DEF Bind, Consume, IsCall, CallRefused
  <2>3. pc[c] \in {"subscribing", "listening"}
    BY <1>t, <2>1, <2>2, CallPlace
  <2> QED
    BY <1>f, <2>1, <2>2, <2>3
<1>6. ASSUME NEW c \in Calls, Timeout(c) PROVE [Promise!Next]_Promise!vars
  <2>1. /\ c \in timer /\ Settle(c, "timeout") /\ UNCHANGED <<pc, request>>
        /\ stop' = [stop EXCEPT ![c]["timeout"] = "unbinding"]
    BY <1>6 DEF Timeout, StopWaiting
  <2>2. pc[c] # "idle" /\ stop[c]["answer"] = "none"
    BY <1>t, <2>1 DEF CallOK
  <2>3. \A d \in Calls : stop'[d]["answer"] = stop[d]["answer"]
    BY <1>t, <2>1 DEF TypeOK
  <2> QED
    BY <1>t, <2>1, <2>2, <2>3, GivesUp
<1>7. ASSUME NEW c \in Calls, Deliver(c) PROVE [Promise!Next]_Promise!vars
  <2>1. c \in queue /\ UNCHANGED <<pc, outcome, request>>
    BY <1>7 DEF Deliver, Taken
  <2>2. CASE c \in listener
    <3>1. stop' = [stop EXCEPT ![c]["answer"] = "unbinding"]
      BY <1>7, <2>2 DEF Deliver, StopWaiting
    <3>2. /\ request[c] = "replied" /\ pc[c] = "sent" /\ outcome[c] = "none"
          /\ stop[c]["answer"] = "none"
      BY <1>t, <2>1, <2>2 DEF CallOK
    <3>3. phase[c] = "waiting" /\ phase'[c] = "taken"
      BY <1>t, <2>1, <3>1, <3>2 DEF phase, TypeOK
    <3>4. \A d \in Calls \ {c} : Stays(d)
      BY <1>t, <2>1, <3>1 DEF Stays, TypeOK
    <3>5. phase' = [phase EXCEPT ![c] = "taken"]
      BY <3>3, <3>4, OneMoves
    <3>6. Responded' = Responded /\ c \in Responded
      BY <2>1, <3>2 DEF Responded
    <3>7. Promise!Take(c)
      BY <3>3, <3>5, <3>6 DEF Promise!Take, Promise!Moves, Responded
    <3> QED
      BY <3>7 DEF Promise!Next
  <2>3. CASE c \notin listener
    <3>1. \A d \in Calls : Stays(d)
      BY <1>7, <2>1, <2>3 DEF Deliver, Stays
    <3> QED
      BY <2>1, <3>1, Stutters
  <2> QED
    BY <2>2, <2>3
<1>8. ASSUME NEW c \in Calls, NEW why \in Why, Unsubscribed(c, why)
      PROVE  [Promise!Next]_Promise!vars
  <2> DEFINE r == Unbind(c, <<c, why>>)
  <2>1. Reply(r) /\ ~IsCall(r) /\ r.who = <<c, why>>
        /\ UNCHANGED <<pc, request>>
    BY <1>8 DEF Unsubscribed, Unbind, IsCall
  <2>2. r \in Els(pipe)
    BY <1>t, <2>1, ServedFacts
  <2>3. stop[c][why] # "none"
    BY <1>t, <2>1, <2>2 DEF RequestsExpected, Expected, Bind, Consume, IsCall
  <2>4. CASE isListening
    <3>1. stop' = [stop EXCEPT ![c][why] = "cancelling"] /\ UNCHANGED outcome
      BY <1>8, <2>4 DEF Unsubscribed
    <3>2. \A d \in Calls : Stays(d)
      BY <1>t, <2>1, <2>3, <3>1 DEF Stays, TypeOK
    <3> QED
      BY <2>1, <3>2, Stutters
  <2>5. CASE ~isListening
    BY <1>8, <1>t, <2>1, <2>3, <2>5, Resolves DEF Unsubscribed
  <2> QED
    BY <2>4, <2>5
<1>9. ASSUME NEW c \in Calls, NEW why \in Why, ConsumerStopped(c, why)
      PROVE  [Promise!Next]_Promise!vars
  <2>1. PICK g \in Calls : /\ Reply(Cancel(g, <<c, why>>))
                           /\ Stopped(c, why)
                           /\ UNCHANGED <<pc, request>>
    BY <1>9 DEF ConsumerStopped
  <2> DEFINE r == Cancel(g, <<c, why>>)
  <2>2. ~IsCall(r) /\ r.who = <<c, why>>
    BY DEF Cancel, IsCall
  <2>3. r \in Els(pipe)
    BY <1>t, <2>1, ServedFacts
  <2>4. stop[c][why] # "none"
    BY <1>t, <2>2, <2>3 DEF RequestsExpected, Expected, Bind, Consume, IsCall
  <2> QED
    BY <1>t, <2>1, <2>4, Resolves
<1>10. ASSUME NEW c \in Calls, NEW why \in Why, StopRefused(c, why)
       PROVE  [Promise!Next]_Promise!vars
  <2>1. PICK r \in {Unbind(c, <<c, why>>)} \cup {Cancel(g, <<c, why>>) : g \in Calls} :
          r \in refused
    BY <1>10 DEF StopRefused
  <2>2. ~IsCall(r) /\ r.who = <<c, why>>
    BY DEF Unbind, Cancel, IsCall
  <2>3. stop[c][why] # "none"
    BY <1>t, <2>1, <2>2 DEF RequestsExpected, Expected, Bind, Consume, IsCall
  <2>4. stop' = [stop EXCEPT ![c][why] = "failed"]
        /\ UNCHANGED <<pc, outcome, request>>
    BY <1>10 DEF StopRefused
  <2>5. \A d \in Calls : Stays(d)
    BY <1>t, <2>3, <2>4 DEF Stays, TypeOK
  <2> QED
    BY <2>4, <2>5, Stutters
<1>11. ASSUME NEW c \in Calls, Respond(c) PROVE [Promise!Next]_Promise!vars
  <2>1. /\ request[c] # "none" /\ request' = [request EXCEPT ![c] = "replied"]
        /\ UNCHANGED <<pc, outcome, stop>>
    BY <1>11 DEF Respond
  <2>2. phase' = phase
    BY <2>1 DEF phase
  <2>3. phase[c] # "unmade"
    BY <1>t, <2>1 DEF phase, CallOK, TypeOK, Outcomes, Why
  <2>4. Responded' = Responded \cup {c}
    BY <1>t, <2>1 DEF Responded, TypeOK
  <2>5. Promise!Reply(c)
    BY <2>2, <2>3, <2>4 DEF Promise!Reply, Responded
  <2> QED
    BY <2>5 DEF Promise!Next
<1>12. CASE UNCHANGED <<pc, outcome, stop, request>>
  <2>1. \A d \in Calls : Stays(d)
    BY <1>12 DEF Stays
  <2> QED
    BY <1>12, <2>1, Stutters
<1>13. ASSUME NEW c \in Calls, Expire(c) PROVE [Promise!Next]_Promise!vars
  BY <1>12, <1>13 DEF Expire, callVars
<1>14. CASE Dispose
  BY <1>12, <1>14 DEF Dispose
<1>15. CASE LinkStep
  BY <1>12, <1>15 DEF LinkStep, callVars
<1>16. CASE UNCHANGED vars
  BY <1>12, <1>16 DEF vars, callVars
<1> QED
  BY <1>1, <1>2, <1>3, <1>4, <1>5, <1>6, <1>7, <1>8, <1>9, <1>10, <1>11,
     <1>13, <1>14, <1>15, <1>16 DEF Next, CallStep

\* The calls of MediateRpcCaller.ts:123-192 implement the promise that
\* RpcCommon.ts:125-129 makes: a call settles once, and with a response only
\* after some handler has responded to it.
THEOREM CallerKeepsPromise == Spec => KeepsPromise
BY PromiseInit, PromiseStep, InvInit, InvStep, PTL DEF Spec, KeepsPromise, Promise!Spec
=============================================================================
