------------------------ MODULE MediateRequestProofs ------------------------
(***************************************************************************)
(* What is proved of MediateRequest for every set of requests and actions, *)
(* every choice of keys, topics and scenes and every bound: type           *)
(* correctness, and what a handler tells the caller of a request.          *)
(***************************************************************************)
EXTENDS MediateRequest, WellFoundedInduction, TLAPS

\* The response that tells how the promise of a run settled.
Verdict(run) ==
    IF run.prom = "resolved" THEN CreateResponse(TRUE, NoError)
    ELSE CreateResponse(FALSE, CreateError(run.prom = "intended", run.why))

\* How far the chain of a run is agrees with its promise, and the response with
\* both; a chain that is over has answered or reported.
RunOK(run) ==
    /\ run.step = "replying" => run.prom = "resolved"
    /\ run.step = "excusing" => run.prom \in {"intended", "unintended"}
    /\ run.step # "waiting" => run.prom # "pending"
    /\ run.sent # <<>> => run.step = "over" /\ run.sent = <<Verdict(run)>>
    /\ scene.heard /\ run.step = "over" => run.sent # <<>> \/ run.reported

RunsOK == \A d \in DOMAIN runs : RunOK(runs[d])

\* The inductive invariant.
ChainInv == TypeOK /\ RunsOK

-----------------------------------------------------------------------------
\* What the two sides make of a reason and of a response.

LEMMA NoReasonType == NoReason \in Reasons
BY DEF NoReason, Reasons, Kinds, Details

LEMMA CreateErrorType ==
    ASSUME NEW reason \in Reasons, NEW isIntended \in BOOLEAN
    PROVE  CreateError(isIntended, reason) \in RpcError
BY DEF CreateError, RpcError, Reasons, Kinds, gennova, Details

LEMMA VerdictType ==
    ASSUME NEW run \in RunRecord
    PROVE  /\ Verdict(run) \in RpcResponse
           /\ Verdict(run).isSuccess <=> run.prom = "resolved"
<1>1. NoError \in RpcError
  BY DEF NoError, RpcError, Kinds, Details
<1>2. run.why \in Reasons
  BY DEF RunRecord
<1>3. CreateError(run.prom = "intended", run.why) \in RpcError
  BY <1>2, CreateErrorType
<1> QED
  BY <1>1, <1>3 DEF Verdict, CreateResponse, RpcResponse

\* A caller is told of an internal error only if it was one.
LEMMA ToldRejected ==
    ASSUME NEW isIntended \in BOOLEAN, NEW reason \in Reasons,
           ToldByMessage(CreateResponse(FALSE, CreateError(isIntended, reason))).how = "rejected"
    PROVE  ~isIntended \/ reason.kind = "InternalErrorException"
<1> SUFFICES ASSUME isIntended PROVE reason.kind = "InternalErrorException"
  OBVIOUS
<1> DEFINE e == CreateError(isIntended, reason)
           res == CreateResponse(FALSE, e)
<1>1. e \in RpcError
  BY CreateErrorType
<1>2. /\ e.type = "InternalErrorException" => reason.kind = "InternalErrorException"
  BY DEF CreateError, Reasons, Kinds, gennova
<1> HIDE DEF e
<1>3. RebuildError(e).type \in {e.type, "data"}
  BY <1>1 DEF RebuildError, RpcError
<1>4. RebuildError(e).type = "InternalErrorException"
  BY <1>1 DEF ToldByMessage, CreateResponse, e
<1> QED
  BY <1>2, <1>3, <1>4

\* A lasting reason arrives as what it was, and nothing arrives of one that was
\* not intended.
LEMMA ToldFaithfully ==
    ASSUME NEW reason \in Reasons
    PROVE  /\ Lasting(reason) =>
                ToldByMessage(CreateResponse(FALSE, CreateError(TRUE, reason))).error
                  = Faithful(reason)
           /\ ToldByMessage(CreateResponse(FALSE, CreateError(FALSE, reason))).error
                = CreateError(FALSE, NoReason)
<1>1. ASSUME Lasting(reason)
      PROVE  ToldByMessage(CreateResponse(FALSE, CreateError(TRUE, reason))).error
               = Faithful(reason)
  <2> DEFINE e == CreateError(TRUE, reason)
  <2>1. e \in RpcError
    BY CreateErrorType
  <2>2. /\ e.type = IF reason.kind \in gennova THEN reason.kind ELSE "MinorException"
        /\ e.message = reason.message
        /\ IF reason.kind = "data" /\ reason.details # "none"
             THEN e.details = "json" /\ reason.details = "value"
             ELSE e.details = reason.details
        /\ e.type \in gennova /\ e.details # "text"
    BY <1>1 DEF Lasting, CreateError, Reasons, Kinds, gennova, Details
  <2> HIDE DEF e
  <2>3. RebuildError(e) = Faithful(reason)
    <3>1. e = [type |-> e.type, message |-> e.message, details |-> e.details]
      BY <2>1 DEF RpcError
    <3>2. RebuildError(e) = [type |-> e.type, message |-> e.message,
                             details |-> IF e.details = "json" THEN "value" ELSE e.details]
      BY <2>2, <3>1 DEF RebuildError
    <3>3. (IF e.details = "json" THEN "value" ELSE e.details) = reason.details
      BY <1>1, <2>2 DEF Lasting
    <3> QED
      BY <2>2, <3>2, <3>3 DEF Faithful
  <2>4. ToldByMessage(CreateResponse(FALSE, e)).error = RebuildError(e)
    BY <2>1, <2>2 DEF ToldByMessage, CreateResponse, CannotRebuild
  <2> QED
    BY <2>3, <2>4 DEF e
<1>2. ToldByMessage(CreateResponse(FALSE, CreateError(FALSE, reason))).error
        = CreateError(FALSE, NoReason)
  BY DEF ToldByMessage, CreateResponse, CannotRebuild, RebuildError, CreateError, gennova
<1> QED
  BY <1>1, <1>2

-----------------------------------------------------------------------------
\* What the steps of a run make of it.

LEMMA SettlesOK ==
    ASSUME NEW run \in RunRecord, RunOK(run), NEW a \in Actions, NEW why \in Reasons,
           NEW how \in {"resolved", "intended", "unintended"}
    PROVE  /\ Settles(run, a, how, why) \in RunRecord
           /\ RunOK(Settles(run, a, how, why))
           /\ Settles(run, a, how, why).todo = run.todo
<1>1. CASE run.prom = "pending"
  <2>1. run.step = "waiting" /\ run.sent = <<>>
    BY <1>1 DEF RunOK, RunRecord
  <2> QED
    BY <1>1, <2>1 DEF Settles, RunOK, RunRecord
<1>2. CASE run.prom # "pending"
  BY <1>2 DEF Settles
<1> QED
  BY <1>1, <1>2

LEMMA ThrownOK ==
    ASSUME NEW run \in RunRecord, RunOK(run), NEW a \in Actions, NEW why \in Reasons
    PROVE  /\ Thrown(run, a, why) \in RunRecord
           /\ RunOK(Thrown(run, a, why))
           /\ Thrown(run, a, why).todo = run.todo
BY SettlesOK DEF Thrown

\* A step along the map changes nothing that its chain is about.
LEMMA SameChain ==
    ASSUME NEW run \in RunRecord, RunOK(run), NEW on \in RunRecord,
           on.prom = run.prom, on.why = run.why, on.step = run.step,
           on.sent = run.sent, on.reported = run.reported
    PROVE  RunOK(on)
BY DEF RunOK, Verdict

LEMMA EmittedOK ==
    ASSUME TypeOK, NEW run \in RunRecord, RunOK(run), run.step # "over", run.prom # "pending",
           NEW next \in {"excusing", "over"}, next = "excusing" => run.prom = "unintended"
    PROVE  /\ Emitted(run, next) \in RunRecord
           /\ RunOK(Emitted(run, next))
           /\ Emitted(run, next).todo = run.todo
<1>1. scene.heard \in BOOLEAN
  BY ScenesAssumption DEF TypeOK, Scene
<1>2. run.sent = <<>>
  BY DEF RunOK
<1> QED
  BY <1>1, <1>2 DEF Emitted, RunOK, RunRecord

LEMMA SentOK ==
    ASSUME NEW run \in RunRecord, RunOK(run), run.prom # "pending"
    PROVE  /\ Sent(run, Verdict(run)) \in RunRecord
           /\ RunOK(Sent(run, Verdict(run)))
           /\ Sent(run, Verdict(run)).todo = run.todo
<1> DEFINE res == Verdict(run)
<1>1. res \in RpcResponse
  BY VerdictType
<1>2. Verdict(Sent(run, res)) = Verdict(run)
  BY DEF Sent, Verdict, RunRecord
<1> HIDE DEF res
<1>3. <<res>> \in Seq(RpcResponse) /\ <<res>> # <<>>
  BY <1>1
<1>4. Sent(run, res) \in RunRecord
  BY <1>3 DEF Sent, RunRecord
<1>5. Sent(run, res).step = "over" /\ Sent(run, res).sent = <<res>>
      /\ Sent(run, res).prom = run.prom /\ Sent(run, res).todo = run.todo
  BY DEF Sent, RunRecord
<1>6. RunOK(Sent(run, res))
  BY <1>2, <1>3, <1>5 DEF RunOK, res
<1> QED
  BY <1>4, <1>5, <1>6 DEF res

\* A run that stays one of the kind keeps the invariant.
LEMMA BecomesInv ==
    ASSUME ChainInv, NEW d \in DOMAIN runs, NEW run \in RunRecord, RunOK(run),
           run.todo \subseteq runs[d].todo, Becomes(d, run)
    PROVE  ChainInv'
<1>1. runs \in Seq(RunRecord) /\ \A e \in DOMAIN runs : runs[e].todo \subseteq DOMAIN handlers
  BY DEF ChainInv, TypeOK
<1>2. runs' = [runs EXCEPT ![d] = run] /\ DOMAIN runs' = DOMAIN runs
  BY <1>1 DEF Becomes
<1>3. runs' \in Seq(RunRecord)
  BY <1>1, <1>2
<1>4. \A e \in DOMAIN runs : runs'[e] = IF e = d THEN run ELSE runs[e]
  BY <1>1, <1>2
<1>5. TypeOK'
  BY <1>1, <1>2, <1>3, <1>4 DEF ChainInv, TypeOK, Becomes
<1>6. RunsOK'
  BY <1>2, <1>4 DEF ChainInv, RunsOK, RunOK, Becomes
<1> QED
  BY <1>5, <1>6 DEF ChainInv

-----------------------------------------------------------------------------
\* The invariant holds at first and every step keeps it.

LEMMA RunType ==
    ASSUME ChainInv, NEW d \in DOMAIN runs
    PROVE  /\ runs[d] \in RunRecord /\ RunOK(runs[d])
           /\ runs[d].todo \subseteq DOMAIN handlers
           /\ \A i \in DOMAIN handlers : handlers[i] \in Actions
BY DEF ChainInv, TypeOK, RunsOK

LEMMA SceneWhy ==
    ASSUME ChainInv
    PROVE  /\ scene.why \subseteq Reasons
           /\ \A a \in Actions : Throws(a) \subseteq Reasons
BY ScenesAssumption DEF ChainInv, TypeOK, Scene, Throws

LEMMA InitInv == Init => ChainInv
<1> SUFFICES ASSUME Init PROVE ChainInv
  OBVIOUS
<1>1. handlers \in Seq(Actions) /\ runs \in Seq(RunRecord) /\ DOMAIN runs = {}
  BY DEF Init
<1>2. place \in [Requests -> {"unsent", "queued", "held", "acking", "nacking", "gone"}]
  BY DEF Init
<1>3. scene \in Scenes /\ losses \in 0..MaxLoss
  BY BoundsAssumption DEF Init
<1> QED
  BY <1>1, <1>2, <1>3 DEF ChainInv, TypeOK, RunsOK

LEMMA HandleInv ==
    ASSUME ChainInv, NEW a \in Actions, Handle(a)
    PROVE  ChainInv'
<1>1. handlers \in Seq(Actions)
  BY DEF ChainInv, TypeOK
<1>2. handlers' = Append(handlers, a) /\ UNCHANGED <<scene, place, losses, runs>>
  BY DEF Handle
<1>3. handlers' \in Seq(Actions) /\ DOMAIN handlers \subseteq DOMAIN handlers'
  BY <1>1, <1>2
<1>4. TypeOK'
  BY <1>2, <1>3 DEF ChainInv, TypeOK
<1>5. RunsOK'
  BY <1>2 DEF ChainInv, RunsOK, RunOK
<1> QED
  BY <1>4, <1>5 DEF ChainInv

\* The steps of the broker and of the consumer leave the runs alone.
LEMMA PlaceInv ==
    ASSUME ChainInv, losses' \in 0..MaxLoss, UNCHANGED <<scene, handlers, runs>>,
           place' \in [Requests -> {"unsent", "queued", "held", "acking", "nacking", "gone"}]
    PROVE  ChainInv'
<1>1. TypeOK'
  BY DEF ChainInv, TypeOK
<1>2. RunsOK'
  BY DEF ChainInv, RunsOK, RunOK
<1> QED
  BY <1>1, <1>2 DEF ChainInv

LEMMA MovesType ==
    ASSUME ChainInv, NEW r \in Requests, Moves(r, place'[r]),
           place'[r] \in {"queued", "held", "acking", "nacking", "gone"}
    PROVE  /\ place' \in [Requests -> {"unsent", "queued", "held", "acking", "nacking", "gone"}]
           /\ losses' \in 0..MaxLoss /\ UNCHANGED <<scene, handlers>>
<1> DEFINE to == place'[r]
<1>1. place' = [place EXCEPT ![r] = to] /\ UNCHANGED <<scene, handlers, losses>>
  BY DEF Moves
<1> HIDE DEF to
<1>2. to \in {"unsent", "queued", "held", "acking", "nacking", "gone"}
  BY DEF to
<1> QED
  BY <1>1, <1>2 DEF ChainInv, TypeOK

LEMMA QueueInv ==
    ASSUME ChainInv, NEW r \in Requests,
           Publish(r) \/ Unreadable(r) \/ GivenBack(r) \/ Acknowledged(r) \/ Expire(r)
    PROVE  ChainInv'
<1>1. UNCHANGED runs
  BY DEF Publish, Unreadable, GivenBack, Acknowledged, Expire
<1>2. \E to \in {"queued", "held", "acking", "nacking", "gone"} : Moves(r, to)
  BY DEF Publish, Unreadable, GivenBack, Acknowledged, Expire
<1>3. Moves(r, place'[r]) /\ place'[r] \in {"queued", "held", "acking", "nacking", "gone"}
  BY <1>2 DEF Moves, ChainInv, TypeOK
<1> QED
  BY <1>1, <1>3, MovesType, PlaceInv

LEMMA ChannelLostInv ==
    ASSUME ChainInv, ChannelLost
    PROVE  ChainInv'
<1>1. losses' \in 0..MaxLoss
  BY BoundsAssumption DEF ChannelLost, ChainInv, TypeOK
<1>2. place' \in [Requests -> {"unsent", "queued", "held", "acking", "nacking", "gone"}]
  BY DEF ChannelLost, ChainInv, TypeOK
<1> QED
  BY <1>1, <1>2, PlaceInv DEF ChannelLost

LEMMA AcceptedInv ==
    ASSUME ChainInv, NEW r \in Requests, Accepted(r)
    PROVE  ChainInv'
<1> DEFINE run == [req |-> r, todo |-> GetHandlers(r), started |-> {}, ended |-> {},
                   raced |-> FALSE, prom |-> "pending", by |-> {}, why |-> NoReason,
                   step |-> "waiting", sent |-> <<>>, reported |-> FALSE]
<1>1. runs' = Append(runs, run) /\ UNCHANGED <<scene, handlers, losses>>
      /\ Moves(r, "acking")
  BY DEF Accepted, Moves
<1>2. runs \in Seq(RunRecord) /\ handlers \in Seq(Actions)
  BY DEF ChainInv, TypeOK
<1>3. GetHandlers(r) \subseteq DOMAIN handlers /\ DOMAIN handlers \subseteq Nat
  BY <1>2 DEF GetHandlers
<1>4. run \in RunRecord
  <2>1. <<>> \in Seq(RpcResponse)
    OBVIOUS
  <2> QED
    BY <1>3, <2>1, NoReasonType DEF RunRecord
<1>5. RunOK(run) /\ run.todo \subseteq DOMAIN handlers
  BY <1>3 DEF RunOK
<1> HIDE DEF run
<1>6. /\ runs' \in Seq(RunRecord) /\ DOMAIN runs' = 1..(Len(runs) + 1)
      /\ \A d \in DOMAIN runs' : runs'[d] = IF d = Len(runs) + 1 THEN run ELSE runs[d]
      /\ DOMAIN runs = 1..Len(runs) /\ Len(runs) \in Nat
  BY <1>1, <1>2, <1>4
<1>7. ASSUME NEW d \in DOMAIN runs'
      PROVE  runs'[d] = run \/ (d \in DOMAIN runs /\ runs'[d] = runs[d])
  <2>1. d = Len(runs) + 1 \/ d \in DOMAIN runs
    BY <1>6
  <2> QED
    BY <1>6, <2>1
<1>8. place' \in [Requests -> {"unsent", "queued", "held", "acking", "nacking", "gone"}]
  BY <1>1 DEF Moves, ChainInv, TypeOK
<1>9. TypeOK'
  BY <1>1, <1>5, <1>6, <1>7, <1>8 DEF ChainInv, TypeOK
<1>10. RunsOK'
  BY <1>1, <1>5, <1>7 DEF ChainInv, RunsOK, RunOK
<1> QED
  BY <1>9, <1>10 DEF ChainInv

LEMMA MapNextInv ==
    ASSUME ChainInv, NEW d \in DOMAIN runs, MapNext(d)
    PROVE  ChainInv'
<1> DEFINE run == runs[d]
<1>1. PICK i \in run.todo :
        \/ Becomes(d, [run EXCEPT !.todo = @ \ {i}, !.started = @ \cup {handlers[i]}])
        \/ \E why \in Throws(handlers[i]) :
             Becomes(d, Thrown([run EXCEPT !.todo = {}, !.started = @ \cup {handlers[i]},
                           !.ended = @ \cup {handlers[i]}, !.raced = TRUE], handlers[i], why))
  BY DEF MapNext
<1> DEFINE a == handlers[i]
           on == [run EXCEPT !.todo = @ \ {i}, !.started = @ \cup {a}]
           off == [run EXCEPT !.todo = {}, !.started = @ \cup {a},
                              !.ended = @ \cup {a}, !.raced = TRUE]
<1>2. run \in RunRecord /\ RunOK(run) /\ a \in Actions
  BY RunType
<1>3. on \in RunRecord /\ off \in RunRecord /\ on.todo \subseteq run.todo /\ off.todo = {}
  BY <1>2 DEF RunRecord
<1>4. RunOK(on) /\ RunOK(off)
  <2>1. /\ on.prom = run.prom /\ on.why = run.why /\ on.step = run.step
        /\ on.sent = run.sent /\ on.reported = run.reported
    BY <1>2 DEF RunRecord
  <2>2. /\ off.prom = run.prom /\ off.why = run.why /\ off.step = run.step
        /\ off.sent = run.sent /\ off.reported = run.reported
    BY <1>2 DEF RunRecord
  <2> HIDE DEF on, off, run
  <2> QED
    BY <1>2, <1>3, <2>1, <2>2, SameChain
<1>5. CASE Becomes(d, on)
  <2> HIDE DEF on
  <2> QED
    BY <1>3, <1>4, <1>5, BecomesInv
<1>6. ASSUME NEW why \in Throws(a), Becomes(d, Thrown(off, a, why))
      PROVE  ChainInv'
  <2> HIDE DEF off
  <2>1. why \in Reasons
    BY <1>2, SceneWhy
  <2>2. Thrown(off, a, why) \in RunRecord /\ RunOK(Thrown(off, a, why))
        /\ Thrown(off, a, why).todo = {}
    BY <1>2, <1>3, <1>4, <2>1, ThrownOK
  <2> QED
    BY <1>6, <2>2, BecomesInv
<1> QED
  BY <1>1, <1>5, <1>6

LEMMA RespondInv ==
    ASSUME ChainInv, NEW d \in DOMAIN runs, NEW a \in Actions, Respond(d, a)
    PROVE  ChainInv'
<1> DEFINE run == runs[d]
<1>1. run \in RunRecord /\ RunOK(run)
  BY RunType
<1>2. PICK how \in {"resolved", "intended"}, why \in Reasons :
        Becomes(d, Settles(run, a, how, why))
  BY NoReasonType, SceneWhy DEF Respond
<1>3. /\ Settles(run, a, how, why) \in RunRecord /\ RunOK(Settles(run, a, how, why))
      /\ Settles(run, a, how, why).todo = run.todo
  BY <1>1, SettlesOK
<1> QED
  BY <1>2, <1>3, BecomesInv

LEMMA EndInv ==
    ASSUME ChainInv, NEW d \in DOMAIN runs, NEW a \in Actions, End(d, a)
    PROVE  ChainInv'
<1> DEFINE run == runs[d]
           on == [run EXCEPT !.ended = @ \cup {a}, !.raced = TRUE]
<1>1. run \in RunRecord /\ RunOK(run)
  BY RunType
<1>2. /\ on \in RunRecord /\ on.todo = run.todo
      /\ on.prom = run.prom /\ on.why = run.why /\ on.step = run.step
      /\ on.sent = run.sent /\ on.reported = run.reported
  BY <1>1 DEF RunRecord
<1>3. \/ Becomes(d, on)
      \/ \E why \in Throws(a) : Becomes(d, Thrown(on, a, why))
  BY DEF End
<1> HIDE DEF on
<1>4. RunOK(on)
  BY <1>1, <1>2, SameChain
<1>5. CASE Becomes(d, on)
  BY <1>2, <1>4, <1>5, BecomesInv
<1>6. ASSUME NEW why \in Throws(a), Becomes(d, Thrown(on, a, why))
      PROVE  ChainInv'
  <2>1. Thrown(on, a, why) \in RunRecord /\ RunOK(Thrown(on, a, why))
        /\ Thrown(on, a, why).todo = run.todo
    BY <1>2, <1>4, SceneWhy, ThrownOK
  <2> QED
    BY <1>6, <2>1, BecomesInv
<1> QED
  BY <1>3, <1>5, <1>6

LEMMA ContinueInv ==
    ASSUME ChainInv, NEW d \in DOMAIN runs, Continue(d)
    PROVE  ChainInv'
<1> DEFINE run == runs[d]
<1>1. run \in RunRecord /\ RunOK(run)
  BY RunType
<1>2. run.step = "waiting" /\ run.prom \in {"resolved", "intended", "unintended"}
  BY <1>1 DEF Continue, RunRecord
<1>3. run.sent = <<>>
  BY <1>1, <1>2 DEF RunOK
<1>4. CASE run.prom = "unintended"
  <2>1. Becomes(d, Emitted(run, "excusing"))
    BY <1>4 DEF Continue
  <2>2. Emitted(run, "excusing") \in RunRecord /\ RunOK(Emitted(run, "excusing"))
        /\ Emitted(run, "excusing").todo = run.todo
    BY <1>1, <1>2, <1>4, EmittedOK DEF ChainInv
  <2> QED
    BY <2>1, <2>2, BecomesInv
<1>5. CASE run.prom # "unintended"
  <2> DEFINE step == IF run.prom = "resolved" THEN "replying" ELSE "excusing"
             on == [run EXCEPT !.step = step]
  <2>1. Becomes(d, on)
    BY <1>2, <1>5 DEF Continue
  <2>2. on \in RunRecord /\ RunOK(on) /\ on.todo = run.todo
    BY <1>1, <1>2, <1>3, <1>5 DEF RunRecord, RunOK
  <2> HIDE DEF on
  <2> QED
    BY <2>1, <2>2, BecomesInv
<1> QED
  BY <1>4, <1>5

\* Both ways of publishing a response.
LEMMA ReplyInv ==
    ASSUME ChainInv, NEW d \in DOMAIN runs, Reply(d) \/ Excuse(d)
    PROVE  ChainInv'
<1> DEFINE run == runs[d]
<1>1. run \in RunRecord /\ RunOK(run)
  BY RunType
<1>2. run.step # "over" /\ run.prom # "pending"
      /\ (Reply(d) => run.prom = "resolved") /\ (Excuse(d) => run.prom # "resolved")
  BY <1>1 DEF Reply, Excuse, RunOK
<1>3. Becomes(d, Sent(run, Verdict(run))) \/ Becomes(d, Emitted(run, "over"))
  BY <1>2 DEF Reply, Excuse, Verdict
<1>4. CASE Becomes(d, Sent(run, Verdict(run)))
  BY <1>1, <1>2, <1>4, SentOK, BecomesInv
<1>5. CASE Becomes(d, Emitted(run, "over"))
  <2>1. Emitted(run, "over") \in RunRecord /\ RunOK(Emitted(run, "over"))
        /\ Emitted(run, "over").todo = run.todo
    BY <1>1, <1>2, EmittedOK DEF ChainInv
  <2> QED
    BY <1>5, <2>1, BecomesInv
<1> QED
  BY <1>3, <1>4, <1>5

LEMMA NextInv == ChainInv /\ [Next]_vars => ChainInv'
<1> SUFFICES ASSUME ChainInv, [Next]_vars PROVE ChainInv'
  OBVIOUS
<1>1. ASSUME NEW a \in Actions, Handle(a) PROVE ChainInv'
  BY <1>1, HandleInv
<1>2. ASSUME NEW r \in Requests,
             \/ Publish(r) \/ Unreadable(r) \/ GivenBack(r) \/ Accepted(r)
             \/ Acknowledged(r) \/ Expire(r)
      PROVE  ChainInv'
  BY <1>2, QueueInv, AcceptedInv
<1>3. CASE ChannelLost
  BY <1>3, ChannelLostInv
<1>4. ASSUME NEW d \in DOMAIN runs, Chain(d) PROVE ChainInv'
  BY <1>4, MapNextInv, ContinueInv, ReplyInv DEF Chain
<1>5. ASSUME NEW d \in DOMAIN runs, NEW a \in Actions, Respond(d, a) \/ End(d, a)
      PROVE  ChainInv'
  BY <1>5, RespondInv, EndInv
<1>6. CASE UNCHANGED vars
  BY <1>6 DEF vars, ChainInv, TypeOK, RunsOK, RunOK
<1> QED
  BY <1>1, <1>2, <1>3, <1>4, <1>5, <1>6 DEF Next

LEMMA Invariant == Spec => []ChainInv
<1>1. Init => ChainInv
  BY InitInv
<1>2. ChainInv /\ [Next]_vars => ChainInv'
  BY NextInv
<1> QED
  BY <1>1, <1>2, PTL DEF Spec

-----------------------------------------------------------------------------
\* Every variable stays of its type: in particular what is left of the map of a
\* run stays among the registered handlers (MediateRpcHandler.ts:146-215).
THEOREM TypeCorrect == Spec => []TypeOK
<1>1. ChainInv => TypeOK
  BY DEF ChainInv
<1> QED
  BY <1>1, Invariant, PTL

\* A response is the verdict of the promise of its run.
LEMMA SentVerdict ==
    ASSUME ChainInv, NEW d \in DOMAIN runs, runs[d].sent # <<>>
    PROVE  /\ runs[d] \in RunRecord /\ runs[d].why \in Reasons
           /\ runs[d].prom \in {"resolved", "intended", "unintended"}
           /\ runs[d].sent[1] = Verdict(runs[d])
<1>1. runs[d] \in RunRecord /\ RunOK(runs[d])
  BY RunType
<1>2. runs[d].sent = <<Verdict(runs[d])>> /\ runs[d].step = "over"
  BY <1>1 DEF RunOK
<1> QED
  BY <1>1, <1>2 DEF RunRecord, RunOK

\* Whatever the other actions of a run do after one of them has settled its
\* promise, the response says how that was: a success only if an action resolved
\* first, an internal error only if one threw first or meant to say so
\* (MediateRpcHandler.ts:164-213, MediateRpcCaller.ts:152-159).
THEOREM FirstAnswers == Spec => []ResponseIsFirst
<1>1. ASSUME ChainInv, NEW d \in DOMAIN runs, runs[d].sent # <<>>
      PROVE  /\ runs[d].sent[1].isSuccess <=> runs[d].prom = "resolved"
             /\ ToldOf(d).how = "rejected" =>
                  \/ runs[d].prom = "unintended"
                  \/ runs[d].why.kind = "InternalErrorException"
  <2> DEFINE run == runs[d]
  <2>1. /\ run \in RunRecord /\ run.why \in Reasons /\ run.sent[1] = Verdict(run)
        /\ run.prom \in {"resolved", "intended", "unintended"}
    BY <1>1, SentVerdict
  <2>2. run.sent[1].isSuccess <=> run.prom = "resolved"
    BY <2>1, VerdictType
  <2>3. ASSUME ToldOf(d).how = "rejected"
        PROVE  run.prom = "unintended" \/ run.why.kind = "InternalErrorException"
    <3>1. CASE run.prom = "resolved"
      <4>1. ToldByMessage(CreateResponse(TRUE, NoError)).how = "resolved"
        BY DEF ToldByMessage, CreateResponse
      <4>2. ToldOf(d).how = "resolved"
        BY <2>1, <3>1, <4>1 DEF ToldOf, Verdict
      <4> QED
        BY <2>3, <4>2
    <3>2. CASE run.prom = "intended"
      <4>1. run.sent[1] = CreateResponse(FALSE, CreateError(TRUE, run.why))
        BY <2>1, <3>2 DEF Verdict
      <4> QED
        BY <2>1, <2>3, <4>1, ToldRejected DEF ToldOf
    <3> QED
      BY <2>1, <3>1, <3>2
  <2> QED
    BY <2>2, <2>3
<1>2. ChainInv => ResponseIsFirst
  BY <1>1 DEF ResponseIsFirst
<1> QED
  BY <1>2, Invariant, PTL

\* An intended reason reaches the user of the caller whole when it is one that
\* can, and of an unintended one nothing does (RpcCommon.ts:304-316, 365-391).
THEOREM ReasonsArrive == Spec => []ReasonArrives
<1>1. ASSUME ChainInv, NEW d \in DOMAIN runs, runs[d].sent # <<>>
      PROVE  /\ runs[d].prom = "intended" /\ Lasting(runs[d].why) =>
                  ToldOf(d).error = Faithful(runs[d].why)
             /\ runs[d].prom = "unintended" =>
                  ToldOf(d).error = CreateError(FALSE, NoReason)
  BY <1>1, SentVerdict, ToldFaithfully DEF ToldOf, Verdict
<1>2. ChainInv => ReasonArrives
  BY <1>1 DEF ReasonArrives
<1> QED
  BY <1>2, Invariant, PTL

\* Once onError has been called, a run that ends without a response has been
\* reported, wherever its chain failed (MediateRpcHandler.ts:192-215).
THEOREM NoneSilent == Spec => []NothingSilent
<1>1. ChainInv => NothingSilent
  BY RunType DEF NothingSilent, RunOK
<1> QED
  BY <1>1, Invariant, PTL

-----------------------------------------------------------------------------
\* Numbers.

\* A set of numbers that is not empty has a least member.
LEMMA Least ==
    ASSUME NEW S \in SUBSET Nat, S # {}
    PROVE  \E n \in S : \A m \in S : n <= m
<1> DEFINE R == OpToRel(<, Nat)
<1>1. IsWellFoundedOn(R, Nat)
  BY NatLessThanWellFounded
<1>2. \A m, n \in Nat : m < n => <<m, n>> \in R
  BY DEF OpToRel
<1> HIDE DEF R
<1>3. PICK n \in S : \A m \in S : ~ (<<m, n>> \in R)
  BY <1>1, WFMin
<1>4. ASSUME NEW m \in S PROVE n <= m
  <2>1. m \in Nat /\ n \in Nat /\ ~(m < n)
    BY <1>2, <1>3
  <2> QED
    BY <2>1
<1> QED
  BY <1>4

\* Induction over the numbers up to a bound.
LEMMA Upwards ==
    ASSUME NEW n \in Nat, NEW S, 0 \in S, \A k \in 0..(n - 1) : k \in S => k + 1 \in S
    PROVE  0..n \subseteq S
<1> SUFFICES ASSUME 0..n \ S # {} PROVE FALSE
  OBVIOUS
<1> DEFINE M == (0..n) \ S
<1>1. PICK k \in M : \A m \in M : k <= m
  <2>1. M \in SUBSET Nat
    OBVIOUS
  <2> QED
    BY <2>1, Least
<1>2. k # 0 /\ k - 1 \in 0..(n - 1) /\ k - 1 \in S
  BY <1>1
<1> QED
  BY <1>1, <1>2

-----------------------------------------------------------------------------
\* Patterns and topics.

\* The ends of the first words are what the next word leads from.
LEMMA EndsAre ==
    ASSUME NEW n \in Nat, NEW m \in Nat, 1 \in 1..m, NEW to \in [1..n -> [1..m -> SUBSET (1..m)]]
    PROVE  /\ Ends(n, to) \in [0..n -> SUBSET (1..m)]
           /\ Ends(n, to)[0] = {1}
           /\ \A i \in 1..n : \A d : d \in Ends(n, to)[i]
                                   <=> \E j \in Ends(n, to)[i - 1] : d \in to[i][j]
<1> DEFINE After(i, from) == UNION {to[i][j] : j \in from}
           D(f, k) == [i \in 0..k |-> IF i = 0 THEN {1} ELSE After(i, f[i - 1])]
           Follows(f, k) == f[0] = {1} /\ \A i \in 1..k : f[i] = After(i, f[i - 1])
           S == {k \in 0..n : \E f \in [0..k -> SUBSET (1..m)] : Follows(f, k)}
           e == CHOOSE f : f = D(f, n)
<1>1. Ends(n, to) = e
  BY DEF Ends
<1>2. \A i \in 1..n : \A from \in SUBSET (1..m) : After(i, from) \in SUBSET (1..m)
  OBVIOUS
<1> HIDE DEF After
<1>3. 0 \in S
  <2> DEFINE g == [i \in 0..0 |-> {1}]
  <2>1. g \in [0..0 -> SUBSET (1..m)] /\ g[0] = {1} /\ 1..0 = {}
    OBVIOUS
  <2> HIDE DEF g
  <2>2. Follows(g, 0) /\ 0 \in 0..n
    BY <2>1
  <2> QED
    BY <2>1, <2>2
<1>4. ASSUME NEW k \in 0..(n - 1), k \in S PROVE k + 1 \in S
  <2>1. PICK f \in [0..k -> SUBSET (1..m)] : Follows(f, k)
    BY <1>4
  <2> DEFINE g == [i \in 0..(k + 1) |-> IF i = k + 1 THEN After(k + 1, f[k]) ELSE f[i]]
  <2>2. g \in [0..(k + 1) -> SUBSET (1..m)]
    <3>1. k \in 0..k /\ k + 1 \in 1..n /\ \A i \in 0..(k + 1) : i = k + 1 \/ i \in 0..k
      OBVIOUS
    <3>2. After(k + 1, f[k]) \in SUBSET (1..m)
      BY <1>2, <3>1
    <3> QED
      BY <3>1, <3>2
  <2>3. g[0] = {1}
    BY <2>1
  <2>4. ASSUME NEW i \in 1..(k + 1) PROVE g[i] = After(i, g[i - 1])
    <3>1. CASE i = k + 1
      BY <3>1
    <3>2. CASE i # k + 1
      BY <2>1, <3>2
    <3> QED
      BY <3>1, <3>2
  <2> HIDE DEF g
  <2>5. k + 1 \in 0..n /\ Follows(g, k + 1)
    BY <2>3, <2>4
  <2> QED
    BY <2>2, <2>5
<1>5. PICK f \in [0..n -> SUBSET (1..m)] : Follows(f, n)
  <2> HIDE DEF S
  <2>1. n \in S
    <3>1. 0..n \subseteq S
      BY <1>3, <1>4, Upwards
    <3> QED
      BY <3>1
  <2> QED
    BY <2>1 DEF S
<1>6. e = D(e, n)
  <2>1. f = D(f, n)
    BY <1>5
  <2> QED
    BY <2>1
<1> HIDE DEF e
<1>7. \A i \in 0..n : e[i] = IF i = 0 THEN {1} ELSE After(i, e[i - 1])
  BY <1>6
<1>8. e = [i \in 0..n |-> e[i]]
  BY <1>6
<1>9. e[0] = {1} /\ \A i \in 1..n : e[i] = After(i, e[i - 1])
  <2>1. 0 \in 0..n /\ \A i \in 1..n : i \in 0..n /\ i # 0
    OBVIOUS
  <2> QED
    BY <1>7, <2>1
<1>10. \A i \in 0..n : e[i] \in SUBSET (1..m)
  <2> DEFINE Q == {i \in 0..n : e[i] \in SUBSET (1..m)}
  <2>1. 0 \in Q
    BY <1>9
  <2>2. \A k \in 0..(n - 1) : k \in Q => k + 1 \in Q
    <3> SUFFICES ASSUME NEW k \in 0..(n - 1), k \in Q PROVE k + 1 \in Q
      OBVIOUS
    <3>1. k + 1 \in 1..n /\ (k + 1) - 1 = k /\ k + 1 \in 0..n
      OBVIOUS
    <3>2. e[k + 1] = After(k + 1, e[k])
      BY <1>9, <3>1
    <3> QED
      BY <1>2, <3>1, <3>2
  <2> HIDE DEF Q
  <2>3. 0..n \subseteq Q
    BY <2>1, <2>2, Upwards
  <2> QED
    BY <2>3 DEF Q
<1>11. ASSUME NEW i \in 1..n, NEW d
       PROVE  d \in e[i] <=> \E j \in e[i - 1] : d \in to[i][j]
  <2>1. e[i] = After(i, e[i - 1])
    BY <1>9
  <2> QED
    BY <2>1 DEF After
<1> QED
  BY <1>1, <1>8, <1>9, <1>10, <1>11
\* The words of a key and the dots between them.
LEMMA DottedIs ==
    ASSUME NEW words, IsWords(words)
    PROVE  /\ Len(words) \in Nat \ {0} /\ Len(Dotted(words)) = 2 * Len(words) - 1
           /\ DOMAIN Dotted(words) = 1..(2 * Len(words) - 1)
           /\ \A k \in 1..Len(words) : Dotted(words)[2 * k - 1] = words[k] /\ words[k] # "."
           /\ \A k \in 1..(Len(words) - 1) : Dotted(words)[2 * k] = "."
<1> DEFINE n == Len(words)
<1>1. words \in Seq(STRING) /\ n \in Nat \ {0} /\ DOMAIN words = 1..n
      /\ \A i \in 1..n : words[i] # "."
  BY DEF IsWords
<1> HIDE DEF n
<1>2. Dotted(words) = [i \in 1..(2 * n - 1) |-> IF i % 2 = 1 THEN words[(i + 1) \div 2] ELSE "."]
  BY DEF Dotted, n
<1>3. Len(Dotted(words)) = 2 * n - 1
  BY <1>1, <1>2
<1>4. ASSUME NEW k \in 1..n PROVE Dotted(words)[2 * k - 1] = words[k]
  <2>1. 2 * k - 1 \in 1..(2 * n - 1) /\ (2 * k - 1) % 2 = 1 /\ ((2 * k - 1) + 1) \div 2 = k
    BY <1>1
  <2> QED
    BY <1>2, <2>1
<1>5. ASSUME NEW k \in 1..(n - 1) PROVE Dotted(words)[2 * k] = "."
  <2>1. 2 * k \in 1..(2 * n - 1) /\ (2 * k) % 2 = 0
    BY <1>1
  <2> QED
    BY <1>2, <2>1
<1> QED
  BY <1>1, <1>2, <1>3, <1>4, <1>5 DEF n

\* What the regular expression of a pattern matches, the exchange routes: after
\* as many words and dots of the pattern, the expression has come to an odd
\* position of the dotted topic, and the exchange may have come as far.
LEMMA MatchesRouted ==
    ASSUME NEW pattern, NEW topic, IsWords(pattern), IsWords(topic), Matches(pattern, topic)
    PROVE  Routed(pattern, topic)
<1> DEFINE n == Len(pattern)
           m == Len(topic)
           p == Dotted(pattern)
           t == Dotted(topic)
           M == Ends(2 * n - 1, MatchedTo(p, t))
           R == Ends(n, RoutedTo(pattern, topic))
<1>1. /\ n \in Nat \ {0} /\ Len(p) = 2 * n - 1 /\ DOMAIN p = 1..(2 * n - 1)
      /\ \A k \in 1..n : p[2 * k - 1] = pattern[k]
      /\ \A k \in 1..(n - 1) : p[2 * k] = "."
  BY DottedIs
<1>2. /\ m \in Nat \ {0} /\ Len(t) = 2 * m - 1
      /\ \A k \in 1..m : t[2 * k - 1] = topic[k] /\ topic[k] # "."
  BY DottedIs
<1>3. DOMAIN pattern = 1..n
  BY DEF IsWords
<1>4. 2 * m \in M[2 * n - 1]
  <2>1. Len(t) + 1 = 2 * m
    BY <1>2
  <2> QED
    BY <1>1, <2>1 DEF Matches
<1>5. Routed(pattern, topic) <=> m + 1 \in R[n]
  BY DEF Routed
<1> HIDE DEF n, m, p, t
<1>6. /\ M \in [0..(2 * n - 1) -> SUBSET (1..(2 * m))] /\ M[0] = {1}
      /\ \A i \in 1..(2 * n - 1) : \A e : e \in M[i] <=> \E j \in M[i - 1] : e \in MatchedTo(p, t)[i][j]
  <2>1. MatchedTo(p, t) \in [1..(2 * n - 1) -> [1..(2 * m) -> SUBSET (1..(2 * m))]]
    BY <1>1, <1>2 DEF MatchedTo
  <2> DEFINE to == MatchedTo(p, t)
             nn == 2 * n - 1
             mm == 2 * m
  <2>2. nn \in Nat /\ mm \in Nat /\ 1 \in 1..mm
    BY <1>1, <1>2
  <2> HIDE DEF to, nn, mm
  <2>3. to \in [1..nn -> [1..mm -> SUBSET (1..mm)]]
    BY <2>1 DEF to, nn, mm
  <2>4. /\ Ends(nn, to) \in [0..nn -> SUBSET (1..mm)] /\ Ends(nn, to)[0] = {1}
        /\ \A i \in 1..nn : \A e : e \in Ends(nn, to)[i]
                                 <=> \E j \in Ends(nn, to)[i - 1] : e \in to[i][j]
    BY <2>2, <2>3, EndsAre
  <2> QED
    BY <2>4 DEF to, nn, mm
<1>7. /\ R \in [0..n -> SUBSET (1..(m + 1))] /\ R[0] = {1}
      /\ \A i \in 1..n : \A e : e \in R[i] <=> \E j \in R[i - 1] : e \in RoutedTo(pattern, topic)[i][j]
  <2>1. RoutedTo(pattern, topic) \in [1..n -> [1..(m + 1) -> SUBSET (1..(m + 1))]]
    BY <1>2, <1>3 DEF RoutedTo, m
  <2> DEFINE to == RoutedTo(pattern, topic)
             mm == m + 1
  <2>2. n \in Nat /\ mm \in Nat /\ 1 \in 1..mm
    BY <1>1, <1>2
  <2> HIDE DEF to, mm
  <2>3. to \in [1..n -> [1..mm -> SUBSET (1..mm)]]
    BY <2>1 DEF to, mm
  <2>4. /\ Ends(n, to) \in [0..n -> SUBSET (1..mm)] /\ Ends(n, to)[0] = {1}
        /\ \A i \in 1..n : \A e : e \in Ends(n, to)[i]
                                <=> \E j \in Ends(n, to)[i - 1] : e \in to[i][j]
    BY <2>2, <2>3, EndsAre
  <2> QED
    BY <2>4 DEF to, mm
<1> HIDE DEF M, R
\* One word of the pattern, or one dot, leads from j to e.
<1>8. ASSUME NEW i \in 1..(2 * n - 1), NEW e \in M[i]
      PROVE  \E j \in M[i - 1] :
               /\ j \in 1..(2 * m) /\ e \in 1..(2 * m)
               /\ IF p[i] = "#" THEN e = j \/ (j < e /\ t[j] # ".")
                  ELSE e = j + 1 /\ (p[i] = t[j] \/ (p[i] = "*" /\ t[j] # "."))
  <2>1. PICK j \in M[i - 1] : e \in MatchedTo(p, t)[i][j]
    BY <1>6
  <2>2. i \in DOMAIN p /\ j \in 1..(2 * m) /\ Len(t) + 1 = 2 * m
    <3>1. i - 1 \in 0..(2 * n - 1)
      BY <1>1
    <3> QED
      BY <1>1, <1>2, <1>6, <3>1
  <2> QED
    BY <2>1, <2>2 DEF MatchedTo
<1>9. ASSUME NEW k \in 1..n, NEW l \in R[k - 1], NEW e \in 1..(m + 1),
             IF pattern[k] = "#" THEN l <= e
             ELSE e = l + 1 /\ pattern[k] \in {"*", topic[l]}
      PROVE  e \in R[k]
  <2>1. l \in 1..(m + 1)
    <3>1. k - 1 \in 0..n
      BY <1>1
    <3> QED
      BY <1>7, <3>1
  <2>2. e \in RoutedTo(pattern, topic)[k][l]
    BY <1>3, <1>9, <2>1 DEF RoutedTo, m
  <2> QED
    BY <1>7, <2>2
\* After k words and their dots both have come along the same words.
<1> DEFINE Along(k) == \A j \in M[2 * k] : \E l \in R[k] : l \in 1..(m + 1) /\ j = 2 * l - 1
           Q == {k \in 0..(n - 1) : Along(k)}
<1>10. ASSUME NEW k \in 0..(n - 1), Along(k), NEW l \in 1..m, 2 * l \in M[2 * k + 1]
       PROVE  l + 1 \in R[k + 1]
  <2>1. 2 * k + 1 \in 1..(2 * n - 1) /\ (2 * k + 1) - 1 = 2 * k /\ k + 1 \in 1..n
        /\ 2 * (k + 1) - 1 = 2 * k + 1 /\ (k + 1) - 1 = k
    BY <1>1
  <2>2. p[2 * k + 1] = pattern[k + 1]
    BY <1>1, <2>1
  <2>3. PICK j \in M[2 * k] :
          IF p[2 * k + 1] = "#" THEN 2 * l = j \/ (j < 2 * l /\ t[j] # ".")
          ELSE 2 * l = j + 1 /\ (p[2 * k + 1] = t[j] \/ (p[2 * k + 1] = "*" /\ t[j] # "."))
    BY <1>8, <1>10, <2>1
  <2>4. PICK f \in R[k] : f \in 1..(m + 1) /\ j = 2 * f - 1
    BY <1>10
  <2>5. l + 1 \in 1..(m + 1)
    BY <1>2
  <2>6. CASE pattern[k + 1] = "#"
    <3>1. f <= l + 1
      BY <1>2, <2>2, <2>3, <2>4, <2>6
    <3> QED
      BY <1>9, <2>1, <2>4, <2>5, <2>6, <3>1
  <2>7. CASE pattern[k + 1] # "#"
    <3>1. l = f
      BY <1>2, <2>2, <2>3, <2>4, <2>7
    <3>2. t[j] = topic[l]
      BY <1>2, <2>4, <3>1
    <3>3. pattern[k + 1] \in {"*", topic[l]}
      BY <2>2, <2>3, <2>7, <3>2
    <3> QED
      BY <1>9, <2>1, <2>4, <2>5, <2>7, <3>1, <3>3
  <2> QED
    BY <2>6, <2>7
<1>11. 0 \in Q
  <2>1. 0 \in 0..(n - 1) /\ 2 * 0 = 0 /\ 1 \in 1..(m + 1) /\ 1 = 2 * 1 - 1
    BY <1>1, <1>2
  <2> QED
    BY <1>6, <1>7, <2>1
<1>12. ASSUME NEW k \in 0..((n - 1) - 1), k \in Q PROVE k + 1 \in Q
  <2>1. k \in 0..(n - 1) /\ k + 1 \in 0..(n - 1) /\ k + 1 \in 1..(n - 1)
        /\ 2 * (k + 1) \in 1..(2 * n - 1) /\ 2 * (k + 1) - 1 = 2 * k + 1
    BY <1>1
  <2> SUFFICES ASSUME NEW e \in M[2 * (k + 1)]
               PROVE  \E l \in R[k + 1] : l \in 1..(m + 1) /\ e = 2 * l - 1
    BY <2>1
  <2>2. p[2 * (k + 1)] = "."
    BY <1>1, <2>1
  <2>3. PICK j \in M[2 * k + 1] : /\ j \in 1..(2 * m) /\ e \in 1..(2 * m)
                                 /\ e = j + 1 /\ t[j] = "."
    BY <1>8, <2>1, <2>2
  <2>4. PICK l \in 1..m : j = 2 * l
    <3>1. ~ \E l \in 1..m : j = 2 * l - 1
      BY <1>2, <2>3
    <3>2. \/ j = 2 * (j \div 2) /\ j \div 2 \in 1..m
          \/ j = 2 * ((j + 1) \div 2) - 1 /\ (j + 1) \div 2 \in 1..m
      BY <1>2, <2>3
    <3> QED
      BY <3>1, <3>2
  <2>5. l + 1 \in R[k + 1]
    BY <1>10, <1>12, <2>1, <2>3, <2>4
  <2> QED
    BY <1>2, <2>3, <2>4, <2>5
<1>13. Along(n - 1)
  <2>1. n - 1 \in Nat /\ n - 1 \in 0..(n - 1)
    BY <1>1
  <2> HIDE DEF Q
  <2>2. 0..(n - 1) \subseteq Q
    BY <1>11, <1>12, <2>1, Upwards
  <2> QED
    BY <2>1, <2>2 DEF Q
<1>14. m + 1 \in R[n]
  <2>1. n - 1 \in 0..(n - 1) /\ 2 * (n - 1) + 1 = 2 * n - 1 /\ (n - 1) + 1 = n /\ m \in 1..m
    BY <1>1, <1>2
  <2> HIDE DEF Along
  <2> QED
    BY <1>4, <1>10, <1>13, <2>1
<1> QED
  BY <1>5, <1>14

-----------------------------------------------------------------------------
\* The actions that a run has started and will start are for its request.
OwnOK(run) ==
    /\ run.started \subseteq MatchedBy[run.req]
    /\ \A i \in run.todo : handlers[i] \in MatchedBy[run.req]

OwnInv == ChainInv /\ \A d \in DOMAIN runs : OwnOK(runs[d])

\* A run goes on with its own map and starts nothing but what the map calls.
GoesOn(old, new) ==
    /\ new.req = old.req /\ new.todo \subseteq old.todo
    /\ new.started \subseteq old.started \cup {handlers[i] : i \in old.todo}

LEMMA GoesOnInv ==
    ASSUME OwnInv, ChainInv', NEW d \in DOMAIN runs, NEW run, GoesOn(runs[d], run),
           Becomes(d, run)
    PROVE  OwnInv'
<1>1. /\ runs' = [runs EXCEPT ![d] = run] /\ handlers' = handlers
      /\ DOMAIN runs' = DOMAIN runs
  BY DEF Becomes, OwnInv, ChainInv, TypeOK
<1>2. OwnOK(run)
  BY DEF OwnInv, OwnOK, GoesOn
<1>3. \A e \in DOMAIN runs : runs'[e] = IF e = d THEN run ELSE runs[e]
  BY <1>1 DEF OwnInv, ChainInv, TypeOK
<1> QED
  BY <1>1, <1>2, <1>3 DEF OwnInv, OwnOK

LEMMA SettlesGoesOn ==
    ASSUME NEW run \in RunRecord, NEW a, NEW how, NEW why
    PROVE  /\ Settles(run, a, how, why).req = run.req
           /\ Settles(run, a, how, why).todo = run.todo
           /\ Settles(run, a, how, why).started = run.started
BY DEF Settles, RunRecord

LEMMA MapNextOwn ==
    ASSUME OwnInv, ChainInv', NEW d \in DOMAIN runs, MapNext(d)
    PROVE  OwnInv'
<1> DEFINE run == runs[d]
<1>1. run \in RunRecord
  BY RunType DEF OwnInv
<1>2. PICK i \in run.todo :
        \/ Becomes(d, [run EXCEPT !.todo = @ \ {i}, !.started = @ \cup {handlers[i]}])
        \/ \E why \in Throws(handlers[i]) :
             Becomes(d, Thrown([run EXCEPT !.todo = {}, !.started = @ \cup {handlers[i]},
                           !.ended = @ \cup {handlers[i]}, !.raced = TRUE], handlers[i], why))
  BY DEF MapNext
<1> DEFINE a == handlers[i]
           on == [run EXCEPT !.todo = @ \ {i}, !.started = @ \cup {a}]
           off == [run EXCEPT !.todo = {}, !.started = @ \cup {a},
                              !.ended = @ \cup {a}, !.raced = TRUE]
<1>3. off \in RunRecord /\ GoesOn(run, on) /\ GoesOn(run, off)
  <2>1. a \in Actions
    BY RunType DEF OwnInv
  <2> QED
    BY <1>1, <2>1 DEF RunRecord, GoesOn
<1>4. CASE Becomes(d, on)
  <2> HIDE DEF on
  <2> QED
    BY <1>3, <1>4, GoesOnInv
<1>5. ASSUME NEW why \in Throws(a), Becomes(d, Thrown(off, a, why))
      PROVE  OwnInv'
  <2> HIDE DEF off
  <2>1. GoesOn(run, Thrown(off, a, why))
    BY <1>3, SettlesGoesOn DEF Thrown, GoesOn
  <2> QED
    BY <1>5, <2>1, GoesOnInv
<1> QED
  BY <1>2, <1>4, <1>5

\* Every other step of a run leaves its map alone.
LEMMA ChainOwn ==
    ASSUME OwnInv, ChainInv', NEW d \in DOMAIN runs,
           \/ Continue(d) \/ Reply(d) \/ Excuse(d)
           \/ \E a \in Actions : Respond(d, a) \/ End(d, a)
    PROVE  OwnInv'
<1> DEFINE run == runs[d]
           Keeps(new) == new.req = run.req /\ new.todo = run.todo /\ new.started = run.started
<1>1. run \in RunRecord
  BY RunType DEF OwnInv
<1>2. \A next, res : Keeps(Emitted(run, next)) /\ Keeps(Sent(run, res))
  BY <1>1 DEF Emitted, Sent, RunRecord
<1>3. \A a, how, why : Keeps(Settles(run, a, how, why))
  BY <1>1, SettlesGoesOn
<1>4. ASSUME NEW a \in Actions
      PROVE  LET on == [run EXCEPT !.ended = @ \cup {a}, !.raced = TRUE]
             IN  Keeps(on) /\ \A why : Keeps(Thrown(on, a, why))
  <2> DEFINE on == [run EXCEPT !.ended = @ \cup {a}, !.raced = TRUE]
  <2>1. on \in RunRecord /\ Keeps(on)
    BY <1>1 DEF RunRecord
  <2> HIDE DEF on
  <2>2. \A why : Keeps(Thrown(on, a, why))
    BY <2>1, SettlesGoesOn DEF Thrown
  <2> QED
    BY <2>1, <2>2 DEF on
<1>5. \A step : Keeps([run EXCEPT !.step = step])
  BY <1>1 DEF RunRecord
<1>6. ASSUME NEW new, Keeps(new), Becomes(d, new) PROVE OwnInv'
  BY <1>6, GoesOnInv DEF GoesOn
<1> HIDE DEF Keeps
<1>7. CASE Continue(d)
  <2>1. run.prom \in {"resolved", "intended", "unintended"}
    BY <1>1, <1>7 DEF Continue, RunRecord
  <2>2. \/ \E step : Becomes(d, [run EXCEPT !.step = step])
        \/ Becomes(d, Emitted(run, "excusing"))
    BY <1>7, <2>1 DEF Continue
  <2> QED
    BY <1>2, <1>5, <1>6, <2>2
<1>8. CASE Reply(d) \/ Excuse(d)
  BY <1>2, <1>6, <1>8 DEF Reply, Excuse
<1>9. ASSUME NEW a \in Actions, Respond(d, a) PROVE OwnInv'
  BY <1>3, <1>6, <1>9 DEF Respond
<1>10. ASSUME NEW a \in Actions, End(d, a) PROVE OwnInv'
  BY <1>4, <1>6, <1>10 DEF End
<1> QED
  BY <1>7, <1>8, <1>9, <1>10

LEMMA AcceptedOwn ==
    ASSUME OwnInv, ChainInv', NEW r \in Requests, Accepted(r)
    PROVE  OwnInv'
<1> DEFINE run == [req |-> r, todo |-> GetHandlers(r), started |-> {}, ended |-> {},
                   raced |-> FALSE, prom |-> "pending", by |-> {}, why |-> NoReason,
                   step |-> "waiting", sent |-> <<>>, reported |-> FALSE]
<1>1. runs' = Append(runs, run) /\ handlers' = handlers
  BY DEF Accepted, Moves
<1>2. OwnOK(run)
  BY DEF OwnOK, GetHandlers
<1> HIDE DEF run
<1>3. ASSUME NEW d \in DOMAIN runs'
      PROVE  runs'[d] = run \/ (d \in DOMAIN runs /\ runs'[d] = runs[d])
  BY <1>1 DEF OwnInv, ChainInv, TypeOK
<1> QED
  BY <1>1, <1>2, <1>3 DEF OwnInv, OwnOK

LEMMA NextOwn == OwnInv /\ [Next]_vars => OwnInv'
<1> SUFFICES ASSUME OwnInv, [Next]_vars PROVE OwnInv'
  OBVIOUS
<1>1. ChainInv'
  BY NextInv DEF OwnInv
<1>2. ASSUME NEW a \in Actions, Handle(a) PROVE OwnInv'
  <2>1. \A i \in DOMAIN handlers : handlers'[i] = handlers[i]
    BY <1>2 DEF Handle, OwnInv, ChainInv, TypeOK
  <2>2. runs' = runs
    BY <1>2 DEF Handle
  <2> QED
    BY <1>1, <2>1, <2>2 DEF OwnInv, OwnOK, ChainInv, TypeOK
<1>3. CASE UNCHANGED <<handlers, runs>>
  BY <1>1, <1>3 DEF OwnInv, OwnOK
<1>4. ASSUME NEW r \in Requests,
             Publish(r) \/ Unreadable(r) \/ GivenBack(r) \/ Acknowledged(r) \/ Expire(r)
      PROVE  UNCHANGED <<handlers, runs>>
  BY <1>4 DEF Publish, Unreadable, GivenBack, Acknowledged, Expire, Moves
<1>5. ASSUME NEW r \in Requests, Accepted(r) PROVE OwnInv'
  BY <1>1, <1>5, AcceptedOwn
<1>6. CASE ChannelLost \/ UNCHANGED vars
  BY <1>3, <1>6 DEF ChannelLost, vars
<1>7. ASSUME NEW d \in DOMAIN runs, Chain(d) PROVE OwnInv'
  BY <1>1, <1>7, MapNextOwn, ChainOwn DEF Chain
<1>8. ASSUME NEW d \in DOMAIN runs, NEW a \in Actions, Respond(d, a) \/ End(d, a)
      PROVE  OwnInv'
  BY <1>1, <1>8, ChainOwn
<1> QED
  BY <1>2, <1>3, <1>4, <1>5, <1>6, <1>7, <1>8 DEF Next

\* No action whose key has nothing but wildcards and literal words ever runs on a
\* request that was not published to its own pattern, whatever other patterns,
\* of any words, brought it to the queue they share: what the regular expression
\* of such a key matches the exchange would have routed
\* (MediateRpcHandler.ts:227-245).
THEOREM OwnRequests == Spec => []OwnRequestsOnly
<1>1. Init => OwnInv
  BY InitInv DEF Init, OwnInv
<1>2. OwnInv => OwnRequestsOnly
  <2> SUFFICES ASSUME OwnInv, NEW d \in DOMAIN runs, NEW a \in runs[d].started,
                      Plain(KeyOf[a])
               PROVE  a \in RoutedFor[runs[d].req]
    BY DEF OwnRequestsOnly
  <2>1. runs[d].req \in Requests /\ runs[d].started \subseteq MatchedBy[runs[d].req]
    BY RunType DEF OwnInv, OwnOK, RunRecord
  <2>2. a \in Actions /\ Matches(KeyOf[a], TopicOf[runs[d].req])
    BY <2>1 DEF MatchedBy
  <2> QED
    BY <2>1, <2>2, MatchesRouted, KeysAssumption, TopicsAssumption DEF RoutedFor
<1> QED
  BY <1>1, <1>2, NextOwn, PTL DEF Spec
=============================================================================
