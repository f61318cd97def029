-------------------------- MODULE ControllersProofs --------------------------
(***************************************************************************)
(* What is proved of Controllers for every choice of classes, however they *)
(* inherit, override and decorate, and every number of requests: type      *)
(* correctness, that nothing is served before every action is registered   *)
(* as it is dispatched, and that actions with a declared class are called *)
(* with models, validated if they say so.                                  *)
(***************************************************************************)
EXTENDS Controllers, WellFoundedInduction, TLAPS

\* A set of numbers that is not empty has a least member.
LEMMA Least ==
    ASSUME NEW S \in SUBSET Nat, S # {}
    PROVE  \E n \in S : \A m \in S : n <= m
<1> DEFINE R == OpToRel(<, Nat)
<1>1. IsWellFoundedOn(R, Nat)
  BY NatLessThanWellFounded
<1>2. \A m, n \in Nat : m < n => <<m, n>> \in R
  BY DEF OpToRel
<1> HIDE DEF R
<1>3. PICK n \in S : \A m \in S : ~ (<<m, n>> \in R)
  BY <1>1, WFMin
<1>4. ASSUME NEW m \in S PROVE n <= m
  <2>1. m \in Nat /\ n \in Nat /\ ~(m < n)
    BY <1>2, <1>3
  <2> QED
    BY <2>1
<1> QED
  BY <1>4

-----------------------------------------------------------------------------
\* The exports that have been turned to have their actions registered or about
\* to be; after the hunt that is all of them, and nothing is left to register.
HuntInv ==
    /\ phase # "failed" =>
         \A i \in 1..next : ActionsOf(Controllers[i]) \subseteq registered \cup todo
    /\ phase \notin {"hunting", "failed"} => next = Len(Controllers) /\ todo = {}

\* What OnlyModels says of one parameter of a run.
ModelFor(r, i, param, run) ==
    param.kind = "payload" /\ Typed(param.decl) /\ payload[r].shape # "none" =>
        /\ param.decl.enableValidation = "on" => param.decl.check \in payload[r].passes
        /\ \E value \in Values :
             /\ <<i, value>> \in run.models /\ value.model
             /\ param.decl.type = "Array" => value.shape = "many"

\* The parameters resolved so far have been given models, and an action is
\* called with all of them.
RunOK(r, a, run) ==
    /\ run \in Run /\ run.args <= Len(ParamsOf(a))
    /\ run.st \in {"running", "returned", "over"} => run.args = Len(ParamsOf(a))
    /\ \A i \in 1..run.args : ModelFor(r, i, ParamsOf(a)[i], run)

RunsOK ==
    /\ runs = [r \in Requests |-> [a \in DOMAIN runs[r] |-> runs[r][a]]]
    /\ \A r \in Requests : DOMAIN runs[r] \subseteq Action
    /\ \A r \in Requests : \A a \in DOMAIN runs[r] : RunOK(r, a, runs[r][a])

\* The inductive invariant.
Inv == TypeOK /\ HuntInv /\ RunsOK

-----------------------------------------------------------------------------
\* Actions, parameters and payloads.

LEMMA ActionsOfType ==
    ASSUME NEW c \in DOMAIN Chain
    PROVE  ActionsOf(c) \subseteq Action
BY DEF ActionsOf, Action

LEMMA ParamsOfType ==
    ASSUME NEW a \in Action
    PROVE  ParamsOf(a) \in Seq(Param)
<1> DEFINE chain == Chain[a.ctrl]
           own == {k \in DOMAIN chain :
                     <<chain[k], a.name>> \in defined /\ Params[chain[k]][a.name] # <<>>}
<1>1. chain \in Seq(Classes) /\ a.name \in Methods
  BY ChainAssumption DEF Action
<1>2. ParamsOf(a) = IF own = {} THEN <<>> ELSE Params[chain[Min(own)]][a.name]
  BY DEF ParamsOf
<1>3. ASSUME own # {} PROVE Min(own) \in DOMAIN chain
  <2>1. own \in SUBSET Nat /\ own \subseteq DOMAIN chain
    BY <1>1
  <2> HIDE DEF own
  <2>2. \E k \in own : \A j \in own : k <= j
    BY <1>3, <2>1, Least
  <2> QED
    BY <2>1, <2>2 DEF Min
<1> HIDE DEF own
<1>4. CASE own = {}
  BY <1>2, <1>4
<1>5. CASE own # {}
  <2>1. chain[Min(own)] \in Classes
    BY <1>1, <1>3, <1>5
  <2> QED
    BY <1>1, <1>2, <1>5, <2>1, ParamsAssumption
<1> QED
  BY <1>4, <1>5

\* What is not refused is made a model of a declared class, in an array if it takes
\* one; where validation is on, that is nothing but what passes.
LEMMA Translated ==
    ASSUME NEW decl \in Declarations, NEW raw \in Payloads
    PROVE  /\ translateModel(decl, raw) \in Values
           /\ translateModel(decl, raw).shape # "refused" /\ Typed(decl) /\ raw.shape # "none" =>
                /\ decl.enableValidation = "on" => decl.check \in raw.passes
                /\ translateModel(decl, raw).model
                /\ decl.type = "Array" => translateModel(decl, raw).shape = "many"
<1> DEFINE item == translate(decl, raw)
           value == translateModel(decl, raw)
<1>1. CASE raw.shape = "none"
  BY <1>1 DEF translateModel, Raw, Values
<1>2. CASE raw.shape # "none"
  <2>1. /\ item \in Values /\ item.shape \in {"one", "many", "refused"}
        /\ item.shape # "refused" =>
             (decl.enableValidation = "on" => decl.check \in raw.passes) /\ item.model
    BY <1>2 DEF translate, Validates, Raw, Payloads, Values
  <2>2. value = Parsed(decl, raw)
    BY <1>2 DEF translateModel
  <2> HIDE DEF value
  <2>3. CASE decl.type = "Array"
    <3>1. value = toArray(decl, raw)
      BY <2>2, <2>3 DEF Parsed
    <3>2. CASE decl.ItemClass
      <4>1. value = [item EXCEPT !.shape = IF @ = "refused" THEN @ ELSE "many"]
        BY <3>1, <3>2 DEF toArray
      <4> HIDE DEF item
      <4>2. /\ value \in Values /\ value.model = item.model
            /\ value.shape = IF item.shape = "refused" THEN "refused" ELSE "many"
        BY <2>1, <4>1 DEF Values
      <4> QED
        BY <2>1, <4>2 DEF value
    <3>3. CASE ~decl.ItemClass
      <4>1. value \in Values
        BY <3>1, <3>3 DEF toArray, Raw, Values
      <4> QED
        BY <2>3, <3>3, <4>1 DEF Typed, value
    <3> QED
      BY <3>2, <3>3
  <2>4. CASE decl.type # "Array" /\ Typed(decl)
    <3>1. value = item
      BY <2>2, <2>4 DEF Parsed, Typed
    <3> HIDE DEF item
    <3> QED
      BY <2>1, <2>4, <3>1 DEF value
  <2>5. CASE decl.type # "Array" /\ ~Typed(decl)
    <3>1. value = Raw(raw.shape)
      BY <2>2, <2>5 DEF Parsed, Typed
    <3>2. value \in Values
      BY <1>2, <3>1 DEF Raw, Payloads, Values
    <3> QED
      BY <2>5, <3>2 DEF value
  <2> QED
    BY <2>3, <2>4, <2>5
<1> QED
  BY <1>1, <1>2

-----------------------------------------------------------------------------
\* The invariant holds at first.

LEMMA InitInv == Init => Inv
<1> SUFFICES ASSUME Init PROVE Inv
  OBVIOUS
<1>1. /\ runs = [r \in Requests |-> <<>>]
      /\ \A r \in Requests : runs[r] = <<>> /\ DOMAIN runs[r] = {}
  BY DEF Init
<1>2. runs = [r \in Requests |-> [a \in DOMAIN runs[r] |-> runs[r][a]]]
  <2>1. <<>> = [a \in {} |-> <<>>[a]]
    OBVIOUS
  <2> QED
    BY <1>1, <2>1
<1>3. RunsOK
  BY <1>1, <1>2 DEF RunsOK
<1>4. Len(Controllers) \in Nat
  BY ControllersAssumption
<1>5. TypeOK
  BY <1>1, <1>4 DEF Init, TypeOK, Phases, Answers
<1>6. HuntInv
  BY DEF Init, HuntInv
<1> QED
  BY <1>3, <1>5, <1>6 DEF Inv

\* The steps of the add-on leave the runs alone, and the steps of the runs leave
\* the add-on alone.

LEMMA RunsSame ==
    ASSUME Inv, UNCHANGED <<defined, payload, runs>>
    PROVE  RunsOK'
<1>1. ASSUME NEW r \in Requests, NEW a \in DOMAIN runs[r]
      PROVE  RunOK(r, a, runs[r][a])'
  <2>1. RunOK(r, a, runs[r][a])
    BY DEF Inv, RunsOK
  <2>2. ParamsOf(a)' = ParamsOf(a)
    BY DEF ParamsOf
  <2> QED
    BY <2>1, <2>2 DEF RunOK, ModelFor
<1> QED
  BY <1>1 DEF Inv, RunsOK

LEMMA HuntSame ==
    ASSUME Inv, UNCHANGED <<source, phase, next, todo, registered>>
    PROVE  HuntInv'
BY DEF Inv, HuntInv, source, ActionsOf, Extracted, IsDecorated

\* The runs that RunsOK is about are of their type.
LEMMA RunsType ==
    ASSUME Inv, RunsOK', defined' \subseteq Own, decorated' \subseteq defined', valid' = valid,
           UNCHANGED payload, phase' \in Phases, next' \in 0..Len(Controllers),
           todo' \subseteq Action, registered' \subseteq Action,
           answer' \in [Requests -> Answers]
    PROVE  TypeOK'
BY DEF Inv, TypeOK, RunsOK, RunOK

LEMMA HuntStep ==
    ASSUME Inv, NextController \/ Hunted \/ Started \/ DeadLetter \/ \E a \in todo : Register(a)
    PROVE  Inv'
<1>1. /\ defined \subseteq Own /\ decorated \subseteq defined /\ phase \in Phases
      /\ next \in 0..Len(Controllers) /\ todo \subseteq Action /\ registered \subseteq Action
      /\ answer \in [Requests -> Answers] /\ Len(Controllers) \in Nat
  BY ControllersAssumption DEF Inv, TypeOK
<1>2. UNCHANGED <<defined, decorated, valid, payload, runs, answer>>
  BY DEF NextController, Hunted, Started, DeadLetter, Register, source
<1>3. RunsOK'
  BY <1>2, RunsSame
<1>4. \A c : ActionsOf(c)' = ActionsOf(c)
  BY <1>2 DEF ActionsOf, Extracted, IsDecorated
<1>5. HuntInv /\ Controllers \in Seq(DOMAIN Chain)
  BY ControllersAssumption DEF Inv
<1>6. ASSUME NextController PROVE TypeOK' /\ HuntInv'
  <2> DEFINE c == Controllers[next + 1]
  <2>1. next + 1 \in 1..Len(Controllers) /\ c \in DOMAIN Chain
    BY <1>1, <1>5, <1>6 DEF NextController
  <2>2. /\ phase = "hunting" /\ todo = {} /\ next' = next + 1 /\ registered' = registered
        /\ \/ todo' = ActionsOf(c) /\ phase' = phase
           \/ todo' = todo /\ phase' = "failed"
    BY <1>6 DEF NextController
  <2>3. todo' \subseteq Action
    BY <1>1, <2>1, <2>2, ActionsOfType
  <2>4. TypeOK'
    BY <1>1, <1>2, <1>3, <2>1, <2>2, <2>3, RunsType DEF Phases
  <2>5. ASSUME phase' # "failed", NEW i \in 1..next'
        PROVE  ActionsOf(Controllers[i]) \subseteq registered' \cup todo'
    <3>1. CASE i = next + 1
      BY <2>2, <2>5, <3>1
    <3>2. CASE i # next + 1
      <4>1. i \in 1..next
        BY <1>1, <2>2, <2>5, <3>2
      <4> QED
        BY <1>5, <2>2, <4>1 DEF HuntInv
    <3> QED
      BY <3>1, <3>2
  <2>6. HuntInv'
    BY <1>4, <2>2, <2>5 DEF HuntInv
  <2> QED
    BY <2>4, <2>6
<1>7. ASSUME NEW a \in todo, Register(a) PROVE TypeOK' /\ HuntInv'
  <2>1. /\ phase = "hunting" /\ next' = next
        /\ \/ todo' = todo \ {a} /\ registered' = registered \cup {a} /\ phase' = phase
           \/ todo' = todo /\ registered' = registered /\ phase' = "failed"
    BY <1>7 DEF Register
  <2>2. TypeOK'
    BY <1>1, <1>2, <1>3, <2>1, RunsType DEF Phases
  <2>3. HuntInv'
    BY <1>4, <1>5, <2>1 DEF HuntInv
  <2> QED
    BY <2>2, <2>3
<1>8. ASSUME Hunted \/ Started \/ DeadLetter PROVE TypeOK' /\ HuntInv'
  <2>1. UNCHANGED <<next, todo, registered>> /\ phase' \in Phases
    BY <1>8 DEF Hunted, Started, DeadLetter, Phases
  <2>2. TypeOK'
    BY <1>1, <1>2, <1>3, <2>1, RunsType
  <2>3. HuntInv'
    BY <1>4, <1>5, <1>8, <2>1 DEF HuntInv, Hunted, Started, DeadLetter
  <2> QED
    BY <2>2, <2>3
<1> QED
  BY <1>3, <1>6, <1>7, <1>8 DEF Inv

-----------------------------------------------------------------------------
\* What the proxies do.

\* The steps of requests change runs and answers only.
LEMMA RunsStep ==
    ASSUME Inv, UNCHANGED <<source, phase, next, todo, registered>>,
           RunsOK', answer' \in [Requests -> Answers]
    PROVE  Inv'
<1>1. HuntInv'
  BY HuntSame
<1>2. TypeOK'
  BY RunsType DEF Inv, TypeOK, source
<1> QED
  BY <1>1, <1>2 DEF Inv

LEMMA SettlesType ==
    ASSUME Inv, NEW r, NEW how \in Answers, Settles(r, how)
    PROVE  answer' \in [Requests -> Answers]
BY DEF Inv, TypeOK, Settles

\* A run that stays one of the kind.
LEMMA ContinuesOK ==
    ASSUME Inv, NEW r \in Requests, NEW a \in DOMAIN runs[r], NEW run, RunOK(r, a, run),
           runs' = [runs EXCEPT ![r][a] = run], UNCHANGED source
    PROVE  RunsOK'
<1> DEFINE mine == [runs[r] EXCEPT ![a] = run]
<1>1. /\ runs = [q \in Requests |-> [b \in DOMAIN runs[q] |-> runs[q][b]]]
      /\ \A q \in Requests : DOMAIN runs[q] \subseteq Action
      /\ \A q \in Requests : \A b \in DOMAIN runs[q] : RunOK(q, b, runs[q][b])
  BY DEF Inv, RunsOK
<1>2. runs' = [runs EXCEPT ![r] = mine]
  BY <1>1
<1>3. DOMAIN mine = DOMAIN runs[r] /\ mine = [b \in DOMAIN runs[r] |-> mine[b]]
      /\ \A b \in DOMAIN runs[r] : mine[b] = IF b = a THEN run ELSE runs[r][b]
  BY <1>1
<1> HIDE DEF mine
<1>4. DOMAIN runs' = Requests /\ \A q \in Requests : runs'[q] = IF q = r THEN mine ELSE runs[q]
  BY <1>1, <1>2
<1>5. ASSUME NEW q \in Requests
      PROVE  /\ DOMAIN runs'[q] = DOMAIN runs[q]
             /\ runs'[q] = [b \in DOMAIN runs'[q] |-> runs'[q][b]]
             /\ \A b \in DOMAIN runs[q] : RunOK(q, b, runs'[q][b])
  <2>1. runs[q] = [b \in DOMAIN runs[q] |-> runs[q][b]]
    BY <1>1
  <2>2. CASE q = r
    BY <1>1, <1>3, <1>4, <2>2
  <2>3. CASE q # r
    BY <1>1, <1>4, <2>1, <2>3
  <2> QED
    BY <2>2, <2>3
<1>6. runs' = [q \in Requests |-> [b \in DOMAIN runs'[q] |-> runs'[q][b]]]
  <2>1. runs' = [q \in Requests |-> runs'[q]]
    BY <1>1, <1>2, <1>4
  <2> QED
    BY <1>5, <2>1
<1>7. ASSUME NEW q \in Requests, NEW b \in DOMAIN runs'[q]
      PROVE  RunOK(q, b, runs[q][b])'
  <2>1. RunOK(q, b, runs'[q][b])
    BY <1>5
  <2>2. ParamsOf(b)' = ParamsOf(b)
    BY DEF ParamsOf, source
  <2> QED
    BY <2>1, <2>2 DEF RunOK, ModelFor, source
<1> QED
  BY <1>1, <1>5, <1>6, <1>7 DEF RunsOK

LEMMA DeliverInv ==
    ASSUME Inv, NEW r \in Requests, Deliver(r)
    PROVE  Inv'
<1> DEFINE new == [st |-> "resolving", args |-> 0, given |-> {}, models |-> {}]
<1>1. PICK hits \in SUBSET registered : runs' = [runs EXCEPT ![r] = [a \in hits |-> new]]
  BY DEF Deliver
<1>2. UNCHANGED <<source, phase, next, todo, registered, answer>>
  BY DEF Deliver
<1>3. /\ runs = [q \in Requests |-> [b \in DOMAIN runs[q] |-> runs[q][b]]]
      /\ \A q \in Requests : DOMAIN runs[q] \subseteq Action
      /\ \A q \in Requests : \A b \in DOMAIN runs[q] : RunOK(q, b, runs[q][b])
  BY DEF Inv, RunsOK
<1>4. hits \subseteq Action
  BY DEF Inv, TypeOK
<1>5. ASSUME NEW a \in Action PROVE RunOK(r, a, new)
  <2>1. Len(ParamsOf(a)) \in Nat /\ new \in Run /\ 1..new.args = {}
    BY ParamsOfType DEF Run
  <2> QED
    BY <2>1 DEF RunOK
<1> HIDE DEF new
<1>6. \A q \in Requests : runs'[q] = IF q = r THEN [a \in hits |-> new] ELSE runs[q]
  BY <1>1, <1>3
<1>7. ASSUME NEW q \in Requests
      PROVE  /\ runs'[q] = [b \in DOMAIN runs'[q] |-> runs'[q][b]]
             /\ DOMAIN runs'[q] \subseteq Action
             /\ \A b \in DOMAIN runs'[q] : RunOK(q, b, runs'[q][b])
  <2>1. runs[q] = [b \in DOMAIN runs[q] |-> runs[q][b]]
    BY <1>3
  <2>2. CASE q = r
    BY <1>4, <1>5, <1>6, <2>2
  <2>3. CASE q # r
    BY <1>3, <1>6, <2>1, <2>3
  <2> QED
    BY <2>2, <2>3
<1>8. runs' = [q \in Requests |-> [b \in DOMAIN runs'[q] |-> runs'[q][b]]]
  <2>1. runs' = [q \in Requests |-> runs'[q]]
    BY <1>1, <1>3
  <2> QED
    BY <1>7, <2>1
<1>9. ASSUME NEW q \in Requests, NEW b \in DOMAIN runs'[q]
      PROVE  RunOK(q, b, runs[q][b])'
  <2>1. RunOK(q, b, runs'[q][b])
    BY <1>7
  <2>2. ParamsOf(b)' = ParamsOf(b)
    BY <1>2 DEF ParamsOf, source
  <2> QED
    BY <1>2, <2>1, <2>2 DEF RunOK, ModelFor, source
<1>10. RunsOK'
  BY <1>7, <1>8, <1>9 DEF RunsOK
<1> QED
  BY <1>2, <1>10, RunsStep DEF Inv, TypeOK

LEMMA RunType ==
    ASSUME Inv, NEW r \in Requests, NEW a \in DOMAIN runs[r]
    PROVE  /\ a \in Action /\ runs[r][a] \in Run /\ RunOK(r, a, runs[r][a])
           /\ payload[r] \in Payloads
           /\ ParamsOf(a) \in Seq(Param)
<1>1. a \in Action /\ RunOK(r, a, runs[r][a])
  BY DEF Inv, RunsOK
<1>2. payload[r] \in Payloads
  BY SentAssumption DEF Inv, TypeOK
<1> QED
  BY <1>1, <1>2, ParamsOfType DEF RunOK

LEMMA ThrowsInv ==
    ASSUME Inv, NEW r \in Requests, NEW a \in DOMAIN runs[r], Throws(r, a, runs[r][a])
    PROVE  Inv'
<1> DEFINE run == runs[r][a]
           new == [run EXCEPT !.st = "threw"]
<1>1. run \in Run /\ RunOK(r, a, run)
  BY RunType
<1>2. RunOK(r, a, new)
  BY <1>1 DEF RunOK, Run, ModelFor
<1>3. runs' = [runs EXCEPT ![r][a] = new] /\ UNCHANGED <<source, phase, next, todo, registered>>
  BY DEF Throws, Continues
<1> HIDE DEF new
<1>4. RunsOK'
  BY <1>2, <1>3, ContinuesOK
<1>5. answer' \in [Requests -> Answers]
  <2>1. Settles(r, "thrown") \/ UNCHANGED answer
    BY DEF Throws
  <2> QED
    BY <2>1, SettlesType DEF Inv, TypeOK, Answers
<1> QED
  BY <1>3, <1>4, <1>5, RunsStep

LEMMA MoreArgs ==
    ASSUME NEW run \in Run, NEW value \in Values, NEW f \in {"resolve", "reject"}
    PROVE  LET parsed == [run EXCEPT !.args = @ + 1, !.models = @ \cup {<<run.args + 1, value>>}]
               handed == [run EXCEPT !.given = @ \cup {f}, !.args = @ + 1]
           IN  /\ parsed \in Run /\ parsed.st = run.st /\ parsed.args = run.args + 1
               /\ parsed.models = run.models \cup {<<run.args + 1, value>>}
               /\ handed \in Run /\ handed.st = run.st /\ handed.args = run.args + 1
               /\ handed.models = run.models
<1>1. /\ run.args + 1 \in Nat /\ run.models \cup {<<run.args + 1, value>>} \in SUBSET (Nat \X Values)
      /\ run.given \cup {f} \in SUBSET {"resolve", "reject"}
  BY DEF Run
<1> HIDE DEF Values
<1> QED
  BY <1>1 DEF Run

\* One more parameter is resolved.
LEMMA ResolvedOK ==
    ASSUME Inv, NEW r \in Requests, NEW a \in DOMAIN runs[r], NEW new \in Run,
           runs[r][a].st = "resolving", new.st = "resolving",
           runs[r][a].args < Len(ParamsOf(a)),
           new.args = runs[r][a].args + 1, runs[r][a].models \subseteq new.models,
           ModelFor(r, new.args, ParamsOf(a)[new.args], new)
    PROVE  RunOK(r, a, new)
<1> DEFINE run == runs[r][a]
<1>1. run \in Run /\ RunOK(r, a, run) /\ Len(ParamsOf(a)) \in Nat
  BY RunType
<1>2. run.args \in Nat
  BY <1>1 DEF Run
<1>3. ASSUME NEW i \in 1..new.args PROVE ModelFor(r, i, ParamsOf(a)[i], new)
  <2>1. CASE i = new.args
    BY <2>1
  <2>2. CASE i # new.args
    <3>1. i \in 1..run.args
      BY <1>2, <2>2
    <3>2. ModelFor(r, i, ParamsOf(a)[i], run)
      BY <1>1, <3>1 DEF RunOK
    <3> QED
      BY <3>2 DEF ModelFor
  <2> QED
    BY <2>1, <2>2
<1> QED
  BY <1>1, <1>2, <1>3 DEF RunOK

LEMMA ResolveParamInv ==
    ASSUME Inv, NEW r \in Requests, NEW a \in DOMAIN runs[r], ResolveParam(r, a)
    PROVE  Inv'
<1> DEFINE run == runs[r][a]
           param == ParamsOf(a)[run.args + 1]
           value == translateModel(param.decl, payload[r])
           parsed == [run EXCEPT !.args = @ + 1, !.models = @ \cup {<<run.args + 1, value>>}]
           handed == [run EXCEPT !.given = @ \cup {param.kind}, !.args = @ + 1]
<1>1. /\ run \in Run /\ run.args \in Nat /\ run.st = "resolving"
      /\ run.args < Len(ParamsOf(a)) /\ payload[r] \in Payloads
  BY RunType DEF ResolveParam, Run
<1>2. param \in Param
  <2>1. ParamsOf(a) \in Seq(Param)
    BY RunType
  <2>2. run.args + 1 \in 1..Len(ParamsOf(a))
    BY <1>1, <2>1
  <2> QED
    BY <2>1, <2>2
<1>3. CASE param.kind = "payload"
  <2>1. CASE value.shape = "refused"
    BY <1>3, <2>1, ThrowsInv DEF ResolveParam, ParsedPayload
  <2>2. CASE value.shape # "refused"
    <3>1. /\ runs' = [runs EXCEPT ![r][a] = parsed]
          /\ UNCHANGED <<source, phase, next, todo, registered, answer>>
      BY <1>3, <2>2 DEF ResolveParam, ParsedPayload, Continues
    <3>2. param.decl \in Declarations
      BY <1>2 DEF Param
    <3>3. /\ value \in Values
          /\ Typed(param.decl) /\ payload[r].shape # "none" =>
               /\ param.decl.enableValidation = "on" => param.decl.check \in payload[r].passes
               /\ value.model
               /\ param.decl.type = "Array" => value.shape = "many"
      BY <1>1, <2>2, <3>2, Translated
    <3> HIDE DEF value, param, run
    <3>4. parsed \in Run /\ parsed.st = "resolving" /\ parsed.args = run.args + 1
          /\ parsed.models = run.models \cup {<<run.args + 1, value>>}
      BY <1>1, <3>3, MoreArgs
    <3> HIDE DEF parsed
    <3>5. ModelFor(r, run.args + 1, param, parsed)
      BY <3>3, <3>4 DEF ModelFor
    <3>6. RunOK(r, a, parsed)
      BY <1>1, <3>4, <3>5, ResolvedOK DEF param, run
    <3>7. RunsOK'
      BY <3>1, <3>6, ContinuesOK
    <3> QED
      BY <3>1, <3>7, RunsStep DEF Inv, TypeOK
  <2> QED
    BY <2>1, <2>2
<1>4. CASE param.kind # "payload"
  <2>1. /\ runs' = [runs EXCEPT ![r][a] = handed]
        /\ UNCHANGED <<source, phase, next, todo, registered, answer>>
    BY <1>4 DEF ResolveParam, GivenTo, Continues
  <2>3. param.kind \in {"resolve", "reject"}
    BY <1>2, <1>4 DEF Param
  <2>4. ModelFor(r, run.args + 1, param, handed)
    BY <1>4 DEF ModelFor
  <2> HIDE DEF param, run
  <2>5. handed \in Run /\ handed.st = "resolving" /\ handed.args = run.args + 1
        /\ handed.models = run.models
    <3>1. [shape |-> "null", model |-> FALSE] \in Values
      BY DEF Values
    <3> QED
      BY <1>1, <2>3, <3>1, MoreArgs
  <2> HIDE DEF handed
  <2>6. RunOK(r, a, handed)
    BY <1>1, <2>4, <2>5, ResolvedOK DEF param, run
  <2>7. RunsOK'
    BY <2>1, <2>6, ContinuesOK
  <2> QED
    BY <2>1, <2>7, RunsStep DEF Inv, TypeOK
<1> QED
  BY <1>3, <1>4

\* The run goes from one state to another with the same parameters.
LEMMA StateOK ==
    ASSUME Inv, NEW r \in Requests, NEW a \in DOMAIN runs[r],
           NEW st \in {"running", "returned", "over"}, runs[r][a].args = Len(ParamsOf(a)),
           Continues(r, a, [runs[r][a] EXCEPT !.st = st]), answer' \in [Requests -> Answers]
    PROVE  Inv'
<1> DEFINE run == runs[r][a]
           new == [run EXCEPT !.st = st]
<1>1. run \in Run /\ RunOK(r, a, run)
  BY RunType
<1>2. RunOK(r, a, new)
  BY <1>1 DEF RunOK, Run, ModelFor
<1>3. runs' = [runs EXCEPT ![r][a] = new] /\ UNCHANGED <<source, phase, next, todo, registered>>
  BY DEF Continues
<1> HIDE DEF new
<1>4. RunsOK'
  BY <1>2, <1>3, ContinuesOK
<1> QED
  BY <1>3, <1>4, RunsStep

LEMMA ProxyInv ==
    ASSUME Inv, NEW r \in Requests, NEW a \in DOMAIN runs[r],
           Proxy(r, a) \/ Respond(r, a) \/ EndAction(r, a)
    PROVE  Inv'
<1>1. RunOK(r, a, runs[r][a]) /\ answer \in [Requests -> Answers]
  BY RunType DEF Inv, TypeOK
<1>2. CASE ResolveParam(r, a)
  BY <1>2, ResolveParamInv
<1>3. CASE CallAction(r, a)
  BY <1>1, <1>3, StateOK DEF CallAction
<1>4. CASE AutoResolve(r, a)
  <2>1. answer' \in [Requests -> Answers]
    BY <1>1, <1>4, SettlesType DEF AutoResolve, Answers
  <2> QED
    BY <1>1, <1>4, <2>1, StateOK DEF AutoResolve, RunOK
<1>5. CASE Respond(r, a)
  <2>1. answer' \in [Requests -> Answers]
    BY <1>5, SettlesType DEF Respond, Answers
  <2>2. UNCHANGED <<source, phase, next, todo, registered, runs>>
    BY <1>5 DEF Respond
  <2> QED
    BY <2>1, <2>2, RunsSame, RunsStep DEF source
<1>6. CASE EndAction(r, a)
  <2>1. CASE Throws(r, a, runs[r][a])
    BY <2>1, ThrowsInv
  <2>2. CASE Continues(r, a, [runs[r][a] EXCEPT !.st = "returned"]) /\ UNCHANGED answer
    BY <1>1, <1>6, <2>2, StateOK DEF EndAction, RunOK
  <2> QED
    BY <1>6, <2>1, <2>2 DEF EndAction
<1> QED
  BY <1>2, <1>3, <1>4, <1>5, <1>6 DEF Proxy

LEMMA NextInv == Inv /\ [Next]_vars => Inv'
<1> SUFFICES ASSUME Inv, [Next]_vars PROVE Inv'
  OBVIOUS
<1>1. CASE NextController \/ Hunted \/ Started \/ DeadLetter \/ \E a \in todo : Register(a)
  BY <1>1, HuntStep
<1>2. ASSUME NEW r \in Requests, Deliver(r) PROVE Inv'
  BY <1>2, DeliverInv
<1>3. ASSUME NEW r \in Requests, NEW a \in DOMAIN runs[r],
             Proxy(r, a) \/ Respond(r, a) \/ EndAction(r, a)
      PROVE  Inv'
  BY <1>3, ProxyInv
<1>4. CASE UNCHANGED vars
  BY <1>4, RunsSame, RunsStep DEF vars, source, Inv, TypeOK
<1> QED
  BY <1>1, <1>2, <1>3, <1>4 DEF Next

LEMMA Invariant == Spec => []Inv
BY InitInv, NextInv, PTL DEF Spec

-----------------------------------------------------------------------------
\* Every variable stays of its type, and no proxy resolves more parameters than
\* its action has (ControllerHunter.ts:135-168).
THEOREM TypeCorrect == Spec => []TypeOK
<1>1. Inv => TypeOK
  BY DEF Inv
<1> QED
  BY <1>1, Invariant, PTL

\* An action that a class of the chain decorates is extracted from the first
\* class that defines it.
LEMMA DispatchedAction ==
    ASSUME TypeOK, NEW c \in DOMAIN Chain, NEW m \in Methods, NEW k \in DOMAIN Chain[c],
           <<Chain[c][k], m>> \in decorated
    PROVE  [ctrl |-> c, name |-> m, of |-> Dispatched(c, m)] \in ActionsOf(c)
<1> DEFINE chain == Chain[c]
           own == {j \in DOMAIN chain : <<chain[j], m>> \in defined}
           First(j) == /\ <<chain[j], m>> \in defined
                       /\ \A i \in 1..(j - 1) : <<chain[i], m>> \notin defined
           d == CHOOSE j \in DOMAIN chain : First(j)
<1>1. chain \in Seq(Classes) /\ DOMAIN chain = 1..Len(chain) /\ Len(chain) \in Nat
  BY ChainAssumption
<1>2. k \in own
  BY DEF TypeOK
<1>3. PICK j \in own : \A i \in own : j <= i
  <2> HIDE DEF chain
  <2>1. own \in SUBSET Nat
    BY <1>1
  <2> HIDE DEF own
  <2> QED
    BY <1>2, <2>1, Least
<1>4. j \in DOMAIN chain /\ First(j)
  <2>1. \A i \in 1..(j - 1) : i \in DOMAIN chain /\ ~ (j <= i)
    BY <1>1
  <2> QED
    BY <1>3, <2>1
<1>5. d \in DOMAIN chain /\ First(d)
  BY <1>4
<1>6. Dispatched(c, m) = chain[d]
  BY DEF Dispatched
<1> HIDE DEF d, chain
<1>7. k \in d..Len(chain)
  BY <1>1, <1>2, <1>5
<1>8. m \in Extracted(chain, d)
  BY <1>5, <1>7 DEF Extracted, IsDecorated, chain
<1>9. \A i \in 1..(d - 1) : m \notin Extracted(chain, i)
  BY <1>5 DEF Extracted
<1>10. chain[d] \in Classes
  BY <1>1, <1>5
<1> QED
  BY <1>5, <1>6, <1>8, <1>9, <1>10 DEF ActionsOf, chain

\* Once requests are served every action of every controller is registered, with
\* the function a call of it runs (ControllerHunter.ts:56-114,
\* MediateRpcHandlerAddOnBase.ts:31-38).
THEOREM AllServed == Spec => []ServesAll
<1>1. ASSUME Inv, Listens, NEW i \in DOMAIN Controllers, NEW m \in Methods,
             NEW k \in DOMAIN Chain[Controllers[i]], <<Chain[Controllers[i]][k], m>> \in decorated
      PROVE  [ctrl |-> Controllers[i], name |-> m, of |-> Dispatched(Controllers[i], m)]
               \in registered
  <2>1. Controllers[i] \in DOMAIN Chain /\ i \in 1..Len(Controllers)
    BY ControllersAssumption
  <2>2. next = Len(Controllers) /\ todo = {} /\ phase # "failed"
    BY <1>1 DEF Listens, Inv, HuntInv
  <2>3. ActionsOf(Controllers[i]) \subseteq registered
    BY <1>1, <2>1, <2>2 DEF Inv, HuntInv
  <2> QED
    BY <1>1, <2>1, <2>3, DispatchedAction DEF Inv
<1>2. Inv => ServesAll
  BY <1>1 DEF ServesAll
<1> QED
  BY <1>2, Invariant, PTL

\* An action with a declared class is called with models of it, in an array if it
\* takes one, and where its declaration turns validation on with none of a payload
\* that the class refuses (payload.ts:49-127, ControllerHunter.ts:135-168).
THEOREM ModelsOnly == Spec => []OnlyModels
<1>1. ASSUME Inv, NEW r \in Requests, NEW a \in DOMAIN runs[r], NEW i \in DOMAIN ParamsOf(a),
             runs[r][a].st \in {"running", "returned", "over"}
      PROVE  ModelFor(r, i, ParamsOf(a)[i], runs[r][a])
  <2>1. RunOK(r, a, runs[r][a]) /\ DOMAIN ParamsOf(a) = 1..Len(ParamsOf(a))
    BY <1>1, RunType
  <2> QED
    BY <1>1, <2>1 DEF RunOK
<1>2. Inv => OnlyModels
  BY <1>1 DEF OnlyModels, ModelFor
<1> QED
  BY <1>2, Invariant, PTL
=============================================================================
