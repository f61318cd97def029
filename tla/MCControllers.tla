---------------------------- MODULE MCControllers ----------------------------
(* Small instances of Controllers for TLC. *)
EXTENDS Controllers, TLC

CONSTANTS derived, base, list, edit, r1, whole, part

\* A controller, and the controller it extends, which is exported as well.
BothClasses == {derived, base}
Exports == <<derived, base>>
Inheritance == derived :> <<derived, base>> @@ base :> <<base>>

TwoMethods == {list, edit}
Payload(type, item, on, check) ==
    [kind |-> "payload",
     decl |-> [type |-> type, ItemClass |-> item, enableValidation |-> on, check |-> check]]
Fn(kind) == [Payload("Object", FALSE, "unset", whole) EXCEPT !.kind = kind]

\* One action that leaves its answer to the proxy and takes a model, or an array
\* of models that are not validated, and one that takes the payload and a model
\* of it and asks for reject, whose override decorates nothing.
SomeParams ==
    base :> (list :> <<Payload("Model", FALSE, "on", whole)>>
          @@ edit :> <<Payload("Object", FALSE, "unset", whole),
                       Payload("Object", TRUE, "unset", part), Fn("reject")>>)
 @@ derived :> (list :> <<Payload("Array", TRUE, "off", part)>> @@ edit :> <<>>)

\* What a class requires of all its properties, and of those there are.
BothChecks == {whole, part}

SomePayloads == {[shape |-> "one", passes |-> BothChecks], [shape |-> "many", passes |-> {part}],
                 [shape |-> "many", passes |-> {}]}

OneRequest == {r1}
=============================================================================
