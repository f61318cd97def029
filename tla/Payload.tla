------------------------------ MODULE Payload ------------------------------
(***************************************************************************)
(* What @payload makes of the payload of a request                         *)
(* (src/app/decorators/payload.ts): the parameter's type and the options   *)
(* of the decorator choose how it is parsed.                               *)
(***************************************************************************)

CONSTANTS
    Checks,     \* what can be validated: the properties of a class, or some of them
    ByDefault   \* those that a translator validates unless it is told

ASSUME ChecksAssumption == ByDefault \subseteq Checks

\* The type of the parameter and the options of the decorator: the parameter is an
\* array, of a class that can be translated, or neither; a class may be given;
\* validation may be turned on or off; and which "check" it is follows from the
\* class that translates and from isPartial.
Declarations ==
    [type : {"Array", "Model", "Object"}, ItemClass : BOOLEAN,
     enableValidation : {"on", "off", "unset"}, check : Checks]

\* A payload may be missing, one object or an array of them; the checks that it, or
\* each of its items, passes.
Payloads == [shape : {"none", "one", "many"}, passes : SUBSET Checks]

\* What the action is called with; "nested" is an array within an array.
Values == [shape : {"null", "one", "many", "nested", "refused"}, model : BOOLEAN]

Raw(shape) == [shape |-> shape, model |-> FALSE]

\* Mutant of Validates: the option is not passed on to the translator.
ValidatesUntold(decl) == decl.check \in ByDefault

\* translateOpt: the option, or whatever the translator does without one.
Validates(decl) ==
    \/ decl.enableValidation = "on"
    \/ decl.enableValidation = "unset" /\ decl.check \in ByDefault

\* translate: what the translator refuses is thrown, the rest is made a model.
translate(decl, raw) ==
    IF Validates(decl) /\ decl.check \notin raw.passes THEN Raw("refused")
    ELSE [shape |-> raw.shape, model |-> TRUE]

\* toArray: the items of an array, or an array of the single value; without a
\* class an array is wrapped too.
toArray(decl, raw) ==
    LET items == translate(decl, raw) IN
    IF decl.ItemClass THEN [items EXCEPT !.shape = IF @ = "refused" THEN @ ELSE "many"]
    ELSE Raw(IF raw.shape = "many" THEN "nested" ELSE "many")

\* modelParserFactory.
Parsed(decl, raw) ==
    IF decl.type = "Array" THEN toArray(decl, raw)
    ELSE IF decl.type = "Model" \/ decl.ItemClass THEN translate(decl, raw)
    ELSE Raw(raw.shape)

\* translateModel.
translateModel(decl, payload) ==
    IF payload.shape = "none" THEN Raw("null") ELSE Parsed(decl, payload)

\* Whether the declaration names a class.
Typed(decl) == decl.ItemClass \/ decl.type = "Model"
=============================================================================
