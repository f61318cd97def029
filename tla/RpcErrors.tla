----------------------------- MODULE RpcErrors -----------------------------
(***************************************************************************)
(* What becomes of the reason an action fails with on its way to the user  *)
(* of the caller (src/app/RpcCommon.ts): $createError on the handler's     *)
(* side, JSON on the wire, $rebuildError on the caller's side.             *)
(*                                                                         *)
(* A reason is reduced to its class, whether its message is there, and     *)
(* what its details are.                                                   *)
(***************************************************************************)

\* The classes in global.gennova, which a caller can make again by their name.
gennova == {"BusinessInvariantError", "ValidationError", "MinorException",
            "CriticalException", "InternalErrorException"}

\* An Exception of the service's own; an Error or a class that is none; a
\* string; any other value.
Kinds == gennova \cup {"OwnException", "Error", "text", "data"}
\* Details may be any value, a string that is JSON, or one that is not.
Details == {"none", "value", "json", "text"}

\* What is no exception has no details beside itself.
Reasons ==
    {reason \in [kind : Kinds, message : BOOLEAN, details : Details] :
        /\ reason.kind = "text" => reason.message /\ reason.details = "none"
        /\ reason.kind = "data" => ~reason.message /\ reason.details \in {"none", "value"}}
RpcError == [type : Kinds, message : BOOLEAN, details : Details]
NoReason == [kind |-> "data", message |-> FALSE, details |-> "none"]
NoError == [type |-> "data", message |-> FALSE, details |-> "none"]
RpcResponse == [isSuccess : BOOLEAN, payload : RpcError]

\* $createError.  JSON keeps no field of an Error.
CreateError(isIntended, reason) ==
    IF ~isIntended
      THEN [type |-> "InternalErrorException", message |-> FALSE, details |-> "none"]
      ELSE IF reason.kind \in gennova \cup {"OwnException"}
      THEN [type |-> reason.kind, message |-> reason.message, details |-> reason.details]
      ELSE [type |-> "MinorException", message |-> reason.kind = "text",
            details |-> IF reason.kind = "data" /\ reason.details # "none" THEN "json" ELSE "none"]

\* $createResponse.
CreateResponse(isSuccess, payload) == [isSuccess |-> isSuccess, payload |-> payload]

\* $rebuildError throws when it parses details that are not JSON.
CannotRebuild(error) == error.type \in gennova /\ error.details = "text"

\* Mutant of RebuildError: details are taken as they come.
RebuildErrorUnparsed(error) == [error EXCEPT !.type = IF @ \in gennova THEN @ ELSE "data"]

\* $rebuildError: an exception of the class, or else the error as it came.
RebuildError(error) ==
    IF error.type \in gennova
      THEN [error EXCEPT !.details = IF @ = "json" THEN "value" ELSE @]
      ELSE [error EXCEPT !.type = "data"]

\* How call settles when a response comes, and with what error.
Told == [how : {"resolved", "rejected", "never"}, error : RpcError]

\* onMessage of the mediate caller: when $rebuildError throws nothing settles.
ToldByMessage(res) ==
    LET error == RebuildError(res.payload) IN
    IF res.isSuccess THEN [how |-> "resolved", error |-> NoError]
    ELSE IF CannotRebuild(res.payload) THEN [how |-> "never", error |-> NoError]
    ELSE [how |-> IF error.type = "InternalErrorException" THEN "rejected" ELSE "resolved",
          error |-> error]

\* then and catch of the direct caller: what is rejected in then is wrapped.
ToldByHttp(res) ==
    LET told == ToldByMessage(res)
        thrown == [type |-> "MinorException",
                   message |-> CannotRebuild(res.payload) \/ res.payload.message,
                   details |-> "value"]
    IN  IF told.how = "resolved" THEN told
        ELSE [how |-> "rejected", error |-> thrown]

-----------------------------------------------------------------------------
\* What an intended reason should arrive as: an exception as itself, anything
\* else in a MinorException, and nothing of it lost.
Faithful(reason) ==
    [type |-> IF reason.kind \in gennova THEN reason.kind ELSE "MinorException",
     message |-> reason.message, details |-> reason.details]

\* The reasons that survive: a class of gennova with no string for details, a
\* string, or a value.
Lasting(reason) ==
    reason.kind \in gennova \cup {"text", "data"} /\ reason.details \in {"none", "value"}
=============================================================================
