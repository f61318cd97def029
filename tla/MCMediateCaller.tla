-------------------------- MODULE MCMediateCaller --------------------------
(* Small instances of MediateCaller for TLC. *)
EXTENDS MediateCaller

CONSTANTS c1, c2

TwoCalls == {c1, c2}
OneCall == {c1}
NoCall == {}
FirstCall == {c1}
LastCall == {c2}

LossOnly == {"loss"}
=============================================================================
