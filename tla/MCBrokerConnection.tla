------------------------ MODULE MCBrokerConnection ------------------------
(* Small instances of BrokerConnection for TLC. *)
EXTENDS BrokerConnection

\* A broker that fails in every way, or only in ways that can be recovered
\* from, when nobody disconnects; and a user who disconnects and connects
\* again while nothing fails, connections are lost, dials and exchanges are
\* refused, or channels are closed, or who does not await his disconnect.
AllScenarios ==
    {FaultKinds \ {"disconnect", "hasty"}, {"loss", "channel"},
     {"disconnect"}, {"disconnect", "loss", "pendingLoss"},
     {"disconnect", "refuse", "exchange"}, {"disconnect", "channel"},
     {"disconnect", "hasty"}}

ChannelAndUser == {{"channel", "disconnect"}}
=============================================================================
