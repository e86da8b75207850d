----------------------------- MODULE MCPeerQueue -----------------------------
(* A few rows to one seat, whose pane may be replaced by a second one.       *)
EXTENDS PeerQueue

FirstPane == [s \in {"w1"} |-> "%1"]

\* A plain prompt, a progress note, a room row with the hub override and a
\* thin ping.
Rows4     == 1..4
MixTo     == [r \in Rows4 |-> "w1"]
MixKind   == <<"prompt", "peer", "room", "thin">>
MixClass  == <<"plain", "ack", "hub", "plain">>

Rows1     == {1}
OnlyTo    == [r \in Rows1 |-> "w1"]
OnlyKind  == <<"prompt">>
OnlyClass == <<"plain">>

\* Plain mail, a progress note and an override, of one kind.  Rows are queued in
\* their order, so the digest of the first two is the first that goes astray;
\* with the override in front it is the override that is refused.
Rows3     == 1..3
BusyTo    == [r \in Rows3 |-> "w1"]
BusyKind  == <<"peer", "peer", "peer">>
BusyClass == <<"plain", "ack", "hub">>
=============================================================================
