------------------------------ MODULE MCDaemon -------------------------------
(* A small instance of Daemon.  inbox: two rows for the manager, one a hub   *)
(* override, and mail of other seats to its pane.  life: two supervisors and *)
(* two CLI processes, one of which also stops the daemon.  ops: two          *)
(* operations.  targets: a target and a slice of one goal, one brought up a  *)
(* tick.  limits: two panes, one a scan.                                     *)
EXTENDS Daemon

Rows2    == {"report", "stop"}
OneGoal  == [t \in {"t1", "t2"} |-> "goal"]
TwoPanes == <<"p1", "p2">>
=============================================================================
