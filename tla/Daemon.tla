------------------------------- MODULE Daemon --------------------------------
(* Five parts of the daemon side by side: the inbox lanes, the supervisors,  *)
(* pane operations, targets and the limits of providers.  They share no      *)
(* state, so a behaviour picks a part and takes its steps, and the variables *)
(* of the others never change.                                               *)
EXTENDS CoordInbox, Lifecycle, PaneOps, Targets, Connectivity

VARIABLE part

AllVars == <<part, vars, lifeVars, opVars, tVars, connVars>>

InboxPart  == part = "inbox"   /\ UNCHANGED <<part, lifeVars, opVars, tVars, connVars>>
LifePart   == part = "life"    /\ UNCHANGED <<part, vars, opVars, tVars, connVars>>
OpsPart    == part = "ops"     /\ UNCHANGED <<part, vars, lifeVars, tVars, connVars>>
TargetPart == part = "targets" /\ UNCHANGED <<part, vars, lifeVars, opVars, connVars>>
LimitPart  == part = "limits"  /\ UNCHANGED <<part, vars, lifeVars, opVars, tVars>>

DaemonInit ==
  /\ part \in {"inbox", "life", "ops", "targets", "limits"}
  /\ Init /\ LifeInit /\ OpsInit /\ TargetsInit /\ ConnInit
  /\ part # "targets" => reach = {}

DaemonNext ==
  \/ InboxPart /\ Next
  \/ LifePart /\ LifeNext
  \/ OpsPart /\ OpsNext
  \/ TargetPart /\ TargetsNext
  \/ LimitPart /\ ConnNext

\* The fairness each part states.  The part never changes, so fair actions of
\* different parts may share a WF: only one of them is ever enabled.
Turn(s) ==
  \/ InboxPart /\ Tick
  \/ LifePart /\ SupSteps(s)
  \/ OpsPart /\ Thread
  \/ TargetPart /\ TargetTick
  \/ LimitPart /\ PollConnectivity

OtherTurn ==
  \/ InboxPart /\ Restart
  \/ LimitPart /\ PollAcks

DaemonSpec ==
  /\ DaemonInit /\ [][DaemonNext]_AllVars
  /\ \A s \in Sup : WF_AllVars(Turn(s))
  /\ WF_AllVars(OtherTurn)
  /\ \A t \in Timers : WF_AllVars(LimitPart /\ Timer(t))

(* Every part keeps its variables' types.                                    *)
DaemonTypeOK == TypeOK /\ LifeTypeOK /\ OpsTypeOK /\ TargetsTypeOK /\ ConnTypeOK
=============================================================================
