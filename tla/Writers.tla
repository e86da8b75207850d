------------------------------- MODULE Writers -------------------------------
(* Three places where several writers meet, side by side: the ledger of      *)
(* asks, the composers processes paste into, and the files of a room.  They  *)
(* share no state, so a behaviour picks a part and takes its steps.  A       *)
(* fourth, the CHECKBACK timers, is instanced with a pair of rows that wait  *)
(* for each other's turn.                                                    *)
EXTENDS AckLedger, Inject, Rooms

CONSTANTS
  TimerId, TimerKind, TimerKey,   \* rows of CHECKBACK.jsonl
  TimerRoleless, TimerBudget, TimerLag

VARIABLES
  part,
  file, mem, seen, cbPc, todo, left, cli, cbOff, rung, credit, clobbered, arms, edits, cbCrashes

Cbk == INSTANCE Checkback WITH
         Id <- TimerId, Kind <- TimerKind, Key <- TimerKey, Roleless <- TimerRoleless,
         Budget <- TimerBudget, MaxFires <- 2, Lag <- TimerLag,
         MaxArm <- 1, MaxEdit <- 0, MaxCrash <- 0,
         pc <- cbPc, off <- cbOff, crashes <- cbCrashes

timerVars == <<file, mem, seen, cbPc, todo, left, cli, cbOff, rung, credit, clobbered,
               arms, edits, cbCrashes>>
AllVars   == <<part, vars, injectVars, roomVars, timerVars>>

AckPart    == part = "acks"      /\ UNCHANGED <<part, injectVars, roomVars, timerVars>>
InjectPart == part = "inject"    /\ UNCHANGED <<part, vars, roomVars, timerVars>>
RoomPart   == part = "room"      /\ UNCHANGED <<part, vars, injectVars, timerVars>>
TimerPart  == part = "checkback" /\ UNCHANGED <<part, vars, injectVars, roomVars>>

WritersInit ==
  /\ part \in {"acks", "inject", "room", "checkback"}
  /\ Init /\ InjectInit /\ RoomInit /\ Cbk!Init
  /\ part # "checkback" => file = Cbk!NoRows

WritersNext ==
  \/ AckPart /\ Next
  \/ InjectPart /\ InjectNext
  \/ RoomPart /\ RoomNext
  \/ TimerPart /\ Cbk!Next

\* The fairness Checkback states; the other parts promise nothing in time.
WritersSpec ==
  /\ WritersInit /\ [][WritersNext]_AllVars
  /\ WF_AllVars(TimerPart /\ Cbk!FireDueCheckbacks)
  /\ WF_AllVars(TimerPart /\ Cbk!Restart)

-----------------------------------------------------------------------------
(* Properties *)

(* Every part keeps its variables' types.                                    *)
WritersTypeOK == TypeOK /\ InjectTypeOK /\ RoomTypeOK

(* Every due row is attended, as Checkback explains it.                      *)
DueIsAttended == Cbk!DueIsAttended
=============================================================================
