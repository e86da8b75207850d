----------------------------- MODULE CoordInbox -----------------------------
(***************************************************************************)
(* INBOX.jsonl and its two lanes: ACK-class mail goes to the secretary's    *)
(* pane, the rest to the manager's.  Before a paste the lane asks           *)
(* gateDelivery (limits, context, overload) and deliverToPane looks at the  *)
(* screen; a coordinator's pane has to have been seen idle for a while.     *)
(*                                                                          *)
(* The clocks of that gate, and the overload cooldown, are in memory, and   *)
(* the gate learns of the screen only when someone looks: a lane that       *)
(* finds the composer neither generating nor typing, and the border paint   *)
(* of the manager's pane while the inbox holds mail.  Time is in polls of   *)
(* the daemon's timer.                                                      *)
(***************************************************************************)
EXTENDS Integers, Sequences, FiniteSets

CONSTANTS
  Coord,      \* lanes whose column the profile has: each a pane
  Row,        \* rows of INBOX.jsonl
  AckClass,   \* rows isAckClassInbox accepts
  Hub,        \* rows that say PRIORITY or STOP other work
  Draft,      \* texts a composer may hold
  NoDraft,
  BulkMax,    \* PEER_BULK_MAX
  Settle,     \* COORD_IDLE_SETTLE_MS, in polls
  Stuck,      \* COORD_STUCK_DRAFT_SEC, in polls
  Threshold,  \* INBOX_OVERLOAD_THRESHOLD
  Cooldown,   \* INBOX_OVERLOAD_COOLDOWN_MS, in polls
  MaxPeer,    \* bound: peer rows pending for one pane
  MaxChurn,   \* bound: changes of a screen, a draft or the limits
  MaxCrash    \* bound: daemon deaths

Lanes == {"secretary", "manager"}

ASSUME RowAssumption ==
  /\ Coord \subseteq {"secretary", "manager"}
  /\ IsFiniteSet(Row) /\ AckClass \subseteq Row /\ Hub \subseteq Row
  /\ NoDraft \notin Draft
ASSUME NumberAssumption ==
  /\ BulkMax \in Nat \ {0} /\ Settle \in Nat /\ Stuck \in Nat
  /\ Threshold \in Nat \ {0} /\ Cooldown \in Nat \ {0}
  /\ MaxPeer \in Nat /\ MaxChurn \in Nat /\ MaxCrash \in Nat

LaneOf(r) == IF r \in AckClass THEN "secretary" ELSE "manager"

\* idle: the pane takes input.  With a draft it is not reported as typing: the
\* text is a ghost, or sits under an old status line.  followup: generating,
\* with the follow-up box of Cursor open.  gone: no pane has the role.
Faces      == {"idle", "typing", "busy", "followup", "shell", "gone"}
Generating == {"busy", "followup"}

Never == -1
Horizon == IF Settle > Stuck THEN Settle ELSE Stuck
Age == Never..Horizon

VARIABLES
  inbox,     \* the file: its rows in the order they came
  done,      \* rows with sent, sentAt and deliverPane; sent alone counts for nothing
  resolved,  \* rows with resolved
  peers,     \* rows of PEER.jsonl pending for the pane of the lane
  face,      \* what the pane shows
  draft,     \* what is in its composer
  blocked,   \* panes deliveryHoldForPane refuses
  gate,      \* memory: gateByPane
  cool,      \* memory: paneCooldownUntil, as polls left
  pc,        \* memory: the stage of the tick; down: no daemon
  todo,      \* memory: panes the PEER stage has not come to
  pasted,    \* history: times a row was pasted
  looked,    \* history: what the last paint of the manager's pane found
  churn, crashes

files  == <<inbox, done, resolved, peers>>
screen == <<face, draft, blocked>>
memory == <<gate, cool, todo>>
past   == <<pasted, looked>>
vars   == <<files, screen, memory, pc, past, churn, crashes>>

NewGate == [idle |-> Never, fp |-> NoDraft, age |-> 0]

TypeOK ==
  /\ inbox \in Seq(Row)
  /\ done \subseteq Row /\ resolved \subseteq Row
  /\ peers \in [Coord -> 0..MaxPeer]
  /\ face \in [Coord -> Faces]
  /\ draft \in [Coord -> Draft \cup {NoDraft}]
  /\ blocked \subseteq Coord
  /\ gate \in [Coord -> [idle : Age, fp : Draft \cup {NoDraft}, age : 0..Horizon]]
  /\ cool \in [Coord -> 0..Cooldown]
  /\ pc \in {"secretary", "manager", "peer", "paint", "poll", "down"}
  /\ todo \subseteq Coord
  /\ pasted \in [Row -> Nat]
  /\ looked \in [busy : BOOLEAN, rows : SUBSET Row]
  /\ churn \in 0..MaxChurn /\ crashes \in 0..MaxCrash

-----------------------------------------------------------------------------
(* classifyCoordDelivery.  wasBusy and lastBusyEndedAt are left out: they    *)
(* are set only where idleReadySince is cleared, so of the two clocks the    *)
(* settle time is the minimum of, idleReadySince is never the older one.     *)

\* Fault: the idle clock goes on while the pane generates.
LookNoReset(g, f, d) ==
  CASE f \in {"shell", "gone"} -> g
    [] f \in Generating -> [g EXCEPT !.fp = NoDraft, !.age = 0]
    [] f \in {"idle", "typing"} /\ d # NoDraft ->
         [idle |-> Never, fp |-> d, age |-> IF g.fp = d THEN g.age ELSE 0]
    [] OTHER -> [idle |-> IF g.idle = Never THEN 0 ELSE g.idle, fp |-> NoDraft, age |-> 0]

Look(g, f, d) ==
  CASE f \in {"shell", "gone"} -> g
    [] f \in Generating -> NewGate
    [] f \in {"idle", "typing"} /\ d # NoDraft ->
         [idle |-> Never, fp |-> d, age |-> IF g.fp = d THEN g.age ELSE 0]
    [] OTHER -> [idle |-> IF g.idle = Never THEN 0 ELSE g.idle, fp |-> NoDraft, age |-> 0]

\* Whether the gate, having looked, lets a paste through.
CanDeliver(g, f) ==
  /\ f \in {"idle", "typing"}
  /\ IF g.fp # NoDraft THEN Stuck > 0 /\ g.age >= Stuck ELSE g.idle >= Settle

-----------------------------------------------------------------------------
(* evaluateInboxOverload *)

Overloaded(l) == cool[l] = 0 /\ peers[l] >= Threshold
Held(l)       == l \in blocked \/ cool[l] > 0 \/ Overloaded(l)

\* The warning is pasted by force: past the coordinator's gate, not past a
\* shell, a generating agent or somebody typing.
GateDelivery(l) ==
  /\ Held(l)
  /\ cool' = IF l \notin blocked /\ Overloaded(l) THEN [cool EXCEPT ![l] = Cooldown] ELSE cool
  /\ IF l \notin blocked /\ Overloaded(l) /\ face[l] = "idle"
     THEN face' \in {face, [face EXCEPT ![l] = "busy"]}
     ELSE UNCHANGED face

-----------------------------------------------------------------------------
Init ==
  /\ inbox = <<>> /\ done = {} /\ resolved = {}
  /\ peers = [l \in Coord |-> 0]
  /\ face = [l \in Coord |-> "idle"] /\ draft = [l \in Coord |-> NoDraft]
  /\ blocked = {}
  /\ gate = [l \in Coord |-> NewGate] /\ cool = [l \in Coord |-> 0]
  /\ pc = "secretary" /\ todo = {}
  /\ pasted = [r \in Row |-> 0]
  /\ looked = [busy |-> FALSE, rows |-> {}]
  /\ churn = 0 /\ crashes = 0

\* Handlers run between the stages; both lanes are one stage.
Serving == pc \in {"secretary", "peer", "paint", "poll"}

(* POST /to-master *)
ToMaster(r) ==
  /\ Serving /\ \A i \in DOMAIN inbox : inbox[i] # r
  /\ inbox' = Append(inbox, r)
  /\ UNCHANGED <<done, resolved, peers, screen, memory, pc, past, churn, crashes>>

Entered    == {inbox[i] : i \in DOMAIN inbox}
Unresolved == Entered \ resolved

(* POST /inbox/resolve, with an id or for all *)
ResolveInbox(S) ==
  /\ Serving /\ S # {}
  /\ resolved' = resolved \cup S
  /\ UNCHANGED <<inbox, done, peers, screen, memory, pc, past, churn, crashes>>

\* POST /to-peer to a coordinator
PeerArrives(l) ==
  /\ Serving /\ peers[l] < MaxPeer
  /\ peers' = [peers EXCEPT ![l] = @ + 1]
  /\ UNCHANGED <<inbox, done, resolved, screen, memory, pc, past, churn, crashes>>

-----------------------------------------------------------------------------
(* drainInboxLaneOnce *)

Unsent(r)  == r \notin resolved \cup done
Pending(l) == {i \in DOMAIN inbox : Unsent(inbox[i]) /\ LaneOf(inbox[i]) = l}
Batch(l)   == {inbox[i] : i \in {j \in Pending(l) : Cardinality({k \in Pending(l) : k <= j}) <= BulkMax}}
After(l)   == IF l = "secretary" THEN "manager" ELSE "peer"

\* Only the ACK lane, or a digest that reads as a progress note, steers.
Steers(l) == face[l] = "followup" /\ (l = "secretary" \/ Cardinality(Batch(l)) > 1)

\* deliverToPane turns the row away before the gate has looked.
FlatRefusal(l) ==
  \/ face[l] = "shell"
  \/ face[l] \in Generating \cup {"typing"} /\ Batch(l) \cap Hub = {}

LaneIdle(l) ==
  /\ pc = l
  /\ l \in Coord => Pending(l) = {} \/ face[l] = "gone"
  /\ pc' = After(l) /\ todo' = IF l = "manager" THEN Coord ELSE {}
  /\ UNCHANGED <<files, screen, gate, cool, past, churn, crashes>>

Works(l) == pc = l /\ l \in Coord /\ Pending(l) # {} /\ face[l] # "gone"
Moves(l) == pc' = After(l) /\ todo' = IF l = "manager" THEN Coord ELSE {}

LaneBlocked(l) ==
  /\ Works(l) /\ GateDelivery(l) /\ Moves(l)
  /\ UNCHANGED <<files, draft, blocked, gate, past, churn, crashes>>

LaneRefused(l) ==
  /\ Works(l) /\ ~Held(l) /\ Moves(l)
  /\ \/ FlatRefusal(l) /\ UNCHANGED gate
     \/ /\ ~FlatRefusal(l)
        /\ gate' = [gate EXCEPT ![l] = Look(gate[l], face[l], draft[l])]
        /\ ~CanDeliver(gate'[l], face[l])
  /\ UNCHANGED <<files, screen, cool, past, churn, crashes>>

\* In the secretary's lane the paste may steer; anywhere else the gate decides.
Accepted(l) ==
  /\ Works(l) /\ ~Held(l)
  /\ \/ Steers(l)
     \/ ~FlatRefusal(l) /\ CanDeliver(Look(gate[l], face[l], draft[l]), face[l])

\* The agent begins at once, or its screen has not been redrawn yet.
Paste(l) ==
  /\ Accepted(l)
  /\ face' \in {face, [face EXCEPT ![l] = IF @ \in Generating THEN @ ELSE "busy"]}
  /\ pasted' = [r \in Row |-> IF r \in Batch(l) THEN pasted[r] + 1 ELSE pasted[r]]

\* What the gate of the pane is after the paste: a repaint of the manager's
\* border follows, and looks when there is more mail.
GateAfterPaste(l) ==
  LET g == IF Steers(l) THEN gate[l] ELSE Look(gate[l], face[l], draft[l])
      more == \E i \in DOMAIN inbox : Unsent(inbox[i]) /\ inbox[i] \notin Batch(l)
  IN IF l = "manager" /\ more THEN Look(g, face'[l], draft[l]) ELSE g

\* Fault: the rows are marked in memory and the file is left as it was.
DeliverUnwritten(l) ==
  /\ Paste(l) /\ Moves(l)
  /\ gate' = [gate EXCEPT ![l] = GateAfterPaste(l)]
  /\ UNCHANGED <<files, draft, blocked, cool, looked, churn, crashes>>

LaneDelivers(l) ==
  /\ Paste(l) /\ Moves(l)
  /\ gate' = [gate EXCEPT ![l] = GateAfterPaste(l)]
  /\ done' = done \cup Batch(l)
  /\ UNCHANGED <<inbox, resolved, peers, draft, blocked, cool, looked, churn, crashes>>

Die ==
  /\ crashes < MaxCrash /\ crashes' = crashes + 1
  /\ pc' = "down"
  /\ gate' = [l \in Coord |-> NewGate] /\ cool' = [l \in Coord |-> 0] /\ todo' = {}
  /\ looked' = [busy |-> FALSE, rows |-> {}]

\* The daemon dies after the paste, before writeInbox.
LaneCut(l) == Paste(l) /\ Die /\ UNCHANGED <<files, draft, blocked, churn>>

-----------------------------------------------------------------------------
(* drainPeerPaneBulk on a coordinator's pane; PeerQueue has what becomes of   *)
(* the rows.                                                                 *)

\* Fault: the count goes below zero.
FewerBelowZero(n) == n - BulkMax

Fewer(n) == IF n < BulkMax THEN 0 ELSE n - BulkMax

AtPeers(l) == pc = "peer" /\ l \in todo /\ todo' = todo \ {l} /\ UNCHANGED pc

PeersIdle(l) ==
  /\ AtPeers(l) /\ (peers[l] = 0 \/ face[l] = "gone")
  /\ UNCHANGED <<files, screen, gate, cool, past, churn, crashes>>

\* A blocked batch stays pending.
PeersBlocked(l) ==
  /\ AtPeers(l) /\ peers[l] > 0 /\ face[l] # "gone"
  /\ GateDelivery(l)
  /\ UNCHANGED <<files, draft, blocked, gate, past, churn, crashes>>

\* Refused by the screen, a batch is parked or stays; accepted, it is pasted.
PeersTried(l) ==
  /\ AtPeers(l) /\ peers[l] > 0 /\ face[l] # "gone" /\ ~Held(l)
  /\ IF face[l] \in Generating \cup {"typing", "shell"}
     THEN UNCHANGED <<gate, face>>
     ELSE /\ gate' = [gate EXCEPT ![l] = Look(@, face[l], draft[l])]
          /\ face' \in {face, [face EXCEPT ![l] = IF CanDeliver(gate'[l], @) THEN "busy" ELSE @]}
  /\ \/ peers' = [peers EXCEPT ![l] = Fewer(@)]
     \/ UNCHANGED peers /\ ~CanDeliver(gate'[l], face[l])
  /\ UNCHANGED <<inbox, done, resolved, draft, blocked, cool, past, churn, crashes>>

EndPeers ==
  /\ pc = "peer" /\ todo = {} /\ pc' = "paint"
  /\ UNCHANGED <<files, screen, memory, past, churn, crashes>>

-----------------------------------------------------------------------------
(* paintMeshBorders on the two panes; only a manager's is looked at this way *)
PaintCoord ==
  LET rows == {inbox[i] : i \in {j \in DOMAIN inbox : Unsent(inbox[j])}} IN
  /\ pc = "paint" /\ pc' = "poll"
  /\ IF rows # {} /\ "manager" \in Coord
     THEN /\ gate' = [gate EXCEPT !["manager"] = Look(@, face["manager"], draft["manager"])]
          /\ looked' = [busy |-> face["manager"] \in Generating, rows |-> rows]
     ELSE looked' = [busy |-> FALSE, rows |-> {}] /\ UNCHANGED gate
  /\ UNCHANGED <<files, screen, cool, todo, pasted, churn, crashes>>

Older(n) == IF n = Never \/ n = Horizon THEN n ELSE n + 1

\* Fault: the clocks of the gate do not run.
AgeNothing(g) == g

AgeGate(g) == [g EXCEPT !.idle = Older(@), !.age = IF g.fp = NoDraft THEN 0 ELSE Older(@)]

\* The timer.
Poll ==
  /\ pc = "poll" /\ pc' = "secretary"
  /\ gate' = [l \in Coord |-> AgeGate(gate[l])]
  /\ cool' = [l \in Coord |-> IF cool[l] = 0 THEN 0 ELSE cool[l] - 1]
  /\ UNCHANGED <<files, screen, todo, pasted, looked, churn, crashes>>

Crash == pc # "down" /\ Die /\ UNCHANGED <<files, screen, pasted, churn>>

Restart ==
  /\ pc = "down" /\ pc' = "secretary"
  /\ UNCHANGED <<files, screen, memory, past, churn, crashes>>

-----------------------------------------------------------------------------
(* The panes *)

Fits(f, d) == IF f \in {"shell", "gone"} THEN d = NoDraft ELSE f = "typing" => d # NoDraft

\* What an operator, an agent or tmux does to a pane.  A pane that comes back
\* has a new id, which the maps of the daemon do not know.
ScreenChanges(l) ==
  /\ churn < MaxChurn /\ churn' = churn + 1
  /\ \E f \in Faces, d \in Draft \cup {NoDraft} :
       /\ Fits(f, d) /\ <<f, d>> # <<face[l], draft[l]>>
       /\ face' = [face EXCEPT ![l] = f] /\ draft' = [draft EXCEPT ![l] = d]
       /\ IF face[l] = "gone"
          THEN gate' = [gate EXCEPT ![l] = NewGate] /\ cool' = [cool EXCEPT ![l] = 0]
          ELSE UNCHANGED <<gate, cool>>
  /\ UNCHANGED <<files, blocked, todo, pc, past, crashes>>

TurnEnds(l) ==
  /\ face[l] \in Generating
  /\ face' = [face EXCEPT ![l] = IF draft[l] = NoDraft THEN "idle" ELSE "typing"]
  /\ UNCHANGED <<files, draft, blocked, memory, pc, past, churn, crashes>>

LimitChanges(l) ==
  /\ churn < MaxChurn /\ churn' = churn + 1
  /\ blocked' = IF l \in blocked THEN blocked \ {l} ELSE blocked \cup {l}
  /\ UNCHANGED <<files, face, draft, memory, pc, past, crashes>>

Lane(l)  == LaneIdle(l) \/ LaneBlocked(l) \/ LaneRefused(l) \/ LaneDelivers(l)
Peers(l) == PeersIdle(l) \/ PeersBlocked(l) \/ PeersTried(l)
Tick     == EndPeers \/ PaintCoord \/ Poll \/ (\E l \in Lanes : Lane(l)) \/ (\E l \in Coord : Peers(l))

Next ==
  \/ Tick \/ Crash \/ Restart
  \/ \E r \in Row : ToMaster(r)
  \/ \E r \in Unresolved : ResolveInbox({r})
  \/ ResolveInbox(Unresolved)
  \/ \E l \in Coord : LaneCut(l) \/ PeerArrives(l) \/ ScreenChanges(l) \/ TurnEnds(l) \/ LimitChanges(l)

\* The timer starts ticks for ever and each runs to its end; the supervisor
\* restarts the daemon.  Nothing makes a pane calm.
Fairness == WF_vars(Tick) /\ WF_vars(Restart)

Spec == Init /\ [][Next]_vars /\ Fairness

-----------------------------------------------------------------------------
(* Properties *)

(* The two lanes keep what Mailbox promises a sender, as the PEER lane does:  *)
(* only mail that is queued, neither resolved nor delivered, is pasted, by   *)
(* either lane and beside any handler; what is pasted is settled at once     *)
(* unless the daemon died, and only a death repeats a paste.                 *)
mailBox == [r \in Row |-> IF r \notin Entered THEN "none"
                         ELSE IF Unsent(r) THEN "queued" ELSE "settled"]

Promise == INSTANCE Mailbox WITH
  box <- mailBox, given <- pasted, faults <- crashes, Reopens <- FALSE

InboxKeepsMailbox == Promise!Spec

(* A lane reads the file, pastes and writes the file back without a handler  *)
(* in between: a row is pasted twice only if the daemon died after a paste.  *)
OncePerCrash == \A r \in Row : pasted[r] <= 1 + crashes

PastedAt(l) == {r \in Row : pasted'[r] > pasted[r] /\ LaneOf(r) = l}

(* While mail waits for the manager the border paint keeps looking at the    *)
(* pane, so that a turn it saw is followed by the settle time: mail that was *)
(* in the inbox then is not pasted at the next look.                         *)
WaitingMailSettles ==
  [][looked.busy /\ face["manager"] # "followup" => PastedAt("manager") \cap looked.rows = {}]_vars

Calm(l) == face[l] = "idle" /\ draft[l] = NoDraft /\ l \notin blocked /\ peers[l] < Threshold

(* The gate's clocks, the overload cooldown and a limit all end: mail for a  *)
(* coordinator whose pane stays calm is delivered.                           *)
CalmLaneDrains == \A l \in Coord : <>[]Calm(l) => []<>(Pending(l) = {})

(* What inbox-overload.ts says: injects are held until the cooldown expires. *)
(* So a calm pane gets under the threshold again.                            *)
OverloadEnds ==
  \A l \in Coord :
    <>[](face[l] = "idle" /\ draft[l] = NoDraft /\ l \notin blocked) => []<>(peers[l] < Threshold)
=============================================================================
