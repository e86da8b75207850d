------------------------------ MODULE PeerQueue ------------------------------
(***************************************************************************)
(* The peer lane of the daemon: PEER.jsonl, its parking file                *)
(* PEER-BACKLOG.jsonl and drainPeerOnce, the tick that moves a row from     *)
(* the queue into a tmux pane.  Seats are worker and mini seats; what a     *)
(* coordinator pane adds to the gate is the subject of PaneGate.            *)
(*                                                                          *)
(* drainPeerOnce is one synchronous call, so HTTP handlers (Enqueue) only   *)
(* run while pc = "rest".  Panes live in other processes and change under   *)
(* it, and the daemon can die between any two file writes: the tick is cut  *)
(* into one action per file write or tmux exchange.                         *)
(***************************************************************************)
EXTENDS Integers, FiniteSets

CONSTANTS
  Row,       \* row ids, numbered in the order of their `at` stamps
  Seat,      \* seats mail is addressed to
  Pane,      \* tmux pane ids, never reused
  NoPane,    \* a seat without a labelled pane
  Home,      \* [Seat -> Pane] the panes of the first layout
  To,        \* [Row -> Seat]   targetLabel
  Kind,      \* [Row -> Kinds]  prompt rows carry a [sent:] token
  Class,     \* [Row -> Classes] what the wording of the message makes of it
  BulkMax,   \* PEER_BULK_MAX
  MaxCrash,  \* bound: daemon deaths
  MaxChurn,  \* bound: changes of a screen or a delivery gate
  MaxDeath   \* bound: panes that die

Kinds   == {"prompt", "peer", "room", "thin"}
Classes == {"plain", "ack", "hub", "noise"}

ASSUME RowAssumption   == Row \subseteq Nat /\ IsFiniteSet(Row)
ASSUME PaneAssumption  == /\ NoPane \notin Pane
                          /\ Home \in [Seat -> Pane]
                          /\ \A s, t \in Seat : s # t => Home[s] # Home[t]
ASSUME ShapeAssumption == /\ To \in [Row -> Seat]
                          /\ Kind \in [Row -> Kinds]
                          /\ Class \in [Row -> Classes]
ASSUME BoundAssumption == /\ BulkMax \in Nat \ {0}
                          /\ MaxCrash \in Nat
                          /\ MaxChurn \in Nat
                          /\ MaxDeath \in Nat

VARIABLES
  st,        \* PEER.jsonl: what sent, sentAt and deliverPane say of each row
  pane,      \* PEER.jsonl: targetPane
  listed,    \* ids in PEER-BACKLOG.jsonl
  ahead,     \* <<a, b>>: a has an earlier backlogAt than b in that file
  copy,      \* PEER-BACKLOG.jsonl: targetPane of the copy
  live,      \* tmux: the pane labelled with each seat
  phase,     \* tmux: what the screen of each pane shows
  busyMark,  \* tmux: panes whose @mesh_status says BUSY
  blocked,   \* panes gateDelivery refuses (limit, proxy down, context, overload)
  hold,      \* memory: panes with a running notePaneDeliveryHold
  pc,        \* memory: where drainPeerOnce is
  todo,      \* memory: pending rows the tick has grouped and not yet drained
  work,      \* memory: rows of the batch still to be marked, parked or unlisted
  pasted,    \* history: how often each row went into a pane
  crashes, churn, deaths

files   == <<st, pane, listed, ahead, copy>>
panes   == <<live, phase, busyMark, blocked>>
memory  == <<hold, pc, todo, work>>
counts  == <<crashes, churn, deaths>>
vars    == <<files, panes, memory, pasted, counts>>

Statuses == {"absent", "pending", "parked", "skipped", "delivered"}
\* idle: empty composer; chrome: empty composer under Cursor's "Add a
\* follow-up" placeholder; busy: generating or a draft being typed; steer:
\* generating with the follow-up box open; shell: no agent in the pane;
\* wall: a limit banner or an agent no provider recognises.
Screens  == {"idle", "chrome", "busy", "steer", "shell", "wall"}
Phases   == Screens \cup {"unborn", "gone"}
Points   == {"rest", "start", "promote", "unlist", "refresh", "drain",
             "mark", "park", "list", "down"}

TypeOK ==
  /\ st \in [Row -> Statuses]
  /\ pane \in [Row -> Pane \cup {NoPane}]
  /\ listed \subseteq Row
  /\ ahead \subseteq listed \X listed
  /\ copy \in [Row -> Pane \cup {NoPane}]
  /\ live \in [Seat -> Pane \cup {NoPane}]
  /\ phase \in [Pane -> Phases]
  /\ busyMark \subseteq Pane
  /\ blocked \subseteq Pane
  /\ hold \subseteq Pane
  /\ pc \in Points
  /\ todo \subseteq Row
  /\ work \subseteq Row
  /\ pasted \in [Row -> Nat]
  /\ crashes \in 0..MaxCrash
  /\ churn \in 0..MaxChurn
  /\ deaths \in 0..MaxDeath

-----------------------------------------------------------------------------
(* Rows *)

Token(r) == Kind[r] = "prompt"
Thin(r)  == Kind[r] = "thin"
Rank(r)  == CASE Kind[r] = "prompt" -> 0
              [] Kind[r] = "peer"   -> 1
              [] OTHER              -> 2

\* The order drainPeerOnce sorts pending rows in.
Before(a, b) == Rank(a) < Rank(b) \/ (Rank(a) = Rank(b) /\ a < b)
Heads(S, r)  == r \in S /\ \A q \in S \ {r} : Before(r, q)

\* Fault for TLC to find: the order keeps entries that left the file.
UnlistKeepingOrder(S) == listed' = listed \ S /\ ahead' = ahead

\* PEER.jsonl and the backlog after the rows in S are taken out of the latter.
Unlist(S) ==
  /\ listed' = listed \ S
  /\ ahead' = {e \in ahead : e[1] \notin S /\ e[2] \notin S}

\* The rows in S get the newest backlogAt; an older entry of theirs goes.
Append(S, at) ==
  LET kept == listed \ S IN
  /\ listed' = kept \cup S
  /\ ahead' = {e \in ahead : e[1] \in kept /\ e[2] \in kept}
                \cup (kept \X S)
                \cup {e \in S \X S : e[1] < e[2]}
  /\ copy' = [r \in Row |-> IF r \in S THEN at[r] ELSE copy[r]]

Oldest(S, n) == {r \in S : Cardinality({q \in S : <<q, r>> \in ahead}) < n}

-----------------------------------------------------------------------------
(* What the daemon reads off a pane *)

FollowUpOpen(p) == phase[p] \in {"chrome", "steer"}

\* paneIdleForPromote
IdleForPromote(p) ==
  /\ phase[p] \in {"idle", "chrome"}
  /\ p \notin hold
  /\ p \in busyMark => FollowUpOpen(p)

\* Fault: the batch is the end of the sorted rows.
BatchFromTheEnd(S) ==
  LET cap == IF \E r \in S : Heads(S, r) /\ Thin(r) THEN 1 ELSE BulkMax
  IN {r \in S : Cardinality({q \in S : Before(r, q)}) < cap}

\* takePeerBulkBatch, and the solo rule for a thin ping at the head.
Batch(S) ==
  LET cap == IF \E r \in S : Heads(S, r) /\ Thin(r) THEN 1 ELSE BulkMax
  IN {r \in S : Cardinality({q \in S : Before(q, r)}) < cap}

\* Whether isAckClassPeer accepts the pasted text.  A digest is judged by its
\* own wording: a progress word of one row can carry it, a lead word cannot.
ReadsAsAck(B) ==
  IF Cardinality(B) = 1 THEN {\A r \in B : Class[r] = "ack"}
  ELSE IF \E r \in B : Class[r] = "ack" THEN BOOLEAN ELSE {FALSE}

Lightweight(B) == \A r \in B : Class[r] = "ack" \/ Kind[r] \in {"room", "thin"}
HubOverride(B) == \E r \in B : Class[r] = "hub"

\* Fault: the follow-up box is taken for a composer.
AcceptsFollowUp(p, B, ack) ==
  \/ phase[p] \in {"idle", "chrome", "steer"}
  \/ phase[p] = "busy" /\ HubOverride(B) /\ Lightweight(B)

\* deliverToPane pastes into a worker or mini pane.
Accepts(p, B, ack) ==
  \/ phase[p] \in {"idle", "chrome"}
  \/ phase[p] = "steer" /\ ack
  \/ phase[p] \in {"busy", "steer"} /\ HubOverride(B) /\ Lightweight(B)

\* The reasons notePaneDeliveryHold starts a hold for.
NotesHold(p) == phase[p] \in {"busy", "steer", "shell", "gone"}

-----------------------------------------------------------------------------
Init ==
  /\ st = [r \in Row |-> "absent"]
  /\ pane = [r \in Row |-> NoPane]
  /\ listed = {} /\ ahead = {}
  /\ copy = [r \in Row |-> NoPane]
  /\ live = Home
  /\ \E shown \in [Seat -> Screens] :
       phase = [p \in Pane |-> IF \E s \in Seat : Home[s] = p
                               THEN shown[CHOOSE s \in Seat : Home[s] = p] ELSE "unborn"]
  /\ busyMark = {} /\ blocked = {} /\ hold = {}
  /\ pc = "rest" /\ todo = {} /\ work = {}
  /\ pasted = [r \in Row |-> 0]
  /\ crashes = 0 /\ churn = 0 /\ deaths = 0

(* POST /to-peer: the CLI has resolved the seat to its live pane; a repeat   *)
(* inside the dedupe window adds no row, so each row is appended once.       *)
Enqueue(r) ==
  /\ pc = "rest"
  /\ st[r] = "absent"
  /\ \A q \in Row : q < r => st[q] # "absent"
  /\ live[To[r]] # NoPane
  /\ st' = [st EXCEPT ![r] = "pending"]
  /\ pane' = [pane EXCEPT ![r] = live[To[r]]]
  /\ UNCHANGED <<listed, ahead, copy, panes, memory, pasted, counts>>

StartTick ==
  /\ pc = "rest"
  /\ pc' = "start"
  /\ UNCHANGED <<files, panes, hold, todo, work, pasted, counts>>

\* Fault: orphans are not looked for.
ReconcileNothing ==
  /\ pc = "start"
  /\ pc' = "promote"
  /\ UNCHANGED <<files, panes, hold, todo, work, pasted, counts>>

(* reconcileBacklogOrphans: parked rows the backlog file does not have. *)
Reconcile ==
  /\ pc = "start"
  /\ Append({r \in Row : st[r] = "parked"} \ listed, pane)
  /\ pc' = "promote"
  /\ UNCHANGED <<st, pane, panes, hold, todo, work, pasted, counts>>

\* Fault: promote does not look for the token among delivered rows.
AlreadyInjectedUnseen == {}

\* Copies of rows PEER.jsonl already counts as settled under the same token.
AlreadyInjected == {r \in listed : Token(r) /\ st[r] \in {"delivered", "skipped"}}
\* Thin pings are dropped from the backlog whatever the pane shows.
ThinListed == {r \in listed : Thin(r)} \ AlreadyInjected
StillListed(p) == {r \in listed \ (AlreadyInjected \cup ThinListed) : copy[r] = p}

Eligible(p) ==
  IF ~IdleForPromote(p) THEN {}
  ELSE IF FollowUpOpen(p) THEN {r \in StillListed(p) : Class[r] = "ack"}
  ELSE StillListed(p)

Promotable == UNION {Oldest(Eligible(p), BulkMax) : p \in Pane}

(* promotePeerBacklog up to its writePeer; the backlog file is written next. *)
PromotePeerBacklog ==
  /\ pc = "promote"
  /\ st' = [r \in Row |-> CASE r \in AlreadyInjected -> "delivered"
                            [] r \in ThinListed      -> "skipped"
                            [] r \in Promotable      -> "pending"
                            [] OTHER                 -> st[r]]
  /\ pane' = [r \in Row |-> IF r \in AlreadyInjected \cup Promotable
                            THEN copy[r] ELSE pane[r]]
  /\ work' = AlreadyInjected \cup ThinListed \cup Promotable
  /\ pc' = "unlist"
  /\ UNCHANGED <<listed, ahead, copy, panes, hold, todo, pasted, counts>>

\* Fault: promoted rows keep their backlog copy.
WriteBacklogWhole ==
  /\ pc = "unlist"
  /\ work' = {}
  /\ pc' = "refresh"
  /\ UNCHANGED <<files, panes, hold, todo, pasted, counts>>

WriteBacklog ==
  /\ pc = "unlist"
  /\ Unlist(work)
  /\ work' = {}
  /\ pc' = "refresh"
  /\ UNCHANGED <<st, pane, copy, panes, hold, todo, pasted, counts>>

(* refreshAndGroupPeers: rows of a seat without a pane stay as they are, the *)
(* rest follow their seat to its live pane, and applySkips drops noise.      *)
RefreshAndGroupPeers ==
  /\ pc = "refresh"
  /\ LET found == {r \in Row : st[r] = "pending" /\ live[To[r]] # NoPane}
         noise == {r \in found : Class[r] = "noise"}
     IN /\ pane' = [r \in Row |-> IF r \in found THEN live[To[r]] ELSE pane[r]]
        /\ st' = [r \in Row |-> IF r \in noise THEN "skipped" ELSE st[r]]
        /\ todo' = found \ noise
  /\ pc' = "drain"
  /\ UNCHANGED <<listed, ahead, copy, panes, hold, work, pasted, counts>>

-----------------------------------------------------------------------------
(* drainPeerPaneBulk: one pane's group, one paste at most *)

Group(p) == {r \in todo : pane[r] = p}
Turn(p)  == pc = "drain" /\ Group(p) # {}

HeldPane(p) ==
  /\ Turn(p) /\ p \in hold
  /\ todo' = todo \ Group(p)
  /\ UNCHANGED <<files, panes, hold, pc, work, pasted, counts>>

HoldGateBatch(p) ==
  /\ Turn(p) /\ p \notin hold /\ p \in blocked
  /\ st' = [r \in Row |-> IF r \in Batch(Group(p)) /\ Thin(r) THEN "skipped" ELSE st[r]]
  /\ todo' = todo \ Group(p)
  /\ UNCHANGED <<pane, listed, ahead, copy, panes, hold, pc, work, pasted, counts>>

\* Fault: an empty seat is a reason to skip, not to park.
LoseSnapshotOrShell(p) ==
  /\ Turn(p) /\ p \notin hold \cup blocked
  /\ phase[p] \in {"gone", "shell"}
  /\ st' = [r \in Row |-> IF r \in Batch(Group(p)) THEN "skipped" ELSE st[r]]
  /\ todo' = todo \ Group(p)
  /\ UNCHANGED <<pane, listed, ahead, copy, panes, hold, pc, work, pasted, counts>>

\* The pane died between the label check and the capture: no_snapshot.
LoseSnapshot(p) ==
  /\ Turn(p) /\ p \notin hold \cup blocked
  /\ phase[p] = "gone"
  /\ st' = [r \in Row |-> IF r \in Batch(Group(p)) THEN "skipped" ELSE st[r]]
  /\ todo' = todo \ Group(p)
  /\ UNCHANGED <<pane, listed, ahead, copy, panes, hold, pc, work, pasted, counts>>

\* holdOrParkInjectFail: a hub row stays pending, a thin ping is dropped, the
\* others are parked one by one.
HoldOrParkInjectFail(p) ==
  /\ Turn(p) /\ p \notin hold \cup blocked
  /\ LET B == Batch(Group(p))
         refused == {r \in B : Class[r] # "hub"}
     IN /\ \E ack \in ReadsAsAck(B) : ~Accepts(p, B, ack)
        /\ st' = [r \in Row |-> IF r \in refused /\ Thin(r) THEN "skipped" ELSE st[r]]
        /\ work' = {r \in refused : ~Thin(r)}
  /\ hold' = IF NotesHold(p) THEN hold \cup {p} ELSE hold
  /\ todo' = todo \ Group(p)
  /\ pc' = IF work' = {} THEN "drain" ELSE "park"
  /\ UNCHANGED <<pane, listed, ahead, copy, panes, pasted, counts>>

DeliverToPane(p) ==
  /\ Turn(p) /\ p \notin hold \cup blocked
  /\ LET B == Batch(Group(p))
     IN /\ \E ack \in ReadsAsAck(B) : Accepts(p, B, ack)
        /\ pasted' = [r \in Row |-> IF r \in B THEN pasted[r] + 1 ELSE pasted[r]]
        /\ work' = B
  /\ todo' = todo \ Group(p)
  /\ pc' = "mark"
  /\ UNCHANGED <<files, panes, hold, counts>>

MarkDelivered ==
  /\ pc = "mark"
  /\ \E r \in work :
       /\ Heads(work, r)
       /\ st' = [st EXCEPT ![r] = "delivered"]
       /\ work' = work \ {r}
  /\ pc' = IF work' = {} THEN "drain" ELSE "mark"
  /\ UNCHANGED <<pane, listed, ahead, copy, panes, hold, todo, pasted, counts>>

\* Fault: a parked row is marked with its pane, as a delivered one is.
ParkAsDelivered ==
  /\ pc = "park"
  /\ \E r \in work : Heads(work, r) /\ st' = [st EXCEPT ![r] = "delivered"]
  /\ work' = {}
  /\ pc' = "drain"
  /\ UNCHANGED <<pane, listed, ahead, copy, panes, hold, todo, pasted, counts>>

(* parkPeerToBacklog writes PEER.jsonl, then PEER-BACKLOG.jsonl. *)
ParkPeerRow ==
  /\ pc = "park"
  /\ \E r \in work : Heads(work, r) /\ st' = [st EXCEPT ![r] = "parked"]
  /\ pc' = "list"
  /\ UNCHANGED <<pane, listed, ahead, copy, panes, hold, todo, work, pasted, counts>>

ListParkedRow ==
  /\ pc = "list"
  /\ \E r \in work :
       /\ st[r] = "parked"
       /\ Append({r}, pane)
       /\ work' = work \ {r}
  /\ pc' = IF work' = {} THEN "drain" ELSE "park"
  /\ UNCHANGED <<st, pane, panes, hold, todo, pasted, counts>>

EndTick ==
  /\ pc = "drain" /\ todo = {}
  /\ pc' = "rest"
  /\ UNCHANGED <<files, panes, hold, todo, work, pasted, counts>>

-----------------------------------------------------------------------------
(* The daemon dies and is started again by its supervisor: files survive,    *)
(* pane holds and the tick in progress do not.                               *)
Crash ==
  /\ pc # "down" /\ crashes < MaxCrash
  /\ pc' = "down"
  /\ hold' = {} /\ todo' = {} /\ work' = {}
  /\ crashes' = crashes + 1
  /\ UNCHANGED <<files, panes, pasted, churn, deaths>>

Restart ==
  /\ pc = "down"
  /\ pc' = "rest"
  /\ UNCHANGED <<files, panes, hold, todo, work, pasted, counts>>

HoldExpires(p) ==
  /\ p \in hold
  /\ hold' = hold \ {p}
  /\ UNCHANGED <<files, panes, pc, todo, work, pasted, counts>>

-----------------------------------------------------------------------------
(* Panes, each at its own pace *)

Alive(p) == phase[p] \in Screens

ScreenChanges(p) ==
  /\ Alive(p) /\ churn < MaxChurn
  /\ \E s \in Screens \ {phase[p]} : phase' = [phase EXCEPT ![p] = s]
  /\ churn' = churn + 1
  /\ UNCHANGED <<files, live, busyMark, blocked, memory, pasted, crashes, deaths>>

\* A seat runs `status BUSY` or `status OPEN`, or the border is repainted.
MarkChanges(p) ==
  /\ Alive(p)
  /\ busyMark' = IF p \in busyMark THEN busyMark \ {p} ELSE busyMark \cup {p}
  /\ UNCHANGED <<files, live, phase, blocked, memory, pasted, counts>>

GateChanges(p) ==
  /\ Alive(p) /\ churn < MaxChurn
  /\ blocked' = IF p \in blocked THEN blocked \ {p} ELSE blocked \cup {p}
  /\ churn' = churn + 1
  /\ UNCHANGED <<files, live, phase, busyMark, memory, pasted, crashes, deaths>>

PaneDies(s) ==
  /\ live[s] # NoPane /\ deaths < MaxDeath
  /\ phase' = [phase EXCEPT ![live[s]] = "gone"]
  /\ live' = [live EXCEPT ![s] = NoPane]
  /\ deaths' = deaths + 1
  /\ UNCHANGED <<files, busyMark, blocked, memory, pasted, crashes, churn>>

\* Relayout or relaunch: the seat's label goes to a new pane.
PaneBorn(s, p) ==
  /\ live[s] = NoPane /\ phase[p] = "unborn"
  /\ live' = [live EXCEPT ![s] = p]
  /\ phase' = [phase EXCEPT ![p] = "shell"]
  /\ UNCHANGED <<files, busyMark, blocked, memory, pasted, counts>>

-----------------------------------------------------------------------------
DrainPane(p) ==
  \/ HeldPane(p)
  \/ HoldGateBatch(p)
  \/ LoseSnapshot(p)
  \/ HoldOrParkInjectFail(p)
  \/ DeliverToPane(p)

DrainStep ==
  \/ StartTick \/ Reconcile \/ PromotePeerBacklog \/ WriteBacklog
  \/ RefreshAndGroupPeers
  \/ \E p \in Pane : DrainPane(p)
  \/ MarkDelivered \/ ParkPeerRow \/ ListParkedRow
  \/ EndTick

PaneStep ==
  \/ \E p \in Pane : ScreenChanges(p) \/ MarkChanges(p) \/ GateChanges(p)
  \/ \E s \in Seat : PaneDies(s)
  \/ \E s \in Seat, p \in Pane : PaneBorn(s, p)

Next ==
  \/ \E r \in Row : Enqueue(r)
  \/ DrainStep
  \/ Crash \/ Restart
  \/ \E p \in Pane : HoldExpires(p)
  \/ PaneStep

Spec == Init /\ [][Next]_vars

\* The daemon polls for ever, its supervisor restarts it and a hold runs out
\* after HOLD_MS.  Nothing makes a producer send, a screen change or a seat that
\* lost its pane come back.
Fairness ==
  /\ WF_vars(DrainStep)
  /\ WF_vars(Restart)
  /\ \A p \in Pane : WF_vars(HoldExpires(p))

LiveSpec == Spec /\ Fairness

-----------------------------------------------------------------------------
(* Safety *)

\* A row is pasted once, and once more at most for every death of the daemon:
\* the backlog copy that a crash between the two writes of promote leaves
\* behind, or a paste whose mark was lost, costs one extra paste and no more.
OnePastePerCrash == \A r \in Row : pasted[r] <= 1 + crashes

\* A tick never leaves a parked row outside PEER-BACKLOG.jsonl: between the
\* writes of one park it is the row being parked, and after a crash there the
\* next tick lists it again before it promotes anything.
ParkedIsListed ==
  pc \notin {"down", "rest", "start"} =>
    \A r \in Row : st[r] = "parked" =>
      \/ r \in listed
      \/ pc = "list" /\ r \in work

\* Mail the queue calls delivered went into a pane.  The one exception needs a
\* crash: a prompt skipped for want of a snapshot, whose backlog copy then
\* passes for already injected.
DeliveredWasPasted ==
  \A r \in Row : st[r] = "delivered" =>
    pasted[r] > 0 \/ (crashes > 0 /\ Token(r))

\* Thin room pings never enter the backlog.
ThinNeverParked == \A r \in Row : Thin(r) => st[r] # "parked" /\ r \notin listed

\* A row that carries a token is settled for good; only a row without one can
\* come back to the queue, and only after a crash left its copy in the backlog.
SettledStays ==
  [][\A r \in Row : st[r] \in {"delivered", "skipped"} =>
       \/ st'[r] \in {"delivered", "skipped"}
       \/ crashes > 0 /\ ~Token(r)]_vars

\* Mail is given up only when it is noise, a thin ping, or addressed to a pane
\* that died under the drain.
DropsOnlyNoise ==
  [][\A r \in Row : (st[r] # "skipped" /\ st'[r] = "skipped") =>
       \/ Thin(r) \/ Class[r] = "noise"
       \/ phase[pane[r]] = "gone"]_vars

\* A paste reaches the pane its seat has now, and an agent in it.  One at work
\* is only given a batch with the override in it or, in its follow-up box, with
\* a progress note: never plain mail alone, whichever rows a park, a promote and
\* a refresh have brought together.  This is what code and documents agree on;
\* OnlyOverridesInterrupt is what the documents say beyond it.
PastesWhereAllowed ==
  [][\A r \in Row : pasted'[r] > pasted[r] =>
       /\ live[To[r]] = pane[r]
       /\ \/ phase[pane[r]] \in {"idle", "chrome"}
          \/ \E q \in Row :
               /\ pasted'[q] > pasted[q] /\ pane[q] = pane[r]
               /\ \/ Class[q] = "hub" /\ phase[pane[r]] \in {"busy", "steer"}
                  \/ Class[q] = "ack" /\ phase[pane[r]] = "steer"]_vars

\* Mail that waits in the queue leaves it by kind and age: no paste of a tick
\* passes over a row of the same seat that comes before it, whatever was held,
\* refused, promoted or cut off meanwhile.  Only a parked row gives up its place.
OldestFirst ==
  [][\A a, b \in Row :
       /\ pasted'[b] > pasted[b] /\ To[a] = To[b] /\ st[a] = "pending"
       /\ Rank(a) < Rank(b) \/ (Rank(a) = Rank(b) /\ a < b)
       => pasted'[a] > pasted[a]]_vars

-----------------------------------------------------------------------------
(* Liveness *)

Settled(r) == st[r] \in {"delivered", "skipped"}
Waiting(r) == st[r] \in {"pending", "parked"}
Ready(s, screens) ==
  /\ live[s] # NoPane
  /\ phase[live[s]] \in screens
  /\ live[s] \notin busyMark \cup blocked

\* Parked mail that no tick promotes: its backlog copy names a pane that is
\* gone, or it is substance for a composer under the follow-up placeholder.
Stranded(r) ==
  /\ st[r] = "parked"
  /\ \/ pc \in {"rest", "start", "down"} \/ r \in listed
  /\ \/ r \notin listed /\ phase[pane[r]] = "gone"
     \/ r \in listed /\ phase[copy[r]] = "gone"
     \/ live[To[r]] # NoPane /\ phase[live[To[r]]] = "chrome" /\ Class[r] # "ack"

\* No row waits for ever for a seat that keeps an empty composer: through any
\* crash and restart, park and promote it is settled in the end, unless it is
\* stranded in one of those two ways.
EmptySeatGetsItsMail ==
  \A r \in Row :
    []<>(Ready(To[r], {"idle", "chrome"}) /\ Waiting(r) => Stranded(r))

\* docs/ARCHITECTURE.md: a peer to a busy pane is parked "and the daemon
\* promotes it when the target goes idle".  The target here is a seat that may
\* have moved to another pane in the meantime.
MovedSeatGetsItsMail ==
  \A r \in Row :
    <>[]Ready(To[r], {"idle"}) => (Waiting(r) ~> Settled(r))

\* docs/PEER-BACKLOG-SPEC.md: "promote when pane idle (composer empty/afk and
\* @mesh_status not BUSY)".  Cursor's empty composer shows "Add a follow-up".
EmptyComposerGetsItsMail ==
  \A r \in Row :
    <>[]Ready(To[r], {"idle", "chrome"}) => (Waiting(r) ~> Settled(r))

\* peer-backlog.ts: "Park inbound while the pane is busy/typing/empty-seat. Only
\* PRIORITY / STOP other work pastes."  So a batch whose turn comes while the
\* agent is generating, with no hold or gate against it, is pasted if the
\* override is in it and otherwise not; the follow-up box makes no difference.
OnlyOverridesInterrupt ==
  [][\A p \in Pane :
       LET B == Batch(Group(p)) IN
       /\ Turn(p) /\ p \notin hold \cup blocked /\ phase[p] \in {"busy", "steer"}
       /\ Group(p)' = {} /\ pc' # "down"
       => ((\E r \in B : pasted'[r] > pasted[r]) <=> HubOverride(B))]_vars

-----------------------------------------------------------------------------
(* The abstract mailbox *)

box == [r \in Row |-> CASE st[r] = "absent" -> "none"
                        [] Waiting(r)       -> "queued"
                        [] OTHER            -> "settled"]

Box == INSTANCE Mailbox WITH given <- pasted, faults <- crashes, Reopens <- TRUE

\* The peer queue keeps the promise of Mailbox.
KeepsMailbox == Box!Spec
=============================================================================
