--------------------------- MODULE PeerQueueProofs ---------------------------
(***************************************************************************)
(* Theorems about PeerQueue, for every set of rows, seats and panes and     *)
(* every value of the bounds.  All of them come from one inductive          *)
(* invariant, IInv: what the properties themselves leave out is where in    *)
(* the tick each row is, and how many pastes a row is still owed.           *)
(***************************************************************************)
EXTENDS PeerQueue, FiniteSetTheorems, TLAPS

\* The row is in the pane but PEER.jsonl still calls it pending.
InHand(r) == pc = "mark" /\ r \in work

\* PEER-BACKLOG.jsonl holds a copy that no parked row accounts for and that
\* the tick is not about to remove: promote will bring the row back.
Stray(r) == /\ r \in listed
            /\ st[r] # "parked"
            /\ ~(pc = "unlist" /\ r \in work)

\* The pastes the two files still promise for a row.
Owed(r) == (IF Waiting(r) /\ ~InHand(r) THEN 1 ELSE 0) + (IF Stray(r) THEN 1 ELSE 0)

Budget == \A r \in Row : pasted[r] + Owed(r) <= 1 + crashes

StrayNeedsCrash == crashes = 0 => \A r \in Row : ~Stray(r)

Unsent == \A r \in Row : st[r] = "absent" => pasted[r] = 0 /\ r \notin listed

\* todo and work are tick-local, disjoint, and hold rows in the state the
\* step that consumes them expects.
TodoShape ==
  /\ pc \notin {"drain", "mark", "park", "list"} => todo = {}
  /\ todo \cap work = {}
  /\ \A r \in todo :
       /\ st[r] = "pending"
       /\ pane[r] \in Pane
       /\ live[To[r]] = pane[r] \/ phase[pane[r]] = "gone"

WorkShape ==
  /\ pc \notin {"unlist", "mark", "park", "list"} => work = {}
  /\ pc = "unlist" => \A r \in work : st[r] # "parked"
  /\ pc = "mark" => \A r \in work : st[r] = "pending" /\ pasted[r] > 0
  /\ pc = "park" => \A r \in work : st[r] = "pending" /\ ~Thin(r)
  /\ pc = "list" => \A r \in work : st[r] \in {"pending", "parked"} /\ ~Thin(r)
  /\ pc = "list" => \A q, r \in work : st[q] = "parked" /\ st[r] = "parked" => q = r

IInv ==
  /\ TypeOK
  /\ Unsent /\ TodoShape /\ WorkShape
  /\ Budget /\ StrayNeedsCrash
  /\ ParkedIsListed /\ DeliveredWasPasted /\ ThinNeverParked

-----------------------------------------------------------------------------
(* What the operators of the tick return *)

\* A batch is taken from the rows it is offered.
LEMMA BatchSubset == \A S : Batch(S) \subseteq S
  BY DEF Batch

\* promote only revives rows that the backlog file lists.
LEMMA PromotableListed ==
  /\ Promotable \subseteq listed
  /\ \A r \in Promotable : r \notin AlreadyInjected /\ r \notin ThinListed
  BY DEF Promotable, Oldest, Eligible, StillListed

\* Appending to the backlog keeps its order a relation on its rows.
LEMMA AppendType ==
  ASSUME TypeOK, NEW S \in SUBSET Row, Append(S, pane)
  PROVE  /\ listed' \subseteq Row
         /\ ahead' \subseteq listed' \X listed'
         /\ copy' \in [Row -> Pane \cup {NoPane}]
  BY DEF TypeOK, Append

-----------------------------------------------------------------------------
(* The inductive invariant *)

\* The first state satisfies it.
LEMMA InitIInv == Init => IInv
<1> SUFFICES ASSUME Init PROVE IInv
  OBVIOUS
<1> USE DEF Init
<1>1. TypeOK
  BY BoundAssumption, PaneAssumption
  DEF TypeOK, Statuses, Phases, Screens, Points
<1>2. Unsent /\ TodoShape /\ WorkShape
  BY DEF Unsent, TodoShape, WorkShape
<1>3. Budget /\ StrayNeedsCrash
  BY DEF Budget, StrayNeedsCrash, Owed, Stray, Waiting, InHand
<1>4. ParkedIsListed /\ DeliveredWasPasted /\ ThinNeverParked
  BY DEF ParkedIsListed, DeliveredWasPasted, ThinNeverParked
<1>. QED
  BY <1>1, <1>2, <1>3, <1>4 DEF IInv

\* A producer's append.
LEMMA EnqueueIInv == ASSUME IInv, NEW r \in Row, Enqueue(r) PROVE IInv'
<1> USE DEF Enqueue, files, panes, memory, counts
<1>1. TypeOK'
  BY ShapeAssumption DEF IInv, TypeOK, Statuses
<1>2. Unsent' /\ TodoShape' /\ WorkShape'
  BY DEF IInv, TypeOK, Unsent, TodoShape, WorkShape
<1>3. Budget'
  BY ShapeAssumption DEF IInv, TypeOK, Unsent, Budget, Owed, Stray, Waiting, InHand
<1>4. StrayNeedsCrash'
  BY DEF IInv, TypeOK, StrayNeedsCrash, Stray, Unsent
<1>5. ParkedIsListed' /\ DeliveredWasPasted' /\ ThinNeverParked'
  BY DEF IInv, TypeOK, ParkedIsListed, DeliveredWasPasted, ThinNeverParked
<1>. QED
  BY <1>1, <1>2, <1>3, <1>4, <1>5 DEF IInv

\* The tick begins.
LEMMA StartTickIInv == ASSUME IInv, StartTick PROVE IInv'
<1> USE DEF StartTick, files, panes, memory, counts
<1>1. TypeOK'
  BY DEF IInv, TypeOK, Points
<1>2. Unsent' /\ TodoShape' /\ WorkShape'
  BY DEF IInv, TypeOK, Unsent, TodoShape, WorkShape
<1>3. Budget'
  BY DEF IInv, TypeOK, Unsent, TodoShape, WorkShape, Budget, Owed, Stray, Waiting, InHand
<1>4. StrayNeedsCrash'
  BY DEF IInv, TypeOK, TodoShape, WorkShape, StrayNeedsCrash, Stray
<1>5. ParkedIsListed' /\ DeliveredWasPasted' /\ ThinNeverParked'
  BY DEF IInv, TypeOK, TodoShape, WorkShape, StrayNeedsCrash, Stray, ParkedIsListed, DeliveredWasPasted, ThinNeverParked
<1>. QED
  BY <1>1, <1>2, <1>3, <1>4, <1>5 DEF IInv

\* Orphans are parked rows, so their new copies are accounted for.
LEMMA ReconcileIInv == ASSUME IInv, Reconcile PROVE IInv'
<1> USE DEF Reconcile, files, panes, memory, counts
<1>1. TypeOK'
  BY AppendType DEF IInv, TypeOK, Points
<1>2. Unsent' /\ TodoShape' /\ WorkShape'
  BY DEF IInv, TypeOK, Unsent, TodoShape, WorkShape, Append
<1>3. Budget'
  BY DEF IInv, TypeOK, Unsent, TodoShape, WorkShape, Budget, Owed, Stray, Waiting, InHand, Append
<1>4. StrayNeedsCrash'
  BY DEF IInv, TypeOK, TodoShape, WorkShape, StrayNeedsCrash, Stray, Append
<1>5. ParkedIsListed' /\ DeliveredWasPasted' /\ ThinNeverParked'
  BY DEF IInv, TypeOK, TodoShape, WorkShape, StrayNeedsCrash, Stray, ParkedIsListed, DeliveredWasPasted, ThinNeverParked, Append
<1>. QED
  BY <1>1, <1>2, <1>3, <1>4, <1>5 DEF IInv

\* A revived or finalised row trades its stray copy for a promise in PEER.jsonl.
LEMMA PromoteIInv == ASSUME IInv, PromotePeerBacklog PROVE IInv'
<1> USE DEF PromotePeerBacklog, files, panes, memory, counts
<1>1. TypeOK'
  BY PromotableListed DEF IInv, TypeOK, Points, Statuses, AlreadyInjected, ThinListed
<1>2. Unsent' /\ TodoShape' /\ WorkShape'
  BY PromotableListed DEF IInv, TypeOK, Unsent, TodoShape, WorkShape, AlreadyInjected, ThinListed
<1>3. Budget'
  BY PromotableListed DEF IInv, TypeOK, Unsent, TodoShape, WorkShape, Budget, Owed, Stray, Waiting, InHand, AlreadyInjected, ThinListed
<1>4. StrayNeedsCrash'
  BY PromotableListed DEF IInv, TypeOK, TodoShape, WorkShape, StrayNeedsCrash, Stray, AlreadyInjected, ThinListed
<1>5. ParkedIsListed' /\ DeliveredWasPasted' /\ ThinNeverParked'
  BY PromotableListed DEF IInv, TypeOK, TodoShape, WorkShape, StrayNeedsCrash, Stray, ParkedIsListed, DeliveredWasPasted, ThinNeverParked, AlreadyInjected, ThinListed
<1>. QED
  BY <1>1, <1>2, <1>3, <1>4, <1>5 DEF IInv

\* The copies of the rows just promoted or finalised go.
LEMMA WriteBacklogIInv == ASSUME IInv, WriteBacklog PROVE IInv'
<1> USE DEF WriteBacklog, Unlist, files, panes, memory, counts
<1>1. TypeOK'
  BY DEF IInv, TypeOK, Points
<1>2. Unsent' /\ TodoShape' /\ WorkShape'
  BY DEF IInv, TypeOK, Unsent, TodoShape, WorkShape
<1>3. Budget'
  BY DEF IInv, TypeOK, Unsent, TodoShape, WorkShape, Budget, Owed, Stray, Waiting, InHand
<1>4. StrayNeedsCrash'
  BY DEF IInv, TypeOK, TodoShape, WorkShape, StrayNeedsCrash, Stray
<1>5. ParkedIsListed' /\ DeliveredWasPasted' /\ ThinNeverParked'
  BY DEF IInv, TypeOK, TodoShape, WorkShape, StrayNeedsCrash, Stray, ParkedIsListed, DeliveredWasPasted, ThinNeverParked
<1>. QED
  BY <1>1, <1>2, <1>3, <1>4, <1>5 DEF IInv

\* Pending rows follow their seat, noise is dropped.
LEMMA RefreshIInv == ASSUME IInv, RefreshAndGroupPeers PROVE IInv'
<1> USE DEF RefreshAndGroupPeers, files, panes, memory, counts
<1>1. TypeOK'
  BY ShapeAssumption DEF IInv, TypeOK, Points, Statuses
<1>2. Unsent' /\ TodoShape' /\ WorkShape'
  BY ShapeAssumption DEF IInv, TypeOK, Unsent, TodoShape, WorkShape
<1>3. Budget'
  BY DEF IInv, TypeOK, Unsent, TodoShape, WorkShape, Budget, Owed, Stray, Waiting, InHand
<1>4. StrayNeedsCrash'
  BY DEF IInv, TypeOK, TodoShape, WorkShape, StrayNeedsCrash, Stray
<1>5. ParkedIsListed' /\ DeliveredWasPasted' /\ ThinNeverParked'
  BY DEF IInv, TypeOK, TodoShape, WorkShape, StrayNeedsCrash, Stray, ParkedIsListed, DeliveredWasPasted, ThinNeverParked
<1>. QED
  BY <1>1, <1>2, <1>3, <1>4, <1>5 DEF IInv

\* A pane on hold: its group waits.
LEMMA HeldPaneIInv == ASSUME IInv, NEW p \in Pane, HeldPane(p) PROVE IInv'
<1> USE DEF HeldPane, Turn, files, panes, memory, counts
<1>1. TypeOK'
  BY DEF IInv, TypeOK, Points
<1>2. Unsent' /\ TodoShape' /\ WorkShape'
  BY DEF IInv, TypeOK, Unsent, TodoShape, WorkShape
<1>3. Budget'
  BY DEF IInv, TypeOK, Unsent, TodoShape, WorkShape, Budget, Owed, Stray, Waiting, InHand
<1>4. StrayNeedsCrash'
  BY DEF IInv, TypeOK, TodoShape, WorkShape, StrayNeedsCrash, Stray
<1>5. ParkedIsListed' /\ DeliveredWasPasted' /\ ThinNeverParked'
  BY DEF IInv, TypeOK, TodoShape, WorkShape, StrayNeedsCrash, Stray, ParkedIsListed, DeliveredWasPasted, ThinNeverParked
<1>. QED
  BY <1>1, <1>2, <1>3, <1>4, <1>5 DEF IInv

\* A closed gate: only thin pings are settled.
LEMMA HoldGateIInv == ASSUME IInv, NEW p \in Pane, HoldGateBatch(p) PROVE IInv'
<1> USE DEF HoldGateBatch, Turn, Group, files, panes, memory, counts
<1>1. TypeOK'
  BY DEF IInv, TypeOK, Statuses
<1>2. Unsent' /\ TodoShape' /\ WorkShape'
  BY BatchSubset DEF IInv, TypeOK, Unsent, TodoShape, WorkShape
<1>3. Budget'
  BY BatchSubset DEF IInv, TypeOK, Unsent, TodoShape, WorkShape, Budget, Owed, Stray, Waiting, InHand
<1>4. StrayNeedsCrash'
  BY BatchSubset DEF IInv, TypeOK, TodoShape, WorkShape, StrayNeedsCrash, Stray
<1>5. ParkedIsListed' /\ DeliveredWasPasted' /\ ThinNeverParked'
  BY BatchSubset DEF IInv, TypeOK, TodoShape, WorkShape, StrayNeedsCrash, Stray, ParkedIsListed, DeliveredWasPasted, ThinNeverParked
<1>. QED
  BY <1>1, <1>2, <1>3, <1>4, <1>5 DEF IInv

\* A lost pane: its batch is settled as skipped.
LEMMA LoseSnapshotIInv == ASSUME IInv, NEW p \in Pane, LoseSnapshot(p) PROVE IInv'
<1> USE DEF LoseSnapshot, Turn, Group, files, panes, memory, counts
<1>1. TypeOK'
  BY DEF IInv, TypeOK, Statuses
<1>2. Unsent' /\ TodoShape' /\ WorkShape'
  BY BatchSubset DEF IInv, TypeOK, Unsent, TodoShape, WorkShape
<1>3. Budget'
  BY BatchSubset DEF IInv, TypeOK, Unsent, TodoShape, WorkShape, Budget, Owed, Stray, Waiting, InHand
<1>4. StrayNeedsCrash'
  BY BatchSubset DEF IInv, TypeOK, TodoShape, WorkShape, StrayNeedsCrash, Stray
<1>5. ParkedIsListed' /\ DeliveredWasPasted' /\ ThinNeverParked'
  BY BatchSubset DEF IInv, TypeOK, TodoShape, WorkShape, StrayNeedsCrash, Stray, ParkedIsListed, DeliveredWasPasted, ThinNeverParked
<1>. QED
  BY <1>1, <1>2, <1>3, <1>4, <1>5 DEF IInv

\* A refused batch leaves todo for work and stays pending until its park.
LEMMA HoldOrParkIInv == ASSUME IInv, NEW p \in Pane, HoldOrParkInjectFail(p) PROVE IInv'
<1> USE DEF HoldOrParkInjectFail, Turn, Group, files, panes, memory, counts
<1>1. TypeOK'
  BY BatchSubset DEF IInv, TypeOK, Points, Statuses
<1>2. Unsent' /\ TodoShape' /\ WorkShape'
  BY BatchSubset DEF IInv, TypeOK, Unsent, TodoShape, WorkShape
<1>3. Budget'
  BY BatchSubset DEF IInv, TypeOK, Unsent, TodoShape, WorkShape, Budget, Owed, Stray, Waiting, InHand
<1>4. StrayNeedsCrash'
  BY BatchSubset DEF IInv, TypeOK, TodoShape, WorkShape, StrayNeedsCrash, Stray
<1>5. ParkedIsListed' /\ DeliveredWasPasted' /\ ThinNeverParked'
  BY BatchSubset DEF IInv, TypeOK, TodoShape, WorkShape, StrayNeedsCrash, Stray, ParkedIsListed, DeliveredWasPasted, ThinNeverParked
<1>. QED
  BY <1>1, <1>2, <1>3, <1>4, <1>5 DEF IInv

\* A paste uses up the promise of the pending row.
LEMMA DeliverIInv == ASSUME IInv, NEW p \in Pane, DeliverToPane(p) PROVE IInv'
<1> USE DEF DeliverToPane, Turn, Group, files, panes, memory, counts
<1>1. TypeOK'
  BY BatchSubset DEF IInv, TypeOK, Points
<1>2. Unsent' /\ TodoShape' /\ WorkShape'
  BY BatchSubset DEF IInv, TypeOK, Unsent, TodoShape, WorkShape
<1>3. Budget'
  BY BatchSubset DEF IInv, TypeOK, Unsent, TodoShape, WorkShape, Budget, Owed, Stray, Waiting, InHand
<1>4. StrayNeedsCrash'
  BY BatchSubset DEF IInv, TypeOK, TodoShape, WorkShape, StrayNeedsCrash, Stray
<1>5. ParkedIsListed' /\ DeliveredWasPasted' /\ ThinNeverParked'
  BY BatchSubset DEF IInv, TypeOK, TodoShape, WorkShape, StrayNeedsCrash, Stray, ParkedIsListed, DeliveredWasPasted, ThinNeverParked
<1>. QED
  BY <1>1, <1>2, <1>3, <1>4, <1>5 DEF IInv

\* The mark turns a row in hand into a delivered one.
LEMMA MarkIInv == ASSUME IInv, MarkDelivered PROVE IInv'
<1> USE DEF MarkDelivered, files, panes, memory, counts
<1>1. TypeOK'
  BY DEF IInv, TypeOK, Points, Statuses
<1>2. Unsent' /\ TodoShape' /\ WorkShape'
  BY DEF IInv, TypeOK, Unsent, TodoShape, WorkShape
<1>3. Budget'
  BY DEF IInv, TypeOK, Unsent, TodoShape, WorkShape, Budget, Owed, Stray, Waiting, InHand
<1>4. StrayNeedsCrash'
  BY DEF IInv, TypeOK, TodoShape, WorkShape, StrayNeedsCrash, Stray
<1>5. ParkedIsListed' /\ DeliveredWasPasted' /\ ThinNeverParked'
  BY DEF IInv, TypeOK, TodoShape, WorkShape, StrayNeedsCrash, Stray, ParkedIsListed, DeliveredWasPasted, ThinNeverParked
<1>. QED
  BY <1>1, <1>2, <1>3, <1>4, <1>5 DEF IInv

\* A parked row keeps its promise; an older copy is now its own.
LEMMA ParkIInv == ASSUME IInv, ParkPeerRow PROVE IInv'
<1> USE DEF ParkPeerRow, files, panes, memory, counts
<1>1. TypeOK'
  BY DEF IInv, TypeOK, Points, Statuses
<1>2. Unsent' /\ TodoShape' /\ WorkShape'
  BY DEF IInv, TypeOK, Unsent, TodoShape, WorkShape
<1>3. Budget'
  BY DEF IInv, TypeOK, Unsent, TodoShape, WorkShape, Budget, Owed, Stray, Waiting, InHand
<1>4. StrayNeedsCrash'
  BY DEF IInv, TypeOK, TodoShape, WorkShape, StrayNeedsCrash, Stray
<1>5. ParkedIsListed' /\ DeliveredWasPasted' /\ ThinNeverParked'
  BY DEF IInv, TypeOK, TodoShape, WorkShape, StrayNeedsCrash, Stray, ParkedIsListed, DeliveredWasPasted, ThinNeverParked
<1>. QED
  BY <1>1, <1>2, <1>3, <1>4, <1>5 DEF IInv

\* The copy joins the backlog and belongs to a parked row.
LEMMA ListIInv == ASSUME IInv, ListParkedRow PROVE IInv'
<1> USE DEF ListParkedRow, files, panes, memory, counts
<1>1. TypeOK'
  BY AppendType DEF IInv, TypeOK, Points
<1>2. Unsent' /\ TodoShape' /\ WorkShape'
  BY DEF IInv, TypeOK, Unsent, TodoShape, WorkShape, Append
<1>3. Budget'
  BY DEF IInv, TypeOK, Unsent, TodoShape, WorkShape, Budget, Owed, Stray, Waiting, InHand, Append
<1>4. StrayNeedsCrash'
  BY DEF IInv, TypeOK, TodoShape, WorkShape, StrayNeedsCrash, Stray, Append
<1>5. ParkedIsListed' /\ DeliveredWasPasted' /\ ThinNeverParked'
  BY DEF IInv, TypeOK, TodoShape, WorkShape, StrayNeedsCrash, Stray, ParkedIsListed, DeliveredWasPasted, ThinNeverParked, Append
<1>. QED
  BY <1>1, <1>2, <1>3, <1>4, <1>5 DEF IInv

\* The tick ends with nothing grouped.
LEMMA EndTickIInv == ASSUME IInv, EndTick PROVE IInv'
<1> USE DEF EndTick, files, panes, memory, counts
<1>1. TypeOK'
  BY DEF IInv, TypeOK, Points
<1>2. Unsent' /\ TodoShape' /\ WorkShape'
  BY DEF IInv, TypeOK, Unsent, TodoShape, WorkShape
<1>3. Budget'
  BY DEF IInv, TypeOK, Unsent, TodoShape, WorkShape, Budget, Owed, Stray, Waiting, InHand
<1>4. StrayNeedsCrash'
  BY DEF IInv, TypeOK, TodoShape, WorkShape, StrayNeedsCrash, Stray
<1>5. ParkedIsListed' /\ DeliveredWasPasted' /\ ThinNeverParked'
  BY DEF IInv, TypeOK, TodoShape, WorkShape, StrayNeedsCrash, Stray, ParkedIsListed, DeliveredWasPasted, ThinNeverParked
<1>. QED
  BY <1>1, <1>2, <1>3, <1>4, <1>5 DEF IInv

\* A crash may revive one promise per row: a lost mark or a copy not yet removed.
LEMMA CrashIInv == ASSUME IInv, Crash PROVE IInv'
<1> USE DEF Crash, files, panes, memory, counts
<1>1. TypeOK'
  BY BoundAssumption DEF IInv, TypeOK, Points
<1>2. Unsent' /\ TodoShape' /\ WorkShape'
  BY DEF IInv, TypeOK, Unsent, TodoShape, WorkShape
<1>3. Budget'
  BY DEF IInv, TypeOK, Unsent, TodoShape, WorkShape, Budget, Owed, Stray, Waiting, InHand
<1>4. StrayNeedsCrash'
  BY DEF IInv, TypeOK, TodoShape, WorkShape, StrayNeedsCrash, Stray
<1>5. ParkedIsListed' /\ DeliveredWasPasted' /\ ThinNeverParked'
  BY DEF IInv, TypeOK, TodoShape, WorkShape, StrayNeedsCrash, Stray, ParkedIsListed, DeliveredWasPasted, ThinNeverParked
<1>. QED
  BY <1>1, <1>2, <1>3, <1>4, <1>5 DEF IInv

\* The daemon is back with empty memory.
LEMMA RestartIInv == ASSUME IInv, Restart PROVE IInv'
<1> USE DEF Restart, files, panes, memory, counts
<1>1. TypeOK'
  BY DEF IInv, TypeOK, Points
<1>2. Unsent' /\ TodoShape' /\ WorkShape'
  BY DEF IInv, TypeOK, Unsent, TodoShape, WorkShape
<1>3. Budget'
  BY DEF IInv, TypeOK, Unsent, TodoShape, WorkShape, Budget, Owed, Stray, Waiting, InHand
<1>4. StrayNeedsCrash'
  BY DEF IInv, TypeOK, TodoShape, WorkShape, StrayNeedsCrash, Stray
<1>5. ParkedIsListed' /\ DeliveredWasPasted' /\ ThinNeverParked'
  BY DEF IInv, TypeOK, TodoShape, WorkShape, StrayNeedsCrash, Stray, ParkedIsListed, DeliveredWasPasted, ThinNeverParked
<1>. QED
  BY <1>1, <1>2, <1>3, <1>4, <1>5 DEF IInv

\* A hold runs out.
LEMMA HoldExpiresIInv == ASSUME IInv, NEW p \in Pane, HoldExpires(p) PROVE IInv'
<1> USE DEF HoldExpires, files, panes, memory, counts
<1>1. TypeOK'
  BY DEF IInv, TypeOK
<1>2. Unsent' /\ TodoShape' /\ WorkShape'
  BY DEF IInv, TypeOK, Unsent, TodoShape, WorkShape
<1>3. Budget'
  BY DEF IInv, TypeOK, Unsent, TodoShape, WorkShape, Budget, Owed, Stray, Waiting, InHand
<1>4. StrayNeedsCrash'
  BY DEF IInv, TypeOK, TodoShape, WorkShape, StrayNeedsCrash, Stray
<1>5. ParkedIsListed' /\ DeliveredWasPasted' /\ ThinNeverParked'
  BY DEF IInv, TypeOK, TodoShape, WorkShape, StrayNeedsCrash, Stray, ParkedIsListed, DeliveredWasPasted, ThinNeverParked
<1>. QED
  BY <1>1, <1>2, <1>3, <1>4, <1>5 DEF IInv

\* A screen changes; a dead pane stays dead.
LEMMA ScreenIInv == ASSUME IInv, NEW p \in Pane, ScreenChanges(p) PROVE IInv'
<1> USE DEF ScreenChanges, Alive, files, panes, memory, counts
<1>1. TypeOK'
  BY BoundAssumption DEF IInv, TypeOK, Phases, Screens
<1>2. Unsent' /\ TodoShape' /\ WorkShape'
  BY DEF IInv, TypeOK, Unsent, TodoShape, WorkShape, Screens
<1>3. Budget'
  BY DEF IInv, TypeOK, Unsent, TodoShape, WorkShape, Budget, Owed, Stray, Waiting, InHand
<1>4. StrayNeedsCrash'
  BY DEF IInv, TypeOK, TodoShape, WorkShape, StrayNeedsCrash, Stray
<1>5. ParkedIsListed' /\ DeliveredWasPasted' /\ ThinNeverParked'
  BY DEF IInv, TypeOK, TodoShape, WorkShape, StrayNeedsCrash, Stray, ParkedIsListed, DeliveredWasPasted, ThinNeverParked
<1>. QED
  BY <1>1, <1>2, <1>3, <1>4, <1>5 DEF IInv

\* A seat changes its banner mark.
LEMMA MarkChangeIInv == ASSUME IInv, NEW p \in Pane, MarkChanges(p) PROVE IInv'
<1> USE DEF MarkChanges, Alive, files, panes, memory, counts
<1>1. TypeOK'
  BY BoundAssumption DEF IInv, TypeOK
<1>2. Unsent' /\ TodoShape' /\ WorkShape'
  BY DEF IInv, TypeOK, Unsent, TodoShape, WorkShape
<1>3. Budget'
  BY DEF IInv, TypeOK, Unsent, TodoShape, WorkShape, Budget, Owed, Stray, Waiting, InHand
<1>4. StrayNeedsCrash'
  BY DEF IInv, TypeOK, TodoShape, WorkShape, StrayNeedsCrash, Stray
<1>5. ParkedIsListed' /\ DeliveredWasPasted' /\ ThinNeverParked'
  BY DEF IInv, TypeOK, TodoShape, WorkShape, StrayNeedsCrash, Stray, ParkedIsListed, DeliveredWasPasted, ThinNeverParked
<1>. QED
  BY <1>1, <1>2, <1>3, <1>4, <1>5 DEF IInv

\* A delivery gate opens or closes.
LEMMA GateIInv == ASSUME IInv, NEW p \in Pane, GateChanges(p) PROVE IInv'
<1> USE DEF GateChanges, Alive, files, panes, memory, counts
<1>1. TypeOK'
  BY BoundAssumption DEF IInv, TypeOK
<1>2. Unsent' /\ TodoShape' /\ WorkShape'
  BY DEF IInv, TypeOK, Unsent, TodoShape, WorkShape
<1>3. Budget'
  BY DEF IInv, TypeOK, Unsent, TodoShape, WorkShape, Budget, Owed, Stray, Waiting, InHand
<1>4. StrayNeedsCrash'
  BY DEF IInv, TypeOK, TodoShape, WorkShape, StrayNeedsCrash, Stray
<1>5. ParkedIsListed' /\ DeliveredWasPasted' /\ ThinNeverParked'
  BY DEF IInv, TypeOK, TodoShape, WorkShape, StrayNeedsCrash, Stray, ParkedIsListed, DeliveredWasPasted, ThinNeverParked
<1>. QED
  BY <1>1, <1>2, <1>3, <1>4, <1>5 DEF IInv

\* A grouped row now aims at a pane that is gone.
LEMMA PaneDiesIInv == ASSUME IInv, NEW s \in Seat, PaneDies(s) PROVE IInv'
<1> USE DEF PaneDies, files, panes, memory, counts
<1>1. TypeOK'
  BY BoundAssumption DEF IInv, TypeOK, Phases
<1>2. Unsent' /\ TodoShape' /\ WorkShape'
  BY ShapeAssumption, PaneAssumption DEF IInv, TypeOK, Unsent, TodoShape, WorkShape
<1>3. Budget'
  BY DEF IInv, TypeOK, Unsent, TodoShape, WorkShape, Budget, Owed, Stray, Waiting, InHand
<1>4. StrayNeedsCrash'
  BY DEF IInv, TypeOK, TodoShape, WorkShape, StrayNeedsCrash, Stray
<1>5. ParkedIsListed' /\ DeliveredWasPasted' /\ ThinNeverParked'
  BY DEF IInv, TypeOK, TodoShape, WorkShape, StrayNeedsCrash, Stray, ParkedIsListed, DeliveredWasPasted, ThinNeverParked
<1>. QED
  BY <1>1, <1>2, <1>3, <1>4, <1>5 DEF IInv

\* A new pane is none of those that grouped rows aim at.
LEMMA PaneBornIInv == ASSUME IInv, NEW s \in Seat, NEW p \in Pane, PaneBorn(s, p) PROVE IInv'
<1> USE DEF PaneBorn, files, panes, memory, counts
<1>1. TypeOK'
  BY BoundAssumption DEF IInv, TypeOK, Phases, Screens
<1>2. Unsent' /\ TodoShape' /\ WorkShape'
  BY ShapeAssumption, PaneAssumption DEF IInv, TypeOK, Unsent, TodoShape, WorkShape
<1>3. Budget'
  BY DEF IInv, TypeOK, Unsent, TodoShape, WorkShape, Budget, Owed, Stray, Waiting, InHand
<1>4. StrayNeedsCrash'
  BY DEF IInv, TypeOK, TodoShape, WorkShape, StrayNeedsCrash, Stray
<1>5. ParkedIsListed' /\ DeliveredWasPasted' /\ ThinNeverParked'
  BY DEF IInv, TypeOK, TodoShape, WorkShape, StrayNeedsCrash, Stray, ParkedIsListed, DeliveredWasPasted, ThinNeverParked
<1>. QED
  BY <1>1, <1>2, <1>3, <1>4, <1>5 DEF IInv

\* Every step keeps the invariant.
LEMMA NextIInv == IInv /\ [Next]_vars => IInv'
<1> SUFFICES ASSUME IInv, [Next]_vars PROVE IInv'
  OBVIOUS
<1>1. CASE \E r \in Row : Enqueue(r)
  BY <1>1, EnqueueIInv
<1>2. CASE DrainStep
  <2>1. CASE \E p \in Pane : DrainPane(p)
    BY <2>1, HeldPaneIInv, HoldGateIInv, LoseSnapshotIInv, HoldOrParkIInv, DeliverIInv
    DEF DrainPane
  <2>. QED
    BY <1>2, <2>1, StartTickIInv, ReconcileIInv, PromoteIInv, WriteBacklogIInv,
       RefreshIInv, MarkIInv, ParkIInv, ListIInv, EndTickIInv DEF DrainStep
<1>3. CASE Crash \/ Restart
  BY <1>3, CrashIInv, RestartIInv
<1>4. CASE \E p \in Pane : HoldExpires(p)
  BY <1>4, HoldExpiresIInv
<1>5. CASE PaneStep
  BY <1>5, ScreenIInv, MarkChangeIInv, GateIInv, PaneDiesIInv, PaneBornIInv DEF PaneStep
<1>6. CASE UNCHANGED vars
  BY <1>6 DEF vars, files, panes, memory, counts, IInv, TypeOK, Unsent, TodoShape,
    WorkShape, Budget, Owed, Stray, Waiting, InHand, StrayNeedsCrash,
    ParkedIsListed, DeliveredWasPasted, ThinNeverParked
<1>. QED
  BY <1>1, <1>2, <1>3, <1>4, <1>5, <1>6 DEF Next

LEMMA Invariance == Spec => []IInv
  BY InitIInv, NextIInv, PTL DEF Spec

\* Type correctness.
THEOREM TypeCorrect == Spec => []TypeOK
<1>1. IInv => TypeOK
  BY DEF IInv
<1>. QED
  BY <1>1, Invariance, PTL

\* A row is pasted at most once more than the daemon has died.
THEOREM PastesBounded == Spec => []OnePastePerCrash
<1>1. IInv => OnePastePerCrash
  BY DEF IInv, TypeOK, Budget, Owed, OnePastePerCrash
<1>. QED
  BY <1>1, Invariance, PTL

\* No tick leaves a parked row out of the backlog file.
THEOREM ParkedRowsListed == Spec => []ParkedIsListed
<1>1. IInv => ParkedIsListed
  BY DEF IInv
<1>. QED
  BY <1>1, Invariance, PTL

\* What PEER.jsonl calls delivered went into a pane.
THEOREM DeliveredPasted == Spec => []DeliveredWasPasted
<1>1. IInv => DeliveredWasPasted
  BY DEF IInv
<1>. QED
  BY <1>1, Invariance, PTL

\* Thin pings stay out of the backlog.
THEOREM ThinPingsNotParked == Spec => []ThinNeverParked
<1>1. IInv => ThinNeverParked
  BY DEF IInv
<1>. QED
  BY <1>1, Invariance, PTL

-----------------------------------------------------------------------------
(* Steps *)

\* The steps that leave PEER.jsonl alone.
LEMMA QuietSteps ==
  ASSUME Next,
         ~\E r \in Row : Enqueue(r),
         ~PromotePeerBacklog, ~RefreshAndGroupPeers,
         ~\E p \in Pane : HoldGateBatch(p) \/ LoseSnapshot(p) \/ HoldOrParkInjectFail(p),
         ~MarkDelivered, ~ParkPeerRow
  PROVE  st' = st
  BY DEF Next, DrainStep, PaneStep, DrainPane, StartTick, Reconcile, WriteBacklog,
    HeldPane, DeliverToPane, ListParkedRow, EndTick, Crash, Restart, HoldExpires,
    ScreenChanges, MarkChanges, GateChanges, PaneDies, PaneBorn, files

\* Only DeliverToPane pastes.
LEMMA PasteSteps ==
  ASSUME Next, ~\E p \in Pane : DeliverToPane(p)
  PROVE  pasted' = pasted
  BY DEF Next, DrainStep, PaneStep, DrainPane, Enqueue, StartTick, Reconcile,
    PromotePeerBacklog, WriteBacklog, RefreshAndGroupPeers, HeldPane, HoldGateBatch,
    LoseSnapshot, HoldOrParkInjectFail, MarkDelivered, ParkPeerRow, ListParkedRow,
    EndTick, Crash, Restart, HoldExpires, ScreenChanges, MarkChanges, GateChanges,
    PaneDies, PaneBorn, files, panes, memory, counts

\* A settled row comes back only without a token and after a crash.
THEOREM SettledRowsStay == Spec => SettledStays
<1> DEFINE Stays(r) == \/ st'[r] \in {"delivered", "skipped"}
                       \/ crashes > 0 /\ ~Token(r)
<1>1. ASSUME IInv, Next, NEW r \in Row, st[r] \in {"delivered", "skipped"}
      PROVE  Stays(r)
  <2>1. CASE \E q \in Row : Enqueue(q)
    BY <1>1, <2>1 DEF Enqueue, IInv, TypeOK
  <2>2. CASE PromotePeerBacklog
    <3>1. r \in Promotable => Stray(r) /\ ~Token(r)
      BY <1>1, <2>2, PromotableListed DEF PromotePeerBacklog, Stray, AlreadyInjected
    <3>2. r \in Promotable => crashes > 0
      BY <1>1, <3>1 DEF IInv, TypeOK, StrayNeedsCrash
    <3>. QED
      BY <1>1, <2>2, <3>1, <3>2 DEF PromotePeerBacklog
  <2>3. CASE RefreshAndGroupPeers
    BY <1>1, <2>3 DEF RefreshAndGroupPeers
  <2>4. CASE \E p \in Pane : HoldGateBatch(p) \/ LoseSnapshot(p) \/ HoldOrParkInjectFail(p)
    BY <1>1, <2>4 DEF HoldGateBatch, LoseSnapshot, HoldOrParkInjectFail
  <2>5. CASE MarkDelivered
    BY <1>1, <2>5 DEF MarkDelivered, IInv, TypeOK
  <2>6. CASE ParkPeerRow
    BY <1>1, <2>6 DEF ParkPeerRow, IInv, TypeOK, WorkShape
  <2>. QED
    BY <1>1, <2>1, <2>2, <2>3, <2>4, <2>5, <2>6, QuietSteps
<1>2. IInv /\ [Next]_vars =>
        [\A r \in Row : st[r] \in {"delivered", "skipped"} => Stays(r)]_vars
  BY <1>1
<1>. QED
  BY <1>2, Invariance, PTL DEF Spec, SettledStays

\* Mail is given up for three reasons only.
THEOREM DropsAccounted == Spec => DropsOnlyNoise
<1> DEFINE Cause(r) == \/ Thin(r) \/ Class[r] = "noise"
                       \/ phase[pane[r]] = "gone"
<1>1. ASSUME IInv, Next, NEW r \in Row, st[r] # "skipped", st'[r] = "skipped"
      PROVE  Cause(r)
  <2>1. CASE \E q \in Row : Enqueue(q)
    BY <1>1, <2>1 DEF Enqueue, IInv, TypeOK
  <2>2. CASE PromotePeerBacklog
    BY <1>1, <2>2 DEF PromotePeerBacklog, ThinListed
  <2>3. CASE RefreshAndGroupPeers
    BY <1>1, <2>3 DEF RefreshAndGroupPeers
  <2>4. CASE \E p \in Pane : HoldGateBatch(p) \/ LoseSnapshot(p) \/ HoldOrParkInjectFail(p)
    BY <1>1, <2>4, BatchSubset
    DEF HoldGateBatch, LoseSnapshot, HoldOrParkInjectFail, Group
  <2>5. CASE MarkDelivered
    BY <1>1, <2>5 DEF MarkDelivered, IInv, TypeOK
  <2>6. CASE ParkPeerRow
    BY <1>1, <2>6 DEF ParkPeerRow, IInv, TypeOK
  <2>. QED
    BY <1>1, <2>1, <2>2, <2>3, <2>4, <2>5, <2>6, QuietSteps
<1>2. IInv /\ [Next]_vars =>
        [\A r \in Row : (st[r] # "skipped" /\ st'[r] = "skipped") => Cause(r)]_vars
  BY <1>1
<1>. QED
  BY <1>2, Invariance, PTL DEF Spec, DropsOnlyNoise

\* A paste goes to the seat addressed, and interrupts an agent at work only with
\* an override or, in the follow-up box, a progress note in it.
THEOREM PastesAllowed == Spec => PastesWhereAllowed
<1> DEFINE Leads(q, r) ==
             /\ pasted'[q] > pasted[q] /\ pane[q] = pane[r]
             /\ \/ Class[q] = "hub" /\ phase[pane[r]] \in {"busy", "steer"}
                \/ Class[q] = "ack" /\ phase[pane[r]] = "steer"
           Allowed(r) ==
             /\ live[To[r]] = pane[r]
             /\ \/ phase[pane[r]] \in {"idle", "chrome"}
                \/ \E q \in Row : Leads(q, r)
<1>1. ASSUME IInv, Next, NEW r \in Row, pasted'[r] > pasted[r]
      PROVE  Allowed(r)
  <2>1. PICK p \in Pane : DeliverToPane(p)
    BY <1>1, PasteSteps DEF IInv, TypeOK
  <2> DEFINE B == Batch(Group(p))
  <2>2. r \in B
    BY <1>1, <2>1 DEF DeliverToPane, IInv, TypeOK
  <2>3. \A q \in B : q \in Row /\ q \in todo /\ pane[q] = p /\ pasted'[q] > pasted[q]
    <3>1. \A q \in B : q \in todo /\ pane[q] = p
      BY BatchSubset DEF Group
    <3>2. \A q \in todo : q \in Row /\ pasted[q] \in Nat
      BY <1>1 DEF IInv, TypeOK
    <3>3. pasted' = [q \in Row |-> IF q \in B THEN pasted[q] + 1 ELSE pasted[q]]
      BY <2>1 DEF DeliverToPane
    <3>. HIDE DEF B
    <3>. QED
      BY <3>1, <3>2, <3>3
  <2>4. PICK ack \in ReadsAsAck(B) : Accepts(p, B, ack)
    BY <2>1 DEF DeliverToPane
  <2>5. live[To[r]] = pane[r]
    <3>1. phase[p] # "gone"
      BY <2>4 DEF Accepts
    <3>2. live[To[r]] = pane[r] \/ phase[pane[r]] = "gone"
      BY <1>1, <2>2, <2>3 DEF IInv, TodoShape
    <3>. QED
      BY <2>2, <2>3, <3>1, <3>2
  <2>6. CASE phase[p] \in {"idle", "chrome"}
    BY <2>2, <2>3, <2>5, <2>6
  <2>7. CASE phase[p] = "steer" /\ ack
    <3>1. \E q \in B : Class[q] = "ack"
      BY <2>2, <2>4, <2>7 DEF ReadsAsAck
    <3>2. PICK q \in B : Class[q] = "ack"
      BY <3>1
    <3>3. Leads(q, r)
      BY <2>2, <2>3, <2>7, <3>2
    <3>. QED
      BY <2>3, <2>5, <3>2, <3>3
  <2>8. CASE phase[p] \in {"busy", "steer"} /\ HubOverride(B)
    <3>1. PICK q \in B : Class[q] = "hub"
      BY <2>8 DEF HubOverride
    <3>2. Leads(q, r)
      BY <2>2, <2>3, <2>8, <3>1
    <3>. QED
      BY <2>3, <2>5, <3>1, <3>2
  <2>. QED
    BY <2>4, <2>6, <2>7, <2>8 DEF Accepts
<1>2. IInv /\ [Next]_vars => [\A r \in Row : pasted'[r] > pasted[r] => Allowed(r)]_vars
  BY <1>1
<1>. QED
  BY <1>2, Invariance, PTL DEF Spec, PastesWhereAllowed

-----------------------------------------------------------------------------
(* The peer queue implements Mailbox *)

\* A step that pastes nothing, counts no fault and sends nothing files rows:
\* it settles some, and brings others back only if there was a fault.
LEMMA FilingSteps ==
  ASSUME IInv, IInv', UNCHANGED <<pasted, crashes>>,
         \A r \in Row : (st[r] = "absent") <=> (st'[r] = "absent"),
         \A r \in Row : Settled(r) /\ st'[r] \in {"pending", "parked"} => crashes > 0
  PROVE  Box!Next
<1> DEFINE S == {r \in Row : box[r] # "none" /\ box'[r] = "settled"}
           B == {r \in Row : box[r] = "settled" /\ box'[r] = "queued"}
<1>1. \A r \in Row :
        /\ box[r] \in {"none", "queued", "settled"}
        /\ box'[r] \in {"none", "queued", "settled"}
        /\ (box[r] = "none") <=> (box'[r] = "none")
        /\ r \in B => crashes > 0
  BY DEF box, Waiting, Settled, IInv, TypeOK, Statuses
<1>2. box' = [r \in Row |-> IF r \in S THEN "settled"
                            ELSE IF r \in B THEN "queued" ELSE box[r]]
  <2>1. box' = [r \in Row |-> box'[r]]
    BY DEF box
  <2>. QED
    BY <1>1, <2>1
<1>3. Box!File(S, B)
  BY <1>1, <1>2 DEF Box!File
<1>4. S \in SUBSET Row /\ B \in SUBSET Row
  OBVIOUS
<1>. HIDE DEF S, B
<1>. QED
  BY <1>3, <1>4 DEF Box!Next

LEMMA BoxStep == IInv /\ IInv' /\ [Next]_vars => [Box!Next]_(Box!vars)
<1> SUFFICES ASSUME IInv, IInv', Next PROVE Box!Next \/ UNCHANGED Box!vars
  BY DEF vars, files, panes, memory, counts, Box!vars, box, Waiting
<1>1. CASE \E r \in Row : Enqueue(r)
  <2>1. PICK r \in Row : Enqueue(r)
    BY <1>1
  <2>2. Box!Send(r)
    BY <2>1 DEF Enqueue, Box!Send, box, Waiting, IInv, TypeOK, counts
  <2>. QED
    BY <2>2 DEF Box!Next
<1>2. CASE \E p \in Pane : DeliverToPane(p)
  <2>1. PICK p \in Pane : DeliverToPane(p)
    BY <1>2
  <2>2. Batch(Group(p)) \subseteq Row
    BY BatchSubset DEF Group, IInv, TypeOK
  <2>3. \A r \in Batch(Group(p)) : r \in todo /\ st[r] = "pending"
    BY BatchSubset DEF Group, IInv, TodoShape
  <2>4. \A r \in Batch(Group(p)) : box[r] = "queued" /\ pasted[r] <= crashes
    BY <2>1, <2>2, <2>3
    DEF box, Waiting, InHand, Owed, Budget, IInv, TypeOK, DeliverToPane, Turn
  <2>5. Box!Hand(Batch(Group(p)))
    BY <2>1, <2>4
    DEF DeliverToPane, Box!Hand, box, Waiting, files, counts
  <2>. QED
    BY <2>2, <2>5 DEF Box!Next
<1>3. CASE Crash
  BY <1>3 DEF Crash, Box!Next, Box!Fault, box, Waiting, files
<1>4. CASE /\ ~\E r \in Row : Enqueue(r)
           /\ ~\E p \in Pane : DeliverToPane(p)
           /\ ~Crash
  <2>1. UNCHANGED <<pasted, crashes>>
    <3>1. pasted' = pasted
      BY <1>4, PasteSteps
    <3>2. crashes' = crashes
      BY <1>4 DEF Next, DrainStep, PaneStep, DrainPane, StartTick, Reconcile,
        PromotePeerBacklog, WriteBacklog, RefreshAndGroupPeers, HeldPane,
        HoldGateBatch, LoseSnapshot, HoldOrParkInjectFail, MarkDelivered,
        ParkPeerRow, ListParkedRow, EndTick, Restart, HoldExpires, ScreenChanges,
        MarkChanges, GateChanges, PaneDies, PaneBorn, counts
    <3>. QED
      BY <3>1, <3>2
  <2>2. \A r \in Row : /\ (st[r] = "absent") <=> (st'[r] = "absent")
                       /\ Settled(r) /\ st'[r] \in {"pending", "parked"} => crashes > 0
    <3> SUFFICES ASSUME NEW r \in Row
        PROVE  /\ (st[r] = "absent") <=> (st'[r] = "absent")
               /\ Settled(r) /\ st'[r] \in {"pending", "parked"} => crashes > 0
      OBVIOUS
    <3>1. CASE PromotePeerBacklog
      <4>1. r \in Promotable /\ Settled(r) => Stray(r)
        BY <3>1, PromotableListed DEF PromotePeerBacklog, Stray, Settled
      <4>2. r \in Promotable /\ Settled(r) => crashes > 0
        BY <4>1 DEF IInv, TypeOK, StrayNeedsCrash
      <4>3. r \in listed => st[r] # "absent"
        BY DEF IInv, Unsent
      <4>. QED
        BY <3>1, <4>2, <4>3, PromotableListed
        DEF PromotePeerBacklog, AlreadyInjected, ThinListed, Settled
    <3>2. CASE RefreshAndGroupPeers
      BY <3>2 DEF RefreshAndGroupPeers, Settled
    <3>3. CASE \E p \in Pane : HoldGateBatch(p) \/ LoseSnapshot(p) \/ HoldOrParkInjectFail(p)
      <4>1. st'[r] = st[r] \/ (r \in todo /\ st'[r] = "skipped")
        BY <3>3, BatchSubset DEF HoldGateBatch, LoseSnapshot, HoldOrParkInjectFail, Group
      <4>. QED
        BY <4>1 DEF Settled, IInv, TodoShape
    <3>4. CASE MarkDelivered
      BY <3>4 DEF MarkDelivered, Settled, IInv, TypeOK, WorkShape
    <3>5. CASE ParkPeerRow
      BY <3>5 DEF ParkPeerRow, Settled, IInv, TypeOK, WorkShape
    <3>6. CASE /\ ~PromotePeerBacklog /\ ~RefreshAndGroupPeers
               /\ ~\E p \in Pane : HoldGateBatch(p) \/ LoseSnapshot(p) \/ HoldOrParkInjectFail(p)
               /\ ~MarkDelivered /\ ~ParkPeerRow
      <4>1. st' = st
        BY <1>4, <3>6, QuietSteps
      <4>. QED
        BY <4>1 DEF Settled
    <3>. QED
      BY <3>1, <3>2, <3>3, <3>4, <3>5, <3>6
  <2>. QED
    BY <2>1, <2>2, FilingSteps
<1>. QED
  BY <1>1, <1>2, <1>3, <1>4

\* The peer queue keeps what Mailbox promises a sender: only queued mail is
\* handed over, and repetitions and returns are paid for by crashes.
THEOREM ImplementsMailbox == Spec => KeepsMailbox
<1>1. Init => Box!Init
  BY DEF Init, Box!Init, box, Waiting
<1>. QED
  BY <1>1, Invariance, BoxStep, PTL DEF Spec, KeepsMailbox, Box!Spec

-----------------------------------------------------------------------------
(* The order in which pending mail leaves the queue *)

\* What the tick has grouped of a seat's mail is all of it that is pending, for
\* one pane.
TodoClosed ==
  \A a, b \in Row :
    b \in todo /\ To[a] = To[b] /\ st[a] = "pending" => a \in todo /\ pane[a] = pane[b]

LEMMA RankType == \A r \in Row : Rank(r) \in 0..2
  BY DEF Rank

LEMMA BeforeIsTransitive ==
  \A q, a, b \in Row : Before(q, a) /\ Before(a, b) => Before(q, b)
  BY RankType, RowAssumption DEF Before

\* With a row of a batch every row of the group that comes before it is in it.
LEMMA BatchIsClosed ==
  ASSUME NEW S \in SUBSET Row, NEW b \in Batch(S), NEW a \in S, Before(a, b)
  PROVE  a \in Batch(S)
<1> DEFINE cap == IF \E r \in S : Heads(S, r) /\ Thin(r) THEN 1 ELSE BulkMax
           Ahead(r) == {q \in S : Before(q, r)}
<1>1. b \in S /\ Cardinality(Ahead(b)) < cap
  BY DEF Batch
<1>2. Ahead(a) \subseteq Ahead(b)
  BY <1>1, BeforeIsTransitive
<1>3. IsFiniteSet(Ahead(b))
  BY RowAssumption, FS_Subset
<1>4. Cardinality(Ahead(a)) <= Cardinality(Ahead(b))
  BY <1>2, <1>3, FS_Subset
<1>5. Cardinality(Ahead(a)) \in Nat /\ Cardinality(Ahead(b)) \in Nat /\ cap \in Nat
  BY <1>2, <1>3, FS_Subset, FS_CardinalityType, BoundAssumption
<1>6. Cardinality(Ahead(a)) < cap
  BY <1>1, <1>4, <1>5
<1>. QED
  BY <1>6 DEF Batch

\* One pane's group leaves todo as a whole, and nothing becomes pending.
LEMMA GroupLeaves ==
  ASSUME TodoClosed, NEW p, todo' = todo \ Group(p), UNCHANGED pane,
         \A r \in Row : st'[r] = "pending" => st[r] = "pending"
  PROVE  TodoClosed'
  BY DEF TodoClosed, Group

\* todo stays as it is, and nothing becomes pending.
LEMMA TodoStays ==
  ASSUME TodoClosed, UNCHANGED <<todo, pane>>,
         \A r \in Row : st'[r] = "pending" => st[r] = "pending"
  PROVE  TodoClosed'
  BY DEF TodoClosed

LEMMA NothingToDo == todo' = {} => TodoClosed'
  BY DEF TodoClosed

LEMMA ClosedStep == ASSUME IInv, TodoClosed, [Next]_vars PROVE TodoClosed'
<1> USE DEF files, panes, memory, counts
<1>1. pc \notin {"drain", "mark", "park", "list"} => todo = {}
  BY DEF IInv, TodoShape
<1>2. st \in [Row -> Statuses]
  BY DEF IInv, TypeOK
<1>3. CASE \/ \E r \in Row : Enqueue(r)
           \/ PromotePeerBacklog \/ Crash \/ Restart
  BY <1>1, <1>3, NothingToDo DEF Enqueue, PromotePeerBacklog, Crash, Restart
<1>4. CASE RefreshAndGroupPeers
  <2> DEFINE found == {r \in Row : st[r] = "pending" /\ live[To[r]] # NoPane}
             noise == {r \in found : Class[r] = "noise"}
  <2>1. /\ pane' = [r \in Row |-> IF r \in found THEN live[To[r]] ELSE pane[r]]
        /\ st' = [r \in Row |-> IF r \in noise THEN "skipped" ELSE st[r]]
        /\ todo' = found \ noise
    BY <1>4 DEF RefreshAndGroupPeers
  <2>2. ASSUME NEW a \in Row, NEW b \in Row, b \in todo', To[a] = To[b], st'[a] = "pending"
        PROVE  a \in todo' /\ pane'[a] = pane'[b]
    <3>1. a \notin noise /\ st[a] = "pending"
      BY <2>1, <2>2
    <3>2. a \in found /\ b \in found
      BY <2>1, <2>2, <3>1
    <3>. QED
      BY <2>1, <2>2, <3>1, <3>2
  <2>. QED
    BY <2>2 DEF TodoClosed
<1>5. ASSUME NEW p \in Pane, DrainPane(p) PROVE TodoClosed'
  <2>1. todo' = todo \ Group(p) /\ UNCHANGED pane
    BY <1>5 DEF DrainPane, HeldPane, HoldGateBatch, LoseSnapshot, HoldOrParkInjectFail, DeliverToPane
  <2>2. \A r \in Row : st'[r] = "pending" => st[r] = "pending"
    BY <1>2, <1>5
    DEF DrainPane, HeldPane, HoldGateBatch, LoseSnapshot, HoldOrParkInjectFail, DeliverToPane
  <2>. QED
    BY <2>1, <2>2, GroupLeaves
<1>6. CASE MarkDelivered \/ ParkPeerRow
  <2>1. UNCHANGED <<todo, pane>>
    BY <1>6 DEF MarkDelivered, ParkPeerRow
  <2>2. PICK r \in work : st' = [st EXCEPT ![r] = "delivered"] \/ st' = [st EXCEPT ![r] = "parked"]
    BY <1>6 DEF MarkDelivered, ParkPeerRow
  <2>3. \A q \in Row : st'[q] = "pending" => st[q] = "pending"
    BY <1>2, <2>2
  <2>. QED
    BY <2>1, <2>3, TodoStays
<1>7. CASE \/ StartTick \/ Reconcile \/ WriteBacklog \/ ListParkedRow \/ EndTick
           \/ (\E p \in Pane : HoldExpires(p)) \/ PaneStep \/ UNCHANGED vars
  <2>1. UNCHANGED <<todo, pane, st>>
    BY <1>7 DEF StartTick, Reconcile, WriteBacklog, ListParkedRow, EndTick, HoldExpires, PaneStep,
       ScreenChanges, MarkChanges, GateChanges, PaneDies, PaneBorn, vars
  <2>. QED
    BY <2>1, TodoStays
<1>. QED
  BY <1>3, <1>4, <1>5, <1>6, <1>7 DEF Next, DrainStep

(* The sort, the grouping and the cut of a batch keep the order of the queue *)
(* through holds, gates, refusals and deaths of the daemon: of a seat's      *)
(* pending mail nothing is pasted before what has its turn first.            *)
THEOREM PendingInOrder == Spec => OldestFirst
<1> DEFINE First == \A a, b \in Row :
                      /\ pasted'[b] > pasted[b] /\ To[a] = To[b] /\ st[a] = "pending"
                      /\ Rank(a) < Rank(b) \/ (Rank(a) = Rank(b) /\ a < b)
                      => pasted'[a] > pasted[a]
<1>1. ASSUME IInv, TodoClosed, Next, NEW a \in Row, NEW b \in Row,
             pasted'[b] > pasted[b], To[a] = To[b], st[a] = "pending", Before(a, b)
      PROVE  pasted'[a] > pasted[a]
  <2>1. \A r \in Row : pasted[r] \in Nat
    BY <1>1 DEF IInv, TypeOK
  <2>2. PICK p \in Pane : DeliverToPane(p)
    BY <1>1, <2>1, PasteSteps
  <2>3. \A r \in Row : pasted'[r] = IF r \in Batch(Group(p)) THEN pasted[r] + 1 ELSE pasted[r]
    BY <2>2 DEF DeliverToPane
  <2>4. b \in Batch(Group(p))
    BY <1>1, <2>1, <2>3
  <2>5. b \in todo /\ pane[b] = p
    BY <2>4, BatchSubset DEF Group
  <2>6. a \in Group(p)
    BY <1>1, <2>5 DEF TodoClosed, Group
  <2>7. Group(p) \subseteq Row
    BY <1>1 DEF Group, IInv, TypeOK
  <2>8. a \in Batch(Group(p))
    BY <1>1, <2>4, <2>6, <2>7, BatchIsClosed
  <2>. QED
    BY <2>1, <2>3, <2>8
<1>2. IInv /\ TodoClosed /\ [Next]_vars => [First]_vars
  BY <1>1 DEF Before
<1>3. Init => TodoClosed
  BY DEF Init, TodoClosed
<1>. QED
  BY <1>2, <1>3, Invariance, ClosedStep, PTL DEF Spec, OldestFirst
=============================================================================
