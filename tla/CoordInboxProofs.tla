-------------------------- MODULE CoordInboxProofs ---------------------------
(***************************************************************************)
(* Theorems about CoordInbox, for every set of rows and drafts, every batch *)
(* size and every one of the times.                                         *)
(***************************************************************************)
EXTENDS CoordInbox, FiniteSetTheorems, TLAPS

GateType == [idle : Age, fp : Draft \cup {NoDraft}, age : 0..Horizon]

LEMMA HorizonType == Horizon \in Nat /\ 0 \in Age /\ Never \in Age
  BY NumberAssumption DEF Horizon, Age, Never

LEMMA NewGateType == NewGate \in GateType
  BY HorizonType DEF NewGate, GateType

\* A look at a pane leaves a gate.
LEMMA LookType ==
  ASSUME NEW g \in GateType, NEW f \in Faces, NEW d \in Draft \cup {NoDraft}
  PROVE  Look(g, f, d) \in GateType
<1>1. g.idle \in Age /\ g.fp \in Draft \cup {NoDraft} /\ g.age \in 0..Horizon
  BY DEF GateType
<1>2. [idle |-> Never, fp |-> d, age |-> IF g.fp = d THEN g.age ELSE 0] \in GateType
  BY <1>1, HorizonType DEF GateType
<1>3. [idle |-> IF g.idle = Never THEN 0 ELSE g.idle, fp |-> NoDraft, age |-> 0] \in GateType
  BY <1>1, HorizonType DEF GateType
<1>. QED
  BY <1>2, <1>3, NewGateType DEF Look

\* A gate stays one when the timer advances it.
LEMMA AgeGateType == ASSUME NEW g \in GateType PROVE AgeGate(g) \in GateType
<1>1. g.idle \in Age /\ g.age \in 0..Horizon
  BY DEF GateType
<1>2. Older(g.idle) \in Age
  BY <1>1, HorizonType DEF Older, Age, Never
<1>3. Older(g.age) \in 0..Horizon
  BY <1>1, HorizonType DEF Older, Never
<1>4. (IF g.fp = NoDraft THEN 0 ELSE Older(g.age)) \in 0..Horizon
  BY <1>3, HorizonType
<1>5. [g EXCEPT !.idle = Older(@)] \in GateType
  BY <1>2 DEF GateType
<1>. QED
  BY <1>4, <1>5 DEF AgeGate, GateType

LEMMA CoordTypes == ASSUME TypeOK PROVE gate \in [Coord -> GateType] /\ cool \in [Coord -> 0..Cooldown]
  BY DEF TypeOK, GateType

\* What gateDelivery leaves.
LEMMA HoldType ==
  ASSUME TypeOK, NEW l \in Coord, GateDelivery(l)
  PROVE  face' \in [Coord -> Faces] /\ cool' \in [Coord -> 0..Cooldown]
<1>1. face' \in {face, [face EXCEPT ![l] = "busy"]}
  BY DEF GateDelivery
<1>2. cool' = cool \/ cool' = [cool EXCEPT ![l] = Cooldown]
  BY DEF GateDelivery
<1>3. Cooldown \in 0..Cooldown
  BY NumberAssumption
<1>4. face \in [Coord -> Faces] /\ "busy" \in Faces /\ cool \in [Coord -> 0..Cooldown]
  BY DEF TypeOK, Faces
<1>5. face' \in [Coord -> Faces]
  BY <1>1, <1>4
<1>6. cool' \in [Coord -> 0..Cooldown]
  BY <1>2, <1>3, <1>4
<1>. QED
  BY <1>5, <1>6

LEMMA DieType ==
  ASSUME TypeOK, Die
  PROVE  /\ gate' \in [Coord -> GateType] /\ cool' \in [Coord -> 0..Cooldown] /\ todo' = {}
         /\ looked' \in [busy : BOOLEAN, rows : SUBSET Row]
         /\ pc' = "down" /\ crashes' \in 0..MaxCrash
  BY NewGateType, NumberAssumption DEF Die, TypeOK

\* What a paste of a lane leaves.
LEMMA PasteType ==
  ASSUME TypeOK, NEW l \in Coord, Paste(l)
  PROVE  /\ face' \in [Coord -> Faces] /\ pasted' \in [Row -> Nat]
         /\ GateAfterPaste(l) \in GateType /\ Batch(l) \subseteq Row
<1>1. face' \in [Coord -> Faces]
  BY DEF Paste, TypeOK, Faces
<1>2. pasted' \in [Row -> Nat]
  BY DEF Paste, TypeOK
<1>3. Batch(l) \subseteq Row
  <2>1. \A i \in DOMAIN inbox : inbox[i] \in Row
    BY DEF TypeOK
  <2>2. Pending(l) \subseteq DOMAIN inbox
    BY DEF Pending
  <2>. QED
    BY <2>1, <2>2 DEF Batch
<1>4. gate[l] \in GateType /\ face[l] \in Faces /\ draft[l] \in Draft \cup {NoDraft} /\ face'[l] \in Faces
  BY <1>1, CoordTypes DEF TypeOK
<1>5. Look(gate[l], face[l], draft[l]) \in GateType
  BY <1>4, LookType
<1>6. \A g \in GateType : Look(g, face'[l], draft[l]) \in GateType
  BY <1>4, LookType
<1>7. GateAfterPaste(l) \in GateType
  BY <1>4, <1>5, <1>6 DEF GateAfterPaste
<1>. QED
  BY <1>1, <1>2, <1>3, <1>7

LEMMA LaneType ==
  ASSUME TypeOK, NEW l \in Lanes, Lane(l) \/ (l \in Coord /\ LaneCut(l))
  PROVE  TypeOK'
<1>1. After(l) \in {"manager", "peer"}
  BY DEF After
<1>2. CASE LaneIdle(l)
  BY <1>1, <1>2 DEF LaneIdle, TypeOK, files, screen, past
<1>3. CASE LaneBlocked(l)
  BY <1>1, <1>3, HoldType DEF LaneBlocked, Works, Moves, TypeOK, files, past
<1>4. CASE LaneRefused(l)
  <2>1. l \in Coord /\ gate' \in {gate, [gate EXCEPT ![l] = Look(gate[l], face[l], draft[l])]}
    BY <1>4 DEF LaneRefused, Works
  <2>2. Look(gate[l], face[l], draft[l]) \in GateType
    BY <2>1, LookType, CoordTypes DEF TypeOK
  <2>3. gate' \in [Coord -> GateType]
    BY <2>1, <2>2, CoordTypes
  <2>. QED
    BY <1>1, <1>4, <2>3 DEF LaneRefused, Moves, TypeOK, GateType, files, screen, past
<1>5. CASE LaneDelivers(l)
  <2>1. l \in Coord /\ Paste(l) /\ gate' = [gate EXCEPT ![l] = GateAfterPaste(l)] /\ done' = done \cup Batch(l)
    BY <1>5 DEF LaneDelivers, Paste, Accepted, Works
  <2>2. gate' \in [Coord -> GateType] /\ done' \subseteq Row
    BY <2>1, PasteType, CoordTypes DEF TypeOK
  <2>. QED
    BY <1>1, <1>5, <2>1, <2>2, PasteType DEF LaneDelivers, Moves, TypeOK, GateType
<1>6. CASE l \in Coord /\ LaneCut(l)
  BY <1>6, PasteType, DieType DEF LaneCut, TypeOK, GateType, files
<1>. QED
  BY <1>2, <1>3, <1>4, <1>5, <1>6 DEF Lane

LEMMA PeersType == ASSUME TypeOK, NEW l \in Coord, Peers(l) PROVE TypeOK'
<1>1. CASE PeersIdle(l)
  BY <1>1 DEF PeersIdle, AtPeers, TypeOK, files, screen, past
<1>2. CASE PeersBlocked(l)
  BY <1>2, HoldType DEF PeersBlocked, AtPeers, TypeOK, files, past
<1>3. CASE PeersTried(l)
  <2>1. gate' \in [Coord -> GateType]
    <3>1. gate' \in {gate, [gate EXCEPT ![l] = Look(gate[l], face[l], draft[l])]}
      BY <1>3 DEF PeersTried
    <3>2. Look(gate[l], face[l], draft[l]) \in GateType
      BY LookType, CoordTypes DEF TypeOK
    <3>. QED
      BY <3>1, <3>2, CoordTypes
  <2>2. face' \in [Coord -> Faces]
    BY <1>3 DEF PeersTried, TypeOK, Faces
  <2>3. peers' \in [Coord -> 0..MaxPeer]
    <3>1. \A n \in 0..MaxPeer : Fewer(n) \in 0..MaxPeer
      BY NumberAssumption DEF Fewer
    <3>2. peers' = peers \/ peers' = [peers EXCEPT ![l] = Fewer(peers[l])]
      BY <1>3 DEF PeersTried
    <3>3. peers \in [Coord -> 0..MaxPeer] /\ Fewer(peers[l]) \in 0..MaxPeer
      BY <3>1 DEF TypeOK
    <3>. QED
      BY <3>2, <3>3
  <2>. QED
    BY <1>3, <2>1, <2>2, <2>3 DEF PeersTried, AtPeers, TypeOK, GateType, past
<1>. QED
  BY <1>1, <1>2, <1>3 DEF Peers

\* The rest of the tick.
LEMMA TimerType == ASSUME TypeOK, EndPeers \/ PaintCoord \/ Poll PROVE TypeOK'
<1>1. CASE EndPeers
  BY <1>1 DEF EndPeers, TypeOK, files, screen, memory, past
<1>2. CASE PaintCoord
  <2>1. gate' \in [Coord -> GateType]
    <3>1. \/ gate' = gate
          \/ /\ "manager" \in Coord
             /\ gate' = [gate EXCEPT !["manager"] = Look(gate["manager"], face["manager"], draft["manager"])]
      BY <1>2 DEF PaintCoord
    <3>2. "manager" \in Coord => Look(gate["manager"], face["manager"], draft["manager"]) \in GateType
      BY LookType, CoordTypes DEF TypeOK
    <3>. QED
      BY <3>1, <3>2, CoordTypes
  <2>2. looked' \in [busy : BOOLEAN, rows : SUBSET Row]
    <3>1. {inbox[i] : i \in {j \in DOMAIN inbox : Unsent(inbox[j])}} \subseteq Row
      BY DEF TypeOK
    <3>2. (face["manager"] \in Generating) \in BOOLEAN
      OBVIOUS
    <3>3. \/ looked' = [busy |-> face["manager"] \in Generating,
                         rows |-> {inbox[i] : i \in {j \in DOMAIN inbox : Unsent(inbox[j])}}]
          \/ looked' = [busy |-> FALSE, rows |-> {}]
      BY <1>2 DEF PaintCoord
    <3> DEFINE b == face["manager"] \in Generating
               S == {inbox[i] : i \in {j \in DOMAIN inbox : Unsent(inbox[j])}}
    <3>. HIDE DEF b, S
    <3>4. [busy |-> FALSE, rows |-> {}] \in [busy : BOOLEAN, rows : SUBSET Row]
      OBVIOUS
    <3>5. [busy |-> b, rows |-> S] \in [busy : BOOLEAN, rows : SUBSET Row]
      BY <3>1, <3>2, Zenon DEF b, S
    <3>6. looked' = [busy |-> b, rows |-> S] \/ looked' = [busy |-> FALSE, rows |-> {}]
      BY <3>3 DEF b, S
    <3>. QED
      BY <3>4, <3>5, <3>6
  <2>. QED
    BY <1>2, <2>1, <2>2 DEF PaintCoord, TypeOK, GateType, files, screen
<1>3. CASE Poll
  <2>1. gate' \in [Coord -> GateType]
    BY <1>3, AgeGateType, CoordTypes DEF Poll
  <2>2. cool' \in [Coord -> 0..Cooldown]
    BY <1>3, NumberAssumption DEF Poll, TypeOK
  <2>. QED
    BY <1>3, <2>1, <2>2 DEF Poll, TypeOK, GateType, files, screen
<1>. QED
  BY <1>1, <1>2, <1>3

\* Handlers, deaths and the panes.
LEMMA WorldType ==
  ASSUME TypeOK,
         \/ Crash \/ Restart
         \/ \E r \in Row : ToMaster(r)
         \/ \E r \in Unresolved : ResolveInbox({r})
         \/ ResolveInbox(Unresolved)
         \/ \E l \in Coord : PeerArrives(l) \/ ScreenChanges(l) \/ TurnEnds(l) \/ LimitChanges(l)
  PROVE  TypeOK'
<1>1. CASE Crash
  BY <1>1, DieType DEF Crash, TypeOK, GateType, files, screen
<1>2. CASE Restart
  BY <1>2 DEF Restart, TypeOK, files, screen, memory, past
<1>3. ASSUME NEW r \in Row, ToMaster(r) PROVE TypeOK'
  BY <1>3 DEF ToMaster, TypeOK, screen, memory, past
<1>4. ASSUME NEW S \in SUBSET Row, ResolveInbox(S) PROVE TypeOK'
  BY <1>4 DEF ResolveInbox, TypeOK, screen, memory, past
<1>5. Unresolved \subseteq Row
  BY DEF Unresolved, Entered, TypeOK
<1>6. ASSUME NEW l \in Coord, PeerArrives(l) PROVE TypeOK'
  <2>1. peers' \in [Coord -> 0..MaxPeer]
    <3>1. peers \in [Coord -> 0..MaxPeer] /\ peers[l] < MaxPeer /\ peers' = [peers EXCEPT ![l] = peers[l] + 1]
      BY <1>6 DEF PeerArrives, TypeOK
    <3>2. peers[l] + 1 \in 0..MaxPeer
      BY <3>1, NumberAssumption
    <3>. QED
      BY <3>1, <3>2
  <2>. QED
    BY <1>6, <2>1 DEF PeerArrives, TypeOK, screen, memory, past
<1>7. ASSUME NEW l \in Coord, ScreenChanges(l) PROVE TypeOK'
  <2>1. face' \in [Coord -> Faces] /\ draft' \in [Coord -> Draft \cup {NoDraft}]
    BY <1>7 DEF ScreenChanges, TypeOK
  <2>2. gate' \in [Coord -> GateType] /\ cool' \in [Coord -> 0..Cooldown]
    BY <1>7, CoordTypes, NewGateType, NumberAssumption DEF ScreenChanges
  <2>3. churn' \in 0..MaxChurn
    BY <1>7, NumberAssumption DEF ScreenChanges, TypeOK
  <2>. QED
    BY <1>7, <2>1, <2>2, <2>3 DEF ScreenChanges, TypeOK, GateType, files, past
<1>8. ASSUME NEW l \in Coord, TurnEnds(l) PROVE TypeOK'
  BY <1>8 DEF TurnEnds, TypeOK, Faces, files, memory, past
<1>9. ASSUME NEW l \in Coord, LimitChanges(l) PROVE TypeOK'
  BY <1>9, NumberAssumption DEF LimitChanges, TypeOK, files, memory, past
<1>. QED
  BY <1>1, <1>2, <1>3, <1>4, <1>5, <1>6, <1>7, <1>8, <1>9

LEMMA InboxTypes == ASSUME TypeOK, [Next]_vars PROVE TypeOK'
<1>1. CASE UNCHANGED vars
  BY <1>1 DEF vars, TypeOK, files, screen, memory, past
<1>2. Coord \subseteq Lanes
  BY RowAssumption DEF Lanes
<1>. QED
  BY <1>1, <1>2, LaneType, PeersType, TimerType, WorldType DEF Next, Tick

LEMMA InboxInvariant == Init /\ [][Next]_vars => []TypeOK
<1>1. Init => TypeOK
  BY RowAssumption, NumberAssumption, NewGateType DEF Init, TypeOK, GateType, Faces
<1>. QED
  BY <1>1, InboxTypes, PTL

(* The file, the panes and what the daemon remembers of them keep their      *)
(* types: no clock of the gate, no cooldown and no count leaves its range.   *)
THEOREM TypeCorrect == Spec => []TypeOK
  BY InboxInvariant, PTL DEF Spec

-----------------------------------------------------------------------------
\* A row that is not marked has been pasted by daemons that died only.
PasteInv == \A r \in Row : pasted[r] <= (IF r \in done THEN 1 ELSE 0) + crashes

\* Only an unmarked row is pasted, and once a lane.
LEMMA PastedRows ==
  ASSUME TypeOK, NEW l, Paste(l), NEW r \in Row
  PROVE  IF r \in Batch(l) THEN r \notin done /\ pasted'[r] = pasted[r] + 1 ELSE pasted'[r] = pasted[r]
<1>1. r \in Batch(l) => r \notin done
  BY DEF Batch, Pending, Unsent
<1>. QED
  BY <1>1 DEF Paste, TypeOK

LEMMA PasteStep == ASSUME TypeOK, PasteInv, [Next]_vars PROVE PasteInv'
<1>1. \A r \in Row : pasted[r] \in Nat /\ pasted[r] <= (IF r \in done THEN 1 ELSE 0) + crashes
  BY DEF TypeOK, PasteInv
<1>2. crashes \in Nat
  BY DEF TypeOK
<1>3. ASSUME NEW l, LaneDelivers(l) PROVE PasteInv'
  <2>1. Paste(l) /\ done' = done \cup Batch(l) /\ crashes' = crashes
    BY <1>3 DEF LaneDelivers
  <2>2. ASSUME NEW r \in Row, r \in Batch(l) PROVE pasted'[r] <= 1 + crashes' /\ r \in done'
    BY <1>1, <1>2, <2>1, <2>2, PastedRows
  <2>3. ASSUME NEW r \in Row, r \notin Batch(l) PROVE pasted'[r] = pasted[r] /\ (r \in done' <=> r \in done)
    BY <2>1, <2>3, PastedRows
  <2>. QED
    BY <1>1, <2>1, <2>2, <2>3 DEF PasteInv
<1>4. ASSUME NEW l, LaneCut(l) PROVE PasteInv'
  <2>1. Paste(l) /\ done' = done /\ crashes' = crashes + 1
    BY <1>4 DEF LaneCut, Die, files
  <2>2. ASSUME NEW r \in Row PROVE pasted'[r] <= pasted[r] + 1
    <3>1. pasted'[r] = pasted[r] + 1 \/ pasted'[r] = pasted[r]
      BY <2>1, PastedRows
    <3>. QED
      BY <3>1, <1>1
  <2>3. ASSUME NEW r \in Row PROVE pasted'[r] \in Nat
    BY InboxTypes DEF TypeOK
  <2>. QED
    BY <1>1, <1>2, <2>1, <2>2, <2>3 DEF PasteInv
<1>5. ASSUME UNCHANGED <<done, pasted>>, crashes' \in Nat, crashes' >= crashes PROVE PasteInv'
  BY <1>1, <1>2, <1>5 DEF PasteInv
<1>6. crashes' \in Nat
  BY InboxTypes DEF TypeOK
<1>7. ASSUME NEW l, LaneIdle(l) \/ LaneBlocked(l) \/ LaneRefused(l) PROVE PasteInv'
  BY <1>2, <1>5, <1>7 DEF LaneIdle, LaneBlocked, LaneRefused, files, past
<1>8. ASSUME NEW l, Peers(l) PROVE PasteInv'
  BY <1>2, <1>5, <1>8 DEF Peers, PeersIdle, PeersBlocked, PeersTried, files, past
<1>9. CASE EndPeers \/ PaintCoord \/ Poll \/ Restart \/ UNCHANGED vars
  BY <1>2, <1>5, <1>9 DEF EndPeers, PaintCoord, Poll, Restart, vars, files, past
<1>10. CASE Crash
  BY <1>2, <1>5, <1>6, <1>10 DEF Crash, Die, files
<1>11. ASSUME NEW r, ToMaster(r) PROVE PasteInv'
  BY <1>2, <1>5, <1>11 DEF ToMaster, past
<1>12. ASSUME NEW S, ResolveInbox(S) PROVE PasteInv'
  BY <1>2, <1>5, <1>12 DEF ResolveInbox, past
<1>13. ASSUME NEW l, PeerArrives(l) \/ ScreenChanges(l) \/ TurnEnds(l) \/ LimitChanges(l) PROVE PasteInv'
  BY <1>2, <1>5, <1>13 DEF PeerArrives, ScreenChanges, TurnEnds, LimitChanges, files, past
<1>. QED
  BY <1>3, <1>4, <1>7, <1>8, <1>9, <1>10, <1>11, <1>12, <1>13 DEF Next, Tick, Lane

LEMMA PasteInvariant == Init /\ [][Next]_vars => [](TypeOK /\ PasteInv)
<1>1. Init => PasteInv
  BY DEF Init, PasteInv
<1>. QED
  BY <1>1, PasteStep, InboxInvariant, PTL

LEMMA PasteFacts == ASSUME TypeOK, PasteInv PROVE OncePerCrash
<1> SUFFICES ASSUME NEW r \in Row PROVE pasted[r] <= 1 + crashes
  BY DEF OncePerCrash
<1>1. pasted[r] \in Nat /\ crashes \in Nat
  BY DEF TypeOK
<1>. QED
  BY <1>1 DEF PasteInv

(* drainInboxLaneOnce reads the file, pastes and writes the marks without a  *)
(* handler in between: mail for a coordinator is pasted again only by a      *)
(* daemon that comes after one that died between paste and file.             *)
THEOREM PastedOncePerCrash == Spec => []OncePerCrash
  BY PasteInvariant, PasteFacts, PTL DEF Spec

-----------------------------------------------------------------------------
(* The inbox lanes implement Mailbox *)

\* Only what was entered is settled.
SettledEntered == done \cup resolved \subseteq Entered

LEMMA BatchQueued ==
  ASSUME TypeOK, NEW l, NEW r \in Batch(l)
  PROVE  r \in Row /\ r \in Entered /\ Unsent(r)
<1>1. PICK i \in Pending(l) : inbox[i] = r
  BY DEF Batch
<1>2. i \in DOMAIN inbox /\ Unsent(inbox[i])
  BY DEF Pending
<1>. QED
  BY <1>1, <1>2 DEF Entered, TypeOK

LEMMA MailboxInit == Init => SettledEntered /\ Promise!Init
  BY DEF Init, SettledEntered, Promise!Init, mailBox, Entered

LEMMA ToMasterSends ==
  ASSUME TypeOK, SettledEntered, NEW r \in Row, ToMaster(r)
  PROVE  SettledEntered' /\ Promise!Next
<1>1. Entered' = Entered \cup {r} /\ r \notin Entered
  <2>1. inbox' = Append(inbox, r) /\ inbox \in Seq(Row)
    BY DEF ToMaster, TypeOK
  <2>2. /\ DOMAIN inbox' = DOMAIN inbox \cup {Len(inbox) + 1}
        /\ inbox'[Len(inbox) + 1] = r
        /\ \A i \in DOMAIN inbox : inbox'[i] = inbox[i]
    BY <2>1
  <2>3. \A x : x \in Entered' <=> x \in Entered \/ x = r
    BY <2>2 DEF Entered
  <2>. QED
    BY <2>3 DEF ToMaster, Entered
<1>2. SettledEntered' /\ UNCHANGED <<done, resolved, pasted, crashes>>
  BY <1>1 DEF ToMaster, SettledEntered, past
<1>3. Promise!Send(r)
  BY <1>1, <1>2 DEF Promise!Send, mailBox, Unsent, SettledEntered
<1>. QED
  BY <1>2, <1>3 DEF Promise!Next

LEMMA ResolveFiles ==
  ASSUME SettledEntered, NEW S \in SUBSET Entered, ResolveInbox(S), Entered \subseteq Row
  PROVE  SettledEntered' /\ Promise!Next
<1>1. UNCHANGED <<Entered, done, pasted, crashes>> /\ resolved' = resolved \cup S
  BY DEF ResolveInbox, Entered, past
<1>2. SettledEntered'
  BY <1>1 DEF SettledEntered
<1>3. Promise!File(S, {})
  BY <1>1 DEF Promise!File, mailBox, Unsent
<1>. QED
  BY <1>2, <1>3 DEF Promise!Next

LEMMA PasteHands ==
  ASSUME TypeOK, PasteInv, SettledEntered, NEW l, Paste(l), UNCHANGED <<inbox, resolved>>,
         \/ done' = done \cup Batch(l) /\ UNCHANGED crashes
         \/ UNCHANGED done /\ crashes' = crashes + 1
  PROVE  SettledEntered' /\ Promise!Next
<1>1. \A r \in Batch(l) : r \in Row /\ r \in Entered /\ Unsent(r)
  BY BatchQueued
<1>2. \A r \in Batch(l) : mailBox[r] = "queued" /\ pasted[r] <= crashes
  <2>. SUFFICES ASSUME NEW r \in Batch(l) PROVE mailBox[r] = "queued" /\ pasted[r] <= crashes
    OBVIOUS
  <2>1. mailBox[r] = "queued"
    BY <1>1 DEF mailBox
  <2>2. r \in Row /\ r \notin done /\ crashes \in Nat
    BY <1>1 DEF Unsent, TypeOK
  <2>. QED
    BY <2>1, <2>2 DEF PasteInv
<1>3. pasted' = [r \in Row |-> IF r \in Batch(l) THEN pasted[r] + 1 ELSE pasted[r]]
  BY DEF Paste
<1>4. UNCHANGED Entered
  BY DEF Entered
<1>5. SettledEntered'
  BY <1>1, <1>4 DEF SettledEntered
<1>6. ASSUME done' = done \cup Batch(l), UNCHANGED crashes PROVE Promise!Hand(Batch(l))
  <2>1. mailBox' = [r \in Row |-> IF r \in Batch(l) THEN "settled" ELSE mailBox[r]]
    BY <1>1, <1>4, <1>6 DEF mailBox, Unsent
  <2>. QED
    BY <1>2, <1>3, <1>6, <2>1 DEF Promise!Hand
<1>7. ASSUME UNCHANGED done, crashes' = crashes + 1 PROVE Promise!Hand(Batch(l))
  <2>1. UNCHANGED mailBox
    BY <1>4, <1>7 DEF mailBox, Unsent
  <2>. QED
    BY <1>2, <1>3, <1>7, <2>1 DEF Promise!Hand
<1>8. Promise!Hand(Batch(l)) /\ Batch(l) \in SUBSET Row
  BY <1>1, <1>6, <1>7
<1>. QED
  BY <1>5, <1>8 DEF Promise!Next

\* All other steps leave the inbox as it is and paste nothing; a death counts.
LEMMA QuietBox ==
  ASSUME SettledEntered, UNCHANGED <<inbox, done, resolved, pasted>>,
         UNCHANGED crashes \/ crashes' = crashes + 1
  PROVE  SettledEntered' /\ [Promise!Next]_(Promise!vars)
<1>1. UNCHANGED <<Entered, mailBox>>
  BY DEF mailBox, Entered, Unsent
<1>2. SettledEntered'
  BY <1>1 DEF SettledEntered
<1>. QED
  BY <1>1, <1>2 DEF Promise!Next, Promise!Fault, Promise!vars

LEMMA MailboxStep ==
  ASSUME TypeOK, PasteInv, SettledEntered, [Next]_vars
  PROVE  SettledEntered' /\ [Promise!Next]_(Promise!vars)
<1>1. ASSUME NEW l, LaneDelivers(l) PROVE SettledEntered' /\ Promise!Next
  BY <1>1, PasteHands DEF LaneDelivers
<1>2. ASSUME NEW l, LaneCut(l) PROVE SettledEntered' /\ Promise!Next
  BY <1>2, PasteHands DEF LaneCut, Die, files
<1>3. ASSUME NEW r \in Row, ToMaster(r) PROVE SettledEntered' /\ Promise!Next
  BY <1>3, ToMasterSends
<1>4. ASSUME NEW S \in SUBSET Unresolved, ResolveInbox(S) PROVE SettledEntered' /\ Promise!Next
  <2>1. Entered \subseteq Row
    BY DEF Entered, TypeOK
  <2>. QED
    BY <1>4, <2>1, ResolveFiles DEF Unresolved
<1>5. ASSUME \/ EndPeers \/ PaintCoord \/ Poll \/ Restart \/ UNCHANGED vars \/ Crash
             \/ \E l \in Lanes : LaneIdle(l) \/ LaneBlocked(l) \/ LaneRefused(l)
             \/ \E l \in Coord : \/ Peers(l) \/ PeerArrives(l) \/ ScreenChanges(l) \/ TurnEnds(l)
                                 \/ LimitChanges(l)
      PROVE  SettledEntered' /\ [Promise!Next]_(Promise!vars)
  <2>1. UNCHANGED <<inbox, done, resolved, pasted>>
    BY <1>5 DEF EndPeers, PaintCoord, Poll, Restart, vars, Crash, LaneIdle, LaneBlocked, LaneRefused,
       Peers, PeersIdle, PeersBlocked, PeersTried, PeerArrives, ScreenChanges, TurnEnds, LimitChanges,
       files, past
  <2>2. UNCHANGED crashes \/ crashes' = crashes + 1
    BY <1>5 DEF EndPeers, PaintCoord, Poll, Restart, vars, Crash, Die, LaneIdle, LaneBlocked,
       LaneRefused, Peers, PeersIdle, PeersBlocked, PeersTried, PeerArrives, ScreenChanges, TurnEnds,
       LimitChanges
  <2>. QED
    BY <2>1, <2>2, QuietBox
<1>. QED
  BY <1>1, <1>2, <1>3, <1>4, <1>5 DEF Next, Tick, Lane

LEMMA InboxPromise == Init /\ [][Next]_vars => InboxKeepsMailbox
  BY MailboxInit, MailboxStep, PasteInvariant, PTL DEF InboxKeepsMailbox, Promise!Spec

(* The two lanes are a mailbox: a row is pasted only while it waits, by both *)
(* lanes and beside POST /inbox/resolve, settled rows do not wait again, and *)
(* every repetition has a death of the daemon to pay for it.                 *)
THEOREM ImplementsMailbox == Spec => InboxKeepsMailbox
  BY InboxPromise, PTL DEF Spec

-----------------------------------------------------------------------------
\* A paint that found the manager's agent at work has cleared the pane's
\* clocks, and they stay cleared until the manager's lane has its turn.
Cleared ==
  looked.busy =>
    /\ "manager" \in Coord /\ pc # "down"
    /\ pc \in {"poll", "secretary", "manager"} => gate["manager"] = NewGate

\* The timer and a look at a generating pane leave a new gate new.
LEMMA NewStaysNew == AgeGate(NewGate) = NewGate
<1>1. NewGate.idle = Never /\ NewGate.fp = NoDraft /\ NewGate.age = 0
  BY DEF NewGate
<1>2. Older(Never) = Never
  BY DEF Older
<1>3. AgeGate(NewGate) = [NewGate EXCEPT !.idle = Never, !.age = 0]
  BY <1>1, <1>2 DEF AgeGate
<1>. QED
  BY <1>3 DEF NewGate

LEMMA LaneCleared == ASSUME TypeOK, Cleared, NEW l \in Lanes, Lane(l) PROVE Cleared'
<1>1. looked' = looked /\ pc = l /\ pc' = After(l)
  BY DEF Lane, LaneIdle, LaneBlocked, LaneRefused, LaneDelivers, Works, Moves, Paste, Accepted, past
<1>2. CASE l = "manager"
  BY <1>1, <1>2 DEF Cleared, After
<1>3. CASE l = "secretary"
  <2>1. UNCHANGED gate \/ \E g : gate' = [gate EXCEPT ![l] = g]
    BY DEF Lane, LaneIdle, LaneBlocked, LaneRefused, LaneDelivers
  <2>2. "manager" \in Coord => gate'["manager"] = gate["manager"]
    BY <1>3, <2>1, CoordTypes
  <2>. QED
    BY <1>1, <1>3, <2>2 DEF Cleared, After
<1>. QED
  BY <1>2, <1>3 DEF Lanes

LEMMA PaintCleared == ASSUME TypeOK, PaintCoord PROVE Cleared'
<1>1. looked'.busy => "manager" \in Coord /\ face["manager"] \in Generating
  <2> DEFINE busy == face["manager"] \in Generating
             rows == {inbox[i] : i \in {j \in DOMAIN inbox : Unsent(inbox[j])}}
  <2>1. \/ "manager" \in Coord /\ looked' = [busy |-> busy, rows |-> rows]
        \/ looked' = [busy |-> FALSE, rows |-> {}]
    BY DEF PaintCoord
  <2>2. [busy |-> busy, rows |-> rows].busy = busy
    BY Zenon
  <2>3. [busy |-> FALSE, rows |-> {}].busy = FALSE
    OBVIOUS
  <2>. HIDE DEF rows
  <2>4. CASE "manager" \in Coord /\ looked' = [busy |-> busy, rows |-> rows]
    <3>1. looked'.busy = busy
      BY <2>2, <2>4, Zenon
    <3>. QED
      BY <2>4, <3>1
  <2>5. CASE looked' = [busy |-> FALSE, rows |-> {}]
    BY <2>3, <2>5
  <2>. QED
    BY <2>1, <2>4, <2>5
<1>2. looked'.busy => gate' = [gate EXCEPT !["manager"] = Look(@, face["manager"], draft["manager"])]
  BY DEF PaintCoord
<1>3. looked'.busy => gate'["manager"] = NewGate
  <2> SUFFICES ASSUME looked'.busy PROVE gate'["manager"] = NewGate
    OBVIOUS
  <2>1. Look(gate["manager"], face["manager"], draft["manager"]) = NewGate
    <3>1. ASSUME NEW g, NEW f \in Generating, NEW d PROVE Look(g, f, d) = NewGate
      <4>1. f \notin {"shell", "gone", "idle", "typing"} /\ f \in Generating
        BY DEF Generating
      <4>. QED
        BY <4>1 DEF Look
    <3>. QED
      BY <1>1, <3>1
  <2>. QED
    BY <1>1, <1>2, <2>1, CoordTypes
<1>. QED
  BY <1>1, <1>3 DEF Cleared, PaintCoord

LEMMA ClearedStep == ASSUME TypeOK, Cleared, [Next]_vars PROVE Cleared'
<1>1. ASSUME UNCHANGED <<gate, pc, looked>> PROVE Cleared'
  BY <1>1 DEF Cleared
<1>2. ASSUME NEW l \in Coord, Peers(l) PROVE Cleared'
  BY <1>2 DEF Cleared, Peers, PeersIdle, PeersBlocked, PeersTried, AtPeers, past
<1>3. CASE EndPeers
  BY <1>3 DEF Cleared, EndPeers, past
<1>4. CASE Poll
  <2>1. looked.busy => gate'["manager"] = AgeGate(gate["manager"])
    BY <1>4 DEF Poll, Cleared
  <2>. QED
    BY <1>4, <2>1, NewStaysNew DEF Poll, Cleared
<1>5. CASE Crash \/ \E l \in Coord : LaneCut(l)
  BY <1>5 DEF Cleared, Crash, LaneCut, Die
<1>6. CASE Restart
  BY <1>6 DEF Cleared, Restart, past
<1>7. ASSUME NEW l \in Coord, ScreenChanges(l) PROVE Cleared'
  <2>1. gate' = gate \/ gate' = [gate EXCEPT ![l] = NewGate]
    BY <1>7 DEF ScreenChanges
  <2>2. "manager" \in Coord => gate'["manager"] \in {gate["manager"], NewGate}
    BY <2>1, CoordTypes
  <2>. QED
    BY <1>7, <2>2 DEF Cleared, ScreenChanges, past
<1>8. CASE \/ \E r \in Row : ToMaster(r)
           \/ \E r \in Unresolved : ResolveInbox({r})
           \/ ResolveInbox(Unresolved)
           \/ \E l \in Coord : PeerArrives(l) \/ TurnEnds(l) \/ LimitChanges(l)
           \/ UNCHANGED vars
  BY <1>1, <1>8 DEF ToMaster, ResolveInbox, PeerArrives, TurnEnds, LimitChanges, vars, memory, past
<1>. QED
  BY <1>2, <1>3, <1>4, <1>5, <1>6, <1>7, <1>8, LaneCleared, PaintCleared DEF Next, Tick

\* A gate that was cleared lets nothing through at the first look.
LEMMA ClearedRefuses ==
  ASSUME Settle > 0, NEW f, NEW d
  PROVE  ~CanDeliver(Look(NewGate, f, d), f)
<1>1. Settle \in Nat /\ Stuck \in Nat
  BY NumberAssumption
<1>. QED
  BY <1>1 DEF CanDeliver, Look, NewGate, Generating, Never

\* What is pasted to the manager, its lane pastes.
LEMMA ManagerPastes ==
  ASSUME TypeOK, [Next]_vars, PastedAt("manager") # {}
  PROVE  Accepted("manager")
<1>1. PICK r \in Row : pasted'[r] > pasted[r] /\ LaneOf(r) = "manager"
  BY DEF PastedAt
<1>2. pasted[r] \in Nat
  BY DEF TypeOK
<1>3. pasted' # pasted
  BY <1>1, <1>2
<1>4. PICK l \in Lanes : Paste(l)
  <2>1. Coord \subseteq Lanes
    BY RowAssumption DEF Lanes
  <2>2. ~UNCHANGED pasted
    BY <1>3
  <2>. QED
    BY <2>1, <2>2 DEF Next, Tick, Lane, Peers, LaneIdle, LaneBlocked, LaneRefused, LaneDelivers, LaneCut,
       PeersIdle, PeersBlocked, PeersTried, EndPeers, PaintCoord, Poll, Crash, Restart, ToMaster,
       ResolveInbox, PeerArrives, ScreenChanges, TurnEnds, LimitChanges, vars, past
<1>5. r \in Batch(l)
  BY <1>1, <1>2, <1>4, PastedRows
<1>6. LaneOf(r) = l
  BY <1>5 DEF Batch, Pending
<1>. QED
  BY <1>1, <1>4, <1>6 DEF Paste

\* A turn the border paint saw clears the gate, so what waited is not pasted.
LEMMA SeenTurnHolds ==
  ASSUME Settle > 0, TypeOK, Cleared, [Next]_vars, looked.busy, face["manager"] # "followup"
  PROVE  PastedAt("manager") \cap looked.rows = {}
<1>. SUFFICES ASSUME PastedAt("manager") # {} PROVE FALSE
  OBVIOUS
<1>1. Accepted("manager")
  BY ManagerPastes
<1>2. gate["manager"] = NewGate
  BY <1>1 DEF Cleared, Accepted, Works
<1>3. ~Steers("manager")
  BY DEF Steers
<1>. QED
  BY <1>1, <1>2, <1>3, ClearedRefuses DEF Accepted

LEMMA WaitingStep ==
  ASSUME Settle > 0
  PROVE  TypeOK /\ Cleared /\ [Next]_vars =>
           [looked.busy /\ face["manager"] # "followup" =>
              PastedAt("manager") \cap looked.rows = {}]_vars
  BY SeenTurnHolds

LEMMA ClearedInit == Init => Cleared
  BY DEF Init, Cleared

(* Mail that waited for the manager through a turn the border paint saw is   *)
(* not pasted at the next look, with any settle time but none: a profile may *)
(* set MESH_INBOX_IDLE_SETTLE_MS to 0 and have no such time.                 *)
THEOREM WaitingSettles == ASSUME Settle > 0 PROVE Spec => WaitingMailSettles
  BY ClearedInit, ClearedStep, WaitingStep, TypeCorrect, PTL DEF Spec, WaitingMailSettles

-----------------------------------------------------------------------------
(* A lane works in the order the rows came *)

\* POST /to-master enters a row once.
EnteredOnce == \A i, j \in DOMAIN inbox : inbox[i] = inbox[j] => i = j

\* What is marked has been pasted, and only what was entered.
MarkedPasted == (\A r \in done : pasted[r] > 0) /\ (\A r \in Row \ Entered : pasted[r] = 0)

\* Of two rows of a lane the one that came later is pasted only when the
\* earlier one has been, or was resolved.
NoOvertaking ==
  \A i, j \in DOMAIN inbox :
    i < j /\ LaneOf(inbox[i]) = LaneOf(inbox[j]) /\ pasted[inbox[j]] > 0 =>
      pasted[inbox[i]] > 0 \/ inbox[i] \in resolved

OrderInv == EnteredOnce /\ MarkedPasted /\ NoOvertaking

\* A batch is a beginning of what waits: with a row every earlier one is in it.
LEMMA BatchIsABeginning ==
  ASSUME TypeOK, EnteredOnce, NEW l, NEW i \in Pending(l), NEW j \in DOMAIN inbox, i < j,
         inbox[j] \in Batch(l)
  PROVE  inbox[i] \in Batch(l)
<1> DEFINE UpTo(n) == {k \in Pending(l) : k <= n}
<1>1. Len(inbox) \in Nat /\ DOMAIN inbox = 1..Len(inbox) /\ Pending(l) \subseteq DOMAIN inbox
  BY DEF TypeOK, Pending
<1>2. \E k \in {m \in Pending(l) : Cardinality(UpTo(m)) <= BulkMax} : inbox[k] = inbox[j]
  BY DEF Batch
<1>3. j \in Pending(l) /\ Cardinality(UpTo(j)) <= BulkMax
  BY <1>1, <1>2 DEF EnteredOnce
<1>4. IsFiniteSet(UpTo(j))
  <2>1. IsFiniteSet(1..Len(inbox))
    BY <1>1, FS_Interval
  <2>. QED
    BY <1>1, <2>1, FS_Subset
<1>5. UpTo(i) \subseteq UpTo(j)
  BY <1>1
<1>6. Cardinality(UpTo(i)) <= Cardinality(UpTo(j))
  BY <1>4, <1>5, FS_Subset
<1>7. Cardinality(UpTo(i)) \in Nat /\ Cardinality(UpTo(j)) \in Nat
  BY <1>4, <1>5, FS_Subset, FS_CardinalityType
<1>8. Cardinality(UpTo(i)) <= BulkMax
  BY <1>3, <1>6, <1>7, NumberAssumption
<1>. QED
  BY <1>8 DEF Batch

LEMMA PasteKeepsOrder ==
  ASSUME TypeOK, OrderInv, NEW l, Paste(l), UNCHANGED <<inbox, resolved>>,
         done' = done \cup Batch(l) \/ UNCHANGED done
  PROVE  OrderInv'
<1>1. \A r \in Row : pasted[r] \in Nat
  BY DEF TypeOK
<1>2. \A r \in Batch(l) : r \in Row /\ r \in Entered
  BY BatchQueued
<1>3. \A r \in Row : pasted'[r] = IF r \in Batch(l) THEN pasted[r] + 1 ELSE pasted[r]
  BY DEF Paste
<1>4. EnteredOnce' /\ Entered' = Entered
  BY DEF OrderInv, EnteredOnce, Entered
<1>5. MarkedPasted'
  <2>1. done \subseteq Row
    BY DEF TypeOK
  <2>2. \A r \in done : pasted'[r] > 0
    BY <1>1, <1>3, <2>1 DEF OrderInv, MarkedPasted
  <2>3. \A r \in Batch(l) : pasted'[r] > 0
    BY <1>1, <1>2, <1>3
  <2>4. \A r \in Row \ Entered : pasted'[r] = 0
    BY <1>2, <1>3 DEF OrderInv, MarkedPasted
  <2>. QED
    BY <1>4, <2>2, <2>3, <2>4 DEF MarkedPasted
<1>6. ASSUME NEW i \in DOMAIN inbox, NEW j \in DOMAIN inbox,
             i < j, LaneOf(inbox[i]) = LaneOf(inbox[j]), pasted'[inbox[j]] > 0,
             inbox[i] \notin resolved
      PROVE  pasted'[inbox[i]] > 0
  <2>1. inbox[i] \in Row /\ inbox[j] \in Row
    BY DEF TypeOK
  <2>2. CASE inbox[j] \notin Batch(l)
    <3>1. pasted[inbox[i]] > 0
      BY <1>3, <1>6, <2>1, <2>2 DEF OrderInv, NoOvertaking
    <3>. QED
      BY <1>1, <1>3, <2>1, <3>1
  <2>3. CASE inbox[j] \in Batch(l) /\ inbox[i] \in done
    <3>1. pasted[inbox[i]] > 0
      BY <2>3 DEF OrderInv, MarkedPasted
    <3>. QED
      BY <1>1, <1>3, <2>1, <3>1
  <2>4. CASE inbox[j] \in Batch(l) /\ inbox[i] \notin done
    <3>1. LaneOf(inbox[j]) = l
      BY <2>4 DEF Batch, Pending
    <3>2. i \in Pending(l)
      BY <1>6, <2>4, <3>1 DEF Pending, Unsent
    <3>3. inbox[i] \in Batch(l)
      BY <1>6, <2>4, <3>2, BatchIsABeginning DEF OrderInv
    <3>. QED
      BY <1>1, <1>3, <2>1, <3>3
  <2>. QED
    BY <2>2, <2>3, <2>4
<1>7. NoOvertaking'
  BY <1>6 DEF NoOvertaking
<1>. QED
  BY <1>4, <1>5, <1>7 DEF OrderInv

LEMMA EntryKeepsOrder == ASSUME TypeOK, OrderInv, NEW r \in Row, ToMaster(r) PROVE OrderInv'
<1>1. inbox' = Append(inbox, r) /\ inbox \in Seq(Row) /\ UNCHANGED <<done, resolved, pasted>>
  BY DEF ToMaster, TypeOK, past
<1>2. /\ DOMAIN inbox' = DOMAIN inbox \cup {Len(inbox) + 1}
      /\ inbox'[Len(inbox) + 1] = r
      /\ \A i \in DOMAIN inbox : inbox'[i] = inbox[i] /\ i \in Nat /\ i <= Len(inbox)
      /\ Len(inbox) \in Nat
  BY <1>1
<1>3. \A i \in DOMAIN inbox : inbox[i] # r
  BY DEF ToMaster
<1>4. EnteredOnce'
  BY <1>2, <1>3 DEF OrderInv, EnteredOnce
<1>5. Entered \subseteq Entered'
  BY <1>2 DEF Entered
<1>6. MarkedPasted'
  BY <1>1, <1>5 DEF OrderInv, MarkedPasted
<1>7. pasted[r] = 0
  BY <1>3 DEF OrderInv, MarkedPasted, Entered
<1>8. NoOvertaking'
  <2>. SUFFICES ASSUME NEW i \in DOMAIN inbox', NEW j \in DOMAIN inbox',
                       i < j, LaneOf(inbox'[i]) = LaneOf(inbox'[j]), pasted[inbox'[j]] > 0
                PROVE  pasted[inbox'[i]] > 0 \/ inbox'[i] \in resolved
    BY <1>1 DEF NoOvertaking, LaneOf
  <2>1. j # Len(inbox) + 1
    BY <1>2, <1>7
  <2>2. i \in DOMAIN inbox /\ j \in DOMAIN inbox
    BY <1>2, <2>1
  <2>. QED
    BY <1>2, <2>2 DEF OrderInv, NoOvertaking
<1>. QED
  BY <1>4, <1>6, <1>8 DEF OrderInv

LEMMA QuietKeepsOrder ==
  ASSUME OrderInv, UNCHANGED <<inbox, done, pasted>>, resolved \subseteq resolved'
  PROVE  OrderInv'
<1>1. EnteredOnce' /\ MarkedPasted'
  BY DEF OrderInv, EnteredOnce, MarkedPasted, Entered
<1>2. NoOvertaking'
  BY DEF OrderInv, NoOvertaking, LaneOf
<1>. QED
  BY <1>1, <1>2 DEF OrderInv

LEMMA OrderStep == ASSUME TypeOK, OrderInv, [Next]_vars PROVE OrderInv'
<1>1. ASSUME NEW l, LaneDelivers(l) PROVE OrderInv'
  BY <1>1, PasteKeepsOrder DEF LaneDelivers
<1>2. ASSUME NEW l, LaneCut(l) PROVE OrderInv'
  BY <1>2, PasteKeepsOrder DEF LaneCut, files
<1>3. ASSUME NEW r \in Row, ToMaster(r) PROVE OrderInv'
  BY <1>3, EntryKeepsOrder
<1>4. ASSUME NEW S, ResolveInbox(S) PROVE OrderInv'
  BY <1>4, QuietKeepsOrder DEF ResolveInbox, past
<1>5. ASSUME \/ EndPeers \/ PaintCoord \/ Poll \/ Restart \/ UNCHANGED vars \/ Crash
             \/ \E l \in Lanes : LaneIdle(l) \/ LaneBlocked(l) \/ LaneRefused(l)
             \/ \E l \in Coord : \/ Peers(l) \/ PeerArrives(l) \/ ScreenChanges(l) \/ TurnEnds(l)
                                 \/ LimitChanges(l)
      PROVE  OrderInv'
  <2>1. UNCHANGED <<inbox, done, resolved, pasted>>
    BY <1>5 DEF EndPeers, PaintCoord, Poll, Restart, vars, Crash, LaneIdle, LaneBlocked, LaneRefused,
       Peers, PeersIdle, PeersBlocked, PeersTried, PeerArrives, ScreenChanges, TurnEnds, LimitChanges,
       files, past
  <2>. QED
    BY <2>1, QuietKeepsOrder
<1>. QED
  BY <1>1, <1>2, <1>3, <1>4, <1>5 DEF Next, Tick, Lane

LEMMA OrderInvariant == Init /\ [][Next]_vars => []OrderInv
<1>1. Init => OrderInv
  BY DEF Init, OrderInv, EnteredOnce, MarkedPasted, NoOvertaking
<1>. QED
  BY <1>1, OrderStep, InboxInvariant, PTL

(* A tick pastes the first PEER_BULK_MAX rows that wait, and a refused batch  *)
(* waits where it was: beside handlers, gates, limits and deaths of the      *)
(* daemon no mail of a lane comes to its coordinator before mail that was    *)
(* sent earlier, unless that was resolved.                                   *)
THEOREM MailInOrder == Spec => []NoOvertaking
  BY OrderInvariant, PTL DEF Spec, OrderInv
=============================================================================
