---------------------------- MODULE WritersProofs ----------------------------
(***************************************************************************)
(* Theorems about Inject and Rooms, for any number of processes, panes,     *)
(* agents and lines, and about the composition of the parts in Writers.     *)
(* The theorems about AckLedger are in AckLedgerProofs, those about the     *)
(* timers in CheckbackProofs.                                               *)
(***************************************************************************)
EXTENDS Writers, AckLedgerProofs

-----------------------------------------------------------------------------
(* Inject: locks.  However sequences overlap, a locked pane that takes input *)
(* has a process that owes it the lock.                                      *)

\* What the proof needs of the types.
LockTypes ==
  /\ off \in [Pane -> BOOLEAN] /\ wasOff \in [Proc -> BOOLEAN] /\ step \in [Proc -> Steps]

\* The steps between the opening and the finally block that closes.
Within == {"capture", "save", "clear", "load", "paste", "enter", "again", "restore", "close", "killed"}

\* p found the lock of its pane and has taken it off.
Owes(p, t) == Target[p] = t /\ wasOff[p] /\ step[p] \in Within

\* A pane without a lock never gets one; an open pane that has one is owed it.
LocksInv ==
  /\ \A t \in Pane \ Locked : ~off[t]
  /\ \A p \in Proc : wasOff[p] => Target[p] \in Locked
  /\ \A t \in Pane \cap Locked : off[t] \/ \E p \in Proc : Owes(p, t)

LockInv == LockTypes /\ LocksInv

\* The steps of a sequence within the lock, and what does not belong to one.
Inner(p) ==
  Captures(p) \/ Saves(p) \/ Clears(p) \/ Loads(p) \/ PastesBuffer(p) \/ Enters(p) \/ EntersAgain(p)
  \/ Restores(p) \/ Killed(p)

LEMMA InnerStep ==
  ASSUME NEW p \in Proc, LockInv, Inner(p)
  PROVE  /\ UNCHANGED <<off, wasOff>>
         /\ \E to \in Within : step' = [step EXCEPT ![p] = to]
<1>1. CASE Killed(p)
  BY <1>1 DEF Killed, tmuxState, Within
<1>2. CASE Captures(p) \/ Saves(p) \/ Clears(p) \/ Loads(p) \/ PastesBuffer(p) \/ Restores(p)
  BY <1>2 DEF Captures, Saves, Clears, Loads, PastesBuffer, Restores, Goes, tmuxState, Within
<1>3. CASE Enters(p) \/ EntersAgain(p)
  BY <1>3 DEF Enters, EntersAgain, Goes, AfterEnter, Within
<1>. QED
  BY <1>1, <1>2, <1>3 DEF Inner

\* Whoever owed a lock still does, so long as it moves within its sequence.
LEMMA InnerKeeps ==
  ASSUME NEW p \in Proc, LockInv, UNCHANGED <<off, wasOff>>,
         NEW to \in Steps, step' = [step EXCEPT ![p] = to], step[p] \in Within => to \in Within
  PROVE  LockInv'
<1>1. LockTypes'
  BY DEF LockInv, LockTypes
<1>2. \A q \in Proc, t \in Pane : Owes(q, t) => Owes(q, t)'
  BY DEF LockInv, LockTypes, Owes
<1>. QED
  BY <1>1, <1>2 DEF LockInv, LocksInv

LEMMA LooksStep ==
  ASSUME NEW p \in Proc, LockInv, Looks(p)
  PROVE  LockInv'
<1>1. /\ step[p] = "look" /\ step' = [step EXCEPT ![p] = "open"]
      /\ wasOff' = [wasOff EXCEPT ![p] = off[Target[p]]] /\ UNCHANGED off
  BY DEF Looks, Goes, tmuxState
<1>2. off[Target[p]] \in BOOLEAN
  BY InjectAssumption DEF LockInv, LockTypes
<1>3. LockTypes'
  BY <1>1, <1>2 DEF LockInv, LockTypes, Steps
<1>4. \A q \in Proc, t \in Pane : Owes(q, t) => Owes(q, t)'
  <2> SUFFICES ASSUME NEW q \in Proc, NEW t \in Pane, Owes(q, t) PROVE Owes(q, t)'
    OBVIOUS
  <2>1. q # p
    BY <1>1 DEF Owes, Within
  <2>. QED
    BY <1>1, <2>1 DEF Owes, LockInv, LockTypes
<1>5. \A q \in Proc : wasOff'[q] => Target[q] \in Locked
  <2>1. wasOff'[p] => Target[p] \in Locked
    BY <1>1, InjectAssumption DEF LockInv, LockTypes, LocksInv
  <2>2. \A q \in Proc \ {p} : wasOff'[q] = wasOff[q]
    BY <1>1 DEF LockInv, LockTypes
  <2>. QED
    BY <2>1, <2>2 DEF LockInv, LocksInv
<1>. QED
  BY <1>1, <1>3, <1>4, <1>5 DEF LockInv, LocksInv

LEMMA OpensStep ==
  ASSUME NEW p \in Proc, LockInv, Opens(p)
  PROVE  LockInv'
<1>1. /\ step[p] = "open" /\ step' = [step EXCEPT ![p] = "capture"] /\ UNCHANGED wasOff
      /\ off' = IF wasOff[p] THEN [off EXCEPT ![Target[p]] = FALSE] ELSE off
  BY DEF Opens, Goes
<1>2. LockTypes'
  BY <1>1 DEF LockInv, LockTypes, Steps
<1>3. \A q \in Proc, t \in Pane : Owes(q, t) => Owes(q, t)'
  BY <1>1 DEF Owes, Within, LockInv, LockTypes
<1>4. wasOff[p] => Owes(p, Target[p])'
  BY <1>1 DEF Owes, Within, LockInv, LockTypes
<1>5. \A t \in Pane : off'[t] = off[t] \/ (t = Target[p] /\ wasOff[p] /\ ~off'[t])
  BY <1>1 DEF LockInv, LockTypes
<1>6. \A t \in Pane \ Locked : ~off'[t]
  BY <1>5 DEF LockInv, LocksInv
<1>7. \A t \in Pane \cap Locked : off'[t] \/ \E q \in Proc : Owes(q, t)'
  BY <1>3, <1>4, <1>5 DEF LockInv, LocksInv
<1>. QED
  BY <1>1, <1>2, <1>6, <1>7 DEF LockInv, LocksInv

LEMMA ClosesStep ==
  ASSUME NEW p \in Proc, LockInv, Closes(p)
  PROVE  LockInv'
<1>1. /\ step' = [step EXCEPT ![p] = "done"] /\ UNCHANGED wasOff
      /\ off' = IF wasOff[p] THEN [off EXCEPT ![Target[p]] = TRUE] ELSE off
  BY DEF Closes, Goes
<1>2. LockTypes'
  BY <1>1 DEF LockInv, LockTypes, Steps
<1>3. \A t \in Pane : off'[t] = off[t] \/ (t = Target[p] /\ wasOff[p] /\ off'[t])
  BY <1>1 DEF LockInv, LockTypes
<1>4. \A t \in Pane : Owes(p, t) => off'[t]
  BY <1>1 DEF Owes, LockInv, LockTypes
<1>5. \A q \in Proc \ {p}, t \in Pane : Owes(q, t) => Owes(q, t)'
  BY <1>1 DEF Owes, LockInv, LockTypes
<1>6. \A t \in Pane \ Locked : ~off'[t]
  BY <1>3 DEF LockInv, LocksInv
<1>7. \A t \in Pane \cap Locked : off'[t] \/ \E q \in Proc : Owes(q, t)'
  BY <1>3, <1>4, <1>5 DEF LockInv, LocksInv
<1>. QED
  BY <1>1, <1>2, <1>6, <1>7 DEF LockInv, LocksInv

LEMMA LockStep ==
  ASSUME LockInv, [InjectNext]_injectVars
  PROVE  LockInv'
<1>1. ASSUME NEW p \in Proc, Begin(p) PROVE LockInv'
  BY <1>1, InnerKeeps DEF Begin, Goes, tmuxState, Within, Steps
<1>2. ASSUME NEW p \in Proc, Inner(p) PROVE LockInv'
  BY <1>2, InnerStep, InnerKeeps DEF Within, Steps
<1>3. CASE UNCHANGED injectVars \/ \E t \in Pane : PressEnter(t) \/ (\E d \in Draft : TypesAt(t, d))
  <2>1. UNCHANGED <<off, wasOff, step>>
    BY <1>3 DEF injectVars, PressEnter, TypesAt, AtKeyboard, locals
  <2>. QED
    BY <2>1 DEF LockInv, LockTypes, LocksInv, Owes
<1>. QED
  BY <1>1, <1>2, <1>3, LooksStep, OpensStep, ClosesStep DEF InjectNext, Sequence, Inner

(* withPaneInjectLock reads pane_input_off, turns it off and, in its finally *)
(* block, turns it on only if it had read that it was: two that overlap may  *)
(* paste into a closed pane, but when the last has ended no mini's pane is   *)
(* left open and no other pane is left closed.                               *)
THEOREM LocksReturn == InjectSpec => []LocksComeBack
<1>1. InjectInit => LockInv
  <2> SUFFICES ASSUME InjectInit PROVE LockInv
    OBVIOUS
  <2>1. off = [t \in Pane |-> t \in Locked] /\ wasOff = [p \in Proc |-> FALSE]
        /\ step = [p \in Proc |-> "start"]
    BY DEF InjectInit
  <2>2. \A t \in Pane : off[t] <=> t \in Locked
    BY <2>1
  <2>3. \A t \in Pane : (t \in Locked) \in BOOLEAN
    OBVIOUS
  <2>4. off \in [Pane -> BOOLEAN]
    BY <2>1, <2>3, Zenon
  <2>5. wasOff \in [Proc -> BOOLEAN] /\ step \in [Proc -> Steps] /\ \A p \in Proc : ~wasOff[p]
    BY <2>1 DEF Steps
  <2>. QED
    BY <2>2, <2>4, <2>5 DEF LockInv, LockTypes, LocksInv
<1>2. LockInv /\ [InjectNext]_injectVars => LockInv'
  BY LockStep
<1>3. LockInv => LocksComeBack
  <2> SUFFICES ASSUME LockInv, \A p \in Proc : step[p] \in {"start", "done"}
               PROVE  off = [t \in Pane |-> t \in Locked]
    BY DEF LocksComeBack
  <2>1. ~\E p \in Proc, t \in Pane : Owes(p, t)
    BY DEF Owes, Within
  <2>2. \A t \in Pane : off[t] <=> t \in Locked
    BY <2>1 DEF LockInv, LocksInv
  <2>3. \A t \in Pane : off[t] = (t \in Locked)
    BY <2>2 DEF LockInv, LockTypes
  <2>. QED
    BY <2>3 DEF LockInv, LockTypes
<1>. QED
  BY <1>1, <1>2, <1>3, PTL DEF InjectSpec
-----------------------------------------------------------------------------
(* What becomes of a text *)

LEMMA DraftIsContent == Seq(Draft) \subseteq Seq(Content)
  BY DEF Content

LEMMA HumanIsDraft == ASSUME NEW s \in Seq(Content) PROVE Human(s) \in Seq(Draft)
<1>1. CASE \A i \in DOMAIN s : s[i] \in Draft
  BY <1>1 DEF Human
<1>2. CASE ~\A i \in DOMAIN s : s[i] \in Draft
  BY <1>2 DEF Human
<1>. QED
  BY <1>1, <1>2

InBox(p, t) == \E i \in DOMAIN box[t] : box[t][i] = p
Pasted(p)   == step[p] \in {"enter", "again", "restore", "close", "done", "killed"}

\* Sequences that run at the same time know it.
Overlaps == \A p, q \in Proc : Running(p) /\ Running(q) /\ p # q => {p, q} \subseteq mixed

\* A text nobody overlapped is in the buffer only while its process is about to
\* paste it, or because it was killed there; then nobody else is about to paste.
BufferFresh ==
  \A p \in Proc \ mixed : pasteBuf = p =>
    step[p] \in {"paste", "killed"} /\ \A q \in Proc \ {p} : step[q] # "paste"

\* Such a text is in one composer or one turn, once it is pasted, and nowhere
\* before.
Tally ==
  \A p \in Proc \ mixed, t \in Pane :
    /\ InBox(p, t) \/ TurnsWith(p, t) # {} => t = Target[p] /\ Pasted(p)
    /\ InBox(p, t) => TurnsWith(p, t) = {}
    /\ \A n, k \in TurnsWith(p, t) : n = k

TextInv == InjectTypeOK /\ Overlaps /\ BufferFresh /\ Tally

\* Nothing is submitted, and a text that is new to a composer has just been
\* pasted there.
LEMMA TallyKeeps ==
  ASSUME Tally, mixed \subseteq mixed', UNCHANGED turns,
         \A p \in Proc : Pasted(p) => Pasted(p)',
         \A p \in Proc \ mixed', t \in Pane :
           InBox(p, t)' => InBox(p, t) \/ (t = Target[p] /\ Pasted(p)' /\ TurnsWith(p, t) = {})
  PROVE  Tally'
<1> SUFFICES ASSUME NEW p \in Proc \ mixed', NEW t \in Pane
             PROVE  /\ InBox(p, t)' \/ TurnsWith(p, t)' # {} => t = Target[p] /\ Pasted(p)'
                    /\ InBox(p, t)' => TurnsWith(p, t)' = {}
                    /\ \A n, k \in TurnsWith(p, t)' : n = k
  BY DEF Tally
<1>1. TurnsWith(p, t)' = TurnsWith(p, t)
  BY DEF TurnsWith
<1>2. p \in Proc \ mixed
  OBVIOUS
<1>. QED
  BY <1>1, <1>2 DEF Tally

\* Enter, whether it submits or not.
LEMMA TallySubmits ==
  ASSUME InjectTypeOK, Tally, mixed \subseteq mixed', NEW u \in Pane, Submit(u),
         \A p \in Proc : Pasted(p) => Pasted(p)'
  PROVE  Tally'
<1>1. CASE UNCHANGED <<box, turns>>
  BY <1>1, TallyKeeps DEF InBox
<1>2. CASE box' = [box EXCEPT ![u] = <<>>] /\ turns' = [turns EXCEPT ![u] = Append(@, box[u])]
  <2> SUFFICES ASSUME NEW p \in Proc \ mixed', NEW t \in Pane
               PROVE  /\ InBox(p, t)' \/ TurnsWith(p, t)' # {} => t = Target[p] /\ Pasted(p)'
                      /\ InBox(p, t)' => TurnsWith(p, t)' = {}
                      /\ \A n, k \in TurnsWith(p, t)' : n = k
    BY DEF Tally
  <2>1. /\ InBox(p, t) \/ TurnsWith(p, t) # {} => t = Target[p] /\ Pasted(p)
        /\ InBox(p, t) => TurnsWith(p, t) = {}
        /\ \A n, k \in TurnsWith(p, t) : n = k
    BY DEF Tally
  <2>2. CASE t # u
    <3>1. box'[t] = box[t] /\ turns'[t] = turns[t]
      BY <1>2, <2>2 DEF InjectTypeOK
    <3>2. InBox(p, t)' = InBox(p, t) /\ TurnsWith(p, t)' = TurnsWith(p, t)
      BY <3>1 DEF InBox, TurnsWith
    <3>. QED
      BY <2>1, <3>2
  <2>3. CASE t = u
    <3>1. turns[t] \in Seq(Seq(Content)) /\ box[t] \in Seq(Content)
      BY DEF InjectTypeOK
    <3>2. box'[t] = <<>> /\ turns'[t] = Append(turns[t], box[t])
      BY <1>2, <2>3 DEF InjectTypeOK
    <3>3. ~InBox(p, t)'
      BY <3>2 DEF InBox
    <3>4. TurnsWith(p, t)' = TurnsWith(p, t) \cup (IF InBox(p, t) THEN {Len(turns[t]) + 1} ELSE {})
      BY <3>1, <3>2 DEF TurnsWith, InBox
    <3>. QED
      BY <2>1, <3>3, <3>4
  <2>. QED
    BY <2>2, <2>3
<1>. QED
  BY <1>1, <1>2 DEF Submit

LEMMA ReachesInBox ==
  ASSUME InjectTypeOK, NEW u \in Pane, NEW s \in Seq(Content), box' = Reaches(u, s),
         NEW p, NEW t \in Pane, InBox(p, t)'
  PROVE  InBox(p, t) \/ (t = u /\ \E i \in DOMAIN s : s[i] = p)
<1>1. CASE off[u] \/ t # u
  BY <1>1 DEF Reaches, InBox, InjectTypeOK
<1>2. CASE ~off[u] /\ t = u
  <2>1. box[t] \in Seq(Content) /\ box'[t] = box[t] \o s
    BY <1>2 DEF Reaches, InjectTypeOK
  <2>2. PICK i \in DOMAIN box'[t] : box'[t][i] = p
    BY DEF InBox
  <2>3. i \in 1..(Len(box[t]) + Len(s))
    BY <2>1, <2>2
  <2>4. CASE i \in DOMAIN box[t]
    BY <2>1, <2>2, <2>4 DEF InBox
  <2>5. CASE i \notin DOMAIN box[t]
    <3>1. i - Len(box[t]) \in DOMAIN s /\ box'[t][i] = s[i - Len(box[t])]
      BY <2>1, <2>3, <2>5
    <3>. QED
      BY <1>2, <2>2, <3>1
  <2>. QED
    BY <2>4, <2>5
<1>. QED
  BY <1>1, <1>2

LEMMA ReachesTypes ==
  ASSUME InjectTypeOK, NEW u \in Pane, NEW s \in Seq(Content), box' = Reaches(u, s)
  PROVE  box' \in [Pane -> Seq(Content)]
  BY DEF Reaches, InjectTypeOK
-----------------------------------------------------------------------------
(* TextInv, operation by operation *)

\* Begin only moves the sequence into its steps.
LEMMA BeginText == ASSUME NEW p \in Proc, TextInv, Begin(p) PROVE TextInv'
<1>1. InjectTypeOK'
  BY InjectAssumption DEF TextInv, InjectTypeOK, Begin, Goes, Steps, tmuxState, Running
<1>2. Overlaps'
  BY DEF TextInv, InjectTypeOK, Begin, Goes, Overlaps, Running
<1>3. BufferFresh'
  BY DEF TextInv, InjectTypeOK, Begin, Goes, BufferFresh, tmuxState
<1>4. Tally'
  BY TallyKeeps DEF TextInv, InjectTypeOK, Begin, Goes, tmuxState, Pasted, InBox
<1>. QED
  BY <1>1, <1>2, <1>3, <1>4 DEF TextInv

\* Steps of a sequence that leave composers, turns and the shared buffer alone.
LEMMA QuietText ==
  ASSUME NEW p \in Proc, TextInv,
         Looks(p) \/ Opens(p) \/ Captures(p) \/ Saves(p) \/ Closes(p) \/ Killed(p)
  PROVE  TextInv'
<1>1. PICK to \in {"open", "capture", "save", "clear", "done", "killed"} :
        /\ step' = [step EXCEPT ![p] = to] /\ Running(p)
        /\ step[p] \in {"look", "open", "capture", "save", "close"} \/ to = "killed"
        /\ Pasted(p) => to \in {"done", "killed"}
        /\ UNCHANGED <<box, turns, pasteBuf, mixed>>
  BY DEF Looks, Opens, Captures, Saves, Closes, Killed, Goes, tmuxState, Running, Pasted
<1>2. InjectTypeOK'
  <2>1. saved' \in [Proc -> Seq(Draft)]
    <3>1. CASE Captures(p)
      <4>1. Human(box[Target[p]]) \in Seq(Draft)
        BY HumanIsDraft, InjectAssumption DEF TextInv, InjectTypeOK
      <4>. QED
        BY <3>1, <4>1 DEF Captures, TextInv, InjectTypeOK
    <3>2. CASE ~Captures(p)
      BY <3>2 DEF TextInv, InjectTypeOK, Looks, Opens, Saves, Closes, Killed
    <3>. QED
      BY <3>1, <3>2
  <2>2. off' \in [Pane -> BOOLEAN] /\ wasOff' \in [Proc -> BOOLEAN]
    BY InjectAssumption
       DEF TextInv, InjectTypeOK, Looks, Opens, Captures, Saves, Closes, Killed, tmuxState
  <2>3. draftBuf' \in Seq(Draft) /\ kills' \in 0..MaxKill
    BY InjectAssumption
       DEF TextInv, InjectTypeOK, Looks, Opens, Captures, Saves, Closes, Killed, tmuxState
  <2>4. UNCHANGED <<found, disturbed, types>>
    BY DEF Looks, Opens, Captures, Saves, Closes, Killed
  <2>. QED
    BY <1>1, <2>1, <2>2, <2>3, <2>4 DEF TextInv, InjectTypeOK, Steps
<1>3. Overlaps'
  BY <1>1 DEF TextInv, InjectTypeOK, Overlaps, Running
<1>4. BufferFresh'
  BY <1>1 DEF TextInv, InjectTypeOK, BufferFresh
<1>5. Tally'
  BY <1>1, TallyKeeps DEF TextInv, InjectTypeOK, Pasted, InBox
<1>. QED
  BY <1>2, <1>3, <1>4, <1>5 DEF TextInv

LEMMA ClearsText == ASSUME NEW p \in Proc, TextInv, Clears(p) PROVE TextInv'
<1>1. InjectTypeOK'
  <2>1. <<>> \in Seq(Content)
    OBVIOUS
  <2>2. box' \in [Pane -> Seq(Content)]
    BY <2>1 DEF TextInv, InjectTypeOK, Clears
  <2>. QED
    BY <2>2 DEF TextInv, InjectTypeOK, Clears, Goes, Steps
<1>2. Overlaps'
  BY DEF TextInv, InjectTypeOK, Clears, Goes, Overlaps, Running
<1>3. BufferFresh'
  BY DEF TextInv, InjectTypeOK, Clears, Goes, BufferFresh
<1>4. Tally'
  <2>1. \A q, t : t \in Pane /\ InBox(q, t)' => InBox(q, t)
    BY DEF TextInv, InjectTypeOK, Clears, InBox
  <2>. QED
    BY <2>1, TallyKeeps DEF TextInv, InjectTypeOK, Clears, Goes, Pasted
<1>. QED
  BY <1>1, <1>2, <1>3, <1>4 DEF TextInv

LEMMA LoadsText == ASSUME NEW p \in Proc, TextInv, Loads(p) PROVE TextInv'
<1>1. InjectTypeOK'
  BY DEF TextInv, InjectTypeOK, Loads, Goes, Steps
<1>2. Overlaps'
  BY DEF TextInv, InjectTypeOK, Loads, Goes, Overlaps, Running
<1>3. BufferFresh'
  BY DEF TextInv, InjectTypeOK, Loads, Goes, BufferFresh, Overlaps, Running
<1>4. Tally'
  BY TallyKeeps DEF TextInv, InjectTypeOK, Loads, Goes, Pasted, InBox
<1>. QED
  BY <1>1, <1>2, <1>3, <1>4 DEF TextInv

\* What is pasted is the buffer, or the text itself.
LEMMA PastesText == ASSUME NEW p \in Proc, TextInv, PastesBuffer(p) PROVE TextInv'
<1>1. PICK x \in Proc :
        /\ step[p] = "paste" /\ step' = [step EXCEPT ![p] = "enter"]
        /\ x \in {p, pasteBuf} /\ box' = Reaches(Target[p], <<x>>) /\ pasteBuf' = Nothing
        /\ UNCHANGED <<off, draftBuf, wasOff, saved, turns, found, mixed, disturbed, types, kills>>
  BY DEF PastesBuffer, Goes, TextInv, InjectTypeOK
<1>2. <<x>> \in Seq(Content) /\ Target[p] \in Pane
  BY InjectAssumption DEF Content
<1>3. x # p => x \in mixed
  BY <1>1 DEF TextInv, BufferFresh
<1>4. InjectTypeOK'
  BY <1>1, <1>2, ReachesTypes DEF TextInv, InjectTypeOK, Steps
<1>5. Overlaps'
  BY <1>1 DEF TextInv, InjectTypeOK, Overlaps, Running
<1>6. BufferFresh'
  BY <1>1, InjectAssumption DEF BufferFresh
<1>7. ASSUME NEW q \in Proc \ mixed', NEW t \in Pane, InBox(q, t)'
      PROVE  InBox(q, t) \/ (t = Target[q] /\ Pasted(q)' /\ TurnsWith(q, t) = {})
  <2>1. InBox(q, t) \/ (t = Target[p] /\ q = x)
    <3>1. InBox(q, t) \/ (t = Target[p] /\ \E i \in DOMAIN <<x>> : <<x>>[i] = q)
      BY <1>1, <1>2, <1>7, ReachesInBox DEF TextInv
    <3>. QED
      BY <3>1
  <2>2. CASE t = Target[p] /\ q = x
    <3>1. q = p /\ p \notin mixed
      BY <1>1, <1>3, <2>2
    <3>2. Pasted(p)' /\ ~Pasted(p)
      BY <1>1 DEF Pasted, TextInv, InjectTypeOK
    <3>. QED
      BY <2>2, <3>1, <3>2 DEF TextInv, Tally
  <2>. QED
    BY <2>1, <2>2
<1>8. Tally'
  BY <1>1, <1>7, TallyKeeps DEF TextInv, InjectTypeOK, Pasted
<1>. QED
  BY <1>4, <1>5, <1>6, <1>8 DEF TextInv

LEMMA SubmitTypes ==
  ASSUME InjectTypeOK, NEW t \in Pane, Submit(t)
  PROVE  box' \in [Pane -> Seq(Content)] /\ turns' \in [Pane -> Seq(Seq(Content))]
<1>1. turns[t] \in Seq(Seq(Content)) /\ box[t] \in Seq(Content)
  BY DEF InjectTypeOK
<1>2. Append(turns[t], box[t]) \in Seq(Seq(Content))
  BY <1>1
<1>3. CASE UNCHANGED <<box, turns>>
  BY <1>3 DEF InjectTypeOK
<1>4. CASE box' = [box EXCEPT ![t] = <<>>] /\ turns' = [turns EXCEPT ![t] = Append(turns[t], box[t])]
  <2>1. <<>> \in Seq(Content)
    OBVIOUS
  <2>. QED
    BY <1>2, <1>4, <2>1 DEF InjectTypeOK
<1>. QED
  BY <1>3, <1>4 DEF Submit

LEMMA EntersText ==
  ASSUME NEW p \in Proc, TextInv, Enters(p) \/ EntersAgain(p)
  PROVE  TextInv'
<1>1. PICK to \in {"again", "restore", "close"} :
        /\ step[p] \in {"enter", "again"} /\ step' = [step EXCEPT ![p] = to]
        /\ Submit(Target[p]) \/ UNCHANGED <<box, turns>>
        /\ UNCHANGED <<off, pasteBuf, draftBuf, wasOff, saved, found, mixed, disturbed, types, kills>>
  BY DEF Enters, EntersAgain, Goes, AfterEnter
<1>2. Target[p] \in Pane
  BY InjectAssumption
<1>3. InjectTypeOK'
  BY <1>1, <1>2, SubmitTypes DEF TextInv, InjectTypeOK, Steps
<1>4. Overlaps'
  BY <1>1 DEF TextInv, InjectTypeOK, Overlaps, Running
<1>5. BufferFresh'
  BY <1>1 DEF TextInv, InjectTypeOK, BufferFresh
<1>6. \A q \in Proc : Pasted(q) => Pasted(q)'
  BY <1>1 DEF TextInv, InjectTypeOK, Pasted
<1>7. Tally'
  BY <1>1, <1>2, <1>6, TallySubmits, TallyKeeps DEF TextInv, InBox
<1>. QED
  BY <1>3, <1>4, <1>5, <1>7 DEF TextInv

\* A draft has no text of a process in it.
LEMMA RestoresText == ASSUME NEW p \in Proc, TextInv, Restores(p) PROVE TextInv'
<1>1. draftBuf \in Seq(Draft) /\ draftBuf \in Seq(Content) /\ Target[p] \in Pane
  BY InjectAssumption, DraftIsContent DEF TextInv, InjectTypeOK
<1>2. InjectTypeOK'
  BY <1>1, ReachesTypes DEF TextInv, InjectTypeOK, Restores, Goes, Steps
<1>3. Overlaps'
  BY DEF TextInv, InjectTypeOK, Restores, Goes, Overlaps, Running
<1>4. BufferFresh'
  BY DEF TextInv, InjectTypeOK, Restores, Goes, BufferFresh
<1>5. \A q \in Proc, t \in Pane : InBox(q, t)' => InBox(q, t)
  BY <1>1, ReachesInBox, InjectAssumption DEF TextInv, Restores
<1>6. Tally'
  BY <1>5, TallyKeeps DEF TextInv, InjectTypeOK, Restores, Goes, Pasted
<1>. QED
  BY <1>2, <1>3, <1>4, <1>6 DEF TextInv

\* The operator types drafts, and may submit what is there.
LEMMA KeyboardText ==
  ASSUME NEW t \in Pane, TextInv, PressEnter(t) \/ \E d \in Draft : TypesAt(t, d)
  PROVE  TextInv'
<1>1. UNCHANGED <<off, pasteBuf, draftBuf, step, wasOff, saved, found, mixed, kills>>
  BY DEF PressEnter, TypesAt, AtKeyboard, locals
<1>2. disturbed' \subseteq Proc /\ types' \in 0..MaxType
  <2>1. AtKeyboard(t)
    BY DEF PressEnter, TypesAt
  <2>2. types' \in 0..MaxType
    BY <2>1, InjectAssumption DEF AtKeyboard, TextInv, InjectTypeOK
  <2>3. disturbed' \subseteq Proc
    BY <2>1 DEF AtKeyboard, TextInv, InjectTypeOK
  <2>. QED
    BY <2>2, <2>3
<1>3. Overlaps' /\ BufferFresh'
  BY <1>1 DEF TextInv, Overlaps, BufferFresh, Running
<1>4. CASE PressEnter(t)
  <2>1. Submit(t)
    BY <1>4 DEF PressEnter
  <2>2. InjectTypeOK'
    BY <1>1, <1>2, <2>1, SubmitTypes DEF TextInv, InjectTypeOK
  <2>3. Tally'
    BY <1>1, <2>1, TallySubmits DEF TextInv, Pasted
  <2>. QED
    BY <1>3, <2>2, <2>3 DEF TextInv
<1>5. ASSUME NEW d \in Draft, TypesAt(t, d) PROVE TextInv'
  <2>1. box' = Reaches(t, <<d>>) /\ UNCHANGED turns /\ <<d>> \in Seq(Content)
    BY <1>5 DEF TypesAt, Content
  <2>2. InjectTypeOK'
    BY <1>1, <1>2, <2>1, ReachesTypes DEF TextInv, InjectTypeOK
  <2>3. \A q \in Proc, u \in Pane : InBox(q, u)' => InBox(q, u)
    <3>1. \A i \in DOMAIN <<d>> : <<d>>[i] \notin Proc
      BY InjectAssumption
    <3>. QED
      BY <2>1, <3>1, ReachesInBox DEF TextInv
  <2>4. Tally'
    BY <1>1, <2>1, <2>3, TallyKeeps DEF TextInv, Pasted
  <2>. QED
    BY <1>3, <2>2, <2>4 DEF TextInv
<1>. QED
  BY <1>4, <1>5

LEMMA TextStep == ASSUME TextInv, [InjectNext]_injectVars PROVE TextInv'
<1>1. CASE UNCHANGED injectVars
  <2>1. InjectTypeOK' /\ Overlaps' /\ BufferFresh'
    BY <1>1 DEF injectVars, TextInv, InjectTypeOK, Overlaps, BufferFresh, Running
  <2>2. Tally'
    BY <1>1, TallyKeeps DEF injectVars, TextInv, Pasted, InBox
  <2>. QED
    BY <2>1, <2>2 DEF TextInv
<1>2. ASSUME NEW p \in Proc, Sequence(p) \/ Killed(p) PROVE TextInv'
  BY <1>2, BeginText, QuietText, ClearsText, LoadsText, PastesText, EntersText, RestoresText
     DEF Sequence
<1>3. ASSUME NEW t \in Pane, PressEnter(t) \/ \E d \in Draft : TypesAt(t, d) PROVE TextInv'
  BY <1>3, KeyboardText
<1>. QED
  BY <1>1, <1>2, <1>3 DEF InjectNext

LEMMA TextStart == ASSUME InjectInit PROVE TextInv
<1>1. InjectTypeOK
  <2>1. off \in [Pane -> BOOLEAN]
    <3>1. off = [t \in Pane |-> t \in Locked] /\ \A t \in Pane : (t \in Locked) \in BOOLEAN
      BY DEF InjectInit
    <3>. QED
      BY <3>1, Zenon
  <2>. QED
    BY <2>1, InjectAssumption DEF InjectInit, InjectTypeOK, Steps
<1>2. Overlaps /\ BufferFresh
  BY InjectAssumption DEF InjectInit, Overlaps, BufferFresh, Running
<1>3. Tally
  BY DEF InjectInit, Tally, InBox, TurnsWith
<1>. QED
  BY <1>1, <1>2, <1>3 DEF TextInv

LEMMA TextInvariant == InjectInit /\ [][InjectNext]_injectVars => []TextInv
  BY TextStart, TextStep, PTL

-----------------------------------------------------------------------------
(* A sequence by itself *)

SoleTurn(p) ==
  \E n \in DOMAIN turns[Target[p]] :
    TurnsWith(p, Target[p]) = {n} /\ turns[Target[p]][n] = <<p>>

\* What a sequence that nobody disturbs has made of its pane and of the buffers.
CleanAt(p, s, t) ==
  /\ s = "open" => wasOff[p] = off[t]
  /\ s \notin {"look", "open"} => ~off[t]
  /\ s \in {"look", "open", "capture", "save", "clear"} => box[t] = found[p]
  /\ s \notin {"look", "open", "capture"} => saved[p] = Human(found[p])
  /\ s \in {"clear", "load", "paste", "enter", "again", "restore"} => draftBuf = saved[p]
  /\ s \in {"load", "paste"} => box[t] = <<>>
  /\ s = "paste" => pasteBuf = p
  /\ s = "enter" => box[t] = <<p>>
  /\ s = "again" => box[t] = <<p>> \/ (box[t] = <<>> /\ SoleTurn(p))
  /\ s = "restore" => box[t] = <<>> /\ SoleTurn(p)
  /\ s = "close" => box[t] = Human(found[p]) /\ SoleTurn(p)

Clean == \A p \in Proc : Running(p) /\ Undisturbed(p) => CleanAt(p, step[p], Target[p])

CleanInv == TextInv /\ Clean

\* A process nobody has overlapped is the only one that moves.
LEMMA OthersRest ==
  ASSUME TextInv, NEW p \in Proc, Running(p), p \notin mixed', NEW q \in Proc \ {p}
  PROVE  ~Sequence(q) /\ ~Killed(q)
<1>1. mixed \subseteq mixed' => ~Running(q)
  BY DEF TextInv, Overlaps
<1>2. ~Begin(q)
  BY DEF Begin, Running
<1>3. ASSUME Sequence(q) \/ Killed(q) PROVE Running(q) /\ mixed \subseteq mixed'
  BY <1>2, <1>3 DEF Sequence, Killed, Looks, Opens, Captures, Saves, Clears, Loads, PastesBuffer,
                    Enters, EntersAgain, Restores, Closes, Goes, Running, tmuxState
<1>. QED
  BY <1>1, <1>3

\* The text alone in its composer becomes a turn of its own.
LEMMA SubmitsAlone ==
  ASSUME TextInv, NEW p \in Proc \ mixed, box[Target[p]] = <<p>>, ~off[Target[p]],
         Submit(Target[p])
  PROVE  box'[Target[p]] = <<>> /\ SoleTurn(p)'
<1> DEFINE t == Target[p]
<1>1. t \in Pane /\ turns[t] \in Seq(Seq(Content))
  BY InjectAssumption DEF TextInv, InjectTypeOK
<1>2. box[t] # <<>> /\ InBox(p, t)
  BY DEF InBox
<1>3. box'[t] = <<>> /\ turns'[t] = Append(turns[t], <<p>>)
  BY <1>1, <1>2 DEF Submit, TextInv, InjectTypeOK
<1>4. TurnsWith(p, t) = {}
  BY <1>1, <1>2 DEF TextInv, Tally
<1>5. /\ DOMAIN turns'[t] = 1..(Len(turns[t]) + 1) /\ turns'[t][Len(turns[t]) + 1] = <<p>>
      /\ \A n \in DOMAIN turns[t] : turns'[t][n] = turns[t][n]
  BY <1>1, <1>3
<1>6. \A n \in DOMAIN turns'[t] :
        (\E i \in DOMAIN turns'[t][n] : turns'[t][n][i] = p) <=> n = Len(turns[t]) + 1
  <2> SUFFICES ASSUME NEW n \in DOMAIN turns'[t]
               PROVE  (\E i \in DOMAIN turns'[t][n] : turns'[t][n][i] = p) <=> n = Len(turns[t]) + 1
    OBVIOUS
  <2>1. CASE n = Len(turns[t]) + 1
    <3>1. DOMAIN <<p>> = 1..1 /\ <<p>>[1] = p
      OBVIOUS
    <3>. QED
      BY <1>5, <2>1, <3>1
  <2>2. CASE n # Len(turns[t]) + 1
    <3>1. n \in DOMAIN turns[t] /\ turns'[t][n] = turns[t][n]
      BY <1>1, <1>5, <2>2
    <3>2. ~\E i \in DOMAIN turns[t][n] : turns[t][n][i] = p
      BY <1>4, <3>1 DEF TurnsWith
    <3>. QED
      BY <2>2, <3>1, <3>2
  <2>. QED
    BY <2>1, <2>2
<1>7. Len(turns[t]) + 1 \in DOMAIN turns'[t]
  BY <1>1, <1>5
<1>8. TurnsWith(p, t)' = {Len(turns[t]) + 1}
  BY <1>6, <1>7 DEF TurnsWith
<1>. QED
  BY <1>3, <1>5, <1>7, <1>8 DEF SoleTurn

\* The composer is empty: Enter changes nothing.
LEMMA SubmitsNothing ==
  ASSUME NEW t, box[t] = <<>>, Submit(t) PROVE UNCHANGED <<box, turns>>
  BY DEF Submit

LEMMA OwnStepClean ==
  ASSUME NEW p \in Proc, CleanInv, Sequence(p), Undisturbed(p)', Running(p)'
  PROVE  CleanAt(p, step[p], Target[p])'
<1>1. Target[p] \in Pane /\ Undisturbed(p) /\ p \notin mixed
  BY InjectAssumption DEF Undisturbed, Sequence, Begin, Looks, Opens, Captures, Saves, Clears, Loads,
     PastesBuffer, Enters, EntersAgain, Restores, Closes
<1>2. CASE Begin(p)
  BY <1>1, <1>2 DEF Begin, Goes, CleanAt, tmuxState, CleanInv, TextInv, InjectTypeOK
<1>3. ASSUME ~Begin(p) PROVE CleanAt(p, step[p], Target[p])
  BY <1>1, <1>3 DEF CleanInv, Clean, Sequence, Looks, Opens, Captures, Saves, Clears, Loads,
     PastesBuffer, Enters, EntersAgain, Restores, Closes, Goes, Running
<1>4. CASE Looks(p) \/ Opens(p)
  BY <1>1, <1>3, <1>4 DEF Begin, Looks, Opens, tmuxState, Goes, CleanAt, CleanInv, TextInv, InjectTypeOK
<1>5. CASE Captures(p) \/ Saves(p)
  BY <1>1, <1>3, <1>5 DEF Begin, Captures, Saves, tmuxState, Goes, CleanAt, CleanInv, TextInv, InjectTypeOK
<1>6. CASE Clears(p)
  BY <1>1, <1>3, <1>6 DEF Begin, Clears, Undisturbed, Goes, CleanAt, CleanInv, TextInv, InjectTypeOK
<1>7. CASE Loads(p)
  BY <1>1, <1>3, <1>7 DEF Begin, Loads, Goes, CleanAt, CleanInv, TextInv, InjectTypeOK
<1>8. CASE PastesBuffer(p)
  <2>1. step[p] = "paste" /\ CleanAt(p, "paste", Target[p]) /\ step'[p] = "enter"
    BY <1>3, <1>8 DEF Begin, PastesBuffer, Goes, CleanInv, TextInv, InjectTypeOK
  <2>2. ~off[Target[p]] /\ box[Target[p]] = <<>> /\ pasteBuf \in {p}
    BY <2>1 DEF CleanAt
  <2>3. box'[Target[p]] = <<>> \o <<p>>
    BY <1>1, <1>8, <2>2, InjectAssumption DEF PastesBuffer, Reaches, CleanInv, TextInv, InjectTypeOK
  <2>4. box'[Target[p]] = <<p>>
    BY <2>3
  <2>. QED
    BY <1>8, <2>1, <2>4 DEF PastesBuffer, CleanAt
<1>9. CASE Enters(p) \/ EntersAgain(p)
  <2> DEFINE t == Target[p]
  <2>1. /\ step[p] \in {"enter", "again"} /\ step'[p] \in {"again", AfterEnter(p)}
        /\ step[p] = "again" => step'[p] = AfterEnter(p)
        /\ \/ Submit(t)
           \/ step'[p] = "again" /\ UNCHANGED <<box, turns>>
        /\ UNCHANGED <<off, pasteBuf, draftBuf, wasOff, saved, found>>
    BY <1>9 DEF Enters, EntersAgain, Goes, CleanInv, TextInv, InjectTypeOK
  <2>2. /\ ~off[t] /\ saved[p] = Human(found[p]) /\ draftBuf = saved[p]
        /\ box[t] = <<p>> \/ (step[p] = "again" /\ box[t] = <<>> /\ SoleTurn(p))
    BY <1>3, <1>9, <2>1 DEF CleanAt, Begin, Enters, EntersAgain, Goes
  <2>3. \/ box'[t] = <<>> /\ SoleTurn(p)'
        \/ box'[t] = <<p>> /\ step'[p] = "again"
    <3>1. CASE box[t] = <<p>> /\ Submit(t)
      BY <1>1, <2>2, <3>1, SubmitsAlone DEF CleanInv
    <3>2. CASE box[t] = <<>> /\ SoleTurn(p) /\ Submit(t)
      BY <3>2, SubmitsNothing DEF SoleTurn, TurnsWith
    <3>3. CASE step'[p] = "again" /\ UNCHANGED <<box, turns>>
      BY <2>1, <2>2, <3>3 DEF AfterEnter
    <3>. QED
      BY <2>1, <2>2, <3>1, <3>2, <3>3
  <2>. QED
    BY <2>1, <2>2, <2>3 DEF CleanAt, AfterEnter
<1>10. CASE Restores(p)
  <2>1. step[p] = "restore" /\ CleanAt(p, "restore", Target[p]) /\ step'[p] = "close"
    BY <1>3, <1>10 DEF Begin, Restores, Goes, CleanInv, TextInv, InjectTypeOK
  <2>2. /\ ~off[Target[p]] /\ box[Target[p]] = <<>> /\ SoleTurn(p)
        /\ draftBuf = Human(found[p]) /\ draftBuf \in Seq(Draft)
    BY <2>1 DEF CleanAt, CleanInv, TextInv, InjectTypeOK
  <2>3. box'[Target[p]] = <<>> \o draftBuf
    BY <1>1, <1>10, <2>2 DEF Restores, Reaches, CleanInv, TextInv, InjectTypeOK
  <2>4. box'[Target[p]] = Human(found[p])
    BY <2>2, <2>3
  <2>5. SoleTurn(p)'
    BY <1>10, <2>2 DEF Restores, SoleTurn, TurnsWith
  <2>. QED
    BY <1>10, <2>1, <2>2, <2>4, <2>5 DEF Restores, CleanAt
<1>11. ~Closes(p)
  BY DEF Closes, Goes, Running, CleanInv, TextInv, InjectTypeOK
<1>. QED
  BY <1>2, <1>4, <1>5, <1>6, <1>7, <1>8, <1>9, <1>10, <1>11 DEF Sequence

\* What the operator does in other panes.
LEMMA KeyboardClean ==
  ASSUME NEW p \in Proc, CleanInv, NEW u \in Pane, Undisturbed(p)', Running(p),
         PressEnter(u) \/ \E d \in Draft : TypesAt(u, d)
  PROVE  CleanAt(p, step[p], Target[p])'
<1>1. AtKeyboard(u)
  BY DEF PressEnter, TypesAt
<1>2. u # Target[p] /\ Undisturbed(p)
  BY <1>1 DEF AtKeyboard, Undisturbed
<1>3. box'[Target[p]] = box[Target[p]] /\ turns'[Target[p]] = turns[Target[p]]
  <2>1. Target[p] \in Pane
    BY InjectAssumption
  <2>2. CASE PressEnter(u)
    BY <1>2, <2>1, <2>2 DEF PressEnter, Submit, CleanInv, TextInv, InjectTypeOK
  <2>3. CASE \E d \in Draft : TypesAt(u, d)
    BY <1>2, <2>1, <2>3 DEF TypesAt, Reaches, CleanInv, TextInv, InjectTypeOK
  <2>. QED
    BY <2>2, <2>3
<1>4. SoleTurn(p)' = SoleTurn(p)
  BY <1>3 DEF SoleTurn, TurnsWith
<1>5. UNCHANGED <<off, pasteBuf, draftBuf, step, wasOff, saved, found>>
  BY <1>1 DEF AtKeyboard, locals
<1>6. CleanAt(p, step[p], Target[p])
  BY <1>2 DEF CleanInv, Clean
<1>. QED
  BY <1>3, <1>4, <1>5, <1>6 DEF CleanAt

LEMMA CleanStep == ASSUME CleanInv, [InjectNext]_injectVars PROVE CleanInv'
<1> SUFFICES ASSUME NEW p \in Proc, Running(p)', Undisturbed(p)'
             PROVE  CleanAt(p, step[p], Target[p])'
  BY TextStep DEF CleanInv, Clean
<1>1. CASE UNCHANGED injectVars
  <2>1. CleanAt(p, step[p], Target[p]) /\ SoleTurn(p)' = SoleTurn(p)
    BY <1>1 DEF injectVars, CleanInv, Clean, Running, Undisturbed, SoleTurn, TurnsWith
  <2>. QED
    BY <1>1, <2>1 DEF injectVars, CleanAt
<1>2. CASE Sequence(p)
  BY <1>2, OwnStepClean
<1>3. ASSUME ~Sequence(p), \E q \in Proc : Sequence(q) \/ Killed(q) PROVE FALSE
  <2>1. PICK q \in Proc : Sequence(q) \/ Killed(q)
    BY <1>3
  <2>2. CASE q = p
    BY <1>3, <2>1, <2>2 DEF Killed, Running, CleanInv, TextInv, InjectTypeOK
  <2>3. CASE q # p
    <3>1. step'[p] = step[p]
      BY <2>1, <2>3 DEF Sequence, Killed, Begin, Looks, Opens, Captures, Saves, Clears, Loads,
         PastesBuffer, Enters, EntersAgain, Restores, Closes, Goes, CleanInv, TextInv, InjectTypeOK
    <3>. QED
      BY <2>1, <2>3, <3>1, OthersRest DEF CleanInv, Running, Undisturbed
  <2>. QED
    BY <2>2, <2>3
<1>4. ASSUME NEW u \in Pane, PressEnter(u) \/ \E d \in Draft : TypesAt(u, d)
      PROVE  CleanAt(p, step[p], Target[p])'
  <2>1. Running(p)
    BY <1>4 DEF PressEnter, TypesAt, AtKeyboard, locals, Running
  <2>. QED
    BY <1>4, <2>1, KeyboardClean
<1>. QED
  BY <1>1, <1>2, <1>3, <1>4 DEF InjectNext

LEMMA CleanInvariant == InjectInit /\ [][InjectNext]_injectVars => []CleanInv
<1>1. InjectInit => CleanInv
  BY TextStart DEF InjectInit, CleanInv, Clean, Running
<1>. QED
  BY <1>1, CleanStep, PTL

-----------------------------------------------------------------------------
(* InjectTypeOK holds however sequences overlap.                             *)
THEOREM InjectTypes == InjectSpec => []InjectTypeOK
<1>1. TextInv => InjectTypeOK
  BY DEF TextInv
<1>. QED
  BY <1>1, TextInvariant, PTL DEF InjectSpec

(* injectToPane that nobody overlaps, in a pane nobody uses meanwhile: when  *)
(* its finally block ends, its text has been submitted as one turn, by       *)
(* itself, and the composer holds what the operator had typed, whatever      *)
(* buffers and composers other processes had left.                           *)
THEOREM LoneInjects == InjectSpec => LoneInjectIsClean
<1>1. ASSUME CleanInv, NEW p \in Proc, step[p] = "close", Undisturbed(p)
      PROVE  /\ \E n \in DOMAIN turns[Target[p]] :
                  TurnsWith(p, Target[p]) = {n} /\ turns[Target[p]][n] = <<p>>
             /\ box[Target[p]] = Human(found[p])
  BY <1>1 DEF CleanInv, Clean, Running, CleanAt, SoleTurn
<1>. DEFINE Promise ==
       \A p \in Proc : step[p] = "close" /\ step'[p] = "done" /\ Undisturbed(p) =>
         /\ \E n \in DOMAIN turns[Target[p]] :
              TurnsWith(p, Target[p]) = {n} /\ turns[Target[p]][n] = <<p>>
         /\ box[Target[p]] = Human(found[p])
<1>2. CleanInv => Promise
  BY <1>1
<1>3. []CleanInv => [][Promise]_injectVars
  BY <1>2, PTL
<1>. QED
  BY <1>3, CleanInvariant, PTL DEF InjectSpec, LoneInjectIsClean

(* However many processes inject: the text of one that overlapped no other   *)
(* is submitted at most once and only in its own pane, also when a process   *)
(* was killed with a loaded buffer.                                          *)
THEOREM CrossingNeedsOverlap == InjectSpec => []CrossNeedsOverlap
<1>1. TextInv => CrossNeedsOverlap
  BY DEF TextInv, Tally, CrossNeedsOverlap
<1>. QED
  BY <1>1, TextInvariant, PTL DEF InjectSpec

-----------------------------------------------------------------------------
(* Rooms: the types, the pings and what is unseen.                           *)

\* Lines somebody has begun to say, and those whose pings have been sent.
Said == {m \in Msg : say[m] # "idle"}
Sent == {m \in Msg : say[m] \in {"record", "save", "done"}}

\* What bounds the clock and the pings: each line stamps once and pings once.
Counted ==
  /\ clock \in Nat /\ clock <= Cardinality(Said)
  /\ \A a \in Agent : pinged[a] \in Nat /\ pinged[a] <= Cardinality(Sent)

\* The types, without the bounds that Counted gives.
RoomTypes ==
  /\ log \in Seq(Msg) /\ ts \in [Msg -> 0..Cardinality(Msg)]
  /\ holder \in Msg \cup {NoMsg}
  /\ marks \in [Agent -> Mark] /\ copy \in [Writer -> [Agent -> Mark]]
  /\ say \in [Msg -> {"idle", "stamped", "locked", "fanout", "enqueue", "record", "save", "done"}]
  /\ thin \in [Msg -> SUBSET Agent]
  /\ reader \in [Agent -> {"idle", "load", "save"}]
  /\ last \in [Agent -> Msg \cup {NoMsg}]
  /\ era \in 1..MaxEra /\ pinged \in [Agent -> Nat]
  /\ crowded \in BOOLEAN /\ reads \in 0..MaxRead

\* A line in the ledger has its stamp for good.
LogSaid == \A i \in DOMAIN log : say[log[i]] # "idle"

\* While processes come to read-state.json one at a time, there is one; what it
\* has loaded is what is there; and a ping is recorded, or about to be, until
\* its cooldown ends or its agent reads.
OneAtATime ==
  ~crowded =>
    /\ \A v, w \in Busy : v = w
    /\ \A m \in Msg : say[m] = "save" => copy[m] = marks
    /\ \A a \in Agent : reader[a] = "save" => copy[a] = marks
    /\ \A m \in Msg : say[m] = "enqueue" => \A a \in thin[m] : pinged[a] = 0
    /\ \A a \in Agent :
         /\ pinged[a] <= 1
         /\ pinged[a] = 1 => \/ marks[a].thin = era
                             \/ \E m \in Msg : say[m] \in {"record", "save"} /\ a \in thin[m]

RoomInv == RoomTypes /\ Counted /\ LogSaid /\ OneAtATime

-----------------------------------------------------------------------------
LEMMA SayCounts ==
  /\ IsFiniteSet(Said) /\ Cardinality(Said) \in Nat /\ Cardinality(Said) <= Cardinality(Msg)
  /\ IsFiniteSet(Sent) /\ Cardinality(Sent) \in Nat /\ Cardinality(Sent) <= Cardinality(Msg)
  /\ Cardinality(Msg) \in Nat
<1>1. Said \subseteq Msg /\ Sent \subseteq Msg
  BY DEF Said, Sent
<1>. QED
  BY <1>1, RoomAssumption, FS_Subset, FS_CardinalityType

\* say' has the counts of say or more.
LEMMA SayGrows ==
  ASSUME Said \subseteq Said', Sent \subseteq Sent'
  PROVE  /\ Cardinality(Said) <= Cardinality(Said') /\ Cardinality(Sent) <= Cardinality(Sent')
         /\ Cardinality(Said') \in Nat /\ Cardinality(Sent') \in Nat
         /\ Cardinality(Said') <= Cardinality(Msg)
<1>1. Said' \subseteq Msg /\ Sent' \subseteq Msg
  BY DEF Said, Sent
<1>. QED
  BY <1>1, RoomAssumption, FS_Subset, FS_CardinalityType

LEMMA OneMore ==
  ASSUME NEW S, NEW T, IsFiniteSet(T), NEW x \in T, x \notin S, S \subseteq T
  PROVE  Cardinality(S) + 1 <= Cardinality(T)
<1>1. IsFiniteSet(S) /\ IsFiniteSet(S \cup {x}) /\ S \cup {x} \subseteq T
  BY FS_Subset, FS_AddElement
<1>2. Cardinality(S \cup {x}) = Cardinality(S) + 1
  BY <1>1, FS_AddElement
<1>. QED
  BY <1>1, <1>2, FS_Subset

LEMMA CountsOfClock ==
  ASSUME RoomInv PROVE clock \in 0..Cardinality(Msg)
  BY SayCounts DEF RoomInv, Counted

\* A process moves on, and nothing else is counted.
LEMMA CountsKeep ==
  ASSUME RoomInv, UNCHANGED <<clock, pinged>>, Said \subseteq Said', Sent \subseteq Sent'
  PROVE  Counted'
<1>1. /\ Cardinality(Said) <= Cardinality(Said') /\ Cardinality(Sent) <= Cardinality(Sent')
      /\ Cardinality(Said') \in Nat /\ Cardinality(Sent') \in Nat
  BY SayGrows
<1>2. Cardinality(Said) \in Nat /\ Cardinality(Sent) \in Nat
  BY SayCounts
<1>. QED
  BY <1>1, <1>2 DEF RoomInv, Counted

\* The clock moves with a line that is new.
LEMMA StampCounts ==
  ASSUME RoomInv, NEW m \in Msg, say[m] = "idle", Stamp(m), NEW to, to # "idle",
         say' = [say EXCEPT ![m] = to], UNCHANGED pinged
  PROVE  Counted' /\ ts' \in [Msg -> 0..Cardinality(Msg)]
<1>1. Said \subseteq Said' /\ m \in Said' /\ m \notin Said /\ Sent \subseteq Sent'
  BY DEF RoomInv, RoomTypes, Said, Sent
<1>2. /\ Cardinality(Sent) <= Cardinality(Sent')
      /\ Cardinality(Said') \in Nat /\ Cardinality(Sent') \in Nat /\ Cardinality(Said') <= Cardinality(Msg)
  BY <1>1, SayGrows
<1>3. IsFiniteSet(Said')
  BY RoomAssumption, FS_Subset DEF Said
<1>4. Cardinality(Said) + 1 <= Cardinality(Said')
  BY <1>1, <1>3, OneMore
<1>5. PICK t \in {clock, clock + 1} : ts' = [ts EXCEPT ![m] = t] /\ clock' = t
  BY DEF Stamp
<1>6. Cardinality(Said) \in Nat /\ Cardinality(Sent) \in Nat /\ Cardinality(Msg) \in Nat
  BY SayCounts
<1>7. clock' \in Nat /\ clock' <= Cardinality(Said') /\ clock' \in 0..Cardinality(Msg)
  BY <1>2, <1>4, <1>5, <1>6 DEF RoomInv, Counted
<1>8. \A a \in Agent : pinged'[a] \in Nat /\ pinged'[a] <= Cardinality(Sent')
  BY <1>2, <1>6 DEF RoomInv, Counted
<1>9. ts' \in [Msg -> 0..Cardinality(Msg)]
  BY <1>5, <1>7 DEF RoomInv, RoomTypes
<1>. QED
  BY <1>7, <1>8, <1>9 DEF Counted

LEMMA BlankMarks == Blank \in [Agent -> Mark]
  BY RoomAssumption, SayCounts DEF Blank, Mark

LEMMA StampsKeeps == ASSUME RoomInv, NEW m \in Msg, Stamps(m) PROVE RoomInv'
<1>1. Counted' /\ ts' \in [Msg -> 0..Cardinality(Msg)]
  BY StampCounts DEF Stamps, Moves
<1>2. RoomTypes'
  BY <1>1 DEF RoomInv, RoomTypes, Stamps, Moves
<1>3. LogSaid'
  BY DEF RoomInv, RoomTypes, Stamps, Moves, LogSaid
<1>4. OneAtATime'
  BY DEF RoomInv, RoomTypes, Stamps, Moves, OneAtATime, Busy
<1>. QED
  BY <1>1, <1>2, <1>3, <1>4 DEF RoomInv

LEMMA LocksKeeps == ASSUME RoomInv, NEW m \in Msg, Locks(m) PROVE RoomInv'
<1>1. Counted'
  BY CountsKeep DEF RoomInv, RoomTypes, Locks, Moves, Said, Sent
<1>2. RoomTypes'
  BY DEF RoomInv, RoomTypes, Locks, Moves
<1>3. LogSaid'
  BY DEF RoomInv, RoomTypes, Locks, Moves, LogSaid
<1>4. OneAtATime'
  BY DEF RoomInv, RoomTypes, Locks, Moves, OneAtATime, Busy
<1>. QED
  BY <1>1, <1>2, <1>3, <1>4 DEF RoomInv

LEMMA AppendsKeeps == ASSUME RoomInv, NEW m \in Msg, Appends(m) PROVE RoomInv'
<1>1. Counted'
  BY CountsKeep DEF RoomInv, RoomTypes, Appends, Moves, Said, Sent
<1>2. RoomTypes'
  BY DEF RoomInv, RoomTypes, Appends, Moves
<1>3. LogSaid'
  BY DEF RoomInv, RoomTypes, Appends, Moves, LogSaid
<1>4. OneAtATime'
  BY DEF RoomInv, RoomTypes, Appends, Moves, OneAtATime, Busy
<1>. QED
  BY <1>1, <1>2, <1>3, <1>4 DEF RoomInv

LEMMA SaysSyncKeeps == ASSUME RoomInv, NEW m \in Msg, SaysSync(m) PROVE RoomInv'
<1>1. Counted' /\ ts' \in [Msg -> 0..Cardinality(Msg)]
  BY StampCounts DEF SaysSync, Moves
<1>2. RoomTypes'
  <2>1. log' \in Seq(Msg)
    BY DEF RoomInv, RoomTypes, SaysSync
  <2>. QED
    BY <1>1, <2>1 DEF RoomInv, RoomTypes, SaysSync, Moves
<1>3. LogSaid'
  BY DEF RoomInv, RoomTypes, SaysSync, Moves, LogSaid
<1>4. OneAtATime'
  BY DEF RoomInv, RoomTypes, SaysSync, Moves, OneAtATime, Busy
<1>. QED
  BY <1>1, <1>2, <1>3, <1>4 DEF RoomInv

LEMMA DecidesKeeps == ASSUME RoomInv, NEW m \in Msg, Decides(m) PROVE RoomInv'
<1>1. Counted'
  BY CountsKeep DEF RoomInv, RoomTypes, Decides, Moves, Said, Sent
<1>2. RoomTypes'
  <2>1. say' \in [Msg -> {"idle", "stamped", "locked", "fanout", "enqueue", "record", "save", "done"}]
    BY DEF RoomInv, RoomTypes, Decides, Moves
  <2>2. thin' \in [Msg -> SUBSET Agent]
    <3>1. thin' = thin \/ thin' = [thin EXCEPT ![m] = {a \in Agent \ {Author[m]} : ~SkipThin(a)}]
      BY DEF Decides
    <3>2. thin \in [Msg -> SUBSET Agent]
      BY DEF RoomInv, RoomTypes
    <3>. QED
      BY <3>1, <3>2
  <2>3. crowded' \in BOOLEAN
    BY DEF RoomInv, RoomTypes, Decides, Crowds
  <2>. QED
    BY <2>1, <2>2, <2>3 DEF RoomInv, RoomTypes, Decides
<1>3. LogSaid'
  BY DEF RoomInv, RoomTypes, Decides, Moves, LogSaid
<1>4. OneAtATime'
  <2>1. CASE Moves(m, "fanout", "done") /\ UNCHANGED <<thin, crowded>>
    <3>1. say[m] = "fanout" /\ say' = [say EXCEPT ![m] = "done"] /\ UNCHANGED <<thin, crowded>>
      BY <2>1 DEF Moves
    <3>2. UNCHANGED <<marks, reader, copy, era, pinged>>
      BY DEF Decides
    <3>3. say'[m] = "done" /\ \A n \in Msg \ {m} : say'[n] = say[n]
      BY <3>1 DEF RoomInv, RoomTypes
    <3>4. Busy' = Busy
      BY <3>1, <3>2, <3>3 DEF Busy
    <3>5. \A n \in Msg : /\ say'[n] = "save" => say[n] = "save"
                       /\ say'[n] = "enqueue" => say[n] = "enqueue"
      BY <3>3
    <3>6. \A n \in Msg : say[n] \in {"record", "save"} => say'[n] \in {"record", "save"}
      BY <3>1, <3>3
    <3>. QED
      BY <3>1, <3>2, <3>4, <3>5, <3>6 DEF RoomInv, OneAtATime
  <2>2. CASE /\ Moves(m, "fanout", "enqueue") /\ Crowds(m)
             /\ thin' = [thin EXCEPT ![m] = {a \in Agent \ {Author[m]} : ~SkipThin(a)}]
    <3> SUFFICES ASSUME ~crowded' PROVE OneAtATime'
      BY DEF OneAtATime
    <3>1. ~crowded /\ Busy \subseteq {m} /\ m \notin Busy /\ Busy' = Busy \cup {m}
      <4>1. ~crowded /\ Busy \ {m} = {}
        BY <2>2 DEF Crowds
      <4>2. say[m] = "fanout" /\ say' = [say EXCEPT ![m] = "enqueue"] /\ UNCHANGED reader
        BY <2>2 DEF Moves, Decides
      <4>3. m \notin Busy
        BY <4>2, RoomAssumption DEF Busy
      <4>4. Busy' = Busy \cup {m}
        BY <4>2 DEF Busy, RoomInv, RoomTypes
      <4>. QED
        BY <4>1, <4>3, <4>4
    <3>2. Busy = {}
      BY <3>1
    <3>3. \A a \in thin'[m] : a \in Agent /\ marks[a].thin # era
      BY <2>2 DEF SkipThin, RoomInv, RoomTypes
    <3>4. \A a \in Agent : pinged[a] = 1 => marks[a].thin = era
      BY <3>1, <3>2 DEF RoomInv, OneAtATime, Busy
    <3>5. \A a \in Agent : pinged[a] \in {0, 1}
      BY <3>1 DEF RoomInv, RoomTypes, OneAtATime
    <3>6. say'[m] = "enqueue" /\ UNCHANGED <<marks, pinged, era, reader>>
      BY <2>2 DEF RoomInv, RoomTypes, Decides, Moves
    <3>7. \A n \in Msg : n # m => say'[n] \notin {"enqueue", "record", "save"}
      BY <3>1, <3>2 DEF Busy
    <3>8. \A a \in Agent : reader[a] = "idle"
      BY <3>2 DEF Busy, RoomInv, RoomTypes
    <3>. QED
      BY <3>1, <3>2, <3>3, <3>4, <3>5, <3>6, <3>7, <3>8 DEF OneAtATime
  <2>. QED
    BY <2>1, <2>2 DEF Decides
<1>. QED
  BY <1>1, <1>2, <1>3, <1>4 DEF RoomInv

LEMMA EnqueuesKeeps == ASSUME RoomInv, NEW m \in Msg, Enqueues(m) PROVE RoomInv'
<1>1. PICK S \in SUBSET thin[m] :
        /\ say[m] = "enqueue" /\ say' = [say EXCEPT ![m] = IF S = {} THEN "done" ELSE "record"]
        /\ pinged' = [a \in Agent |-> IF a \in S THEN pinged[a] + 1 ELSE pinged[a]]
        /\ thin' = IF S = {} THEN [thin EXCEPT ![m] = {}] ELSE thin
        /\ UNCHANGED <<log, ts, holder, marks, reader, copy, last, clock, era, crowded, reads>>
  BY DEF Enqueues, Moves, Pinged
<1>2. Counted'
  <2>1. Said \subseteq Said' /\ Sent \subseteq Sent' /\ m \in Sent' /\ m \notin Sent
    BY <1>1 DEF RoomInv, RoomTypes, Said, Sent
  <2>2. /\ Cardinality(Said) <= Cardinality(Said') /\ Cardinality(Said') \in Nat
        /\ Cardinality(Sent') \in Nat
    BY <2>1, SayGrows
  <2>3. IsFiniteSet(Sent')
    BY RoomAssumption, FS_Subset DEF Sent
  <2>4. Cardinality(Sent) + 1 <= Cardinality(Sent')
    BY <2>1, <2>3, OneMore
  <2>5. Cardinality(Said) \in Nat /\ Cardinality(Sent) \in Nat
    BY SayCounts
  <2>6. \A a \in Agent : pinged[a] \in Nat /\ pinged[a] <= Cardinality(Sent)
                         /\ pinged'[a] \in {pinged[a], pinged[a] + 1}
    BY <1>1 DEF RoomInv, Counted
  <2>7. \A a \in Agent : pinged'[a] \in Nat /\ pinged'[a] <= Cardinality(Sent')
    BY <2>2, <2>4, <2>5, <2>6
  <2>. QED
    BY <1>1, <2>2, <2>5, <2>7 DEF RoomInv, Counted
<1>3. RoomTypes'
  <2>1. say' \in [Msg -> {"idle", "stamped", "locked", "fanout", "enqueue", "record", "save", "done"}]
    BY <1>1 DEF RoomInv, RoomTypes
  <2>2. thin' \in [Msg -> SUBSET Agent] /\ pinged' \in [Agent -> Nat]
    BY <1>1 DEF RoomInv, RoomTypes
  <2>. QED
    BY <1>1, <2>1, <2>2 DEF RoomInv, RoomTypes
<1>4. LogSaid'
  BY <1>1 DEF RoomInv, RoomTypes, LogSaid
<1>5. OneAtATime'
  BY <1>1 DEF RoomInv, RoomTypes, OneAtATime, Busy
<1>. QED
  BY <1>2, <1>3, <1>4, <1>5 DEF RoomInv

LEMMA RecordLoadsKeeps == ASSUME RoomInv, NEW m \in Msg, RecordLoads(m) PROVE RoomInv'
<1>1. Counted'
  BY CountsKeep DEF RoomInv, RoomTypes, RecordLoads, Moves, Said, Sent
<1>2. RoomTypes'
  BY DEF RoomInv, RoomTypes, RecordLoads, Moves, Crowds, Writer
<1>3. LogSaid'
  BY DEF RoomInv, RoomTypes, RecordLoads, Moves, LogSaid
<1>4. OneAtATime'
  BY RoomAssumption
     DEF RoomInv, RoomTypes, RecordLoads, Moves, Crowds, OneAtATime, Busy, Writer
<1>. QED
  BY <1>1, <1>2, <1>3, <1>4 DEF RoomInv

LEMMA RecordSavesKeeps == ASSUME RoomInv, NEW m \in Msg, RecordSaves(m) PROVE RoomInv'
<1>1. Counted'
  BY CountsKeep DEF RoomInv, RoomTypes, RecordSaves, Moves, Said, Sent
<1>2. RoomTypes'
  <2>1. PICK a \in thin[m] :
          /\ marks' = [copy[m] EXCEPT ![a].thin = era] /\ thin' = [thin EXCEPT ![m] = @ \ {a}]
          /\ say' = [say EXCEPT ![m] = IF thin[m] = {a} THEN "done" ELSE "record"]
    BY DEF RecordSaves, Moves
  <2>2. copy[m] \in [Agent -> Mark] /\ era \in 0..MaxEra
    BY RoomAssumption DEF RoomInv, RoomTypes, Writer
  <2>3. marks' \in [Agent -> Mark]
    BY <2>1, <2>2 DEF Mark
  <2>4. copy' \in [Writer -> [Agent -> Mark]]
    BY BlankMarks DEF RoomInv, RoomTypes, RecordSaves
  <2>. QED
    BY <2>1, <2>3, <2>4 DEF RoomInv, RoomTypes, RecordSaves
<1>3. LogSaid'
  BY DEF RoomInv, RoomTypes, RecordSaves, Moves, LogSaid
<1>4. OneAtATime'
  <2> SUFFICES ASSUME ~crowded' PROVE OneAtATime'
    BY DEF OneAtATime
  <2>1. PICK a \in thin[m] :
          /\ marks' = [copy[m] EXCEPT ![a].thin = era] /\ thin' = [thin EXCEPT ![m] = @ \ {a}]
          /\ say' = [say EXCEPT ![m] = IF thin[m] = {a} THEN "done" ELSE "record"]
    BY DEF RecordSaves, Moves
  <2>2. /\ ~crowded /\ say[m] = "save" /\ m \in Busy /\ copy[m] = marks
        /\ UNCHANGED <<era, pinged, reader>>
    BY DEF RecordSaves, Moves, RoomInv, RoomTypes, OneAtATime, Busy
  <2>3. \A v \in Busy : v = m
    BY <2>2 DEF RoomInv, OneAtATime
  <2>4. Busy' \subseteq {m} /\ \A b \in Agent : reader[b] = "idle"
    BY <2>1, <2>2, <2>3, RoomAssumption DEF Busy, RoomInv, RoomTypes
  <2>5. \A b \in Agent : marks'[b].thin = IF b = a THEN era ELSE marks[b].thin
    BY <2>1, <2>2 DEF RoomInv, RoomTypes, Mark
  <2>6. \A n \in Msg : say'[n] \notin {"enqueue", "save"}
    BY <2>1, <2>3 DEF Busy, RoomInv, RoomTypes
  <2>7. ASSUME NEW b \in Agent, pinged[b] = 1
        PROVE  marks'[b].thin = era \/ \E n \in Msg : say'[n] \in {"record", "save"} /\ b \in thin'[n]
    <3>1. marks[b].thin = era \/ b \in thin[m]
      BY <2>2, <2>3, <2>7 DEF RoomInv, OneAtATime, Busy
    <3>2. CASE b \in thin[m] /\ b # a
      <4>1. say'[m] = "record" /\ b \in thin'[m]
        BY <2>1, <3>2 DEF RoomInv, RoomTypes
      <4>. QED
        BY <4>1
    <3>. QED
      BY <2>5, <3>1, <3>2
  <2>. QED
    BY <2>2, <2>4, <2>6, <2>7 DEF RoomInv, OneAtATime
<1>. QED
  BY <1>1, <1>2, <1>3, <1>4 DEF RoomInv

LEMMA ReadListsKeeps == ASSUME RoomInv, NEW a \in Agent, ReadLists(a) PROVE RoomInv'
<1>1. Counted'
  BY CountsKeep DEF RoomInv, RoomTypes, ReadLists, Said, Sent
<1>2. RoomTypes'
  BY RoomAssumption DEF RoomInv, RoomTypes, ReadLists, Crowds
<1>3. LogSaid'
  BY DEF RoomInv, RoomTypes, ReadLists, LogSaid
<1>4. OneAtATime'
  <2> SUFFICES ASSUME ~crowded' PROVE OneAtATime'
    BY DEF OneAtATime
  <2>1. ~crowded /\ Busy \subseteq {a} /\ a \notin Busy /\ Busy' = Busy \cup {a}
    <3>1. ~crowded /\ Busy \ {a} = {}
      BY DEF ReadLists, Crowds
    <3>2. reader[a] = "idle" /\ reader' = [reader EXCEPT ![a] = "load"] /\ UNCHANGED say
      BY DEF ReadLists
    <3>3. a \notin Busy
      BY <3>2, RoomAssumption DEF Busy
    <3>4. Busy' = Busy \cup {a}
      BY <3>2 DEF Busy, RoomInv, RoomTypes
    <3>. QED
      BY <3>1, <3>3, <3>4
  <2>2. Busy = {}
    BY <2>1
  <2>. QED
    BY <2>1, <2>2 DEF RoomInv, RoomTypes, ReadLists, OneAtATime, Busy
<1>. QED
  BY <1>1, <1>2, <1>3, <1>4 DEF RoomInv

LEMMA ReadLoadsKeeps == ASSUME RoomInv, NEW a \in Agent, ReadLoads(a) PROVE RoomInv'
<1>1. Counted'
  BY CountsKeep DEF RoomInv, RoomTypes, ReadLoads, Said, Sent
<1>2. RoomTypes'
  BY DEF RoomInv, RoomTypes, ReadLoads, Writer
<1>3. LogSaid'
  BY DEF RoomInv, RoomTypes, ReadLoads, LogSaid
<1>4. OneAtATime'
  BY RoomAssumption DEF RoomInv, RoomTypes, ReadLoads, OneAtATime, Busy, Writer
<1>. QED
  BY <1>1, <1>2, <1>3, <1>4 DEF RoomInv

LEMMA ReadSavesKeeps == ASSUME RoomInv, NEW a \in Agent, ReadSaves(a) PROVE RoomInv'
<1>1. Counted'
  <2>1. /\ Said' = Said /\ Sent' = Sent
        /\ UNCHANGED clock /\ pinged' = [pinged EXCEPT ![a] = 0]
    BY DEF ReadSaves, Said, Sent
  <2>2. \A b \in Agent : pinged'[b] \in {pinged[b], 0}
    BY <2>1 DEF RoomInv, RoomTypes
  <2>. QED
    BY <2>1, <2>2, SayCounts DEF RoomInv, Counted
<1>2. RoomTypes'
  <2> DEFINE mark == [ts |-> IF last[a] = NoMsg THEN clock ELSE ts[last[a]], id |-> last[a], thin |-> 0]
  <2>1. mark \in Mark
    BY RoomAssumption, CountsOfClock DEF RoomInv, RoomTypes, Mark
  <2>2. copy[a] \in [Agent -> Mark]
    BY DEF RoomInv, RoomTypes, Writer
  <2>3. marks' = [copy[a] EXCEPT ![a] = mark]
    BY DEF ReadSaves
  <2>. HIDE DEF mark
  <2>4. marks' \in [Agent -> Mark]
    BY <2>1, <2>2, <2>3
  <2>5. copy' \in [Writer -> [Agent -> Mark]]
    BY BlankMarks DEF RoomInv, RoomTypes, ReadSaves
  <2>. QED
    BY <2>4, <2>5 DEF RoomInv, RoomTypes, ReadSaves
<1>3. LogSaid'
  BY DEF RoomInv, RoomTypes, ReadSaves, LogSaid
<1>4. OneAtATime'
  <2> SUFFICES ASSUME ~crowded' PROVE OneAtATime'
    BY DEF OneAtATime
  <2>1. ~crowded /\ a \in Busy /\ a \notin Msg
    BY RoomAssumption DEF ReadSaves, Busy
  <2>2. /\ Busy = {a} /\ copy[a] = marks
        /\ \A b \in Agent : /\ pinged[b] <= 1
                            /\ pinged[b] = 1 => \/ marks[b].thin = era
                                                \/ \E m \in Msg : say[m] \in {"record", "save"} /\ b \in thin[m]
    BY <2>1 DEF RoomInv, OneAtATime, ReadSaves
  <2>3. \A m \in Msg : say[m] \notin {"enqueue", "record", "save"}
    BY <2>1, <2>2 DEF Busy
  <2>4. \A b \in Agent : reader'[b] = "idle"
    <3>1. \A b \in Agent \ {a} : reader[b] = "idle"
      BY <2>2 DEF Busy
    <3>. QED
      BY <3>1 DEF ReadSaves, RoomInv, RoomTypes
  <2>5. UNCHANGED <<say, era>>
    BY DEF ReadSaves
  <2>6. Busy' = {}
    BY <2>3, <2>4, <2>5 DEF Busy
  <2>7. \A b \in Agent : pinged'[b] = (IF b = a THEN 0 ELSE pinged[b])
    BY DEF ReadSaves, RoomInv, RoomTypes
  <2>8. \A b \in Agent \ {a} : marks'[b] = marks[b]
    BY <2>2 DEF ReadSaves, RoomInv, RoomTypes
  <2>9. \A b \in Agent : /\ pinged'[b] <= 1
                         /\ pinged'[b] = 1 => marks'[b].thin = era'
    BY <2>2, <2>3, <2>5, <2>7, <2>8
  <2>. QED
    BY <2>3, <2>4, <2>5, <2>6, <2>9 DEF OneAtATime
<1>. QED
  BY <1>1, <1>2, <1>3, <1>4 DEF RoomInv

LEMMA CooldownKeeps == ASSUME RoomInv, CooldownEnds PROVE RoomInv'
<1>1. Counted'
  <2>1. /\ Said' = Said /\ Sent' = Sent
        /\ UNCHANGED clock /\ pinged' = [b \in Agent |-> 0]
    BY DEF CooldownEnds, Said, Sent
  <2>. QED
    BY <2>1, SayCounts DEF RoomInv, Counted
<1>2. RoomTypes'
  BY RoomAssumption DEF RoomInv, RoomTypes, CooldownEnds
<1>3. LogSaid'
  BY DEF RoomInv, RoomTypes, CooldownEnds, LogSaid
<1>4. OneAtATime'
  BY DEF RoomInv, RoomTypes, CooldownEnds, OneAtATime, Busy
<1>. QED
  BY <1>1, <1>2, <1>3, <1>4 DEF RoomInv

LEMMA RoomStep == ASSUME RoomInv, [RoomNext]_roomVars PROVE RoomInv'
<1>1. CASE UNCHANGED roomVars
  <2>1. Counted'
    BY <1>1, CountsKeep DEF roomVars, Said, Sent
  <2>. QED
    BY <1>1, <2>1 DEF roomVars, RoomInv, RoomTypes, LogSaid, OneAtATime, Busy
<1>2. ASSUME NEW m \in Msg,
             \/ Stamps(m) \/ Locks(m) \/ Appends(m) \/ SaysSync(m)
             \/ Decides(m) \/ Enqueues(m) \/ RecordLoads(m) \/ RecordSaves(m)
      PROVE  RoomInv'
  BY <1>2, StampsKeeps, LocksKeeps, AppendsKeeps, SaysSyncKeeps, DecidesKeeps, EnqueuesKeeps,
     RecordLoadsKeeps, RecordSavesKeeps
<1>3. ASSUME NEW a \in Agent, ReadLists(a) \/ ReadLoads(a) \/ ReadSaves(a) PROVE RoomInv'
  BY <1>3, ReadListsKeeps, ReadLoadsKeeps, ReadSavesKeeps
<1>. QED
  BY <1>1, <1>2, <1>3, CooldownKeeps DEF RoomNext

LEMMA RoomStart == ASSUME RoomInit PROVE RoomInv
<1>1. Counted /\ Cardinality(Msg) \in Nat
  BY SayCounts DEF RoomInit, Counted
<1>2. RoomTypes
  <2>1. Blank \in [Agent -> Mark]
    BY <1>1, RoomAssumption DEF Blank, Mark
  <2>2. marks \in [Agent -> Mark] /\ copy \in [Writer -> [Agent -> Mark]]
    BY <2>1 DEF RoomInit
  <2>4. era \in 1..MaxEra /\ reads \in 0..MaxRead /\ ts \in [Msg -> 0..Cardinality(Msg)]
    BY <1>1, RoomAssumption DEF RoomInit
  <2>5. log \in Seq(Msg)
    BY DEF RoomInit
  <2>6. holder \in Msg \cup {NoMsg} /\ crowded \in BOOLEAN
    BY DEF RoomInit
  <2>7. /\ say \in [Msg -> {"idle", "stamped", "locked", "fanout", "enqueue", "record", "save", "done"}]
        /\ thin \in [Msg -> SUBSET Agent] /\ reader \in [Agent -> {"idle", "load", "save"}]
        /\ last \in [Agent -> Msg \cup {NoMsg}] /\ pinged \in [Agent -> Nat]
    BY DEF RoomInit
  <2>. QED
    BY <2>2, <2>4, <2>5, <2>6, <2>7 DEF RoomTypes
<1>3. LogSaid /\ OneAtATime
  BY DEF RoomInit, LogSaid, OneAtATime, Busy
<1>. QED
  BY <1>1, <1>2, <1>3 DEF RoomInv

LEMMA RoomInvariant == RoomInit /\ [][RoomNext]_roomVars => []RoomInv
  BY RoomStart, RoomStep, PTL

-----------------------------------------------------------------------------
\* What bounds clock and pings is in the counts.
LEMMA RoomTypesBounded == RoomInv => RoomTypeOK
<1> SUFFICES ASSUME RoomInv PROVE RoomTypeOK
  OBVIOUS
<1>1. clock \in 0..Cardinality(Msg)
  BY CountsOfClock
<1>2. \A a \in Agent : pinged[a] \in 0..Cardinality(Msg)
  BY SayCounts DEF RoomInv, Counted
<1>. QED
  BY <1>1, <1>2 DEF RoomInv, RoomTypes, RoomTypeOK

(* A line is stamped once and tells an agent once, so that clock and pings   *)
(* never exceed the number of lines.                                         *)
THEOREM RoomTypesKept == RoomSpec => []RoomTypeOK
  BY RoomInvariant, RoomTypesBounded, PTL DEF RoomSpec

(* fanOutRoomMessage and markRoomRead, one process at a time at the marks:   *)
(* an agent that has a ping of this cooldown has it on record, or the        *)
(* process that sent it is still to write it and nobody else comes between,  *)
(* so no second one is sent before the agent reads.                          *)
THEOREM PingsOnce == RoomSpec => []PingsKeepCooldown
<1>1. RoomInv => PingsKeepCooldown
  BY DEF RoomInv, OneAtATime, PingsKeepCooldown
<1>. QED
  BY <1>1, RoomInvariant, PTL DEF RoomSpec

\* The marks of an agent and the stamps of the lines in the ledger stay.
LEMMA UnseenStays ==
  ASSUME RoomInv, NEW a \in Agent,
         marks'[a].ts = marks[a].ts, marks'[a].id = marks[a].id,
         \A i \in DOMAIN log : i \in DOMAIN log' /\ log'[i] = log[i] /\ ts'[log[i]] = ts[log[i]]
  PROVE  Unseen(a) \subseteq Unseen(a)'
  BY DEF Unseen, UnseenBy

\* Lines stay where they are.
LEMMA AppendKeeps ==
  ASSUME NEW S, NEW s \in Seq(S), NEW x \in S, NEW i \in DOMAIN s
  PROVE  i \in DOMAIN Append(s, x) /\ Append(s, x)[i] = s[i]
  OBVIOUS

LEMMA SeenStep ==
  ASSUME RoomInv, [RoomNext]_roomVars, ~crowded', NEW a \in Agent, reader'[a] = reader[a]
  PROVE  Unseen(a) \subseteq Unseen(a)'
<1>1. ASSUME UNCHANGED <<log, ts, marks>> PROVE Unseen(a) \subseteq Unseen(a)'
  BY <1>1, UnseenStays
<1>2. ASSUME NEW m \in Msg, Stamps(m) \/ SaysSync(m) PROVE Unseen(a) \subseteq Unseen(a)'
  <2>1. /\ say[m] = "idle" /\ UNCHANGED marks
        /\ log' = log \/ log' = Append(log, m)
        /\ \E t : ts' = [ts EXCEPT ![m] = t]
    BY <1>2 DEF Stamps, SaysSync, Moves, Stamp
  <2>2. log \in Seq(Msg) /\ \A i \in DOMAIN log : log[i] \in Msg /\ log[i] # m
    BY <2>1 DEF RoomInv, RoomTypes, LogSaid
  <2>3. \A i \in DOMAIN log : ts'[log[i]] = ts[log[i]]
    BY <2>1, <2>2 DEF RoomInv, RoomTypes
  <2>4. \A i \in DOMAIN log : i \in DOMAIN log' /\ log'[i] = log[i]
    <3>1. CASE log' = log
      BY <3>1
    <3>2. CASE log' = Append(log, m)
      BY <2>2, <3>2, AppendKeeps
    <3>. QED
      BY <2>1, <3>1, <3>2
  <2>. QED
    BY <2>1, <2>3, <2>4, UnseenStays
<1>3. ASSUME NEW m \in Msg, Appends(m) PROVE Unseen(a) \subseteq Unseen(a)'
  <2>1. log' = Append(log, m) /\ UNCHANGED <<ts, marks>> /\ log \in Seq(Msg)
    BY <1>3 DEF Appends, RoomInv, RoomTypes
  <2>2. \A i \in DOMAIN log : i \in DOMAIN log' /\ log'[i] = log[i]
    BY <2>1, AppendKeeps
  <2>. QED
    BY <2>1, <2>2, UnseenStays
<1>4. ASSUME NEW m \in Msg, RecordSaves(m) PROVE Unseen(a) \subseteq Unseen(a)'
  <2>1. PICK b \in thin[m] : marks' = [copy[m] EXCEPT ![b].thin = era]
    BY <1>4 DEF RecordSaves
  <2>2. copy[m] = marks /\ UNCHANGED <<log, ts>>
    BY <1>4 DEF RecordSaves, Moves, RoomInv, OneAtATime
  <2>3. marks'[a].ts = marks[a].ts /\ marks'[a].id = marks[a].id
    BY <2>1, <2>2 DEF RoomInv, RoomTypes, Mark
  <2>. QED
    BY <2>2, <2>3, UnseenStays
<1>5. ASSUME NEW b \in Agent, ReadSaves(b) PROVE Unseen(a) \subseteq Unseen(a)'
  <2>1. b # a
    BY <1>5 DEF ReadSaves, RoomInv, RoomTypes
  <2>2. copy[b] = marks /\ UNCHANGED <<log, ts>>
    BY <1>5 DEF ReadSaves, RoomInv, OneAtATime
  <2>3. marks'[a] = marks[a]
    BY <1>5, <2>1, <2>2 DEF ReadSaves, RoomInv, RoomTypes
  <2>. QED
    BY <2>2, <2>3, UnseenStays
<1>. QED
  BY <1>1, <1>2, <1>3, <1>4, <1>5
     DEF RoomNext, Locks, Decides, Enqueues, RecordLoads, ReadLists, ReadLoads, CooldownEnds, roomVars

(* markRoomRead and recordThinRoomNotify write all marks back: as long as no *)
(* two processes are there at once, none of them, and no line that is said,  *)
(* takes a line from what another agent has not seen.                        *)
THEOREM ReadingClearsAlone == RoomSpec => OnlyReadingClears
<1>1. RoomInv /\ [RoomNext]_roomVars =>
        (~crowded' => \A a \in Agent : reader'[a] = reader[a] => Unseen(a) \subseteq Unseen(a)')
  BY SeenStep
<1>. QED
  BY <1>1, RoomInvariant, PTL DEF RoomSpec, OnlyReadingClears

-----------------------------------------------------------------------------
(* The composition.  A part that has its turn takes a step of its own, the   *)
(* others stay as they are.                                                  *)
LEMMA PartsStep ==
  ASSUME [WritersNext]_AllVars
  PROVE  [Next]_vars /\ [InjectNext]_injectVars /\ [RoomNext]_roomVars
  BY DEF WritersNext, AllVars, AckPart, InjectPart, RoomPart, TimerPart

LEMMA TimersStep == ASSUME [WritersNext]_AllVars PROVE [Cbk!Next]_(Cbk!vars)
<1>1. UNCHANGED timerVars => UNCHANGED Cbk!vars
  BY DEF timerVars, Cbk!vars, Cbk!store, Cbk!tick, Cbk!history, Cbk!bounds
<1>. QED
  BY <1>1 DEF WritersNext, AllVars, AckPart, InjectPart, RoomPart, TimerPart

(* Every behaviour of the composition is one of the ledger, of Inject, of    *)
(* Rooms and of Checkback: what the steps of each part keep to holds in it.  *)
THEOREM PartsOfWriters ==
  WritersSpec => Spec /\ InjectSpec /\ RoomSpec /\ Cbk!Spec
<1>1. WritersInit => Init /\ InjectInit /\ RoomInit /\ Cbk!Init
  BY DEF WritersInit
<1>. QED
  BY <1>1, PartsStep, TimersStep, PTL DEF WritersSpec, Spec, InjectSpec, RoomSpec, Cbk!Spec

(* Every part keeps its types in the composition.                            *)
THEOREM WritersTypes == WritersSpec => []WritersTypeOK
<1>1. TypeOK /\ InjectTypeOK /\ RoomTypeOK => WritersTypeOK
  BY DEF WritersTypeOK
<1>. QED
  BY <1>1, TypeCorrect, PartsOfWriters, InjectTypes, RoomTypesKept, PTL

(* What the parts are for, all at once: asks are in the ledger and owed once, *)
(* are closed on evidence and as the loop of matchFiledAcks pairs them; a     *)
(* text comes alone to its own pane unless sequences overlapped, and locks    *)
(* and drafts come back; an agent is pinged once a cooldown, and what it has  *)
(* not seen stays unseen.                                                     *)
THEOREM WritersPromises ==
  WritersSpec =>
    /\ [](OneOpenPerAsk /\ AskRecorded /\ MatchIsTheLoop
          /\ LocksComeBack /\ CrossNeedsOverlap /\ PingsKeepCooldown)
    /\ FiledOnEvidence /\ PaneReplyAnswers /\ SweepIsMeasured
    /\ LoneInjectIsClean /\ OnlyReadingClears
  BY PartsOfWriters, OneOpen, AsksRecorded, LoopMatches, FilingsAreEvidence, PaneRepliesAnswer,
     SweepsAreMeasured, LocksReturn, CrossingNeedsOverlap, PingsOnce, LoneInjects,
     ReadingClearsAlone, PTL
=============================================================================
