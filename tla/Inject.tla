------------------------------- MODULE Inject -------------------------------
(***************************************************************************)
(* injectToPane: how a text gets into a pane's composer and is submitted.   *)
(* What the operator had typed is saved, the composer is cleared, the text  *)
(* is pasted and entered, and the draft is pasted back.  Every step is a    *)
(* tmux command of its own, and the two buffers it uses have fixed names,   *)
(* shared by every process of the tmux server.                              *)
(*                                                                          *)
(* The daemon injects what is in its queues.  The CLI injects too: `peer`   *)
(* from a worker or a mini tries tryDirectPeerInject first, and everything  *)
(* falls back to a direct paste when the inbox is down.  Nothing keeps two  *)
(* of these sequences apart.                                                *)
(***************************************************************************)
EXTENDS Naturals, Sequences, FiniteSets

CONSTANTS
  Proc,     \* processes that inject, each one text: the text is named after it
  Pane,
  Target,   \* the pane a process injects into
  Forced,   \* processes that paste whatever the composer holds
  Twice,    \* panes whose provider is sent Enter twice
  Stiff,    \* panes whose composer the clearing keys do not empty
  Locked,   \* panes kept with their input off, as the minis are
  Draft,    \* what an operator may type
  Nothing,  \* an unset paste buffer
  MaxRun,   \* bound: sequences begun
  MaxType,  \* bound: what the operator does at keyboards
  MaxKill   \* bound: processes killed half way

ASSUME InjectAssumption ==
  /\ Target \in [Proc -> Pane] /\ Draft \cap Proc = {} /\ Nothing \notin Proc
  /\ MaxRun \in Nat /\ MaxType \in Nat /\ MaxKill \in Nat

Content == Proc \cup Draft

VARIABLES
  box,       \* the composer of each pane
  off,       \* pane_input_off
  pasteBuf,  \* tmux buffer sm-inject
  draftBuf,  \* tmux buffer sm-draft-restore
  step,      \* where each process is
  wasOff,    \* local: wasInputOff
  saved,     \* local: the draft it captured
  turns,     \* history: what was submitted to the agent of each pane
  found,     \* history: the composer a process found when it began
  mixed,     \* history: processes whose sequence overlapped another one
  disturbed, \* history: processes whose pane the operator used meanwhile
  types, kills

tmuxState == <<box, off, pasteBuf, draftBuf>>
locals == <<step, wasOff, saved>>
injectVars == <<box, off, pasteBuf, draftBuf, step, wasOff, saved,
                turns, found, mixed, disturbed, types, kills>>

Steps == {"start", "look", "open", "capture", "save", "clear", "load", "paste",
          "enter", "again", "restore", "close", "done", "killed"}
Running(p) == step[p] \notin {"start", "done", "killed"}

InjectTypeOK ==
  /\ box \in [Pane -> Seq(Content)] /\ turns \in [Pane -> Seq(Seq(Content))]
  /\ off \in [Pane -> BOOLEAN] /\ wasOff \in [Proc -> BOOLEAN]
  /\ pasteBuf \in Proc \cup {Nothing} /\ draftBuf \in Seq(Draft)
  /\ step \in [Proc -> Steps]
  /\ saved \in [Proc -> Seq(Draft)] /\ found \in [Proc -> Seq(Content)]
  /\ mixed \subseteq Proc /\ disturbed \subseteq Proc
  /\ types \in 0..MaxType /\ kills \in 0..MaxKill

InjectInit ==
  /\ box = [t \in Pane |-> <<>>] /\ off = [t \in Pane |-> t \in Locked]
  /\ pasteBuf = Nothing /\ draftBuf = <<>>
  /\ step = [p \in Proc |-> "start"]
  /\ wasOff = [p \in Proc |-> FALSE] /\ saved = [p \in Proc |-> <<>>]
  /\ turns = [t \in Pane |-> <<>>] /\ found = [p \in Proc |-> <<>>]
  /\ mixed = {} /\ disturbed = {}
  /\ types = 0 /\ kills = 0

Goes(p, from, to) == step[p] = from /\ step' = [step EXCEPT ![p] = to]

\* tmux drops what is sent to a pane whose input is off.
Reaches(t, s) == IF off[t] THEN box ELSE [box EXCEPT ![t] = @ \o s]

-----------------------------------------------------------------------------
\* The snapshot is looked at and the sequence begun: tryDirectPeerInject and
\* deliverToPane want an empty composer, the others do not.
Begin(p) ==
  LET others == {q \in Proc \ {p} : Running(q)} IN
  /\ Goes(p, "start", "look")
  /\ Cardinality({q \in Proc : step[q] # "start"}) < MaxRun
  /\ p \in Forced \/ box[Target[p]] = <<>>
  /\ found' = [found EXCEPT ![p] = box[Target[p]]]
  /\ mixed' = mixed \cup (IF others = {} THEN {} ELSE others \cup {p})
  /\ UNCHANGED <<tmuxState, wasOff, saved, turns, disturbed, types, kills>>

(* withPaneInjectLock *)

\* Fault: the lock is looked at after it has been opened.
LooksLate(p) ==
  /\ Goes(p, "look", "open")
  /\ off' = [off EXCEPT ![Target[p]] = FALSE] /\ wasOff' = [wasOff EXCEPT ![p] = FALSE]
  /\ UNCHANGED <<box, pasteBuf, draftBuf, saved, turns, found, mixed, disturbed, types, kills>>

Looks(p) ==
  /\ Goes(p, "look", "open")
  /\ wasOff' = [wasOff EXCEPT ![p] = off[Target[p]]]
  /\ UNCHANGED <<tmuxState, saved, turns, found, mixed, disturbed, types, kills>>

Opens(p) ==
  /\ Goes(p, "open", "capture")
  /\ off' = IF wasOff[p] THEN [off EXCEPT ![Target[p]] = FALSE] ELSE off
  /\ UNCHANGED <<box, pasteBuf, draftBuf, wasOff, saved, turns, found, mixed, disturbed, types, kills>>

\* finally: also when a tmux command has failed.
Closes(p) ==
  /\ Goes(p, "close", "done")
  /\ off' = IF wasOff[p] THEN [off EXCEPT ![Target[p]] = TRUE] ELSE off
  /\ UNCHANGED <<box, pasteBuf, draftBuf, wasOff, saved, turns, found, mixed, disturbed, types, kills>>

-----------------------------------------------------------------------------
(* runInjectSequence *)

\* A composer with mesh text in it is not the operator's.
Human(s) == IF \A i \in DOMAIN s : s[i] \in Draft THEN s ELSE <<>>

Captures(p) ==
  /\ Goes(p, "capture", "save")
  /\ saved' = [saved EXCEPT ![p] = Human(box[Target[p]])]
  /\ UNCHANGED <<tmuxState, wasOff, turns, found, mixed, disturbed, types, kills>>

\* No draft: the buffer is deleted.
Saves(p) ==
  /\ Goes(p, "save", "clear")
  /\ draftBuf' = saved[p]
  /\ UNCHANGED <<box, off, pasteBuf, wasOff, saved, turns, found, mixed, disturbed, types, kills>>

\* Fault: nothing is cleared unless there is mesh text to clear.
ClearsMeshOnly(p) ==
  /\ Goes(p, "clear", "load")
  /\ box' = IF off[Target[p]] \/ Human(box[Target[p]]) # <<>> THEN box
            ELSE [box EXCEPT ![Target[p]] = <<>>]
  /\ UNCHANGED <<off, pasteBuf, draftBuf, wasOff, saved, turns, found, mixed, disturbed, types, kills>>

\* The loop of keys gives up after some passes, and the paste follows all the
\* same.
Clears(p) ==
  /\ Goes(p, "clear", "load")
  /\ box' = IF off[Target[p]] \/ Target[p] \in Stiff THEN box
            ELSE [box EXCEPT ![Target[p]] = <<>>]
  /\ UNCHANGED <<off, pasteBuf, draftBuf, wasOff, saved, turns, found, mixed, disturbed, types, kills>>

\* Fault: a buffer that exists is taken for one that is loaded.
LoadsOnce(p) ==
  /\ Goes(p, "load", "paste")
  /\ pasteBuf' = IF pasteBuf = Nothing THEN p ELSE pasteBuf
  /\ UNCHANGED <<box, off, draftBuf, wasOff, saved, turns, found, mixed, disturbed, types, kills>>

Loads(p) ==
  /\ Goes(p, "load", "paste")
  /\ pasteBuf' = p
  /\ UNCHANGED <<box, off, draftBuf, wasOff, saved, turns, found, mixed, disturbed, types, kills>>

\* paste-buffer -d pastes whatever the buffer holds and deletes it; without a
\* buffer it fails, and the text is typed with send-keys.
PastesBuffer(p) ==
  /\ Goes(p, "paste", "enter")
  /\ box' = Reaches(Target[p], <<IF pasteBuf = Nothing THEN p ELSE pasteBuf>>)
  /\ pasteBuf' = Nothing
  /\ UNCHANGED <<off, draftBuf, wasOff, saved, turns, found, mixed, disturbed, types, kills>>

Submit(t) ==
  IF off[t] \/ box[t] = <<>> THEN UNCHANGED <<box, turns>>
  ELSE box' = [box EXCEPT ![t] = <<>>] /\ turns' = [turns EXCEPT ![t] = Append(@, box[t])]

AfterEnter(p) == IF saved[p] = <<>> THEN "close" ELSE "restore"

\* submitInject.  Where two are sent, the first may only settle the paste.
Enters(p) ==
  LET t == Target[p] IN
  /\ Goes(p, "enter", IF t \in Twice THEN "again" ELSE AfterEnter(p))
  /\ Submit(t) \/ (t \in Twice /\ UNCHANGED <<box, turns>>)
  /\ UNCHANGED <<off, pasteBuf, draftBuf, wasOff, saved, found, mixed, disturbed, types, kills>>

EntersAgain(p) ==
  /\ Goes(p, "again", AfterEnter(p))
  /\ Submit(Target[p])
  /\ UNCHANGED <<off, pasteBuf, draftBuf, wasOff, saved, found, mixed, disturbed, types, kills>>

\* However waitComposerReadyForRestore ends, the buffer is pasted, if there is
\* one: also into a composer that has another draft by then.
Restores(p) ==
  /\ Goes(p, "restore", "close")
  /\ box' = Reaches(Target[p], draftBuf)
  /\ draftBuf' = <<>>
  /\ UNCHANGED <<off, pasteBuf, wasOff, saved, turns, found, mixed, disturbed, types, kills>>

\* A CLI command is run by an agent, which may stop it; a daemon dies.
Killed(p) ==
  /\ kills < MaxKill /\ kills' = kills + 1
  /\ Running(p) /\ step' = [step EXCEPT ![p] = "killed"]
  /\ UNCHANGED <<tmuxState, wasOff, saved, turns, found, mixed, disturbed, types>>

-----------------------------------------------------------------------------
(* The operator at a pane that takes input *)
AtKeyboard(t) ==
  /\ types < MaxType /\ types' = types + 1
  /\ ~off[t]
  /\ disturbed' = disturbed \cup {p \in Proc : Running(p) /\ Target[p] = t}
  /\ UNCHANGED <<off, pasteBuf, draftBuf, locals, found, mixed, kills>>

TypesAt(t, d) == AtKeyboard(t) /\ box' = Reaches(t, <<d>>) /\ UNCHANGED turns
PressEnter(t) == AtKeyboard(t) /\ box[t] # <<>> /\ Submit(t)

Sequence(p) ==
  \/ Begin(p) \/ Looks(p) \/ Opens(p) \/ Captures(p) \/ Saves(p) \/ Clears(p)
  \/ Loads(p) \/ PastesBuffer(p) \/ Enters(p) \/ EntersAgain(p) \/ Restores(p) \/ Closes(p)

InjectNext ==
  \/ \E p \in Proc : Sequence(p) \/ Killed(p)
  \/ \E t \in Pane : PressEnter(t) \/ (\E d \in Draft : TypesAt(t, d))

InjectSpec == InjectInit /\ [][InjectNext]_injectVars

-----------------------------------------------------------------------------
(* Properties *)

Undisturbed(p) == p \notin mixed \cup disturbed /\ Target[p] \notin Stiff

\* The turns of a pane that a text is part of, by their number.
TurnsWith(p, t) == {n \in DOMAIN turns[t] : \E i \in DOMAIN turns[t][n] : turns[t][n][i] = p}

(* A sequence that overlapped no other, in a pane nobody used meanwhile, has *)
(* submitted its text once and by itself, and has put the operator's draft   *)
(* back.                                                                     *)
LoneInjectIsClean ==
  [][\A p \in Proc : step[p] = "close" /\ step'[p] = "done" /\ Undisturbed(p) =>
       /\ \E n \in DOMAIN turns[Target[p]] :
            TurnsWith(p, Target[p]) = {n} /\ turns[Target[p]][n] = <<p>>
       /\ box[Target[p]] = Human(found[p])]_injectVars

(* A text is submitted in another pane than its own, or twice, only when     *)
(* sequences overlapped: the buffer a dead process left is not pasted.       *)
CrossNeedsOverlap ==
  \A p \in Proc \ mixed, t \in Pane :
    \A n, k \in TurnsWith(p, t) : n = k /\ t = Target[p]

(* The input of a locked pane is off again once every sequence has ended,    *)
(* however they overlapped.                                                  *)
LocksComeBack ==
  (\A p \in Proc : step[p] \in {"start", "done"}) => off = [t \in Pane |-> t \in Locked]

(* docs/ARCHITECTURE.md: the inbox daemon is the sole consumer that injects. *)
(* Then a text could only be submitted in its own pane.                      *)
MailReachesItsPane ==
  \A p \in Proc, t \in Pane : t # Target[p] => TurnsWith(p, t) = {}
=============================================================================
