------------------------------ MODULE Checkback ------------------------------
(***************************************************************************)
(* The poll-later timers of the daemon: CHECKBACK.jsonl and                  *)
(* fireDueCheckbacks.  The tick reads the file once, works on its copy and   *)
(* writes the whole copy back at the end; HTTP handlers run between ticks;   *)
(* the supervise and balance commands of the CLI rewrite the same file from  *)
(* another process, at any time.                                            *)
(*                                                                          *)
(* Panes are not modelled here: whether an owner pane is gone, held, moved   *)
(* or takes the paste is a free choice each time a row is attended.          *)
(***************************************************************************)
EXTENDS Integers, FiniteSets

CONSTANTS
  Id,        \* checkback ids
  Kind,      \* [Id -> Kinds]
  Key,       \* [Id -> keys]: ownerPane and expect, what arming dedupes on
  Roleless,  \* nudge rows whose recipient cannot be told
  Budget,    \* CHECKBACK_FIRE_BUDGET
  MaxFires,  \* CHECKBACK_MAX_FIRES
  Lag,       \* ticks a deferred, renewed or freshly armed row is not due
  MaxArm,    \* bound: arms and resets
  MaxEdit,   \* bound: file edits of the CLI
  MaxCrash   \* bound: daemon deaths

\* check: generic, room-call, room-comms and peer-comms rows; status: the
\* legacy supervise-status rows; mute: manager-nudge.
Kinds == {"supervise", "lead", "watch", "coord", "limit", "nudge",
          "check", "status", "mute"}

ASSUME RowAssumption   == /\ Kind \in [Id -> Kinds]
                          /\ Roleless \subseteq {r \in Id : Kind[r] = "nudge"}
ASSUME BoundAssumption == /\ Budget \in Nat \ {0}
                          /\ MaxFires \in Nat \ {0}
                          /\ Lag \in Nat \ {0}
                          /\ MaxArm \in Nat
                          /\ MaxEdit \in Nat
                          /\ MaxCrash \in Nat

VARIABLES
  file,      \* CHECKBACK.jsonl
  mem,       \* the tick's copy of it
  seen,      \* history: the file when the tick last read or wrote it
  pc,        \* rest, fire or down
  todo,      \* due rows the tick has not attended
  left,      \* what is left of the tick's budget
  cli,       \* the edit a CLI process is making, and what it read
  off,       \* history: rows somebody cancelled and nobody armed again
  rung,      \* history: rows pasted in this tick
  credit,    \* history: tries (pastes, re-assigns) the row's arms have paid for
             \* and it has not made; kept for the rows that do not renew
  clobbered, \* history: rows a whole-file write put back to an older state
  arms, edits, crashes

store   == <<file, mem, seen, clobbered>>
tick    == <<pc, todo, left>>
history == <<rung, credit>>
bounds  == <<arms, edits, crashes>>
vars    == <<store, tick, cli, off, history, bounds>>

\* wait counts the ticks until expiresAt; fires is fireCount; renew says that
\* renewSec is positive.
Rec == [status : {"none", "active", "cancelled"}, wait : 0..Lag,
        fires : 0..(MaxFires - 1), renew : BOOLEAN]

Absent == [status |-> "none", wait |-> 0, fires |-> 0, renew |-> FALSE]
NoRows == [r \in Id |-> Absent]
Fresh(renew) == [status |-> "active", wait |-> Lag, fires |-> 0, renew |-> renew]

NoEdit == [op |-> "none"]
Edits  == {NoEdit} \cup [op : {"arm", "cancel"}, row : Id, snap : [Id -> Rec]]

TypeOK ==
  /\ file \in [Id -> Rec] /\ mem \in [Id -> Rec] /\ seen \in [Id -> Rec]
  /\ pc \in {"rest", "fire", "down"}
  /\ todo \subseteq Id /\ left \in 0..Budget
  /\ cli \in Edits
  /\ off \subseteq Id /\ rung \subseteq Id /\ clobbered \subseteq Id
  /\ credit \in [Id -> Int]
  /\ arms \in 0..MaxArm /\ edits \in 0..MaxEdit /\ crashes \in 0..MaxCrash

-----------------------------------------------------------------------------
(* Rows *)

Active(rec) == rec.status = "active"

\* Fault: the due rows are told by expiresAt alone.
DueAnyStatus(rec) == rec.status # "none" /\ rec.wait = 0

Due(rec) == Active(rec) /\ rec.wait = 0

\* checkbackUnboundedRenew.
Unbounded(r) == Kind[r] \in {"supervise", "lead", "watch", "nudge"}
\* What the tries of a row are counted against: a verify is one-shot, an
\* expectation nobody met is asked for MaxFires times.
Finite(r) == Kind[r] \in {"check", "status", "limit", "coord"}
PerArm(r) == IF ~Finite(r) THEN 0 ELSE IF Kind[r] = "coord" THEN MaxFires ELSE 1

Priority(r) == CASE Kind[r] = "supervise"                  -> 0
                 [] Kind[r] = "lead"                       -> 1
                 [] Kind[r] \in {"watch", "coord", "limit"} -> 2
                 [] Kind[r] = "nudge"                      -> 3
                 [] OTHER                                  -> 10

DueIn(n, rec) == [rec EXCEPT !.wait = n]

\* Fault: a failed inject leaves the row due.
DeferredNot(rec) == rec

Deferred(rec)  == DueIn(Lag, rec)
\* Nothing reads the expiresAt of a cancelled row.
Cancelled(rec) == [DueIn(0, rec) EXCEPT !.status = "cancelled"]

\* shouldRenewCheckback and what the tick does with its answer; aged: the row
\* is older than its renewals would last.  Nothing reads the fireCount of a row
\* that renews for ever, so it is not counted.
Renewed(r, rec, aged) ==
  IF rec.renew /\ Unbounded(r) THEN Deferred(rec)
  ELSE IF rec.renew /\ rec.fires + 1 < MaxFires /\ ~aged
  THEN [Deferred(rec) EXCEPT !.fires = rec.fires + 1]
  ELSE Cancelled(rec)

\* Fault: the age of a due row goes below zero.
OlderUnclipped(rec) == DueIn(rec.wait - 1, rec)

\* A tick later: wait is relative, so every copy of a row ages at once.
Older(rec)  == IF rec.wait = 0 THEN rec ELSE DueIn(rec.wait - 1, rec)
Aged(rows)  == [r \in Id |-> Older(rows[r])]
AgedEdit    == IF cli.op = "none" THEN cli ELSE [cli EXCEPT !.snap = Aged(cli.snap)]

-----------------------------------------------------------------------------
\* A daemon starts on what an earlier one left in the file.
Init ==
  /\ \E stored \in SUBSET Id :
       /\ file = [r \in Id |-> IF r \in stored THEN Fresh(TRUE) ELSE Absent]
       /\ credit = [r \in Id |-> IF r \in stored THEN PerArm(r) ELSE 0]
  /\ mem = NoRows /\ seen = NoRows
  /\ pc = "rest" /\ todo = {} /\ left = 0
  /\ cli = NoEdit
  /\ off = {} /\ rung = {} /\ clobbered = {}
  /\ arms = 0 /\ edits = 0 /\ crashes = 0

-----------------------------------------------------------------------------
(* fireDueCheckbacks *)

StartTick ==
  /\ pc = "rest"
  /\ pc' = "fire"
  /\ file' = Aged(file) /\ mem' = file' /\ seen' = file'
  /\ cli' = AgedEdit
  /\ todo' = {r \in Id : Due(file'[r])}
  /\ left' = Budget
  /\ UNCHANGED <<clobbered, off, history, bounds>>

\* Rows that changed in the file behind the tick's back.
Stale == {r \in Id : file[r] # seen[r]}

\* The rows are attended in the order of sortDueCheckbackIndices.
Turn(r) ==
  /\ pc = "fire" /\ left > 0
  /\ r \in todo
  /\ \A q \in todo : Priority(r) <= Priority(q)

Attend(r, rec) ==
  /\ mem' = [mem EXCEPT ![r] = rec]
  /\ todo' = todo \ {r}
  /\ left' = left - 1
  /\ UNCHANGED <<pc, cli, off, bounds>>

\* The owner pane may have to be found again by label, and then the whole copy
\* is written at once.
Rebound(moved) ==
  /\ seen' = IF moved THEN mem ELSE seen
  /\ clobbered' = IF moved THEN clobbered \cup Stale ELSE clobbered
Rows(moved) == IF moved THEN mem ELSE file

Rebind == \E moved \in BOOLEAN : Rebound(moved) /\ file' = Rows(moved)

Paste(r) == rung' = rung \cup {r}
Spend(r) == credit' = [credit EXCEPT ![r] = @ - 1]

(* The pane is gone, the gate holds it, or the inject or the tick failed.    *)
(* An unmet expectation and a mesh-watch do not get here by a failed inject. *)
DeferFailedFire(r) ==
  /\ Turn(r)
  /\ Rebind
  /\ Attend(r, Deferred(mem[r]))
  /\ UNCHANGED history

(* The pane id belongs to another mesh, the expectation is met, the campaign *)
(* is done, the limited session was replaced; a manager nudge always.        *)
CancelFire(r) ==
  /\ Turn(r)
  /\ Rebind
  /\ Attend(r, Cancelled(mem[r]))
  /\ UNCHANGED history

\* Fault: a verify keeps its renewSec.
FireOnceRenewing(r) ==
  /\ Turn(r) /\ Kind[r] \in {"check", "status", "limit"}
  /\ Rebind
  /\ Paste(r) /\ Spend(r)
  /\ Attend(r, Renewed(r, mem[r], FALSE))

(* A verify prompt or a limit retry is pasted once and not renewed. *)
FireOnce(r) ==
  /\ Turn(r) /\ Kind[r] \in {"check", "status", "limit"}
  /\ Rebind
  /\ Paste(r) /\ Spend(r)
  /\ Attend(r, Cancelled([mem[r] EXCEPT !.renew = FALSE]))

(* coord-expect, unmet: the work is assigned again, then the manager is told. *)
(* A refused paste is not the end of the branch: the row goes on to renewal.  *)
CoordExpectDue(r) ==
  /\ Turn(r) /\ Kind[r] = "coord"
  /\ Rebind
  /\ Spend(r)
  /\ \/ /\ Paste(r)
        /\ Attend(r, Cancelled([mem[r] EXCEPT !.renew = FALSE]))
     \/ /\ rung' = rung
        /\ \E aged \in BOOLEAN : Attend(r, Renewed(r, mem[r], aged))

(* mesh-watch, balance-lead-tick, nudges: an idle seat is pasted, a busy one  *)
(* is passed over, and the row renews either way.                             *)
RenewingFire(r) ==
  /\ Turn(r) /\ Kind[r] \in {"watch", "lead", "nudge"} /\ r \notin Roleless
  /\ Rebind
  /\ rung' \in {rung, rung \cup {r}}
  /\ Attend(r, Renewed(r, mem[r], FALSE))
  /\ UNCHANGED credit

(* A nudge without a recipient is left as it is, due. *)
SkipNudge(r) ==
  /\ Turn(r) /\ r \in Roleless
  /\ Rebind
  /\ Attend(r, mem[r])
  /\ UNCHANGED history

(* secretary-supervise cancels the legacy status rows in the file, not in the *)
(* tick's copy, then renews or is deferred with its ledger.                   *)
StatusRows(rows) == {q \in Id : Kind[q] = "status" /\ Active(rows[q])}
QuietStatus(rows) ==
  [q \in Id |-> IF q \in StatusRows(rows) THEN Cancelled(rows[q]) ELSE rows[q]]

SuperviseTick(r) ==
  /\ Turn(r) /\ Kind[r] = "supervise"
  /\ \E moved \in BOOLEAN :
       /\ Rebound(moved)
       /\ file' = QuietStatus(Rows(moved))
       /\ off' = off \cup StatusRows(Rows(moved))
  /\ \E rec \in {Renewed(r, mem[r], FALSE), Deferred(mem[r])} :
       mem' = [mem EXCEPT ![r] = rec]
  /\ todo' = todo \ {r}
  /\ left' = left - 1
  /\ UNCHANGED <<pc, cli, history, bounds>>

\* The tick's locals.
Forget ==
  /\ mem' = NoRows /\ seen' = NoRows
  /\ todo' = {} /\ left' = 0 /\ rung' = {}

EndTick ==
  /\ pc = "fire"
  /\ todo = {} \/ left = 0
  /\ file' = mem
  /\ clobbered' = clobbered \cup Stale
  /\ Forget
  /\ pc' = "rest"
  /\ UNCHANGED <<cli, off, credit, bounds>>

-----------------------------------------------------------------------------
(* HTTP handlers, between ticks; each ends in one write of the whole file.    *)

\* Fault: a handler is served in the middle of a tick.
AtAnyTime == pc # "down"

AtRest == pc = "rest"

Credit(r) ==
  /\ arms < MaxArm
  /\ arms' = arms + 1
  /\ credit' = [credit EXCEPT ![r] = @ + PerArm(r)]
  /\ UNCHANGED <<edits, crashes>>

ByHand(rows) ==
  /\ file' = rows
  /\ UNCHANGED <<mem, seen, clobbered, tick, cli, rung>>

Twins(r) == {q \in Id : Key[q] = Key[r] /\ Active(file[q])}
CancelIn(S) == [q \in Id |-> IF q \in S THEN Cancelled(file[q]) ELSE file[q]]

(* POST /patience: the active rows of the same pane and expect go first. *)
ArmPatience(r) ==
  /\ AtRest /\ Credit(r)
  /\ \E renew \in BOOLEAN :
       ByHand([CancelIn(Twins(r)) EXCEPT ![r] = Fresh(renew)])
  /\ off' = (off \cup Twins(r)) \ {r}

(* ... also when the request is then refused for a pane of another mesh. *)
RefusePatience(r) ==
  /\ AtRest /\ Twins(r) # {}
  /\ ByHand(CancelIn(Twins(r)))
  /\ off' = off \cup Twins(r)
  /\ UNCHANGED <<credit, bounds>>

(* armRecipientCheckbackAfterPeer: a due twin does not stop it. *)
ArmRecipient(r) ==
  /\ AtRest /\ Kind[r] = "check" /\ Credit(r)
  /\ \A q \in Twins(r) : file[q].wait = 0
  /\ ByHand([file EXCEPT ![r] = Fresh(TRUE)])
  /\ off' = off \ {r}

(* armCcLimitRetryCheckback: one row per pane, replaced by a new limit. *)
ArmCcLimitRetry(r) ==
  /\ AtRest /\ Kind[r] = "limit" /\ Credit(r)
  /\ ByHand([file EXCEPT ![r] = Fresh(FALSE)])
  /\ off' = off \ {r}

(* POST /patience/:id/cancel and /patience/ack with a yes. *)
CancelCheckback(r) ==
  /\ AtRest /\ Active(file[r])
  /\ ByHand(CancelIn({r}))
  /\ off' = off \cup {r}
  /\ UNCHANGED <<credit, bounds>>

CancelAllCheckbacks ==
  LET all == {r \in Id : Active(file[r])} IN
  /\ AtRest /\ all # {}
  /\ ByHand(CancelIn(all))
  /\ off' = off \cup all
  /\ UNCHANGED <<credit, bounds>>

(* POST /patience/:id/reset also wakes a cancelled row. *)
ResetCheckback(r) ==
  /\ AtRest /\ file[r].status # "none" /\ Credit(r)
  /\ ByHand([file EXCEPT ![r] = [Deferred(@) EXCEPT !.status = "active"]])
  /\ off' = off \ {r}

-----------------------------------------------------------------------------
(* `secretary supervise on|off` and `balance on|off`, in their own process,   *)
(* edit the file row by row: read it all, change one row, write it all.       *)

CliArms    == {"supervise", "lead", "nudge"}
CliCancels == CliArms \cup {"watch", "mute"}

ReadCheckbacksLocal(r) ==
  /\ cli = NoEdit /\ edits < MaxEdit
  /\ edits' = edits + 1
  /\ \E op \in {"arm", "cancel"} :
       /\ op = "arm" => Kind[r] \in CliArms
       /\ op = "cancel" => Kind[r] \in CliCancels /\ file[r].status # "none"
       /\ cli' = [op |-> op, row |-> r, snap |-> file]
  /\ UNCHANGED <<store, tick, off, history, arms, crashes>>

WriteCheckbacksLocal ==
  /\ cli # NoEdit
  /\ LET r   == cli.row
         rec == IF cli.op = "arm" THEN Fresh(TRUE) ELSE Cancelled(cli.snap[r])
     IN /\ file' = [cli.snap EXCEPT ![r] = rec]
        /\ clobbered' = clobbered \cup ({q \in Id : cli.snap[q] # file[q]} \ {r})
        /\ off' = IF cli.op = "arm" THEN off \ {r} ELSE off \cup {r}
  /\ cli' = NoEdit
  /\ UNCHANGED <<mem, seen, tick, history, bounds>>

-----------------------------------------------------------------------------
(* The daemon dies; what the tick had not written is gone. *)
Crash ==
  /\ pc # "down" /\ crashes < MaxCrash
  /\ crashes' = crashes + 1
  /\ pc' = "down"
  /\ Forget
  /\ UNCHANGED <<file, clobbered, cli, off, credit, arms, edits>>

Restart ==
  /\ pc = "down"
  /\ pc' = "rest"
  /\ UNCHANGED <<store, todo, left, cli, off, history, bounds>>

-----------------------------------------------------------------------------
FireRow(r) ==
  \/ DeferFailedFire(r)
  \/ CancelFire(r)
  \/ FireOnce(r)
  \/ CoordExpectDue(r)
  \/ RenewingFire(r)
  \/ SkipNudge(r)
  \/ SuperviseTick(r)

FireDueCheckbacks ==
  \/ StartTick
  \/ \E r \in Id : FireRow(r)
  \/ EndTick

Handle(r) ==
  \/ ArmPatience(r)
  \/ RefusePatience(r)
  \/ ArmRecipient(r)
  \/ ArmCcLimitRetry(r)
  \/ CancelCheckback(r)
  \/ ResetCheckback(r)

Next ==
  \/ FireDueCheckbacks
  \/ \E r \in Id : Handle(r)
  \/ CancelAllCheckbacks
  \/ \E r \in Id : ReadCheckbacksLocal(r)
  \/ WriteCheckbacksLocal
  \/ Crash \/ Restart

Spec == Init /\ [][Next]_vars

\* The daemon ticks for ever and its supervisor restarts it.  Nothing makes a
\* request or a CLI command come, and an edit begun may never be finished.
LiveSpec == Spec /\ WF_vars(FireDueCheckbacks) /\ WF_vars(Restart)

-----------------------------------------------------------------------------
(* Safety *)

\* A verify prompt, a limit retry or a re-assign happens as often as the row
\* was armed for, and once more at most for each death of the daemon between
\* the paste and the write at the end of the tick -- unless another writer's
\* whole-file write put the row back.
TriesArePaidFor ==
  \A r \in Id : Finite(r) =>
    credit[r] + crashes >= 0 \/ r \in clobbered

\* Once a cancel is answered, the row is not pasted again before somebody arms
\* or resets it -- unless a write from an older reading put it back, or the CLI
\* or the supervise tick cancelled it behind the copy of the running tick.
CancelSticks ==
  [][\A r \in rung' \ rung : r \notin off \/ r \in clobbered \/ r \in Stale]_vars

\* Two ways to lose a cancel or an arm, and no other: a row changes back only
\* when the tick and the CLI, or a handler and the CLI, had the file open at
\* once, or when the supervise tick fired.
ClobberNeedsTwoWriters ==
  [][clobbered' # clobbered =>
       \/ edits > 0
       \/ \A r \in clobbered' \ clobbered : Kind[r] = "status"]_vars

-----------------------------------------------------------------------------
(* Liveness *)

\* The tick's budget reaches every row within one lag.
Roomy == /\ Cardinality(Roleless) < Budget
         /\ Cardinality(Id \ Roleless) <= (Budget - Cardinality(Roleless)) * Lag

\* Every due row is attended: supervise, nudges and failing injects at the head
\* of the order do not starve a poll at its end.
DueIsAttended ==
  Roomy => \A r \in Id \ Roleless : []<>~Due(file[r])

-----------------------------------------------------------------------------
(* What the source says, for the two runs that refute it *)

\* mesh-orchestrator.ts: "Cancel legacy per-pane STATUS checkbacks (they
\* spammed manager with Check: injects)": none is pasted after a supervise
\* tick has cancelled it.
QuietedStaysQuiet ==
  [][\A r \in rung' \ rung : Kind[r] = "status" => r \notin off]_vars

\* jsonl-store.ts, fireCount: "Successful fires so far".
FiresWereHeard ==
  [][\A r \in Id : (Kind[r] = "coord" /\ mem'[r].fires > mem[r].fires /\ pc = "fire")
                    => r \in rung']_vars
=============================================================================
