# seat-mesh: verification project

seat-mesh runs a team of coding agents in tmux panes. One Node process, the
inbox daemon, owns the mail between them: it keeps queues in JSONL files and
pastes mail into a pane when the agent there can take it. This directory holds
TLA+ models of that daemon, the TLC configurations that check them, and proofs
of their main properties for TLAPS.

## The system

| component | state | operations | talks to |
|---|---|---|---|
| PEER lane (`daemon/src/peer`, `drainPeerOnce`) | `PEER.jsonl`, `PEER-BACKLOG.jsonl`, pane holds in memory | enqueue, promote, refresh, group, paste a digest, mark, skip, park | panes, gates, CHECKBACK (arming), ACK (opening) |
| CHECKBACK (`daemon/src/checkback`, `fireDueCheckbacks`) | `CHECKBACK.jsonl` and the tick's copy of it | arm, reset, cancel, fire, defer, renew, retarget | panes, `secretary supervise`, `balance`, coord expectations |
| INBOX lanes | `INBOX.jsonl` | enqueue, digest per lane, mark, resolve | secretary and manager panes |
| ACK ledger | `ACK.jsonl`, redirect blocks | open on delivery, close on a filing, by hand or by a reply | PEER, INBOX |
| delivery gates | clocks and fingerprints per pane | settle, stuck draft, hold, overload cooldown, limit, proxy down | every lane |
| PANE_OPS | `PANE-OPS.jsonl`, busy flag | enqueue, run one, finish | tmux |
| TARGET reminders | targets file | arm, remind, triage, done, cancel | rooms, PEER |
| supervisor | child process, stop file, restart delay | spawn, health, restart, shut down | the daemon |
| connectivity | probes, limit banners, resume records | probe, mark limited, recover, broadcast | gates, CHECKBACK |
| stores | JSONL or SQLite behind one interface | read all, write all, upsert | every lane |
| core, providers, tmux, CLI | texts, screens, layouts | composing, detecting, pasting, setup | everything |

One poll (`orchestratorDrainTickAsync`, every 4 s) runs PANE_OPS, INBOX, PEER,
CHECKBACK, TARGET and the ACK sweep one after the other, each of them one
synchronous call. HTTP handlers run in the same thread and are served at the
`await` between two stages, never inside one. What does run at any time: the
panes, the operator, the CLI (which edits `CHECKBACK.jsonl` itself), and the
death of the daemon, which the supervisor restarts.

The hard behaviours are therefore of four kinds. A stage makes several file
writes and one paste, and can be cut off between any two of them. A stage reads
a file or a pane, and acts on what it read after others have changed it. Mail
is parked, promoted, dropped and repeated on conditions that are evaluated in
different places, so a row can fall between two of them. And a tick has a
budget and an order, so a row can wait behind others. `PROJECT.json` lists each
place under "hazards".

What makes a component correct:

* PEER: a row is pasted at most once except for daemon deaths; a parked row is
  always listed; delivered means pasted; only noise is dropped; the paste goes
  to the right seat in a state that allows it, and passes over no pending mail
  that has its turn first; mail for an empty seat is settled in the end.
* CHECKBACK: a one-shot is fired once per arm except for deaths; a cancel
  holds; no update of the file is lost; every due row is attended.
* INBOX and gates: a row is pasted once except for deaths, and in its lane not
  before an earlier one; a turn that was seen
  is followed by the settle time; a pane that stays calm gets its mail; a hold
  does not feed itself.
* ACK: an ask is in the ledger once; it is closed by an answer that came after
  it, and an answer closes one ask (which the code keeps to within a sweep only).
* PANE_OPS: the daemon executes an operation once, also after a death, and
  takes every one.
* TARGET: done and cancel are final; one triage mail per deadline; what is due
  is brought up.
* supervisor: a stop that was confirmed holds; otherwise there is a daemon again
  and again.
* connectivity: one recovery script at a time; a limit that passed leaves no mark.
* inject: a text goes to its pane, once and by itself; the operator's draft and
  the lock of the pane's input come back.
* rooms: one ping per cooldown; only reading clears what is unseen.

## Modules

Eleven modules model the code (with `RowFile`, an operator on files of rows, as a
twelfth), two put them side by side, five instantiate them for TLC, and eight hold
proofs.

| module | models | state (files; memory; world) | actions |
|---|---|---|---|
| `Mailbox` | the promise of a queue: a row is sent, handed over, filed; a fault may cause one extra handing-over and, if `Reopens`, bring a settled row back. `PeerQueue` and `CoordInbox` implement it | abstract | |
| `PeerQueue` | the PEER lane, for worker and mini seats | `st pane listed ahead copy`; `hold pc todo work`; `live phase busyMark blocked` | one per file write or tmux exchange of `drainPeerOnce` |
| `Checkback` | CHECKBACK, the handlers of `/patience`, the CLI's edits | `file`; the tick's `mem`, the CLI's `cli`, `pc todo left` | one per row attended, request and CLI step |
| `AckLedger` | `ACK.jsonl`, the sweep, the watch on the composer | `mail at sentAt acks`; `watch arm quiet prompts replies pc`; `draft echo turn` | queue, deliver (each whole or cut by a death), skip, by hand, sweep, paint |
| `CoordInbox` | both inbox lanes and the coordinator's gate | `inbox done resolved peers`; `gate cool todo pc`; `face draft blocked` | `ToMaster`, `ResolveInbox`, `Tick` (both lanes, PEER stage, paint), a lane cut by a death |
| `Lifecycle` | supervisors, children, CLI start and stop | `meta stopFile`; `sup spawning named`; `child` and the port | each await of `spawnChild`, shutdown, the steps of `ensure` and `stopMeshInbox`, a dying or hanging child |
| `PaneOps` | `PANE-OPS.jsonl` and its one executor | `opFile opStatus`; `opBusy exec servant`; `post` | post, serve, tick, end, clear, throw, death, the CLI's own run |
| `Targets` | `TARGET.jsonl`, the tick and the handlers | `tFile tRow`; `held`; `overdue reach` | add, settle, read, write after the await, tick (whole or cut) |
| `Connectivity` | the scan, both episodes, scripts, resumes | `cache streak limited episode running wave ...`; `shows carrier wifiLock` | poll, the end of each script, resume wave, poll of acks, timers |
| `Inject` | `injectToPane` | `pasteBuf draftBuf box off`; `step wasOff saved` | one per tmux command, a kill, the operator's keys |
| `Rooms` | lines, reads and thin pings of a room | `log marks`; `holder say thin reader copy` | one per load, save or append |
| `RowFile` | the rows of a file that a filter keeps, in their order | | |
| `Daemon` | `CoordInbox`, `Lifecycle`, `PaneOps`, `Targets`, `Connectivity` side by side | `part` | each part's |
| `Writers` | `AckLedger`, `Inject`, `Rooms` and an instance of `Checkback` side by side | `part` | each part's |

The parts of `Daemon` and `Writers` share no variable: a behaviour picks a `part` at
the start and takes the steps of that module, so that one run asks the questions of
four or five modules. Because `part` never changes, at most one disjunct of a shared
`WF` is ever enabled, and the conjunction of the fairness conditions is that of each
module. `MCPeerQueue`, `MCCheckback`, `MCAckLedger`, `MCDaemon` and `MCWriters` only give values to
constants. The parts are extended and not instanced (but for `Checkback`, whose
variables have the names of others), so that what is proved of a part is said of the
very definition a run checks.

### PeerQueue

A row of `PEER.jsonl` is one of absent, pending, parked (`deliverPane:
"backlog"`), skipped or delivered, read off `sent`, `sentAt`, `deliverPane` and
`injectedPane` the way `isPeerDelivered` reads them. `listed` is
`PEER-BACKLOG.jsonl`; its copies carry their own `targetPane` (`copy`) and
`backlogAt`, of which only the order is kept (`ahead`). The tick is cut at every
file write and tmux exchange, and `pc` names the cuts:

    rest - StartTick - Reconcile - PromotePeerBacklog - WriteBacklog -
    RefreshAndGroupPeers - per pane: HeldPane | HoldGateBatch | LoseSnapshot |
    HoldOrParkInjectFail (ParkPeerRow, ListParkedRow per row) |
    DeliverToPane (MarkDelivered per row) - EndTick

`Crash` is possible at each of them and loses the memory variables. `Enqueue`
is only possible at rest, since the stage is synchronous. The screen of a pane
is one of six classes, named for what promote and `deliverToPane` make of it,
and changes at any time; so do the banner mark (`@mesh_status`) and the gate.

What is abstracted: a message is its kind and its class (plain, ack, hub for
the `PRIORITY` override, noise for what `applySkips` drops). The verdict of
`isAckClassPeer` on a digest with a progress note in it is free
(`ReadsAsAck`): it depends on which wording ends up where. The capture and the
paste are one step. The loop of `refreshAndGroupPeers` is one step. A second
`POST /to-peer` of the same text adds no row, so each row is enqueued once.
`OldestFirst` is about pending rows: one that is parked gives up its place, since
it gets a new `backlogAt` each time (`peer-backlog.ts:303`).
Left out: coordinator panes (their gate is in `CoordInbox`), ACK redirection,
cold-start rows, `compactPeer` (rows have one id each), forge-reset and
`inboxSkipTypingGate`. The ask and the checkback that `markDelivered` opens are
in `AckLedger` and `Checkback`.

### Checkback

A row keeps its status, the ticks until `expiresAt` (`wait`), `fireCount` and
whether `renewSec` is positive. `StartTick` lets a tick pass (`Aged`) and reads
the file into `mem`; the rows due then are attended in the order of
`checkbackFirePriority` within the budget, each changing `mem` only, and
`EndTick` writes `mem` over the file. Retargeting a row writes `mem` earlier
(`Rebind`), and the supervise tick edits the file under the copy. Handlers run
at rest, the CLI in two steps (read, write) at any time. Deferrals of 30 to 90 s,
renewals and first waits are one constant, `Lag`, in ticks of 4 s. The
expectations' re-assignment posts to the daemon itself; it is served after the
tick and is an ordinary `ArmPatience`. `fireCount` is not counted for kinds that
renew for ever, and `expiresAt` of a cancelled row is set to zero: nothing reads
them. Among equal priorities the order is free (the code sorts by `expiresAt`).

### AckLedger

A row of the ledger is its seat, its ask, where it came from, its stamp and how
it was closed; rows are never taken out. Stamps are drawn from one counter, so
two are never equal. `Enqueue` and `Deliver` are the whole handlers, and
`EnqueueCut` and `DeliverCut` the same ones with a death between the queue file
and the ledger. `Sweep` takes the stages of `ackSweepTick` one by one, since a
death may fall between their writes: the operator's prompts, the replies seen,
the filings. `MatchFiled` is the closed form, seat by seat, of what `matchFiledAcks` closes;
`Matched` is its loop over the filings of all seats, a recursive function, and
`MatchIsTheLoop` compares the two on every state. `Paint` is what
`ack-watch.ts` makes of the composer and the transcript: it has seen a submit
when the draft it remembers is gone and the transcript shows it. A filing is any
mail of the seat delivered after the ask's stamp; an ask reopened by a late
delivery keeps its old one. A row closed by hand before its mail is delivered is
opened again by the delivery, as in the code. A reply that begins and ends
between two paints is not seen. The secretary's extra look (`onResumeAckPane`)
is a `Paint`.

### CoordInbox

Time is in polls. The gate learns of a screen only when somebody looks: a lane
that finds neither a turn nor typing, and the border paint of the manager's pane
while the inbox holds mail. Only for the manager, and only while mail waits, is
a turn certain to be seen, which is why `WaitingMailSettles` is about those rows:
mail that arrives after an unseen turn is pasted at once. `face` keeps what
`deliverToPane` and the gate tell apart. `done` needs `sent`, `sentAt` and
`deliverPane` together, as in `isInboxDelivered`; `sent` alone counts for
nothing. `peers` counts the rows of `PEER.jsonl` pending for the pane, which is
what the overload threshold reads. "One substance paste per pane per tick"
(`mesh-orchestrator.ts:283`) holds within a stage; INBOX and PEER of one tick
each make theirs. `InboxKeepsMailbox` maps a row to none, queued or settled. A lane
hands over and settles in one step of `Mailbox`, or hands over and has a fault; and
unlike the PEER lane's backlog, a death brings no settled row back.

### Lifecycle

`spawning` names the await of `spawnChild` (the quiet port, then the child's
health), and everything that may happen meanwhile is an action: a signal, a stop
file, the restart timer, the orphan check. A supervisor that finds a stop file
in `spawnChild` is mute: it lives, watches nothing, and takes a later signal for
a shutdown under way. The 3 s `SIGKILL` of `shutdown` never happens, since the
process exits after 500 ms; it has no action. A second supervisor overwrites the
metadata of the first, and removes the stop file meant for it; `StopSticks`
excludes these stops by its history variable, whose comment lists them. Of the
ways a supervisor dies by itself only the one of `supervisor_throws` is modelled.

### PaneOps, Targets

An operation is executed on the daemon's only thread, in the handler of its post
or in a tick, so a CLI process that waits eight seconds hears nothing while its
own operation runs, and runs it again. `Dies` leaves a row `running`; nobody
takes it up. `Throws` is an error outside the `try` of `executePaneOp`.

A handler of `/targets` reads a row (`FindTarget`), awaits, and writes the row it
read (`FireHeld`); others are served meanwhile. `upsertTarget` moves a row to
the end of the file, which is what keeps the budget fair (`DueIsBroughtUp`).
`TickCutShort` is a death after the triage mail and before the row.

### Connectivity

A poll scans the next `ScanBatch` panes and decides from the cache of all of
them; the place to go on from moves at every poll, during an episode too. The
three scripts end on their own and start each other; `recoveryRunning` is one
flag for all. Cooldowns and graces are timers that expire. A rate-limit episode
that begins while a script runs or its cooldown lasts starts no recovery, then
or later: the code looks at the rising edge only. `typingHold` returns before
the screen is classified. The key under which cursor usage is remembered is
pruned at every poll, so it is always new; it is left out.

### Inject

A sequence is a process's run of `injectToPane`; composers, the lock of a pane's
input and the two tmux buffers are the world. Forced pastes go over a draft, a
double Enter is sent where the provider needs it, and `Stiff` panes keep what
the clearing keys should have removed. What reaches a pane whose input another
sequence has just locked is dropped, as by tmux; nothing promises such a text anything. `docs/ARCHITECTURE.md:133-139` calls the
daemon the sole process that injects ("No direct send"), which the CLI path of
`direct-peer.ts` contradicts; `MailReachesItsPane` states it, is false for two
overlapping sequences, and `CrossNeedsOverlap` is what remains true.

### Rooms

Every command is a process. The ledger has a lock that nobody waits for; a line
is stamped before it is taken, so lines may be in the file out of the order of
their stamps, and a reader's mark passes over one. `read-state.json` is loaded,
changed and saved whole without a lock; `crowded` says that two were at it.

## Runs

States are distinct states; times are with two workers.

| run | instance | shows | size |
|---|---|---|---|
| `peer_lane` | 4 rows (prompt, progress note, override, thin ping), 1 seat, 2 panes, batches of 2, any screen at first, 1 change of screen or gate, 1 death of the daemon, 1 dead pane, fair | type invariant, eight invariants and action properties on rows, `Mailbox` refined, and no row waits for ever for a seat that stays empty | 555,666 states, 140 s |
| `peer_moved` | 1 row, fair | refutes ARCHITECTURE.md:165 for a seat that moved | |
| `peer_chrome` | 1 row, fair | refutes PEER-BACKLOG-SPEC.md:46 for Cursor's empty composer | |
| `peer_override` | a plain row, a progress note and an override | refutes peer-backlog.ts:21 and PEER-BACKLOG-SPEC.md:35 for the follow-up box | |
| `checkback_safety` | six rows (supervise, limit retry, expectation, poll, nudge, nudge without recipient), at most one in the file at first; budget 2; 1 request, 1 CLI edit, 1 death | fires are paid for, cancels hold, who can lose an update | 2,133,510 states, 190 s |
| `checkback_status` | supervise and a legacy status row | refutes mesh-orchestrator.ts:305 | |
| `checkback_count` | an expectation and a poll | refutes jsonl-store.ts:32 | |
| `shared_writers` | acks: two mails, one operator, 1 death. inject: three processes, two of them at one locked pane, any two of which run, 2 keys, 1 kill. room: two agents, three lines, 1 read, 2 cooldowns. checkback: two twin polls, a nudge, a nudge without recipient, budget 2, lag 3, fair | asks recorded once and closed on evidence, in a sweep one a filing; texts cross only in overlaps; locks come back; pings and marks; every due row is attended | 657,859 states, 110 to 150 s |
| `ack_burst` | two asks to a worker, one mail of it | refutes ack-algo.ts:179 for two sweeps | |
| `parts_daemon` | inbox: two rows, two peers, 1 change, 1 death. life: two supervisors, two CLI processes, 1 failure. ops: two, 1 fault. targets: two, one handler, 1 death. limits: two panes, scan of one, threshold 2, 2 changes; all fair | the inbox refines `Mailbox`, the other parts keep their safety properties, and their mail, daemon, operations, deadlines and limits come to their ends | 352,768 states, 215 s |
| `coord_overload` | one lane, two peers, threshold 2 | refutes inbox-overload.ts:42 | |
| `supervisor_throws` | one supervisor, one CLI process, 1 failure | refutes mesh-inbox-supervisor.ts:256 | |

The bounds `MaxCrash`, `MaxChurn`, `MaxDeath`, `MaxArm`, `MaxEdit`, `MaxTyped`,
`MaxPeer`, `MaxFail`, `MaxFault`, `MaxAsk`, `MaxChange`, `MaxRun`, `MaxType`, `MaxKill`,
`MaxRead` and `MaxEra` are in the guards of the actions that use them up. Why
they are enough:

* PEER: a pane begins with any screen, and one change is what the longest story
  needs: the pane is busy (the row is parked) and gets idle (it is promoted, and the
  daemon dies before the backlog file is written), is marked BUSY (the row is
  delivered, its copy stays) and unmarked (promote meets the copy of a row that was
  pasted). The mark changes freely. One death gives each of the double pastes and
  leftover copies the code can produce. Four rows fill a batch of two and leave two
  waiting. A row `applySkips` drops is in no run: it leaves in `RefreshAndGroupPeers`,
  before any of the cuts between promote and paste; the theorems include it.
* CHECKBACK: in `checkback_safety` one row is in the file at first, and a request and
  a CLI edit bring the second and the third, so that five kinds of rows compete; the
  others (status, watch, lead, mute) take the same branches, but for the legacy
  status row of `checkback_status`, and the theorems cover them all. A budget of two
  with three competing rows makes rows wait a tick, as seven would with the budget
  of six in the code. `DueIsAttended` is checked on
  an instance without deaths or CLI edits, of which a bounded model has none left
  in the part of a behaviour the property is about.
* acks: two mails make an ask on the peer lane and a report on the inbox lane, which
  is an answer and an ask itself; they are queued and delivered in either order; one
  death reaches each cut, and `AskRecorded` says what two would do.
* inject and rooms: two of three sequences overlap in every way, in one locked pane
  (where the second finds it opened by the first, and the first locks it while the
  second is about to paste) or in a locked and an open one; three lines by two agents
  cross a read. One kill leaves each buffer full.
* inbox: two rows fill a batch of two, one override passes the gate, two peers
  reach the threshold; each clock is one poll, so that it is running, over, and
  not set. Lifecycle: a second supervisor and a second CLI process are the
  smallest race for port, metadata and stop file. Targets: one fired a tick with
  two due makes one wait. Limits: two panes and a scan of one make the cache
  stale.

No bound restricts a theorem.

`EmptySeatGetsItsMail` names the two ways a row is stranded (`Stranded`), so
that it says something of the rest; `peer_moved` and `peer_chrome` each drop
the exception. `DueIsAttended` assumes `Roomy`: the rows attended within one
lag fit the budget, after the places rows without recipient take each tick.
`CalmLaneDrains` assumes a pane that stays idle and below the overload
threshold; `coord_overload` drops the latter. `KeepsServing` excepts a child that
hangs, which the supervisor does not notice, and `OpsAreTaken` an error that
leaves the busy flag set.

### Fairness

Weak, and only on what the process does by itself: the stages of the tick and
the poll, which `setInterval` starts for ever and which run to their end; the
restart of the daemon, by the supervisor; in `Lifecycle` the supervisor's own
steps, as its timers give them; and the expiry of clocks (pane holds, cooldowns,
graces). None on requests, CLI commands, panes, operators, marks, scripts that
end, or answers of agents: a liveness property assumes instead that the pane has
become calm and stays so. `Inject` and `Rooms` have no fairness and no liveness:
nothing makes another process finish. Deadlock is off where the world may come
to rest (all operations done, all lines said).

### Disagreements with the documents

Eight runs end in a counterexample; each quotes its line in `PROJECT.json`
"findings".

* `peer_moved`: a parked row follows its old pane, not its seat.
* `peer_chrome`: a parked substance row is not promoted into an empty composer
  that shows the follow-up placeholder.
* `peer_override`: an override, and nothing else, should be pasted into a generating
  pane. A progress note is pasted into its follow-up box, with the plain rows of its
  digest; and an override is refused by a worker pane. The run's counterexample is the
  former. With `<<"hub", "ack", "plain">>` for `BusyClass` it is the latter.
  `PastesWhereAllowed` is what is true: an agent at work is given a batch with an
  override or a note in it, and never plain mail alone.
* `checkback_status`: the supervise tick's cancellation of status rows is undone
  by the tick's own last write.
* `checkback_count`: a refused expectation counts as fired.
* `ack_burst`: a filing closes another ask in each sweep, so that one answer ends
  every ask before it, though the comment and the test of `matchFiledAcks` say that
  a burst of replies cannot clear a backlog. `SweepIsMeasured` is what is true: in
  one sweep a filing closes one ask, the oldest first.
* `coord_overload`: an overloaded pane is held because of mail the hold itself
  keeps pending; the cooldown starts again each time it expires.
* `supervisor_throws`: a child that dies while `spawnChild` waits for its health
  takes the supervisor with it.

## Proofs

tlapm checks all theorems from nothing, for every value of the constants.

`PeerQueueProofs` proves the type invariant and every safety property of `peer_lane`.
The inductive invariant `IInv` adds to them: the
shape of `todo` and `work` at each `pc`, that absent rows are in no file, that a
copy of a settled row in the backlog needs a crash (`StrayNeedsCrash`), and the
`Budget` of each row. The budget is the idea of the proof: `pasted[r]` plus what
the files still owe the row (one paste if it waits, one if a stray copy will
bring it back) never exceeds one plus the deaths. A
paste moves one from what is owed to what was pasted, and only a death adds
one. `ImplementsMailbox` maps a row to none, queued or settled and each step to
a step of `Mailbox` or a stutter. `PendingInOrder` needs that what a tick has grouped
of a seat's mail is all of it that is pending, for one pane (`TodoClosed`): a group
leaves `todo` as a whole whatever becomes of it. A batch then has, with a row, every
row of its group that comes before it, because the rows before the earlier one are
among those before the later one (`BatchIsClosed`, by cardinalities). `ThinNeverParked`
is a part of `IInv` and a theorem of its own.

`CheckbackProofs` proves the type invariant and every property of
`checkback_safety`. `Owed` is what an active row may still try: one paste, or what
is left of `MaxFires`. `IInv` says that file and copy each owe a row no more than
its credit and the deaths allow (`FileOwes`, `MemOwes`; while a tick runs the
file still owes a row the tick has attended one try more, and that try is what a
death costs), that rows to be attended are active in the copy (`TodoActive`), that
the copy wakes no row (`MemFromSeen`), that a cancelled row is not active in the
file unless clobbered (`OffInFile`), and that without CLI edits only status rows
change behind a tick (`CliEdits`).

`AckLedgerProofs` first shows that a step opens one row or closes open ones
(`LedgerSteps`), from which `OneOpenPerAsk` is inductive as it stands. `AskRecorded`
needs `RecordInv`: a queued ask has its row unless one death took the first write,
a sent one unless a second took the other. `FiledOnEvidence` needs that stamps of
delivery belong to mail that was sent (`FiledInv`). `PaneReplyAnswers` rests on three
invariants: stamps come from a clock that only grows (`StampInv`), so that a prompt
seen later cannot be confused with one before; what the paint reports has been
answered and is used up before the next one (`ReplyInv`); and a row closed as
answered was answered (`AnsweredInv`).

`LoopMatches` says that the closed form `MatchFiled` is what the loop computes, for
any asks and any filings of any number of seats. It needs that no two stamps are
equal (`StampsApart`), which the clock gives. The loop is a recursive function over
sets of filings, of which the latest is taken last; what it has closed after some of
them is `Served`, the closed form with only those filings counted. An open ask is
in it when, from every ask up to it, there are enough later filings for the asks in
between; one more filing, later than all before it, adds the oldest ask that it is
later than and that is not served yet, or nothing (`OldestIsServed`,
`NobodyElseIsServed`, by counting). Since an induction theorem cannot be applied
(its parameter is an operator), the equality is had from a counterexample with the
fewest filings, which `WFMin` gives on the finite subsets (`MatchedIsServed`).
`SweepsAreMeasured` follows from the same lemmas: of a seat's open asks a sweep closes
the oldest, at least one while mail of the seat is later than an open ask, and no more
than the mail delivered since the first. It is about one sweep. The next one takes
the same filings again, which is what `ack_burst` shows: by this theorem a single
filing later than all asks closes them one a sweep.

`CoordInboxProofs`: the gate's clocks stay in range, and `pasted` is at most one for
a row that is done plus the deaths (`PasteInv`): a lane marks what it pastes unless
it is cut. `ImplementsMailbox` adds that only rows in the file are settled
(`SettledEntered`), so that a new row is queued; a step then is a sending, a
handing-over, a filing, a fault or a stutter. `MailInOrder` says of each lane that no
row is pasted before one that came earlier, unless that was resolved (`NoOvertaking`).
It is inductive with two facts: a row is entered once, and what is marked was pasted;
a row that waits again after a death still stands where it stood. `WaitingSettles` needs `Cleared`: once the border paint has seen a turn the
manager's clocks are new, and only the manager's own lane makes them anything else.
It has a hypothesis, `Settle > 0`, since a profile may set `MESH_INBOX_IDLE_SETTLE_MS`
to 0, and then there is no time to keep.

`TargetsProofs`: `Paid` is an account per target. The mails, plus the requests that
have asked and not yet written, are at most the mark in the row plus the deaths
plus what was asked by hand; a target nobody can triage gets no mail. It needs
`Unadded`: nobody holds a copy of a row that was never added. `SettledStays`
came out of a first form of `SettledTargetStays` that could not be proved and was
indeed only true with a single handler: with two, the one that awaits may write
back a row that another had already settled and revived. The type invariant needs
`FileInv`: the file has each added target in exactly one row, though each tick
takes rows out and appends them (`Upsert`). That rests on two facts about `Only`:
positions kept are numbered without gaps (`Ranks`), so what is left has the rows
kept and each once (`OnlyRows`).

`LifecycleProofs`: `LifeInv` says that at most one child listens (`OneListens`), how
far a supervisor that just booted can be (`Youth`), that whoever is named in the
metadata, or in what a CLI process has read of them, has begun (`MetaBegun`,
`NamedBegun`), that there is one supervisor for a stop that counts (`OneToStop`), and
what each stage of such a stop has established (`StopSeen`): the one who asks holds
the name of every supervisor that runs; after its signal none runs; when it is done
nobody listens. `StopSticks` is the last of these and not inductive without the
others.

`DaemonProofs`, for `PaneOps`: executions are at most one if the row was ever begun plus
one if its CLI process gave up (`RunsPaid`), and one that gave up waits for nothing
(`GaveUpWaits`); the types need that a row is in the file once and only with a status
(`OpsFiled`), again by `OnlyRows`. For `Connectivity`: the flag equals the number of
running scripts, through all steps that start, end or chain one (`ScriptInv`). Then
the composition: a step of `Daemon` is a step of one part and a stutter of the
others (`PartsOfDaemon`), so that `DaemonTypes`, `DaemonPromises` and `DaemonSettles`
state the safety properties of `parts_daemon` of the composition itself.

`WritersProofs`, for `Inject`: the input of a locked pane is off, or some sequence
within its lock found it off and will put it back (`Owes`); a sequence that finds
it on owes nothing. A killed sequence keeps its debt for ever, which is why the
property asks that all have ended. `CrossNeedsOverlap` needs `TextInv`: sequences that
run at once know it (`Overlaps`); a text nobody overlapped is in the shared buffer only
while its process is about to paste, or was killed there (`BufferFresh`); and it is in
one composer or one turn, after its paste (`Tally`). `LoneInjectIsClean` adds `Clean`,
which gives the composer, the buffers and the turns of an undisturbed sequence at
each of its steps. For `Rooms`: while nobody crowds the marks one process is at them
(`OneAtATime`), and an agent pinged in this cooldown has a mark of it or is about to get
one. `OnlyReadingClears` is about any step and whatever order lines and stamps have:
the copy that is saved equals the marks but for the saver's own entry.
`PartsOfWriters`, `WritersTypes` and `WritersPromises` carry all this, and the theorems
about the ledger, to the composition: every behaviour of it is one of each part.

The proofs changed the models in two places. The guards of the CASE in `Look` of
`CoordInbox` overlapped: TLC takes the first that holds, the logic leaves open which, so
a lemma about it could not be proved; the guards now exclude each other, in the
order of the code's returns. And `SelectSeq`, which the prover cannot expand, gave
way to `Only`, the same filter in closed form.

The assumptions are those in the modules: finite sets of rows ordered by their
stamps, different panes for different seats at first, positive batch sizes,
budgets, lags and thresholds; a finite set of handlers; at least one pane to scan;
null values that are not values (`NoOp`, `NoCopy`, `NoSup`, `NoMsg`, `Nothing`). TLC
evaluates those of every module a run extends. `WaitingSettles` and `DaemonSettles` are
the only theorems with a hypothesis of their own.

Only model-checked: the seven liveness properties (`EmptySeatGetsItsMail`,
`DueIsAttended`, `CalmLaneDrains`, `KeepsServing`, `OpsAreTaken`, `DueIsBroughtUp`,
`LimitsPass`), since the prover handles neither fairness nor ENABLED.
Every other property of a passing run, each invariant and each action property, is a
theorem. What the eight runs that end in a counterexample refute is not.
`NoOvertaking` is stated in its proof module and is a theorem that no run checks. No module declares a RECURSIVE operator; the one recursive
function is `Matched`.

## Not modelled, and what could follow

The repository is large and most of it has no state that two actors share.
Left out, with the reason:

* what texts say and how screens are recognised (`providers`, `core/messages`):
  their answers are the values of `phase`, `face` and `shows`;
* the CLI's parsing, scaffolding and reports, profiles, layout, borders' colours,
  launch: process calls and text. The CLI's part in races is modelled where it
  happens (`Checkback`, `Lifecycle`, `PaneOps`, `Inject`);
* the SQLite store (the same calls on the same rows) and the BullMQ wake-up, which
  only makes a tick come earlier;
* ACK redirect blocks and act cards: one list or token used by one synchronous
  handler;
* calls, votes and end-of-day of rooms; the swap of two seats;
* in the lanes: forge-reset, cold-start rows, `compactPeer`, and the search for a
  repeated text (`findDupInbox` with its empty slot among it);
* what a recovery script does; that a script which cannot be spawned may report its
  end twice (`error`, then `close`: connectivity-recovery.ts:321-325).

A next step would be the swap of two seats under a running drain, then the rooms'
votes. Of the hazards in `PROJECT.json` four have no property, each with its reason.
