------------------------------- MODULE PaneOps -------------------------------
(***************************************************************************)
(* The queue of pane operations (launch, switch, relayout, spawn).  A CLI   *)
(* process posts an operation and waits eight seconds for the answer.  The  *)
(* daemon executes operations on its only thread, within the handler of the *)
(* post or at the start of a tick, so nothing is answered meanwhile.  A CLI *)
(* process that hears nothing runs its operation itself.                    *)
(*                                                                          *)
(* Each CLI process submits one operation, which bears its name.            *)
(***************************************************************************)
EXTENDS Integers, SequencesExt, RowFile

CONSTANTS
  Op,        \* operations, each with the CLI process that submits it
  NoOp,
  MaxFault   \* bound: deaths of the daemon, and errors outside executePaneOp's try

ASSUME OpsAssumption == NoOp \notin Op /\ MaxFault \in Nat

VARIABLES
  post,      \* the request: idle, posted, late (nobody waits), lost or over
  opFile,    \* PANE-OPS.jsonl: the rows in file order
  opStatus,  \* pending, running, done or failed; none without a row
  opBusy,    \* paneOpBusy, in memory
  exec,      \* the operation on the daemon's thread
  servant,   \* the request whose handler it is, or NoOp: the tick
  opUp,      \* the daemon runs
  runs,      \* history: executions of an operation
  gaveUp,    \* history: CLI processes that ran theirs themselves
  thrown,    \* history: an error that nobody caught has left the flag set
  faults

opVars == <<post, opFile, opStatus, opBusy, exec, servant, opUp, runs, gaveUp, thrown, faults>>

OpsTypeOK ==
  /\ post \in [Op -> {"idle", "posted", "late", "lost", "over"}]
  /\ opFile \in Seq(Op) /\ IsInjective(opFile)
  /\ opStatus \in [Op -> {"none", "pending", "running", "done", "failed"}]
  /\ opBusy \in BOOLEAN
  /\ exec \in Op \cup {NoOp} /\ servant \in Op \cup {NoOp}
  /\ exec # NoOp => opBusy /\ opUp
  /\ opUp \in BOOLEAN
  /\ runs \in [Op -> Nat] /\ gaveUp \subseteq Op
  /\ thrown \in BOOLEAN /\ faults \in 0..MaxFault

OpsInit ==
  /\ post = [o \in Op |-> "idle"]
  /\ opFile = <<>> /\ opStatus = [o \in Op |-> "none"]
  /\ opBusy = FALSE /\ exec = NoOp /\ servant = NoOp /\ opUp = TRUE
  /\ runs = [o \in Op |-> 0] /\ gaveUp = {} /\ thrown = FALSE /\ faults = 0

Waiting(status) == {o \in Op : status[o] = "pending"}

\* Fault: an operation that was begun is taken again.
FirstOpen(file, status) ==
  {o \in Op : \E i \in DOMAIN file :
     /\ file[i] = o /\ status[o] \in {"pending", "running"}
     /\ \A j \in 1..(i - 1) : status[file[j]] \notin {"pending", "running"}}

\* Empty, or with one element.
FirstPending(file, status) ==
  {o \in Op : \E i \in DOMAIN file :
     /\ file[i] = o /\ status[o] = "pending"
     /\ \A j \in 1..(i - 1) : status[file[j]] # "pending"}

\* drainPaneOpsOnce, to the call of executePaneOp: the row is marked running
\* in the file first.
Begin(file, status) ==
  IF (opBusy /\ exec = NoOp) \/ FirstPending(file, status) = {}
  THEN exec' = NoOp /\ opStatus' = status /\ UNCHANGED runs
  ELSE \E o \in FirstPending(file, status) :
         /\ exec' = o
         /\ opStatus' = [status EXCEPT ![o] = "running"]
         /\ runs' = [runs EXCEPT ![o] = @ + 1]

-----------------------------------------------------------------------------
(* The CLI: submitPaneOp *)

Post(o) ==
  /\ post[o] = "idle"
  /\ post' = [post EXCEPT ![o] = IF opUp THEN "posted" ELSE "lost"]
  /\ UNCHANGED <<opFile, opStatus, opBusy, exec, servant, opUp, runs, gaveUp, thrown, faults>>

\* No answer in time (the thread is busy with this operation or anything else),
\* or no connection: run it here.  A request the daemon has is served all the
\* same.
RunHere(o) ==
  /\ \/ post[o] = "lost" /\ post' = [post EXCEPT ![o] = "over"]
     \/ post[o] = "posted" /\ post' = [post EXCEPT ![o] = "late"]
  /\ runs' = [runs EXCEPT ![o] = @ + 1]
  /\ gaveUp' = gaveUp \cup {o}
  /\ UNCHANGED <<opFile, opStatus, opBusy, exec, servant, opUp, thrown, faults>>

-----------------------------------------------------------------------------
(* The daemon *)

\* POST /pane-ops: the row, then drainPaneOpsChain.  With the flag stuck the
\* chain ends at once and the answer is "queued".
Serve(o) ==
  /\ opUp /\ exec = NoOp /\ post[o] \in {"posted", "late"} /\ opStatus[o] = "none"
  /\ opFile' = Append(opFile, o)
  /\ Begin(Append(opFile, o), [opStatus EXCEPT ![o] = "pending"])
  /\ opBusy' = (opBusy \/ exec' # NoOp)
  /\ servant' = IF exec' = NoOp THEN NoOp ELSE o
  /\ post' = IF exec' = NoOp THEN [post EXCEPT ![o] = "over"] ELSE post
  /\ UNCHANGED <<opUp, gaveUp, thrown, faults>>

\* The first stage of a tick.
TickBegins ==
  /\ opUp /\ exec = NoOp /\ ~opBusy /\ Waiting(opStatus) # {}
  /\ Begin(opFile, opStatus)
  /\ opBusy' = TRUE /\ servant' = NoOp
  /\ UNCHANGED <<post, opFile, opUp, gaveUp, thrown, faults>>

Answer == IF servant = NoOp THEN post ELSE [post EXCEPT ![servant] = "over"]

\* Fault: the flag is reset only when the operation has succeeded.
EndsStayingBusy(result) ==
  /\ exec # NoOp
  /\ opStatus' = [opStatus EXCEPT ![exec] = result]
  /\ exec' = NoOp /\ opBusy' = (result = "failed")
  /\ post' = Answer /\ servant' = NoOp
  /\ UNCHANGED <<opFile, opUp, runs, gaveUp, thrown, faults>>

\* executePaneOp has returned.  The chain of a handler goes on with the next
\* row, a tick with its next stage.
Ends(result) ==
  /\ exec # NoOp
  /\ LET status == [opStatus EXCEPT ![exec] = result]
     IN  IF servant # NoOp THEN Begin(opFile, status)
         ELSE exec' = NoOp /\ opStatus' = status /\ UNCHANGED runs
  /\ opBusy' = (exec' # NoOp)
  /\ IF exec' = NoOp THEN post' = Answer /\ servant' = NoOp ELSE UNCHANGED <<post, servant>>
  /\ UNCHANGED <<opFile, opUp, gaveUp, thrown, faults>>

\* POST /pane-ops/clear
Clear ==
  /\ opUp /\ exec = NoOp
  /\ LET open == {o \in Op : opStatus[o] \in {"pending", "running"}}
     IN  /\ open # {}
         /\ opFile' = Only(opFile, Op \ open)
         /\ opStatus' = [o \in Op |-> IF o \in open THEN "failed" ELSE opStatus[o]]
  /\ UNCHANGED <<post, opBusy, exec, servant, opUp, runs, gaveUp, thrown, faults>>

\* An error that executePaneOp does not catch.  In a handler it becomes a 500
\* and the flag stays set; in a tick it is nobody's, and ends the process.
Throws ==
  /\ exec # NoOp /\ servant # NoOp
  /\ faults < MaxFault /\ faults' = faults + 1
  /\ exec' = NoOp /\ servant' = NoOp /\ thrown' = TRUE
  /\ post' = [post EXCEPT ![servant] = IF @ = "posted" THEN "lost" ELSE "over"]
  /\ UNCHANGED <<opFile, opStatus, opBusy, opUp, runs, gaveUp>>

\* Also fuser -k of a CLI process that takes a busy daemon for a wedged one.
Dies ==
  /\ opUp /\ faults < MaxFault /\ faults' = faults + 1
  /\ opUp' = FALSE
  /\ exec' = NoOp /\ servant' = NoOp /\ opBusy' = FALSE /\ thrown' = FALSE
  /\ post' = [o \in Op |-> CASE post[o] = "posted" -> "lost"
                             [] post[o] = "late" -> "over"
                             [] OTHER -> post[o]]
  /\ UNCHANGED <<opFile, opStatus, runs, gaveUp>>

Restarts ==
  /\ ~opUp /\ opUp' = TRUE
  /\ UNCHANGED <<post, opFile, opStatus, opBusy, exec, servant, runs, gaveUp, thrown, faults>>

Thread ==
  \/ \E o \in Op : Serve(o)
  \/ TickBegins \/ Ends("done") \/ Ends("failed")
  \/ Restarts

OpsNext ==
  \/ Thread \/ Clear \/ Throws \/ Dies
  \/ \E o \in Op : Post(o) \/ RunHere(o)

OpsSpec == OpsInit /\ [][OpsNext]_opVars /\ WF_opVars(Thread)

-----------------------------------------------------------------------------
(* What the queue promises *)

\* The daemon executes a row once, whatever it dies of; an operation is
\* executed a second time only by a CLI process that stopped waiting for it.
RunsArePaidFor == \A o \in Op : runs[o] <= 1 + (IF o \in gaveUp THEN 1 ELSE 0)

\* A pending row is executed or cleared in the end, unless an error outside
\* executePaneOp's try has left the flag set: a failed operation, a late
\* request and a death of the daemon do not stop the queue.
OpsAreTaken ==
  \A o \in Op : []<>(opStatus[o] # "pending" \/ thrown)

=============================================================================
