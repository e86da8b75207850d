---------------------------- MODULE DaemonProofs -----------------------------
(***************************************************************************)
(* Theorems about PaneOps and Connectivity, and about Daemon: every part    *)
(* keeps its types and its promises when the parts run side by side.        *)
(***************************************************************************)
EXTENDS Daemon, CoordInboxProofs, TargetsProofs, LifecycleProofs

-----------------------------------------------------------------------------
(* PaneOps: what the rows and the requests say of the executions there have  *)
(* been, for any number of operations and of faults.                         *)

Statuses == {"none", "pending", "running", "done", "failed"}

OpTypes ==
  /\ post \in [Op -> {"idle", "posted", "late", "lost", "over"}]
  /\ opStatus \in [Op -> Statuses]
  /\ exec \in Op \cup {NoOp}
  /\ runs \in [Op -> Nat] /\ gaveUp \subseteq Op

\* Executions by the daemon are written in the row before they begin, those of
\* the CLI are remembered in gaveUp.
Begun(status, o) == IF status[o] \in {"none", "pending"} THEN 0 ELSE 1
Gave(o)          == IF o \in gaveUp THEN 1 ELSE 0

\* A CLI process that has run its operation waits for nothing.
GaveUpWaits == \A o \in gaveUp : post[o] \in {"late", "over"}

RunsPaid == \A o \in Op : runs[o] <= Begun(opStatus, o) + Gave(o)

OpsInv == OpTypes /\ GaveUpWaits /\ RunsPaid

\* drainPaneOpsOnce on rows of which no more is begun than before.
LEMMA BeginStep ==
  ASSUME OpsInv, NEW file, NEW status \in [Op -> Statuses], Begin(file, status), gaveUp' = gaveUp,
         \A o \in Op : Begun(opStatus, o) <= Begun(status, o)
  PROVE  /\ opStatus' \in [Op -> Statuses] /\ exec' \in Op \cup {NoOp} /\ runs' \in [Op -> Nat]
         /\ RunsPaid'
<1>1. \A o \in Op : Begun(status, o) \in 0..1 /\ Begun(opStatus, o) \in 0..1 /\ Gave(o) \in 0..1
  BY DEF Begun, Gave
<1>2. \A o \in Op : runs[o] \in Nat /\ runs[o] <= Begun(status, o) + Gave(o) /\ Gave(o)' = Gave(o)
  BY <1>1 DEF OpsInv, OpTypes, RunsPaid, Gave
<1>3. CASE exec' = NoOp /\ opStatus' = status /\ UNCHANGED runs
  <2>1. \A o \in Op : Begun(opStatus', o) = Begun(status, o)
    BY <1>3 DEF Begun
  <2>2. RunsPaid'
    BY <1>2, <1>3, <2>1 DEF RunsPaid, Begun
  <2>. QED
    BY <1>3, <2>2 DEF OpsInv, OpTypes
<1>4. ASSUME NEW o \in FirstPending(file, status), exec' = o,
             opStatus' = [status EXCEPT ![o] = "running"], runs' = [runs EXCEPT ![o] = @ + 1]
      PROVE  /\ opStatus' \in [Op -> Statuses] /\ exec' \in Op \cup {NoOp} /\ runs' \in [Op -> Nat]
             /\ RunsPaid'
  <2>1. o \in Op /\ status[o] = "pending"
    BY DEF FirstPending
  <2>2. Begun(status, o) = 0
    BY <2>1 DEF Begun
  <2>3. opStatus'[o] = "running" /\ \A u \in Op \ {o} : opStatus'[u] = status[u]
    BY <1>4, <2>1
  <2>4. Begun(opStatus', o) = 1 /\ \A u \in Op \ {o} : Begun(opStatus', u) = Begun(status, u)
    BY <2>3 DEF Begun
  <2>5. runs'[o] = runs[o] + 1 /\ \A u \in Op \ {o} : runs'[u] = runs[u]
    BY <1>4, <2>1 DEF OpsInv, OpTypes
  <2>6. runs'[o] <= Begun(opStatus', o) + Gave(o)'
    BY <1>1, <1>2, <2>1, <2>2, <2>4, <2>5
  <2>7. \A u \in Op \ {o} : runs'[u] <= Begun(opStatus', u) + Gave(u)'
    BY <1>2, <2>4, <2>5
  <2>8. RunsPaid'
    BY <2>6, <2>7 DEF RunsPaid, Begun
  <2>9. runs' \in [Op -> Nat]
    BY <1>4, <2>1 DEF OpsInv, OpTypes
  <2>. QED
    BY <1>4, <2>1, <2>8, <2>9 DEF Statuses
<1>. QED
  BY <1>3, <1>4 DEF Begin

\* A step that leaves rows and executions alone.
LEMMA RestStep ==
  ASSUME OpsInv, UNCHANGED <<runs, gaveUp>>, opStatus' \in [Op -> Statuses],
         \A o \in Op : Begun(opStatus, o) <= Begun(opStatus', o),
         exec' \in Op \cup {NoOp},
         post' \in [Op -> {"idle", "posted", "late", "lost", "over"}],
         \A o \in Op : post[o] \in {"late", "over"} => post'[o] \in {"late", "over"}
  PROVE  OpsInv'
<1>1. \A o \in Op : Begun(opStatus', o) \in 0..1 /\ Begun(opStatus, o) \in 0..1 /\ Gave(o) \in 0..1
                    /\ Gave(o)' = Gave(o) /\ runs[o] \in Nat
  BY DEF Begun, Gave, OpsInv, OpTypes
<1>2. \A o \in Op : runs'[o] <= Begun(opStatus', o) + Gave(o)'
  BY <1>1 DEF OpsInv, RunsPaid
<1>3. RunsPaid'
  BY <1>2 DEF RunsPaid, Begun
<1>. QED
  BY <1>3 DEF OpsInv, OpTypes, GaveUpWaits

\* The same with a drain in it.
LEMMA DrainStep ==
  ASSUME OpsInv, NEW file, NEW status \in [Op -> Statuses], Begin(file, status), gaveUp' = gaveUp,
         \A o \in Op : Begun(opStatus, o) <= Begun(status, o),
         post' \in [Op -> {"idle", "posted", "late", "lost", "over"}],
         \A o \in Op : post[o] \in {"late", "over"} => post'[o] \in {"late", "over"}
  PROVE  OpsInv'
  BY BeginStep DEF OpsInv, OpTypes, GaveUpWaits

-----------------------------------------------------------------------------
LEMMA ServeStep == ASSUME OpsInv, NEW o \in Op, Serve(o) PROVE OpsInv'
<1> DEFINE status == [opStatus EXCEPT ![o] = "pending"]
<1>1. Begin(Append(opFile, o), status) /\ gaveUp' = gaveUp /\ opStatus[o] = "none"
      /\ post' \in {post, [post EXCEPT ![o] = "over"]}
  BY DEF Serve
<1>2. status \in [Op -> Statuses]
  BY DEF OpsInv, OpTypes, Statuses
<1>3. \A u \in Op : Begun(opStatus, u) <= Begun(status, u)
  <2>1. Begun(opStatus, o) = 0 /\ Begun(status, o) = 0
    BY <1>1 DEF Begun, OpsInv, OpTypes
  <2>2. \A u \in Op \ {o} : status[u] = opStatus[u]
    BY DEF OpsInv, OpTypes
  <2>3. \A u \in Op \ {o} : Begun(opStatus, u) = Begun(status, u) /\ Begun(opStatus, u) \in 0..1
    BY <2>2 DEF Begun
  <2>. HIDE DEF status
  <2>4. Begun(opStatus, o) <= Begun(status, o)
    BY <2>1
  <2>. QED
    BY <2>3, <2>4
<1>. HIDE DEF status
<1>. QED
  BY <1>1, <1>2, <1>3, DrainStep DEF OpsInv, OpTypes

LEMMA TickBeginsStep == ASSUME OpsInv, TickBegins PROVE OpsInv'
<1>1. Begin(opFile, opStatus) /\ gaveUp' = gaveUp /\ post' = post
  BY DEF TickBegins
<1>2. \A u \in Op : Begun(opStatus, u) <= Begun(opStatus, u)
  BY DEF Begun
<1>. QED
  BY <1>1, <1>2, DrainStep DEF OpsInv, OpTypes

LEMMA EndsStep == ASSUME OpsInv, NEW result \in {"done", "failed"}, Ends(result) PROVE OpsInv'
<1> DEFINE status == [opStatus EXCEPT ![exec] = result]
<1>1. /\ gaveUp' = gaveUp /\ exec \in Op
      /\ post' \in {post} \cup {[post EXCEPT ![o] = "over"] : o \in {servant}}
      /\ \/ Begin(opFile, status)
         \/ exec' = NoOp /\ opStatus' = status /\ UNCHANGED runs
  BY DEF Ends, Answer, OpsInv, OpTypes
<1>2. status \in [Op -> Statuses]
  BY <1>1 DEF OpsInv, OpTypes, Statuses
<1>3. \A u \in Op : Begun(opStatus, u) <= Begun(status, u)
  <2>1. Begun(status, exec) = 1 /\ Begun(opStatus, exec) \in 0..1
    BY <1>1 DEF Begun, OpsInv, OpTypes
  <2>2. \A u \in Op \ {exec} : status[u] = opStatus[u]
    BY <1>1 DEF OpsInv, OpTypes
  <2>3. \A u \in Op \ {exec} : Begun(opStatus, u) = Begun(status, u) /\ Begun(opStatus, u) \in 0..1
    BY <2>2 DEF Begun
  <2>. HIDE DEF status
  <2>4. Begun(opStatus, exec) <= Begun(status, exec)
    BY <2>1
  <2>5. \A u \in Op \ {exec} : Begun(opStatus, u) <= Begun(status, u)
    BY <2>3
  <2>. QED
    BY <2>4, <2>5
<1>4. /\ post' \in [Op -> {"idle", "posted", "late", "lost", "over"}]
      /\ \A o \in Op : post[o] \in {"late", "over"} => post'[o] \in {"late", "over"}
  BY <1>1 DEF OpsInv, OpTypes
<1>. HIDE DEF status
<1>5. CASE Begin(opFile, status)
  BY <1>1, <1>2, <1>3, <1>4, <1>5, DrainStep
<1>6. CASE exec' = NoOp /\ opStatus' = status /\ UNCHANGED runs
  BY <1>1, <1>2, <1>3, <1>4, <1>6, RestStep
<1>. QED
  BY <1>1, <1>5, <1>6

LEMMA ClearStep == ASSUME OpsInv, Clear PROVE OpsInv'
<1>1. /\ UNCHANGED <<post, runs, gaveUp, exec>>
      /\ opStatus' = [o \in Op |-> IF o \in {u \in Op : opStatus[u] \in {"pending", "running"}}
                                   THEN "failed" ELSE opStatus[o]]
  BY DEF Clear
<1>2. opStatus' \in [Op -> Statuses]
  BY <1>1 DEF OpsInv, OpTypes, Statuses
<1>3. ASSUME NEW o \in Op PROVE Begun(opStatus, o) <= Begun(opStatus', o)
  <2>1. opStatus'[o] \in {opStatus[o], "failed"}
    BY <1>1
  <2>2. CASE opStatus'[o] = opStatus[o]
    BY <2>2 DEF Begun
  <2>3. CASE opStatus'[o] = "failed"
    BY <2>3 DEF Begun
  <2>. QED
    BY <2>1, <2>2, <2>3
<1>. QED
  BY <1>1, <1>2, <1>3, RestStep DEF OpsInv, OpTypes

LEMMA FaultStep ==
  ASSUME OpsInv, Throws \/ Dies \/ Restarts \/ UNCHANGED opVars \/ \E o \in Op : Post(o)
  PROVE  OpsInv'
<1>1. UNCHANGED <<runs, gaveUp, opStatus>> /\ exec' \in Op \cup {NoOp}
  BY DEF Throws, Dies, Restarts, opVars, Post, OpsInv, OpTypes
<1>2. /\ post' \in [Op -> {"idle", "posted", "late", "lost", "over"}]
      /\ \A o \in Op : post[o] \in {"late", "over"} => post'[o] \in {"late", "over"}
  <2>1. CASE Throws
    BY <2>1 DEF Throws, OpsInv, OpTypes
  <2>2. CASE Dies
    BY <2>2 DEF Dies, OpsInv, OpTypes
  <2>3. CASE Restarts \/ UNCHANGED opVars
    BY <2>3 DEF Restarts, opVars, OpsInv, OpTypes
  <2>4. CASE \E o \in Op : Post(o)
    BY <2>4 DEF Post, OpsInv, OpTypes
  <2>. QED
    BY <2>1, <2>2, <2>3, <2>4
<1>3. \A o \in Op : Begun(opStatus, o) <= Begun(opStatus', o)
  BY <1>1 DEF Begun
<1>. QED
  BY <1>1, <1>2, <1>3, RestStep DEF OpsInv, OpTypes

\* The process that gives up does so once.
LEMMA RunHereStep == ASSUME OpsInv, NEW o \in Op, RunHere(o) PROVE OpsInv'
<1>1. /\ post[o] \in {"lost", "posted"}
      /\ post' = [post EXCEPT ![o] = "over"] \/ post' = [post EXCEPT ![o] = "late"]
      /\ runs' = [runs EXCEPT ![o] = @ + 1] /\ gaveUp' = gaveUp \cup {o}
      /\ UNCHANGED <<opStatus, exec>>
  BY DEF RunHere
<1>2. o \notin gaveUp
  BY <1>1 DEF OpsInv, GaveUpWaits
<1>3. OpTypes'
  BY <1>1 DEF OpsInv, OpTypes
<1>4. GaveUpWaits'
  BY <1>1 DEF OpsInv, OpTypes, GaveUpWaits
<1>5. Gave(o) = 0 /\ Gave(o)' = 1 /\ \A u \in Op \ {o} : Gave(u)' = Gave(u) /\ Gave(u) \in 0..1
  BY <1>1, <1>2 DEF Gave
<1>6. \A u \in Op : Begun(opStatus', u) = Begun(opStatus, u) /\ Begun(opStatus, u) \in 0..1
  BY <1>1 DEF Begun
<1>7. runs'[o] = runs[o] + 1 /\ runs[o] \in Nat /\ \A u \in Op \ {o} : runs'[u] = runs[u]
  BY <1>1 DEF OpsInv, OpTypes
<1>8. runs'[o] <= Begun(opStatus', o) + Gave(o)'
  BY <1>5, <1>6, <1>7 DEF OpsInv, RunsPaid
<1>9. \A u \in Op \ {o} : runs'[u] <= Begun(opStatus', u) + Gave(u)'
  BY <1>5, <1>6, <1>7 DEF OpsInv, RunsPaid
<1>10. RunsPaid'
  BY <1>8, <1>9 DEF RunsPaid, Begun
<1>. QED
  BY <1>3, <1>4, <1>10 DEF OpsInv

LEMMA OpsStep == ASSUME OpsInv, [OpsNext]_opVars PROVE OpsInv'
  BY ServeStep, TickBeginsStep, EndsStep, ClearStep, FaultStep, RunHereStep DEF OpsNext, Thread

-----------------------------------------------------------------------------
\* The file has a row at most once, and no row without a status; the thread
\* executes an operation only with the flag set, in a daemon that runs.
OpsFiled ==
  /\ opFile \in Seq(Op) /\ IsInjective(opFile)
  /\ \A o : InFile(opFile, o) => opStatus[o] # "none"
  /\ exec # NoOp => opBusy /\ opUp
  /\ opBusy \in BOOLEAN /\ opUp \in BOOLEAN /\ thrown \in BOOLEAN
  /\ servant \in Op \cup {NoOp} /\ faults \in 0..MaxFault

LEMMA BeginRows ==
  ASSUME NEW file, NEW status \in [Op -> Statuses], Begin(file, status)
  PROVE  \A o \in Op : status[o] # "none" => opStatus'[o] # "none"
<1>1. ASSUME NEW o \in FirstPending(file, status), opStatus' = [status EXCEPT ![o] = "running"]
      PROVE  \A u \in Op : status[u] # "none" => opStatus'[u] # "none"
  BY <1>1
<1>. QED
  BY <1>1 DEF Begin

\* A step that adds no row and takes no status away.
LEMMA FiledStep ==
  ASSUME OpsFiled, UNCHANGED opFile, \A o \in Op : opStatus[o] # "none" => opStatus'[o] # "none",
         exec' # NoOp => opBusy' /\ opUp',
         opBusy' \in BOOLEAN, opUp' \in BOOLEAN, thrown' \in BOOLEAN,
         servant' \in Op \cup {NoOp}, faults' \in 0..MaxFault
  PROVE  OpsFiled'
<1>1. \A o : InFile(opFile, o) => o \in Op
  BY DEF OpsFiled, InFile
<1>2. \A o : InFile(opFile', o) => opStatus'[o] # "none"
  BY <1>1 DEF OpsFiled
<1>. QED
  BY <1>2 DEF OpsFiled

LEMMA OpsFiledStep == ASSUME OpsInv, OpsFiled, [OpsNext]_opVars PROVE OpsFiled'
<1>1. opStatus \in [Op -> Statuses] /\ \A o : InFile(opFile, o) => o \in Op
  BY DEF OpsInv, OpTypes, OpsFiled, InFile
<1>2. ASSUME NEW o \in Op, Serve(o) PROVE OpsFiled'
  <2> DEFINE status == [opStatus EXCEPT ![o] = "pending"]
  <2>1. /\ opFile' = Append(opFile, o) /\ Begin(Append(opFile, o), status) /\ opStatus[o] = "none"
        /\ opBusy' = (opBusy \/ exec' # NoOp) /\ servant' = IF exec' = NoOp THEN NoOp ELSE o
        /\ opUp /\ UNCHANGED <<opUp, thrown, faults>>
    BY <1>2 DEF Serve
  <2>2. status \in [Op -> Statuses] /\ \A u \in Op : status[u] # "none" <=> u = o \/ opStatus[u] # "none"
    BY <1>1 DEF Statuses
  <2>. HIDE DEF status
  <2>3. ~InFile(opFile, o)
    BY <2>1 DEF OpsFiled
  <2>4. /\ opFile' \in Seq(Op) /\ IsInjective(opFile')
        /\ \A u : InFile(opFile', u) <=> InFile(opFile, u) \/ u = o
    BY <2>1, <2>3, AppendRow DEF OpsFiled
  <2>5. \A u \in Op : status[u] # "none" => opStatus'[u] # "none"
    BY <2>1, <2>2, BeginRows
  <2>6. \A u : InFile(opFile', u) => opStatus'[u] # "none"
    BY <1>1, <2>2, <2>4, <2>5 DEF OpsFiled
  <2>7. servant' \in Op \cup {NoOp} /\ opBusy' \in BOOLEAN /\ (exec' # NoOp => opBusy')
    BY <2>1
  <2>. QED
    BY <2>1, <2>4, <2>6, <2>7 DEF OpsFiled
<1>3. CASE TickBegins
  <2>1. /\ Begin(opFile, opStatus) /\ opBusy' = TRUE /\ servant' = NoOp /\ opUp
        /\ UNCHANGED <<opFile, opUp, thrown, faults>>
    BY <1>3 DEF TickBegins
  <2>2. \A u \in Op : opStatus[u] # "none" => opStatus'[u] # "none"
    BY <1>1, <2>1, BeginRows
  <2>. QED
    BY <2>1, <2>2, FiledStep DEF OpsFiled
<1>4. ASSUME NEW result \in {"done", "failed"}, Ends(result) PROVE OpsFiled'
  <2> DEFINE status == [opStatus EXCEPT ![exec] = result]
  <2>1. /\ exec # NoOp /\ opBusy' = (exec' # NoOp)
        /\ servant' = NoOp \/ servant' = servant
        /\ UNCHANGED <<opFile, opUp, thrown, faults>>
        /\ Begin(opFile, status) \/ opStatus' = status
    BY <1>4 DEF Ends
  <2>2. status \in [Op -> Statuses] /\ \A u \in Op : opStatus[u] # "none" => status[u] # "none"
    BY <1>1 DEF Statuses
  <2>. HIDE DEF status
  <2>3. \A u \in Op : opStatus[u] # "none" => opStatus'[u] # "none"
    BY <2>1, <2>2, BeginRows
  <2>4. opBusy' \in BOOLEAN
    BY <2>1
  <2>. QED
    BY <2>1, <2>3, <2>4, FiledStep DEF OpsFiled
<1>5. CASE Clear
  <2> DEFINE open == {o \in Op : opStatus[o] \in {"pending", "running"}}
  <2>1. /\ opFile' = Only(opFile, Op \ open)
        /\ opStatus' = [o \in Op |-> IF o \in open THEN "failed" ELSE opStatus[o]]
        /\ UNCHANGED <<opBusy, exec, servant, opUp, thrown, faults>>
    BY <1>5 DEF Clear
  <2>. HIDE DEF open
  <2>2. /\ opFile' \in Seq(Op) /\ IsInjective(opFile')
        /\ \A o : InFile(opFile', o) => InFile(opFile, o)
    BY <2>1, OnlyRows DEF OpsFiled
  <2>3. \A o : InFile(opFile', o) => opStatus'[o] # "none"
    BY <1>1, <2>1, <2>2 DEF OpsFiled
  <2>. QED
    BY <2>1, <2>2, <2>3 DEF OpsFiled
<1>6. CASE Throws \/ Dies
  <2>1. /\ exec' = NoOp /\ servant' = NoOp /\ UNCHANGED <<opFile, opStatus>>
        /\ opUp' \in {opUp, FALSE} /\ opBusy' \in {opBusy, FALSE} /\ thrown' \in BOOLEAN
        /\ faults < MaxFault /\ faults' = faults + 1
    BY <1>6 DEF Throws, Dies
  <2>2. opUp' \in BOOLEAN /\ opBusy' \in BOOLEAN
    BY <2>1 DEF OpsFiled
  <2>3. faults' \in 0..MaxFault
    BY <2>1, OpsAssumption DEF OpsFiled
  <2>. QED
    BY <2>1, <2>2, <2>3, FiledStep
<1>7. CASE Restarts
  BY <1>7, FiledStep DEF Restarts, OpsFiled
<1>8. ASSUME NEW o \in Op, Post(o) \/ RunHere(o) PROVE OpsFiled'
  BY <1>8, FiledStep DEF Post, RunHere, OpsFiled
<1>9. CASE UNCHANGED opVars
  BY <1>9, FiledStep DEF opVars, OpsFiled
<1>. QED
  BY <1>2, <1>3, <1>4, <1>5, <1>6, <1>7, <1>8, <1>9 DEF OpsNext, Thread

LEMMA OpsStart == ASSUME OpsInit PROVE OpsInv /\ OpsFiled
<1>1. OpsInv
  BY DEF OpsInit, OpsInv, OpTypes, GaveUpWaits, RunsPaid, Begun, Gave, Statuses
<1>2. opFile \in Seq(Op) /\ IsInjective(opFile) /\ \A o : ~InFile(opFile, o)
  BY DEF OpsInit, IsInjective, InFile
<1>3. faults \in 0..MaxFault /\ exec = NoOp /\ servant = NoOp
  BY OpsAssumption DEF OpsInit
<1>4. opBusy \in BOOLEAN /\ opUp \in BOOLEAN /\ thrown \in BOOLEAN
  BY DEF OpsInit
<1>. QED
  BY <1>1, <1>2, <1>3, <1>4 DEF OpsFiled

LEMMA OpsInvariant == OpsInit /\ [][OpsNext]_opVars => [](OpsInv /\ OpsFiled)
<1>. QED
  BY OpsStart, OpsStep, OpsFiledStep, PTL

LEMMA OpsTypeFacts == ASSUME OpsInv, OpsFiled PROVE OpsTypeOK
  BY DEF OpsInv, OpTypes, Statuses, OpsFiled, OpsTypeOK

-----------------------------------------------------------------------------
LEMMA RunsFacts == ASSUME OpsInv PROVE RunsArePaidFor
<1> SUFFICES ASSUME NEW o \in Op PROVE runs[o] <= 1 + Gave(o)
  BY DEF RunsArePaidFor, Gave
<1>1. Begun(opStatus, o) \in 0..1 /\ Gave(o) \in 0..1 /\ runs[o] \in Nat
  BY DEF Begun, Gave, OpsInv, OpTypes
<1>. QED
  BY <1>1 DEF OpsInv, RunsPaid

(* The daemon marks a row before it executes it and never takes it up again, *)
(* whatever kills it and whoever clears it: a second execution is the work   *)
(* of the CLI process that submitted the operation, which runs it at most    *)
(* once.                                                                     *)
THEOREM RunsPaidFor == OpsSpec => []RunsArePaidFor
  BY OpsInvariant, RunsFacts, PTL DEF OpsSpec

-----------------------------------------------------------------------------
(* Connectivity: for every list of panes, every batch and every threshold.   *)
(* The flag recoveryRunning is the number of scripts, through both episodes, *)
(* chained scripts and acks.                                                 *)

ScriptNames == {"up", "smart", "wait"}

ScriptTypes == scripts \in [ScriptNames -> Nat] /\ running \in BOOLEAN

\* What the flag has to do with the scripts is inductive by itself.
ScriptInv == ScriptTypes /\ OneScript

\* Steps that touch neither flag nor scripts.
LEMMA UntouchedScripts == ASSUME ScriptInv, UNCHANGED <<running, scripts>> PROVE ScriptInv'
  BY DEF ScriptInv, ScriptTypes, OneScript

-----------------------------------------------------------------------------
(* updateRateLimitEpisode in a poll that has started the proxy's script (up) *)
(* or not: it starts one of its own only when none runs.                     *)
LEMMA RateEpisodeScripts ==
  ASSUME ScriptInv, NEW now, NEW anyRate \in BOOLEAN, NEW timers,
         RateEpisode(anyRate, running \/ RunsUp(now), RunsUp(now), timers)
  PROVE  ScriptInv'
<1> DEFINE busy == running \/ RunsUp(now)
           limit == RunsLimit(anyRate, busy)
<1>1. PICK s \in {"smart", "wait"} :
        scripts' = [k \in DOMAIN scripts |->
          scripts[k] + (IF k = "up" /\ RunsUp(now) THEN 1 ELSE 0) + (IF k = s /\ limit THEN 1 ELSE 0)]
  BY DEF RateEpisode
<1>2. scripts \in [ScriptNames -> Nat] /\ running \in BOOLEAN
  BY DEF ScriptInv, ScriptTypes
<1>3. RunsUp(now) \in BOOLEAN /\ limit \in BOOLEAN
  BY DEF RunsUp, RunsLimit, DownNow
<1>4. running' = (busy \/ limit)
  BY DEF RateEpisode
<1>5. RunsUp(now) => ~running
  BY DEF RunsUp
<1>6. limit => ~running /\ ~RunsUp(now)
  BY DEF RunsLimit
<1>7. /\ scripts'["up"] = scripts["up"] + (IF RunsUp(now) THEN 1 ELSE 0)
      /\ scripts'["smart"] = scripts["smart"] + (IF s = "smart" /\ limit THEN 1 ELSE 0)
      /\ scripts'["wait"] = scripts["wait"] + (IF s = "wait" /\ limit THEN 1 ELSE 0)
      /\ scripts' \in [ScriptNames -> Nat]
  BY <1>1, <1>2 DEF ScriptNames
<1>8. scripts["up"] \in Nat /\ scripts["smart"] \in Nat /\ scripts["wait"] \in Nat
  BY <1>2 DEF ScriptNames
<1>9. ScriptTypes'
  <2>1. running' \in BOOLEAN
    BY <1>2, <1>3, <1>4
  <2>. QED
    BY <2>1, <1>7 DEF ScriptTypes
<1>. HIDE DEF limit, busy
<1>10. CASE RunsUp(now)
  <2>1. ~limit
    BY <1>6, <1>10
  <2>2. running'
    BY <1>4, <1>10 DEF busy
  <2>3. ~running
    BY <1>5, <1>10
  <2>4. /\ scripts["up"] + scripts["smart"] + scripts["wait"] <= 1
        /\ scripts["up"] + scripts["smart"] + scripts["wait"] # 1
    BY <2>3 DEF OneScript, ScriptInv
  <2>5. scripts["up"] = 0 /\ scripts["smart"] = 0 /\ scripts["wait"] = 0
    BY <2>4, <1>8
  <2>6. scripts'["up"] = 1 /\ scripts'["smart"] = 0 /\ scripts'["wait"] = 0
    BY <2>1, <2>5, <1>7, <1>10
  <2>7. scripts'["up"] + scripts'["smart"] + scripts'["wait"] = 1
    BY <2>6
  <2>. QED
    BY <2>2, <2>7, <1>9 DEF OneScript, ScriptInv
<1>11. CASE limit
  <2>1. running'
    BY <1>4, <1>11
  <2>. QED
    BY <2>1, <1>6, <1>7, <1>8, <1>9, <1>11 DEF OneScript, ScriptInv
<1>12. CASE ~RunsUp(now) /\ ~limit
  <2>1. running' = running
    BY <1>4, <1>12, <1>2 DEF busy
  <2>2. \A k \in ScriptNames : scripts'[k] = scripts[k]
    BY <1>7, <1>8, <1>12 DEF ScriptNames
  <2>3. scripts' = scripts
    BY <2>2, <1>2, <1>7
  <2>. QED
    BY <2>1, <2>3, UntouchedScripts
<1>. QED
  BY <1>10, <1>11, <1>12

\* A poll, with the lock file of the wifi probe or without.
LEMMA PollKeeps == ASSUME ScriptInv, PollConnectivity PROVE ScriptInv'
<1> DEFINE found   == [p \in Pane |-> CacheOf(p)]
           now     == {p \in Pane : found[p] = "connect"}
           anyRate == \E p \in Pane : found[p] = "rate"
           up      == RunsUp(now)
           clears  == proxyDown /\ ~DownNow(now)
           timers  == cooling \cup (IF up THEN {"up"} ELSE {})
                              \cup (IF clears THEN {"rearm"} ELSE {})
<1>1. CASE wifiLock
  BY <1>1, UntouchedScripts DEF PollConnectivity
<1>2. CASE ~wifiLock
  <2>1. RateEpisode(anyRate, running \/ up, up, timers)
    BY <1>2 DEF PollConnectivity
  <2>2. anyRate \in BOOLEAN
    OBVIOUS
  <2>. HIDE DEF found, now, anyRate, timers
  <2>. QED
    BY <2>1, <2>2, RateEpisodeScripts
<1>. QED
  BY <1>1, <1>2

\* A script ends, and takes the flag with it.
LEMMA ScriptEnds ==
  ASSUME ScriptInv, NEW s \in ScriptNames, Ended(s), running' = FALSE PROVE ScriptInv'
<1>1. scripts \in [ScriptNames -> Nat]
  BY DEF ScriptInv, ScriptTypes
<1>2. scripts["up"] \in Nat /\ scripts["smart"] \in Nat /\ scripts["wait"] \in Nat
  BY <1>1 DEF ScriptNames
<1>3. scripts[s] > 0 /\ scripts' = [scripts EXCEPT ![s] = @ - 1]
  BY DEF Ended
<1>4. ScriptTypes'
  <2>1. scripts' \in [ScriptNames -> Nat]
    BY <1>1, <1>3 DEF ScriptNames
  <2>. QED
    BY <2>1 DEF ScriptTypes
<1>5. scripts["up"] + scripts["smart"] + scripts["wait"] <= 1
  BY DEF ScriptInv, OneScript
<1>6. scripts'["up"] + scripts'["smart"] + scripts'["wait"] = 0
  BY <1>1, <1>2, <1>3, <1>5 DEF ScriptNames
<1>. QED
  BY <1>4, <1>6 DEF ScriptInv, OneScript

\* The smart restart hands over to the wait for an address.
LEMMA SmartKeeps == ASSUME ScriptInv, SmartEnds PROVE ScriptInv'
<1>1. CASE Ended("smart") /\ running' = FALSE
  BY <1>1, ScriptEnds DEF ScriptNames
<1>2. CASE /\ scripts["smart"] > 0 /\ UNCHANGED running
           /\ scripts' = [scripts EXCEPT !["smart"] = @ - 1, !["wait"] = @ + 1]
  <2>1. scripts \in [ScriptNames -> Nat] /\ running \in BOOLEAN
    BY DEF ScriptInv, ScriptTypes
  <2>2. scripts["up"] \in Nat /\ scripts["smart"] \in Nat /\ scripts["wait"] \in Nat
    BY <2>1 DEF ScriptNames
  <2>3. ScriptTypes'
    <3>1. scripts' \in [ScriptNames -> Nat]
      BY <2>1, <2>2, <1>2 DEF ScriptNames
    <3>. QED
      BY <3>1, <2>1, <1>2 DEF ScriptTypes
  <2>4. scripts["up"] + scripts["smart"] + scripts["wait"] = 1 /\ running
    BY <2>2, <1>2 DEF ScriptInv, OneScript
  <2>5. scripts'["up"] + scripts'["smart"] + scripts'["wait"] = 1
    BY <2>1, <2>2, <2>4, <1>2 DEF ScriptNames
  <2>6. running'
    BY <2>4, <1>2
  <2>. QED
    BY <2>3, <2>5, <2>6 DEF ScriptInv, OneScript
<1>. QED
  BY <1>1, <1>2 DEF SmartEnds

\* Every step.
LEMMA ScriptStep == ASSUME ScriptInv, [ConnNext]_connVars PROVE ScriptInv'
<1>1. CASE PollConnectivity
  BY <1>1, PollKeeps
<1>2. CASE UpEnds
  BY <1>2, ScriptEnds DEF UpEnds, ScriptNames
<1>3. CASE WaitEnds
  BY <1>3, ScriptEnds DEF WaitEnds, ScriptNames
<1>4. CASE SmartEnds
  BY <1>4, SmartKeeps
<1>5. CASE ResumeWave
  BY <1>5, UntouchedScripts DEF ResumeWave
<1>6. CASE PollAcks
  BY <1>6, UntouchedScripts DEF PollAcks
<1>7. ASSUME NEW t \in Timers, Timer(t) PROVE ScriptInv'
  BY <1>7, UntouchedScripts DEF Timer
<1>8. CASE Change
  BY <1>8, UntouchedScripts DEF Change
<1>9. CASE UNCHANGED connVars
  BY <1>9, UntouchedScripts DEF connVars
<1>. QED
  BY <1>1, <1>2, <1>3, <1>4, <1>5, <1>6, <1>7, <1>8, <1>9 DEF ConnNext

-----------------------------------------------------------------------------
Seeings == {"fine", "connect", "rate", "cc", "blank"}
Limits  == {"no", "connect", "rate"}

\* The types of the rest, the borders of a transport failure among those of
\* all limits.
ConnTypes ==
  /\ shows \in [Pane -> Seeings] /\ offset \in 0..(Len(Panes) - 1)
  /\ cache \in [Pane -> Limits] /\ streak \in [Pane -> 0..ConnectThreshold]
  /\ ccSeen \subseteq Pane /\ connects \subseteq limited /\ limited \subseteq Pane
  /\ proxyDown \in BOOLEAN /\ episode \in BOOLEAN /\ recovered \in BOOLEAN
  /\ resumes \in BOOLEAN /\ carrier \in BOOLEAN /\ wifiLock \in BOOLEAN
  /\ cooling \subseteq Timers /\ wave \subseteq Pane /\ changes \in 0..MaxChange

LEMMA PanesScanned ==
  /\ Len(Panes) \in Nat \ {0} /\ ScanBatch \in Nat \ {0} /\ ConnectThreshold \in Nat \ {0}
  /\ ConnTypes => Scanned \subseteq Pane
<1>1. /\ Len(Panes) \in Nat \ {0} /\ DOMAIN Panes = 1..Len(Panes)
      /\ ScanBatch \in Nat \ {0} /\ ConnectThreshold \in Nat \ {0}
  BY ConnAssumption
<1>2. ASSUME ConnTypes PROVE Scanned \subseteq Pane
  <2>1. offset \in Nat
    BY <1>1, <1>2 DEF ConnTypes
  <2>2. \A i \in 0..(ScanBatch - 1) : ((offset + i) % Len(Panes)) + 1 \in DOMAIN Panes
    BY <1>1, <2>1
  <2>. QED
    BY <2>2 DEF Scanned, Pane
<1>. QED
  BY <1>1, <1>2

\* What a scan makes of a pane.
LEMMA ScanTypes ==
  ASSUME ConnTypes, NEW p \in Pane
  PROVE  StreakOf(p) \in 0..ConnectThreshold /\ CacheOf(p) \in Limits
<1>1. streak[p] \in 0..ConnectThreshold /\ cache[p] \in Limits /\ ConnectThreshold \in Nat \ {0}
  BY PanesScanned DEF ConnTypes
<1>2. StreakOf(p) \in 0..ConnectThreshold
  BY <1>1 DEF StreakOf
<1>3. CacheOf(p) \in Limits
  BY <1>1 DEF CacheOf, Limits
<1>. QED
  BY <1>2, <1>3

LEMMA PollTypes == ASSUME ConnTypes, PollConnectivity PROVE ConnTypes'
<1> DEFINE found   == [p \in Pane |-> CacheOf(p)]
           now     == {p \in Pane : found[p] = "connect"}
           anyRate == \E p \in Pane : found[p] = "rate"
           up      == RunsUp(now)
           clears  == proxyDown /\ ~DownNow(now)
           timers  == cooling \cup (IF up THEN {"up"} ELSE {})
                              \cup (IF clears THEN {"rearm"} ELSE {})
<1>1. found \in [Pane -> Limits] /\ [p \in Pane |-> StreakOf(p)] \in [Pane -> 0..ConnectThreshold]
  BY ScanTypes
<1>2. /\ offset' = NextOffset /\ ccSeen' = Seen
      /\ limited' = {p \in Pane : found[p] # "no"} /\ connects' = now
      /\ UNCHANGED <<wave, shows, carrier, wifiLock, changes>>
  BY DEF PollConnectivity, world
<1>3. offset' \in 0..(Len(Panes) - 1)
  <2>1. offset \in Nat /\ Len(Panes) \in Nat \ {0} /\ ScanBatch \in Nat
    BY PanesScanned DEF ConnTypes
  <2>. QED
    BY <1>2, <2>1 DEF NextOffset
<1>4. ccSeen' \subseteq Pane
  BY <1>2, PanesScanned DEF Seen, ConnTypes
<1>5. connects' \subseteq limited' /\ limited' \subseteq Pane
  BY <1>2
<1>6. DownNow(now) \in BOOLEAN /\ clears \in BOOLEAN /\ up \in BOOLEAN /\ anyRate \in BOOLEAN
  BY DEF DownNow, RunsUp, ConnTypes
<1>7. timers \subseteq Timers
  BY DEF ConnTypes, Timers
<1>8. CASE wifiLock
  <2>1. /\ cache' = found /\ streak' = [p \in Pane |-> StreakOf(p)] /\ proxyDown' = FALSE
        /\ UNCHANGED <<episode, recovered, cooling, resumes>>
    BY <1>8 DEF PollConnectivity
  <2>. HIDE DEF found
  <2>. QED
    BY <1>1, <1>2, <1>3, <1>4, <1>5, <2>1 DEF ConnTypes
<1>9. CASE ~wifiLock
  <2>1. /\ proxyDown' = DownNow(now)
        /\ cache' = [p \in Pane |-> IF clears /\ found[p] = "connect" THEN "no" ELSE found[p]]
        /\ streak' = [p \in Pane |-> IF clears THEN 0 ELSE StreakOf(p)]
        /\ resumes' = (resumes \/ clears)
        /\ RateEpisode(anyRate, running \/ up, up, timers)
    BY <1>9 DEF PollConnectivity
  <2>. HIDE DEF found, now, anyRate, up, clears, timers
  <2>2. cache' \in [Pane -> Limits]
    <3>1. \A p \in Pane : (IF clears /\ found[p] = "connect" THEN "no" ELSE found[p]) \in Limits
      BY <1>1 DEF Limits
    <3>. QED
      BY <2>1, <3>1
  <2>3. streak' \in [Pane -> 0..ConnectThreshold]
    <3>1. \A p \in Pane : (IF clears THEN 0 ELSE StreakOf(p)) \in 0..ConnectThreshold
      BY ScanTypes, PanesScanned
    <3>. QED
      BY <2>1, <3>1
  <2>4. proxyDown' \in BOOLEAN /\ resumes' \in BOOLEAN
    BY <1>6, <2>1 DEF ConnTypes
  <2>5. episode' \in BOOLEAN /\ recovered' \in BOOLEAN
    BY <1>6, <2>1 DEF RateEpisode, ConnTypes
  <2>6. cooling' \subseteq Timers
    BY <1>7, <2>1 DEF RateEpisode, Timers
  <2>. QED
    BY <1>2, <1>3, <1>4, <1>5, <2>2, <2>3, <2>4, <2>5, <2>6 DEF ConnTypes
<1>. QED
  BY <1>8, <1>9

LEMMA AckTypes == ASSUME ConnTypes, PollAcks PROVE ConnTypes'
<1> DEFINE works == {p \in wave : shows[p] = "fine"}
           had   == {p \in works : cache[p] # "no" \/ p \in limited}
           ends  == had # {} /\ \A p \in Pane \ had : cache[p] # "rate"
<1>1. /\ wave' \subseteq wave
      /\ cache' = [p \in Pane |-> IF p \in works THEN "no" ELSE cache[p]]
      /\ streak' = [p \in Pane |-> IF p \in works THEN 0 ELSE streak[p]]
      /\ limited' = limited \ works /\ connects' = connects \ works
      /\ episode' = (episode /\ ~ends) /\ recovered' = (recovered /\ ~ends)
      /\ cooling' = IF ends THEN cooling \ {"grace"} ELSE cooling
      /\ UNCHANGED <<offset, ccSeen, proxyDown, resumes, shows, carrier, wifiLock, changes>>
  BY DEF PollAcks, world
<1>. HIDE DEF works, ends
<1>2. cache' \in [Pane -> Limits] /\ streak' \in [Pane -> 0..ConnectThreshold]
  BY <1>1, PanesScanned DEF ConnTypes, Limits
<1>3. episode' \in BOOLEAN /\ recovered' \in BOOLEAN
  BY <1>1 DEF ConnTypes
<1>. QED
  BY <1>1, <1>2, <1>3 DEF ConnTypes

LEMMA ConnTypesStep == ASSUME ConnTypes, [ConnNext]_connVars PROVE ConnTypes'
<1>1. CASE UpEnds
  BY <1>1 DEF UpEnds, ConnTypes, world
<1>2. CASE WaitEnds
  BY <1>2 DEF WaitEnds, ConnTypes, world
<1>3. CASE SmartEnds
  BY <1>3 DEF SmartEnds, ConnTypes, world
<1>4. CASE ResumeWave
  BY <1>4 DEF ResumeWave, ConnTypes, world
<1>5. ASSUME NEW t \in Timers, Timer(t) PROVE ConnTypes'
  BY <1>5 DEF Timer, ConnTypes, world
<1>6. CASE Change
  <2>1. changes' \in 0..MaxChange
    BY <1>6, ConnAssumption DEF Change, ConnTypes
  <2>2. shows' \in [Pane -> Seeings] /\ carrier' \in BOOLEAN /\ wifiLock' \in BOOLEAN
    BY <1>6 DEF Change, ConnTypes, Seeings
  <2>. QED
    BY <1>6, <2>1, <2>2 DEF Change, ConnTypes
<1>7. CASE UNCHANGED connVars
  BY <1>7 DEF connVars, ConnTypes
<1>. QED
  BY <1>1, <1>2, <1>3, <1>4, <1>5, <1>6, <1>7, PollTypes, AckTypes DEF ConnNext

LEMMA ConnStart == ASSUME ConnInit PROVE ScriptInv /\ ConnTypes
<1>1. scripts = [s \in ScriptNames |-> 0] /\ running = FALSE
  BY DEF ConnInit, ScriptNames
<1>2. ScriptTypes
  BY <1>1 DEF ScriptTypes
<1>3. scripts["up"] + scripts["smart"] + scripts["wait"] = 0
  BY <1>1 DEF ScriptNames
<1>4. ScriptInv
  BY <1>1, <1>2, <1>3 DEF ScriptInv, OneScript
<1>5. 0 \in 0..(Len(Panes) - 1) /\ 0 \in 0..ConnectThreshold /\ 0 \in 0..MaxChange
  BY PanesScanned, ConnAssumption
<1>6. /\ shows \in [Pane -> Seeings] /\ cache \in [Pane -> Limits]
      /\ streak \in [Pane -> 0..ConnectThreshold]
  BY <1>5 DEF ConnInit, Seeings, Limits
<1>. QED
  BY <1>4, <1>5, <1>6 DEF ConnInit, ConnTypes

LEMMA ConnInvariant == ConnInit /\ [][ConnNext]_connVars => [](ScriptInv /\ ConnTypes)
<1>. QED
  BY ConnStart, ScriptStep, ConnTypesStep, PTL

LEMMA ConnTypeFacts == ASSUME ScriptInv, ConnTypes PROVE ConnTypeOK
  BY DEF ScriptInv, ScriptTypes, ScriptNames, ConnTypes, Seeings, Limits, ConnTypeOK

-----------------------------------------------------------------------------
(* One recovery script at a time touches the carrier, and recoveryRunning    *)
(* tells whether one does (maybeRunProxyUp, maybeRunOcLimitRecovery).        *)
THEOREM ScriptsAlone == ConnSpec => []OneScript
<1>1. ScriptInv => OneScript
  BY DEF ScriptInv
<1>. QED
  BY <1>1, ConnInvariant, PTL DEF ConnSpec

-----------------------------------------------------------------------------
(* The parts together *)

\* What the parts keep to, without their fairness.
PartsSafe ==
  /\ Init /\ [][Next]_vars
  /\ LifeInit /\ [][LifeNext]_lifeVars
  /\ OpsInit /\ [][OpsNext]_opVars
  /\ TargetsInit /\ [][TargetsNext]_tVars
  /\ ConnInit /\ [][ConnNext]_connVars

\* A step of the daemon is a step of one part and stutters in the others.
LEMMA PartStep ==
  ASSUME [DaemonNext]_AllVars
  PROVE  /\ [Next]_vars /\ [LifeNext]_lifeVars /\ [OpsNext]_opVars
         /\ [TargetsNext]_tVars /\ [ConnNext]_connVars
  BY DEF DaemonNext, AllVars, InboxPart, LifePart, OpsPart, TargetPart, LimitPart

(* Whatever holds of a part alone by what its steps do holds of it in the    *)
(* daemon.                                                                   *)
THEOREM PartsOfDaemon == DaemonSpec => PartsSafe
<1>1. DaemonInit => Init /\ LifeInit /\ OpsInit /\ TargetsInit /\ ConnInit
  BY DEF DaemonInit
<1>. QED
  BY <1>1, PartStep, PTL DEF DaemonSpec, PartsSafe

(* Every part keeps the types of its variables: the port has one listener,   *)
(* the files have each row once, clocks, counts and cooldowns stay within    *)
(* their ranges.                                                             *)
THEOREM DaemonTypes == DaemonSpec => []DaemonTypeOK
<1>1. TypeOK /\ LifeTypeOK /\ OpsTypeOK /\ TargetsTypeOK /\ ConnTypeOK => DaemonTypeOK
  BY DEF DaemonTypeOK
<1>. QED
  BY <1>1, PartsOfDaemon, InboxInvariant, LifeInvariant, ListenerTypes, OpsInvariant, OpsTypeFacts,
     TargetsInvariant, TargetsTypeFacts, ConnInvariant, ConnTypeFacts, PTL DEF PartsSafe

(* What each part is for, all at once: the inbox keeps what a mailbox        *)
(* promises, pastes once but for deaths of the daemon and each lane in the   *)
(* order the mail came; a stop that is done has left nobody who listens,     *)
(* operations run once but for CLI processes that gave up, targets are       *)
(* triaged once but for deaths and those who asked and stay settled but for  *)
(* handlers with an old copy, and one recovery script at a time touches the  *)
(* carrier.                                                                  *)
THEOREM DaemonPromises ==
  DaemonSpec =>
    /\ [](OncePerCrash /\ NoOvertaking /\ StopSticks /\ RunsArePaidFor /\ TriagedOnce /\ OneScript)
    /\ InboxKeepsMailbox /\ SettledTargetStays
<1>1. LifeInv => StopSticks
  BY DEF LifeInv, StopSeen, StopSticks
<1>2. ScriptInv => OneScript
  BY DEF ScriptInv
<1>3. OrderInv => NoOvertaking
  BY DEF OrderInv
<1>4. DaemonSpec => SettledTargetStays
  BY PartsOfDaemon, TargetsStart, TargetsStep, SettledStep, PTL DEF PartsSafe, SettledTargetStays
<1>. QED
  BY <1>1, <1>2, <1>3, <1>4, PartsOfDaemon, InboxPromise, PasteInvariant, PasteFacts, OrderInvariant,
     LifeInvariant, OpsInvariant, RunsFacts, TargetsInvariant, TriageFacts, ConnInvariant, PTL DEF PartsSafe

(* Mail that waits for the manager through a turn settles in the daemon too. *)
THEOREM DaemonSettles == ASSUME Settle > 0 PROVE DaemonSpec => WaitingMailSettles
  BY PartsOfDaemon, ClearedInit, ClearedStep, WaitingStep, InboxInvariant,
     PTL DEF PartsSafe, WaitingMailSettles
=============================================================================
