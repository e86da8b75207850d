------------------------------ MODULE Lifecycle ------------------------------
(***************************************************************************)
(* The supervisor, the daemon it keeps alive, and the CLI calls that start  *)
(* and stop them.  They meet in four places: the TCP port, the metadata     *)
(* file with the two pids, the stop file, and signals.                      *)
(*                                                                          *)
(* A supervisor does not look at the health of a child once it is up: a     *)
(* child that hangs keeps the port until somebody kills the listener.       *)
(* child[s] outlives its supervisor: it is then a daemon nobody restarts.   *)
(***************************************************************************)
EXTENDS Integers, FiniteSets

CONSTANTS
  Sup,      \* supervisor processes that may be started
  Cli,      \* CLI processes
  Stopper,  \* those that may run stopMeshInbox
  NoSup,
  MaxFail   \* bound: daemons that die, hang or are replaced by hot reload

ASSUME LifeAssumption == NoSup \notin Sup /\ Stopper \subseteq Cli /\ MaxFail \in Nat

VARIABLES
  sup,      \* none, boot, first (within the first spawnChild), watch, closing, mute or gone
  spawning, \* what spawnChild waits for: no (it does not run), port or health
  child,    \* the child of a supervisor: none, boot, up or hung
  meta,     \* the metadata file: a supervisor and (the supervisor of) a daemon
  stopFile,
  cli,      \* what a CLI process is doing
  named,    \* the metadata a stopping CLI has read
  stop,     \* history: no, asked or done, for a stop nothing has undone
  fails

lifeVars == <<sup, spawning, child, meta, stopFile, cli, named, stop, fails>>

Alive     == {s \in Sup : sup[s] \notin {"none", "gone"}}
Listening == {s \in Sup : child[s] \in {"up", "hung"}}
Healthy   == \E s \in Sup : child[s] = "up"
Metas     == [sup : Sup \cup {NoSup}, kid : Sup \cup {NoSup}]
NoMeta    == [sup |-> NoSup, kid |-> NoSup]

LifeTypeOK ==
  /\ sup \in [Sup -> {"none", "boot", "first", "watch", "closing", "mute", "gone"}]
  /\ spawning \in [Sup -> {"no", "port", "health"}]
  /\ child \in [Sup -> {"none", "boot", "up", "hung"}]
  /\ Cardinality(Listening) <= 1
  /\ meta \in Metas
  /\ stopFile \in BOOLEAN
  /\ cli \in [Cli -> {"idle", "starting", "asking", "stopping", "killing"}]
  /\ named \in [Cli -> Metas]
  /\ stop \in [Cli -> {"no", "asked", "done"}]
  /\ fails \in 0..MaxFail

LifeInit ==
  /\ sup = [s \in Sup |-> "none"] /\ spawning = [s \in Sup |-> "no"] /\ child = [s \in Sup |-> "none"]
  /\ meta = NoMeta /\ stopFile = FALSE
  /\ cli = [c \in Cli |-> "idle"] /\ named = [c \in Cli |-> NoMeta]
  /\ stop = [c \in Cli |-> "no"]
  /\ fails = 0

-----------------------------------------------------------------------------
(* The supervisor *)

SupRuns(s) == sup[s] \in {"first", "watch"}

\* Fault: spawnChild does not look for the stop file.
EnterSpawnBlind(s, runs) == sup' = [sup EXCEPT ![s] = runs] /\ spawning' = [spawning EXCEPT ![s] = "port"]

\* spawnChild: a stop file found here mutes the supervisor.  It goes on
\* running, and its signal handler takes a shutdown to be under way.
EnterSpawn(s, runs) ==
  IF stopFile THEN sup' = [sup EXCEPT ![s] = "mute"] /\ UNCHANGED spawning
  ELSE sup' = [sup EXCEPT ![s] = runs] /\ spawning' = [spawning EXCEPT ![s] = "port"]

\* spawnChild returns; after the first one the two intervals are set.
EndSpawn(s) ==
  /\ spawning' = [spawning EXCEPT ![s] = "no"]
  /\ sup' = [sup EXCEPT ![s] = IF @ = "first" THEN "watch" ELSE @]

\* main: the metadata, then the first spawnChild.
SupervisorBoots(s) ==
  /\ sup[s] = "boot"
  /\ meta' = [sup |-> s, kid |-> NoSup]
  /\ EnterSpawn(s, "first")
  /\ UNCHANGED <<child, stopFile, cli, named, stop, fails>>

\* Fault: no restart once a child has failed.
RespawnOnce(s) ==
  /\ sup[s] = "watch" /\ spawning[s] = "no" /\ child[s] = "none" /\ fails = 0
  /\ EnterSpawn(s, "watch")
  /\ UNCHANGED <<child, meta, stopFile, cli, named, stop, fails>>

\* The restart timer of a dead child, or the orphan-recover interval.
Respawn(s) ==
  /\ sup[s] = "watch" /\ spawning[s] = "no" /\ child[s] = "none"
  /\ EnterSpawn(s, "watch")
  /\ UNCHANGED <<child, meta, stopFile, cli, named, stop, fails>>

\* waitPortQuiet gives up: somebody healthy has the port.
PortStaysBusy(s) ==
  /\ spawning[s] = "port" /\ SupRuns(s) /\ Healthy
  /\ EndSpawn(s)
  /\ UNCHANGED <<child, meta, stopFile, cli, named, stop, fails>>

\* The port is quiet: nobody listens, the listener hangs, or a shutdown ended
\* the wait.
SpawnChild(s) ==
  /\ spawning[s] = "port"
  /\ ~Healthy \/ sup[s] = "closing"
  /\ spawning' = [spawning EXCEPT ![s] = "health"]
  /\ child' = [child EXCEPT ![s] = "boot"]
  /\ stop' = IF sup[s] = "closing" THEN [c \in Cli |-> "no"] ELSE stop
  /\ UNCHANGED <<sup, meta, stopFile, cli, named, fails>>

ChildListens(s) ==
  /\ child[s] = "boot" /\ Listening = {}
  /\ child' = [child EXCEPT ![s] = "up"]
  /\ UNCHANGED <<sup, spawning, meta, stopFile, cli, named, stop, fails>>

\* waitForHealth: the pid that answers is written down, not always that of the
\* supervisor's own child.
HealthSeen(s) ==
  /\ spawning[s] = "health" /\ EndSpawn(s)
  /\ \E k \in Sup : child[k] = "up" /\ meta' = [sup |-> s, kid |-> k]
  /\ UNCHANGED <<child, stopFile, cli, named, stop, fails>>

\* Nobody has become healthy in time, and the child is still there.
HealthMissing(s) ==
  /\ spawning[s] = "health" /\ SupRuns(s) /\ ~Healthy /\ child[s] # "none"
  /\ EndSpawn(s)
  /\ meta' = [sup |-> s, kid |-> s]
  /\ UNCHANGED <<child, stopFile, cli, named, stop, fails>>

\* The child is not there any more: its pid is read all the same, the promise
\* is rejected, and nobody catches that but the end of main.
SupervisorThrows(s) ==
  /\ spawning[s] = "health" /\ SupRuns(s) /\ ~Healthy /\ child[s] = "none"
  /\ spawning' = [spawning EXCEPT ![s] = "no"]
  /\ sup' = [sup EXCEPT ![s] = "gone"]
  /\ UNCHANGED <<child, meta, stopFile, cli, named, stop, fails>>

\* The daemons in D die.  The exit handler of a supervisor that still runs
\* writes the metadata without a daemon.
DaemonsDie(D) ==
  /\ child' = [s \in Sup |-> IF s \in D THEN "none" ELSE child[s]]
  /\ LET told == {s \in D : sup'[s] \in {"first", "watch", "closing"} /\ child[s] # "none"}
     IN  IF told = {} THEN UNCHANGED meta
         ELSE \E s \in told : meta' = [sup |-> s, kid |-> NoSup]   \* the last one to write

\* listen: EADDRINUSE
ChildRefused(s) ==
  /\ child[s] = "boot" /\ Listening # {}
  /\ UNCHANGED <<sup, spawning, stopFile, cli, named, stop, fails>>
  /\ DaemonsDie({s})

\* A crash, or SIGTERM from the hot reload of the bundle.
ChildDies(s) ==
  /\ child[s] \in {"boot", "up"}
  /\ fails < MaxFail /\ fails' = fails + 1
  /\ UNCHANGED <<sup, spawning, stopFile, cli, named, stop>>
  /\ DaemonsDie({s})

ChildHangs(s) ==
  /\ child[s] = "up"
  /\ fails < MaxFail /\ fails' = fails + 1
  /\ child' = [child EXCEPT ![s] = "hung"]
  /\ UNCHANGED <<sup, spawning, meta, stopFile, cli, named, stop>>

\* One of the two intervals finds the stop file.  A child that hangs does not
\* hear SIGTERM, and the SIGKILL is set for a time when the supervisor has
\* already exited.
SeesStopFile(s) ==
  /\ sup[s] = "watch" /\ stopFile
  /\ sup' = [sup EXCEPT ![s] = "closing"]
  /\ stopFile' = FALSE
  /\ DaemonsDie({k \in {s} : child[k] # "hung"})
  /\ UNCHANGED <<spawning, cli, named, stop, fails>>

\* The exit timer.
SupervisorExits(s) ==
  /\ sup[s] = "closing"
  /\ sup' = [sup EXCEPT ![s] = "gone"]
  /\ spawning' = [spawning EXCEPT ![s] = "no"]
  /\ UNCHANGED <<child, meta, stopFile, cli, named, stop, fails>>

-----------------------------------------------------------------------------
(* The CLI *)

\* probeInbox says wedged: ensureMeshInbox and restartMeshInbox kill the
\* listener.
CliUnwedges(c) ==
  /\ cli[c] = "idle" /\ Listening # {} /\ ~Healthy
  /\ UNCHANGED <<sup, spawning, stopFile, cli, named, stop, fails>>
  /\ DaemonsDie(Listening)

\* startMeshInbox: nobody answers, and no supervisor lives, or the one that
\* does has not brought up a daemon in ten seconds.
CliFindsNobody(c) ==
  /\ cli[c] = "idle" /\ ~Healthy
  /\ \E s \in Sup : sup[s] = "none"
  /\ cli' = [cli EXCEPT ![c] = "starting"]
  /\ UNCHANGED <<sup, spawning, child, meta, stopFile, named, stop, fails>>

\* It removes the stop file and starts a supervisor, one more if need be.
CliStarts(c) ==
  /\ cli[c] = "starting"
  /\ cli' = [cli EXCEPT ![c] = "idle"]
  /\ stopFile' = FALSE
  /\ stop' = [d \in Cli |-> "no"]
  /\ IF \E s \in Sup : sup[s] = "none"
     THEN \E s \in Sup : sup[s] = "none" /\ sup' = [sup EXCEPT ![s] = "boot"]
     ELSE UNCHANGED sup   \* bound
  /\ UNCHANGED <<spawning, child, meta, named, fails>>

\* Two supervisors, one the metadata does not name, or a daemon without
\* supervisor that does not listen yet.
OutOfSight ==
  \/ \E s, r \in Sup : s # r /\ {sup[s], sup[r]} \subseteq {"boot", "first", "watch"}
  \/ \E s \in Sup : SupRuns(s) /\ s # meta.sup
  \/ \E s \in Sup : sup[s] \in {"closing", "gone"} /\ child[s] = "boot"

\* stopMeshInbox: the stop file, then the metadata.
CliStops(c) ==
  /\ c \in Stopper /\ cli[c] = "idle"
  /\ stopFile' = TRUE
  /\ named' = [named EXCEPT ![c] = meta]
  /\ cli' = [cli EXCEPT ![c] = "asking"]
  /\ stop' = IF OutOfSight THEN [d \in Cli |-> "no"] ELSE [stop EXCEPT ![c] = "asked"]
  /\ UNCHANGED <<sup, spawning, child, meta, fails>>

\* SIGTERM to the supervisor and to the daemon the metadata named.  The
\* supervisor shuts down, dies of it when it has no handler yet, or ignores it.
CliTerminates(c) ==
  /\ cli[c] = "asking"
  /\ cli' = [cli EXCEPT ![c] = "stopping"]
  /\ LET s    == named[c].sup
         shut == s \in Sup /\ SupRuns(s)
         hear == {k \in Sup : child[k] # "hung" /\ (k = named[c].kid \/ (shut /\ k = s))}
     IN  /\ sup' = [r \in Sup |-> IF r # s THEN sup[r]
                                  ELSE IF shut THEN "closing"
                                  ELSE IF sup[r] = "boot" THEN "gone" ELSE sup[r]]
         /\ stopFile' = (stopFile /\ ~shut)
         /\ DaemonsDie(hear)
  /\ UNCHANGED <<spawning, named, stop, fails>>

\* The port stays open: SIGKILL to both, and to whoever listens.
CliKills(c) ==
  /\ cli[c] = "stopping" /\ Listening # {}
  /\ cli' = [cli EXCEPT ![c] = "killing"]
  /\ sup' = [s \in Sup |-> IF s = named[c].sup /\ s \in Alive THEN "gone" ELSE sup[s]]
  /\ spawning' = [s \in Sup |-> IF s = named[c].sup THEN "no" ELSE spawning[s]]
  /\ DaemonsDie(Listening \cup {k \in Sup : k = named[c].kid})
  /\ UNCHANGED <<stopFile, named, stop, fails>>

\* The port is down, or a last kill has been tried.
CliStopped(c) ==
  /\ cli[c] \in {"stopping", "killing"}
  /\ cli[c] = "stopping" => Listening = {}
  /\ cli' = [cli EXCEPT ![c] = "idle"]
  /\ stop' = [stop EXCEPT ![c] = IF @ = "asked" THEN "done" ELSE @]
  /\ child' = [s \in Sup |-> IF s \in Listening THEN "none" ELSE child[s]]
  /\ meta' = NoMeta
  /\ named' = [named EXCEPT ![c] = NoMeta]
  /\ UNCHANGED <<sup, spawning, stopFile, fails>>

-----------------------------------------------------------------------------
SupSteps(s) ==
  \/ SupervisorBoots(s) \/ Respawn(s) \/ PortStaysBusy(s) \/ SpawnChild(s)
  \/ ChildListens(s) \/ ChildRefused(s) \/ HealthSeen(s) \/ HealthMissing(s) \/ SupervisorThrows(s)
  \/ SeesStopFile(s) \/ SupervisorExits(s)

CliSteps(c) ==
  \/ CliUnwedges(c) \/ CliFindsNobody(c) \/ CliStarts(c)
  \/ CliStops(c) \/ CliTerminates(c) \/ CliKills(c) \/ CliStopped(c)

LifeNext ==
  \/ \E s \in Sup : SupSteps(s) \/ ChildDies(s) \/ ChildHangs(s)
  \/ \E c \in Cli : CliSteps(c)

LifeFairness == \A s \in Sup : WF_lifeVars(SupSteps(s))
LifeSpec == LifeInit /\ [][LifeNext]_lifeVars /\ LifeFairness

-----------------------------------------------------------------------------
(* What the supervisor is for *)

\* As long as a supervisor watches, no daemon hangs and nobody runs a stop,
\* there is a healthy daemon again and again: a dead child, a refused port and
\* a port that stays busy all lead to another attempt.
KeepsServing ==
  \A s \in Sup :
    <>[](/\ SupRuns(s)
         /\ \A k \in Sup : child[k] # "hung"
         /\ \A c \in Cli : cli[c] \in {"idle", "starting"}) => []<>Healthy

\* After stopMeshInbox has said so, and until the next start, no daemon comes
\* up: not from a supervisor that was booting, restarting a child or waiting
\* for the port.  A stop that is undone does not count: two supervisors (one
\* removes the stop file of the other), a supervisor the metadata does not
\* name, and a shutdown during waitPortQuiet, which ends the wait and spawns.
StopSticks == (\E c \in Cli : stop[c] = "done") => Listening = {}

\* What the comment at the orphan-recover interval says: the supervisor stays
\* alive even if spawnChild throws once.  So it ends in a shutdown, or killed
\* by a CLI process.
SupervisorStays ==
  [][\A s \in Sup : SupRuns(s) /\ sup'[s] = "gone" => \E c \in Cli : cli'[c] = "killing"]_lifeVars

=============================================================================
