--------------------------- MODULE LifecycleProofs ---------------------------
(***************************************************************************)
(* Theorems about Lifecycle, for any number of supervisors, of CLI          *)
(* processes that start and stop them, and of daemons that die or hang.     *)
(***************************************************************************)
EXTENDS Lifecycle, FiniteSetTheorems, TLAPS

LifeTypes ==
  /\ sup \in [Sup -> {"none", "boot", "first", "watch", "closing", "mute", "gone"}]
  /\ spawning \in [Sup -> {"no", "port", "health"}]
  /\ child \in [Sup -> {"none", "boot", "up", "hung"}]
  /\ meta \in Metas /\ stopFile \in BOOLEAN
  /\ cli \in [Cli -> {"idle", "starting", "asking", "stopping", "killing"}]
  /\ named \in [Cli -> Metas] /\ stop \in [Cli -> {"no", "asked", "done"}]
  /\ fails \in 0..MaxFail

\* The port has one listener.
OneListens == \A s, r \in Sup : {child[s], child[r]} \subseteq {"up", "hung"} => s = r

\* A supervisor that has not begun has no child and waits for none, and only
\* one that runs or shuts down is within spawnChild.
Youth ==
  \A s \in Sup :
    /\ sup[s] \in {"none", "boot"} => child[s] = "none"
    /\ sup[s] = "mute" => child[s] # "boot"
    /\ spawning[s] # "no" => sup[s] \in {"first", "watch", "closing"}

\* The metadata names a supervisor that has begun.
MetaBegun == meta.sup \in Sup => sup[meta.sup] \notin {"none", "boot"}

\* So does what a stopping CLI process has read, and after its SIGTERM that
\* supervisor does not run any more.
NamedBegun ==
  \A c \in Cli : cli[c] \in {"asking", "stopping", "killing"} /\ named[c].sup \in Sup =>
    /\ sup[named[c].sup] \notin {"none", "boot"}
    /\ cli[c] # "asking" => ~SupRuns(named[c].sup)

Stopping == \E c \in Cli : stop[c] # "no"

\* While a stop counts there is one supervisor at most, it finds the stop file
\* wherever it looks for it, and a daemon that boots is its child.
OneToStop ==
  Stopping =>
    /\ \A s, r \in Sup : {sup[s], sup[r]} \subseteq {"boot", "first", "watch"} => s = r
    /\ \A s \in Sup : sup[s] \in {"boot", "first", "watch"} => stopFile
    /\ \A s \in Sup : child[s] = "boot" => SupRuns(s)

\* A stop that counts is under way or done; the process that has asked has read
\* the name of the supervisor that runs; after its SIGTERM none runs; when it is
\* done nobody listens.
StopSeen ==
  \A c \in Cli :
    /\ stop[c] = "asked" => cli[c] \in {"asking", "stopping", "killing"}
    /\ stop[c] = "asked" /\ cli[c] = "asking" => \A s \in Sup : SupRuns(s) => named[c].sup = s
    /\ stop[c] = "done" \/ (stop[c] = "asked" /\ cli[c] # "asking") => \A s \in Sup : ~SupRuns(s)
    /\ stop[c] = "done" => Listening = {}

LifeInv ==
  /\ LifeTypes /\ OneListens /\ Youth /\ MetaBegun /\ NamedBegun /\ OneToStop /\ StopSeen

-----------------------------------------------------------------------------
\* The daemons in D die: children are gone or as they were, and the metadata
\* changes only when a supervisor that runs or shuts down writes them.
LEMMA Deaths ==
  ASSUME LifeTypes, NEW D \in SUBSET Sup, DaemonsDie(D)
  PROVE  /\ child' \in [Sup -> {"none", "boot", "up", "hung"}] /\ meta' \in Metas
         /\ \A s \in Sup : child'[s] = IF s \in D THEN "none" ELSE child[s]
         /\ \/ meta' = meta
            \/ meta'.sup \in Sup /\ sup'[meta'.sup] \in {"first", "watch", "closing"}
<1> DEFINE told == {s \in D : sup'[s] \in {"first", "watch", "closing"} /\ child[s] # "none"}
<1>1. /\ child' = [s \in Sup |-> IF s \in D THEN "none" ELSE child[s]]
      /\ IF told = {} THEN UNCHANGED meta ELSE \E s \in told : meta' = [sup |-> s, kid |-> NoSup]
  BY DEF DaemonsDie
<1>2. child' \in [Sup -> {"none", "boot", "up", "hung"}]
  BY <1>1 DEF LifeTypes
<1>3. CASE told = {}
  BY <1>1, <1>3 DEF LifeTypes
<1>4. CASE told # {}
  <2>1. PICK s \in told : meta' = [sup |-> s, kid |-> NoSup]
    BY <1>1, <1>4
  <2>2. /\ meta'.sup = s /\ meta'.kid = NoSup
        /\ s \in Sup /\ sup'[s] \in {"first", "watch", "closing"}
    BY <2>1
  <2>3. meta' \in Metas
    BY <2>1, <2>2 DEF Metas
  <2>. QED
    BY <1>1, <1>2, <2>2, <2>3
<1>. QED
  BY <1>3, <1>4

LEMMA SupervisorBootsKeeps == ASSUME LifeInv, NEW s \in Sup, SupervisorBoots(s) PROVE LifeInv'
<1>1. LifeTypes'
  <2>1. meta' \in Metas
    BY DEF SupervisorBoots, Metas
  <2>2. /\ sup' \in [Sup -> {"none", "boot", "first", "watch", "closing", "mute", "gone"}]
        /\ spawning' \in [Sup -> {"no", "port", "health"}]
    BY DEF LifeInv, LifeTypes, SupervisorBoots, EnterSpawn
  <2>. QED
    BY <2>1, <2>2 DEF LifeInv, LifeTypes, SupervisorBoots
<1>2. OneListens'
  BY DEF LifeInv, SupervisorBoots, OneListens
<1>3. Youth'
  BY DEF LifeInv, LifeTypes, SupervisorBoots, EnterSpawn, Youth
<1>4. MetaBegun' /\ NamedBegun'
  BY DEF LifeInv, LifeTypes, SupervisorBoots, EnterSpawn, MetaBegun, NamedBegun, SupRuns
<1>5. OneToStop'
  BY DEF LifeInv, LifeTypes, SupervisorBoots, EnterSpawn, OneToStop, Stopping, SupRuns
<1>6. StopSeen'
  BY DEF LifeInv, LifeTypes, SupervisorBoots, EnterSpawn, OneToStop, Stopping, StopSeen, SupRuns,
         Listening
<1>. QED
  BY <1>1, <1>2, <1>3, <1>4, <1>5, <1>6 DEF LifeInv

LEMMA RespawnKeeps == ASSUME LifeInv, NEW s \in Sup, Respawn(s) PROVE LifeInv'
<1>1. LifeTypes'
  BY DEF LifeInv, Respawn, EnterSpawn, LifeTypes
<1>2. OneListens'
  BY DEF LifeInv, Respawn, OneListens
<1>3. Youth'
  BY DEF LifeInv, LifeTypes, Respawn, EnterSpawn, Youth
<1>4. MetaBegun' /\ NamedBegun'
  BY DEF LifeInv, LifeTypes, Respawn, EnterSpawn, MetaBegun, NamedBegun, SupRuns
<1>5. OneToStop'
  BY DEF LifeInv, LifeTypes, Respawn, EnterSpawn, OneToStop, Stopping, SupRuns
<1>6. StopSeen'
  BY DEF LifeInv, LifeTypes, Respawn, EnterSpawn, StopSeen, SupRuns
<1>. QED
  BY <1>1, <1>2, <1>3, <1>4, <1>5, <1>6 DEF LifeInv

LEMMA PortStaysBusyKeeps == ASSUME LifeInv, NEW s \in Sup, PortStaysBusy(s) PROVE LifeInv'
<1>1. LifeTypes'
  BY DEF LifeInv, PortStaysBusy, EndSpawn, LifeTypes
<1>2. OneListens'
  BY DEF LifeInv, PortStaysBusy, OneListens
<1>3. Youth'
  BY DEF LifeInv, PortStaysBusy, EndSpawn, Youth
<1>4. MetaBegun' /\ NamedBegun'
  BY DEF LifeInv, PortStaysBusy, EndSpawn, MetaBegun, NamedBegun, SupRuns
<1>5. OneToStop'
  BY DEF LifeInv, PortStaysBusy, EndSpawn, OneToStop, Stopping, SupRuns
<1>6. StopSeen'
  BY DEF LifeInv, PortStaysBusy, EndSpawn, StopSeen, SupRuns
<1>. QED
  BY <1>1, <1>2, <1>3, <1>4, <1>5, <1>6 DEF LifeInv

LEMMA SpawnChildKeeps == ASSUME LifeInv, NEW s \in Sup, SpawnChild(s) PROVE LifeInv'
<1>1. LifeTypes'
  BY DEF LifeInv, SpawnChild, LifeTypes
<1>2. OneListens'
  BY DEF LifeInv, SpawnChild, OneListens
<1>3. Youth'
  BY DEF LifeInv, SpawnChild, Youth
<1>4. MetaBegun' /\ NamedBegun'
  BY DEF LifeInv, SpawnChild, MetaBegun, NamedBegun, SupRuns
<1>5. OneToStop'
  BY DEF LifeInv, SpawnChild, Youth, OneToStop, Stopping, SupRuns
<1>6. StopSeen'
  BY DEF LifeInv, SpawnChild, StopSeen, SupRuns, Listening
<1>. QED
  BY <1>1, <1>2, <1>3, <1>4, <1>5, <1>6 DEF LifeInv

LEMMA ChildListensKeeps == ASSUME LifeInv, NEW s \in Sup, ChildListens(s) PROVE LifeInv'
<1>1. LifeTypes'
  BY DEF LifeInv, ChildListens, LifeTypes
<1>2. OneListens'
  BY DEF ChildListens, OneListens, Listening
<1>3. Youth'
  BY DEF LifeInv, ChildListens, Youth
<1>4. MetaBegun' /\ NamedBegun'
  BY DEF LifeInv, ChildListens, MetaBegun, NamedBegun, SupRuns
<1>5. OneToStop'
  BY DEF LifeInv, ChildListens, OneToStop, Stopping, SupRuns
<1>6. StopSeen'
  BY DEF LifeInv, ChildListens, OneToStop, Stopping, StopSeen, SupRuns
<1>. QED
  BY <1>1, <1>2, <1>3, <1>4, <1>5, <1>6 DEF LifeInv

LEMMA HealthSeenKeeps == ASSUME LifeInv, NEW s \in Sup, HealthSeen(s) PROVE LifeInv'
<1>1. LifeTypes'
  BY DEF LifeInv, HealthSeen, EndSpawn, LifeTypes, Metas
<1>2. OneListens'
  BY DEF LifeInv, HealthSeen, OneListens
<1>3. Youth'
  BY DEF LifeInv, HealthSeen, EndSpawn, Youth
<1>4. MetaBegun' /\ NamedBegun'
  BY DEF LifeInv, HealthSeen, EndSpawn, Youth, MetaBegun, NamedBegun, SupRuns
<1>5. OneToStop'
  BY DEF LifeInv, HealthSeen, EndSpawn, OneToStop, Stopping, SupRuns
<1>6. StopSeen'
  BY DEF LifeInv, HealthSeen, EndSpawn, StopSeen, SupRuns, Listening
<1>. QED
  BY <1>1, <1>2, <1>3, <1>4, <1>5, <1>6 DEF LifeInv

LEMMA HealthMissingKeeps == ASSUME LifeInv, NEW s \in Sup, HealthMissing(s) PROVE LifeInv'
<1>1. LifeTypes'
  BY DEF LifeInv, HealthMissing, EndSpawn, LifeTypes, Metas
<1>2. OneListens'
  BY DEF LifeInv, HealthMissing, OneListens
<1>3. Youth'
  BY DEF LifeInv, HealthMissing, EndSpawn, Youth
<1>4. MetaBegun' /\ NamedBegun'
  BY DEF LifeInv, HealthMissing, EndSpawn, MetaBegun, NamedBegun, SupRuns
<1>5. OneToStop'
  BY DEF LifeInv, HealthMissing, EndSpawn, OneToStop, Stopping, SupRuns
<1>6. StopSeen'
  BY DEF LifeInv, HealthMissing, EndSpawn, StopSeen, SupRuns
<1>. QED
  BY <1>1, <1>2, <1>3, <1>4, <1>5, <1>6 DEF LifeInv

LEMMA SupervisorThrowsKeeps == ASSUME LifeInv, NEW s \in Sup, SupervisorThrows(s) PROVE LifeInv'
<1>1. LifeTypes'
  BY DEF LifeInv, SupervisorThrows, LifeTypes
<1>2. OneListens'
  BY DEF LifeInv, SupervisorThrows, OneListens
<1>3. Youth'
  BY DEF LifeInv, LifeTypes, SupervisorThrows, Youth
<1>4. MetaBegun' /\ NamedBegun'
  BY DEF LifeInv, SupervisorThrows, MetaBegun, NamedBegun, SupRuns
<1>5. OneToStop'
  BY DEF LifeInv, SupervisorThrows, OneToStop, Stopping, SupRuns
<1>6. StopSeen'
  BY DEF LifeInv, SupervisorThrows, StopSeen, SupRuns
<1>. QED
  BY <1>1, <1>2, <1>3, <1>4, <1>5, <1>6 DEF LifeInv

\* Daemons die, and nothing else happens but that failures are counted.
LEMMA DeathsKeep ==
  ASSUME LifeInv, NEW D \in SUBSET Sup, DaemonsDie(D), fails' \in 0..MaxFail,
         UNCHANGED <<sup, spawning, stopFile, cli, named, stop>>
  PROVE  LifeInv'
<1>1. /\ child' \in [Sup -> {"none", "boot", "up", "hung"}] /\ meta' \in Metas
      /\ \A k \in Sup : child'[k] = IF k \in D THEN "none" ELSE child[k]
      /\ \/ meta' = meta
         \/ meta'.sup \in Sup /\ sup'[meta'.sup] \in {"first", "watch", "closing"}
  BY Deaths DEF LifeInv
<1>2. LifeTypes' /\ OneListens' /\ Youth'
  BY <1>1 DEF LifeInv, LifeTypes, OneListens, Youth
<1>3. MetaBegun' /\ NamedBegun'
  BY <1>1 DEF LifeInv, MetaBegun, NamedBegun, SupRuns
<1>4. OneToStop' /\ StopSeen'
  BY <1>1 DEF LifeInv, OneToStop, Stopping, StopSeen, SupRuns, Listening
<1>. QED
  BY <1>2, <1>3, <1>4 DEF LifeInv

LEMMA DeathsOnlyKeep ==
  ASSUME LifeInv,
         \/ \E s \in Sup : ChildRefused(s) \/ ChildDies(s)
         \/ \E c \in Cli : CliUnwedges(c)
  PROVE  LifeInv'
<1>1. ASSUME NEW s \in Sup, ChildRefused(s) \/ ChildDies(s) PROVE LifeInv'
  <2>1. {s} \in SUBSET Sup /\ DaemonsDie({s})
    BY <1>1 DEF ChildRefused, ChildDies
  <2>2. fails' \in 0..MaxFail /\ UNCHANGED <<sup, spawning, stopFile, cli, named, stop>>
    BY <1>1, LifeAssumption DEF ChildRefused, ChildDies, LifeInv, LifeTypes
  <2>. QED
    BY <2>1, <2>2, DeathsKeep
<1>2. ASSUME NEW c \in Cli, CliUnwedges(c) PROVE LifeInv'
  <2>1. Listening \in SUBSET Sup /\ DaemonsDie(Listening)
    BY <1>2 DEF CliUnwedges, Listening
  <2>2. fails' \in 0..MaxFail /\ UNCHANGED <<sup, spawning, stopFile, cli, named, stop>>
    BY <1>2 DEF CliUnwedges, LifeInv, LifeTypes
  <2>. QED
    BY <2>1, <2>2, DeathsKeep
<1>. QED
  BY <1>1, <1>2

LEMMA ChildHangsKeeps == ASSUME LifeInv, NEW s \in Sup, ChildHangs(s) PROVE LifeInv'
<1>1. LifeTypes'
  BY LifeAssumption DEF LifeInv, ChildHangs, LifeTypes
<1>2. OneListens'
  BY DEF LifeInv, ChildHangs, OneListens
<1>3. Youth'
  BY DEF LifeInv, ChildHangs, Youth
<1>4. MetaBegun' /\ NamedBegun'
  BY DEF LifeInv, ChildHangs, MetaBegun, NamedBegun, SupRuns
<1>5. OneToStop'
  BY DEF LifeInv, ChildHangs, OneToStop, Stopping, SupRuns
<1>6. StopSeen'
  BY DEF LifeInv, ChildHangs, StopSeen, SupRuns, Listening
<1>. QED
  BY <1>1, <1>2, <1>3, <1>4, <1>5, <1>6 DEF LifeInv

LEMMA SeesStopFileKeeps == ASSUME LifeInv, NEW s \in Sup, SeesStopFile(s) PROVE LifeInv'
<1>1. /\ child' \in [Sup -> {"none", "boot", "up", "hung"}] /\ meta' \in Metas
      /\ \A k \in Sup :
           child'[k] = IF k \in {r \in {s} : child[r] # "hung"} THEN "none" ELSE child[k]
      /\ \/ meta' = meta
         \/ meta'.sup \in Sup /\ sup'[meta'.sup] \in {"first", "watch", "closing"}
  BY Deaths DEF LifeInv, SeesStopFile
<1>2. LifeTypes'
  BY <1>1 DEF LifeInv, SeesStopFile, LifeTypes
<1>3. OneListens'
  BY <1>1 DEF LifeInv, OneListens
<1>4. Youth'
  BY <1>1 DEF LifeInv, SeesStopFile, Youth
<1>5. MetaBegun' /\ NamedBegun'
  BY <1>1 DEF LifeInv, SeesStopFile, MetaBegun, NamedBegun, SupRuns
<1>6. OneToStop'
  BY <1>1 DEF LifeInv, LifeTypes, SeesStopFile, OneToStop, Stopping, SupRuns
<1>7. StopSeen'
  BY DEF LifeInv, SeesStopFile, StopSeen, SupRuns
<1>. QED
  BY <1>2, <1>3, <1>4, <1>5, <1>6, <1>7 DEF LifeInv

LEMMA SupervisorExitsKeeps == ASSUME LifeInv, NEW s \in Sup, SupervisorExits(s) PROVE LifeInv'
<1>1. LifeTypes'
  BY DEF LifeInv, SupervisorExits, LifeTypes
<1>2. OneListens'
  BY DEF LifeInv, SupervisorExits, OneListens
<1>3. Youth'
  BY DEF LifeInv, LifeTypes, SupervisorExits, Youth
<1>4. MetaBegun' /\ NamedBegun'
  BY DEF LifeInv, SupervisorExits, MetaBegun, NamedBegun, SupRuns
<1>5. OneToStop'
  BY DEF LifeInv, SupervisorExits, OneToStop, Stopping, SupRuns
<1>6. StopSeen'
  BY DEF LifeInv, SupervisorExits, StopSeen, SupRuns, Listening
<1>. QED
  BY <1>1, <1>2, <1>3, <1>4, <1>5, <1>6 DEF LifeInv

LEMMA CliFindsNobodyKeeps == ASSUME LifeInv, NEW c \in Cli, CliFindsNobody(c) PROVE LifeInv'
<1>1. LifeTypes'
  BY DEF LifeInv, CliFindsNobody, LifeTypes
<1>2. OneListens'
  BY DEF LifeInv, CliFindsNobody, OneListens
<1>3. Youth'
  BY DEF LifeInv, CliFindsNobody, Youth
<1>4. MetaBegun' /\ NamedBegun'
  BY DEF LifeInv, CliFindsNobody, MetaBegun, NamedBegun, SupRuns
<1>5. OneToStop'
  BY DEF LifeInv, CliFindsNobody, OneToStop, Stopping, SupRuns
<1>6. StopSeen'
  BY DEF LifeInv, CliFindsNobody, StopSeen, SupRuns, Listening
<1>. QED
  BY <1>1, <1>2, <1>3, <1>4, <1>5, <1>6 DEF LifeInv

LEMMA CliStartsKeeps == ASSUME LifeInv, NEW c \in Cli, CliStarts(c) PROVE LifeInv'
<1>1. LifeTypes'
  BY LifeAssumption DEF LifeInv, CliStarts, LifeTypes, Metas, NoMeta
<1>2. OneListens'
  BY DEF LifeInv, CliStarts, OneListens
<1>3. Youth'
  BY DEF LifeInv, LifeTypes, CliStarts, Youth
<1>4. MetaBegun' /\ NamedBegun'
  BY DEF LifeInv, LifeTypes, CliStarts, MetaBegun, NamedBegun, SupRuns
<1>5. OneToStop'
  BY DEF CliStarts, OneToStop, Stopping
<1>6. StopSeen'
  BY DEF CliStarts, StopSeen
<1>. QED
  BY <1>1, <1>2, <1>3, <1>4, <1>5, <1>6 DEF LifeInv

LEMMA CliStopsKeeps == ASSUME LifeInv, NEW c \in Cli, CliStops(c) PROVE LifeInv'
<1>1. LifeTypes'
  BY DEF LifeInv, CliStops, LifeTypes
<1>2. OneListens'
  BY DEF LifeInv, CliStops, OneListens
<1>3. Youth'
  BY DEF LifeInv, CliStops, Youth
<1>4. MetaBegun' /\ NamedBegun'
  BY DEF LifeInv, LifeTypes, CliStops, MetaBegun, NamedBegun, SupRuns
<1>5. OneToStop'
  BY DEF LifeInv, LifeTypes, CliStops, OutOfSight, Youth, OneToStop, Stopping, SupRuns
<1>6. StopSeen'
  BY DEF LifeInv, LifeTypes, CliStops, OutOfSight, StopSeen, SupRuns, Listening
<1>. QED
  BY <1>1, <1>2, <1>3, <1>4, <1>5, <1>6 DEF LifeInv

LEMMA CliTerminatesKeeps == ASSUME LifeInv, NEW c \in Cli, CliTerminates(c) PROVE LifeInv'
<1> DEFINE s    == named[c].sup
           shut == s \in Sup /\ SupRuns(s)
           hear == {k \in Sup : child[k] # "hung" /\ (k = named[c].kid \/ (shut /\ k = s))}
<1>1. /\ child' \in [Sup -> {"none", "boot", "up", "hung"}] /\ meta' \in Metas
      /\ \A k \in Sup : child'[k] = IF k \in hear THEN "none" ELSE child[k]
      /\ \/ meta' = meta
         \/ meta'.sup \in Sup /\ sup'[meta'.sup] \in {"first", "watch", "closing"}
  BY Deaths DEF LifeInv, CliTerminates
<1>2. LifeTypes'
  BY <1>1 DEF LifeInv, CliTerminates, LifeTypes
<1>3. OneListens'
  BY <1>1 DEF LifeInv, OneListens
<1>4. Youth'
  BY <1>1 DEF LifeInv, LifeTypes, CliTerminates, Youth
<1>5. /\ \A k \in Sup : sup'[k] \in {"boot", "first", "watch"} => sup'[k] = sup[k] /\ k # s
      /\ \A k \in Sup : SupRuns(k)' => SupRuns(k) /\ k # s
      /\ \A k \in Sup : sup'[k] \in {"none", "boot"} => sup'[k] = sup[k]
      /\ \A d \in Cli \ {c} : cli'[d] = cli[d]
      /\ cli[c] = "asking" /\ cli'[c] = "stopping"
      /\ stopFile' = (stopFile /\ ~shut) /\ named' = named /\ stop' = stop
  BY DEF LifeInv, LifeTypes, CliTerminates, SupRuns
<1>6. MetaBegun' /\ NamedBegun'
  <2>1. \A k \in Sup : sup[k] \notin {"none", "boot"} => sup'[k] \notin {"none", "boot"}
    BY <1>5
  <2>2. MetaBegun'
    BY <1>1, <2>1 DEF LifeInv, MetaBegun
  <2>3. ASSUME NEW d \in Cli, cli'[d] \in {"asking", "stopping", "killing"}, named'[d].sup \in Sup
        PROVE  /\ sup'[named'[d].sup] \notin {"none", "boot"}
               /\ cli'[d] # "asking" => ~SupRuns(named[d].sup)'
    <3>1. CASE d = c
      BY <1>5, <2>1, <2>3, <3>1 DEF LifeInv, NamedBegun
    <3>2. CASE d # c
      BY <1>5, <2>1, <2>3, <3>2 DEF LifeInv, NamedBegun
    <3>. QED
      BY <3>1, <3>2
  <2>. QED
    BY <2>2, <2>3 DEF NamedBegun
<1>7. OneToStop'
  <2>. SUFFICES ASSUME Stopping'  PROVE OneToStop'
    BY DEF OneToStop
  <2>1. /\ \A k, r \in Sup : {sup[k], sup[r]} \subseteq {"boot", "first", "watch"} => k = r
        /\ \A k \in Sup : sup[k] \in {"boot", "first", "watch"} => stopFile
        /\ \A k \in Sup : child[k] = "boot" => SupRuns(k)
    BY <1>5 DEF LifeInv, OneToStop, Stopping
  <2>2. \A k, r \in Sup : {sup'[k], sup'[r]} \subseteq {"boot", "first", "watch"} => k = r
    BY <1>5, <2>1
  <2>3. ASSUME NEW k \in Sup, sup'[k] \in {"boot", "first", "watch"}  PROVE stopFile'
    <3>1. sup[k] \in {"boot", "first", "watch"} /\ k # s /\ stopFile
      BY <1>5, <2>1, <2>3
    <3>2. ~shut
      BY <2>1, <3>1 DEF SupRuns
    <3>. QED
      BY <1>5, <3>1, <3>2
  <2>4. ASSUME NEW k \in Sup, child'[k] = "boot"  PROVE SupRuns(k)'
    <3>1. child[k] = "boot" /\ k \notin hear
      BY <1>1, <2>4
    <3>2. SupRuns(k) /\ k # s
      BY <2>1, <3>1
    <3>3. sup'[k] = sup[k]
      BY <3>2 DEF CliTerminates
    <3>. QED
      BY <3>2, <3>3 DEF SupRuns
  <2>. QED
    BY <2>2, <2>3, <2>4 DEF OneToStop
<1>8. StopSeen'
  <2>. SUFFICES ASSUME NEW d \in Cli
                PROVE  /\ stop[d] = "asked" => cli'[d] \in {"asking", "stopping", "killing"}
                       /\ stop[d] = "asked" /\ cli'[d] = "asking"
                            => \A k \in Sup : SupRuns(k)' => named[d].sup = k
                       /\ stop[d] = "done" \/ (stop[d] = "asked" /\ cli'[d] # "asking")
                            => \A k \in Sup : ~SupRuns(k)'
                       /\ stop[d] = "done" => Listening' = {}
    BY <1>5 DEF StopSeen
  <2>1. /\ stop[d] = "asked" => cli[d] \in {"asking", "stopping", "killing"}
        /\ stop[d] = "asked" /\ cli[d] = "asking" => \A k \in Sup : SupRuns(k) => named[d].sup = k
        /\ stop[d] = "done" \/ (stop[d] = "asked" /\ cli[d] # "asking") => \A k \in Sup : ~SupRuns(k)
        /\ stop[d] = "done" => Listening = {}
    BY DEF LifeInv, StopSeen
  <2>2. Listening = {} => Listening' = {}
    BY <1>1 DEF Listening
  <2>3. CASE d = c
    BY <1>5, <2>1, <2>2, <2>3
  <2>4. CASE d # c
    BY <1>5, <2>1, <2>2, <2>4
  <2>. QED
    BY <2>3, <2>4
<1>. QED
  BY <1>2, <1>3, <1>4, <1>6, <1>7, <1>8 DEF LifeInv

LEMMA CliKillsKeeps == ASSUME LifeInv, NEW c \in Cli, CliKills(c) PROVE LifeInv'
<1>1. /\ child' \in [Sup -> {"none", "boot", "up", "hung"}] /\ meta' \in Metas
      /\ \A k \in Sup : child'[k] = IF k \in (Listening \cup {r \in Sup : r = named[c].kid})
                                    THEN "none" ELSE child[k]
      /\ \/ meta' = meta
         \/ meta'.sup \in Sup /\ sup'[meta'.sup] \in {"first", "watch", "closing"}
  BY Deaths DEF LifeInv, CliKills, Listening
<1>2. LifeTypes'
  BY <1>1 DEF LifeInv, CliKills, LifeTypes
<1>3. OneListens'
  BY <1>1 DEF LifeInv, OneListens
<1>4. Youth'
  BY <1>1 DEF LifeInv, CliKills, Youth
<1>5. MetaBegun' /\ NamedBegun'
  BY <1>1 DEF LifeInv, CliKills, MetaBegun, NamedBegun, SupRuns
<1>6. OneToStop'
  BY <1>1 DEF LifeInv, CliKills, NamedBegun, OneToStop, Stopping, SupRuns
<1>7. StopSeen'
  BY DEF LifeInv, CliKills, StopSeen, SupRuns
<1>. QED
  BY <1>2, <1>3, <1>4, <1>5, <1>6, <1>7 DEF LifeInv

LEMMA CliStoppedKeeps == ASSUME LifeInv, NEW c \in Cli, CliStopped(c) PROVE LifeInv'
<1>1. LifeTypes'
  BY DEF LifeInv, CliStopped, LifeTypes, Metas, NoMeta
<1>2. OneListens'
  BY DEF CliStopped, OneListens, Listening
<1>3. Youth'
  BY DEF LifeInv, CliStopped, Youth
<1>4. MetaBegun' /\ NamedBegun'
  BY LifeAssumption DEF LifeInv, NoMeta, CliStopped, MetaBegun, NamedBegun, SupRuns
<1>5. OneToStop'
  BY DEF LifeInv, CliStopped, OneToStop, Stopping, SupRuns
<1>6. StopSeen'
  BY DEF LifeInv, LifeTypes, CliStopped, StopSeen, SupRuns, Listening
<1>. QED
  BY <1>1, <1>2, <1>3, <1>4, <1>5, <1>6 DEF LifeInv

LEMMA LifeStep == ASSUME LifeInv, [LifeNext]_lifeVars PROVE LifeInv'
<1>1. CASE UNCHANGED lifeVars
  BY <1>1
     DEF lifeVars, LifeInv, LifeTypes, OneListens, Youth, MetaBegun, NamedBegun, OneToStop,
         Stopping, StopSeen, SupRuns, Listening
<1>2. ASSUME NEW s \in Sup, SupSteps(s) PROVE LifeInv'
  BY <1>2, SupervisorBootsKeeps, RespawnKeeps, PortStaysBusyKeeps, SpawnChildKeeps,
     ChildListensKeeps, DeathsOnlyKeep, HealthSeenKeeps, HealthMissingKeeps, SupervisorThrowsKeeps,
     SeesStopFileKeeps, SupervisorExitsKeeps
     DEF SupSteps
<1>3. ASSUME NEW s \in Sup, ChildDies(s) \/ ChildHangs(s) PROVE LifeInv'
  BY <1>3, DeathsOnlyKeep, ChildHangsKeeps
<1>4. ASSUME NEW c \in Cli, CliSteps(c) PROVE LifeInv'
  BY <1>4, DeathsOnlyKeep, CliFindsNobodyKeeps, CliStartsKeeps, CliStopsKeeps, CliTerminatesKeeps,
     CliKillsKeeps, CliStoppedKeeps
     DEF CliSteps
<1>. QED
  BY <1>1, <1>2, <1>3, <1>4 DEF LifeNext

LEMMA LifeStart == ASSUME LifeInit PROVE LifeInv
<1>1. LifeTypes
  <2>1. NoMeta \in Metas /\ fails \in 0..MaxFail
    BY LifeAssumption DEF LifeInit, NoMeta, Metas
  <2>2. sup \in [Sup -> {"none", "boot", "first", "watch", "closing", "mute", "gone"}]
    BY DEF LifeInit
  <2>3. spawning \in [Sup -> {"no", "port", "health"}] /\ child \in [Sup -> {"none", "boot", "up", "hung"}]
    BY DEF LifeInit
  <2>4. cli \in [Cli -> {"idle", "starting", "asking", "stopping", "killing"}]
    BY DEF LifeInit
  <2>5. named \in [Cli -> Metas] /\ stop \in [Cli -> {"no", "asked", "done"}]
    BY <2>1 DEF LifeInit
  <2>. QED
    BY <2>1, <2>2, <2>3, <2>4, <2>5 DEF LifeInit, LifeTypes
<1>2. OneListens /\ Youth
  BY DEF LifeInit, OneListens, Youth
<1>3. MetaBegun /\ NamedBegun
  BY LifeAssumption DEF LifeInit, NoMeta, MetaBegun, NamedBegun
<1>4. OneToStop /\ StopSeen
  BY DEF LifeInit, OneToStop, StopSeen
<1>. QED
  BY <1>1, <1>2, <1>3, <1>4 DEF LifeInv

LEMMA LifeInvariant == LifeInit /\ [][LifeNext]_lifeVars => []LifeInv
<1>. QED
  BY LifeStart, LifeStep, PTL

\* One listener is what the type invariant says of the port.
LEMMA ListenerTypes == LifeInv => LifeTypeOK
<1> SUFFICES ASSUME LifeInv PROVE LifeTypeOK
  OBVIOUS
<1>1. Listening = {} \/ \E s : Listening = {s}
  BY DEF LifeInv, OneListens, Listening
<1>2. Cardinality(Listening) <= 1
  BY <1>1, FS_EmptySet, FS_Singleton
<1>. QED
  BY <1>2 DEF LifeInv, LifeTypes, LifeTypeOK

-----------------------------------------------------------------------------
(* Two daemons never listen at once, and the states of supervisors, daemons  *)
(* and CLI processes are those the code knows.                               *)
THEOREM LifeTypesKept == LifeSpec => []LifeTypeOK
  BY LifeInvariant, ListenerTypes, PTL DEF LifeSpec

(* stopMeshInbox that has returned, of a supervisor it could see, has ended  *)
(* every daemon and every supervisor that would start one, whichever of the  *)
(* stop file, the signals and the kill reached it first.                     *)
THEOREM StopsStick == LifeSpec => []StopSticks
<1>1. LifeInv => StopSticks
  BY DEF LifeInv, StopSeen, StopSticks
<1>. QED
  BY <1>1, LifeInvariant, PTL DEF LifeSpec
=============================================================================
