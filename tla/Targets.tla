------------------------------- MODULE Targets -------------------------------
(***************************************************************************)
(* Targets: goals with a deadline.  A tick reminds the operator of the due  *)
(* ones and mails them to the seats that triage, once.  HTTP handlers add,  *)
(* settle, remind and triage; the last two read a row, await, and write     *)
(* the row they read.                                                       *)
(***************************************************************************)
EXTENDS Integers, SequencesExt, RowFile

CONSTANTS
  Target,
  Goal,      \* the goal of each target
  Slices,    \* targets with a parent: adding one cancels no other
  Handler,   \* requests that remind or triage
  NoCopy,
  Budget,    \* TARGET_FIRE_BUDGET
  MaxAsk,    \* bound: reminds and triages by hand of a target
  MaxDeath   \* bound: deaths of the daemon within a tick

VARIABLES
  tFile,     \* TARGET.jsonl: the targets in file order
  tRow,      \* their rows: status, reminded, triaged
  overdue,   \* the targets whose deadline has passed
  reach,     \* the targets one of whose triage seats has a pane
  held,      \* the copy a handler holds across its await
  mails,     \* history: triage mails of a target
  asked,     \* history: reminds and triages of a target by hand
  deaths

tVars == <<tFile, tRow, overdue, reach, held, mails, asked, deaths>>

Rows == [status : {"none", "active", "done", "cancelled"}, reminded : BOOLEAN, triaged : BOOLEAN]
Copies == [id : Target, row : Rows, kind : {"remind", "triage"}]
Fresh == [status |-> "active", reminded |-> FALSE, triaged |-> FALSE]

ASSUME TargetsAssumption ==
  /\ IsFiniteSet(Handler) /\ NoCopy \notin Copies
  /\ {Budget, MaxAsk, MaxDeath} \subseteq Nat

TargetsTypeOK ==
  /\ tFile \in Seq(Target) /\ IsInjective(tFile)
  /\ tRow \in [Target -> Rows]
  /\ \A t \in Target : tRow[t].status # "none" <=> \E i \in DOMAIN tFile : tFile[i] = t
  /\ overdue \subseteq Target /\ reach \subseteq Target
  /\ held \in [Handler -> Copies \cup {NoCopy}]
  /\ mails \in [Target -> Nat] /\ asked \in [Target -> Nat]
  /\ deaths \in 0..MaxDeath

TargetsInit ==
  /\ tFile = <<>>
  /\ tRow = [t \in Target |-> [Fresh EXCEPT !.status = "none"]]
  /\ overdue = {} /\ reach \in SUBSET Target
  /\ held = [h \in Handler |-> NoCopy]
  /\ mails = [t \in Target |-> 0] /\ asked = [t \in Target |-> 0]
  /\ deaths = 0

\* Fault: a row keeps its place in the file.
UpsertInPlace(moved) == tFile

\* upsertTarget takes a row out and appends it: the rows moved, one by one in
\* file order, go to the end.
Upsert(moved) == Only(tFile, Target \ moved) \o Only(tFile, moved)

-----------------------------------------------------------------------------
(* HTTP *)

\* POST /targets.  A new scope cancels the active ones with its goal.
AddTarget(t) ==
  /\ tRow[t].status = "none"
  /\ tRow' = [u \in Target |->
       IF u = t THEN Fresh
       ELSE IF t \notin Slices /\ tRow[u].status = "active" /\ Goal[u] = Goal[t]
       THEN [tRow[u] EXCEPT !.status = "cancelled"] ELSE tRow[u]]
  /\ tFile' = Append(tFile, t)
  /\ UNCHANGED <<overdue, reach, held, mails, asked, deaths>>

\* Fault: the last one to ask decides.
MarkAnyStatus(t, status) ==
  /\ tRow[t].status # "none"
  /\ tRow' = [tRow EXCEPT ![t] = [@ EXCEPT !.status = status]]
  /\ tFile' = Upsert({t})
  /\ UNCHANGED <<overdue, reach, held, mails, asked, deaths>>

\* /targets/:id/done and /cancel
MarkTargetStatus(t, status) ==
  /\ tRow[t].status = "active"
  /\ tRow' = [tRow EXCEPT ![t] = [@ EXCEPT !.status = status]]
  /\ tFile' = Upsert({t})
  /\ UNCHANGED <<overdue, reach, held, mails, asked, deaths>>

\* /targets/:id/remind and /triage, to the await.  Any status will do.
FindTarget(h, t, kind) ==
  /\ held[h] = NoCopy /\ tRow[t].status # "none" /\ asked[t] < MaxAsk
  /\ held' = [held EXCEPT ![h] = [id |-> t, row |-> tRow[t], kind |-> kind]]
  /\ asked' = [asked EXCEPT ![t] = @ + 1]
  /\ UNCHANGED <<tFile, tRow, overdue, reach, mails, deaths>>

\* fireOneTarget: a toast, and mail to the triage seats if one can be reached.
Triages(t, row, force) == (force \/ ~row.triaged) /\ t \in reach

\* Fault: the mail leaves no mark on the row.
FiredUnmarked(t, row, force) == [row EXCEPT !.reminded = TRUE]

Fired(t, row, force) ==
  [status |-> row.status, reminded |-> TRUE, triaged |-> row.triaged \/ Triages(t, row, force)]

FireHeld(h) ==
  /\ held[h] # NoCopy
  /\ LET c == held[h]
     IN  /\ tRow' = [tRow EXCEPT ![c.id] = Fired(c.id, c.row, c.kind = "triage")]
         /\ tFile' = Upsert({c.id})
         /\ mails' = [mails EXCEPT ![c.id] = @ + IF Triages(c.id, c.row, c.kind = "triage") THEN 1 ELSE 0]
  /\ held' = [held EXCEPT ![h] = NoCopy]
  /\ UNCHANGED <<overdue, reach, asked, deaths>>

-----------------------------------------------------------------------------
(* The tick *)

Due == {i \in DOMAIN tFile : LET t == tFile[i] IN
          tRow[t].status = "active" /\ t \in overdue /\ ~(tRow[t].reminded /\ tRow[t].triaged)}
FirstDue(n) == {tFile[i] : i \in {j \in Due : Cardinality({k \in Due : k <= j}) <= n}}
Taken == FirstDue(Budget)

\* fireDueTargets: the rows of one reading of the file, in file order.  A death
\* leaves the later ones for another tick, and may fall between the mail of a
\* row and the row.
FireDue(fired, mailed) ==
  /\ tRow' = [t \in Target |-> IF t \in fired THEN Fired(t, tRow[t], FALSE) ELSE tRow[t]]
  /\ tFile' = Upsert(fired)
  /\ mails' = [t \in Target |-> mails[t] + IF t \in mailed /\ Triages(t, tRow[t], FALSE) THEN 1 ELSE 0]
  /\ UNCHANGED <<overdue, reach, asked>>

TargetTick == Due # {} /\ FireDue(Taken, Taken) /\ UNCHANGED <<held, deaths>>

TickCutShort ==
  /\ deaths < MaxDeath /\ deaths' = deaths + 1
  /\ \E n \in 1..Cardinality(Taken) : FireDue(FirstDue(n - 1), FirstDue(n))
  /\ held' = [h \in Handler |-> NoCopy]

-----------------------------------------------------------------------------
(* The world *)

DeadlinePasses(t) ==
  /\ t \notin overdue /\ overdue' = overdue \cup {t}
  /\ UNCHANGED <<tFile, tRow, reach, held, mails, asked, deaths>>

TargetsNext ==
  \/ \E t \in Target : AddTarget(t) \/ DeadlinePasses(t)
  \/ \E t \in Target : MarkTargetStatus(t, "done") \/ MarkTargetStatus(t, "cancelled")
  \/ \E h \in Handler, t \in Target : FindTarget(h, t, "remind") \/ FindTarget(h, t, "triage")
  \/ \E h \in Handler : FireHeld(h)
  \/ TargetTick \/ TickCutShort

TargetsSpec == TargetsInit /\ [][TargetsNext]_tVars /\ WF_tVars(TargetTick)

-----------------------------------------------------------------------------
(* What a target may count on *)

\* A due target is brought up in the end, however many others can be triaged
\* by nobody and stay due: what is fired goes to the end of the file.
DueIsBroughtUp ==
  \A t \in Target : []<>(tRow[t].status = "active" /\ t \in overdue => tRow[t].reminded)

\* A target that is done or cancelled stays so, but for a handler that has
\* read it while it was something else and writes that back.
SettledTargetStays ==
  [][\A t \in Target :
       tRow[t].status \in {"done", "cancelled"} /\ tRow'[t].status # tRow[t].status =>
         \E h \in Handler :
           held[h] # NoCopy /\ held[h].id = t /\ held[h].row.status = tRow'[t].status]_tVars

\* One triage mail for a deadline: a second one takes a death of the daemon
\* between mail and row, or somebody who asked for it.
TriagedOnce == \A t \in Target : mails[t] <= 1 + deaths + asked[t]

=============================================================================
