------------------------------- MODULE Rooms --------------------------------
(***************************************************************************)
(* A chat room: its ledger ROOM.jsonl, the read marks in read-state.json,   *)
(* and the thin pings that tell the others there is something to read.      *)
(* Every `room say`, `room read` and `room tail` is a process.  The ledger  *)
(* is appended to under a lock nobody waits for; read-state.json is read,   *)
(* changed and written whole, without one.                                  *)
(***************************************************************************)
EXTENDS Naturals, Sequences, FiniteSets

CONSTANTS
  Agent,   \* who is in the room
  Msg,     \* lines; the process that says one is named after it
  Author,  \* who says a line
  Sync,    \* lines the daemon says: no lock, no fan-out
  NoMsg,
  MaxRead, \* bound: reads of the room
  MaxEra   \* bound: times the ping cooldown runs out

ASSUME RoomAssumption ==
  /\ IsFiniteSet(Msg) /\ Msg \cap Agent = {} /\ NoMsg \notin Msg
  /\ MaxRead \in Nat /\ MaxEra \in Nat \ {0}

VARIABLES
  log,      \* ROOM.jsonl
  ts,       \* the time stamp of a line; 0: not said
  holder,   \* who holds the lock of the ledger
  marks,    \* read-state.json: lastReadTs, lastReadId, lastThinNotifyAt
  say,      \* local: where the process of a line is
  thin,     \* local: agents its fan-out has still to record
  reader,   \* local: where an agent's read is
  copy,     \* local: read-state.json as a process has loaded it
  last,     \* local: the line a read found at the end of the ledger
  clock,    \* the clock that stamps
  era,      \* the clock of the cooldown: a ping lasts for its era
  pinged,   \* history: pings of an agent since its last read, in this era
  crowded,  \* history: two processes were at read-state.json at once
  reads

roomVars == <<log, ts, holder, marks, say, thin, reader, copy, last, clock, era,
              pinged, crowded, reads>>

Writer == Msg \cup Agent
Mark   == [ts : 0..Cardinality(Msg), id : Msg \cup {NoMsg}, thin : 0..MaxEra]

RoomTypeOK ==
  /\ log \in Seq(Msg) /\ ts \in [Msg -> 0..Cardinality(Msg)]
  /\ holder \in Msg \cup {NoMsg}
  /\ marks \in [Agent -> Mark] /\ copy \in [Writer -> [Agent -> Mark]]
  /\ say \in [Msg -> {"idle", "stamped", "locked", "fanout", "enqueue", "record", "save", "done"}]
  /\ thin \in [Msg -> SUBSET Agent]
  /\ reader \in [Agent -> {"idle", "load", "save"}]
  /\ last \in [Agent -> Msg \cup {NoMsg}]
  /\ clock \in 0..Cardinality(Msg) /\ era \in 1..MaxEra
  /\ pinged \in [Agent -> 0..Cardinality(Msg)]
  /\ crowded \in BOOLEAN /\ reads \in 0..MaxRead

Blank == [a \in Agent |-> [ts |-> 0, id |-> NoMsg, thin |-> 0]]

RoomInit ==
  /\ log = <<>> /\ ts = [m \in Msg |-> 0] /\ holder = NoMsg
  /\ marks = Blank /\ copy = [w \in Writer |-> Blank]
  /\ say = [m \in Msg |-> "idle"] /\ thin = [m \in Msg |-> {}]
  /\ reader = [a \in Agent |-> "idle"] /\ last = [a \in Agent |-> NoMsg]
  /\ clock = 0 /\ era = 1
  /\ pinged = [a \in Agent |-> 0]
  /\ crowded = FALSE /\ reads = 0

Moves(m, from, to) == say[m] = from /\ say' = [say EXCEPT ![m] = to]

\* At read-state.json: between looking at it and having written it.
Busy == {m \in Msg : say[m] \in {"enqueue", "record", "save"}}
          \cup {a \in Agent : reader[a] # "idle"}
Crowds(w) == crowded' = (crowded \/ Busy \ {w} # {})

-----------------------------------------------------------------------------
(* countUnseenMessages *)
UnseenBy(a, m) ==
  /\ Author[m] # a
  /\ \/ ts[m] > marks[a].ts
     \/ ts[m] = marks[a].ts /\ marks[a].id \notin {NoMsg, m}

Unseen(a) == {log[i] : i \in {j \in DOMAIN log : UnseenBy(a, log[j])}}

(* shouldSkipThinRoomNotify *)
SkipThin(a) == Unseen(a) = {} \/ marks[a].thin = era

-----------------------------------------------------------------------------
(* sayInRoom: the stamp is taken before the lock; two lines may have the same. *)
Stamp(m) == \E t \in {clock, clock + 1} \ {0} : ts' = [ts EXCEPT ![m] = t] /\ clock' = t

Stamps(m) ==
  /\ m \notin Sync /\ Moves(m, "idle", "stamped") /\ Stamp(m)
  /\ UNCHANGED <<log, holder, marks, thin, reader, copy, last, era, pinged, crowded, reads>>

\* A lock that is held makes the command fail: the line is not said.
Locks(m) ==
  /\ Moves(m, "stamped", IF holder = NoMsg THEN "locked" ELSE "done")
  /\ holder' = IF holder = NoMsg THEN m ELSE holder
  /\ UNCHANGED <<log, ts, marks, thin, reader, copy, last, clock, era, pinged, crowded, reads>>

Appends(m) ==
  /\ Moves(m, "locked", "fanout")
  /\ log' = Append(log, m) /\ holder' = NoMsg
  /\ UNCHANGED <<ts, marks, thin, reader, copy, last, clock, era, pinged, crowded, reads>>

(* sayInRoomSync *)
SaysSync(m) ==
  /\ m \in Sync /\ Moves(m, "idle", "done") /\ Stamp(m)
  /\ log' = Append(log, m)
  /\ UNCHANGED <<holder, marks, thin, reader, copy, last, era, pinged, crowded, reads>>

-----------------------------------------------------------------------------
(* fanOutRoomMessage, for the agents that are told thinly *)

\* Without an inbox the fan-out is skipped; the line is in the ledger.
Decides(m) ==
  /\ \/ /\ Moves(m, "fanout", "enqueue")
        /\ thin' = [thin EXCEPT ![m] = {a \in Agent \ {Author[m]} : ~SkipThin(a)}]
        /\ thin'[m] # {} /\ Crowds(m)
     \/ Moves(m, "fanout", "done") /\ UNCHANGED <<thin, crowded>>
  /\ UNCHANGED <<log, ts, holder, marks, reader, copy, last, clock, era, pinged, reads>>

Pinged(S) == [a \in Agent |-> IF a \in S THEN pinged[a] + 1 ELSE pinged[a]]

\* Fault: what the fallback has sent is not recorded.
EnqueuesUnrecorded(m) ==
  /\ \/ Moves(m, "enqueue", "record") /\ pinged' = Pinged(thin[m])
     \/ \E S \in SUBSET thin[m] : Moves(m, "enqueue", "done") /\ pinged' = Pinged(S)
  /\ UNCHANGED <<log, ts, holder, marks, thin, reader, copy, last, clock, era, crowded, reads>>

\* All at once, or one by one when the batch is refused; if any went through
\* all are recorded.
Enqueues(m) ==
  /\ \E S \in SUBSET thin[m] :
       /\ Moves(m, "enqueue", IF S = {} THEN "done" ELSE "record")
       /\ pinged' = Pinged(S)
       /\ thin' = IF S = {} THEN [thin EXCEPT ![m] = {}] ELSE thin
  /\ UNCHANGED <<log, ts, holder, marks, reader, copy, last, clock, era, crowded, reads>>

(* recordThinRoomNotify, for one agent after the other *)
RecordLoads(m) ==
  /\ Moves(m, "record", "save")
  /\ copy' = [copy EXCEPT ![m] = marks] /\ Crowds(m)
  /\ UNCHANGED <<log, ts, holder, marks, thin, reader, last, clock, era, pinged, reads>>

RecordSaves(m) ==
  /\ \E a \in thin[m] :
       /\ marks' = [copy[m] EXCEPT ![a].thin = era]
       /\ thin' = [thin EXCEPT ![m] = @ \ {a}]
       /\ Moves(m, "save", IF thin[m] = {a} THEN "done" ELSE "record")
  /\ copy' = [copy EXCEPT ![m] = Blank]
  /\ UNCHANGED <<log, ts, holder, reader, last, clock, era, pinged, crowded, reads>>

-----------------------------------------------------------------------------
(* markRoomRead: of `room read`, and of `room tail` after it has printed *)
ReadLists(a) ==
  /\ reads < MaxRead /\ reads' = reads + 1
  /\ reader[a] = "idle" /\ reader' = [reader EXCEPT ![a] = "load"]
  /\ last' = [last EXCEPT ![a] = IF log = <<>> THEN NoMsg ELSE log[Len(log)]]
  /\ Crowds(a)
  /\ UNCHANGED <<log, ts, holder, marks, say, thin, copy, clock, era, pinged>>

ReadLoads(a) ==
  /\ reader[a] = "load" /\ reader' = [reader EXCEPT ![a] = "save"]
  /\ copy' = [copy EXCEPT ![a] = marks]
  /\ UNCHANGED <<log, ts, holder, marks, say, thin, last, clock, era, pinged, crowded, reads>>

\* Fault: everybody's mark is put at the last line.
SavesForAll(a) ==
  /\ reader[a] = "save" /\ reader' = [reader EXCEPT ![a] = "idle"]
  /\ marks' = [b \in Agent |-> [ts |-> IF last[a] = NoMsg THEN clock ELSE ts[last[a]],
                                id |-> last[a], thin |-> 0]]
  /\ pinged' = [pinged EXCEPT ![a] = 0]
  /\ copy' = [copy EXCEPT ![a] = Blank] /\ last' = [last EXCEPT ![a] = NoMsg]
  /\ UNCHANGED <<log, ts, holder, say, thin, clock, era, crowded, reads>>

\* The new cursor has no lastThinNotifyAt.
ReadSaves(a) ==
  /\ reader[a] = "save" /\ reader' = [reader EXCEPT ![a] = "idle"]
  /\ marks' = [copy[a] EXCEPT ![a] = [ts |-> IF last[a] = NoMsg THEN clock ELSE ts[last[a]],
                                      id |-> last[a], thin |-> 0]]
  /\ pinged' = [pinged EXCEPT ![a] = 0]
  /\ copy' = [copy EXCEPT ![a] = Blank] /\ last' = [last EXCEPT ![a] = NoMsg]
  /\ UNCHANGED <<log, ts, holder, say, thin, clock, era, crowded, reads>>

\* Somebody's cooldown runs out.
CooldownEnds ==
  /\ era < MaxEra /\ \E a \in Agent : marks[a].thin = era
  /\ era' = era + 1
  /\ pinged' = [a \in Agent |-> 0]
  /\ UNCHANGED <<log, ts, holder, marks, say, thin, reader, copy, last, clock, crowded, reads>>

RoomNext ==
  \/ \E m \in Msg : Stamps(m) \/ Locks(m) \/ Appends(m) \/ SaysSync(m)
                      \/ Decides(m) \/ Enqueues(m) \/ RecordLoads(m) \/ RecordSaves(m)
  \/ \E a \in Agent : ReadLists(a) \/ ReadLoads(a) \/ ReadSaves(a)
  \/ CooldownEnds

RoomSpec == RoomInit /\ [][RoomNext]_roomVars

-----------------------------------------------------------------------------
(* Properties *)

(* While processes come to read-state.json one at a time, an agent is pinged *)
(* once a cooldown, unless it has read the room since.                       *)
PingsKeepCooldown == ~crowded => \A a \in Agent : pinged[a] <= 1

(* A line leaves an agent's unseen count only when that agent reads, as long *)
(* as no two processes are at the marks: nobody's read, ping or line clears  *)
(* another one's, in whatever order lines and stamps come.                   *)
OnlyReadingClears ==
  [][~crowded' => \A a \in Agent :
       reader'[a] = reader[a] => Unseen(a) \subseteq Unseen(a)']_roomVars
=============================================================================
