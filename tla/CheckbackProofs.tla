--------------------------- MODULE CheckbackProofs ---------------------------
(* Proofs about Checkback, for any rows, budget, cap and bounds. *)
EXTENDS Checkback, TLAPS

-----------------------------------------------------------------------------
(* The inductive invariant *)

\* The tries a row of the file may still make before it is armed again.
Owed(r, rec) == IF ~Active(rec) THEN 0
                ELSE IF Kind[r] = "coord" THEN MaxFires - rec.fires ELSE 1

\* A tick attends active rows only, each once.
TodoActive == IF pc = "fire" THEN \A r \in todo : Active(mem[r]) ELSE todo = {}

\* The tick's copy wakes no row.
MemFromSeen == pc = "fire" => \A r \in Id : Active(mem[r]) => Active(seen[r])

\* What the file still owes a row is paid for; while a tick runs, the file has
\* not yet been told of the one try the tick has made.
FileOwes ==
  \A r \in Id : (Finite(r) /\ r \notin clobbered) =>
    Owed(r, file[r]) <= credit[r] + crashes
                          + (IF pc = "fire" /\ r \notin todo THEN 1 ELSE 0)

MemOwes ==
  pc = "fire" =>
    \A r \in Id : (Finite(r) /\ r \notin clobbered) =>
      Owed(r, mem[r]) <= credit[r] + crashes

\* A cancelled row is active again in the file only after a clobbering write.
OffInFile == \A r \in off : r \in clobbered \/ ~Active(file[r])

\* The CLI edits rows that renew for ever or are never pasted.  As long as it
\* has not been used, only status rows change in the file behind a tick.
CliEdits ==
  /\ cli.op # "none" => ~Finite(cli.row)
  /\ edits = 0 => cli.op = "none" /\ (pc = "fire" => \A r \in Stale : Kind[r] = "status")

IInv == /\ TypeOK /\ TodoActive /\ MemFromSeen /\ FileOwes /\ MemOwes
        /\ OffInFile /\ CliEdits

-----------------------------------------------------------------------------
(* What the row operators keep *)

LEMMA DueInRow ==
  ASSUME NEW rec \in Rec, NEW n \in 0..Lag
  PROVE  /\ DueIn(n, rec) \in Rec
         /\ DueIn(n, rec).status = rec.status /\ DueIn(n, rec).fires = rec.fires
BY DEF Rec, DueIn

LEMMA RowOperators ==
  ASSUME NEW rec \in Rec
  PROVE  /\ Cancelled(rec) \in Rec /\ ~Active(Cancelled(rec))
         /\ Deferred(rec) \in Rec
         /\ Deferred(rec).status = rec.status /\ Deferred(rec).fires = rec.fires
         /\ Older(rec) \in Rec
         /\ Older(rec).status = rec.status /\ Older(rec).fires = rec.fires
<1>1. 0 \in 0..Lag /\ Lag \in 0..Lag /\ rec.wait \in 0..Lag
  BY BoundAssumption DEF Rec
<1>2. Cancelled(rec) \in Rec /\ ~Active(Cancelled(rec))
  <2>1. DueIn(0, rec) \in Rec
    BY <1>1, DueInRow
  <2> QED BY <2>1 DEF Cancelled, Rec, Active
<1>3. /\ Deferred(rec) \in Rec
      /\ Deferred(rec).status = rec.status /\ Deferred(rec).fires = rec.fires
  BY <1>1, DueInRow DEF Deferred
<1>4. /\ Older(rec) \in Rec
      /\ Older(rec).status = rec.status /\ Older(rec).fires = rec.fires
  <2>1. CASE rec.wait = 0
    BY <2>1 DEF Older
  <2>2. CASE rec.wait # 0
    <3>1. rec.wait - 1 \in 0..Lag
      BY <1>1, <2>2, BoundAssumption
    <3> QED BY <2>2, <3>1, DueInRow DEF Older
  <2> QED BY <2>1, <2>2
<1> QED BY <1>2, <1>3, <1>4

LEMMA FreshRow ==
  ASSUME NEW b \in BOOLEAN
  PROVE  Fresh(b) \in Rec /\ Fresh(b).fires = 0 /\ Active(Fresh(b))
BY BoundAssumption DEF Fresh, Rec, Active

LEMMA NoRowsType == NoRows \in [Id -> Rec] /\ \A r \in Id : ~Active(NoRows[r])
BY BoundAssumption DEF NoRows, Absent, Rec, Active

LEMMA RenewedRow ==
  ASSUME NEW r \in Id, NEW rec \in Rec, NEW aged \in BOOLEAN
  PROVE  /\ Renewed(r, rec, aged) \in Rec
         /\ \/ Renewed(r, rec, aged) = Deferred(rec) /\ Unbounded(r)
            \/ Renewed(r, rec, aged) = Cancelled(rec)
            \/ /\ Renewed(r, rec, aged).status = rec.status
               /\ Renewed(r, rec, aged).fires = rec.fires + 1
<1>1. CASE rec.renew /\ Unbounded(r)
  BY <1>1, RowOperators DEF Renewed
<1>2. CASE ~(rec.renew /\ Unbounded(r)) /\ rec.renew /\ rec.fires + 1 < MaxFires /\ ~aged
  <2> DEFINE next == [Deferred(rec) EXCEPT !.fires = rec.fires + 1]
  <2>1. Renewed(r, rec, aged) = next
    BY <1>2 DEF Renewed
  <2>2. rec.fires + 1 \in 0..(MaxFires - 1)
    BY <1>2, BoundAssumption DEF Rec
  <2>3. Deferred(rec) \in Rec /\ Deferred(rec).status = rec.status
    BY RowOperators
  <2>4. next \in Rec /\ next.status = rec.status /\ next.fires = rec.fires + 1
    BY <2>2, <2>3 DEF Rec
  <2> QED BY <2>1, <2>4
<1>3. CASE ~(rec.renew /\ Unbounded(r)) /\ ~(rec.renew /\ rec.fires + 1 < MaxFires /\ ~aged)
  BY <1>3, RowOperators DEF Renewed
<1> QED BY <1>1, <1>2, <1>3

LEMMA OwedNat ==
  ASSUME NEW r \in Id, NEW rec \in Rec
  PROVE  /\ Owed(r, rec) \in Nat
         /\ Active(rec) => Owed(r, rec) >= 1
         /\ ~Active(rec) => Owed(r, rec) = 0
         /\ Finite(r) => Owed(r, rec) <= PerArm(r)
BY BoundAssumption DEF Owed, Rec, PerArm

LEMMA PerArmNat == \A r \in Id : PerArm(r) \in Nat
BY BoundAssumption DEF PerArm

-----------------------------------------------------------------------------
(* Attending a row *)

\* One obligation is left to each way of attending a row: what its new record
\* owes is still paid for.
LEMMA AttendIInv ==
  ASSUME IInv, NEW r \in Id, Turn(r), NEW rec \in Rec, Rebind, Attend(r, rec),
         rung' \subseteq Id,
         credit' = credit \/ credit' = [credit EXCEPT ![r] = @ - 1],
         (Finite(r) /\ r \notin clobbered) => Owed(r, rec) <= credit'[r] + crashes
  PROVE  IInv'
<1> USE DEF IInv
<1>1. PICK moved \in BOOLEAN : Rebound(moved) /\ file' = Rows(moved)
  BY DEF Rebind
<1>2. /\ pc = "fire" /\ pc' = "fire" /\ r \in todo /\ todo' = todo \ {r}
      /\ mem' = [mem EXCEPT ![r] = rec] /\ left' = left - 1
      /\ UNCHANGED <<cli, off, arms, edits, crashes>>
  BY DEF Turn, Attend, bounds
<1>3. Active(mem[r])
  BY <1>2 DEF TodoActive
<1>4. clobbered \subseteq clobbered'
  BY <1>1 DEF Rebound
<1>5. \A q \in Id : mem'[q] = IF q = r THEN rec ELSE mem[q]
  BY <1>2 DEF TypeOK
<1>6. TypeOK'
  <2>1. file' \in [Id -> Rec] /\ mem' \in [Id -> Rec] /\ seen' \in [Id -> Rec]
    BY <1>1, <1>2 DEF TypeOK, Rebound, Rows
  <2>2. clobbered' \subseteq Id
    BY <1>1 DEF TypeOK, Rebound, Stale
  <2>3. credit' \in [Id -> Int]
    BY DEF TypeOK
  <2>4. left' \in 0..Budget
    BY <1>2, BoundAssumption DEF TypeOK, Turn
  <2> QED BY <1>2, <2>1, <2>2, <2>3, <2>4 DEF TypeOK
<1>7. TodoActive'
  BY <1>2, <1>5 DEF TodoActive, TypeOK
<1>8. MemFromSeen'
  BY <1>1, <1>2, <1>3, <1>5 DEF MemFromSeen, Rebound
<1>9. MemOwes'
  BY <1>2, <1>4, <1>5 DEF MemOwes, TypeOK
<1>10. FileOwes'
  <2> SUFFICES ASSUME NEW q \in Id, Finite(q), q \notin clobbered'
               PROVE  Owed(q, file'[q]) <= credit'[q] + crashes'
                                             + (IF q \notin todo' THEN 1 ELSE 0)
    BY <1>2 DEF FileOwes
  <2>1. q \notin clobbered
    BY <1>4
  <2>2. /\ Owed(q, mem[q]) <= credit[q] + crashes
        /\ Owed(q, file[q]) <= credit[q] + crashes + (IF q \notin todo THEN 1 ELSE 0)
    BY <1>2, <2>1 DEF FileOwes, MemOwes
  <2>3. Owed(q, mem[q]) \in Nat /\ Owed(q, file[q]) \in Nat
    BY OwedNat DEF TypeOK
  <2>4. file'[q] = mem[q] \/ file'[q] = file[q]
    BY <1>1 DEF Rows
  <2>5. credit[q] \in Int /\ credit'[q] \in Int /\ crashes \in Nat
    BY DEF TypeOK
  <2>6. CASE q = r
    <3>1. credit'[q] >= credit[q] - 1
      BY <2>5, <2>6 DEF TypeOK
    <3> QED BY <1>2, <2>2, <2>3, <2>4, <2>5, <2>6, <3>1
  <2>7. CASE q # r
    <3>1. credit'[q] = credit[q]
      BY <2>7 DEF TypeOK
    <3> QED BY <1>2, <2>2, <2>3, <2>4, <2>5, <2>7, <3>1
  <2> QED BY <2>6, <2>7
<1>11. OffInFile'
  BY <1>1, <1>2 DEF OffInFile, MemFromSeen, Rebound, Rows, Stale, TypeOK
<1>12. CliEdits'
  BY <1>1, <1>2 DEF CliEdits, Rebound, Rows, Stale
<1> QED BY <1>6, <1>7, <1>8, <1>9, <1>10, <1>11, <1>12

LEMMA PaidFor ==
  ASSUME IInv, NEW r \in Id, Turn(r), Finite(r), r \notin clobbered
  PROVE  /\ mem[r] \in Rec /\ Active(mem[r])
         /\ credit[r] \in Int /\ crashes \in Nat
         /\ Owed(r, mem[r]) <= credit[r] + crashes
         /\ Owed(r, mem[r]) >= 1
<1>1. mem[r] \in Rec /\ credit[r] \in Int /\ crashes \in Nat
  BY DEF IInv, TypeOK
<1>2. Active(mem[r])
  BY DEF IInv, TodoActive, Turn
<1>3. Owed(r, mem[r]) <= credit[r] + crashes
  BY DEF IInv, MemOwes, Turn
<1> QED BY <1>1, <1>2, <1>3, OwedNat

LEMMA FireRowIInv ==
  ASSUME IInv, NEW r \in Id,
         \/ DeferFailedFire(r) \/ CancelFire(r) \/ FireOnce(r) \/ CoordExpectDue(r)
         \/ RenewingFire(r) \/ SkipNudge(r)
  PROVE  IInv'
<1>1. mem[r] \in Rec /\ rung \subseteq Id /\ credit \in [Id -> Int] /\ crashes \in Nat
  BY DEF IInv, TypeOK
<1>2. CASE DeferFailedFire(r)
  <2>1. Owed(r, Deferred(mem[r])) = Owed(r, mem[r])
    BY <1>1, RowOperators DEF Owed, Active
  <2>2. credit' = credit /\ rung' = rung
    BY <1>2 DEF DeferFailedFire, history
  <2> QED BY <1>1, <1>2, <2>1, <2>2, RowOperators, PaidFor, AttendIInv DEF DeferFailedFire
<1>3. CASE CancelFire(r)
  <2>1. Owed(r, Cancelled(mem[r])) = 0
    BY <1>1, RowOperators DEF Owed
  <2>2. credit' = credit /\ rung' = rung
    BY <1>3 DEF CancelFire, history
  <2>3. Turn(r) /\ Rebind /\ Attend(r, Cancelled(mem[r]))
    BY <1>3 DEF CancelFire
  <2>4. (Finite(r) /\ r \notin clobbered) =>
          Owed(r, Cancelled(mem[r])) <= credit'[r] + crashes
    BY <1>1, <2>1, <2>2, <2>3, PaidFor, OwedNat
  <2>5. Cancelled(mem[r]) \in Rec
    BY <1>1, RowOperators
  <2> QED BY <1>1, <2>2, <2>3, <2>4, <2>5, AttendIInv
<1>4. ASSUME Turn(r), Rebind, Paste(r), Spend(r),
             Attend(r, Cancelled([mem[r] EXCEPT !.renew = FALSE]))
      PROVE  IInv'
  <2> DEFINE rec == Cancelled([mem[r] EXCEPT !.renew = FALSE])
  <2>1. [mem[r] EXCEPT !.renew = FALSE] \in Rec
    BY <1>1 DEF Rec
  <2>2. rec \in Rec /\ Owed(r, rec) = 0
    BY <2>1, RowOperators DEF Owed
  <2>3. /\ rung' \subseteq Id
        /\ credit' = [credit EXCEPT ![r] = @ - 1]
        /\ credit'[r] = credit[r] - 1
    BY <1>1, <1>4 DEF Paste, Spend
  <2>4. (Finite(r) /\ r \notin clobbered) => Owed(r, rec) <= credit'[r] + crashes
    BY <1>4, <2>2, <2>3, PaidFor, OwedNat
  <2> HIDE DEF rec
  <2>5. Attend(r, rec)
    BY <1>4 DEF rec
  <2> QED BY <1>4, <2>2, <2>3, <2>4, <2>5, AttendIInv
<1>5. CASE FireOnce(r)
  BY <1>4, <1>5 DEF FireOnce
<1>6. CASE CoordExpectDue(r)
  <2>1. CASE Paste(r) /\ Attend(r, Cancelled([mem[r] EXCEPT !.renew = FALSE]))
    BY <1>4, <1>6, <2>1 DEF CoordExpectDue
  <2>2. ASSUME NEW aged \in BOOLEAN, rung' = rung, Attend(r, Renewed(r, mem[r], aged))
        PROVE  IInv'
    <3> DEFINE rec == Renewed(r, mem[r], aged)
    <3>1. /\ rec \in Rec
          /\ \/ rec = Cancelled(mem[r])
             \/ rec.status = mem[r].status /\ rec.fires = mem[r].fires + 1
      BY <1>1, <1>6, RenewedRow DEF CoordExpectDue, Unbounded
    <3>2. /\ Turn(r) /\ Rebind
          /\ credit' = [credit EXCEPT ![r] = @ - 1] /\ credit'[r] = credit[r] - 1
      BY <1>1, <1>6 DEF CoordExpectDue, Spend
    <3> HIDE DEF rec
    <3>3. Owed(r, rec) <= Owed(r, mem[r]) - 1 \/ Owed(r, rec) = 0
      BY <1>1, <1>6, <3>1, RowOperators, BoundAssumption
      DEF Owed, CoordExpectDue, Active, Rec
    <3>4. (Finite(r) /\ r \notin clobbered) => Owed(r, rec) <= credit'[r] + crashes
      BY <3>1, <3>2, <3>3, PaidFor, OwedNat
    <3>5. Attend(r, rec)
      BY <2>2 DEF rec
    <3> QED BY <1>1, <2>2, <3>1, <3>2, <3>4, <3>5, AttendIInv
  <2> QED BY <1>6, <2>1, <2>2 DEF CoordExpectDue
<1>7. CASE RenewingFire(r)
  <2>1. ~Finite(r)
    BY <1>7 DEF RenewingFire, Finite
  <2>2. Renewed(r, mem[r], FALSE) \in Rec
    BY <1>1, RenewedRow
  <2>3. rung' \subseteq Id
    BY <1>1, <1>7 DEF RenewingFire
  <2> QED BY <1>7, <2>1, <2>2, <2>3, AttendIInv DEF RenewingFire
<1>8. CASE SkipNudge(r)
  <2>1. credit' = credit /\ rung' = rung
    BY <1>8 DEF SkipNudge, history
  <2> QED BY <1>1, <1>8, <2>1, PaidFor, AttendIInv DEF SkipNudge
<1> QED BY <1>2, <1>3, <1>5, <1>6, <1>7, <1>8

LEMMA SuperviseTickIInv ==
  ASSUME IInv, NEW r \in Id, SuperviseTick(r)
  PROVE  IInv'
<1> USE DEF IInv
<1>1. PICK moved \in BOOLEAN :
        /\ Rebound(moved)
        /\ file' = QuietStatus(Rows(moved))
        /\ off' = off \cup StatusRows(Rows(moved))
  BY DEF SuperviseTick
<1>2. PICK rec \in {Renewed(r, mem[r], FALSE), Deferred(mem[r])} :
        mem' = [mem EXCEPT ![r] = rec]
  BY DEF SuperviseTick
<1>3. /\ pc = "fire" /\ pc' = "fire" /\ r \in todo /\ todo' = todo \ {r}
      /\ left > 0 /\ left' = left - 1 /\ Kind[r] = "supervise"
      /\ UNCHANGED <<cli, rung, credit, arms, edits, crashes>>
  BY DEF SuperviseTick, Turn, history, bounds
<1>4. rec \in Rec /\ Active(mem[r]) /\ ~Finite(r)
  <2>1. mem[r] \in Rec /\ Active(mem[r])
    BY <1>3 DEF TypeOK, TodoActive
  <2>2. ~Finite(r)
    BY <1>3 DEF Finite
  <2> QED BY <1>2, <2>1, <2>2, RenewedRow, RowOperators
<1>5. \A q \in Id : mem'[q] = IF q = r THEN rec ELSE mem[q]
  BY <1>2 DEF TypeOK
<1>6. Rows(moved) \in [Id -> Rec] /\ (Rows(moved) = mem \/ Rows(moved) = file)
  BY DEF Rows, TypeOK
<1>7. \A q \in Id :
        /\ file'[q] = IF q \in StatusRows(Rows(moved)) THEN Cancelled(Rows(moved)[q])
                                                       ELSE Rows(moved)[q]
        /\ file'[q] \in Rec
        /\ Active(file'[q]) => file'[q] = Rows(moved)[q] /\ Active(Rows(moved)[q])
        /\ q \in StatusRows(Rows(moved)) => Kind[q] = "status" /\ ~Active(file'[q])
  BY <1>1, <1>6, RowOperators DEF QuietStatus, StatusRows
<1>8. clobbered \subseteq clobbered'
  BY <1>1 DEF Rebound
<1>9. TypeOK'
  <2>1. file' \in [Id -> Rec]
    BY <1>1, <1>7 DEF QuietStatus
  <2>2. mem' \in [Id -> Rec] /\ seen' \in [Id -> Rec]
    BY <1>1, <1>2, <1>4 DEF TypeOK, Rebound
  <2>3. clobbered' \subseteq Id /\ off' \subseteq Id
    BY <1>1 DEF TypeOK, Rebound, Stale, StatusRows
  <2>4. left' \in 0..Budget
    BY <1>3, BoundAssumption DEF TypeOK
  <2> QED BY <1>3, <2>1, <2>2, <2>3, <2>4 DEF TypeOK
<1>10. TodoActive'
  BY <1>3, <1>5 DEF TodoActive, TypeOK
<1>11. MemFromSeen'
  BY <1>1, <1>3, <1>4, <1>5 DEF MemFromSeen, Rebound
<1>12. MemOwes'
  BY <1>3, <1>4, <1>5, <1>8 DEF MemOwes
<1>13. FileOwes'
  <2> SUFFICES ASSUME NEW q \in Id, Finite(q), q \notin clobbered'
               PROVE  Owed(q, file'[q]) <= credit[q] + crashes
                                             + (IF q \notin todo' THEN 1 ELSE 0)
    BY <1>3 DEF FileOwes
  <2>1. q \notin clobbered /\ q # r
    BY <1>4, <1>8
  <2>2. /\ Owed(q, mem[q]) <= credit[q] + crashes
        /\ Owed(q, file[q]) <= credit[q] + crashes + (IF q \notin todo THEN 1 ELSE 0)
    BY <1>3, <2>1 DEF FileOwes, MemOwes
  <2>3. /\ Owed(q, mem[q]) \in Nat /\ Owed(q, file[q]) \in Nat
        /\ credit[q] \in Int /\ crashes \in Nat
    BY OwedNat DEF TypeOK
  <2>4. file'[q] = mem[q] \/ file'[q] = file[q] \/ Owed(q, file'[q]) = 0
    BY <1>6, <1>7 DEF Owed
  <2> QED BY <1>3, <2>1, <2>2, <2>3, <2>4
<1>14. OffInFile'
  <2> SUFFICES ASSUME NEW q \in off', q \notin clobbered', Active(file'[q])
               PROVE  FALSE
    BY DEF OffInFile
  <2>1. q \in Id /\ Active(Rows(moved)[q]) /\ q \notin clobbered
    BY <1>7, <1>8, <1>9 DEF TypeOK
  <2>2. q \in off
    BY <1>1, <1>7, <2>1
  <2>3. ~Active(file[q])
    BY <2>1, <2>2 DEF OffInFile
  <2>4. moved /\ Active(mem[q])
    BY <2>1, <2>3 DEF Rows
  <2>5. Active(seen[q])
    BY <1>3, <2>1, <2>4 DEF MemFromSeen
  <2>6. q \in Stale
    BY <2>1, <2>3, <2>5 DEF Stale
  <2> QED BY <1>1, <2>4, <2>6 DEF Rebound
<1>15. CliEdits'
  BY <1>1, <1>3, <1>7 DEF CliEdits, Rebound, Rows, Stale
<1> QED BY <1>9, <1>10, <1>11, <1>12, <1>13, <1>14, <1>15

LEMMA StartTickIInv ==
  ASSUME IInv, StartTick
  PROVE  IInv'
<1> USE DEF IInv
<1>1. /\ pc = "rest" /\ pc' = "fire"
      /\ file' = Aged(file) /\ mem' = file' /\ seen' = file'
      /\ cli' = AgedEdit
      /\ todo' = {r \in Id : Due(file'[r])} /\ left' = Budget
      /\ UNCHANGED <<clobbered, off, rung, credit, arms, edits, crashes>>
  BY DEF StartTick, history, bounds
<1>2. \A r \in Id : /\ file'[r] = Older(file[r]) /\ file'[r] \in Rec
                     /\ file'[r].status = file[r].status
                     /\ Owed(r, file'[r]) = Owed(r, file[r])
  <2> TAKE r \in Id
  <2>1. file'[r] = Older(file[r]) /\ file[r] \in Rec
    BY <1>1 DEF Aged, TypeOK
  <2> QED BY <2>1, RowOperators DEF Owed, Active
<1>3. TypeOK'
  <2>1. file' \in [Id -> Rec]
    BY <1>1, <1>2 DEF Aged
  <2>2. cli' \in Edits
    <3>1. CASE cli.op = "none"
      BY <1>1, <3>1 DEF AgedEdit, TypeOK
    <3>2. CASE cli.op # "none"
      <4>1. cli \in [op : {"arm", "cancel"}, row : Id, snap : [Id -> Rec]]
        BY <3>2 DEF TypeOK, Edits, NoEdit
      <4>2. Aged(cli.snap) \in [Id -> Rec]
        BY <4>1, RowOperators DEF Aged
      <4> QED BY <1>1, <3>2, <4>1, <4>2 DEF AgedEdit, Edits
    <3> QED BY <3>1, <3>2
  <2> QED BY <1>1, <2>1, <2>2, BoundAssumption DEF TypeOK
<1>4. TodoActive'
  BY <1>1 DEF TodoActive, Due
<1>5. MemFromSeen'
  BY <1>1 DEF MemFromSeen
<1>6. /\ FileOwes' /\ MemOwes'
  <2> SUFFICES ASSUME NEW r \in Id, Finite(r), r \notin clobbered
               PROVE  Owed(r, file'[r]) <= credit[r] + crashes
    <3>1. \A r \in Id : credit[r] \in Int /\ crashes \in Nat /\ Owed(r, file'[r]) \in Nat
      BY <1>2, OwedNat DEF TypeOK
    <3> QED BY <1>1, <3>1 DEF FileOwes, MemOwes
  <2>1. Owed(r, file[r]) <= credit[r] + crashes
    BY <1>1 DEF FileOwes, TypeOK
  <2> QED BY <1>2, <2>1
<1>7. OffInFile'
  BY <1>1, <1>2 DEF OffInFile, Active, TypeOK
<1>8. CliEdits'
  BY <1>1 DEF CliEdits, AgedEdit, Stale
<1> QED BY <1>3, <1>4, <1>5, <1>6, <1>7, <1>8

LEMMA EndTickIInv ==
  ASSUME IInv, EndTick
  PROVE  IInv'
<1> USE DEF IInv
<1>1. /\ pc = "fire" /\ pc' = "rest"
      /\ file' = mem /\ clobbered' = clobbered \cup Stale
      /\ mem' = NoRows /\ seen' = NoRows /\ todo' = {} /\ left' = 0 /\ rung' = {}
      /\ UNCHANGED <<cli, off, credit, arms, edits, crashes>>
  BY DEF EndTick, Forget, bounds
<1>2. TypeOK'
  BY <1>1, NoRowsType, BoundAssumption DEF TypeOK, Stale
<1>3. TodoActive' /\ MemFromSeen' /\ MemOwes' /\ CliEdits'
  BY <1>1 DEF TodoActive, MemFromSeen, MemOwes, CliEdits
<1>4. FileOwes'
  <2> SUFFICES ASSUME NEW r \in Id, Finite(r), r \notin clobbered
               PROVE  Owed(r, mem[r]) <= credit[r] + crashes + 0
    BY <1>1 DEF FileOwes
  <2>1. Owed(r, mem[r]) <= credit[r] + crashes
    BY <1>1 DEF MemOwes
  <2> QED BY <2>1 DEF TypeOK
<1>5. OffInFile'
  BY <1>1 DEF OffInFile, MemFromSeen, Stale, TypeOK
<1> QED BY <1>2, <1>3, <1>4, <1>5

-----------------------------------------------------------------------------
(* Handlers, the CLI, deaths *)

\* What is left to each handler: the rows it writes are paid for, and none it
\* leaves off is active.
LEMMA ByHandIInv ==
  ASSUME IInv, AtRest, NEW rows \in [Id -> Rec], ByHand(rows),
         off' \subseteq Id, \A r \in off' : r \in clobbered \/ ~Active(rows[r]),
         credit' \in [Id -> Int], arms' \in 0..MaxArm,
         UNCHANGED <<edits, crashes>>,
         \A r \in Id : (Finite(r) /\ r \notin clobbered) =>
                         Owed(r, rows[r]) <= credit'[r] + crashes
  PROVE  IInv'
<1> USE DEF IInv
<1>1. /\ pc = "rest" /\ pc' = "rest" /\ file' = rows
      /\ UNCHANGED <<mem, seen, clobbered, todo, left, cli, rung>>
  BY DEF AtRest, ByHand, tick
<1>2. TypeOK'
  BY <1>1 DEF TypeOK
<1>3. TodoActive' /\ MemFromSeen' /\ MemOwes' /\ CliEdits'
  BY <1>1 DEF TodoActive, MemFromSeen, MemOwes, CliEdits
<1>4. FileOwes'
  <2> SUFFICES ASSUME NEW r \in Id, Finite(r), r \notin clobbered
               PROVE  Owed(r, rows[r]) <= credit'[r] + crashes + 0
    BY <1>1 DEF FileOwes
  <2> QED BY DEF TypeOK
<1>5. OffInFile'
  BY <1>1 DEF OffInFile
<1> QED BY <1>2, <1>3, <1>4, <1>5

LEMMA RestPaid ==
  ASSUME IInv, AtRest, NEW r \in Id
  PROVE  /\ file[r] \in Rec /\ Owed(r, file[r]) \in Nat
         /\ credit[r] \in Int /\ crashes \in Nat
         /\ (Finite(r) /\ r \notin clobbered) => Owed(r, file[r]) <= credit[r] + crashes
<1>1. file[r] \in Rec /\ credit[r] \in Int /\ crashes \in Nat
  BY DEF IInv, TypeOK
<1>2. (Finite(r) /\ r \notin clobbered) => Owed(r, file[r]) <= credit[r] + crashes + 0
  BY DEF IInv, FileOwes, AtRest
<1> QED BY <1>1, <1>2, OwedNat

LEMMA CancelInRows ==
  ASSUME IInv, AtRest, NEW S \in SUBSET Id
  PROVE  /\ CancelIn(S) \in [Id -> Rec]
         /\ \A q \in S : ~Active(CancelIn(S)[q])
         /\ \A q \in Id \ S : CancelIn(S)[q] = file[q]
         /\ \A q \in Id : (Finite(q) /\ q \notin clobbered) =>
                           Owed(q, CancelIn(S)[q]) <= credit[q] + crashes
<1>1. \A q \in Id : CancelIn(S)[q] = IF q \in S THEN Cancelled(file[q]) ELSE file[q]
  BY DEF CancelIn
<1>2. \A q \in Id : file[q] \in Rec
  BY DEF IInv, TypeOK
<1>3. CancelIn(S) \in [Id -> Rec] /\ \A q \in S : ~Active(CancelIn(S)[q])
  BY <1>1, <1>2, RowOperators DEF CancelIn
<1>4. ASSUME NEW q \in Id, Finite(q), q \notin clobbered
      PROVE  Owed(q, CancelIn(S)[q]) <= credit[q] + crashes
  <2>1. Owed(q, CancelIn(S)[q]) = 0 \/ CancelIn(S)[q] = file[q]
    BY <1>1, <1>3 DEF Owed
  <2> QED BY <1>4, <2>1, RestPaid
<1> QED BY <1>1, <1>3, <1>4

LEMMA CreditPays ==
  ASSUME IInv, AtRest, NEW r \in Id, Credit(r)
  PROVE  /\ credit' \in [Id -> Int] /\ arms' \in 0..MaxArm /\ UNCHANGED <<edits, crashes>>
         /\ \A q \in Id : q # r => credit'[q] = credit[q]
         /\ credit'[r] = credit[r] + PerArm(r)
BY PerArmNat, BoundAssumption DEF IInv, TypeOK, Credit

LEMMA ArmIInv ==
  ASSUME IInv, AtRest, NEW r \in Id, Credit(r), NEW S \in SUBSET Id, NEW rec \in Rec,
         ByHand([CancelIn(S) EXCEPT ![r] = rec]), off' = (off \cup S) \ {r}
  PROVE  IInv'
<1> DEFINE rows == [CancelIn(S) EXCEPT ![r] = rec]
<1>1. /\ rows \in [Id -> Rec]
      /\ \A q \in Id : rows[q] = IF q = r THEN rec ELSE CancelIn(S)[q]
  BY CancelInRows
<1>2. off' \subseteq Id /\ \A q \in off' : q \in clobbered \/ ~Active(rows[q])
  <2>1. \A q \in off : q \in clobbered \/ ~Active(file[q])
    BY DEF IInv, OffInFile
  <2>2. off \subseteq Id
    BY DEF IInv, TypeOK
  <2> QED BY <1>1, <2>1, <2>2, CancelInRows
<1>3. ASSUME NEW q \in Id, Finite(q), q \notin clobbered
      PROVE  Owed(q, rows[q]) <= credit'[q] + crashes
  <2>1. CASE q = r
    <3>1. Owed(r, rec) <= PerArm(r) /\ PerArm(r) \in Nat /\ Owed(r, rec) \in Nat
      BY <1>3, <2>1, OwedNat, PerArmNat
    <3>2. credit[r] + crashes >= 0
      BY <1>3, <2>1, RestPaid
    <3>3. Owed(r, rec) <= credit[r] + PerArm(r) + crashes
      BY <3>1, <3>2, RestPaid
    <3> QED BY <1>1, <2>1, <3>3, CreditPays
  <2>2. CASE q # r
    BY <1>1, <1>3, <2>2, CancelInRows, CreditPays
  <2> QED BY <2>1, <2>2
<1> HIDE DEF rows
<1>4. ByHand(rows)
  BY DEF rows
<1> QED BY <1>1, <1>2, <1>3, <1>4, CreditPays, ByHandIInv

LEMMA CancelIInv ==
  ASSUME IInv, AtRest, NEW S \in SUBSET Id, ByHand(CancelIn(S)), off' = off \cup S,
         UNCHANGED <<credit, bounds>>
  PROVE  IInv'
<1>1. off' \subseteq Id /\ \A q \in off' : q \in clobbered \/ ~Active(CancelIn(S)[q])
  <2>1. \A q \in off : q \in clobbered \/ ~Active(file[q])
    BY DEF IInv, OffInFile
  <2>2. off \subseteq Id
    BY DEF IInv, TypeOK
  <2> QED BY <2>1, <2>2, CancelInRows
<1>2. credit' \in [Id -> Int] /\ arms' \in 0..MaxArm /\ UNCHANGED <<edits, crashes>>
  BY DEF IInv, TypeOK, bounds
<1> QED BY <1>1, <1>2, CancelInRows, ByHandIInv

LEMMA HandleIInv ==
  ASSUME IInv, NEW r \in Id, Handle(r)
  PROVE  IInv'
<1>1. Twins(r) \in SUBSET Id /\ {} \in SUBSET Id /\ {r} \in SUBSET Id
  BY DEF Twins
<1>2. CancelIn({}) = file
  BY DEF CancelIn, IInv, TypeOK
<1>3. CASE ArmPatience(r)
  <2>1. PICK renew \in BOOLEAN : ByHand([CancelIn(Twins(r)) EXCEPT ![r] = Fresh(renew)])
    BY <1>3 DEF ArmPatience
  <2> QED BY <1>1, <1>3, <2>1, FreshRow, ArmIInv DEF ArmPatience
<1>4. CASE RefusePatience(r)
  BY <1>1, <1>4, CancelIInv DEF RefusePatience
<1>5. CASE ArmRecipient(r)
  BY <1>1, <1>2, <1>5, FreshRow, ArmIInv DEF ArmRecipient
<1>6. CASE ArmCcLimitRetry(r)
  BY <1>1, <1>2, <1>6, FreshRow, ArmIInv DEF ArmCcLimitRetry
<1>7. CASE CancelCheckback(r)
  BY <1>1, <1>7, CancelIInv DEF CancelCheckback
<1>8. CASE ResetCheckback(r)
  <2> DEFINE rec == [Deferred(file[r]) EXCEPT !.status = "active"]
  <2>1. Deferred(file[r]) \in Rec
    BY RowOperators DEF IInv, TypeOK
  <2>2. rec \in Rec
    BY <2>1 DEF Rec
  <2>3. ByHand([file EXCEPT ![r] = rec])
    BY <1>8 DEF ResetCheckback
  <2> HIDE DEF rec
  <2> QED BY <1>1, <1>2, <1>8, <2>2, <2>3, ArmIInv DEF ResetCheckback
<1> QED BY <1>3, <1>4, <1>5, <1>6, <1>7, <1>8 DEF Handle

LEMMA CancelAllIInv ==
  ASSUME IInv, CancelAllCheckbacks
  PROVE  IInv'
<1>1. {r \in Id : Active(file[r])} \in SUBSET Id
  OBVIOUS
<1> QED BY <1>1, CancelIInv DEF CancelAllCheckbacks

LEMMA ReadCliIInv ==
  ASSUME IInv, NEW r \in Id, ReadCheckbacksLocal(r)
  PROVE  IInv'
<1> USE DEF IInv
<1>1. /\ edits' = edits + 1 /\ edits < MaxEdit
      /\ UNCHANGED <<file, mem, seen, clobbered, pc, todo, left, off, rung, credit,
                     arms, crashes>>
  BY DEF ReadCheckbacksLocal, store, tick, history
<1>2. cli' \in Edits
  BY DEF ReadCheckbacksLocal, Edits, TypeOK
<1>3. TypeOK'
  BY <1>1, <1>2, BoundAssumption DEF TypeOK
<1>4. TodoActive' /\ MemFromSeen' /\ MemOwes' /\ FileOwes' /\ OffInFile'
  BY <1>1 DEF TodoActive, MemFromSeen, MemOwes, FileOwes, OffInFile
<1>5. CliEdits'
  <2>1. ~Finite(r)
    BY DEF ReadCheckbacksLocal, CliArms, CliCancels, Finite
  <2>2. cli'.row = r
    BY DEF ReadCheckbacksLocal
  <2> QED BY <1>1, <2>1, <2>2 DEF CliEdits, Finite, TypeOK
<1> QED BY <1>3, <1>4, <1>5

LEMMA WriteCliIInv ==
  ASSUME IInv, WriteCheckbacksLocal
  PROVE  IInv'
<1> USE DEF IInv
<1> DEFINE r == cli.row
           rec == IF cli.op = "arm" THEN Fresh(TRUE) ELSE Cancelled(cli.snap[r])
<1>1. /\ cli # NoEdit
      /\ file' = [cli.snap EXCEPT ![r] = rec]
      /\ clobbered' = clobbered \cup ({q \in Id : cli.snap[q] # file[q]} \ {r})
      /\ off' = IF cli.op = "arm" THEN off \ {r} ELSE off \cup {r}
      /\ cli' = NoEdit
      /\ UNCHANGED <<mem, seen, pc, todo, left, rung, credit, arms, edits, crashes>>
  BY DEF WriteCheckbacksLocal, tick, history, bounds
<1>2. cli \in [op : {"arm", "cancel"}, row : Id, snap : [Id -> Rec]]
  BY <1>1 DEF TypeOK, Edits
<1>3. r \in Id /\ rec \in Rec /\ (cli.op # "arm" => ~Active(rec))
  <2>1. r \in Id /\ cli.snap[r] \in Rec
    BY <1>2
  <2> QED BY <2>1, FreshRow, RowOperators
<1> HIDE DEF r, rec
<1>4. \A q \in Id : file'[q] = IF q = r THEN rec ELSE cli.snap[q]
  BY <1>1, <1>2
<1>5. \A q \in Id : q \notin clobbered' => q = r \/ file'[q] = file[q]
  BY <1>1, <1>4
<1>6. edits # 0
  BY <1>2 DEF CliEdits
<1>7. TypeOK'
  BY <1>1, <1>2, <1>3 DEF TypeOK, Edits
<1>8. TodoActive' /\ MemFromSeen' /\ CliEdits'
  BY <1>1, <1>6 DEF TodoActive, MemFromSeen, CliEdits, NoEdit
<1>9. MemOwes'
  BY <1>1 DEF MemOwes
<1>10. FileOwes'
  <2> SUFFICES ASSUME NEW q \in Id, Finite(q), q \notin clobbered'
               PROVE  Owed(q, file'[q]) <= credit[q] + crashes
                                  + (IF pc = "fire" /\ q \notin todo THEN 1 ELSE 0)
    BY <1>1 DEF FileOwes
  <2>1. q # r
    BY <1>2 DEF CliEdits, r
  <2> QED BY <1>1, <1>5, <2>1 DEF FileOwes
<1>11. OffInFile'
  BY <1>1, <1>3, <1>4, <1>5 DEF OffInFile, TypeOK
<1> QED BY <1>7, <1>8, <1>9, <1>10, <1>11

LEMMA CrashIInv ==
  ASSUME IInv, Crash
  PROVE  IInv'
<1> USE DEF IInv
<1>1. /\ crashes < MaxCrash /\ crashes' = crashes + 1 /\ pc' = "down"
      /\ mem' = NoRows /\ seen' = NoRows /\ todo' = {} /\ left' = 0 /\ rung' = {}
      /\ UNCHANGED <<file, clobbered, cli, off, credit, arms, edits>>
  BY DEF Crash, Forget
<1>2. TypeOK'
  BY <1>1, NoRowsType, BoundAssumption DEF TypeOK
<1>3. TodoActive' /\ MemFromSeen' /\ MemOwes' /\ CliEdits' /\ OffInFile'
  BY <1>1 DEF TodoActive, MemFromSeen, MemOwes, CliEdits, OffInFile
<1>4. FileOwes'
  <2> SUFFICES ASSUME NEW r \in Id, Finite(r), r \notin clobbered
               PROVE  Owed(r, file[r]) <= credit[r] + (crashes + 1) + 0
    BY <1>1 DEF FileOwes
  <2>1. Owed(r, file[r]) <= credit[r] + crashes
                              + (IF pc = "fire" /\ r \notin todo THEN 1 ELSE 0)
    BY DEF FileOwes
  <2>2. Owed(r, file[r]) \in Nat /\ credit[r] \in Int /\ crashes \in Nat
    BY OwedNat DEF TypeOK
  <2> QED BY <2>1, <2>2
<1> QED BY <1>2, <1>3, <1>4

LEMMA RestartIInv ==
  ASSUME IInv, Restart
  PROVE  IInv'
BY DEF IInv, Restart, store, history, bounds, TypeOK, TodoActive, MemFromSeen, FileOwes,
       MemOwes, OffInFile, CliEdits

-----------------------------------------------------------------------------
(* The invariant holds for ever *)

LEMMA InitIInv == Init => IInv
<1> SUFFICES ASSUME Init PROVE IInv
  OBVIOUS
<1>1. PICK stored \in SUBSET Id :
        /\ file = [r \in Id |-> IF r \in stored THEN Fresh(TRUE) ELSE Absent]
        /\ credit = [r \in Id |-> IF r \in stored THEN PerArm(r) ELSE 0]
  BY DEF Init
<1>2. Absent \in Rec /\ ~Active(Absent) /\ Fresh(TRUE) \in Rec
  <2>1. Absent \in Rec /\ ~Active(Absent)
    BY BoundAssumption DEF Absent, Rec, Active
  <2>2. Fresh(TRUE) \in Rec
    BY FreshRow
  <2> QED BY <2>1, <2>2
<1>3. TypeOK
  <2>1. file \in [Id -> Rec] /\ credit \in [Id -> Int]
    <3>1. \A r \in Id : (IF r \in stored THEN Fresh(TRUE) ELSE Absent) \in Rec
      BY <1>2
    <3>2. \A r \in Id : (IF r \in stored THEN PerArm(r) ELSE 0) \in Int
      BY PerArmNat
    <3> QED BY <1>1, <3>1, <3>2
  <2>2. /\ mem \in [Id -> Rec] /\ seen \in [Id -> Rec]
        /\ pc = "rest" /\ todo = {} /\ left = 0 /\ cli \in Edits
        /\ off = {} /\ rung = {} /\ clobbered = {}
        /\ arms = 0 /\ edits = 0 /\ crashes = 0
    BY NoRowsType DEF Init, Edits
  <2> QED BY <2>1, <2>2, BoundAssumption DEF TypeOK
<1>4. FileOwes
  <2> SUFFICES ASSUME NEW r \in Id, Finite(r)
               PROVE  Owed(r, file[r]) <= credit[r]
    <3>1. clobbered = {} /\ pc = "rest" /\ crashes = 0
      BY DEF Init
    <3>2. \A r \in Id : credit[r] \in Int
      BY <1>3 DEF TypeOK
    <3>3. SUFFICES ASSUME NEW r \in Id, Finite(r)
                   PROVE  Owed(r, file[r]) <= credit[r] + 0 + 0
      BY <3>1 DEF FileOwes
    <3> QED BY <3>2, <3>3
  <2>1. CASE r \in stored
    BY <1>1, <1>2, <2>1, OwedNat
  <2>2. CASE r \notin stored
    BY <1>1, <1>2, <2>2, OwedNat
  <2> QED BY <2>1, <2>2
<1> QED BY <1>3, <1>4 DEF Init, IInv, TodoActive, MemFromSeen, MemOwes, OffInFile,
                        CliEdits, NoEdit

LEMMA StutterIInv ==
  ASSUME IInv, UNCHANGED vars
  PROVE  IInv'
BY DEF IInv, vars, store, tick, history, bounds, TypeOK, TodoActive, MemFromSeen, FileOwes,
       MemOwes, OffInFile, CliEdits, Stale

LEMMA NextIInv ==
  ASSUME IInv, [Next]_vars
  PROVE  IInv'
<1>1. CASE FireDueCheckbacks
  <2>1. ASSUME NEW r \in Id, FireRow(r) PROVE IInv'
    BY <2>1, FireRowIInv, SuperviseTickIInv DEF FireRow
  <2> QED BY <1>1, <2>1, StartTickIInv, EndTickIInv DEF FireDueCheckbacks
<1>2. CASE \E r \in Id : Handle(r)
  BY <1>2, HandleIInv
<1>3. CASE CancelAllCheckbacks
  BY <1>3, CancelAllIInv
<1>4. CASE \E r \in Id : ReadCheckbacksLocal(r)
  BY <1>4, ReadCliIInv
<1>5. CASE WriteCheckbacksLocal
  BY <1>5, WriteCliIInv
<1>6. CASE Crash \/ Restart
  BY <1>6, CrashIInv, RestartIInv
<1>7. CASE UNCHANGED vars
  BY <1>7, StutterIInv
<1> QED BY <1>1, <1>2, <1>3, <1>4, <1>5, <1>6, <1>7 DEF Next

\* The inductive invariant holds in every reachable state.
THEOREM Invariance == Spec => []IInv
<1>1. Init => IInv
  BY InitIInv
<1>2. IInv /\ [Next]_vars => IInv'
  BY NextIInv
<1> QED BY <1>1, <1>2, PTL DEF Spec

-----------------------------------------------------------------------------
(* The theorems *)

\* The type invariant, for any rows and bounds.
THEOREM TypeCorrect == Spec => []TypeOK
<1>1. IInv => TypeOK
  BY DEF IInv
<1> QED BY <1>1, Invariance, PTL

\* No row is pasted, and no work assigned again, more often than its arms and
\* the deaths of the daemon account for.
THEOREM TriesPaidFor == Spec => []TriesArePaidFor
<1>1. IInv => TriesArePaidFor
  <2> SUFFICES ASSUME IInv, NEW r \in Id, Finite(r), r \notin clobbered
               PROVE  credit[r] + crashes >= 0
    BY DEF TriesArePaidFor
  <2>1. credit[r] \in Int /\ crashes \in Nat /\ file[r] \in Rec /\ mem[r] \in Rec
    BY DEF IInv, TypeOK
  <2>2. CASE pc = "fire"
    <3>1. Owed(r, mem[r]) <= credit[r] + crashes
      BY <2>2 DEF IInv, MemOwes
    <3> QED BY <2>1, <3>1, OwedNat
  <2>3. CASE pc # "fire"
    <3>1. Owed(r, file[r]) <= credit[r] + crashes + 0
      BY <2>3 DEF IInv, FileOwes
    <3> QED BY <2>1, <3>1, OwedNat
  <2> QED BY <2>2, <2>3
<1> QED BY <1>1, Invariance, PTL

LEMMA RungWasTodo ==
  ASSUME [Next]_vars, NEW r \in rung' \ rung
  PROVE  Turn(r) /\ FireRow(r)
<1>1. ASSUME NEW q \in Id, FireRow(q)
      PROVE  Turn(q) /\ rung' \subseteq rung \cup {q}
  <2>1. Turn(q)
    BY <1>1 DEF FireRow, DeferFailedFire, CancelFire, FireOnce, CoordExpectDue,
                RenewingFire, SkipNudge, SuperviseTick
  <2>2. rung' \subseteq rung \cup {q}
    BY <1>1 DEF FireRow, DeferFailedFire, CancelFire, FireOnce, CoordExpectDue,
                RenewingFire, SkipNudge, SuperviseTick, history, Paste
  <2> QED BY <2>1, <2>2
<1>2. ASSUME ~(\E q \in Id : FireRow(q)) PROVE rung' \subseteq rung
  <2>1. CASE StartTick
    BY <2>1 DEF StartTick, history
  <2>2. CASE EndTick
    BY <2>2 DEF EndTick, Forget
  <2>3. ASSUME NEW q \in Id, Handle(q) PROVE rung' = rung
    BY <2>3 DEF Handle, ArmPatience, RefusePatience, ArmRecipient, ArmCcLimitRetry,
                CancelCheckback, ResetCheckback, ByHand
  <2>4. CASE CancelAllCheckbacks
    BY <2>4 DEF CancelAllCheckbacks, ByHand
  <2>5. CASE \E q \in Id : ReadCheckbacksLocal(q)
    BY <2>5 DEF ReadCheckbacksLocal, history
  <2>6. CASE WriteCheckbacksLocal
    BY <2>6 DEF WriteCheckbacksLocal, history
  <2>7. CASE Crash
    BY <2>7 DEF Crash, Forget
  <2>8. CASE Restart \/ UNCHANGED vars
    BY <2>8 DEF Restart, vars, history
  <2> QED BY <1>2, <2>1, <2>2, <2>3, <2>4, <2>5, <2>6, <2>7, <2>8 DEF Next, FireDueCheckbacks
<1> QED BY <1>1, <1>2

\* A cancel that was answered holds, but for the races the property names.
THEOREM CancelsStick == Spec => CancelSticks
<1>1. IInv /\ [Next]_vars =>
        [\A r \in rung' \ rung : r \notin off \/ r \in clobbered \/ r \in Stale]_vars
  <2> SUFFICES ASSUME IInv, [Next]_vars, NEW r \in rung' \ rung,
                      r \in off, r \notin clobbered
               PROVE  r \in Stale
    OBVIOUS
  <2>1. r \in Id /\ ~Active(file[r])
    BY DEF IInv, TypeOK, OffInFile
  <2>2. pc = "fire" /\ r \in todo
    BY RungWasTodo DEF Turn
  <2>3. Active(seen[r])
    BY <2>1, <2>2 DEF IInv, TodoActive, MemFromSeen
  <2> QED BY <2>1, <2>3 DEF Stale
<1> QED BY <1>1, Invariance, PTL DEF Spec, CancelSticks

\* Without the CLI only the supervise tick loses a change, and of status rows.
THEOREM TwoWriters == Spec => ClobberNeedsTwoWriters
<1> DEFINE Step == clobbered' # clobbered =>
                     \/ edits > 0
                     \/ \A r \in clobbered' \ clobbered : Kind[r] = "status"
<1>1. IInv /\ [Next]_vars => [Step]_vars
  <2> SUFFICES ASSUME IInv, [Next]_vars, edits = 0,
                      NEW r \in clobbered' \ clobbered
               PROVE  Kind[r] = "status"
    BY DEF IInv, TypeOK
  <2>1. cli.op = "none"
    BY DEF IInv, CliEdits
  <2>2. pc = "fire" /\ r \in Stale
    <3>1. ASSUME NEW q \in Id, FireRow(q) PROVE pc = "fire" /\ clobbered' \subseteq clobbered \cup Stale
      BY <3>1 DEF FireRow, DeferFailedFire, CancelFire, FireOnce, CoordExpectDue,
                  RenewingFire, SkipNudge, SuperviseTick, Turn, Rebind, Rebound
    <3>2. CASE EndTick
      BY <3>2 DEF EndTick
    <3>3. CASE StartTick
      BY <3>3 DEF StartTick
    <3>4. ASSUME NEW q \in Id, Handle(q) PROVE clobbered' = clobbered
      BY <3>4 DEF Handle, ArmPatience, RefusePatience, ArmRecipient, ArmCcLimitRetry,
                  CancelCheckback, ResetCheckback, ByHand
    <3>5. CASE CancelAllCheckbacks
      BY <3>5 DEF CancelAllCheckbacks, ByHand
    <3>6. CASE \E q \in Id : ReadCheckbacksLocal(q)
      BY <3>6 DEF ReadCheckbacksLocal, store
    <3>7. CASE WriteCheckbacksLocal
      BY <2>1, <3>7 DEF WriteCheckbacksLocal, NoEdit, IInv, TypeOK, Edits
    <3>8. CASE Crash \/ Restart \/ UNCHANGED vars
      BY <3>8 DEF Crash, Restart, vars, store
    <3> QED BY <3>1, <3>2, <3>3, <3>4, <3>5, <3>6, <3>7, <3>8 DEF Next, FireDueCheckbacks
  <2> QED BY <2>2 DEF IInv, CliEdits
<1> QED BY <1>1, Invariance, PTL DEF Spec, ClobberNeedsTwoWriters
=============================================================================
