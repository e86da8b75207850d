---------------------------- MODULE TargetsProofs ----------------------------
(***************************************************************************)
(* Theorems about Targets, for every set of targets and of handlers, every  *)
(* budget and every bound.  The mails of a target are paid for by its mark, *)
(* by deaths and by those who asked; a request that has asked but not yet   *)
(* written is part of the account.                                          *)
(***************************************************************************)
EXTENDS Targets, FiniteSetTheorems, SequenceTheorems, TLAPS

-----------------------------------------------------------------------------
(* Files *)

\* Each position of a finite set of positions has a rank of its own, and every
\* rank is that of one.
Rank(S, i) == Cardinality({j \in S : j <= i})

LEMMA Ranks ==
  ASSUME NEW S \in SUBSET Nat, IsFiniteSet(S)
  PROVE  /\ Cardinality(S) \in Nat
         /\ \A n \in 1..Cardinality(S) : \E i \in S : Rank(S, i) = n
         /\ \A i, k \in S : Rank(S, i) = Rank(S, k) => i = k
         /\ \A i \in S : Rank(S, i) \in 1..Cardinality(S)
<1> DEFINE Upto(i) == {j \in S : j <= i}
<1>1. \A i \in S : IsFiniteSet(Upto(i)) /\ Cardinality(Upto(i)) \in Nat
                   /\ Cardinality(Upto(i)) <= Cardinality(S)
  <2>1. \A i \in S : Upto(i) \in SUBSET S
    OBVIOUS
  <2>. QED
    BY <2>1, FS_Subset, FS_CardinalityType
<1>2. ASSUME NEW i \in S PROVE Cardinality(Upto(i)) # 0
  <2>1. i \in Upto(i)
    OBVIOUS
  <2>. QED
    BY <1>1, <2>1, FS_EmptySet
<1>3. Cardinality(S) \in Nat
  BY FS_CardinalityType
<1>4. \A i \in S : Rank(S, i) \in 1..Cardinality(S)
  BY <1>1, <1>2, <1>3 DEF Rank
<1>5. ASSUME NEW i \in S, NEW k \in S, i < k PROVE Rank(S, i) # Rank(S, k)
  <2>1. \A j \in S : j \in Nat
    OBVIOUS
  <2>2. \A j \in S : j <= i => j <= k
    BY <1>5, <2>1
  <2>3. k <= k /\ ~(k <= i)
    BY <1>5, <2>1
  <2>4. Upto(i) \in SUBSET Upto(k)
    BY <2>2
  <2>5. k \in Upto(k) /\ k \notin Upto(i)
    BY <2>3
  <2>. QED
    BY <1>1, <2>4, <2>5, FS_Subset DEF Rank
<1>6. \A i, k \in S : Rank(S, i) = Rank(S, k) => i = k
  <2>1. \A i, k \in S : i # k => i < k \/ k < i
    OBVIOUS
  <2>. QED
    BY <1>5, <2>1
<1> DEFINE f == [i \in S |-> Rank(S, i)]
<1>7. f \in Injection(S, 1..Cardinality(S))
  BY <1>4, <1>6 DEF Injection, IsInjective
<1>8. IsFiniteSet(1..Cardinality(S)) /\ Cardinality(1..Cardinality(S)) = Cardinality(S)
  <2>1. 1 \in Int /\ Cardinality(S) \in Int
    BY <1>3
  <2>. QED
    BY <1>3, <2>1, FS_Interval
<1>9. f \in Surjection(S, 1..Cardinality(S))
  <2>. HIDE DEF f
  <2>. QED
    BY <1>7, <1>8, FS_Injection
<1>10. \A n \in 1..Cardinality(S) : \E i \in S : Rank(S, i) = n
  BY <1>9 DEF Surjection
<1>. QED
  BY <1>3, <1>4, <1>6, <1>10

InFile(file, x) == \E i \in DOMAIN file : file[i] = x

\* What Only leaves of a file: its rows in the set, each as often as before.
LEMMA OnlyRows ==
  ASSUME NEW X, NEW file \in Seq(X), NEW S
  PROVE  /\ Only(file, S) \in Seq(X)
         /\ \A x : InFile(Only(file, S), x) <=> x \in S /\ InFile(file, x)
         /\ IsInjective(file) => IsInjective(Only(file, S))
<1> DEFINE kept == {i \in DOMAIN file : file[i] \in S}
           Nth(n) == CHOOSE i \in kept : Cardinality({j \in kept : j <= i}) = n
           N == Cardinality(kept)
<1>1. kept \in SUBSET Nat /\ IsFiniteSet(kept)
  <2>1. Len(file) \in Nat /\ DOMAIN file = 1..Len(file)
    OBVIOUS
  <2>2. kept \in SUBSET Nat /\ \A i \in kept : i <= Len(file)
    BY <2>1
  <2>. QED
    BY <2>1, <2>2, FS_BoundedSetOfNaturals
<1>2. Only(file, S) = [n \in 1..N |-> file[Nth(n)]]
  BY DEF Only
<1>. HIDE DEF kept
<1>3. /\ N \in Nat
      /\ \A n \in 1..N : Nth(n) \in kept /\ Rank(kept, Nth(n)) = n
      /\ \A i \in kept : Rank(kept, i) \in 1..N
      /\ \A i, k \in kept : Rank(kept, i) = Rank(kept, k) => i = k
  <2>1. \A n \in 1..N : \E i \in kept : Rank(kept, i) = n
    BY <1>1, Ranks
  <2>2. \A n \in 1..N : Nth(n) \in kept /\ Rank(kept, Nth(n)) = n
    BY <2>1 DEF Rank
  <2>. QED
    BY <1>1, <2>2, Ranks
<1>. HIDE DEF N, Nth
<1>4. \A i \in kept : Nth(Rank(kept, i)) = i
  BY <1>3
<1>5. \A i : i \in kept <=> i \in DOMAIN file /\ file[i] \in S
  BY DEF kept
<1>6. Only(file, S) \in Seq(X)
  <2>1. \A n \in 1..N : file[Nth(n)] \in X
    BY <1>3, <1>5
  <2>. QED
    BY <1>2, <1>3, <2>1, IsASeq
<1>7. ASSUME NEW x, x \in S, NEW i \in DOMAIN file, file[i] = x
      PROVE  InFile(Only(file, S), x)
  <2>1. i \in kept /\ Rank(kept, i) \in 1..N
    BY <1>3, <1>5, <1>7
  <2>2. Only(file, S)[Rank(kept, i)] = x
    BY <1>2, <1>4, <1>7, <2>1
  <2>. QED
    BY <1>2, <2>1, <2>2 DEF InFile
<1>8. ASSUME NEW n \in DOMAIN Only(file, S)
      PROVE  Only(file, S)[n] \in S /\ InFile(file, Only(file, S)[n])
  <2>1. n \in 1..N /\ Only(file, S)[n] = file[Nth(n)]
    BY <1>2
  <2>. QED
    BY <1>3, <1>5, <2>1 DEF InFile
<1>9. \A x : InFile(Only(file, S), x) => x \in S /\ InFile(file, x)
  BY <1>8 DEF InFile
<1>11. \A x : x \in S /\ InFile(file, x) => InFile(Only(file, S), x)
  BY <1>7 DEF InFile
<1>10. IsInjective(file) => IsInjective(Only(file, S))
  <2> SUFFICES ASSUME IsInjective(file), NEW n \in 1..N, NEW m \in 1..N, file[Nth(n)] = file[Nth(m)]
               PROVE  n = m
    BY <1>2 DEF IsInjective
  <2>1. Nth(n) = Nth(m)
    BY <1>3, <1>5 DEF IsInjective
  <2>. QED
    BY <1>3, <2>1
<1>. QED
  BY <1>6, <1>9, <1>10, <1>11

-----------------------------------------------------------------------------
(* The account of the mails *)

\* What the proofs need of the types; the order of the file is not among it.
RowTypes ==
  /\ tRow \in [Target -> Rows]
  /\ held \in [Handler -> Copies \cup {NoCopy}]
  /\ mails \in [Target -> Nat] /\ asked \in [Target -> Nat] /\ deaths \in Nat

\* A target nobody has added is not marked, and nobody holds a copy of one.
Unadded ==
  /\ \A t \in Target : tRow[t].status = "none" => ~tRow[t].triaged
  /\ \A h \in Handler : held[h] # NoCopy => held[h].row.status # "none"

Holders(t) == {h \in Handler : held[h] # NoCopy /\ held[h].id = t}
Mark(t)    == IF tRow[t].triaged THEN 1 ELSE 0

\* A target nobody can triage gets no mail; one that somebody can is marked in
\* the row of each write, so that a copy written back takes no mark away.
Paid(t) ==
  IF t \in reach THEN mails[t] + Cardinality(Holders(t)) <= Mark(t) + deaths + asked[t]
  ELSE mails[t] = 0

TargetsInv == RowTypes /\ Unadded /\ \A t \in Target : Paid(t)

LEMMA FiredRow ==
  ASSUME NEW t \in Target, NEW row \in Rows, NEW force \in BOOLEAN
  PROVE  /\ Fired(t, row, force) \in Rows
         /\ Fired(t, row, force).status = row.status
         /\ Fired(t, row, force).triaged <=> row.triaged \/ Triages(t, row, force)
  BY DEF Fired, Rows, Triages

LEMMA HoldersCount ==
  ASSUME NEW t
  PROVE  IsFiniteSet(Holders(t)) /\ Cardinality(Holders(t)) \in Nat
<1>1. Holders(t) \subseteq Handler
  BY DEF Holders
<1>. QED
  BY <1>1, TargetsAssumption, FS_Subset, FS_CardinalityType

LEMMA DueRows == ASSUME NEW n, NEW t \in FirstDue(n) PROVE tRow[t].status = "active"
  BY DEF FirstDue, Due

\* A step that leaves a target's row, its mails and its requests alone.
LEMMA SamePaid ==
  ASSUME NEW t, Paid(t), UNCHANGED <<reach, deaths>>, tRow'[t].triaged = tRow[t].triaged,
         mails'[t] = mails[t], asked'[t] = asked[t], UNCHANGED Holders(t)
  PROVE  Paid(t)'
  BY DEF Paid, Mark

-----------------------------------------------------------------------------
LEMMA AddStep == ASSUME TargetsInv, NEW t \in Target, AddTarget(t) PROVE TargetsInv'
<1>1. \A u \in Target : tRow'[u] \in Rows /\ (tRow'[u].triaged <=> tRow[u].triaged)
                        /\ (tRow'[u].status = "none" => tRow[u].status = "none" /\ u # t)
  <2>1. ASSUME NEW u \in Target, u = t PROVE tRow'[u] = Fresh /\ tRow[u].status = "none"
    BY <2>1 DEF AddTarget
  <2>2. Fresh \in Rows /\ Fresh.triaged = FALSE /\ Fresh.status = "active"
    BY DEF Fresh, Rows
  <2>3. ASSUME NEW u \in Target, u # t
        PROVE  tRow'[u] \in {tRow[u], [tRow[u] EXCEPT !.status = "cancelled"]}
    BY <2>3 DEF AddTarget
  <2>4. ASSUME NEW u \in Target
        PROVE  /\ tRow[u] \in Rows /\ [tRow[u] EXCEPT !.status = "cancelled"] \in Rows
               /\ [tRow[u] EXCEPT !.status = "cancelled"].triaged = tRow[u].triaged
               /\ [tRow[u] EXCEPT !.status = "cancelled"].status = "cancelled"
    BY DEF TargetsInv, RowTypes, Rows
  <2>5. ASSUME NEW u \in Target, u # t
        PROVE  tRow'[u] \in Rows /\ (tRow'[u].triaged <=> tRow[u].triaged)
               /\ (tRow'[u].status = "none" => tRow[u].status = "none" /\ u # t)
    BY <2>3, <2>4, <2>5
  <2>6. ASSUME NEW u \in Target, u = t
        PROVE  tRow'[u] \in Rows /\ (tRow'[u].triaged <=> tRow[u].triaged)
               /\ (tRow'[u].status = "none" => tRow[u].status = "none" /\ u # t)
    BY <2>1, <2>2, <2>6 DEF TargetsInv, Unadded
  <2>. QED
    BY <2>5, <2>6
<1>2. UNCHANGED <<held, mails, asked, deaths, reach>>
  BY DEF AddTarget
<1>3. RowTypes'
  <2>1. tRow' = [u \in Target |-> tRow'[u]]
    BY DEF AddTarget
  <2>2. tRow' \in [Target -> Rows]
    BY <1>1, <2>1
  <2>. QED
    BY <1>2, <2>2 DEF TargetsInv, RowTypes
<1>4. Unadded'
  BY <1>1, <1>2 DEF TargetsInv, Unadded
<1>5. ASSUME NEW u \in Target PROVE Paid(u)'
  <2>1. UNCHANGED Holders(u)
    BY <1>2 DEF Holders
  <2>2. Mark(u)' = Mark(u)
    BY <1>1 DEF Mark
  <2>. QED
    BY <1>2, <2>1, <2>2 DEF TargetsInv, Paid
<1>. QED
  BY <1>3, <1>4, <1>5 DEF TargetsInv

LEMMA MarkStep ==
  ASSUME TargetsInv, NEW t \in Target, NEW status \in {"done", "cancelled"}, MarkTargetStatus(t, status)
  PROVE  TargetsInv'
<1>1. tRow' = [tRow EXCEPT ![t] = [@ EXCEPT !.status = status]]
      /\ UNCHANGED <<held, mails, asked, deaths, reach>>
  BY DEF MarkTargetStatus
<1>2. [tRow[t] EXCEPT !.status = status] \in Rows
      /\ [tRow[t] EXCEPT !.status = status].triaged = tRow[t].triaged
      /\ [tRow[t] EXCEPT !.status = status].status = status
  BY DEF TargetsInv, RowTypes, Rows
<1>3. RowTypes'
  BY <1>1, <1>2 DEF TargetsInv, RowTypes
<1>4. \A u \in Target : tRow'[u].triaged = tRow[u].triaged
                        /\ (tRow'[u].status = "none" => tRow[u].status = "none")
  BY <1>1, <1>2 DEF TargetsInv, RowTypes
<1>5. Unadded'
  BY <1>1, <1>4 DEF TargetsInv, Unadded
<1>6. ASSUME NEW u \in Target PROVE Paid(u)'
  <2>1. UNCHANGED Holders(u)
    BY <1>1 DEF Holders
  <2>. QED
    BY <1>1, <1>4, <2>1, SamePaid DEF TargetsInv
<1>. QED
  BY <1>3, <1>5, <1>6 DEF TargetsInv

\* Asking is paid for when it is done; the request holds the payment.
LEMMA FindStep ==
  ASSUME TargetsInv, NEW h \in Handler, NEW t \in Target, NEW kind \in {"remind", "triage"}, FindTarget(h, t, kind)
  PROVE  TargetsInv'
<1> DEFINE c == [id |-> t, row |-> tRow[t], kind |-> kind]
<1>1. /\ held' = [held EXCEPT ![h] = c] /\ asked' = [asked EXCEPT ![t] = @ + 1]
      /\ held[h] = NoCopy /\ tRow[t].status # "none"
      /\ UNCHANGED <<tRow, mails, deaths, reach>>
  BY DEF FindTarget
<1>2. c \in Copies /\ c.id = t /\ c.row.status # "none"
  BY <1>1 DEF TargetsInv, RowTypes, Copies
<1>. HIDE DEF c
<1>3. RowTypes'
  BY <1>1, <1>2 DEF TargetsInv, RowTypes
<1>4. Unadded'
  BY <1>1, <1>2 DEF TargetsInv, RowTypes, Unadded
<1>5. Holders(t)' = Holders(t) \cup {h} /\ h \notin Holders(t)
  BY <1>1, <1>2, TargetsAssumption DEF Holders, TargetsInv, RowTypes
<1>6. Cardinality(Holders(t)') = Cardinality(Holders(t)) + 1
  BY <1>5, HoldersCount, FS_AddElement
<1>7. asked'[t] = asked[t] + 1 /\ asked[t] \in Nat /\ mails[t] \in Nat /\ deaths \in Nat
  BY <1>1 DEF TargetsInv, RowTypes
<1>8. Mark(t)' = Mark(t) /\ Mark(t) \in Nat
  BY <1>1 DEF Mark
<1>9. Paid(t)'
  <2>1. CASE t \in reach
    BY <2>1, <1>1, <1>6, <1>7, <1>8, HoldersCount DEF Paid, TargetsInv
  <2>2. CASE t \notin reach
    BY <2>2, <1>1 DEF Paid, TargetsInv
  <2>. QED
    BY <2>1, <2>2
<1>10. ASSUME NEW u \in Target, u # t PROVE Paid(u)'
  <2>1. UNCHANGED Holders(u)
    BY <1>1, <1>2, <1>10 DEF Holders, TargetsInv, RowTypes
  <2>2. asked'[u] = asked[u]
    BY <1>1, <1>10 DEF TargetsInv, RowTypes
  <2>. QED
    BY <1>1, <2>1, <2>2, SamePaid DEF TargetsInv
<1>. QED
  BY <1>3, <1>4, <1>9, <1>10 DEF TargetsInv

\* The copy is written back, with the mark if the mail has gone out before or
\* goes out now.
LEMMA HeldStep ==
  ASSUME TargetsInv, NEW h \in Handler, FireHeld(h)
  PROVE  TargetsInv'
<1>0. PICK c \in Copies : c = held[h]
  BY DEF FireHeld, TargetsInv, RowTypes
<1> DEFINE t == c.id
           force == c.kind = "triage"
           mailed == Triages(t, c.row, force)
<1>1. t \in Target /\ c.row \in Rows /\ c.row.status # "none"
  BY <1>0 DEF FireHeld, TargetsInv, Unadded, Copies
<1>2. /\ tRow' = [tRow EXCEPT ![t] = Fired(t, c.row, force)]
      /\ held' = [held EXCEPT ![h] = NoCopy] /\ held[h] # NoCopy
      /\ UNCHANGED <<asked, deaths, reach>>
  BY <1>0 DEF FireHeld
<1>20. mails' = [mails EXCEPT ![t] = @ + IF mailed THEN 1 ELSE 0]
  BY <1>0 DEF FireHeld
<1>3. force \in BOOLEAN
  OBVIOUS
<1>4. h \in Holders(t)
  BY <1>0, <1>2 DEF Holders
<1>21. mailed => t \in reach
  BY DEF Triages
<1>. HIDE DEF t, force, mailed
<1>5. /\ Fired(t, c.row, force) \in Rows /\ Fired(t, c.row, force).status = c.row.status
      /\ Fired(t, c.row, force).triaged <=> c.row.triaged \/ Triages(t, c.row, force)
  BY <1>1, <1>3, FiredRow
<1>6. mails[t] \in Nat /\ asked[t] \in Nat /\ deaths \in Nat
  BY <1>1 DEF TargetsInv, RowTypes
<1>22. mailed => mails' = [mails EXCEPT ![t] = mails[t] + 1]
  BY <1>1, <1>20 DEF TargetsInv, RowTypes
<1>23. ~mailed => mails' = mails
  <2>1. ~mailed => mails' = [mails EXCEPT ![t] = mails[t] + 0]
    BY <1>20
  <2>2. mails = [mails EXCEPT ![t] = mails[t] + 0]
    BY <1>6 DEF TargetsInv, RowTypes
  <2>. QED
    BY <2>1, <2>2
<1>7. RowTypes'
  <2>1. mails' \in [Target -> Nat]
    BY <1>6, <1>22, <1>23 DEF TargetsInv, RowTypes
  <2>. QED
    BY <1>2, <1>5, <2>1 DEF TargetsInv, RowTypes
<1>8. Unadded'
  BY <1>1, <1>2, <1>5 DEF TargetsInv, RowTypes, Unadded
<1>9. Holders(t)' = Holders(t) \ {h}
  BY <1>2 DEF Holders, TargetsInv, RowTypes
<1>10. Cardinality(Holders(t)') = Cardinality(Holders(t)) - 1
  BY <1>4, <1>9, HoldersCount, FS_RemoveElement
<1>11. Paid(t)'
  <2>1. CASE t \in reach
    <3>1. tRow'[t].triaged
      BY <1>1, <1>2, <1>5, <2>1 DEF Triages, TargetsInv, RowTypes
    <3>2. Mark(t)' = 1 /\ Mark(t) \in 0..1
      BY <3>1 DEF Mark
    <3>3. mails'[t] <= mails[t] + 1 /\ mails'[t] \in Nat
      <4>1. mails'[t] \in {mails[t], mails[t] + 1}
        BY <1>1, <1>22, <1>23 DEF TargetsInv, RowTypes
      <4>. QED
        BY <4>1, <1>6
    <3>4. mails[t] + Cardinality(Holders(t)) <= Mark(t) + deaths + asked[t]
      BY <2>1, <1>1 DEF TargetsInv, Paid
    <3>5. mails'[t] + Cardinality(Holders(t)') <= 1 + deaths + asked[t]
      BY <3>2, <3>3, <3>4, <1>6, <1>10, HoldersCount
    <3>. QED
      BY <2>1, <1>2, <3>2, <3>5 DEF Paid
  <2>2. CASE t \notin reach
    <3>1. mails' = mails
      BY <2>2, <1>21, <1>23
    <3>. QED
      BY <2>2, <3>1, <1>1, <1>2 DEF Paid, TargetsInv
  <2>. QED
    BY <2>1, <2>2
<1>12. ASSUME NEW u \in Target, u # t PROVE Paid(u)'
  <2>1. UNCHANGED Holders(u)
    BY <1>0, <1>2, <1>12 DEF Holders, TargetsInv, RowTypes, t
  <2>2. mails'[u] = mails[u] /\ tRow'[u] = tRow[u]
    BY <1>2, <1>22, <1>23, <1>12 DEF TargetsInv, RowTypes
  <2>. QED
    BY <1>2, <2>1, <2>2, SamePaid DEF TargetsInv
<1>. QED
  BY <1>7, <1>8, <1>11, <1>12 DEF TargetsInv

-----------------------------------------------------------------------------
\* What the tick does to a target: the rows it writes are marked if it mails
\* them, and it mails at most one whose row it does not write.
LEMMA DueStep ==
  ASSUME RowTypes, NEW fired, NEW mailed, FireDue(fired, mailed), NEW t \in Target
  PROVE  /\ tRow'[t] \in Rows /\ tRow'[t].status = tRow[t].status
         /\ tRow[t].triaged => tRow'[t].triaged
         /\ mails'[t] \in {mails[t], mails[t] + 1}
         /\ t \notin reach => mails'[t] = mails[t] /\ tRow'[t].triaged = tRow[t].triaged
         /\ mails'[t] # mails[t] => ~tRow[t].triaged /\ (t \in fired => tRow'[t].triaged)
<1>1. tRow[t] \in Rows /\ mails[t] \in Nat
  BY DEF RowTypes
<1>2. tRow'[t] = IF t \in fired THEN Fired(t, tRow[t], FALSE) ELSE tRow[t]
  BY DEF FireDue
<1> DEFINE gets == t \in mailed /\ Triages(t, tRow[t], FALSE)
<1>3. mails'[t] = mails[t] + IF gets THEN 1 ELSE 0
  BY DEF FireDue
<1>4. /\ Fired(t, tRow[t], FALSE) \in Rows /\ Fired(t, tRow[t], FALSE).status = tRow[t].status
      /\ Fired(t, tRow[t], FALSE).triaged <=> tRow[t].triaged \/ Triages(t, tRow[t], FALSE)
  BY <1>1, FiredRow
<1>5. Triages(t, tRow[t], FALSE) <=> ~tRow[t].triaged /\ t \in reach
  BY DEF Triages
<1>20. gets => Triages(t, tRow[t], FALSE)
  OBVIOUS
<1>. HIDE DEF gets
<1>6. mails'[t] \in {mails[t], mails[t] + 1}
  BY <1>1, <1>3
<1>7. mails'[t] # mails[t] => Triages(t, tRow[t], FALSE)
  <2>1. mails'[t] # mails[t] => gets
    BY <1>1, <1>3
  <2>. QED
    BY <2>1, <1>20
<1>8. tRow'[t].triaged \in BOOLEAN /\ tRow[t].triaged \in BOOLEAN /\ tRow'[t] \in Rows
  BY <1>1, <1>2, <1>4 DEF Rows
<1>9. tRow'[t].status = tRow[t].status /\ (tRow[t].triaged => tRow'[t].triaged)
  <2>1. tRow'[t] = Fired(t, tRow[t], FALSE) \/ tRow'[t] = tRow[t]
    BY <1>2
  <2>. QED
    BY <2>1, <1>4
<1>10. t \notin reach => tRow'[t].triaged = tRow[t].triaged
  BY <1>2, <1>4, <1>5, <1>8
<1>11. mails'[t] # mails[t] /\ t \in fired => tRow'[t].triaged
  BY <1>2, <1>4, <1>7
<1>. QED
  BY <1>5, <1>6, <1>7, <1>8, <1>9, <1>10, <1>11

LEMMA DueTypes ==
  ASSUME RowTypes, NEW fired, NEW mailed, FireDue(fired, mailed), deaths' \in Nat,
         held' \in [Handler -> Copies \cup {NoCopy}]
  PROVE  RowTypes'
<1>1. tRow' = [t \in Target |-> tRow'[t]] /\ mails' = [t \in Target |-> mails'[t]]
  BY DEF FireDue
<1>2. \A t \in Target : tRow'[t] \in Rows
  BY DueStep
<1>3. \A t \in Target : mails'[t] \in Nat
  BY DueStep DEF RowTypes
<1>4. tRow' \in [Target -> Rows] /\ mails' \in [Target -> Nat]
  BY <1>1, <1>2, <1>3
<1>. QED
  BY <1>4 DEF RowTypes, FireDue

LEMMA TargetTickStep == ASSUME TargetsInv, TargetTick PROVE TargetsInv'
<1>1. FireDue(Taken, Taken) /\ UNCHANGED <<held, deaths, reach, asked>>
  BY DEF TargetTick, FireDue
<1>2. RowTypes'
  BY <1>1, DueTypes DEF TargetsInv, RowTypes
<1>3. \A t \in Target : tRow'[t].status = tRow[t].status
  BY <1>1, DueStep DEF TargetsInv
<1>4. \A t \in Target : tRow'[t].triaged # tRow[t].triaged => t \in Taken
  BY <1>1 DEF FireDue
<1>5. Unadded'
  BY <1>1, <1>3, <1>4, DueRows DEF TargetsInv, Unadded, Taken
<1>6. ASSUME NEW t \in Target PROVE Paid(t)'
  <2>1. UNCHANGED Holders(t)
    BY <1>1 DEF Holders
  <2>2. mails[t] \in Nat /\ asked[t] \in Nat /\ deaths \in Nat
    BY DEF TargetsInv, RowTypes
  <2>3. CASE t \notin reach
    BY <2>3, <1>1, DueStep DEF TargetsInv, Paid
  <2>4. CASE t \in reach
    <3>1. mails[t] + Cardinality(Holders(t)) <= Mark(t) + deaths + asked[t]
      BY <2>4 DEF TargetsInv, Paid
    <3>2. CASE mails'[t] = mails[t]
      <4>1. tRow[t].triaged => tRow'[t].triaged
        BY <1>1, DueStep DEF TargetsInv
      <4>2. Mark(t)' \in Nat /\ Mark(t) \in Nat /\ Mark(t) <= Mark(t)'
        BY <4>1 DEF Mark
      <4>. QED
        BY <2>1, <2>2, <2>4, <3>1, <3>2, <4>2, <1>1, HoldersCount DEF Paid
    <3>3. CASE mails'[t] # mails[t]
      <4>1. mails'[t] = mails[t] + 1 /\ ~tRow[t].triaged /\ (t \in Taken => tRow'[t].triaged)
        BY <3>3, <1>1, DueStep DEF TargetsInv
      <4>2. t \in Taken
        <5>1. t \notin Taken => mails'[t] = mails[t] + 0
          BY <1>1 DEF FireDue
        <5>. QED
          BY <5>1, <3>3, <2>2
      <4>3. Mark(t)' = 1 /\ Mark(t) = 0
        BY <4>1, <4>2 DEF Mark
      <4>. QED
        BY <2>1, <2>2, <2>4, <3>1, <4>1, <4>3, <1>1, HoldersCount DEF Paid
    <3>. QED
      BY <3>2, <3>3
  <2>. QED
    BY <2>3, <2>4
<1>. QED
  BY <1>2, <1>5, <1>6 DEF TargetsInv

\* A death pays for the mail whose row it leaves unwritten, and ends every
\* request that was on the way.
LEMMA CutStep == ASSUME TargetsInv, TickCutShort PROVE TargetsInv'
<1>1. PICK n \in 1..Cardinality(Taken) : FireDue(FirstDue(n - 1), FirstDue(n))
  BY DEF TickCutShort
<1>2. /\ deaths' = deaths + 1 /\ held' = [h \in Handler |-> NoCopy]
      /\ UNCHANGED <<reach, asked>> /\ deaths \in Nat
  BY <1>1 DEF TickCutShort, FireDue, TargetsInv, RowTypes
<1>3. RowTypes'
  BY <1>1, <1>2, DueTypes DEF TargetsInv
<1>4. \A t \in Target : tRow'[t].status = tRow[t].status
  BY <1>1, DueStep DEF TargetsInv
<1>5. \A t \in Target : tRow'[t].triaged # tRow[t].triaged => t \in FirstDue(n - 1)
  BY <1>1 DEF FireDue
<1>6. Unadded'
  BY <1>2, <1>4, <1>5, DueRows DEF TargetsInv, Unadded
<1>7. ASSUME NEW t \in Target PROVE Paid(t)'
  <2>1. Holders(t)' = {}
    BY <1>2 DEF Holders
  <2>2. Cardinality(Holders(t)') = 0
    BY <2>1, FS_EmptySet
  <2>3. mails[t] \in Nat /\ asked[t] \in Nat /\ Cardinality(Holders(t)) \in Nat
    BY HoldersCount DEF TargetsInv, RowTypes
  <2>4. CASE t \notin reach
    BY <2>4, <1>1, <1>2, DueStep DEF TargetsInv, Paid
  <2>5. CASE t \in reach
    <3>1. mails[t] + Cardinality(Holders(t)) <= Mark(t) + deaths + asked[t]
      BY <2>5 DEF TargetsInv, Paid
    <3>2. tRow[t].triaged => tRow'[t].triaged
      BY <1>1, DueStep DEF TargetsInv
    <3>3. Mark(t)' \in Nat /\ Mark(t) \in Nat /\ Mark(t) <= Mark(t)'
      BY <3>2 DEF Mark
    <3>4. mails'[t] \in {mails[t], mails[t] + 1}
      BY <1>1, DueStep DEF TargetsInv
    <3>5. mails'[t] + 0 <= Mark(t)' + (deaths + 1) + asked[t]
      BY <1>2, <2>3, <3>1, <3>3, <3>4
    <3>. QED
      BY <1>2, <2>2, <2>5, <3>5 DEF Paid
  <2>. QED
    BY <2>4, <2>5
<1>. QED
  BY <1>3, <1>6, <1>7 DEF TargetsInv

-----------------------------------------------------------------------------
LEMMA RowsIdleStep ==
  ASSUME TargetsInv, UNCHANGED <<tRow, reach, held, mails, asked, deaths>>
  PROVE  TargetsInv'
  BY DEF TargetsInv, RowTypes, Unadded, Paid, Mark, Holders

LEMMA TargetsStep ==
  ASSUME TargetsInv, [TargetsNext]_tVars
  PROVE  TargetsInv'
<1>1. ASSUME NEW t \in Target, DeadlinePasses(t) PROVE TargetsInv'
  BY <1>1, RowsIdleStep DEF DeadlinePasses
<1>2. CASE UNCHANGED tVars
  BY <1>2, RowsIdleStep DEF tVars
<1>. QED
  BY <1>1, <1>2, AddStep, MarkStep, FindStep, HeldStep, TargetTickStep, CutStep DEF TargetsNext

LEMMA TargetsStart == ASSUME TargetsInit PROVE TargetsInv
<1>1. [Fresh EXCEPT !.status = "none"] \in Rows /\ [Fresh EXCEPT !.status = "none"].triaged = FALSE
  BY DEF Fresh, Rows
<1>2. RowTypes
  BY <1>1 DEF TargetsInit, RowTypes
<1>3. Unadded
  BY <1>1 DEF TargetsInit, Unadded
<1>4. ASSUME NEW t \in Target PROVE Paid(t)
  <2>1. Holders(t) = {}
    BY DEF TargetsInit, Holders
  <2>2. Cardinality(Holders(t)) = 0
    BY <2>1, FS_EmptySet
  <2>3. mails[t] = 0 /\ asked[t] = 0 /\ deaths = 0 /\ Mark(t) \in Nat
    BY DEF TargetsInit, Mark
  <2>. QED
    BY <2>2, <2>3 DEF Paid
<1>. QED
  BY <1>2, <1>3, <1>4 DEF TargetsInv

-----------------------------------------------------------------------------
(* The file *)

\* The file has each target that was added once, and a copy in the hand of a
\* handler is of one of them: rows are moved and never removed.
FileInv ==
  /\ tFile \in Seq(Target) /\ IsInjective(tFile)
  /\ \A t \in Target : tRow[t].status # "none" <=> InFile(tFile, t)
  /\ \A h \in Handler : held[h] # NoCopy => tRow[held[h].id].status # "none"
  /\ overdue \subseteq Target /\ reach \subseteq Target /\ deaths \in 0..MaxDeath

\* A new row at the end.
LEMMA AppendRow ==
  ASSUME NEW X, NEW file \in Seq(X), IsInjective(file), NEW x \in X, ~InFile(file, x)
  PROVE  /\ Append(file, x) \in Seq(X) /\ IsInjective(Append(file, x))
         /\ \A y : InFile(Append(file, x), y) <=> InFile(file, y) \/ y = x
<1>1. /\ Append(file, x) \in Seq(X) /\ DOMAIN Append(file, x) = 1..(Len(file) + 1)
      /\ Append(file, x)[Len(file) + 1] = x
      /\ \A i \in 1..Len(file) : Append(file, x)[i] = file[i]
  BY AppendProperties
<1>2. Len(file) \in Nat /\ DOMAIN file = 1..Len(file)
  OBVIOUS
<1>3. \A i \in 1..(Len(file) + 1) : i \in 1..Len(file) \/ i = Len(file) + 1
  BY <1>2
<1>4. IsInjective(Append(file, x))
  BY <1>1, <1>2, <1>3 DEF IsInjective, InFile
<1>5. \A y : InFile(Append(file, x), y) <=> InFile(file, y) \/ y = x
  BY <1>1, <1>2, <1>3 DEF InFile
<1>. QED
  BY <1>1, <1>4, <1>5

\* upsertTarget moves rows and does nothing else to the file.
LEMMA UpsertRows ==
  ASSUME tFile \in Seq(Target), IsInjective(tFile), NEW moved
  PROVE  /\ Upsert(moved) \in Seq(Target) /\ IsInjective(Upsert(moved))
         /\ \A t : InFile(Upsert(moved), t) <=> InFile(tFile, t)
<1> DEFINE A == Only(tFile, Target \ moved)
           B == Only(tFile, moved)
<1>1. /\ A \in Seq(Target) /\ IsInjective(A) /\ B \in Seq(Target) /\ IsInjective(B)
      /\ \A t : InFile(A, t) <=> t \in Target \ moved /\ InFile(tFile, t)
      /\ \A t : InFile(B, t) <=> t \in moved /\ InFile(tFile, t)
  <2>1. ASSUME NEW S
        PROVE  /\ Only(tFile, S) \in Seq(Target) /\ IsInjective(Only(tFile, S))
               /\ \A t : InFile(Only(tFile, S), t) <=> t \in S /\ InFile(tFile, t)
    BY OnlyRows
  <2>. QED
    BY <2>1
<1>. HIDE DEF A, B
<1>2. /\ A \o B \in Seq(Target) /\ DOMAIN (A \o B) = 1..(Len(A) + Len(B))
      /\ \A i \in 1..Len(A) : (A \o B)[i] = A[i]
      /\ \A i \in 1..Len(B) : (A \o B)[Len(A) + i] = B[i]
  BY <1>1
<1>3. Len(A) \in Nat /\ Len(B) \in Nat /\ DOMAIN A = 1..Len(A) /\ DOMAIN B = 1..Len(B)
  BY <1>1
<1>4. \A i \in DOMAIN (A \o B) : \/ i \in DOMAIN A /\ (A \o B)[i] = A[i]
                                 \/ i - Len(A) \in DOMAIN B /\ (A \o B)[i] = B[i - Len(A)]
  <2> SUFFICES ASSUME NEW i \in 1..(Len(A) + Len(B)), i \notin 1..Len(A)
               PROVE  i - Len(A) \in 1..Len(B) /\ (A \o B)[i] = B[i - Len(A)]
    BY <1>2, <1>3
  <2>1. i - Len(A) \in 1..Len(B) /\ Len(A) + (i - Len(A)) = i
    BY <1>3
  <2>. QED
    BY <1>2, <2>1
<1>5. \A t : InFile(A \o B, t) <=> InFile(A, t) \/ InFile(B, t)
  <2>1. \A t : InFile(A \o B, t) => InFile(A, t) \/ InFile(B, t)
    BY <1>4 DEF InFile
  <2>2. ASSUME NEW t, InFile(A, t) PROVE InFile(A \o B, t)
    <3>1. \A i \in DOMAIN A : i \in DOMAIN (A \o B) /\ (A \o B)[i] = A[i]
      BY <1>2, <1>3
    <3>. QED
      BY <2>2, <3>1 DEF InFile
  <2>3. ASSUME NEW t, InFile(B, t) PROVE InFile(A \o B, t)
    <3>1. \A i \in DOMAIN B : Len(A) + i \in DOMAIN (A \o B) /\ (A \o B)[Len(A) + i] = B[i]
      BY <1>2, <1>3
    <3>. QED
      BY <2>3, <3>1 DEF InFile
  <2>. QED
    BY <2>1, <2>2, <2>3
<1>6. \A t : ~(InFile(A, t) /\ InFile(B, t))
  BY <1>1
<1>7. IsInjective(A \o B)
  <2> SUFFICES ASSUME NEW i \in DOMAIN (A \o B), NEW j \in DOMAIN (A \o B), (A \o B)[i] = (A \o B)[j]
               PROVE  i = j
    BY DEF IsInjective
  <2>1. i \in Int /\ j \in Int
    BY <1>2
  <2>2. CASE i \in DOMAIN A /\ (A \o B)[i] = A[i]
    <3>1. InFile(A, (A \o B)[j])
      BY <2>2 DEF InFile
    <3>2. ~InFile(B, (A \o B)[j])
      BY <1>6, <3>1
    <3>3. j \in DOMAIN A /\ (A \o B)[j] = A[j]
      BY <1>4, <3>2 DEF InFile
    <3>. QED
      BY <1>1, <2>2, <3>3 DEF IsInjective
  <2>3. CASE i - Len(A) \in DOMAIN B /\ (A \o B)[i] = B[i - Len(A)]
    <3>1. InFile(B, (A \o B)[j])
      BY <2>3 DEF InFile
    <3>2. ~InFile(A, (A \o B)[j])
      BY <1>6, <3>1
    <3>3. j - Len(A) \in DOMAIN B /\ (A \o B)[j] = B[j - Len(A)]
      BY <1>4, <3>2 DEF InFile
    <3>4. i - Len(A) = j - Len(A)
      BY <1>1, <2>3, <3>3 DEF IsInjective
    <3>. QED
      BY <1>3, <2>1, <3>4
  <2>. QED
    BY <1>4, <2>2, <2>3
<1>8. Upsert(moved) = A \o B
  BY DEF Upsert, A, B
<1>9. \A t : InFile(tFile, t) => t \in Target
  BY DEF InFile
<1>. QED
  BY <1>1, <1>2, <1>5, <1>7, <1>8, <1>9

LEMMA FileStart == ASSUME TargetsInit PROVE FileInv
<1>1. tFile = <<>> /\ \A t \in Target : tRow[t].status = "none"
  BY DEF TargetsInit, Fresh
<1>2. \A t : ~InFile(tFile, t)
  BY <1>1 DEF InFile
<1>3. tFile \in Seq(Target) /\ IsInjective(tFile)
  BY <1>1 DEF IsInjective
<1>. QED
  BY <1>1, <1>2, <1>3, TargetsAssumption DEF TargetsInit, FileInv

\* A step that moves rows and keeps what their status says of the file.
LEMMA MovesStep ==
  ASSUME FileInv, NEW moved, tFile' = Upsert(moved), UNCHANGED <<overdue, reach>>, deaths' \in 0..MaxDeath,
         \A t \in Target : tRow'[t].status = "none" <=> tRow[t].status = "none",
         \A h \in Handler : held'[h] # NoCopy => held[h] = held'[h] /\ held[h].id \in Target
  PROVE  FileInv'
<1>1. /\ tFile' \in Seq(Target) /\ IsInjective(tFile')
      /\ \A t : InFile(tFile', t) <=> InFile(tFile, t)
  BY UpsertRows DEF FileInv
<1>2. \A t \in Target : tRow'[t].status # "none" <=> InFile(tFile', t)
  BY <1>1 DEF FileInv
<1>3. \A h \in Handler : held'[h] # NoCopy => tRow'[held'[h].id].status # "none"
  BY DEF FileInv
<1>. QED
  BY <1>1, <1>2, <1>3 DEF FileInv

LEMMA FileStep == ASSUME TargetsInv, FileInv, [TargetsNext]_tVars PROVE FileInv'
<1>1. tRow \in [Target -> Rows] /\ \A h \in Handler : held[h] # NoCopy => held[h] \in Copies
  BY DEF TargetsInv, RowTypes
<1>2. \A h \in Handler : held[h] # NoCopy => held[h].id \in Target
  BY <1>1 DEF Copies
<1>3. ASSUME NEW t \in Target, AddTarget(t) PROVE FileInv'
  <2>1. /\ tFile' = Append(tFile, t) /\ UNCHANGED <<overdue, reach, held, deaths>>
        /\ tRow[t].status = "none"
    BY <1>3 DEF AddTarget
  <2>2. \A u \in Target : tRow'[u].status # "none" <=> tRow[u].status # "none" \/ u = t
    <3>1. ASSUME NEW u \in Target, u = t PROVE tRow'[u].status # "none"
      BY <1>3, <3>1 DEF AddTarget, Fresh
    <3>2. ASSUME NEW u \in Target, u # t
          PROVE  \/ tRow'[u] = tRow[u]
                 \/ tRow[u].status = "active" /\ tRow'[u] = [tRow[u] EXCEPT !.status = "cancelled"]
      BY <1>3, <3>2 DEF AddTarget
    <3>3. \A u \in Target : [tRow[u] EXCEPT !.status = "cancelled"].status = "cancelled"
      BY <1>1 DEF Rows
    <3>. QED
      BY <3>1, <3>2, <3>3
  <2>3. ~InFile(tFile, t)
    BY <2>1 DEF FileInv
  <2>4. /\ tFile' \in Seq(Target) /\ IsInjective(tFile')
        /\ \A u : InFile(tFile', u) <=> InFile(tFile, u) \/ u = t
    BY <2>1, <2>3, AppendRow DEF FileInv
  <2>5. \A u \in Target : tRow'[u].status # "none" <=> InFile(tFile', u)
    BY <2>2, <2>4 DEF FileInv
  <2>6. \A h \in Handler : held'[h] # NoCopy => tRow'[held'[h].id].status # "none"
    BY <1>2, <2>1, <2>2 DEF FileInv
  <2>. QED
    BY <2>1, <2>4, <2>5, <2>6 DEF FileInv
<1>4. ASSUME NEW t \in Target, NEW status \in {"done", "cancelled"}, MarkTargetStatus(t, status)
      PROVE  FileInv'
  <2>1. /\ tRow' = [tRow EXCEPT ![t] = [@ EXCEPT !.status = status]] /\ tRow[t].status = "active"
        /\ tFile' = Upsert({t}) /\ UNCHANGED <<overdue, reach, held, deaths>>
    BY <1>4 DEF MarkTargetStatus
  <2>2. [tRow[t] EXCEPT !.status = status].status = status
    BY <1>1 DEF Rows
  <2>3. \A u \in Target : tRow'[u].status = "none" <=> tRow[u].status = "none"
    BY <1>1, <2>1, <2>2
  <2>4. deaths' \in 0..MaxDeath
    BY <2>1 DEF FileInv
  <2>5. \A h \in Handler : held'[h] # NoCopy => held[h] = held'[h] /\ held[h].id \in Target
    BY <1>2, <2>1
  <2>. QED
    BY <2>1, <2>3, <2>4, <2>5, MovesStep
<1>5. ASSUME NEW h \in Handler, NEW t \in Target, NEW kind, FindTarget(h, t, kind) PROVE FileInv'
  <2>1. /\ held' = [held EXCEPT ![h] = [id |-> t, row |-> tRow[t], kind |-> kind]]
        /\ tRow[t].status # "none" /\ UNCHANGED <<tFile, tRow, overdue, reach, deaths>>
    BY <1>5 DEF FindTarget
  <2>2. \A k \in Handler : held'[k] # NoCopy => tRow'[held'[k].id].status # "none"
    BY <2>1 DEF TargetsInv, RowTypes, FileInv
  <2>. QED
    BY <2>1, <2>2 DEF FileInv
<1>6. ASSUME NEW h \in Handler, FireHeld(h) PROVE FileInv'
  <2> DEFINE c == held[h]
             row == Fired(c.id, c.row, c.kind = "triage")
  <2>1. /\ tRow' = [tRow EXCEPT ![c.id] = row] /\ tFile' = Upsert({c.id})
        /\ held' = [held EXCEPT ![h] = NoCopy] /\ c # NoCopy /\ UNCHANGED <<overdue, reach, deaths>>
    BY <1>6 DEF FireHeld
  <2>2. c.id \in Target /\ row.status = c.row.status /\ c.row.status # "none"
        /\ tRow[c.id].status # "none"
    BY <1>2, <2>1 DEF Fired, TargetsInv, Unadded, FileInv
  <2>. HIDE DEF row
  <2>3. \A u \in Target : tRow'[u].status = "none" <=> tRow[u].status = "none"
    BY <1>1, <2>1, <2>2
  <2>4. deaths' \in 0..MaxDeath
    BY <2>1 DEF FileInv
  <2>5. \A k \in Handler : held'[k] # NoCopy => held[k] = held'[k] /\ held[k].id \in Target
    BY <1>2, <2>1 DEF TargetsInv, RowTypes
  <2>. QED
    BY <2>1, <2>3, <2>4, <2>5, MovesStep
<1>7. ASSUME NEW fired, NEW mailed, FireDue(fired, mailed), deaths' \in 0..MaxDeath,
             held' = held \/ held' = [h \in Handler |-> NoCopy]
      PROVE  FileInv'
  <2>1. tFile' = Upsert(fired) /\ UNCHANGED <<overdue, reach>>
    BY <1>7 DEF FireDue
  <2>2. \A u \in Target : tRow'[u].status = "none" <=> tRow[u].status = "none"
    BY <1>7, DueStep DEF TargetsInv
  <2>3. \A k \in Handler : held'[k] # NoCopy => held[k] = held'[k] /\ held[k].id \in Target
    BY <1>2, <1>7
  <2>. QED
    BY <1>7, <2>1, <2>2, <2>3, MovesStep
<1>8. CASE TargetTick
  BY <1>7, <1>8 DEF TargetTick, FileInv
<1>9. CASE TickCutShort
  <2>1. PICK n \in 1..Cardinality(Taken) : FireDue(FirstDue(n - 1), FirstDue(n))
    BY <1>9 DEF TickCutShort
  <2>2. deaths' \in 0..MaxDeath /\ held' = [h \in Handler |-> NoCopy]
    BY <1>9, TargetsAssumption DEF TickCutShort, FileInv
  <2>. QED
    BY <1>7, <2>1, <2>2
<1>10. ASSUME NEW t \in Target, DeadlinePasses(t) PROVE FileInv'
  BY <1>10 DEF DeadlinePasses, FileInv
<1>11. CASE UNCHANGED tVars
  BY <1>11 DEF tVars, FileInv
<1>. QED
  BY <1>3, <1>4, <1>5, <1>6, <1>8, <1>9, <1>10, <1>11 DEF TargetsNext

LEMMA TargetsInvariant == TargetsInit /\ [][TargetsNext]_tVars => [](TargetsInv /\ FileInv)
<1>. QED
  BY TargetsStart, FileStart, TargetsStep, FileStep, PTL

\* The type invariant is the two together.
LEMMA TargetsTypeFacts == ASSUME TargetsInv, FileInv PROVE TargetsTypeOK
  BY DEF TargetsInv, RowTypes, FileInv, InFile, TargetsTypeOK

(* Rows keep their types, and the file has every target that was added once. *)
THEOREM TargetsTypes == TargetsSpec => []TargetsTypeOK
  BY TargetsInvariant, TargetsTypeFacts, PTL DEF TargetsSpec

-----------------------------------------------------------------------------
\* What is left of the account when nobody holds a copy.
LEMMA TriageFacts == ASSUME TargetsInv PROVE TriagedOnce
<1> SUFFICES ASSUME NEW t \in Target PROVE mails[t] <= 1 + deaths + asked[t]
  BY DEF TriagedOnce
<1>1. mails[t] \in Nat /\ asked[t] \in Nat /\ deaths \in Nat
  BY DEF TargetsInv, RowTypes
<1>2. Mark(t) \in 0..1
  BY DEF Mark
<1>. QED
  BY <1>1, <1>2, HoldersCount DEF TargetsInv, Paid

(* A deadline is triaged by mail once: by the tick that marks the row, by a  *)
(* tick that died before it could, or by somebody who asked.  A handler that *)
(* writes an old copy back does not open the way for another mail.           *)
THEOREM TriageMailsArePaidFor == TargetsSpec => []TriagedOnce
  BY TargetsInvariant, TriageFacts, PTL DEF TargetsSpec

\* Only what a handler held can change the status of a settled target.
LEMMA OnlyHeldUnsettles ==
  ASSUME TargetsInv, [TargetsNext]_tVars,
         NEW t \in Target, tRow[t].status \in {"done", "cancelled"}, tRow'[t].status # tRow[t].status
  PROVE  \E h \in Handler :
           held[h] # NoCopy /\ held[h].id = t /\ held[h].row.status = tRow'[t].status
<1>1. tRow \in [Target -> Rows]
  BY DEF TargetsInv, RowTypes
<1>2. ~\E u \in Target : AddTarget(u)
  BY <1>1 DEF AddTarget
<1>3. ~\E u \in Target, status \in {"done", "cancelled"} : MarkTargetStatus(u, status)
  BY <1>1 DEF MarkTargetStatus
<1>4. ~TargetTick /\ ~TickCutShort
  BY DueStep DEF TargetTick, TickCutShort, TargetsInv
<1>5. ~(\/ UNCHANGED tRow \/ \E u \in Target : DeadlinePasses(u)
        \/ \E h \in Handler, u \in Target : FindTarget(h, u, "remind") \/ FindTarget(h, u, "triage"))
  BY DEF DeadlinePasses, FindTarget
<1>6. PICK h \in Handler : FireHeld(h)
  BY <1>2, <1>3, <1>4, <1>5 DEF TargetsNext, tVars
<1>7. /\ held[h] # NoCopy
      /\ tRow' = [tRow EXCEPT ![held[h].id] =
                    Fired(held[h].id, held[h].row, held[h].kind = "triage")]
  BY <1>6 DEF FireHeld
<1>8. t = held[h].id
  BY <1>1, <1>7
<1>9. tRow'[t].status = held[h].row.status
  BY <1>1, <1>7, <1>8 DEF Fired
<1>. QED
  BY <1>7, <1>8, <1>9

LEMMA SettledStep ==
  TargetsInv /\ [TargetsNext]_tVars =>
    [\A t \in Target :
       tRow[t].status \in {"done", "cancelled"} /\ tRow'[t].status # tRow[t].status =>
         \E h \in Handler :
           held[h] # NoCopy /\ held[h].id = t /\ held[h].row.status = tRow'[t].status]_tVars
  BY OnlyHeldUnsettles

(* A target that is done or cancelled is not reopened, and does not turn     *)
(* from the one into the other, by a tick, by another target or by a second  *)
(* request to settle it: only the copy of a handler can do that.             *)
THEOREM SettledStays == TargetsSpec => SettledTargetStays
  BY TargetsStart, TargetsStep, SettledStep, PTL DEF TargetsSpec, SettledTargetStays
=============================================================================
