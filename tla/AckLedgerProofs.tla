--------------------------- MODULE AckLedgerProofs ---------------------------
(***************************************************************************)
(* Theorems about AckLedger, for every set of mail, seats and prompts and   *)
(* every value of the bounds.  Whatever a step does to the ledger, it opens *)
(* at most one row or closes open ones (LedgerSteps); each theorem then     *)
(* rests on an invariant of its own.  The last part is about the loop of    *)
(* matchFiledAcks: no two stamps are equal (StampsApart), and on such rows  *)
(* and filings the loop and its closed form agree, by a counterexample with *)
(* the fewest filings.                                                      *)
(***************************************************************************)
EXTENDS AckLedger, FiniteSetTheorems, WellFoundedInduction, TLAPS

OpenRows == {a \in acks : Open(a)}

-----------------------------------------------------------------------------
(* Types *)

\* A new row is one.
LEMMA NewAckType ==
  ASSUME NEW s \in Seat, NEW x \in Asks, NEW source \in {"mail", "operator"}, NEW t \in Nat
  PROVE  NewAck(s, x, source, t) \in Ack
  BY DEF NewAck, Ack, Closers

\* Opening and closing keep the ledger a set of rows.
LEMMA OpenType ==
  ASSUME acks \subseteq Ack, NEW a \in Ack, OpenAck(a) PROVE acks' \subseteq Ack
  BY DEF OpenAck

LEMMA CloseType ==
  ASSUME acks \subseteq Ack, NEW S \in SUBSET acks, NEW by \in Closers
  PROVE  Close(S, by) \subseteq Ack
  BY DEF Close, Ack

\* What is opened when a row is delivered.
LEMMA DeliveredType ==
  ASSUME TypeOK, NEW m \in Mail, OpenDelivered(m) PROVE acks' \subseteq Ack
<1>1. CASE AskOf[m] = NoAsk
  BY <1>1 DEF OpenDelivered, TypeOK
<1>2. CASE AskOf[m] # NoAsk
  <2>1. To[m] \in Seat /\ AskOf[m] \in Asks
    BY <1>2, MailAssumption
  <2>2. (IF Lane[m] = "peer" THEN at[m] ELSE now + 1) \in Nat
    BY DEF TypeOK
  <2>. QED
    BY <1>2, <2>1, <2>2, NewAckType, OpenType DEF OpenDelivered, TypeOK
<1>. QED
  BY <1>1, <1>2

\* A death forgets what was in memory.
LEMMA DieType ==
  ASSUME TypeOK, Die
  PROVE  /\ watch' \in [Watched -> Text \cup {NoAsk}]
         /\ arm' \in [Watched -> {"off", "armed", "sawBusy"}]
         /\ quiet' \subseteq Watched /\ prompts' \subseteq Prompt /\ replies' \subseteq Watched
         /\ pc' \in {"drain", "open", "reply", "file", "paint", "down"}
         /\ crashes' \in 0..MaxCrash
  BY BoundAssumption DEF TypeOK, Die, Forget

LEMMA AppendMailType ==
  ASSUME TypeOK, NEW m \in Mail, AppendMail(m)
  PROVE  /\ mail' \in [Mail -> {"none", "queued", "sent", "skipped"}]
         /\ at' \in [Mail -> Nat] /\ sentAt' \in [Mail -> Nat] /\ now' \in Nat
         /\ UNCHANGED <<screens, waiting, typed>>
  BY DEF TypeOK, AppendMail

\* The row of an ask that is being queued.
LEMMA QueuedAsk ==
  ASSUME NEW m \in Mail, OpensOnQueue(m) PROVE To[m] \in Seat /\ AskOf[m] \in Asks
  BY MailAssumption DEF OpensOnQueue

LEMMA EnqueueType == ASSUME TypeOK, NEW m \in Mail, Enqueue(m) \/ EnqueueCut(m) PROVE TypeOK'
<1>1. AppendMail(m)
  BY DEF Enqueue, EnqueueCut
<1>2. acks' \subseteq Ack
  <2>1. CASE OpensOnQueue(m) /\ OpenAck(NewAck(To[m], AskOf[m], "mail", now + 1))
    <3>1. now + 1 \in Nat
      BY DEF TypeOK
    <3>. QED
      BY <2>1, <3>1, QueuedAsk, NewAckType, OpenType DEF TypeOK
  <2>2. CASE UNCHANGED acks
    BY <2>2 DEF TypeOK
  <2>. QED
    BY <2>1, <2>2 DEF Enqueue, EnqueueCut
<1>3. CASE Enqueue(m)
  BY <1>1, <1>2, <1>3, AppendMailType DEF Enqueue, TypeOK, screens, memory
<1>4. CASE EnqueueCut(m)
  BY <1>1, <1>2, <1>4, AppendMailType, DieType DEF EnqueueCut, TypeOK, screens
<1>. QED
  BY <1>3, <1>4

LEMMA DeliverType == ASSUME TypeOK, NEW m \in Mail, Deliver(m) PROVE TypeOK'
<1>1. acks' \subseteq Ack
  BY DeliveredType DEF Deliver
<1>2. /\ mail' \in [Mail -> {"none", "queued", "sent", "skipped"}]
      /\ sentAt' \in [Mail -> Nat] /\ now' \in Nat
  BY DEF Deliver, MarkSent, TypeOK
<1>3. /\ quiet' \subseteq Watched /\ watch' \in [Watched -> Text \cup {NoAsk}]
      /\ arm' \in [Watched -> {"off", "armed", "sawBusy"}]
  BY DEF Deliver, NoteDaemonInject, TypeOK
<1>4. turn' \subseteq Watched /\ UNCHANGED <<at, draft, echo, waiting, typed>>
  BY DEF Deliver, Pastes, TypeOK
<1>. QED
  BY <1>1, <1>2, <1>3, <1>4 DEF Deliver, TypeOK

LEMMA DeliverCutType == ASSUME TypeOK, NEW m \in Mail, DeliverCut(m) PROVE TypeOK'
<1>1. acks' \subseteq Ack
  BY DeliveredType DEF DeliverCut, TypeOK
<1>2. /\ mail' \in [Mail -> {"none", "queued", "sent", "skipped"}]
      /\ sentAt' \in [Mail -> Nat] /\ now' \in Nat
  BY DEF DeliverCut, MarkSent, TypeOK
<1>3. Die
  BY DEF DeliverCut
<1>4. turn' \subseteq Watched /\ UNCHANGED <<at, draft, echo, waiting, typed>>
  BY DEF DeliverCut, Pastes, TypeOK
<1>. QED
  BY <1>1, <1>2, <1>3, <1>4, DieType DEF TypeOK

\* Closing by hand, by the sweep, and opening what the paint has seen.
LEMMA SweepType ==
  ASSUME TypeOK,
         \/ \E m \in Mail : Skip(m)
         \/ \E a \in acks : AckExplicit(a)
         \/ \E S \in {{s} : s \in Seat} \cup {Seat} : AckAll(S)
         \/ Sweep
  PROVE  TypeOK'
<1>1. ASSUME NEW m \in Mail, Skip(m) PROVE TypeOK'
  BY <1>1 DEF Skip, TypeOK, screens, memory, counts
<1>2. ASSUME NEW a \in acks, AckExplicit(a) PROVE TypeOK'
  <2>1. acks' \subseteq Ack
    BY <1>2, CloseType DEF AckExplicit, TypeOK, Closers
  <2>. QED
    BY <2>1, <1>2 DEF AckExplicit, TypeOK, screens, memory, counts
<1>3. ASSUME NEW S \in {{s} : s \in Seat} \cup {Seat}, AckAll(S) PROVE TypeOK'
  <2>1. UNION {OpenFor(s) : s \in S} \in SUBSET acks
    BY DEF OpenFor
  <2>2. acks' \subseteq Ack
    BY <2>1, <1>3, CloseType DEF AckAll, TypeOK, Closers
  <2>. QED
    BY <2>2, <1>3 DEF AckAll, TypeOK, screens, memory, counts
<1>4. CASE OpenOperatorPrompt
  <2>1. PICK p \in prompts : /\ OpenAck(NewAck(p.seat, p.ask, "operator", p.at))
                             /\ prompts' = prompts \ {p}
    BY <1>4 DEF OpenOperatorPrompt
  <2>2. p.seat \in Seat /\ p.ask \in Asks /\ p.at \in Nat
    BY MailAssumption DEF TypeOK, Prompt
  <2>3. acks' \subseteq Ack
    BY <2>1, <2>2, NewAckType, OpenType DEF TypeOK
  <2>. QED
    BY <2>1, <2>3, <1>4 DEF OpenOperatorPrompt, TypeOK, screens, counts
<1>5. CASE EndOpen
  BY <1>5 DEF EndOpen, TypeOK, files, screens, memory, counts
<1>6. CASE CloseOperatorAcksOnPaneReply
  <2>1. acks' \subseteq Ack
    BY <1>6, CloseType DEF CloseOperatorAcksOnPaneReply, TypeOK, Closers
  <2>. QED
    BY <2>1, <1>6 DEF CloseOperatorAcksOnPaneReply, TypeOK, screens, counts
<1>7. CASE CloseAcksOnFilings
  <2>1. UNION {MatchFiled(s) : s \in Seat} \in SUBSET acks
    BY DEF MatchFiled, OpenFor
  <2>2. acks' \subseteq Ack
    BY <2>1, <1>7, CloseType DEF CloseAcksOnFilings, TypeOK, Closers
  <2>. QED
    BY <2>2, <1>7 DEF CloseAcksOnFilings, TypeOK, screens, memory, counts
<1>. QED
  BY <1>1, <1>2, <1>3, <1>4, <1>5, <1>6, <1>7 DEF Sweep

\* What the paint keeps of a composer.
LEMMA ObserveType ==
  ASSUME TypeOK, NEW p \in Watched, Observe(p)
  PROVE  /\ arm' \in [Watched -> {"off", "armed", "sawBusy"}]
         /\ replies' \subseteq Watched
         /\ watch' \in [Watched -> Text \cup {NoAsk}]
         /\ prompts' \subseteq Prompt /\ waiting' \subseteq Watched \X Nat /\ now' \in Nat
<1>1. PICK phase : LET cycle == ReplyCycle(p, phase) IN
    /\ arm' = [arm EXCEPT ![p] = IF cycle = "answered" THEN "off" ELSE cycle]
    /\ replies' = IF cycle = "answered" THEN replies \cup {p} ELSE replies
    /\ watch' = [watch EXCEPT ![p] = draft[p]]
    /\ IF Submitted(p)
       THEN /\ prompts' = prompts \cup {[seat |-> p, ask |-> watch[p], at |-> now + 1]}
            /\ waiting' = waiting \cup {<<p, now + 1>>}
            /\ now' = now + 1
       ELSE UNCHANGED <<prompts, waiting, now>>
  BY DEF Observe
<1>2. ReplyCycle(p, phase) \in {"off", "armed", "sawBusy", "answered"}
  BY DEF ReplyCycle, TypeOK
<1>3. Submitted(p) => watch[p] \in Text
  BY DEF Submitted, TypeOK
<1>4. /\ arm' \in [Watched -> {"off", "armed", "sawBusy"}] /\ replies' \subseteq Watched
      /\ watch' \in [Watched -> Text \cup {NoAsk}]
  BY <1>1, <1>2 DEF TypeOK
<1>5. prompts' \subseteq Prompt
  BY <1>1, <1>3 DEF TypeOK, Prompt
<1>6. waiting' \subseteq Watched \X Nat /\ now' \in Nat
  BY <1>1 DEF TypeOK
<1>. QED
  BY <1>4, <1>5, <1>6

LEMMA PaintType == ASSUME TypeOK, Paint PROVE TypeOK'
<1>1. CASE PaintNothing
  BY <1>1 DEF PaintNothing, TypeOK, files, screens, memory, counts
<1>2. ASSUME NEW p \in Watched, PaintPane(p) PROVE TypeOK'
  <2>1. pc' = "drain" /\ UNCHANGED <<mail, at, sentAt, acks, draft, echo, turn, crashes, typed>>
    BY <1>2 DEF PaintPane, files, screens, counts
  <2>2. CASE /\ watch' = [watch EXCEPT ![p] = NoAsk]
             /\ UNCHANGED <<arm, replies, prompts, waiting, now, quiet>>
    BY <2>1, <2>2 DEF TypeOK
  <2>3. CASE Observe(p) /\ quiet' = quiet \ {p}
    BY <2>1, <2>3, ObserveType DEF TypeOK
  <2>. QED
    BY <1>2, <2>2, <2>3 DEF PaintPane
<1>. QED
  BY <1>1, <1>2 DEF Paint

\* The operator, the agent, and the daemon's own comings and goings.
LEMMA OthersType ==
  ASSUME TypeOK,
         \/ Crash \/ Restart
         \/ \E p \in Watched : TurnEnds(p) \/ Submits(p) \/ Erases(p) \/ \E x \in Text : Types(p, x)
  PROVE  TypeOK'
<1>1. CASE Crash
  BY <1>1, DieType DEF Crash, TypeOK, files, screens
<1>2. CASE Restart
  BY <1>2 DEF Restart, TypeOK, files, screens, memory, counts
<1>3. ASSUME NEW p \in Watched, TurnEnds(p) PROVE TypeOK'
  BY <1>3 DEF TurnEnds, TypeOK, files, memory, counts
<1>4. ASSUME NEW p \in Watched, Submits(p) PROVE TypeOK'
  <2>1. draft[p] \in Text
    BY <1>4 DEF Submits, TypeOK
  <2>2. echo' \in [Watched -> SUBSET Text]
    BY <2>1, <1>4 DEF Submits, TypeOK
  <2>3. draft' \in [Watched -> Text \cup {NoAsk}] /\ turn' \subseteq Watched
    BY <1>4 DEF Submits, TypeOK
  <2>. QED
    BY <2>2, <2>3, <1>4 DEF Submits, TypeOK, files, memory, counts
<1>5. ASSUME NEW p \in Watched, Erases(p) PROVE TypeOK'
  BY <1>5 DEF Erases, TypeOK, files, memory, counts
<1>6. ASSUME NEW p \in Watched, NEW x \in Text, Types(p, x) PROVE TypeOK'
  BY <1>6, BoundAssumption DEF Types, TypeOK, files, memory
<1>. QED
  BY <1>1, <1>2, <1>3, <1>4, <1>5, <1>6

LEMMA NextType == ASSUME TypeOK, [Next]_vars PROVE TypeOK'
<1>1. CASE UNCHANGED vars
  BY <1>1 DEF vars, TypeOK, files, screens, memory, counts
<1>. QED
  BY <1>1, EnqueueType, DeliverType, DeliverCutType, SweepType, PaintType, OthersType DEF Next

(* The ledger, the queues and what the paint remembers keep their types.     *)
THEOREM TypeCorrect == Spec => []TypeOK
<1>1. Init => TypeOK
  BY MailAssumption, BoundAssumption DEF Init, TypeOK, Ack, Prompt
<1>. QED
  BY <1>1, NextType, PTL DEF Spec

-----------------------------------------------------------------------------
(* What a step does to the ledger *)

\* One row is opened, as openAck opens it.
OpensRow == \E s, x, source, t : OpenAck(NewAck(s, x, source, t))

\* Rows that were open are closed.
ClosesRows(by) == \E S \in SUBSET OpenRows : acks' = Close(S, by)

Queues == \E m \in Mail : Enqueue(m) \/ EnqueueCut(m) \/ Deliver(m) \/ DeliverCut(m)

LEMMA LedgerSteps ==
  ASSUME [Next]_vars
  PROVE  \/ UNCHANGED acks
         \/ OpensRow /\ (Queues \/ OpenOperatorPrompt)
         \/ ClosesRows("hand")
         \/ ClosesRows("pane-reply") /\ CloseOperatorAcksOnPaneReply
         \/ ClosesRows("filed") /\ CloseAcksOnFilings
<1>1. ASSUME NEW m \in Mail, Enqueue(m) \/ EnqueueCut(m) \/ Deliver(m) \/ DeliverCut(m)
      PROVE  UNCHANGED acks \/ OpensRow
  BY <1>1 DEF Enqueue, EnqueueCut, Deliver, DeliverCut, OpenDelivered, OpensRow
<1>2. ASSUME NEW m \in Mail, Skip(m) PROVE UNCHANGED acks
  BY <1>2 DEF Skip
<1>3. ASSUME NEW a \in acks, AckExplicit(a) PROVE ClosesRows("hand")
  BY <1>3 DEF AckExplicit, ClosesRows, OpenRows
<1>4. ASSUME NEW S \in {{s} : s \in Seat} \cup {Seat}, AckAll(S) PROVE ClosesRows("hand")
  <2>1. UNION {OpenFor(s) : s \in S} \in SUBSET OpenRows
    BY DEF OpenFor, OpenRows
  <2>. QED
    BY <1>4, <2>1 DEF AckAll, ClosesRows
<1>5. CASE OpenOperatorPrompt
  BY <1>5 DEF OpenOperatorPrompt, OpensRow
<1>6. CASE EndOpen
  BY <1>6 DEF EndOpen, files
<1>7. CASE CloseOperatorAcksOnPaneReply
  <2>1. {a \in acks : Open(a) /\ a.source = "operator" /\ a.seat \in replies} \in SUBSET OpenRows
    BY DEF OpenRows
  <2>. QED
    BY <1>7, <2>1 DEF CloseOperatorAcksOnPaneReply, ClosesRows
<1>8. CASE CloseAcksOnFilings
  <2>1. UNION {MatchFiled(s) : s \in Seat} \in SUBSET OpenRows
    BY DEF MatchFiled, OpenFor, OpenRows
  <2>. QED
    BY <1>8, <2>1 DEF CloseAcksOnFilings, ClosesRows
<1>9. CASE Paint
  BY <1>9 DEF Paint, PaintNothing, PaintPane, files
<1>10. CASE Crash \/ Restart
  BY <1>10 DEF Crash, Restart, files
<1>11. ASSUME NEW p \in Watched, TurnEnds(p) \/ Submits(p) \/ Erases(p) \/ \E x \in Text : Types(p, x)
       PROVE  UNCHANGED acks
  BY <1>11 DEF TurnEnds, Submits, Erases, Types, files
<1>12. CASE UNCHANGED vars
  BY <1>12 DEF vars, files
<1>. QED
  BY <1>1, <1>2, <1>3, <1>4, <1>5, <1>6, <1>7, <1>8, <1>9, <1>10, <1>11, <1>12 DEF Next, Sweep, Queues

\* The rows a step writes for those it closes are not open, and say what the
\* old ones said.
LEMMA ClosedRows ==
  ASSUME acks \subseteq Ack, NEW S \in SUBSET OpenRows, NEW by \in Closers,
         NEW a \in Close(S, by)
  PROVE  \/ a \in acks /\ a \notin S
         \/ \E b \in S : a = [b EXCEPT !.by = by] /\ a.by = by /\ a.seat = b.seat /\ a.ask = b.ask
                          /\ a.source = b.source /\ a.at = b.at
  BY DEF Close, OpenRows, Ack

-----------------------------------------------------------------------------
(* One open row for an ask *)

LEMMA OneOpenStep == ASSUME TypeOK, OneOpenPerAsk, [Next]_vars PROVE OneOpenPerAsk'
<1>1. CASE UNCHANGED acks
  BY <1>1 DEF OneOpenPerAsk, Open
<1>2. CASE OpensRow
  <2>1. PICK s, x, source, t : OpenAck(NewAck(s, x, source, t))
    BY <1>2 DEF OpensRow
  <2>2. NewAck(s, x, source, t).seat = s /\ NewAck(s, x, source, t).ask = x
    BY DEF NewAck
  <2>. QED
    BY <2>1, <2>2 DEF OpenAck, OpenFor, OneOpenPerAsk, Open
<1>3. ASSUME NEW by \in Closers, ClosesRows(by) PROVE OneOpenPerAsk'
  <2>1. PICK S \in SUBSET OpenRows : acks' = Close(S, by)
    BY <1>3 DEF ClosesRows
  <2>2. \A a \in acks' : Open(a) => a \in acks
    BY <2>1, ClosedRows DEF Open, Closers, TypeOK
  <2>. QED
    BY <2>2 DEF OneOpenPerAsk, Open
<1>. QED
  BY <1>1, <1>2, <1>3, LedgerSteps DEF Closers

(* A seat owes one answer to one ask: openAck is reached from the handler,   *)
(* from two drains, from a repetition after a death and from the paint, and  *)
(* never opens a second row for the same ask.                                *)
THEOREM OneOpen == Spec => []OneOpenPerAsk
<1>1. Init => OneOpenPerAsk
  BY DEF Init, OneOpenPerAsk
<1>. QED
  BY <1>1, OneOpenStep, TypeCorrect, PTL DEF Spec

-----------------------------------------------------------------------------
(* An ask that was handed over is in the ledger *)

HasRow(m) == \E a \in acks : a.seat = To[m] /\ a.ask = AskOf[m]

\* Its row is written when it is queued, and again when it is delivered; each
\* death takes one of the two writes away.
RecordInv ==
  \A m \in Mail : AskOf[m] # NoAsk =>
    /\ mail[m] = "queued" /\ Lane[m] = "peer" => crashes >= 1 \/ HasRow(m)
    /\ mail[m] = "sent" => crashes >= 2 \/ HasRow(m)

\* No step takes a row out of the ledger.
LEMMA RowsStay == ASSUME TypeOK, [Next]_vars, NEW m \in Mail, HasRow(m) PROVE HasRow(m)'
<1>1. PICK a \in acks : a.seat = To[m] /\ a.ask = AskOf[m]
  BY DEF HasRow
<1>2. CASE UNCHANGED acks
  BY <1>1, <1>2 DEF HasRow
<1>3. CASE OpensRow
  BY <1>1, <1>3 DEF HasRow, OpensRow, OpenAck
<1>4. ASSUME NEW by \in Closers, ClosesRows(by) PROVE HasRow(m)'
  <2>1. PICK S \in SUBSET OpenRows : acks' = Close(S, by)
    BY <1>4 DEF ClosesRows
  <2>2. CASE a \in S
    <3>1. [a EXCEPT !.by = by] \in acks'
      BY <2>1, <2>2 DEF Close
    <3>2. [a EXCEPT !.by = by].seat = a.seat /\ [a EXCEPT !.by = by].ask = a.ask
      BY DEF TypeOK, Ack
    <3>. QED
      BY <3>1, <3>2, <1>1 DEF HasRow
  <2>3. CASE a \notin S
    BY <2>1, <2>3, <1>1 DEF HasRow, Close
  <2>. QED
    BY <2>2, <2>3
<1>. QED
  BY <1>2, <1>3, <1>4, LedgerSteps DEF Closers

\* After openAck the ledger has a row for the ask.
LEMMA OpenGives ==
  ASSUME NEW s, NEW x, NEW source, NEW t, OpenAck(NewAck(s, x, source, t))
  PROVE  \E a \in acks' : a.seat = s /\ a.ask = x
<1> DEFINE a == NewAck(s, x, source, t)
<1>1. a.seat = s /\ a.ask = x
  BY DEF NewAck
<1>. HIDE DEF a
<1>2. CASE \E b \in OpenFor(a.seat) : b.ask = a.ask
  BY <1>1, <1>2 DEF OpenAck, OpenFor, a
<1>3. CASE ~\E b \in OpenFor(a.seat) : b.ask = a.ask
  <2>1. a \in acks'
    BY <1>3 DEF OpenAck, a
  <2>. QED
    BY <2>1, <1>1
<1>. QED
  BY <1>2, <1>3

\* Steps that leave the queues alone, or only skip a row of them.
LEMMA RecordKept ==
  ASSUME TypeOK, RecordInv, [Next]_vars, crashes' >= crashes, crashes' \in Nat,
         \A m \in Mail : mail'[m] # mail[m] => mail'[m] = "skipped"
  PROVE  RecordInv'
<1>1. ASSUME NEW m \in Mail, AskOf[m] # NoAsk, mail'[m] = "queued", Lane[m] = "peer"
      PROVE  crashes' >= 1 \/ HasRow(m)'
  BY <1>1, RowsStay, BoundAssumption DEF RecordInv, TypeOK
<1>2. ASSUME NEW m \in Mail, AskOf[m] # NoAsk, mail'[m] = "sent"
      PROVE  crashes' >= 2 \/ HasRow(m)'
  BY <1>2, RowsStay, BoundAssumption DEF RecordInv, TypeOK
<1>. QED
  BY <1>1, <1>2 DEF RecordInv

LEMMA RecordEnqueue ==
  ASSUME TypeOK, RecordInv, NEW m \in Mail, Enqueue(m) \/ EnqueueCut(m) PROVE RecordInv'
<1>1. [Next]_vars
  BY DEF Next
<1>2. mail' = [mail EXCEPT ![m] = "queued"]
  BY DEF Enqueue, EnqueueCut, AppendMail
<1>3. crashes' >= crashes /\ crashes \in Nat /\ crashes' \in Nat
  BY BoundAssumption DEF Enqueue, EnqueueCut, Die, TypeOK
<1>4. OpensOnQueue(m) => crashes' >= 1 \/ HasRow(m)'
  <2>1. CASE Enqueue(m)
    BY <2>1, OpenGives DEF Enqueue, HasRow
  <2>2. CASE EnqueueCut(m)
    BY <2>2, <1>3, BoundAssumption DEF EnqueueCut, Die, TypeOK
  <2>. QED
    BY <2>1, <2>2
<1>5. ASSUME NEW k \in Mail, AskOf[k] # NoAsk, mail'[k] = "queued", Lane[k] = "peer"
      PROVE  crashes' >= 1 \/ HasRow(k)'
  <2>1. CASE k = m
    BY <2>1, <1>4, <1>5 DEF OpensOnQueue
  <2>2. CASE k # m
    BY <2>2, <1>1, <1>2, <1>3, <1>5, RowsStay DEF RecordInv, TypeOK
  <2>. QED
    BY <2>1, <2>2
<1>6. ASSUME NEW k \in Mail, AskOf[k] # NoAsk, mail'[k] = "sent"
      PROVE  crashes' >= 2 \/ HasRow(k)'
  BY <1>1, <1>2, <1>3, <1>6, RowsStay DEF RecordInv, TypeOK
<1>. QED
  BY <1>5, <1>6 DEF RecordInv

LEMMA RecordDeliver ==
  ASSUME TypeOK, RecordInv, NEW m \in Mail, Deliver(m) \/ DeliverCut(m) PROVE RecordInv'
<1>1. [Next]_vars
  BY DEF Next
<1>2. mail' = [mail EXCEPT ![m] = "sent"] \/ mail' = mail
  BY DEF Deliver, DeliverCut, MarkSent
<1>3. crashes' >= crashes /\ crashes \in Nat /\ crashes' \in Nat
  BY BoundAssumption DEF Deliver, DeliverCut, Die, TypeOK
<1>4. mail[m] = "queued"
  BY DEF Deliver, DeliverCut, Pastes
<1>5. AskOf[m] # NoAsk /\ mail' # mail => crashes' >= 2 \/ HasRow(m)'
  <2>1. CASE Deliver(m)
    BY <2>1, OpenGives DEF Deliver, OpenDelivered, HasRow
  <2>2. CASE DeliverCut(m)
    <3>1. mail' # mail => Lane[m] = "peer" /\ crashes' = crashes + 1
      BY <2>2 DEF DeliverCut, Die
    <3>2. AskOf[m] # NoAsk /\ Lane[m] = "peer" => crashes >= 1 \/ HasRow(m)
      BY <1>4 DEF RecordInv
    <3>. QED
      BY <3>1, <3>2, <1>1, <1>3, RowsStay
  <2>. QED
    BY <2>1, <2>2
<1>6. ASSUME NEW k \in Mail, AskOf[k] # NoAsk, mail'[k] = "queued", Lane[k] = "peer"
      PROVE  crashes' >= 1 \/ HasRow(k)'
  <2>1. mail[k] = "queued"
    BY <1>2, <1>6, <1>4 DEF TypeOK
  <2>. QED
    BY <2>1, <1>1, <1>3, <1>6, RowsStay DEF RecordInv
<1>7. ASSUME NEW k \in Mail, AskOf[k] # NoAsk, mail'[k] = "sent"
      PROVE  crashes' >= 2 \/ HasRow(k)'
  <2>1. CASE mail[k] = "sent"
    BY <2>1, <1>1, <1>3, <1>7, RowsStay DEF RecordInv
  <2>2. CASE mail[k] # "sent"
    <3>1. k = m /\ mail' # mail
      BY <2>2, <1>2, <1>7 DEF TypeOK
    <3>. QED
      BY <3>1, <1>5, <1>7
  <2>. QED
    BY <2>1, <2>2
<1>. QED
  BY <1>6, <1>7 DEF RecordInv

LEMMA RecordStep == ASSUME TypeOK, RecordInv, [Next]_vars PROVE RecordInv'
<1>0. crashes \in Nat
  BY BoundAssumption DEF TypeOK
<1>1. ASSUME NEW m \in Mail, Enqueue(m) \/ EnqueueCut(m) \/ Deliver(m) \/ DeliverCut(m) PROVE RecordInv'
  BY <1>1, RecordEnqueue, RecordDeliver
<1>2. ASSUME NEW m \in Mail, Skip(m) PROVE RecordInv'
  BY <1>0, <1>2, RecordKept DEF Skip, counts, TypeOK
<1>3. ASSUME NEW a \in acks, AckExplicit(a) PROVE RecordInv'
  BY <1>0, <1>3, RecordKept DEF AckExplicit, counts
<1>4. ASSUME NEW S \in {{s} : s \in Seat} \cup {Seat}, AckAll(S) PROVE RecordInv'
  BY <1>0, <1>4, RecordKept DEF AckAll, counts
<1>5. CASE Sweep
  BY <1>0, <1>5, RecordKept
  DEF Sweep, OpenOperatorPrompt, EndOpen, CloseOperatorAcksOnPaneReply, CloseAcksOnFilings, counts, files
<1>6. CASE Paint
  BY <1>0, <1>6, RecordKept DEF Paint, PaintNothing, PaintPane, counts, files
<1>7. CASE Crash \/ Restart
  BY <1>0, <1>7, RecordKept DEF Crash, Restart, Die, counts, files
<1>8. ASSUME NEW p \in Watched, TurnEnds(p) \/ Submits(p) \/ Erases(p) \/ \E x \in Text : Types(p, x)
      PROVE  RecordInv'
  BY <1>0, <1>8, RecordKept DEF TurnEnds, Submits, Erases, Types, counts, files
<1>9. CASE UNCHANGED vars
  BY <1>0, <1>9, RecordKept DEF vars, counts, files
<1>. QED
  BY <1>1, <1>2, <1>3, <1>4, <1>5, <1>6, <1>7, <1>8, <1>9 DEF Next

(* An ask handed to its seat is missing from the ledger only when the daemon *)
(* died twice, at the queueing and at the delivery (openAckForPeerRow).      *)
THEOREM AsksRecorded == Spec => []AskRecorded
<1>1. Init => RecordInv
  BY MailAssumption DEF Init, RecordInv
<1>2. RecordInv => AskRecorded
  BY DEF RecordInv, AskRecorded, HasRow
<1>. QED
  BY <1>1, <1>2, RecordStep, TypeCorrect, PTL DEF Spec

-----------------------------------------------------------------------------
(* Filings *)

Evidence(a, m) == From[m] = a.seat /\ mail[m] = "sent" /\ sentAt[m] > a.at

\* The ledger is finite, and its filed rows were filed for.
FiledInv ==
  /\ IsFiniteSet(acks)
  /\ \A a \in acks : a.by = "filed" => \E m \in Mail : Evidence(a, m)

\* Delivered mail stays delivered, with its stamp.
LEMMA SentStays ==
  ASSUME TypeOK, [Next]_vars, NEW m \in Mail, mail[m] = "sent"
  PROVE  mail'[m] = "sent" /\ sentAt'[m] = sentAt[m]
<1>1. ASSUME NEW k \in Mail, Enqueue(k) \/ EnqueueCut(k) PROVE mail'[m] = "sent" /\ sentAt'[m] = sentAt[m]
  BY <1>1 DEF Enqueue, EnqueueCut, AppendMail, TypeOK
<1>2. ASSUME NEW k \in Mail, Deliver(k) \/ DeliverCut(k) \/ Skip(k)
      PROVE  mail'[m] = "sent" /\ sentAt'[m] = sentAt[m]
  <2>1. mail[k] = "queued"
    BY <1>2 DEF Deliver, DeliverCut, Pastes, Skip
  <2>. QED
    BY <1>2, <2>1 DEF Deliver, DeliverCut, Skip, MarkSent, TypeOK
<1>3. ASSUME NEW a \in acks, AckExplicit(a) PROVE UNCHANGED <<mail, sentAt>>
  BY <1>3 DEF AckExplicit
<1>4. ASSUME NEW S \in {{s} : s \in Seat} \cup {Seat}, AckAll(S) PROVE UNCHANGED <<mail, sentAt>>
  BY <1>4 DEF AckAll
<1>5. CASE Sweep \/ Paint \/ Crash \/ Restart \/ UNCHANGED vars
  <2>1. UNCHANGED <<mail, sentAt>>
    BY <1>5 DEF Sweep, OpenOperatorPrompt, EndOpen, CloseOperatorAcksOnPaneReply, CloseAcksOnFilings,
       Paint, PaintNothing, PaintPane, Crash, Restart, files, vars
  <2>. QED
    BY <2>1
<1>6. ASSUME NEW p \in Watched, TurnEnds(p) \/ Submits(p) \/ Erases(p) \/ \E x \in Text : Types(p, x)
      PROVE  UNCHANGED <<mail, sentAt>>
  BY <1>6 DEF TurnEnds, Submits, Erases, Types, files
<1>. QED
  BY <1>1, <1>2, <1>3, <1>4, <1>5, <1>6 DEF Next

\* Closing rows of a finite ledger leaves it finite.
LEMMA CloseFinite ==
  ASSUME IsFiniteSet(acks), NEW S \in SUBSET acks, NEW by PROVE IsFiniteSet(Close(S, by))
<1> DEFINE f == [a \in S |-> [a EXCEPT !.by = by]]
           T == {[a EXCEPT !.by = by] : a \in S}
<1>1. f \in Surjection(S, T)
  BY DEF Surjection
<1>2. IsFiniteSet(S) /\ IsFiniteSet(acks \ S)
  BY FS_Subset
<1>3. IsFiniteSet(T)
  BY <1>1, <1>2, FS_Surjection
<1>. HIDE DEF T
<1>4. IsFiniteSet((acks \ S) \cup T)
  BY <1>2, <1>3, FS_Union
<1>. QED
  BY <1>4 DEF Close, T

\* matchFiledAcks closes a row only if there is a filing after it.
LEMMA MatchNeedsFiling ==
  ASSUME TypeOK, IsFiniteSet(acks), NEW s \in Seat, NEW a \in MatchFiled(s)
  PROVE  \E m \in Mail : Evidence(a, m)
<1> DEFINE C == {c \in OpenFor(s) : a.at <= c.at /\ c.at <= a.at}
<1>1. a \in OpenFor(s) /\ a.at \in Nat /\ a.seat = s
  BY DEF MatchFiled, OpenFor, TypeOK, Ack
<1>2. Cardinality(After(s, a.at)) >= Cardinality(C)
  BY <1>1 DEF MatchFiled
<1>3. a \in C
  BY <1>1
<1>4. IsFiniteSet(C)
  BY FS_Subset DEF OpenFor
<1>. HIDE DEF C
<1>5. Cardinality(C) \in Nat /\ Cardinality(C) # 0
  BY <1>3, <1>4, FS_EmptySet, FS_CardinalityType
<1>6. After(s, a.at) # {}
  <2>1. SUFFICES ASSUME After(s, a.at) = {} PROVE FALSE
    OBVIOUS
  <2>2. Cardinality(After(s, a.at)) = 0
    BY <2>1, FS_EmptySet
  <2>. QED
    BY <2>2, <1>2, <1>5
<1>. QED
  BY <1>1, <1>6 DEF After, Filings, Evidence

LEMMA FiledStep == ASSUME TypeOK, FiledInv, [Next]_vars PROVE FiledInv'
<1>1. ASSUME NEW a, \E m \in Mail : Evidence(a, m) PROVE (\E m \in Mail : Evidence(a, m))'
  BY <1>1, SentStays DEF Evidence
<1>2. CASE UNCHANGED acks
  BY <1>1, <1>2 DEF FiledInv
<1>3. CASE OpensRow
  <2>1. PICK s, x, source, t : OpenAck(NewAck(s, x, source, t))
    BY <1>3 DEF OpensRow
  <2>2. acks' = acks \/ acks' = acks \cup {NewAck(s, x, source, t)}
    BY <2>1 DEF OpenAck
  <2>3. NewAck(s, x, source, t).by # "filed"
    BY DEF NewAck
  <2>4. IsFiniteSet(acks')
    BY <2>2, FS_AddElement DEF FiledInv
  <2>5. \A a \in acks' : a.by = "filed" => a \in acks
    BY <2>2, <2>3
  <2>. QED
    BY <2>4, <2>5, <1>1 DEF FiledInv
<1>4. ASSUME NEW by \in {"hand", "pane-reply"}, ClosesRows(by) PROVE FiledInv'
  <2>1. PICK S \in SUBSET OpenRows : acks' = Close(S, by)
    BY <1>4 DEF ClosesRows
  <2>2. IsFiniteSet(acks')
    BY <2>1, CloseFinite DEF FiledInv, OpenRows
  <2>3. \A a \in acks' : a.by = "filed" => a \in acks
    BY <2>1, ClosedRows DEF TypeOK, Closers
  <2>. QED
    BY <2>2, <2>3, <1>1 DEF FiledInv
<1>5. CASE CloseAcksOnFilings
  <2> DEFINE S == UNION {MatchFiled(s) : s \in Seat}
  <2>1. acks' = Close(S, "filed") /\ S \in SUBSET OpenRows /\ S \in SUBSET acks
    BY <1>5 DEF CloseAcksOnFilings, MatchFiled, OpenFor, OpenRows
  <2>2. IsFiniteSet(acks')
    BY <2>1, CloseFinite DEF FiledInv
  <2>3. \A b \in S : \E m \in Mail : Evidence(b, m)
    BY MatchNeedsFiling DEF FiledInv
  <2>. HIDE DEF S
  <2>4. ASSUME NEW a \in acks', a.by = "filed" PROVE \E m \in Mail : Evidence(a, m)
    <3>1. CASE a \in acks
      BY <3>1, <2>4 DEF FiledInv
    <3>2. ASSUME NEW b \in S, a.seat = b.seat, a.at = b.at PROVE \E m \in Mail : Evidence(a, m)
      BY <3>2, <2>3 DEF Evidence
    <3>. QED
      BY <2>1, <3>1, <3>2, ClosedRows DEF TypeOK, Closers
  <2>. QED
    BY <2>2, <2>4, <1>1 DEF FiledInv
<1>. QED
  BY <1>2, <1>3, <1>4, <1>5, LedgerSteps

LEMMA FiledRowsHaveFilings ==
  ASSUME TypeOK, FiledInv, [Next]_vars, NEW a \in acks, ClosedBy(a, "filed")
  PROVE  \E m \in Mail : From[m] = a.seat /\ mail[m] = "sent" /\ sentAt[m] > a.at
<1> DEFINE b == [a EXCEPT !.by = "filed"]
<1>1. b \in acks' /\ b.seat = a.seat /\ b.at = a.at /\ b.by = "filed" /\ a \in Ack
  BY DEF ClosedBy, TypeOK, Ack
<1>. HIDE DEF b
<1>2. CASE b \in acks
  BY <1>1, <1>2 DEF FiledInv, Evidence
<1>3. CASE b \notin acks /\ CloseAcksOnFilings
  <2>1. UNCHANGED <<mail, sentAt>>
    BY <1>3 DEF CloseAcksOnFilings
  <2>2. \E m \in Mail : From[m] = b.seat /\ mail'[m] = "sent" /\ sentAt'[m] > b.at
    BY <1>1, FiledStep DEF FiledInv, Evidence
  <2>. QED
    BY <2>1, <2>2, <1>1
<1>4. CASE OpensRow
  BY <1>1, <1>2, <1>4 DEF OpensRow, OpenAck, NewAck
<1>5. ASSUME NEW by \in {"hand", "pane-reply"}, ClosesRows(by) PROVE b \in acks
  BY <1>1, <1>5, ClosedRows DEF ClosesRows, TypeOK, Closers
<1>. QED
  BY <1>1, <1>2, <1>3, <1>4, <1>5, LedgerSteps

(* A row is closed as filed only when mail of its seat reached its reader    *)
(* after the row was stamped (closeAcksOnFilings, matchFiledAcks).           *)
THEOREM FilingsAreEvidence == Spec => FiledOnEvidence
<1>1. Init => FiledInv
  BY FS_EmptySet DEF Init, FiledInv
<1>2. TypeOK /\ FiledInv /\ [Next]_vars
      => [\A a \in acks : ClosedBy(a, "filed") =>
            \E m \in Mail : From[m] = a.seat /\ mail[m] = "sent" /\ sentAt[m] > a.at]_vars
  BY FiledRowsHaveFilings
<1>. QED
  BY <1>1, <1>2, FiledStep, TypeCorrect, PTL DEF Spec, FiledOnEvidence

-----------------------------------------------------------------------------
(* Replies in a pane *)

\* No prompt of the pane waits for the end of a turn.
Calm(p) == \A t : <<p, t>> \notin waiting

\* Stamps are taken from now, which only grows.
StampInv ==
  /\ \A a \in acks : a.at <= now
  /\ \A p \in prompts : p.at <= now
  /\ \A m \in Mail : at[m] <= now

\* What the paint reports, and what it is about to report, has been answered;
\* the report is used up before the next paint.
ReplyInv ==
  /\ pc \in {"file", "paint"} => replies = {}
  /\ \A p \in replies : Calm(p)
  /\ \A p \in Watched \ turn : arm[p] = "sawBusy" => Calm(p)

\* A row closed as answered is an operator's and was.
AnsweredInv ==
  \A a \in acks : a.by = "pane-reply" => a.source = "operator" /\ <<a.seat, a.at>> \notin waiting

\* How a step changes stamps and the rows that wait.
LEMMA WaitingSteps ==
  ASSUME TypeOK, [Next]_vars
  PROVE  /\ now' >= now
         /\ \A w \in waiting' : w \in waiting \/ w[2] = now + 1
<1>1. ASSUME NEW m \in Mail, Enqueue(m) \/ EnqueueCut(m) \/ Deliver(m) \/ DeliverCut(m) \/ Skip(m)
      PROVE  now' >= now /\ UNCHANGED waiting
  BY <1>1 DEF Enqueue, EnqueueCut, AppendMail, Deliver, DeliverCut, Skip, Pastes, MarkSent, TypeOK
<1>2. ASSUME NEW a \in acks, AckExplicit(a) PROVE UNCHANGED <<now, waiting>>
  BY <1>2 DEF AckExplicit
<1>3. ASSUME NEW S \in {{s} : s \in Seat} \cup {Seat}, AckAll(S) PROVE UNCHANGED <<now, waiting>>
  BY <1>3 DEF AckAll
<1>4. CASE Sweep \/ PaintNothing \/ Crash \/ Restart \/ UNCHANGED vars
  BY <1>4 DEF Sweep, OpenOperatorPrompt, EndOpen, CloseOperatorAcksOnPaneReply, CloseAcksOnFilings,
     PaintNothing, Crash, Restart, vars, TypeOK
<1>5. ASSUME NEW p \in Watched, PaintPane(p)
      PROVE  \/ UNCHANGED <<now, waiting>>
             \/ now' = now + 1 /\ waiting' = waiting \cup {<<p, now + 1>>}
  BY <1>5 DEF PaintPane, Observe
<1>6. ASSUME NEW p \in Watched, TurnEnds(p) \/ Submits(p) \/ Erases(p) \/ \E x \in Text : Types(p, x)
      PROVE  now' = now /\ waiting' \subseteq waiting
  BY <1>6 DEF TurnEnds, Submits, Erases, Types
<1>7. now \in Nat
  BY DEF TypeOK
<1>8. ASSUME NEW p \in Watched, PaintPane(p)
      PROVE  now' >= now /\ \A w \in waiting' : w \in waiting \/ w[2] = now + 1
  BY <1>5, <1>7, <1>8
<1>. QED
  BY <1>1, <1>2, <1>3, <1>4, <1>6, <1>7, <1>8 DEF Next, Paint

\* Every stamp that is written is past when it is.
LEMMA OpenStamps ==
  ASSUME TypeOK, StampInv, now' \in Nat, now' >= now,
         NEW s, NEW x, NEW source, NEW t \in Nat, t <= now', OpenAck(NewAck(s, x, source, t))
  PROVE  \A a \in acks' : a.at <= now'
<1>1. NewAck(s, x, source, t).at = t
  BY DEF NewAck
<1>2. \A a \in acks' : a \in acks \/ a = NewAck(s, x, source, t)
  BY DEF OpenAck
<1>3. \A a \in acks : a.at <= now /\ a.at \in Nat
  BY DEF StampInv, TypeOK, Ack
<1>4. now \in Nat
  BY DEF TypeOK
<1>5. \A a \in acks : a.at <= now'
  BY <1>3, <1>4
<1>. QED
  BY <1>1, <1>2, <1>5

LEMMA CloseStamps ==
  ASSUME TypeOK, StampInv, NEW S \in SUBSET OpenRows, NEW by \in Closers, acks' = Close(S, by)
  PROVE  \A a \in acks' : a.at <= now
  BY ClosedRows DEF StampInv, TypeOK, OpenRows

LEMMA StampStep == ASSUME TypeOK, StampInv, [Next]_vars PROVE StampInv'
<1>0. /\ now \in Nat /\ now' \in Nat /\ now' >= now
      /\ \A a \in acks : a.at \in Nat
      /\ \A m \in Mail : at[m] \in Nat
      /\ \A p \in prompts : p.at \in Nat
  BY NextType, WaitingSteps DEF TypeOK, Ack, Prompt
<1>1. \A m \in Mail : at'[m] <= now'
  <2>1. ASSUME NEW m \in Mail, Enqueue(m) \/ EnqueueCut(m)
        PROVE  UNCHANGED at \/ (at' = [at EXCEPT ![m] = now + 1] /\ now' = now + 1)
    BY <2>1 DEF Enqueue, EnqueueCut, AppendMail
  <2>2. ASSUME NEW m \in Mail, Deliver(m) \/ DeliverCut(m) \/ Skip(m) PROVE UNCHANGED at
    BY <2>2 DEF Deliver, DeliverCut, Skip, Pastes
  <2>3. ASSUME ~\E m \in Mail : Enqueue(m) \/ EnqueueCut(m) \/ Deliver(m) \/ DeliverCut(m) \/ Skip(m)
        PROVE  UNCHANGED at
    BY <2>3 DEF Next, Sweep, OpenOperatorPrompt, EndOpen, CloseOperatorAcksOnPaneReply,
       CloseAcksOnFilings, Paint, PaintNothing, PaintPane, Crash, Restart, AckExplicit, AckAll,
       TurnEnds, Submits, Erases, Types, files, vars
  <2>4. ASSUME UNCHANGED at PROVE \A m \in Mail : at'[m] <= now'
    BY <2>4, <1>0 DEF StampInv
  <2>5. ASSUME NEW m \in Mail, at' = [at EXCEPT ![m] = now + 1], now' = now + 1
        PROVE  \A k \in Mail : at'[k] <= now'
    BY <2>5, <1>0 DEF StampInv, TypeOK
  <2>. QED
    BY <2>1, <2>2, <2>3, <2>4, <2>5
<1>2. \A p \in prompts' : p.at <= now'
  <2>1. \/ prompts' \subseteq prompts
        \/ \E p : prompts' = prompts \cup {[seat |-> p, ask |-> watch[p], at |-> now + 1]} /\ now' = now + 1
    <3>1. CASE \E m \in Mail : Enqueue(m) \/ EnqueueCut(m) \/ Deliver(m) \/ DeliverCut(m) \/ Skip(m)
      BY <3>1 DEF Enqueue, EnqueueCut, Deliver, DeliverCut, Skip, Die, Forget, memory
    <3>2. CASE Paint
      BY <3>2 DEF Paint, PaintNothing, PaintPane, Observe, memory
    <3>3. CASE Sweep \/ Crash \/ Restart \/ UNCHANGED vars
      BY <3>3 DEF Sweep, OpenOperatorPrompt, EndOpen, CloseOperatorAcksOnPaneReply, CloseAcksOnFilings,
         Crash, Restart, Die, Forget, memory, vars
    <3>4. CASE \/ \E a \in acks : AckExplicit(a)
               \/ \E S \in {{s} : s \in Seat} \cup {Seat} : AckAll(S)
               \/ \E p \in Watched : TurnEnds(p) \/ Submits(p) \/ Erases(p) \/ \E x \in Text : Types(p, x)
      BY <3>4 DEF AckExplicit, AckAll, TurnEnds, Submits, Erases, Types, memory
    <3>. QED
      BY <3>1, <3>2, <3>3, <3>4 DEF Next
  <2>2. CASE prompts' \subseteq prompts
    BY <2>2, <1>0 DEF StampInv
  <2>3. ASSUME NEW p, prompts' = prompts \cup {[seat |-> p, ask |-> watch[p], at |-> now + 1]}, now' = now + 1
        PROVE  \A q \in prompts' : q.at <= now'
    BY <2>3, <1>0 DEF StampInv
  <2>. QED
    BY <2>1, <2>2, <2>3
<1>3. \A a \in acks' : a.at <= now'
  <2>1. ASSUME NEW m \in Mail, Enqueue(m) \/ EnqueueCut(m) PROVE \A a \in acks' : a.at <= now'
    <3>1. CASE UNCHANGED acks
      BY <3>1, <1>0 DEF StampInv
    <3>2. CASE OpensOnQueue(m) /\ OpenAck(NewAck(To[m], AskOf[m], "mail", now + 1))
      <4>1. now' = now + 1
        BY <2>1, <3>2 DEF Enqueue, EnqueueCut, AppendMail
      <4>2. now + 1 \in Nat /\ now + 1 <= now'
        BY <4>1, <1>0
      <4>. QED
        BY <3>2, <4>2, <1>0, OpenStamps
    <3>. QED
      BY <2>1, <3>1, <3>2 DEF Enqueue, EnqueueCut
  <2>2. ASSUME NEW m \in Mail, Deliver(m) \/ DeliverCut(m) PROVE \A a \in acks' : a.at <= now'
    <3>1. CASE UNCHANGED acks
      BY <3>1, <1>0 DEF StampInv
    <3>2. CASE OpenDelivered(m) /\ AskOf[m] # NoAsk /\ now' = now + 1
      <4> DEFINE t == IF Lane[m] = "peer" THEN at[m] ELSE now + 1
      <4>1. t \in Nat /\ t <= now'
        BY <1>0, <3>2 DEF StampInv
      <4>2. OpenAck(NewAck(To[m], AskOf[m], "mail", t))
        BY <3>2 DEF OpenDelivered
      <4>. HIDE DEF t
      <4>. QED
        BY <4>1, <4>2, <1>0, OpenStamps
    <3>3. UNCHANGED acks \/ (OpenDelivered(m) /\ AskOf[m] # NoAsk /\ now' = now + 1)
      BY <2>2 DEF Deliver, DeliverCut, MarkSent, OpenDelivered
    <3>. QED
      BY <3>1, <3>2, <3>3
  <2>3. CASE OpenOperatorPrompt
    <3>1. PICK p \in prompts : OpenAck(NewAck(p.seat, p.ask, "operator", p.at))
      BY <2>3 DEF OpenOperatorPrompt
    <3>2. now' = now
      BY <2>3 DEF OpenOperatorPrompt
    <3>3. p.at \in Nat /\ p.at <= now'
      BY <1>0, <3>2 DEF StampInv
    <3>. QED
      BY <3>1, <3>3, <1>0, OpenStamps
  <2>4. ASSUME NEW by \in Closers, ClosesRows(by) PROVE \A a \in acks' : a.at <= now'
    <3>1. \A a \in acks' : a.at <= now /\ a.at \in Nat
      BY <2>4, CloseStamps, NextType DEF ClosesRows, TypeOK, Ack
    <3>. QED
      BY <3>1, <1>0
  <2>5. CASE UNCHANGED acks
    BY <2>5, <1>0 DEF StampInv
  <2>. QED
    BY <2>1, <2>2, <2>3, <2>4, <2>5, LedgerSteps DEF Queues, Closers
<1>. QED
  BY <1>1, <1>2, <1>3 DEF StampInv

\* Only a paint and the end of a turn change who waits, and a step that does
\* leaves the ledger alone.
LEMMA WaitingOrLedger == ASSUME [Next]_vars PROVE UNCHANGED waiting \/ UNCHANGED acks
<1>1. ASSUME NEW m \in Mail, Enqueue(m) \/ EnqueueCut(m) \/ Deliver(m) \/ DeliverCut(m) \/ Skip(m)
      PROVE  UNCHANGED waiting
  BY <1>1 DEF Enqueue, EnqueueCut, AppendMail, Deliver, DeliverCut, Skip, Pastes
<1>2. CASE \/ \E a \in acks : AckExplicit(a)
           \/ \E S \in {{s} : s \in Seat} \cup {Seat} : AckAll(S)
           \/ Sweep \/ Crash \/ Restart
  BY <1>2 DEF AckExplicit, AckAll, Sweep, OpenOperatorPrompt, EndOpen, CloseOperatorAcksOnPaneReply,
     CloseAcksOnFilings, Crash, Restart
<1>3. CASE \/ Paint \/ UNCHANGED vars
           \/ \E p \in Watched : TurnEnds(p) \/ Submits(p) \/ Erases(p) \/ \E x \in Text : Types(p, x)
  BY <1>3 DEF Paint, PaintNothing, PaintPane, TurnEnds, Submits, Erases, Types, files, vars
<1>. QED
  BY <1>1, <1>2, <1>3 DEF Next

\* An agent that is seen to answer is between turns, and owed nothing before.
LEMMA PaintReply ==
  ASSUME TypeOK, ReplyInv, NEW p \in Watched, PaintPane(p)
  PROVE  ReplyInv'
<1>1. pc = "paint" /\ pc' = "drain" /\ replies = {} /\ UNCHANGED turn
  BY DEF PaintPane, ReplyInv, screens
<1>2. CASE p \in quiet /\ UNCHANGED <<arm, replies, waiting>>
  BY <1>1, <1>2 DEF ReplyInv, Calm
<1>3. CASE Observe(p)
  <2>1. PICK phase \in SeenPhase(p) :
          /\ arm' = [arm EXCEPT ![p] = IF ReplyCycle(p, phase) = "answered" THEN "off"
                                       ELSE ReplyCycle(p, phase)]
          /\ replies' = IF ReplyCycle(p, phase) = "answered" THEN replies \cup {p} ELSE replies
    BY <1>3 DEF Observe
  <2>2. Submitted(p) \/ UNCHANGED waiting
    BY <1>3 DEF Observe
  <2>3. \A q \in Watched \ {p} : Calm(q) => Calm(q)'
    BY <1>3 DEF Observe, Calm
  <2>4. \A q \in Watched \ {p} : arm'[q] = arm[q]
    BY <2>1 DEF TypeOK
  <2>5. phase = "busy" <=> p \in turn
    BY <2>1 DEF SeenPhase
  <2>6. ReplyCycle(p, phase) = "answered" => ~Submitted(p) /\ arm[p] = "sawBusy" /\ p \notin turn
    BY <2>5 DEF ReplyCycle, TypeOK
  <2>7. ReplyCycle(p, phase) = "sawBusy" /\ p \notin turn => ~Submitted(p) /\ arm[p] = "sawBusy"
    BY <2>5 DEF ReplyCycle, TypeOK
  <2>8. ~Submitted(p) /\ arm[p] = "sawBusy" /\ p \notin turn => Calm(p)'
    BY <2>2 DEF ReplyInv, Calm
  <2>9. \A q \in replies' : Calm(q)'
    BY <1>1, <2>1, <2>6, <2>8
  <2>10. arm'[p] = "sawBusy" /\ p \notin turn => Calm(p)'
    BY <2>1, <2>7, <2>8 DEF TypeOK
  <2>11. \A q \in Watched \ turn' : arm'[q] = "sawBusy" => Calm(q)'
    BY <1>1, <2>3, <2>4, <2>10 DEF ReplyInv
  <2>. QED
    BY <1>1, <2>9, <2>11 DEF ReplyInv
<1>. QED
  BY <1>2, <1>3 DEF PaintPane

LEMMA ReplyStep == ASSUME TypeOK, ReplyInv, [Next]_vars PROVE ReplyInv'
<1>1. ASSUME NEW m \in Mail, Enqueue(m) \/ EnqueueCut(m) \/ Skip(m) \/ Deliver(m) \/ DeliverCut(m)
      PROVE  ReplyInv'
  <2>1. UNCHANGED waiting /\ turn \subseteq turn' /\ replies' \subseteq replies
    BY <1>1 DEF Enqueue, EnqueueCut, Skip, Deliver, DeliverCut, AppendMail, Pastes, Die, Forget, memory, screens
  <2>2. \A q \in Watched : arm'[q] = "sawBusy" => arm[q] = "sawBusy"
    BY <1>1 DEF Enqueue, EnqueueCut, Skip, Deliver, DeliverCut, NoteDaemonInject, Die, Forget, memory
  <2>3. pc' = pc \/ pc' = "down"
    BY <1>1 DEF Enqueue, EnqueueCut, Skip, Deliver, DeliverCut, Die
  <2>. QED
    BY <2>1, <2>2, <2>3 DEF ReplyInv, Calm
<1>2. CASE \/ \E a \in acks : AckExplicit(a)
           \/ \E S \in {{s} : s \in Seat} \cup {Seat} : AckAll(S)
           \/ UNCHANGED vars
  <2>1. UNCHANGED <<waiting, turn, arm, replies, pc>>
    BY <1>2 DEF AckExplicit, AckAll, vars, screens, memory
  <2>. QED
    BY <2>1 DEF ReplyInv, Calm
<1>3. CASE OpenOperatorPrompt \/ EndOpen \/ Restart
  <2>1. UNCHANGED <<waiting, turn, arm, replies>> /\ pc' \notin {"file", "paint"}
    BY <1>3 DEF OpenOperatorPrompt, EndOpen, Restart, screens, memory
  <2>. QED
    BY <2>1 DEF ReplyInv, Calm
<1>4. CASE CloseOperatorAcksOnPaneReply
  <2>1. UNCHANGED <<waiting, turn, arm>> /\ replies' = {}
    BY <1>4 DEF CloseOperatorAcksOnPaneReply, screens
  <2>. QED
    BY <2>1 DEF ReplyInv, Calm
<1>5. CASE CloseAcksOnFilings \/ PaintNothing
  <2>1. UNCHANGED <<waiting, turn, arm, replies>> /\ pc \in {"file", "paint"}
    BY <1>5 DEF CloseAcksOnFilings, PaintNothing, screens, memory
  <2>. QED
    BY <2>1 DEF ReplyInv, Calm
<1>6. CASE Crash
  <2>1. UNCHANGED waiting /\ arm' = [q \in Watched |-> "off"] /\ replies' = {}
    BY <1>6 DEF Crash, Die, Forget
  <2>2. \A q \in Watched : arm'[q] = "off"
    BY <2>1
  <2>. QED
    BY <2>1, <2>2 DEF ReplyInv, Calm
<1>7. ASSUME NEW p \in Watched, TurnEnds(p) PROVE ReplyInv'
  <2>1. turn' = turn \ {p} /\ waiting' = {w \in waiting : w[1] # p} /\ UNCHANGED <<arm, replies, pc>>
    BY <1>7 DEF TurnEnds, memory
  <2>2. Calm(p)'
    BY <2>1 DEF Calm
  <2>3. \A q : Calm(q) => Calm(q)'
    BY <2>1 DEF Calm
  <2>. QED
    BY <2>1, <2>2, <2>3 DEF ReplyInv
<1>8. ASSUME NEW p \in Watched, Submits(p) \/ Erases(p) \/ \E x \in Text : Types(p, x) PROVE ReplyInv'
  <2>1. UNCHANGED <<waiting, arm, replies, pc>> /\ turn \subseteq turn'
    BY <1>8 DEF Submits, Erases, Types, memory
  <2>. QED
    BY <2>1 DEF ReplyInv, Calm
<1>. QED
  BY <1>1, <1>2, <1>3, <1>4, <1>5, <1>6, <1>7, <1>8, PaintReply DEF Next, Sweep, Paint

LEMMA AnsweredStep ==
  ASSUME TypeOK, StampInv, ReplyInv, AnsweredInv, [Next]_vars
  PROVE  AnsweredInv'
<1>1. ASSUME NEW a \in acks, a.by = "pane-reply"
      PROVE  a.source = "operator" /\ <<a.seat, a.at>> \notin waiting'
  <2>1. a.at <= now /\ a.at \in Nat /\ now \in Nat
    BY DEF StampInv, TypeOK, Ack
  <2>2. <<a.seat, a.at>> \notin waiting /\ a.source = "operator"
    BY <1>1 DEF AnsweredInv
  <2>3. a.at # now + 1
    BY <2>1
  <2>4. \A w \in waiting' : w \in waiting \/ w[2] = now + 1
    BY WaitingSteps
  <2>5. <<a.seat, a.at>> \in waiting' => <<a.seat, a.at>>[2] = now + 1
    BY <2>2, <2>4
  <2>. QED
    BY <2>2, <2>3, <2>5
<1>2. CASE UNCHANGED acks
  BY <1>1, <1>2 DEF AnsweredInv
<1>3. CASE OpensRow
  <2>1. \A a \in acks' : a \in acks \/ a.by = "open"
    BY <1>3 DEF OpensRow, OpenAck, NewAck
  <2>. QED
    BY <1>1, <2>1 DEF AnsweredInv
<1>4. ASSUME NEW by \in {"hand", "filed"}, ClosesRows(by) PROVE AnsweredInv'
  <2>1. \A a \in acks' : a \in acks \/ a.by = by
    BY <1>4, ClosedRows DEF ClosesRows, TypeOK, Closers
  <2>. QED
    BY <1>1, <1>4, <2>1 DEF AnsweredInv
<1>5. CASE CloseOperatorAcksOnPaneReply
  <2> DEFINE S == {a \in acks : Open(a) /\ a.source = "operator" /\ a.seat \in replies}
  <2>1. acks' = Close(S, "pane-reply") /\ UNCHANGED waiting
    BY <1>5 DEF CloseOperatorAcksOnPaneReply
  <2>2. S \in SUBSET OpenRows
    BY DEF OpenRows
  <2>3. \A b \in S : b.source = "operator" /\ <<b.seat, b.at>> \notin waiting
    BY DEF ReplyInv, Calm
  <2>. HIDE DEF S
  <2>4. \A a \in acks' : \/ a \in acks
                          \/ \E b \in S : a.seat = b.seat /\ a.source = b.source /\ a.at = b.at
    BY <2>1, <2>2, ClosedRows DEF TypeOK, Closers
  <2>. QED
    BY <1>1, <2>1, <2>3, <2>4 DEF AnsweredInv
<1>. QED
  BY <1>2, <1>3, <1>4, <1>5, LedgerSteps

\* What the paint of a pane closes was answered, and is not waited for again.
LEMMA ClosedWasAnswered ==
  ASSUME TypeOK, StampInv, ReplyInv, AnsweredInv, [Next]_vars,
         NEW a \in acks, ClosedBy(a, "pane-reply")
  PROVE  a.source = "operator" /\ <<a.seat, a.at>> \notin waiting
<1> DEFINE b == [a EXCEPT !.by = "pane-reply"]
<1>1. a \notin acks' /\ b \in acks'
  BY DEF ClosedBy
<1>2. UNCHANGED waiting
  BY <1>1, WaitingOrLedger
<1>3. AnsweredInv'
  BY AnsweredStep
<1>4. b.by = "pane-reply" /\ b.source = a.source /\ b.seat = a.seat /\ b.at = a.at
  BY DEF TypeOK, Ack
<1>. HIDE DEF b
<1>5. b.source = "operator" /\ <<b.seat, b.at>> \notin waiting'
  BY <1>1, <1>3, <1>4 DEF AnsweredInv
<1>. QED
  BY <1>2, <1>4, <1>5

\* Where all of it begins.
LEMMA LedgerInit ==
  Init => TypeOK /\ OneOpenPerAsk /\ RecordInv /\ FiledInv /\ StampInv /\ ReplyInv /\ AnsweredInv
<1>1. Init => TypeOK
  BY MailAssumption, BoundAssumption DEF Init, TypeOK, Ack, Prompt
<1>2. Init => OneOpenPerAsk /\ StampInv /\ ReplyInv /\ AnsweredInv
  BY DEF Init, OneOpenPerAsk, StampInv, ReplyInv, AnsweredInv, Calm
<1>3. Init => RecordInv /\ FiledInv
  BY MailAssumption, FS_EmptySet DEF Init, RecordInv, FiledInv
<1>. QED
  BY <1>1, <1>2, <1>3

(* An operator's prompt is closed as answered only after a turn of its agent *)
(* ended behind the paint that saw it.  It takes what the paint remembers of *)
(* the pane (ReplyInv) and that no later prompt has the stamp of an earlier  *)
(* row (StampInv).                                                           *)
THEOREM PaneRepliesAnswer == Spec => PaneReplyAnswers
<1> DEFINE Inv == TypeOK /\ StampInv /\ ReplyInv /\ AnsweredInv
<1>1. Init => Inv
  BY LedgerInit
<1>2. Inv /\ [Next]_vars => Inv'
  BY NextType, StampStep, ReplyStep, AnsweredStep
<1>3. Inv /\ [Next]_vars
      => [\A a \in acks : ClosedBy(a, "pane-reply") =>
            a.source = "operator" /\ <<a.seat, a.at>> \notin waiting]_vars
  BY ClosedWasAnswered
<1>. HIDE DEF Inv
<1>. QED
  BY <1>1, <1>2, <1>3, PTL DEF Spec, PaneReplyAnswers

-----------------------------------------------------------------------------
(* The loop of matchFiledAcks and its closed form *)

\* A set of stamps has a least one, and a greatest one if it is bounded.
LEMMA LeastStamp ==
  ASSUME NEW T \in SUBSET Nat, T # {}
  PROVE  \E x \in T : \A y \in T : x <= y
<1> DEFINE I == {0..x : x \in T}
<1>1. I \subseteq FiniteSubsetsOf(Nat) /\ I # {}
  <2>1. \A x \in T : IsFiniteSet(0..x) /\ 0..x \subseteq Nat
    BY FS_Interval
  <2>. QED
    BY <2>1 DEF FiniteSubsetsOf
<1>2. \E i \in I : \A j \in I : <<j, i>> \notin StrictSubsetOrdering(Nat)
  <2>. HIDE DEF I
  <2>. QED
    BY <1>1, FS_StrictSubsetOrderingWellFounded, WFMin
<1>3. PICK x \in T : \A j \in I : <<j, 0..x>> \notin StrictSubsetOrdering(Nat)
  BY <1>2
<1>4. ASSUME NEW y \in T, y < x PROVE FALSE
  <2>1. 0..y \subseteq 0..x /\ 0..y # 0..x /\ 0..y \subseteq Nat /\ 0..x \subseteq Nat
    <3>1. x \in 0..x /\ x \notin 0..y
      BY <1>4
    <3>. QED
      BY <1>4, <3>1
  <2>2. <<0..y, 0..x>> \in StrictSubsetOrdering(Nat)
    BY <2>1 DEF StrictSubsetOrdering
  <2>. QED
    BY <1>3, <2>2
<1>. QED
  BY <1>4

LEMMA GreatestStamp ==
  ASSUME NEW T \in SUBSET Nat, T # {}, NEW n \in Nat, \A x \in T : x <= n
  PROVE  \E x \in T : \A y \in T : y <= x
<1> DEFINE U == {n - x : x \in T}
<1>1. U \in SUBSET Nat /\ U # {}
  <2>1. \A x \in T : n - x \in Nat
    OBVIOUS
  <2>. QED
    BY <2>1
<1>2. PICK u \in U : \A v \in U : u <= v
  BY <1>1, LeastStamp
<1>3. PICK x \in T : u = n - x
  OBVIOUS
<1>4. ASSUME NEW y \in T PROVE y <= x
  <2>1. n - x <= n - y
    BY <1>2, <1>3
  <2>. QED
    BY <2>1
<1>. QED
  BY <1>4

\* What tells the rows of a seat, and the filings, apart: their stamps.
Apart ==
  /\ IsFiniteSet(acks)
  /\ \A a, b \in OpenRows : a.seat = b.seat /\ a.at = b.at => a = b
  /\ \A m, n \in Delivered : sentAt[m] = sentAt[n] => m = n
  /\ \A m \in Mail : sentAt[m] <= now

\* The filings of s in F after t, and the asks of a's seat from b to a.
Later(F, s, t) == {m \in F : From[m] = s /\ sentAt[m] > t}
Between(b, a)  == {c \in OpenFor(a.seat) : b.at <= c.at /\ c.at <= a.at}

\* An ask is reached when, from every ask up to it, there are enough filings.
Reached(F, a) ==
  \A b \in OpenFor(a.seat) : b.at <= a.at =>
    Cardinality(Later(F, a.seat, b.at)) >= Cardinality(Between(b, a))
Served(F) == {a \in OpenRows : Reached(F, a)}

LEMMA ServedIsMatch ==
  ASSUME TypeOK PROVE UNION {MatchFiled(s) : s \in Seat} = Served(Delivered)
<1>1. ASSUME NEW s \in Seat, NEW t PROVE After(s, t) = Later(Delivered, s, t)
  BY DEF After, Filings, Later, Delivered
<1>2. ASSUME NEW s \in Seat, NEW a \in OpenFor(s)
      PROVE  a \in MatchFiled(s) <=> Reached(Delivered, a)
  <2>1. a.seat = s
    BY DEF OpenFor
  <2>2. \A b \in OpenFor(s) : Between(b, a) = {c \in OpenFor(s) : b.at <= c.at /\ c.at <= a.at}
    BY <2>1 DEF Between
  <2>. QED
    BY <1>1, <2>1, <2>2 DEF MatchFiled, Reached
<1>3. \A a \in OpenRows : a.seat \in Seat /\ a \in OpenFor(a.seat)
  BY DEF OpenRows, OpenFor, TypeOK, Ack
<1>4. \A s \in Seat : OpenFor(s) \subseteq OpenRows /\ MatchFiled(s) \subseteq OpenFor(s)
  BY DEF OpenFor, OpenRows, MatchFiled
<1>. QED
  BY <1>2, <1>3, <1>4 DEF Served

\* The oldest of some asks and the latest of some filings.
LEMMA OldestIs ==
  ASSUME TypeOK, NEW S \in SUBSET acks, S # {}
  PROVE  Oldest(S) \in S /\ \A b \in S : Oldest(S).at <= b.at
<1> DEFINE T == {a.at : a \in S}
<1>1. T \in SUBSET Nat /\ T # {}
  BY DEF TypeOK, Ack
<1>2. PICK x \in T : \A y \in T : x <= y
  <2>. HIDE DEF T
  <2>. QED
    BY <1>1, LeastStamp
<1>3. \E a \in S : \A b \in S : a.at <= b.at
  BY <1>2
<1>. QED
  BY <1>3 DEF Oldest

LEMMA LatestIs ==
  ASSUME TypeOK, Apart, NEW F \in SUBSET Delivered, F # {}
  PROVE  Latest(F) \in F /\ \A n \in F : sentAt[n] <= sentAt[Latest(F)]
<1> DEFINE T == {sentAt[m] : m \in F}
<1>1. T \in SUBSET Nat /\ T # {} /\ now \in Nat /\ \A x \in T : x <= now
  BY DEF TypeOK, Apart, Delivered
<1>2. PICK x \in T : \A y \in T : y <= x
  <2>. HIDE DEF T
  <2>. QED
    BY <1>1, GreatestStamp
<1>3. \E m \in F : \A n \in F : sentAt[n] <= sentAt[m]
  BY <1>2
<1>. QED
  BY <1>3 DEF Latest

LEMMA Counts ==
  ASSUME TypeOK, Apart, NEW F \in SUBSET Delivered, NEW a, NEW b, NEW s, NEW t
  PROVE  /\ IsFiniteSet(Later(F, s, t)) /\ Cardinality(Later(F, s, t)) \in Nat
         /\ IsFiniteSet(Between(b, a)) /\ Cardinality(Between(b, a)) \in Nat
<1>1. IsFiniteSet(Later(F, s, t))
  BY MailAssumption, FS_Subset DEF Later, Delivered
<1>2. IsFiniteSet(Between(b, a))
  BY FS_Subset DEF Between, OpenFor, Apart
<1>. QED
  BY <1>1, <1>2, FS_CardinalityType

\* One more filing counts for the asks of its seat before it.
LEMMA LaterAdds ==
  ASSUME TypeOK, Apart, NEW F \in SUBSET Delivered, NEW m \in F, NEW s, NEW t \in Nat
  PROVE  Cardinality(Later(F, s, t)) = Cardinality(Later(F \ {m}, s, t))
                                     + (IF From[m] = s /\ sentAt[m] > t THEN 1 ELSE 0)
<1>1. IsFiniteSet(Later(F \ {m}, s, t)) /\ Cardinality(Later(F \ {m}, s, t)) \in Nat
  BY Counts
<1>2. m \notin Later(F \ {m}, s, t)
  BY DEF Later
<1>3. CASE From[m] = s /\ sentAt[m] > t
  <2>1. Later(F, s, t) = Later(F \ {m}, s, t) \cup {m}
    BY <1>3 DEF Later
  <2>. QED
    BY <1>1, <1>2, <1>3, <2>1, FS_AddElement
<1>4. CASE ~(From[m] = s /\ sentAt[m] > t)
  <2>1. Later(F, s, t) = Later(F \ {m}, s, t)
    BY <1>4 DEF Later
  <2>. QED
    BY <1>1, <1>4, <2>1
<1>. QED
  BY <1>3, <1>4

\* The asks a filing finds open when the filings G have been taken.
Free(G, m) == {a \in OpenFor(From[m]) \ Served(G) : a.at < sentAt[m]}

\* What is served stays served, and needs a filing after it.
LEMMA ServedGrows ==
  ASSUME TypeOK, Apart, NEW F \in SUBSET Delivered, NEW m \in F
  PROVE  Served(F \ {m}) \subseteq Served(F)
<1> SUFFICES ASSUME NEW a \in OpenRows, Reached(F \ {m}, a),
                    NEW b \in OpenFor(a.seat), b.at <= a.at
             PROVE  Cardinality(Later(F, a.seat, b.at)) >= Cardinality(Between(b, a))
  BY DEF Served, Reached
<1>1. b.at \in Nat
  BY DEF OpenFor, TypeOK, Ack
<1>2. Cardinality(Later(F \ {m}, a.seat, b.at)) >= Cardinality(Between(b, a))
  BY DEF Reached
<1>. QED
  BY <1>1, <1>2, LaterAdds, Counts

LEMMA ServedNeedsFiling ==
  ASSUME TypeOK, Apart, NEW F \in SUBSET Delivered, NEW a \in Served(F)
  PROVE  \E m \in F : From[m] = a.seat /\ sentAt[m] > a.at
<1>1. a \in OpenFor(a.seat) /\ a.at \in Nat
  BY DEF Served, OpenRows, OpenFor, TypeOK, Ack
<1>2. Cardinality(Later(F, a.seat, a.at)) >= Cardinality(Between(a, a))
  BY <1>1 DEF Served, Reached
<1>3. Between(a, a) # {}
  BY <1>1 DEF Between
<1>4. Cardinality(Between(a, a)) # 0
  BY <1>3, Counts, FS_EmptySet
<1>5. Later(F, a.seat, a.at) # {}
  <2>1. SUFFICES ASSUME Later(F, a.seat, a.at) = {} PROVE FALSE
    OBVIOUS
  <2>2. Cardinality(Later(F, a.seat, a.at)) = 0
    BY <2>1, FS_EmptySet
  <2>. QED
    BY <1>2, <1>4, <2>2, Counts
<1>. QED
  BY <1>5 DEF Later

\* The oldest ask the latest filing finds is reached with it: the ask before it
\* was reached without.
LEMMA OldestIsServed ==
  ASSUME TypeOK, Apart, NEW F \in SUBSET Delivered, NEW m \in F, NEW u \in Free(F \ {m}, m),
         \A b \in Free(F \ {m}, m) : u.at <= b.at
  PROVE  u \in Served(F)
<1> DEFINE G == F \ {m}
           s == From[m]
<1>1. /\ u \in OpenFor(s) /\ u \in OpenRows /\ u.seat = s /\ u.at \in Nat /\ u.at < sentAt[m]
      /\ sentAt[m] \in Nat /\ \A c \in OpenFor(s) : c.at \in Nat /\ c \in OpenRows /\ c.seat = s
  BY DEF Free, OpenFor, OpenRows, TypeOK, Ack, Delivered
<1> SUFFICES ASSUME NEW b \in OpenFor(s), b.at <= u.at
             PROVE  Cardinality(Later(F, s, b.at)) >= Cardinality(Between(b, u))
  BY <1>1 DEF Served, Reached
<1>2. Cardinality(Later(F, s, b.at)) = Cardinality(Later(G, s, b.at)) + 1
  BY <1>1, LaterAdds
<1>3. CASE b.at = u.at
  <2>1. Between(b, u) = {u}
    BY <1>1, <1>3 DEF Between, Apart
  <2>2. Cardinality(Between(b, u)) = 1
    BY <2>1, FS_Singleton
  <2>. QED
    BY <1>2, <2>2, Counts
<1>4. CASE b.at < u.at
  <2> DEFINE T == {c.at : c \in {d \in OpenFor(s) : d.at < u.at}}
  <2>1. T \in SUBSET Nat /\ b.at \in T /\ \A x \in T : x <= u.at
    BY <1>1, <1>4
  <2>2. PICK x \in T : \A y \in T : y <= x
    <3>. HIDE DEF T
    <3>. QED
      BY <1>1, <2>1, GreatestStamp
  <2>3. PICK p \in OpenFor(s) : p.at = x /\ p.at < u.at
    BY <2>2
  <2>4. \A c \in OpenFor(s) : c.at < u.at => c.at <= p.at
    BY <2>2, <2>3
  <2>5. p \in Served(G) /\ p \in OpenRows /\ p.seat = s
    <3>1. ASSUME p \in Free(G, m) PROVE FALSE
      <4>1. u.at <= p.at
        BY <3>1
      <4>. QED
        BY <1>1, <2>3, <4>1
    <3>. QED
      BY <1>1, <2>3, <3>1 DEF Free
  <2>6. Cardinality(Later(G, s, b.at)) >= Cardinality(Between(b, p))
    BY <1>4, <2>4, <2>5 DEF Served, Reached
  <2>7. Between(b, u) = Between(b, p) \cup {u} /\ u \notin Between(b, p)
    <3>1. \A c \in OpenFor(s) : c.at <= u.at <=> c.at <= p.at \/ c = u
      <4>1. \A c \in OpenFor(s) : c.at = u.at => c = u
        BY <1>1 DEF Apart
      <4>. QED
        BY <1>1, <2>3, <2>4, <4>1
    <3>. QED
      BY <1>1, <1>4, <2>3, <2>5, <3>1 DEF Between
  <2>8. Cardinality(Between(b, u)) = Cardinality(Between(b, p)) + 1
    BY <2>7, Counts, FS_AddElement
  <2>. QED
    BY <1>2, <2>6, <2>8, Counts
<1>. QED
  BY <1>1, <1>3, <1>4

\* Nobody newer is: what kept the oldest from being reached keeps it by one more.
LEMMA NobodyElseIsServed ==
  ASSUME TypeOK, Apart, NEW F \in SUBSET Delivered, NEW m \in F,
         NEW u \in Free(F \ {m}, m), NEW a \in Free(F \ {m}, m), u.at < a.at
  PROVE  a \notin Served(F)
<1> DEFINE G == F \ {m}
           s == From[m]
<1>1. /\ u \in OpenFor(s) /\ u \in OpenRows /\ u.seat = s /\ u.at \in Nat
      /\ a \in OpenFor(s) /\ a.seat = s /\ a.at \in Nat
      /\ \A c \in OpenFor(s) : c.at \in Nat
  BY DEF Free, OpenFor, OpenRows, TypeOK, Ack
<1>2. ~Reached(G, u)
  BY <1>1 DEF Free, Served
<1>3. PICK b \in OpenFor(s) :
        b.at <= u.at /\ ~(Cardinality(Later(G, s, b.at)) >= Cardinality(Between(b, u)))
  BY <1>1, <1>2 DEF Reached
<1>4. Cardinality(Later(F, s, b.at)) <= Cardinality(Later(G, s, b.at)) + 1
  BY <1>1, LaterAdds, Counts
<1>5. Between(b, u) \cup {a} \subseteq Between(b, a) /\ a \notin Between(b, u)
  BY <1>1, <1>3 DEF Between
<1>6. Cardinality(Between(b, u)) + 1 <= Cardinality(Between(b, a))
  <2>1. Cardinality(Between(b, u) \cup {a}) = Cardinality(Between(b, u)) + 1
    BY <1>5, Counts, FS_AddElement
  <2>2. Cardinality(Between(b, u) \cup {a}) <= Cardinality(Between(b, a))
    BY <1>5, Counts, FS_Subset
  <2>. QED
    BY <2>1, <2>2
<1>7. /\ Cardinality(Later(F, s, b.at)) \in Nat /\ Cardinality(Later(G, s, b.at)) \in Nat
      /\ Cardinality(Between(b, u)) \in Nat /\ Cardinality(Between(b, a)) \in Nat
  BY Counts
<1>8. ~(Cardinality(Later(F, s, b.at)) >= Cardinality(Between(b, a)))
  BY <1>3, <1>4, <1>6, <1>7
<1>. QED
  BY <1>1, <1>3, <1>8 DEF Served, Reached

\* So the latest filing adds to what is served what the loop adds.
LEMMA PairAdds ==
  ASSUME TypeOK, Apart, NEW F \in SUBSET Delivered, F # {}
  PROVE  Served(F) = Pair(Served(F \ {Latest(F)}), Latest(F))
<1> DEFINE m == Latest(F)
           G == F \ {m}
<1>1. m \in F /\ \A n \in F : sentAt[n] <= sentAt[m]
  BY LatestIs
<1>2. G \in SUBSET Delivered /\ Free(G, m) \in SUBSET acks
  BY DEF Free, OpenFor
<1>. HIDE DEF m
<1>3. Served(G) \subseteq Served(F)
  BY <1>1, ServedGrows
<1>4. Served(F) \ Served(G) \subseteq Free(G, m)
  <2> SUFFICES ASSUME NEW a \in Served(F), a \notin Served(G) PROVE a \in Free(G, m)
    OBVIOUS
  <2>1. PICK n \in F : From[n] = a.seat /\ sentAt[n] > a.at
    BY ServedNeedsFiling
  <2>2. a \in OpenRows /\ a \in OpenFor(a.seat) /\ a.at \in Nat
    BY DEF Served, OpenRows, OpenFor, TypeOK, Ack
  <2>3. From[m] = a.seat
    <3>1. SUFFICES ASSUME From[m] # a.seat PROVE a \in Served(G)
      OBVIOUS
    <3>2. \A t \in Nat : Later(F, a.seat, t) = Later(G, a.seat, t)
      BY <3>1 DEF Later
    <3>3. \A b \in OpenFor(a.seat) : b.at \in Nat
      BY DEF OpenFor, TypeOK, Ack
    <3>4. Reached(G, a)
      BY <3>2, <3>3 DEF Served, Reached
    <3>. QED
      BY <2>2, <3>4 DEF Served
  <2>4. sentAt[m] > a.at
    BY <1>1, <2>1, <2>2 DEF TypeOK, Delivered
  <2>. QED
    BY <2>2, <2>3, <2>4 DEF Free
<1>5. Pair(Served(G), m) = IF Free(G, m) = {} THEN Served(G) ELSE Served(G) \cup {Oldest(Free(G, m))}
  BY DEF Pair, Free
<1>6. CASE Free(G, m) = {}
  BY <1>3, <1>4, <1>5, <1>6 DEF m
<1>7. CASE Free(G, m) # {}
  <2> DEFINE u == Oldest(Free(G, m))
  <2>1. u \in Free(G, m) /\ \A b \in Free(G, m) : u.at <= b.at
    BY <1>2, <1>7, OldestIs
  <2>. HIDE DEF u
  <2>2. u \in Served(F)
    BY <1>1, <2>1, OldestIsServed
  <2>3. ASSUME NEW a \in Served(F) \cap Free(G, m) PROVE a = u
    <3>1. ~(u.at < a.at)
      BY <1>1, <2>1, NobodyElseIsServed
    <3>2. /\ u.at \in Nat /\ a.at \in Nat /\ u.at <= a.at /\ a.seat = u.seat
          /\ a \in OpenRows /\ u \in OpenRows
      BY <2>1 DEF Free, OpenFor, OpenRows, TypeOK, Ack
    <3>. QED
      BY <3>1, <3>2 DEF Apart
  <2>4. Served(F) = Served(G) \cup {u}
    BY <1>3, <1>4, <2>2, <2>3
  <2>. QED
    BY <1>5, <1>7, <2>4 DEF u, m
<1>. QED
  BY <1>6, <1>7

LEMMA NothingServed ==
  ASSUME TypeOK, Apart PROVE Served({}) = {}
  BY ServedNeedsFiling

\* The loop is a function of the filings, and it is the closed form: where they
\* differed first they would differ earlier.
LEMMA MatchedIsServed ==
  ASSUME TypeOK, Apart
  PROVE  \A F \in SUBSET Delivered : Matched[F] = Served(F)
<1> DEFINE Step(f, F) == IF F = {} THEN {} ELSE Pair(f[F \ {Latest(F)}], Latest(F))
           g == [F \in SUBSET Delivered |-> Served(F)]
           T == {F \in SUBSET Delivered : Matched[F] # Served(F)}
<1>1. ASSUME NEW F \in SUBSET Delivered PROVE g[F] = Step(g, F)
  <2>1. CASE F = {}
    BY <2>1, NothingServed
  <2>2. CASE F # {}
    BY <2>2, PairAdds
  <2>. QED
    BY <2>1, <2>2
<1>2. g = [F \in SUBSET Delivered |-> Step(g, F)]
  <2>. HIDE DEF Step
  <2>. QED
    BY <1>1
<1>3. Matched = CHOOSE f : f = [F \in SUBSET Delivered |-> Step(f, F)]
  BY DEF Matched
<1>4. Matched = [F \in SUBSET Delivered |-> Step(Matched, F)]
  <2>. HIDE DEF Step, g
  <2>. QED
    BY <1>2, <1>3
<1>5. SUFFICES ASSUME T # {} PROVE FALSE
  OBVIOUS
<1>6. T \subseteq FiniteSubsetsOf(Mail)
  BY MailAssumption, FS_Subset DEF Delivered, FiniteSubsetsOf
<1>7. PICK F \in T : \A H \in T : <<H, F>> \notin StrictSubsetOrdering(Mail)
  <2>. HIDE DEF T
  <2>. QED
    BY <1>5, <1>6, FS_StrictSubsetOrderingWellFounded, WFMin
<1>8. Matched[F] = Step(Matched, F)
  <2>. HIDE DEF Step
  <2>. QED
    BY <1>4
<1>9. F # {}
  BY <1>8, NothingServed
<1>10. F \ {Latest(F)} \notin T
  <2>1. <<F \ {Latest(F)}, F>> \in StrictSubsetOrdering(Mail)
    BY <1>9, LatestIs DEF StrictSubsetOrdering, Delivered
  <2>. QED
    BY <1>7, <2>1
<1>. QED
  BY <1>8, <1>9, <1>10, PairAdds

LEMMA LoopIsMatch ==
  ASSUME TypeOK, Apart PROVE MatchIsTheLoop
  BY ServedIsMatch, MatchedIsServed DEF MatchIsTheLoop

-----------------------------------------------------------------------------
(* No two asks have the same stamp, and no two filings *)

\* A stamp with the seat and the ask it was given out for: it is on the queued
\* mail, on the rows and on the prompts that are to become rows.
Asked == {m \in Mail : OpensOnQueue(m) /\ mail[m] # "none"}
Stamped ==
  {<<at[m], To[m], AskOf[m]>> : m \in Asked}
    \cup {<<a.at, a.seat, a.ask>> : a \in acks} \cup {<<p.at, p.seat, p.ask>> : p \in prompts}

StampsApart ==
  /\ \A x, y \in Stamped : x[1] = y[1] => x = y
  /\ \A m, n \in Delivered : sentAt[m] = sentAt[n] => m = n
  /\ \A m \in Mail : sentAt[m] <= now

OneStamp(s, x) == now' = now + 1 /\ Stamped' \subseteq Stamped \cup {<<now + 1, s, x>>}

\* Rows as they are opened and closed.
LEMMA StampsOfOpened ==
  ASSUME NEW s, NEW x, NEW source, NEW t, OpenAck(NewAck(s, x, source, t)), NEW a \in acks'
  PROVE  a \in acks \/ (a.at = t /\ a.seat = s /\ a.ask = x)
  BY DEF OpenAck, NewAck

LEMMA StampsOfClosed ==
  ASSUME TypeOK, NEW by \in Closers, ClosesRows(by),
         NEW a \in acks'
  PROVE  \E b \in acks : a.at = b.at /\ a.seat = b.seat /\ a.ask = b.ask
<1>1. PICK S \in SUBSET OpenRows : acks' = Close(S, by)
  BY DEF ClosesRows
<1>2. acks \subseteq Ack
  BY DEF TypeOK
<1>3. \/ a \in acks
      \/ \E b \in S : a.at = b.at /\ a.seat = b.seat /\ a.ask = b.ask
  BY <1>1, <1>2, ClosedRows
<1>4. S \subseteq acks
  BY DEF OpenRows
<1>. QED
  BY <1>3, <1>4

LEMMA ClosingStamps ==
  ASSUME TypeOK, UNCHANGED <<mail, at>>, prompts' \subseteq prompts, UNCHANGED acks \/ \E by \in Closers : ClosesRows(by)
  PROVE  Stamped' \subseteq Stamped
<1>1. Asked' = Asked
  BY DEF Asked
<1>2. \A a \in acks' : \E b \in acks : a.at = b.at /\ a.seat = b.seat /\ a.ask = b.ask
  BY StampsOfClosed
<1>. QED
  BY <1>1, <1>2 DEF Stamped

LEMMA EnqueueStamps ==
  ASSUME TypeOK, NEW m \in Mail, Enqueue(m) \/ EnqueueCut(m)
  PROVE  Stamped' \subseteq Stamped \/ OneStamp(To[m], AskOf[m])
<1>1. prompts' \subseteq prompts /\ mail' = [mail EXCEPT ![m] = "queued"]
  BY DEF Enqueue, EnqueueCut, AppendMail, Die, Forget, memory
<1>2. CASE OpensOnQueue(m)
  <2>1. at' = [at EXCEPT ![m] = now + 1] /\ now' = now + 1
    BY <1>2 DEF Enqueue, EnqueueCut, AppendMail
  <2>2. \A k \in Asked' : k = m \/ (k \in Asked /\ at'[k] = at[k])
    BY <1>1, <2>1 DEF Asked, TypeOK
  <2>3. at'[m] = now + 1
    BY <2>1 DEF TypeOK
  <2>4. UNCHANGED acks \/ OpenAck(NewAck(To[m], AskOf[m], "mail", now + 1))
    BY <1>2 DEF Enqueue, EnqueueCut
  <2>5. \A a \in acks' : a \in acks \/ (a.at = now + 1 /\ a.seat = To[m] /\ a.ask = AskOf[m])
    BY <2>4, StampsOfOpened
  <2>6. \A y \in Stamped' : y \in Stamped \/ y = <<now + 1, To[m], AskOf[m]>>
    BY <1>1, <2>2, <2>3, <2>5 DEF Stamped
  <2>. QED
    BY <2>1, <2>6 DEF OneStamp
<1>3. CASE ~OpensOnQueue(m)
  <2>1. UNCHANGED <<at, acks>>
    BY <1>3 DEF Enqueue, EnqueueCut, AppendMail
  <2>2. Asked' \subseteq Asked
    BY <1>1, <1>3 DEF Asked, TypeOK
  <2>. QED
    BY <1>1, <2>1, <2>2 DEF Stamped
<1>. QED
  BY <1>2, <1>3

LEMMA DeliverStamps ==
  ASSUME TypeOK, NEW m \in Mail, Deliver(m) \/ DeliverCut(m)
  PROVE  Stamped' \subseteq Stamped \/ OneStamp(To[m], AskOf[m])
<1>1. UNCHANGED at /\ prompts' \subseteq prompts /\ mail[m] = "queued"
      /\ (mail' = mail \/ mail' = [mail EXCEPT ![m] = "sent"])
  BY DEF Deliver, DeliverCut, Pastes, MarkSent, Die, Forget
<1>2. Asked' \subseteq Asked
  BY <1>1 DEF Asked, TypeOK
<1>3. CASE UNCHANGED acks
  BY <1>1, <1>2, <1>3 DEF Stamped
<1>4. CASE OpenDelivered(m) /\ AskOf[m] # NoAsk /\ now' = now + 1
  <2> DEFINE t == IF Lane[m] = "peer" THEN at[m] ELSE now + 1
  <2>1. OpenAck(NewAck(To[m], AskOf[m], "mail", t))
    BY <1>4 DEF OpenDelivered
  <2>. HIDE DEF t
  <2>2. \A a \in acks' : a \in acks \/ (a.at = t /\ a.seat = To[m] /\ a.ask = AskOf[m])
    BY <2>1, StampsOfOpened
  <2>3. <<t, To[m], AskOf[m]>> \in Stamped \/ t = now + 1
    BY <1>1, <1>4 DEF t, Stamped, Asked, OpensOnQueue
  <2>4. \A y \in Stamped' : y \in Stamped \/ y = <<t, To[m], AskOf[m]>>
    BY <1>1, <1>2, <2>2 DEF Stamped
  <2>. QED
    BY <1>4, <2>3, <2>4 DEF OneStamp
<1>5. UNCHANGED acks \/ (OpenDelivered(m) /\ AskOf[m] # NoAsk /\ now' = now + 1)
  BY DEF Deliver, DeliverCut, MarkSent, OpenDelivered
<1>. QED
  BY <1>3, <1>4, <1>5

LEMMA PromptStamps ==
  ASSUME TypeOK, OpenOperatorPrompt
  PROVE  Stamped' \subseteq Stamped
<1>1. PICK p \in prompts : OpenAck(NewAck(p.seat, p.ask, "operator", p.at)) /\ prompts' = prompts \ {p}
  BY DEF OpenOperatorPrompt
<1>2. UNCHANGED <<mail, at>>
  BY DEF OpenOperatorPrompt
<1>3. Asked' = Asked
  BY <1>2 DEF Asked
<1>4. \A a \in acks' : a \in acks \/ (a.at = p.at /\ a.seat = p.seat /\ a.ask = p.ask)
  BY <1>1, StampsOfOpened
<1>. QED
  BY <1>1, <1>2, <1>3, <1>4 DEF Stamped

LEMMA PaintStamps ==
  ASSUME TypeOK, NEW p \in Watched, PaintPane(p)
  PROVE  Stamped' \subseteq Stamped \/ OneStamp(p, watch[p])
<1>1. UNCHANGED <<mail, at, acks>>
  BY DEF PaintPane, files
<1>2. \/ UNCHANGED prompts
      \/ prompts' = prompts \cup {[seat |-> p, ask |-> watch[p], at |-> now + 1]} /\ now' = now + 1
  BY DEF PaintPane, Observe
<1>3. Asked' = Asked
  BY <1>1 DEF Asked
<1>. QED
  BY <1>1, <1>2, <1>3 DEF Stamped, OneStamp

LEMMA StampedSteps ==
  ASSUME TypeOK, [Next]_vars
  PROVE  Stamped' \subseteq Stamped \/ \E s, x : OneStamp(s, x)
<1>1. ASSUME NEW m \in Mail, Skip(m) PROVE Stamped' \subseteq Stamped
  <2>1. UNCHANGED <<at, acks, prompts>> /\ mail[m] = "queued" /\ mail' = [mail EXCEPT ![m] = "skipped"]
    BY <1>1 DEF Skip, memory
  <2>2. Asked' \subseteq Asked
    BY <2>1 DEF Asked, TypeOK
  <2>. QED
    BY <2>1, <2>2 DEF Stamped
<1>2. ASSUME NEW m \in Mail, Enqueue(m) \/ EnqueueCut(m) \/ Deliver(m) \/ DeliverCut(m)
      PROVE  Stamped' \subseteq Stamped \/ OneStamp(To[m], AskOf[m])
  BY <1>2, EnqueueStamps, DeliverStamps
<1>3. ASSUME NEW p \in Watched, PaintPane(p) PROVE Stamped' \subseteq Stamped \/ OneStamp(p, watch[p])
  BY <1>3, PaintStamps
<1>4. ASSUME ~Queues, ~OpenOperatorPrompt, ~\E m \in Mail : Skip(m), ~\E p \in Watched : PaintPane(p)
      PROVE  Stamped' \subseteq Stamped
  <2>1. CASE \/ \E a \in acks : AckExplicit(a)
             \/ \E S \in {{s} : s \in Seat} \cup {Seat} : AckAll(S)
             \/ \E p \in Watched : TurnEnds(p) \/ Submits(p) \/ Erases(p) \/ \E x \in Text : Types(p, x)
    BY <2>1, <1>4, ClosingStamps, LedgerSteps
       DEF AckExplicit, AckAll, TurnEnds, Submits, Erases, Types, files, memory, Closers
  <2>2. CASE EndOpen \/ CloseOperatorAcksOnPaneReply \/ CloseAcksOnFilings \/ PaintNothing
    BY <2>2, <1>4, ClosingStamps, LedgerSteps
       DEF EndOpen, CloseOperatorAcksOnPaneReply, CloseAcksOnFilings, PaintNothing, files, memory, Closers
  <2>3. CASE Crash \/ Restart \/ UNCHANGED vars
    BY <2>3, ClosingStamps DEF Crash, Restart, Die, Forget, files, memory, vars
  <2>. QED
    BY <1>4, <2>1, <2>2, <2>3 DEF Next, Queues, Sweep, Paint
<1>. QED
  BY <1>1, <1>2, <1>3, <1>4, PromptStamps DEF Queues

\* At most one mail is delivered, and stamped, at a time.
OneFiling(m) ==
  /\ now' = now + 1 /\ sentAt' = [sentAt EXCEPT ![m] = now + 1]
  /\ m \notin Delivered /\ Delivered' \subseteq Delivered \cup {m}

LEMMA DeliveredSteps ==
  ASSUME TypeOK, [Next]_vars
  PROVE  \/ Delivered' = Delivered /\ UNCHANGED sentAt
         \/ \E m \in Mail : OneFiling(m)
<1>1. ASSUME NEW m \in Mail, Enqueue(m) \/ EnqueueCut(m)
      PROVE  Delivered' = Delivered /\ UNCHANGED sentAt
  BY <1>1 DEF Enqueue, EnqueueCut, AppendMail, Delivered, TypeOK
<1>2. ASSUME NEW m \in Mail, Deliver(m) \/ DeliverCut(m)
      PROVE  (Delivered' = Delivered /\ UNCHANGED sentAt) \/ OneFiling(m)
  BY <1>2 DEF Deliver, DeliverCut, Pastes, MarkSent, Delivered, OneFiling, TypeOK
<1>3. ASSUME NEW m \in Mail, Skip(m) PROVE OneFiling(m)
  BY <1>3 DEF Skip, Delivered, OneFiling, TypeOK
<1>4. ASSUME ~Queues, ~\E m \in Mail : Skip(m) PROVE UNCHANGED <<mail, sentAt>>
  <2>1. CASE \/ \E a \in acks : AckExplicit(a)
             \/ \E S \in {{s} : s \in Seat} \cup {Seat} : AckAll(S)
             \/ \E p \in Watched : TurnEnds(p) \/ Submits(p) \/ Erases(p) \/ \E x \in Text : Types(p, x)
    BY <2>1 DEF AckExplicit, AckAll, TurnEnds, Submits, Erases, Types, files
  <2>2. CASE Sweep \/ Paint \/ Crash \/ Restart \/ UNCHANGED vars
    BY <2>2 DEF Sweep, OpenOperatorPrompt, EndOpen, CloseOperatorAcksOnPaneReply, CloseAcksOnFilings,
       Paint, PaintNothing, PaintPane, Crash, Restart, files, vars
  <2>. QED
    BY <1>4, <2>1, <2>2 DEF Next, Queues
<1>5. UNCHANGED <<mail, sentAt>> => Delivered' = Delivered /\ UNCHANGED sentAt
  BY DEF Delivered
<1>. QED
  BY <1>1, <1>2, <1>3, <1>4, <1>5 DEF Queues

LEMMA ApartStep ==
  ASSUME TypeOK, StampInv, StampsApart, [Next]_vars PROVE StampsApart'
<1>0. now \in Nat /\ now' \in Nat /\ now' >= now
  BY NextType, WaitingSteps DEF TypeOK
<1>1. \A x, y \in Stamped' : x[1] = y[1] => x = y
  <2>1. \A x \in Stamped : x[1] <= now /\ x[1] \in Nat
    BY DEF Stamped, Asked, StampInv, TypeOK, Ack, Prompt
  <2>2. ASSUME NEW s, NEW k, OneStamp(s, k) PROVE \A x, y \in Stamped' : x[1] = y[1] => x = y
    <3>1. \A x \in Stamped : x[1] # now + 1
      BY <2>1, <1>0
    <3>. QED
      BY <2>2, <3>1 DEF OneStamp, StampsApart
  <2>3. CASE Stamped' \subseteq Stamped
    BY <2>3 DEF StampsApart
  <2>. QED
    BY <2>2, <2>3, StampedSteps
<1>2. CASE Delivered' = Delivered /\ UNCHANGED sentAt
  <2>1. \A m \in Mail : sentAt'[m] <= now'
    BY <1>0, <1>2 DEF StampsApart, TypeOK
  <2>. QED
    BY <1>1, <1>2, <2>1 DEF StampsApart
<1>3. ASSUME NEW m \in Mail, OneFiling(m) PROVE StampsApart'
  <2>1. \A k \in Mail : sentAt'[k] = IF k = m THEN now + 1 ELSE sentAt[k]
    BY <1>3 DEF OneFiling, TypeOK
  <2>2. \A k \in Mail : sentAt[k] \in Nat /\ sentAt[k] <= now
    BY DEF StampsApart, TypeOK
  <2>3. \A k \in Mail : sentAt'[k] <= now'
    BY <1>0, <1>3, <2>1, <2>2 DEF OneFiling
  <2>4. \A k, n \in Delivered' : sentAt'[k] = sentAt'[n] => k = n
    <3>1. \A k \in Delivered' : k \in Mail /\ (k = m \/ k \in Delivered)
      BY <1>3 DEF OneFiling, Delivered
    <3>2. \A k \in Mail : sentAt[k] # now + 1
      BY <1>0, <2>2
    <3>. QED
      BY <2>1, <3>1, <3>2 DEF StampsApart
  <2>. QED
    BY <1>1, <2>3, <2>4 DEF StampsApart
<1>. QED
  BY <1>2, <1>3, DeliveredSteps

LEMMA ApartRows ==
  ASSUME TypeOK, OneOpenPerAsk, FiledInv, StampsApart
  PROVE  Apart
<1> SUFFICES ASSUME NEW a \in OpenRows, NEW b \in OpenRows, a.seat = b.seat, a.at = b.at PROVE a = b
  BY DEF Apart, FiledInv, StampsApart
<1>1. <<a.at, a.seat, a.ask>> \in Stamped /\ <<b.at, b.seat, b.ask>> \in Stamped
  BY DEF Stamped, OpenRows
<1>2. a.ask = b.ask
  BY <1>1 DEF StampsApart
<1>. QED
  BY <1>2 DEF OneOpenPerAsk, OpenRows

LEMMA ApartInit == Init => StampsApart
<1>1. Init => Asked = {} /\ Delivered = {}
  BY MailAssumption DEF Init, Asked, Delivered, OpensOnQueue
<1>. QED
  BY <1>1 DEF Init, StampsApart, Stamped

(* matchFiledAcks goes through the filings of all seats and takes from each  *)
(* seat's list what the filing is later than; which asks it closes is what   *)
(* the closed form says, counted at each seat by itself.  No two open asks   *)
(* of a seat and no two filings have the same stamp, so that the loop has    *)
(* nothing to choose.                                                        *)
THEOREM LoopMatches == Spec => []MatchIsTheLoop
<1> DEFINE Inv == TypeOK /\ OneOpenPerAsk /\ FiledInv /\ StampInv /\ StampsApart
<1>1. Init => Inv
  BY LedgerInit, ApartInit
<1>2. Inv /\ [Next]_vars => Inv'
  BY NextType, OneOpenStep, FiledStep, StampStep, ApartStep
<1>3. Inv => MatchIsTheLoop
  BY ApartRows, LoopIsMatch
<1>. HIDE DEF Inv
<1>. QED
  BY <1>1, <1>2, <1>3, PTL DEF Spec

\* What the filings close of a seat is its oldest asks.
LEMMA OldestAreServed ==
  ASSUME TypeOK, Apart, NEW a \in Served(Delivered), NEW c \in OpenFor(a.seat), c.at <= a.at
  PROVE  c \in Served(Delivered)
<1>1. c \in OpenRows /\ c.seat = a.seat /\ c.at \in Nat /\ a.at \in Nat
  BY DEF OpenFor, OpenRows, Served, TypeOK, Ack
<1> SUFFICES ASSUME NEW b \in OpenFor(a.seat), b.at <= c.at
             PROVE  Cardinality(Later(Delivered, a.seat, b.at)) >= Cardinality(Between(b, c))
  BY <1>1 DEF Served, Reached
<1>2. b.at \in Nat
  BY DEF OpenFor, TypeOK, Ack
<1>3. Cardinality(Later(Delivered, a.seat, b.at)) >= Cardinality(Between(b, a))
  BY <1>1, <1>2 DEF Served, Reached
<1>4. Between(b, c) \subseteq Between(b, a)
  <2>1. \A d \in OpenFor(a.seat) : d.at \in Nat
    BY DEF OpenFor, TypeOK, Ack
  <2>. QED
    BY <1>1, <2>1 DEF Between
<1>5. Cardinality(Between(b, c)) <= Cardinality(Between(b, a))
  BY <1>4, Counts, FS_Subset
<1>. QED
  BY <1>3, <1>5, Counts

\* While some filing is later than some ask of s, the oldest ask of s is closed.
LEMMA OneIsServed ==
  ASSUME TypeOK, Apart, StampInv, NEW s \in Seat, NEW a \in OpenFor(s), After(s, a.at) # {}
  PROVE  \E o \in OpenFor(s) : o \in Served(Delivered)
<1>1. \A c \in OpenFor(s) : c \in OpenRows /\ c.seat = s /\ c.at \in Nat
  BY DEF OpenFor, OpenRows, TypeOK, Ack
<1>2. PICK o \in OpenFor(s) : \A c \in OpenFor(s) : o.at <= c.at
  <2> DEFINE T == {c.at : c \in OpenFor(s)}
  <2>1. T \in SUBSET Nat /\ T # {}
    BY <1>1
  <2>2. PICK x \in T : \A y \in T : x <= y
    <3>. HIDE DEF T
    <3>. QED
      BY <2>1, LeastStamp
  <2>. QED
    BY <2>2
<1>3. Later(Delivered, s, a.at) \subseteq Later(Delivered, s, o.at)
  <2>1. o.at <= a.at
    BY <1>2
  <2>. QED
    BY <1>1, <2>1 DEF Later, Delivered, TypeOK
<1>4. Later(Delivered, s, o.at) # {}
  BY <1>3 DEF After, Filings, Later, Delivered
<1>5. ASSUME NEW b \in OpenFor(s), b.at <= o.at
      PROVE  Cardinality(Later(Delivered, s, b.at)) >= Cardinality(Between(b, o))
  <2>1. b.at = o.at
    BY <1>1, <1>2, <1>5
  <2>2. b = o
    BY <1>1, <2>1 DEF Apart
  <2>3. Between(b, o) \subseteq {o}
    BY <1>1, <1>2, <2>2 DEF Between, Apart, OpenFor
  <2>4. Cardinality(Between(b, o)) <= 1
    <3>1. IsFiniteSet({o}) /\ Cardinality({o}) = 1
      BY FS_Singleton
    <3>. QED
      BY <2>3, <3>1, FS_Subset
  <2>5. Cardinality(Later(Delivered, s, b.at)) # 0
    BY <1>4, <2>2, Counts, FS_EmptySet
  <2>. QED
    BY <2>4, <2>5, Counts
<1>. QED
  BY <1>1, <1>5 DEF Served, Reached

LEMMA GoneAreServed ==
  ASSUME TypeOK, CloseAcksOnFilings, NEW s \in Seat
  PROVE  Gone(s) = OpenFor(s) \cap Served(Delivered)
<1>1. acks' = Close(Served(Delivered), "filed")
  BY ServedIsMatch DEF CloseAcksOnFilings
<1>2. Served(Delivered) \in SUBSET OpenRows
  BY DEF Served
<1>3. \A a \in OpenRows : a \in acks' <=> a \notin Served(Delivered)
  <2>1. \A a \in acks' : a \notin Served(Delivered) \/ ~Open(a)
    BY <1>1, <1>2, ClosedRows DEF TypeOK, Closers, Open
  <2>. QED
    BY <1>1, <2>1 DEF OpenRows, Close
<1>. QED
  BY <1>3 DEF Gone, OpenFor, OpenRows

LEMMA GoneAreCounted ==
  ASSUME TypeOK, Apart, StampInv, CloseAcksOnFilings, NEW s \in Seat, NEW b \in Gone(s),
         \A c \in Gone(s) : b.at <= c.at
  PROVE  Cardinality(Gone(s)) <= Cardinality(After(s, b.at))
<1>1. Gone(s) = OpenFor(s) \cap Served(Delivered)
  BY GoneAreServed
<1>2. \A c \in Gone(s) : c \in OpenFor(s) /\ c.seat = s /\ c.at \in Nat /\ c.at <= now
  BY <1>1 DEF OpenFor, TypeOK, Ack, StampInv
<1>3. PICK a \in Gone(s) : \A c \in Gone(s) : c.at <= a.at
  <2> DEFINE T == {c.at : c \in Gone(s)}
  <2>1. T \in SUBSET Nat /\ T # {} /\ now \in Nat /\ \A x \in T : x <= now
    BY <1>2 DEF TypeOK
  <2>2. PICK x \in T : \A y \in T : y <= x
    <3>. HIDE DEF T
    <3>. QED
      BY <2>1, GreatestStamp
  <2>. QED
    BY <2>2
<1>4. Gone(s) \subseteq Between(b, a)
  BY <1>2, <1>3 DEF Between
<1>5. Cardinality(Gone(s)) <= Cardinality(Between(b, a))
  BY <1>4, Counts, FS_Subset
<1>6. Cardinality(Later(Delivered, s, b.at)) >= Cardinality(Between(b, a))
  BY <1>1, <1>2 DEF Served, Reached
<1>7. After(s, b.at) = Later(Delivered, s, b.at)
  BY DEF After, Filings, Later, Delivered
<1>8. Cardinality(Gone(s)) \in Nat
  BY <1>4, Counts, FS_Subset, FS_CardinalityType
<1>. QED
  BY <1>5, <1>6, <1>7, <1>8, Counts

(* Within a sweep a filing closes one ask: of the asks of a seat the oldest  *)
(* go, at least one while mail of the seat is later than an open ask, and no *)
(* more of them than mail was delivered since the first.  It says nothing of *)
(* several sweeps: each may use the same filings again.                      *)
THEOREM SweepsAreMeasured == Spec => SweepIsMeasured
<1> DEFINE Inv == TypeOK /\ OneOpenPerAsk /\ FiledInv /\ StampInv /\ StampsApart
           Measured ==
             pc = "file" /\ pc' = "paint" =>
               \A s \in Seat :
                 /\ (\E a \in OpenFor(s) : After(s, a.at) # {}) => Gone(s) # {}
                 /\ \A b \in Gone(s) :
                      /\ \A c \in OpenFor(s) : c.at < b.at => c \in Gone(s)
                      /\ (\A c \in Gone(s) : b.at <= c.at)
                           => Cardinality(Gone(s)) <= Cardinality(After(s, b.at))
<1>1. Init => Inv
  BY LedgerInit, ApartInit
<1>2. Inv /\ [Next]_vars => Inv'
  BY NextType, OneOpenStep, FiledStep, StampStep, ApartStep
<1>3. ASSUME Inv, CloseAcksOnFilings, NEW s \in Seat, NEW a \in OpenFor(s), After(s, a.at) # {}
      PROVE  Gone(s) # {}
  BY <1>3, ApartRows, OneIsServed, GoneAreServed
<1>4. ASSUME Inv, CloseAcksOnFilings, NEW s \in Seat, NEW b \in Gone(s)
      PROVE  /\ \A c \in OpenFor(s) : c.at < b.at => c \in Gone(s)
             /\ (\A c \in Gone(s) : b.at <= c.at) => Cardinality(Gone(s)) <= Cardinality(After(s, b.at))
  <2>1. Apart
    BY <1>4, ApartRows
  <2>2. b \in Served(Delivered) /\ b.seat = s /\ b.at \in Nat
    BY <1>4, GoneAreServed DEF OpenFor, TypeOK, Ack
  <2>3. ASSUME NEW c \in OpenFor(s), c.at < b.at PROVE c \in Gone(s)
    <3>1. c.at <= b.at
      BY <2>2, <2>3, <1>4 DEF OpenFor, TypeOK, Ack
    <3>. QED
      BY <1>4, <2>1, <2>2, <3>1, OldestAreServed, GoneAreServed
  <2>. QED
    BY <1>4, <2>1, <2>3, GoneAreCounted
<1>5. ASSUME [Next]_vars, pc = "file", pc' = "paint" PROVE CloseAcksOnFilings
  <2>1. ~UNCHANGED vars
    BY <1>5 DEF vars
  <2>2. ~Queues /\ ~(\E m \in Mail : Skip(m))
    BY <1>5 DEF Queues, Enqueue, EnqueueCut, AppendMail, Serving, Deliver, DeliverCut, Pastes, Skip
  <2>3. ~(\E a \in acks : AckExplicit(a)) /\ ~(\E S \in {{s} : s \in Seat} \cup {Seat} : AckAll(S))
    BY <1>5 DEF AckExplicit, AckAll, Serving
  <2>4. ~Crash /\ ~Restart /\ ~Paint
    BY <1>5 DEF Crash, Restart, Die, Paint, PaintNothing, PaintPane
  <2>5. ~(\E p \in Watched : TurnEnds(p) \/ Submits(p) \/ Erases(p) \/ \E x \in Text : Types(p, x))
    BY <1>5 DEF TurnEnds, Submits, Erases, Types
  <2>6. Sweep => CloseAcksOnFilings
    BY <1>5 DEF Sweep, OpenOperatorPrompt, EndOpen, CloseOperatorAcksOnPaneReply
  <2>. QED
    BY <1>5, <2>1, <2>2, <2>3, <2>4, <2>5, <2>6 DEF Next, Queues
<1>6. Inv /\ [Next]_vars => [Measured]_vars
  BY <1>3, <1>4, <1>5
<1>. HIDE DEF Inv
<1>. QED
  BY <1>1, <1>2, <1>6, PTL DEF Spec, SweepIsMeasured
=============================================================================
