------------------------------ MODULE AckLedger ------------------------------
(***************************************************************************)
(* ACK.jsonl, the ledger of asks nobody has answered yet.  A row is opened  *)
(* when mail with an ask is queued or delivered, and when the border paint  *)
(* sees an operator submit a prompt; it is closed by hand, by a filing of   *)
(* its seat (any mail of that seat delivered later) or, for an operator's   *)
(* prompt, when the agent is seen to have answered in its pane.             *)
(*                                                                          *)
(* The sweep is one synchronous stage of the tick, the paint another, and   *)
(* HTTP handlers run between the two.  What the paint has seen is in memory *)
(* only and is lost when the daemon dies.                                   *)
(***************************************************************************)
EXTENDS Integers, FiniteSets

CONSTANTS
  Mail,      \* rows of PEER.jsonl and INBOX.jsonl
  Seat,      \* seats, each with one pane
  Watched,   \* worker seats whose pane an operator types into
  Text,      \* what an operator may type
  From, To,  \* [Mail -> Seat]
  Lane,      \* [Mail -> Lanes]
  AskOf,     \* [Mail -> Asks] the ask in the message; NoAsk: ACK-class or a probe
  Parked,    \* mail without an ask that waits in the queue from the start
  Asks,      \* ask texts
  NoAsk,
  MaxCrash,  \* bound: daemon deaths
  MaxTyped   \* bound: prompts an operator begins

Lanes == {"peer", "inbox"}

ASSUME MailAssumption ==
  /\ IsFiniteSet(Mail)
  /\ From \in [Mail -> Seat] /\ To \in [Mail -> Seat]
  /\ Lane \in [Mail -> Lanes]
  /\ AskOf \in [Mail -> Asks \cup {NoAsk}]
  /\ NoAsk \notin Asks
  /\ Parked \subseteq {m \in Mail : AskOf[m] = NoAsk}
  /\ Watched \subseteq Seat
  /\ Text \subseteq Asks
ASSUME BoundAssumption == MaxCrash \in Nat /\ MaxTyped \in Nat

VARIABLES
  mail,      \* the queue files: none, queued, sent or skipped
  at,        \* the stamp a peer's ask was queued with; nobody reads it of other rows
  sentAt,    \* the stamp it was delivered with
  acks,      \* ACK.jsonl
  now,       \* the last stamp given out; no two are equal
  draft,     \* what is in the composer of a watched pane
  echo,      \* prompts the transcript of the pane shows
  turn,      \* panes whose agent is generating
  watch,     \* memory: the draft the last paint saw
  arm,       \* memory: replyArmByPane
  quiet,     \* memory: panes within DAEMON_INJECT_QUIET_MS of a paste
  prompts,   \* memory: submits the paint has seen
  replies,   \* memory: panes the paint has seen answering
  pc,        \* memory: where the tick is; down: no daemon
  waiting,   \* history: prompts seen since the last turn of their pane ended
  crashes, typed

files   == <<mail, at, sentAt, acks>>
screens == <<draft, echo, turn>>
memory  == <<watch, arm, quiet, prompts, replies>>
counts  == <<crashes, typed>>
vars    == <<files, now, screens, memory, pc, waiting, counts>>

\* by hand: explicit or operator, which only the audit tells apart
Closers == {"filed", "pane-reply", "hand"}
Ack     == [seat : Seat, ask : Asks, source : {"mail", "operator"}, at : Nat,
            by : Closers \cup {"open"}]
Prompt  == [seat : Watched, ask : Text, at : Nat]

TypeOK ==
  /\ mail \in [Mail -> {"none", "queued", "sent", "skipped"}]
  /\ at \in [Mail -> Nat] /\ sentAt \in [Mail -> Nat]
  /\ acks \subseteq Ack
  /\ now \in Nat
  /\ draft \in [Watched -> Text \cup {NoAsk}]
  /\ echo \in [Watched -> SUBSET Text]
  /\ turn \subseteq Watched
  /\ watch \in [Watched -> Text \cup {NoAsk}]
  /\ arm \in [Watched -> {"off", "armed", "sawBusy"}]
  /\ quiet \subseteq Watched
  /\ prompts \subseteq Prompt
  /\ replies \subseteq Watched
  /\ pc \in {"drain", "open", "reply", "file", "paint", "down"}
  /\ waiting \subseteq Watched \X Nat
  /\ crashes \in 0..MaxCrash /\ typed \in 0..MaxTyped

-----------------------------------------------------------------------------
(* The ledger *)

Open(a)      == a.by = "open"
OpenFor(s)   == {a \in acks : Open(a) /\ a.seat = s}
NewAck(s, x, source, t) == [seat |-> s, ask |-> x, source |-> source, at |-> t, by |-> "open"]

\* Fault: an ask delivered a second time is stacked on the first.
OpenAckPerStamp(a) ==
  acks' = IF \E b \in OpenFor(a.seat) : b.ask = a.ask /\ b.at = a.at
          THEN acks ELSE acks \cup {a}

\* openAck: an identical open ask of the seat is returned as it is.
OpenAck(a) ==
  acks' = IF \E b \in OpenFor(a.seat) : b.ask = a.ask THEN acks ELSE acks \cup {a}

Close(S, by) == (acks \ S) \cup {[a EXCEPT !.by = by] : a \in S}

\* Fault: skipped rows count as filings too.
FilingsOrSkips(s) == {m \in Mail : From[m] = s /\ mail[m] \in {"sent", "skipped"}}

\* Mail that reached its reader: what the filings are taken from.
Delivered == {m \in Mail : mail[m] = "sent"}

\* filingsSince: what the seat has sent that was delivered.
Filings(s) == {m \in Mail : From[m] = s /\ mail[m] = "sent"}
After(s, t) == {m \in Filings(s) : sentAt[m] > t}

\* Fault: any filing of the seat is good for all of its asks before it.
EveryEarlierAsk(s) == {a \in OpenFor(s) : After(s, a.at) # {}}

\* Fault: filings are looked for since the newest open ask, not the oldest.
MatchSinceNewest(s) ==
  {a \in OpenFor(s) : \E m \in Filings(s) : \A b \in OpenFor(s) : sentAt[m] > b.at}

\* matchFiledAcks: each filing, earliest first, closes the oldest ask it is
\* later than.  In closed form: an ask is reached when, from every ask up to
\* it, there are enough later filings for the asks in between.
MatchFiled(s) ==
  {a \in OpenFor(s) : \A b \in OpenFor(s) : b.at <= a.at =>
     Cardinality(After(s, b.at)) >= Cardinality({c \in OpenFor(s) : b.at <= c.at /\ c.at <= a.at})}

\* The loop itself, which takes the filings of all seats together: what the
\* filings F have closed is what they had without the latest of them, and the
\* oldest ask that one is later than.
Oldest(S) == CHOOSE a \in S : \A b \in S : a.at <= b.at
Latest(F) == CHOOSE m \in F : \A n \in F : sentAt[n] <= sentAt[m]
Pair(matched, m) ==
  LET free == {a \in OpenFor(From[m]) \ matched : a.at < sentAt[m]}
  IN IF free = {} THEN matched ELSE matched \cup {Oldest(free)}
Matched[F \in SUBSET Delivered] ==
  IF F = {} THEN {} ELSE Pair(Matched[F \ {Latest(F)}], Latest(F))

-----------------------------------------------------------------------------
Forget ==
  /\ watch' = [p \in Watched |-> NoAsk]
  /\ arm' = [p \in Watched |-> "off"]
  /\ quiet' = {} /\ prompts' = {} /\ replies' = {}

Init ==
  /\ mail = [m \in Mail |-> IF m \in Parked THEN "queued" ELSE "none"]
  /\ at = [m \in Mail |-> 0] /\ sentAt = [m \in Mail |-> 0]
  /\ acks = {} /\ now = 0
  /\ draft = [p \in Watched |-> NoAsk] /\ echo = [p \in Watched |-> {}] /\ turn = {}
  /\ watch = [p \in Watched |-> NoAsk] /\ arm = [p \in Watched |-> "off"]
  /\ quiet = {} /\ prompts = {} /\ replies = {}
  /\ pc = "drain"
  /\ waiting = {}
  /\ crashes = 0 /\ typed = 0

Serving == pc \in {"drain", "paint"}

Die ==
  /\ crashes < MaxCrash
  /\ crashes' = crashes + 1
  /\ pc' = "down"
  /\ Forget

OpensOnQueue(m) == Lane[m] = "peer" /\ AskOf[m] # NoAsk

AppendMail(m) ==
  /\ Serving
  /\ mail[m] = "none"
  /\ mail' = [mail EXCEPT ![m] = "queued"]
  /\ IF OpensOnQueue(m) THEN at' = [at EXCEPT ![m] = now + 1] /\ now' = now + 1
                        ELSE UNCHANGED <<at, now>>
  /\ UNCHANGED <<sentAt, screens, waiting, typed>>

\* Fault: the row of a queued ask is left to the delivery.
QueueOnly(m) ==
  AppendMail(m) /\ UNCHANGED <<acks, memory, pc, crashes>>

(* POST /to-peer and POST /to-master.  A peer's ask opens its row at once.   *)
Enqueue(m) ==
  /\ AppendMail(m)
  /\ IF OpensOnQueue(m) THEN OpenAck(NewAck(To[m], AskOf[m], "mail", now + 1))
                        ELSE UNCHANGED acks
  /\ UNCHANGED <<memory, pc, crashes>>

\* A death between appendPeer and openAck.
EnqueueCut(m) == AppendMail(m) /\ OpensOnQueue(m) /\ Die /\ UNCHANGED acks

Pastes(m) ==
  /\ pc = "drain"
  /\ mail[m] = "queued"
  /\ turn' = turn \cup ({To[m]} \cap Watched)
  /\ UNCHANGED <<at, draft, echo, waiting, typed>>

MarkSent(m) ==
  /\ mail' = [mail EXCEPT ![m] = "sent"]
  /\ sentAt' = [sentAt EXCEPT ![m] = now + 1]
  /\ now' = now + 1

\* The row of a peer's ask keeps the stamp it was queued with, the row of an
\* inbox ask gets the stamp of the delivery.
OpenDelivered(m) ==
  IF AskOf[m] = NoAsk THEN UNCHANGED acks
  ELSE OpenAck(NewAck(To[m], AskOf[m], "mail", IF Lane[m] = "peer" THEN at[m] ELSE now + 1))

\* noteDaemonInject
NoteDaemonInject(s) ==
  /\ quiet' = quiet \cup ({s} \cap Watched)
  /\ watch' = [p \in Watched |-> IF p = s THEN NoAsk ELSE watch[p]]
  /\ arm' = [p \in Watched |-> IF p = s THEN "off" ELSE arm[p]]

(* The drains deliver a row: paste, mark, open, and keep the watch off it.   *)
(* The peer lane marks first, the inbox lane opens first; openAckForInboxRow *)
(* says nothing to the watch when it returns early.                          *)
Deliver(m) ==
  /\ Pastes(m) /\ MarkSent(m) /\ OpenDelivered(m)
  /\ IF Lane[m] = "peer" \/ AskOf[m] # NoAsk
     THEN NoteDaemonInject(To[m]) ELSE UNCHANGED <<quiet, watch, arm>>
  /\ UNCHANGED <<prompts, replies, pc, crashes>>

\* A death after the paste; after the peer row is marked; after the ledger row
\* of an inbox ask is written.
DeliverCut(m) ==
  /\ Pastes(m) /\ Die
  /\ \/ UNCHANGED <<mail, sentAt, acks, now>>
     \/ Lane[m] = "peer" /\ MarkSent(m) /\ UNCHANGED acks
     \/ Lane[m] = "inbox" /\ AskOf[m] # NoAsk /\ OpenDelivered(m)
          /\ now' = now + 1 /\ UNCHANGED <<mail, sentAt>>

\* markPeerRowSkipped; inbox rows are never skipped.
Skip(m) ==
  /\ pc = "drain" /\ Lane[m] = "peer" /\ mail[m] = "queued"
  /\ mail' = [mail EXCEPT ![m] = "skipped"]
  /\ sentAt' = [sentAt EXCEPT ![m] = now + 1] /\ now' = now + 1
  /\ UNCHANGED <<at, acks, screens, memory, pc, waiting, counts>>

(* POST /ack and POST /ack/clear *)
AckExplicit(a) ==
  /\ Serving /\ a \in acks /\ Open(a)
  /\ acks' = Close({a}, "hand")
  /\ UNCHANGED <<mail, at, sentAt, now, screens, memory, pc, waiting, counts>>

\* S is one seat, or all of them.
AckAll(S) ==
  LET open == UNION {OpenFor(s) : s \in S} IN
  /\ Serving /\ open # {}
  /\ acks' = Close(open, "hand")
  /\ UNCHANGED <<mail, at, sentAt, now, screens, memory, pc, waiting, counts>>

-----------------------------------------------------------------------------
(* ackSweepTick; fireAckReminders has nothing to do, remindableAcks is empty *)

OpenOperatorPrompt ==
  /\ pc \in {"drain", "open"} /\ pc' = "open"
  /\ \E p \in prompts :
       /\ OpenAck(NewAck(p.seat, p.ask, "operator", p.at))
       /\ prompts' = prompts \ {p}
  /\ UNCHANGED <<mail, at, sentAt, now, screens, watch, arm, quiet, replies, waiting, counts>>

EndOpen ==
  /\ pc \in {"drain", "open"} /\ prompts = {}
  /\ pc' = "reply"
  /\ UNCHANGED <<files, now, screens, memory, waiting, counts>>

CloseOperatorAcksOnPaneReply ==
  /\ pc = "reply"
  /\ acks' = Close({a \in acks : Open(a) /\ a.source = "operator" /\ a.seat \in replies}, "pane-reply")
  /\ replies' = {}
  /\ pc' = "file"
  /\ UNCHANGED <<mail, at, sentAt, now, screens, watch, arm, quiet, prompts, waiting, counts>>

CloseAcksOnFilings ==
  /\ pc = "file"
  /\ acks' = Close(UNION {MatchFiled(s) : s \in Seat}, "filed")
  /\ pc' = "paint"
  /\ UNCHANGED <<mail, at, sentAt, now, screens, memory, waiting, counts>>

-----------------------------------------------------------------------------
(* observePaneComposer, called by the border paint for one pane a tick *)

\* The phase a provider reports; a draft under an old status line reads as afk.
SeenPhase(p) ==
  IF p \in turn THEN {"busy"}
  ELSE IF draft[p] = NoAsk THEN {"empty"} ELSE {"typing", "afk"}

\* Fault: an empty composer that stays empty counts as a submit.
SubmittedNothing(p) == draft[p] = NoAsk /\ watch[p] \in echo[p] \cup {NoAsk}

Submitted(p) == draft[p] = NoAsk /\ watch[p] # NoAsk /\ watch[p] \in echo[p]

\* Fault: the first idle screen after a submit is taken for the answer.
ReplyCycleUnseen(p, phase) ==
  LET old == IF Submitted(p) THEN "armed" ELSE arm[p] IN
  CASE old # "off" /\ phase \in {"empty", "afk"} -> "answered"
    [] old # "off" /\ phase = "busy"             -> "sawBusy"
    [] OTHER                                     -> old

\* trackOperatorReplyCycle, after a submit has armed it.
ReplyCycle(p, phase) ==
  LET old == IF Submitted(p) THEN "armed" ELSE arm[p] IN
  CASE old # "off" /\ phase = "busy"                 -> "sawBusy"
    [] old = "sawBusy" /\ phase \in {"empty", "afk"} -> "answered"
    [] OTHER                                         -> old

Observe(p) ==
  \E phase \in SeenPhase(p) :
    LET cycle == ReplyCycle(p, phase) IN
    /\ arm' = [arm EXCEPT ![p] = IF cycle = "answered" THEN "off" ELSE cycle]
    /\ replies' = IF cycle = "answered" THEN replies \cup {p} ELSE replies
    /\ watch' = [watch EXCEPT ![p] = draft[p]]
    /\ IF Submitted(p)
       THEN /\ prompts' = prompts \cup {[seat |-> p, ask |-> watch[p], at |-> now + 1]}
            /\ waiting' = waiting \cup {<<p, now + 1>>}
            /\ now' = now + 1
       ELSE UNCHANGED <<prompts, waiting, now>>

\* Within the quiet time the composer is not looked at; it ends at some paint.
PaintPane(p) ==
  /\ pc = "paint"
  /\ \/ /\ p \in quiet
        /\ watch' = [watch EXCEPT ![p] = NoAsk]
        /\ UNCHANGED <<arm, replies, prompts, waiting, now, quiet>>
     \/ Observe(p) /\ quiet' = quiet \ {p}
  /\ pc' = "drain"
  /\ UNCHANGED <<files, screens, counts>>

\* The pane is not among those painted this time.
PaintNothing ==
  /\ pc = "paint" /\ pc' = "drain"
  /\ UNCHANGED <<files, now, screens, memory, waiting, counts>>

Crash ==
  /\ pc # "down" /\ Die
  /\ UNCHANGED <<files, now, screens, waiting, typed>>

Restart ==
  /\ pc = "down" /\ pc' = "drain"
  /\ UNCHANGED <<files, now, screens, memory, waiting, counts>>

-----------------------------------------------------------------------------
(* The operator and the agent *)

Types(p, x) ==
  /\ typed < MaxTyped /\ draft[p] = NoAsk
  /\ draft' = [draft EXCEPT ![p] = x]
  /\ typed' = typed + 1
  /\ UNCHANGED <<files, now, echo, turn, memory, pc, waiting, crashes>>

\* The transcript may not show the prompt in a form the paint recognises.
Submits(p) ==
  /\ draft[p] # NoAsk
  /\ draft' = [draft EXCEPT ![p] = NoAsk]
  /\ \/ echo' = [echo EXCEPT ![p] = @ \cup {draft[p]}]
     \/ UNCHANGED echo
  /\ turn' = turn \cup {p}
  /\ UNCHANGED <<files, now, memory, pc, waiting, counts>>

Erases(p) ==
  /\ draft[p] # NoAsk
  /\ draft' = [draft EXCEPT ![p] = NoAsk]
  /\ UNCHANGED <<files, now, echo, turn, memory, pc, waiting, counts>>

TurnEnds(p) ==
  /\ p \in turn
  /\ turn' = turn \ {p}
  /\ waiting' = {w \in waiting : w[1] # p}
  /\ UNCHANGED <<files, now, draft, echo, memory, pc, counts>>

Sweep == OpenOperatorPrompt \/ EndOpen \/ CloseOperatorAcksOnPaneReply \/ CloseAcksOnFilings
Paint == PaintNothing \/ \E p \in Watched : PaintPane(p)

Next ==
  \/ \E m \in Mail : Enqueue(m) \/ EnqueueCut(m) \/ Deliver(m) \/ DeliverCut(m) \/ Skip(m)
  \/ \E a \in acks : AckExplicit(a)
  \/ \E S \in {{s} : s \in Seat} \cup {Seat} : AckAll(S)
  \/ Sweep \/ Paint \/ Crash \/ Restart
  \/ \E p \in Watched : TurnEnds(p) \/ Submits(p) \/ Erases(p) \/ \E x \in Text : Types(p, x)

Spec == Init /\ [][Next]_vars

-----------------------------------------------------------------------------
(* Properties *)

(* openAck is reached from the handler, from two drains, from a repetition   *)
(* after a death and from the paint: the seat still owes one answer to one   *)
(* ask.                                                                      *)
OneOpenPerAsk ==
  \A a, b \in acks : Open(a) /\ Open(b) /\ a.seat = b.seat /\ a.ask = b.ask => a = b

(* A row is written when the ask is queued and again when it is delivered,   *)
(* so that an ask handed to its seat is missing from the ledger only when    *)
(* the daemon died at both places.                                           *)
AskRecorded ==
  \A m \in Mail : mail[m] = "sent" /\ AskOf[m] # NoAsk =>
    \/ crashes >= 2
    \/ \E a \in acks : a.seat = To[m] /\ a.ask = AskOf[m]

(* The closed form says of each seat by itself what the loop, with the       *)
(* filings of all seats in one list, closes.                                 *)
MatchIsTheLoop ==
  UNION {MatchFiled(s) : s \in Seat} = Matched[Delivered]

ClosedBy(a, by) == Open(a) /\ a \notin acks' /\ [a EXCEPT !.by = by] \in acks'

(* matchFiledAcks pairs an ask with mail of the asked seat that reached its  *)
(* reader after the ask was stamped: a skipped row or another seat's mail is *)
(* no evidence.                                                              *)
FiledOnEvidence ==
  [][\A a \in acks : ClosedBy(a, "filed") =>
       \E m \in Mail : From[m] = a.seat /\ mail[m] = "sent" /\ sentAt[m] > a.at]_vars

(* An operator's prompt closed as answered in the pane was: a turn of that   *)
(* agent ended after the paint saw the prompt.  The sweep opens the prompts  *)
(* and closes the answered panes it was told of by the same paints.          *)
PaneReplyAnswers ==
  [][\A a \in acks : ClosedBy(a, "pane-reply") =>
       a.source = "operator" /\ <<a.seat, a.at>> \notin waiting]_vars

\* The asks of s a step closes.
Gone(s) == OpenFor(s) \ acks'

(* A sweep closes the oldest asks of a seat and no more of them than mail of *)
(* the seat was delivered since the first, and at least one as long as some  *)
(* mail is later than some ask.  It does not tell the mail of one sweep from *)
(* that of the next, see OneRowPerFiling.                                    *)
SweepIsMeasured ==
  [][pc = "file" /\ pc' = "paint" =>
       \A s \in Seat :
         /\ (\E a \in OpenFor(s) : After(s, a.at) # {}) => Gone(s) # {}
         /\ \A b \in Gone(s) :
              /\ \A c \in OpenFor(s) : c.at < b.at => c \in Gone(s)
              /\ (\A c \in Gone(s) : b.at <= c.at)
                   => Cardinality(Gone(s)) <= Cardinality(After(s, b.at))]_vars

(* ack-algo.ts: "one filing per row, so a burst of replies cannot clear a    *)
(* whole backlog".  So a seat has no more rows closed by filings than it has *)
(* filed.                                                                    *)
OneRowPerFiling ==
  \A s \in Seat :
    Cardinality({a \in acks : a.seat = s /\ a.by = "filed"}) <= Cardinality(Filings(s))
=============================================================================
