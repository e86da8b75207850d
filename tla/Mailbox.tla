------------------------------- MODULE Mailbox -------------------------------
(***************************************************************************)
(* What the peer queue and the inbox promise a sender, with no files, panes *)
(* or ticks in it: mail sent is queued until it is settled, only queued     *)
(* mail is handed to the seat, it is handed over once, and each fault of    *)
(* the carrier may cost one repetition and, with the carrier of the peer    *)
(* queue, bring settled mail back to the queue.                             *)
(***************************************************************************)
EXTENDS Naturals

CONSTANTS
  Row,
  Reopens  \* whether a fault can bring settled mail back

VARIABLES
  box,    \* none, queued or settled
  given,  \* how often each row was handed to its seat
  faults  \* faults of the carrier so far

vars == <<box, given, faults>>

Init ==
  /\ box = [r \in Row |-> "none"]
  /\ given = [r \in Row |-> 0]
  /\ faults = 0

Send(r) ==
  /\ box[r] = "none"
  /\ box' = [box EXCEPT ![r] = "queued"]
  /\ UNCHANGED <<given, faults>>

\* The carrier files what it hands over later, or in the same go, or has a
\* fault before it could.
Hand(S) ==
  /\ \A r \in S : box[r] = "queued" /\ given[r] <= faults
  /\ given' = [r \in Row |-> IF r \in S THEN given[r] + 1 ELSE given[r]]
  /\ \/ UNCHANGED <<box, faults>>
     \/ box' = [r \in Row |-> IF r \in S THEN "settled" ELSE box[r]] /\ UNCHANGED faults
     \/ faults' = faults + 1 /\ UNCHANGED box

\* Rows in S are settled, rows in B come back to the queue.
File(S, B) ==
  /\ \A r \in S : box[r] # "none"
  /\ B # {} => Reopens /\ faults > 0
  /\ \A r \in B : box[r] = "settled"
  /\ box' = [r \in Row |-> IF r \in S THEN "settled"
                           ELSE IF r \in B THEN "queued" ELSE box[r]]
  /\ UNCHANGED <<given, faults>>

Fault ==
  /\ faults' = faults + 1
  /\ UNCHANGED <<box, given>>

Next ==
  \/ \E r \in Row : Send(r)
  \/ \E S \in SUBSET Row : Hand(S)
  \/ \E S, B \in SUBSET Row : File(S, B)
  \/ Fault

Spec == Init /\ [][Next]_vars
=============================================================================
