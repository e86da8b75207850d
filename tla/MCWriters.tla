------------------------------ MODULE MCWriters ------------------------------
(* A small instance of Writers.  acks: a worker is asked by its manager and  *)
(* reports back, with an operator typing into the worker's pane.  inject:    *)
(* any two of three processes, of which the daemon and a CLI share a locked  *)
(* pane and another CLI has an open one.  room: two agents, two lines of one *)
(* and a line the daemon says for the other.  checkback: two polls of one    *)
(* pane for the same thing, behind a nudge and a nudge without recipient,    *)
(* with a budget of two rows a tick.                                         *)
EXTENDS Writers

Mails  == 1..2
Froms  == <<"mgr", "w1">>
Tos    == <<"w1", "mgr">>
Lane2  == <<"peer", "inbox">>
AskOf2 == <<"ask", "report">>

TargetOf == [p \in {"daemon", "cli", "other"} |-> IF p = "other" THEN "a" ELSE "b"]
AuthorOf == [m \in {"m1", "m2", "m3"} |-> IF m = "m3" THEN "y" ELSE "x"]

Ids    == {"lone", "nudge", "chk", "twin"}
KindOf == [r \in Ids |-> IF r \in {"lone", "nudge"} THEN "nudge" ELSE "check"]
KeyOf  == [r \in Ids |-> IF r = "twin" THEN "chk" ELSE r]
=============================================================================
