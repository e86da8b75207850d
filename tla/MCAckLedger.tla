----------------------------- MODULE MCAckLedger -----------------------------
(* Two asks to one worker, and one mail of that worker.                      *)
EXTENDS AckLedger

Mails  == 1..3
Froms  == <<"mgr", "mgr", "w1">>
Tos    == <<"w1", "w1", "mgr">>
Lanes3 == <<"peer", "peer", "inbox">>
Asks3  == <<"first", "second", "none">>
=============================================================================
