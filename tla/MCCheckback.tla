----------------------------- MODULE MCCheckback -----------------------------
(* Small instances of Checkback. *)
EXTENDS Checkback, TLC

CONSTANTS sup, nudge, lone, chk, twin, crd, sta, lim

Known == sup :> "supervise" @@ nudge :> "nudge" @@ lone :> "nudge"
           @@ chk :> "check" @@ twin :> "check" @@ crd :> "coord"
           @@ sta :> "status" @@ lim :> "limit"
KindOf == [r \in Id |-> Known[r]]

\* chk and twin are polls of one pane for the same thing.
KeyOf == [r \in Id |-> IF r = twin THEN chk ELSE r]

LoneNudges == {lone} \cap Id

\* At most one row is in the file at first; requests and CLI edits bring more.
FewInit == Init /\ Cardinality({r \in Id : Active(file[r])}) <= 1
FewSpec == FewInit /\ [][Next]_vars
=============================================================================
