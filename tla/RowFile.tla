------------------------------- MODULE RowFile -------------------------------
(* Files of rows as sequences: what is left of one when rows are taken out.  *)
EXTENDS Integers, Sequences, FiniteSets

\* The rows of S, in file order.
Only(file, S) ==
  LET kept   == {i \in DOMAIN file : file[i] \in S}
      Nth(n) == CHOOSE i \in kept : Cardinality({j \in kept : j <= i}) = n
  IN  [n \in 1..Cardinality(kept) |-> file[Nth(n)]]
=============================================================================
