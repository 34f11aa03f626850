---------------------------- MODULE MCSubtables -----------------------------
(* Instances of Subtables for TLC: keys of neighbouring subtables. *)
EXTENDS Subtables

Neighbours == [c \in Clients |-> IF c = "a" THEN 0 ELSE 1]

=============================================================================
