----------------------------- MODULE MCClientMM -----------------------------
(***************************************************************************)
(* Instances of ClientMM for TLC.                                          *)
(***************************************************************************)
EXTENDS ClientMM

CONSTANTS c1, c2, k1, k2

(* server_id of the clients, counted from the number of memory nodes. *)
HintOf == [c \in Clients |-> IF c = c1 THEN NumMemory ELSE NumMemory + 1]
FirstOf == c1

=============================================================================
