------------------------------ MODULE MCSearch ------------------------------
(* Instances of Search for TLC. *)
EXTENDS Search

CONSTANTS a, b, c, s1, s2

OneKey == [r \in Req |-> "k"]

(* Updates, and a delete c. *)
MixKind == [r \in Req |-> IF r = c THEN "DELETE" ELSE "UPDATE"]
MixBlocks == [r \in Req |-> CASE r = a -> 3 [] r = b -> 2 [] r = c -> 0]

(* An insert and an update. *)
InsKind == [r \in Req |-> IF r = a THEN "INSERT" ELSE "UPDATE"]

(* Request a runs in the client of fiber s1. *)
SiblingA == [s \in Searcher |-> IF s = s1 THEN {a} ELSE {}]

=============================================================================
