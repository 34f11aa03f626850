----------------------------- MODULE MCSnapshot -----------------------------
(* Instances of Snapshot for TLC: which requests meet on the slot. *)
EXTENDS SnapshotRefinement

CONSTANTS a, b, c, d, e

OneKey == [r \in Req |-> "k"]

(* Updates of one key; addresses grow in the order a, b, c. *)
UpdKind == [r \in Req |-> "UPDATE"]
UpdBlocks == [r \in Req |-> CASE r = a -> 2 [] r = b -> 3 [] r = c -> 4]

(* An insert, an update and a delete of one key. *)
MixKind == [r \in Req |-> CASE r = a -> "INSERT" [] r = b -> "UPDATE" [] r = c -> "DELETE"]
MixBlocks == [r \in Req |-> CASE r = a -> 2 [] r = b -> 3 [] r = c -> 0]

(* An insert and two updates. *)
StopKind == [r \in Req |-> IF r = a THEN "INSERT" ELSE "UPDATE"]
StopBlocks == [r \in Req |-> CASE r = a -> 4 [] r = b -> 3 [] r = c -> 2]

(* Inserts a and e, updates b and d, a delete. *)
SingleKind == [r \in Req |-> IF r \in {a, e} THEN "INSERT"
                             ELSE IF r = c THEN "DELETE" ELSE "UPDATE"]
SingleBlocks == [r \in Req |-> CASE r = a -> 2 [] r = b -> 3 [] r = c -> 0
                                 [] r = d -> 4 [] r = e -> 5]

(* Two deletes. *)
DelKind == [r \in Req |-> "DELETE"]
DelBlocks == [r \in Req |-> 0]

(* Two updates and a delete. *)
LateKind == [r \in Req |-> IF r = c THEN "DELETE" ELSE "UPDATE"]

(* Inserts of three keys into the slot that the delete empties. *)
ReuseKind == [r \in Req |-> IF r = d THEN "DELETE" ELSE "INSERT"]
ReuseKey == [r \in Req |-> CASE r = a -> "k" [] r = b -> "l" [] r = c -> "m" [] r = d -> "k"]
ReuseBlocks == [r \in Req |-> CASE r = a -> 2 [] r = b -> 3 [] r = c -> 4 [] r = d -> 0]

=============================================================================
