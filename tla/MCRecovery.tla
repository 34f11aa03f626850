----------------------------- MODULE MCRecovery -----------------------------
(* Instances of Recovery for TLC: request a crashes, replayA is its replay. *)
EXTENDS Recovery

CONSTANTS a, b, c, replayA, replayC

(* An insert and an update crash; a survivor updates the key. *)
MixKind == [r \in Req |-> IF r = a THEN "INSERT" ELSE "UPDATE"]
MixReplay == [r \in {a, c} |-> IF r = a THEN replayA ELSE replayC]
MixBlocks == [r \in Req |-> CASE r \in {a, replayA} -> 3 [] r = b -> 2 [] r \in {c, replayC} -> 1]
MixBlock == [r \in {a, c} |-> IF r = a THEN 3 ELSE 1]

RecKey == [r \in Req |-> "k"]
ReplayOfA == [r \in {a} |-> replayA]

(* Updates; the replay shares the block of a. *)
RecUpdKind == [r \in Req |-> "UPDATE"]
RecUpdBlocks == [r \in Req |-> CASE r \in {a, replayA} -> 3 [] r = b -> 2 [] r = c -> 4]

(* A delete crashes; its log entry is in block 3. *)
RecDelKind == [r \in Req |-> IF r = a THEN "DELETE" ELSE "UPDATE"]
RecDelBlocks == [r \in Req |-> CASE r = a -> 0 [] r = replayA -> 3 [] r = b -> 2 [] r = c -> 4]

(* An insert crashes. *)
RecInsKind == [r \in Req |-> IF r = a THEN "INSERT" ELSE "UPDATE"]

LogBlock == [r \in {a} |-> 3]

=============================================================================
