----------------------------- MODULE MCClientCR -----------------------------
(* Instances of ClientCR for TLC. *)
EXTENDS ClientCR

CONSTANTS a, b, c, d, e

KeyK == [r \in Req |-> "k"]

(* An update, an insert and a delete without memory meet on the slot of k; *)
(* a delete of another key and an update without memory return at once.    *)
MixKind == [r \in Req |-> CASE r = b -> "INSERT" [] r \in {c, d} -> "DELETE"
                            [] OTHER -> "UPDATE"]
MixKey == [r \in Req |-> IF r = d THEN "l" ELSE "k"]
MixBlock == [r \in Req |-> CASE r = a -> 3 [] r = b -> 2 [] r = e -> 4 [] OTHER -> 0]

(* Updates, or inserts of two keys. *)
UpdKind == [r \in Req |-> "UPDATE"]
UpdBlock == [r \in Req |-> CASE r = a -> 3 [] r = b -> 2 [] r = c -> 5 [] OTHER -> 4]
InsKind == [r \in Req |-> "INSERT"]
TwoKeys == [r \in Req |-> IF r = a THEN "k" ELSE "l"]

=============================================================================
