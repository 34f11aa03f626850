------------------------------ MODULE MCIndex -------------------------------
(***************************************************************************)
(* Instances of Index for TLC: two subtables of hash range 4 with one slot *)
(* per bucket.  Subtable 0 is buckets 0 to 5, subtable 1 is 4 to 9.        *)
(***************************************************************************)
EXTENDS Index

TwoKeys == {"k", "m"}

(* k has either of two places in subtable 0; m may be anywhere. *)
Places == {h \in [TwoKeys -> Hashes] : h["k"][1] = 0 /\ h["k"][2] = 1}

(* c1 moves k while c2 searches it; m competes for the slots of k. *)
MoveAndSearch ==
    [c1 |-> <<<<"INSERT", "k">>, <<"DELETE", "k">>, <<"INSERT", "k">>, <<"UPDATE", "m">>>>,
     c2 |-> <<<<"INSERT", "m">>, <<"SEARCH", "k">>, <<"DELETE", "m">>>>]

(* The DELETE of k may lose its slot to the UPDATE and report success. *)
DeleteAgainstUpdate ==
    [c1 |-> <<<<"INSERT", "k">>, <<"DELETE", "k">>, <<"INSERT", "k">>>>,
     c2 |-> <<<<"UPDATE", "k">>>>]

(* Two clients insert the same key. *)
SameKey ==
    [c1 |-> <<<<"INSERT", "k">>>>, c2 |-> <<<<"INSERT", "k">>>>]

Sometimes == {{}, {1, 2, 3, 4}}
Never == {{}}
=============================================================================
