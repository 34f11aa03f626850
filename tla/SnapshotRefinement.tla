------------------------- MODULE SnapshotRefinement -------------------------
(***************************************************************************)
(* The asynchronous requests of one key implement the atomic register of   *)
(* SlotRegister.  The register's value is the primary; a request takes     *)
(* effect when the primary leaves the value it saw, be it by its own CAS   *)
(* or by the CAS of the winner it lost to.                                 *)
(***************************************************************************)
EXTENDS SnapshotInv

(* Requests that the register describes: asynchronous, uncached, never     *)
(* stopped, all of the key the slot is for, and no DELETE out of memory.   *)
PlainWorkload ==
    /\ SyncReq = {} /\ CacheReq = {} /\ StopReq = {}
    /\ \A r \in Req : Key[r] = InitKey
    /\ \A r \in FullReq : Kind[r] # "DELETE"

Missing(r) == IF Kind[r] = "INSERT" THEN orig[r] # 0 ELSE orig[r] = 0

Outcome(r) ==
    IF pc[r] = "start" THEN "idle"
    ELSE IF pc[r] = "done" THEN "returned"
    ELSE IF pc[r] = "match" /\ Missing(r) THEN "missed"
    ELSE IF orig[r] = pr THEN "open" ELSE "applied"

Result(r) == IF pc[r] = "done" THEN rc[r] ELSE "NONE"

stBar == [r \in Req |-> Outcome(r)]
resBar == [r \in Req |-> Result(r)]

Register == INSTANCE SlotRegister WITH val <- pr, st <- stBar, res <- resBar

(* Besides IInv the refinement needs: nobody is stopped, and a loser that  *)
(* has yet to pass modify_primary_idx already reports success.             *)
PlainInv ==
    /\ stop = {}
    /\ \A r \in Req : pc[r] \in {"commit", "pr"} /\ cons[r] = "FAIL" => rc[r] = "SUCCESS"

(* The replicated slot is an atomic register: kv_insert, kv_update and     *)
(* kv_delete each take effect at one instant of their execution, and a     *)
(* request reports success only if it did.                                 *)
ImplementsRegister == Register!RegSpec

=============================================================================
