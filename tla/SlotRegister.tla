---------------------------- MODULE SlotRegister ----------------------------
(***************************************************************************)
(* What the replicated slot of one key promises to the clients of          *)
(* kv_insert, kv_update and kv_delete: it behaves as one atomic register.  *)
(* Every request that is granted takes effect at one instant between its   *)
(* first look at the index and its return.  A request may take effect      *)
(* together with others, immediately before the last of them: only that    *)
(* last value is ever seen (the losers of a conflict).                     *)
(***************************************************************************)
EXTENDS Naturals

CONSTANTS
    Req,       \* requests
    Kind,      \* INSERT, UPDATE or DELETE
    Target,    \* the slot value each request installs, 0 for DELETE
    InitSlot   \* the slot before the first request

VARIABLES
    val,       \* the slot; 0 when the key is absent
    st,        \* what became of each request
    res        \* what it returned

regVars == <<val, st, res>>

RegInit ==
    /\ val = InitSlot
    /\ st = [r \in Req |-> "idle"]
    /\ res = [r \in Req |-> "NONE"]

(* INSERT wants a free slot, UPDATE and DELETE a present key. *)
Applicable(r, v) == IF Kind[r] = "INSERT" THEN v = 0 ELSE v # 0

Open(r) ==
    /\ st[r] = "idle" /\ Applicable(r, val)
    /\ st' = [st EXCEPT ![r] = "open"]
    /\ UNCHANGED <<val, res>>

Miss(r) ==
    /\ st[r] = "idle" /\ ~Applicable(r, val)
    /\ st' = [st EXCEPT ![r] = "missed"]
    /\ UNCHANGED <<val, res>>

(* r takes effect; the requests of W did so just before and are invisible. *)
Write(r, W) ==
    /\ st[r] = "open" /\ \A s \in W : st[s] = "open"
    /\ val' = Target[r]
    /\ st' = [s \in Req |-> IF s = r \/ s \in W THEN "applied" ELSE st[s]]
    /\ UNCHANGED res

Finish(r, from, code) ==
    /\ st[r] = from
    /\ st' = [st EXCEPT ![r] = "returned"]
    /\ res' = [res EXCEPT ![r] = code]
    /\ UNCHANGED val

RegNext ==
    \E r \in Req :
        \/ Open(r)
        \/ Miss(r)
        \/ \E W \in SUBSET (Req \ {r}) : Write(r, W)
        \/ Finish(r, "applied", "SUCCESS")
        \/ Finish(r, "missed", IF Kind[r] = "DELETE" THEN "SUCCESS" ELSE "FAIL_RETURN")
        \/ Kind[r] # "DELETE" /\ Finish(r, "idle", "FAIL_RETURN")   \* out of memory

RegSpec == RegInit /\ [][RegNext]_regVars

=============================================================================
