------------------------------ MODULE ClientCR ------------------------------
(***************************************************************************)
(* The chained client (ClientCR, src/client_cr.cc) on ONE slot of the      *)
(* replicated index: kv_insert, kv_update and kv_delete, fiber and *_sync  *)
(* variants, each request executed once.                                   *)
(*                                                                         *)
(* It keeps the phases of the client of Snapshot but not its voting: a     *)
(* request CASes the backups one after the other and then the primary.  A  *)
(* CAS that finds another value is posted again with that value, so every  *)
(* request overwrites what it meets.  Replica 0 is the primary, 1 to       *)
(* NumIdxRep - 1 are the backups in the order of kv_modify_bk_0_cas_list.  *)
(***************************************************************************)
EXTENDS Integers, FiniteSets

CONSTANTS
    Req,         \* requests, one KVReqCtx each
    NumIdxRep,   \* num_idx_rep: replicas of the slot, the primary included
    Kind,        \* Kind[r]: "INSERT", "UPDATE" or "DELETE"
    Key,         \* Key[r]: the key of the request
    Target,      \* Target[r]: the slot value of its block, 0 for DELETE
    InitSlot,    \* the slot before the first request
    InitKey,     \* the key stored there when InitSlot # 0
    SyncReq,     \* requests issued through the *_sync entry points
    CacheReq,    \* requests whose client may hold a cache entry for the key
    FullReq,     \* requests for which mm_alloc finds no memory
    StopReq      \* requests whose should_stop may be raised

Replicas == 0..(NumIdxRep - 1)
Values == {0, InitSlot} \cup {Target[r] : r \in Req}

ASSUME CRConstantsOK ==
    /\ IsFiniteSet(Req) /\ NumIdxRep \in Nat \ {0} /\ InitSlot \in Nat
    /\ Kind \in [Req -> {"INSERT", "UPDATE", "DELETE"}]
    /\ Target \in [Req -> Nat]
    /\ \A r \in Req : Kind[r] = "DELETE" <=> Target[r] = 0
    /\ \A r, s \in Req : Target[r] = Target[s] => r = s \/ Target[r] = 0
    /\ \A r \in Req : Target[r] = InitSlot => Target[r] = 0
    /\ SyncReq \cup CacheReq \cup FullReq \cup StopReq \subseteq Req

VARIABLES
    slot,    \* slot[x]: the slot on replica x
    been,    \* been[x]: every value replica x has held
    valid,   \* blocks whose KVLogHeader.is_valid is set
    freed,   \* blocks handed back with mm_free_cur
    pc,      \* where each request is
    at,      \* at[r]: the replica whose CAS is next
    orig,    \* orig_value of the CAS descriptors: the slot as first found
    cmp,     \* cmp[r]: compare_add of the CAS being iterated
    first,   \* first[r]: what the return buffer of the first backup holds
    was,     \* was[r]: what the primary held when r replaced it
    old,     \* old[r]: old_value in the log entry, -1 without an entry
    misses,  \* misses[r]: CASes of r that found another value
    rc,      \* ret_val.ret_code
    stop     \* requests whose *should_stop is true

mem == <<slot, been, valid, freed>>
chain == <<at, orig, cmp, first, was, misses>>
vars == <<mem, chain, pc, old, rc, stop>>

Async(r) == r \notin SyncReq
Stopped(r) == Async(r) /\ r \in stop

Init ==
    /\ slot = [x \in Replicas |-> InitSlot]
    /\ been = [x \in Replicas |-> {InitSlot}]
    /\ valid = {InitSlot} \ {0}
    /\ freed = {}
    /\ pc = [r \in Req |-> "start"]
    /\ at = [r \in Req |-> 0]
    /\ orig = [r \in Req |-> 0]
    /\ cmp = [r \in Req |-> 0]
    /\ first = [r \in Req |-> 0]
    /\ was = [r \in Req |-> 0]
    /\ old = [r \in Req |-> -1]
    /\ misses = [r \in Req |-> 0]
    /\ rc = [r \in Req |-> "NONE"]
    /\ stop = {}

Goto(r, l) == pc' = [pc EXCEPT ![r] = l]
Return(r, c) == Goto(r, "done") /\ rc' = [rc EXCEPT ![r] = c]

-----------------------------------------------------------------------------
(* Phase 1: write the block with its log entry, read the bucket, and the   *)
(* cached block when there is a cache entry.                               *)

HoldsKey(v, k) ==
    \/ v # 0 /\ v = InitSlot /\ k = InitKey
    \/ \E r \in Req : Kind[r] # "DELETE" /\ v = Target[r] /\ k = Key[r]

FoundSlot(r) ==
    {slot[0]} \cup (IF r \in CacheReq
                    THEN {v \in been[0] \cap valid : HoldsKey(v, Key[r])} ELSE {})

WriteKV(r) ==
    /\ old' = [old EXCEPT ![r] = 0]
    /\ valid' = valid \cup ({Target[r]} \ {0})

NoSpace(r) == r \in FullReq /\ Return(r, "FAIL_RETURN") /\ UNCHANGED <<orig, old, valid>>

kv_insert_read_buckets_and_write_kv(r) ==
    /\ pc[r] = "start" /\ Kind[r] = "INSERT"
    /\ \/ NoSpace(r)
       \/ /\ r \notin FullReq /\ WriteKV(r)
          /\ orig' = [orig EXCEPT ![r] = slot[0]]
          /\ Goto(r, "match") /\ UNCHANGED rc
    /\ UNCHANGED <<slot, been, freed, at, cmp, first, was, misses, stop>>

kv_update_read_buckets_and_write_kv(r) ==
    /\ pc[r] = "start" /\ Kind[r] = "UPDATE"
    /\ \/ NoSpace(r)
       \/ /\ r \notin FullReq /\ WriteKV(r)
          /\ \E v \in FoundSlot(r) : orig' = [orig EXCEPT ![r] = v]
          /\ Goto(r, "match") /\ UNCHANGED rc
    /\ UNCHANGED <<slot, been, freed, at, cmp, first, was, misses, stop>>

(* Out of memory, DELETE still goes on, with what an earlier request left  *)
(* in the bucket buffer: kv_delete_read_kv clears is_finished.             *)
kv_delete_read_buckets_write_log(r) ==
    /\ pc[r] = "start" /\ Kind[r] = "DELETE"
    /\ \/ /\ r \in FullReq
          /\ \E v \in been[0] \cup {0} : orig' = [orig EXCEPT ![r] = v]
          /\ UNCHANGED <<old, valid>>
       \/ /\ r \notin FullReq /\ WriteKV(r)
          /\ \E v \in FoundSlot(r) : orig' = [orig EXCEPT ![r] = v]
    /\ Goto(r, "match")
    /\ UNCHANGED <<slot, been, freed, at, cmp, first, was, misses, rc, stop>>

-----------------------------------------------------------------------------
(* Phase 2: find the slot and start the chain of CASes. *)

(* Seeded fault: the chain starts at the second backup. *)
Mut_StartChain(r) ==
    /\ at' = [at EXCEPT ![r] = 2]
    /\ cmp' = [cmp EXCEPT ![r] = orig[r]]
    /\ Goto(r, IF NumIdxRep <= 2 THEN "pr" ELSE "bk")

StartChain(r) ==
    /\ at' = [at EXCEPT ![r] = 1]
    /\ cmp' = [cmp EXCEPT ![r] = orig[r]]
    /\ Goto(r, IF NumIdxRep = 1 THEN "pr" ELSE "bk")

kv_insert_backup_consensus_0(r) ==
    /\ pc[r] = "match" /\ Kind[r] = "INSERT"
    /\ \/ /\ orig[r] # 0
          /\ Return(r, "FAIL_RETURN")
          /\ freed' = freed \cup {Target[r]} /\ UNCHANGED <<at, cmp>>
       \/ orig[r] = 0 /\ StartChain(r) /\ UNCHANGED <<rc, freed>>
    /\ UNCHANGED <<slot, been, valid, orig, first, was, misses, old, stop>>

kv_update_backup_consensus_0(r) ==
    /\ pc[r] = "match" /\ Kind[r] = "UPDATE"
    /\ \/ Stopped(r) /\ Return(r, "NONE") /\ UNCHANGED <<at, cmp>>
       \/ /\ ~Stopped(r) /\ ~HoldsKey(orig[r], Key[r])
          /\ Return(r, "FAIL_RETURN") /\ UNCHANGED <<at, cmp>>
       \/ /\ ~Stopped(r) /\ HoldsKey(orig[r], Key[r])
          /\ StartChain(r) /\ UNCHANGED rc
    /\ UNCHANGED <<mem, orig, first, was, misses, old, stop>>

kv_delete_backup_consensus_0(r) ==
    /\ pc[r] = "match" /\ Kind[r] = "DELETE"
    /\ \/ ~HoldsKey(orig[r], Key[r]) /\ Return(r, "SUCCESS") /\ UNCHANGED <<at, cmp>>
       \/ HoldsKey(orig[r], Key[r]) /\ StartChain(r) /\ UNCHANGED rc
    /\ UNCHANGED <<mem, orig, first, was, misses, old, stop>>

-----------------------------------------------------------------------------
(* Phase 3: the iterated CAS. *)

(* One RDMA CAS of r reaches replica x. *)
Cas(r, x) ==
    /\ slot' = IF slot[x] = cmp[r] THEN [slot EXCEPT ![x] = Target[r]] ELSE slot
    /\ been' = [been EXCEPT ![x] = @ \cup {slot'[x]}]
    /\ misses' = IF slot[x] = cmp[r] THEN misses ELSE [misses EXCEPT ![r] = @ + 1]
    /\ first' = IF x = 1 THEN [first EXCEPT ![r] = slot[1]] ELSE first

(* The word the loop looks at after the CAS on replica x.  The fiber       *)
(* variant always looks at the buffer of sr_lists[0].                      *)
SwapBack(r, x) == IF Async(r) /\ x > 1 THEN first[r] ELSE slot[x]

(* Seeded fault: the CAS is posted again with the same compare value. *)
Mut_Retry(r, v) == UNCHANGED cmp

Retry(r, v) == cmp' = [cmp EXCEPT ![r] = v]

(* Seeded fault: the last list is left out. *)
Mut_SkipLast(x) == x >= NumIdxRep - 2

LastBackup(x) == x = NumIdxRep - 1

(* Seeded fault: the loop ends only when the CAS found the first value. *)
Mut_CasDone(r, seen) == seen = orig[r]

CasDone(r, seen) == seen = cmp[r]

(* iteratively_cas_sync and iteratively_cas_async on the backups. *)
iteratively_cas(r) ==
    /\ pc[r] = "bk"
    /\ LET x == at[r]
           seen == SwapBack(r, x)
       IN /\ Cas(r, x)
          /\ \/ /\ ~CasDone(r, seen)
                /\ Retry(r, seen)
                /\ UNCHANGED <<at, pc>>
             \/ /\ CasDone(r, seen)
                /\ cmp' = [cmp EXCEPT ![r] = orig[r]]
                /\ at' = [at EXCEPT ![r] = @ + 1]
                /\ IF LastBackup(x) THEN Goto(r, "commit") ELSE UNCHANGED pc
    /\ UNCHANGED <<valid, freed, orig, was, old, rc, stop>>

(* Seeded fault: a raised should_stop is ignored between commit and CAS,   *)
(* and the commit is skipped instead.                                      *)
Mut_kv_log_commit(r) ==
    /\ pc[r] = "commit"
    /\ Goto(r, "pr")
    /\ UNCHANGED <<mem, chain, old, rc, stop>>

(* The commit writes the old slot value into the log entry.  A stopped     *)
(* *_sync INSERT or fiber UPDATE returns; a stopped fiber DELETE skips the *)
(* commit and still goes to the primary.                                   *)
kv_log_commit(r) ==
    /\ pc[r] = "commit"
    /\ LET stops == \/ Kind[r] = "INSERT" /\ ~Async(r) /\ r \in stop
                    \/ Kind[r] # "INSERT" /\ Stopped(r)
       IN \/ /\ stops /\ Kind[r] # "DELETE" /\ Return(r, "NONE")
             /\ UNCHANGED old
          \/ /\ stops /\ Kind[r] = "DELETE" /\ Goto(r, "pr")
             /\ UNCHANGED <<old, rc>>
          \/ /\ ~stops /\ Goto(r, "pr")
             /\ old' = IF old[r] = -1 THEN old ELSE [old EXCEPT ![r] = orig[r]]
             /\ UNCHANGED rc
    /\ UNCHANGED <<mem, chain, stop>>

(* kv_*_cas_primary: only the fiber UPDATE looks at should_stop again. *)
cas_primary(r) ==
    /\ pc[r] = "pr"
    /\ \/ Kind[r] = "UPDATE" /\ Stopped(r) /\ Return(r, "NONE")
       \/ ~(Kind[r] = "UPDATE" /\ Stopped(r)) /\ Goto(r, "cas") /\ UNCHANGED rc
    /\ UNCHANGED <<mem, chain, old, stop>>

(* modify_primary_idx, first part: iterate the CAS of the primary. *)
cas_primary_slot(r) ==
    /\ pc[r] = "cas"
    /\ Cas(r, 0)
    /\ \/ /\ ~CasDone(r, slot[0])
          /\ Retry(r, slot[0])
          /\ UNCHANGED <<pc, was>>
       \/ /\ CasDone(r, slot[0])
          /\ was' = [was EXCEPT ![r] = slot[0]]
          /\ Goto(r, "inv")
          /\ UNCHANGED cmp
    /\ UNCHANGED <<valid, freed, at, orig, old, rc, stop>>

(* Second part: clear is_valid of the block first found and return.  An    *)
(* INSERT that replaced something else than it had found reports failure   *)
(* and frees its block, although the slot now holds it.                    *)
modify_primary_idx(r) ==
    LET contested == was[r] # orig[r]
    IN /\ pc[r] = "inv"
       /\ valid' = IF Kind[r] = "INSERT" THEN valid ELSE valid \ {orig[r]}
       /\ freed' = IF contested /\ \/ Kind[r] = "INSERT"
                                   \/ Kind[r] = "UPDATE" /\ NumIdxRep = 1
                   THEN freed \cup {Target[r]} ELSE freed
       /\ Return(r, IF contested /\ Kind[r] = "INSERT" THEN "FAIL_REDO" ELSE "SUCCESS")
       /\ UNCHANGED <<slot, been, chain, old, stop>>

-----------------------------------------------------------------------------
(* Specification *)

Stop(r) ==
    /\ r \in StopReq \ stop /\ pc[r] # "done"
    /\ stop' = stop \cup {r}
    /\ UNCHANGED <<mem, chain, pc, old, rc>>

Step(r) ==
    \/ kv_insert_read_buckets_and_write_kv(r)
    \/ kv_update_read_buckets_and_write_kv(r)
    \/ kv_delete_read_buckets_write_log(r)
    \/ kv_insert_backup_consensus_0(r)
    \/ kv_update_backup_consensus_0(r)
    \/ kv_delete_backup_consensus_0(r)
    \/ iteratively_cas(r)
    \/ kv_log_commit(r)
    \/ cas_primary(r)
    \/ cas_primary_slot(r)
    \/ modify_primary_idx(r)

AllDone == \A r \in Req : pc[r] = "done"
Finished == AllDone /\ UNCHANGED vars

Next == \/ \E r \in Req : Step(r) \/ Stop(r)
        \/ Finished

Spec == Init /\ [][Next]_vars

(* Every client keeps running and its work requests complete. *)
FairSpec == Spec /\ \A r \in Req : WF_vars(Step(r))

-----------------------------------------------------------------------------
(* Properties *)

PCs == {"start", "match", "bk", "commit", "pr", "cas", "inv", "done"}

(* Type invariant. *)
CRTypeOK ==
    /\ slot \in [Replicas -> Values] /\ been \in [Replicas -> SUBSET Values]
    /\ valid \subseteq Values /\ freed \subseteq Values
    /\ pc \in [Req -> PCs]
    /\ at \in [Req -> 0..NumIdxRep]
    /\ orig \in [Req -> Values] /\ cmp \in [Req -> Values]
    /\ first \in [Req -> Values] /\ was \in [Req -> Values]
    /\ old \in [Req -> Values \cup {-1}]
    /\ misses \in [Req -> Nat]
    /\ rc \in [Req -> {"NONE", "SUCCESS", "FAIL_RETURN", "FAIL_REDO"}]
    /\ stop \subseteq Req

(* Backup x is one that r waits for in earnest: any in the *_sync variant, *)
(* the first in the fiber variant.                                         *)
Promised(r, x) == x \in Replicas \ {0} /\ (Async(r) => x = 1)

(* What makes the two order properties below inductive: the chain has left *)
(* its value on the backups it has passed, and the commit precedes the     *)
(* primary.                                                                *)
CRInv ==
    /\ CRTypeOK
    /\ \A r \in Req : pc[r] = "bk" => at[r] \in Replicas \ {0}
    /\ \A r \in Req, x \in Replicas :
          /\ Promised(r, x)
          /\ pc[r] \in {"commit", "pr", "cas", "inv"} \/ (pc[r] = "bk" /\ x < at[r])
          => Target[r] \in been[x]
    /\ \A r \in Req :
          /\ pc[r] \in {"pr", "cas"} /\ Kind[r] # "INSERT"
          /\ NumIdxRep > 1 /\ old[r] # -1
          => old[r] = orig[r] \/ r \in stop

(* Chain order of iteratively_cas_sync before modify_primary_idx_sync: a   *)
(* value reaches the primary only after it has been on every backup.  The  *)
(* fiber variant promises this for the first backup only.                  *)
ChainOrder ==
    [][\A r \in Req : pc[r] = "cas" /\ pc'[r] = "inv" =>
          \A x \in Replicas : Promised(r, x) => Target[r] \in been[x]]_vars

(* The log entry an UPDATE or DELETE would be recovered from is committed  *)
(* before the primary changes, unless a DELETE was stopped.                *)
CRCommittedBeforePrimary ==
    [][\A r \in Req :
          /\ pc[r] = "cas" /\ pc'[r] = "inv"
          /\ Kind[r] # "INSERT" /\ NumIdxRep > 1 /\ old[r] # -1
          => old[r] = orig[r] \/ r \in stop]_vars

(* The retry loop is bounded: every CAS that finds another value was       *)
(* overtaken by a swap of another request, and there is about one of those *)
(* per request and replica (a fiber may swap a later backup twice, because *)
(* it looks at the wrong buffer).                                          *)
BoundedRetries ==
    \A r \in Req : misses[r] <= NumIdxRep * Cardinality(Req \ {r})

(* When all requests have returned the replicas of the slot agree, unless  *)
(* somebody met a foreign value in a CAS or was stopped half-way.          *)
DivergenceIsSeen ==
    AllDone /\ stop = {} /\ (\A r \in Req : misses[r] = 0)
        => \A x \in Replicas : slot[x] = slot[0]

(* Request r has replaced the slot on backup x and not yet on the primary. *)
Ahead(r, x) ==
    /\ x \in Replicas \ {0}
    /\ pc[r] \in {"commit", "pr", "cas"} \/ (pc[r] = "bk" /\ x < at[r])
Active(r) == Ahead(r, 1)

(* What a request knows before it has written the primary: the value it    *)
(* found was there, the one it installs was not.                           *)
Fresh(r) ==
    /\ Target[r] # 0 /\ pc[r] \notin {"inv", "done"} => Target[r] \notin been[0]
    /\ pc[r] \notin {"start", "done"} => orig[r] \in been[0] \cup {0}
    /\ pc[r] \in {"bk", "commit", "pr", "cas"} => (orig[r] = 0 <=> Kind[r] = "INSERT")

(* Every CAS so far has hit. *)
NoMiss == stop = {} /\ \A r \in Req : misses[r] = 0

(* While every CAS hits, requests on their way follow each other down the  *)
(* chain, and at most two are on their way: a DELETE and, behind it, an    *)
(* INSERT that had found the slot empty before.                            *)
InStep(r) ==
    /\ pc[r] \in {"bk", "commit", "pr", "cas"} => cmp[r] = orig[r]
    /\ pc[r] = "bk" /\ at[r] > 1 => first[r] = orig[r]
    /\ Active(r) /\ orig[r] # 0 => slot[0] = orig[r]
Paired(r, s) ==
    Active(r) /\ Active(s) /\ r # s =>
        /\ Target[r] = 0 <=> Target[s] # 0
        /\ Target[s] = 0 => orig[r] = 0 /\ \A x \in Replicas : Ahead(r, x) => Ahead(s, x)
Follows(x) ==
    \/ \E r \in Req : Ahead(r, x) /\ Target[r] # 0 /\ slot[x] = Target[r]
    \/ /\ \A r \in Req : Ahead(r, x) => Target[r] = 0
       /\ slot[x] = IF \E r \in Req : Ahead(r, x) THEN 0 ELSE slot[0]
Pipeline ==
    /\ \A r \in Req : InStep(r)
    /\ \A r, s \in Req : Paired(r, s)
    /\ \A x \in Replicas : Follows(x)

(* The inductive invariant behind DivergenceIsSeen. *)
PipelineInv ==
    /\ CRInv
    /\ slot[0] \in been[0] /\ \A r \in Req : Fresh(r)
    /\ NoMiss => Pipeline

(* Every request returns, however often its CASes are overtaken. *)
EveryCRReturns == <>AllDone

(* What the next three say fails under contention (see the README).        *)
(* The replicas agree once every request has returned. *)
ReplicasAgree == AllDone => \A x \in Replicas : slot[x] = slot[0]

(* No replica of the slot points to a block that went back to the free     *)
(* list with mm_free_cur.                                                  *)
NoDanglingSlot == \A x \in Replicas : slot[x] \notin freed

(* Once every request has returned, a block that left the primary has lost *)
(* its is_valid bit, so that no cache entry is served from it.             *)
OverwrittenInvalid == AllDone => (been[0] \ {slot[0]}) \cap valid = {}

=============================================================================
