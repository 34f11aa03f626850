--------------------------- MODULE ClientCRProofs ---------------------------
(***************************************************************************)
(* For any set of requests and any number of replicas, the chained client  *)
(* keeps the order backups, commit, primary.                               *)
(***************************************************************************)
EXTENDS ClientCR, TLAPS

LEMMA InitCRInv ==
    Init => CRInv
<1> SUFFICES ASSUME Init PROVE CRInv
    OBVIOUS
<1>1. CRTypeOK
    BY CRConstantsOK DEF Init, CRTypeOK, Values, Replicas, PCs
<1> QED BY <1>1, Zenon DEF Init, CRInv

(* The phases before the chain write no slot. *)
LEMMA StartKeepsCRInv ==
    ASSUME CRInv, NEW r \in Req,
           \/ kv_insert_read_buckets_and_write_kv(r)
           \/ kv_update_read_buckets_and_write_kv(r)
           \/ kv_delete_read_buckets_write_log(r)
    PROVE  CRInv'
<1>1. /\ CRTypeOK /\ 0 \in Replicas
      /\ slot[0] \in Values /\ Target[r] \in Values /\ 0 \in Values
    BY CRConstantsOK DEF CRInv, CRTypeOK, Values, Replicas
<1>2. FoundSlot(r) \subseteq Values /\ been[0] \subseteq Values
    BY <1>1, Zenon DEF FoundSlot, CRTypeOK
<1>3. CRTypeOK'
    BY <1>1, <1>2 DEF CRTypeOK, kv_insert_read_buckets_and_write_kv,
       kv_update_read_buckets_and_write_kv, kv_delete_read_buckets_write_log,
       NoSpace, WriteKV, Return, Goto, PCs
<1> QED BY <1>1, <1>3 DEF CRInv, CRTypeOK, kv_insert_read_buckets_and_write_kv,
       kv_update_read_buckets_and_write_kv, kv_delete_read_buckets_write_log,
       NoSpace, WriteKV, Return, Goto, Promised, Async, PCs

LEMMA MatchKeepsCRInv ==
    ASSUME CRInv, NEW r \in Req,
           \/ kv_insert_backup_consensus_0(r)
           \/ kv_update_backup_consensus_0(r)
           \/ kv_delete_backup_consensus_0(r)
    PROVE  CRInv'
<1>1. CRTypeOK /\ Target[r] \in Values /\ NumIdxRep \in Nat \ {0}
    BY CRConstantsOK, Zenon DEF CRInv, Values
<1>2. CRTypeOK'
    BY <1>1 DEF CRTypeOK, kv_insert_backup_consensus_0, kv_update_backup_consensus_0,
       kv_delete_backup_consensus_0, StartChain, Return, Goto, mem, PCs
<1>3. UNCHANGED <<been, old, orig, stop>> /\ \A s \in Req \ {r} : UNCHANGED <<pc[s], at[s]>>
    BY <1>1, Zenon DEF CRTypeOK, kv_insert_backup_consensus_0, kv_update_backup_consensus_0,
       kv_delete_backup_consensus_0, StartChain, Return, Goto, mem
<1>4. \/ pc'[r] = "done"
      \/ pc'[r] = "bk" /\ at'[r] = 1 /\ NumIdxRep > 1
      \/ pc'[r] = "pr" /\ NumIdxRep = 1
    BY <1>1 DEF CRTypeOK, kv_insert_backup_consensus_0, kv_update_backup_consensus_0,
       kv_delete_backup_consensus_0, StartChain, Return, Goto
<1>5. \A s \in Req : pc'[s] = "bk" => at'[s] \in Replicas \ {0}
    BY <1>1, <1>3, <1>4 DEF CRInv, Replicas
<1>6. ASSUME NEW s \in Req, NEW x \in Replicas, Promised(s, x),
             \/ pc'[s] \in {"commit", "pr", "cas", "inv"}
             \/ pc'[s] = "bk" /\ x < at'[s]
      PROVE  Target[s] \in been'[x]
  <2>1. CASE s = r
    BY <2>1, <1>1, <1>4, <1>6 DEF Promised, Replicas
  <2>2. CASE s # r
    BY <2>2, <1>3, <1>6, Zenon DEF CRInv
  <2> QED BY <2>1, <2>2
<1>7. \A s \in Req : /\ pc'[s] \in {"pr", "cas"} /\ Kind[s] # "INSERT"
                     /\ NumIdxRep > 1 /\ old'[s] # -1
                     => old'[s] = orig'[s] \/ s \in stop'
    BY <1>1, <1>3, <1>4 DEF CRInv
<1> QED BY <1>2, <1>5, <1>6, <1>7, Zenon DEF CRInv, Promised

(* A CAS on a backup that was waited for ends the loop only when it hit. *)
LEMMA ChainKeepsCRInv ==
    ASSUME CRInv, NEW r \in Req, iteratively_cas(r)
    PROVE  CRInv'
<1> DEFINE x == at[r]
<1>1. /\ CRTypeOK /\ x \in Replicas \ {0} /\ x \in Nat /\ pc[r] = "bk"
      /\ Target[r] \in Values /\ NumIdxRep \in Nat \ {0}
    BY CRConstantsOK DEF CRInv, iteratively_cas, Values, Replicas
<1>2. /\ slot' \in [Replicas -> Values] /\ been' \in [Replicas -> SUBSET Values]
      /\ misses' \in [Req -> Nat] /\ first' \in [Req -> Values]
    <2>1. slot' \in [Replicas -> Values] /\ slot[x] \in Values
        BY <1>1, Zenon DEF iteratively_cas, Cas, CRTypeOK
    <2>2. slot'[x] \in Values
        BY <2>1, <1>1, Zenon
    <2>3. been' \in [Replicas -> SUBSET Values]
        BY <2>2, <1>1 DEF iteratively_cas, Cas, CRTypeOK
    <2>4. misses' \in [Req -> Nat] /\ first' \in [Req -> Values]
        BY <1>1, <2>1 DEF iteratively_cas, Cas, CRTypeOK
    <2> QED BY <2>1, <2>3, <2>4, Zenon
<1>3. SwapBack(r, x) \in Values
    BY <1>1, Zenon DEF SwapBack, CRTypeOK
<1>4. /\ cmp' \in [Req -> Values] /\ at' \in [Req -> 0..NumIdxRep] /\ pc' \in [Req -> PCs]
  <2>1. cmp' \in [Req -> Values]
    BY <1>1, <1>3 DEF iteratively_cas, Retry, CRTypeOK
  <2>2. x \in 0..NumIdxRep /\ x + 1 \in 0..NumIdxRep
    BY <1>1 DEF Replicas
  <2>3. at' = at \/ at' = [at EXCEPT ![r] = x + 1]
    BY <1>1, Zenon DEF iteratively_cas, CRTypeOK
  <2>4. at' \in [Req -> 0..NumIdxRep]
    BY <1>1, <2>2, <2>3 DEF CRTypeOK
  <2>5. pc' \in [Req -> PCs]
    BY <1>1 DEF iteratively_cas, Goto, CRTypeOK, PCs
  <2> QED BY <2>1, <2>4, <2>5
<1>5. CRTypeOK'
    BY <1>1, <1>2, <1>4, Zenon DEF iteratively_cas, CRTypeOK
<1>6. /\ UNCHANGED <<old, orig, stop>> /\ \A s \in Req \ {r} : UNCHANGED <<pc[s], at[s]>>
      /\ \A y \in Replicas : been[y] \subseteq been'[y]
    BY <1>1 DEF iteratively_cas, Cas, Goto, CRTypeOK
<1>7. \/ pc'[r] = "bk" /\ at'[r] = x
      \/ /\ CasDone(r, SwapBack(r, x)) /\ at'[r] = x + 1
         /\ pc'[r] = (IF x = NumIdxRep - 1 THEN "commit" ELSE "bk")
    BY <1>1 DEF iteratively_cas, Goto, LastBackup, CRTypeOK
<1>8. CasDone(r, SwapBack(r, x)) /\ Promised(r, x) => Target[r] \in been'[x]
    BY <1>1 DEF CasDone, SwapBack, Promised, iteratively_cas, Cas, CRTypeOK
<1>9. \A s \in Req : pc'[s] = "bk" => at'[s] \in Replicas \ {0}
    BY <1>1, <1>6, <1>7 DEF CRInv, Replicas
<1>10. ASSUME NEW s \in Req, NEW y \in Replicas, Promised(s, y),
              \/ pc'[s] \in {"commit", "pr", "cas", "inv"}
              \/ pc'[s] = "bk" /\ y < at'[s]
       PROVE  Target[s] \in been'[y]
  <2>1. CASE s # r
    BY <2>1, <1>6, <1>10, Zenon DEF CRInv
  <2>2. CASE s = r /\ y < x
    BY <2>2, <1>1, <1>6, <1>10, Zenon DEF CRInv
  <2>3. CASE s = r /\ y = x
    BY <2>3, <1>1, <1>7, <1>8, <1>10
  <2>4. CASE s = r /\ y > x
    BY <2>4, <1>1, <1>7, <1>10 DEF Replicas
  <2> QED BY <2>1, <2>2, <2>3, <2>4, <1>1 DEF Replicas
<1>11. \A s \in Req : /\ pc'[s] \in {"pr", "cas"} /\ Kind[s] # "INSERT"
                      /\ NumIdxRep > 1 /\ old'[s] # -1
                      => old'[s] = orig'[s] \/ s \in stop'
    BY <1>1, <1>6, <1>7, Zenon DEF CRInv
<1> QED BY <1>5, <1>9, <1>10, <1>11, Zenon DEF CRInv, Promised

(* The commit and the check before the primary. *)
LEMMA CommitKeepsCRInv ==
    ASSUME CRInv, NEW r \in Req, kv_log_commit(r) \/ cas_primary(r)
    PROVE  CRInv'
<1>1. CRTypeOK' /\ CRTypeOK
    BY DEF CRInv, CRTypeOK, kv_log_commit, cas_primary, Return, Goto, mem, chain, PCs
<1>2. UNCHANGED <<at, been, orig, stop>>
    BY Zenon DEF kv_log_commit, cas_primary, mem, chain
<1>3. /\ \A s \in Req \ {r} : UNCHANGED <<pc[s], old[s]>>
      /\ pc[r] \in {"commit", "pr"} /\ pc'[r] \in {"pr", "cas", "done"}
    BY <1>1 DEF kv_log_commit, cas_primary, Return, Goto, CRTypeOK
<1>4. /\ pc'[r] \in {"pr", "cas"} /\ Kind[r] # "INSERT"
      /\ NumIdxRep > 1 /\ old'[r] # -1
      => old'[r] = orig'[r] \/ r \in stop'
  <2>1. CASE kv_log_commit(r)
    BY <2>1, <1>1 DEF kv_log_commit, Stopped, CRTypeOK, chain
  <2>2. CASE cas_primary(r)
    BY <2>2, <1>1, Zenon DEF cas_primary, CRInv, chain
  <2> QED BY <2>1, <2>2, Zenon
<1>5. \A s \in Req : pc'[s] = "bk" => at'[s] \in Replicas \ {0}
    BY <1>2, <1>3, Zenon DEF CRInv
<1>6. \A s \in Req, x \in Replicas :
         /\ Promised(s, x)
         /\ pc'[s] \in {"commit", "pr", "cas", "inv"} \/ (pc'[s] = "bk" /\ x < at'[s])
         => Target[s] \in been'[x]
    BY <1>2, <1>3 DEF CRInv
<1>7. \A s \in Req : /\ pc'[s] \in {"pr", "cas"} /\ Kind[s] # "INSERT"
                     /\ NumIdxRep > 1 /\ old'[s] # -1
                     => old'[s] = orig'[s] \/ s \in stop'
    BY <1>2, <1>3, <1>4 DEF CRInv
<1> QED BY <1>1, <1>5, <1>6, <1>7, Zenon DEF CRInv, Promised

(* The primary. *)
LEMMA PrimaryKeepsCRInv ==
    ASSUME CRInv, NEW r \in Req, cas_primary_slot(r) \/ modify_primary_idx(r)
    PROVE  CRInv'
<1>1. /\ CRTypeOK /\ NumIdxRep \in Nat \ {0} /\ 0 \in Replicas
      /\ Target[r] \in Values /\ slot[0] \in Values
    BY CRConstantsOK DEF CRInv, CRTypeOK, Values, Replicas
<1>2. CRTypeOK'
  <2>1. CASE cas_primary_slot(r)
    <3>1. slot' \in [Replicas -> Values]
        BY <2>1, <1>1, Zenon DEF cas_primary_slot, Cas, CRTypeOK
    <3>2. slot'[0] \in Values
        BY <3>1, <1>1, Zenon
    <3>3. been' \in [Replicas -> SUBSET Values]
        BY <2>1, <3>2, <1>1 DEF cas_primary_slot, Cas, CRTypeOK
    <3>4. /\ misses' \in [Req -> Nat] /\ first' \in [Req -> Values]
          /\ cmp' \in [Req -> Values] /\ was' \in [Req -> Values] /\ pc' \in [Req -> PCs]
        BY <2>1, <1>1 DEF cas_primary_slot, Cas, Retry, Goto, CRTypeOK, PCs
    <3> QED BY <2>1, <1>1, <3>1, <3>3, <3>4, Zenon DEF cas_primary_slot, CRTypeOK
  <2>2. CASE modify_primary_idx(r)
    BY <2>2, <1>1, Zenon DEF modify_primary_idx, Return, Goto, CRTypeOK, chain, PCs
  <2> QED BY <2>1, <2>2
<1>3. /\ UNCHANGED <<at, old, orig, stop>>
      /\ \A s \in Req \ {r} : UNCHANGED pc[s]
      /\ \A y \in Replicas : been[y] \subseteq been'[y]
    BY <1>1 DEF cas_primary_slot, modify_primary_idx, Cas, Return, Goto, CRTypeOK, chain
<1>4. /\ pc[r] \in {"cas", "inv"} /\ pc'[r] \in {"cas", "inv", "done"}
      /\ pc'[r] = "cas" => pc[r] = "cas"
    BY <1>1, Zenon DEF cas_primary_slot, modify_primary_idx, Return, Goto, CRTypeOK
<1>5. \A s \in Req : pc'[s] = "bk" => at'[s] \in Replicas \ {0}
    BY <1>3, <1>4, Zenon DEF CRInv
<1>6. \A s \in Req, x \in Replicas :
         /\ Promised(s, x)
         /\ pc'[s] \in {"commit", "pr", "cas", "inv"} \/ (pc'[s] = "bk" /\ x < at'[s])
         => Target[s] \in been'[x]
    BY <1>3, <1>4 DEF CRInv
<1>7. \A s \in Req : /\ pc'[s] \in {"pr", "cas"} /\ Kind[s] # "INSERT"
                     /\ NumIdxRep > 1 /\ old'[s] # -1
                     => old'[s] = orig'[s] \/ s \in stop'
    BY <1>3, <1>4, Zenon DEF CRInv
<1> QED BY <1>2, <1>5, <1>6, <1>7, Zenon DEF CRInv, Promised

LEMMA OthersKeepCRInv ==
    ASSUME CRInv, (\E r \in Req : Stop(r)) \/ UNCHANGED vars
    PROVE  CRInv'
<1>1. CASE UNCHANGED vars
    BY <1>1, Zenon DEF CRInv, CRTypeOK, Promised, vars, mem, chain
<1>2. CASE \E r \in Req : Stop(r)
    BY <1>2, CRConstantsOK DEF Stop, CRInv, CRTypeOK, Promised, mem, chain
<1> QED BY <1>1, <1>2

(* CRInv is an inductive invariant of ClientCR. *)
THEOREM CRInvariant ==
    Spec => []CRInv
<1>1. CRInv /\ [Next]_vars => CRInv'
    BY StartKeepsCRInv, MatchKeepsCRInv, ChainKeepsCRInv, CommitKeepsCRInv,
       PrimaryKeepsCRInv, OthersKeepCRInv, Zenon DEF Next, Step, Finished
<1> QED BY InitCRInv, <1>1, PTL DEF Spec

(* The value of a request reaches the primary only after it has been on    *)
(* every backup its variant of iteratively_cas waits for.                  *)
THEOREM ChainOrderHolds ==
    Spec => ChainOrder
<1>1. CRInv /\ [Next]_vars =>
        [\A r \in Req : pc[r] = "cas" /\ pc'[r] = "inv" =>
            \A x \in Replicas : Promised(r, x) => Target[r] \in been[x]]_vars
    BY Zenon DEF CRInv
<1> QED BY CRInvariant, <1>1, PTL DEF Spec, ChainOrder

(* kv_*_log_commit precedes the CAS of the primary. *)
THEOREM CommitOrderHolds ==
    Spec => CRCommittedBeforePrimary
<1>1. CRInv /\ [Next]_vars =>
        [\A r \in Req :
            /\ pc[r] = "cas" /\ pc'[r] = "inv"
            /\ Kind[r] # "INSERT" /\ NumIdxRep > 1 /\ old[r] # -1
            => old[r] = orig[r] \/ r \in stop]_vars
    BY Zenon DEF CRInv
<1> QED BY CRInvariant, <1>1, PTL DEF Spec, CRCommittedBeforePrimary

-----------------------------------------------------------------------------
(* Divergence is seen: while every CAS hits, the slots are determined by   *)
(* the requests on their way (PipelineInv).                                *)

LEMMA HeldIsNotEmpty ==
    ASSUME NEW v, NEW k, HoldsKey(v, k)
    PROVE  v # 0
BY CRConstantsOK, Zenon DEF HoldsKey

(* What a step of r leaves alone. *)
LEMMA OneRequestMoves ==
    ASSUME CRTypeOK, NEW r \in Req, Step(r)
    PROVE  /\ stop' = stop
           /\ \A s \in Req \ {r} : /\ pc'[s] = pc[s] /\ at'[s] = at[s] /\ orig'[s] = orig[s]
                                   /\ cmp'[s] = cmp[s] /\ first'[s] = first[s]
                                   /\ misses'[s] = misses[s]
<1>1. CASE \/ kv_insert_read_buckets_and_write_kv(r)
           \/ kv_update_read_buckets_and_write_kv(r)
           \/ kv_delete_read_buckets_write_log(r)
    BY <1>1 DEF CRTypeOK, kv_insert_read_buckets_and_write_kv,
       kv_update_read_buckets_and_write_kv, kv_delete_read_buckets_write_log,
       NoSpace, WriteKV, Return, Goto
<1>2. CASE \/ kv_insert_backup_consensus_0(r)
           \/ kv_update_backup_consensus_0(r)
           \/ kv_delete_backup_consensus_0(r)
    BY <1>2 DEF CRTypeOK, kv_insert_backup_consensus_0, kv_update_backup_consensus_0,
       kv_delete_backup_consensus_0, StartChain, Return, Goto
<1>3. CASE iteratively_cas(r)
    BY <1>3 DEF CRTypeOK, iteratively_cas, Cas, Retry, Goto
<1>4. CASE kv_log_commit(r) \/ cas_primary(r) \/ modify_primary_idx(r)
    BY <1>4, Zenon DEF CRTypeOK, kv_log_commit, cas_primary, modify_primary_idx, Return, Goto, chain
<1>5. CASE cas_primary_slot(r)
    BY <1>5 DEF CRTypeOK, cas_primary_slot, Cas, Retry, Goto
<1> QED BY <1>1, <1>2, <1>3, <1>4, <1>5, Zenon DEF Step

(* A value is on the primary only once its request has put it there. *)
LEMMA FreshStays ==
    ASSUME CRInv, slot[0] \in been[0], \A s \in Req : Fresh(s), NEW r \in Req, Step(r)
    PROVE  slot'[0] \in been'[0] /\ \A s \in Req : Fresh(s)'
<1>1. CRTypeOK /\ 0 \in Replicas /\ NumIdxRep \in Nat \ {0}
    BY CRConstantsOK DEF CRInv, Replicas
<1>2. \A s \in Req \ {r} : pc'[s] = pc[s] /\ orig'[s] = orig[s]
    BY <1>1, OneRequestMoves
<1>3. CASE \/ kv_insert_read_buckets_and_write_kv(r)
           \/ kv_update_read_buckets_and_write_kv(r)
           \/ kv_delete_read_buckets_write_log(r)
  <2>1. /\ slot' = slot /\ been' = been /\ pc[r] = "start"
        /\ pc'[r] = "done" \/ (pc'[r] = "match" /\ orig'[r] \in been[0] \cup {0})
    BY <1>1, <1>3 DEF CRTypeOK, kv_insert_read_buckets_and_write_kv,
       kv_update_read_buckets_and_write_kv, kv_delete_read_buckets_write_log,
       NoSpace, WriteKV, FoundSlot, Return, Goto
  <2> QED BY <1>2, <2>1 DEF Fresh
<1>4. CASE \/ kv_insert_backup_consensus_0(r)
           \/ kv_update_backup_consensus_0(r)
           \/ kv_delete_backup_consensus_0(r)
  <2>1. /\ slot' = slot /\ been' = been /\ orig' = orig /\ pc[r] = "match"
        /\ \/ pc'[r] = "done"
           \/ pc'[r] \in {"bk", "pr"} /\ (orig[r] = 0 <=> Kind[r] = "INSERT")
    BY <1>1, <1>4, HeldIsNotEmpty, CRConstantsOK
       DEF CRTypeOK, kv_insert_backup_consensus_0, kv_update_backup_consensus_0,
       kv_delete_backup_consensus_0, StartChain, Return, Goto, mem
  <2> QED BY <1>2, <2>1, Zenon DEF Fresh
<1>5. CASE iteratively_cas(r)
  <2>1. at[r] \in Replicas \ {0} /\ pc[r] = "bk"
    BY <1>5, Zenon DEF CRInv, iteratively_cas
  <2>2. /\ slot'[0] = slot[0] /\ been'[0] = been[0] /\ orig' = orig
        /\ pc'[r] \in {"bk", "commit"}
    BY <1>1, <1>5, <2>1 DEF CRTypeOK, iteratively_cas, Cas, Goto
  <2> QED BY <1>2, <2>1, <2>2, Zenon DEF Fresh
<1>6. CASE kv_log_commit(r) \/ cas_primary(r) \/ modify_primary_idx(r)
  <2>1. /\ slot' = slot /\ been' = been /\ orig' = orig
        /\ \/ pc[r] \in {"commit", "pr"} /\ pc'[r] \in {"pr", "cas"}
           \/ pc'[r] = "done"
    BY <1>1, <1>6, Zenon DEF CRTypeOK, kv_log_commit, cas_primary, modify_primary_idx,
       Return, Goto, mem, chain
  <2> QED BY <1>2, <2>1 DEF Fresh
<1>7. CASE cas_primary_slot(r)
  <2>1. orig' = orig /\ pc[r] = "cas" /\ pc'[r] \in {"cas", "inv"}
    BY <1>1, <1>7, Zenon DEF CRTypeOK, cas_primary_slot, Goto
  <2>2. CASE slot[0] = cmp[r]
    <3>1. slot'[0] = Target[r] /\ been'[0] = been[0] \cup {Target[r]} /\ pc'[r] = "inv"
        BY <1>1, <1>7, <2>2, Zenon DEF CRTypeOK, cas_primary_slot, Cas, CasDone, Goto
    <3> QED BY <1>2, <2>1, <3>1, CRConstantsOK DEF Fresh
  <2>3. CASE slot[0] # cmp[r]
    <3>1. slot'[0] = slot[0] /\ been'[0] = been[0] /\ pc'[r] = "cas"
        BY <1>1, <1>7, <2>3 DEF CRTypeOK, cas_primary_slot, Cas, CasDone, Goto
    <3> QED BY <1>2, <2>1, <3>1, Zenon DEF Fresh
  <2> QED BY <2>2, <2>3, Zenon
<1> QED BY <1>3, <1>4, <1>5, <1>6, <1>7, Zenon DEF Step

(* Every step but a CAS leaves slots and requests on their way alone. *)
LEMMA OtherStepsQuiet ==
    ASSUME CRInv, NoMiss, Pipeline, NEW r \in Req,
           Step(r), ~iteratively_cas(r), ~cas_primary_slot(r)
    PROVE  Pipeline'
<1>1. CRTypeOK /\ NumIdxRep \in Nat \ {0}
    BY CRConstantsOK, Zenon DEF CRInv
<1>2. \A s \in Req \ {r} : /\ pc'[s] = pc[s] /\ at'[s] = at[s] /\ orig'[s] = orig[s]
                           /\ cmp'[s] = cmp[s] /\ first'[s] = first[s]
    BY <1>1, OneRequestMoves
<1>3. /\ slot' = slot
      /\ \/ pc[r] \in {"start", "match", "inv"} /\ pc'[r] \in {"match", "done"}
         \/ /\ pc[r] = "match" /\ orig'[r] = orig[r] /\ cmp'[r] = orig[r] /\ at'[r] = 1
            /\ pc'[r] = "bk" \/ (pc'[r] = "pr" /\ NumIdxRep = 1)
         \/ /\ pc[r] \in {"commit", "pr"} /\ pc'[r] \in {"pr", "cas"}
            /\ orig'[r] = orig[r] /\ cmp'[r] = cmp[r]
  <2>1. CASE \/ kv_insert_read_buckets_and_write_kv(r)
             \/ kv_update_read_buckets_and_write_kv(r)
             \/ kv_delete_read_buckets_write_log(r)
    BY <1>1, <2>1, Zenon DEF CRTypeOK, kv_insert_read_buckets_and_write_kv,
       kv_update_read_buckets_and_write_kv, kv_delete_read_buckets_write_log,
       NoSpace, WriteKV, Return, Goto
  <2>2. CASE \/ kv_insert_backup_consensus_0(r)
             \/ kv_update_backup_consensus_0(r)
             \/ kv_delete_backup_consensus_0(r)
    BY <1>1, <2>2, Zenon DEF CRTypeOK, kv_insert_backup_consensus_0, kv_update_backup_consensus_0,
       kv_delete_backup_consensus_0, StartChain, Return, Goto, mem
  <2>3. CASE kv_log_commit(r) \/ cas_primary(r) \/ modify_primary_idx(r)
    BY <1>1, <2>3, Zenon DEF CRTypeOK, kv_log_commit, cas_primary, modify_primary_idx,
       Return, Goto, mem, chain, NoMiss, Stopped
  <2> QED BY <2>1, <2>2, <2>3, Zenon DEF Step
<1>4. ASSUME NEW s \in Req, NEW x PROVE Ahead(s, x)' <=> Ahead(s, x)
    BY <1>1, <1>2, <1>3 DEF Ahead, Replicas
<1>5. slot' = slot /\ \A s \in Req : Active(s) => orig'[s] = orig[s]
    BY <1>2, <1>3, Zenon DEF Active, Ahead
<1>6. ASSUME NEW s \in Req PROVE InStep(s)'
  <2>1. Active(s)' <=> Active(s)
    BY <1>4 DEF Active
  <2> QED BY <1>2, <1>3, <1>5, <2>1 DEF InStep, Pipeline
<1>7. ASSUME NEW p \in Req, NEW s \in Req PROVE Paired(p, s)'
    BY <1>4, <1>5 DEF Paired, Pipeline, Active
<1>8. ASSUME NEW x \in Replicas PROVE Follows(x)'
    BY <1>4, <1>5, Zenon DEF Follows, Pipeline
<1> QED BY <1>6, <1>7, <1>8, Zenon DEF Pipeline

(* A hit on the first backup finds no other request with a block on its    *)
(* way, and a hit further down finds what the request behind has left.     *)
LEMMA ChainKeepsPipeline ==
    ASSUME PipelineInv, NoMiss, Pipeline, NEW r \in Req, iteratively_cas(r), NoMiss'
    PROVE  Pipeline'
<1> DEFINE x == at[r]
<1>1. /\ CRTypeOK /\ NumIdxRep \in Nat \ {0} /\ pc[r] = "bk"
      /\ x \in Replicas \ {0} /\ x \in Nat /\ x # 0 /\ 1 \in Replicas /\ 0 \in Replicas
      /\ Target \in [Req -> Nat]
    BY CRConstantsOK DEF PipelineInv, CRInv, iteratively_cas, Replicas
<1>2. /\ misses[r] = 0 /\ misses'[r] = 0 /\ misses \in [Req -> Nat]
    BY <1>1, Zenon DEF NoMiss, CRTypeOK
<1>3. slot[x] = cmp[r] /\ slot' = [slot EXCEPT ![x] = Target[r]] /\ cmp[r] = orig[r]
    BY <1>1, <1>2 DEF iteratively_cas, Cas, Pipeline, InStep
<1>4. SwapBack(r, x) = cmp[r]
    BY <1>1, <1>3, Zenon DEF SwapBack, Pipeline, InStep
<1>5. /\ at'[r] = x + 1 /\ cmp'[r] = orig[r] /\ orig' = orig
      /\ pc'[r] = (IF x = NumIdxRep - 1 THEN "commit" ELSE "bk")
      /\ first'[r] = orig[r]
    BY <1>1, <1>3, <1>4 DEF iteratively_cas, CasDone, Cas, LastBackup, Goto, CRTypeOK,
       Pipeline, InStep
<1>6. \A s \in Req \ {r} : /\ pc'[s] = pc[s] /\ at'[s] = at[s]
                           /\ cmp'[s] = cmp[s] /\ first'[s] = first[s]
    BY <1>1, OneRequestMoves DEF Step
<1>7. /\ slot \in [Replicas -> Values] /\ slot'[0] = slot[0] /\ slot'[x] = Target[r]
      /\ \A y \in Replicas \ {x} : slot'[y] = slot[y]
    BY <1>1, <1>3, Zenon DEF CRTypeOK
<1>8. ASSUME NEW s \in Req, NEW y \in Replicas
      PROVE  Ahead(s, y)' <=> Ahead(s, y) \/ (s = r /\ y = x)
    BY <1>1, <1>5, <1>6 DEF Ahead, Replicas
<1>9. Active(r)' /\ \A s \in Req \ {r} : Active(s)' <=> Active(s)
    BY <1>1, <1>5, <1>6 DEF Active, Ahead, Replicas
<1>10. Active(r) <=> x > 1
    BY <1>1 DEF Active, Ahead
<1>11. ~Ahead(r, x)
    BY <1>1 DEF Ahead
<1>12. ASSUME NEW s \in Req, Active(s)
       PROVE  /\ orig[s] = 0 <=> Kind[s] = "INSERT"
              /\ Target[s] # 0 => Target[s] \notin been[0]
  <2>1. pc[s] \in {"bk", "commit", "pr", "cas"}
    BY <1>12 DEF Active, Ahead
  <2> QED BY <2>1, Zenon DEF PipelineInv, Fresh
<1>13. /\ orig[r] \in been[0] \cup {0} /\ (orig[r] = 0 <=> Kind[r] = "INSERT")
       /\ Kind[r] = "DELETE" <=> Target[r] = 0
    BY <1>1, CRConstantsOK, Zenon DEF PipelineInv, Fresh
<1>14. ASSUME NEW s \in Req, Ahead(s, x) PROVE Active(s)
  <2>1. at[s] \in 0..NumIdxRep
    BY <1>1, Zenon DEF CRTypeOK
  <2> QED BY <1>1, <1>14, <2>1 DEF Active, Ahead, Replicas
(* Nobody ahead of r at x but perhaps a DELETE. *)
<1>15. ASSUME NEW s \in Req, Ahead(s, x)
       PROVE  Target[s] = 0 /\ orig[r] = 0
  <2>1. \/ \E q \in Req : Ahead(q, x) /\ Target[q] # 0 /\ slot[x] = Target[q]
        \/ (\A q \in Req : Ahead(q, x) => Target[q] = 0) /\ slot[x] = 0
    BY <1>1, <1>15, Zenon DEF Pipeline, Follows
  <2>2. \A q \in Req : Ahead(q, x) /\ Target[q] # 0 => Target[q] # orig[r]
    BY <1>12, <1>13, <1>14, Zenon
  <2> QED BY <1>3, <1>15, <2>1, <2>2, Zenon
<1>16. (\A s \in Req : ~Ahead(s, x)) => slot[0] = orig[r]
    BY <1>1, <1>3, Zenon DEF Pipeline, Follows
(* On the first backup. *)
<1>17. ASSUME NEW s \in Req \ {r}, Active(s)
       PROVE  /\ Target[r] = 0 <=> Target[s] # 0
              /\ Target[r] = 0 => orig[s] = 0
              /\ Target[s] = 0 => orig[r] = 0
  <2>1. CASE x = 1
    BY <2>1, <1>13, <1>15, <1>17, Zenon DEF Active
  <2>2. CASE x # 1
    BY <2>2, <1>1, <1>10, <1>17 DEF Pipeline, Paired
  <2> QED BY <2>1, <2>2, Zenon
<1>18. ASSUME NEW s \in Req \ {r}, Active(s), Target[s] = 0 PROVE Ahead(s, x)
  <2> SUFFICES ASSUME ~Ahead(s, x) PROVE FALSE
    OBVIOUS
  <2>1. x # 1 /\ Active(r)
    BY <1>1, <1>10, <1>18 DEF Active
  <2>2. ASSUME NEW q \in Req PROVE ~Ahead(q, x)
    BY <1>11, <1>14, <1>15, <1>18, Zenon DEF Pipeline, Paired
  <2>3. slot[0] = orig[r] /\ orig[r] = 0
    BY <1>16, <1>17, <1>18, <2>2, Zenon
  <2>4. orig[s] # 0 /\ slot[0] = orig[s]
    BY <1>12, <1>18, CRConstantsOK, Zenon DEF Pipeline, InStep
  <2> QED BY <2>3, <2>4
<1>19. ASSUME NEW s \in Req PROVE InStep(s)'
  <2>1. CASE s # r
    BY <2>1, <1>5, <1>6, <1>7, <1>9, Zenon DEF Pipeline, InStep
  <2>2. CASE s = r
    <3>1. orig[r] # 0 => slot[0] = orig[r]
        <4>1. CASE x > 1
            BY <4>1, <1>10, Zenon DEF Pipeline, InStep
        <4>2. CASE x = 1
            BY <1>15, <1>16, Zenon
        <4> QED BY <1>1, <4>1, <4>2
    <3> QED BY <2>2, <3>1, <1>1, <1>5, <1>7, Zenon DEF InStep
  <2> QED BY <2>1, <2>2
<1>20. ASSUME NEW p \in Req, NEW s \in Req PROVE Paired(p, s)'
  <2> SUFFICES ASSUME Active(p)', Active(s)', p # s
               PROVE  /\ Target[p] = 0 <=> Target[s] # 0
                      /\ Target[s] = 0 => /\ orig'[p] = 0
                                          /\ \A y \in Replicas : Ahead(p, y)' => Ahead(s, y)'
    BY Zenon DEF Paired
  <2>1. CASE p # r /\ s # r
    BY <2>1, <1>5, <1>8, <1>9, Zenon DEF Pipeline, Paired
  <2>2. CASE p = r
    <3>1. Active(s) /\ (Target[p] = 0 <=> Target[s] # 0) /\ (Target[s] = 0 => orig'[p] = 0)
        BY <2>2, <1>5, <1>9, <1>17, Zenon
    <3>2. ASSUME Target[s] = 0, NEW y \in Replicas, Ahead(r, y)' PROVE Ahead(s, y)'
        <4>1. Ahead(s, x)
            BY <2>2, <3>1, <3>2, <1>18, Zenon
        <4>2. y # x => Active(r) /\ Ahead(r, y)
            BY <3>2, <1>1, <1>8 DEF Active, Ahead, Replicas
        <4>3. Ahead(s, y)
            BY <4>1, <4>2, <2>2, <3>1, <3>2, Zenon DEF Pipeline, Paired
        <4> QED BY <4>3, <1>8
    <3> QED BY <2>2, <3>1, <3>2, Zenon
  <2>3. CASE s = r
    <3>1. Active(p) /\ (Target[p] = 0 <=> Target[s] # 0) /\ (Target[s] = 0 => orig'[p] = 0)
        BY <2>3, <1>5, <1>9, <1>17, Zenon
    <3>2. ASSUME Target[s] = 0, NEW y \in Replicas, Ahead(p, y)' PROVE Ahead(s, y)'
        <4>1. Ahead(p, y) /\ Target[p] # 0
            BY <2>3, <3>1, <3>2, <1>8, Zenon
        <4>2. CASE Active(r)
            BY <4>1, <4>2, <2>3, <3>1, <3>2, <1>8, Zenon DEF Pipeline, Paired
        <4>3. CASE ~Active(r)
            BY <4>1, <4>3, <3>1, <1>1, <1>10, <1>15 DEF Active
        <4> QED BY <4>2, <4>3
    <3> QED BY <3>1, <3>2, Zenon
  <2> QED BY <2>1, <2>2, <2>3, Zenon
<1>21. ASSUME NEW y \in Replicas PROVE Follows(y)'
  <2>1. CASE y # x
    BY <2>1, <1>7, <1>8 DEF Pipeline, Follows
  <2>2. CASE y = x
    BY <2>2, <1>7, <1>8, <1>15, Zenon DEF Follows
  <2> QED BY <2>1, <2>2
<1> QED BY <1>19, <1>20, <1>21 DEF Pipeline

(* A hit on the primary ends the way of a request whose value is on every  *)
(* backup, except where an INSERT follows a DELETE.                        *)
LEMMA PrimaryKeepsPipeline ==
    ASSUME PipelineInv, NoMiss, Pipeline, NEW r \in Req, cas_primary_slot(r), NoMiss'
    PROVE  Pipeline'
<1>1. /\ CRTypeOK /\ NumIdxRep \in Nat \ {0} /\ pc[r] = "cas" /\ 0 \in Replicas
      /\ Target \in [Req -> Nat]
    BY CRConstantsOK DEF PipelineInv, CRInv, cas_primary_slot, Replicas
<1>2. misses[r] = 0 /\ misses'[r] = 0 /\ misses \in [Req -> Nat]
    BY <1>1, Zenon DEF NoMiss, CRTypeOK
<1>3. slot[0] = cmp[r] /\ slot' = [slot EXCEPT ![0] = Target[r]] /\ cmp[r] = orig[r]
    BY <1>1, <1>2 DEF cas_primary_slot, Cas, Pipeline, InStep
<1>4. pc'[r] = "inv" /\ orig' = orig
    BY <1>1, <1>3, Zenon DEF cas_primary_slot, CasDone, Goto, CRTypeOK
<1>5. \A s \in Req \ {r} : /\ pc'[s] = pc[s] /\ at'[s] = at[s]
                           /\ cmp'[s] = cmp[s] /\ first'[s] = first[s]
    BY <1>1, OneRequestMoves DEF Step
<1>6. slot'[0] = Target[r] /\ \A y \in Replicas \ {0} : slot'[y] = slot[y]
    BY <1>1, <1>3, Zenon DEF CRTypeOK
<1>7. ASSUME NEW s \in Req, NEW y PROVE Ahead(s, y)' <=> Ahead(s, y) /\ s # r
    BY <1>4, <1>5, Zenon DEF Ahead
<1>8. ASSUME NEW y \in Replicas \ {0} PROVE Ahead(r, y) /\ Active(r)
    BY <1>1 DEF Ahead, Active, Replicas
<1>9. ASSUME NEW s \in Req, Active(s) PROVE Active(r)
  <2>1. 1 \in Replicas \ {0}
    BY <1>9 DEF Active, Ahead
  <2> QED BY <1>8, <2>1
<1>10. ASSUME NEW s \in Req \ {r}, Active(s)
       PROVE  Target[r] = 0 /\ Target[s] # 0 /\ orig[s] = 0
  <2>1. CASE Target[r] = 0
    BY <2>1, <1>9, <1>10, Zenon DEF Pipeline, Paired
  <2>2. CASE Target[r] # 0
    <3>1. Target[s] = 0 /\ orig[r] = 0
        BY <2>2, <1>9, <1>10, Zenon DEF Pipeline, Paired
    <3>2. orig[s] # 0
        <4>1. pc[s] \in {"bk", "commit", "pr", "cas"}
            BY <1>10 DEF Active, Ahead
        <4> QED BY <3>1, <4>1, CRConstantsOK, Zenon DEF PipelineInv, Fresh
    <3>3. slot[0] = orig[s]
        BY <3>2, <1>10, Zenon DEF Pipeline, InStep
    <3> QED BY <1>3, <3>1, <3>2, <3>3, Zenon
  <2> QED BY <2>1, <2>2, Zenon
<1>11. ASSUME NEW s \in Req PROVE InStep(s)'
  <2>1. CASE s = r
    BY <2>1, <1>4, <1>7, Zenon DEF InStep, Active
  <2>2. CASE s # r
    <3>1. Active(s)' => orig[s] = 0
        BY <2>2, <1>7, <1>10, Zenon DEF Active
    <3> QED BY <2>2, <3>1, <1>4, <1>5 DEF InStep, Pipeline
  <2> QED BY <2>1, <2>2
<1>12. ASSUME NEW p \in Req, NEW s \in Req PROVE Paired(p, s)'
    BY <1>4, <1>7, Zenon DEF Paired, Pipeline, Active
<1>13. ASSUME NEW s \in Req, NEW y, Ahead(s, y) PROVE Active(s)
  <2>1. at[s] \in 0..NumIdxRep
    BY <1>1, Zenon DEF CRTypeOK
  <2> QED BY <1>1, <1>13, <2>1 DEF Active, Ahead, Replicas
<1>14. ASSUME NEW y \in Replicas PROVE Follows(y)'
  <2>1. CASE y = 0
    BY <2>1, <1>7, Zenon DEF Follows, Ahead
  <2>2. CASE y # 0 /\ \E s \in Req \ {r} : Ahead(s, y)
    <3>1. \A s \in Req : Ahead(s, y) => s = r \/ Target[s] # 0
        BY <1>10, <1>13, Zenon
    <3>2. \E s \in Req : Ahead(s, y) /\ Target[s] # 0 /\ slot[y] = Target[s]
        BY <2>2, <3>1, Zenon DEF Pipeline, Follows
    <3>3. Target[r] = 0
        BY <2>2, <1>10, <1>13, Zenon
    <3> QED BY <2>2, <3>2, <3>3, <1>6, <1>7, Zenon DEF Follows
  <2>3. CASE y # 0 /\ \A s \in Req \ {r} : ~Ahead(s, y)
    <3>1. slot[y] = Target[r]
        BY <2>3, <1>8, Zenon DEF Pipeline, Follows
    <3> QED BY <2>3, <3>1, <1>6, <1>7, Zenon DEF Follows
  <2> QED BY <2>1, <2>2, <2>3
<1> QED BY <1>11, <1>12, <1>14 DEF Pipeline

(* PipelineInv is an inductive invariant of ClientCR. *)
THEOREM PipelineInvariant ==
    Spec => []PipelineInv
<1>1. Init => PipelineInv
  <2> SUFFICES ASSUME Init PROVE PipelineInv
    OBVIOUS
  <2>1. CRInv /\ 0 \in Replicas
    BY InitCRInv, CRConstantsOK DEF Replicas
  <2>2. slot[0] \in been[0] /\ \A r \in Req : Fresh(r)
    BY <2>1, CRConstantsOK, Zenon DEF Init, Fresh
  <2>3. \A r \in Req, x \in Replicas : ~Ahead(r, x) /\ ~Active(r)
    BY Zenon DEF Init, Ahead, Active
  <2>4. Pipeline
    BY <2>1, <2>3, Zenon DEF Pipeline, InStep, Paired, Follows, Init
  <2> QED BY <2>1, <2>2, <2>4 DEF PipelineInv
<1>2. PipelineInv /\ [Next]_vars => PipelineInv'
  <2> SUFFICES ASSUME PipelineInv, [Next]_vars PROVE PipelineInv'
    OBVIOUS
  <2>1. CRInv'
    BY StartKeepsCRInv, MatchKeepsCRInv, ChainKeepsCRInv, CommitKeepsCRInv,
       PrimaryKeepsCRInv, OthersKeepCRInv, Zenon DEF Next, Step, Finished, PipelineInv
  <2>2. ASSUME NEW r \in Req, Step(r) PROVE PipelineInv'
    <3>1. slot'[0] \in been'[0] /\ \A s \in Req : Fresh(s)'
        BY <2>2, FreshStays, Zenon DEF PipelineInv
    <3>2. NoMiss' => NoMiss
        <4>1. misses \in [Req -> Nat]
            BY Zenon DEF PipelineInv, CRInv, CRTypeOK
        <4>2. stop' = stop /\ \A s \in Req \ {r} : misses'[s] = misses[s]
            BY <2>2, OneRequestMoves, Zenon DEF PipelineInv, CRInv
        <4>3. misses' = misses \/ misses' = [misses EXCEPT ![r] = @ + 1]
            BY <2>2, Zenon DEF Step, kv_insert_read_buckets_and_write_kv,
               kv_update_read_buckets_and_write_kv, kv_delete_read_buckets_write_log,
               kv_insert_backup_consensus_0, kv_update_backup_consensus_0,
               kv_delete_backup_consensus_0, iteratively_cas, kv_log_commit,
               cas_primary, cas_primary_slot, modify_primary_idx, Cas, chain
        <4> QED BY <4>1, <4>2, <4>3 DEF NoMiss
    <3>3. NoMiss' => Pipeline'
        BY <2>2, <3>2, OtherStepsQuiet, ChainKeepsPipeline, PrimaryKeepsPipeline, Zenon
           DEF PipelineInv
    <3> QED BY <2>1, <3>1, <3>3, Zenon DEF PipelineInv
  <2>3. ASSUME NEW r \in Req, Stop(r) PROVE PipelineInv'
    <3>1. ~NoMiss'
        BY <2>3 DEF Stop, NoMiss
    <3>2. slot'[0] \in been'[0] /\ \A s \in Req : Fresh(s)'
        BY <2>3, Zenon DEF Stop, PipelineInv, Fresh, mem, chain
    <3> QED BY <2>1, <3>1, <3>2, Zenon DEF PipelineInv
  <2>4. CASE UNCHANGED vars
    <3>1. NoMiss' => Pipeline'
        BY <2>4 DEF PipelineInv, NoMiss, Pipeline, InStep, Paired, Follows, Ahead, Active,
           vars, mem, chain
    <3>2. slot'[0] \in been'[0] /\ \A s \in Req : Fresh(s)'
        BY <2>4, Zenon DEF vars, PipelineInv, Fresh, mem, chain
    <3> QED BY <2>1, <3>1, <3>2, Zenon DEF PipelineInv
  <2> QED BY <2>2, <2>3, <2>4 DEF Next, Finished
<1> QED BY <1>1, <1>2, PTL DEF Spec

(* However the chains of any number of requests interleave, replicas that  *)
(* differ once everybody has returned are known to somebody: a CAS met a   *)
(* foreign value, or a request was stopped half-way.                       *)
THEOREM DivergenceIsSeenHolds ==
    Spec => []DivergenceIsSeen
<1>1. PipelineInv => DivergenceIsSeen
    BY Zenon DEF PipelineInv, NoMiss, DivergenceIsSeen, AllDone, Pipeline, Follows, Ahead
<1> QED BY PipelineInvariant, <1>1, PTL

=============================================================================
