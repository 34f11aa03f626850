---------------------------- MODULE SearchProofs ----------------------------
(***************************************************************************)
(* Proofs about kv_search and kv_search_on_crash of src/client.cc beside   *)
(* any number of writers and searchers: what a search answers from the     *)
(* index, or from the address cache, is not older than the search, and     *)
(* what the backups answer for a failed primary is not lost.  The writers  *)
(* keep IInv of SnapshotInv; on top of it FreshInv, LiveInv and BackedInv  *)
(* of Search are inductive.                                                *)
(***************************************************************************)
EXTENDS Search, SnapshotProofs, WellFoundedInduction

(* A nonempty set of naturals has a least element. *)
LEMMA LeastNat ==
    ASSUME NEW T \in SUBSET Nat, T # {}
    PROVE  \E x \in T : \A y \in T : x =< y
<1>1. PICK x \in T : \A y \in T : <<y, x>> \notin OpToRel(<, Nat)
    BY NatLessThanWellFounded, WFMin, Zenon
<1>2. \A y \in T : ~(y < x)
    BY <1>1, Zenon DEF OpToRel
<1> QED BY <1>2

(* Replicas are naturals, so CachedBlock is none of them. *)
LEMMA ReplicaTypes ==
    /\ Replicas \subseteq Nat /\ 0 \in Replicas /\ CachedBlock \notin Replicas
    /\ Slots \subseteq Nat /\ 0 \in Slots
<1>1. Cardinality(Backups) \in Nat
    BY ConstantsOK, FS_CardinalityType, Zenon
<1>2. \A i \in 1..Cardinality(Backups) : i \in Nat
    BY <1>1
<1>3. \A i \in Backups : i \in Nat
    BY <1>2, SearchOK, Zenon
<1> QED BY <1>3, ValuesAreNat DEF Replicas, CachedBlock, None, Slots

-----------------------------------------------------------------------------
(* The vote of find_kv_in_buckets_on_crash. *)

(* The first copy READ is that of a replica READ. *)
LEMMA FirstIsRead ==
    ASSUME SomeHealthy, NEW s \in Searcher
    PROVE  FirstRead(s) \in Batch(s) /\ Batch(s) \subseteq Replicas
<1>1. Healthy \subseteq Replicas /\ Healthy # {}
    BY Zenon DEF Healthy, SomeHealthy, Replicas
<1>2. PICK x \in Healthy : \A y \in Healthy : x =< y
    BY <1>1, ReplicaTypes, LeastNat
<1>3. (CHOOSE i \in Healthy : \A j \in Healthy : i =< j) \in Healthy
    BY <1>2, Zenon
<1> QED BY <1>1, <1>3, ReplicaTypes, Zenon DEF FirstRead, Batch

(* Whatever the vote, it is for a slot some replica showed, or for none. *)
LEMMA ConsensusIsSeen ==
    ASSUME STypeOK, NEW s \in Searcher
    PROVE  Consensus(s) = 0 \/ \E i \in Healthy : Consensus(s) = seen[s][i]
<1>1. Healthy \subseteq Replicas /\ Showing(s) \subseteq Healthy
    BY Zenon DEF Healthy, Showing
<1>2. \A i \in Replicas : VoteOf(s, i) = 0 \/ \E j \in Healthy : VoteOf(s, i) = seen[s][j]
    BY <1>1, Zenon DEF VoteOf, Filler
<1>3. Voted(s) # {}
    BY ReplicaTypes, Zenon DEF Voted
<1>4. \A v \in Voted(s) : v = 0 \/ \E j \in Healthy : v = seen[s][j]
    BY <1>2, Zenon DEF Voted
<1>5. \A j \in Healthy : seen[s][j] \in Nat
    <2>1. seen \in [Searcher -> [Replicas -> Slots]]
        BY Zenon DEF STypeOK
    <2> QED BY <1>1, <2>1, ReplicaTypes, Zenon
<1>6. PICK x \in Voted(s) : \A y \in Voted(s) : x =< y
    <2>1. Voted(s) \in SUBSET Nat
        BY <1>4, <1>5
    <2> QED BY <1>3, <2>1, LeastNat, Zenon
<1>7. Consensus(s) \in Voted(s)
    BY <1>6, Zenon DEF Consensus, MajorityOf
<1> QED BY <1>4, <1>7, Zenon

(* The vote depends on what was READ and on who is healthy alone. *)
LEMMA SameVote ==
    ASSUME NEW s \in Searcher, crashed' = crashed, seen'[s] = seen[s]
    PROVE  /\ failed_pr_index(s)' = failed_pr_index(s) /\ Batch(s)' = Batch(s)
           /\ FirstRead(s)' = FirstRead(s) /\ Agreed(s)' = Agreed(s)
<1>1. Healthy' = Healthy
    BY Zenon DEF Healthy
<1>2. failed_pr_index(s)' = failed_pr_index(s) /\ Batch(s)' = Batch(s)
    BY <1>1, Zenon DEF failed_pr_index, Batch
<1>3. FirstRead(s)' = FirstRead(s)
    BY <1>1, <1>2 DEF FirstRead
<1>4. Showing(s)' = Showing(s)
    BY <1>1, <1>3, Zenon DEF Showing
<1>5. Filler(s)' = Filler(s)
    BY <1>1, <1>3, <1>4, Zenon DEF Filler, Position
<1>6. \A i : VoteOf(s, i)' = VoteOf(s, i)
    BY <1>4, <1>5, Zenon DEF VoteOf
<1>7. Voted(s)' = Voted(s) /\ \A v : VotesFor(s, v)' = VotesFor(s, v)
    BY <1>6, Zenon DEF Voted, VotesFor
<1>8. MajorityOf(s)' = MajorityOf(s)
    BY <1>7 DEF MajorityOf
<1>9. Consensus(s)' = Consensus(s)
    BY <1>7, <1>8 DEF Consensus
<1> QED BY <1>2, <1>3, <1>4, <1>9, Zenon DEF Agreed

-----------------------------------------------------------------------------
(* Type correctness. *)

(* update_cache and check_failed_cache keep an entry well formed. *)
LEMMA UpdateEntry ==
    ASSUME NEW e \in Entry, NEW v \in Slots
    PROVE  /\ update_cache(e, v) \in Entry /\ check_failed_cache(e) \in Entry
           /\ [e EXCEPT !.acc = IF e = NoEntry THEN 0 ELSE @ + 1] \in Entry
           /\ NoEntry \in Entry
<1>1. e \in [ptr : Slots, moved : BOOLEAN, miss : Nat, acc : Nat] /\ e.miss =< e.acc
    BY DEF Entry
<1>2. update_cache(e, v) \in Entry
    BY <1>1 DEF update_cache, Entry
<1>3. check_failed_cache(e) \in Entry
    BY <1>1, Zenon DEF check_failed_cache, Entry
<1>4. [e EXCEPT !.acc = IF e = NoEntry THEN 0 ELSE @ + 1] \in Entry
    BY <1>1 DEF Entry, NoEntry
<1>5. NoEntry \in Entry
    BY ReplicaTypes DEF NoEntry, Entry
<1> QED BY <1>2, <1>3, <1>4, <1>5

(* The READs of a search keep it typed. *)
LEMMA ReadTypes ==
    ASSUME TypeOK, STypeOK, NEW t \in Searcher,
           \/ kv_search_read_buckets(t)
           \/ \E i \in Replicas : ReadBucket(t, i)
           \/ ReadCached(t)
    PROVE  STypeOK'
<1>1. CASE kv_search_read_buckets(t)
    <2>1. cache' \in [Searcher -> Entry]
        <3>1. cache \in [Searcher -> Entry] /\ cache[t] \in Entry
            BY Zenon DEF STypeOK
        <3>2. check_failed_cache(cache[t]) \in Entry
            BY <3>1, ReplicaTypes, UpdateEntry, Zenon
        <3> QED BY <1>1, <3>1, <3>2, Zenon DEF kv_search_read_buckets
    <2>2. tries' \in [Searcher -> 0..MaxSearch]
        BY <1>1, SearchOK DEF kv_search_read_buckets, STypeOK
    <2>3. hit' \in [Searcher -> [ptr : Slots, moved : BOOLEAN]]
        <3>1. cache'[t].ptr \in Slots /\ cache'[t].moved \in BOOLEAN
            BY <2>1 DEF Entry
        <3>2. NoHit \in [ptr : Slots, moved : BOOLEAN]
            BY ReplicaTypes DEF NoHit
        <3> QED BY <1>1, <3>1, <3>2, Zenon DEF kv_search_read_buckets, STypeOK
    <2>4. reads' \in [Searcher -> SUBSET (Replicas \cup {CachedBlock})]
        <3>1. Batch(t) \subseteq Replicas
            BY ReplicaTypes, Zenon DEF Batch, Healthy
        <3> QED BY <1>1, <3>1, Zenon DEF kv_search_read_buckets, STypeOK
    <2>5. old' \in [Searcher -> [all : SUBSET Slots, told : SUBSET Slots, success : SUBSET Slots]]
        <3>1. /\ past \ {pr} \subseteq Slots
              /\ {orig[r] : r \in {q \in Req : pc[q] = "done" /\ swapped[q]}} \subseteq Slots
              /\ {orig[r] : r \in {q \in Req : pc[q] = "done" /\ rc[q] = "SUCCESS"}} \subseteq Slots
            BY Zenon DEF TypeOK, Slots
        <3> QED BY <1>1, <3>1, Zenon DEF kv_search_read_buckets, STypeOK
    <2>6. spc' \in [Searcher -> {"idle", "buckets", "kv", "dead"}]
        BY <1>1, Zenon DEF kv_search_read_buckets, STypeOK
    <2>7. UNCHANGED <<crashed, seen, alive, warm, cand, found>>
        BY <1>1, Zenon DEF kv_search_read_buckets
    <2> QED BY <2>1, <2>2, <2>3, <2>4, <2>5, <2>6, <2>7, Zenon DEF STypeOK
<1>2. ASSUME NEW i \in Replicas, ReadBucket(t, i) PROVE STypeOK'
    <2>1. Slot(i) \in Slots
        BY Zenon DEF Slot, TypeOK, Slots, Replicas
    <2>2. seen' \in [Searcher -> [Replicas -> Slots]]
        BY <1>2, <2>1, Zenon DEF ReadBucket, STypeOK
    <2> QED BY <1>2, <2>2, Zenon DEF ReadBucket, STypeOK
<1>3. CASE ReadCached(t)
    BY <1>3, Zenon DEF ReadCached, STypeOK
<1> QED BY <1>1, <1>2, <1>3, Zenon

(* The blocks listed to READ are slot values. *)
LEMMA CandidateTypes ==
    ASSUME STypeOK, NEW s \in Searcher
    PROVE  Candidates(s) \subseteq Slots
<1>1. seen[s] \in [Replicas -> Slots] /\ cand[s] \subseteq Slots
    BY Zenon DEF STypeOK
<1>2. Consensus(s) \in Slots
    BY <1>1, ConsensusIsSeen, ReplicaTypes, Zenon DEF Healthy
<1>3. seen[s][0] \in Slots
    BY <1>1, ReplicaTypes, Zenon
<1> QED BY <1>1, <1>2, <1>3, Zenon DEF Candidates, Agreed

(* The end of a search keeps it typed. *)
LEMMA AnswerTypes ==
    ASSUME SomeHealthy, TypeOK, STypeOK, NEW t \in Searcher,
           kv_search_read_kv(t) \/ kv_search_check_kv(t)
    PROVE  STypeOK'
<1> DEFINE Answers == [v : Slots, from : {"none", "cache", "primary", "backups", "carried"}]
<1>0. cache[t] \in Entry /\ hit[t].ptr \in Slots /\ cand[t] \subseteq Slots
    BY Zenon DEF STypeOK
<1>1. CASE kv_search_read_kv(t)
    <2>1. cache' \in [Searcher -> Entry]
        <3>1. [cache[t] EXCEPT !.acc = IF cache[t] = NoEntry THEN 0 ELSE @ + 1] \in Entry
            BY <1>0, ReplicaTypes, UpdateEntry, Zenon
        <3>2. \/ UNCHANGED cache
              \/ cache' = [cache EXCEPT ![t] = [cache[t] EXCEPT !.acc = IF cache[t] = NoEntry THEN 0 ELSE @ + 1]]
            BY <1>1, Zenon DEF kv_search_read_kv
        <3> QED BY <3>1, <3>2, Zenon DEF STypeOK
    <2>2. cand' \in [Searcher -> SUBSET Slots]
        <3>1. Candidates(t) \subseteq Slots /\ cand \in [Searcher -> SUBSET Slots]
            BY CandidateTypes, Zenon DEF STypeOK
        <3>2. UNCHANGED cand \/ cand' = [cand EXCEPT ![t] = Candidates(t)]
            BY <1>1, Zenon DEF kv_search_read_kv
        <3> QED BY <3>1, <3>2, Zenon
    <2>3. warm' \in [Searcher -> BOOLEAN]
        BY <1>1, Zenon DEF kv_search_read_kv, STypeOK
    <2>4. spc' \in [Searcher -> {"idle", "buckets", "kv", "dead"}]
        BY <1>1, Zenon DEF kv_search_read_kv, STypeOK, End, Die
    <2>5. found' \in [Searcher -> Answers]
        <3>1. [v |-> hit[t].ptr, from |-> "cache"] \in Answers
            BY <1>0, Zenon
        <3> HIDE DEF Answers
        <3>2. found \in [Searcher -> Answers]
            BY Zenon DEF STypeOK, Answers
        <3> QED BY <1>1, <3>1, <3>2, Zenon DEF kv_search_read_kv, End, Die
    <2> QED BY <1>1, <2>1, <2>2, <2>3, <2>4, <2>5, Zenon DEF kv_search_read_kv, STypeOK
<1>2. CASE kv_search_check_kv(t)
    <2>1. cache' \in [Searcher -> Entry]
        <3>1. seen[t][FirstRead(t)] \in Slots
            <4>1. FirstRead(t) \in Replicas /\ seen[t] \in [Replicas -> Slots]
                BY FirstIsRead, Zenon DEF STypeOK
            <4> QED BY <4>1, Zenon
        <3>2. update_cache(cache[t], seen[t][FirstRead(t)]) \in Entry
            BY <1>0, <3>1, UpdateEntry, Zenon
        <3> QED BY <1>2, <3>2, Zenon DEF kv_search_check_kv, STypeOK
    <2>2. warm' \in [Searcher -> BOOLEAN]
        BY <1>2, Zenon DEF kv_search_check_kv, STypeOK
    <2>3. spc' \in [Searcher -> {"idle", "buckets", "kv", "dead"}]
        BY <1>2, Zenon DEF kv_search_check_kv, STypeOK, End, Die
    <2>4. found' \in [Searcher -> Answers]
        <3>1. \A v \in cand[t] \cup {0} : [v |-> v, from |-> Source(t, v)] \in Answers
            BY <1>0, ReplicaTypes, Zenon DEF Source
        <3> HIDE DEF Answers
        <3>2. found \in [Searcher -> Answers]
            BY Zenon DEF STypeOK, Answers
        <3>3. \/ UNCHANGED found
              \/ \E v \in cand[t] \cup {0} : found' = [found EXCEPT ![t] = [v |-> v, from |-> Source(t, v)]]
            BY <1>2, Zenon DEF kv_search_check_kv, End, Die
        <3> QED BY <3>1, <3>2, <3>3, Zenon
    <2> QED BY <1>2, <2>1, <2>2, <2>3, <2>4, Zenon DEF kv_search_check_kv, STypeOK
<1> QED BY <1>1, <1>2, Zenon

(* The writers and crash_server keep the searches typed. *)
LEMMA OthersTypes ==
    ASSUME STypeOK, (\E r \in Req : WriterStep(r)) \/ crash_server \/ UNCHANGED svars
    PROVE  STypeOK'
<1>1. ASSUME NEW r \in Req, WriterStep(r) PROVE STypeOK'
    <2>1. \A s \in Searcher : cache[s] \in Entry
        BY Zenon DEF STypeOK
    <2>2. Target[r] \in Slots
        BY RequestTypes, Zenon DEF Slots
    <2>3. \A s \in Searcher : update_cache(cache[s], Target[r]) \in Entry /\ NoEntry \in Entry
        BY <2>1, <2>2, UpdateEntry, Zenon
    <2>4. cache' \in [Searcher -> Entry]
        BY <1>1, <2>1, <2>3, Zenon DEF WriterStep
    <2> QED BY <1>1, <2>4, Zenon DEF WriterStep, STypeOK
<1>2. CASE crash_server
    BY <1>2, Zenon DEF crash_server, STypeOK
<1>3. CASE UNCHANGED svars
    BY <1>3, Zenon DEF svars, STypeOK
<1> QED BY <1>1, <1>2, <1>3, Zenon

(* The state a run starts in. *)
LEMMA InitTypes == SInit => STypeOK
<1> SUFFICES ASSUME SInit PROVE STypeOK
    OBVIOUS
<1>1. NoEntry \in Entry /\ [ptr |-> InitSlot, moved |-> FALSE, miss |-> 0, acc |-> 1] \in Entry
    <2>1. InitSlot \in Slots /\ 0 \in Slots
        BY ReplicaTypes, Zenon DEF Slots, Values
    <2> QED BY <2>1 DEF NoEntry, Entry
<1>2. cache \in [Searcher -> Entry]
    BY <1>1, Zenon DEF SInit
<1>3. NoHit \in [ptr : Slots, moved : BOOLEAN]
    BY ReplicaTypes, Zenon DEF NoHit
<1>4. seen \in [Searcher -> [Replicas -> Slots]]
    BY ReplicaTypes, Zenon DEF SInit
<1>5. tries \in [Searcher -> 0..MaxSearch]
    BY SearchOK DEF SInit
<1>6. found \in [Searcher -> [v : Slots, from : {"none", "cache", "primary", "backups", "carried"}]]
    BY ReplicaTypes, Zenon DEF SInit
<1> QED BY <1>2, <1>3, <1>4, <1>5, <1>6, Zenon DEF SInit, STypeOK

-----------------------------------------------------------------------------
(* Answers from the index. *)

(* The primary never goes back to a value it has held. *)
LEMMA PrimaryMovesOn ==
    ASSUME IInv, NEW r \in Req, Step(r)
    PROVE  past \subseteq past' /\ (pr' = pr \/ (pr' \notin past /\ pr' \in past'))
<1>1. CASE CasPrimary(r)
    <2>1. Control(r) /\ Value(r) /\ "cas" \in prq[r]
        BY <1>1, Zenon DEF IInv, ControlInv, ValueInv, CasPrimary
    <2>2. Target[r] \notin past
        BY <2>1, Zenon DEF Control, Value
    <2> QED BY <1>1, <2>2, Zenon DEF CasPrimary
<1>2. CASE ~CasPrimary(r)
    BY <1>2, Zenon DEF Step, mem, kv_insert_read_buckets_and_write_kv,
        kv_update_read_buckets_and_write_kv, kv_delete_read_buckets_write_log,
        kv_insert_backup_consensus_0, kv_update_backup_consensus_0,
        kv_delete_backup_consensus_0, CasBackup, modify_backup_idx_consensus_1,
        ReadPrimary, CasRest, EndRest, WaitPrimary, kv_log_commit, PostPrimary,
        WriteInvalid, modify_primary_idx
<1> QED BY <1>1, <1>2

(* A search keeps Fresh while it rests and the primary moves on. *)
LEMMA FreshFrame ==
    ASSUME NEW s \in Searcher, Fresh(s), crashed' = crashed,
           old'[s] = old[s], reads'[s] = reads[s], spc'[s] = spc[s], seen'[s] = seen[s],
           cand'[s] = cand[s], old[s].all \subseteq past' \ {pr'}
    PROVE  Fresh(s)'
<1>1. failed_pr_index(s)' = failed_pr_index(s) /\ Batch(s)' = Batch(s) /\ Agreed(s)' = Agreed(s)
    BY SameVote, Zenon
<1> QED BY <1>1, Zenon DEF Fresh

(* The writers: what had been replaced does not come back. *)
LEMMA WriterFresh ==
    ASSUME IInv, FreshInv, NEW r \in Req, WriterStep(r)
    PROVE  FreshInv'
<1>1. STypeOK'
    BY OthersTypes, Zenon DEF FreshInv
<1>2. UNCHANGED <<crashed, spc, reads, seen, cand, found, old>> /\ Step(r)
    BY Zenon DEF WriterStep
<1>3. IndexAnswerIsCurrent'
    BY <1>2, Zenon DEF FreshInv, IndexAnswerIsCurrent
<1>4. ASSUME NEW s \in Searcher PROVE Fresh(s)'
    <2>1. Fresh(s) /\ old[s].all \subseteq past \ {pr}
        BY Zenon DEF FreshInv, Fresh
    <2>2. old[s].all \subseteq past' \ {pr'}
        BY <1>2, <2>1, PrimaryMovesOn, Zenon
    <2> QED BY <1>2, <2>1, <2>2, FreshFrame, Zenon
<1> QED BY <1>1, <1>3, <1>4, Zenon DEF FreshInv

(* The slot READ from a replica has not been replaced before the search. *)
LEMMA SlotIsCurrent ==
    ASSUME IInv, NEW s \in Searcher, Fresh(s), NEW i \in Replicas
    PROVE  Slot(i) \notin old[s].all
BY Zenon DEF Slot, Replicas, Fresh, IInv, BackupsNeverLag

(* The READs of a search. *)
LEMMA ReadFresh ==
    ASSUME IInv, FreshInv, NEW t \in Searcher,
           \/ kv_search_read_buckets(t)
           \/ \E i \in Replicas : ReadBucket(t, i)
           \/ ReadCached(t)
    PROVE  FreshInv'
<1>0. STypeOK /\ Fresh(t) /\ TypeOK
    BY Zenon DEF FreshInv, IInv
<1>1. STypeOK'
    BY <1>0, ReadTypes, Zenon
<1>2. /\ UNCHANGED <<pr, past, crashed, cand, found>>
      /\ spc'[t] = "buckets"
      /\ \A s \in Searcher \ {t} :
            old'[s] = old[s] /\ reads'[s] = reads[s] /\ spc'[s] = spc[s] /\ seen'[s] = seen[s]
    <2>1. CASE kv_search_read_buckets(t)
        BY <1>0, <2>1, Zenon DEF kv_search_read_buckets, vars, mem, STypeOK
    <2>2. CASE ReadCached(t) \/ \E i \in Replicas : ReadBucket(t, i)
        BY <1>0, <2>2, Zenon DEF ReadCached, ReadBucket, vars, mem, STypeOK, Fresh
    <2> QED BY <2>1, <2>2
<1>3. IndexAnswerIsCurrent'
    BY <1>2 DEF FreshInv, IndexAnswerIsCurrent
<1>4. Batch(t)' = Batch(t) /\ Batch(t) \subseteq Replicas
    BY <1>2, ReplicaTypes, Zenon DEF Batch, failed_pr_index, Healthy
<1>5. Fresh(t)'
    <2>1. CASE kv_search_read_buckets(t)
        <3>1. old'[t].all = past \ {pr} /\ Batch(t) \subseteq reads'[t]
            BY <1>0, <2>1, Zenon DEF kv_search_read_buckets, STypeOK
        <3> QED BY <1>2, <1>4, <3>1, Zenon DEF Fresh
    <2>2. ASSUME NEW i \in Replicas, ReadBucket(t, i) PROVE Fresh(t)'
        <3>1. /\ old' = old /\ seen'[t] = [seen[t] EXCEPT ![i] = Slot(i)]
              /\ reads'[t] = reads[t] \ {i} /\ seen[t] \in [Replicas -> Slots]
              /\ spc[t] = "buckets"
            BY <1>0, <2>2, Zenon DEF ReadBucket, STypeOK, Fresh
        <3>2. Slot(i) \notin old[t].all
            BY <1>0, SlotIsCurrent, Zenon
        <3>3. \A j \in Batch(t) : j \notin reads'[t] => seen'[t][j] \notin old[t].all
            BY <1>0, <1>4, <3>1, <3>2, Zenon DEF Fresh
        <3> QED BY <1>0, <1>2, <1>4, <3>1, <3>3, Zenon DEF Fresh
    <2>3. CASE ReadCached(t)
        <3>1. /\ old' = old /\ seen' = seen /\ reads'[t] = reads[t] \ {CachedBlock}
              /\ spc[t] = "buckets"
            BY <1>0, <2>3, Zenon DEF ReadCached, STypeOK, Fresh
        <3>2. \A j \in Batch(t) : j \notin reads'[t] => j \notin reads[t]
            BY <1>4, <3>1, ReplicaTypes, Zenon
        <3> QED BY <1>0, <1>2, <1>4, <3>1, <3>2, Zenon DEF Fresh
    <2> QED BY <2>1, <2>2, <2>3, Zenon
<1>6. ASSUME NEW s \in Searcher \ {t} PROVE Fresh(s)'
    <2>1. Fresh(s) /\ old[s].all \subseteq past' \ {pr'}
        BY <1>2, Zenon DEF FreshInv, Fresh
    <2> QED BY <1>2, <2>1, FreshFrame, Zenon
<1> QED BY <1>1, <1>3, <1>5, <1>6, Zenon DEF FreshInv

(* In a workload of one key every block holds it. *)
LEMMA BlocksHoldKey ==
    ASSUME SameKey, NEW v \in Slots, v # 0
    PROVE  HoldsKey(v, SearchKey)
<1>1. \A r \in Req : Kind[r] = "DELETE" => Target[r] = 0
    BY ConstantsOK, Zenon
<1> QED BY <1>1, Zenon DEF SameKey, HoldsKey, Slots, Values

(* kv_search_check_kv answers from the index with a slot READ in this      *)
(* search, NULL included.                                                  *)
LEMMA AnswerIsFresh ==
    ASSUME SameKey, SomeHealthy, STypeOK, NEW t \in Searcher, Fresh(t), spc[t] = "kv", NEW v,
           \/ v \in cand[t] /\ HoldsKey(v, SearchKey)
           \/ v = 0 /\ NoMatch(t) /\ 0 \notin cand[t],
           Source(t, v) \in {"primary", "backups"}
    PROVE  v \notin old[t].all
<1>1. \A i \in Batch(t) : seen[t][i] \notin old[t].all
    BY Zenon DEF Fresh
<1>2. v = 0 => cand[t] = {}
    <2>1. cand[t] \subseteq Slots
        BY Zenon DEF STypeOK
    <2> QED BY <2>1, BlocksHoldKey, Zenon DEF NoMatch, HoldsKey
<1>3. v # 0 => v \in cand[t]
    OBVIOUS
<1>4. CASE ~failed_pr_index(t)
    BY <1>1, <1>2, <1>3, <1>4, Zenon DEF Fresh, Batch
<1>5. CASE failed_pr_index(t)
    <2>1. Batch(t) = Healthy /\ Agreed(t) \subseteq cand[t]
        BY <1>5, Zenon DEF Batch, Fresh
    <2>2. CASE v = 0
        <3>1. Showing(t) = {}
            BY <1>2, <2>1, <2>2, Zenon DEF Agreed
        <3>2. FirstRead(t) \in Healthy
            BY <2>1, FirstIsRead, Zenon
        <3>3. seen[t][FirstRead(t)] = 0
            BY <3>1, <3>2, Zenon DEF Showing
        <3> QED BY <1>1, <2>1, <2>2, <3>2, <3>3, Zenon
    <2>3. CASE v # 0
        <3>1. v = Consensus(t)
            BY <1>5, <2>3, Zenon DEF Source, Agreed
        <3> QED BY <1>1, <2>1, <2>3, <3>1, ConsensusIsSeen, Zenon
    <2> QED BY <2>2, <2>3
<1> QED BY <1>4, <1>5

(* The end of a search. *)
LEMMA AnswerFresh ==
    ASSUME SameKey, SomeHealthy, IInv, FreshInv, NEW t \in Searcher,
           kv_search_read_kv(t) \/ kv_search_check_kv(t)
    PROVE  FreshInv'
<1>0. STypeOK /\ Fresh(t) /\ TypeOK
    BY Zenon DEF FreshInv, IInv
<1>1. STypeOK'
    BY <1>0, AnswerTypes, Zenon
<1>2. /\ UNCHANGED <<pr, past, crashed, reads, seen, old>>
      /\ \A s \in Searcher \ {t} : spc'[s] = spc[s] /\ cand'[s] = cand[s] /\ found'[s] = found[s]
    <2>1. CASE kv_search_read_kv(t)
        BY <1>0, <2>1, Zenon DEF kv_search_read_kv, vars, mem, STypeOK, End, Die
    <2>2. CASE kv_search_check_kv(t)
        BY <1>0, <2>2, Zenon DEF kv_search_check_kv, vars, mem, STypeOK, End, Die
    <2> QED BY <2>1, <2>2
<1>3. /\ failed_pr_index(t)' = failed_pr_index(t) /\ Batch(t)' = Batch(t) /\ Agreed(t)' = Agreed(t)
    BY <1>2, SameVote, Zenon
<1>4. /\ Fresh(t)'
      /\ spc'[t] = "idle" /\ found'[t].from \in {"primary", "backups"}
            => found'[t].v \notin old[t].all
    <2>1. CASE kv_search_read_kv(t) /\ FromCache(t)
        <3>1. spc'[t] = "idle" /\ found'[t].from = "cache" /\ reads[t] = {}
            BY <1>0, <2>1 DEF kv_search_read_kv, STypeOK, End
        <3> QED BY <1>0, <1>2, <3>1, Zenon DEF Fresh
    <2>2. CASE kv_search_read_kv(t) /\ ~FromCache(t)
        <3>1. /\ reads[t] = {} /\ spc[t] = "buckets"
              /\ spc'[t] = "dead" \/ (spc'[t] = "kv" /\ cand'[t] = Candidates(t))
            BY <1>0, <2>2, Zenon DEF kv_search_read_kv, STypeOK, Die
        <3>2. CASE spc'[t] = "dead"
            BY <1>0, <1>2, <3>1, <3>2, Zenon DEF Fresh
        <3>3. CASE spc'[t] = "kv" /\ cand'[t] = Candidates(t)
            BY <1>0, <1>2, <1>3, <3>1, <3>3, Zenon DEF Fresh, Candidates
        <3> QED BY <3>1, <3>2, <3>3
    <2>3. CASE kv_search_check_kv(t)
        <3>1. spc[t] = "kv" /\ reads[t] = {} /\ spc'[t] \in {"idle", "dead"}
            BY <1>0, <2>3, Zenon DEF kv_search_check_kv, STypeOK, Fresh, End, Die
        <3>2. Fresh(t)'
            BY <1>0, <1>2, <3>1, Zenon DEF Fresh
        <3>3. \/ spc' = [spc EXCEPT ![t] = "dead"]
              \/ \E v : /\ \/ v \in cand[t] /\ HoldsKey(v, SearchKey)
                           \/ v = 0 /\ NoMatch(t) /\ 0 \notin cand[t]
                        /\ found' = [found EXCEPT ![t] = [v |-> v, from |-> Source(t, v)]]
            BY <2>3, Zenon DEF kv_search_check_kv, End, Die
        <3>4. CASE spc' = [spc EXCEPT ![t] = "dead"]
            BY <1>0, <3>2, <3>4, Zenon DEF STypeOK
        <3>5. ASSUME NEW v, found' = [found EXCEPT ![t] = [v |-> v, from |-> Source(t, v)]]
              PROVE  found'[t].v = v /\ found'[t].from = Source(t, v)
            <4>1. found'[t] = [v |-> v, from |-> Source(t, v)]
                BY <1>0, <3>5, Zenon DEF STypeOK
            <4> QED BY <4>1
        <3> QED BY <1>0, <3>1, <3>2, <3>3, <3>4, <3>5, AnswerIsFresh, Zenon
    <2> QED BY <2>1, <2>2, <2>3, Zenon
<1>5. IndexAnswerIsCurrent'
    BY <1>2, <1>4, Zenon DEF FreshInv, IndexAnswerIsCurrent
<1>6. ASSUME NEW s \in Searcher \ {t} PROVE Fresh(s)'
    <2>1. Fresh(s) /\ old[s].all \subseteq past' \ {pr'}
        BY <1>2, Zenon DEF FreshInv, Fresh
    <2> QED BY <1>2, <2>1, FreshFrame, Zenon
<1> QED BY <1>1, <1>4, <1>5, <1>6, Zenon DEF FreshInv

(* crash_server is called when no search is under way. *)
LEMMA CrashFresh ==
    ASSUME FreshInv, crash_server \/ UNCHANGED allvars
    PROVE  FreshInv'
<1>1. STypeOK'
    BY OthersTypes, Zenon DEF FreshInv, allvars
<1>2. UNCHANGED <<pr, past, cache, spc, reads, seen, cand, found, old>>
    BY Zenon DEF crash_server, allvars, svars, vars, mem
<1>3. IndexAnswerIsCurrent'
    BY <1>2, Zenon DEF FreshInv, IndexAnswerIsCurrent
<1>4. ASSUME NEW s \in Searcher PROVE Fresh(s)'
    <2>1. Fresh(s) /\ old[s].all \subseteq past' \ {pr'}
        BY <1>2, Zenon DEF FreshInv, Fresh
    <2>2. CASE crash_server
        <3>1. spc[s] \notin {"buckets", "kv"}
            BY <2>2, Zenon DEF crash_server
        <3> QED BY <1>2, <2>1, <3>1, Zenon DEF Fresh
    <2>3. CASE UNCHANGED allvars
        BY <1>2, <2>1, <2>3, FreshFrame, Zenon DEF allvars, svars
    <2> QED BY <2>2, <2>3
<1> QED BY <1>1, <1>3, <1>4, Zenon DEF FreshInv

(* The writers keep the protocol's invariant beside the searches, which    *)
(* only READ.                                                              *)
THEOREM WritersUndisturbed ==
    ASSUME NoReuse, Backups # {}
    PROVE  SSpec => []IInv
<1>1. SInit => IInv
    BY InitIInv, Zenon DEF SInit
<1>2. [SNext]_allvars => [Next]_vars
    BY Zenon DEF SNext, SearchStep, WriterStep, kv_search_read_buckets, ReadBucket, ReadCached,
       kv_search_read_kv, kv_search_check_kv, crash_server, SFinished, allvars, Next
<1>3. IInv /\ [SNext]_allvars => IInv'
    BY <1>2, StepIInv, Zenon
<1> QED BY <1>1, <1>3, PTL DEF SSpec

(* FreshInv is inductive beside IInv. *)
THEOREM FreshInvHolds ==
    ASSUME NoReuse, Backups # {}, SameKey, SomeHealthy
    PROVE  SSpec => []FreshInv
<1>1. SInit => FreshInv
    <2> SUFFICES ASSUME SInit PROVE FreshInv
        OBVIOUS
    <2>1. STypeOK
        BY InitTypes
    <2>2. IndexAnswerIsCurrent
        BY DEF SInit, IndexAnswerIsCurrent
    <2>3. ASSUME NEW s \in Searcher PROVE Fresh(s)
        <3>1. spc[s] = "idle" /\ reads[s] = {} /\ old[s].all = {}
            BY Zenon DEF SInit
        <3> QED BY <3>1, Zenon DEF Fresh
    <2> QED BY <2>1, <2>2, <2>3, Zenon DEF FreshInv
<1>2. IInv /\ FreshInv /\ [SNext]_allvars => FreshInv'
    BY WriterFresh, ReadFresh, AnswerFresh, CrashFresh, Zenon DEF SNext, SearchStep, SFinished
<1> QED BY <1>1, <1>2, WritersUndisturbed, PTL DEF SSpec

(* kv_search, kv_search_sync and kv_search_on_crash never answer from the  *)
(* index with a value that had left the primary before the search began,   *)
(* for any number of writers, searchers and backups, whether the buckets   *)
(* come from the primary or from a vote of the backups that survive it.    *)
THEOREM IndexAnswersAreCurrent ==
    ASSUME NoReuse, Backups # {}, SameKey, SomeHealthy
    PROVE  SSpec => []IndexAnswerIsCurrent
<1>1. FreshInv => IndexAnswerIsCurrent
    BY DEF FreshInv
<1> QED BY <1>1, FreshInvHolds, PTL

-----------------------------------------------------------------------------
(* Answers from the address cache. *)

(* What a writer's step does to is_valid and to what Retired looks at. *)
Begins(r) ==
    /\ pc[r] = "start" /\ pc'[r] \in {"match", "done"}
    /\ valid' = valid \/ valid' = valid \cup ({Target[r]} \ {0})
    /\ UNCHANGED <<past, swapped, prq>>
Posts(r) ==
    /\ pc[r] = "match" /\ pc'[r] # "prq"
    /\ Kind[r] = "INSERT" /\ pc'[r] # "done" => orig[r] = 0
    /\ UNCHANGED <<past, valid, orig, swapped, prq>>
Proceeds(r) ==
    /\ pc[r] \notin {"start", "match", "done", "exit", "hang"}
    /\ pc'[r] = "prq" => pc[r] = "prq"
    /\ UNCHANGED <<past, valid, orig, swapped, prq>>
Rests(q) ==
    /\ pc'[q] = pc[q] /\ orig'[q] = orig[q] /\ swapped'[q] = swapped[q] /\ prq'[q] = prq[q]
    /\ ret'[q] = ret[q] /\ posted'[q] = posted[q] /\ cons'[q] = cons[q]

LEMMA WriterShape ==
    ASSUME TypeOK, NEW r \in Req, Step(r)
    PROVE  /\ \A q \in Req \ {r} : Rests(q)
           /\ Begins(r) \/ Posts(r) \/ Proceeds(r) \/ PostPrimary(r) \/ CasPrimary(r) \/ WriteInvalid(r)
<1>0. /\ pc \in [Req -> PCs] /\ orig \in [Req -> Values \cup {0}]
      /\ swapped \in [Req -> BOOLEAN] /\ prq \in [Req -> SUBSET {"cas", "inv"}]
      /\ ret \in [Req -> [Backups -> Values \cup {None}]] /\ posted \in [Req -> SUBSET Backups]
      /\ cons \in [Req -> ConsensusStates]
    BY Zenon DEF TypeOK
<1>1. CASE \/ kv_insert_read_buckets_and_write_kv(r)
           \/ kv_update_read_buckets_and_write_kv(r)
           \/ kv_delete_read_buckets_write_log(r)
    <2>1. \A q \in Req \ {r} : Rests(q)
        BY <1>0, <1>1, Zenon DEF Rests, kv_insert_read_buckets_and_write_kv,
           kv_update_read_buckets_and_write_kv, kv_delete_read_buckets_write_log, Return, Goto
    <2>2. Begins(r)
        BY <1>0, <1>1, Zenon DEF Begins, kv_insert_read_buckets_and_write_kv,
           kv_update_read_buckets_and_write_kv, kv_delete_read_buckets_write_log, Return, Goto,
           WriteKV
    <2> QED BY <2>1, <2>2
<1>2. CASE \/ kv_insert_backup_consensus_0(r)
           \/ kv_update_backup_consensus_0(r)
           \/ kv_delete_backup_consensus_0(r)
    <2>1. \A q \in Req \ {r} : Rests(q)
        BY <1>0, <1>2, Zenon DEF Rests, kv_insert_backup_consensus_0, kv_update_backup_consensus_0,
           kv_delete_backup_consensus_0, PostBackups, Return, Goto
    <2>2. Posts(r)
        BY <1>0, <1>2, Zenon DEF Posts, kv_insert_backup_consensus_0, kv_update_backup_consensus_0,
           kv_delete_backup_consensus_0, PostBackups, Return, Goto, mem
    <2> QED BY <2>1, <2>2
<1>3. ASSUME NEW st, Decide(r, st), UNCHANGED <<mem, orig, ret, swapped, prq>>, pc[r] \in {"bk0", "readpr"}
      PROVE  (\A q \in Req \ {r} : Rests(q)) /\ Proceeds(r)
    BY <1>0, <1>3, Zenon DEF Rests, Proceeds, Decide, Lose, AfterLoss, Goto, mem
<1>4. CASE modify_backup_idx_consensus_1(r) \/ ReadPrimary(r)
    BY <1>0, <1>3, <1>4, Zenon DEF modify_backup_idx_consensus_1, ReadPrimary, Goto, Rests, Proceeds, mem
<1>5. CASE (\E b \in Backups : CasBackup(r, b) \/ CasRest(r, b)) \/ EndRest(r) \/ WaitPrimary(r)
    BY <1>0, <1>5, Zenon DEF CasBackup, CasRest, EndRest, WaitPrimary, Goto, Lose, AfterLoss,
       Rests, Proceeds, mem
<1>6. CASE kv_log_commit(r) \/ modify_primary_idx(r)
    BY <1>0, <1>6, Zenon DEF kv_log_commit, modify_primary_idx, Goto, Return, Rests, Proceeds, mem
<1>7. CASE PostPrimary(r) \/ CasPrimary(r) \/ WriteInvalid(r)
    BY <1>0, <1>7, Zenon DEF PostPrimary, CasPrimary, WriteInvalid, Goto, Return, Rests
<1> QED BY <1>1, <1>2, <1>4, <1>5, <1>6, <1>7, Zenon DEF Step

(* A request that reached the primary replaces a value it has held. *)
LEMMA ReplacedIsPast ==
    ASSUME Backups # {}, IInv, NEW q \in Req, pc[q] = "prq" \/ swapped[q]
    PROVE  orig[q] \in past
<1>1. Control(q) /\ Value(q)
    BY Zenon DEF IInv, ControlInv, ValueInv
<1>2. cons[q] # "NON"
    BY <1>1, Zenon DEF Control, Won, Wins
<1> QED BY <1>1, <1>2, Zenon DEF Control, Value

(* A block whose header was cleared is not written again: only blocks the  *)
(* primary has never shown are.                                            *)
LEMMA WriterValid ==
    ASSUME IInv, NEW r \in Req, Step(r), NEW v \in past, v \notin valid
    PROVE  v \notin valid'
<1>1. CASE Begins(r)
    <2>1. Control(r) /\ Value(r)
        BY Zenon DEF IInv, ControlInv, ValueInv
    <2>2. Target[r] \notin past
        BY <1>1, <2>1, Zenon DEF Control, Value, Begins
    <2> QED BY <1>1, <2>2, Zenon DEF Begins
<1>2. TypeOK
    BY DEF IInv
<1>3. CASE ~Begins(r)
    BY <1>2, <1>3, WriterShape, Zenon DEF Posts, Proceeds, PostPrimary, mem, CasPrimary, WriteInvalid
<1> QED BY <1>1, <1>3

LEMMA WriterRetired ==
    ASSUME Backups # {}, IInv, 0 \notin valid, \A q \in Req : Retired(q), NEW r \in Req, Step(r)
    PROVE  0 \notin valid' /\ \A q \in Req : Retired(q)'
<1>0. TypeOK /\ Control(r) /\ Retired(r)
    BY Zenon DEF IInv, ControlInv
<1>1. 0 \notin valid'
    BY <1>0, WriterShape, Zenon DEF Begins, Posts, Proceeds, PostPrimary, mem, CasPrimary, WriteInvalid
<1>2. ASSUME NEW q \in Req \ {r} PROVE Retired(q)'
    <2>1. Rests(q) /\ Retired(q)
        BY <1>0, WriterShape, Zenon
    <2>2. (pc[q] = "prq" \/ swapped[q]) /\ orig[q] \notin valid => orig[q] \notin valid'
        BY ReplacedIsPast, WriterValid, Zenon
    <2> QED BY <2>1, <2>2, Zenon DEF Retired, Rests
<1>3. Retired(r)'
    <2>1. CASE Begins(r)
        <3>1. ~swapped'[r]
            BY <1>0, <2>1, Zenon DEF Control, Begins
        <3> QED BY <2>1, <3>1, Zenon DEF Retired, Begins
    <2>2. CASE Posts(r)
        <3>1. ~swapped'[r]
            BY <1>0, <2>2, Zenon DEF Control, Posts
        <3> QED BY <2>2, <3>1, Zenon DEF Retired, Posts
    <2>3. CASE Proceeds(r)
        BY <1>0, <2>3, Zenon DEF Retired, Proceeds
    <2>4. CASE PostPrimary(r)
        <3>1. /\ UNCHANGED <<valid, orig, swapped>> /\ pc[r] = "pr" /\ ~swapped[r]
              /\ \/ pc'[r] = "done"
                 \/ pc'[r] = "prq" /\ prq'[r] = IF Kind[r] = "INSERT" THEN {"cas"} ELSE {"cas", "inv"}
            BY <1>0, <2>4, Zenon DEF PostPrimary, mem, Goto, Return, TypeOK, Control
        <3> QED BY <1>0, <1>1, <3>1, Zenon DEF Retired
    <2>5. CASE CasPrimary(r)
        <3>1. /\ UNCHANGED <<valid, orig, pc>> /\ pc[r] = "prq" /\ prq'[r] = prq[r] \ {"cas"}
            BY <1>0, <2>5, Zenon DEF CasPrimary, TypeOK
        <3> QED BY <1>0, <3>1, Zenon DEF Retired
    <2>6. CASE WriteInvalid(r)
        <3>1. /\ UNCHANGED <<orig, pc>> /\ pc[r] = "prq" /\ valid' = valid \ {orig[r]}
            BY <2>6, Zenon DEF WriteInvalid
        <3> QED BY <1>0, <3>1, Zenon DEF Retired
    <2> QED BY <1>0, <2>1, <2>2, <2>3, <2>4, <2>5, <2>6, WriterShape, Zenon
<1> QED BY <1>1, <1>2, <1>3, Zenon

(* update_cache points an entry to the first data replica. *)
LEMMA NotMoved ==
    ASSUME NEW e \in Entry, ~e.moved, NEW v \in Slots
    PROVE  ~update_cache(e, v).moved /\ ~NoEntry.moved
<1>1. e \in [ptr : Slots, moved : BOOLEAN, miss : Nat, acc : Nat]
    BY DEF Entry
<1> QED BY <1>1 DEF update_cache, NoEntry

(* The writers beside a search. *)
LEMMA WriterLive ==
    ASSUME Backups # {}, IInv, LiveInv, NEW r \in Req, WriterStep(r)
    PROVE  LiveInv'
<1>0. STypeOK /\ 0 \notin valid /\ (\A q \in Req : Retired(q)) /\ Step(r)
    BY Zenon DEF LiveInv, WriterStep
<1>1. STypeOK'
    BY <1>0, OthersTypes, Zenon
<1>2. 0 \notin valid' /\ \A q \in Req : Retired(q)'
    BY <1>0, WriterRetired, Zenon
<1>3. UNCHANGED <<spc, hit, reads, alive, found, old>>
    BY Zenon DEF WriterStep
<1>4. CacheAnswerIsValid'
    BY <1>3, Zenon DEF LiveInv, CacheAnswerIsValid
<1>5. ASSUME NEW s \in Searcher PROVE Lively(s)'
    <2>1. Lively(s) /\ cache[s] \in Entry /\ Target[r] \in Slots
        BY <1>0, RequestTypes, Zenon DEF LiveInv, STypeOK, Slots
    <2>2. old[s].told \subseteq past' \ valid'
        BY <1>0, <2>1, PrimaryMovesOn, WriterValid, Zenon DEF Lively
    <2>3. ~cache'[s].moved
        BY <2>1, NotMoved, Zenon DEF WriterStep, Lively
    <2> QED BY <1>3, <2>1, <2>2, <2>3, Zenon DEF Lively
<1> QED BY <1>1, <1>2, <1>4, <1>5, Zenon DEF LiveInv

(* A search begins: whoever has returned has cleared is_valid. *)
LEMMA BeginLive ==
    ASSUME NotRedirected, Backups # {}, IInv, LiveInv, NEW t \in Searcher, kv_search_read_buckets(t)
    PROVE  LiveInv'
<1>0. STypeOK /\ TypeOK /\ Lively(t) /\ (\A q \in Req : Retired(q))
    BY Zenon DEF LiveInv, IInv
<1>1. STypeOK'
    BY <1>0, ReadTypes, Zenon
<1>2. UNCHANGED <<pr, past, valid, pc, orig, prq, swapped, alive, found>>
    BY Zenon DEF kv_search_read_buckets, vars, mem, ctx
<1>3. 0 \notin valid' /\ \A q \in Req : Retired(q)'
    BY <1>2, Zenon DEF LiveInv, Retired
<1>4. /\ spc'[t] = "buckets"
      /\ \A s \in Searcher \ {t} : /\ spc'[s] = spc[s] /\ old'[s] = old[s] /\ reads'[s] = reads[s]
                                   /\ hit'[s] = hit[s] /\ cache'[s] = cache[s]
    BY <1>0, Zenon DEF kv_search_read_buckets, STypeOK
<1>5. CacheAnswerIsValid'
    BY <1>2, <1>4 DEF LiveInv, CacheAnswerIsValid
<1>6. Lively(t)'
    <2>1. old'[t].told = {orig[r] : r \in {q \in Req : pc[q] = "done" /\ swapped[q]}}
        BY <1>0, Zenon DEF kv_search_read_buckets, STypeOK
    <2>2. ASSUME NEW r \in Req, pc[r] = "done", swapped[r] PROVE orig[r] \in past \ valid
        <3>1. prq[r] = {}
            BY <2>2, Zenon DEF IInv, ControlInv, Control
        <3> QED BY <1>0, <2>2, <3>1, ReplacedIsPast, Zenon DEF Retired
    <2>3. old'[t].told \subseteq past' \ valid'
        BY <1>2, <2>1, <2>2, Zenon
    <2>4. ~cache'[t].moved
        BY <1>0, Zenon DEF kv_search_read_buckets, STypeOK, Lively, check_failed_cache, NotRedirected
    <2>5. ~hit'[t].moved /\ (CachedBlock \notin reads'[t] => hit'[t].ptr = 0)
        <3>1. CASE check_cache(cache[t])
            <4>1. hit'[t] = [ptr |-> cache'[t].ptr, moved |-> cache'[t].moved] /\ CachedBlock \in reads'[t]
                BY <1>0, <3>1, Zenon DEF kv_search_read_buckets, STypeOK
            <4> QED BY <2>4, <4>1
        <3>2. CASE ~check_cache(cache[t])
            <4>1. hit'[t] = NoHit
                BY <1>0, <3>2, Zenon DEF kv_search_read_buckets, STypeOK
            <4> QED BY <4>1 DEF NoHit
        <3> QED BY <3>1, <3>2
    <2> QED BY <1>4, <2>3, <2>4, <2>5, Zenon DEF Lively
<1>7. ASSUME NEW s \in Searcher \ {t} PROVE Lively(s)'
    <2>1. Lively(s)
        BY Zenon DEF LiveInv
    <2> QED BY <1>2, <1>4, <2>1, Zenon DEF Lively
<1> QED BY <1>1, <1>3, <1>5, <1>6, <1>7, Zenon DEF LiveInv

(* The READs of the batch, and the end of a search. *)
LEMMA SearchLive ==
    ASSUME SomeHealthy, IInv, LiveInv, NEW t \in Searcher,
           \/ ReadCached(t) \/ \E i \in Replicas : ReadBucket(t, i)
           \/ kv_search_read_kv(t) \/ kv_search_check_kv(t)
    PROVE  LiveInv'
<1>0. STypeOK /\ TypeOK /\ Lively(t) /\ cache[t] \in Entry
    BY Zenon DEF LiveInv, IInv, STypeOK
<1>1. STypeOK'
    BY <1>0, ReadTypes, AnswerTypes, Zenon
<1>2. UNCHANGED <<pr, past, valid, pc, orig, prq, swapped, hit, old>>
    BY Zenon DEF ReadCached, ReadBucket, kv_search_read_kv, kv_search_check_kv, vars, mem, ctx
<1>3. 0 \notin valid' /\ \A q \in Req : Retired(q)'
    BY <1>2, Zenon DEF LiveInv, Retired
<1>4. \A s \in Searcher \ {t} : /\ spc'[s] = spc[s] /\ reads'[s] = reads[s] /\ alive'[s] = alive[s]
                                /\ cache'[s] = cache[s] /\ found'[s] = found[s]
    <2>1. CASE ReadCached(t) \/ \E i \in Replicas : ReadBucket(t, i)
        BY <1>0, <2>1, Zenon DEF ReadCached, ReadBucket, STypeOK
    <2>2. CASE kv_search_read_kv(t)
        BY <1>0, <2>2, Zenon DEF kv_search_read_kv, STypeOK, End, Die
    <2>3. CASE kv_search_check_kv(t)
        BY <1>0, <2>3, Zenon DEF kv_search_check_kv, STypeOK, End, Die
    <2> QED BY <2>1, <2>2, <2>3
<1>5. /\ Lively(t)'
      /\ spc'[t] = "idle" /\ found'[t].from = "cache" => found'[t].v \notin old[t].told
    <2>1. CASE ReadCached(t)
        <3>1. /\ spc' = spc /\ cache' = cache /\ found' = found
              /\ alive'[t] = (hit[t].moved \/ hit[t].ptr \in valid)
              /\ reads'[t] = reads[t] \ {CachedBlock} /\ spc[t] = "buckets"
            BY <1>0, <2>1, Zenon DEF ReadCached, STypeOK, Lively
        <3>2. alive'[t] => hit[t].ptr \notin old[t].told
            BY <1>0, <3>1, Zenon DEF Lively
        <3> QED BY <1>0, <1>2, <3>1, <3>2, Zenon DEF Lively
    <2>2. ASSUME NEW i \in Replicas, ReadBucket(t, i)
          PROVE  /\ Lively(t)'
                 /\ spc'[t] = "idle" /\ found'[t].from = "cache" => found'[t].v \notin old[t].told
        <3>1. /\ spc' = spc /\ cache' = cache /\ found' = found /\ alive' = alive
              /\ reads'[t] = reads[t] \ {i} /\ i # CachedBlock
            BY <1>0, <2>2, ReplicaTypes, Zenon DEF ReadBucket, STypeOK
        <3> QED BY <1>0, <1>2, <3>1, Zenon DEF Lively, LiveInv, CacheAnswerIsValid
    <2>3. CASE kv_search_read_kv(t)
        <3>1. /\ reads' = reads /\ reads[t] = {} /\ spc[t] = "buckets" /\ alive' = alive
              /\ cache'[t].moved = cache[t].moved
            <4>1. \/ cache'[t] = cache[t]
                  \/ cache'[t] = [cache[t] EXCEPT !.acc = IF cache[t] = NoEntry THEN 0 ELSE @ + 1]
                BY <1>0, <2>3, Zenon DEF kv_search_read_kv, STypeOK
            <4>2. cache'[t].moved = cache[t].moved
                BY <1>0, <4>1 DEF Entry
            <4> QED BY <2>3, <4>2, Zenon DEF kv_search_read_kv
        <3>2. \/ spc'[t] \in {"dead", "kv"}
              \/ FromCache(t) /\ spc'[t] = "idle" /\ found'[t] = [v |-> hit[t].ptr, from |-> "cache"]
            BY <1>0, <2>3, Zenon DEF kv_search_read_kv, STypeOK, End, Die
        <3>3. FromCache(t) => hit[t].ptr \notin old[t].told
            BY <1>0, <3>1, Zenon DEF FromCache, HoldsKey, Lively
        <3>4. Lively(t)'
            BY <1>0, <1>2, <3>1, <3>2, Zenon DEF Lively
        <3> QED BY <3>2, <3>3, <3>4
    <2>4. CASE kv_search_check_kv(t)
        <3>1. spc'[t] \in {"idle", "dead"} /\ reads' = reads /\ spc[t] = "kv"
            BY <1>0, <2>4, Zenon DEF kv_search_check_kv, STypeOK, End, Die
        <3>2. ~cache'[t].moved
            <4>1. seen[t][FirstRead(t)] \in Slots
                <5>1. FirstRead(t) \in Replicas /\ seen[t] \in [Replicas -> Slots]
                    BY <1>0, FirstIsRead, Zenon DEF STypeOK
                <5> QED BY <5>1, Zenon
            <4>2. ~update_cache(cache[t], seen[t][FirstRead(t)]).moved
                BY <1>0, <4>1, NotMoved, Zenon DEF Lively
            <4> QED BY <1>0, <2>4, <4>2, Zenon DEF kv_search_check_kv, STypeOK, Lively
        <3>3. Lively(t)'
            BY <1>0, <1>2, <3>1, <3>2, Zenon DEF Lively
        <3>4. \/ spc' = [spc EXCEPT ![t] = "dead"]
              \/ \E v : found' = [found EXCEPT ![t] = [v |-> v, from |-> Source(t, v)]]
            BY <2>4, Zenon DEF kv_search_check_kv, End, Die
        <3>5. CASE spc' = [spc EXCEPT ![t] = "dead"]
            BY <1>0, <3>3, <3>5, Zenon DEF STypeOK
        <3>6. ASSUME NEW v, found' = [found EXCEPT ![t] = [v |-> v, from |-> Source(t, v)]]
              PROVE  found'[t].from # "cache"
            <4>1. found'[t] = [v |-> v, from |-> Source(t, v)]
                BY <1>0, <3>6, Zenon DEF STypeOK
            <4>2. found'[t].from = Source(t, v)
                BY <4>1
            <4>3. Source(t, v) \in {"primary", "backups", "carried"}
                BY Zenon DEF Source
            <4> QED BY <4>2, <4>3
        <3> QED BY <3>3, <3>4, <3>5, <3>6, Zenon
    <2> QED BY <2>1, <2>2, <2>3, <2>4, Zenon
<1>6. CacheAnswerIsValid'
    BY <1>2, <1>4, <1>5, Zenon DEF LiveInv, CacheAnswerIsValid
<1>7. ASSUME NEW s \in Searcher \ {t} PROVE Lively(s)'
    <2>1. Lively(s)
        BY Zenon DEF LiveInv
    <2> QED BY <1>2, <1>4, <2>1, Zenon DEF Lively
<1> QED BY <1>1, <1>3, <1>5, <1>6, <1>7, Zenon DEF LiveInv

(* LiveInv is inductive beside IInv. *)
THEOREM LiveInvHolds ==
    ASSUME NoReuse, Backups # {}, SomeHealthy, NotRedirected
    PROVE  SSpec => []LiveInv
<1>1. SInit => LiveInv
    <2> SUFFICES ASSUME SInit PROVE LiveInv
        OBVIOUS
    <2>1. STypeOK
        BY InitTypes
    <2>2. CacheAnswerIsValid
        BY DEF SInit, CacheAnswerIsValid
    <2>3. ASSUME NEW r \in Req PROVE Retired(r)
        <3>1. pc[r] = "start" /\ swapped[r] = FALSE
            BY Zenon DEF SInit, Init
        <3> QED BY <3>1, Zenon DEF Retired
    <2>4. ASSUME NEW s \in Searcher PROVE Lively(s)
        <3>1. spc[s] = "idle" /\ reads[s] = {} /\ old[s].told = {} /\ hit[s] = NoHit
            BY Zenon DEF SInit
        <3>2. cache[s] = NoEntry \/ cache[s] = [ptr |-> InitSlot, moved |-> FALSE, miss |-> 0, acc |-> 1]
            BY Zenon DEF SInit
        <3>3. ~cache[s].moved /\ ~hit[s].moved
            BY <3>1, <3>2 DEF NoEntry, NoHit
        <3> QED BY <3>1, <3>3, Zenon DEF Lively
    <2>5. 0 \notin valid
        BY Zenon DEF SInit, Init
    <2> QED BY <2>1, <2>2, <2>3, <2>4, <2>5, Zenon DEF LiveInv
<1>2. ASSUME LiveInv, crash_server \/ UNCHANGED allvars PROVE LiveInv'
    <2>1. STypeOK'
        BY <1>2, OthersTypes, Zenon DEF LiveInv, allvars
    <2>2. /\ UNCHANGED <<past, valid, pc, orig, prq, swapped>>
          /\ UNCHANGED <<cache, spc, hit, reads, alive, found, old>>
        BY <1>2, Zenon DEF crash_server, allvars, svars, vars, mem, ctx
    <2>3. CacheAnswerIsValid' /\ 0 \notin valid'
        BY <1>2, <2>2, Zenon DEF LiveInv, CacheAnswerIsValid
    <2>4. \A r \in Req : Retired(r)'
        BY <1>2, <2>2, Zenon DEF LiveInv, Retired
    <2>5. \A s \in Searcher : Lively(s)'
        BY <1>2, <2>2, Zenon DEF LiveInv, Lively
    <2> QED BY <2>1, <2>3, <2>4, <2>5, Zenon DEF LiveInv
<1>3. IInv /\ LiveInv /\ [SNext]_allvars => LiveInv'
    BY <1>2, WriterLive, BeginLive, SearchLive, Zenon DEF SNext, SearchStep, SFinished
<1> QED BY <1>1, <1>3, WritersUndisturbed, PTL DEF SSpec

(* A search answered from the address cache never returns a block whose    *)
(* replacement a writer had reported before the search began, for any      *)
(* number of writers, searchers and backups, unless the entry was          *)
(* redirected to another data replica.                                     *)
THEOREM CacheAnswersAreValid ==
    ASSUME NoReuse, Backups # {}, SomeHealthy, NotRedirected
    PROVE  SSpec => []CacheAnswerIsValid
<1>1. LiveInv => CacheAnswerIsValid
    BY DEF LiveInv
<1> QED BY <1>1, LiveInvHolds, PTL

-----------------------------------------------------------------------------
(* Answers of the backups that the primary has not shown. *)

(* What a request has on a backup it keeps. *)
LEMMA HasStays ==
    ASSUME IInv, NEW r \in Req, Step(r), NEW q \in Req, NEW b \in Backups, Has(q, b)
    PROVE  Has(q, b)'
<1>0. /\ TypeOK /\ Control(r) /\ orig[r] # None
      /\ ret \in [Req -> [Backups -> Values \cup {None}]] /\ posted \in [Req -> SUBSET Backups]
      /\ cons \in [Req -> ConsensusStates]
    BY ValuesAreNat, Zenon DEF IInv, ControlInv, TypeOK
<1>1. CASE q # r
    <2>1. Rests(q)
        BY <1>0, <1>1, WriterShape, Zenon
    <2> QED BY <2>1, Zenon DEF Rests, Has, Took, Won
<1>2. CASE q = r
    <2>0. pc[r] \notin {"start", "match"}
        BY <1>0, <1>2, Zenon DEF Has, Took, Control, Won, Wins
    <2>1. CASE \E c \in Backups : CasBackup(r, c)
        <3>1. PICK c \in Backups : CasBackup(r, c)
            BY <2>1
        <3>2. ~Won(r) /\ ret[r][c] = None
            BY <1>0, <3>1, Zenon DEF CasBackup, Control, Won, Wins
        <3>3. orig' = orig /\ c # b /\ ret'[r][b] = ret[r][b]
            BY <1>0, <1>2, <3>1, <3>2, Zenon DEF CasBackup, Has, Took
        <3> QED BY <1>2, <3>2, <3>3, Zenon DEF Has, Took
    <2>2. CASE modify_backup_idx_consensus_1(r) \/ ReadPrimary(r)
        <3>1. UNCHANGED <<orig, ret>> /\ ~Won(r)
            BY <1>0, <2>2, Zenon DEF modify_backup_idx_consensus_1, ReadPrimary, Control, Won, Wins
        <3> QED BY <1>2, <3>1, Zenon DEF Has, Took
    <2>3. CASE \E c \in Backups : CasRest(r, c)
        <3>1. UNCHANGED <<orig, ret, cons>> /\ posted'[r] \subseteq posted[r]
            BY <1>0, <2>3, Zenon DEF CasRest
        <3> QED BY <1>2, <3>1, Zenon DEF Has, Took, Won
    <2>4. CASE EndRest(r)
        <3>1. UNCHANGED <<orig, ret, posted>> /\ cons'[r] \in Wins
            BY <1>0, <2>4, Zenon DEF EndRest, Wins
        <3> QED BY <1>2, <3>1, Zenon DEF Has, Took, Won
    <2>5. CASE \/ WaitPrimary(r) \/ kv_log_commit(r) \/ PostPrimary(r) \/ CasPrimary(r)
               \/ WriteInvalid(r) \/ modify_primary_idx(r)
        <3>1. UNCHANGED <<orig, ret, posted, cons>>
            BY <2>5, Zenon DEF WaitPrimary, kv_log_commit, PostPrimary, CasPrimary, WriteInvalid,
               modify_primary_idx
        <3> QED BY <1>2, <3>1, Zenon DEF Has, Took, Won
    <2> QED BY <2>0, <2>1, <2>2, <2>3, <2>4, <2>5, Zenon DEF Step,
           kv_insert_read_buckets_and_write_kv, kv_update_read_buckets_and_write_kv,
           kv_delete_read_buckets_write_log, kv_insert_backup_consensus_0,
           kv_update_backup_consensus_0, kv_delete_backup_consensus_0
<1> QED BY <1>1, <1>2

(* Nobody is stopped beside a search, so who takes every backup wins. *)
LEMMA SweepsStays ==
    ASSUME Backups # {}, IInv, TypeOK', stop = {}, NEW r \in Req, Step(r), NEW q \in Req, Sweeps(q)
    PROVE  Sweeps(q)'
<1>0. TypeOK /\ Control(r)
    BY Zenon DEF IInv, ControlInv
<1>1. CASE q # r
    <2>1. Rests(q)
        BY <1>0, <1>1, WriterShape, Zenon
    <2> QED BY <2>1, Zenon DEF Rests, Sweeps, Took, Won
<1>2. CASE q = r
    <2>1. CASE pc[r] \in {"start", "match"}
        <3>1. UNCHANGED ret
            BY <2>1, Zenon DEF Step, kv_insert_read_buckets_and_write_kv,
               kv_update_read_buckets_and_write_kv, kv_delete_read_buckets_write_log,
               kv_insert_backup_consensus_0, kv_update_backup_consensus_0,
               kv_delete_backup_consensus_0, CasBackup, modify_backup_idx_consensus_1,
               ReadPrimary, CasRest, EndRest, WaitPrimary, kv_log_commit, PostPrimary,
               CasPrimary, WriteInvalid, modify_primary_idx
        <3>2. \A b \in Backups : ret[r][b] = None
            BY <1>0, <2>1, Zenon DEF Control
        <3>3. orig'[r] # None
            BY ValuesAreNat, Zenon DEF TypeOK
        <3>4. PICK b \in Backups : TRUE
            OBVIOUS
        <3>5. ret'[r][b] # orig'[r]
            BY <3>1, <3>2, <3>3, Zenon
        <3> QED BY <1>2, <3>5, Zenon DEF Sweeps, Took
    <2>2. CASE \E c \in Backups : CasBackup(r, c)
        BY <1>2, <2>2, Zenon DEF Sweeps, CasBackup
    <2>3. CASE modify_backup_idx_consensus_1(r)
        <3>1. UNCHANGED <<orig, ret>> /\ Decide(r, check_cas_consensus_0(r))
            BY <2>3, Zenon DEF modify_backup_idx_consensus_1, StopsEarly
        <3>2. ASSUME \A b \in Backups : Took(r, b) PROVE check_cas_consensus_0(r) = "WIN_ALL"
            BY <3>2, Zenon DEF check_cas_consensus_0, Vote, Took
        <3>3. cons'[r] = check_cas_consensus_0(r)
            BY <1>0, <3>1, Zenon DEF Decide, TypeOK
        <3> QED BY <1>2, <3>1, <3>2, <3>3, Zenon DEF Sweeps, Took, Won, Wins
    <2>4. CASE pc[r] \notin {"start", "match", "bk0"}
        <3>1. ASSUME \A b \in Backups : Took(r, b)' PROVE \A b \in Backups : Took(r, b) /\ Won(r)
            <4>1. UNCHANGED <<orig, ret>>
                BY <2>4, Zenon DEF Step, kv_insert_read_buckets_and_write_kv,
                   kv_update_read_buckets_and_write_kv, kv_delete_read_buckets_write_log,
                   kv_insert_backup_consensus_0, kv_update_backup_consensus_0,
                   kv_delete_backup_consensus_0, CasBackup, modify_backup_idx_consensus_1,
                   ReadPrimary, CasRest, EndRest, WaitPrimary, kv_log_commit, PostPrimary,
                   CasPrimary, WriteInvalid, modify_primary_idx
            <4> QED BY <1>2, <2>4, <3>1, <4>1, Zenon DEF Took, Sweeps
        <3>2. Won(r) => Won(r)'
            BY <1>0, <2>4, Zenon DEF Step, kv_insert_read_buckets_and_write_kv,
               kv_update_read_buckets_and_write_kv, kv_delete_read_buckets_write_log,
               kv_insert_backup_consensus_0, kv_update_backup_consensus_0,
               kv_delete_backup_consensus_0, CasBackup, modify_backup_idx_consensus_1,
               ReadPrimary, CasRest, EndRest, WaitPrimary, kv_log_commit, PostPrimary,
               CasPrimary, WriteInvalid, modify_primary_idx, Won, Wins, Control, TypeOK
        <3> QED BY <1>2, <3>1, <3>2, Zenon DEF Sweeps
    <2> QED BY <2>1, <2>2, <2>3, <2>4, Zenon DEF Step, CasRest, EndRest, WaitPrimary,
           ReadPrimary, kv_log_commit, PostPrimary, CasPrimary, WriteInvalid, modify_primary_idx,
           kv_insert_read_buckets_and_write_kv, kv_update_read_buckets_and_write_kv,
           kv_delete_read_buckets_write_log, kv_insert_backup_consensus_0,
           kv_update_backup_consensus_0, kv_delete_backup_consensus_0
<1> QED BY <1>1, <1>2

(* Whoever's value a backup holds has that backup. *)
LEMMA HolderHas ==
    ASSUME IInv, NEW r \in Req, NEW b \in Backups, bk[b] = Target[r]
    PROVE  Has(r, b)
<1>1. Control(r) /\ Value(r)
    BY Zenon DEF IInv, ControlInv, ValueInv
<1>2. Took(r, b) \/ Won(r)
    BY <1>1, Zenon DEF Value
<1>3. CASE Won(r)
    <2>1. CASE swapped[r]
        BY <1>1, <1>3, <2>1, Zenon DEF Control, Has
    <2>2. CASE ~swapped[r]
        BY <1>1, <1>3, <2>2, Zenon DEF IInv, WinnerInv, Value, Has
    <2> QED BY <2>1, <2>2
<1> QED BY <1>2, <1>3, Zenon DEF Has

(* A request that has every backup keeps them until the primary follows:   *)
(* nobody else can have won its version.                                   *)
LEMMA AllHave ==
    ASSUME Backups # {}, IInv, NEW r \in Req, Sweeps(r), Target[r] \notin past,
           \A b \in Backups : Has(r, b)
    PROVE  \A b \in Backups : bk[b] = Target[r]
<1>0. Control(r) /\ Value(r) /\ pr \in past /\ orig[r] # None
    BY ValuesAreNat, Zenon DEF IInv, ControlInv, ValueInv, TypeOK
<1>1. CASE Won(r)
    <2>1. ~swapped[r] /\ orig[r] = pr
        BY <1>0, <1>1, Zenon DEF Value, IInv, WinnerInv
    <2>2. ASSUME NEW b \in Backups, b \in posted[r] PROVE FALSE
        <3>1. Took(r, b) /\ bk[b] = ret[r][b]
            BY <1>1, <2>1, <2>2, Zenon DEF Has, IInv, WinnerInv
        <3> QED BY <1>0, <2>1, <3>1, Zenon DEF Took, IInv, UntouchedInv
    <2> QED BY <1>1, <2>1, <2>2, Zenon DEF IInv, WinnerInv
<1>2. CASE ~Won(r)
    <2>1. (\A b \in Backups : Took(r, b)) /\ pc[r] = "bk0"
        BY <1>2, Zenon DEF Has, Sweeps
    <2>2. TookMajority(r)
        <3>1. TookSet(r) = Backups
            BY <2>1, Zenon DEF TookSet
        <3> QED BY <3>1, Zenon DEF TookMajority, IInv, MajoritiesMeet
    <2>3. orig[r] = pr
        BY <2>1, <2>2, Zenon DEF IInv, CandidateInv
    <2>4. ASSUME NEW w \in Req, CurrentWinner(w) PROVE FALSE
        <3>1. PICK b \in Backups : Took(w, b)
            <4>1. TookSet(w) # {}
                BY <2>4, Zenon DEF CurrentWinner, IInv, WinnerInv, Undecided, TookMajority,
                   MajoritiesMeet, TookSet
            <4> QED BY <4>1, Zenon DEF TookSet
        <3>2. w # r /\ orig[w] = pr /\ ret[w][b] = pr /\ ret[w][b] # None
            BY <1>2, <2>4, <3>1, ValuesAreNat, Zenon DEF CurrentWinner, Took, IInv, TypeOK
        <3>3. \A x \in Req : CurrentWinner(x) => Target[x] \notin past
            BY Zenon DEF IInv, ValueInv, Value, CurrentWinner
        <3>4. ret[w][b] = Target[r] \/ \E x \in Req \ {w} : CurrentWinner(x) /\ ret[w][b] = Target[x]
            BY <2>1, <2>3, <3>2, Zenon DEF IInv, WitnessInv
        <3> QED BY <1>0, <3>2, <3>3, <3>4, Zenon
    <2>5. ASSUME NEW b \in Backups PROVE bk[b] = Target[r]
        <3>1. ret[r][b] # None /\ Left(r, b) = Target[r]
            BY <1>0, <2>1, Zenon DEF Took, Left
        <3> QED BY <2>3, <2>4, <3>1, Zenon DEF IInv, LeftInv
    <2> QED BY <2>5
<1> QED BY <1>1, <1>2

(* When only the primary's server failed and there are at most three       *)
(* backups, the vote finds an address only if all of them show it.         *)
LEMMA VoteIsUnanimous ==
    ASSUME PrimaryFails, SomeHealthy, STypeOK, NEW s \in Searcher, failed_pr_index(s)
    PROVE  /\ Healthy = Backups
           /\ Consensus(s) # 0 => \A i \in Backups : seen[s][i] = Consensus(s)
<1>1. Healthy = Backups
    <2>1. \A i \in Backups : i # 0
        <3>1. \A i \in 1..Cardinality(Backups) : i # 0
            OBVIOUS
        <3> QED BY <3>1, SearchOK, Zenon
    <2> QED BY <2>1, Zenon DEF failed_pr_index, Healthy, Replicas, PrimaryFails
<1>2. 0 \notin Backups /\ 0 \notin Showing(s)
    BY <1>1, Zenon DEF failed_pr_index, Showing
<1>3. Filler(s) = 0
    <2>1. FirstRead(s) = CHOOSE i \in Healthy : \A j \in Healthy : i =< j
        BY Zenon DEF FirstRead
    <2>2. PICK x \in Healthy : \A y \in Healthy : x =< y
        <3>1. Healthy \in SUBSET Nat /\ Healthy # {}
            BY <1>1, ReplicaTypes, FirstIsRead, Zenon DEF Replicas, Batch
        <3> QED BY <3>1, LeastNat, Zenon
    <2>3. FirstRead(s) \in Healthy /\ \A j \in Healthy : FirstRead(s) =< j
        BY <2>1, <2>2, Zenon
    <2>4. {j \in Healthy : j < FirstRead(s)} = {}
        <3>1. \A j \in Healthy : j \in Nat
            BY <1>1, ReplicaTypes, Zenon DEF Replicas
        <3> QED BY <2>3, <3>1
    <2>5. Position(FirstRead(s)) = 0
        BY <2>4, FS_EmptySet, Zenon DEF Position
    <2> QED BY <1>2, <2>5, Zenon DEF Filler
<1>4. VoteOf(s, 0) = 0 /\ 0 \in Voted(s)
    BY <1>2, <1>3, ReplicaTypes, Zenon DEF VoteOf, Voted
<1>5. ASSUME Consensus(s) # 0, NEW i \in Backups, VoteOf(s, i) # Consensus(s) PROVE FALSE
    <2> DEFINE c == Consensus(s)
               V == {j \in Replicas : VoteOf(s, j) = c}
    <2>1. 2 * Cardinality(V) > NumRep
        <3>1. CASE MajorityOf(s) = {}
            <4>1. c = CHOOSE v \in Voted(s) : \A w \in Voted(s) : v =< w
                BY <3>1, Zenon DEF Consensus
            <4>2. Voted(s) \in SUBSET Nat
                <5>1. seen \in [Searcher -> [Replicas -> Slots]]
                    BY Zenon DEF STypeOK
                <5>2. \A j \in Replicas : seen[s][j] \in Nat
                    BY <5>1, ReplicaTypes, Zenon
                <5>3. \A j \in Replicas : VoteOf(s, j) \in Nat
                    BY <1>3, <5>2, ReplicaTypes, Zenon DEF VoteOf
                <5> QED BY <5>3, Zenon DEF Voted
            <4>3. c \in Voted(s) /\ c =< 0
                BY <1>4, <4>1, <4>2, LeastNat, Zenon
            <4> QED BY <1>5, <4>2, <4>3
        <3>2. CASE MajorityOf(s) # {}
            BY <3>2, Zenon DEF Consensus, MajorityOf, VotesFor
        <3> QED BY <3>1, <3>2
    <2>2. IsFiniteSet(Backups) /\ Cardinality(Backups) \in Nat
        BY ConstantsOK, FS_CardinalityType, Zenon
    <2>3. NumRep = Cardinality(Backups) + 1
        BY <1>2, <2>2, FS_AddElement, FS_EmptySet DEF NumRep, Replicas
    <2>4. V \subseteq Backups \ {i}
        BY <1>4, <1>5, Zenon DEF Replicas
    <2>5. Cardinality(V) =< Cardinality(Backups) - 1 /\ Cardinality(V) \in Nat
        <3>1. IsFiniteSet(Backups \ {i}) /\ Cardinality(Backups \ {i}) = Cardinality(Backups) - 1
            BY <2>2, FS_RemoveElement
        <3> HIDE DEF V
        <3> QED BY <2>4, <3>1, FS_Subset, FS_CardinalityType
    <2> HIDE DEF V
    <2> QED BY <2>1, <2>2, <2>3, <2>5 DEF PrimaryFails
<1>6. ASSUME Consensus(s) # 0, NEW i \in Backups PROVE seen[s][i] = Consensus(s)
    <2>1. VoteOf(s, i) = Consensus(s)
        BY <1>5, <1>6
    <2> QED BY <1>3, <1>6, <2>1, Zenon DEF VoteOf
<1> QED BY <1>1, <1>6, Zenon

(* What the vote answers is in the past or on every backup; NULL is        *)
(* answered only when no healthy replica shows a slot.                     *)
LEMMA AnswerIsBacked ==
    ASSUME Backups # {}, SameKey, PrimaryFails, SomeHealthy, STypeOK, InitSlot \in past,
           NEW t \in Searcher, Fresh(t), Backed(t), spc[t] = "kv", NEW v,
           \/ v \in cand[t] /\ HoldsKey(v, SearchKey)
           \/ v = 0 /\ NoMatch(t) /\ 0 \notin cand[t],
           Source(t, v) = "backups", v \notin past
    PROVE  \E r \in Req : v = Target[r] /\ \A b \in Backups : Has(r, b)
<1>1. failed_pr_index(t) /\ v \in Agreed(t) \cup {0}
    BY Zenon DEF Source
<1>2. Healthy = Backups /\ Batch(t) = Backups
    BY <1>1, VoteIsUnanimous, Zenon DEF Batch
<1>3. \A i \in Backups : seen[t][i] = v
    <2>1. CASE v = 0
        <3>1. cand[t] \subseteq Slots
            BY Zenon DEF STypeOK
        <3>2. cand[t] = {}
            BY <2>1, <3>1, BlocksHoldKey, Zenon DEF NoMatch, HoldsKey
        <3>3. ~warm[t]
            BY <2>1, <3>2, Zenon DEF Backed
        <3> QED BY <1>1, <1>2, <2>1, <3>3, Zenon DEF Backed
    <2>2. CASE v # 0
        <3>1. v = Consensus(t)
            BY <1>1, <2>2, Zenon DEF Agreed
        <3> QED BY <1>1, <2>2, <3>1, VoteIsUnanimous, Zenon
    <2> QED BY <2>1, <2>2
<1>4. reads[t] = {}
    BY Zenon DEF Fresh
<1>5. \A i \in Backups : v \in Values /\ \A r \in Req : v = Target[r] => i = 0 \/ Has(r, i)
    BY <1>2, <1>3, <1>4, Zenon DEF Backed
<1>6. 0 \notin Backups
    BY <1>1, <1>2, Zenon DEF failed_pr_index
<1>7. PICK r \in Req : v = Target[r]
    BY <1>5, Zenon DEF Values
<1> QED BY <1>5, <1>6, <1>7, Zenon

(* A search keeps Backed while it rests and no request loses a backup. *)
LEMMA BackedFrame ==
    ASSUME NEW s \in Searcher, Backed(s), crashed' = crashed, past \subseteq past',
           reads'[s] = reads[s], spc'[s] = spc[s], seen'[s] = seen[s],
           cand'[s] = cand[s], warm'[s] = warm[s], found'[s] = found[s],
           \A q \in Req : \A b \in Backups : Has(q, b) => Has(q, b)'
    PROVE  Backed(s)'
<1>1. Healthy' = Healthy /\ Healthy \subseteq Replicas
    BY Zenon DEF Healthy
<1>2. failed_pr_index(s)' = failed_pr_index(s) /\ Batch(s)' = Batch(s) /\ Batch(s) \subseteq Replicas
    BY <1>1, ReplicaTypes, Zenon DEF failed_pr_index, Batch
<1>3. \A i \in Batch(s) : i # 0 => i \in Backups
    BY <1>2, Zenon DEF Replicas
<1>4. (warm[s] /\ 0 \notin past => cand[s] # {})'
    BY Zenon DEF Backed
<1>5. ASSUME spc'[s] \in {"buckets", "kv"}, NEW i \in Batch(s) \ reads[s]
      PROVE  /\ seen'[s][i] \in Values
             /\ i = 0 => seen'[s][i] \in past'
             /\ i # 0 => \A r \in Req : seen'[s][i] = Target[r] => Has(r, i)'
    BY <1>3, <1>5, Zenon DEF Backed
<1>6. (spc[s] = "kv" /\ failed_pr_index(s) => warm[s] \/ \A i \in Healthy : seen[s][i] = 0)'
    BY <1>1, <1>2, Zenon DEF Backed
<1>7. (spc[s] = "idle" /\ found[s].from = "backups" /\ found[s].v \notin past
          => \E r \in Req : found[s].v = Target[r] /\ \A b \in Backups : Has(r, b))'
    BY Zenon DEF Backed
<1> QED BY <1>2, <1>4, <1>5, <1>6, <1>7, Zenon DEF Backed

(* The writers. *)
LEMMA WriterBacked ==
    ASSUME Backups # {}, IInv, IInv', BackedInv, NEW r \in Req, WriterStep(r)
    PROVE  BackedInv'
<1>1. /\ Step(r) /\ UNCHANGED <<crashed, spc, reads, seen, warm, cand, found>>
      /\ FreshInv /\ stop = {} /\ InitSlot \in past
    BY Zenon DEF WriterStep, BackedInv
<1>2. FreshInv'
    BY <1>1, WriterFresh, Zenon
<1>3. past \subseteq past'
    BY <1>1, PrimaryMovesOn, Zenon
<1>4. stop' = stop
    BY <1>1, Zenon DEF Step, kv_insert_read_buckets_and_write_kv,
       kv_update_read_buckets_and_write_kv, kv_delete_read_buckets_write_log,
       kv_insert_backup_consensus_0, kv_update_backup_consensus_0,
       kv_delete_backup_consensus_0, CasBackup, modify_backup_idx_consensus_1,
       ReadPrimary, CasRest, EndRest, WaitPrimary, kv_log_commit, PostPrimary,
       CasPrimary, WriteInvalid, modify_primary_idx
<1>5. ASSUME NEW q \in Req PROVE Sweeps(q)'
    <2>1. Sweeps(q) /\ TypeOK'
        BY Zenon DEF BackedInv, IInv
    <2> QED BY <1>1, <2>1, SweepsStays
<1>6. ASSUME NEW q \in Req, NEW b \in Backups PROVE Has(q, b) => Has(q, b)'
    BY <1>1, HasStays
<1>7. ASSUME NEW s \in Searcher PROVE Backed(s)'
    <2>1. Backed(s)
        BY Zenon DEF BackedInv
    <2> QED BY <1>1, <1>3, <1>6, <2>1, BackedFrame, Zenon
<1> QED BY <1>1, <1>2, <1>3, <1>4, <1>5, <1>7, Zenon DEF BackedInv

(* The READs of a search: a backup shows the value of who has it. *)
LEMMA ReadBacked ==
    ASSUME IInv, STypeOK, InitSlot \in past, NEW t \in Searcher, Fresh(t), Backed(t),
           \/ kv_search_read_buckets(t)
           \/ \E i \in Replicas : ReadBucket(t, i)
           \/ ReadCached(t)
    PROVE  Backed(t)'
<1>0. /\ TypeOK /\ seen[t] \in [Replicas -> Slots] /\ spc \in [Searcher -> {"idle", "buckets", "kv", "dead"}]
      /\ reads \in [Searcher -> SUBSET (Replicas \cup {CachedBlock})]
      /\ pr \in past /\ pr \in Values /\ bk \in [Backups -> Values]
    <2>1. TypeOK /\ pr \in past
        BY Zenon DEF IInv, ValueInv
    <2>2. pr \in Values /\ bk \in [Backups -> Values]
        BY <2>1, Zenon DEF TypeOK
    <2> QED BY <2>1, <2>2, Zenon DEF STypeOK
<1>1. UNCHANGED <<past, crashed, warm, cand, found, orig, ret, posted, cons>>
    BY Zenon DEF kv_search_read_buckets, ReadBucket, ReadCached, vars, mem, ctx
<1>2. Batch(t)' = Batch(t) /\ Batch(t) \subseteq Replicas
    BY <1>1, ReplicaTypes, Zenon DEF Batch, failed_pr_index, Healthy
<1>3. \A q : \A b : Has(q, b)' = Has(q, b)
    BY <1>1, Zenon DEF Has, Took, Won
<1>4. spc'[t] = "buckets"
    <2>1. CASE kv_search_read_buckets(t)
        BY <1>0, <2>1, Zenon DEF kv_search_read_buckets
    <2>2. CASE ReadCached(t) \/ \E i \in Replicas : ReadBucket(t, i)
        BY <2>2, Zenon DEF ReadBucket, ReadCached, Fresh
    <2> QED BY <2>1, <2>2
<1>5. ASSUME NEW j \in Batch(t), j \notin reads'[t]
      PROVE  /\ seen'[t][j] \in Values
             /\ j = 0 => seen'[t][j] \in past
             /\ j # 0 => \A q \in Req : seen'[t][j] = Target[q] => Has(q, j)
    <2>1. CASE kv_search_read_buckets(t)
        BY <1>0, <1>5, <2>1, Zenon DEF kv_search_read_buckets
    <2>2. CASE ReadCached(t)
        <3>1. seen' = seen /\ j \notin reads[t] /\ spc[t] = "buckets"
            BY <1>0, <1>2, <1>5, <2>2, ReplicaTypes, Zenon DEF ReadCached, Fresh
        <3> QED BY <1>5, <3>1, Zenon DEF Backed
    <2>3. ASSUME NEW i \in Replicas, ReadBucket(t, i)
          PROVE  /\ seen'[t][j] \in Values
                 /\ j = 0 => seen'[t][j] \in past
                 /\ j # 0 => \A q \in Req : seen'[t][j] = Target[q] => Has(q, j)
        <3>1. /\ seen'[t] = [seen[t] EXCEPT ![i] = Slot(i)] /\ reads'[t] = reads[t] \ {i}
              /\ spc[t] = "buckets"
            BY <1>0, <2>3, Zenon DEF ReadBucket, STypeOK, Fresh
        <3>2. CASE j = i
            <4>1. seen'[t][j] = Slot(j) /\ (j # 0 => j \in Backups)
                BY <1>0, <3>1, <3>2, Zenon DEF Replicas
            <4> QED BY <1>0, <4>1, HolderHas, Zenon DEF Slot
        <3>3. CASE j # i
            <4>1. seen'[t][j] = seen[t][j] /\ j \notin reads[t]
                BY <1>0, <1>2, <1>5, <3>1, <3>3, Zenon
            <4> QED BY <1>5, <3>1, <4>1, Zenon DEF Backed
        <3> QED BY <3>2, <3>3
    <2> QED BY <2>1, <2>2, <2>3, Zenon
<1>6. (warm[t] /\ 0 \notin past => cand[t] # {})'
    BY <1>1, Zenon DEF Backed
<1> QED BY <1>1, <1>2, <1>3, <1>4, <1>5, <1>6, Zenon DEF Backed

(* The end of a search. *)
LEMMA AnswerBacked ==
    ASSUME Backups # {}, SameKey, PrimaryFails, SomeHealthy, STypeOK, InitSlot \in past,
           NEW t \in Searcher, Fresh(t), Backed(t), kv_search_read_kv(t) \/ kv_search_check_kv(t)
    PROVE  Backed(t)'
<1>1. /\ UNCHANGED <<past, crashed, reads, seen, orig, ret, posted, cons>>
      /\ reads[t] = {}
    BY Zenon DEF kv_search_read_kv, kv_search_check_kv, vars, mem, ctx, Fresh
<1>2. /\ Healthy' = Healthy /\ failed_pr_index(t)' = failed_pr_index(t)
      /\ Batch(t)' = Batch(t)
    BY <1>1, Zenon DEF Batch, failed_pr_index, Healthy
<1>3. \A q : \A b : Has(q, b)' = Has(q, b)
    BY <1>1, Zenon DEF Has, Took, Won
<1>4. CASE kv_search_read_kv(t) /\ (FromCache(t) \/ spc'[t] = "dead")
    <2>1. /\ spc'[t] = "dead" \/ (spc'[t] = "idle" /\ found'[t] = [v |-> hit[t].ptr, from |-> "cache"])
          /\ UNCHANGED <<warm, cand>>
        BY <1>4, Zenon DEF kv_search_read_kv, STypeOK, End, Die
    <2>2. ~(spc'[t] = "idle" /\ found'[t].from = "backups")
        BY <2>1
    <2> QED BY <1>1, <2>1, <2>2, Zenon DEF Backed
<1>5. CASE kv_search_read_kv(t) /\ ~FromCache(t) /\ spc'[t] # "dead"
    <2>1. /\ spc[t] = "buckets" /\ spc'[t] = "kv" /\ ~(failed_pr_index(t) /\ NullSlots(t))
          /\ cand'[t] = Candidates(t) /\ warm'[t] = (warm[t] \/ ~failed_pr_index(t))
        BY <1>5, Zenon DEF kv_search_read_kv, STypeOK, Die
    <2>2. warm'[t] /\ 0 \notin past => cand'[t] # {}
        <3>1. CASE failed_pr_index(t)
            BY <2>1, <3>1, Zenon DEF Candidates, Backed
        <3>2. CASE ~failed_pr_index(t)
            <4>1. seen[t][0] \in past
                BY <1>1, <2>1, <3>2, Zenon DEF Backed, Batch
            <4> QED BY <2>1, <3>2, <4>1, Zenon DEF Candidates
        <3> QED BY <3>1, <3>2
    <2>3. failed_pr_index(t) => warm'[t] \/ \A i \in Healthy : seen[t][i] = 0
        BY <2>1, Zenon DEF NullSlots
    <2>4. \A i \in Batch(t) :
              /\ seen[t][i] \in Values
              /\ i = 0 => seen[t][i] \in past
              /\ i # 0 => \A r \in Req : seen[t][i] = Target[r] => Has(r, i)
        BY <1>1, <2>1, Zenon DEF Backed
    <2> QED BY <1>1, <1>2, <1>3, <2>1, <2>2, <2>3, <2>4, Zenon DEF Backed
<1>6. CASE kv_search_check_kv(t)
    <2>1. spc[t] = "kv" /\ spc'[t] \in {"idle", "dead"} /\ cand' = cand
        BY <1>6, Zenon DEF kv_search_check_kv, STypeOK, End, Die
    <2>2. warm'[t] => warm[t] \/ cand[t] # {}
        BY <1>6, Zenon DEF kv_search_check_kv, STypeOK
    <2>3. (warm[t] /\ 0 \notin past => cand[t] # {})'
        BY <1>1, <2>1, <2>2, Zenon DEF Backed
    <2>4. ASSUME spc'[t] = "idle", found'[t].from = "backups", found'[t].v \notin past
          PROVE  \E r \in Req : found'[t].v = Target[r] /\ \A b \in Backups : Has(r, b)
        <3>1. PICK v : /\ \/ v \in cand[t] /\ HoldsKey(v, SearchKey)
                          \/ v = 0 /\ NoMatch(t) /\ 0 \notin cand[t]
                       /\ found' = [found EXCEPT ![t] = [v |-> v, from |-> Source(t, v)]]
            BY <1>6, <2>4, Zenon DEF kv_search_check_kv, STypeOK, End, Die
        <3>2. found'[t] = [v |-> v, from |-> Source(t, v)]
            BY <3>1, Zenon DEF STypeOK
        <3>3. found'[t].v = v /\ found'[t].from = Source(t, v)
            BY <3>2
        <3> QED BY <2>1, <2>4, <3>1, <3>3, AnswerIsBacked, Zenon
    <2> QED BY <1>1, <1>3, <2>1, <2>3, <2>4, Zenon DEF Backed
<1> QED BY <1>4, <1>5, <1>6

(* BackedInv is inductive beside IInv. *)
THEOREM BackedInvHolds ==
    ASSUME NoReuse, Backups # {}, SameKey, PrimaryFails
    PROVE  SSpec => []BackedInv
<1>0. SomeHealthy
    BY Zenon DEF SomeHealthy, PrimaryFails, Replicas
<1>1. SInit => BackedInv
    <2> SUFFICES ASSUME SInit PROVE BackedInv
        OBVIOUS
    <2>1. /\ FreshInv /\ Init /\ spc = [s \in Searcher |-> "idle"]
          /\ warm = [s \in Searcher |-> FALSE] /\ found = [s \in Searcher |-> [v |-> 0, from |-> "none"]]
        <3>1. STypeOK
            BY InitTypes
        <3>2. IndexAnswerIsCurrent
            BY DEF SInit, IndexAnswerIsCurrent
        <3>3. \A s \in Searcher : Fresh(s)
            BY Zenon DEF SInit, Fresh
        <3> QED BY <3>1, <3>2, <3>3, Zenon DEF SInit, FreshInv
    <2>2. stop = {} /\ InitSlot \in past /\ 0 # None
        BY <2>1 DEF Init, None
    <2>3. ASSUME NEW r \in Req PROVE Sweeps(r)
        <3>1. PICK b \in Backups : TRUE
            OBVIOUS
        <3>2. ~Took(r, b)
            BY <2>1, <2>2, Zenon DEF Init, Took
        <3> QED BY <3>2, Zenon DEF Sweeps
    <2>4. ASSUME NEW s \in Searcher PROVE Backed(s)
        <3>1. spc[s] = "idle" /\ ~warm[s] /\ found[s] = [v |-> 0, from |-> "none"]
            BY <2>1, Zenon
        <3>2. found[s].from # "backups"
            BY <3>1
        <3> QED BY <3>1, <3>2, Zenon DEF Backed
    <2> QED BY <2>1, <2>2, <2>3, <2>4, Zenon DEF BackedInv
<1>2. ASSUME IInv, BackedInv, NEW t \in Searcher, SearchStep(t) PROVE BackedInv'
    <2>1. /\ UNCHANGED <<past, stop, pc, orig, ret, posted, cons, crashed>>
          /\ STypeOK /\ FreshInv /\ InitSlot \in past /\ Fresh(t) /\ Backed(t)
        BY <1>2, Zenon DEF BackedInv, FreshInv, SearchStep, kv_search_read_buckets, ReadBucket,
           ReadCached, kv_search_read_kv, kv_search_check_kv, vars, mem, ctx
    <2>2. FreshInv'
        BY <1>0, <1>2, <2>1, ReadFresh, AnswerFresh, Zenon DEF SearchStep
    <2>3. \A q \in Req : Sweeps(q)'
        BY <1>2, <2>1, Zenon DEF BackedInv, Sweeps, Took, Won
    <2>4. Backed(t)'
        BY <1>0, <1>2, <2>1, ReadBacked, AnswerBacked, Zenon DEF SearchStep
    <2>5. ASSUME NEW s \in Searcher \ {t} PROVE Backed(s)'
        <3>1. /\ reads'[s] = reads[s] /\ spc'[s] = spc[s] /\ seen'[s] = seen[s]
              /\ cand'[s] = cand[s] /\ warm'[s] = warm[s] /\ found'[s] = found[s]
            <4>1. CASE kv_search_read_buckets(t)
                BY <2>1, <4>1, Zenon DEF kv_search_read_buckets, STypeOK
            <4>2. CASE ReadCached(t) \/ \E i \in Replicas : ReadBucket(t, i)
                BY <2>1, <4>2, Zenon DEF ReadCached, ReadBucket, STypeOK
            <4>3. CASE kv_search_read_kv(t)
                BY <2>1, <4>3, Zenon DEF kv_search_read_kv, STypeOK, End, Die
            <4>4. CASE kv_search_check_kv(t)
                BY <2>1, <4>4, Zenon DEF kv_search_check_kv, STypeOK, End, Die
            <4> QED BY <1>2, <4>1, <4>2, <4>3, <4>4, Zenon DEF SearchStep
        <3>2. \A q \in Req : \A b \in Backups : Has(q, b) => Has(q, b)'
            BY <2>1, Zenon DEF Has, Took, Won
        <3>3. Backed(s)
            BY <1>2, Zenon DEF BackedInv
        <3> QED BY <2>1, <3>1, <3>2, <3>3, BackedFrame, Zenon
    <2> QED BY <1>2, <2>1, <2>2, <2>3, <2>4, <2>5, Zenon DEF BackedInv
<1>3. ASSUME BackedInv, crash_server \/ UNCHANGED allvars PROVE BackedInv'
    <2>1. /\ UNCHANGED <<past, stop, pc, orig, ret, posted, cons>>
          /\ UNCHANGED <<spc, reads, seen, warm, cand, found>>
        BY <1>3, Zenon DEF crash_server, allvars, svars, vars, mem, ctx
    <2>2. FreshInv'
        BY <1>3, CrashFresh, Zenon DEF BackedInv
    <2>3. \A q \in Req : Sweeps(q)'
        BY <1>3, <2>1, Zenon DEF BackedInv, Sweeps, Took, Won
    <2>4. \A q \in Req : \A b \in Backups : Has(q, b) <=> Has(q, b)'
        BY <2>1, Zenon DEF Has, Took, Won
    <2>5. ASSUME NEW s \in Searcher PROVE Backed(s)'
        <3>1. Backed(s)
            BY <1>3, Zenon DEF BackedInv
        <3>2. CASE crash_server
            <4>1. spc[s] \notin {"buckets", "kv"}
                BY <3>2, Zenon DEF crash_server
            <4> QED BY <2>1, <2>4, <3>1, <4>1, Zenon DEF Backed
        <3>3. CASE UNCHANGED allvars
            BY <2>1, <2>4, <3>1, <3>3, BackedFrame, Zenon DEF allvars, svars
        <3> QED BY <1>3, <3>2, <3>3
    <2> QED BY <1>3, <2>1, <2>2, <2>3, <2>5, Zenon DEF BackedInv
<1>4. IInv /\ IInv' /\ BackedInv /\ [SNext]_allvars => BackedInv'
    BY <1>2, <1>3, WriterBacked, Zenon DEF SNext, SFinished
<1> QED BY <1>1, <1>4, WritersUndisturbed, PTL DEF SSpec

(* When the primary's server fails, a search answers from the vote of the  *)
(* backups only with a value the primary has shown or that every backup    *)
(* holds until it does, for any number of writers and searchers, while     *)
(* there are at most three backups.                                        *)
THEOREM FailoverServesWinners ==
    ASSUME NoReuse, Backups # {}, SameKey, PrimaryFails
    PROVE  SSpec => []FailoverServesWinner
<1>1. IInv /\ BackedInv => FailoverServesWinner
    <2> SUFFICES ASSUME IInv, BackedInv, NEW s \in Searcher, spc[s] = "idle",
                        found[s].from = "backups", found[s].v \notin past
                 PROVE  \A i \in Backups : bk[i] = found[s].v
        BY Zenon DEF FailoverServesWinner
    <2>1. PICK r \in Req : found[s].v = Target[r] /\ \A b \in Backups : Has(r, b)
        BY Zenon DEF BackedInv, Backed
    <2> QED BY <2>1, AllHave, Zenon DEF BackedInv
<1> QED BY <1>1, WritersUndisturbed, BackedInvHolds, PTL

=============================================================================
