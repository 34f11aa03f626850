------------------------------- MODULE Search -------------------------------
(***************************************************************************)
(* kv_search, kv_search_sync and kv_search_on_crash of src/client.cc,      *)
(* running against the requests of Snapshot that modify the slot of the    *)
(* key.  A search READs the key's buckets and, when the address cache has  *)
(* an entry, the cached block in the same batch; it returns the cached     *)
(* block if its header is still valid and otherwise the block the bucket   *)
(* points to.                                                              *)
(*                                                                         *)
(* crash_server marks a memory node as failed.  From then on               *)
(* kv_search_on_crash reads the slot from the healthy index replicas, when *)
(* the primary's server is the failed one, and votes on what they hold.    *)
(* The writers never look at the mark.  Replica 0 of the index is the      *)
(* primary, replicas 1 .. n the backups of Snapshot.                       *)
(***************************************************************************)
EXTENDS SnapshotInv

CONSTANTS
    Searcher,    \* fibers that search, one KVReqCtx each
    SearchKey,   \* the key they look for
    MaxSearch,   \* bound: searches per fiber
    OnCrash,     \* fibers of the driver that calls kv_search_on_crash
    Sibling,     \* Sibling[s]: requests of the client s runs in
    FailIdx,     \* index replicas on the server that fails
    FailData,    \* blocks whose first data replica is on that server
    MissLimit    \* miss_rate_threash_ in percent

ASSUME SearchOK ==
    /\ Backups = 1..Cardinality(Backups)
    /\ FailIdx \subseteq 0..Cardinality(Backups)
    /\ MaxSearch \in Nat /\ MissLimit \in Nat

Replicas == {0} \cup Backups
NumRep == Cardinality(Replicas)
NoEntry == [ptr |-> 0, moved |-> FALSE, miss |-> 0, acc |-> 0]
NoHit == [ptr |-> 0, moved |-> FALSE]
CachedBlock == None

VARIABLES
    crashed,  \* crash_server has been called
    cache,    \* cache[s]: addr_cache_ entry of the key, NoEntry without one;
              \* moved when l_slot_ptr was redirected to another data replica
    spc,      \* where each search is
    tries,    \* searches begun
    hit,      \* the cached block the batch READs, ptr 0 without a hit
    reads,    \* READs of the batch in flight: replicas and CachedBlock
    seen,     \* seen[s][i]: the slot as READ from replica i
    alive,    \* the header of the cached block was valid when READ
    warm,     \* the context's slot_arr is set; it starts as a null pointer
    cand,     \* kv_read_addr_list: blocks to READ, 0 for an all-zero entry
    found,    \* what the last search returned (0: NULL) and from where
    old       \* values replaced before the search began: all of them, and
              \* those whose replacing request had returned

svars == <<crashed, cache, spc, tries, hit, reads, seen, alive, warm, cand, found, old>>
allvars == <<vars, svars>>

SInit ==
    /\ Init
    /\ crashed = FALSE
    /\ cache \in [Searcher -> {NoEntry, [ptr |-> InitSlot, moved |-> FALSE, miss |-> 0, acc |-> 1]}]
    /\ spc = [s \in Searcher |-> "idle"]
    /\ tries = [s \in Searcher |-> 0]
    /\ hit = [s \in Searcher |-> NoHit]
    /\ reads = [s \in Searcher |-> {}]
    /\ seen = [s \in Searcher |-> [i \in Replicas |-> 0]]
    /\ alive = [s \in Searcher |-> FALSE]
    /\ warm = [s \in Searcher |-> FALSE]
    /\ cand = [s \in Searcher |-> {}]
    /\ found = [s \in Searcher |-> [v |-> 0, from |-> "none"]]
    /\ old = [s \in Searcher |-> [all |-> {}, told |-> {}, success |-> {}]]

-----------------------------------------------------------------------------
(* The address cache *)

update_cache(e, v) ==
    IF e = NoEntry THEN [ptr |-> v, moved |-> FALSE, miss |-> 0, acc |-> 1]
    ELSE IF e.ptr = v /\ ~e.moved THEN [e EXCEPT !.acc = @ + 1]
    ELSE [ptr |-> v, moved |-> FALSE, miss |-> e.miss + 1, acc |-> e.acc + 1]

(* An entry is used unless it is empty or missed too often. *)
check_cache(e) == e.ptr # 0 /\ 100 * e.miss =< MissLimit * e.acc

(* check_failed_cache: an entry whose block is on the failed server is     *)
(* redirected, for good, to the block's next data replica.                 *)
check_failed_cache(e) ==
    IF crashed /\ e.ptr \in FailData THEN [e EXCEPT !.moved = TRUE] ELSE e

-----------------------------------------------------------------------------
(* check_failed_index *)
Healthy == IF crashed THEN Replicas \ FailIdx ELSE Replicas
failed_pr_index(s) == s \in OnCrash /\ 0 \notin Healthy

(* The replicas whose buckets a search READs. *)
Batch(s) == IF failed_pr_index(s) THEN Healthy ELSE {0}

Slot(i) == IF i = 0 THEN pr ELSE bk[i]

(* kv_search_read_buckets, kv_search_read_buckets_on_crash or, when the    *)
(* primary's server failed, kv_search_read_all_healthy_index.              *)
kv_search_read_buckets(s) ==
    /\ spc[s] = "idle" /\ tries[s] < MaxSearch
    /\ tries' = [tries EXCEPT ![s] = @ + 1]
    /\ cache' = [cache EXCEPT ![s] =
                   IF check_cache(@) /\ s \in OnCrash THEN check_failed_cache(@) ELSE @]
    /\ hit' = [hit EXCEPT ![s] =
                 IF check_cache(cache[s])
                 THEN [ptr |-> cache'[s].ptr, moved |-> cache'[s].moved] ELSE NoHit]
    /\ reads' = [reads EXCEPT ![s] =
                   Batch(s) \cup (IF check_cache(cache[s]) THEN {CachedBlock} ELSE {})]
    /\ old' = [old EXCEPT ![s] =
                 [all |-> past \ {pr},
                  told |-> {orig[r] : r \in {q \in Req : pc[q] = "done" /\ swapped[q]}},
                  success |-> {orig[r] : r \in {q \in Req : pc[q] = "done" /\ rc[q] = "SUCCESS"}}]]
    /\ spc' = [spc EXCEPT ![s] = "buckets"]
    /\ UNCHANGED <<vars, crashed, seen, alive, warm, cand, found>>

(* One READ of the batch.  A writer clears is_valid of the first data      *)
(* replica only, so a redirected READ always finds a valid header.         *)
ReadBucket(s, i) ==
    /\ i \in reads[s]
    /\ seen' = [seen EXCEPT ![s][i] = Slot(i)]
    /\ reads' = [reads EXCEPT ![s] = @ \ {i}]
    /\ UNCHANGED <<vars, crashed, cache, spc, tries, hit, alive, warm, cand, found, old>>

ReadCached(s) ==
    /\ CachedBlock \in reads[s]
    /\ alive' = [alive EXCEPT ![s] = hit[s].moved \/ hit[s].ptr \in valid]
    /\ reads' = [reads EXCEPT ![s] = @ \ {CachedBlock}]
    /\ UNCHANGED <<vars, crashed, cache, spc, tries, hit, seen, warm, cand, found, old>>

-----------------------------------------------------------------------------
(* find_kv_in_buckets_on_crash: what the healthy replicas agree on.        *)

(* The replica whose copy of the buckets is first in the local buffer. *)
FirstRead(s) == IF failed_pr_index(s) THEN CHOOSE i \in Healthy : \A j \in Healthy : i =< j
                ELSE 0

(* The replicas that show a slot with the key's fingerprint; kv_len is     *)
(* looked at in the first copy only, through slot_arr.                     *)
Showing(s) ==
    IF seen[s][FirstRead(s)] = 0 THEN {} ELSE {i \in Healthy : seen[s][i] # 0}
NullSlots(s) == ~warm[s] /\ \E i \in Healthy : seen[s][i] # 0

(* num_replication_ votes are counted.  A replica that shows nothing votes *)
(* for found_addr[first_found_idx], but first_found_idx is a position in   *)
(* the list of healthy replicas and not a replica: the entry is all zero,  *)
(* unless the replica of that number was READ too.                         *)
Position(i) == Cardinality({j \in Healthy : j < i})
Filler(s) ==
    LET p == Position(FirstRead(s)) IN IF p \in Showing(s) THEN seen[s][p] ELSE 0
VoteOf(s, i) == IF i \in Showing(s) THEN seen[s][i] ELSE Filler(s)
VotesFor(s, v) == Cardinality({i \in Replicas : VoteOf(s, i) = v})
Voted(s) == {VoteOf(s, i) : i \in Replicas}

(* Seeded fault: the first healthy replica decides. *)
Mut_Consensus(s) == seen[s][FirstRead(s)]

(* A majority, else the smallest address. *)
MajorityOf(s) == {v \in Voted(s) : 2 * VotesFor(s, v) > NumRep}
Consensus(s) ==
    IF MajorityOf(s) # {} THEN CHOOSE v \in MajorityOf(s) : TRUE
    ELSE CHOOSE v \in Voted(s) : \A w \in Voted(s) : v =< w

Agreed(s) == IF Showing(s) = {} THEN {} ELSE {Consensus(s)}

(* Seeded fault: the list is never cleared. *)
Mut_Candidates(s) ==
    cand[s] \cup (IF failed_pr_index(s) THEN Agreed(s) ELSE {seen[s][0]} \ {0})

(* The list is cleared by find_kv_in_buckets and not by its variant. *)
Candidates(s) ==
    IF failed_pr_index(s) THEN cand[s] \cup Agreed(s) ELSE {seen[s][0]} \ {0}

(* check_failed_data looks the block up in meta_addr_info_, which Client   *)
(* never fills, and follows the pointer it did not find.                   *)
check_failed_data(s) == s \in OnCrash /\ crashed /\ Candidates(s) \cap FailData # {}

End(s, v, from) ==
    /\ spc' = [spc EXCEPT ![s] = "idle"]
    /\ found' = [found EXCEPT ![s] = [v |-> v, from |-> from]]

Die(s) == spc' = [spc EXCEPT ![s] = "dead"] /\ UNCHANGED found

(* Seeded fault: the cached block is returned whatever its header says. *)
Mut_FromCache(s) == HoldsKey(hit[s].ptr, SearchKey)

FromCache(s) == alive[s] /\ HoldsKey(hit[s].ptr, SearchKey)

(* kv_search_read_kv and kv_search_read_failed_kv *)
kv_search_read_kv(s) ==
    /\ spc[s] = "buckets" /\ reads[s] = {}
    /\ \/ /\ FromCache(s)
          /\ cache' = [cache EXCEPT ![s].acc = IF cache[s] = NoEntry THEN 0 ELSE @ + 1]
          /\ End(s, hit[s].ptr, "cache")
          /\ UNCHANGED <<cand, warm>>
       \/ /\ ~FromCache(s)
          /\ (failed_pr_index(s) /\ NullSlots(s)) \/ check_failed_data(s)
          /\ Die(s)
          /\ UNCHANGED <<cand, cache, warm>>
       \/ /\ ~FromCache(s)
          /\ ~(failed_pr_index(s) /\ NullSlots(s)) /\ ~check_failed_data(s)
          /\ cand' = [cand EXCEPT ![s] = Candidates(s)]
          /\ warm' = [warm EXCEPT ![s] = @ \/ ~failed_pr_index(s)]
          /\ spc' = [spc EXCEPT ![s] = "kv"]
          /\ UNCHANGED <<cache, found>>
    /\ UNCHANGED <<vars, crashed, tries, hit, reads, seen, alive, old>>

(* Where the answer v comes from: the primary, this search's vote, or a    *)
(* block that an earlier search of the context left in the list.           *)
Source(s, v) ==
    IF ~failed_pr_index(s) THEN "primary"
    ELSE IF v \in Agreed(s) \cup {0} THEN "backups" ELSE "carried"

(* find_match_kv_idx: the buffer the blocks share may show none with the   *)
(* key.                                                                    *)
NoMatch(s) ==
    \/ cand[s] \subseteq {0}
    \/ \E v \in cand[s] \ {0} : ~HoldsKey(v, SearchKey)

(* kv_search_check_kv after the READ of the listed blocks: the first whose *)
(* key matches is returned and cached with the slot as the first bucket    *)
(* copy shows it.  Blocks listed by an earlier search share one buffer, so *)
(* any of them may be what is found; an all-zero entry, which is last, has *)
(* no buffer at all.                                                       *)
kv_search_check_kv(s) ==
    /\ spc[s] = "kv"
    /\ \/ \E v \in cand[s] :
            /\ HoldsKey(v, SearchKey)
            /\ End(s, v, Source(s, v))
            /\ cache' = [cache EXCEPT ![s] = update_cache(@, seen[s][FirstRead(s)])]
            /\ warm' = [warm EXCEPT ![s] = TRUE]
       \/ NoMatch(s) /\ 0 \notin cand[s] /\ End(s, 0, Source(s, 0)) /\ UNCHANGED <<cache, warm>>
       \/ NoMatch(s) /\ 0 \in cand[s] /\ Die(s) /\ UNCHANGED <<cache, warm>>
    /\ UNCHANGED <<vars, crashed, tries, hit, reads, seen, alive, cand, old>>

-----------------------------------------------------------------------------
SearchStep(s) ==
    \/ kv_search_read_buckets(s)
    \/ \E i \in Replicas : ReadBucket(s, i)
    \/ ReadCached(s)
    \/ kv_search_read_kv(s)
    \/ kv_search_check_kv(s)

(* A writer's step; modify_primary_idx ends with update_cache or, for a    *)
(* DELETE, remove_cache in the client of the request.                      *)
Cached(r) == pc[r] = "prq" /\ pc'[r] = "done" /\ swapped[r]

WriterStep(r) ==
    /\ Step(r)
    /\ cache' = [s \in Searcher |->
                   IF r \in Sibling[s] /\ Cached(r)
                   THEN IF Kind[r] = "DELETE" THEN NoEntry
                        ELSE update_cache(cache[s], Target[r])
                   ELSE cache[s]]
    /\ UNCHANGED <<crashed, spc, tries, hit, reads, seen, alive, warm, cand, found, old>>

(* Between two samples of the driver, when no search is under way. *)
crash_server ==
    /\ ~crashed /\ OnCrash # {}
    /\ \A s \in Searcher : spc[s] \in {"idle", "dead"}
    /\ crashed' = TRUE
    /\ UNCHANGED <<vars, cache, spc, tries, hit, reads, seen, alive, warm, cand, found, old>>

SFinished ==
    /\ \A r \in Req : pc[r] \in {"done", "exit", "hang"}
    /\ \A s \in Searcher : spc[s] = "dead" \/ (spc[s] = "idle" /\ tries[s] = MaxSearch)
    /\ UNCHANGED allvars

SNext ==
    \/ \E s \in Searcher : SearchStep(s)
    \/ \E r \in Req : WriterStep(r)
    \/ crash_server
    \/ SFinished

SSpec == SInit /\ [][SNext]_allvars

-----------------------------------------------------------------------------
(* Properties *)

Slots == Values \cup {0}
Entry == {e \in [ptr : Slots, moved : BOOLEAN, miss : Nat, acc : Nat] : e.miss =< e.acc}

(* Type invariant of the search state. *)
STypeOK ==
    /\ crashed \in BOOLEAN
    /\ cache \in [Searcher -> Entry]
    /\ spc \in [Searcher -> {"idle", "buckets", "kv", "dead"}]
    /\ tries \in [Searcher -> 0..MaxSearch]
    /\ hit \in [Searcher -> [ptr : Slots, moved : BOOLEAN]]
    /\ reads \in [Searcher -> SUBSET (Replicas \cup {CachedBlock})]
    /\ seen \in [Searcher -> [Replicas -> Slots]]
    /\ alive \in [Searcher -> BOOLEAN] /\ warm \in [Searcher -> BOOLEAN]
    /\ cand \in [Searcher -> SUBSET Slots]
    /\ found \in [Searcher -> [v : Slots, from : {"none", "cache", "primary", "backups", "carried"}]]
    /\ old \in [Searcher -> [all : SUBSET Slots, told : SUBSET Slots, success : SUBSET Slots]]

(* A search answered from the index returns a value the slot held after    *)
(* the search began: nothing that had left the primary before it, not even *)
(* NULL once an INSERT took effect, whether the bucket came from the       *)
(* primary or from a vote of the backups.                                  *)
IndexAnswerIsCurrent ==
    \A s \in Searcher :
        spc[s] = "idle" /\ found[s].from \in {"primary", "backups"}
            => found[s].v \notin old[s].all

(* A search answered from the address cache never returns a block whose    *)
(* replacement a writer had reported before the search began: the write    *)
(* that clears is_valid is complete by then.                               *)
CacheAnswerIsValid ==
    \A s \in Searcher :
        spc[s] = "idle" /\ found[s].from = "cache" => found[s].v \notin old[s].told

(* The vote of the healthy replicas serves only values that the writers'   *)
(* own vote lets win: one the primary has shown or that every backup holds *)
(* for good.                                                               *)
FailoverServesWinner ==
    \A s \in Searcher :
        spc[s] = "idle" /\ found[s].from = "backups" /\ found[s].v \notin past
            => \A i \in Backups : bk[i] = found[s].v

(* The same of an answer that an earlier search left in the list.          *)
CarriedAnswerIsCurrent ==
    \A s \in Searcher :
        spc[s] = "idle" /\ found[s].from = "carried" => found[s].v \notin old[s].all

(* No search ends its client: the vote finds an address to READ. *)
NoSearchDies == \A s \in Searcher : spc[s] # "dead"

(* No search returns a value after a request that wanted to replace it,    *)
(* winner or loser, has reported success.                                  *)
NothingBeforeSuccess ==
    \A s \in Searcher :
        spc[s] = "idle" /\ found[s].from # "none" => found[s].v \notin old[s].success

-----------------------------------------------------------------------------
(* Inductive invariants *)

(* Every request is for the key searched. *)
SameKey == InitKey = SearchKey /\ \A r \in Req : Key[r] = SearchKey

(* An index replica survives the failure. *)
SomeHealthy == ~(Replicas \subseteq FailIdx)

(* No cache entry is redirected to another data replica. *)
NotRedirected == OnCrash = {} \/ FailData = {}

(* What a search has READ, and hence lists, is not older than the search. *)
Fresh(s) ==
    /\ old[s].all \subseteq past \ {pr}
    /\ reads[s] # {} => spc[s] = "buckets"
    /\ spc[s] \in {"buckets", "kv"} =>
          \A i \in Batch(s) : i \notin reads[s] => seen[s][i] \notin old[s].all
    /\ spc[s] = "kv" => IF failed_pr_index(s) THEN Agreed(s) \subseteq cand[s]
                        ELSE cand[s] = {seen[s][0]} \ {0}

FreshInv == STypeOK /\ IndexAnswerIsCurrent /\ \A s \in Searcher : Fresh(s)

(* Once its batch has cleared is_valid, the block a request replaces stays *)
(* invalid; an INSERT replaces none.                                       *)
Retired(r) ==
    /\ Kind[r] = "INSERT" /\ (pc[r] \notin {"start", "match", "done", "exit", "hang"} \/ swapped[r])
           => orig[r] = 0
    /\ (pc[r] = "prq" \/ swapped[r]) /\ "inv" \notin prq[r] => orig[r] \notin valid

(* A cached block READ valid had not been replaced when the search began. *)
Lively(s) ==
    /\ old[s].told \subseteq past \ valid
    /\ ~cache[s].moved /\ ~hit[s].moved
    /\ CachedBlock \in reads[s] => spc[s] = "buckets"
    /\ /\ spc[s] = "buckets" /\ CachedBlock \notin reads[s]
       /\ alive[s] /\ hit[s].ptr # 0
       => hit[s].ptr \notin old[s].told

LiveInv ==
    /\ STypeOK /\ CacheAnswerIsValid /\ 0 \notin valid
    /\ \A r \in Req : Retired(r)
    /\ \A s \in Searcher : Lively(s)

(* The primary's server fails, alone, in an index of at most four replicas: *)
(* the majority the vote asks for is then all the backups.                 *)
PrimaryFails == FailIdx \cap Backups = {} /\ Cardinality(Backups) =< 3

(* Backup b has shown r's value, and no other value of r's version since. *)
Has(r, b) == Took(r, b) \/ (Won(r) /\ b \notin posted[r])

(* A request whose round 0 took every backup wins. *)
Sweeps(r) == pc[r] # "bk0" /\ (\A b \in Backups : Took(r, b)) => Won(r)

(* What a search READ from a backup and the primary has not shown belongs  *)
(* to a request that took that backup or has won.                          *)
Backed(s) ==
    /\ warm[s] /\ 0 \notin past => cand[s] # {}
    /\ spc[s] \in {"buckets", "kv"} =>
          \A i \in Batch(s) \ reads[s] :
              /\ seen[s][i] \in Values
              /\ i = 0 => seen[s][i] \in past
              /\ i # 0 => \A r \in Req : seen[s][i] = Target[r] => Has(r, i)
    /\ spc[s] = "kv" /\ failed_pr_index(s) => warm[s] \/ \A i \in Healthy : seen[s][i] = 0
    /\ spc[s] = "idle" /\ found[s].from = "backups" /\ found[s].v \notin past
          => \E r \in Req : found[s].v = Target[r] /\ \A b \in Backups : Has(r, b)

BackedInv ==
    /\ FreshInv /\ stop = {} /\ InitSlot \in past
    /\ \A r \in Req : Sweeps(r)
    /\ \A s \in Searcher : Backed(s)

=============================================================================
