------------------------------ MODULE Snapshot ------------------------------
(***************************************************************************)
(* The client-centric replication protocol of src/client.cc on ONE slot of *)
(* the replicated RACE hash index: kv_insert, kv_update and kv_delete      *)
(* (asynchronous and *_sync variants), each request executed once.         *)
(*                                                                         *)
(* A slot has a primary replica and num_idx_rep - 1 backups, all of them   *)
(* memory words that any client may READ or CAS with one-sided RDMA.  A    *)
(* request reads the primary, CASes every backup from the value it read    *)
(* (round 0), decides from the values the CASes returned whether it won,   *)
(* lost or came too late, and when it won CASes the remaining backups      *)
(* (round 1), commits its log entry and CASes the primary.                 *)
(*                                                                         *)
(* A slot is an integer, 0 when empty.  The value a request installs is    *)
(* the address of the block it allocated (0 for DELETE).  Each RDMA CAS,   *)
(* READ or WRITE is one atomic step, and the work requests of a batch      *)
(* reach the memory nodes in any order.                                    *)
(***************************************************************************)
EXTENDS Integers, FiniteSets

CONSTANTS
    Req,        \* requests, one KVReqCtx each
    Backups,    \* the backup replicas of the slot; {} when num_idx_rep is 1
    Kind,       \* Kind[r]: KV_REQ_INSERT, KV_REQ_UPDATE or KV_REQ_DELETE
    Key,        \* Key[r]: the key of the request
    Target,     \* Target[r]: the slot value fill_slot builds, 0 for DELETE
    InitSlot,   \* the slot before the first request
    InitKey,    \* the key stored there when InitSlot # 0
    SyncReq,    \* requests issued through the *_sync entry points
    CacheReq,   \* requests whose client may hold a cache entry for the key
    FullReq,    \* requests for which mm_alloc finds no memory
    StopReq     \* asynchronous requests whose should_stop may be raised

None == -1

Ops == {"INSERT", "UPDATE", "DELETE"}
Wins == {"WIN_ALL", "WIN_MAJOR", "WIN_LITTLE"}
ConsensusStates == Wins \cup {"NON", "FAIL", "FINISH"}
PCs == {"start", "match", "bk0", "readpr", "bk1", "wait", "commit", "pr",
        "prq", "done", "exit", "hang"}
Values == {InitSlot} \cup {Target[r] : r \in Req}

ASSUME ConstantsOK ==
    /\ IsFiniteSet(Backups)
    /\ Kind \in [Req -> Ops]
    /\ Target \in [Req -> Nat]
    /\ InitSlot \in Nat
    /\ \A r \in Req : Kind[r] = "DELETE" <=> Target[r] = 0
    /\ SyncReq \subseteq Req /\ CacheReq \subseteq Req
    /\ FullReq \subseteq Req /\ StopReq \subseteq Req

VARIABLES
    pr,      \* the primary replica of the slot
    bk,      \* bk[b]: backup replica b
    past,    \* every value the primary has held (what a cache may remember)
    valid,   \* blocks whose KVLogHeader.is_valid is set
    pc,      \* where each request is
    orig,    \* kv_modify_pr_cas_list[0].orig_value
    ret,     \* ret[r][b]: what the round-0 CAS on b returned, None before
    posted,  \* backups whose CAS of the current round is still in flight
    prq,     \* work requests of modify_primary_idx still in flight
    swapped, \* the primary CAS of the request took effect
    cons,    \* consensus_state
    log,     \* the tail of the request's log entry: op and old_value
    rc,      \* ret_val.ret_code
    stop,    \* requests whose *should_stop is true
    bad      \* requests that met a backup changed under round 1

mem == <<pr, bk, past, valid>>
ctx == <<orig, ret, posted, prq, swapped, cons, log, rc, bad>>
vars == <<mem, ctx, pc, stop>>

Async(r) == r \notin SyncReq

Init ==
    /\ pr = InitSlot
    /\ bk = [b \in Backups |-> InitSlot]
    /\ past = {InitSlot}
    /\ valid = {InitSlot} \ {0}
    /\ pc = [r \in Req |-> "start"]
    /\ orig = [r \in Req |-> 0]
    /\ ret = [r \in Req |-> [b \in Backups |-> None]]
    /\ posted = [r \in Req |-> {}]
    /\ prq = [r \in Req |-> {}]
    /\ swapped = [r \in Req |-> FALSE]
    /\ cons = [r \in Req |-> "NON"]
    /\ log = [r \in Req |-> [op |-> "NONE", old |-> 0]]
    /\ rc = [r \in Req |-> "NONE"]
    /\ stop = {}
    /\ bad = {}

Goto(r, l) == pc' = [pc EXCEPT ![r] = l]

(* The request returns to its caller with ret_code c. *)
Return(r, c) == Goto(r, "done") /\ rc' = [rc EXCEPT ![r] = c]

-----------------------------------------------------------------------------
(* Phase 1: allocate a block, write the KV pair with its log entry to the  *)
(* data replicas and read the buckets (and the cached KV) in one batch.    *)

(* The block slot value v points to holds key k. *)
HoldsKey(v, k) ==
    /\ v # 0
    /\ \/ v = InitSlot /\ k = InitKey
       \/ \E r \in Req : Kind[r] # "DELETE" /\ v = Target[r] /\ k = Key[r]

(* The slot value a request takes for the old one: the bucket just read,   *)
(* or the cache entry when the block it names is valid and has the key.    *)
FoundSlot(r) ==
    {pr} \cup (IF r \in CacheReq
               THEN {c \in past \cap valid : HoldsKey(c, Key[r])} ELSE {})

WriteKV(r) ==
    /\ log' = [log EXCEPT ![r] = [op |-> Kind[r], old |-> 0]]
    /\ valid' = valid \cup ({Target[r]} \ {0})

(* A failed allocation ends INSERT and UPDATE with KV_OPS_FAIL_RETURN. *)
kv_insert_read_buckets_and_write_kv(r) ==
    /\ pc[r] = "start" /\ Kind[r] = "INSERT"
    /\ \/ /\ r \in FullReq
          /\ Return(r, "FAIL_RETURN")
          /\ UNCHANGED <<orig, log, valid>>
       \/ /\ r \notin FullReq
          /\ WriteKV(r)
          /\ orig' = [orig EXCEPT ![r] = pr]
          /\ Goto(r, "match")
          /\ UNCHANGED rc
    /\ UNCHANGED <<pr, bk, past, ret, posted, prq, swapped, cons, stop, bad>>

kv_update_read_buckets_and_write_kv(r) ==
    /\ pc[r] = "start" /\ Kind[r] = "UPDATE"
    /\ \/ /\ r \in FullReq
          /\ Return(r, "FAIL_RETURN")
          /\ UNCHANGED <<orig, log, valid>>
       \/ /\ r \notin FullReq
          /\ WriteKV(r)
          /\ \E v \in FoundSlot(r) : orig' = [orig EXCEPT ![r] = v]
          /\ Goto(r, "match")
          /\ UNCHANGED rc
    /\ UNCHANGED <<pr, bk, past, ret, posted, prq, swapped, cons, stop, bad>>

(* DELETE goes on after a failed allocation (kv_delete_read_kv clears      *)
(* is_finished): it then looks at whatever an earlier request left in the  *)
(* local bucket buffer, and has no log entry.                              *)
kv_delete_read_buckets_write_log(r) ==
    /\ pc[r] = "start" /\ Kind[r] = "DELETE"
    /\ \/ /\ r \in FullReq
          /\ \E v \in past \cup {0} : orig' = [orig EXCEPT ![r] = v]
          /\ UNCHANGED <<log, valid>>
       \/ /\ r \notin FullReq
          /\ WriteKV(r)
          /\ \E v \in FoundSlot(r) : orig' = [orig EXCEPT ![r] = v]
    /\ Goto(r, "match")
    /\ UNCHANGED <<pr, bk, past, ret, posted, prq, swapped, cons, rc, stop, bad>>

-----------------------------------------------------------------------------
(* Phase 2: post the CAS of every backup from orig to Target.  With one    *)
(* index replica there is nothing to agree on.                             *)

(* Seeded fault: the backups are left out of an update altogether. *)
Mut_PostBackups(r) ==
    /\ cons' = [cons EXCEPT ![r] = "WIN_ALL"]
    /\ Goto(r, "pr")
    /\ UNCHANGED posted

PostBackups(r) ==
    IF Backups = {}
    THEN /\ cons' = [cons EXCEPT ![r] = "WIN_ALL"]
         /\ Goto(r, "pr")
         /\ UNCHANGED posted
    ELSE /\ posted' = [posted EXCEPT ![r] = Backups]
         /\ Goto(r, "bk0")
         /\ UNCHANGED cons

kv_insert_backup_consensus_0(r) ==
    /\ pc[r] = "match" /\ Kind[r] = "INSERT"
    /\ \/ orig[r] # 0 /\ Return(r, "FAIL_RETURN") /\ UNCHANGED <<posted, cons>>
       \/ orig[r] = 0 /\ PostBackups(r) /\ UNCHANGED rc
    /\ UNCHANGED <<mem, orig, ret, prq, swapped, log, stop, bad>>

kv_update_backup_consensus_0(r) ==
    /\ pc[r] = "match" /\ Kind[r] = "UPDATE"
    /\ \/ /\ Async(r) /\ r \in stop
          /\ Return(r, "NONE") /\ UNCHANGED <<posted, cons>>
       \/ /\ ~(Async(r) /\ r \in stop)
          /\ ~HoldsKey(orig[r], Key[r])
          /\ Return(r, "FAIL_RETURN") /\ UNCHANGED <<posted, cons>>
       \/ /\ ~(Async(r) /\ r \in stop)
          /\ HoldsKey(orig[r], Key[r])
          /\ PostBackups(r) /\ UNCHANGED rc
    /\ UNCHANGED <<mem, orig, ret, prq, swapped, log, stop, bad>>

kv_delete_backup_consensus_0(r) ==
    /\ pc[r] = "match" /\ Kind[r] = "DELETE"
    /\ \/ /\ ~HoldsKey(orig[r], Key[r])
          /\ Return(r, "SUCCESS") /\ UNCHANGED <<posted, cons>>
       \/ /\ HoldsKey(orig[r], Key[r])
          /\ PostBackups(r) /\ UNCHANGED rc
    /\ UNCHANGED <<mem, orig, ret, prq, swapped, log, stop, bad>>

(* One RDMA CAS of round 0 reaches backup b. *)
CasBackup(r, b) ==
    /\ pc[r] = "bk0" /\ b \in posted[r]
    /\ ret' = [ret EXCEPT ![r][b] = bk[b]]
    /\ bk' = IF bk[b] = orig[r] THEN [bk EXCEPT ![b] = Target[r]] ELSE bk
    /\ posted' = [posted EXCEPT ![r] = @ \ {b}]
    /\ UNCHANGED <<pr, past, valid, pc, orig, prq, swapped, cons, log, rc, stop, bad>>

-----------------------------------------------------------------------------
(* check_cas_consensus_0: what the returned values say.  A backup votes    *)
(* for the value it holds after the CAS; a CAS that found orig or Target   *)
(* counts as the request's own vote.                                       *)

Vote(r, b) == IF ret[r][b] \in {orig[r], Target[r]} THEN Target[r] ELSE ret[r][b]
Votes(r, v) == Cardinality({b \in Backups : Vote(r, b) = v})
(* Seeded fault: half of the votes, rounded down, is taken for a majority. *)
Mut_Majority(r, v) == Votes(r, v) >= Cardinality(Backups) \div 2
Majority(r, v) == 2 * Votes(r, v) > Cardinality(Backups)

check_cas_consensus_0(r) ==
    IF \A b \in Backups : Vote(r, b) = Target[r] THEN "WIN_ALL"
    ELSE IF Majority(r, Target[r]) THEN "WIN_MAJOR"
    ELSE IF \E v \in Values : Majority(r, v) THEN "FAIL"
    ELSE IF \A b \in Backups : Vote(r, b) # Target[r] THEN "FAIL"
    ELSE "NON"

(* Without a majority the smallest value wins, unless the primary moved. *)
(* Seeded fault: the tie-break compares strictly. *)
Mut_Smallest(r) == \A b \in Backups : Target[r] < Vote(r, b)
Smallest(r) == \A b \in Backups : Target[r] =< Vote(r, b)
BreakTie(r) == IF pr # orig[r] THEN "FINISH"
               ELSE IF Smallest(r) THEN "WIN_LITTLE" ELSE "FAIL"

(* Seeded fault: a winner leaves the other backups as they are. *)
Mut_Rest(r) == {}
(* kv_modify_bk_1_cas_list: the backups others hold. *)
Rest(r) == {b \in Backups : ret[r][b] \notin {orig[r], Target[r]}}

(* Where a request that did not win goes once its op field says FINISH:    *)
(* INSERT and asynchronous UPDATE test is_finished and return; the *_sync  *)
(* UPDATE and DELETE still commit, asynchronous DELETE still reaches       *)
(* modify_primary_idx.                                                     *)
AfterLoss(r) ==
    IF Kind[r] = "INSERT" \/ (Kind[r] = "UPDATE" /\ Async(r)) THEN "done"
    ELSE IF Async(r) THEN "pr" ELSE "commit"

Lose(r) ==
    /\ log' = [log EXCEPT ![r].op = "FINISH"]
    /\ rc' = [rc EXCEPT ![r] = "SUCCESS"]
    /\ Goto(r, AfterLoss(r))

(* Round 0 is decided: state s starts round 1, the commit, or the wait. *)
Decide(r, s) ==
    /\ cons' = [cons EXCEPT ![r] = s]
    /\ \/ s = "WIN_ALL" /\ Goto(r, "commit") /\ UNCHANGED <<posted, log, rc>>
       \/ /\ s \in {"WIN_MAJOR", "WIN_LITTLE"}
          /\ posted' = [posted EXCEPT ![r] = Rest(r)]
          /\ Goto(r, "bk1") /\ UNCHANGED <<log, rc>>
       \/ s = "FAIL" /\ Goto(r, "wait") /\ UNCHANGED <<posted, log, rc>>
       \/ s = "NON" /\ Goto(r, "readpr") /\ UNCHANGED <<posted, log, rc>>
       \/ s = "FINISH" /\ Lose(r) /\ UNCHANGED posted

(* should_stop is honoured before this phase by asynchronous UPDATE and by *)
(* kv_insert_sync only.                                                    *)
StopsEarly(r) ==
    /\ r \in stop
    /\ \/ Kind[r] = "UPDATE" /\ Async(r)
       \/ Kind[r] = "INSERT" /\ ~Async(r)

modify_backup_idx_consensus_1(r) ==
    /\ pc[r] = "bk0" /\ posted[r] = {}
    /\ \/ /\ StopsEarly(r)
          /\ Goto(r, "done") /\ UNCHANGED <<cons, posted, log, rc>>
       \/ /\ ~StopsEarly(r)
          /\ Decide(r, check_cas_consensus_0(r))
    /\ UNCHANGED <<mem, orig, ret, prq, swapped, stop, bad>>

(* The tie-break reads the primary in a round trip of its own. *)
ReadPrimary(r) ==
    /\ pc[r] = "readpr"
    /\ Decide(r, BreakTie(r))
    /\ UNCHANGED <<mem, orig, ret, prq, swapped, stop, bad>>

(* One RDMA CAS of round 1 reaches backup b; check_cas_consensus_1 reports *)
(* a backup that changed since round 0 (the sync variant does not look),   *)
(* and the request wins regardless.                                        *)
CasRest(r, b) ==
    /\ pc[r] = "bk1" /\ b \in posted[r]
    /\ bk' = IF bk[b] = ret[r][b] THEN [bk EXCEPT ![b] = Target[r]] ELSE bk
    /\ bad' = IF bk[b] = ret[r][b] THEN bad ELSE bad \cup {r}
    /\ posted' = [posted EXCEPT ![r] = @ \ {b}]
    /\ UNCHANGED <<pr, past, valid, pc, orig, ret, prq, swapped, cons, log, rc, stop>>

EndRest(r) ==
    /\ pc[r] = "bk1" /\ posted[r] = {}
    /\ cons' = [cons EXCEPT ![r] = "WIN_ALL"]
    /\ Goto(r, "commit")
    /\ UNCHANGED <<mem, orig, ret, posted, prq, swapped, log, rc, stop, bad>>

(* Seeded fault: a loser reports success at once. *)
Mut_WaitPrimary(r) ==
    /\ pc[r] = "wait"
    /\ Lose(r)
    /\ UNCHANGED <<mem, orig, ret, posted, prq, swapped, cons, stop, bad>>

(* A loser polls the primary until it moves or the client stops.  The sync *)
(* variant compares op_laddr, which the READ does not fill: it leaves at   *)
(* once or never, whatever the primary holds.                              *)
WaitPrimary(r) ==
    /\ pc[r] = "wait"
    /\ \/ Async(r) /\ (pr # orig[r] \/ r \in stop) /\ Lose(r)
       \/ ~Async(r) /\ Lose(r)
       \/ ~Async(r) /\ Goto(r, "hang") /\ UNCHANGED <<log, rc>>
    /\ UNCHANGED <<mem, orig, ret, posted, prq, swapped, cons, stop, bad>>

-----------------------------------------------------------------------------
(* Seeded fault: the commit leaves old_value as phase 1 wrote it. *)
Mut_kv_log_commit(r) ==
    /\ pc[r] = "commit"
    /\ Goto(r, "pr")
    /\ UNCHANGED <<mem, orig, ret, posted, prq, swapped, cons, log, rc, stop, bad>>

(* Phase 3: commit the log entry (old_value := orig).  Asynchronous DELETE *)
(* skips the commit when stopped and goes on to the primary.               *)
kv_log_commit(r) ==
    /\ pc[r] = "commit"
    /\ \/ /\ StopsEarly(r)
          /\ Goto(r, "done") /\ UNCHANGED log
       \/ /\ Kind[r] = "DELETE" /\ Async(r) /\ r \in stop
          /\ Goto(r, "pr") /\ UNCHANGED log
       \/ /\ ~StopsEarly(r) /\ ~(Kind[r] = "DELETE" /\ Async(r) /\ r \in stop)
          /\ log' = [log EXCEPT ![r].old = orig[r]]
          /\ Goto(r, "pr")
    /\ UNCHANGED <<mem, orig, ret, posted, prq, swapped, cons, rc, stop, bad>>

(* Phase 4: CAS the primary and, for UPDATE and DELETE, clear is_valid of  *)
(* the old block, in one batch.                                            *)
PostPrimary(r) ==
    /\ pc[r] = "pr"
    /\ \/ /\ Kind[r] = "UPDATE" /\ Async(r) /\ r \in stop
          /\ Goto(r, "done") /\ UNCHANGED <<prq, rc>>
       \/ /\ ~(Kind[r] = "UPDATE" /\ Async(r) /\ r \in stop)
          /\ cons[r] = "FAIL"
          /\ Return(r, IF Kind[r] = "INSERT" THEN "FAIL_REDO" ELSE rc[r])
          /\ UNCHANGED prq
       \/ /\ ~(Kind[r] = "UPDATE" /\ Async(r) /\ r \in stop)
          /\ cons[r] # "FAIL"
          /\ prq' = [prq EXCEPT ![r] = IF Kind[r] = "INSERT" THEN {"cas"}
                                       ELSE {"cas", "inv"}]
          /\ Goto(r, "prq") /\ UNCHANGED rc
    /\ UNCHANGED <<mem, orig, ret, posted, swapped, cons, log, stop, bad>>

CasPrimary(r) ==
    /\ pc[r] = "prq" /\ "cas" \in prq[r]
    /\ prq' = [prq EXCEPT ![r] = @ \ {"cas"}]
    /\ \/ /\ pr = orig[r]
          /\ pr' = Target[r]
          /\ past' = past \cup {Target[r]}
          /\ swapped' = [swapped EXCEPT ![r] = TRUE]
       \/ /\ pr # orig[r]
          /\ UNCHANGED <<pr, past, swapped>>
    /\ UNCHANGED <<bk, valid, pc, orig, ret, posted, cons, log, rc, stop, bad>>

WriteInvalid(r) ==
    /\ pc[r] = "prq" /\ "inv" \in prq[r]
    /\ prq' = [prq EXCEPT ![r] = @ \ {"inv"}]
    /\ valid' = valid \ {orig[r]}
    /\ UNCHANGED <<pr, bk, past, pc, orig, ret, posted, swapped, cons, log, rc, stop, bad>>

(* The batch is complete.  A failed primary CAS kills an asynchronous      *)
(* client with several index replicas ("cannot have happened!").           *)
modify_primary_idx(r) ==
    /\ pc[r] = "prq" /\ prq[r] = {}
    /\ \/ swapped[r] /\ Return(r, "SUCCESS")
       \/ /\ ~swapped[r] /\ Async(r) /\ Backups # {}
          /\ Goto(r, "exit") /\ UNCHANGED rc
       \/ /\ ~swapped[r] /\ ~(Async(r) /\ Backups # {})
          /\ Return(r, IF Kind[r] = "INSERT" THEN "FAIL_REDO" ELSE "SUCCESS")
    /\ UNCHANGED <<mem, orig, ret, posted, prq, swapped, cons, log, stop, bad>>

(* The client raises should_stop. *)
Stop(r) ==
    /\ r \in StopReq \ stop /\ pc[r] \notin {"done", "exit", "hang"}
    /\ stop' = stop \cup {r}
    /\ UNCHANGED <<mem, ctx, pc>>

-----------------------------------------------------------------------------
Step(r) ==
    \/ kv_insert_read_buckets_and_write_kv(r)
    \/ kv_update_read_buckets_and_write_kv(r)
    \/ kv_delete_read_buckets_write_log(r)
    \/ kv_insert_backup_consensus_0(r)
    \/ kv_update_backup_consensus_0(r)
    \/ kv_delete_backup_consensus_0(r)
    \/ \E b \in Backups : CasBackup(r, b)
    \/ modify_backup_idx_consensus_1(r)
    \/ ReadPrimary(r)
    \/ \E b \in Backups : CasRest(r, b)
    \/ EndRest(r)
    \/ WaitPrimary(r)
    \/ kv_log_commit(r)
    \/ PostPrimary(r)
    \/ CasPrimary(r)
    \/ WriteInvalid(r)
    \/ modify_primary_idx(r)

(* Every request has returned (or its client is gone): a finished workload. *)
Finished ==
    /\ \A r \in Req : pc[r] \in {"done", "exit", "hang"}
    /\ UNCHANGED vars

Next == (\E r \in Req : Step(r) \/ Stop(r)) \/ Finished

Spec == Init /\ [][Next]_vars

(* RDMA work requests complete and fibers keep being scheduled. *)
FairSpec == Spec /\ \A r \in Req : WF_vars(Step(r))

-----------------------------------------------------------------------------
(* Properties *)

(* Type invariant: every variable stays in its set. *)
TypeOK ==
    /\ pr \in Values
    /\ bk \in [Backups -> Values]
    /\ past \subseteq Values
    /\ valid \subseteq Values
    /\ pc \in [Req -> PCs]
    /\ orig \in [Req -> Values \cup {0}]
    /\ ret \in [Req -> [Backups -> Values \cup {None}]]
    /\ posted \in [Req -> SUBSET Backups]
    /\ prq \in [Req -> SUBSET {"cas", "inv"}]
    /\ swapped \in [Req -> BOOLEAN]
    /\ cons \in [Req -> ConsensusStates]
    /\ log \in [Req -> [op : Ops \cup {"NONE", "FINISH"}, old : Values \cup {0}]]
    /\ rc \in [Req -> {"NONE", "SUCCESS", "FAIL_RETURN", "FAIL_REDO"}]
    /\ stop \subseteq Req
    /\ bad \subseteq Req

(* No slot value is installed twice: blocks are allocated once, at most    *)
(* one request clears the slot, and none restores its first value.         *)
NoReuse ==
    /\ \A r, s \in Req : Target[r] = Target[s] => r = s
    /\ \A r \in Req : Target[r] # InitSlot

Won(r) == cons[r] \in Wins

(* check_cas_consensus_0 lets at most one of the requests that saw the     *)
(* same old slot value win, however their CASes interleave.                *)
AtMostOneWinner ==
    Backups # {} =>
        \A r, s \in Req : Won(r) /\ Won(s) /\ orig[r] = orig[s] => r = s

(* When a winner reaches the primary CAS of modify_primary_idx, every      *)
(* backup already holds its value and the primary is still the one it saw. *)
BackupsAgreeBeforePrimary ==
    \A r \in Req :
        Won(r) /\ (pc[r] \in {"commit", "pr"} \/ (pc[r] = "prq" /\ "cas" \in prq[r]))
            => pr = orig[r] /\ \A b \in Backups : bk[b] = Target[r]

(* Round 1 never meets a backup that changed since round 0: the message    *)
(* "backup is not consistent!" is never printed.                           *)
RestCasSucceeds == bad = {}

(* The primary CAS of a winner takes effect: the branch of                 *)
(* modify_primary_idx that prints "cannot have happened!" and exits is not *)
(* reached by a request that won.                                          *)
WinnerSwapsPrimary ==
    Backups # {} =>
        \A r \in Req : Won(r) /\ pc[r] \in {"done", "exit"} /\ r \notin stop
                       => swapped[r]

(* The same branch is reached by no request at all. *)
NeverExit == \A r \in Req : pc[r] # "exit"

(* No backup holds a value older than the primary's, so a read served from *)
(* a backup after the primary's server fails never goes back in time.      *)
BackupsNeverLag == \A b \in Backups : bk[b] \in past => bk[b] = pr

(* An asynchronous request that lost and was not stopped reports success   *)
(* only after the value it wanted to replace has left the primary.         *)
LoserReturnsAfterOverwrite ==
    \A r \in Req :
        /\ Async(r) /\ r \notin stop
        /\ pc[r] = "done" /\ cons[r] \in {"FAIL", "FINISH"}
        => pr # orig[r]

(* log_is_committed: what recovery takes for the mark of a commit. *)
log_is_committed(r) == log[r].old # 0

(* Once the primary shows an UPDATE's value its log entry reads committed, *)
(* so a client that crashes later is recovered from a committed entry.     *)
CommittedBeforePrimary ==
    Backups # {} =>
        \A r \in Req : swapped[r] /\ Kind[r] = "UPDATE" => log_is_committed(r)

(* modify_primary_idx moves the primary only to a value that every backup  *)
(* holds at that instant, whoever posts the CAS: a reader that falls back  *)
(* to a backup never sees less than the primary just showed.               *)
PrimaryFollowsBackups ==
    [][pr' # pr => \A b \in Backups : bk[b] = pr']_vars

(* Of the requests that found the slot at the same version at most one     *)
(* replaces it in modify_primary_idx, also without backups to agree on.    *)
OneReplacesEachVersion ==
    \A r, s \in Req : swapped[r] /\ swapped[s] /\ orig[r] = orig[s] => r = s

(* The comment in check_cas_consensus_0: a round-0 CAS returns the value   *)
(* it wanted to install "only under recovery".                             *)
OwnValueOnlyUnderRecovery ==
    \A r \in Req, b \in Backups : ret[r][b] # Target[r]

(* The comment in modify_primary_idx_sync: its primary CAS fails "only     *)
(* when there is only one index replica".                                  *)
SyncSwapFailsOnlyAlone ==
    \A r \in SyncReq :
        pc[r] = "prq" /\ "cas" \notin prq[r] /\ ~swapped[r] => Backups = {}

(* Every request of a fair, unstopped workload returns: losers do not poll *)
(* the primary forever.                                                    *)
EveryRequestReturns == \A r \in Req : <>(pc[r] = "done")

=============================================================================
