------------------------------- MODULE Index --------------------------------
(***************************************************************************)
(* The RACE hash index of src/hashtable.h as the clients of src/client.cc  *)
(* use it: which buckets a key may be in, how INSERT chooses an empty      *)
(* slot, and how SEARCH, UPDATE and DELETE find the slot of a key, when    *)
(* several clients work on keys that share buckets.                        *)
(*                                                                         *)
(* A request READs its four buckets, each one cache line, in any order and *)
(* then works on that copy.  Replacing the content of a slot is a single   *)
(* step here: module Snapshot shows how the replicas of a slot agree, and  *)
(* that a slot with several replicas behaves as an atomic register.        *)
(***************************************************************************)
EXTENDS Integers, Sequences, FiniteSets, FiniteSetsExt

CONSTANTS
    Clients,      \* client fibers, one request at a time each
    Keys,
    HashRange,    \* subtable_hash_range, the addressable buckets of a subtable
    Prefixes,     \* the number of subtables
    HashOf,       \* the hash functions considered
    Assoc,        \* RACE_HASH_ASSOC_NUM, the slots of a bucket
    Requests,     \* Requests[c]: the <<operation, key>> pairs c runs in order
    Replicated,   \* num_idx_rep_ > 1
    Occupied      \* the sets of buckets earlier requests may have filled

Slots == 1..Assoc
BucketNum == (HashRange \div 2) * 3
Empty == [key |-> "none", id |-> <<>>]
Other == [key |-> "other", id |-> <<>>]
NoSlot == <<>>

VARIABLES
    hash,    \* hash[k]: prefix, SubtableFirstIndex and SubtableSecondIndex of k
    table,   \* table[n][j]: slot j of the bucket at offset n of the hash area
    pc,      \* where the request of each client is
    cur,     \* position of the request in Requests
    unread,  \* buckets of the request still to be READ
    local,   \* local_bucket_addr: the four buckets as READ
    target,  \* the slot the request modifies, as position in local
    rc,      \* what the last request of the client returned
    answer,  \* the block the last search returned, Empty for NULL
    seen,    \* contents the key had in the table while the request ran
    kept     \* keys whose INSERT reported success, up to the next DELETE

vars == <<hash, table, pc, cur, unread, local, target, rc, answer, seen, kept>>

Op(c) == Requests[c][cur[c]][1]
Key(c) == Requests[c][cur[c]][2]
Block(c) == [key |-> Key(c), id |-> <<c, cur[c]>>]

-----------------------------------------------------------------------------
(* Geometry: two addressable buckets share the overflow bucket between     *)
(* them; the first index is in the lower half of the subtable, the second  *)
(* in the upper half.  A subtable has BucketNum buckets but the next one   *)
(* begins SUBTABLE_LEN buckets further, so that its lower buckets are the  *)
(* upper buckets of its predecessor.                                       *)
Half == HashRange \div 2
SUBTABLE_LEN == HashRange
Hashes == (0..Prefixes - 1) \X (0..Half - 1) \X (Half..HashRange - 1)

ASSUME IndexOK ==
    /\ HashRange \in Nat /\ HashRange % 4 = 0 /\ HashRange > 0
    /\ Assoc \in Nat \ {0} /\ Prefixes \in Nat \ {0}
    /\ Replicated \in BOOLEAN
    /\ HashOf \subseteq [Keys -> Hashes]
    /\ Requests \in [Clients -> Seq({"SEARCH", "INSERT", "UPDATE", "DELETE"} \X Keys)]
    /\ {"none", "other"} \cap Keys = {}

Area == 0..(Prefixes - 1) * SUBTABLE_LEN + BucketNum - 1

com_bucket(p, v) ==
    LET i == p * SUBTABLE_LEN + (v \div 2) * 3 + (v % 2) IN <<i, i + 1>>
bucket_arr(k) ==
    com_bucket(hash[k][1], hash[k][2]) \o com_bucket(hash[k][1], hash[k][3])

(* Seeded fault: only the overflow buckets are looked at. *)
Mut_find_empty_slot(l, k) ==
    LET Free(i) == {j \in Slots : l[i][j] = Empty}
        f == 1 + ((hash[k][2] + 1) % 2)
        g == 3 + ((hash[k][3] + 1) % 2)
    IN IF Free(f) \cup Free(g) = {} THEN NoSlot
       ELSE IF Cardinality(Free(f)) >= Cardinality(Free(g))
       THEN <<f, Max(Free(f))>> ELSE <<g, Max(Free(g))>>

(* Seeded fault: the slot after the last free one. *)
Mut_past_free_slot(l, k) ==
    LET f == 1 + ((hash[k][2] + 1) % 2)
        Free == {j \in Slots : l[f][j] = Empty}
    IN IF Free = {} THEN NoSlot ELSE <<f, Max(Free) + 1>>

(* The emptier of the two overflow buckets, else of the two main buckets;  *)
(* in it the last free slot (GetFreeSlotNum).                              *)
find_empty_slot(l, k) ==
    LET Free(i) == {j \in Slots : l[i][j] = Empty}
        Pick(i) == LET f == 1 + ((hash[k][2] + i) % 2)
                       g == 3 + ((hash[k][3] + i) % 2)
                   IN IF Free(f) \cup Free(g) = {} THEN NoSlot
                      ELSE IF Cardinality(Free(f)) >= Cardinality(Free(g))
                      THEN <<f, Max(Free(f))>> ELSE <<g, Max(Free(g))>>
    IN IF Pick(1) # NoSlot THEN Pick(1) ELSE Pick(0)

(* Seeded fault: the second combined bucket is not searched. *)
Mut_find_match_kv_idx(l, k) ==
    LET Match == {p \in (1..2) \X Slots : l[p[1]][p[2]].key = k}
    IN IF Match = {} THEN NoSlot ELSE CHOOSE p \in Match : TRUE

(* find_kv_in_buckets and find_match_kv_idx: the first slot, in bucket     *)
(* order, whose block holds the key.                                       *)
find_match_kv_idx(l, k) ==
    LET Match == {p \in (1..4) \X Slots : l[p[1]][p[2]].key = k}
    IN IF Match = {} THEN NoSlot
       ELSE CHOOSE p \in Match : \A q \in Match :
              p[1] < q[1] \/ (p[1] = q[1] /\ p[2] =< q[2])

View(t, k) == [i \in 1..4 |-> t[bucket_arr(k)[i]]]
At(l, p) == IF p = NoSlot THEN Empty ELSE l[p[1]][p[2]]

(* What a search of the whole table t at one instant would find. *)
Visible(t, k) == At(View(t, k), find_match_kv_idx(View(t, k), k))

(* What table t holds for key k, wherever that is. *)
Stored(t, k) ==
    LET B == {b \in UNION {{t[n][j] : j \in Slots} : n \in Area} : b.key = k}
    IN IF B = {} THEN {Empty} ELSE B

-----------------------------------------------------------------------------
Blank == [i \in 1..4 |-> [j \in Slots |-> Empty]]

Init ==
    /\ hash \in HashOf
    /\ \E F \in Occupied :
         table = [n \in Area |->
                    [j \in Slots |-> IF n \in F THEN Other ELSE Empty]]
    /\ pc = [c \in Clients |-> "idle"]
    /\ cur = [c \in Clients |-> 1]
    /\ unread = [c \in Clients |-> {}]
    /\ local = [c \in Clients |-> Blank]
    /\ target = [c \in Clients |-> NoSlot]
    /\ rc = [c \in Clients |-> "none"]
    /\ answer = [c \in Clients |-> Empty]
    /\ seen = [c \in Clients |-> {}]
    /\ kept = {}

(* prepare_request computes the addresses of the buckets and posts the READs *)
prepare_request(c) ==
    /\ pc[c] = "idle" /\ cur[c] =< Len(Requests[c])
    /\ unread' = [unread EXCEPT ![c] = 1..4]
    /\ local' = [local EXCEPT ![c] = Blank]
    /\ seen' = [seen EXCEPT ![c] = Stored(table, Key(c))]
    /\ pc' = [pc EXCEPT ![c] = "read"]
    /\ UNCHANGED <<hash, table, cur, target, rc, answer, kept>>

read_buckets(c) ==
    /\ pc[c] = "read"
    /\ \E i \in unread[c] :
         /\ local' = [local EXCEPT ![c][i] = View(table, Key(c))[i]]
         /\ unread' = [unread EXCEPT ![c] = @ \ {i}]
    /\ pc' = [pc EXCEPT ![c] = IF unread'[c] = {} THEN "match" ELSE "read"]
    /\ UNCHANGED <<hash, table, cur, target, rc, answer, seen, kept>>

(* Seeded fault: a request that found no free slot is issued again too. *)
Mut_Return(c, r) ==
    /\ pc' = [pc EXCEPT ![c] = "idle"]
    /\ rc' = [rc EXCEPT ![c] = r]
    /\ cur' = [cur EXCEPT ![c] = IF r = "SUCCESS" THEN @ + 1 ELSE @]

(* The request returns; the drivers issue it again on KV_OPS_FAIL_REDO. *)
Return(c, r) ==
    /\ pc' = [pc EXCEPT ![c] = "idle"]
    /\ rc' = [rc EXCEPT ![c] = r]
    /\ cur' = [cur EXCEPT ![c] = IF r = "FAIL_REDO" THEN @ ELSE @ + 1]

kv_search(c) ==
    /\ pc[c] = "match" /\ Op(c) = "SEARCH"
    /\ answer' = [answer EXCEPT ![c] = At(local[c], find_match_kv_idx(local[c], Key(c)))]
    /\ Return(c, "SUCCESS")
    /\ UNCHANGED <<hash, table, unread, local, target, seen, kept>>

(* The request goes on with slot p of its copy, or ends when there is none. *)
Choose(c, p, r) ==
    \/ /\ p = NoSlot
       /\ Return(c, r)
       /\ UNCHANGED target
    \/ /\ p # NoSlot
       /\ target' = [target EXCEPT ![c] = p]
       /\ pc' = [pc EXCEPT ![c] = "cas"]
       /\ UNCHANGED <<rc, cur>>

kv_insert(c) ==
    /\ pc[c] = "match" /\ Op(c) = "INSERT"
    /\ Choose(c, find_empty_slot(local[c], Key(c)), "FAIL_RETURN")
    /\ UNCHANGED <<hash, table, unread, local, answer, seen, kept>>

kv_update(c) ==
    /\ pc[c] = "match" /\ Op(c) = "UPDATE"
    /\ Choose(c, find_match_kv_idx(local[c], Key(c)), "FAIL_RETURN")
    /\ UNCHANGED <<hash, table, unread, local, answer, seen, kept>>

kv_delete(c) ==
    /\ pc[c] = "match" /\ Op(c) = "DELETE"
    /\ Choose(c, find_match_kv_idx(local[c], Key(c)), "SUCCESS")
    /\ UNCHANGED <<hash, table, unread, local, answer, seen, kept>>

-----------------------------------------------------------------------------
(* Seeded fault: the slot is written whatever it holds. *)
Mut_Matches(c) == TRUE

(* The compare of the CAS on the slot. *)
Matches(c) ==
    View(table, Key(c))[target[c][1]][target[c][2]] = At(local[c], target[c])

(* What a request that lost its slot reports: UPDATE and DELETE take       *)
(* themselves for overwritten; INSERT is redone with one index replica and *)
(* reports success with several (modify_backup_idx_consensus_1).           *)
LostCode(c) ==
    IF Op(c) = "INSERT" /\ ~Replicated THEN "FAIL_REDO" ELSE "SUCCESS"

(* Seeded fault: an INSERT that took its slot is issued again. *)
Mut_WonCode(c) == IF Op(c) = "INSERT" /\ cur[c] = 1 THEN "FAIL_REDO" ELSE "SUCCESS"

WonCode(c) == "SUCCESS"

Reported(c, r) ==
    CASE Op(c) = "INSERT" /\ r = "SUCCESS" -> kept \cup {Key(c)}
      [] Op(c) = "DELETE" -> kept \ {Key(c)}
      [] OTHER -> kept

modify_primary_idx(c) ==
    /\ pc[c] = "cas"
    /\ \/ /\ Matches(c)
          /\ table' = [table EXCEPT ![bucket_arr(Key(c))[target[c][1]]][target[c][2]] =
                         IF Op(c) = "DELETE" THEN Empty ELSE Block(c)]
          /\ seen' = [d \in Clients |->
                        IF pc[d] = "idle" THEN seen[d]
                        ELSE seen[d] \cup Stored(table', Key(d))]
          /\ Return(c, WonCode(c))
          /\ kept' = Reported(c, WonCode(c))
       \/ /\ ~Matches(c)
          /\ Return(c, LostCode(c))
          /\ kept' = IF Op(c) = "INSERT" THEN Reported(c, LostCode(c)) ELSE kept
          /\ UNCHANGED <<table, seen>>
    /\ UNCHANGED <<hash, unread, local, target, answer>>

Step(c) ==
    \/ prepare_request(c) \/ read_buckets(c)
    \/ kv_search(c) \/ kv_insert(c) \/ kv_update(c) \/ kv_delete(c)
    \/ modify_primary_idx(c)

AllDone == \A c \in Clients : pc[c] = "idle" /\ cur[c] > Len(Requests[c])

Next == (\E c \in Clients : Step(c)) \/ (AllDone /\ UNCHANGED vars)

Spec == Init /\ [][Next]_vars

(* RDMA work requests complete and the fibers keep being scheduled. *)
FairSpec == Spec /\ \A c \in Clients : WF_vars(Step(c))

-----------------------------------------------------------------------------
(* A content is Empty, a block of an earlier request or one of Requests. *)
Contents == {Empty, Other} \cup [key : Keys, id : Clients \X Nat]

(* Type invariant of the index, the copies and the requests. *)
TypeOK ==
    /\ hash \in [Keys -> Hashes]
    /\ table \in [Area -> [Slots -> Contents]]
    /\ pc \in [Clients -> {"idle", "read", "match", "cas"}]
    /\ cur \in [Clients -> Nat \ {0}]
    /\ \A c \in Clients : cur[c] =< Len(Requests[c]) + 1
    /\ unread \in [Clients -> SUBSET (1..4)]
    /\ local \in [Clients -> [1..4 -> [Slots -> Contents]]]
    /\ target \in [Clients -> (1..4) \X Slots \cup {NoSlot}]
    /\ rc \in [Clients -> {"none", "SUCCESS", "FAIL_RETURN", "FAIL_REDO"}]
    /\ answer \in [Clients -> Contents]
    /\ seen \in [Clients -> SUBSET Contents]
    /\ kept \subseteq Keys

(* A request about to CAS has chosen, in its copy of the buckets, an empty *)
(* slot to insert into or a slot of its own key.                           *)
Aimed(c) ==
    pc[c] = "cas" =>
      /\ target[c] # NoSlot /\ Op(c) # "SEARCH"
      /\ IF Op(c) = "INSERT" THEN At(local[c], target[c]) = Empty
         ELSE At(local[c], target[c]).key = Key(c)

(* Each key reported as inserted is in one of its four buckets. *)
KeptStored ==
    \A k \in kept : \E i \in 1..4, j \in Slots : View(table, k)[i][j].key = k

(* The compare of the CAS protects what find_empty_slot and                *)
(* find_match_kv_idx saw in the copy of the buckets.                       *)
AimInv ==
    /\ TypeOK
    /\ \A c \in Clients : pc[c] # "idle" => cur[c] =< Len(Requests[c])
    /\ \A c \in Clients : Aimed(c)

(* The inductive invariant behind ReportedInsertStays: no INSERT           *)
(* overwrites another key.                                                 *)
IndexInv == AimInv /\ KeptStored

-----------------------------------------------------------------------------
(* Workloads in which each key is inserted by one client, which inserts it *)
(* again only if nobody else modifies it and a DELETE comes before.        *)
Sole(c, k) ==
    \A d \in Clients \ {c} : \A i \in 1..Len(Requests[d]) :
        Requests[d][i][2] = k => Requests[d][i][1] = "SEARCH"
Deletes(c, k, i, n) ==
    \E m \in (i + 1)..(n - 1) : Requests[c][m] = <<"DELETE", k>>
OneInserter ==
    \A c, d \in Clients : \A i \in 1..Len(Requests[c]), j \in 1..Len(Requests[d]) :
        Requests[c][i][1] = "INSERT" /\ Requests[d][j] = Requests[c][i] =>
            LET k == Requests[c][i][2]
            IN  c = d /\ (i < j => Sole(c, k) /\ Deletes(c, k, i, j))

(* A key is only in its own buckets, in one slot, and only after its       *)
(* INSERT; after the inserter's DELETE only if someone else may have       *)
(* written the slot in between.                                            *)
Placed(k) ==
    /\ \A n \in Area, j \in Slots : table[n][j].key = k => \E i \in 1..4 : n = bucket_arr(k)[i]
    /\ \A n, m \in Area, i, j \in Slots :
          table[n][i].key = k /\ table[m][j].key = k => n = m /\ i = j
    /\ (\E n \in Area, j \in Slots : table[n][j].key = k) =>
          \E c \in Clients : \E i \in 1..(cur[c] - 1) :
              /\ Requests[c][i] = <<"INSERT", k>>
              /\ Sole(c, k) => ~Deletes(c, k, i, cur[c])

(* The copy of a request on a key nobody else modifies is up to date. *)
Accurate(c) ==
    pc[c] # "idle" /\ Sole(c, Key(c)) =>
        \A i \in (1..4) \ unread[c], j \in Slots :
            LET now == View(table, Key(c))[i][j]
            IN  local[c][i][j].key = Key(c) \/ now.key = Key(c) => local[c][i][j] = now

(* What a request may answer with was in the table, and unless the key was *)
(* absent at some moment there is a slot where the request cannot miss it. *)
Watched(c) ==
    pc[c] # "idle" =>
        /\ Stored(table, Key(c)) \subseteq seen[c]
        /\ \A i \in 1..4, j \in Slots : local[c][i][j].key = Key(c) => local[c][i][j] \in seen[c]
        /\ Empty \notin seen[c] => \E i \in 1..4, j \in Slots :
              /\ View(table, Key(c))[i][j].key = Key(c)
              /\ i \notin unread[c] => local[c][i][j].key = Key(c)

(* The inductive invariant behind OneSlotPerKey and SearchAnswersOneMoment *)
(* for such workloads.                                                     *)
PlaceInv ==
    /\ AimInv
    /\ \A c \in Clients : pc[c] \in {"match", "cas"} => unread[c] = {}
    /\ \A k \in Keys : Placed(k)
    /\ \A c \in Clients : Accurate(c) /\ Watched(c)

-----------------------------------------------------------------------------
(* Although the four buckets are READ at different moments, a search       *)
(* answers with a content the key had in the table at one moment of the    *)
(* search; in particular NULL only if the key was absent at one moment     *)
(* (kv_search over find_kv_in_buckets).                                    *)
SearchAnswersOneMoment ==
    [][\A c \in Clients :
         pc[c] = "match" /\ pc'[c] = "idle" /\ Op(c) = "SEARCH" => answer'[c] \in seen[c]]_vars

(* A key whose INSERT reported success can be found until a DELETE of the  *)
(* key takes its slot, whichever keys the other clients insert into the    *)
(* shared overflow buckets meanwhile (find_empty_slot, modify_primary_idx).*)
ReportedInsertStays ==
    \A k \in kept : Visible(table, k) # Empty

(* A key occupies at most one slot: redoing an INSERT that lost its slot   *)
(* never leaves the block in two places (client_ops_fb, KV_OPS_FAIL_REDO). *)
OneSlotPerKey ==
    \A k \in Keys :
        Cardinality({p \in (DOMAIN table) \X Slots : table[p[1]][p[2]].key = k}) =< 1

(* An INSERT gives up only when every slot of its two main and its two     *)
(* overflow buckets was taken when the bucket was READ (find_empty_slot).  *)
GivesUpOnlyWhenFull ==
    [][\A c \in Clients :
         rc'[c] = "FAIL_RETURN" /\ pc[c] = "match" /\ pc'[c] = "idle" /\ Op(c) = "INSERT"
            => \A i \in 1..4, j \in Slots : local[c][i][j] # Empty]_vars

(* The redo loop of the drivers ends: every request is answered. *)
RequestsEnd == <>AllDone

=============================================================================
