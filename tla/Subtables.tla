----------------------------- MODULE Subtables ------------------------------
(***************************************************************************)
(* Where the replicas of the subtables lie in the memory of the servers,   *)
(* and what that does to INSERTs of different keys.  init_hash_table takes *)
(* the replicas of each subtable from consecutive servers; a server hands  *)
(* out its subtables SUBTABLE_LEN buckets apart, while the clients address *)
(* BucketNum buckets of each.                                              *)
(*                                                                         *)
(* The index has two replicas, so the one backup decides who wins a slot,  *)
(* and buckets have one slot.  A key takes any free bucket of its          *)
(* subtable: earlier INSERTs may have filled the other buckets it hashes   *)
(* to, and any two buckets of two subtables are buckets of some two keys.  *)
(***************************************************************************)
EXTENDS Integers, FiniteSets

CONSTANTS
    Clients,     \* each inserts one key of its own
    Prefix,      \* Prefix[c]: the subtable its key belongs to
    Prefixes,    \* the number of subtables
    Servers,     \* the number of memory servers
    HashRange    \* RACE_HASH_ADDRESSABLE_BUCKET_NUM

BucketNum == (HashRange \div 2) * 3

(* The stride of the subtables in buckets, as the code has it. *)
SUBTABLE_LEN == HashRange

VARIABLES
    mem,     \* mem[s][n]: the slot of the bucket at offset n of server s
    first,   \* last_allocated_ of the initialising client
    pc, slot, cas, rc

vars == <<mem, first, pc, slot, cas, rc>>

Free == "free"

-----------------------------------------------------------------------------
(* mm_alloc_subtable of the client: replica i of subtable p *)
server_id(p, i) == (first + p + i) % Servers

(* mm_alloc_subtable of the server: the next subtable of its hash area *)
subtable_addr(p, i) ==
    SUBTABLE_LEN * Cardinality({q \in (0..p - 1) \X {0, 1} :
                                  server_id(q[1], q[2]) = server_id(p, i)})

(* The slot of bucket n of the subtable of c's key in replica i *)
Slot(c, i, n) == mem[server_id(Prefix[c], i)][subtable_addr(Prefix[c], i) + n]

Put(c, i) ==
    mem' = [mem EXCEPT ![server_id(Prefix[c], i)][subtable_addr(Prefix[c], i) + slot[c]] = c]

Init ==
    /\ first \in 0..Servers - 1
    /\ mem = [s \in 0..Servers - 1 |->
                [n \in 0..2 * Prefixes * SUBTABLE_LEN + BucketNum |-> Free]]
    /\ pc = [c \in Clients |-> "choose"]
    /\ slot = [c \in Clients |-> 0]
    /\ cas = [c \in Clients |-> Free]
    /\ rc = [c \in Clients |-> "none"]

(* find_empty_slot on the primary, for the buckets the key hashes to *)
find_empty_slot(c) ==
    /\ pc[c] = "choose"
    /\ \E n \in 0..BucketNum - 1 : Slot(c, 0, n) = Free /\ slot' = [slot EXCEPT ![c] = n]
    /\ pc' = [pc EXCEPT ![c] = "backup"]
    /\ UNCHANGED <<mem, first, cas, rc>>

kv_insert_backup_consensus_0(c) ==
    /\ pc[c] = "backup"
    /\ cas' = [cas EXCEPT ![c] = Slot(c, 1, slot[c])]
    /\ IF cas'[c] = Free THEN Put(c, 1) ELSE UNCHANGED mem
    /\ pc' = [pc EXCEPT ![c] = IF cas'[c] = Free THEN "primary" ELSE "wait"]
    /\ UNCHANGED <<first, slot, rc>>

(* KV_CONSENSUS_FAIL: read the primary until the winner has changed it *)
modify_backup_idx_consensus_1(c) ==
    /\ pc[c] = "wait" /\ Slot(c, 0, slot[c]) # Free
    /\ pc' = [pc EXCEPT ![c] = "done"]
    /\ rc' = [rc EXCEPT ![c] = "SUCCESS"]
    /\ UNCHANGED <<mem, first, slot, cas>>

modify_primary_idx(c) ==
    /\ pc[c] = "primary"
    /\ \/ /\ Slot(c, 0, slot[c]) = Free
          /\ Put(c, 0)
          /\ rc' = [rc EXCEPT ![c] = "SUCCESS"]
       \/ /\ Slot(c, 0, slot[c]) # Free
          /\ rc' = [rc EXCEPT ![c] = "EXIT"]
          /\ UNCHANGED mem
    /\ pc' = [pc EXCEPT ![c] = "done"]
    /\ UNCHANGED <<first, slot, cas>>

Step(c) ==
    \/ find_empty_slot(c) \/ kv_insert_backup_consensus_0(c)
    \/ modify_backup_idx_consensus_1(c) \/ modify_primary_idx(c)

AllDone == \A c \in Clients : pc[c] = "done"

Next == (\E c \in Clients : Step(c)) \/ (AllDone /\ UNCHANGED vars)

Spec == Init /\ [][Next]_vars
FairSpec == Spec /\ \A c \in Clients : WF_vars(Step(c))

-----------------------------------------------------------------------------
(* The winner of the backup always finds the primary as it read it: with   *)
(* several index replicas modify_primary_idx never reaches its message     *)
(* "cannot have happened!".                                                *)
CannotHaveHappened == \A c \in Clients : rc[c] # "EXIT"

(* An INSERT that lost its slot is released by the winner's primary CAS    *)
(* (the loop of modify_backup_idx_consensus_1 ends).                       *)
InsertsEnd == <>AllDone

=============================================================================
