---------------------------- MODULE IndexProofs ----------------------------
(***************************************************************************)
(* For any number of clients, keys, requests, subtables and slots, and any *)
(* hash function: with one index replica an INSERT that reported success   *)
(* stays in the index; an INSERT gives up only when its buckets are full.  *)
(* If each key has one inserter, a key is in at most one slot of the index *)
(* and a search that READs its buckets at different moments answers with a *)
(* content of one moment.                                                  *)
(***************************************************************************)
EXTENDS Index, TLAPS, FiniteSetTheorems, WellFoundedInduction

-----------------------------------------------------------------------------
(* Single steps of the clients of the index: where the buckets of a key    *)
(* are, what a CAS on a slot writes, and what it leaves of the invariants. *)

(* The elements of two pairs put together. *)
LEMMA Pairs ==
    ASSUME NEW a, NEW b, NEW c, NEW d
    PROVE  LET s == <<a, b>> \o <<c, d>>
           IN  s[1] = a /\ s[2] = b /\ s[3] = c /\ s[4] = d
<1> DEFINE S == {a, b, c, d}
<1>1. <<a, b>> \in Seq(S) /\ <<c, d>> \in Seq(S)
    OBVIOUS
<1> QED BY <1>1

(* get_kv_addr_info: the buckets of a key lie within the hash area. *)
LEMMA BucketsInArea ==
    ASSUME hash \in [Keys -> Hashes], NEW k \in Keys, NEW i \in 1..4
    PROVE  bucket_arr(k)[i] \in Area
<1> DEFINE h == hash[k]
           e(v) == (v \div 2) * 3 + (v % 2)
<1>1. h[1] \in 0..Prefixes - 1 /\ h[2] \in 0..HashRange - 1 /\ h[3] \in 0..HashRange - 1
    BY IndexOK DEF Hashes, Half
<1>2. ASSUME NEW v \in 0..HashRange - 1 PROVE e(v) \in 0..BucketNum - 2
    <2>0. v \in Nat /\ HashRange \in Nat /\ HashRange % 4 = 0
        BY IndexOK
    <2>1. v \div 2 \in Nat /\ v % 2 \in 0..1 /\ v = 2 * (v \div 2) + (v % 2)
        BY <2>0
    <2>2. HashRange \div 2 \in Nat /\ HashRange = 2 * (HashRange \div 2)
        BY <2>0
    <2> QED BY <2>1, <2>2 DEF BucketNum
<1>3. h[1] * SUBTABLE_LEN \in 0..(Prefixes - 1) * SUBTABLE_LEN
    <2> DEFINE n == h[1]
               P == Prefixes - 1
               L == SUBTABLE_LEN
    <2>1. n \in Nat /\ P \in Nat /\ L \in Nat /\ n =< P
        BY <1>1, IndexOK DEF SUBTABLE_LEN
    <2> HIDE DEF n, P, L
    <2>2. n * L \in Nat /\ n * L =< P * L
        BY <2>1
    <2> QED BY <2>2, <2>1 DEF n, P, L
<1>4. ASSUME NEW v \in 0..HashRange - 1
      PROVE  com_bucket(h[1], v)[1] \in Area /\ com_bucket(h[1], v)[2] \in Area
    <2>1. e(v) \in 0..BucketNum - 2
        BY <1>2, Zenon
    <2>2. com_bucket(h[1], v) = <<h[1] * SUBTABLE_LEN + e(v), h[1] * SUBTABLE_LEN + e(v) + 1>>
        BY <1>3, <2>1, IndexOK DEF com_bucket, SUBTABLE_LEN
    <2> DEFINE base == h[1] * SUBTABLE_LEN
               top == (Prefixes - 1) * SUBTABLE_LEN
    <2>3. base \in Int /\ top \in Int /\ 0 =< base /\ base =< top /\ BucketNum \in Int
        BY <1>3, IndexOK DEF SUBTABLE_LEN, BucketNum
    <2> HIDE DEF base, top, e
    <2>4. base + e(v) \in 0..top + BucketNum - 1 /\ base + e(v) + 1 \in 0..top + BucketNum - 1
        BY <2>1, <2>3
    <2> QED BY <2>2, <2>4 DEF Area, base, top
<1>5. /\ bucket_arr(k)[1] = com_bucket(h[1], h[2])[1]
      /\ bucket_arr(k)[2] = com_bucket(h[1], h[2])[2]
      /\ bucket_arr(k)[3] = com_bucket(h[1], h[3])[1]
      /\ bucket_arr(k)[4] = com_bucket(h[1], h[3])[2]
    BY Pairs DEF bucket_arr, com_bucket
<1> QED BY <1>1, <1>4, <1>5

Copies == [1..4 -> [Slots -> Contents]]

-----------------------------------------------------------------------------
Ops == {"SEARCH", "INSERT", "UPDATE", "DELETE"}

(* A request in progress is one of Requests. *)
LEMMA RequestType ==
    ASSUME TypeOK, NEW c \in Clients, cur[c] =< Len(Requests[c])
    PROVE  /\ Op(c) \in Ops /\ Key(c) \in Keys
           /\ Block(c) \in Contents /\ Block(c).key = Key(c)
<1>1. Requests[c] \in Seq(Ops \X Keys) /\ cur[c] \in 1..Len(Requests[c])
    BY IndexOK DEF TypeOK, Ops
<1>2. Requests[c][cur[c]] \in Ops \X Keys
    BY <1>1
<1>3. Op(c) \in Ops /\ Key(c) \in Keys
    BY <1>2, Zenon DEF Op, Key
<1> QED BY <1>1, <1>3 DEF Block, Contents

(* The copy of the buckets of a key, had it been READ in one step. *)
LEMMA ViewType ==
    ASSUME hash \in [Keys -> Hashes], NEW t \in [Area -> [Slots -> Contents]], NEW k \in Keys
    PROVE  View(t, k) \in Copies
BY BucketsInArea, Zenon DEF View, Copies

LEMMA StoredType ==
    ASSUME NEW t \in [Area -> [Slots -> Contents]], NEW k
    PROVE  Stored(t, k) \subseteq Contents
<1>1. UNION {{t[n][j] : j \in Slots} : n \in Area} \subseteq Contents
    OBVIOUS
<1> QED BY <1>1, Zenon DEF Stored, Contents

LEMMA InitIndexInv ==
    Init => IndexInv
<1> SUFFICES ASSUME Init PROVE IndexInv
    OBVIOUS
<1>1. Empty \in Contents /\ Other \in Contents
    BY DEF Contents
<1>2. PICK F \in Occupied :
         table = [n \in Area |-> [j \in Slots |-> IF n \in F THEN Other ELSE Empty]]
    BY Zenon DEF Init
<1>3. table \in [Area -> [Slots -> Contents]]
    BY <1>1, <1>2
<1>4. Blank \in [1..4 -> [Slots -> Contents]]
    BY <1>1 DEF Blank
<1>5. \A c \in Clients : Len(Requests[c]) \in Nat
    BY IndexOK
<1>6. TypeOK
    BY <1>1, <1>3, <1>4, <1>5, IndexOK DEF Init, TypeOK
<1> QED BY <1>6, Zenon DEF Init, IndexInv, AimInv, Aimed, KeptStored

(* A step of one client leaves the aim of the others alone. *)
LEMMA OthersAimed ==
    ASSUME NEW d \in Clients, Aimed(d), pc'[d] = pc[d], cur'[d] = cur[d],
           local'[d] = local[d], target'[d] = target[d]
    PROVE  Aimed(d)'
BY Zenon DEF Aimed, Op, Key, At

LEMMA SameKept ==
    ASSUME KeptStored, UNCHANGED <<kept, table, hash>>
    PROVE  KeptStored'
<1>1. ASSUME NEW k PROVE View(table, k)' = View(table, k)
    BY DEF View, bucket_arr
<1> QED BY <1>1 DEF KeptStored

(* A step of c keeps the invariant if it keeps the types and the aim of c. *)
LEMMA LocalStep ==
    ASSUME AimInv, NEW c \in Clients, TypeOK', Aimed(c)',
           pc'[c] # "idle" => cur'[c] =< Len(Requests[c]),
           \A d \in Clients \ {c} : /\ pc'[d] = pc[d] /\ cur'[d] = cur[d]
                                    /\ local'[d] = local[d] /\ target'[d] = target[d]
    PROVE  AimInv'
<1>1. \A d \in Clients : Aimed(d)'
    BY OthersAimed, Zenon DEF AimInv
<1> QED BY <1>1, Zenon DEF AimInv

(* The CAS on the slot: what it replaces is what the request saw, Empty    *)
(* for an INSERT and a block of the request's key otherwise.               *)
LEMMA CasKeepsAim ==
    ASSUME AimInv, NEW c \in Clients, modify_primary_idx(c)
    PROVE  AimInv'
<1> DEFINE n == bucket_arr(Key(c))[target[c][1]]
           j == target[c][2]
           new == IF Op(c) = "DELETE" THEN Empty ELSE Block(c)
<1>1. cur[c] =< Len(Requests[c]) /\ TypeOK /\ Len(Requests[c]) \in Nat
    BY IndexOK DEF AimInv, modify_primary_idx
<1>2. /\ Op(c) \in Ops /\ Key(c) \in Keys
      /\ Block(c) \in Contents /\ Block(c).key = Key(c)
    BY <1>1, RequestType, Zenon
<1>3. /\ target[c] \in (1..4) \X Slots /\ Op(c) # "SEARCH"
      /\ IF Op(c) = "INSERT" THEN At(local[c], target[c]) = Empty
         ELSE At(local[c], target[c]).key = Key(c)
    BY <1>1, Zenon DEF AimInv, Aimed, modify_primary_idx, TypeOK
<1>4. CASE ~Matches(c)
    <2>1. /\ Return(c, LostCode(c)) /\ LostCode(c) \in {"SUCCESS", "FAIL_REDO"}
          /\ kept' \in {kept, kept \cup {Key(c)}}
          /\ UNCHANGED <<table, seen, hash, unread, local, target, answer>>
        BY <1>4, Zenon DEF modify_primary_idx, LostCode, Reported
    <2>2. pc'[c] = "idle" /\ TypeOK'
        BY <1>1, <1>2, <2>1 DEF TypeOK, Return
    <2>3. Aimed(c)'
        BY <2>2, Zenon DEF Aimed
    <2> QED BY <1>1, <2>1, <2>2, <2>3, LocalStep, Zenon DEF Return, TypeOK
<1>5. CASE Matches(c)
    <2>1. n \in Area /\ j \in Slots
        BY <1>1, <1>2, <1>3, BucketsInArea, Zenon DEF TypeOK
    <2>2. /\ table' = [table EXCEPT ![n][j] = new]
          /\ seen' = [d \in Clients |-> IF pc[d] = "idle" THEN seen[d]
                                        ELSE seen[d] \cup Stored(table', Key(d))]
          /\ Return(c, "SUCCESS") /\ kept' = Reported(c, "SUCCESS")
          /\ UNCHANGED <<hash, unread, local, target, answer>>
        BY <1>5, Zenon DEF modify_primary_idx, WonCode
    <2>3. table[n][j] = At(local[c], target[c])
        BY <1>5, <1>3, Zenon DEF Matches, View
    <2>4. new \in Contents
        BY <1>2 DEF Contents
    <2> HIDE DEF n, j, new
    <2>5. table' \in [Area -> [Slots -> Contents]]
        BY <1>1, <2>1, <2>2, <2>4, Zenon DEF TypeOK
    <2>6. seen' \in [Clients -> SUBSET Contents]
        <3>1. \A d \in Clients : Stored(table', Key(d)) \subseteq Contents
            BY <2>5, StoredType
        <3> QED BY <1>1, <2>2, <3>1, Zenon DEF TypeOK
    <2>7. kept' \subseteq Keys
        BY <1>1, <1>2, <2>2, Zenon DEF TypeOK, Reported
    <2>8. pc'[c] = "idle" /\ TypeOK'
        <3>1. /\ pc' = [pc EXCEPT ![c] = "idle"] /\ rc' = [rc EXCEPT ![c] = "SUCCESS"]
              /\ cur' = [cur EXCEPT ![c] = @ + 1]
            BY <2>2, Zenon DEF Return
        <3>2. /\ cur' \in [Clients -> Nat \ {0}]
              /\ \A d \in Clients : cur'[d] =< Len(Requests[d]) + 1
            BY <1>1, <3>1 DEF TypeOK
        <3>3. /\ pc' \in [Clients -> {"idle", "read", "match", "cas"}] /\ pc'[c] = "idle"
              /\ rc' \in [Clients -> {"none", "SUCCESS", "FAIL_RETURN", "FAIL_REDO"}]
            BY <1>1, <3>1, Zenon DEF TypeOK
        <3> QED BY <1>1, <2>2, <2>5, <2>6, <2>7, <3>2, <3>3, Zenon DEF TypeOK
    <2>9. \A d \in Clients : Aimed(d)'
        <3>1. Aimed(c)'
            BY <2>8, Zenon DEF Aimed
        <3>2. ASSUME NEW d \in Clients \ {c} PROVE Aimed(d)'
            BY <1>1, <2>2, OthersAimed, Zenon DEF AimInv, Return, TypeOK
        <3> QED BY <3>1, <3>2
    <2>10. \A d \in Clients : pc'[d] # "idle" => cur'[d] =< Len(Requests[d])
        BY <1>1, <2>2, Zenon DEF AimInv, Return, TypeOK
    <2> QED BY <2>8, <2>9, <2>10, Zenon DEF AimInv
<1> QED BY <1>4, <1>5

(* One slot changes in a CAS that matches: an empty one for an INSERT, one *)
(* of the request's key otherwise.                                         *)
LEMMA CasWrites ==
    ASSUME AimInv, NEW c \in Clients, modify_primary_idx(c), Matches(c)
    PROVE  \E n \in Area, j \in Slots :
             /\ \E i \in 1..4 : n = bucket_arr(Key(c))[i]
             /\ \A m \in Area, s \in Slots : m # n \/ s # j => table'[m][s] = table[m][s]
             /\ Op(c) \in {"INSERT", "UPDATE", "DELETE"}
             /\ IF Op(c) = "INSERT" THEN table[n][j] = Empty ELSE table[n][j].key = Key(c)
             /\ IF Op(c) = "DELETE" THEN table'[n][j] = Empty ELSE table'[n][j].key = Key(c)
<1> DEFINE n == bucket_arr(Key(c))[target[c][1]]
           j == target[c][2]
           new == IF Op(c) = "DELETE" THEN Empty ELSE Block(c)
<1>1. cur[c] =< Len(Requests[c]) /\ TypeOK
    BY Zenon DEF AimInv, modify_primary_idx
<1>2. Op(c) \in Ops /\ Key(c) \in Keys /\ Block(c).key = Key(c)
    BY <1>1, RequestType, Zenon
<1>3. /\ target[c] \in (1..4) \X Slots /\ Op(c) # "SEARCH"
      /\ IF Op(c) = "INSERT" THEN At(local[c], target[c]) = Empty
         ELSE At(local[c], target[c]).key = Key(c)
    BY <1>1, Zenon DEF AimInv, Aimed, modify_primary_idx, TypeOK
<1>4. n \in Area /\ j \in Slots /\ target[c][1] \in 1..4
    BY <1>1, <1>2, <1>3, BucketsInArea, Zenon DEF TypeOK
<1>5. table[n][j] = At(local[c], target[c])
    BY <1>3, Zenon DEF Matches, View
<1>6. table' = [table EXCEPT ![n][j] = new]
    BY Zenon DEF modify_primary_idx
<1>7. \E i \in 1..4 : n = bucket_arr(Key(c))[i]
    BY <1>4, Zenon
<1>8. IF Op(c) = "DELETE" THEN new = Empty ELSE new.key = Key(c)
    BY <1>2
<1> HIDE DEF n, j, new
<1>9. table'[n][j] = new /\ \A m \in Area, s \in Slots : m # n \/ s # j => table'[m][s] = table[m][s]
    BY <1>1, <1>4, <1>6, Zenon DEF TypeOK
<1> QED BY <1>2, <1>3, <1>4, <1>5, <1>7, <1>8, <1>9 DEF Ops

LEMMA StutterKeepsAim ==
    ASSUME AimInv, UNCHANGED vars
    PROVE  AimInv'
<1>1. TypeOK'
    BY Zenon DEF vars, AimInv, TypeOK
<1>2. \A d \in Clients : Aimed(d)'
    BY OthersAimed, Zenon DEF vars, AimInv
<1> QED BY <1>1, <1>2, Zenon DEF vars, AimInv

(* A slot taken by an INSERT that reported success goes to the key itself  *)
(* only.                                                                   *)
LEMMA CasKeepsKept ==
    ASSUME IndexInv, ~Replicated, NEW c \in Clients, modify_primary_idx(c)
    PROVE  KeptStored'
<1>1. TypeOK /\ AimInv /\ KeptStored /\ AimInv' /\ hash' = hash
    BY CasKeepsAim, Zenon DEF IndexInv, AimInv, modify_primary_idx
<1>2. CASE ~Matches(c)
    BY <1>1, <1>2, SameKept, Zenon DEF modify_primary_idx, LostCode, Reported
<1>3. CASE Matches(c)
    <2>1. PICK n \in Area, j \in Slots :
             /\ \E i \in 1..4 : n = bucket_arr(Key(c))[i]
             /\ \A m \in Area, s \in Slots : m # n \/ s # j => table'[m][s] = table[m][s]
             /\ Op(c) \in {"INSERT", "UPDATE", "DELETE"}
             /\ IF Op(c) = "INSERT" THEN table[n][j] = Empty ELSE table[n][j].key = Key(c)
             /\ IF Op(c) = "DELETE" THEN table'[n][j] = Empty ELSE table'[n][j].key = Key(c)
        BY <1>1, <1>3, CasWrites, Zenon
    <2>2. kept' = Reported(c, "SUCCESS")
        BY <1>3, Zenon DEF modify_primary_idx, WonCode
    <2>3. ASSUME NEW k \in kept' PROVE \E i \in 1..4, s \in Slots : View(table, k)'[i][s].key = k
        <3>1. k \in Keys
            BY <1>1, Zenon DEF AimInv, TypeOK
        <3>2. ASSUME NEW i \in 1..4, NEW s \in Slots
              PROVE  /\ View(table, k)'[i][s] = table'[bucket_arr(k)[i]][s]
                     /\ View(table, k)[i][s] = table[bucket_arr(k)[i]][s]
                     /\ bucket_arr(k)[i] \in Area
            BY <1>1, <3>1, BucketsInArea, Zenon DEF View, bucket_arr, TypeOK
        <3>3. CASE Op(c) # "DELETE" /\ k = Key(c)
            BY <2>1, <3>2, <3>3
        <3>4. CASE Op(c) = "DELETE" \/ k # Key(c)
            <4>1. k \in kept /\ k # Key(c)
                BY <2>2, <3>4 DEF Reported
            <4>2. PICK i \in 1..4, s \in Slots : View(table, k)[i][s].key = k
                BY <1>1, <4>1, Zenon DEF KeptStored
            <4>3. Empty.key # k
                BY <3>1, IndexOK, Zenon DEF Empty
            <4>4. bucket_arr(k)[i] # n \/ s # j
                BY <2>1, <3>2, <4>1, <4>2, <4>3
            <4>5. table'[bucket_arr(k)[i]][s] = table[bucket_arr(k)[i]][s]
                BY <2>1, <3>2, <4>4, Zenon
            <4>6. View(table, k)'[i][s].key = k
                BY <3>2, <4>2, <4>5, Zenon
            <4> QED BY <4>6, Zenon
        <3> QED BY <3>3, <3>4, Zenon
    <2> QED BY <2>3, Zenon DEF KeptStored
<1> QED BY <1>2, <1>3

LEMMA StoredHas ==
    ASSUME NEW t, NEW k
    PROVE  /\ \A n \in Area, j \in Slots : t[n][j].key = k => t[n][j] \in Stored(t, k)
           /\ (\A n \in Area, j \in Slots : t[n][j].key # k) => Empty \in Stored(t, k)
<1> DEFINE B == {b \in UNION {{t[n][j] : j \in Slots} : n \in Area} : b.key = k}
<1>1. \A b : b \in B <=> \E n \in Area, j \in Slots : b = t[n][j] /\ b.key = k
    OBVIOUS
<1> HIDE DEF B
<1>2. Stored(t, k) = IF B = {} THEN {Empty} ELSE B
    BY Zenon DEF Stored, B
<1>3. (\A n \in Area, j \in Slots : t[n][j].key # k) => B = {}
    BY <1>1
<1>4. \A n \in Area, j \in Slots : t[n][j].key = k => t[n][j] \in B
    BY <1>1, Zenon
<1> QED BY <1>2, <1>3, <1>4, Zenon

LEMMA RequestPair ==
    ASSUME TypeOK, NEW c \in Clients, cur[c] =< Len(Requests[c])
    PROVE  /\ Requests[c][cur[c]] = <<Op(c), Key(c)>>
           /\ cur[c] \in 1..Len(Requests[c])
<1>1. Requests[c] \in Seq(Ops \X Keys) /\ cur[c] \in 1..Len(Requests[c])
    BY IndexOK DEF TypeOK, Ops
<1>2. Requests[c][cur[c]] \in Ops \X Keys
    BY <1>1
<1> QED BY <1>1, <1>2 DEF Op, Key

(* The request of c ends and writes no slot of k.  Only a DELETE of k by   *)
(* its sole writer must have left no slot of k behind.                     *)
LEMMA PlacedMoves ==
    ASSUME TypeOK, NEW c \in Clients, NEW k \in Keys, Placed(k), hash' = hash,
           cur[c] =< Len(Requests[c]),
           \A n \in Area, j \in Slots : table'[n][j].key = k <=> table[n][j].key = k,
           cur' = cur \/ cur' = [cur EXCEPT ![c] = @ + 1],
           cur' # cur /\ Op(c) = "DELETE" /\ Key(c) = k /\ Sole(c, k)
              => \A n \in Area, j \in Slots : table[n][j].key # k
    PROVE  Placed(k)'
<1>1. bucket_arr(k)' = bucket_arr(k)
    BY Zenon DEF bucket_arr
<1>2. \A n \in Area, j \in Slots : table'[n][j].key = k => \E i \in 1..4 : n = bucket_arr(k)'[i]
    BY <1>1 DEF Placed
<1>3. \A n, m \in Area, i, j \in Slots :
          table'[n][i].key = k /\ table'[m][j].key = k => n = m /\ i = j
    BY DEF Placed
<1>4. ASSUME NEW n \in Area, NEW j \in Slots, table'[n][j].key = k
      PROVE  \E d \in Clients : \E i \in 1..(cur'[d] - 1) :
                 /\ Requests[d][i] = <<"INSERT", k>>
                 /\ Sole(d, k) => ~Deletes(d, k, i, cur'[d])
    <2>1. PICK d \in Clients : \E i \in 1..(cur[d] - 1) :
                 /\ Requests[d][i] = <<"INSERT", k>>
                 /\ Sole(d, k) => ~Deletes(d, k, i, cur[d])
        BY <1>4, Zenon DEF Placed
    <2>2. PICK i \in 1..(cur[d] - 1) :
                 /\ Requests[d][i] = <<"INSERT", k>>
                 /\ Sole(d, k) => ~Deletes(d, k, i, cur[d])
        BY <2>1, Zenon
    <2>3. CASE cur'[d] = cur[d]
        BY <2>2, <2>3, Zenon
    <2>4. CASE cur'[d] # cur[d]
        <3>1. d = c /\ cur'[c] = cur[c] + 1 /\ cur[c] \in Nat /\ cur' # cur
            BY <2>4, Zenon DEF TypeOK
        <3>2. Sole(c, k) => Requests[c][cur[c]] # <<"DELETE", k>>
            BY <1>4, <3>1, RequestPair
        <3>3. ASSUME Sole(d, k), NEW m \in (i + 1)..(cur'[d] - 1)
              PROVE  Requests[d][m] # <<"DELETE", k>>
            <4>1. m = cur[c] \/ m \in (i + 1)..(cur[d] - 1)
                BY <2>2, <3>1
            <4> QED BY <2>2, <3>1, <3>2, <3>3, <4>1, Zenon DEF Deletes
        <3>4. i \in 1..(cur'[d] - 1)
            BY <2>2, <3>1
        <3> QED BY <2>2, <3>3, <3>4, Zenon DEF Deletes
    <2> QED BY <2>3, <2>4, Zenon
<1> QED BY <1>2, <1>3, <1>4 DEF Placed

(* Every copy of c is as good as before if c keeps its request and its     *)
(* copy and the table is the same.                                         *)
LEMMA SameCopy ==
    ASSUME NEW d \in Clients, UNCHANGED <<hash, table>>,
           pc'[d] # "idle" => pc[d] # "idle" /\ cur'[d] = cur[d],
           unread'[d] = unread[d], local'[d] = local[d], seen'[d] = seen[d]
    PROVE  (Accurate(d) => Accurate(d)') /\ (Watched(d) => Watched(d)')
<1> SUFFICES ASSUME pc'[d] # "idle" PROVE (Accurate(d) => Accurate(d)') /\ (Watched(d) => Watched(d)')
    BY Zenon DEF Accurate, Watched
<1>1. Key(d)' = Key(d) /\ pc[d] # "idle"
    BY Zenon DEF Key
<1>2. View(table, Key(d))' = View(table, Key(d))
    BY <1>1, Zenon DEF View, bucket_arr
<1>3. Stored(table, Key(d))' = Stored(table, Key(d))
    BY <1>1 DEF Stored
<1>4. Accurate(d) => Accurate(d)'
    BY <1>1, <1>2 DEF Accurate, Sole
<1>5. Watched(d) => Watched(d)'
    BY <1>1, <1>2, <1>3, Zenon DEF Watched
<1> QED BY <1>4, <1>5, Zenon

(* The key of an INSERT in progress is in no slot: what an earlier INSERT  *)
(* of the client left has been deleted.                                    *)
LEMMA NothingInserted ==
    ASSUME OneInserter, PlaceInv, NEW c \in Clients, pc[c] # "idle", Op(c) = "INSERT",
           NEW n \in Area, NEW j \in Slots
    PROVE  table[n][j].key # Key(c)
<1> SUFFICES ASSUME table[n][j].key = Key(c) PROVE FALSE
    OBVIOUS
<1>1. TypeOK /\ cur[c] =< Len(Requests[c])
    BY Zenon DEF PlaceInv, AimInv
<1>2. /\ Key(c) \in Keys /\ Requests[c][cur[c]] = <<"INSERT", Key(c)>>
      /\ cur[c] \in 1..Len(Requests[c])
    BY <1>1, RequestType, RequestPair, Zenon
<1>3. PICK d \in Clients : \E i \in 1..(cur[d] - 1) :
          /\ Requests[d][i] = <<"INSERT", Key(c)>>
          /\ Sole(d, Key(c)) => ~Deletes(d, Key(c), i, cur[d])
    <2>1. Placed(Key(c))
        BY <1>2, Zenon DEF PlaceInv
    <2> QED BY <2>1, Zenon DEF Placed
<1>4. PICK i \in 1..(cur[d] - 1) :
          /\ Requests[d][i] = <<"INSERT", Key(c)>>
          /\ Sole(d, Key(c)) => ~Deletes(d, Key(c), i, cur[d])
    BY <1>3, Zenon
<1>5. i \in 1..Len(Requests[d]) /\ i < cur[d]
    <2>1. Len(Requests[d]) \in Nat /\ cur[d] \in Nat /\ cur[d] =< Len(Requests[d]) + 1
        BY <1>1, IndexOK DEF TypeOK
    <2> QED BY <1>4, <2>1
<1>6. /\ Requests[d][i][1] = "INSERT" /\ Requests[d][i][2] = Key(c)
      /\ Requests[c][cur[c]] = Requests[d][i]
    BY <1>2, <1>4
<1>7. d = c /\ (i < cur[c] => Sole(d, Key(c)) /\ Deletes(d, Key(c), i, cur[c]))
    BY <1>2, <1>5, <1>6 DEF OneInserter
<1> QED BY <1>4, <1>5, <1>7, Zenon

(* The copy of a request while another client changes the buckets of its   *)
(* key from V to W.                                                        *)
LEMMA CopyAfterWrite ==
    ASSUME NEW d \in Clients, NEW k, NEW V, NEW W,
           Key(d) = k, Key(d)' = k, View(table, k) = V, View(table, Key(d))' = W,
           unread'[d] = unread[d], local'[d] = local[d], pc[d] # "idle",
           Accurate(d), Watched(d), seen'[d] = seen[d] \cup Stored(table, Key(d))',
           \A i \in 1..4, s \in Slots :
               Sole(d, k) /\ (V[i][s].key = k \/ W[i][s].key = k) => W[i][s] = V[i][s],
           \A i \in 1..4, s \in Slots :
               Empty \notin seen'[d] /\ V[i][s].key = k => W[i][s].key = k
    PROVE  Accurate(d)' /\ Watched(d)'
<1>1. Accurate(d)'
    BY DEF Accurate, Sole
<1>2. Watched(d)'
    BY DEF Watched
<1> QED BY <1>1, <1>2, Zenon

(* The slot a successful CAS writes. *)
LEMMA WonCasKeepsPlace ==
    ASSUME OneInserter, PlaceInv, NEW c \in Clients, modify_primary_idx(c), Matches(c)
    PROVE  PlaceInv'
<1>1. /\ AimInv /\ TypeOK /\ AimInv' /\ UNCHANGED <<hash, unread, local>>
      /\ cur[c] =< Len(Requests[c]) /\ pc[c] = "cas" /\ cur[c] \in Nat
    BY CasKeepsAim, Zenon DEF PlaceInv, AimInv, modify_primary_idx, TypeOK
<1>2. /\ pc' = [pc EXCEPT ![c] = "idle"] /\ cur' = [cur EXCEPT ![c] = @ + 1]
      /\ seen' = [d \in Clients |-> IF pc[d] = "idle" THEN seen[d]
                                    ELSE seen[d] \cup Stored(table', Key(d))]
    BY Zenon DEF modify_primary_idx, Return, WonCode
<1>3. /\ Key(c) \in Keys /\ Requests[c][cur[c]] = <<Op(c), Key(c)>>
      /\ cur[c] \in 1..Len(Requests[c])
    BY <1>1, RequestType, RequestPair, Zenon
<1>4. PICK n \in Area, j \in Slots :
         /\ \E i \in 1..4 : n = bucket_arr(Key(c))[i]
         /\ \A m \in Area, s \in Slots : m # n \/ s # j => table'[m][s] = table[m][s]
         /\ Op(c) \in {"INSERT", "UPDATE", "DELETE"}
         /\ IF Op(c) = "INSERT" THEN table[n][j] = Empty ELSE table[n][j].key = Key(c)
         /\ IF Op(c) = "DELETE" THEN table'[n][j] = Empty ELSE table'[n][j].key = Key(c)
    BY <1>1, CasWrites, Zenon
<1>5. \A k \in Keys : Empty.key # k
    BY IndexOK, Zenon DEF Empty
(* After a DELETE the key is nowhere. *)
<1>6. ASSUME Op(c) = "DELETE", NEW m \in Area, NEW s \in Slots PROVE table'[m][s].key # Key(c)
    BY <1>3, <1>4, <1>5, <1>6 DEF PlaceInv, Placed
(* The slots of other keys. *)
<1>7. ASSUME NEW k \in Keys, k # Key(c), NEW m \in Area, NEW s \in Slots
      PROVE  /\ table'[m][s].key = k <=> table[m][s].key = k
             /\ table'[m][s].key = k => table'[m][s] = table[m][s]
    BY <1>3, <1>4, <1>5, <1>7
<1>8. ASSUME NEW k \in Keys PROVE Placed(k)'
    <2>1. CASE k # Key(c)
        <3>1. Placed(k) /\ \A m \in Area, s \in Slots : table'[m][s].key = k <=> table[m][s].key = k
            BY <1>7, <2>1 DEF PlaceInv
        <3> QED BY <1>1, <1>2, <2>1, <3>1, PlacedMoves, Zenon
    <2>2. CASE k = Key(c) /\ Op(c) = "UPDATE"
        <3>1. \A m \in Area, s \in Slots : table'[m][s].key = k <=> table[m][s].key = k
            BY <1>4, <2>2, Zenon
        <3> QED BY <1>1, <1>2, <2>2, <3>1, PlacedMoves, Zenon DEF PlaceInv
    <2>3. CASE k = Key(c) /\ Op(c) = "DELETE"
        BY <1>6, <2>3, Zenon DEF Placed
    <2>4. CASE k = Key(c) /\ Op(c) = "INSERT"
        <3>1. \A m \in Area, s \in Slots : table'[m][s].key = k => m = n /\ s = j
            BY <1>1, <1>4, <2>4, NothingInserted
        <3>2. bucket_arr(k)' = bucket_arr(k)
            BY <1>1 DEF bucket_arr
        <3>3. /\ cur[c] \in 1..(cur'[c] - 1) /\ Requests[c][cur[c]] = <<"INSERT", k>>
              /\ ~Deletes(c, k, cur[c], cur'[c])
            <4>1. cur'[c] = cur[c] + 1
                BY <1>1, <1>2, Zenon DEF TypeOK
            <4> QED BY <1>1, <1>3, <2>4, <4>1 DEF Deletes
        <3>4. \A m \in Area, s \in Slots : table'[m][s].key = k => \E i \in 1..4 : m = bucket_arr(k)'[i]
            BY <1>4, <2>4, <3>1, <3>2, Zenon
        <3> QED BY <3>1, <3>3, <3>4, Zenon DEF Placed
    <2> QED BY <1>4, <2>1, <2>2, <2>3, <2>4, Zenon
<1>9. ASSUME NEW d \in Clients PROVE Accurate(d)' /\ Watched(d)'
    <2>1. CASE pc'[d] = "idle"
        BY <2>1, Zenon DEF Accurate, Watched
    <2>2. CASE pc'[d] # "idle"
        <3>1. d # c /\ pc[d] # "idle" /\ cur'[d] = cur[d]
            BY <1>1, <1>2, <2>2, Zenon DEF TypeOK
        <3>2. seen'[d] = seen[d] \cup Stored(table', Key(d)) /\ cur[d] =< Len(Requests[d])
            BY <1>1, <1>2, <3>1, Zenon DEF AimInv
        <3>3. Key(d) \in Keys /\ Key(d)' = Key(d)
            BY <1>1, <3>1, <3>2, RequestType, Zenon DEF Key
        <3>4. Sole(d, Key(d)) => Key(d) # Key(c)
            BY <1>3, <1>4, <3>1 DEF Sole
        <3> DEFINE V == View(table, Key(d))
                   W == View(table', Key(d))
        <3>5. View(table, Key(d))' = W /\ Stored(table, Key(d))' = Stored(table', Key(d))
            BY <1>1, <3>3, Zenon DEF View, bucket_arr, Stored
        <3>6. ASSUME NEW i \in 1..4, NEW s \in Slots
              PROVE  \E m \in Area : V[i][s] = table[m][s] /\ W[i][s] = table'[m][s]
            BY <1>1, <3>3, BucketsInArea, Zenon DEF View, TypeOK
        <3> HIDE DEF V, W
        <3>7. ASSUME NEW i \in 1..4, NEW s \in Slots, Sole(d, Key(d)),
                     V[i][s].key = Key(d) \/ W[i][s].key = Key(d)
              PROVE  W[i][s] = V[i][s]
            BY <1>7, <3>3, <3>4, <3>6, <3>7
        <3>8. ASSUME NEW i \in 1..4, NEW s \in Slots, Empty \notin seen'[d], V[i][s].key = Key(d)
              PROVE  W[i][s].key = Key(d)
            <4>1. PICK m \in Area : V[i][s] = table[m][s] /\ W[i][s] = table'[m][s]
                BY <3>6, Zenon
            <4>2. CASE Key(d) # Key(c)
                BY <1>7, <3>3, <3>8, <4>1, <4>2
            <4>3. CASE Key(d) = Key(c)
                <5>1. Op(c) # "DELETE"
                    BY <1>6, <3>2, <3>8, <4>3, StoredHas, Zenon
                <5> QED BY <1>4, <3>8, <4>1, <4>3, <5>1, Zenon
            <4> QED BY <4>2, <4>3, Zenon
        <3>9. Accurate(d) /\ Watched(d) /\ unread'[d] = unread[d] /\ local'[d] = local[d]
            BY <1>1, Zenon DEF PlaceInv
        <3>10. seen'[d] = seen[d] \cup Stored(table, Key(d))' /\ View(table, Key(d)) = V
            BY <3>2, <3>5, Zenon DEF V
        <3> QED BY <3>1, <3>3, <3>5, <3>7, <3>8, <3>9, <3>10, CopyAfterWrite
    <2> QED BY <2>1, <2>2
<1>10. \A d \in Clients : pc'[d] \in {"match", "cas"} => unread'[d] = {}
    BY <1>1, <1>2, Zenon DEF PlaceInv, TypeOK
<1> QED BY <1>1, <1>8, <1>9, <1>10, Zenon DEF PlaceInv

-----------------------------------------------------------------------------
(* Sets of slots, the invariants and the theorems. *)

(* A set of natural numbers has a least element. *)
LEMMA LeastNat ==
    ASSUME NEW T \in SUBSET Nat, T # {}
    PROVE  \E x \in T : \A y \in T : x =< y
<1>1. PICK x \in T : \A y \in T : <<y, x>> \notin OpToRel(<, Nat)
    BY NatLessThanWellFounded, WFMin, Zenon
<1>2. \A y \in T : ~(y < x)
    BY <1>1, Zenon DEF OpToRel
<1> QED BY <1>2

(* Max returns an element of a set of slots. *)
LEMMA MaxOfSlots ==
    ASSUME NEW F \in SUBSET Slots, F # {}
    PROVE  Max(F) \in F
<1> DEFINE G == {Assoc - j : j \in F}
<1>1. \A j \in F : Assoc - j \in Nat /\ Assoc - j \in G
    BY IndexOK DEF Slots
<1>2. PICK x \in G : \A y \in G : x =< y
    <2>1. G \in SUBSET Nat /\ G # {}
        BY <1>1
    <2> HIDE DEF G
    <2> QED BY <2>1, LeastNat
<1>3. PICK m \in F : x = Assoc - m
    OBVIOUS
<1>4. ASSUME NEW j \in F PROVE m >= j
    <2>1. Assoc - m =< Assoc - j
        BY <1>1, <1>2, <1>3
    <2> QED BY <2>1, IndexOK DEF Slots
<1> QED BY <1>4 DEF Max

(* find_kv_in_buckets, find_match_kv_idx: the slot found holds the key, and *)
(* none is found only if no slot of the four buckets holds it.              *)
LEMMA MatchIsTheKey ==
    ASSUME NEW l, NEW k
    PROVE  LET p == find_match_kv_idx(l, k)
           IN  \/ p = NoSlot /\ \A q \in (1..4) \X Slots : l[q[1]][q[2]].key # k
               \/ p \in (1..4) \X Slots /\ l[p[1]][p[2]].key = k
<1> DEFINE Match == {p \in (1..4) \X Slots : l[p[1]][p[2]].key = k}
           First(p) == \A q \in Match : p[1] < q[1] \/ (p[1] = q[1] /\ p[2] =< q[2])
<1>1. CASE Match = {}
    BY <1>1, Zenon DEF find_match_kv_idx
<1>2. CASE Match # {}
    <2> DEFINE Rows == {p[1] : p \in Match}
    <2>1. Rows \in SUBSET Nat /\ Rows # {}
        BY <1>2
    <2>2. PICK a \in Rows : \A x \in Rows : a =< x
        <3> HIDE DEF Rows
        <3> QED BY <2>1, LeastNat
    <2> DEFINE Cols == {p[2] : p \in {q \in Match : q[1] = a}}
    <2>3. Cols \in SUBSET Nat /\ Cols # {}
        BY <2>2, IndexOK DEF Slots
    <2>4. PICK b \in Cols : \A x \in Cols : b =< x
        <3> HIDE DEF Cols
        <3> QED BY <2>3, LeastNat, Zenon
    <2>5. PICK m \in Match : m[1] = a /\ m[2] = b
        OBVIOUS
    <2>6. ASSUME NEW q \in Match PROVE m[1] < q[1] \/ (m[1] = q[1] /\ m[2] =< q[2])
        <3>1. a =< q[1] /\ a \in Nat /\ q[1] \in Nat
            BY <2>2, <2>1, Zenon
        <3>2. CASE a = q[1]
            BY <3>2, <2>4, <2>5, Zenon
        <3>3. CASE a # q[1]
            BY <3>1, <3>3, <2>5
        <3> QED BY <3>2, <3>3, Zenon
    <2>7. (CHOOSE p \in Match : First(p)) \in Match
        BY <2>6, Zenon
    <2> QED BY <1>2, <2>7, Zenon DEF find_match_kv_idx
<1> QED BY <1>1, <1>2, Zenon

LEMMA PairIsASlot ==
    ASSUME NEW a, NEW b
    PROVE  <<a, b>> # NoSlot
BY DEF NoSlot

LEMMA Parity ==
    ASSUME NEW n \in Nat
    PROVE  /\ (n + 0) % 2 \in {0, 1} /\ (n + 1) % 2 \in {0, 1}
           /\ (n + 0) % 2 # (n + 1) % 2
OBVIOUS

(* The larger of two finite sets that are not both empty is not empty. *)
LEMMA LargerIsNotEmpty ==
    ASSUME NEW A, NEW B, IsFiniteSet(A), IsFiniteSet(B), A \cup B # {}
    PROVE  IF Cardinality(A) >= Cardinality(B) THEN A # {} ELSE B # {}
<1>1. Cardinality(A) \in Nat /\ Cardinality(B) \in Nat
    BY FS_CardinalityType
<1>2. (Cardinality(A) = 0 <=> A = {}) /\ (Cardinality(B) = 0 <=> B = {})
    BY FS_EmptySet
<1> QED BY <1>1, <1>2

(* find_empty_slot: the slot chosen is empty, and none is chosen only if   *)
(* no slot of the four buckets is empty.                                   *)
LEMMA ChosenIsEmpty ==
    ASSUME hash \in [Keys -> Hashes], NEW l, NEW k \in Keys
    PROVE  LET p == find_empty_slot(l, k)
           IN  \/ p = NoSlot /\ \A i \in 1..4, j \in Slots : l[i][j] # Empty
               \/ p \in (1..4) \X Slots /\ p # NoSlot /\ l[p[1]][p[2]] = Empty
<1> DEFINE Free(i) == {j \in Slots : l[i][j] = Empty}
           f(i) == 1 + ((hash[k][2] + i) % 2)
           g(i) == 3 + ((hash[k][3] + i) % 2)
           Pick(i) == IF Free(f(i)) \cup Free(g(i)) = {} THEN NoSlot
                      ELSE IF Cardinality(Free(f(i))) >= Cardinality(Free(g(i)))
                      THEN <<f(i), Max(Free(f(i)))>> ELSE <<g(i), Max(Free(g(i)))>>
           Good(p) == p \in (1..4) \X Slots /\ p # NoSlot /\ l[p[1]][p[2]] = Empty
<1>1. hash[k][2] \in Nat /\ hash[k][3] \in Nat
    BY IndexOK DEF Hashes, Half
<1>2. f(0) \in {1, 2} /\ f(1) \in {1, 2} /\ f(0) # f(1)
    <2> DEFINE n == hash[k][2]
    <2>1. n \in Nat
        BY <1>1
    <2> HIDE DEF n
    <2>2. /\ (n + 0) % 2 \in {0, 1} /\ (n + 1) % 2 \in {0, 1}
          /\ (n + 0) % 2 # (n + 1) % 2
        BY <2>1, Parity
    <2> QED BY <2>2 DEF n
<1>3. g(0) \in {3, 4} /\ g(1) \in {3, 4} /\ g(0) # g(1)
    BY <1>1, Parity
<1>4. ASSUME NEW n \in 1..4, Free(n) # {} PROVE Good(<<n, Max(Free(n))>>)
    BY <1>4, MaxOfSlots, PairIsASlot, Zenon
<1>5. ASSUME NEW i PROVE IsFiniteSet(Free(i))
    <2>1. IsFiniteSet(Slots)
        BY FS_Interval, IndexOK DEF Slots
    <2>2. Free(i) \subseteq Slots
        OBVIOUS
    <2> QED BY <2>1, <2>2, FS_Subset
<1>6. ASSUME NEW i \in {0, 1}, Pick(i) # NoSlot PROVE Good(Pick(i))
    <2>1. f(i) \in 1..4 /\ g(i) \in 1..4
        <3> HIDE DEF f, g
        <3> QED BY <1>2, <1>3
    <2>2. Free(f(i)) \cup Free(g(i)) # {}
        <3> HIDE DEF f, g, Free
        <3> QED BY <1>6
    <2> HIDE DEF Free, f, g, Good
    <2>3. IF Cardinality(Free(f(i))) >= Cardinality(Free(g(i)))
          THEN Free(f(i)) # {} ELSE Free(g(i)) # {}
        BY <2>2, <1>5, LargerIsNotEmpty
    <2> QED BY <2>1, <2>2, <2>3, <1>4, Zenon
<1>7. ASSUME NEW i \in {0, 1}, Pick(i) = NoSlot PROVE Free(f(i)) = {} /\ Free(g(i)) = {}
    <2> HIDE DEF Free, f, g
    <2> QED BY <1>7, PairIsASlot
<1>8. find_empty_slot(l, k) = IF Pick(1) # NoSlot THEN Pick(1) ELSE Pick(0)
    BY Zenon DEF find_empty_slot
<1>9. CASE Pick(1) # NoSlot \/ Pick(0) # NoSlot
    <2> HIDE DEF Pick
    <2> QED BY <1>6, <1>8, <1>9, Zenon
<1>10. CASE Pick(1) = NoSlot /\ Pick(0) = NoSlot
    <2>1. Free(f(0)) = {} /\ Free(g(0)) = {} /\ Free(f(1)) = {} /\ Free(g(1)) = {}
        <3> HIDE DEF Pick
        <3> QED BY <1>7, <1>10, Zenon
    <2>2. \A i \in 1..4 : Free(i) = {}
        <3> HIDE DEF Free
        <3> QED BY <2>1, <1>2, <1>3
    <2>3. find_empty_slot(l, k) = NoSlot
        <3> HIDE DEF Pick
        <3> QED BY <1>8, <1>10
    <2> QED BY <2>2, <2>3, Zenon
<1> QED BY <1>9, <1>10, Zenon

(* Requests that only READ. *)
LEMMA ReadsKeepAim ==
    ASSUME AimInv, NEW c \in Clients, prepare_request(c) \/ read_buckets(c) \/ kv_search(c)
    PROVE  AimInv'
<1>1. cur[c] =< Len(Requests[c]) /\ TypeOK
    BY Zenon DEF AimInv, prepare_request, read_buckets, kv_search
<1>2. Key(c) \in Keys
    BY <1>1, RequestType
<1>3. View(table, Key(c)) \in Copies
    BY <1>1, <1>2, ViewType, Zenon DEF TypeOK
<1>4. Empty \in Contents
    BY DEF Contents
<1>5. Len(Requests[c]) \in Nat
    BY IndexOK
<1>6. CASE prepare_request(c)
    <2>1. Stored(table, Key(c)) \subseteq Contents /\ Blank \in Copies
        BY <1>1, <1>4, StoredType, Zenon DEF TypeOK, Copies, Blank
    <2>2. TypeOK'
        BY <1>1, <1>6, <2>1, Zenon DEF TypeOK, prepare_request, Copies
    <2>3. Aimed(c)'
        BY <1>6, Zenon DEF prepare_request, Aimed, TypeOK, AimInv
    <2> QED BY <1>1, <1>6, <2>2, <2>3, LocalStep, Zenon DEF prepare_request, TypeOK
<1>7. CASE read_buckets(c)
    <2>1. TypeOK'
        BY <1>1, <1>3, <1>7 DEF TypeOK, read_buckets, Copies
    <2>2. Aimed(c)'
        BY <1>7, Zenon DEF read_buckets, Aimed, TypeOK, AimInv
    <2> QED BY <1>1, <1>7, <2>1, <2>2, LocalStep, Zenon DEF read_buckets, TypeOK
<1>8. CASE kv_search(c)
    <2>1. At(local[c], find_match_kv_idx(local[c], Key(c))) \in Contents
        BY <1>1, <1>4, MatchIsTheKey DEF TypeOK, At
    <2>2. TypeOK'
        BY <1>1, <1>5, <1>8, <2>1 DEF TypeOK, kv_search, Return
    <2>3. Aimed(c)'
        BY <1>8, Zenon DEF kv_search, Return, Aimed, TypeOK, AimInv
    <2> QED BY <1>1, <1>8, <2>2, <2>3, LocalStep, Zenon DEF kv_search, Return, TypeOK
<1> QED BY <1>6, <1>7, <1>8

(* Requests that choose the slot to modify, or end without one. *)
LEMMA ChoicesKeepAim ==
    ASSUME AimInv, NEW c \in Clients, kv_insert(c) \/ kv_update(c) \/ kv_delete(c)
    PROVE  AimInv'
<1>1. cur[c] =< Len(Requests[c]) /\ TypeOK /\ Len(Requests[c]) \in Nat
    BY IndexOK DEF AimInv, kv_insert, kv_update, kv_delete
<1>2. Key(c) \in Keys
    BY <1>1, RequestType
<1>3. PICK p, r :
         /\ Choose(c, p, r) /\ r \in {"SUCCESS", "FAIL_RETURN"}
         /\ \/ p = NoSlot
            \/ /\ p \in (1..4) \X Slots /\ p # NoSlot /\ Op(c) # "SEARCH"
               /\ IF Op(c) = "INSERT" THEN local[c][p[1]][p[2]] = Empty
                  ELSE local[c][p[1]][p[2]].key = Key(c)
         /\ UNCHANGED <<hash, table, unread, local, answer, seen, kept>>
    <2>1. CASE kv_insert(c)
        <3> DEFINE p == find_empty_slot(local[c], Key(c))
        <3>1. p = NoSlot \/ (p \in (1..4) \X Slots /\ p # NoSlot /\ local[c][p[1]][p[2]] = Empty)
            BY <1>1, <1>2, ChosenIsEmpty, Zenon DEF TypeOK
        <3> HIDE DEF p
        <3>2. Choose(c, p, "FAIL_RETURN") /\ Op(c) = "INSERT"
              /\ UNCHANGED <<hash, table, unread, local, answer, seen, kept>>
            BY <2>1, Zenon DEF kv_insert, p
        <3> QED BY <3>1, <3>2, Zenon
    <2>2. CASE kv_update(c) \/ kv_delete(c)
        <3> DEFINE p == find_match_kv_idx(local[c], Key(c))
        <3>1. p = NoSlot \/ (p \in (1..4) \X Slots /\ local[c][p[1]][p[2]].key = Key(c))
            BY MatchIsTheKey, Zenon
        <3> HIDE DEF p
        <3>2. PICK r \in {"SUCCESS", "FAIL_RETURN"} : Choose(c, p, r)
            BY <2>2, Zenon DEF kv_update, kv_delete, p
        <3>3. Op(c) \in {"UPDATE", "DELETE"}
              /\ UNCHANGED <<hash, table, unread, local, answer, seen, kept>>
            BY <2>2, Zenon DEF kv_update, kv_delete
        <3> QED BY <3>1, <3>2, <3>3, Zenon
    <2> QED BY <2>1, <2>2, Zenon
<1>4. CASE p = NoSlot
    <2>0. Return(c, r) /\ UNCHANGED target /\ r # "FAIL_REDO"
        BY <1>3, <1>4, Zenon DEF Choose
    <2>1. pc'[c] = "idle" /\ TypeOK'
        BY <1>1, <1>3, <2>0 DEF TypeOK, Return
    <2>2. Aimed(c)'
        BY <2>1 DEF Aimed
    <2> QED BY <1>1, <1>3, <1>4, <2>1, <2>2, LocalStep, Zenon DEF Choose, Return, TypeOK
<1>5. CASE p # NoSlot
    <2>0. /\ target' = [target EXCEPT ![c] = p] /\ pc' = [pc EXCEPT ![c] = "cas"]
          /\ UNCHANGED <<rc, cur>> /\ p \in (1..4) \X Slots \cup {NoSlot}
        BY <1>3, <1>5, Zenon DEF Choose
    <2>1. pc'[c] = "cas" /\ target'[c] = p /\ cur' = cur /\ TypeOK'
        BY <1>1, <1>3, <2>0, Zenon DEF TypeOK
    <2>2. Aimed(c)'
        BY <1>3, <1>5, <2>1, Zenon DEF Aimed, At, Op, Key
    <2> QED BY <1>1, <1>3, <1>5, <2>1, <2>2, LocalStep, Zenon DEF Choose, TypeOK
<1> QED BY <1>4, <1>5

(* AimInv is inductive, for every workload, hash function and geometry of  *)
(* the table, whatever the number of index replicas.                       *)
THEOREM AimInvHolds ==
    Spec => []AimInv
<1>1. ASSUME AimInv, [Next]_vars PROVE AimInv'
    BY <1>1, ReadsKeepAim, ChoicesKeepAim, CasKeepsAim, StutterKeepsAim DEF Next, Step
<1>2. Init => AimInv
    BY InitIndexInv DEF IndexInv
<1> QED BY <1>1, <1>2, PTL DEF Spec

-----------------------------------------------------------------------------
(* With one index replica IndexInv is inductive, for every workload, hash  *)
(* function and geometry of the table (src/client.cc, find_empty_slot,     *)
(* find_match_kv_idx, modify_primary_idx).                                 *)
THEOREM IndexInvHolds ==
    ASSUME ~Replicated
    PROVE  Spec => []IndexInv
<1>1. ASSUME IndexInv, [Next]_vars PROVE KeptStored'
    <2>1. CASE \E c \in Clients : modify_primary_idx(c)
        BY <1>1, <2>1, CasKeepsKept
    <2>2. CASE UNCHANGED <<kept, table, hash>>
        BY <1>1, <2>2, SameKept DEF IndexInv
    <2> QED BY <1>1, <2>1, <2>2, Zenon DEF Next, Step, prepare_request, read_buckets, kv_search,
               kv_insert, kv_update, kv_delete, vars
<1>2. Init => KeptStored
    BY InitIndexInv DEF IndexInv
<1> QED BY <1>1, <1>2, AimInvHolds, PTL DEF Spec, IndexInv

(* A search at any moment finds every key whose INSERT reported success    *)
(* and that no DELETE has removed, whatever the other clients insert into  *)
(* the buckets it shares with their keys, and however their READs and      *)
(* CASes interleave (find_empty_slot, modify_primary_idx, num_idx_rep_ 1). *)
THEOREM InsertsStay ==
    ASSUME ~Replicated
    PROVE  Spec => []ReportedInsertStays
<1>1. ASSUME IndexInv PROVE ReportedInsertStays
    <2> SUFFICES ASSUME NEW k \in kept PROVE Visible(table, k) # Empty
        BY DEF ReportedInsertStays
    <2> DEFINE l == View(table, k)
               p == find_match_kv_idx(l, k)
    <2>1. k \in Keys
        BY <1>1, Zenon DEF IndexInv, AimInv, TypeOK
    <2>2. PICK i \in 1..4, j \in Slots : l[i][j].key = k
        BY <1>1, Zenon DEF IndexInv, KeptStored
    <2> HIDE DEF l
    <2>3. p \in (1..4) \X Slots /\ l[p[1]][p[2]].key = k
        <3>1. <<i, j>> \in (1..4) \X Slots
            OBVIOUS
        <3>2. ~(\A q \in (1..4) \X Slots : l[q[1]][q[2]].key # k)
            BY <2>2, <3>1, Zenon
        <3> QED BY <3>2, MatchIsTheKey, Zenon
    <2>4. Visible(table, k) = l[p[1]][p[2]]
        BY <2>3, PairIsASlot DEF Visible, At, l
    <2> QED BY <2>1, <2>3, <2>4, IndexOK DEF Empty
<1> QED BY <1>1, IndexInvHolds, PTL

(* An INSERT gives up only if none of the slots it READ in its four        *)
(* buckets was empty (find_empty_slot, GetFreeSlotNum).                    *)
THEOREM GivesUpWhenFull ==
    Spec => GivesUpOnlyWhenFull
<1>1. ASSUME AimInv, Next, NEW c \in Clients, pc[c] = "match", pc'[c] = "idle",
             Op(c) = "INSERT", rc'[c] = "FAIL_RETURN"
      PROVE  \A i \in 1..4, j \in Slots : local[c][i][j] # Empty
    <2>1. TypeOK /\ cur[c] =< Len(Requests[c])
        BY <1>1 DEF AimInv
    <2>2. Key(c) \in Keys
        BY <2>1, <1>1, RequestType
    <2>3. kv_insert(c)
        <3>1. PICK d \in Clients : Step(d)
            BY <1>1 DEF Next, vars
        <3>2. d = c
            BY <1>1, <2>1, <3>1, Zenon DEF Step, prepare_request, read_buckets, kv_search, kv_insert,
               kv_update, kv_delete, modify_primary_idx, Return, Choose, TypeOK
        <3> QED BY <1>1, <3>1, <3>2, Zenon DEF Step, prepare_request, read_buckets, kv_search,
               kv_update, kv_delete, modify_primary_idx
    <2> DEFINE p == find_empty_slot(local[c], Key(c))
    <2>4. p = NoSlot
        <3> HIDE DEF p
        <3>1. Choose(c, p, "FAIL_RETURN")
            BY <2>3 DEF kv_insert, p
        <3> QED BY <1>1, <2>1, <3>1, Zenon DEF Choose, TypeOK
    <2> QED BY <2>1, <2>2, <2>4, ChosenIsEmpty, Zenon DEF TypeOK
<1>2. ASSUME AimInv, [Next]_vars
      PROVE  [\A c \in Clients :
                 rc'[c] = "FAIL_RETURN" /\ pc[c] = "match" /\ pc'[c] = "idle" /\ Op(c) = "INSERT"
                   => \A i \in 1..4, j \in Slots : local[c][i][j] # Empty]_vars
    BY <1>1, <1>2, Zenon
<1> QED BY <1>2, AimInvHolds, PTL DEF Spec, GivesUpOnlyWhenFull

(* A DELETE that finds no slot in the copy of a key only it modifies can   *)
(* be sure there is none.                                                  *)
LEMMA NothingToDelete ==
    ASSUME PlaceInv, NEW c \in Clients, pc[c] = "match", Sole(c, Key(c)),
           find_match_kv_idx(local[c], Key(c)) = NoSlot,
           NEW n \in Area, NEW j \in Slots
    PROVE  table[n][j].key # Key(c)
<1> SUFFICES ASSUME table[n][j].key = Key(c) PROVE FALSE
    OBVIOUS
<1>1. TypeOK /\ cur[c] =< Len(Requests[c]) /\ unread[c] = {} /\ Accurate(c)
    BY Zenon DEF PlaceInv, AimInv
<1>2. Key(c) \in Keys
    BY <1>1, RequestType, Zenon
<1>3. PICK i \in 1..4 : n = bucket_arr(Key(c))[i]
    BY <1>2 DEF PlaceInv, Placed
<1>4. View(table, Key(c))[i][j].key = Key(c)
    BY <1>3, Zenon DEF View
<1>5. local[c][i][j].key = Key(c)
    BY <1>1, <1>4, Zenon DEF Accurate
<1>6. <<i, j>> \in (1..4) \X Slots /\ local[c][<<i, j>>[1]][<<i, j>>[2]].key = Key(c)
    BY <1>5, Zenon
<1> QED BY <1>6, MatchIsTheKey, PairIsASlot DEF NoSlot

LEMMA ChoicesKeepPlace ==
    ASSUME PlaceInv, NEW c \in Clients,
           kv_search(c) \/ kv_insert(c) \/ kv_update(c) \/ kv_delete(c)
    PROVE  PlaceInv'
<1>1. /\ AimInv /\ TypeOK /\ AimInv' /\ UNCHANGED <<hash, table, unread, local, seen>>
      /\ cur[c] =< Len(Requests[c]) /\ pc[c] = "match"
    BY ReadsKeepAim, ChoicesKeepAim, Zenon
       DEF PlaceInv, AimInv, kv_search, kv_insert, kv_update, kv_delete
<1>2. \/ pc' = [pc EXCEPT ![c] = "cas"] /\ cur' = cur
      \/ pc' = [pc EXCEPT ![c] = "idle"] /\ cur' = [cur EXCEPT ![c] = @ + 1]
    BY Zenon DEF kv_search, kv_insert, kv_update, kv_delete, Choose, Return
<1>3. cur' # cur /\ Op(c) = "DELETE" => find_match_kv_idx(local[c], Key(c)) = NoSlot
    BY Zenon DEF kv_search, kv_insert, kv_update, kv_delete, Choose
<1>4. ASSUME NEW k \in Keys PROVE Placed(k)'
    <2>1. cur' # cur /\ Op(c) = "DELETE" /\ Key(c) = k /\ Sole(c, k)
              => \A n \in Area, j \in Slots : table[n][j].key # k
        BY <1>1, <1>3, NothingToDelete, Zenon
    <2> QED BY <1>1, <1>2, <2>1, PlacedMoves, Zenon DEF PlaceInv
<1>5. ASSUME NEW d \in Clients PROVE Accurate(d)' /\ Watched(d)'
    <2>1. pc'[d] # "idle" => pc[d] # "idle" /\ cur'[d] = cur[d]
        BY <1>1, <1>2, Zenon DEF TypeOK
    <2> QED BY <1>1, <2>1, SameCopy, Zenon DEF PlaceInv
<1>6. \A d \in Clients : pc'[d] \in {"match", "cas"} => unread'[d] = {}
    BY <1>1, <1>2, Zenon DEF PlaceInv, TypeOK
<1> QED BY <1>1, <1>4, <1>5, <1>6, Zenon DEF PlaceInv

(* Steps of c that write no slot. *)
LEMMA ReadsKeepPlace ==
    ASSUME PlaceInv, AimInv', NEW c \in Clients, prepare_request(c) \/ read_buckets(c)
    PROVE  PlaceInv'
<1>1. /\ AimInv /\ TypeOK /\ AimInv' /\ UNCHANGED <<hash, table, cur>>
      /\ cur[c] =< Len(Requests[c])
    BY Zenon DEF PlaceInv, AimInv, prepare_request, read_buckets
<1>2. Key(c) \in Keys
    BY <1>1, RequestType
<1>3. \A k \in Keys : Placed(k)'
    BY <1>1, PlacedMoves, Zenon DEF PlaceInv
<1>4. ASSUME NEW d \in Clients \ {c} PROVE Accurate(d)' /\ Watched(d)'
    <2>1. /\ pc'[d] = pc[d] /\ unread'[d] = unread[d]
          /\ local'[d] = local[d] /\ seen'[d] = seen[d]
        BY <1>1, Zenon DEF prepare_request, read_buckets, TypeOK
    <2> QED BY <1>1, <2>1, SameCopy, Zenon DEF PlaceInv
<1>5. Key(c)' = Key(c) /\ View(table, Key(c))' = View(table, Key(c))
    BY <1>1 DEF Key, View, bucket_arr
<1>6. Stored(table, Key(c))' = Stored(table, Key(c))
    BY <1>1, <1>5 DEF Stored
<1>7. ASSUME NEW i \in 1..4, NEW j \in Slots
      PROVE  /\ bucket_arr(Key(c))[i] \in Area
             /\ View(table, Key(c))[i][j] = table[bucket_arr(Key(c))[i]][j]
    BY <1>1, <1>2, BucketsInArea, Zenon DEF View, TypeOK
<1>8. CASE prepare_request(c)
    <2>1. /\ unread'[c] = 1..4 /\ local'[c] = Blank /\ pc'[c] = "read"
          /\ seen'[c] = Stored(table, Key(c))
        BY <1>1, <1>8, Zenon DEF prepare_request, TypeOK
    <2>2. Accurate(c)'
        BY <2>1, Zenon DEF Accurate
    <2>3. \A i \in 1..4, j \in Slots : Blank[i][j].key # Key(c)
        BY <1>2, IndexOK, Zenon DEF Blank, Empty
    <2>4. Empty \notin seen'[c] => \E i \in 1..4, j \in Slots : View(table, Key(c))[i][j].key = Key(c)
        <3>1. SUFFICES ASSUME Empty \notin seen'[c]
                       PROVE  \E i \in 1..4, j \in Slots : View(table, Key(c))[i][j].key = Key(c)
            OBVIOUS
        <3>2. PICK n \in Area, j \in Slots : table[n][j].key = Key(c)
            BY <2>1, <3>1, StoredHas, Zenon
        <3>3. PICK i \in 1..4 : n = bucket_arr(Key(c))[i]
            BY <1>2, <3>2 DEF PlaceInv, Placed
        <3> QED BY <1>7, <3>2, <3>3, Zenon
    <2>5. Watched(c)'
        BY <1>5, <1>6, <2>1, <2>3, <2>4, Zenon DEF Watched
    <2>6. \A d \in Clients : pc'[d] \in {"match", "cas"} => unread'[d] = {}
        BY <1>1, <1>8, <2>1, Zenon DEF prepare_request, TypeOK, PlaceInv
    <2> QED BY <1>1, <1>3, <1>4, <2>2, <2>5, <2>6, Zenon DEF PlaceInv
<1>9. CASE read_buckets(c)
    <2>1. PICK i \in unread[c] :
             /\ local' = [local EXCEPT ![c][i] = View(table, Key(c))[i]]
             /\ unread' = [unread EXCEPT ![c] = @ \ {i}]
        BY <1>9, Zenon DEF read_buckets
    <2>2. /\ i \in 1..4 /\ unread'[c] = unread[c] \ {i} /\ local'[c][i] = View(table, Key(c))[i]
          /\ \A e \in 1..4 : e # i => local'[c][e] = local[c][e]
          /\ pc[c] = "read" /\ seen' = seen
          /\ pc'[c] = IF unread'[c] = {} THEN "match" ELSE "read"
        BY <1>1, <1>9, <2>1 DEF read_buckets, TypeOK
    <2>3. Accurate(c)'
        <3> SUFFICES ASSUME Sole(c, Key(c)), NEW e \in (1..4) \ unread'[c], NEW j \in Slots,
                            \/ local'[c][e][j].key = Key(c)
                            \/ View(table, Key(c))[e][j].key = Key(c)
                     PROVE  local'[c][e][j] = View(table, Key(c))[e][j]
            BY <1>5, Zenon DEF Accurate, Sole
        <3>1. CASE e = i
            BY <2>2, <3>1, Zenon
        <3>2. CASE e # i
            BY <2>2, <3>2 DEF Accurate, PlaceInv
        <3> QED BY <3>1, <3>2, Zenon
    <2>4. Watched(c)
        BY DEF PlaceInv
    <2>5. ASSUME NEW e \in 1..4, NEW j \in Slots, local'[c][e][j].key = Key(c)
          PROVE  local'[c][e][j] \in seen[c]
        <3>1. CASE e = i
            BY <1>7, <2>2, <2>4, <2>5, <3>1, StoredHas DEF Watched
        <3>2. CASE e # i
            BY <2>2, <2>4, <2>5, <3>2, Zenon DEF Watched
        <3> QED BY <3>1, <3>2, Zenon
    <2>6. Empty \notin seen[c] => \E e \in 1..4, j \in Slots :
              /\ View(table, Key(c))[e][j].key = Key(c)
              /\ e \notin unread'[c] => local'[c][e][j].key = Key(c)
        BY <2>2, <2>4 DEF Watched
    <2>7. Watched(c)'
        <3>1. Stored(table, Key(c))' \subseteq seen'[c]
            BY <1>6, <2>2, <2>4, Zenon DEF Watched
        <3>2. \A e \in 1..4, j \in Slots : local'[c][e][j].key = Key(c)' => local'[c][e][j] \in seen'[c]
            BY <1>5, <2>2, <2>5, Zenon
        <3>3. Empty \notin seen'[c] => \E e \in 1..4, j \in Slots :
                  /\ View(table, Key(c))'[e][j].key = Key(c)'
                  /\ e \notin unread'[c] => local'[c][e][j].key = Key(c)'
            BY <1>5, <2>2, <2>6
        <3> QED BY <3>1, <3>2, <3>3, Zenon DEF Watched
    <2>8. \A d \in Clients : pc'[d] \in {"match", "cas"} => unread'[d] = {}
        BY <1>1, <1>9, <2>1, <2>2, Zenon DEF read_buckets, TypeOK, PlaceInv
    <2> QED BY <1>1, <1>3, <1>4, <2>3, <2>7, <2>8, Zenon DEF PlaceInv
<1> QED BY <1>8, <1>9

(* A CAS that finds something else.  A DELETE cannot lose a slot that only *)
(* it modifies.                                                            *)
LEMMA LostCasKeepsPlace ==
    ASSUME PlaceInv, NEW c \in Clients, modify_primary_idx(c), ~Matches(c)
    PROVE  PlaceInv'
<1>1. /\ AimInv /\ TypeOK /\ AimInv' /\ UNCHANGED <<hash, table, unread, local, seen>>
      /\ cur[c] =< Len(Requests[c]) /\ pc[c] = "cas"
    BY CasKeepsAim, Zenon DEF PlaceInv, AimInv, modify_primary_idx
<1>2. /\ pc' = [pc EXCEPT ![c] = "idle"]
      /\ cur' = cur \/ cur' = [cur EXCEPT ![c] = @ + 1]
    BY <1>1, Zenon DEF modify_primary_idx, Return, TypeOK
<1>3. ASSUME Op(c) = "DELETE", Sole(c, Key(c)) PROVE FALSE
    <2>1. /\ target[c] \in (1..4) \X Slots /\ At(local[c], target[c]).key = Key(c)
          /\ unread[c] = {} /\ Accurate(c) /\ target[c] # NoSlot
        BY <1>1, <1>3, Zenon DEF PlaceInv, AimInv, Aimed, TypeOK
    <2>2. /\ target[c][1] \in 1..4 /\ target[c][2] \in Slots
          /\ local[c][target[c][1]][target[c][2]].key = Key(c)
        BY <2>1, Zenon DEF At
    <2>3. local[c][target[c][1]][target[c][2]] = View(table, Key(c))[target[c][1]][target[c][2]]
        BY <1>1, <1>3, <2>1, <2>2, Zenon DEF Accurate
    <2> QED BY <2>1, <2>3, Zenon DEF Matches, At
<1>4. ASSUME NEW k \in Keys PROVE Placed(k)'
    BY <1>1, <1>2, <1>3, PlacedMoves, Zenon DEF PlaceInv
<1>5. ASSUME NEW d \in Clients PROVE Accurate(d)' /\ Watched(d)'
    <2>1. pc'[d] # "idle" => pc[d] # "idle" /\ cur'[d] = cur[d]
        BY <1>1, <1>2, Zenon DEF TypeOK
    <2> QED BY <1>1, <2>1, SameCopy, Zenon DEF PlaceInv
<1>6. \A d \in Clients : pc'[d] \in {"match", "cas"} => unread'[d] = {}
    BY <1>1, <1>2, Zenon DEF PlaceInv, TypeOK
<1> QED BY <1>1, <1>4, <1>5, <1>6, Zenon DEF PlaceInv

(* PlaceInv is inductive for every workload with one inserter per key. *)
THEOREM PlaceInvHolds ==
    ASSUME OneInserter
    PROVE  Spec => []PlaceInv
<1>1. Init => PlaceInv
    <2> SUFFICES ASSUME Init PROVE PlaceInv
        OBVIOUS
    <2>1. AimInv
        BY InitIndexInv DEF IndexInv
    <2>2. PICK F \in Occupied :
             table = [n \in Area |-> [j \in Slots |-> IF n \in F THEN Other ELSE Empty]]
        BY DEF Init
    <2>3. ASSUME NEW n \in Area, NEW j \in Slots, NEW k \in Keys PROVE table[n][j].key # k
        BY <2>2, IndexOK, Zenon DEF Empty, Other
    <2>4. \A k \in Keys : Placed(k)
        BY <2>3, Zenon DEF Placed
    <2>5. \A c \in Clients : pc[c] = "idle"
        BY DEF Init
    <2> QED BY <2>1, <2>4, <2>5, Zenon DEF PlaceInv, Accurate, Watched
<1>2. ASSUME PlaceInv, UNCHANGED vars PROVE PlaceInv'
    <2>1. AimInv' /\ UNCHANGED <<pc, cur, unread, local, seen, hash, table>>
        BY <1>2, StutterKeepsAim DEF PlaceInv, vars
    <2>2. ASSUME NEW k \in Keys PROVE Placed(k)'
        <3>1. Placed(k) /\ bucket_arr(k)' = bucket_arr(k)
            BY <1>2, <2>1 DEF PlaceInv, bucket_arr
        <3> QED BY <2>1, <3>1 DEF Placed
    <2>3. ASSUME NEW c \in Clients PROVE Accurate(c)' /\ Watched(c)'
        BY <1>2, <2>1, SameCopy, Zenon DEF PlaceInv
    <2> QED BY <1>2, <2>1, <2>2, <2>3 DEF PlaceInv
<1>3. ASSUME PlaceInv, [Next]_vars PROVE PlaceInv'
    BY <1>2, <1>3, ReadsKeepAim, ReadsKeepPlace, ChoicesKeepPlace, LostCasKeepsPlace,
       WonCasKeepsPlace, Zenon DEF PlaceInv, Next, Step
<1> QED BY <1>1, <1>3, PTL DEF Spec

(* A key occupies at most one slot, although its inserter redoes lost      *)
(* INSERTs and other clients update and delete the key and compete for     *)
(* the slots (client_ops_fb, KV_OPS_FAIL_REDO, modify_primary_idx).        *)
THEOREM OneSlot ==
    ASSUME OneInserter
    PROVE  Spec => []OneSlotPerKey
<1>1. ASSUME PlaceInv PROVE OneSlotPerKey
    <2> SUFFICES ASSUME NEW k \in Keys
                 PROVE  Cardinality({p \in (DOMAIN table) \X Slots : table[p[1]][p[2]].key = k}) =< 1
        BY Zenon DEF OneSlotPerKey
    <2> DEFINE S == {p \in (DOMAIN table) \X Slots : table[p[1]][p[2]].key = k}
    <2>1. ASSUME NEW p \in S, NEW q \in S PROVE p = q
        <3>1. /\ p \in Area \X Slots /\ q \in Area \X Slots
              /\ table[p[1]][p[2]].key = k /\ table[q[1]][q[2]].key = k
            BY <1>1, Zenon DEF PlaceInv, AimInv, TypeOK
        <3>2. p[1] = q[1] /\ p[2] = q[2]
            BY <1>1, <3>1 DEF PlaceInv, Placed
        <3> QED BY <3>1, <3>2
    <2> HIDE DEF S
    <2>2. S = {} \/ \E p : S = {p}
        BY <2>1
    <2>3. Cardinality(S) = 0 \/ Cardinality(S) = 1
        BY <2>2, FS_EmptySet, FS_Singleton, Zenon
    <2> QED BY <2>3 DEF S
<1> QED BY <1>1, PlaceInvHolds, PTL

(* A search READs its four buckets at four moments, while other clients    *)
(* move keys between them, and still answers with a content its key had at *)
(* one moment; with NULL only if the key was absent at one                 *)
(* (kv_search, find_kv_in_buckets).                                        *)
THEOREM SearchIsOneMoment ==
    ASSUME OneInserter
    PROVE  Spec => SearchAnswersOneMoment
<1>1. ASSUME PlaceInv, Next, NEW c \in Clients, pc[c] = "match", pc'[c] = "idle",
             Op(c) = "SEARCH"
      PROVE  answer'[c] \in seen[c]
    <2>1. TypeOK /\ unread[c] = {} /\ Watched(c)
        BY <1>1 DEF PlaceInv, AimInv
    <2>2. kv_search(c)
        <3>1. PICK d \in Clients : Step(d)
            BY <1>1 DEF Next, vars
        <3>2. d = c
            BY <1>1, <2>1, <3>1, Zenon DEF Step, prepare_request, read_buckets, kv_search, kv_insert,
               kv_update, kv_delete, modify_primary_idx, Return, Choose, TypeOK
        <3> QED BY <1>1, <3>1, <3>2, Zenon DEF Step, prepare_request, read_buckets, kv_insert,
               kv_update, kv_delete, modify_primary_idx
    <2> DEFINE p == find_match_kv_idx(local[c], Key(c))
    <2>3. \/ p = NoSlot /\ \A q \in (1..4) \X Slots : local[c][q[1]][q[2]].key # Key(c)
          \/ p \in (1..4) \X Slots /\ local[c][p[1]][p[2]].key = Key(c)
        BY MatchIsTheKey, Zenon
    <2> HIDE DEF p
    <2>4. answer'[c] = At(local[c], p)
        BY <2>1, <2>2, Zenon DEF kv_search, TypeOK, p
    <2>5. CASE p = NoSlot
        <3>1. \A i \in 1..4, j \in Slots : <<i, j>> \in (1..4) \X Slots
            OBVIOUS
        <3>2. ASSUME NEW i \in 1..4, NEW j \in Slots PROVE local[c][i][j].key # Key(c)
            <4>1. p \notin (1..4) \X Slots
                BY <2>5 DEF NoSlot
            <4>2. \A q \in (1..4) \X Slots : local[c][q[1]][q[2]].key # Key(c)
                BY <2>3, <4>1, Zenon
            <4> QED BY <3>1, <4>2, Zenon
        <3>3. Empty \in seen[c]
            BY <1>1, <2>1, <3>2, Zenon DEF Watched
        <3> QED BY <2>4, <2>5, <3>3 DEF At
    <2>6. CASE p # NoSlot
        <3>1. p[1] \in 1..4 /\ p[2] \in Slots /\ local[c][p[1]][p[2]].key = Key(c)
            BY <2>3, <2>6, Zenon
        <3> QED BY <1>1, <2>1, <2>4, <2>6, <3>1, Zenon DEF At, Watched
    <2> QED BY <2>5, <2>6
<1>2. ASSUME PlaceInv, [Next]_vars
      PROVE  [\A c \in Clients :
                 pc[c] = "match" /\ pc'[c] = "idle" /\ Op(c) = "SEARCH"
                    => answer'[c] \in seen[c]]_vars
    BY <1>1, <1>2
<1> QED BY <1>2, PlaceInvHolds, PTL DEF Spec, SearchAnswersOneMoment

============================================================================
