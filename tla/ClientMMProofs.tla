--------------------------- MODULE ClientMMProofs ---------------------------
(***************************************************************************)
(* Proofs about the memory management of src/client_mm.cc and              *)
(* src/server_mm.cc, for any number of clients, fibers, memory nodes,      *)
(* blocks and subblocks: while no client restarts, no subblock is handed   *)
(* out twice, whatever clients die.                                        *)
(***************************************************************************)
EXTENDS ClientMM, TLAPS

-----------------------------------------------------------------------------
(* Quotients and remainders. *)

LEMMA DivMod ==
    ASSUME NEW m \in Nat \ {0}, NEW x \in Nat
    PROVE  x = m * (x \div m) + (x % m)
OBVIOUS

(* Numbers with the same quotient and remainder are equal. *)
LEMMA SameQuotient ==
    ASSUME NEW m \in Nat \ {0}, NEW x \in Nat, NEW y \in Nat,
           x % m = y % m, x \div m = y \div m
    PROVE  x = y
OBVIOUS

(* A quotient stays below n when the number stays below m * n. *)
LEMMA QuotientBound ==
    ASSUME NEW m \in Nat \ {0}, NEW n \in Nat, NEW x \in Nat, x < m * n
    PROVE  x \div m \in Nat /\ x \div m < n /\ x % m \in 0 .. m - 1
OBVIOUS

(* Of m numbers in a row no two have the same remainder. *)
LEMMA NoMultiple ==
    ASSUME NEW m \in Nat \ {0}, NEW i \in Nat, 0 < i, i < m, NEW d \in Int
    PROVE  m * d # i
<1>1. d >= 1 => m * d >= m
    OBVIOUS
<1>2. d =< 0 => m * d =< 0
    OBVIOUS
<1> QED BY <1>1, <1>2

LEMMA NextRemainders ==
    ASSUME NEW m \in Nat \ {0}, NEW h \in Nat, NEW i \in Nat, 0 < i, i < m
    PROVE  h % m # (h + i) % m
<1>0. \A x \in Nat : x \div m \in Int /\ x % m \in Int
    OBVIOUS
<1>1. \A x \in Nat : x = m * (x \div m) + (x % m)
    BY DivMod
<1>2. h + i \in Nat
    OBVIOUS
<1>3. PICK p \in Int, r \in Int : h % m = r /\ h = m * p + r
    BY <1>0, <1>1, Zenon
<1>4. PICK q \in Int, t \in Int : (h + i) % m = t /\ h + i = m * q + t
    BY <1>0, <1>1, <1>2, Zenon
<1>5. r = t => m * (q - p) = i
    BY <1>3, <1>4
<1>6. q - p \in Int
    OBVIOUS
<1>7. m * (q - p) # i
    BY <1>6, NoMultiple
<1> QED BY <1>3, <1>4, <1>5, <1>7, Zenon

LEMMA RowOfRemainders ==
    ASSUME NEW m \in Nat \ {0}, NEW h \in Nat, NEW i \in 1 .. m, NEW j \in 1 .. m,
           (h + i - 1) % m = (h + j - 1) % m
    PROVE  i = j
<1>1. ASSUME NEW x \in 1 .. m, NEW y \in 1 .. m, x < y
      PROVE  (h + x - 1) % m # (h + y - 1) % m
    <2>1. h + x - 1 \in Nat /\ y - x \in Nat /\ 0 < y - x /\ y - x < m
        BY <1>1
    <2>2. (h + x - 1) % m # ((h + x - 1) + (y - x)) % m
        BY <2>1, NextRemainders, Zenon
    <2>3. (h + x - 1) + (y - x) = h + y - 1
        BY <1>1
    <2> QED BY <2>2, <2>3
<1>2. i < j \/ j < i \/ i = j
    OBVIOUS
<1> QED BY <1>1, <1>2

-----------------------------------------------------------------------------
(* Addresses. *)

(* A subblock is known by its block and its index; 0 is none. *)
LEMMA SubblockForm ==
    /\ None \notin Sub /\ None \notin Blocks
    /\ \A b \in Blocks, i \in 1 .. NumSub :
          SubOf(b, i) \in Sub /\ BlockOf(SubOf(b, i)) = b /\ SubOf(b, i)[3] = i
    /\ \A s \in Sub : BlockOf(s) \in Blocks
<1>1. None \notin Sub /\ None \notin Blocks
    BY DEF None, Sub, Blocks
<1>2. \A b \in Blocks, i \in 1 .. NumSub :
          SubOf(b, i) \in Sub /\ BlockOf(SubOf(b, i)) = b /\ SubOf(b, i)[3] = i
    BY DEF Blocks, Sub, SubOf, BlockOf
<1>3. \A s \in Sub : BlockOf(s) \in Blocks
    BY DEF Sub, BlockOf, Blocks
<1> QED BY <1>1, <1>2, <1>3, Zenon

(* What a queue holds: every operation of mm_alloc, mm_free_cur and        *)
(* local_reg_blocks on subblock_free_queue_.                               *)
LEMMA EmptyQueue ==
    Range(<<>>) = {} /\ IsInjective(<<>>)
BY DEF Range, IsInjective

LEMMA FunctionIsSeq ==
    ASSUME NEW S, NEW n \in Nat, NEW f \in [1 .. n -> S]
    PROVE  f \in Seq(S) /\ Len(f) = n
OBVIOUS

LEMMA InRange ==
    ASSUME NEW S, NEW q \in Seq(S)
    PROVE  /\ \A s : s \in Range(q) <=> \E i \in 1 .. Len(q) : q[i] = s
           /\ \A s \in Range(q) : s \in S
BY DEF Range

LEMMA PopFront ==
    ASSUME NEW S, NEW q \in Seq(S), q # <<>>
    PROVE  /\ Head(q) \in S /\ Head(q) \in Range(q) /\ Tail(q) \in Seq(S)
           /\ Len(q) > 1 => Tail(q) # <<>>
           /\ \A s \in Range(Tail(q)) : s \in Range(q)
           /\ IsInjective(q) => IsInjective(Tail(q)) /\ Head(q) \notin Range(Tail(q))
<1>1. Head(q) = q[1] /\ 1 \in 1 .. Len(q) /\ Len(q) \in Nat /\ DOMAIN q = 1 .. Len(q)
    OBVIOUS
<1>2. Head(q) \in S /\ Tail(q) \in Seq(S)
    OBVIOUS
<1>3. /\ DOMAIN Tail(q) = 1 .. Len(q) - 1
      /\ \A i \in 1 .. Len(q) - 1 : Tail(q)[i] = q[i + 1] /\ i + 1 \in 1 .. Len(q) /\ i + 1 # 1
    BY <1>1
<1>4. Head(q) \in Range(q)
    BY <1>1, Zenon DEF Range
<1>5. \A s \in Range(Tail(q)) : s \in Range(q)
    BY <1>1, <1>3, Zenon DEF Range
<1>6. ASSUME IsInjective(q) PROVE IsInjective(Tail(q)) /\ Head(q) \notin Range(Tail(q))
    <2>1. \A i, j \in 1 .. Len(q) : q[i] = q[j] => i = j
        BY <1>1, <1>6, Zenon DEF IsInjective
    <2>2. IsInjective(Tail(q))
        <3>1. ASSUME NEW i \in 1 .. Len(q) - 1, NEW j \in 1 .. Len(q) - 1, Tail(q)[i] = Tail(q)[j]
              PROVE  i = j
            <4>1. i + 1 = j + 1
                BY <1>3, <2>1, <3>1, Zenon
            <4> QED BY <1>1, <4>1
        <3> QED BY <1>3, <3>1, Zenon DEF IsInjective
    <2>3. Head(q) \notin Range(Tail(q))
        <3>1. ASSUME NEW i \in 1 .. Len(q) - 1 PROVE Tail(q)[i] # Head(q)
            BY <1>1, <1>3, <2>1, Zenon
        <3> QED BY <1>3, <3>1, Zenon DEF Range
    <2> QED BY <2>2, <2>3, Zenon
<1>7. Len(q) > 1 => Tail(q) # <<>>
    <2>1. Len(Tail(q)) = Len(q) - 1 /\ Len(<<>>) = 0
        OBVIOUS
    <2> QED BY <1>1, <2>1
<1> QED BY <1>2, <1>4, <1>5, <1>6, <1>7, Zenon

LEMMA PushFront ==
    ASSUME NEW S, NEW q \in Seq(S), NEW s \in S
    PROVE  /\ <<s>> \o q \in Seq(S)
           /\ \A t : t \in Range(<<s>> \o q) <=> t = s \/ t \in Range(q)
           /\ IsInjective(q) /\ s \notin Range(q) => IsInjective(<<s>> \o q)
<1> DEFINE r == <<s>> \o q
<1>1. r \in Seq(S) /\ Len(r) = Len(q) + 1 /\ Len(q) \in Nat
    OBVIOUS
<1>2. r[1] = s /\ \A i \in 1 .. Len(q) : r[i + 1] = q[i]
    OBVIOUS
<1> HIDE DEF r
<1>3. DOMAIN r = 1 .. Len(q) + 1 /\ DOMAIN q = 1 .. Len(q)
    BY <1>1
<1>4. \A j \in 1 .. Len(q) + 1 : j = 1 \/ \E i \in 1 .. Len(q) : j = i + 1
    <2>1. ASSUME NEW j \in 1 .. Len(q) + 1, j # 1 PROVE j - 1 \in 1 .. Len(q) /\ j = (j - 1) + 1
        BY <1>1, <2>1
    <2> QED BY <2>1, Zenon
<1>5. 1 \in 1 .. Len(q) + 1 /\ \A i \in 1 .. Len(q) : i + 1 \in 1 .. Len(q) + 1
    BY <1>1
<1>r. /\ \A t : t \in Range(r) <=> \E j \in 1 .. Len(q) + 1 : r[j] = t
      /\ \A t : t \in Range(q) <=> \E i \in 1 .. Len(q) : q[i] = t
    BY <1>3 DEF Range
<1>6. \A t : t \in Range(r) <=> t = s \/ t \in Range(q)
    <2> TAKE t
    <2>1. ASSUME NEW j \in 1 .. Len(q) + 1, r[j] = t PROVE t = s \/ t \in Range(q)
        <3>1. CASE j = 1
            BY <1>2, <2>1, <3>1, Zenon
        <3>2. CASE \E i \in 1 .. Len(q) : j = i + 1
            <4>1. PICK i \in 1 .. Len(q) : j = i + 1
                BY <3>2, Zenon
            <4> QED BY <1>2, <1>r, <2>1, <4>1, Zenon
        <3> QED BY <1>4, <3>1, <3>2, Zenon
    <2>2. ASSUME NEW i \in 1 .. Len(q), q[i] = t PROVE t \in Range(r)
        BY <1>2, <1>5, <1>r, <2>2, Zenon
    <2>3. t = s => t \in Range(r)
        BY <1>2, <1>5, <1>r, Zenon
    <2> QED BY <1>r, <2>1, <2>2, <2>3, Zenon
<1>7. ASSUME IsInjective(q), s \notin Range(q) PROVE IsInjective(r)
    <2>1. \A i, j \in 1 .. Len(q) : q[i] = q[j] => i = j
        BY <1>3, <1>7, Zenon DEF IsInjective
    <2>2. \A i \in 1 .. Len(q) : q[i] # s
        BY <1>r, <1>7, Zenon
    <2>3. ASSUME NEW i \in 1 .. Len(q) + 1, NEW j \in 1 .. Len(q) + 1, r[i] = r[j] PROVE i = j
        <3>1. CASE i = 1
            BY <1>2, <1>4, <2>2, <2>3, <3>1, Zenon
        <3>2. CASE j = 1
            BY <1>2, <1>4, <2>2, <2>3, <3>2, Zenon
        <3>3. ASSUME NEW x \in 1 .. Len(q), NEW y \in 1 .. Len(q), i = x + 1, j = y + 1 PROVE i = j
            BY <1>2, <2>1, <2>3, <3>3, Zenon
        <3> QED BY <1>4, <3>1, <3>2, <3>3, Zenon
    <2> QED BY <1>3, <2>3, Zenon DEF IsInjective
<1> QED BY <1>1, <1>6, <1>7, Zenon DEF r

(* local_reg_blocks: the subblocks of a block are different. *)
LEMMA SubblocksOf ==
    ASSUME NEW b \in Blocks
    PROVE  /\ Subblocks(b) \in Seq(Sub) /\ IsInjective(Subblocks(b))
           /\ Subblocks(b) # <<>>
           /\ \A s \in Range(Subblocks(b)) : s \in Sub /\ BlockOf(s) = b
<1> DEFINE q == Subblocks(b)
<1>1. \A i \in 1 .. NumSub : SubOf(b, i) \in Sub /\ BlockOf(SubOf(b, i)) = b /\ SubOf(b, i)[3] = i
    BY SubblockForm, Zenon
<1>2. DOMAIN q = 1 .. NumSub /\ \A i \in 1 .. NumSub : q[i] = SubOf(b, i)
    BY DEF Subblocks
<1>3. q \in Seq(Sub) /\ Len(q) = NumSub
    BY <1>1, ConstantsOK DEF Subblocks
<1>4. Len(q) # Len(<<>>)
    BY <1>3, ConstantsOK
<1> HIDE DEF q
<1>5. ASSUME NEW i \in 1 .. NumSub, NEW j \in 1 .. NumSub, q[i] = q[j] PROVE i = j
    <2>1. q[i][3] = i /\ q[j][3] = j
        BY <1>1, <1>2, Zenon
    <2> QED BY <1>5, <2>1
<1>6. IsInjective(q)
    BY <1>2, <1>5, Zenon DEF IsInjective
<1>7. \A s \in Range(q) : s \in Sub /\ BlockOf(s) = b
    <2>1. \A i \in DOMAIN q : q[i] \in Sub /\ BlockOf(q[i]) = b
        BY <1>1, <1>2, Zenon
    <2> QED BY <2>1, Zenon DEF Range
<1>8. q # <<>>
    BY <1>4, Zenon
<1> QED BY <1>3, <1>6, <1>7, <1>8, Zenon DEF q

(* init_reg_space: so are the subblocks of a block per node, merged. *)
LEMMA MergedBlocks ==
    ASSUME NEW bs \in Seq(Blocks), bs # <<>>, IsInjective(bs)
    PROVE  /\ Merged(bs) \in Seq(Sub) /\ IsInjective(Merged(bs))
           /\ \A s \in Range(Merged(bs)) : \E j \in 1 .. Len(bs) : BlockOf(s) = bs[j]
<1> DEFINE n == Len(bs)
           D == 1 .. n * NumSub
           row(i) == ((i - 1) % n) + 1
           col(i) == ((i - 1) \div n) + 1
           q == Merged(bs)
<1>0. n \in Nat \ {0} /\ NumSub \in Nat /\ DOMAIN bs = 1 .. n /\ n * NumSub \in Nat
    BY ConstantsOK
<1>1. DOMAIN q = D /\ \A i \in D : q[i] = SubOf(bs[row(i)], col(i))
    BY DEF Merged
<1>2. \A j \in 1 .. n : bs[j] \in Blocks
    OBVIOUS
<1> HIDE DEF n
<1>3. ASSUME NEW i \in D PROVE row(i) \in 1 .. n /\ col(i) \in 1 .. NumSub
    <2>1. i - 1 \in Nat /\ i - 1 < n * NumSub
        BY <1>0, <1>3
    <2> DEFINE x == i - 1
    <2>2. x \div n \in Nat /\ x \div n < NumSub /\ x % n \in 0 .. n - 1
        BY <1>0, <2>1, QuotientBound, Zenon
    <2> HIDE DEF x
    <2>3. (x % n) + 1 \in 1 .. n
        BY <1>0, <2>2
    <2>4. (x \div n) + 1 \in 1 .. NumSub
        BY <1>0, <2>2
    <2> QED BY <2>3, <2>4, Zenon DEF x
<1>4. ASSUME NEW i \in D, NEW j \in D, row(i) = row(j), col(i) = col(j) PROVE i = j
    <2>1. i - 1 \in Nat /\ j - 1 \in Nat
        BY <1>0, <1>4
    <2> DEFINE x == i - 1
               y == j - 1
    <2> HIDE DEF x, y
    <2>2. x % n \in Int /\ y % n \in Int /\ x \div n \in Int /\ y \div n \in Int
        BY <1>0, <2>1 DEF x, y
    <2>3. (x % n) + 1 = (y % n) + 1 /\ (x \div n) + 1 = (y \div n) + 1
        BY <1>4, Zenon DEF x, y
    <2>4. x % n = y % n /\ x \div n = y \div n
        BY <2>2, <2>3
    <2>5. x = y
        BY <1>0, <2>1, <2>4, SameQuotient, Zenon DEF x, y
    <2> QED BY <1>0, <1>4, <2>5 DEF x, y
<1> HIDE DEF row, col
<1>5. ASSUME NEW i \in D
      PROVE  q[i] \in Sub /\ BlockOf(q[i]) = bs[row(i)] /\ q[i][3] = col(i)
    <2>1. bs[row(i)] \in Blocks /\ col(i) \in 1 .. NumSub
        BY <1>2, <1>3, <1>5, Zenon
    <2>2. q[i] = SubOf(bs[row(i)], col(i))
        BY <1>1, <1>5, Zenon
    <2> HIDE DEF q
    <2>3. \A b \in Blocks, x \in 1 .. NumSub :
              SubOf(b, x) \in Sub /\ BlockOf(SubOf(b, x)) = b /\ SubOf(b, x)[3] = x
        BY SubblockForm, Zenon
    <2> QED BY <2>1, <2>2, <2>3
<1>6. q \in Seq(Sub)
    <2>1. q = [i \in D |-> q[i]]
        BY DEF Merged, n
    <2> QED BY <1>0, <1>5, <2>1
<1> HIDE DEF q, D
<1>7. ASSUME NEW i \in D, NEW j \in D, q[i] = q[j] PROVE i = j
    <2>1. bs[row(i)] = bs[row(j)] /\ col(i) = col(j)
        BY <1>5, <1>7, Zenon
    <2>2. row(i) = row(j)
        BY <1>0, <1>3, <1>7, <2>1, Zenon DEF IsInjective
    <2> QED BY <1>4, <1>7, <2>1, <2>2, Zenon
<1>8. IsInjective(q)
    BY <1>1, <1>7, Zenon DEF IsInjective
<1>9. \A s \in Range(q) : \E j \in 1 .. n : BlockOf(s) = bs[j]
    BY <1>1, <1>3, <1>5, Zenon DEF Range
<1> QED BY <1>6, <1>8, <1>9, Zenon DEF q, n

-----------------------------------------------------------------------------
(* The ways a subblock moves.  In each of them it keeps one place. *)

LEMMA OwnTypesOf ==
    ASSUME OwnInv, NEW c \in Clients
    PROVE  /\ queue[c] \in Seq(Sub) /\ DOMAIN queue = Clients /\ published \subseteq Sub
           /\ \A t \in Range(queue[c]) : t \in Sub
           /\ \A k \in Coros : ctx[c][k].addr \in Sub \cup {None}
<1>1. queue \in [Clients -> Seq(Sub)] /\ published \subseteq Sub
    BY Zenon DEF OwnInv, OwnTypes
<1>2. \A k \in Coros : ctx[c][k] \in [addr : Sub \cup {None}, nxt : Sub \cup {None},
                                     prev : Sub \cup {None, Garbage}]
    BY Zenon DEF OwnInv, OwnTypes
<1>3. queue[c] \in Seq(Sub) /\ DOMAIN queue = Clients
    BY <1>1, Zenon
<1>4. \A t \in Range(queue[c]) : t \in Sub
    BY <1>3, InRange, Zenon
<1>5. \A k \in Coros : ctx[c][k].addr \in Sub \cup {None}
    BY <1>2
<1> QED BY <1>1, <1>3, <1>4, <1>5, Zenon

(* The request of fiber k of c is the only one whose address changes. *)
AddrSet(c, k, a) ==
    \A d \in Clients, l \in Coros :
        ctx'[d][l].addr = IF d = c /\ l = k THEN a ELSE ctx[d][l].addr
SameAddrs ==
    \A d \in Clients, l \in Coros : ctx'[d][l].addr = ctx[d][l].addr

(* q is the queue of c without s, with s in front, and of new subblocks. *)
Without(c, q, s) ==
    /\ s \in Range(queue[c]) /\ IsInjective(q)
    /\ \A t \in Range(q) : t \in Range(queue[c]) /\ t # s
With(c, q, s) ==
    IsInjective(q) /\ \A t \in Range(q) : t = s \/ t \in Range(queue[c])
Unplaced(q) ==
    IsInjective(q) /\ \A t \in Range(q) : ~ Placed(t)

(* mm_alloc: from the queue to a request. *)
LEMMA TakeKeeps ==
    ASSUME OwnInv, NEW c \in Clients, NEW k \in Coros, NEW s \in Sub, NEW q,
           Without(c, q, s), AddrSet(c, k, s),
           queue' = [queue EXCEPT ![c] = q], published' = published
    PROVE  OnePlace' /\ \A t : Placed(t)' => Placed(t)
<1> USE DEF Without, AddrSet
<1>1. OnePlace
    BY Zenon DEF OwnInv
<1>2. \A d \in Clients : queue'[d] = IF d = c THEN q ELSE queue[d]
    BY OwnTypesOf, Zenon
<1>3. \A d \in Clients : IsInjective(queue'[d]) /\ \A t \in Range(queue'[d]) : t \in Range(queue[d])
    BY <1>1, <1>2, Zenon DEF OnePlace
<1>4. \A d \in Clients : s \notin Range(queue'[d])
    BY <1>1, <1>2, Zenon DEF OnePlace
<1>5. s \notin published /\ \A d \in Clients, l \in Coros : ctx[d][l].addr # s
    BY <1>1 DEF OnePlace
<1>6. \A d \in Clients : /\ IsInjective(queue'[d])
                         /\ \A t \in Range(queue'[d]) : t \notin published'
    BY <1>1, <1>3, Zenon DEF OnePlace
<1>7. \A d, e \in Clients : d # e => \A t \in Range(queue'[d]) : t \notin Range(queue'[e])
    BY <1>1, <1>3, Zenon DEF OnePlace
<1>8. \A d, e \in Clients, l \in Coros : ctx'[e][l].addr \notin Range(queue'[d])
    BY <1>1, <1>3, <1>4 DEF OnePlace
<1>9. \A d, e \in Clients, l, m \in Coros :
          ctx'[d][l].addr # None /\ ctx'[d][l].addr = ctx'[e][m].addr => d = e /\ l = m
    BY <1>1, <1>5 DEF OnePlace
<1>10. \A d \in Clients, l \in Coros : ctx'[d][l].addr \notin published'
    BY <1>1, <1>5 DEF OnePlace
<1>11. OnePlace'
    BY <1>6, <1>7, <1>8, <1>9, <1>10, Zenon DEF OnePlace
<1>12. \A t : Placed(t)' => Placed(t)
    BY <1>3 DEF Placed
<1> QED BY <1>11, <1>12, Zenon

(* The end of a request: into the index, or lost. *)
LEMMA DropKeeps ==
    ASSUME OwnInv, NEW c \in Clients, NEW k \in Coros,
           queue' = queue,
           published' \subseteq published \cup ({ctx[c][k].addr} \ {None}),
           AddrSet(c, k, None)
    PROVE  OnePlace' /\ \A t \in Sub : Placed(t)' => Placed(t)
<1> USE DEF AddrSet
<1>1. OnePlace /\ None \notin published
    BY OwnTypesOf, SubblockForm, Zenon DEF OwnInv
<1>2. \A d \in Clients : None \notin Range(queue[d])
    BY OwnTypesOf, SubblockForm, Zenon
<1>3. \A t \in published' : t # None /\ (t \in published \/ t = ctx[c][k].addr)
    BY <1>1, Zenon
<1>4. \A d \in Clients, l \in Coros : ctx'[d][l].addr = None \/
          (ctx'[d][l].addr = ctx[d][l].addr /\ ~ (d = c /\ l = k))
    BY Zenon
<1>6. \A d \in Clients : /\ IsInjective(queue'[d])
                         /\ \A t \in Range(queue'[d]) : t \notin published'
    BY <1>1, <1>3 DEF OnePlace
<1>7. \A d, e \in Clients : d # e => \A t \in Range(queue'[d]) : t \notin Range(queue'[e])
    BY <1>1, Zenon DEF OnePlace
<1>8. \A d, e \in Clients, l \in Coros : ctx'[e][l].addr \notin Range(queue'[d])
    BY <1>1, <1>2, <1>4 DEF OnePlace
<1>9. \A d, e \in Clients, l, m \in Coros :
          ctx'[d][l].addr # None /\ ctx'[d][l].addr = ctx'[e][m].addr => d = e /\ l = m
    BY <1>1, <1>4 DEF OnePlace
<1>10. ASSUME NEW d \in Clients, NEW l \in Coros, ctx'[d][l].addr \in published' PROVE FALSE
    <2>1. ctx'[d][l].addr # None /\ ctx'[d][l].addr = ctx[d][l].addr /\ ~ (d = c /\ l = k)
        BY <1>3, <1>4, <1>10, Zenon
    <2>2. ctx[d][l].addr \in published \/ ctx[d][l].addr = ctx[c][k].addr
        BY <1>3, <1>10, <2>1, Zenon
    <2> QED BY <1>1, <2>1, <2>2 DEF OnePlace
<1>11. OnePlace'
    BY <1>6, <1>7, <1>8, <1>9, <1>10, Zenon DEF OnePlace
<1>12. ASSUME NEW t \in Sub, Placed(t)' PROVE Placed(t)
    <2>1. t # None
        BY SubblockForm, Zenon
    <2> QED BY <1>3, <1>4, <1>12, <2>1 DEF Placed
<1> QED BY <1>11, <1>12, Zenon

(* mm_free_cur: from a request back to the queue. *)
LEMMA PutBackKeeps ==
    ASSUME OwnInv, NEW c \in Clients, NEW k \in Coros, NEW q, ctx[c][k].addr # None,
           With(c, q, ctx[c][k].addr), AddrSet(c, k, None),
           queue' = [queue EXCEPT ![c] = q], published' = published
    PROVE  OnePlace' /\ \A t \in Sub : Placed(t)' => Placed(t)
<1> USE DEF With, AddrSet
<1> DEFINE s == ctx[c][k].addr
<1>1. OnePlace /\ None \notin published
    BY OwnTypesOf, SubblockForm, Zenon DEF OwnInv
<1>2. \A d \in Clients : None \notin Range(queue[d])
    BY OwnTypesOf, SubblockForm, Zenon
<1>3. \A d \in Clients : queue'[d] = IF d = c THEN q ELSE queue[d]
    BY OwnTypesOf, Zenon
<1>4. \A d \in Clients, l \in Coros : ctx'[d][l].addr = None \/
          (ctx'[d][l].addr = ctx[d][l].addr /\ ~ (d = c /\ l = k))
    BY Zenon
<1>5. /\ s # None /\ s \notin published
      /\ \A d \in Clients : s \notin Range(queue[d])
      /\ \A d \in Clients, l \in Coros : ctx'[d][l].addr # s
    BY <1>1, <1>4 DEF OnePlace
<1> HIDE DEF s
<1>a. \A t \in Range(q) : t = s \/ t \in Range(queue[c])
    BY Zenon DEF s
<1>6. \A d \in Clients : \A t \in Range(queue'[d]) : (t = s /\ d = c) \/ t \in Range(queue[d])
    BY <1>3, <1>a
<1>7. \A d \in Clients : /\ IsInjective(queue'[d])
                         /\ \A t \in Range(queue'[d]) : t \notin published'
    <2>1. \A d \in Clients : IsInjective(queue'[d])
        BY <1>1, <1>3 DEF OnePlace
    <2>2. \A d \in Clients : \A t \in Range(queue[d]) : t \notin published
        BY <1>1, Zenon DEF OnePlace
    <2> QED BY <1>5, <1>6, <2>1, <2>2, Zenon
<1>8. \A d, e \in Clients : d # e => \A t \in Range(queue'[d]) : t \notin Range(queue'[e])
    BY <1>1, <1>5, <1>6 DEF OnePlace
<1>9. \A d, e \in Clients, l \in Coros : ctx'[e][l].addr \notin Range(queue'[d])
    <2>1. \A d, e \in Clients, l \in Coros : ctx'[e][l].addr \notin Range(queue[d])
        BY <1>1, <1>2, <1>4 DEF OnePlace
    <2>2. ASSUME NEW d \in Clients, NEW e \in Clients, NEW l \in Coros,
                 ctx'[e][l].addr \in Range(queue'[d])
          PROVE  FALSE
        <3>1. ctx'[e][l].addr # s /\ ctx'[e][l].addr \notin Range(queue[d])
            BY <1>5, <2>1, Zenon
        <3> QED BY <1>6, <2>2, <3>1, Zenon
    <2> QED BY <2>2, Zenon
<1>10. \A d, e \in Clients, l, m \in Coros :
          ctx'[d][l].addr # None /\ ctx'[d][l].addr = ctx'[e][m].addr => d = e /\ l = m
    BY <1>1, <1>4 DEF OnePlace
<1>11. \A d \in Clients, l \in Coros : ctx'[d][l].addr \notin published'
    BY <1>1, <1>4 DEF OnePlace
<1>12. OnePlace'
    BY <1>7, <1>8, <1>9, <1>10, <1>11, Zenon DEF OnePlace
<1>13. ASSUME NEW t \in Sub, Placed(t)' PROVE Placed(t)
    <2>1. t # None
        BY SubblockForm, Zenon
    <2>2. CASE t \in published'
        BY <2>2, Zenon DEF Placed
    <2>3. ASSUME NEW d \in Clients, t \in Range(queue'[d]) PROVE Placed(t)
        BY <1>6, <2>3, Zenon DEF Placed, s
    <2>4. ASSUME NEW d \in Clients, NEW l \in Coros, ctx'[d][l].addr = t PROVE Placed(t)
        BY <1>4, <2>1, <2>4, Zenon DEF Placed
    <2> QED BY <1>13, <2>2, <2>3, <2>4, Zenon DEF Placed
<1> QED BY <1>12, <1>13, Zenon

(* A queue of subblocks that nobody has. *)
LEMMA FillKeeps ==
    ASSUME OwnInv, NEW c \in Clients, NEW q, Unplaced(q), SameAddrs,
           queue' = [queue EXCEPT ![c] = q], published' = published
    PROVE  OnePlace' /\ \A t : Placed(t)' => Placed(t) \/ t \in Range(q)
<1> USE DEF Unplaced, SameAddrs
<1>1. OnePlace
    BY Zenon DEF OwnInv
<1>2. \A d \in Clients : queue'[d] = IF d = c THEN q ELSE queue[d]
    BY OwnTypesOf, Zenon
<1>3. \A t \in Range(q) : /\ t \notin published
                          /\ \A d \in Clients : t \notin Range(queue[d])
                          /\ \A d \in Clients, l \in Coros : ctx[d][l].addr # t
    BY DEF Placed
<1>4. \A d \in Clients : /\ IsInjective(queue'[d])
                         /\ \A t \in Range(queue'[d]) : t \notin published'
    BY <1>1, <1>2, <1>3 DEF OnePlace
<1>5. \A d, e \in Clients : d # e => \A t \in Range(queue'[d]) : t \notin Range(queue'[e])
    BY <1>1, <1>2, <1>3 DEF OnePlace
<1>6. \A d, e \in Clients, l \in Coros : ctx'[e][l].addr \notin Range(queue'[d])
    BY <1>1, <1>2, <1>3 DEF OnePlace
<1>7. \A d, e \in Clients, l, m \in Coros :
          ctx'[d][l].addr # None /\ ctx'[d][l].addr = ctx'[e][m].addr => d = e /\ l = m
    BY <1>1 DEF OnePlace
<1>8. \A d \in Clients, l \in Coros : ctx'[d][l].addr \notin published'
    BY <1>1 DEF OnePlace
<1>9. OnePlace'
    BY <1>4, <1>5, <1>6, <1>7, <1>8, Zenon DEF OnePlace
<1>10. \A t : Placed(t)' => Placed(t) \/ t \in Range(q)
    BY <1>2 DEF Placed
<1> QED BY <1>9, <1>10, Zenon

-----------------------------------------------------------------------------
(* What the actions leave to show. *)

(* Blocks in use and blocks in answers, when the servers take none back. *)
LEMMA OwnCloses ==
    ASSUME OwnInv, OwnTypes', OnePlace', \A d \in Clients : Served(d)',
           \A n \in Nodes : \A i \in Range(allocable'[n]) : i \in Range(allocable[n]),
           \A t \in Sub : Placed(t)' =>
               \/ Placed(t)
               \/ /\ HandedOut(BlockOf(t))'
                  /\ \A d \in Clients : mode[d] = "reply" /\ mode'[d] = "reply" => BlockOf(t) # reply[d],
           \A d \in Clients : mode'[d] = "reply" => mode[d] = "reply" /\ reply'[d] = reply[d]
    PROVE  OwnInv'
<1>1. ASSUME NEW b, HandedOut(b) PROVE HandedOut(b)'
    <2>1. b \in Blocks /\ b[1] \in Nodes /\ b[2] \notin Range(allocable[b[1]])
        BY <1>1 DEF HandedOut, Blocks
    <2>2. b[2] \notin Range(allocable'[b[1]])
        BY <2>1, Zenon
    <2> QED BY <2>1, <2>2, Zenon DEF HandedOut
<1>2. \A t \in Sub : Placed(t)' => HandedOut(BlockOf(t))'
    <2>1. \A t \in Sub : Placed(t) => HandedOut(BlockOf(t))
        BY Zenon DEF OwnInv
    <2> QED BY <1>1, <2>1, Zenon
<1>3. ASSUME NEW d \in Clients PROVE NewBlock(d)'
    <2> SUFFICES ASSUME mode'[d] = "reply", reply'[d] # None
                 PROVE  /\ HandedOut(reply[d])'
                        /\ \A t \in Sub : Placed(t)' => BlockOf(t) # reply[d]
                        /\ \A e \in Clients \ {d} : mode'[e] = "reply" => reply'[e] # reply[d]
        BY Zenon DEF NewBlock, HandedOut
    <2>1. mode[d] = "reply" /\ reply[d] # None
        BY Zenon
    <2>2. /\ HandedOut(reply[d])
          /\ \A t \in Sub : Placed(t) => BlockOf(t) # reply[d]
          /\ \A e \in Clients \ {d} : mode[e] = "reply" => reply[e] # reply[d]
        BY <2>1, Zenon DEF OwnInv, NewBlock
    <2>3. HandedOut(reply[d])'
        BY <1>1, <2>2, Zenon DEF HandedOut
    <2>4. \A t \in Sub : Placed(t)' => BlockOf(t) # reply[d]
        BY <2>1, <2>2, Zenon
    <2>5. \A e \in Clients \ {d} : mode'[e] = "reply" => reply'[e] # reply[d]
        BY <2>2, Zenon
    <2> QED BY <2>3, <2>4, <2>5, Zenon
<1> QED BY <1>2, <1>3, Zenon DEF OwnInv

CtxRec == [addr : Sub \cup {None}, nxt : Sub \cup {None}, prev : Sub \cup {None, Garbage}]

LEMMA CtxSet ==
    ASSUME OwnInv, NEW c \in Clients, NEW k \in Coros, NEW r \in CtxRec,
           ctx' = [ctx EXCEPT ![c][k] = r]
    PROVE  /\ ctx' \in [Clients -> [Coros -> CtxRec]]
           /\ AddrSet(c, k, r.addr)
<1>1. ctx \in [Clients -> [Coros -> CtxRec]]
    BY Zenon DEF OwnInv, OwnTypes, CtxRec
<1>2. ctx' \in [Clients -> [Coros -> CtxRec]]
    BY <1>1
<1>3. \A d \in Clients, l \in Coros : ctx'[d][l] = IF d = c /\ l = k THEN r ELSE ctx[d][l]
    BY <1>1
<1> QED BY <1>2, <1>3, Zenon DEF AddrSet

LEMMA QuietKeeps ==
    ASSUME OwnInv, queue' = queue, published' = published, SameAddrs
    PROVE  OnePlace' /\ \A t : Placed(t)' => Placed(t)
<1> USE DEF SameAddrs
<1>1. OnePlace
    BY Zenon DEF OwnInv
<1> QED BY <1>1 DEF OnePlace, Placed

-----------------------------------------------------------------------------
(* Every step keeps the invariant. *)

LEMMA Popped ==
    ASSUME OwnInv, NEW c \in Clients, queue[c] # <<>>
    PROVE  /\ Head(queue[c]) \in Sub /\ Tail(queue[c]) \in Seq(Sub)
           /\ Without(c, Tail(queue[c]), Head(queue[c]))
<1>1. queue[c] \in Seq(Sub) /\ IsInjective(queue[c])
    BY OwnTypesOf, Zenon DEF OwnInv, OnePlace
<1> QED BY <1>1, PopFront, Zenon DEF Without

(* mm_alloc with more than one subblock in the queue. *)
LEMMA AllocFront ==
    ASSUME OwnInv, NEW c \in Clients, NEW k \in Coros, mm_alloc(c, k), Len(queue[c]) > 1
    PROVE  OwnInv'
<1> DEFINE s == Head(queue[c])
           q == Tail(queue[c])
           r == [addr |-> s, nxt |-> Head(q), prev |-> last[c]]
<1>1. /\ mode[c] = "run" /\ queue[c] # <<>>
      /\ ctx' = [ctx EXCEPT ![c][k] = r] /\ last' = [last EXCEPT ![c] = s]
      /\ queue' = [queue EXCEPT ![c] = q] /\ st' = [st EXCEPT ![c][k] = "posted"]
      /\ mode' = mode /\ caller' = caller /\ allocable' = allocable /\ rr' = rr
      /\ reply' = reply /\ restarts' = restarts /\ published' = published
    BY Zenon DEF mm_alloc, Allocated, pop_front
<1>2. s \in Sub /\ q \in Seq(Sub) /\ Without(c, q, s)
    BY <1>1, Popped, Zenon
<1>3. q # <<>>
    <2>1. queue[c] \in Seq(Sub)
        BY OwnTypesOf, Zenon
    <2> QED BY <1>1, <2>1, PopFront, Zenon
<1> HIDE DEF s, q
<1>4. Head(q) \in Sub
    BY <1>2, <1>3, PopFront, Zenon
<1>5. OwnTypes
    BY Zenon DEF OwnInv
<1>6. r \in CtxRec /\ r.addr = s
    <2>1. last[c] \in Sub \cup {None, Garbage}
        BY <1>5, Zenon DEF OwnTypes
    <2> QED BY <1>2, <1>4, <2>1 DEF CtxRec
<1> HIDE DEF r
<1>7. ctx' \in [Clients -> [Coros -> CtxRec]] /\ AddrSet(c, k, s)
    BY <1>1, <1>6, CtxSet, Zenon
<1>8. OnePlace' /\ \A t : Placed(t)' => Placed(t)
    BY <1>1, <1>2, <1>7, TakeKeeps, Zenon
<1>9. OwnTypes'
    <2>1. queue' \in [Clients -> Seq(Sub)]
        BY <1>1, <1>2, <1>5 DEF OwnTypes
    <2>2. last' \in [Clients -> Sub \cup {None, Garbage}]
        BY <1>1, <1>2, <1>5 DEF OwnTypes
    <2>3. st' \in [Clients -> [Coros -> {"idle", "posted", "written"}]]
        BY <1>1, <1>5 DEF OwnTypes
    <2> QED BY <1>1, <1>5, <1>7, <2>1, <2>2, <2>3, Zenon DEF OwnTypes, CtxRec
<1>10. ASSUME NEW d \in Clients PROVE Served(d)'
    <2>1. Served(d) /\ s # None
        BY <1>2, SubblockForm, Zenon DEF OwnInv
    <2>2. \A l \in Coros : d # c \/ l # k => st'[d][l] = st[d][l]
        BY <1>1, <1>5 DEF OwnTypes
    <2>3. d # c => queue'[d] = queue[d]
        BY <1>1, <1>5 DEF OwnTypes
    <2>4. \A l \in Coros : st'[d][l] # "idle" => ctx'[d][l].addr # None
        BY <1>7, <2>1, <2>2 DEF Served, AddrSet
    <2>5. CASE d = c
        BY <1>1, <2>4, <2>5, Zenon DEF Served
    <2>6. CASE d # c
        BY <1>1, <1>7, <2>1, <2>2, <2>3, <2>4, <2>6 DEF Served, AddrSet
    <2> QED BY <2>5, <2>6, Zenon
<1> QED BY <1>1, <1>8, <1>9, <1>10, OwnCloses, Zenon

(* mm_alloc of the last subblock: the fiber has it and waits for a block. *)
LEMMA AllocLast ==
    ASSUME OwnInv, NEW c \in Clients, NEW k \in Coros, mm_alloc(c, k), ~ (Len(queue[c]) > 1)
    PROVE  OwnInv'
<1> DEFINE s == Head(queue[c])
           r == [ctx[c][k] EXCEPT !.addr = s]
<1>1. /\ mode[c] = "run" /\ queue[c] # <<>> /\ st[c][k] = "idle"
      /\ mode' = [mode EXCEPT ![c] = "rpc"] /\ caller' = [caller EXCEPT ![c] = k]
      /\ ctx' = [ctx EXCEPT ![c][k].addr = s] /\ queue' = [queue EXCEPT ![c] = <<>>]
      /\ last' = last /\ st' = st /\ allocable' = allocable /\ rr' = rr
      /\ reply' = reply /\ restarts' = restarts /\ published' = published
    BY Zenon DEF mm_alloc
<1>2. s \in Sub /\ Without(c, <<>>, s)
    BY <1>1, Popped, EmptyQueue, Zenon DEF Without
<1> HIDE DEF s
<1>5. OwnTypes
    BY Zenon DEF OwnInv
<1>6. r \in CtxRec /\ r.addr = s /\ ctx' = [ctx EXCEPT ![c][k] = r]
    <2>1. ctx[c][k] \in CtxRec
        BY <1>5 DEF OwnTypes, CtxRec
    <2>2. r \in CtxRec /\ r.addr = s
        BY <1>2, <2>1 DEF CtxRec
    <2>3. ctx' = [ctx EXCEPT ![c][k] = r]
        BY <1>1
    <2> QED BY <2>2, <2>3, Zenon
<1> HIDE DEF r
<1>7. ctx' \in [Clients -> [Coros -> CtxRec]] /\ AddrSet(c, k, s)
    BY <1>6, CtxSet, Zenon
<1>8. OnePlace' /\ \A t : Placed(t)' => Placed(t)
    BY <1>1, <1>2, <1>7, TakeKeeps, Zenon
<1>9. OwnTypes'
    <2>1. queue' \in [Clients -> Seq(Sub)]
        BY <1>1, <1>5 DEF OwnTypes
    <2>2. mode' \in [Clients -> {"down", "run", "rpc", "reply", "dead", "exit"}]
        BY <1>1, <1>5 DEF OwnTypes
    <2>3. caller' \in [Clients -> Coros \cup {None}]
        BY <1>1, <1>5 DEF OwnTypes
    <2> QED BY <1>1, <1>5, <1>7, <2>1, <2>2, <2>3, Zenon DEF OwnTypes, CtxRec
<1>a. /\ queue'[c] = <<>> /\ caller'[c] = k /\ mode'[c] = "rpc"
      /\ \A d \in Clients : d # c => queue'[d] = queue[d] /\ caller'[d] = caller[d] /\ mode'[d] = mode[d]
    BY <1>1, <1>5 DEF OwnTypes
<1>10. ASSUME NEW d \in Clients PROVE Served(d)'
    <2>1. Served(d) /\ s # None
        BY <1>2, SubblockForm, Zenon DEF OwnInv
    <2>4. \A l \in Coros : st'[d][l] # "idle" => ctx'[d][l].addr # None
        BY <1>1, <1>7, <2>1 DEF Served, AddrSet
    <2>5. CASE d = c
        BY <1>1, <1>7, <1>a, <2>1, <2>4, <2>5 DEF Served, AddrSet
    <2>6. CASE d # c
        BY <1>1, <1>7, <1>a, <2>1, <2>4, <2>6 DEF Served, AddrSet
    <2> QED BY <2>5, <2>6, Zenon
<1>11. \A d \in Clients : mode'[d] = "reply" => mode[d] = "reply" /\ reply'[d] = reply[d]
    BY <1>1, <1>a
<1> QED BY <1>1, <1>8, <1>9, <1>10, <1>11, OwnCloses, Zenon

(* The assertion of mm_alloc, and the death of a client. *)
LEMMA DeathKeeps ==
    ASSUME OwnInv, NEW c \in Clients, Crash(c) \/ \E k \in Coros : AssertFails(c, k)
    PROVE  OwnInv'
<1>1. /\ mode' = [mode EXCEPT ![c] = "dead"]
      /\ allocable' = allocable /\ queue' = queue /\ last' = last /\ rr' = rr
      /\ st' = st /\ ctx' = ctx /\ reply' = reply /\ caller' = caller
      /\ restarts' = restarts /\ published' = published
    BY Zenon DEF Crash, AssertFails, local, fibers
<1>2. OwnTypes
    BY Zenon DEF OwnInv
<1>3. /\ mode'[c] = "dead" /\ \A d \in Clients : d # c => mode'[d] = mode[d]
      /\ mode' \in [Clients -> {"down", "run", "rpc", "reply", "dead", "exit"}]
    BY <1>1, <1>2 DEF OwnTypes
<1>4. SameAddrs
    BY <1>1, Zenon DEF SameAddrs
<1>5. OnePlace' /\ \A t : Placed(t)' => Placed(t)
    BY <1>1, <1>4, QuietKeeps, Zenon
<1>6. OwnTypes'
    BY <1>1, <1>2, <1>3, Zenon DEF OwnTypes
<1>7. ASSUME NEW d \in Clients PROVE Served(d)'
    <2>1. Served(d)
        BY Zenon DEF OwnInv
    <2> QED BY <1>1, <1>3, <2>1 DEF Served
<1>8. \A d \in Clients : mode'[d] = "reply" => mode[d] = "reply" /\ reply'[d] = reply[d]
    BY <1>1, <1>3
<1> QED BY <1>1, <1>5, <1>6, <1>7, <1>8, OwnCloses, Zenon

(* The KV write arrives. *)
LEMMA WriteKeeps ==
    ASSUME OwnInv, NEW c \in Clients, NEW k \in Coros, WriteKV(c, k)
    PROVE  OwnInv'
<1>1. /\ st[c][k] = "posted" /\ st' = [st EXCEPT ![c][k] = "written"]
      /\ allocable' = allocable /\ queue' = queue /\ last' = last /\ rr' = rr
      /\ ctx' = ctx /\ mode' = mode /\ reply' = reply /\ caller' = caller
      /\ restarts' = restarts /\ published' = published
    BY Zenon DEF WriteKV, local, proc
<1>2. OwnTypes
    BY Zenon DEF OwnInv
<1>3. /\ st' \in [Clients -> [Coros -> {"idle", "posted", "written"}]]
      /\ \A d \in Clients, l \in Coros : st'[d][l] = IF d = c /\ l = k THEN "written" ELSE st[d][l]
    BY <1>1, <1>2 DEF OwnTypes
<1>4. SameAddrs
    BY <1>1, Zenon DEF SameAddrs
<1>5. OnePlace' /\ \A t : Placed(t)' => Placed(t)
    BY <1>1, <1>4, QuietKeeps, Zenon
<1>6. OwnTypes'
    BY <1>1, <1>2, <1>3, Zenon DEF OwnTypes
<1>7. ASSUME NEW d \in Clients PROVE Served(d)'
    <2>1. Served(d)
        BY Zenon DEF OwnInv
    <2>2. \A l \in Coros : st'[d][l] = "idle" <=> st[d][l] = "idle"
        BY <1>1, <1>3
    <2> QED BY <1>1, <2>1, <2>2 DEF Served
<1> QED BY <1>1, <1>5, <1>6, <1>7, OwnCloses, Zenon

(* A request that gives up its subblock: the facts its steps share. *)
LEMMA FreeKeeps ==
    ASSUME OwnInv, NEW c \in Clients, NEW k \in Coros, mode[c] = "run",
           st' = [st EXCEPT ![c][k] = "idle"], ctx' = [ctx EXCEPT ![c][k] = IdleCtx],
           mode' = mode, caller' = caller,
           \A d \in Clients : d # c => queue'[d] = queue[d]
    PROVE  /\ AddrSet(c, k, None) /\ ctx' \in [Clients -> [Coros -> CtxRec]]
           /\ st' \in [Clients -> [Coros -> {"idle", "posted", "written"}]]
           /\ \A d \in Clients : Served(d)'
<1>1. OwnTypes
    BY Zenon DEF OwnInv
<1>2. IdleCtx \in CtxRec /\ IdleCtx.addr = None
    BY DEF IdleCtx, CtxRec
<1>3. AddrSet(c, k, None) /\ ctx' \in [Clients -> [Coros -> CtxRec]]
    BY <1>2, CtxSet, Zenon
<1>4. /\ st' \in [Clients -> [Coros -> {"idle", "posted", "written"}]]
      /\ \A d \in Clients, l \in Coros : st'[d][l] = IF d = c /\ l = k THEN "idle" ELSE st[d][l]
    BY <1>1 DEF OwnTypes
<1>5. ASSUME NEW d \in Clients PROVE Served(d)'
    <2>1. Served(d)
        BY Zenon DEF OwnInv
    <2>2. \A l \in Coros : st'[d][l] # "idle" => ctx'[d][l].addr # None
        BY <1>3, <1>4, <2>1 DEF Served, AddrSet
    <2>3. CASE d = c
        BY <2>2, <2>3, Zenon DEF Served
    <2>4. CASE d # c
        BY <1>3, <1>4, <2>1, <2>2, <2>4 DEF Served, AddrSet
    <2> QED BY <2>3, <2>4, Zenon
<1> QED BY <1>3, <1>4, <1>5, Zenon

LEMMA FinishKeeps ==
    ASSUME OwnInv, NEW c \in Clients, NEW k \in Coros, Finish(c, k)
    PROVE  OwnInv'
<1> DEFINE s == ctx[c][k].addr
<1>1. /\ mode[c] = "run" /\ st[c][k] = "written"
      /\ st' = [st EXCEPT ![c][k] = "idle"] /\ ctx' = [ctx EXCEPT ![c][k] = IdleCtx]
      /\ published' \in {published, published \cup {s}}
      /\ allocable' = allocable /\ queue' = queue /\ last' = last /\ rr' = rr
      /\ mode' = mode /\ reply' = reply /\ caller' = caller /\ restarts' = restarts
    BY Zenon DEF Finish, Free, local, proc
<1>2. OwnTypes
    BY Zenon DEF OwnInv
<1>3. /\ AddrSet(c, k, None) /\ ctx' \in [Clients -> [Coros -> CtxRec]]
      /\ st' \in [Clients -> [Coros -> {"idle", "posted", "written"}]]
      /\ \A d \in Clients : Served(d)'
    BY <1>1, FreeKeeps, Zenon
<1>4. s \in Sub /\ s # None
    <2>1. s # None
        BY <1>1, Zenon DEF OwnInv, Served
    <2> QED BY <2>1, OwnTypesOf, Zenon
<1>5. published' \subseteq published \cup ({s} \ {None}) /\ published' \subseteq Sub
    <2>1. published \subseteq Sub
        BY <1>2, Zenon DEF OwnTypes
    <2> QED BY <1>1, <1>4, <2>1, Zenon
<1>6. OnePlace' /\ \A t \in Sub : Placed(t)' => Placed(t)
    BY <1>1, <1>3, <1>5, DropKeeps, Zenon
<1>7. OwnTypes'
    BY <1>1, <1>2, <1>3, <1>5, Zenon DEF OwnTypes, CtxRec
<1> QED BY <1>1, <1>3, <1>6, <1>7, OwnCloses, Zenon

LEMMA FreeCurKeeps ==
    ASSUME OwnInv, NEW c \in Clients, NEW k \in Coros, mm_free_cur(c, k)
    PROVE  OwnInv'
<1> DEFINE s == ctx[c][k].addr
           q == <<s>> \o queue[c]
<1>1. /\ mode[c] = "run" /\ st[c][k] = "written"
      /\ st' = [st EXCEPT ![c][k] = "idle"] /\ ctx' = [ctx EXCEPT ![c][k] = IdleCtx]
      /\ queue' = [queue EXCEPT ![c] = q] /\ last' = [last EXCEPT ![c] = ctx[c][k].prev]
      /\ allocable' = allocable /\ rr' = rr /\ published' = published
      /\ mode' = mode /\ reply' = reply /\ caller' = caller /\ restarts' = restarts
    BY DEF mm_free_cur, push_front, Free, proc
<1>2. OwnTypes
    BY Zenon DEF OwnInv
<1>3. \A d \in Clients : d # c => queue'[d] = queue[d]
    BY <1>1, <1>2, Zenon DEF OwnTypes
<1>4. /\ AddrSet(c, k, None) /\ ctx' \in [Clients -> [Coros -> CtxRec]]
      /\ st' \in [Clients -> [Coros -> {"idle", "posted", "written"}]]
      /\ \A d \in Clients : Served(d)'
    BY <1>1, <1>3, FreeKeeps, Zenon
<1>5. s \in Sub /\ s # None
    <2>1. s # None
        BY <1>1, Zenon DEF OwnInv, Served
    <2> QED BY <2>1, OwnTypesOf, Zenon
<1>6. q \in Seq(Sub) /\ With(c, q, s)
    <2>1. queue[c] \in Seq(Sub) /\ IsInjective(queue[c]) /\ s \notin Range(queue[c])
        BY OwnTypesOf, Zenon DEF OwnInv, OnePlace
    <2> QED BY <1>5, <2>1, PushFront, Zenon DEF With
<1>7. queue' \in [Clients -> Seq(Sub)]
    <2> HIDE DEF q
    <2> QED BY <1>1, <1>2, <1>6 DEF OwnTypes
<1>8. OnePlace' /\ \A t \in Sub : Placed(t)' => Placed(t)
    BY <1>1, <1>4, <1>5, <1>6, PutBackKeeps, Zenon
<1>9. OwnTypes'
    <2>1. ctx[c][k].prev \in Sub \cup {None, Garbage}
        BY <1>2 DEF OwnTypes
    <2>2. last' \in [Clients -> Sub \cup {None, Garbage}]
        BY <1>1, <1>2, <2>1, Zenon DEF OwnTypes
    <2> QED BY <1>1, <1>2, <1>4, <1>7, <2>2, Zenon DEF OwnTypes, CtxRec
<1> QED BY <1>1, <1>4, <1>8, <1>9, OwnCloses, Zenon

(* The answer of the server: no block, and the request fails. *)
LEMMA NoSpaceKeeps ==
    ASSUME OwnInv, NEW c \in Clients, dyn_reg_new_space(c), reply[c] = None
    PROVE  OwnInv'
<1> DEFINE k == caller[c]
<1>1. /\ mode[c] = "reply" /\ mode' = [mode EXCEPT ![c] = "run"]
      /\ ctx' = [ctx EXCEPT ![c][k] = IdleCtx]
      /\ queue' = queue /\ last' = last /\ st' = st
      /\ allocable' = allocable /\ rr' = rr /\ published' = published
      /\ reply' = reply /\ caller' = caller /\ restarts' = restarts
    BY Zenon DEF dyn_reg_new_space
<1>2. OwnTypes
    BY Zenon DEF OwnInv
<1>3. k \in Coros /\ st[c][k] = "idle"
    BY <1>1, Zenon DEF OwnInv, Served
<1> HIDE DEF k
<1>4. /\ mode'[c] = "run" /\ \A d \in Clients : d # c => mode'[d] = mode[d]
      /\ mode' \in [Clients -> {"down", "run", "rpc", "reply", "dead", "exit"}]
    BY <1>1, <1>2 DEF OwnTypes
<1>5. IdleCtx \in CtxRec /\ IdleCtx.addr = None
    BY DEF IdleCtx, CtxRec
<1>6. AddrSet(c, k, None) /\ ctx' \in [Clients -> [Coros -> CtxRec]]
    <2>1. AddrSet(c, k, IdleCtx.addr) /\ ctx' \in [Clients -> [Coros -> CtxRec]]
        BY <1>1, <1>3, <1>5, CtxSet, Zenon
    <2> QED BY <1>5, <2>1, Zenon
<1>7. published' \subseteq published \cup ({ctx[c][k].addr} \ {None})
    BY <1>1, Zenon
<1>8. OnePlace' /\ \A t \in Sub : Placed(t)' => Placed(t)
    BY <1>1, <1>3, <1>6, <1>7, DropKeeps, Zenon
<1>9. OwnTypes'
    BY <1>1, <1>2, <1>4, <1>6, Zenon DEF OwnTypes, CtxRec
<1>10. ASSUME NEW d \in Clients PROVE Served(d)'
    <2>1. Served(d)
        BY Zenon DEF OwnInv
    <2>2. \A l \in Coros : st'[d][l] # "idle" => ctx'[d][l].addr # None
        BY <1>1, <1>3, <1>6, <2>1 DEF Served, AddrSet
    <2>3. CASE d = c
        BY <1>4, <2>2, <2>3 DEF Served
    <2>4. CASE d # c
        BY <1>1, <1>4, <1>6, <2>1, <2>2, <2>4 DEF Served, AddrSet
    <2> QED BY <2>3, <2>4, Zenon
<1>11. \A d \in Clients : mode'[d] = "reply" => mode[d] = "reply" /\ reply'[d] = reply[d]
    BY <1>1, <1>4
<1> QED BY <1>1, <1>8, <1>9, <1>10, <1>11, OwnCloses, Zenon

(* The answer of the server: a block nobody has, cut into the queue. *)
LEMMA NewBlockKeeps ==
    ASSUME OwnInv, NEW c \in Clients, dyn_reg_new_space(c), reply[c] # None
    PROVE  OwnInv'
<1> DEFINE k == caller[c]
           s == ctx[c][k].addr
           b == reply[c]
           q == Subblocks(b)
           r == [addr |-> s, nxt |-> Head(q), prev |-> last[c]]
<1>1. /\ mode[c] = "reply" /\ mode' = [mode EXCEPT ![c] = "run"]
      /\ ctx' = [ctx EXCEPT ![c][k] = [addr |-> s, nxt |-> Head(queue[c] \o q), prev |-> last[c]]]
      /\ queue' = [queue EXCEPT ![c] = queue[c] \o q] /\ last' = [last EXCEPT ![c] = s]
      /\ st' = [st EXCEPT ![c][k] = "posted"]
      /\ allocable' = allocable /\ rr' = rr /\ published' = published
      /\ reply' = reply /\ caller' = caller /\ restarts' = restarts
    BY Zenon DEF dyn_reg_new_space, Allocated, local_reg_blocks
<1>2. OwnTypes
    BY Zenon DEF OwnInv
<1>3. /\ k \in Coros /\ st[c][k] = "idle" /\ s # None /\ queue[c] = <<>>
      /\ b \in Blocks /\ HandedOut(b) /\ \A t \in Sub : Placed(t) => BlockOf(t) # b
      /\ \A d \in Clients \ {c} : mode[d] = "reply" => reply[d] # b
    <2>1. Served(c) /\ NewBlock(c)
        BY Zenon DEF OwnInv
    <2> QED BY <1>1, <2>1, Zenon DEF Served, NewBlock, HandedOut
<1>4. /\ q \in Seq(Sub) /\ IsInjective(q) /\ q # <<>>
      /\ \A t \in Range(q) : t \in Sub /\ BlockOf(t) = b
    BY <1>3, SubblocksOf, Zenon
<1>5. Unplaced(q)
    BY <1>3, <1>4, Zenon DEF Unplaced
<1> HIDE DEF q
<1>6. <<>> \o q = q
    BY <1>4
<1>7. Head(q) \in Sub
    BY <1>4, PopFront, Zenon
<1>8. s \in Sub
    BY <1>3, OwnTypesOf, Zenon
<1> HIDE DEF k, s
<1>9. r \in CtxRec /\ r.addr = s
    <2>1. last[c] \in Sub \cup {None, Garbage}
        BY <1>2, Zenon DEF OwnTypes
    <2> QED BY <1>7, <1>8, <2>1 DEF CtxRec
<1>10. ctx' = [ctx EXCEPT ![c][k] = r] /\ queue' = [queue EXCEPT ![c] = q]
    BY <1>1, <1>3, <1>6, Zenon
<1> HIDE DEF r
<1>11. ctx' \in [Clients -> [Coros -> CtxRec]] /\ AddrSet(c, k, s)
    BY <1>3, <1>9, <1>10, CtxSet, Zenon
<1>12. SameAddrs
    BY <1>11, Zenon DEF SameAddrs, AddrSet, s
<1>13. OnePlace' /\ \A t : Placed(t)' => Placed(t) \/ t \in Range(q)
    BY <1>1, <1>5, <1>10, <1>12, FillKeeps, Zenon
<1>14. OwnTypes'
    <2>1. queue' \in [Clients -> Seq(Sub)]
        BY <1>2, <1>4, <1>10 DEF OwnTypes
    <2>2. last' \in [Clients -> Sub \cup {None, Garbage}]
        BY <1>1, <1>2, <1>8 DEF OwnTypes
    <2>3. st' \in [Clients -> [Coros -> {"idle", "posted", "written"}]]
        BY <1>1, <1>2, Zenon DEF OwnTypes
    <2>4. mode' \in [Clients -> {"down", "run", "rpc", "reply", "dead", "exit"}]
        BY <1>1, <1>2 DEF OwnTypes
    <2> QED BY <1>1, <1>2, <1>11, <2>1, <2>2, <2>3, <2>4, Zenon DEF OwnTypes, CtxRec
<1>15. /\ mode'[c] = "run" /\ \A d \in Clients : d # c => mode'[d] = mode[d] /\ queue'[d] = queue[d]
       /\ \A d \in Clients, l \in Coros : d # c \/ l # k => st'[d][l] = st[d][l]
    BY <1>1, <1>2, <1>10 DEF OwnTypes
<1>16. ASSUME NEW d \in Clients PROVE Served(d)'
    <2>1. Served(d)
        BY Zenon DEF OwnInv
    <2>2. \A l \in Coros : st'[d][l] # "idle" => ctx'[d][l].addr # None
        BY <1>3, <1>11, <1>15, <2>1 DEF Served, AddrSet
    <2>3. CASE d = c
        BY <1>15, <2>2, <2>3 DEF Served
    <2>4. CASE d # c
        BY <1>1, <1>11, <1>15, <2>1, <2>2, <2>4 DEF Served, AddrSet
    <2> QED BY <2>3, <2>4, Zenon
<1>17. \A d \in Clients : mode'[d] = "reply" => d # c /\ mode[d] = "reply" /\ reply'[d] = reply[d]
    BY <1>1, <1>15
<1>18. \A t \in Sub : Placed(t)' =>
               \/ Placed(t)
               \/ /\ HandedOut(BlockOf(t))'
                  /\ \A d \in Clients : mode[d] = "reply" /\ mode'[d] = "reply" => BlockOf(t) # reply[d]
    BY <1>1, <1>3, <1>4, <1>13, <1>17, Zenon DEF HandedOut
<1>19. \A n \in Nodes : \A i \in Range(allocable'[n]) : i \in Range(allocable[n])
    BY <1>1, Zenon
<1> QED BY <1>13, <1>14, <1>16, <1>17, <1>18, <1>19, OwnCloses, Zenon

(* ServerMM::mm_alloc: the block a server answers with is not handed out   *)
(* before and is handed out after.                                         *)
LEMMA ServerBlock ==
    ASSUME OwnInv, NEW n \in Nodes, allocable[n] # <<>>
    PROVE  /\ mm_alloc_block(n) \in Blocks /\ mm_alloc_block(n) # None
           /\ mm_alloc_block(n)[1] = n /\ ~ HandedOut(mm_alloc_block(n))
           /\ mm_alloc_block(n)[2] \notin Range(Tail(allocable[n]))
           /\ Tail(allocable[n]) \in Seq(1 .. NumBlocks) /\ IsInjective(Tail(allocable[n]))
           /\ \A i \in Range(Tail(allocable[n])) : i \in Range(allocable[n])
<1> DEFINE q == allocable[n]
<1>1. q \in Seq(1 .. NumBlocks) /\ IsInjective(q)
    BY Zenon DEF OwnInv, OwnTypes
<1>2. /\ Head(q) \in 1 .. NumBlocks /\ Head(q) \in Range(q) /\ Head(q) \notin Range(Tail(q))
      /\ Tail(q) \in Seq(1 .. NumBlocks) /\ IsInjective(Tail(q))
      /\ \A i \in Range(Tail(q)) : i \in Range(q)
    BY <1>1, PopFront, Zenon
<1>3. mm_alloc_block(n) = <<n, Head(q)>>
    BY Zenon DEF mm_alloc_block
<1> HIDE DEF q
<1>4. <<n, Head(q)>> \in Blocks /\ <<n, Head(q)>>[1] = n /\ <<n, Head(q)>>[2] = Head(q)
    BY <1>2 DEF Blocks
<1>5. ~ HandedOut(<<n, Head(q)>>)
    BY <1>2, <1>4, Zenon DEF HandedOut, q
<1>6. <<n, Head(q)>> # None
    BY <1>4, SubblockForm, Zenon
<1> QED BY <1>2, <1>3, <1>4, <1>5, <1>6, Zenon DEF q

(* Server::server_on_alloc. *)
LEMMA AnswerKeeps ==
    ASSUME OwnInv, NEW c \in Clients, server_on_alloc(c)
    PROVE  OwnInv'
<1> DEFINE n == NodeOf(rr[c])
           b == mm_alloc_block(n)
<1>1. /\ mode[c] = "rpc" /\ mode' = [mode EXCEPT ![c] = "reply"]
      /\ rr' = [rr EXCEPT ![c] = @ + 1] /\ reply' = [reply EXCEPT ![c] = b]
      /\ allocable' = [allocable EXCEPT ![n] = IF @ = <<>> THEN @ ELSE Tail(@)]
      /\ queue' = queue /\ last' = last /\ st' = st /\ ctx' = ctx /\ published' = published
      /\ caller' = caller /\ restarts' = restarts
    BY Zenon DEF server_on_alloc, fibers
<1>2. OwnTypes
    BY Zenon DEF OwnInv
<1>3. n \in Nodes
    <2>1. rr[c] \in Nat /\ NumMemory \in Nat \ {0}
        BY <1>2, ConstantsOK, Zenon DEF OwnTypes
    <2> QED BY <2>1 DEF NodeOf, Nodes
<1> HIDE DEF n
<1>4. DOMAIN allocable = Nodes /\ DOMAIN mode = Clients /\ DOMAIN reply = Clients
    BY <1>2, Zenon DEF OwnTypes
<1>5. /\ allocable'[n] = (IF allocable[n] = <<>> THEN allocable[n] ELSE Tail(allocable[n]))
      /\ \A m \in Nodes : m # n => allocable'[m] = allocable[m]
    BY <1>1, <1>3, <1>4, Zenon
<1>6. /\ mode'[c] = "reply" /\ reply'[c] = b
      /\ \A d \in Clients : d # c => mode'[d] = mode[d] /\ reply'[d] = reply[d]
    BY <1>1, <1>4, Zenon
<1>7. \A m \in Nodes : /\ allocable'[m] \in Seq(1 .. NumBlocks) /\ IsInjective(allocable'[m])
                       /\ \A i \in Range(allocable'[m]) : i \in Range(allocable[m])
    <2>1. \A m \in Nodes : allocable[m] \in Seq(1 .. NumBlocks) /\ IsInjective(allocable[m])
        BY <1>2, Zenon DEF OwnTypes
    <2>2. /\ allocable'[n] \in Seq(1 .. NumBlocks) /\ IsInjective(allocable'[n])
          /\ \A i \in Range(allocable'[n]) : i \in Range(allocable[n])
        BY <1>3, <1>5, <2>1, ServerBlock, Zenon
    <2> QED BY <1>5, <2>1, <2>2, Zenon
<1>8. b \in Blocks \cup {None} /\
      (b # None => /\ ~ HandedOut(b) /\ b \in Blocks
                   /\ b[2] \notin Range(allocable'[b[1]]))
    <2>1. CASE allocable[n] = <<>>
        <3>1. b = None
            BY <2>1, Zenon DEF mm_alloc_block
        <3> QED BY <3>1, Zenon
    <2>2. CASE allocable[n] # <<>>
        <3>1. /\ b \in Blocks /\ b[1] = n /\ ~ HandedOut(b)
              /\ b[2] \notin Range(Tail(allocable[n]))
            BY <1>3, <2>2, ServerBlock, Zenon
        <3> QED BY <1>5, <2>2, <3>1, Zenon
    <2> QED BY <2>1, <2>2, Zenon
<1> HIDE DEF b
<1>9. OwnTypes'
    <2>1. allocable' \in [Nodes -> Seq(1 .. NumBlocks)]
        <3>1. allocable' = [m \in Nodes |-> allocable'[m]]
            BY <1>1, <1>2, Zenon DEF OwnTypes
        <3> QED BY <1>7, <3>1, Zenon
    <2>2. rr' \in [Clients -> Nat]
        BY <1>1, <1>2 DEF OwnTypes
    <2>3. mode' \in [Clients -> {"down", "run", "rpc", "reply", "dead", "exit"}]
        BY <1>1, <1>2 DEF OwnTypes
    <2>4. reply' \in [Clients -> Blocks \cup {None}]
        BY <1>1, <1>2, <1>8 DEF OwnTypes
    <2> QED BY <1>1, <1>2, <1>7, <2>1, <2>2, <2>3, <2>4, Zenon DEF OwnTypes
<1>10. SameAddrs
    BY <1>1, Zenon DEF SameAddrs
<1>11. OnePlace' /\ \A t : Placed(t)' => Placed(t)
    BY <1>1, <1>10, QuietKeeps, Zenon
<1>12. ASSUME NEW d \in Clients PROVE Served(d)'
    <2>1. Served(d)
        BY Zenon DEF OwnInv
    <2> QED BY <1>1, <1>6, <2>1 DEF Served
<1>13. ASSUME NEW e \in Blocks, HandedOut(e) PROVE HandedOut(e)'
    <2>1. e[1] \in Nodes /\ e[2] \notin Range(allocable[e[1]])
        BY <1>13 DEF HandedOut, Blocks
    <2> QED BY <1>7, <2>1, Zenon DEF HandedOut
<1>14. \A t \in Sub : Placed(t)' => Placed(t) /\ HandedOut(BlockOf(t)) /\ HandedOut(BlockOf(t))'
    <2>1. \A t \in Sub : Placed(t) => HandedOut(BlockOf(t))
        BY Zenon DEF OwnInv
    <2> QED BY <1>11, <1>13, <2>1, SubblockForm, Zenon
<1>15. \A d \in Clients : d # c /\ mode[d] = "reply" /\ reply[d] # None =>
          /\ HandedOut(reply[d]) /\ reply[d] \in Blocks
          /\ \A t \in Sub : Placed(t) => BlockOf(t) # reply[d]
          /\ \A e \in Clients \ {d} : mode[e] = "reply" => reply[e] # reply[d]
    BY Zenon DEF OwnInv, NewBlock, HandedOut
<1>16. NewBlock(c)'
    <2> SUFFICES ASSUME b # None
                 PROVE  /\ b \in Blocks /\ b[2] \notin Range(allocable'[b[1]])
                        /\ \A t \in Sub : Placed(t)' => BlockOf(t) # b
                        /\ \A d \in Clients \ {c} : mode'[d] = "reply" => reply'[d] # b
        BY <1>6, Zenon DEF NewBlock, HandedOut
    <2>1. \A t \in Sub : Placed(t)' => BlockOf(t) # b
        BY <1>8, <1>14, Zenon
    <2>2. \A d \in Clients \ {c} : mode'[d] = "reply" => reply'[d] # b
        BY <1>6, <1>8, <1>15, Zenon
    <2> QED BY <1>8, <2>1, <2>2, Zenon
<1>17. ASSUME NEW d \in Clients, d # c PROVE NewBlock(d)'
    <2> SUFFICES ASSUME mode[d] = "reply", reply[d] # None
                 PROVE  /\ reply[d] \in Blocks /\ reply[d][2] \notin Range(allocable'[reply[d][1]])
                        /\ \A t \in Sub : Placed(t)' => BlockOf(t) # reply[d]
                        /\ \A e \in Clients \ {d} : mode'[e] = "reply" => reply'[e] # reply[d]
        BY <1>6, <1>17, Zenon DEF NewBlock, HandedOut
    <2>1. /\ HandedOut(reply[d]) /\ reply[d] \in Blocks
          /\ \A t \in Sub : Placed(t) => BlockOf(t) # reply[d]
          /\ \A e \in Clients \ {d} : mode[e] = "reply" => reply[e] # reply[d]
        BY <1>15, <1>17, Zenon
    <2>2. reply[d][2] \notin Range(allocable'[reply[d][1]])
        BY <1>13, <2>1, Zenon DEF HandedOut
    <2>3. ASSUME NEW e \in Clients \ {d}, mode'[e] = "reply" PROVE reply'[e] # reply[d]
        <3>1. CASE e = c
            BY <1>6, <1>8, <2>1, <3>1, Zenon
        <3>2. CASE e # c
            BY <1>6, <2>1, <2>3, <3>2, Zenon
        <3> QED BY <3>1, <3>2, Zenon
    <2> QED BY <1>14, <2>1, <2>2, <2>3, Zenon
<1> QED BY <1>9, <1>11, <1>12, <1>14, <1>16, <1>17, Zenon DEF OwnInv

(* The blocks a new client asks for are on different nodes. *)
StartHints(c) == IF c = First THEN [i \in 1 .. NumMemory |-> rr[c] + i - 1] ELSE <<rr[c]>>
StartBlocks(c) ==
    [i \in DOMAIN StartHints(c) |-> mm_alloc_block(NodeOf(StartHints(c)[i]))]
StartNodes(c) ==
    {NodeOf(StartHints(c)[i]) : i \in {j \in DOMAIN StartHints(c) : StartBlocks(c)[j] # None}}

LEMMA HintsOf ==
    ASSUME OwnInv, NEW c \in Clients
    PROVE  \E N \in 1 .. NumMemory :
              /\ DOMAIN StartHints(c) = 1 .. N
              /\ \A i \in 1 .. N : NodeOf(StartHints(c)[i]) \in Nodes
              /\ \A i, j \in 1 .. N : NodeOf(StartHints(c)[i]) = NodeOf(StartHints(c)[j]) => i = j
<1> DEFINE h == rr[c]
           H == StartHints(c)
<1>1. h \in Nat /\ NumMemory \in Nat \ {0} /\ 1 \in 1 .. NumMemory /\ NumMemory \in 1 .. NumMemory
    <2>1. h \in Nat /\ NumMemory \in Nat \ {0}
        BY ConstantsOK, Zenon DEF OwnInv, OwnTypes
    <2> QED BY <2>1
<1> HIDE DEF h
<1>2. ASSUME NEW N \in 1 .. NumMemory, DOMAIN H = 1 .. N, \A i \in 1 .. N : H[i] = h + i - 1
      PROVE  /\ \A i \in 1 .. N : NodeOf(H[i]) \in Nodes
             /\ \A i, j \in 1 .. N : NodeOf(H[i]) = NodeOf(H[j]) => i = j
    <2>1. \A i \in 1 .. N : h + i - 1 \in Nat /\ i \in 1 .. NumMemory
        BY <1>1
    <2>2. \A x \in Nat : x % NumMemory \in Nodes
        BY <1>1 DEF Nodes
    <2>3. \A i \in 1 .. N : NodeOf(H[i]) = (h + i - 1) % NumMemory
        BY <1>2, Zenon DEF NodeOf
    <2>4. \A i, j \in 1 .. NumMemory : (h + i - 1) % NumMemory = (h + j - 1) % NumMemory => i = j
        <3>1. ASSUME NEW i \in 1 .. NumMemory, NEW j \in 1 .. NumMemory,
                     (h + i - 1) % NumMemory = (h + j - 1) % NumMemory
              PROVE  i = j
            BY <1>1, <3>1, RowOfRemainders, Zenon
        <3> QED BY <3>1, Zenon
    <2> QED BY <2>1, <2>2, <2>3, <2>4, Zenon
<1>3. CASE c = First
    <2>1. DOMAIN H = 1 .. NumMemory /\ \A i \in 1 .. NumMemory : H[i] = h + i - 1
        BY <1>3 DEF StartHints, h
    <2>2. /\ \A i \in 1 .. NumMemory : NodeOf(H[i]) \in Nodes
          /\ \A i, j \in 1 .. NumMemory : NodeOf(H[i]) = NodeOf(H[j]) => i = j
        BY <1>1, <1>2, <2>1, Zenon
    <2> QED BY <1>1, <2>1, <2>2, Zenon
<1>4. CASE c # First
    <2>1. H = <<h>>
        BY <1>4, Zenon DEF StartHints, h
    <2>2. DOMAIN <<h>> = 1 .. 1 /\ \A i \in 1 .. 1 : <<h>>[i] = h + i - 1
        BY <1>1
    <2> QED BY <1>1, <1>2, <2>1, <2>2, Zenon
<1> QED BY <1>3, <1>4, Zenon

LEMMA HintLen ==
    ASSUME OwnInv, NEW c \in Clients
    PROVE  Len(StartHints(c)) \in Nat
<1>1. rr[c] \in Nat /\ NumMemory \in Nat
    BY ConstantsOK, Zenon DEF OwnInv, OwnTypes
<1>2. [i \in 1 .. NumMemory |-> rr[c] + i - 1] \in [1 .. NumMemory -> Int]
    BY <1>1
<1>3. Len([i \in 1 .. NumMemory |-> rr[c] + i - 1]) \in Nat
    BY <1>1, <1>2, FunctionIsSeq, Zenon
<1>4. Len(<<rr[c]>>) \in Nat
    OBVIOUS
<1> QED BY <1>3, <1>4, Zenon DEF StartHints

(* What the new client gets. *)
LEMMA BlocksOfStart ==
    ASSUME OwnInv, NEW c \in Clients,
           allocable' = [n \in Nodes |-> IF n \in StartNodes(c) THEN Tail(allocable[n]) ELSE allocable[n]]
    PROVE  /\ \A n \in Nodes :
                 /\ allocable'[n] \in Seq(1 .. NumBlocks) /\ IsInjective(allocable'[n])
                 /\ \A i \in Range(allocable'[n]) : i \in Range(allocable[n])
           /\ (\A i \in DOMAIN StartBlocks(c) : StartBlocks(c)[i] # None) =>
                 /\ StartBlocks(c) \in Seq(Blocks) /\ StartBlocks(c) # <<>>
                 /\ IsInjective(StartBlocks(c))
                 /\ \A i \in 1 .. Len(StartBlocks(c)) :
                       /\ ~ HandedOut(StartBlocks(c)[i])
                       /\ StartBlocks(c)[i][2] \notin Range(allocable'[StartBlocks(c)[i][1]])
<1> DEFINE at(i) == NodeOf(StartHints(c)[i])
           bs == StartBlocks(c)
<1>1. PICK N \in 1 .. NumMemory :
          /\ DOMAIN StartHints(c) = 1 .. N
          /\ \A i \in 1 .. N : at(i) \in Nodes
          /\ \A i, j \in 1 .. N : at(i) = at(j) => i = j
    BY HintsOf, Zenon
<1>2. DOMAIN bs = 1 .. N /\ \A i \in 1 .. N : bs[i] = mm_alloc_block(at(i))
    BY <1>1, Zenon DEF StartBlocks
<1>3. \A i \in 1 .. N : bs[i] # None => allocable[at(i)] # <<>>
    BY <1>2, Zenon DEF mm_alloc_block
<1>4. \A n \in StartNodes(c) : \E i \in 1 .. N : n = at(i) /\ bs[i] # None
    BY <1>1, Zenon DEF StartNodes
<1>5. \A i \in 1 .. N : bs[i] # None => at(i) \in StartNodes(c)
    BY <1>1, Zenon DEF StartNodes
<1> HIDE DEF at, bs
<1>6. \A n \in Nodes : allocable'[n] = IF n \in StartNodes(c) THEN Tail(allocable[n]) ELSE allocable[n]
    BY Zenon
<1>7. ASSUME NEW n \in Nodes
      PROVE  /\ allocable'[n] \in Seq(1 .. NumBlocks) /\ IsInjective(allocable'[n])
             /\ \A i \in Range(allocable'[n]) : i \in Range(allocable[n])
    <2>1. CASE n \in StartNodes(c)
        <3>1. allocable[n] # <<>>
            BY <1>3, <1>4, <2>1, Zenon
        <3>2. /\ Tail(allocable[n]) \in Seq(1 .. NumBlocks) /\ IsInjective(Tail(allocable[n]))
              /\ \A i \in Range(Tail(allocable[n])) : i \in Range(allocable[n])
            BY <3>1, ServerBlock, Zenon
        <3>3. allocable'[n] = Tail(allocable[n])
            BY <1>6, <2>1, Zenon
        <3> QED BY <3>2, <3>3, Zenon
    <2>2. CASE n \notin StartNodes(c)
        <3>1. allocable[n] \in Seq(1 .. NumBlocks) /\ IsInjective(allocable[n])
            BY Zenon DEF OwnInv, OwnTypes
        <3>2. allocable'[n] = allocable[n]
            BY <1>6, <2>2, Zenon
        <3> QED BY <3>1, <3>2, Zenon
    <2> QED BY <2>1, <2>2, Zenon
<1>8. ASSUME \A i \in DOMAIN bs : bs[i] # None
      PROVE  /\ bs \in Seq(Blocks) /\ bs # <<>> /\ IsInjective(bs)
             /\ \A i \in 1 .. Len(bs) : ~ HandedOut(bs[i]) /\ bs[i][2] \notin Range(allocable'[bs[i][1]])
    <2>1. ASSUME NEW i \in 1 .. N
          PROVE  /\ bs[i] \in Blocks /\ bs[i][1] = at(i) /\ ~ HandedOut(bs[i])
                 /\ bs[i][2] \notin Range(allocable'[bs[i][1]])
        <3>1. at(i) \in Nodes /\ bs[i] = mm_alloc_block(at(i)) /\ allocable[at(i)] # <<>>
            BY <1>1, <1>2, <1>3, <1>8, <2>1, Zenon
        <3>2. /\ bs[i] \in Blocks /\ bs[i][1] = at(i) /\ ~ HandedOut(bs[i])
              /\ bs[i][2] \notin Range(Tail(allocable[at(i)]))
            BY <3>1, ServerBlock, Zenon
        <3>3. allocable'[at(i)] = Tail(allocable[at(i)])
            BY <1>2, <1>5, <1>6, <1>8, <2>1, <3>1, Zenon
        <3> QED BY <3>2, <3>3, Zenon
    <2>2. bs \in Seq(Blocks) /\ Len(bs) = N
        <3>0. bs = [i \in 1 .. N |-> bs[i]]
            BY <1>1 DEF bs, StartBlocks
        <3>1. bs \in [1 .. N -> Blocks]
            BY <2>1, <3>0, Zenon
        <3>2. N \in Nat
            BY <1>1
        <3> QED BY <2>1, <3>1, <3>2, FunctionIsSeq, Zenon
    <2>3. bs # <<>>
        <3>1. N # 0 /\ Len(<<>>) = 0
            BY <1>1
        <3> QED BY <2>2, <3>1, Zenon
    <2>4. IsInjective(bs)
        <3>1. ASSUME NEW i \in 1 .. N, NEW j \in 1 .. N, bs[i] = bs[j] PROVE i = j
            <4>1. bs[i][1] = at(i) /\ bs[j][1] = at(j)
                BY <2>1, Zenon
            <4>2. at(i) = at(j)
                BY <3>1, <4>1
            <4> QED BY <1>1, <4>2, Zenon
        <3> QED BY <1>2, <3>1, Zenon DEF IsInjective
    <2> QED BY <2>1, <2>2, <2>3, <2>4, Zenon
<1> QED BY <1>7, <1>8, Zenon DEF bs

(* The constructor of a new client. *)
LEMMA StartKeeps ==
    ASSUME OwnInv, NEW c \in Clients, Start(c)
    PROVE  OwnInv'
<1> DEFINE bs == StartBlocks(c)
           q == Merged(bs)
           full == \E i \in DOMAIN bs : bs[i] = None
           next_mode == IF full THEN "exit" ELSE "run"
           tables == [i \in 1 .. (IF c = First THEN NumTables ELSE 0) |-> None]
<1>1. /\ mode[c] = "down"
      /\ allocable' = [n \in Nodes |-> IF n \in StartNodes(c) THEN Tail(allocable[n]) ELSE allocable[n]]
      /\ rr' = [rr EXCEPT ![c] = @ + Len(StartHints(c)) + Len(tables)]
      /\ IF full THEN mode' = [mode EXCEPT ![c] = "exit"] /\ queue' = queue
                 ELSE mode' = [mode EXCEPT ![c] = "run"] /\ queue' = [queue EXCEPT ![c] = q]
      /\ last' = last /\ st' = st /\ ctx' = ctx /\ reply' = reply /\ caller' = caller
      /\ restarts' = restarts /\ published' = published
    BY Zenon DEF Start, StartHints, StartBlocks, StartNodes, fibers
<1>2. OwnTypes
    BY Zenon DEF OwnInv
<1>3. \A n \in Nodes : /\ allocable'[n] \in Seq(1 .. NumBlocks) /\ IsInjective(allocable'[n])
                       /\ \A i \in Range(allocable'[n]) : i \in Range(allocable[n])
    BY <1>1, BlocksOfStart, Zenon
<1>4. ~ full => /\ bs \in Seq(Blocks) /\ bs # <<>> /\ IsInjective(bs)
                /\ \A i \in 1 .. Len(bs) :
                      ~ HandedOut(bs[i]) /\ bs[i][2] \notin Range(allocable'[bs[i][1]])
    BY <1>1, BlocksOfStart, Zenon
<1>5. rr' \in [Clients -> Nat]
    <2>1. Len(StartHints(c)) \in Nat
        BY HintLen, Zenon
    <2>2. Len(tables) \in Nat
        <3>1. ASSUME NEW n \in Nat PROVE Len([i \in 1 .. n |-> None]) \in Nat
            <4>1. [i \in 1 .. n |-> None] \in [1 .. n -> {None}]
                OBVIOUS
            <4> QED BY <4>1, FunctionIsSeq, Zenon
        <3>2. (IF c = First THEN NumTables ELSE 0) \in Nat
            BY ConstantsOK
        <3> QED BY <3>1, <3>2, Zenon
    <2> DEFINE h == Len(StartHints(c))
               m == Len(tables)
    <2> HIDE DEF h, m
    <2>3. rr' = [rr EXCEPT ![c] = @ + h + m] /\ h \in Nat /\ m \in Nat
        BY <1>1, <2>1, <2>2, Zenon DEF h, m
    <2> QED BY <1>2, <2>3 DEF OwnTypes
<1> HIDE DEF bs, full
<1>6. SameAddrs
    BY <1>1, Zenon DEF SameAddrs
<1>7. DOMAIN mode = Clients /\ DOMAIN queue = Clients
    BY <1>2, Zenon DEF OwnTypes
<1>8. /\ mode'[c] \in {"exit", "run"} /\ \A d \in Clients : d # c => mode'[d] = mode[d]
      /\ mode' \in [Clients -> {"down", "run", "rpc", "reply", "dead", "exit"}]
    <2>1. PICK x \in {"exit", "run"} : mode' = [mode EXCEPT ![c] = x]
        BY <1>1, Zenon
    <2> QED BY <1>2, <2>1 DEF OwnTypes
<1>9. \A d \in Clients : d # c => queue'[d] = queue[d]
    BY <1>1, <1>7, Zenon
<1>10. ASSUME ~ full
       PROVE  /\ q \in Seq(Sub) /\ Unplaced(q)
              /\ \A t \in Range(q) : \E j \in 1 .. Len(bs) : BlockOf(t) = bs[j]
    <2>1. /\ q \in Seq(Sub) /\ IsInjective(q)
          /\ \A t \in Range(q) : \E j \in 1 .. Len(bs) : BlockOf(t) = bs[j]
        BY <1>4, <1>10, MergedBlocks, Zenon
    <2>2. \A t \in Range(q) : t \in Sub
        BY <2>1, InRange, Zenon
    <2>3. \A t \in Sub : Placed(t) => HandedOut(BlockOf(t))
        BY Zenon DEF OwnInv
    <2>4. \A t \in Range(q) : ~ HandedOut(BlockOf(t))
        BY <1>4, <1>10, <2>1, Zenon
    <2> QED BY <2>1, <2>2, <2>3, <2>4, Zenon DEF Unplaced
<1> HIDE DEF q
<1>11. /\ OnePlace' /\ queue' \in [Clients -> Seq(Sub)]
       /\ \A t : Placed(t)' => Placed(t) \/ (~ full /\ t \in Range(q))
    <2>1. CASE full
        BY <1>1, <1>2, <1>6, <2>1, QuietKeeps, Zenon DEF OwnTypes
    <2>2. CASE ~ full
        <3>1. queue' = [queue EXCEPT ![c] = q]
            BY <1>1, <2>2, Zenon
        <3>2. queue' \in [Clients -> Seq(Sub)]
            BY <1>2, <1>10, <2>2, <3>1 DEF OwnTypes
        <3>3. OnePlace' /\ \A t : Placed(t)' => Placed(t) \/ t \in Range(q)
            BY <1>1, <1>6, <1>10, <2>2, <3>1, FillKeeps, Zenon
        <3> QED BY <2>2, <3>2, <3>3, Zenon
    <2> QED BY <2>1, <2>2, Zenon
<1>12. OwnTypes'
    <2>1. allocable' \in [Nodes -> Seq(1 .. NumBlocks)]
        <3>1. allocable' = [n \in Nodes |-> allocable'[n]]
            BY <1>1
        <3> QED BY <1>3, <3>1, Zenon
    <2> QED BY <1>1, <1>2, <1>3, <1>5, <1>8, <1>11, <2>1, Zenon DEF OwnTypes
<1>13. ASSUME NEW d \in Clients PROVE Served(d)'
    <2>1. Served(d)
        BY Zenon DEF OwnInv
    <2>2. CASE d = c
        <3>1. mode'[d] \notin {"rpc", "reply"}
            BY <1>8, <2>2
        <3> QED BY <1>1, <2>1, <3>1, Zenon DEF Served
    <2>3. CASE d # c
        BY <1>1, <1>8, <1>9, <2>1, <2>3, Zenon DEF Served
    <2> QED BY <2>2, <2>3, Zenon
<1>14. \A d \in Clients : mode'[d] = "reply" => mode[d] = "reply" /\ reply'[d] = reply[d]
    BY <1>1, <1>8
<1>15. ASSUME NEW t \in Sub, Placed(t)', ~ Placed(t)
       PROVE  /\ HandedOut(BlockOf(t))'
              /\ \A d \in Clients : mode[d] = "reply" /\ mode'[d] = "reply" => BlockOf(t) # reply[d]
    <2>1. ~ full /\ t \in Range(q)
        BY <1>11, <1>15, Zenon
    <2>2. PICK j \in 1 .. Len(bs) : BlockOf(t) = bs[j]
        BY <1>10, <2>1, Zenon
    <2>3. /\ ~ HandedOut(BlockOf(t)) /\ BlockOf(t) \in Blocks
          /\ BlockOf(t)[2] \notin Range(allocable'[BlockOf(t)[1]])
        BY <1>4, <2>1, <2>2, SubblockForm, Zenon
    <2>4. \A d \in Clients : mode[d] = "reply" /\ reply[d] # None => HandedOut(reply[d])
        BY Zenon DEF OwnInv, NewBlock
    <2>5. BlockOf(t) # None
        BY <2>3, SubblockForm, Zenon
    <2>6. HandedOut(BlockOf(t))'
        BY <2>3, Zenon DEF HandedOut
    <2> QED BY <2>3, <2>4, <2>5, <2>6, Zenon
<1>16. \A t \in Sub : Placed(t)' =>
               \/ Placed(t)
               \/ /\ HandedOut(BlockOf(t))'
                  /\ \A d \in Clients : mode[d] = "reply" /\ mode'[d] = "reply" => BlockOf(t) # reply[d]
    BY <1>15, Zenon
<1>17. \A n \in Nodes : \A i \in Range(allocable'[n]) : i \in Range(allocable[n])
    BY <1>3, Zenon
<1> QED BY <1>11, <1>12, <1>13, <1>14, <1>16, <1>17, OwnCloses, Zenon

-----------------------------------------------------------------------------
(* The theorems. *)

LEMMA OwnInit ==
    Init => OwnInv
<1> SUFFICES ASSUME Init PROVE OwnInv
    OBVIOUS
<1>1. /\ allocable = [n \in Nodes |-> [i \in 1 .. NumBlocks |-> i]]
      /\ queue = [c \in Clients |-> <<>>] /\ last = [c \in Clients |-> Garbage] /\ rr = Hint
      /\ st = [c \in Clients |-> [k \in Coros |-> "idle"]]
      /\ ctx = [c \in Clients |-> [k \in Coros |-> IdleCtx]]
      /\ mode = [c \in Clients |-> "down"] /\ reply = [c \in Clients |-> None]
      /\ caller = [c \in Clients |-> None] /\ published = {}
      /\ restarts = [c \in Clients |-> 0]
    BY Zenon DEF Init
<1>2. \A n \in Nodes : allocable[n] \in Seq(1 .. NumBlocks) /\ IsInjective(allocable[n])
    <2> DEFINE f == [i \in 1 .. NumBlocks |-> i]
    <2>1. f \in [1 .. NumBlocks -> 1 .. NumBlocks] /\ NumBlocks \in Nat
        BY ConstantsOK
    <2>2. f \in Seq(1 .. NumBlocks)
        BY <2>1, FunctionIsSeq, Zenon
    <2>3. IsInjective(f)
        BY DEF IsInjective
    <2> QED BY <1>1, <2>2, <2>3, Zenon
<1>3. IdleCtx \in CtxRec /\ IdleCtx.addr = None
    BY DEF IdleCtx, CtxRec
<1>4. /\ \A c \in Clients : queue[c] = <<>> /\ mode[c] = "down" /\ reply[c] = None
      /\ \A c \in Clients, k \in Coros : ctx[c][k].addr = None /\ st[c][k] = "idle"
    BY <1>1, <1>3, Zenon
<1>5. OwnTypes
    <2>1. allocable \in [Nodes -> Seq(1 .. NumBlocks)]
        <3>1. allocable = [n \in Nodes |-> allocable[n]]
            BY <1>1
        <3> QED BY <1>2, <3>1, Zenon
    <2>2. queue \in [Clients -> Seq(Sub)]
        BY <1>1
    <2>3. ctx \in [Clients -> [Coros -> CtxRec]]
        BY <1>1, <1>3
    <2>4. last \in [Clients -> Sub \cup {None, Garbage}] /\ rr \in [Clients -> Nat]
        BY <1>1, ConstantsOK, Zenon
    <2>5. st \in [Clients -> [Coros -> {"idle", "posted", "written"}]]
        BY <1>1
    <2>6. /\ mode \in [Clients -> {"down", "run", "rpc", "reply", "dead", "exit"}]
          /\ restarts \in [Clients -> Nat]
        BY <1>1
    <2>7. reply \in [Clients -> Blocks \cup {None}] /\ caller \in [Clients -> Coros \cup {None}]
        BY <1>1, Zenon
    <2>8. published \subseteq Sub
        BY <1>1, Zenon
    <2> QED BY <1>2, <2>1, <2>2, <2>3, <2>4, <2>5, <2>6, <2>7, <2>8, Zenon DEF OwnTypes, CtxRec
<1>6. Range(<<>>) = {} /\ IsInjective(<<>>)
    BY EmptyQueue, Zenon
<1>7. OnePlace
    BY <1>1, <1>4, <1>6 DEF OnePlace
<1>8. \A c \in Clients : Served(c) /\ NewBlock(c)
    BY <1>4 DEF Served, NewBlock
<1>9. \A s \in Sub : ~ Placed(s)
    <2>1. None \notin Sub
        BY SubblockForm, Zenon
    <2> QED BY <1>1, <1>4, <1>6, <2>1 DEF Placed
<1> QED BY <1>5, <1>7, <1>8, <1>9, Zenon DEF OwnInv

LEMMA OwnNext ==
    ASSUME MaxRestart = 0, OwnInv, [Next]_vars
    PROVE  OwnInv'
<1>1. ASSUME NEW c \in Clients, Start(c) PROVE OwnInv'
    BY <1>1, StartKeeps, Zenon
<1>2. ASSUME NEW c \in Clients, server_on_alloc(c) PROVE OwnInv'
    BY <1>2, AnswerKeeps, Zenon
<1>3. ASSUME NEW c \in Clients, dyn_reg_new_space(c) PROVE OwnInv'
    BY <1>3, NoSpaceKeeps, NewBlockKeeps, Zenon
<1>4. ASSUME NEW c \in Clients, Crash(c) PROVE OwnInv'
    BY <1>4, DeathKeeps, Zenon
<1>5. ASSUME NEW c \in Clients, mm_recovery(c) PROVE FALSE
    <2>1. restarts[c] \in Nat /\ restarts[c] < 0
        BY <1>5 DEF mm_recovery, OwnInv, OwnTypes
    <2> QED BY <2>1
<1>6. ASSUME NEW c \in Clients, NEW k \in Coros, mm_alloc(c, k) PROVE OwnInv'
    BY <1>6, AllocFront, AllocLast, Zenon
<1>7. ASSUME NEW c \in Clients, NEW k \in Coros, AssertFails(c, k) PROVE OwnInv'
    BY <1>7, DeathKeeps, Zenon
<1>8. ASSUME NEW c \in Clients, NEW k \in Coros, WriteKV(c, k) PROVE OwnInv'
    BY <1>8, WriteKeeps, Zenon
<1>9. ASSUME NEW c \in Clients, NEW k \in Coros, Finish(c, k) PROVE OwnInv'
    BY <1>9, FinishKeeps, Zenon
<1>10. ASSUME NEW c \in Clients, NEW k \in Coros, mm_free_cur(c, k) PROVE OwnInv'
    BY <1>10, FreeCurKeeps, Zenon
<1>11. CASE UNCHANGED vars
    <2>1. /\ allocable' = allocable /\ queue' = queue /\ last' = last /\ rr' = rr
          /\ st' = st /\ ctx' = ctx /\ mode' = mode /\ reply' = reply /\ caller' = caller
          /\ restarts' = restarts /\ published' = published
        BY <1>11, Zenon DEF vars, local, fibers, proc
    <2>2. OwnTypes' /\ \A d \in Clients : Served(d)'
        BY <2>1, Zenon DEF OwnInv, OwnTypes, Served
    <2>3. SameAddrs
        BY <2>1, Zenon DEF SameAddrs
    <2>4. OnePlace' /\ \A t : Placed(t)' => Placed(t)
        BY <2>1, <2>3, QuietKeeps, Zenon
    <2> QED BY <2>1, <2>2, <2>4, OwnCloses, Zenon
<1>12. ASSUME NEW c \in Clients, NEW k \in Coros, Fiber(c, k) PROVE OwnInv'
    BY <1>6, <1>7, <1>8, <1>9, <1>10, <1>12, Zenon DEF Fiber
<1> QED BY <1>1, <1>2, <1>3, <1>4, <1>5, <1>11, <1>12, Zenon DEF Next

(* mm_alloc, mm_free_cur, dyn_reg_new_space and the servers keep every     *)
(* subblock in one place, for any number of clients, fibers, nodes and     *)
(* blocks, while clients may die at any step and none restarts.            *)
THEOREM OwnInvHolds ==
    ASSUME MaxRestart = 0
    PROVE  Spec => []OwnInv
<1>1. Init => OwnInv
    BY OwnInit, Zenon
<1>2. OwnInv /\ [Next]_vars => OwnInv'
    BY OwnNext, Zenon
<1> QED BY <1>1, <1>2, PTL DEF Spec

LEMMA OwnImpliesOneOwner ==
    OwnInv => OneOwner
<1> SUFFICES ASSUME OwnInv PROVE OneOwner
    OBVIOUS
<1>1. OnePlace
    BY Zenon DEF OwnInv
<1>2. \A c \in Clients : \A s \in Held(c) : s # None /\ \E k \in Coros : ctx[c][k].addr = s
    BY Zenon DEF Held
<1>3. \A c \in Clients : IsInjective(queue[c])
    BY <1>1, Zenon DEF OnePlace
<1>4. \A c, d \in Clients : Range(queue[c]) \cap (Held(d) \cup published) = {}
    BY <1>1, <1>2 DEF OnePlace
<1>5. ASSUME NEW c \in Clients, NEW d \in Clients, c # d
      PROVE  (Range(queue[c]) \cup Held(c)) \cap (Range(queue[d]) \cup Held(d)) = {}
    <2>1. \A s \in Held(c) : s \notin Held(d)
        BY <1>1, <1>2, <1>5 DEF OnePlace
    <2>2. \A s \in Range(queue[c]) : s \notin Range(queue[d])
        BY <1>1, <1>5, Zenon DEF OnePlace
    <2> QED BY <1>4, <2>1, <2>2
<1>6. \A c \in Clients, k, l \in Coros :
          k # l /\ ctx[c][k].addr # None => ctx[c][k].addr # ctx[c][l].addr
    BY <1>1 DEF OnePlace
<1> QED BY <1>3, <1>4, <1>5, <1>6 DEF OneOwner

(* mm_alloc, mm_free_cur: while no client restarts, a free subblock is in  *)
(* one queue, once, no request holds it and the index never pointed to it; *)
(* no two requests hold the same subblock.                                 *)
THEOREM OneOwnerHolds ==
    ASSUME MaxRestart = 0
    PROVE  Spec => []OneOwner
<1>1. Spec => []OwnInv
    BY OwnInvHolds
<1> QED BY <1>1, OwnImpliesOneOwner, PTL

=============================================================================
