---------------------------- MODULE EngineProofs ----------------------------
(***************************************************************************)
(* Proofs about the file-system layer of fs/engine/engine.cc: the outcomes *)
(* of its key-value operations, what they do to a tree, and, for any       *)
(* number of threads, that no inode number is given twice.                 *)
(***************************************************************************)
EXTENDS EngineInv, FiniteSetTheorems, TLAPS

-----------------------------------------------------------------------------
(* Keys, rows of operations, counters *)

LEMMA KeysDiffer ==
    /\ \A i, j : <<i>> = <<j>> => i = j
    /\ \A p, n, q, m : <<p, n>> = <<q, m>> => p = q /\ n = m
    /\ \A i, p, n : <<i>> # <<p, n>>
<1>1. \A i, j : <<i>> = <<j>> => i = j
    OBVIOUS
<1>2. \A p, n, q, m : <<p, n>> = <<q, m>> => p = q /\ n = m
    OBVIOUS
<1>3. ASSUME NEW i, NEW p, NEW n, <<i>> = <<p, n>> PROVE FALSE
    <2>1. Len(<<i>>) = 1 /\ Len(<<p, n>>) = 2
        OBVIOUS
    <2> QED BY <1>3, <2>1
<1> QED BY <1>1, <1>2, <1>3, Zenon

LEMMA KeyTypes ==
    /\ \A i \in Ids : <<i>> \in Keys
    /\ \A p \in Ids, n \in Names : <<p, n>> \in Keys
BY DEF Keys, InodeKeys, DentryKeys

(* The name a call is about. *)
LEMMA LastName ==
    ASSUME NEW path \in Paths
    PROVE  LastComponent(path) \in Names /\ Len(path) \in {1, 2} /\ \A i \in 1 .. Len(path) : path[i] \in Names
<1>1. CASE \E n \in Names : path = <<n>>
    BY <1>1 DEF LastComponent
<1>2. CASE \E d, n \in Names : path = <<d, n>>
    BY <1>2 DEF LastComponent
<1> QED BY <1>1, <1>2 DEF Paths

(* Rows of up to three operations. *)
LEMMA Rows ==
    /\ \A a : Head(<<a>>) = a /\ Tail(<<a>>) = <<>> /\ <<a>> # <<>>
    /\ \A a, b : Head(<<a, b>>) = a /\ Tail(<<a, b>>) = <<b>> /\ <<a, b>> # <<>>
    /\ \A a, b, c : Head(<<a, b, c>>) = a /\ Tail(<<a, b, c>>) = <<b, c>> /\ <<a, b, c>> # <<>>
<1>1. \A a : Head(<<a>>) = a /\ Tail(<<a>>) = <<>> /\ <<a>> # <<>>
    OBVIOUS
<1>2. \A a, b : Head(<<a, b>>) = a /\ Tail(<<a, b>>) = <<b>> /\ <<a, b>> # <<>>
    OBVIOUS
<1>3. \A a, b, c : Head(<<a, b, c>>) = a /\ Tail(<<a, b, c>>) = <<b, c>> /\ <<a, b, c>> # <<>>
    OBVIOUS
<1> QED BY <1>1, <1>2, <1>3

(* Counters stay in range, and below Wrap they count. *)
LEMMA Counting ==
    ASSUME NEW c \in 0 .. Wrap - 1
    PROVE  /\ (c + 1) % Wrap \in 0 .. Wrap - 1 /\ (c - 1) % Wrap \in 0 .. Wrap - 1
           /\ c + 1 < Wrap => (c + 1) % Wrap = c + 1
           /\ c > 0 => (c - 1) % Wrap = c - 1
BY EngineConstants

-----------------------------------------------------------------------------
(* Stores *)

IsStore(s) == s = [k \in Keys |-> s[k]]

LEMMA Put ==
    ASSUME NEW s, IsStore(s), NEW k \in Keys, NEW v
    PROVE  /\ IsStore(With(s, k, v)) /\ With(s, k, v)[k] = v
           /\ \A j \in Keys : j # k => With(s, k, v)[j] = s[j]
BY DEF IsStore, With

LEMMA SameStore ==
    ASSUME NEW r, NEW s, IsStore(r), IsStore(s), \A k \in Keys : r[k] = s[k]
    PROVE  r = s
BY Zenon DEF IsStore

(* What is put back is as before. *)
LEMMA PutBack ==
    ASSUME NEW s, IsStore(s), NEW k \in Keys, NEW v
    PROVE  With(With(s, k, v), k, s[k]) = s
<1> DEFINE r == With(s, k, v)
<1>1. IsStore(r) /\ r[k] = v /\ \A x \in Keys : x # k => r[x] = s[x]
    BY Put
<1> HIDE DEF r
<1>2. IsStore(With(r, k, s[k])) /\ \A x \in Keys : With(r, k, s[k])[x] = s[x]
    BY <1>1, Put
<1>3. With(r, k, s[k]) = s
    BY <1>2, SameStore, Zenon
<1> QED BY <1>3, Zenon DEF r

LEMMA PutBackFirst ==
    ASSUME NEW s, IsStore(s), NEW j \in Keys, NEW k \in Keys, j # k, NEW v, NEW w
    PROVE  With(With(With(s, j, v), k, w), j, s[j]) = With(s, k, w)
<1> DEFINE a == With(s, j, v)
           b == With(a, k, w)
           c == With(b, j, s[j])
           d == With(s, k, w)
<1>1. IsStore(a) /\ a[j] = v /\ \A x \in Keys : x # j => a[x] = s[x]
    BY Put
<1>2. IsStore(d) /\ d[k] = w /\ \A x \in Keys : x # k => d[x] = s[x]
    BY Put
<1> HIDE DEF a, d
<1>3. IsStore(b) /\ b[k] = w /\ \A x \in Keys : x # k => b[x] = a[x]
    BY <1>1, Put
<1> HIDE DEF b
<1>4. IsStore(c) /\ c[j] = s[j] /\ \A x \in Keys : x # j => c[x] = b[x]
    BY <1>3, Put
<1> HIDE DEF c
<1>5. \A x \in Keys : c[x] = d[x]
    BY <1>1, <1>2, <1>3, <1>4, Zenon
<1>6. c = d
    BY <1>2, <1>4, <1>5, SameStore, Zenon
<1> QED BY <1>6, Zenon DEF a, b, c, d


-----------------------------------------------------------------------------
(* Key-value operations *)

(* An operation leaves v under k, or ran out of space. *)
Outcome(r, k, v) == \/ r = <<kv, FALSE>> /\ fails < MaxFail
                    \/ r = <<With(kv, k, v), TRUE>>

LEMMA InsertEmpty ==
    ASSUME NEW k, kv[k] = <<>>, NEW v, NEW r \in kv_insert_sync(k, v)
    PROVE  Outcome(r, k, <<v>>)
<1>1. Len(kv[k]) = 0 /\ \A i \in 0 .. Len(kv[k]) : i = 0
    OBVIOUS
<1>2. SubSeq(<<>>, 1, 0) \o <<v>> \o SubSeq(<<>>, 0 + 1, Len(<<>>)) = <<v>>
    <2>1. SubSeq(<<>>, 1, 0) = <<>> /\ SubSeq(<<>>, 0 + 1, Len(<<>>)) = <<>>
        OBVIOUS
    <2>2. <<>> \in Seq({v}) /\ <<v>> \in Seq({v})
        OBVIOUS
    <2>3. <<>> \o <<v>> = <<v>> /\ <<v>> \o <<>> = <<v>>
        BY <2>2
    <2> QED BY <2>1, <2>3, Zenon
<1>4. \A i \in 0 .. Len(kv[k]) :
          [kv EXCEPT ![k] = SubSeq(@, 1, i) \o <<v>> \o SubSeq(@, i + 1, Len(@))] = With(kv, k, <<v>>)
    BY <1>1, <1>2, Zenon DEF With
<1> QED BY <1>4, Zenon DEF kv_insert_sync, NoSpace, Outcome

LEMMA DeleteOne ==
    ASSUME NEW k, NEW v, kv[k] = <<v>>, NEW r \in kv_delete_sync(k)
    PROVE  Outcome(r, k, <<>>)
<1>1. kv[k] # <<>> /\ Tail(kv[k]) = <<>>
    BY Rows
<1>2. [kv EXCEPT ![k] = Tail(@)] = With(kv, k, <<>>)
    BY <1>1 DEF With
<1> QED BY <1>1, <1>2, Zenon DEF kv_delete_sync, NoSpace, Outcome

LEMMA UpdateOne ==
    ASSUME NEW k, NEW v, NEW w, kv[k] = <<v>>, NEW r \in kv_update_sync(k, w)
    PROVE  Outcome(r, k, <<w>>)
<1>1. kv[k] # <<>>
    BY Rows
<1>2. [<<v>> EXCEPT ![1] = w] = <<w>>
    OBVIOUS
<1>3. [kv EXCEPT ![k][1] = w] = With(kv, k, <<w>>)
    BY <1>2, Zenon DEF With
<1> QED BY <1>1, <1>3, Zenon DEF kv_update_sync, NoSpace, Outcome

(* The operations of a call, where it finds what it expects. *)
LEMMA FirstOutcome ==
    ASSUME NEW m, NEW r \in Apply(First(m)),
           Making(m.op) => kv[InodeKey(m)] = <<>>,
           ~Making(m.op) => kv[InodeKey(m)] = <<m.target>>
    PROVE  Outcome(r, InodeKey(m), LeftInode(m))
<1>1. CASE Making(m.op)
    <2>1. First(m).kind = "insert" /\ First(m).key = InodeKey(m) /\ First(m).val = NewInode(m)
        BY <1>1 DEF First, InsertInode, InodeKey
    <2>2. r \in kv_insert_sync(InodeKey(m), NewInode(m))
        BY <2>1, Zenon DEF Apply
    <2> QED BY <1>1, <2>2, InsertEmpty, Zenon DEF LeftInode
<1>2. CASE ~Making(m.op)
    <2>1. First(m).kind = "delete" /\ First(m).key = InodeKey(m)
        BY <1>2 DEF First, DeleteInode, InodeKey
    <2>2. r \in kv_delete_sync(InodeKey(m))
        BY <2>1 DEF Apply
    <2> QED BY <1>2, <2>2, DeleteOne, Zenon DEF LeftInode
<1> QED BY <1>1, <1>2, Zenon

LEMMA SecondOutcome ==
    ASSUME NEW m, NEW r \in Apply(Second(m)),
           Making(m.op) => kv[EntryKey(m)] = <<>>,
           ~Making(m.op) => kv[EntryKey(m)] = <<m.id>>
    PROVE  Outcome(r, EntryKey(m), LeftEntry(m))
<1>1. CASE Making(m.op)
    <2>1. Second(m).kind = "insert" /\ Second(m).key = EntryKey(m) /\ Second(m).val = m.id
        BY <1>1 DEF Second, InsertDentry, EntryKey
    <2>2. r \in kv_insert_sync(EntryKey(m), m.id)
        BY <2>1, Zenon DEF Apply
    <2> QED BY <1>1, <2>2, InsertEmpty, Zenon DEF LeftEntry
<1>2. CASE ~Making(m.op)
    <2>1. Second(m).kind = "delete" /\ Second(m).key = EntryKey(m)
        BY <1>2 DEF Second, DeleteDentry, EntryKey
    <2>2. r \in kv_delete_sync(EntryKey(m))
        BY <2>1 DEF Apply
    <2> QED BY <1>2, <2>2, DeleteOne, Zenon DEF LeftEntry
<1> QED BY <1>1, <1>2, Zenon

LEMMA ThirdOutcome ==
    ASSUME NEW m, NEW r \in Apply(Third(m)), kv[<<m.cur>>] = <<m.parent>>
    PROVE  Outcome(r, <<m.cur>>, <<Counted(m)>>)
<1>1. Third(m).kind = "update" /\ Third(m).key = <<m.cur>> /\ Third(m).val = Counted(m)
    BY DEF Third, UpdateInode
<1>2. r \in kv_update_sync(<<m.cur>>, Counted(m))
    BY <1>1 DEF Apply
<1> QED BY <1>2, UpdateOne, Zenon

(* The operations that undo a call find what it left. *)
LEMMA UndoFirstOutcome ==
    ASSUME NEW m, NEW r \in Apply(UndoFirst(m)), kv[InodeKey(m)] = LeftInode(m)
    PROVE  Outcome(r, InodeKey(m), IF Making(m.op) THEN <<>> ELSE <<m.target>>)
<1>1. CASE Making(m.op)
    <2>1. UndoFirst(m).kind = "delete" /\ UndoFirst(m).key = InodeKey(m)
        BY <1>1 DEF UndoFirst, DeleteInode, InodeKey
    <2>2. r \in kv_delete_sync(InodeKey(m))
        BY <2>1 DEF Apply
    <2>3. kv[InodeKey(m)] = <<NewInode(m)>>
        BY <1>1, Zenon DEF LeftInode
    <2> QED BY <1>1, <2>2, <2>3, DeleteOne, Zenon
<1>2. CASE ~Making(m.op)
    <2>1. /\ UndoFirst(m).kind = "insert" /\ UndoFirst(m).key = InodeKey(m)
          /\ UndoFirst(m).val = m.target
        BY <1>2 DEF UndoFirst, InsertInode, InodeKey
    <2>2. r \in kv_insert_sync(InodeKey(m), m.target)
        BY <2>1, Zenon DEF Apply
    <2>3. kv[InodeKey(m)] = <<>>
        BY <1>2, Zenon DEF LeftInode
    <2> QED BY <1>2, <2>2, <2>3, InsertEmpty, Zenon
<1> QED BY <1>1, <1>2, Zenon

LEMMA UndoSecondOutcome ==
    ASSUME NEW m, NEW r \in Apply(UndoSecond(m)), kv[EntryKey(m)] = LeftEntry(m)
    PROVE  Outcome(r, EntryKey(m), IF Making(m.op) THEN <<>> ELSE <<m.id>>)
<1>1. CASE Making(m.op)
    <2>1. UndoSecond(m).kind = "delete" /\ UndoSecond(m).key = EntryKey(m)
        BY <1>1 DEF UndoSecond, DeleteDentry, EntryKey
    <2>2. r \in kv_delete_sync(EntryKey(m))
        BY <2>1 DEF Apply
    <2>3. kv[EntryKey(m)] = <<m.id>>
        BY <1>1, Zenon DEF LeftEntry
    <2> QED BY <1>1, <2>2, <2>3, DeleteOne, Zenon
<1>2. CASE ~Making(m.op)
    <2>1. /\ UndoSecond(m).kind = "insert" /\ UndoSecond(m).key = EntryKey(m)
          /\ UndoSecond(m).val = m.id
        BY <1>2 DEF UndoSecond, InsertDentry, EntryKey
    <2>2. r \in kv_insert_sync(EntryKey(m), m.id)
        BY <2>1, Zenon DEF Apply
    <2>3. kv[EntryKey(m)] = <<>>
        BY <1>2, Zenon DEF LeftEntry
    <2> QED BY <1>2, <2>2, <2>3, InsertEmpty, Zenon
<1> QED BY <1>1, <1>2, Zenon

-----------------------------------------------------------------------------
(* Finished calls *)

Finished(m, s) == With(Both(m, s), <<m.cur>>, <<Counted(m)>>)

LEMMA TreeStore ==
    ASSUME NEW s, Tree(s)
    PROVE  IsStore(s)
BY Zenon DEF Tree, IsStore

(* What a finished call has changed. *)
Changed(m, s, r) ==
    /\ IsStore(r) /\ r[<<m.id>>] = LeftInode(m) /\ r[<<m.cur>>] = <<Counted(m)>>
    /\ \A i \in Ids : i # m.id /\ i # m.cur => r[<<i>>] = s[<<i>>]
    /\ r[<<m.cur, LastComponent(m.path)>>] = LeftEntry(m)
    /\ \A p \in Ids, n \in Names :
          ~(p = m.cur /\ n = LastComponent(m.path)) => r[<<p, n>>] = s[<<p, n>>]

LEMMA FinishedPairs ==
    ASSUME NEW m, NEW s, IsStore(s), m.cur \in Ids, m.id \in Ids, m.cur < m.id, m.path \in Paths
    PROVE  Changed(m, s, Finished(m, s))
<1> DEFINE a == Half(m, s)
           b == Both(m, s)
           r == Finished(m, s)
<1>1. InodeKey(m) \in Keys /\ EntryKey(m) \in Keys /\ <<m.cur>> \in Keys
    BY KeyTypes, LastName, Zenon DEF InodeKey, EntryKey
<1>2. InodeKey(m) # EntryKey(m) /\ InodeKey(m) # <<m.cur>> /\ EntryKey(m) # <<m.cur>>
    <2>1. m.cur # m.id
        BY DEF Ids
    <2> QED BY <2>1, KeysDiffer, Zenon DEF InodeKey, EntryKey
<1>3. IsStore(a) /\ a[InodeKey(m)] = LeftInode(m) /\ \A k \in Keys : k # InodeKey(m) => a[k] = s[k]
    BY <1>1, Put DEF Half
<1> HIDE DEF a
<1>4. IsStore(b) /\ b[EntryKey(m)] = LeftEntry(m) /\ \A k \in Keys : k # EntryKey(m) => b[k] = a[k]
    BY <1>1, <1>3, Put DEF Both, a
<1> HIDE DEF b
<1>5. IsStore(r) /\ r[<<m.cur>>] = <<Counted(m)>> /\ \A k \in Keys : k # <<m.cur>> => r[k] = b[k]
    BY <1>1, <1>4, Put DEF Finished, b
<1> HIDE DEF r
<1>6. /\ r[InodeKey(m)] = LeftInode(m) /\ r[EntryKey(m)] = LeftEntry(m)
      /\ \A k \in Keys \ {InodeKey(m), EntryKey(m), <<m.cur>>} : r[k] = s[k]
    BY <1>1, <1>2, <1>3, <1>4, <1>5, Zenon
<1>7. ASSUME NEW i \in Ids, i # m.id, i # m.cur PROVE r[<<i>>] = s[<<i>>]
    <2>1. <<i>> \in Keys
        BY KeyTypes, Zenon
    <2>2. <<i>> # InodeKey(m) /\ <<i>> # EntryKey(m) /\ <<i>> # <<m.cur>>
        BY <1>7, KeysDiffer, Zenon DEF InodeKey, EntryKey
    <2> QED BY <1>6, <2>1, <2>2, Zenon
<1>8. ASSUME NEW p \in Ids, NEW n \in Names, ~(p = m.cur /\ n = LastComponent(m.path))
      PROVE  r[<<p, n>>] = s[<<p, n>>]
    <2>1. <<p, n>> \in Keys
        BY KeyTypes, Zenon
    <2>2. <<p, n>> # InodeKey(m) /\ <<p, n>> # EntryKey(m) /\ <<p, n>> # <<m.cur>>
        BY <1>8, KeysDiffer, Zenon DEF InodeKey, EntryKey
    <2> QED BY <1>6, <2>1, <2>2, Zenon
<1> QED BY <1>5, <1>6, <1>7, <1>8, Zenon DEF Changed, r, InodeKey, EntryKey

(* The children of a directory with a new or without an old entry. *)
LEMMA CountIn ==
    ASSUME IsFiniteSet(Names), NEW S, S \subseteq Names, NEW n \in Names
    PROVE  /\ IsFiniteSet(S) /\ Cardinality(S) \in Nat /\ Cardinality(S) =< Cardinality(Names)
           /\ n \notin S => Cardinality(S \cup {n}) = Cardinality(S) + 1
           /\ n \in S => Cardinality(S) > 0 /\ Cardinality(S \ {n}) = Cardinality(S) - 1
<1>1. IsFiniteSet(S) /\ Cardinality(S) =< Cardinality(Names)
    BY FS_Subset
<1>2. Cardinality(S) \in Nat
    BY <1>1, FS_CardinalityType
<1>3. n \notin S => Cardinality(S \cup {n}) = Cardinality(S) + 1
    BY <1>1, FS_AddElement
<1>4. n \in S => Cardinality(S \ {n}) = Cardinality(S) - 1
    BY <1>1, FS_RemoveElement
<1>5. n \in S => Cardinality(S) # 0
    BY <1>1, FS_EmptySet
<1> QED BY <1>1, <1>2, <1>3, <1>4, <1>5

LEMMA CountedInode ==
    ASSUME NEW m, m.parent \in Inodes
    PROVE  /\ Counted(m) \in Inodes /\ Counted(m).dir = m.parent.dir
           /\ Making(m.op) => Counted(m).children = (m.parent.children + 1) % Wrap
           /\ ~Making(m.op) => Counted(m).children = (m.parent.children - 1) % Wrap
<1>1. m.parent.children \in 0 .. Wrap - 1
    BY DEF Inodes
<1>2. CASE Making(m.op)
    <2>1. Counted(m) = [m.parent EXCEPT !.children = (@ + 1) % Wrap]
        BY <1>2 DEF Counted
    <2> QED BY <1>1, <1>2, <2>1, Counting DEF Inodes
<1>3. CASE ~Making(m.op)
    <2>1. Counted(m) = [m.parent EXCEPT !.children = (@ - 1) % Wrap]
        BY <1>3 DEF Counted
    <2> QED BY <1>1, <1>3, <2>1, Counting DEF Inodes
<1> QED BY <1>2, <1>3, Zenon

(* An entry and its inode, spelled out. *)
LEMMA TreeFacts ==
    ASSUME NEW s, Tree(s), NEW p \in Ids, NEW n \in Names, NEW i, s[<<p, n>>] = <<i>>
    PROVE  /\ i \in Ids /\ p < i /\ s[<<i>>] # <<>> /\ s[<<p>>] # <<>> /\ s[<<p>>][1].dir
           /\ n \in EntriesOf(s, p)
<1>1. s[<<p, n>>] # <<>>
    BY Rows
<1>2. PICK j \in Ids : s[<<p, n>>] = <<j>> /\ p < j /\ s[<<j>>] # <<>>
    BY <1>1, Zenon DEF Tree, EntriesLead
<1>3. i = j
    BY <1>2, KeysDiffer, Zenon
<1> QED BY <1>1, <1>2, <1>3, Zenon DEF Tree, EntriesLead, EntriesOf

(* Where an inode is missing no entry stands, and none names it. *)
LEMMA NoEntry ==
    ASSUME NEW s, Tree(s), NEW i \in Ids, s[<<i>>] = <<>>
    PROVE  /\ EntriesOf(s, i) = {}
           /\ \A p \in Ids, n \in Names : s[<<p, n>>] # <<i>>
<1>1. \A n \in Names : s[<<i, n>>] = <<>>
    BY Zenon DEF Tree, EntriesLead
<1>2. \A p \in Ids, n \in Names : s[<<p, n>>] # <<i>>
    BY TreeFacts, Zenon
<1> QED BY <1>1, <1>2, Zenon DEF EntriesOf

(* The names of a directory fit its counter. *)
NamesFit == IsFiniteSet(Names) /\ Cardinality(Names) < Wrap

(* Mkdir and Creat, finished: still a tree. *)
LEMMA MakeTree ==
    ASSUME NamesFit, NEW m, NEW s, NEW k \in Nat, Tree(s), Ready(m, s, k), Making(m.op)
    PROVE  Tree(Finished(m, s))
<1> DEFINE d == m.cur
           i == m.id
           e == LastComponent(m.path)
           r == Finished(m, s)
<1>1. /\ d \in Ids /\ i \in Ids /\ d < i /\ e \in Names /\ m.path \in Paths /\ IsStore(s)
      /\ s[<<d>>] = <<m.parent>> /\ m.parent.dir /\ s[<<i>>] = <<>> /\ s[<<d, e>>] = <<>>
    BY LastName, TreeStore, Zenon DEF Ready, Found, InodeKey, EntryKey
<1>2. /\ d # i /\ i # 0
    BY <1>1 DEF Ids
<1>3. /\ IsStore(r) /\ r[<<i>>] = <<NewInode(m)>> /\ r[<<d>>] = <<Counted(m)>>
      /\ \A j \in Ids : j # i /\ j # d => r[<<j>>] = s[<<j>>]
      /\ r[<<d, e>>] = <<i>>
      /\ \A p \in Ids, n \in Names : ~(p = d /\ n = e) => r[<<p, n>>] = s[<<p, n>>]
    <2>1. LeftInode(m) = <<NewInode(m)>> /\ LeftEntry(m) = <<i>>
        BY Zenon DEF LeftInode, LeftEntry
    <2>2. Changed(m, s, r)
        BY <1>1, FinishedPairs, Zenon
    <2> QED BY <2>1, <2>2, Zenon DEF Changed
<1>4. /\ m.parent \in Inodes /\ Counted(m) \in Inodes /\ Counted(m).dir
      /\ Counted(m).children = (m.parent.children + 1) % Wrap
    <2>1. PICK x \in Inodes : s[<<d>>] = <<x>>
        BY <1>1, Rows, Zenon DEF Tree, InodesOnce
    <2>2. m.parent \in Inodes
        BY <1>1, <2>1, KeysDiffer, Zenon
    <2> QED BY <1>1, <2>2, CountedInode, Zenon
<1>5. NewInode(m) \in Inodes /\ NewInode(m).children = 0
    BY EngineConstants DEF NewInode, Inodes
<1> HIDE DEF d, i, e, r
<1>6. \A j \in Ids : r[<<j>>] # <<>> => \E x \in Inodes : r[<<j>>] = <<x>>
    <2> SUFFICES ASSUME NEW j \in Ids, r[<<j>>] # <<>>
                 PROVE  \E x \in Inodes : r[<<j>>] = <<x>>
        BY Zenon
    <2>1. CASE j = i
        BY <1>3, <1>5, <2>1, Zenon
    <2>2. CASE j = d
        BY <1>3, <1>4, <2>2, Zenon
    <2>3. CASE j # i /\ j # d
        BY <1>3, <2>3, Zenon DEF Tree, InodesOnce
    <2> QED BY <2>1, <2>2, <2>3, Zenon
<1>7. \A j \in Ids : s[<<j>>] # <<>> => r[<<j>>] # <<>>
    BY <1>1, <1>3, Rows, Zenon
<1>8. \A j \in Ids : s[<<j>>] # <<>> /\ s[<<j>>][1].dir => r[<<j>>][1].dir
    <2>1. r[<<d>>][1] = Counted(m)
        BY <1>3
    <2> QED BY <1>1, <1>3, <1>4, <2>1, Zenon
<1>9. EntriesOf(s, i) = {} /\ \A p \in Ids, n \in Names : s[<<p, n>>] # <<i>>
    BY <1>1, NoEntry, Zenon
<1>10. ASSUME NEW p \in Ids, NEW n \in Names, r[<<p, n>>] # <<>>
       PROVE  /\ r[<<p>>] # <<>> /\ r[<<p>>][1].dir
              /\ \E j \in Ids : r[<<p, n>>] = <<j>> /\ p < j /\ r[<<j>>] # <<>>
    <2>1. CASE p = d /\ n = e
        <3>1. r[<<d>>][1] = Counted(m)
            BY <1>3
        <3> QED BY <1>1, <1>3, <1>4, <2>1, <3>1, Rows, Zenon
    <2>2. CASE ~(p = d /\ n = e)
        <3>1. r[<<p, n>>] = s[<<p, n>>] /\ s[<<p, n>>] # <<>>
            BY <1>3, <1>10, <2>2, Zenon
        <3>2. PICK j \in Ids : s[<<p, n>>] = <<j>> /\ p < j /\ s[<<j>>] # <<>>
            BY <3>1, Zenon DEF Tree, EntriesLead
        <3>3. s[<<p>>] # <<>> /\ s[<<p>>][1].dir
            BY <3>1, Zenon DEF Tree, EntriesLead
        <3> QED BY <1>7, <1>8, <3>1, <3>2, <3>3, Zenon
    <2> QED BY <2>1, <2>2, Zenon
<1>11. ASSUME NEW p \in Ids, NEW q \in Ids, NEW n \in Names, NEW l \in Names,
              r[<<p, n>>] # <<>>, r[<<q, l>>] = r[<<p, n>>]
       PROVE  p = q /\ n = l
    <2>1. CASE p = d /\ n = e
        BY <1>3, <1>9, <1>11, <2>1, Zenon
    <2>2. CASE q = d /\ l = e
        BY <1>3, <1>9, <1>11, <2>2, Zenon
    <2>3. CASE ~(p = d /\ n = e) /\ ~(q = d /\ l = e)
        <3>1. s[<<p, n>>] # <<>> /\ s[<<q, l>>] = s[<<p, n>>]
            BY <1>3, <1>11, <2>3, Zenon
        <3> QED BY <3>1 DEF Tree, NamedOnce
    <2> QED BY <2>1, <2>2, <2>3, Zenon
<1>12. ASSUME NEW j \in Ids \ {kRootInodeId}, r[<<j>>] # <<>>
       PROVE  \E p \in Ids, n \in Names : r[<<p, n>>] = <<j>>
    <2>1. CASE j = i
        BY <1>1, <1>3, <2>1, Zenon
    <2>2. CASE j # i
        <3>1. s[<<j>>] # <<>>
            BY <1>1, <1>3, <1>12, <2>2, Rows, Zenon
        <3>2. PICK p \in Ids, n \in Names : s[<<p, n>>] = <<j>>
            BY <3>1, Zenon DEF Tree, AllNamed
        <3>3. ~(p = d /\ n = e)
            BY <1>1, <3>2, Rows, Zenon
        <3> QED BY <1>3, <3>2, <3>3, Zenon
    <2> QED BY <2>1, <2>2, Zenon
<1>13. ASSUME NEW j \in Ids \ {kRootInodeId}, r[<<j>>] # <<>>, r[<<j>>][1].dir
       PROVE  r[<<j>>][1].children = Cardinality(EntriesOf(r, j))
    <2>1. CASE j = i
        <3>1. EntriesOf(r, i) = {}
            <4>1. ASSUME NEW n \in Names PROVE r[<<i, n>>] = <<>>
                BY <1>1, <1>2, <1>3, <1>9, Zenon DEF EntriesOf
            <4> QED BY <4>1, Zenon DEF EntriesOf
        <3>2. r[<<i>>][1] = NewInode(m)
            BY <1>3
        <3> QED BY <1>5, <2>1, <3>1, <3>2, FS_EmptySet, Zenon
    <2>2. CASE j = d
        <3>1. EntriesOf(r, d) = EntriesOf(s, d) \cup {e}
            <4>1. \A n \in Names : r[<<d, n>>] # <<>> <=> n = e \/ s[<<d, n>>] # <<>>
                BY <1>1, <1>3, Rows, Zenon
            <4> QED BY <1>1, <4>1 DEF EntriesOf
        <3>2. e \notin EntriesOf(s, d)
            BY <1>1, Zenon DEF EntriesOf
        <3>3. m.parent.children = Cardinality(EntriesOf(s, d))
            <4>1. s[<<d>>][1] = m.parent /\ s[<<d>>] # <<>>
                BY <1>1, Rows
            <4> QED BY <1>1, <1>13, <2>2, <4>1, Zenon DEF Tree, ChildrenOK
        <3>4. /\ Cardinality(EntriesOf(r, d)) = Cardinality(EntriesOf(s, d)) + 1
              /\ Cardinality(EntriesOf(r, d)) =< Cardinality(Names)
            <4>1. EntriesOf(r, d) \subseteq Names /\ EntriesOf(s, d) \subseteq Names
                BY Zenon DEF EntriesOf
            <4> QED BY <1>1, <3>1, <3>2, <4>1, CountIn, Zenon DEF NamesFit
        <3>5. m.parent.children \in 0 .. Wrap - 1
            BY <1>4 DEF Inodes
        <3>6. Cardinality(Names) \in Nat
            BY FS_CardinalityType, Zenon DEF NamesFit
        <3>7. m.parent.children + 1 < Wrap
            BY <3>3, <3>4, <3>5, <3>6, EngineConstants DEF NamesFit
        <3>8. Counted(m).children = m.parent.children + 1
            BY <1>4, <3>5, <3>7, Counting, Zenon
        <3>9. r[<<d>>][1] = Counted(m)
            BY <1>3
        <3> QED BY <2>2, <3>3, <3>4, <3>8, <3>9, Zenon
    <2>3. CASE j # i /\ j # d
        <3>1. r[<<j>>] = s[<<j>>] /\ \A n \in Names : r[<<j, n>>] = s[<<j, n>>]
            BY <1>3, <2>3, Zenon
        <3>2. EntriesOf(r, j) = EntriesOf(s, j)
            BY <3>1, Zenon DEF EntriesOf
        <3> QED BY <1>13, <3>1, <3>2, Zenon DEF Tree, ChildrenOK
    <2> QED BY <2>1, <2>2, <2>3, Zenon
<1>14. Tree(r)
    <2>1. InodesOnce(r)
        BY <1>6, Zenon DEF InodesOnce
    <2>2. EntriesLead(r)
        BY <1>10, Zenon DEF EntriesLead
    <2>3. NamedOnce(r)
        BY <1>11 DEF NamedOnce
    <2>4. AllNamed(r)
        BY <1>12, Zenon DEF AllNamed
    <2>5. ChildrenOK(r)
        BY <1>13, Zenon DEF ChildrenOK
    <2> QED BY <1>3, <2>1, <2>2, <2>3, <2>4, <2>5, Zenon DEF Tree, IsStore
<1> QED BY <1>14, Zenon DEF r

(* Rmdir and Unlink, finished: still a tree. *)
LEMMA RemoveTree ==
    ASSUME NamesFit, NEW m, NEW s, NEW k \in Nat, Tree(s), Ready(m, s, k), ~Making(m.op)
    PROVE  Tree(Finished(m, s))
<1> DEFINE d == m.cur
           i == m.id
           e == LastComponent(m.path)
           r == Finished(m, s)
<1>1. /\ d \in Ids /\ i \in Ids /\ d < i /\ e \in Names /\ m.path \in Paths /\ IsStore(s)
      /\ s[<<d>>] = <<m.parent>> /\ m.parent.dir /\ s[<<i>>] = <<m.target>> /\ s[<<d, e>>] = <<i>>
      /\ m.target.dir => m.target.children = 0
    BY LastName, TreeStore, Zenon DEF Ready, Found, InodeKey, EntryKey
<1>2. /\ d # i /\ i # 0
    BY <1>1 DEF Ids
<1>3. /\ IsStore(r) /\ r[<<i>>] = <<>> /\ r[<<d>>] = <<Counted(m)>>
      /\ \A j \in Ids : j # i /\ j # d => r[<<j>>] = s[<<j>>]
      /\ r[<<d, e>>] = <<>>
      /\ \A p \in Ids, n \in Names : ~(p = d /\ n = e) => r[<<p, n>>] = s[<<p, n>>]
    <2>1. LeftInode(m) = <<>> /\ LeftEntry(m) = <<>>
        BY Zenon DEF LeftInode, LeftEntry
    <2>2. Changed(m, s, r)
        BY <1>1, FinishedPairs, Zenon
    <2> QED BY <2>1, <2>2, Zenon DEF Changed
<1>4. /\ m.parent \in Inodes /\ Counted(m) \in Inodes /\ Counted(m).dir
      /\ Counted(m).children = (m.parent.children - 1) % Wrap
    <2>1. PICK x \in Inodes : s[<<d>>] = <<x>>
        BY <1>1, Rows, Zenon DEF Tree, InodesOnce
    <2>2. m.parent \in Inodes
        BY <1>1, <2>1, KeysDiffer, Zenon
    <2> QED BY <1>1, <2>2, CountedInode, Zenon
<1> HIDE DEF d, i, e, r
<1>5. \A j \in Ids : r[<<j>>] # <<>> => \E x \in Inodes : r[<<j>>] = <<x>>
    <2> SUFFICES ASSUME NEW j \in Ids, r[<<j>>] # <<>>
                 PROVE  \E x \in Inodes : r[<<j>>] = <<x>>
        BY Zenon
    <2>1. CASE j = d
        BY <1>3, <1>4, <2>1, Zenon
    <2>2. CASE j # i /\ j # d
        BY <1>3, <2>2, Zenon DEF Tree, InodesOnce
    <2> QED BY <1>3, <2>1, <2>2, Zenon
<1>6. \A j \in Ids : j # i /\ s[<<j>>] # <<>> => r[<<j>>] # <<>>
    BY <1>1, <1>3, Rows, Zenon
<1>7. \A j \in Ids : j # i /\ s[<<j>>] # <<>> /\ s[<<j>>][1].dir => r[<<j>>][1].dir
    <2>1. r[<<d>>][1] = Counted(m)
        BY <1>3
    <2> QED BY <1>1, <1>3, <1>4, <2>1, Zenon
<1>8. \A n \in Names : s[<<i, n>>] = <<>>
    <2>1. s[<<i>>] # <<>> /\ s[<<i>>][1] = m.target
        BY <1>1, Rows
    <2>2. CASE m.target.dir
        <3>1. Cardinality(EntriesOf(s, i)) = 0
            BY <1>1, <1>2, <2>1, <2>2, Zenon DEF Tree, ChildrenOK, kRootInodeId
        <3>2. IsFiniteSet(EntriesOf(s, i))
            <4>1. EntriesOf(s, i) \subseteq Names
                BY Zenon DEF EntriesOf
            <4> QED BY <4>1, FS_Subset, Zenon DEF NamesFit
        <3>3. EntriesOf(s, i) = {}
            BY <3>1, <3>2, FS_EmptySet, Zenon
        <3> QED BY <3>3, Zenon DEF EntriesOf
    <2>3. CASE ~m.target.dir
        BY <1>1, <2>1, <2>3, Zenon DEF Tree, EntriesLead
    <2> QED BY <2>2, <2>3, Zenon
<1>9. ASSUME NEW p \in Ids, NEW n \in Names, s[<<p, n>>] = <<i>>
      PROVE  p = d /\ n = e
    <2>1. s[<<p, n>>] # <<>> /\ s[<<d, e>>] = s[<<p, n>>]
        BY <1>1, <1>9, Rows, Zenon
    <2>2. NamedOnce(s)
        BY Zenon DEF Tree
    <2> QED BY <1>1, <2>1, <2>2 DEF NamedOnce
<1>10. ASSUME NEW p \in Ids, NEW n \in Names, r[<<p, n>>] # <<>>
       PROVE  /\ r[<<p>>] # <<>> /\ r[<<p>>][1].dir
              /\ \E j \in Ids : r[<<p, n>>] = <<j>> /\ p < j /\ r[<<j>>] # <<>>
    <2>1. ~(p = d /\ n = e)
        BY <1>3, <1>10, Zenon
    <2>2. r[<<p, n>>] = s[<<p, n>>] /\ s[<<p, n>>] # <<>>
        BY <1>3, <1>10, <2>1, Zenon
    <2>3. PICK j \in Ids : s[<<p, n>>] = <<j>> /\ p < j /\ s[<<j>>] # <<>>
        BY <2>2, Zenon DEF Tree, EntriesLead
    <2>4. s[<<p>>] # <<>> /\ s[<<p>>][1].dir
        BY <2>2, Zenon DEF Tree, EntriesLead
    <2>5. p # i /\ j # i
        BY <1>8, <1>9, <2>1, <2>2, <2>3, Zenon
    <2> QED BY <1>6, <1>7, <2>2, <2>3, <2>4, <2>5, Zenon
<1>11. ASSUME NEW p \in Ids, NEW q \in Ids, NEW n \in Names, NEW l \in Names,
              r[<<p, n>>] # <<>>, r[<<q, l>>] = r[<<p, n>>]
       PROVE  p = q /\ n = l
    <2>1. ~(p = d /\ n = e) /\ ~(q = d /\ l = e)
        BY <1>3, <1>11, Zenon
    <2>2. s[<<p, n>>] # <<>> /\ s[<<q, l>>] = s[<<p, n>>]
        BY <1>3, <1>11, <2>1, Zenon
    <2> QED BY <2>2 DEF Tree, NamedOnce
<1>12. ASSUME NEW j \in Ids \ {kRootInodeId}, r[<<j>>] # <<>>
       PROVE  \E p \in Ids, n \in Names : r[<<p, n>>] = <<j>>
    <2>1. j # i
        BY <1>3, <1>12, Zenon
    <2>2. s[<<j>>] # <<>>
        BY <1>1, <1>3, <1>12, <2>1, Rows, Zenon
    <2>3. PICK p \in Ids, n \in Names : s[<<p, n>>] = <<j>>
        BY <2>2, Zenon DEF Tree, AllNamed
    <2>4. ~(p = d /\ n = e)
        BY <1>1, <2>1, <2>3, KeysDiffer, Zenon
    <2> QED BY <1>3, <2>3, <2>4, Zenon
<1>13. ASSUME NEW j \in Ids \ {kRootInodeId}, r[<<j>>] # <<>>, r[<<j>>][1].dir
       PROVE  r[<<j>>][1].children = Cardinality(EntriesOf(r, j))
    <2>1. j # i
        BY <1>3, <1>13, Zenon
    <2>2. CASE j = d
        <3>1. EntriesOf(r, d) = EntriesOf(s, d) \ {e}
            <4>1. \A n \in Names : r[<<d, n>>] # <<>> <=> n # e /\ s[<<d, n>>] # <<>>
                BY <1>1, <1>3, Zenon
            <4> QED BY <1>1, <4>1 DEF EntriesOf
        <3>2. e \in EntriesOf(s, d)
            BY <1>1, Rows, Zenon DEF EntriesOf
        <3>3. m.parent.children = Cardinality(EntriesOf(s, d))
            <4>1. s[<<d>>][1] = m.parent /\ s[<<d>>] # <<>>
                BY <1>1, Rows
            <4> QED BY <1>1, <1>13, <2>2, <4>1, Zenon DEF Tree, ChildrenOK
        <3>4. /\ Cardinality(EntriesOf(r, d)) = Cardinality(EntriesOf(s, d)) - 1
              /\ Cardinality(EntriesOf(s, d)) > 0
            <4>1. EntriesOf(s, d) \subseteq Names
                BY Zenon DEF EntriesOf
            <4> QED BY <1>1, <3>1, <3>2, <4>1, CountIn, Zenon DEF NamesFit
        <3>5. m.parent.children \in 0 .. Wrap - 1
            BY <1>4 DEF Inodes
        <3>6. Counted(m).children = m.parent.children - 1
            BY <1>4, <3>3, <3>4, <3>5, Counting, Zenon
        <3>7. r[<<d>>][1] = Counted(m)
            BY <1>3
        <3> QED BY <2>2, <3>3, <3>4, <3>6, <3>7, Zenon
    <2>3. CASE j # d
        <3>1. r[<<j>>] = s[<<j>>] /\ \A n \in Names : r[<<j, n>>] = s[<<j, n>>]
            BY <1>3, <2>1, <2>3, Zenon
        <3>2. EntriesOf(r, j) = EntriesOf(s, j)
            BY <3>1, Zenon DEF EntriesOf
        <3> QED BY <1>13, <3>1, <3>2, Zenon DEF Tree, ChildrenOK
    <2> QED BY <2>2, <2>3, Zenon
<1>14. Tree(r)
    <2>1. InodesOnce(r)
        BY <1>5, Zenon DEF InodesOnce
    <2>2. EntriesLead(r)
        BY <1>10, Zenon DEF EntriesLead
    <2>3. NamedOnce(r)
        BY <1>11 DEF NamedOnce
    <2>4. AllNamed(r)
        BY <1>12, Zenon DEF AllNamed
    <2>5. ChildrenOK(r)
        BY <1>13, Zenon DEF ChildrenOK
    <2> QED BY <1>3, <2>1, <2>2, <2>3, <2>4, <2>5, Zenon DEF Tree, IsStore
<1> QED BY <1>14, Zenon DEF r

(* A finished call uses no number but its own. *)
LEMMA FinishedUnused ==
    ASSUME NEW m, NEW s, NEW n \in Nat, Tree(s), Unused(s, n), Ready(m, s, n)
    PROVE  Unused(Finished(m, s), n)
<1>1. /\ m.cur \in Ids /\ m.id \in Ids /\ m.cur < m.id /\ m.id < n /\ m.path \in Paths /\ IsStore(s)
    BY TreeStore, Zenon DEF Ready, Found
<1>2. Changed(m, s, Finished(m, s))
    BY <1>1, FinishedPairs, Zenon
<1>3. \A i \in Ids : i >= n => i # m.id /\ i # m.cur
    BY <1>1 DEF Ids
<1> QED BY <1>2, <1>3, Zenon DEF Unused, Changed

LEMMA FinishedSound ==
    ASSUME NamesFit, NEW m, NEW s, NEW n \in Nat, Sound(s, n), Ready(m, s, n)
    PROVE  Sound(Finished(m, s), n)
BY MakeTree, RemoveTree, FinishedUnused, Zenon DEF Sound

-----------------------------------------------------------------------------
(* The record of a thread *)

(* Two records of one call. *)
SameCall(m, r) ==
    r.op = m.op /\ r.path = m.path /\ r.cur = m.cur /\ r.parent = m.parent /\ r.id = m.id
    /\ r.target = m.target

LEMMA SameCallSame ==
    ASSUME NEW m, NEW r, SameCall(m, r)
    PROVE  /\ First(r) = First(m) /\ Second(r) = Second(m) /\ Third(r) = Third(m)
           /\ UndoFirst(r) = UndoFirst(m) /\ UndoSecond(r) = UndoSecond(m)
           /\ \A s : Half(r, s) = Half(m, s) /\ Both(r, s) = Both(m, s)
           /\ EntryKey(r) = EntryKey(m) /\ LeftEntry(r) = LeftEntry(m)
           /\ \A s, n : Ready(m, s, n) => Ready(r, s, n)
<1>1. /\ EntryKey(r) = EntryKey(m) /\ InodeKey(r) = InodeKey(m) /\ NewInode(r) = NewInode(m)
      /\ LeftEntry(r) = LeftEntry(m) /\ Counted(r) = Counted(m)
    BY Zenon DEF SameCall, EntryKey, InodeKey, NewInode, LeftEntry, Counted
<1>2. LeftInode(r) = LeftInode(m)
    BY <1>1, Zenon DEF SameCall, LeftInode
<1>3. First(r) = First(m) /\ Second(r) = Second(m) /\ Third(r) = Third(m)
    BY <1>1, Zenon DEF SameCall, First, Second, Third
<1>4. UndoFirst(r) = UndoFirst(m) /\ UndoSecond(r) = UndoSecond(m)
    BY <1>1, Zenon DEF SameCall, UndoFirst, UndoSecond
<1>5. \A s : Half(r, s) = Half(m, s)
    BY <1>1, <1>2, Zenon DEF Half
<1>6. \A s : Both(r, s) = Both(m, s)
    BY <1>1, <1>5, Zenon DEF Both
<1>7. ASSUME NEW s, NEW n, Ready(m, s, n) PROVE Ready(r, s, n)
    BY <1>1, <1>7, Zenon DEF SameCall, Ready, Found
<1> QED BY <1>1, <1>3, <1>4, <1>5, <1>6, <1>7, Zenon

(* The record of the thread after a step. *)
AtPc(m, l) == [m EXCEPT !.pc = l]
AtDentry(m, c, a, l) == [m EXCEPT !.cur = c, !.at = a, !.pc = l]
AtParent(m, x) == [m EXCEPT !.parent = x, !.pc = "exists"]
AtTarget(m, i) == [m EXCEPT !.id = i, !.pc = "target"]
Makes(m, i, a, b) == [m EXCEPT !.pc = "modify", !.id = i, !.todo = a, !.undo = b]
Removes(m, x, a, b) == [m EXCEPT !.pc = "modify", !.target = x, !.todo = a, !.undo = b]
GoesOn(m, a, b, l) == [m EXCEPT !.todo = a, !.undo = b, !.pc = l]
AtIdle(code) == [Idle EXCEPT !.ret = code]
Begins(op, path, l) == [Idle EXCEPT !.op = op, !.path = path, !.cur = kRootInodeId, !.pc = l]

LEMMA SetPc ==
    ASSUME NEW m, Shaped(m), NEW l, NEW r, r = AtPc(m, l)
    PROVE  Shaped(r) /\ r.pc = l /\ SameCall(m, r) /\ r.at = m.at /\ r.ret = m.ret
BY Zenon DEF Shaped, Fields, SameCall, AtPc

LEMMA SetDentry ==
    ASSUME NEW m, Shaped(m), NEW c, NEW a, NEW l, NEW r, r = AtDentry(m, c, a, l)
    PROVE  Shaped(r) /\ r.pc = l /\ r.cur = c /\ r.at = a /\ r.op = m.op /\ r.path = m.path
BY Zenon DEF Shaped, Fields, AtDentry

LEMMA SetParent ==
    ASSUME NEW m, Shaped(m), NEW x, NEW r, r = AtParent(m, x)
    PROVE  /\ Shaped(r) /\ r.pc = "exists" /\ r.parent = x
           /\ r.cur = m.cur /\ r.at = m.at /\ r.op = m.op /\ r.path = m.path
BY Zenon DEF Shaped, Fields, AtParent

LEMMA SetId ==
    ASSUME NEW m, Shaped(m), NEW i, NEW r, r = AtTarget(m, i)
    PROVE  /\ Shaped(r) /\ r.pc = "target" /\ r.id = i
           /\ r.cur = m.cur /\ r.at = m.at /\ r.op = m.op /\ r.path = m.path /\ r.parent = m.parent
BY Zenon DEF Shaped, Fields, AtTarget

LEMMA SetNew ==
    ASSUME NEW m, Shaped(m), NEW i, NEW a, NEW b, NEW r, r = Makes(m, i, a, b)
    PROVE  /\ Shaped(r) /\ r.pc = "modify" /\ r.id = i /\ r.todo = a /\ r.undo = b
           /\ r.cur = m.cur /\ r.op = m.op /\ r.path = m.path /\ r.parent = m.parent
BY Zenon DEF Shaped, Fields, Makes

LEMMA SetTarget ==
    ASSUME NEW m, Shaped(m), NEW x, NEW a, NEW b, NEW r, r = Removes(m, x, a, b)
    PROVE  /\ Shaped(r) /\ r.pc = "modify" /\ r.target = x /\ r.todo = a /\ r.undo = b
           /\ r.id = m.id /\ r.cur = m.cur /\ r.op = m.op /\ r.path = m.path /\ r.parent = m.parent
BY Zenon DEF Shaped, Fields, Removes

LEMMA SetTodo ==
    ASSUME NEW m, Shaped(m), NEW l, NEW a, NEW b, NEW r, r = GoesOn(m, a, b, l)
    PROVE  Shaped(r) /\ r.pc = l /\ SameCall(m, r) /\ r.todo = a /\ r.undo = b
BY Zenon DEF Shaped, Fields, SameCall, GoesOn

LEMMA SetIdle ==
    ASSUME NEW code, NEW r, r = AtIdle(code)
    PROVE  Shaped(r) /\ r.pc = "idle" /\ r.ret = code
BY Zenon DEF Shaped, Fields, Idle, AtIdle

LEMMA SetCall ==
    ASSUME NEW op, NEW path, NEW l, NEW r, r = Begins(op, path, l)
    PROVE  /\ Shaped(r) /\ r.pc = l /\ r.op = op /\ r.path = path
           /\ r.cur = kRootInodeId /\ r.at = 1
BY Zenon DEF Shaped, Fields, Idle, Begins

(* What the thread does after an operation: the rest a, or the end. *)
Continue(t, a, b, l, code) ==
    IF a = <<>> THEN Return(t, code)
    ELSE th' = [th EXCEPT ![t] = GoesOn(th[t], a, b, l)]

After(t, r) ==
    \/ th[t].pc = "modify" /\ r[2] = TRUE
       /\ Continue(t, Tail(th[t].todo), Tail(th[t].undo), "modify", "ok")
    \/ th[t].pc = "modify" /\ r[2] = FALSE
       /\ Continue(t, Head(th[t].undo), th[t].undo, "undo", "EIO")
    \/ th[t].pc = "undo" /\ Continue(t, Tail(th[t].todo), th[t].undo, "undo", "EIO")

Advance(t, a, b, l) == th' = [th EXCEPT ![t].todo = a, ![t].undo = b, ![t].pc = l]

LEMMA ModifyStep ==
    ASSUME NEW t \in Threads, th = [u \in Threads |-> th[u]], Modify(t)
    PROVE  \E r \in Apply(Head(th[t].todo)) :
              /\ kv' = r[1] /\ group' = group /\ seq' = seq
              /\ fails' = IF ~r[2] /\ fails < MaxFail THEN fails + 1 ELSE fails
              /\ (r[2] \in BOOLEAN => After(t, r))
<1> DEFINE me == th[t]
<1>1. me.pc \in {"modify", "undo"} /\ group' = group /\ seq' = seq
    BY Zenon DEF Modify
<1>2. PICK r \in Apply(Head(me.todo)) :
          /\ kv' = r[1]
          /\ fails' = IF ~r[2] /\ fails < MaxFail THEN fails + 1 ELSE fails
          /\ LET failed == me.pc = "modify" /\ ~r[2]
                 rest == IF failed THEN Head(me.undo) ELSE Tail(me.todo)
                 on == me.pc = "modify" /\ r[2]
             IN  IF rest = <<>> THEN Return(t, IF on THEN "ok" ELSE "EIO")
                 ELSE th' = [th EXCEPT ![t].todo = rest,
                                ![t].undo = IF on THEN Tail(@) ELSE @,
                                ![t].pc = IF on THEN "modify" ELSE "undo"]
    BY Zenon DEF Modify
<1>3. ASSUME NEW a, NEW b, NEW l, Advance(t, a, b, l)
      PROVE  th' = [th EXCEPT ![t] = GoesOn(me, a, b, l)]
    BY <1>3, Zenon DEF GoesOn, Advance
<1>4. ASSUME me.pc = "modify", r[2] = TRUE PROVE Continue(t, Tail(me.todo), Tail(me.undo), "modify", "ok")
    <2>1. IF Tail(me.todo) = <<>> THEN Return(t, "ok")
          ELSE Advance(t, Tail(me.todo), Tail(me.undo), "modify")
        BY <1>2, <1>4, Zenon DEF Advance
    <2>2. CASE Tail(me.todo) = <<>>
        BY <2>1, <2>2, Zenon DEF Continue
    <2>3. CASE Tail(me.todo) # <<>>
        BY <1>3, <2>1, <2>3, Zenon DEF Continue
    <2> QED BY <2>2, <2>3
<1>5. ASSUME me.pc = "modify", r[2] = FALSE PROVE Continue(t, Head(me.undo), me.undo, "undo", "EIO")
    <2>1. IF Head(me.undo) = <<>> THEN Return(t, "EIO")
          ELSE Advance(t, Head(me.undo), me.undo, "undo")
        BY <1>2, <1>5, Zenon DEF Advance
    <2>2. CASE Head(me.undo) = <<>>
        BY <2>1, <2>2, Zenon DEF Continue
    <2>3. CASE Head(me.undo) # <<>>
        BY <1>3, <2>1, <2>3, Zenon DEF Continue
    <2> QED BY <2>2, <2>3
<1>6. ASSUME me.pc = "undo" PROVE Continue(t, Tail(me.todo), me.undo, "undo", "EIO")
    <2>1. IF Tail(me.todo) = <<>> THEN Return(t, "EIO")
          ELSE Advance(t, Tail(me.todo), me.undo, "undo")
        BY <1>2, <1>6, Zenon DEF Advance
    <2>2. CASE Tail(me.todo) = <<>>
        BY <2>1, <2>2, Zenon DEF Continue
    <2>3. CASE Tail(me.todo) # <<>>
        BY <1>3, <2>1, <2>3, Zenon DEF Continue
    <2> QED BY <2>2, <2>3
<1>7. r[2] \in BOOLEAN => After(t, r)
    BY <1>1, <1>4, <1>5, <1>6, Zenon DEF After
<1> QED BY <1>1, <1>2, <1>7, Zenon

-----------------------------------------------------------------------------
(* What the operations do to the inode keys *)

(* An operation that inserts no inode. *)
Calm(o) == o.kind = "insert" => \E p, n : o.key = <<p, n>>

(* It leaves an inode key as it is, or one value where there was one. *)
KeepsOnce(s, r) ==
    \A i \in Ids : Once(s[<<i>>]) => r[<<i>>] = s[<<i>>] \/ (s[<<i>>] # <<>> /\ Once(r[<<i>>]))

LEMMA OnceFacts ==
    /\ Once(<<>>) /\ \A x : Once(<<x>>)
    /\ \A v : Once(v) /\ v # <<>> => \E x : v = <<x>>
BY Rows, Zenon DEF Once

(* Where an operation writes. *)
LEMMA Written ==
    ASSUME NEW s, IsStore(s), NEW k, NEW v
    PROVE  /\ IsStore(With(s, k, v))
           /\ \A x \in Keys : With(s, k, v)[x] = IF x = k THEN v ELSE s[x]
BY DEF IsStore, With

LEMMA Pairs == (\A a, b : <<a, b>>[1] = a) /\ (\A r \in NoSpace : r[1] = kv)
<1>1. \A a, b : <<a, b>>[1] = a
    OBVIOUS
<1> QED BY <1>1, Zenon DEF NoSpace

LEMMA InsertWrites ==
    ASSUME NEW k, NEW v, NEW r \in kv_insert_sync(k, v)
    PROVE  r[1] = kv \/ \E e : r[1] = With(kv, k, e)
<1>1. r \in NoSpace \/ \E e : r = <<With(kv, k, e), TRUE>>
    BY Zenon DEF kv_insert_sync, With
<1> QED BY <1>1, Pairs, Zenon

LEMMA UpdateWrites ==
    ASSUME NEW k, NEW v, NEW r \in kv_update_sync(k, v)
    PROVE  r[1] = kv \/ (kv[k] # <<>> /\ r[1] = With(kv, k, [kv[k] EXCEPT ![1] = v]))
<1>1. \/ r \in NoSpace \/ r = <<kv, FALSE>>
      \/ kv[k] # <<>> /\ r = <<With(kv, k, [kv[k] EXCEPT ![1] = v]), TRUE>>
    BY Zenon DEF kv_update_sync, With
<1>2. CASE r \in NoSpace \/ r = <<kv, FALSE>>
    BY <1>2, Pairs, Zenon
<1>3. CASE kv[k] # <<>> /\ r = <<With(kv, k, [kv[k] EXCEPT ![1] = v]), TRUE>>
    BY <1>3, Pairs
<1> QED BY <1>1, <1>2, <1>3, Zenon

LEMMA DeleteWrites ==
    ASSUME NEW k, NEW r \in kv_delete_sync(k)
    PROVE  r[1] = kv \/ (kv[k] # <<>> /\ r[1] = With(kv, k, Tail(kv[k])))
<1>1. \/ r \in NoSpace \/ r = <<kv, TRUE>>
      \/ kv[k] # <<>> /\ r = <<With(kv, k, Tail(kv[k])), TRUE>>
    BY Zenon DEF kv_delete_sync, With
<1>2. CASE r \in NoSpace \/ r = <<kv, TRUE>>
    BY <1>2, Pairs, Zenon
<1>3. CASE kv[k] # <<>> /\ r = <<With(kv, k, Tail(kv[k])), TRUE>>
    BY <1>3, Pairs
<1> QED BY <1>1, <1>2, <1>3, Zenon

LEMMA CalmApply ==
    ASSUME IsStore(kv), NEW o, Calm(o), NEW r \in Apply(o)
    PROVE  IsStore(r[1]) /\ KeepsOnce(kv, r[1])
<1>1. CASE r[1] = kv
    BY <1>1, Zenon DEF KeepsOnce
<1>2. ASSUME NEW e, r[1] = With(kv, o.key, e),
             \A i \in Ids : o.key = <<i>> /\ Once(kv[<<i>>]) => kv[<<i>>] # <<>> /\ Once(e)
      PROVE  IsStore(r[1]) /\ KeepsOnce(kv, r[1])
    <2>1. IsStore(r[1]) /\ \A x \in Keys : r[1][x] = IF x = o.key THEN e ELSE kv[x]
        BY <1>2, Written
    <2>2. \A i \in Ids : <<i>> \in Keys
        BY KeyTypes, Zenon
    <2>3. ASSUME NEW i \in Ids, Once(kv[<<i>>])
          PROVE  r[1][<<i>>] = kv[<<i>>] \/ (kv[<<i>>] # <<>> /\ Once(r[1][<<i>>]))
        <3>1. CASE o.key = <<i>>
            <4>1. r[1][<<i>>] = e
                BY <2>1, <2>2, <3>1, Zenon
            <4> QED BY <1>2, <2>3, <3>1, <4>1, Zenon
        <3>2. CASE o.key # <<i>>
            BY <2>1, <2>2, <3>2, Zenon
        <3> QED BY <3>1, <3>2, Zenon
    <2> QED BY <2>1, <2>3, Zenon DEF KeepsOnce
<1>3. CASE o.kind = "insert" /\ r[1] # kv
    <2>1. r \in kv_insert_sync(o.key, o.val)
        BY <1>3 DEF Apply
    <2>2. PICK e : r[1] = With(kv, o.key, e)
        BY <1>3, <2>1, InsertWrites, Zenon
    <2>3. \A i : o.key # <<i>>
        BY <1>3, KeysDiffer, Zenon DEF Calm
    <2> QED BY <1>2, <2>2, <2>3, Zenon
<1>4. CASE o.kind = "update" /\ r[1] # kv
    <2> DEFINE e == [kv[o.key] EXCEPT ![1] = o.val]
    <2>1. r \in kv_update_sync(o.key, o.val)
        BY <1>4 DEF Apply
    <2>2. kv[o.key] # <<>> /\ r[1] = With(kv, o.key, e)
        BY <1>4, <2>1, UpdateWrites, Zenon
    <2>3. \A x : [<<x>> EXCEPT ![1] = o.val] = <<o.val>>
        OBVIOUS
    <2>4. ASSUME NEW i \in Ids, o.key = <<i>>, Once(kv[<<i>>]) PROVE kv[<<i>>] # <<>> /\ Once(e)
        <3>1. PICK x : kv[o.key] = <<x>>
            BY <2>2, <2>4, OnceFacts, Zenon
        <3>2. e = <<o.val>>
            BY <2>3, <3>1
        <3> QED BY <2>2, <2>4, <3>2, OnceFacts, Zenon
    <2> HIDE DEF e
    <2> QED BY <1>2, <2>2, <2>4, Zenon
<1>5. CASE o.kind # "insert" /\ o.kind # "update" /\ r[1] # kv
    <2> DEFINE e == Tail(kv[o.key])
    <2>1. r \in kv_delete_sync(o.key)
        BY <1>5, Zenon DEF Apply
    <2>2. kv[o.key] # <<>> /\ r[1] = With(kv, o.key, e)
        BY <1>5, <2>1, DeleteWrites, Zenon
    <2>3. \A x : Tail(<<x>>) = <<>>
        BY Rows, Zenon
    <2>4. ASSUME NEW i \in Ids, o.key = <<i>>, Once(kv[<<i>>]) PROVE kv[<<i>>] # <<>> /\ Once(e)
        <3>1. PICK x : kv[o.key] = <<x>>
            BY <2>2, <2>4, OnceFacts, Zenon
        <3> QED BY <2>2, <2>3, <2>4, <3>1, OnceFacts, Zenon
    <2> HIDE DEF e
    <2> QED BY <1>2, <2>2, <2>4, Zenon
<1> QED BY <1>1, <1>3, <1>4, <1>5, Zenon

(* A step of t to m, once Main has initialised. *)
LEMMA IdArrive ==
    ASSUME IdInv, NEW t \in Threads, NEW m, Shaped(m), th' = [th EXCEPT ![t] = m],
           th[Main].pc \notin Starting, m.pc \notin Starting, OnWay(m),
           group' = group, seq' \in Nat, seq =< seq', IsStore(kv'), StoreOnce(kv', seq'),
           \A u \in Threads : u # t /\ Pending(th[u]) => Drawn(th[u], kv', seq'),
           Pending(m) => /\ Drawn(m, kv', seq')
                         /\ \A u \in Threads : u # t /\ Pending(th[u]) => th[u].id # m.id
    PROVE  IdInv'
<1>1. th'[t] = m /\ (\A u \in Threads : u # t => th'[u] = th[u]) /\ th' = [u \in Threads |-> th'[u]]
    BY Zenon DEF IdInv
<1>2. th'[Main].pc \notin Starting /\ th'[Main].pc # "down"
    BY <1>1, EngineConstants, Zenon DEF Starting
<1>3. group' = 0 /\ seq' > 0
    <2>1. seq \in Nat /\ seq > 0 /\ group = 0
        BY Zenon DEF IdInv
    <2> QED BY <2>1
<1>4. \A u \in Threads : /\ Shaped(th'[u]) /\ OnWay(th'[u]) /\ (th'[u].pc = "store" => u = Main)
                         /\ Pending(th'[u]) => Drawn(th'[u], kv', seq')
    <2>1. m.pc # "store"
        BY Zenon DEF Starting
    <2> QED BY <1>1, <2>1, Zenon DEF IdInv
<1>5. ASSUME NEW u \in Threads, NEW v \in Threads, u # v, Pending(th'[u]), Pending(th'[v])
      PROVE  th'[u].id # th'[v].id
    <2>1. CASE u = t
        BY <1>1, <1>5, <2>1, Zenon
    <2>2. CASE v = t
        BY <1>1, <1>5, <2>2, Zenon
    <2>3. CASE u # t /\ v # t
        BY <1>1, <1>5, <2>3, Zenon DEF IdInv
    <2> QED BY <2>1, <2>2, <2>3, Zenon
<1> QED BY <1>1, <1>2, <1>3, <1>4, <1>5, Zenon DEF IdInv, IsStore

(* The store with operations that insert no inode: what is empty stays so. *)
LEMMA CalmStore ==
    ASSUME NEW s, NEW r, KeepsOnce(s, r), NEW n, StoreOnce(s, n)
    PROVE  StoreOnce(r, n) /\ \A m, l : Drawn(m, s, l) => Drawn(m, r, l)
<1>1. \A i \in Ids : Once(r[<<i>>]) /\ (s[<<i>>] = <<>> => r[<<i>>] = <<>>)
    BY Zenon DEF KeepsOnce, StoreOnce
<1> QED BY <1>1, Zenon DEF StoreOnce, Drawn

(* With more numbers drawn. *)
LEMMA MoreDrawn ==
    ASSUME NEW s, NEW n \in Nat, NEW l \in Nat, n =< l
    PROVE  (StoreOnce(s, n) => StoreOnce(s, l)) /\ \A m : Drawn(m, s, n) => Drawn(m, s, l)
<1>1. \A i \in Ids : i >= l => i >= n
    BY DEF Ids
<1>2. \A m : m.id \in Nat \ {0} /\ m.id < n => m.id < l
    OBVIOUS
<1> QED BY <1>1, <1>2, Zenon DEF StoreOnce, Drawn

(* A step of t that leaves the store alone and begins no modification. *)
LEMMA IdMoves ==
    ASSUME IdInv, NEW t \in Threads, NEW m, Shaped(m), th' = [th EXCEPT ![t] = m],
           th[Main].pc \notin Starting, m.pc \notin Starting \cup {"modify", "undo"}, OnWay(m),
           group' = group, seq' \in {seq, seq + 1}, kv' = kv
    PROVE  IdInv'
<1>1. seq \in Nat /\ StoreOnce(kv, seq) /\ IsStore(kv)
    BY Zenon DEF IdInv, IsStore
<1>2. seq' \in Nat /\ seq =< seq'
    BY <1>1
<1>3. StoreOnce(kv', seq') /\ \A u \in Threads : Pending(th[u]) => Drawn(th[u], kv', seq')
    BY <1>1, <1>2, MoreDrawn, Zenon DEF IdInv
<1>4. ~Pending(m) /\ m.pc \notin Starting
    BY Zenon DEF Pending
<1> QED BY <1>1, <1>2, <1>3, <1>4, IdArrive, Zenon

(* A call under way, once Main has initialised. *)
LEMMA IdBusy ==
    ASSUME IdInv, NEW t \in Threads, th[t].pc \notin Starting \cup {"idle"}
    PROVE  /\ th[Main].pc \notin Starting /\ Shaped(th[t]) /\ OnWay(th[t])
           /\ th = [u \in Threads |-> th[u]]
BY Zenon DEF IdInv

LEMMA IdReturns ==
    ASSUME IdInv, NEW t \in Threads, th[Main].pc \notin Starting, NEW code, Return(t, code),
           group' = group, seq' = seq, kv' = kv
    PROVE  IdInv'
<1> DEFINE m == AtIdle(code)
<1>1. Shaped(m) /\ m.pc = "idle"
    BY SetIdle, Zenon
<1>2. th' = [th EXCEPT ![t] = m]
    BY Zenon DEF Return, AtIdle
<1> HIDE DEF m
<1>3. m.pc \notin Starting \cup {"modify", "undo"} /\ OnWay(m)
    BY <1>1 DEF Starting, OnWay
<1> QED BY <1>1, <1>2, <1>3, IdMoves, Zenon

LEMMA IdGoes ==
    ASSUME IdInv, NEW t \in Threads, th[t].pc \notin Starting \cup {"idle"}, NEW l, Goto(t, l),
           l \in {"dentry", "newid", "group", "hang"}, l \in {"newid", "group"} => Making(th[t].op),
           group' = group, seq' \in {seq, seq + 1}, kv' = kv
    PROVE  IdInv'
<1> PICK m : m = AtPc(th[t], l)
    BY Zenon
<1>1. Shaped(th[t]) /\ th = [u \in Threads |-> th[u]] /\ th[Main].pc \notin Starting
    BY IdBusy, Zenon
<1>2. Shaped(m) /\ m.pc = l /\ m.op = th[t].op
    BY <1>1, SetPc DEF SameCall
<1>3. th' = [th EXCEPT ![t] = m]
    BY <1>1, Zenon DEF Goto, AtPc
<1>4. m.pc \notin Starting \cup {"modify", "undo"} /\ m.pc # "target"
    BY <1>2 DEF Starting
<1>5. OnWay(m)
    BY <1>2, <1>4, Zenon DEF OnWay
<1> QED BY <1>1, <1>2, <1>3, <1>4, <1>5, IdMoves, Zenon

(* The steps of a lookup. *)
LEMMA IdLookups ==
    ASSUME IdInv, NEW t \in Threads,
           LookupInode(t) \/ LookupDentry(t) \/ Stat(t) \/ ReadParent(t) \/ CheckExists(t)
    PROVE  IdInv'
<1> DEFINE me == th[t]
<1>1. me.pc \in {"root", "walk", "dentry", "stat", "parent", "exists"} /\ Local
    BY Zenon DEF LookupInode, LookupDentry, Stat, ReadParent, CheckExists
<1>2. me.pc \notin Starting \cup {"idle"}
    BY <1>1 DEF Starting
<1>3. /\ th[Main].pc \notin Starting /\ Shaped(me) /\ th = [u \in Threads |-> th[u]]
      /\ group' = group /\ seq' = seq /\ kv' = kv
    BY <1>1, <1>2, IdBusy, Zenon DEF Local
<1>4. ASSUME NEW m, Shaped(m), th' = [th EXCEPT ![t] = m],
             m.pc \in {"walk", "stat", "parent", "exists"} \/ (m.pc = "target" /\ ~Making(m.op))
      PROVE  IdInv'
    <2>1. m.pc \notin Starting \cup {"modify", "undo"} /\ m.pc \notin {"newid", "group"}
        BY <1>4 DEF Starting
    <2>2. OnWay(m)
        BY <1>4, <2>1, Zenon DEF OnWay
    <2> QED BY <1>3, <1>4, <2>1, <2>2, IdMoves, Zenon
<1>5. CASE \E code : Return(t, code)
    BY <1>3, <1>5, IdReturns, Zenon
<1>6. CASE Goto(t, "dentry") \/ (Making(me.op) /\ Goto(t, "newid"))
    BY <1>2, <1>3, <1>6, IdGoes, Zenon
<1>7. CASE \E c, a, l : /\ l \in {"walk", "stat", "parent"}
                        /\ th' = [th EXCEPT ![t] = AtDentry(me, c, a, l)]
    <2>1. PICK c, a, l : /\ l \in {"walk", "stat", "parent"}
                         /\ th' = [th EXCEPT ![t] = AtDentry(me, c, a, l)]
        BY <1>7, Zenon
    <2> PICK m : m = AtDentry(me, c, a, l)
        BY Zenon
    <2>2. Shaped(m) /\ m.pc = l
        BY <1>3, SetDentry
    <2>3. th' = [th EXCEPT ![t] = m]
        BY <2>1, Zenon
    <2> QED BY <1>4, <2>1, <2>2, <2>3, Zenon
<1>8. CASE \E x : th' = [th EXCEPT ![t].parent = x, ![t].pc = "exists"]
    <2>1. PICK x : th' = [th EXCEPT ![t].parent = x, ![t].pc = "exists"]
        BY <1>8, Zenon
    <2> PICK m : m = AtParent(me, x)
        BY Zenon
    <2>2. Shaped(m) /\ m.pc = "exists"
        BY <1>3, SetParent
    <2>3. th' = [th EXCEPT ![t] = m]
        BY <1>3, <2>1, Zenon DEF AtParent
    <2> QED BY <1>4, <2>2, <2>3, Zenon
<1>9. CASE ~Making(me.op) /\ \E i : th' = [th EXCEPT ![t].id = i, ![t].pc = "target"]
    <2>1. PICK i : th' = [th EXCEPT ![t].id = i, ![t].pc = "target"]
        BY <1>9, Zenon
    <2> PICK m : m = AtTarget(me, i)
        BY Zenon
    <2>2. Shaped(m) /\ m.pc = "target" /\ m.op = me.op
        BY <1>3, SetId
    <2>3. th' = [th EXCEPT ![t] = m]
        BY <1>3, <2>1, Zenon DEF AtTarget
    <2> QED BY <1>4, <1>9, <2>2, <2>3, Zenon
<1>10. LookupInode(t) => (\E code : Return(t, code)) \/ Goto(t, "dentry")
    BY Zenon DEF LookupInode
<1>11. ASSUME LookupDentry(t)
       PROVE  \/ \E code : Return(t, code)
              \/ \E c, a, l : /\ l \in {"walk", "stat", "parent"}
                              /\ th' = [th EXCEPT ![t] = AtDentry(me, c, a, l)]
    <2> DEFINE slots == kv[<<me.cur, me.path[me.at]>>]
               end == Len(me.path) - (IF me.op = "Stat" THEN 0 ELSE 1)
               next == IF me.at < end THEN "walk" ELSE IF me.op = "Stat" THEN "stat" ELSE "parent"
    <2>1. next \in {"walk", "stat", "parent"}
        BY Zenon
    <2>2. \/ Return(t, "ENOENT")
          \/ th' = [th EXCEPT ![t].cur = Head(slots), ![t].at = @ + 1, ![t].pc = next]
        BY <1>11, Zenon DEF LookupDentry
    <2> HIDE DEF next, slots
    <2>3. \/ Return(t, "ENOENT")
          \/ th' = [th EXCEPT ![t] = AtDentry(me, Head(slots), me.at + 1, next)]
        BY <1>3, <2>2, Zenon DEF AtDentry
    <2> QED BY <2>1, <2>3, Zenon
<1>12. Stat(t) => \E code : Return(t, code)
    BY Zenon DEF Stat
<1>13. ReadParent(t) =>
          (\E code : Return(t, code)) \/ \E x : th' = [th EXCEPT ![t].parent = x, ![t].pc = "exists"]
    BY Zenon DEF ReadParent
<1>14. CheckExists(t) =>
          \/ \E code : Return(t, code)
          \/ Making(me.op) /\ Goto(t, "newid")
          \/ ~Making(me.op) /\ \E i : th' = [th EXCEPT ![t].id = i, ![t].pc = "target"]
    BY Zenon DEF CheckExists
<1> QED BY <1>5, <1>6, <1>7, <1>8, <1>9, <1>10, <1>11, <1>12, <1>13, <1>14, Zenon

LEMMA IdCall ==
    ASSUME IdInv, Early = {}, NEW t \in Threads, NEW op, NEW path, Call(t, op, path)
    PROVE  IdInv'
<1>1. /\ th[Main].pc \notin Starting /\ kv' = kv /\ group' = group /\ seq' = seq
    BY Zenon DEF Call, Starting
<1>2. PICK l : l \in {"parent", "root"} /\ th' = [th EXCEPT ![t] = Begins(op, path, l)]
    BY Zenon DEF Call, Begins
<1> PICK m : m = Begins(op, path, l)
    BY Zenon
<1>3. Shaped(m) /\ m.pc = l
    BY SetCall
<1>4. m.pc \notin Starting \cup {"modify", "undo"} /\ OnWay(m)
    BY <1>2, <1>3 DEF Starting, OnWay
<1> QED BY <1>1, <1>2, <1>3, <1>4, IdMoves, Zenon

(* A call draws the next number and fills the inode. *)
LEMMA IdCreate ==
    ASSUME IdInv, NEW t \in Threads, th[t].pc \in {"newid", "group"}, Create(t, seq),
           kv' = kv, group' = group, seq' = seq + 1
    PROVE  IdInv'
<1> DEFINE me == th[t]
           n == LastComponent(me.path)
<1>1. me.pc \notin Starting \cup {"idle"}
    BY DEF Starting
<1>2. /\ th[Main].pc \notin Starting /\ Shaped(me) /\ Making(me.op) /\ th = [u \in Threads |-> th[u]]
    BY <1>1, IdBusy, Zenon DEF OnWay
<1>3. seq \in Nat /\ seq > 0 /\ group = 0 /\ StoreOnce(kv, seq) /\ IsStore(kv)
    BY <1>2, Zenon DEF IdInv, IsStore
<1>4. group * GroupSize + seq = seq
    BY <1>3, EngineConstants
<1> DEFINE a == MakeTodo(me.cur, me.parent, n, seq, me.op = "Mkdir")
           b == MakeUndo(me.cur, n, seq)
<1>5. th' = [th EXCEPT ![t] = Makes(me, seq, a, b)]
    BY <1>2, <1>4, Zenon DEF Create, Makes
<1> HIDE DEF a, b
<1> PICK m : m = Makes(me, seq, a, b)
    BY Zenon
<1>6. /\ Shaped(m) /\ m.pc = "modify" /\ m.id = seq /\ m.todo = a /\ m.undo = b
      /\ m.cur = me.cur /\ m.op = me.op /\ m.path = me.path /\ m.parent = me.parent
    BY <1>2, SetNew
<1>7. m.todo = <<First(m), Second(m), Third(m)>>
    <2>1. First(m) = InsertInode(seq, [dir |-> me.op = "Mkdir", children |-> 0])
        BY <1>2, <1>6, Zenon DEF First, NewInode
    <2>2. Second(m) = InsertDentry(me.cur, n, seq)
        BY <1>2, <1>6, Zenon DEF Second
    <2>3. Third(m) = UpdateInode(me.cur, [me.parent EXCEPT !.children = (@ + 1) % Wrap])
        BY <1>2, <1>6, Zenon DEF Third, Counted
    <2> QED BY <1>6, <2>1, <2>2, <2>3, Zenon DEF a, MakeTodo
<1>8. m.undo = <<<<>>, <<UndoFirst(m)>>, <<UndoFirst(m), UndoSecond(m)>>>>
    BY <1>2, <1>6, Zenon DEF b, MakeUndo, UndoFirst, UndoSecond
<1>9. OnWay(m) /\ m.pc \notin Starting
    BY <1>6, <1>7, <1>8, Zenon DEF OnWay, Forward, Starting
<1>10. /\ seq' \in Nat /\ seq =< seq' /\ seq < seq' /\ seq \in Nat \ {0} /\ seq >= seq
       /\ \A i \in Nat : i < seq => i # seq
    BY <1>3
<1>11. StoreOnce(kv', seq') /\ \A u \in Threads : Pending(th[u]) => Drawn(th[u], kv', seq')
    BY <1>3, <1>10, MoreDrawn, Zenon DEF IdInv
<1>12. Drawn(m, kv', seq')
    BY <1>3, <1>6, <1>10, Zenon DEF Drawn, StoreOnce
<1>13. \A u \in Threads : Pending(th[u]) => th[u].id # m.id
    BY <1>6, <1>10, Zenon DEF IdInv, Drawn
<1> QED BY <1>2, <1>3, <1>5, <1>6, <1>9, <1>10, <1>11, <1>12, <1>13, IdArrive, Zenon

LEMMA IdNumbers ==
    ASSUME IdInv, NEW t \in Threads, GetNewInodeId(t) \/ GetNewGroup(t)
    PROVE  IdInv'
<1>1. /\ th[t].pc \in {"newid", "group"} /\ kv' = kv /\ group' = group /\ seq' = seq + 1
      /\ Create(t, seq) \/ Goto(t, "group") \/ Goto(t, "hang")
    BY Zenon DEF GetNewInodeId, GetNewGroup
<1>2. th[t].pc \notin Starting \cup {"idle"}
    BY <1>1 DEF Starting
<1>3. Making(th[t].op)
    BY <1>1, <1>2, IdBusy, Zenon DEF OnWay
<1>4. CASE Create(t, seq)
    BY <1>1, <1>4, IdCreate, Zenon
<1>5. CASE Goto(t, "group") \/ Goto(t, "hang")
    BY <1>1, <1>2, <1>3, <1>5, IdGoes, Zenon
<1> QED BY <1>1, <1>4, <1>5, Zenon

LEMMA IdTarget ==
    ASSUME IdInv, NEW t \in Threads, CheckTarget(t)
    PROVE  IdInv'
<1> DEFINE me == th[t]
           n == LastComponent(me.path)
           x == Head(kv[<<me.id>>])
           a == RemoveTodo(me.cur, me.parent, n, me.id)
           b == RemoveUndo(me.cur, n, me.id, x)
<1>1. me.pc = "target" /\ kv' = kv /\ group' = group /\ seq' = seq
    BY Zenon DEF CheckTarget, Local
<1>2. me.pc \notin Starting \cup {"idle"}
    BY <1>1 DEF Starting
<1>3. /\ th[Main].pc \notin Starting /\ Shaped(me) /\ ~Making(me.op) /\ th = [u \in Threads |-> th[u]]
    BY <1>1, <1>2, IdBusy, Zenon DEF OnWay
<1>4. seq \in Nat /\ seq =< seq /\ StoreOnce(kv, seq) /\ IsStore(kv)
    <2>1. seq \in Nat /\ StoreOnce(kv, seq) /\ IsStore(kv)
        BY Zenon DEF IdInv, IsStore
    <2> QED BY <2>1
<1>5. CASE \E code : Return(t, code)
    BY <1>1, <1>3, <1>5, IdReturns, Zenon
<1>6. CASE th' = [th EXCEPT ![t].pc = "modify", ![t].target = x, ![t].todo = a, ![t].undo = b]
    <2> HIDE DEF a, b, x
    <2>1. th' = [th EXCEPT ![t] = Removes(me, x, a, b)]
        BY <1>3, <1>6, Zenon DEF Removes
    <2> PICK m : m = Removes(me, x, a, b)
        BY Zenon
    <2>2. /\ Shaped(m) /\ m.pc = "modify" /\ m.target = x /\ m.todo = a /\ m.undo = b /\ m.id = me.id
          /\ m.cur = me.cur /\ m.op = me.op /\ m.path = me.path /\ m.parent = me.parent
        BY <1>3, SetTarget
    <2>3. m.todo = <<First(m), Second(m), Third(m)>>
        <3>1. First(m) = DeleteInode(me.id) /\ Second(m) = DeleteDentry(me.cur, n)
            BY <1>3, <2>2, Zenon DEF First, Second
        <3>2. Third(m) = UpdateInode(me.cur, [me.parent EXCEPT !.children = (@ - 1) % Wrap])
            BY <1>3, <2>2, Zenon DEF Third, Counted
        <3> QED BY <2>2, <3>1, <3>2, Zenon DEF a, RemoveTodo
    <2>4. m.undo = <<<<>>, <<UndoFirst(m)>>, <<UndoFirst(m), UndoSecond(m)>>>>
        BY <1>3, <2>2, Zenon DEF b, RemoveUndo, UndoFirst, UndoSecond
    <2>5. OnWay(m) /\ m.pc \notin Starting /\ ~Pending(m)
        BY <1>3, <2>2, <2>3, <2>4, Zenon DEF OnWay, Forward, Starting, Pending
    <2>6. \A u \in Threads : Pending(th[u]) => Drawn(th[u], kv, seq)
        BY Zenon DEF IdInv
    <2> QED BY <1>1, <1>3, <1>4, <2>1, <2>2, <2>5, <2>6, IdArrive, Zenon
<1> QED BY <1>5, <1>6, Zenon DEF CheckTarget

(* InitThread and StoreSeq, before any call. *)
LEMMA IdStart ==
    ASSUME IdInv, NEW t \in Threads, InitThread(t) \/ StoreSeq(t)
    PROVE  IdInv'
<1>1. /\ Main \in Threads /\ th = [u \in Threads |-> th[u]] /\ seq \in Nat /\ group = 0
      /\ StoreOnce(kv, seq) /\ IsStore(kv) /\ Shaped(th[t])
    BY EngineConstants, Zenon DEF IdInv, IsStore
<1>2. ASSUME NEW l \in {"store", "idle"}, Goto(t, l), l = "store" => t = Main, group' = group,
             seq' \in Nat, IsStore(kv'), StoreOnce(kv', seq'),
             \A u \in Threads : Pending(th[u]) => Drawn(th[u], kv', seq'),
             t = Main => th[Main].pc \in Starting, t # Main => kv' = kv /\ seq' = seq,
             t = Main => IF l = "store" THEN seq' = 0 ELSE seq' > 0
      PROVE  IdInv'
    <2> PICK m : m = AtPc(th[t], l)
        BY Zenon
    <2>1. Shaped(m) /\ m.pc = l
        BY <1>1, SetPc
    <2>2. th' = [th EXCEPT ![t] = m]
        BY <1>1, <1>2, Zenon DEF Goto, AtPc
    <2>3. th'[t] = m /\ (\A u \in Threads : u # t => th'[u] = th[u]) /\ th' = [u \in Threads |-> th'[u]]
        BY <1>1, <2>2, Zenon
    <2>4. OnWay(m) /\ ~Pending(m) /\ m.pc # "down" /\ m.pc \in Starting \cup {"idle"}
        BY <1>2, <2>1 DEF OnWay, Pending, Starting
    <2>5. \A u \in Threads : Pending(th'[u]) => u # t /\ Pending(th[u]) /\ th'[u] = th[u]
        BY <2>3, <2>4, Zenon
    <2>6. \A u \in Threads : /\ Shaped(th'[u]) /\ OnWay(th'[u]) /\ (th'[u].pc = "store" => u = Main)
                             /\ Pending(th'[u]) => Drawn(th'[u], kv', seq')
        <3>1. CASE t = Main
            BY <1>2, <2>1, <2>3, <2>4, <2>5, <3>1, Zenon DEF IdInv
        <3>2. CASE t # Main
            BY <1>2, <2>1, <2>3, <2>4, <2>5, <3>2, Zenon DEF IdInv
        <3> QED BY <3>1, <3>2, Zenon
    <2>7. \A u, v \in Threads : u # v /\ Pending(th'[u]) /\ Pending(th'[v]) => th'[u].id # th'[v].id
        BY <2>5, Zenon DEF IdInv
    <2>8. /\ IF th'[Main].pc \in Starting
             THEN seq' = 0 /\ \A u \in Threads : th'[u].pc \in Starting \cup {"idle"}
             ELSE seq' > 0
          /\ th'[Main].pc = "down" => kv'[<<kRootInodeId>>] = <<>>
        <3>1. CASE t = Main
            <4>1. \A u \in Threads : th'[u].pc \in Starting \cup {"idle"}
                BY <1>2, <2>3, <2>4, <3>1, Zenon DEF IdInv
            <4>2. l = "idle" => l \notin Starting
                BY DEF Starting
            <4>3. l = "store" => l \in Starting
                BY DEF Starting
            <4> QED BY <1>2, <2>1, <2>3, <2>4, <3>1, <4>1, <4>2, <4>3, Zenon
        <3>2. CASE t # Main
            <4>1. th'[Main] = th[Main]
                BY <1>1, <2>3, <3>2, Zenon
            <4>2. \A u \in Threads : th[u].pc \in Starting \cup {"idle"} => th'[u].pc \in Starting \cup {"idle"}
                BY <2>3, <2>4, Zenon
            <4> QED BY <1>2, <3>2, <4>1, <4>2, Zenon DEF IdInv
        <3> QED BY <3>1, <3>2, Zenon
    <2> QED BY <1>1, <1>2, <2>3, <2>6, <2>7, <2>8, Zenon DEF IdInv, IsStore
<1>3. CASE StoreSeq(t)
    <2>1. th[t].pc = "store" /\ seq' = 1 /\ Goto(t, "idle") /\ kv' = kv /\ group' = group
        BY <1>3, Zenon DEF StoreSeq
    <2>2. t = Main /\ th[Main].pc \in Starting
        BY <2>1, Zenon DEF IdInv, Starting
    <2>3. seq = 0
        BY <2>2, Zenon DEF IdInv
    <2>4. 0 \in Nat /\ 1 \in Nat /\ 0 =< 1 /\ 1 > 0
        OBVIOUS
    <2>5. StoreOnce(kv', seq') /\ \A u \in Threads : Pending(th[u]) => Drawn(th[u], kv', seq')
        BY <1>1, <2>1, <2>3, <2>4, MoreDrawn, Zenon DEF IdInv
    <2> QED BY <1>1, <1>2, <2>1, <2>2, <2>4, <2>5, Zenon
<1>4. CASE InitThread(t) /\ t # Main
    <2>1. Goto(t, "idle") /\ kv' = kv /\ group' = group /\ seq' = seq
        BY <1>4, Zenon DEF InitThread, Local
    <2>2. \A u \in Threads : Pending(th[u]) => Drawn(th[u], kv', seq')
        BY <2>1, Zenon DEF IdInv
    <2> QED BY <1>1, <1>2, <1>4, <2>1, <2>2, Zenon
<1>5. CASE InitThread(t) /\ t = Main
    <2>1. PICK x, r : /\ r \in kv_insert_sync(<<kRootInodeId>>, x) /\ kv' = r[1]
                      /\ th[Main].pc = "down" /\ Goto(t, "store") /\ group' = group /\ seq' = seq
        BY <1>5, Zenon DEF InitThread
    <2>2. th[Main].pc \in Starting
        BY <2>1, Zenon DEF Starting
    <2>3. /\ seq = 0 /\ kv[<<kRootInodeId>>] = <<>>
          /\ \A u \in Threads : th[u].pc \in Starting \cup {"idle"}
        BY <2>1, <2>2, Zenon DEF IdInv
    <2>4. \A u \in Threads : ~Pending(th[u])
        BY <2>3 DEF Pending, Starting
    <2>5. Outcome(r, <<kRootInodeId>>, <<x>>)
        BY <2>1, <2>3, InsertEmpty, Zenon
    <2>6. kv' = kv \/ kv' = With(kv, <<kRootInodeId>>, <<x>>)
        BY <2>1, <2>5, Pairs, Zenon DEF Outcome
    <2>7. IsStore(kv') /\ StoreOnce(kv', 0)
        <3>1. CASE kv' = kv
            BY <1>1, <2>3, <3>1, Zenon
        <3>2. CASE kv' = With(kv, <<kRootInodeId>>, <<x>>)
            <4>1. /\ IsStore(kv')
                  /\ \A k \in Keys : kv'[k] = IF k = <<kRootInodeId>> THEN <<x>> ELSE kv[k]
                BY <1>1, <3>2, Written
            <4>2. ASSUME NEW i \in Ids PROVE Once(kv'[<<i>>]) /\ (i > 0 /\ i >= 0 => kv'[<<i>>] = <<>>)
                <5>1. <<i>> \in Keys /\ (<<i>> = <<kRootInodeId>> => i = kRootInodeId)
                    BY KeyTypes, KeysDiffer, Zenon
                <5>2. Once(kv[<<i>>]) /\ (i > 0 /\ i >= 0 => kv[<<i>>] = <<>>)
                    BY <1>1, <2>3, Zenon DEF StoreOnce
                <5>3. ~(kRootInodeId > 0)
                    BY DEF kRootInodeId
                <5>4. CASE <<i>> = <<kRootInodeId>>
                    BY <4>1, <5>1, <5>3, <5>4, OnceFacts, Zenon
                <5>5. CASE <<i>> # <<kRootInodeId>>
                    BY <4>1, <5>1, <5>2, <5>5, Zenon
                <5> QED BY <5>4, <5>5, Zenon
            <4> QED BY <4>1, <4>2, Zenon DEF StoreOnce
        <3> QED BY <2>6, <3>1, <3>2, Zenon
    <2> QED BY <1>1, <1>2, <1>5, <2>1, <2>2, <2>3, <2>4, <2>7, Zenon
<1> QED BY <1>3, <1>4, <1>5, Zenon

(* The lists of a call that goes on. *)
OnwardAt(m, a, b, l) ==
    \/ l = "modify" /\ \/ /\ a = <<Second(m), Third(m)>>
                          /\ b = <<<<UndoFirst(m)>>, <<UndoFirst(m), UndoSecond(m)>>>>
                       \/ a = <<Third(m)>> /\ b = <<<<UndoFirst(m), UndoSecond(m)>>>>
    \/ l = "undo" /\ \/ a = <<UndoFirst(m)>> \/ a = <<UndoFirst(m), UndoSecond(m)>>
                     \/ a = <<UndoSecond(m)>>
Onward(m) == Shaped(m) /\ OnWay(m) /\ ~Pending(m) /\ m.pc \notin Starting

LEMMA GoesOnward ==
    ASSUME NEW m, Shaped(m), NEW a, NEW b, NEW l, OnwardAt(m, a, b, l)
    PROVE  Onward(GoesOn(m, a, b, l))
<1> PICK r : r = GoesOn(m, a, b, l)
    BY Zenon
<1>1. Shaped(r) /\ r.pc = l /\ SameCall(m, r) /\ r.todo = a /\ r.undo = b
    BY SetTodo
<1>2. /\ First(r) = First(m) /\ Second(r) = Second(m) /\ Third(r) = Third(m)
      /\ UndoFirst(r) = UndoFirst(m) /\ UndoSecond(r) = UndoSecond(m)
    BY <1>1, SameCallSame
<1>3. /\ \A x, y, u, v, w : <<x, y>> # <<u, v, w>>
      /\ \A x, u, v, w : <<x>> # <<u, v, w>>
    <2>1. \A x, y, u, v, w : <<x, y>> # <<u, v, w>>
        <3>1. ASSUME NEW x, NEW y, NEW u, NEW v, NEW w, <<x, y>> = <<u, v, w>> PROVE FALSE
            <4>1. Len(<<x, y>>) = 2 /\ Len(<<u, v, w>>) = 3
                OBVIOUS
            <4> QED BY <3>1, <4>1
        <3> QED BY <3>1, Zenon
    <2>2. \A x, u, v, w : <<x>> # <<u, v, w>>
        <3>1. ASSUME NEW x, NEW u, NEW v, NEW w, <<x>> = <<u, v, w>> PROVE FALSE
            <4>1. Len(<<x>>) = 1 /\ Len(<<u, v, w>>) = 3
                OBVIOUS
            <4> QED BY <3>1, <4>1
        <3> QED BY <3>1, Zenon
    <2> QED BY <2>1, <2>2, Zenon
<1>4. CASE l = "modify"
    <2>1. Forward(r)
        BY <1>1, <1>2, <1>4, Zenon DEF OnwardAt, Forward
    <2>2. ~Pending(r)
        BY <1>1, <1>3, <1>4, Zenon DEF OnwardAt, Pending
    <2> QED BY <1>1, <1>4, <2>1, <2>2, Zenon DEF Onward, OnWay, Starting
<1>5. CASE l = "undo"
    <2>1. Backward(r)
        BY <1>1, <1>2, <1>5, Zenon DEF OnwardAt, Backward
    <2> QED BY <1>1, <1>5, <2>1, Zenon DEF Onward, OnWay, Starting, Pending
<1> QED BY <1>4, <1>5, Zenon DEF OnwardAt

(* A call goes on, or ends. *)
LEMMA Continued ==
    ASSUME NEW t \in Threads, NEW a, NEW b, NEW l, NEW code, Continue(t, a, b, l, code),
           Shaped(th[t]), a # <<>> => OnwardAt(th[t], a, b, l)
    PROVE  \E m : Onward(m) /\ th' = [th EXCEPT ![t] = m]
<1>1. CASE a = <<>>
    <2> DEFINE m == AtIdle(code)
    <2>1. Shaped(m) /\ m.pc = "idle"
        BY SetIdle, Zenon
    <2>2. th' = [th EXCEPT ![t] = m]
        BY <1>1, Zenon DEF Continue, Return, AtIdle
    <2> HIDE DEF m
    <2>3. Onward(m)
        BY <2>1 DEF Onward, OnWay, Starting, Pending
    <2> QED BY <2>2, <2>3, Zenon
<1>2. CASE a # <<>>
    BY <1>2, GoesOnward, Zenon DEF Continue
<1> QED BY <1>1, <1>2, Zenon

LEMMA IdOnward ==
    ASSUME NEW t \in Threads, Shaped(th[t]), OnWay(th[t]), NEW r, After(t, r)
    PROVE  \E m : Onward(m) /\ th' = [th EXCEPT ![t] = m]
<1> PICK me : me = th[t]
    BY Zenon
<1>1. ASSUME NEW a, NEW h, NEW b, me.pc = "modify", Tail(me.todo) = a, Head(me.undo) = h,
             Tail(me.undo) = b, a # <<>> => OnwardAt(me, a, b, "modify"),
             h # <<>> => OnwardAt(me, h, me.undo, "undo")
      PROVE  \E m : Onward(m) /\ th' = [th EXCEPT ![t] = m]
    <2>1. Continue(t, a, b, "modify", "ok") \/ Continue(t, h, me.undo, "undo", "EIO")
        BY <1>1, Zenon DEF After
    <2> QED BY <1>1, <2>1, Continued, Zenon
<1>2. CASE me.pc = "modify"
    <2>1. Forward(me)
        BY <1>2, Zenon DEF OnWay
    <2>2. CASE /\ me.todo = <<First(me), Second(me), Third(me)>>
               /\ me.undo = <<<<>>, <<UndoFirst(me)>>, <<UndoFirst(me), UndoSecond(me)>>>>
        <3>1. /\ Tail(me.todo) = <<Second(me), Third(me)>> /\ Head(me.undo) = <<>>
              /\ Tail(me.undo) = <<<<UndoFirst(me)>>, <<UndoFirst(me), UndoSecond(me)>>>>
            BY <2>2, Rows
        <3>2. OnwardAt(me, <<Second(me), Third(me)>>, <<<<UndoFirst(me)>>, <<UndoFirst(me), UndoSecond(me)>>>>, "modify")
            BY Zenon DEF OnwardAt
        <3> QED BY <1>1, <1>2, <3>1, <3>2, Zenon
    <2>3. CASE /\ me.todo = <<Second(me), Third(me)>>
               /\ me.undo = <<<<UndoFirst(me)>>, <<UndoFirst(me), UndoSecond(me)>>>>
        <3>1. /\ Tail(me.todo) = <<Third(me)>> /\ Head(me.undo) = <<UndoFirst(me)>>
              /\ Tail(me.undo) = <<<<UndoFirst(me), UndoSecond(me)>>>>
            BY <2>3, Rows
        <3>2. OnwardAt(me, <<Third(me)>>, <<<<UndoFirst(me), UndoSecond(me)>>>>, "modify")
            BY Zenon DEF OnwardAt
        <3>3. OnwardAt(me, <<UndoFirst(me)>>, me.undo, "undo")
            BY Zenon DEF OnwardAt
        <3> QED BY <1>1, <1>2, <3>1, <3>2, <3>3, Zenon
    <2>4. CASE me.todo = <<Third(me)>> /\ me.undo = <<<<UndoFirst(me), UndoSecond(me)>>>>
        <3>1. /\ Tail(me.todo) = <<>> /\ Head(me.undo) = <<UndoFirst(me), UndoSecond(me)>>
              /\ Tail(me.undo) = <<>>
            BY <2>4, Rows
        <3>2. OnwardAt(me, <<UndoFirst(me), UndoSecond(me)>>, me.undo, "undo")
            BY Zenon DEF OnwardAt
        <3> QED BY <1>1, <1>2, <3>1, <3>2, Zenon
    <2> QED BY <2>1, <2>2, <2>3, <2>4, Zenon DEF Forward
<1>3. CASE me.pc = "undo"
    <2>1. Backward(me) /\ Continue(t, Tail(me.todo), me.undo, "undo", "EIO")
        BY <1>3 DEF OnWay, After
    <2>2. Tail(me.todo) = <<>> \/ Tail(me.todo) = <<UndoSecond(me)>>
        BY <2>1, Rows, Zenon DEF Backward
    <2> QED BY <2>1, <2>2, Continued, Zenon DEF OnwardAt
<1> QED BY <1>2, <1>3 DEF After

(* The operation of a call that is not the insertion of its inode. *)
LEMMA CalmOperations ==
    ASSUME NEW m, OnWay(m), m.pc \in {"modify", "undo"}, ~Pending(m), m.pc = "undo" => Making(m.op)
    PROVE  Calm(Head(m.todo))
<1>1. /\ \A i : Calm(DeleteInode(i))
      /\ \A p, n : Calm(DeleteDentry(p, n))
      /\ \A i, x : Calm(UpdateInode(i, x))
      /\ \A p, n, i : Calm(InsertDentry(p, n, i))
    <2>1. (\A i : Calm(DeleteInode(i))) /\ \A p, n : Calm(DeleteDentry(p, n))
        BY DEF Calm, DeleteInode, DeleteDentry
    <2>2. \A i, x : Calm(UpdateInode(i, x))
        BY DEF Calm, UpdateInode
    <2>3. \A p, n, i : InsertDentry(p, n, i).key = <<p, n>>
        BY DEF InsertDentry
    <2>4. \A p, n, i : Calm(InsertDentry(p, n, i))
        BY <2>3, Zenon DEF Calm
    <2> QED BY <2>1, <2>2, <2>4, Zenon
<1>2. Calm(Second(m)) /\ Calm(Third(m)) /\ (~Making(m.op) => Calm(First(m)))
    BY <1>1, Zenon DEF First, Second, Third
<1>3. Making(m.op) => Calm(UndoFirst(m)) /\ Calm(UndoSecond(m))
    BY <1>1, Zenon DEF UndoFirst, UndoSecond
<1>4. CASE m.pc = "modify"
    <2>1. Head(m.todo) \in {Second(m), Third(m)} \/ (~Making(m.op) /\ Head(m.todo) = First(m))
        <3>1. Forward(m)
            BY <1>4, Zenon DEF OnWay
        <3>2. CASE m.todo = <<First(m), Second(m), Third(m)>>
            <4>1. ~Making(m.op)
                BY <1>4, <3>2, Zenon DEF Pending
            <4> QED BY <3>2, <4>1, Rows
        <3>3. CASE m.todo = <<Second(m), Third(m)>>
            BY <3>3, Rows
        <3>4. CASE m.todo = <<Third(m)>>
            BY <3>4, Rows
        <3> QED BY <3>1, <3>2, <3>3, <3>4, Zenon DEF Forward
    <2> QED BY <1>2, <2>1, Zenon
<1>5. CASE m.pc = "undo"
    <2>1. Head(m.todo) \in {UndoFirst(m), UndoSecond(m)}
        <3>1. Backward(m)
            BY <1>5, Zenon DEF OnWay
        <3>2. CASE m.todo = <<UndoFirst(m)>>
            BY <3>2, Rows
        <3>3. CASE m.todo = <<UndoFirst(m), UndoSecond(m)>>
            BY <3>3, Rows
        <3>4. CASE m.todo = <<UndoSecond(m)>>
            BY <3>4, Rows
        <3> QED BY <3>1, <3>2, <3>3, <3>4, Zenon DEF Backward
    <2> QED BY <1>3, <1>5, <2>1, Zenon
<1> QED BY <1>4, <1>5, Zenon

(* The insertion of the inode of a call, under a number nobody else drew. *)
LEMMA IdInserted ==
    ASSUME IdInv, NEW m, Making(m.op), Drawn(m, kv, seq), NEW r \in Apply(First(m))
    PROVE  /\ IsStore(r[1]) /\ StoreOnce(r[1], seq)
           /\ \A u : Drawn(u, kv, seq) /\ u.id # m.id => Drawn(u, r[1], seq)
<1> DEFINE k == <<m.id>>
           x == NewInode(m)
<1>1. IsStore(kv) /\ StoreOnce(kv, seq) /\ seq \in Nat
    BY Zenon DEF IdInv, IsStore
<1>2. r \in kv_insert_sync(k, x)
    <2>1. First(m).kind = "insert" /\ First(m).key = k /\ First(m).val = x
        <3> HIDE DEF x
        <3>1. First(m) = InsertInode(m.id, x)
            BY Zenon DEF First, x
        <3> QED BY <3>1 DEF InsertInode
    <2> QED BY <2>1, Zenon DEF Apply
<1>3. r[1] = kv \/ \E e : r[1] = With(kv, k, e) /\ (m.id \in Ids => e = <<x>>)
    <2>1. CASE m.id \in Ids
        <3>1. kv[k] = <<>>
            BY <2>1, Zenon DEF Drawn
        <3>2. Outcome(r, k, <<x>>)
            BY <1>2, <3>1, InsertEmpty, Zenon
        <3> QED BY <3>2, Pairs, Zenon DEF Outcome
    <2>2. CASE m.id \notin Ids
        BY <1>2, <2>2, InsertWrites, Zenon
    <2> QED BY <2>1, <2>2, Zenon
<1>4. CASE r[1] = kv
    BY <1>1, <1>4, Zenon
<1>5. CASE \E e : r[1] = With(kv, k, e) /\ (m.id \in Ids => e = <<x>>)
    <2>1. PICK e : r[1] = With(kv, k, e) /\ (m.id \in Ids => e = <<x>>)
        BY <1>5, Zenon
    <2>2. IsStore(r[1]) /\ \A y \in Keys : r[1][y] = IF y = k THEN e ELSE kv[y]
        BY <1>1, <2>1, Written
    <2>3. \A i \in Ids : r[1][<<i>>] = IF i = m.id THEN e ELSE kv[<<i>>]
        BY <2>2, KeyTypes, KeysDiffer, Zenon
    <2>4. \A i \in Ids : i = m.id => ~(i >= seq)
        BY <1>1 DEF Drawn
    <2>5. ASSUME NEW i \in Ids PROVE Once(r[1][<<i>>]) /\ (i > 0 /\ i >= seq => r[1][<<i>>] = <<>>)
        <3>1. CASE i = m.id
            BY <2>1, <2>3, <2>4, <3>1, OnceFacts, Zenon
        <3>2. CASE i # m.id
            BY <1>1, <2>3, <3>2, Zenon DEF StoreOnce
        <3> QED BY <3>1, <3>2, Zenon
    <2>6. \A u : Drawn(u, kv, seq) /\ u.id # m.id => Drawn(u, r[1], seq)
        BY <2>3, Zenon DEF Drawn
    <2> QED BY <2>2, <2>5, <2>6, Zenon DEF StoreOnce
<1> QED BY <1>3, <1>4, <1>5, Zenon

LEMMA IdStored ==
    ASSUME IdInv, NoPutBack, NEW t \in Threads, th[t].pc \in {"modify", "undo"}, OnWay(th[t]),
           NEW r \in Apply(Head(th[t].todo))
    PROVE  /\ IsStore(r[1]) /\ StoreOnce(r[1], seq)
           /\ \A u \in Threads : u # t /\ Pending(th[u]) => Drawn(th[u], r[1], seq)
<1>1. CASE Pending(th[t])
    <2>1. Head(th[t].todo) = First(th[t]) /\ Making(th[t].op)
        BY <1>1, Rows DEF Pending
    <2>2. Drawn(th[t], kv, seq)
        BY <1>1, Zenon DEF IdInv
    <2>3. \A u \in Threads : u # t /\ Pending(th[u]) => Drawn(th[u], kv, seq) /\ th[u].id # th[t].id
        BY <1>1, Zenon DEF IdInv
    <2> QED BY <2>1, <2>2, <2>3, IdInserted, Zenon
<1>2. CASE ~Pending(th[t])
    <2>1. IsStore(kv) /\ StoreOnce(kv, seq) /\ \A u \in Threads : Pending(th[u]) => Drawn(th[u], kv, seq)
        BY Zenon DEF IdInv, IsStore
    <2>2. Calm(Head(th[t].todo))
        BY <1>2, CalmOperations, Zenon DEF NoPutBack
    <2>3. IsStore(r[1]) /\ KeepsOnce(kv, r[1])
        BY <2>1, <2>2, CalmApply, Zenon
    <2> QED BY <2>1, <2>3, CalmStore, Zenon
<1> QED BY <1>1, <1>2, Zenon

(* An operation says whether it took effect. *)
LEMMA Answered ==
    ASSUME NEW o, NEW r \in Apply(o)
    PROVE  r[2] \in BOOLEAN
<1>1. \A s : <<s, TRUE>>[2] = TRUE /\ <<s, FALSE>>[2] = FALSE
    OBVIOUS
<1>2. \E s : r = <<s, TRUE>> \/ r = <<s, FALSE>>
    BY Zenon DEF Apply, kv_insert_sync, kv_update_sync, kv_delete_sync, NoSpace
<1> QED BY <1>1, <1>2, Zenon

LEMMA IdModify ==
    ASSUME IdInv, NoPutBack, NEW t \in Threads, Modify(t)
    PROVE  IdInv'
<1>1. th[t].pc \in {"modify", "undo"}
    BY Zenon DEF Modify
<1>2. th[t].pc \notin Starting \cup {"idle"}
    BY <1>1 DEF Starting
<1>3. /\ th[Main].pc \notin Starting /\ Shaped(th[t]) /\ OnWay(th[t])
      /\ th = [u \in Threads |-> th[u]]
    BY <1>2, IdBusy, Zenon
<1>4. PICK r \in Apply(Head(th[t].todo)) :
          kv' = r[1] /\ group' = group /\ seq' = seq /\ (r[2] \in BOOLEAN => After(t, r))
    BY <1>3, ModifyStep, Zenon
<1>5. After(t, r)
    BY <1>4, Answered, Zenon
<1>6. PICK m : Onward(m) /\ th' = [th EXCEPT ![t] = m]
    BY <1>3, <1>5, IdOnward, Zenon
<1>7. /\ IsStore(kv') /\ StoreOnce(kv', seq)
      /\ \A u \in Threads : u # t /\ Pending(th[u]) => Drawn(th[u], kv', seq)
    BY <1>1, <1>3, <1>4, IdStored, Zenon
<1>8. seq' \in Nat /\ seq =< seq'
    <2>1. seq \in Nat
        BY Zenon DEF IdInv
    <2> QED BY <1>4, <2>1
<1> QED BY <1>3, <1>4, <1>6, <1>7, <1>8, IdArrive, Zenon DEF Onward

LEMMA IdInit == Init => IdInv
<1> SUFFICES ASSUME Init PROVE IdInv
    OBVIOUS
<1> DEFINE m == [Idle EXCEPT !.pc = "down"]
<1>1. Shaped(m) /\ m.pc = "down"
    BY Zenon DEF Shaped, Fields, Idle
<1>2. OnWay(m) /\ ~Pending(m) /\ m.pc # "store" /\ m.pc \in Starting
    <2> HIDE DEF m
    <2> QED BY <1>1 DEF OnWay, Pending, Starting
<1>3. th = [t \in Threads |-> th[t]] /\ \A t \in Threads : th[t] = m
    BY Zenon DEF Init
<1> HIDE DEF m
<1>4. kv = [k \in Keys |-> kv[k]] /\ \A k \in Keys : kv[k] = <<>>
    BY Zenon DEF Init, Keys
<1>5. \A i \in Ids : kv[<<i>>] = <<>>
    BY <1>4, KeyTypes, Zenon
<1>6. group = 0 /\ seq = 0 /\ seq \in Nat /\ kRootInodeId \in Ids
    BY EngineConstants DEF Init, kRootInodeId, Ids
<1>7. StoreOnce(kv, seq)
    BY <1>5, OnceFacts, Zenon DEF StoreOnce
<1> QED BY <1>1, <1>2, <1>3, <1>4, <1>5, <1>6, <1>7, EngineConstants, Zenon DEF IdInv

LEMMA IdNext ==
    ASSUME Early = {}
    PROVE  IdInv /\ NoPutBack /\ [Next]_vars => IdInv'
<1> SUFFICES ASSUME IdInv, NoPutBack, [Next]_vars PROVE IdInv'
    OBVIOUS
<1>1. CASE UNCHANGED vars
    BY <1>1, Zenon DEF vars, IdInv, Shaped, OnWay, Pending, Drawn, Forward, Backward
<1>2. ASSUME NEW t \in Threads, Step(t) PROVE IdInv'
    BY <1>2, IdStart, IdLookups, IdNumbers, IdTarget, IdModify, Zenon DEF Step
<1>3. ASSUME NEW t \in Threads, NEW call \in Calls, Call(t, call[1], call[2]) PROVE IdInv'
    BY <1>3, IdCall, Zenon
<1> QED BY <1>1, <1>2, <1>3, Zenon DEF Next

(* GetNewInodeId: from the end of the initialisation on, as long as no     *)
(* removal has to put its inode back, no inode number is given to two      *)
(* inodes, whatever threads ask for one and also beyond the group's end.   *)
THEOREM OneInodePerIdHolds ==
    ASSUME Early = {}
    PROVE  Spec /\ []NoPutBack => []OneInodePerId
<1>1. IdInv => OneInodePerId
    <2> SUFFICES ASSUME IdInv, NEW i \in Ids PROVE Len(kv[<<i>>]) =< 1
        BY Zenon DEF OneInodePerId
    <2>1. kv[<<i>>] = <<>> \/ kv[<<i>>] = <<Head(kv[<<i>>])>>
        BY Zenon DEF IdInv, StoreOnce, Once
    <2>2. Len(<<>>) =< 1 /\ \A x : Len(<<x>>) =< 1
        OBVIOUS
    <2> QED BY <2>1, <2>2, Zenon
<1> QED BY <1>1, IdInit, IdNext, PTL DEF Spec

=============================================================================
