-------------------------- MODULE EngineUndoProofs --------------------------
(***************************************************************************)
(* Proofs about one thread of the file-system layer of fs/engine/engine.cc *)
(* with at most one operation that runs out of space: UndoInv is inductive *)
(* and gives TreeOK and ErrorsUndone.                                      *)
(***************************************************************************)
EXTENDS EngineProofs

-----------------------------------------------------------------------------
(* Steps of the thread *)

(* A lookup looks at components of the path. *)
LEMMA PathEnd ==
    ASSUME NEW path \in Paths, NEW op, NEW at \in Nat \ {0},
           at =< EndOf(path, op)
    PROVE  at \in 1 .. Len(path) /\ EndOf(path, op) \in Nat
<1>1. Len(path) \in {1, 2}
    BY LastName, Zenon
<1>2. CASE op = "Stat"
    BY <1>1, <1>2 DEF EndOf
<1>3. CASE op # "Stat"
    BY <1>1, <1>3 DEF EndOf
<1> QED BY <1>2, <1>3, Zenon

(* The engine runs one thread. *)
OneThread == Threads = {Main}

(* The store a call of m began with, after a step. *)
Began(m) == IF th[Main].pc = "idle" /\ m.pc # "idle" THEN kv ELSE before[Main]

LEMMA Arrive ==
    ASSUME OneThread, UndoInv, Record, NEW m, Shaped(m), th' = [th EXCEPT ![Main] = m],
           group' = 0, seq' \in Nat, fails' \in 0 .. MaxFail,
           Phase(m, Began(m), kv', seq', fails')
    PROVE  UndoInv'
<1>1. Main \in Threads /\ th = [t \in Threads |-> th[t]]
    BY EngineConstants, Zenon DEF UndoInv
<1>2. th' = [t \in Threads |-> th'[t]] /\ th'[Main] = m
    BY <1>1
<1>3. before' = [t \in Threads |-> before'[t]] /\ before'[Main] = Began(m)
    BY <1>1, <1>2, Zenon DEF Record, Began
<1> QED BY <1>2, <1>3 DEF UndoInv

(* A call that looks things up goes on to l. *)
LEMMA Goes ==
    ASSUME OneThread, UndoInv, Record, NEW l, Goto(Main, l)
    PROVE  th' = [th EXCEPT ![Main] = AtPc(th[Main], l)]
BY EngineConstants, Zenon DEF UndoInv, Goto, AtPc

(* A call returns. *)
LEMMA Returned ==
    ASSUME OneThread, UndoInv, Record, NEW code, Return(Main, code), group' = group, seq' = seq,
           seq > 0, fails' \in 0 .. MaxFail, Sound(kv', seq), th[Main].pc # "idle",
           code # "ok" => kv' = before[Main]
    PROVE  UndoInv'
<1> DEFINE m == AtIdle(code)
<1>1. Shaped(m) /\ m.pc = "idle" /\ m.ret = code
    BY SetIdle, Zenon
<1>2. th' = [th EXCEPT ![Main] = m]
    BY Zenon DEF Return, AtIdle
<1> HIDE DEF m
<1>3. Began(m) = before[Main]
    BY <1>1, Zenon DEF Began
<1>4. Phase(m, Began(m), kv', seq', fails')
    BY <1>1, <1>3, Zenon DEF Phase
<1>5. group' = 0 /\ seq' \in Nat
    BY Zenon DEF UndoInv
<1> QED BY <1>1, <1>2, <1>4, <1>5, Arrive, Zenon

(* A call that looks things up: the store is as it found it. *)
LEMMA LookupState ==
    ASSUME UndoInv, th[Main].pc \in LookupPcs
    PROVE  /\ seq \in Nat /\ seq > 0 /\ kv = before[Main] /\ Sound(kv, seq) /\ Tree(kv)
           /\ Looking(th[Main], kv, seq) /\ Shaped(th[Main]) /\ fails \in 0 .. MaxFail
           /\ th[Main].pc # "idle"
<1>1. th[Main].pc \notin {"down", "store", "idle", "modify", "undo"}
    BY DEF LookupPcs
<1> QED BY <1>1, Zenon DEF UndoInv, Phase, Sound

LEMMA LookupReturns ==
    ASSUME OneThread, UndoInv, Record, th[Main].pc \in LookupPcs, Local, NEW code, Return(Main, code)
    PROVE  UndoInv'
<1>1. kv' = kv /\ group' = group /\ seq' = seq /\ fails' = fails
    BY Zenon DEF Local
<1> QED BY <1>1, LookupState, Returned, Zenon

LEMMA LookupGoes ==
    ASSUME OneThread, UndoInv, Record, th[Main].pc \in LookupPcs, Local,
           NEW m, Shaped(m), th' = [th EXCEPT ![Main] = m], m.pc \in LookupPcs, Looking(m, kv, seq)
    PROVE  UndoInv'
<1>1. kv' = kv /\ group' = 0 /\ seq' = seq /\ fails' = fails
    BY Zenon DEF Local, UndoInv
<1>2. Began(m) = kv
    BY LookupState, Zenon DEF Began
<1>3. Phase(m, Began(m), kv', seq', fails')
    BY <1>1, <1>2, LookupState, Zenon DEF Phase
<1> QED BY <1>1, <1>3, LookupState, Arrive, Zenon

LEMMA LookupInodeKeeps ==
    ASSUME OneThread, UndoInv, Record, LookupInode(Main)
    PROVE  UndoInv'
<1>1. th[Main].pc \in {"root", "walk"} /\ Local
    BY Zenon DEF LookupInode
<1>2. th[Main].pc \in LookupPcs
    BY <1>1 DEF LookupPcs
<1>3. CASE \E code : Return(Main, code)
    BY <1>1, <1>2, <1>3, LookupReturns, Zenon
<1>4. CASE Goto(Main, "dentry")
    <2> PICK m : m = AtPc(th[Main], "dentry")
        BY Zenon
    <2>1. Shaped(m) /\ m.pc = "dentry" /\ SameCall(th[Main], m) /\ m.at = th[Main].at
        <3>1. Shaped(th[Main])
            BY Zenon DEF UndoInv
        <3> QED BY <3>1, SetPc
    <2>2. th' = [th EXCEPT ![Main] = m]
        BY <1>4, Goes, Zenon
    <2>3. Looking(th[Main], kv, seq)
        BY <1>2, LookupState, Zenon
    <2>4. Looking(m, kv, seq) /\ m.pc \in LookupPcs
        BY <1>1, <2>1, <2>3, Zenon DEF Looking, SameCall, LookupPcs
    <2> QED BY <1>1, <1>2, <2>1, <2>2, <2>4, LookupGoes, Zenon
<1> QED BY <1>3, <1>4, Zenon DEF LookupInode

LEMMA LookupDentryKeeps ==
    ASSUME OneThread, UndoInv, Record, LookupDentry(Main)
    PROVE  UndoInv'
<1> DEFINE me == th[Main]
           slots == kv[<<me.cur, me.path[me.at]>>]
           end == EndOf(me.path, me.op)
           l == IF me.at < end THEN "walk" ELSE IF me.op = "Stat" THEN "stat" ELSE "parent"
<1>1. me.pc = "dentry" /\ Local /\ me.pc \in LookupPcs
    BY Zenon DEF LookupDentry, LookupPcs
<1>2. Looking(me, kv, seq) /\ Shaped(me) /\ Tree(kv)
    BY <1>1, LookupState, Zenon
<1>3. CASE Return(Main, "ENOENT")
    BY <1>1, <1>3, LookupReturns, Zenon
<1>4. CASE slots # <<>> /\ th' = [th EXCEPT ![Main].cur = Head(slots), ![Main].at = @ + 1, ![Main].pc = l]
    <2>1. /\ me.op \in Ops /\ me.path \in Paths /\ me.at \in Nat \ {0} /\ me.cur \in Ids
          /\ me.at =< end /\ (Making(me.op) => seq + 1 < MaxId)
        BY <1>1, <1>2, Zenon DEF Looking
    <2>2. me.at \in 1 .. Len(me.path) /\ end \in Nat
        BY <2>1, PathEnd, Zenon
    <2>3. me.path[me.at] \in Names
        BY <2>1, <2>2, LastName, Zenon
    <2>4. PICK i \in Ids : slots = <<i>>
        BY <1>2, <1>4, <2>1, <2>3, Zenon DEF Tree, EntriesLead
    <2>5. Head(slots) \in Ids
        BY <2>4, Rows, Zenon
    <2>6. /\ l \in {"walk", "stat", "parent"} /\ l \in LookupPcs
          /\ l = "walk" => me.at < end
          /\ l = "parent" => me.op # "Stat"
        BY Zenon DEF LookupPcs
    <2> HIDE DEF slots, end, l
    <2> PICK m : m = AtDentry(me, Head(slots), me.at + 1, l)
        BY Zenon
    <2>7. th' = [th EXCEPT ![Main] = m]
        BY <1>4, EngineConstants, Zenon DEF UndoInv, AtDentry
    <2>8. Shaped(m) /\ m.pc = l /\ m.cur = Head(slots) /\ m.at = me.at + 1 /\ m.op = me.op /\ m.path = me.path
        BY <1>2, SetDentry
    <2> HIDE DEF me
    <2>9. me.at + 1 \in Nat \ {0} /\ (l = "walk" => me.at + 1 =< end)
        BY <2>1, <2>2, <2>6
    <2>10. /\ m.pc \in {"root", "walk", "dentry"} => m.at =< EndOf(m.path, m.op)
           /\ m.pc \notin {"exists", "newid", "group", "target"}
        BY <2>6, <2>8, <2>9, Zenon DEF end
    <2>11. Looking(m, kv, seq)
        BY <2>1, <2>5, <2>6, <2>8, <2>9, <2>10, Zenon DEF Looking
    <2> QED BY <1>1, <2>6, <2>7, <2>8, <2>11, LookupGoes, Zenon DEF me
<1> QED BY <1>3, <1>4, Zenon DEF LookupDentry, EndOf

LEMMA StatKeeps ==
    ASSUME OneThread, UndoInv, Record, Stat(Main)
    PROVE  UndoInv'
<1>1. th[Main].pc \in LookupPcs /\ Local /\ \E code : Return(Main, code)
    BY Zenon DEF Stat, LookupPcs
<1> QED BY <1>1, LookupReturns, Zenon

LEMMA ReadParentKeeps ==
    ASSUME OneThread, UndoInv, Record, ReadParent(Main)
    PROVE  UndoInv'
<1> DEFINE me == th[Main]
           slots == kv[<<me.cur>>]
<1>1. me.pc = "parent" /\ Local /\ me.pc \in LookupPcs
    BY Zenon DEF ReadParent, LookupPcs
<1>2. Looking(me, kv, seq) /\ Shaped(me) /\ Tree(kv)
    BY <1>1, LookupState, Zenon
<1>3. CASE \E code : Return(Main, code)
    BY <1>1, <1>3, LookupReturns, Zenon
<1>4. CASE /\ slots # <<>> /\ Head(slots).dir
           /\ th' = [th EXCEPT ![Main].parent = Head(slots), ![Main].pc = "exists"]
    <2>1. /\ me.op \in Ops /\ me.op # "Stat" /\ me.path \in Paths /\ me.at \in Nat \ {0}
          /\ me.cur \in Ids /\ (Making(me.op) => seq + 1 < MaxId)
        BY <1>1, <1>2, Zenon DEF Looking
    <2>2. PICK x \in Inodes : slots = <<x>>
        BY <1>2, <1>4, <2>1, Zenon DEF Tree, InodesOnce
    <2>3. slots = <<Head(slots)>>
        BY <2>2, Rows, Zenon
    <2> HIDE DEF slots
    <2> PICK m : m = AtParent(me, Head(slots))
        BY Zenon
    <2>4. th' = [th EXCEPT ![Main] = m]
        BY <1>4, EngineConstants, Zenon DEF UndoInv, AtParent
    <2>5. /\ Shaped(m) /\ m.pc = "exists" /\ m.parent = Head(slots)
          /\ m.cur = me.cur /\ m.at = me.at /\ m.op = me.op /\ m.path = me.path
        BY <1>2, SetParent
    <2>6. Found(m, kv)
        BY <1>4, <2>1, <2>3, <2>5, Zenon DEF Found, slots
    <2>7. Looking(m, kv, seq) /\ m.pc \in LookupPcs
        BY <2>1, <2>5, <2>6, Zenon DEF Looking, LookupPcs
    <2> QED BY <1>1, <2>4, <2>5, <2>7, LookupGoes, Zenon
<1> QED BY <1>3, <1>4, Zenon DEF ReadParent

LEMMA CheckExistsKeeps ==
    ASSUME OneThread, UndoInv, Record, CheckExists(Main)
    PROVE  UndoInv'
<1> DEFINE me == th[Main]
           slots == kv[<<me.cur, LastComponent(me.path)>>]
<1>1. me.pc = "exists" /\ Local /\ me.pc \in LookupPcs
    BY Zenon DEF CheckExists, LookupPcs
<1>2. Looking(me, kv, seq) /\ Shaped(me) /\ Tree(kv)
    BY <1>1, LookupState, Zenon
<1>3. /\ me.op \in Ops /\ me.op # "Stat" /\ me.path \in Paths /\ me.at \in Nat \ {0} /\ me.cur \in Ids
      /\ Found(me, kv) /\ (Making(me.op) => seq + 1 < MaxId)
    BY <1>1, <1>2, Zenon DEF Looking
<1>4. LastComponent(me.path) \in Names
    BY <1>3, LastName, Zenon
<1>5. CASE \E code : Return(Main, code)
    BY <1>1, <1>5, LookupReturns, Zenon
<1>6. CASE Making(me.op) /\ slots = <<>> /\ Goto(Main, "newid")
    <2> PICK m : m = AtPc(me, "newid")
        BY Zenon
    <2>1. Shaped(m) /\ m.pc = "newid" /\ SameCall(me, m) /\ m.at = me.at
        BY <1>2, SetPc
    <2>2. th' = [th EXCEPT ![Main] = m]
        BY <1>6, Goes, Zenon
    <2>3. m.pc \in LookupPcs
        BY <2>1, Zenon DEF LookupPcs
    <2>4. Found(m, kv) /\ kv[EntryKey(m)] = <<>> /\ Making(m.op)
        BY <1>3, <1>6, <2>1, Zenon DEF Found, EntryKey, SameCall
    <2>5. m.op = me.op /\ m.path = me.path /\ m.cur = me.cur
        BY <2>1, Zenon DEF SameCall
    <2>6. Looking(m, kv, seq)
        BY <1>3, <2>1, <2>4, <2>5, Zenon DEF Looking
    <2> QED BY <1>1, <2>1, <2>2, <2>3, <2>6, LookupGoes, Zenon
<1>7. CASE ~Making(me.op) /\ slots # <<>> /\ th' = [th EXCEPT ![Main].id = Head(slots), ![Main].pc = "target"]
    <2>1. PICK i \in Ids : slots = <<i>>
        BY <1>2, <1>3, <1>4, <1>7, Zenon DEF Tree, EntriesLead
    <2>2. Head(slots) = i
        BY <2>1, Rows, Zenon
    <2> HIDE DEF slots
    <2> PICK m : m = AtTarget(me, i)
        BY Zenon
    <2>3. th' = [th EXCEPT ![Main] = m]
        BY <1>7, <2>2, EngineConstants, Zenon DEF UndoInv, AtTarget
    <2>4. /\ Shaped(m) /\ m.pc = "target" /\ m.id = i
          /\ m.cur = me.cur /\ m.at = me.at /\ m.op = me.op /\ m.path = me.path /\ m.parent = me.parent
        BY <1>2, SetId
    <2>5. m.pc \in LookupPcs
        BY <2>4, Zenon DEF LookupPcs
    <2>6. Found(m, kv) /\ kv[EntryKey(m)] = <<m.id>> /\ ~Making(m.op)
        BY <1>3, <1>7, <2>1, <2>4, Zenon DEF Found, EntryKey, slots
    <2>7. Looking(m, kv, seq)
        BY <1>3, <2>4, <2>6, Zenon DEF Looking
    <2> QED BY <1>1, <2>3, <2>4, <2>5, <2>7, LookupGoes, Zenon
<1> QED BY <1>5, <1>6, <1>7, Zenon DEF CheckExists

(* Calls begin. *)
LEMMA CallKeeps ==
    ASSUME OneThread, UndoInv, Record, NEW call \in Calls, Call(Main, call[1], call[2])
    PROVE  UndoInv'
<1> DEFINE op == call[1]
           path == call[2]
           l == IF op # "Stat" /\ Len(path) = 1 THEN "parent" ELSE "root"
<1>1. op \in Ops /\ path \in Paths
    BY EngineConstants DEF AnyCall
<1>2. /\ th[Main].pc = "idle" /\ (Making(op) => Room)
      /\ th' = [th EXCEPT ![Main] = Begins(op, path, l)]
      /\ kv' = kv /\ group' = group /\ seq' = seq /\ fails' = fails
    BY Zenon DEF Call, Begins
<1>3. seq \in Nat /\ seq > 0 /\ Sound(kv, seq) /\ fails \in 0 .. MaxFail /\ group = 0
    <2>1. th[Main].pc \notin {"down", "store", "modify", "undo"} /\ th[Main].pc \notin LookupPcs
        BY <1>2, Zenon DEF LookupPcs
    <2> QED BY <2>1, Zenon DEF UndoInv, Phase
<1> HIDE DEF op, path
<1>4. /\ l \in {"parent", "root"} /\ l \in LookupPcs /\ l # "idle"
      /\ l = "parent" => op # "Stat"
      /\ l = "root" => op = "Stat" \/ Len(path) # 1
    BY Zenon DEF LookupPcs
<1> HIDE DEF l
<1>5. l = "root" => 1 =< EndOf(path, op)
    <2>1. Len(path) \in {1, 2}
        BY <1>1, LastName, Zenon
    <2>2. CASE op = "Stat"
        BY <2>1, <2>2 DEF EndOf
    <2>3. CASE op # "Stat" /\ l = "root"
        <3>1. Len(path) = 2
            BY <1>4, <2>1, <2>3, Zenon
        <3> QED BY <2>3, <3>1 DEF EndOf
    <2> QED BY <2>2, <2>3, Zenon
<1> PICK m : m = Begins(op, path, l)
    BY Zenon
<1>6. Shaped(m) /\ m.pc = l /\ m.op = op /\ m.path = path /\ m.cur = kRootInodeId /\ m.at = 1
    BY SetCall
<1>7. kRootInodeId \in Ids /\ 1 \in Nat \ {0}
    BY EngineConstants DEF kRootInodeId, Ids
<1>8. Making(op) => seq + 1 < MaxId
    <2>1. ASSUME NEW S, S \subseteq {Main} PROVE 2 * Cardinality(S) \in Nat
        <3>1. IsFiniteSet(S)
            BY <2>1, FS_Singleton, FS_Subset, Zenon
        <3> QED BY <3>1, FS_CardinalityType
    <2>2. 2 * Cardinality({u \in Threads : Making(th[u].op)}) \in Nat
        <3>1. {u \in Threads : Making(th[u].op)} \subseteq {Main}
            BY Zenon DEF OneThread
        <3> QED BY <2>1, <3>1, Zenon
    <2> DEFINE c == 2 * Cardinality({u \in Threads : Making(th[u].op)})
    <2>3. Making(op) => seq + c + 1 < MaxId
        BY <1>2, Zenon DEF Room
    <2> HIDE DEF c
    <2> QED BY <1>3, <2>2, <2>3, EngineConstants DEF c
<1>9. Looking(m, kv, seq)
    BY <1>1, <1>4, <1>5, <1>6, <1>7, <1>8, Zenon DEF Looking
<1>10. Began(m) = kv
    BY <1>2, <1>4, <1>6, Zenon DEF Began
<1>11. Phase(m, Began(m), kv', seq', fails')
    BY <1>2, <1>3, <1>4, <1>6, <1>9, <1>10, Zenon DEF Phase
<1> QED BY <1>2, <1>3, <1>6, <1>11, Arrive, Zenon

(* The operations of a call begin. *)
LEMMA ModifyBegins ==
    ASSUME OneThread, UndoInv, Record, th[Main].pc \in LookupPcs, kv' = kv, group' = group,
           fails' = fails, seq' \in Nat, seq =< seq',
           NEW m, Shaped(m), m.pc = "modify", th' = [th EXCEPT ![Main] = m], Ready(m, kv, seq'),
           m.todo = <<First(m), Second(m), Third(m)>>,
           m.undo = <<<<>>, <<UndoFirst(m)>>, <<UndoFirst(m), UndoSecond(m)>>>>
    PROVE  UndoInv'
<1>1. seq \in Nat /\ seq > 0 /\ Sound(kv, seq) /\ fails \in 0 .. MaxFail /\ kv = before[Main]
    BY LookupState, Zenon
<1>2. Began(m) = kv
    BY <1>1, LookupState, Zenon DEF Began
<1>3. seq' > 0 /\ \A i \in Ids : i >= seq' => i >= seq
    BY <1>1 DEF Ids
<1>4. Sound(kv, seq')
    BY <1>1, <1>3, Zenon DEF Sound, Unused
<1>5. Modifying(m, kv, kv)
    BY Zenon DEF Modifying
<1>6. Phase(m, Began(m), kv', seq', fails')
    BY <1>2, <1>3, <1>4, <1>5, Zenon DEF Phase
<1>7. group' = 0
    BY Zenon DEF UndoInv
<1> QED BY <1>1, <1>6, <1>7, Arrive, Zenon

(* An inode in the store has a number below the next one. *)
LEMMA InUse ==
    ASSUME NEW s, NEW n \in Nat, n > 0, Unused(s, n), NEW i \in Ids, s[<<i>>] # <<>>
    PROVE  i < n
<1>1. ~(i > 0 /\ i >= n)
    BY Zenon DEF Unused
<1> QED BY <1>1 DEF Ids

LEMMA CreateKeeps ==
    ASSUME OneThread, UndoInv, Record, th[Main].pc \in {"newid", "group"}, kv' = kv,
           group' = group, fails' = fails, seq' = seq + 1, Create(Main, seq)
    PROVE  UndoInv'
<1> DEFINE me == th[Main]
           n == LastComponent(me.path)
<1>1. me.pc \in LookupPcs
    BY Zenon DEF LookupPcs
<1>2. Looking(me, kv, seq) /\ Shaped(me) /\ Tree(kv) /\ seq \in Nat /\ seq > 0 /\ Unused(kv, seq)
    BY <1>1, LookupState, Zenon DEF Sound
<1>3. /\ me.op \in Ops /\ me.op # "Stat" /\ me.path \in Paths /\ Found(me, kv) /\ Making(me.op)
      /\ kv[EntryKey(me)] = <<>> /\ (seq < MaxId \/ seq + 1 < MaxId)
    BY <1>2, Zenon DEF Looking
<1>4. seq \in Ids /\ seq' \in Nat /\ seq =< seq' /\ seq < seq'
    BY <1>2, <1>3, EngineConstants DEF Ids
<1>5. group * GroupSize + seq = seq
    <2>1. group = 0
        BY Zenon DEF UndoInv
    <2> QED BY <1>2, <2>1, EngineConstants
<1>6. kv[<<seq>>] = <<>>
    <2>1. seq >= seq
        BY <1>2
    <2> QED BY <1>2, <1>4, <2>1, Zenon DEF Unused
<1>7. me.cur < seq
    <2>1. me.cur \in Ids /\ kv[<<me.cur>>] # <<>>
        BY <1>3, Rows, Zenon DEF Found
    <2> QED BY <1>2, <2>1, InUse, Zenon
<1> DEFINE a == MakeTodo(me.cur, me.parent, n, seq, me.op = "Mkdir")
           b == MakeUndo(me.cur, n, seq)
<1>8. th' = [th EXCEPT ![Main] = Makes(me, seq, a, b)]
    BY <1>5, EngineConstants, Zenon DEF UndoInv, Create, Makes
<1> HIDE DEF a, b
<1> PICK m : m = Makes(me, seq, a, b)
    BY Zenon
<1>9. /\ Shaped(m) /\ m.pc = "modify" /\ m.id = seq /\ m.todo = a /\ m.undo = b
      /\ m.cur = me.cur /\ m.op = me.op /\ m.path = me.path /\ m.parent = me.parent
    BY <1>2, SetNew
<1>10. Ready(m, kv, seq')
    BY <1>3, <1>4, <1>6, <1>7, <1>9, Zenon DEF Ready, Found, InodeKey, EntryKey
<1>11. m.todo = <<First(m), Second(m), Third(m)>>
    <2>1. First(m) = InsertInode(seq, [dir |-> me.op = "Mkdir", children |-> 0])
        BY <1>3, <1>9, Zenon DEF First, NewInode
    <2>2. Second(m) = InsertDentry(me.cur, n, seq)
        BY <1>3, <1>9, Zenon DEF Second
    <2>3. Third(m) = UpdateInode(me.cur, [me.parent EXCEPT !.children = (@ + 1) % Wrap])
        BY <1>3, <1>9, Zenon DEF Third, Counted
    <2> QED BY <1>9, <2>1, <2>2, <2>3, Zenon DEF a, MakeTodo
<1>12. m.undo = <<<<>>, <<UndoFirst(m)>>, <<UndoFirst(m), UndoSecond(m)>>>>
    BY <1>3, <1>9, Zenon DEF b, MakeUndo, UndoFirst, UndoSecond
<1> QED BY <1>1, <1>4, <1>8, <1>9, <1>10, <1>11, <1>12, ModifyBegins, Zenon

LEMMA GetNewInodeIdKeeps ==
    ASSUME OneThread, UndoInv, Record, GetNewInodeId(Main)
    PROVE  UndoInv'
<1>1. th[Main].pc = "newid" /\ seq' = seq + 1 /\ kv' = kv /\ group' = group /\ fails' = fails
    BY Zenon DEF GetNewInodeId
<1>2. CASE Create(Main, seq)
    BY <1>1, <1>2, CreateKeeps, Zenon
<1>3. CASE ~(seq < GroupSize) /\ Goto(Main, "group")
    <2>1. th[Main].pc \in LookupPcs
        BY <1>1, Zenon DEF LookupPcs
    <2>2. /\ Looking(th[Main], kv, seq) /\ Shaped(th[Main]) /\ seq \in Nat /\ seq > 0
          /\ kv = before[Main] /\ Sound(kv, seq) /\ fails \in 0 .. MaxFail
        BY <2>1, LookupState, Zenon
    <2> PICK m : m = AtPc(th[Main], "group")
        BY Zenon
    <2>3. Shaped(m) /\ m.pc = "group" /\ SameCall(th[Main], m) /\ m.at = th[Main].at
        BY <2>2, SetPc
    <2>4. th' = [th EXCEPT ![Main] = m]
        BY <1>3, Goes, Zenon
    <2>5. /\ th[Main].op \in Ops /\ th[Main].op # "Stat" /\ th[Main].path \in Paths
          /\ th[Main].at \in Nat \ {0} /\ th[Main].cur \in Ids /\ Found(th[Main], kv)
          /\ Making(th[Main].op) /\ kv[EntryKey(th[Main])] = <<>> /\ seq + 1 < MaxId
        BY <1>1, <2>2, Zenon DEF Looking
    <2>6. /\ GroupSize =< seq' /\ seq' < MaxId /\ seq' \in Nat /\ seq' > 0
          /\ \A i \in Ids : i >= seq' => i >= seq
        <3>1. GroupSize =< seq' /\ seq' < MaxId /\ seq' \in Nat /\ seq' > 0
            BY <1>1, <1>3, <2>2, <2>5, EngineConstants
        <3>2. \A i \in Ids : i >= seq' => i >= seq
            BY <1>1, <2>2 DEF Ids
        <3> QED BY <3>1, <3>2, Zenon
    <2>7. /\ m.op = th[Main].op /\ m.path = th[Main].path /\ m.cur = th[Main].cur
          /\ Found(m, kv) /\ EntryKey(m) = EntryKey(th[Main])
        BY <2>3, <2>5, Zenon DEF SameCall, Found, EntryKey
    <2>8. Looking(m, kv, seq')
        BY <2>3, <2>5, <2>6, <2>7, Zenon DEF Looking
    <2>9. Sound(kv, seq')
        BY <2>2, <2>6, Zenon DEF Sound, Unused
    <2>10. Began(m) = kv /\ m.pc \in LookupPcs
        BY <1>1, <2>2, <2>3, Zenon DEF Began, LookupPcs
    <2>11. Phase(m, Began(m), kv', seq', fails')
        BY <1>1, <2>6, <2>8, <2>9, <2>10, Zenon DEF Phase
    <2>12. group' = 0
        BY <1>1, Zenon DEF UndoInv
    <2> QED BY <1>1, <2>2, <2>3, <2>4, <2>6, <2>11, <2>12, Arrive, Zenon
<1> QED BY <1>2, <1>3, Zenon DEF GetNewInodeId

(* With one thread nobody else has drawn numbers in between: the second    *)
(* number is beyond the group as well, and the thread does not wait.       *)
LEMMA GetNewGroupKeeps ==
    ASSUME OneThread, UndoInv, Record, GetNewGroup(Main)
    PROVE  UndoInv'
<1>1. /\ th[Main].pc = "group" /\ seq' = seq + 1 /\ kv' = kv /\ group' = group /\ fails' = fails
      /\ IF seq >= GroupSize THEN Create(Main, seq) ELSE Goto(Main, "hang")
    BY Zenon DEF GetNewGroup
<1>2. th[Main].pc \in LookupPcs
    BY <1>1, Zenon DEF LookupPcs
<1>3. GroupSize =< seq /\ seq \in Nat
    BY <1>1, <1>2, LookupState, Zenon DEF Looking
<1>4. seq >= GroupSize
    BY <1>3, EngineConstants
<1> QED BY <1>1, <1>4, CreateKeeps, Zenon

LEMMA CheckTargetKeeps ==
    ASSUME OneThread, UndoInv, Record, CheckTarget(Main)
    PROVE  UndoInv'
<1> DEFINE me == th[Main]
           slots == kv[<<me.id>>]
           n == LastComponent(me.path)
           x == Head(slots)
           a == RemoveTodo(me.cur, me.parent, n, me.id)
           b == RemoveUndo(me.cur, n, me.id, x)
<1>1. me.pc = "target" /\ Local /\ me.pc \in LookupPcs
    BY Zenon DEF CheckTarget, LookupPcs
<1>2. Looking(me, kv, seq) /\ Shaped(me) /\ Tree(kv) /\ seq \in Nat /\ seq > 0 /\ Unused(kv, seq)
    BY <1>1, LookupState, Zenon DEF Sound
<1>3. /\ me.op \in Ops /\ me.op # "Stat" /\ me.path \in Paths /\ Found(me, kv) /\ ~Making(me.op)
      /\ kv[EntryKey(me)] = <<me.id>>
    BY <1>1, <1>2, Zenon DEF Looking
<1>4. n \in Names /\ me.cur \in Ids /\ kv[<<me.cur, n>>] = <<me.id>>
    BY <1>3, LastName, Zenon DEF Found, EntryKey
<1>5. me.id \in Ids /\ me.cur < me.id /\ slots # <<>>
    BY <1>2, <1>4, TreeFacts, Zenon
<1>6. me.id < seq
    BY <1>2, <1>5, InUse, Zenon
<1>7. PICK y \in Inodes : slots = <<y>>
    BY <1>2, <1>5, Zenon DEF Tree, InodesOnce
<1>8. x = y /\ slots = <<x>>
    BY <1>7, Rows, Zenon
<1>9. CASE \E code : Return(Main, code)
    BY <1>1, <1>9, LookupReturns, Zenon
<1>10. CASE /\ ~(me.op = "Unlink" /\ x.dir) /\ ~NotEmpty(me.op, x)
            /\ th' = [th EXCEPT ![Main].pc = "modify", ![Main].target = x, ![Main].todo = a, ![Main].undo = b]
    <2>1. th' = [th EXCEPT ![Main] = Removes(me, x, a, b)]
        <3> HIDE DEF a, b, x
        <3> QED BY <1>10, EngineConstants, Zenon DEF UndoInv, Removes
    <2>2. x.dir => x.children = 0
        <3>1. me.op = "Rmdir" \/ me.op = "Unlink"
            BY <1>3 DEF Ops, Making
        <3>2. x.dir => ~(x.children > 0)
            BY <1>10, <3>1, Zenon DEF NotEmpty
        <3>3. x.children \in 0 .. Wrap - 1
            <4> HIDE DEF x
            <4> QED BY <1>8 DEF Inodes
        <3> HIDE DEF x
        <3> QED BY <3>2, <3>3, EngineConstants
    <2> HIDE DEF a, b, x, slots
    <2> PICK m : m = Removes(me, x, a, b)
        BY Zenon
    <2>3. /\ Shaped(m) /\ m.pc = "modify" /\ m.target = x /\ m.todo = a /\ m.undo = b /\ m.id = me.id
          /\ m.cur = me.cur /\ m.op = me.op /\ m.path = me.path /\ m.parent = me.parent
        BY <1>2, SetTarget
    <2>4. kv[<<m.id>>] = <<m.target>> /\ kv[<<m.cur, LastComponent(m.path)>>] = <<m.id>>
        BY <1>4, <1>8, <2>3, Zenon DEF slots
    <2>5. Ready(m, kv, seq)
        BY <1>3, <1>5, <1>6, <2>2, <2>3, <2>4, Zenon DEF Ready, Found, InodeKey, EntryKey
    <2>6. m.todo = <<First(m), Second(m), Third(m)>>
        <3>1. First(m) = DeleteInode(me.id)
            BY <1>3, <2>3, Zenon DEF First
        <3>2. Second(m) = DeleteDentry(me.cur, n)
            BY <1>3, <2>3, Zenon DEF Second
        <3>3. Third(m) = UpdateInode(me.cur, [me.parent EXCEPT !.children = (@ - 1) % Wrap])
            BY <1>3, <2>3, Zenon DEF Third, Counted
        <3> QED BY <2>3, <3>1, <3>2, <3>3, Zenon DEF a, RemoveTodo
    <2>7. m.undo = <<<<>>, <<UndoFirst(m)>>, <<UndoFirst(m), UndoSecond(m)>>>>
        <3>1. UndoFirst(m) = InsertInode(me.id, x)
            BY <1>3, <2>3, Zenon DEF UndoFirst
        <3>2. UndoSecond(m) = InsertDentry(me.cur, n, me.id)
            BY <1>3, <2>3, Zenon DEF UndoSecond
        <3> QED BY <2>3, <3>1, <3>2, Zenon DEF b, RemoveUndo
    <2>8. kv' = kv /\ group' = group /\ fails' = fails /\ seq' = seq
        BY <1>1, Zenon DEF Local
    <2>9. seq' \in Nat /\ seq =< seq'
        BY <1>2, <2>8
    <2>10. Ready(m, kv, seq')
        BY <2>5, <2>8, Zenon
    <2> QED BY <1>1, <2>1, <2>3, <2>6, <2>7, <2>8, <2>9, <2>10, ModifyBegins, Zenon
<1> QED BY <1>9, <1>10, Zenon DEF CheckTarget

LEMMA StoreSeqKeeps ==
    ASSUME OneThread, UndoInv, Record, StoreSeq(Main)
    PROVE  UndoInv'
<1>1. /\ th[Main].pc = "store" /\ seq' = 1 /\ kv' = kv /\ group' = group /\ fails' = fails
      /\ Goto(Main, "idle")
    BY Zenon DEF StoreSeq
<1>2. seq = 0 /\ th[Main].ret = "ok" /\ Sound(kv, seq)
    <2>1. th[Main].pc \notin {"down", "idle", "modify", "undo"} /\ th[Main].pc \notin LookupPcs
        BY <1>1, Zenon DEF LookupPcs
    <2> QED BY <2>1, Zenon DEF UndoInv, Phase
<1>3. group' = 0 /\ fails' \in 0 .. MaxFail /\ Shaped(th[Main])
    BY <1>1, Zenon DEF UndoInv
<1> PICK m : m = AtPc(th[Main], "idle")
    BY Zenon
<1>4. Shaped(m) /\ m.pc = "idle" /\ m.ret = th[Main].ret
    BY <1>3, SetPc
<1>5. th' = [th EXCEPT ![Main] = m]
    BY <1>1, Goes, Zenon
<1>6. seq' \in Nat /\ seq' > 0 /\ \A i \in Ids : i >= seq' => i >= seq
    BY <1>1, <1>2 DEF Ids
<1>7. Sound(kv', seq')
    BY <1>1, <1>2, <1>6, Zenon DEF Sound, Unused
<1>8. Phase(m, Began(m), kv', seq', fails')
    BY <1>2, <1>4, <1>6, <1>7, Zenon DEF Phase
<1> QED BY <1>3, <1>4, <1>5, <1>6, <1>8, Arrive, Zenon

(* The store before any call: at most the root. *)
LEMMA RootTree ==
    ASSUME NEW s, IsStore(s), \A k \in Keys : k # <<kRootInodeId>> => s[k] = <<>>,
           s[<<kRootInodeId>>] # <<>> => \E x \in Inodes : s[<<kRootInodeId>>] = <<x>>
    PROVE  Sound(s, 0)
<1>1. ASSUME NEW i \in Ids, i # kRootInodeId PROVE s[<<i>>] = <<>>
    BY <1>1, KeyTypes, KeysDiffer, Zenon
<1>2. ASSUME NEW p \in Ids, NEW n \in Names PROVE s[<<p, n>>] = <<>>
    BY KeyTypes, KeysDiffer, Zenon
<1>3. InodesOnce(s)
    <2>1. ASSUME NEW i \in Ids, s[<<i>>] # <<>> PROVE \E x \in Inodes : s[<<i>>] = <<x>>
        BY <1>1, <2>1, Zenon
    <2> QED BY <2>1, Zenon DEF InodesOnce
<1>4. EntriesLead(s)
    BY <1>2, Zenon DEF EntriesLead
<1>5. NamedOnce(s)
    BY <1>2, Zenon DEF NamedOnce
<1>6. AllNamed(s)
    BY <1>1, Zenon DEF AllNamed
<1>7. ChildrenOK(s)
    BY <1>1, Zenon DEF ChildrenOK
<1>8. Unused(s, 0)
    <2>1. \A i \in Ids : i > 0 => i # kRootInodeId
        BY DEF Ids, kRootInodeId
    <2> QED BY <1>1, <2>1, Zenon DEF Unused
<1> QED BY <1>3, <1>4, <1>5, <1>6, <1>7, <1>8, Zenon DEF Sound, Tree, IsStore

LEMMA InitThreadKeeps ==
    ASSUME OneThread, UndoInv, Record, InitThread(Main)
    PROVE  UndoInv'
<1>1. th[Main].pc = "down" /\ Goto(Main, "store") /\ UNCHANGED <<group, seq>>
    BY Zenon DEF InitThread
<1>0. PICK x \in Inodes : \E r \in kv_insert_sync(<<kRootInodeId>>, x) :
          kv' = r[1] /\ fails' = IF r[2] THEN fails ELSE fails + 1
    BY Zenon DEF InitThread
<1>2. PICK r \in kv_insert_sync(<<kRootInodeId>>, x) :
          kv' = r[1] /\ fails' = IF r[2] THEN fails ELSE fails + 1
    BY <1>0, Zenon
<1>3. seq = 0 /\ th[Main].ret = "ok" /\ kv = [k \in Keys |-> <<>>]
    <2>1. th[Main].pc \notin {"store", "idle", "modify", "undo"} /\ th[Main].pc \notin LookupPcs
        BY <1>1, Zenon DEF LookupPcs
    <2> QED BY <2>1, Zenon DEF UndoInv, Phase
<1>4. group' = 0 /\ seq' = 0 /\ seq' \in Nat /\ fails \in 0 .. MaxFail /\ Shaped(th[Main])
    BY <1>1, <1>3 DEF UndoInv
<1>5. <<kRootInodeId>> \in Keys
    BY KeyTypes, EngineConstants DEF kRootInodeId, Ids
<1>6. IsStore(kv) /\ \A k \in Keys : kv[k] = <<>>
    BY <1>3, Zenon DEF IsStore
<1>7. Outcome(r, <<kRootInodeId>>, <<x>>)
    BY <1>2, <1>5, <1>6, InsertEmpty, Zenon
<1>8. Sound(kv', 0) /\ fails' \in 0 .. MaxFail
    <2>1. CASE r = <<kv, FALSE>> /\ fails < MaxFail
        <3>1. kv' = kv /\ fails' = fails + 1
            BY <1>2, <2>1
        <3>2. fails' \in 0 .. MaxFail
            BY <1>4, <2>1, <3>1, EngineConstants
        <3> QED BY <1>5, <1>6, <3>1, <3>2, RootTree, Zenon
    <2>2. CASE r = <<With(kv, <<kRootInodeId>>, <<x>>), TRUE>>
        <3>1. kv' = With(kv, <<kRootInodeId>>, <<x>>) /\ fails' = fails
            BY <1>2, <2>2
        <3>2. /\ IsStore(kv') /\ kv'[<<kRootInodeId>>] = <<x>>
              /\ \A k \in Keys : k # <<kRootInodeId>> => kv'[k] = <<>>
            BY <1>5, <1>6, <3>1, Put
        <3> QED BY <1>4, <3>1, <3>2, RootTree, Zenon
    <2> QED BY <1>7, <2>1, <2>2, Zenon DEF Outcome
<1> PICK m : m = AtPc(th[Main], "store")
    BY Zenon
<1>9. Shaped(m) /\ m.pc = "store" /\ m.ret = th[Main].ret
    BY <1>4, SetPc
<1>10. th' = [th EXCEPT ![Main] = m]
    BY <1>1, Goes, Zenon
<1>11. Phase(m, Began(m), kv', seq', fails')
    BY <1>3, <1>4, <1>8, <1>9, Zenon DEF Phase
<1> QED BY <1>4, <1>8, <1>9, <1>10, <1>11, Arrive, Zenon

-----------------------------------------------------------------------------
(* Modifying and undoing *)

OldInode(m) == IF Making(m.op) THEN <<>> ELSE <<m.target>>
OldEntry(m) == IF Making(m.op) THEN <<>> ELSE <<m.id>>

(* The store while a call is under way, and how it gets back. *)
LEMMA HalfBoth ==
    ASSUME NEW m, NEW s, NEW n, Tree(s), Ready(m, s, n)
    PROVE  /\ s[InodeKey(m)] = OldInode(m) /\ s[EntryKey(m)] = OldEntry(m)
           /\ Half(m, s)[InodeKey(m)] = LeftInode(m) /\ Half(m, s)[EntryKey(m)] = OldEntry(m)
           /\ Both(m, s)[InodeKey(m)] = LeftInode(m) /\ Both(m, s)[<<m.cur>>] = <<m.parent>>
           /\ With(s, EntryKey(m), LeftEntry(m))[EntryKey(m)] = LeftEntry(m)
           /\ With(Half(m, s), InodeKey(m), OldInode(m)) = s
           /\ With(Both(m, s), InodeKey(m), OldInode(m)) = With(s, EntryKey(m), LeftEntry(m))
           /\ With(With(s, EntryKey(m), LeftEntry(m)), EntryKey(m), OldEntry(m)) = s
<1>1. /\ IsStore(s) /\ m.cur \in Ids /\ m.id \in Ids /\ m.cur < m.id /\ m.path \in Paths
      /\ s[<<m.cur>>] = <<m.parent>>
    BY TreeStore, Zenon DEF Ready, Found
<1>2. s[InodeKey(m)] = OldInode(m) /\ s[EntryKey(m)] = OldEntry(m)
    BY Zenon DEF Ready, OldInode, OldEntry
<1> DEFINE j == InodeKey(m)
           k == EntryKey(m)
<1>3. j \in Keys /\ k \in Keys /\ <<m.cur>> \in Keys
    BY <1>1, KeyTypes, LastName, Zenon DEF InodeKey, EntryKey
<1>4. j # k /\ j # <<m.cur>> /\ k # <<m.cur>>
    <2>1. m.cur # m.id
        BY <1>1 DEF Ids
    <2> QED BY <2>1, KeysDiffer, Zenon DEF InodeKey, EntryKey
<1> HIDE DEF j, k
<1>5. /\ IsStore(Half(m, s)) /\ Half(m, s)[j] = LeftInode(m)
      /\ \A x \in Keys : x # j => Half(m, s)[x] = s[x]
    BY <1>1, <1>3, Put DEF Half, j
<1>6. /\ Both(m, s)[k] = LeftEntry(m)
      /\ \A x \in Keys : x # k => Both(m, s)[x] = Half(m, s)[x]
    BY <1>3, <1>5, Put DEF Both, k
<1>7. /\ Half(m, s)[k] = OldEntry(m)
      /\ Both(m, s)[j] = LeftInode(m) /\ Both(m, s)[<<m.cur>>] = <<m.parent>>
    BY <1>1, <1>2, <1>3, <1>4, <1>5, <1>6, Zenon DEF j, k
<1>8. With(s, k, LeftEntry(m))[k] = LeftEntry(m)
    BY <1>1, <1>3, Put
<1>9. With(Half(m, s), j, OldInode(m)) = s
    BY <1>1, <1>2, <1>3, PutBack DEF Half, j
<1>10. With(Both(m, s), j, OldInode(m)) = With(s, k, LeftEntry(m))
    BY <1>1, <1>2, <1>3, <1>4, PutBackFirst DEF Half, Both, j, k
<1>11. With(With(s, k, LeftEntry(m)), k, OldEntry(m)) = s
    BY <1>1, <1>2, <1>3, PutBack DEF k
<1> QED BY <1>2, <1>5, <1>7, <1>8, <1>9, <1>10, <1>11, Zenon DEF j, k

(* An operation fails for lack of space, at most once, or takes effect. *)
OneFailure == MaxFail =< 1

LEMMA Applied ==
    ASSUME OneFailure, UndoInv, NEW r, NEW k, NEW v, Outcome(r, k, v), kv' = r[1],
           fails' = IF ~r[2] /\ fails < MaxFail THEN fails + 1 ELSE fails,
           r[2] \in BOOLEAN => After(Main, r)
    PROVE  /\ fails' \in 0 .. MaxFail /\ After(Main, r)
           /\ \/ kv' = kv /\ fails' = MaxFail /\ fails # MaxFail /\ r[2] = FALSE
              \/ kv' = With(kv, k, v) /\ fails' = fails /\ r[2] = TRUE
<1>1. MaxFail \in Nat /\ fails \in 0 .. MaxFail
    BY EngineConstants, Zenon DEF UndoInv
<1>2. CASE r = <<kv, FALSE>> /\ fails < MaxFail
    <2>1. r[1] = kv /\ r[2] = FALSE
        BY <1>2
    <2>2. fails' = fails + 1
        BY <1>2, <2>1
    <2>3. fails' = MaxFail /\ fails # MaxFail /\ fails' \in 0 .. MaxFail
        BY <1>1, <1>2, <2>2 DEF OneFailure
    <2> QED BY <2>1, <2>3, Zenon
<1>3. CASE r = <<With(kv, k, v), TRUE>>
    <2>1. r[1] = With(kv, k, v) /\ r[2] = TRUE
        BY <1>3
    <2> QED BY <1>1, <2>1, Zenon
<1> QED BY <1>2, <1>3, Zenon DEF Outcome

(* The operations a and undo lists b of a call m that is under way. *)
ModifyingAt(m, a, b, s, c) ==
    \/ a = <<Second(m), Third(m)>> /\ c = Half(m, s)
       /\ b = <<<<UndoFirst(m)>>, <<UndoFirst(m), UndoSecond(m)>>>>
    \/ a = <<Third(m)>> /\ c = Both(m, s) /\ b = <<<<UndoFirst(m), UndoSecond(m)>>>>
UndoingAt(m, a, s, c) ==
    \/ a = <<UndoFirst(m)>> /\ c = Half(m, s)
    \/ a = <<UndoFirst(m), UndoSecond(m)>> /\ c = Both(m, s)
    \/ a = <<UndoSecond(m)>> /\ c = With(s, EntryKey(m), LeftEntry(m))

Stages == {"modify", "undo"}
Stands(l, m, a, b, s, c, f) ==
    /\ l = "modify" => ModifyingAt(m, a, b, s, c)
    /\ l = "undo" => UndoingAt(m, a, s, c) /\ f = MaxFail

LEMMA GoesOnPhase ==
    ASSUME NEW m0, Shaped(m0), NEW a, NEW b, NEW l \in Stages,
           NEW s, NEW c, NEW n, n > 0, NEW f,
           Sound(s, n), Ready(m0, s, n),
           Stands(l, m0, a, b, s, c, f)
    PROVE  Shaped(GoesOn(m0, a, b, l)) /\ Phase(GoesOn(m0, a, b, l), s, c, n, f)
           /\ GoesOn(m0, a, b, l).pc = l
<1> PICK m : m = GoesOn(m0, a, b, l)
    BY Zenon
<1>1. Shaped(m) /\ m.pc = l /\ SameCall(m0, m) /\ m.todo = a /\ m.undo = b
    BY SetTodo
<1>2. /\ First(m) = First(m0) /\ Second(m) = Second(m0) /\ Third(m) = Third(m0)
      /\ UndoFirst(m) = UndoFirst(m0) /\ UndoSecond(m) = UndoSecond(m0)
      /\ Half(m, s) = Half(m0, s) /\ Both(m, s) = Both(m0, s)
      /\ EntryKey(m) = EntryKey(m0) /\ LeftEntry(m) = LeftEntry(m0)
      /\ Ready(m, s, n)
    BY <1>1, SameCallSame
<1>3. CASE l = "modify"
    <2>1. Modifying(m, s, c)
        BY <1>1, <1>2, <1>3, Zenon DEF Stands, ModifyingAt, Modifying
    <2> QED BY <1>1, <1>2, <1>3, <2>1, Zenon DEF Phase
<1>4. CASE l = "undo"
    <2>1. Undoing(m, s, c) /\ f = MaxFail
        BY <1>1, <1>2, <1>4, Zenon DEF Stands, UndoingAt, Undoing
    <2> QED BY <1>1, <1>2, <1>4, <2>1, Zenon DEF Phase
<1> QED BY <1>1, <1>3, <1>4, Zenon DEF Stages

LEMMA Proceeds ==
    ASSUME OneThread, UndoInv, Record, th[Main].pc \in {"modify", "undo"},
           NEW a, NEW b, NEW l \in Stages,
           th' = [th EXCEPT ![Main] = GoesOn(th[Main], a, b, l)],
           group' = group, seq' = seq, fails' \in 0 .. MaxFail, seq > 0,
           Sound(before[Main], seq), Ready(th[Main], before[Main], seq),
           Stands(l, th[Main], a, b, before[Main], kv', fails')
    PROVE  UndoInv'
<1>1. Shaped(th[Main]) /\ group' = 0 /\ seq' \in Nat
    BY Zenon DEF UndoInv
<1> DEFINE m == GoesOn(th[Main], a, b, l)
<1>2. Shaped(m) /\ m.pc = l /\ Phase(m, before[Main], kv', seq, fails')
    BY <1>1, GoesOnPhase
<1>3. Phase(m, Began(m), kv', seq', fails')
    BY <1>2, Zenon DEF Began, Stages
<1> QED BY <1>1, <1>2, <1>3, Arrive, Zenon

(* What a step of a modifying call is: the operation k := v takes effect   *)
(* or, once, runs out of space, and the thread goes on accordingly.        *)
Effect(k, v) ==
    /\ group' = group /\ seq' = seq /\ fails' \in 0 .. MaxFail
    /\ \E r : /\ After(Main, r)
              /\ \/ kv' = kv /\ fails' = MaxFail /\ fails # MaxFail /\ r[2] = FALSE
                 \/ kv' = With(kv, k, v) /\ fails' = fails /\ r[2] = TRUE

(* Mkdir, Creat, Rmdir, Unlink: the three operations of a call. *)
LEMMA ModifyingEffect ==
    ASSUME OneThread, OneFailure, UndoInv, Modify(Main), NEW s, NEW n, Tree(s),
           Ready(th[Main], s, n), NEW m, m = th[Main], NEW todo, todo = th[Main].todo
    PROVE  /\ Head(todo) = First(m) /\ kv = s => Effect(InodeKey(m), LeftInode(m))
           /\ Head(todo) = Second(m) /\ kv = Half(m, s) => Effect(EntryKey(m), LeftEntry(m))
           /\ Head(todo) = Third(m) /\ kv = Both(m, s) => Effect(<<m.cur>>, <<Counted(m)>>)
           /\ Head(todo) = UndoFirst(m) /\ kv \in {Half(m, s), Both(m, s)}
                => Effect(InodeKey(m), OldInode(m))
           /\ Head(todo) = UndoSecond(m) /\ kv = With(s, EntryKey(m), LeftEntry(m))
                => Effect(EntryKey(m), OldEntry(m))
<1>1. PICK r \in Apply(Head(todo)) :
          /\ kv' = r[1] /\ group' = group /\ seq' = seq
          /\ fails' = IF ~r[2] /\ fails < MaxFail THEN fails + 1 ELSE fails
          /\ (r[2] \in BOOLEAN => After(Main, r))
    <2>1. Main \in Threads /\ th = [t \in Threads |-> th[t]]
        BY EngineConstants, Zenon DEF UndoInv
    <2> QED BY <2>1, ModifyStep, Zenon
<1>2. ASSUME NEW k, NEW v, Outcome(r, k, v) PROVE Effect(k, v)
    <2>1. /\ fails' \in 0 .. MaxFail /\ After(Main, r)
          /\ \/ kv' = kv /\ fails' = MaxFail /\ fails # MaxFail /\ r[2] = FALSE
             \/ kv' = With(kv, k, v) /\ fails' = fails /\ r[2] = TRUE
        BY <1>1, <1>2, Applied, Zenon
    <2> QED BY <1>1, <2>1, Zenon DEF Effect
<1>3. /\ s[InodeKey(m)] = OldInode(m) /\ s[EntryKey(m)] = OldEntry(m)
      /\ Half(m, s)[InodeKey(m)] = LeftInode(m) /\ Half(m, s)[EntryKey(m)] = OldEntry(m)
      /\ Both(m, s)[InodeKey(m)] = LeftInode(m) /\ Both(m, s)[<<m.cur>>] = <<m.parent>>
      /\ With(s, EntryKey(m), LeftEntry(m))[EntryKey(m)] = LeftEntry(m)
    BY HalfBoth
<1>4. ASSUME Head(todo) = First(m), kv = s PROVE Effect(InodeKey(m), LeftInode(m))
    <2>1. Outcome(r, InodeKey(m), LeftInode(m))
        BY <1>1, <1>3, <1>4, FirstOutcome, Zenon DEF OldInode
    <2> QED BY <1>2, <2>1, Zenon
<1>5. ASSUME Head(todo) = Second(m), kv = Half(m, s) PROVE Effect(EntryKey(m), LeftEntry(m))
    <2>1. Outcome(r, EntryKey(m), LeftEntry(m))
        BY <1>1, <1>3, <1>5, SecondOutcome, Zenon DEF OldEntry
    <2> QED BY <1>2, <2>1, Zenon
<1>6. ASSUME Head(todo) = Third(m), kv = Both(m, s) PROVE Effect(<<m.cur>>, <<Counted(m)>>)
    <2>1. Outcome(r, <<m.cur>>, <<Counted(m)>>)
        BY <1>1, <1>3, <1>6, ThirdOutcome, Zenon
    <2> QED BY <1>2, <2>1, Zenon
<1>7. ASSUME Head(todo) = UndoFirst(m), kv \in {Half(m, s), Both(m, s)}
      PROVE  Effect(InodeKey(m), OldInode(m))
    <2>1. Outcome(r, InodeKey(m), OldInode(m))
        BY <1>1, <1>3, <1>7, UndoFirstOutcome, Zenon DEF OldInode
    <2> QED BY <1>2, <2>1, Zenon
<1>8. ASSUME Head(todo) = UndoSecond(m), kv = With(s, EntryKey(m), LeftEntry(m))
      PROVE  Effect(EntryKey(m), OldEntry(m))
    <2>1. Outcome(r, EntryKey(m), OldEntry(m))
        BY <1>1, <1>3, <1>8, UndoSecondOutcome, Zenon DEF OldEntry
    <2> QED BY <1>2, <2>1, Zenon
<1> QED BY <1>4, <1>5, <1>6, <1>7, <1>8, Zenon

(* A step forward runs out of space and turns to the undo list, or goes on. *)
LEMMA StepForward ==
    ASSUME NEW k, NEW v, Effect(k, v), th[Main].pc = "modify",
           NEW a, Tail(th[Main].todo) = a, NEW b, Tail(th[Main].undo) = b,
           NEW u, Head(th[Main].undo) = u
    PROVE  /\ group' = group /\ seq' = seq /\ fails' \in 0 .. MaxFail
           /\ \/ kv' = kv /\ fails' = MaxFail /\ Continue(Main, u, th[Main].undo, "undo", "EIO")
              \/ kv' = With(kv, k, v) /\ Continue(Main, a, b, "modify", "ok")
BY Zenon DEF Effect, After

(* A step back takes effect: the one failure is behind. *)
LEMMA StepBack ==
    ASSUME NEW k, NEW v, Effect(k, v), th[Main].pc = "undo", fails = MaxFail,
           NEW a, Tail(th[Main].todo) = a
    PROVE  /\ group' = group /\ seq' = seq /\ fails' \in 0 .. MaxFail /\ fails' = MaxFail
           /\ kv' = With(kv, k, v) /\ Continue(Main, a, th[Main].undo, "undo", "EIO")
BY Zenon DEF Effect, After

LEMMA ModifyForward ==
    ASSUME OneThread, NamesFit, OneFailure, UndoInv, Record, Modify(Main), th[Main].pc = "modify"
    PROVE  UndoInv'
<1> DEFINE m == th[Main]
           s == before[Main]
<1>1. seq > 0 /\ Sound(s, seq) /\ Ready(m, s, seq) /\ Modifying(m, s, kv) /\ seq \in Nat
    <2>1. m.pc \notin {"down", "store", "idle", "undo"} /\ m.pc \notin LookupPcs
        BY Zenon DEF LookupPcs
    <2> QED BY <2>1, Zenon DEF UndoInv, Phase
<1>2. Tree(s)
    BY <1>1, Zenon DEF Sound
<1>3. CASE /\ m.todo = <<First(m), Second(m), Third(m)>>
           /\ m.undo = <<<<>>, <<UndoFirst(m)>>, <<UndoFirst(m), UndoSecond(m)>>>>
           /\ kv = s
    <2> DEFINE a == <<Second(m), Third(m)>>
               b == <<<<UndoFirst(m)>>, <<UndoFirst(m), UndoSecond(m)>>>>
    <2>1. Head(m.todo) = First(m) /\ Tail(m.todo) = a /\ Head(m.undo) = <<>> /\ Tail(m.undo) = b
        BY <1>3, Rows
    <2>2. Effect(InodeKey(m), LeftInode(m))
        BY <1>1, <1>2, <1>3, <2>1, ModifyingEffect, Zenon
    <2>3. /\ group' = group /\ seq' = seq /\ fails' \in 0 .. MaxFail
          /\ \/ kv' = kv /\ Continue(Main, <<>>, m.undo, "undo", "EIO")
             \/ kv' = With(kv, InodeKey(m), LeftInode(m)) /\ Continue(Main, a, b, "modify", "ok")
        BY <2>1, <2>2, StepForward, Zenon
    <2>4. CASE kv' = kv /\ Continue(Main, <<>>, m.undo, "undo", "EIO")
        <3>1. Return(Main, "EIO")
            BY <2>4, Zenon DEF Continue
        <3> QED BY <1>1, <1>3, <2>3, <2>4, <3>1, Returned, Zenon
    <2>5. CASE kv' = With(kv, InodeKey(m), LeftInode(m)) /\ Continue(Main, a, b, "modify", "ok")
        <3>1. th' = [th EXCEPT ![Main] = GoesOn(m, a, b, "modify")]
            BY <2>5, Rows, Zenon DEF Continue
        <3>2. ModifyingAt(m, a, b, s, kv')
            BY <1>3, <2>5, Zenon DEF ModifyingAt, Half
        <3> HIDE DEF a, b
        <3> QED BY <1>1, <2>3, <3>1, <3>2, Proceeds, Zenon DEF Stages, Stands
    <2> QED BY <2>3, <2>4, <2>5, Zenon
<1>4. CASE /\ m.todo = <<Second(m), Third(m)>>
           /\ m.undo = <<<<UndoFirst(m)>>, <<UndoFirst(m), UndoSecond(m)>>>>
           /\ kv = Half(m, s)
    <2> DEFINE a == <<Third(m)>>
               b == <<<<UndoFirst(m), UndoSecond(m)>>>>
               u == <<UndoFirst(m)>>
    <2>1. Head(m.todo) = Second(m) /\ Tail(m.todo) = a /\ Head(m.undo) = u /\ Tail(m.undo) = b
        BY <1>4, Rows
    <2>2. Effect(EntryKey(m), LeftEntry(m))
        BY <1>1, <1>2, <1>4, <2>1, ModifyingEffect, Zenon
    <2>3. /\ group' = group /\ seq' = seq /\ fails' \in 0 .. MaxFail
          /\ \/ kv' = kv /\ fails' = MaxFail /\ Continue(Main, u, m.undo, "undo", "EIO")
             \/ kv' = With(kv, EntryKey(m), LeftEntry(m)) /\ Continue(Main, a, b, "modify", "ok")
        BY <2>1, <2>2, StepForward, Zenon
    <2>4. CASE kv' = kv /\ fails' = MaxFail /\ Continue(Main, u, m.undo, "undo", "EIO")
        <3>1. th' = [th EXCEPT ![Main] = GoesOn(m, u, m.undo, "undo")]
            BY <2>4, Rows, Zenon DEF Continue
        <3>2. UndoingAt(m, u, s, kv')
            BY <1>4, <2>4, Zenon DEF UndoingAt
        <3> HIDE DEF u
        <3> QED BY <1>1, <2>3, <2>4, <3>1, <3>2, Proceeds, Zenon DEF Stages, Stands
    <2>5. CASE kv' = With(kv, EntryKey(m), LeftEntry(m)) /\ Continue(Main, a, b, "modify", "ok")
        <3>1. th' = [th EXCEPT ![Main] = GoesOn(m, a, b, "modify")]
            BY <2>5, Rows, Zenon DEF Continue
        <3>2. ModifyingAt(m, a, b, s, kv')
            BY <1>4, <2>5, Zenon DEF ModifyingAt, Both
        <3> HIDE DEF a, b
        <3> QED BY <1>1, <2>3, <3>1, <3>2, Proceeds, Zenon DEF Stages, Stands
    <2> QED BY <2>3, <2>4, <2>5, Zenon
<1>5. CASE /\ m.todo = <<Third(m)>> /\ m.undo = <<<<UndoFirst(m), UndoSecond(m)>>>>
           /\ kv = Both(m, s)
    <2> DEFINE u == <<UndoFirst(m), UndoSecond(m)>>
    <2>1. Head(m.todo) = Third(m) /\ Tail(m.todo) = <<>> /\ Head(m.undo) = u
        BY <1>5, Rows, Zenon
    <2>2. Effect(<<m.cur>>, <<Counted(m)>>)
        BY <1>1, <1>2, <1>5, <2>1, ModifyingEffect, Zenon
    <2> PICK b : b = Tail(m.undo)
        BY Zenon
    <2>3. /\ group' = group /\ seq' = seq /\ fails' \in 0 .. MaxFail
          /\ \/ kv' = kv /\ fails' = MaxFail /\ Continue(Main, u, m.undo, "undo", "EIO")
             \/ kv' = With(kv, <<m.cur>>, <<Counted(m)>>) /\ Continue(Main, <<>>, b, "modify", "ok")
        BY <2>1, <2>2, StepForward, Zenon
    <2>4. CASE kv' = kv /\ fails' = MaxFail /\ Continue(Main, u, m.undo, "undo", "EIO")
        <3>1. th' = [th EXCEPT ![Main] = GoesOn(m, u, m.undo, "undo")]
            BY <2>4, Rows, Zenon DEF Continue
        <3>2. UndoingAt(m, u, s, kv')
            BY <1>5, <2>4, Zenon DEF UndoingAt
        <3> HIDE DEF u
        <3> QED BY <1>1, <2>3, <2>4, <3>1, <3>2, Proceeds, Zenon DEF Stages, Stands
    <2>5. CASE kv' = With(kv, <<m.cur>>, <<Counted(m)>>) /\ Continue(Main, <<>>, b, "modify", "ok")
        <3>1. Return(Main, "ok")
            BY <2>5, Zenon DEF Continue
        <3>2. kv' = Finished(m, s)
            BY <1>5, <2>5, Zenon DEF Finished
        <3>3. Sound(kv', seq)
            BY <1>1, <3>2, FinishedSound, Zenon
        <3> QED BY <1>1, <2>3, <3>1, <3>3, Returned, Zenon
    <2> QED BY <2>3, <2>4, <2>5, Zenon
<1> QED BY <1>1, <1>3, <1>4, <1>5, Zenon DEF Modifying

LEMMA ModifyBack ==
    ASSUME OneThread, OneFailure, UndoInv, Record, Modify(Main), th[Main].pc = "undo"
    PROVE  UndoInv'
<1> DEFINE m == th[Main]
           s == before[Main]
           left == With(s, EntryKey(m), LeftEntry(m))
<1>1. /\ seq > 0 /\ Sound(s, seq) /\ Ready(m, s, seq) /\ Undoing(m, s, kv) /\ seq \in Nat
      /\ fails = MaxFail
    <2>1. m.pc \notin {"down", "store", "idle", "modify"} /\ m.pc \notin LookupPcs
        BY Zenon DEF LookupPcs
    <2> QED BY <2>1, Zenon DEF UndoInv, Phase
<1>2. Tree(s)
    BY <1>1, Zenon DEF Sound
<1>3. /\ With(Half(m, s), InodeKey(m), OldInode(m)) = s
      /\ With(Both(m, s), InodeKey(m), OldInode(m)) = left
      /\ With(left, EntryKey(m), OldEntry(m)) = s
    BY <1>1, <1>2, HalfBoth, Zenon
<1>4. CASE m.todo = <<UndoFirst(m)>> /\ kv = Half(m, s)
    <2>1. Head(m.todo) = UndoFirst(m) /\ Tail(m.todo) = <<>>
        BY <1>4, Rows, Zenon
    <2>2. Effect(InodeKey(m), OldInode(m))
        BY <1>1, <1>2, <1>4, <2>1, ModifyingEffect, Zenon
    <2>3. /\ group' = group /\ seq' = seq /\ fails' \in 0 .. MaxFail
          /\ kv' = With(kv, InodeKey(m), OldInode(m)) /\ Continue(Main, <<>>, m.undo, "undo", "EIO")
        BY <1>1, <2>1, <2>2, StepBack, Zenon
    <2>4. kv' = s /\ Return(Main, "EIO")
        BY <1>3, <1>4, <2>3, Zenon DEF Continue
    <2> QED BY <1>1, <2>3, <2>4, Returned, Zenon
<1>5. CASE m.todo = <<UndoFirst(m), UndoSecond(m)>> /\ kv = Both(m, s)
    <2> DEFINE a == <<UndoSecond(m)>>
    <2>1. Head(m.todo) = UndoFirst(m) /\ Tail(m.todo) = a
        BY <1>5, Rows
    <2>2. Effect(InodeKey(m), OldInode(m))
        BY <1>1, <1>2, <1>5, <2>1, ModifyingEffect, Zenon
    <2>3. /\ group' = group /\ seq' = seq /\ fails' \in 0 .. MaxFail /\ fails' = MaxFail
          /\ kv' = With(kv, InodeKey(m), OldInode(m)) /\ Continue(Main, a, m.undo, "undo", "EIO")
        BY <1>1, <2>1, <2>2, StepBack, Zenon
    <2>4. th' = [th EXCEPT ![Main] = GoesOn(m, a, m.undo, "undo")]
        BY <2>3, Rows, Zenon DEF Continue
    <2>5. UndoingAt(m, a, s, kv')
        BY <1>3, <1>5, <2>3, Zenon DEF UndoingAt
    <2> HIDE DEF a
    <2> QED BY <1>1, <2>3, <2>4, <2>5, Proceeds, Zenon DEF Stages, Stands
<1>6. CASE m.todo = <<UndoSecond(m)>> /\ kv = left
    <2>1. Head(m.todo) = UndoSecond(m) /\ Tail(m.todo) = <<>>
        BY <1>6, Rows, Zenon
    <2>2. Effect(EntryKey(m), OldEntry(m))
        BY <1>1, <1>2, <1>6, <2>1, ModifyingEffect, Zenon
    <2>3. /\ group' = group /\ seq' = seq /\ fails' \in 0 .. MaxFail
          /\ kv' = With(kv, EntryKey(m), OldEntry(m)) /\ Continue(Main, <<>>, m.undo, "undo", "EIO")
        BY <1>1, <2>1, <2>2, StepBack, Zenon
    <2>4. kv' = s /\ Return(Main, "EIO")
        BY <1>3, <1>6, <2>3, Zenon DEF Continue
    <2> QED BY <1>1, <2>3, <2>4, Returned, Zenon
<1> QED BY <1>1, <1>4, <1>5, <1>6, Zenon DEF Undoing

-----------------------------------------------------------------------------
(* The invariant and what follows from it *)

LEMMA UndoInit == HInit => UndoInv
<1> SUFFICES ASSUME HInit PROVE UndoInv
    OBVIOUS
<1> DEFINE m == AtPc(Idle, "down")
<1>1. Shaped(Idle)
    BY Zenon DEF Shaped, Fields, Idle
<1>2. Shaped(m) /\ m.pc = "down" /\ m.ret = "ok"
    <2>1. Idle.ret = "ok"
        BY DEF Idle
    <2> QED BY <1>1, <2>1, SetPc
<1>3. th = [t \in Threads |-> m]
    BY Zenon DEF HInit, Init, AtPc
<1> HIDE DEF m
<1>4. th = [t \in Threads |-> th[t]] /\ th[Main] = m
    BY <1>3, EngineConstants
<1>5. before = [t \in Threads |-> before[t]]
    BY DEF HInit
<1>6. group = 0 /\ seq = 0 /\ fails \in 0 .. MaxFail /\ kv = [k \in Keys |-> <<>>]
    BY EngineConstants DEF HInit, Init, Keys
<1>7. Phase(th[Main], before[Main], kv, seq, fails)
    BY <1>2, <1>4, <1>6, Zenon DEF Phase
<1> QED BY <1>2, <1>4, <1>5, <1>6, <1>7 DEF UndoInv

LEMMA UndoNext ==
    ASSUME OneThread, NamesFit, OneFailure, UndoInv, [HNext]_<<vars, before>>
    PROVE  UndoInv'
<1>1. CASE UNCHANGED <<vars, before>>
    <2>1. kv' = kv /\ group' = group /\ seq' = seq /\ th' = th /\ fails' = fails /\ before' = before
        BY <1>1 DEF vars
    <2> QED BY <2>1, Zenon DEF UndoInv
<1>2. CASE HNext
    <2>1. PICK t \in Threads : Step(t) \/ \E call \in Calls : Call(t, call[1], call[2])
        BY <1>2, Zenon DEF HNext, Next
    <2>2. t = Main /\ Record
        BY <1>2, <2>1, Zenon DEF OneThread, HNext
    <2>3. CASE \E call \in Calls : Call(Main, call[1], call[2])
        BY <2>2, <2>3, CallKeeps, Zenon
    <2>4. CASE InitThread(Main) \/ StoreSeq(Main)
        BY <2>2, <2>4, InitThreadKeeps, StoreSeqKeeps, Zenon
    <2>5. CASE LookupInode(Main) \/ LookupDentry(Main) \/ Stat(Main)
        BY <2>2, <2>5, LookupInodeKeeps, LookupDentryKeeps, StatKeeps, Zenon
    <2>6. CASE ReadParent(Main) \/ CheckExists(Main)
        BY <2>2, <2>6, ReadParentKeeps, CheckExistsKeeps, Zenon
    <2>7. CASE GetNewInodeId(Main) \/ GetNewGroup(Main)
        BY <2>2, <2>7, GetNewInodeIdKeeps, GetNewGroupKeeps, Zenon
    <2>8. CASE CheckTarget(Main)
        BY <2>2, <2>8, CheckTargetKeeps, Zenon
    <2>9. CASE Modify(Main)
        <3>1. th[Main].pc = "modify" \/ th[Main].pc = "undo"
            BY <2>9, Zenon DEF Modify
        <3> QED BY <2>2, <2>9, <3>1, ModifyForward, ModifyBack, Zenon
    <2>10. CASE Step(Main)
        BY <2>4, <2>5, <2>6, <2>7, <2>8, <2>9, <2>10, Zenon DEF Step
    <2> QED BY <2>1, <2>2, <2>3, <2>10, Zenon
<1> QED BY <1>1, <1>2, Zenon

(* The store of a tree, as TreeOK sees it. *)
LEMMA TreeEntries ==
    ASSUME Tree(kv), NEW k \in DentryKeys
    PROVE  Len(kv[k]) =< 1 /\
            (kv[k] # <<>> => /\ kv[<<k[1]>>] # <<>> /\ kv[<<k[1]>>][1].dir
                             /\ kv[<<kv[k][1]>>] # <<>> /\ k[1] < kv[k][1])
<1>1. PICK p \in Ids, n \in Names : k = <<p, n>>
    BY DEF DentryKeys
<1>2. k[1] = p
    BY <1>1
<1>3. CASE kv[k] = <<>>
    BY <1>3
<1>4. CASE kv[k] # <<>>
    <2>1. PICK i \in Ids : kv[<<p, n>>] = <<i>>
        BY <1>1, <1>4, Zenon DEF Tree, EntriesLead
    <2>2. p < i /\ kv[<<i>>] # <<>> /\ kv[<<p>>] # <<>> /\ kv[<<p>>][1].dir
        BY <2>1, TreeFacts, Zenon
    <2>3. kv[k][1] = i /\ Len(kv[k]) = 1
        BY <1>1, <2>1
    <2> QED BY <1>2, <2>2, <2>3
<1> QED BY <1>3, <1>4, Zenon

LEMMA TreePoints ==
    ASSUME Tree(kv), NEW i \in Ids, i # kRootInodeId
    PROVE  Cardinality(Points(i)) = Len(kv[<<i>>])
<1>1. ASSUME NEW p \in Ids, NEW n \in Names
      PROVE  i \in Range(kv[<<p, n>>]) <=> kv[<<p, n>>] = <<i>>
    <2>1. CASE kv[<<p, n>>] = <<>>
        BY <2>1 DEF Range
    <2>2. CASE kv[<<p, n>>] # <<>>
        <3>1. PICK j \in Ids : kv[<<p, n>>] = <<j>>
            BY <2>2, Zenon DEF Tree, EntriesLead
        <3>2. Range(<<j>>) = {j}
            BY DEF Range
        <3> QED BY <3>1, <3>2
    <2> QED BY <2>1, <2>2, Zenon
<1>2. CASE kv[<<i>>] = <<>>
    <2>1. \A p \in Ids, n \in Names : kv[<<p, n>>] # <<i>>
        BY <1>2, NoEntry, Zenon
    <2>2. Points(i) = {}
        BY <1>1, <2>1 DEF Points, DentryKeys
    <2>3. Len(kv[<<i>>]) = 0
        BY <1>2
    <2> QED BY <2>2, <2>3, FS_EmptySet, Zenon
<1>3. CASE kv[<<i>>] # <<>>
    <2>1. PICK p \in Ids, n \in Names : kv[<<p, n>>] = <<i>>
        BY <1>3, Zenon DEF Tree, AllNamed
    <2>2. \A q \in Ids, l \in Names : kv[<<q, l>>] = <<i>> => q = p /\ l = n
        <3>1. kv[<<p, n>>] # <<>>
            BY <2>1, Rows
        <3>2. \A q \in Ids, l \in Names : kv[<<q, l>>] = kv[<<p, n>>] => p = q /\ n = l
            BY <3>1 DEF Tree, NamedOnce
        <3> QED BY <2>1, <3>2, Zenon
    <2>3. Points(i) = {<<p, n>>}
        BY <1>1, <2>1, <2>2 DEF Points, DentryKeys
    <2>4. Len(kv[<<i>>]) = 1
        <3>1. PICK x \in Inodes : kv[<<i>>] = <<x>>
            BY <1>3, Zenon DEF Tree, InodesOnce
        <3> QED BY <3>1
    <2> QED BY <2>3, <2>4, FS_Singleton, Zenon
<1> QED BY <1>2, <1>3, Zenon

(* Mkdir, Creat, Rmdir and Unlink of one thread, whatever it calls and in  *)
(* whatever order: a call finds a tree, and after each of its operations   *)
(* the store is that tree with what the call has done and not yet undone.  *)
THEOREM UndoInvHolds ==
    ASSUME OneThread, NamesFit, OneFailure
    PROVE  HSpec => []UndoInv
<1>1. HInit => UndoInv
    BY UndoInit
<1>2. UndoInv /\ [HNext]_<<vars, before>> => UndoInv'
    BY UndoNext, Zenon
<1> QED BY <1>1, <1>2, PTL DEF HSpec

(* Mkdir, Creat, Rmdir, Unlink: for any names, calls and group size, the   *)
(* pairs form a tree between the calls of one thread, if at most one       *)
(* operation runs out of space.                                            *)
THEOREM TreeOKHolds ==
    ASSUME OneThread, NamesFit, OneFailure
    PROVE  HSpec => []TreeOK
<1>1. UndoInv => TreeOK
    <2> SUFFICES ASSUME UndoInv, Quiet PROVE TreeOK
        BY Zenon DEF TreeOK
    <2>1. th[Main].pc = "idle"
        BY EngineConstants, Zenon DEF Quiet
    <2>2. Tree(kv)
        <3>1. th[Main].pc \notin {"down", "store", "modify", "undo"} /\ th[Main].pc \notin LookupPcs
            BY <2>1, Zenon DEF LookupPcs
        <3> QED BY <3>1, Zenon DEF UndoInv, Phase, Sound
    <2>3. ASSUME NEW i \in Ids \ {kRootInodeId}, kv[<<i>>] # <<>>, kv[<<i>>][1].dir
          PROVE  kv[<<i>>][1].children = Cardinality(Entries(i))
        BY <2>2, <2>3, Zenon DEF Tree, ChildrenOK, EntriesOf, Entries
    <2>4. \A i \in Ids \ {kRootInodeId} : Cardinality(Points(i)) = Len(kv[<<i>>])
        BY <2>2, TreePoints, Zenon
    <2> QED BY <2>2, <2>3, <2>4, TreeEntries, Zenon DEF TreeOK
<1> QED BY <1>1, UndoInvHolds, PTL

(* The undo paths of Mkdir, Rmdir, Creat and Unlink: for any names, calls  *)
(* and group size, a call of one thread that returns an error has left the *)
(* store as it found it, if at most one operation runs out of space.       *)
THEOREM ErrorsUndoneHolds ==
    ASSUME OneThread, NamesFit, OneFailure
    PROVE  HSpec => []ErrorsUndone
<1>1. UndoInv => ErrorsUndone
    <2> SUFFICES ASSUME UndoInv, Quiet, NEW t \in Threads, th[t].ret # "ok" PROVE kv = before[t]
        BY Zenon DEF ErrorsUndone
    <2>1. t = Main /\ th[Main].pc = "idle"
        BY Zenon DEF Quiet, OneThread
    <2>2. th[Main].pc \notin {"down", "store", "modify", "undo"} /\ th[Main].pc \notin LookupPcs
        BY <2>1, Zenon DEF LookupPcs
    <2> QED BY <2>1, <2>2, Zenon DEF UndoInv, Phase
<1> QED BY <1>1, UndoInvHolds, PTL

(* What a call under way has done and not undone to a tree leaves at most  *)
(* one value under an inode key.                                           *)
LEMMA AloneOnce ==
    ASSUME NEW m, NEW s, Tree(s), NEW c,
           c \in {s, Half(m, s), Both(m, s), With(s, EntryKey(m), LeftEntry(m))}
    PROVE  \A i \in Ids : Once(c[<<i>>])
<1>1. IsStore(s) /\ \A i \in Ids : Once(s[<<i>>])
    BY OnceFacts, Zenon DEF Tree, IsStore, InodesOnce
<1>2. Once(LeftInode(m)) /\ \A i \in Ids : <<i>> \in Keys /\ <<i>> # EntryKey(m)
    BY OnceFacts, KeyTypes, KeysDiffer, Zenon DEF LeftInode, EntryKey
<1>3. /\ IsStore(Half(m, s))
      /\ \A x \in Keys : Half(m, s)[x] = IF x = InodeKey(m) THEN LeftInode(m) ELSE s[x]
    BY <1>1, Written DEF Half
<1>4. \A x \in Keys : Both(m, s)[x] = IF x = EntryKey(m) THEN LeftEntry(m) ELSE Half(m, s)[x]
    BY <1>3, Written DEF Both
<1>5. \A x \in Keys : With(s, EntryKey(m), LeftEntry(m))[x] = IF x = EntryKey(m) THEN LeftEntry(m) ELSE s[x]
    BY <1>1, Written
<1>6. \A i \in Ids : Once(Half(m, s)[<<i>>])
    BY <1>1, <1>2, <1>3, Zenon
<1>7. \A i \in Ids : Once(Both(m, s)[<<i>>])
    BY <1>2, <1>4, <1>6, Zenon
<1>8. \A i \in Ids : Once(With(s, EntryKey(m), LeftEntry(m))[<<i>>])
    BY <1>1, <1>2, <1>5, Zenon
<1> QED BY <1>1, <1>6, <1>7, <1>8, Zenon

(* GetNewInodeId, one thread: no inode number is given to two inodes, also *)
(* when a removal runs out of space and puts its inode back.               *)
THEOREM OneInodePerIdAlone ==
    ASSUME OneThread, NamesFit, OneFailure
    PROVE  HSpec => []OneInodePerId
<1>1. UndoInv => OneInodePerId
    <2> SUFFICES ASSUME UndoInv, NEW i \in Ids PROVE Len(kv[<<i>>]) =< 1
        BY Zenon DEF OneInodePerId
    <2> DEFINE m == th[Main]
               s == before[Main]
    <2>1. \/ kv = [k \in Keys |-> <<>>]
          \/ Tree(kv)
          \/ Tree(s) /\ (Modifying(m, s, kv) \/ Undoing(m, s, kv))
        BY Zenon DEF UndoInv, Phase, Sound
    <2>2. Once(kv[<<i>>])
        <3>1. CASE kv = [k \in Keys |-> <<>>]
            BY <3>1, KeyTypes, OnceFacts, Zenon
        <3>2. CASE Tree(kv)
            BY <3>2, AloneOnce, Zenon
        <3>3. CASE Tree(s) /\ (Modifying(m, s, kv) \/ Undoing(m, s, kv))
            <4>1. kv \in {s, Half(m, s), Both(m, s), With(s, EntryKey(m), LeftEntry(m))}
                BY <3>3, Zenon DEF Modifying, Undoing
            <4> QED BY <3>3, <4>1, AloneOnce, Zenon
        <3> QED BY <2>1, <3>1, <3>2, <3>3, Zenon
    <2>3. Len(<<>>) =< 1 /\ \A x : Len(<<x>>) =< 1
        OBVIOUS
    <2> QED BY <2>2, <2>3, Zenon DEF Once
<1> QED BY <1>1, UndoInvHolds, PTL

=============================================================================
