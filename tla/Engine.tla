------------------------------- MODULE Engine -------------------------------
(***************************************************************************)
(* The file-system layer: fs/engine/engine.cc, with fs/common and the      *)
(* inode numbers of fs/central.                                            *)
(*                                                                         *)
(* An Engine keeps inodes and directory entries as pairs of the key-value  *)
(* store.  Its threads run Mkdir, Rmdir, Creat, Unlink and Stat; each call *)
(* is a row of key-value operations, one step each.  CentralLockInode and  *)
(* CentralUnlockInode have empty bodies, so nothing orders the steps of    *)
(* two threads.                                                            *)
(*                                                                         *)
(* The store is taken as atomic per operation.  INSERT does not look for   *)
(* an existing pair, so a key may sit in several slots; a search meets     *)
(* them in slot order, which is the order of the sequence kv[key].         *)
(*                                                                         *)
(* Mut_X is X with a seeded fault, to see that the properties notice it.   *)
(***************************************************************************)
EXTENDS Integers, Sequences, FiniteSets, Functions

CONSTANTS
    Threads,     \* threads of one Engine
    Main,        \* the thread with thread_id 0
    Early,       \* threads that may call before Main has initialised
    Names,       \* path components
    Calls,       \* the calls threads make, as <<operation, path>>
    GroupSize,   \* kInodeIdGroupSize
    MaxId,       \* bound: largest inode id
    Wrap,        \* children counts wrap at Wrap (2^64 in the code)
    MaxFail      \* bound: key-value operations that run out of space

kRootInodeId == 0
Ids == 0 .. MaxId
InodeKeys == {<<i>> : i \in Ids}
DentryKeys == {<<i, n>> : i \in Ids, n \in Names}
Inodes == [dir : BOOLEAN, children : 0 .. Wrap - 1]
NoInode == [dir |-> FALSE, children |-> 0]
Paths == {<<n>> : n \in Names} \cup {<<d, n>> : d, n \in Names}
Ops == {"Mkdir", "Rmdir", "Creat", "Unlink", "Stat"}
Making(op) == op \in {"Mkdir", "Creat"}
LastComponent(path) == path[Len(path)]

(* Every call on every path. *)
AnyCall == Ops \X Paths

ASSUME EngineConstants ==
    /\ Main \in Threads /\ Early \subseteq Threads /\ Calls \subseteq AnyCall
    /\ GroupSize \in Nat \ {0} /\ MaxId \in Nat /\ Wrap \in Nat \ {0} /\ MaxFail \in Nat

VARIABLES
    kv,          \* the store: the values under a key, in slot order
    group,       \* inode_id_group_
    seq,         \* inode_id_seq_in_group_
    th,          \* the threads: program counter and locals of the call
    fails        \* operations that ran out of space so far

vars == <<kv, group, seq, th, fails>>

Idle == [pc |-> "idle", op |-> "Stat", path |-> <<>>, at |-> 1, cur |-> 0,
         parent |-> NoInode, id |-> 0, target |-> NoInode, todo |-> <<>>,
         undo |-> <<>>, ret |-> "ok"]

Init ==
    /\ kv = [k \in InodeKeys \cup DentryKeys |-> <<>>]
    /\ group = 0 /\ seq = 0 /\ fails = 0
    /\ th = [t \in Threads |-> [Idle EXCEPT !.pc = "down"]]

-----------------------------------------------------------------------------
(* Key-value operations of the client: the outcomes, as <<store, ok>>. *)

NoSpace == IF fails < MaxFail THEN {<<kv, FALSE>>} ELSE {}

(* kv_insert_sync takes an empty slot anywhere. *)
kv_insert_sync(k, v) ==
    NoSpace \cup {<<[kv EXCEPT ![k] = SubSeq(@, 1, i) \o <<v>> \o SubSeq(@, i + 1, Len(@))], TRUE>>
                   : i \in 0 .. Len(kv[k])}

(* kv_update_sync of a missing key fails. *)
kv_update_sync(k, v) ==
    IF kv[k] = <<>> THEN {<<kv, FALSE>>}
    ELSE NoSpace \cup {<<[kv EXCEPT ![k][1] = v], TRUE>>}

(* kv_delete_sync of a missing key succeeds. *)
kv_delete_sync(k) ==
    NoSpace \cup {<<IF kv[k] = <<>> THEN kv ELSE [kv EXCEPT ![k] = Tail(@)], TRUE>>}

Apply(o) ==
    CASE o.kind = "insert" -> kv_insert_sync(o.key, o.val)
      [] o.kind = "update" -> kv_update_sync(o.key, o.val)
      [] OTHER             -> kv_delete_sync(o.key)

InsertInode(i, x) == [kind |-> "insert", key |-> <<i>>, val |-> x]
InsertDentry(p, n, i) == [kind |-> "insert", key |-> <<p, n>>, val |-> i]
UpdateInode(i, x) == [kind |-> "update", key |-> <<i>>, val |-> x]
DeleteInode(i) == [kind |-> "delete", key |-> <<i>>]
DeleteDentry(p, n) == [kind |-> "delete", key |-> <<p, n>>]

Local == UNCHANGED <<kv, group, seq, fails>>
Return(t, code) == th' = [th EXCEPT ![t] = [Idle EXCEPT !.ret = code]]
Goto(t, l) == th' = [th EXCEPT ![t].pc = l]

-----------------------------------------------------------------------------
(* InitThread *)

(* The root inode is inserted, whatever the outcome; its children field is *)
(* never set.                                                              *)
InitThread(t) ==
    /\ th[t].pc = "down"
    /\ IF t = Main
       THEN \E x \in {y \in Inodes : y.dir} : \E r \in kv_insert_sync(<<kRootInodeId>>, x) :
               /\ kv' = r[1] /\ fails' = IF r[2] THEN fails ELSE fails + 1
               /\ Goto(t, "store")
               /\ UNCHANGED <<group, seq>>
       ELSE Goto(t, "idle") /\ Local

(* The sequence restarts behind the root's number. *)
Mut_StoreSeq(t) ==
    /\ th[t].pc = "store"
    /\ Goto(t, "idle")
    /\ UNCHANGED <<kv, group, seq, fails>>
StoreSeq(t) ==
    /\ th[t].pc = "store"
    /\ seq' = 1
    /\ Goto(t, "idle")
    /\ UNCHANGED <<kv, group, fails>>

-----------------------------------------------------------------------------
(* Path lookup *)

(* Bound: a call that makes an inode starts only while ids are left. *)
Room == seq + 2 * Cardinality({u \in Threads : Making(th[u].op)}) + 1 < MaxId

(* A call begins.  Mkdir, Rmdir, Creat and Unlink look up the directory    *)
(* part of the path, Stat the whole path.                                  *)
Call(t, op, path) ==
    /\ th[t].pc = "idle"
    /\ t \in Early \/ th[Main].pc \notin {"down", "store"}
    /\ Making(op) => Room
    /\ th' = [th EXCEPT ![t] = [Idle EXCEPT !.op = op, !.path = path, !.cur = kRootInodeId,
                 !.pc = IF op # "Stat" /\ Len(path) = 1 THEN "parent" ELSE "root"]]
    /\ UNCHANGED <<kv, group, seq, fails>>

(* GetInodeById of a directory on the way, with CheckReadPermission. *)
LookupInode(t) ==
    LET slots == kv[<<th[t].cur>>] IN
    /\ th[t].pc \in {"root", "walk"}
    /\ \/ slots = <<>> /\ Return(t, "ENOENT")
       \/ slots # <<>> /\ Return(t, "EACCES")
       \/ slots # <<>> /\ th[t].pc = "walk" /\ ~Head(slots).dir /\ Return(t, "ENOTDIR")
       \/ slots # <<>> /\ (th[t].pc = "walk" => Head(slots).dir) /\ Goto(t, "dentry")
    /\ Local

(* GetDentryByParentIdAndName of the next component.  The last one ends    *)
(* PathLookupToDentry.                                                     *)
LookupDentry(t) ==
    LET me == th[t]
        slots == kv[<<me.cur, me.path[me.at]>>]
        end == Len(me.path) - (IF me.op = "Stat" THEN 0 ELSE 1)
    IN
    /\ me.pc = "dentry"
    /\ IF slots = <<>> THEN Return(t, "ENOENT")
       ELSE th' = [th EXCEPT ![t].cur = Head(slots), ![t].at = @ + 1,
                      ![t].pc = IF me.at < end THEN "walk"
                                ELSE IF me.op = "Stat" THEN "stat" ELSE "parent"]
    /\ Local

(* Stat ends with the inode. *)
Stat(t) ==
    /\ th[t].pc = "stat"
    /\ Return(t, IF kv[<<th[t].cur>>] = <<>> THEN "ENOENT" ELSE "ok")
    /\ Local

(* The parent inode, with its type and CheckWritePermission. *)
ReadParent(t) ==
    LET slots == kv[<<th[t].cur>>] IN
    /\ th[t].pc = "parent"
    /\ \/ slots = <<>> /\ Return(t, "ENOENT")
       \/ slots # <<>> /\ ~Head(slots).dir /\ Return(t, "ENOTDIR")
       \/ slots # <<>> /\ Head(slots).dir /\ Return(t, "EACCES")
       \/ slots # <<>> /\ Head(slots).dir
          /\ th' = [th EXCEPT ![t].parent = Head(slots), ![t].pc = "exists"]
    /\ Local

(* Is the name taken?  Creating needs it free, removing needs it. *)
CheckExists(t) ==
    LET me == th[t]
        slots == kv[<<me.cur, LastComponent(me.path)>>]
    IN
    /\ me.pc = "exists"
    /\ IF Making(me.op)
       THEN IF slots # <<>> THEN Return(t, "EEXIST") ELSE Goto(t, "newid")
       ELSE IF slots = <<>> THEN Return(t, "ENOENT")
            ELSE th' = [th EXCEPT ![t].id = Head(slots), ![t].pc = "target"]
    /\ Local

-----------------------------------------------------------------------------
(* GetNewInodeId *)

(* The KV operations of Mkdir and Creat, in order, and for each the        *)
(* operations that undo the earlier ones when it fails.  Creat leaves the  *)
(* children of a file unset; nothing reads them.                           *)
MakeTodo(p, x, n, i, dir) ==
    << InsertInode(i, [dir |-> dir, children |-> 0]), InsertDentry(p, n, i),
       UpdateInode(p, [x EXCEPT !.children = (@ + 1) % Wrap]) >>
Mut_MakeUndo(p, n, i) == << <<>>, <<>>, <<DeleteInode(i), DeleteDentry(p, n)>> >>
MakeUndo(p, n, i) == << <<>>, <<DeleteInode(i)>>, <<DeleteInode(i), DeleteDentry(p, n)>> >>

(* With the number known: the inode is filled and the KV operations begin. *)
Create(t, s) ==
    LET me == th[t]
        i == group * GroupSize + s
        n == LastComponent(me.path)
    IN  th' = [th EXCEPT ![t].pc = "modify", ![t].id = i,
                  ![t].todo = MakeTodo(me.cur, me.parent, n, i, me.op = "Mkdir"),
                  ![t].undo = MakeUndo(me.cur, n, i)]

(* The first fetch_add. *)
GetNewInodeId(t) ==
    /\ th[t].pc = "newid"
    /\ seq' = seq + 1
    /\ IF seq < GroupSize THEN Create(t, seq) ELSE Goto(t, "group")
    /\ UNCHANGED <<kv, group, fails>>

(* The second one, under inode_id_group_mtx_.  A number beyond the group   *)
(* leaves the loop and is used; one inside it sends kGetInodeIdGroup, for  *)
(* which Central has registered no handler: the thread waits for ever with *)
(* the mutex held.                                                         *)
Mut_GetNewGroup(t) ==
    /\ th[t].pc = "group"
    /\ \A u \in Threads : th[u].pc # "hang"
    /\ seq' = seq
    /\ IF seq < GroupSize THEN Create(t, seq) ELSE Goto(t, "group")
    /\ UNCHANGED <<kv, group, fails>>
GetNewGroup(t) ==
    /\ th[t].pc = "group"
    /\ \A u \in Threads : th[u].pc # "hang"
    /\ seq' = seq + 1
    /\ IF seq >= GroupSize THEN Create(t, seq) ELSE Goto(t, "hang")
    /\ UNCHANGED <<kv, group, fails>>

-----------------------------------------------------------------------------
(* Removal and the modifying operations *)

RemoveTodo(p, x, n, i) ==
    << DeleteInode(i), DeleteDentry(p, n),
       UpdateInode(p, [x EXCEPT !.children = (@ - 1) % Wrap]) >>
RemoveUndo(p, n, i, x) == << <<>>, <<InsertInode(i, x)>>, <<InsertInode(i, x), InsertDentry(p, n, i)>> >>

(* Rmdir refuses a directory that counts children. *)
Mut_NotEmpty(op, x) == FALSE
NotEmpty(op, x) == op = "Rmdir" /\ x.children > 0

(* Rmdir and Unlink read the target inode and check it. *)
CheckTarget(t) ==
    LET me == th[t]
        slots == kv[<<me.id>>]
        n == LastComponent(me.path)
        go == th' = [th EXCEPT ![t].pc = "modify", ![t].target = Head(slots),
                        ![t].todo = RemoveTodo(me.cur, me.parent, n, me.id),
                        ![t].undo = RemoveUndo(me.cur, n, me.id, Head(slots))]
    IN
    /\ me.pc = "target"
    /\ IF slots = <<>> THEN Return(t, "ENOENT")
       ELSE IF me.op = "Rmdir" /\ ~Head(slots).dir THEN Return(t, "ENOTDIR")
       ELSE IF me.op = "Unlink" /\ Head(slots).dir THEN Return(t, "EISDIR")
       ELSE IF NotEmpty(me.op, Head(slots)) THEN Return(t, "ENOTEMPTY")
       ELSE go
    /\ Local

(* The next operation of the call.  If it fails the rest is replaced by    *)
(* the operations that undo the earlier ones, whose own failures nobody    *)
(* looks at.                                                               *)
Modify(t) ==
    LET me == th[t] IN
    /\ me.pc \in {"modify", "undo"}
    /\ \E r \in Apply(Head(me.todo)) :
          LET failed == me.pc = "modify" /\ ~r[2]
              rest == IF failed THEN Head(me.undo) ELSE Tail(me.todo)
              on == me.pc = "modify" /\ r[2]
          IN  /\ kv' = r[1]
              /\ fails' = IF ~r[2] /\ fails < MaxFail THEN fails + 1 ELSE fails
              /\ IF rest = <<>> THEN Return(t, IF on THEN "ok" ELSE "EIO")
                 ELSE th' = [th EXCEPT ![t].todo = rest,
                                ![t].undo = IF on THEN Tail(@) ELSE @,
                                ![t].pc = IF on THEN "modify" ELSE "undo"]
    /\ UNCHANGED <<group, seq>>

-----------------------------------------------------------------------------
Step(t) ==
    \/ InitThread(t) \/ StoreSeq(t)
    \/ LookupInode(t) \/ LookupDentry(t) \/ Stat(t)
    \/ ReadParent(t) \/ CheckExists(t)
    \/ GetNewInodeId(t) \/ GetNewGroup(t)
    \/ CheckTarget(t) \/ Modify(t)

Next == \E t \in Threads : Step(t) \/ \E call \in Calls : Call(t, call[1], call[2])

Spec == Init /\ [][Next]_vars

(* Fairness: the operating system runs every thread. *)
FairSpec == Spec /\ \A t \in Threads : WF_vars(Step(t))

-----------------------------------------------------------------------------
(* Properties *)

(* Values under a key are of its kind; counters are in range. *)
TypeOK ==
    /\ \A k \in InodeKeys : kv[k] \in Seq(Inodes)
    /\ \A k \in DentryKeys : kv[k] \in Seq(Ids)
    /\ group \in Nat /\ seq \in 0 .. MaxId + 1 /\ fails \in 0 .. MaxFail
    /\ \A t \in Threads : th[t].cur \in Ids /\ th[t].id \in Ids

Quiet == \A t \in Threads : th[t].pc = "idle"
Entries(i) == {n \in Names : kv[<<i, n>>] # <<>>}
Points(i) == {k \in DentryKeys : i \in Range(kv[k])}

(* Mkdir, Creat, Rmdir, Unlink: between calls the pairs form a tree.  A    *)
(* name has one entry; an entry stands in a directory and names an inode   *)
(* no other entry names, with a larger number, so that there is no cycle;  *)
(* an inode other than the root has an entry; the children of a directory  *)
(* other than the root count its entries.                                  *)
TreeOK ==
    Quiet =>
      /\ \A k \in DentryKeys : Len(kv[k]) =< 1 /\
            (kv[k] # <<>> => /\ kv[<<k[1]>>] # <<>> /\ kv[<<k[1]>>][1].dir
                             /\ kv[<<kv[k][1]>>] # <<>> /\ k[1] < kv[k][1])
      /\ \A i \in Ids \ {kRootInodeId} :
            /\ Cardinality(Points(i)) = Len(kv[<<i>>])
            /\ kv[<<i>>] # <<>> /\ kv[<<i>>][1].dir =>
                  kv[<<i>>][1].children = Cardinality(Entries(i))

(* GetNewInodeId: no inode number is given to two inodes, whatever threads *)
(* ask for one and also beyond the end of the group.                       *)
OneInodePerId == \A i \in Ids : Len(kv[<<i>>]) =< 1

(* Every call of every thread returns. *)
CallsReturn == \A t \in Threads : (th[t].pc # "idle") ~> (th[t].pc = "idle")

(* InitThread: inode 0 is the root directory. *)
RootStaysRoot == kv[<<kRootInodeId>>] # <<>> => kv[<<kRootInodeId>>][1].dir

(* GetNewInodeId: a thread uses numbers of the group it was given. *)
NumbersInGroup ==
    \A t \in Threads : th[t].pc = "modify" /\ Making(th[t].op) =>
        th[t].id \in group * GroupSize .. (group + 1) * GroupSize - 1

(* Mkdir, Creat, "check if exists": a name has one entry. *)
NameOnce == \A k \in DentryKeys : Len(kv[k]) =< 1

(* Mkdir, Creat, Rmdir, Unlink: between calls children counts the entries. *)
ChildrenCounted ==
    Quiet => \A i \in Ids \ {kRootInodeId} : kv[<<i>>] # <<>> /\ kv[<<i>>][1].dir =>
        kv[<<i>>][1].children = Cardinality(Entries(i))

=============================================================================
