----------------------------- MODULE EngineInv -----------------------------
(***************************************************************************)
(* Engine with a record of the store at the start of each call, and the    *)
(* inductive invariants of an Engine with one thread (UndoInv) and with    *)
(* any number of threads (IdInv).                                          *)
(***************************************************************************)
EXTENDS Engine

VARIABLE before   \* before[t]: the store when the last call of t began

HInit == Init /\ before = [t \in Threads |-> kv]

Record ==
    before' = [t \in Threads |->
                 IF th[t].pc = "idle" /\ th'[t].pc # "idle" THEN kv ELSE before[t]]

HNext == Next /\ Record

HSpec == HInit /\ [][HNext]_<<vars, before>>

(* The undo paths of Mkdir, Rmdir, Creat and Unlink: a call that returned  *)
(* an error has left the store as it found it, if one operation ran out of *)
(* space.                                                                  *)
ErrorsUndone ==
    \A t \in Threads : Quiet /\ th[t].ret # "ok" => kv = before[t]

-----------------------------------------------------------------------------
(* The inductive invariant behind TreeOK and ErrorsUndone, for one thread. *)

(* A store whose pairs form a tree. *)
Keys == InodeKeys \cup DentryKeys
EntriesOf(s, i) == {n \in Names : s[<<i, n>>] # <<>>}
InodesOnce(s) == \A i \in Ids : s[<<i>>] # <<>> => \E x \in Inodes : s[<<i>>] = <<x>>
EntriesLead(s) ==
    \A p \in Ids, n \in Names : s[<<p, n>>] # <<>> =>
        /\ s[<<p>>] # <<>> /\ s[<<p>>][1].dir
        /\ \E i \in Ids : s[<<p, n>>] = <<i>> /\ p < i /\ s[<<i>>] # <<>>
NamedOnce(s) ==
    \A p, q \in Ids, n, m \in Names :
        s[<<p, n>>] # <<>> /\ s[<<q, m>>] = s[<<p, n>>] => p = q /\ n = m
AllNamed(s) ==
    \A i \in Ids \ {kRootInodeId} : s[<<i>>] # <<>> =>
        \E p \in Ids, n \in Names : s[<<p, n>>] = <<i>>
ChildrenOK(s) ==
    \A i \in Ids \ {kRootInodeId} : s[<<i>>] # <<>> /\ s[<<i>>][1].dir =>
        s[<<i>>][1].children = Cardinality(EntriesOf(s, i))
Tree(s) ==
    /\ s = [k \in Keys |-> s[k]]
    /\ InodesOnce(s) /\ EntriesLead(s) /\ NamedOnce(s) /\ AllNamed(s) /\ ChildrenOK(s)

(* No number from n on is in use. *)
Unused(s, n) == \A i \in Ids : i > 0 /\ i >= n => s[<<i>>] = <<>>

(* The inode and the entry a call makes or removes, what it leaves under   *)
(* the two keys, and its operations.                                       *)
InodeKey(m) == <<m.id>>
EntryKey(m) == <<m.cur, LastComponent(m.path)>>
NewInode(m) == [dir |-> m.op = "Mkdir", children |-> 0]
LeftInode(m) == IF Making(m.op) THEN <<NewInode(m)>> ELSE <<>>
LeftEntry(m) == IF Making(m.op) THEN <<m.id>> ELSE <<>>
Counted(m) ==
    [m.parent EXCEPT !.children = (IF Making(m.op) THEN @ + 1 ELSE @ - 1) % Wrap]
First(m) == IF Making(m.op) THEN InsertInode(m.id, NewInode(m)) ELSE DeleteInode(m.id)
Second(m) == IF Making(m.op) THEN InsertDentry(m.cur, LastComponent(m.path), m.id)
             ELSE DeleteDentry(m.cur, LastComponent(m.path))
Third(m) == UpdateInode(m.cur, Counted(m))
UndoFirst(m) == IF Making(m.op) THEN DeleteInode(m.id) ELSE InsertInode(m.id, m.target)
UndoSecond(m) == IF Making(m.op) THEN DeleteDentry(m.cur, LastComponent(m.path))
                 ELSE InsertDentry(m.cur, LastComponent(m.path), m.id)

(* The thread's record has its fields. *)
Fields == {"pc", "op", "path", "at", "cur", "parent", "id", "target", "todo", "undo", "ret"}
Shaped(m) == m = [f \in Fields |-> m[f]]

(* The locals of a call that looks things up in the store s, with n as the *)
(* next number.                                                            *)
EndOf(path, op) == Len(path) - (IF op = "Stat" THEN 0 ELSE 1)
Found(m, s) == m.cur \in Ids /\ s[<<m.cur>>] = <<m.parent>> /\ m.parent.dir
Looking(m, s, n) ==
    /\ m.op \in Ops /\ m.path \in Paths /\ m.at \in Nat \ {0} /\ m.cur \in Ids
    /\ m.pc \in {"root", "walk", "dentry"} => m.at =< EndOf(m.path, m.op)
    /\ m.pc \in {"parent", "exists", "newid", "group", "target"} => m.op # "Stat"
    /\ m.pc \in {"exists", "newid", "group", "target"} => Found(m, s)
    /\ m.pc \in {"newid", "group"} => Making(m.op) /\ s[EntryKey(m)] = <<>>
    /\ m.pc # "group" => (Making(m.op) => n + 1 < MaxId)
    /\ m.pc = "group" => GroupSize =< n /\ n < MaxId
    /\ m.pc = "target" => ~Making(m.op) /\ s[EntryKey(m)] = <<m.id>>

(* What a call that modifies has found. *)
Ready(m, s, n) ==
    /\ m.op \in Ops \ {"Stat"} /\ m.path \in Paths /\ Found(m, s)
    /\ m.id \in Ids /\ m.cur < m.id /\ m.id < n
    /\ IF Making(m.op) THEN s[InodeKey(m)] = <<>> /\ s[EntryKey(m)] = <<>>
       ELSE /\ s[InodeKey(m)] = <<m.target>> /\ s[EntryKey(m)] = <<m.id>>
            /\ m.target.dir => m.target.children = 0

(* How far it is: c is the store s with what it has done and not undone. *)
With(s, k, v) == [s EXCEPT ![k] = v]
Half(m, s) == With(s, InodeKey(m), LeftInode(m))
Both(m, s) == With(Half(m, s), EntryKey(m), LeftEntry(m))
Modifying(m, s, c) ==
    \/ /\ m.todo = <<First(m), Second(m), Third(m)>>
       /\ m.undo = <<<<>>, <<UndoFirst(m)>>, <<UndoFirst(m), UndoSecond(m)>>>>
       /\ c = s
    \/ /\ m.todo = <<Second(m), Third(m)>>
       /\ m.undo = <<<<UndoFirst(m)>>, <<UndoFirst(m), UndoSecond(m)>>>>
       /\ c = Half(m, s)
    \/ /\ m.todo = <<Third(m)>>
       /\ m.undo = <<<<UndoFirst(m), UndoSecond(m)>>>>
       /\ c = Both(m, s)
Undoing(m, s, c) ==
    \/ m.todo = <<UndoFirst(m)>> /\ c = Half(m, s)
    \/ m.todo = <<UndoFirst(m), UndoSecond(m)>> /\ c = Both(m, s)
    \/ m.todo = <<UndoSecond(m)>> /\ c = With(s, EntryKey(m), LeftEntry(m))

(* A thread m between two steps: s is the store its call began with, c the *)
(* store now, n the next number, f the operations that ran out of space.   *)
LookupPcs == {"root", "walk", "dentry", "stat", "parent", "exists", "newid", "group", "target"}
Sound(s, n) == Tree(s) /\ Unused(s, n)
Phase(m, s, c, n, f) ==
    \/ m.pc = "down" /\ n = 0 /\ m.ret = "ok" /\ c = [k \in Keys |-> <<>>]
    \/ m.pc = "store" /\ n = 0 /\ m.ret = "ok" /\ Sound(c, n)
    \/ m.pc = "idle" /\ n > 0 /\ Sound(c, n) /\ (m.ret # "ok" => c = s)
    \/ m.pc \in LookupPcs /\ n > 0 /\ c = s /\ Sound(s, n) /\ Looking(m, s, n)
    \/ m.pc = "modify" /\ n > 0 /\ Sound(s, n) /\ Ready(m, s, n) /\ Modifying(m, s, c)
    \/ m.pc = "undo" /\ n > 0 /\ Sound(s, n) /\ Ready(m, s, n) /\ Undoing(m, s, c) /\ f = MaxFail

(* Mkdir, Creat, Rmdir, Unlink of one thread: a call finds a tree, and     *)
(* after each of its operations the store is that tree with what the call  *)
(* has done and not undone.                                                *)
UndoInv ==
    /\ th = [t \in Threads |-> th[t]] /\ Shaped(th[Main])
    /\ before = [t \in Threads |-> before[t]]
    /\ group = 0 /\ seq \in Nat /\ fails \in 0 .. MaxFail
    /\ Phase(th[Main], before[Main], kv, seq, fails)

-----------------------------------------------------------------------------
(* The inductive invariant behind OneInodePerId, for any threads. *)

(* The operations left to a call, and the ways back. *)
Forward(m) ==
    \/ /\ m.todo = <<First(m), Second(m), Third(m)>>
       /\ m.undo = <<<<>>, <<UndoFirst(m)>>, <<UndoFirst(m), UndoSecond(m)>>>>
    \/ /\ m.todo = <<Second(m), Third(m)>>
       /\ m.undo = <<<<UndoFirst(m)>>, <<UndoFirst(m), UndoSecond(m)>>>>
    \/ m.todo = <<Third(m)>> /\ m.undo = <<<<UndoFirst(m), UndoSecond(m)>>>>
Backward(m) ==
    \/ m.todo = <<UndoFirst(m)>> \/ m.todo = <<UndoFirst(m), UndoSecond(m)>>
    \/ m.todo = <<UndoSecond(m)>>
OnWay(m) ==
    /\ m.pc \in {"newid", "group"} => Making(m.op)
    /\ m.pc = "target" => ~Making(m.op)
    /\ (m.pc = "modify" => Forward(m)) /\ (m.pc = "undo" => Backward(m))

(* A call that has drawn a number and not inserted the inode. *)
Pending(m) == m.pc = "modify" /\ Making(m.op) /\ m.todo = <<First(m), Second(m), Third(m)>>

(* A store with at most one value under an inode key, and none from n on;  *)
(* a number drawn and not in use.                                          *)
Once(v) == v = <<>> \/ v = <<Head(v)>>
StoreOnce(s, n) == \A i \in Ids : Once(s[<<i>>]) /\ (i > 0 /\ i >= n => s[<<i>>] = <<>>)
Drawn(m, s, n) ==
    m.id \in Nat \ {0} /\ m.id < n /\ (m.id \in Ids => s[<<m.id>>] = <<>>)
Starting == {"down", "store"}

(* A number is given once: from seq on none is in use, and a number drawn  *)
(* for an inode that is still to be inserted is one call's alone.          *)
IdInv ==
    /\ kv = [k \in Keys |-> kv[k]] /\ th = [t \in Threads |-> th[t]]
    /\ group = 0 /\ seq \in Nat /\ StoreOnce(kv, seq)
    /\ IF th[Main].pc \in Starting
       THEN seq = 0 /\ \A t \in Threads : th[t].pc \in Starting \cup {"idle"}
       ELSE seq > 0
    /\ th[Main].pc = "down" => kv[<<kRootInodeId>>] = <<>>
    /\ \A t \in Threads :
          /\ Shaped(th[t]) /\ OnWay(th[t]) /\ (th[t].pc = "store" => t = Main)
          /\ Pending(th[t]) => Drawn(th[t], kv, seq)
    /\ \A t, u \in Threads : t # u /\ Pending(th[t]) /\ Pending(th[u]) => th[t].id # th[u].id

(* No call that removes puts back what it removed.  Two removals of one    *)
(* name may both do so.                                                    *)
NoPutBack == \A t \in Threads : th[t].pc = "undo" => Making(th[t].op)

=============================================================================
