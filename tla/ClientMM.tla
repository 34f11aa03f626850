------------------------------ MODULE ClientMM ------------------------------
(***************************************************************************)
(* Two-level memory management and the embedded operation log:             *)
(* src/client_mm.cc, the allocation half of src/server_mm.cc and           *)
(* src/server.cc, and the use src/client.cc makes of them.                 *)
(*                                                                         *)
(* A memory node hands out blocks (ServerMM).  A client cuts its blocks    *)
(* into subblocks, keeps them in subblock_free_queue_ and gives one to     *)
(* each request (mm_alloc).  What a request writes to its subblock ends in *)
(* a KVLogTail whose next_addr is the subblock at the front of the queue:  *)
(* the subblocks of a client form a chain in allocation order, and a       *)
(* client that restarts after a crash rebuilds its queue from the chain    *)
(* and from the block addresses it left in its remote meta area            *)
(* (mm_recovery).                                                          *)
(*                                                                         *)
(* A block is <<node, number>>, a subblock <<node, number, index>>; the    *)
(* leading bitmap subblocks of a block are never handed out and are left   *)
(* out, and so are the replicas of a block, which go with the primary one. *)
(*                                                                         *)
(* Mut_X is X with a seeded fault, to see that the properties notice it.   *)
(***************************************************************************)
EXTENDS Integers, SequencesExt

CONSTANTS
    Clients,     \* compute clients
    First,       \* the client that initialises the index (server_id = memory_num)
    NumMemory,   \* memory nodes 0 .. NumMemory - 1
    NumBlocks,   \* blocks a node can hand out
    NumSub,      \* data subblocks per block
    NumTables,   \* subtables the first client registers in init_hash_table
    Coros,       \* fibers of a client, each running one request at a time
    Hint,        \* Hint[c]: the server_id the round robin of c starts from
    MaxRestart   \* bound: restarts per client

Nodes == 0 .. NumMemory - 1
Blocks == Nodes \X (1 .. NumBlocks)
Sub == Nodes \X (1 .. NumBlocks) \X (1 .. NumSub)
None == <<>>             \* address 0
Garbage == <<-1>>        \* a SubblockInfo nothing was stored in

ASSUME ConstantsOK ==
    /\ First \in Clients
    /\ NumMemory \in Nat \ {0} /\ NumBlocks \in Nat /\ NumSub \in Nat \ {0}
    /\ NumTables \in Nat
    /\ Hint \in [Clients -> Nat] /\ MaxRestart \in Nat

VARIABLES
    allocable,   \* allocable[n]: ServerMM::allocable_blocks_ of node n
    queue,       \* subblock_free_queue_
    last,        \* last_allocated_info_
    rr,          \* last_allocated_, the round-robin hint
    metaPtr,     \* client_meta_addr_, as an index into meta
    meta,        \* the ClientMetaAddrInfo entries in the remote meta area
    head,        \* pr_log_head in the remote ClientLogMetaInfo
    next,        \* next[s]: next_addr of the tail in subblock s, None if unwritten
    st,          \* st[c][k]: what fiber k of c is doing
    ctx,         \* ctx[c][k]: its ClientMMAllocCtx
    wire,        \* wire[c]: fibers whose KV write is posted, oldest first
    mode,        \* the client process: down before its start, run, rpc
                 \* (blocked in alloc_from_sid), reply, dead, exit
    reply,       \* the block in the server's answer, None for addr = 0
    caller,      \* the fiber whose mm_alloc waits for the answer
    published,   \* subblocks the index has pointed to
    restarts,    \* restarts of each client
    aborted      \* clients whose mm_alloc assertion failed

local == <<queue, last, rr, metaPtr>>
remote == <<meta, head, next>>
fibers == <<st, ctx, wire>>
proc == <<mode, reply, caller, restarts, aborted>>
vars == <<allocable, local, remote, fibers, proc, published>>

IdleCtx == [addr |-> None, nxt |-> None, prev |-> None]

Init ==
    /\ allocable = [n \in Nodes |-> [i \in 1 .. NumBlocks |-> i]]
    /\ queue = [c \in Clients |-> <<>>]
    /\ last = [c \in Clients |-> Garbage]
    /\ rr = Hint
    /\ metaPtr = [c \in Clients |-> 1]
    /\ meta = [c \in Clients |-> <<>>]
    /\ head = [c \in Clients |-> None]
    /\ next = [s \in Sub |-> None]
    /\ st = [c \in Clients |-> [k \in Coros |-> "idle"]]
    /\ ctx = [c \in Clients |-> [k \in Coros |-> IdleCtx]]
    /\ wire = [c \in Clients |-> <<>>]
    /\ mode = [c \in Clients |-> "down"]
    /\ reply = [c \in Clients |-> None]
    /\ caller = [c \in Clients |-> None]
    /\ published = {}
    /\ restarts = [c \in Clients |-> 0]
    /\ aborted = {}

-----------------------------------------------------------------------------
(* Blocks and their registration *)

(* get_one_server_id(get_alloc_hint_rr()). *)
NodeOf(hint) == hint % NumMemory

(* ServerMM::mm_alloc: the block server n answers with, None when it has   *)
(* no space left.                                                          *)
mm_alloc_block(n) ==
    IF allocable[n] = <<>> THEN None ELSE <<n, Head(allocable[n])>>

(* subblock_free_queue_ gives from its front and takes back at its front. *)
Mut_pop_front(q) == q
pop_front(q) == Tail(q)
Mut_push_front(q, s) == Append(q, s)
push_front(q, s) == <<s>> \o q

(* The data subblocks of block b, in address order. *)
SubOf(b, i) == <<b[1], b[2], i>>
Subblocks(b) == [i \in 1 .. NumSub |-> SubOf(b, i)]

(* The ClientMetaAddrInfo of a block is written at client_meta_addr_. *)
Mut_WriteMeta(m, ptr, b) == m
WriteMeta(m, ptr, b) == IF ptr =< Len(m) THEN [m EXCEPT ![ptr] = b] ELSE Append(m, b)

(* local_reg_blocks appends the subblocks of a new block to the queue. *)
local_reg_blocks(q, b) == q \o Subblocks(b)

(* init_reg_space merges the queues of one block per node. *)
Merged(bs) ==
    [i \in 1 .. Len(bs) * NumSub |->
        SubOf(bs[((i - 1) % Len(bs)) + 1], ((i - 1) \div Len(bs)) + 1)]

(* The constructor of a new client: the first client takes a block of      *)
(* every node (init_get_new_block_from_server), the others take one        *)
(* (get_new_block_from_server).  A server without space answers address 0, *)
(* which alloc_block_map_ does not hold: the client exits.  The first      *)
(* client then registers the subtables of the index (init_hash_table),     *)
(* each with a turn of the round robin and a meta entry (here None).       *)
Start(c) ==
    LET hints == IF c = First THEN [i \in 1 .. NumMemory |-> rr[c] + i - 1] ELSE <<rr[c]>>
        bs == [i \in DOMAIN hints |-> mm_alloc_block(NodeOf(hints[i]))]
        took == {NodeOf(hints[i]) : i \in {j \in DOMAIN hints : bs[j] # None}}
        tables == [i \in 1 .. (IF c = First THEN NumTables ELSE 0) |-> None]
    IN  /\ mode[c] = "down"
        /\ allocable' = [n \in Nodes |-> IF n \in took THEN Tail(allocable[n]) ELSE allocable[n]]
        /\ rr' = [rr EXCEPT ![c] = @ + Len(hints) + Len(tables)]
        /\ IF \E i \in DOMAIN bs : bs[i] = None
           THEN /\ mode' = [mode EXCEPT ![c] = "exit"]
                /\ UNCHANGED <<queue, metaPtr, meta, head>>
           ELSE /\ mode' = [mode EXCEPT ![c] = "run"]
                /\ queue' = [queue EXCEPT ![c] = Merged(bs)]
                /\ meta' = [meta EXCEPT ![c] = bs \o tables]
                /\ metaPtr' = [metaPtr EXCEPT ![c] = @ + Len(bs \o tables)]
                /\ head' = [head EXCEPT ![c] = bs[1]]
        /\ UNCHANGED <<last, next, fibers, reply, caller, restarts, aborted, published>>

-----------------------------------------------------------------------------
(* Allocation *)

(* The end of mm_alloc, once the queue q is not empty: the context of the  *)
(* request, then update_log_tail and the posting of the KV write.          *)
Allocated(c, k, s, q) ==
    /\ ctx' = [ctx EXCEPT ![c][k] = [addr |-> s, nxt |-> Head(q), prev |-> last[c]]]
    /\ last' = [last EXCEPT ![c] = s]
    /\ queue' = [queue EXCEPT ![c] = q]
    /\ st' = [st EXCEPT ![c][k] = "posted"]
    /\ wire' = [wire EXCEPT ![c] = Append(@, k)]

(* mm_alloc: takes the front of the queue; when that was the last subblock *)
(* it asks a server for a block before it returns.                         *)
mm_alloc(c, k) ==
    /\ mode[c] = "run" /\ st[c][k] = "idle" /\ queue[c] # <<>>
    /\ IF Len(queue[c]) > 1
       THEN /\ Allocated(c, k, Head(queue[c]), pop_front(queue[c]))
            /\ UNCHANGED <<mode, caller>>
       ELSE /\ mode' = [mode EXCEPT ![c] = "rpc"]
            /\ caller' = [caller EXCEPT ![c] = k]
            /\ ctx' = [ctx EXCEPT ![c][k].addr = Head(queue[c])]
            /\ queue' = [queue EXCEPT ![c] = <<>>]
            /\ UNCHANGED <<last, st, wire>>
    /\ UNCHANGED <<allocable, rr, metaPtr, remote, reply, restarts, aborted, published>>

(* mm_alloc on an empty queue: its assertion ends the process. *)
AssertFails(c, k) ==
    /\ mode[c] = "run" /\ st[c][k] = "idle" /\ queue[c] = <<>>
    /\ mode' = [mode EXCEPT ![c] = "dead"]
    /\ aborted' = aborted \cup {c}
    /\ UNCHANGED <<allocable, local, remote, fibers, reply, caller, restarts, published>>

(* Server::server_on_alloc of the node the client turned to. *)
server_on_alloc(c) ==
    LET n == NodeOf(rr[c]) IN
    /\ mode[c] = "rpc"
    /\ mode' = [mode EXCEPT ![c] = "reply"]
    /\ rr' = [rr EXCEPT ![c] = @ + 1]
    /\ reply' = [reply EXCEPT ![c] = mm_alloc_block(n)]
    /\ allocable' = [allocable EXCEPT ![n] = IF @ = <<>> THEN @ ELSE Tail(@)]
    /\ UNCHANGED <<queue, last, metaPtr, remote, fibers, caller, restarts, aborted, published>>

(* dyn_get_new_block_from_server has its answer.  With no block mm_alloc   *)
(* returns address 0 and the request fails; the subblock it had popped is  *)
(* in nobody's hands.  Otherwise dyn_reg_new_space writes the meta entry   *)
(* and registers the block.                                                *)
dyn_reg_new_space(c) ==
    LET k == caller[c]
        b == reply[c]
    IN
    /\ mode[c] = "reply"
    /\ mode' = [mode EXCEPT ![c] = "run"]
    /\ IF b = None
       THEN ctx' = [ctx EXCEPT ![c][k] = IdleCtx] /\ UNCHANGED <<queue, last, st, wire, metaPtr, meta>>
       ELSE /\ meta' = [meta EXCEPT ![c] = WriteMeta(@, metaPtr[c], b)]
            /\ metaPtr' = [metaPtr EXCEPT ![c] = @ + 1]
            /\ Allocated(c, k, ctx[c][k].addr, local_reg_blocks(queue[c], b))
    /\ UNCHANGED <<allocable, rr, head, next, reply, caller, restarts, aborted, published>>

-----------------------------------------------------------------------------
(* The request that holds the subblock *)

(* The KV write, tail included, reaches the memory node.  The writes of a  *)
(* client to one node share a queue pair and land in the order posted.     *)
WriteKV(c, k) ==
    LET i == SelectInSeq(wire[c], LAMBDA j : j = k) IN
    /\ st[c][k] = "posted" /\ mode[c] \notin {"dead", "exit"}
    /\ \A j \in 1 .. i - 1 : ctx[c][wire[c][j]].addr[1] # ctx[c][k].addr[1]
    /\ next' = [next EXCEPT ![ctx[c][k].addr] = ctx[c][k].nxt]
    /\ wire' = [wire EXCEPT ![c] = RemoveAt(@, i)]
    /\ st' = [st EXCEPT ![c][k] = "written"]
    /\ UNCHANGED <<allocable, local, meta, head, ctx, proc, published>>

Free(c, k) == /\ st' = [st EXCEPT ![c][k] = "idle"]
              /\ ctx' = [ctx EXCEPT ![c][k] = IdleCtx]

(* The request installs its subblock in the index (modify_primary_idx), or *)
(* ends without it: an UPDATE of a missing key, or a lost one.  Neither    *)
(* gives the subblock back.                                                *)
Finish(c, k) ==
    /\ mode[c] = "run" /\ st[c][k] = "written"
    /\ Free(c, k)
    /\ published' \in {published, published \cup {ctx[c][k].addr}}
    /\ UNCHANGED <<allocable, local, remote, wire, proc>>

(* mm_free_cur: an INSERT that found no empty slot puts its subblock back  *)
(* to the front of the queue and takes back last_allocated_info_.          *)
mm_free_cur(c, k) ==
    /\ mode[c] = "run" /\ st[c][k] = "written"
    /\ queue' = [queue EXCEPT ![c] = push_front(@, ctx[c][k].addr)]
    /\ last' = [last EXCEPT ![c] = ctx[c][k].prev]
    /\ Free(c, k)
    /\ UNCHANGED <<allocable, rr, metaPtr, remote, wire, proc, published>>

-----------------------------------------------------------------------------
(* Crash and recovery *)

(* The client dies: its local state and its posted writes are gone. *)
Crash(c) ==
    /\ mode[c] \in {"run", "rpc", "reply"}
    /\ mode' = [mode EXCEPT ![c] = "dead"]
    /\ UNCHANGED <<allocable, local, remote, fibers, reply, caller, restarts, aborted, published>>

(* mm_traverse_log: the chain from the first subblock of the first block   *)
(* to a subblock whose tail holds no next address.                         *)
mm_traverse_log(c) ==
    LET chain[n \in Nat] ==
            IF n = 0 THEN <<SubOf(head[c], 1)>>
            ELSE LET done == chain[n - 1]
                     nxt == next[done[Len(done)]]
                 IN  IF nxt = None THEN done ELSE Append(done, nxt)
    IN  chain[Cardinality(Sub)]

(* The subblocks of node n that the chain does not hold, in meta order.    *)
(* The entries of subtables are skipped.                                   *)
RecoverBlocks(c, n) ==
    FlattenSeq([i \in DOMAIN meta[c] |->
        IF meta[c][i] # None /\ meta[c][i][1] = n THEN Subblocks(meta[c][i]) ELSE <<>>])
Mut_Unlogged(c, n) ==
    SelectSeq(RecoverBlocks(c, n), LAMBDA s : s # Last(mm_traverse_log(c)))
Unlogged(c, n) ==
    LET chain == Range(mm_traverse_log(c))
    IN  SelectSeq(RecoverBlocks(c, n), LAMBDA s : s \notin chain)

(* One subblock per node and turn, until none is left. *)
RoundRobin(qs) ==
    FlattenSeq([i \in 1 .. NumBlocks * NumSub |->
        FlattenSeq([n \in 1 .. NumMemory |->
            IF i =< Len(qs[n - 1]) THEN <<qs[n - 1][i]>> ELSE <<>>])])

(* A subblock is found again only through the meta entry of its block. *)
Known(c, s) == IF \E i \in DOMAIN meta[c] : meta[c][i] = SubSeq(s, 1, 2) THEN s ELSE Garbage

(* mm_recovery and client_recovery of a restarted client.  The last entry  *)
(* of the chain becomes the front of the queue, the one before it the last *)
(* allocated subblock, whose request is executed again.  A chain of one    *)
(* entry has no last request: client_recovery reads a null tail and dies.  *)
mm_recovery(c) ==
    LET chain == mm_traverse_log(c)
        qs == [n \in Nodes |-> Unlogged(c, n)]
        redo == Known(c, chain[Len(chain) - 1])
    IN
    /\ mode[c] = "dead" /\ restarts[c] < MaxRestart
    /\ restarts' = [restarts EXCEPT ![c] = @ + 1]
    /\ IF Len(chain) = 1
       THEN /\ mode' = [mode EXCEPT ![c] = "exit"]
            /\ UNCHANGED <<queue, last, rr, metaPtr, published>>
       ELSE /\ mode' = [mode EXCEPT ![c] = "run"]
            /\ queue' = [queue EXCEPT ![c] = <<Known(c, chain[Len(chain)])>> \o RoundRobin(qs)]
            /\ last' = [last EXCEPT ![c] = redo]
            /\ published' \in {published, published \cup ({redo} \cap Sub)}
            /\ rr' = [rr EXCEPT ![c] = Hint[c]]
            /\ metaPtr' = [metaPtr EXCEPT ![c] = 1]
    /\ st' = [st EXCEPT ![c] = [k \in Coros |-> "idle"]]
    /\ ctx' = [ctx EXCEPT ![c] = [k \in Coros |-> IdleCtx]]
    /\ wire' = [wire EXCEPT ![c] = <<>>]
    /\ UNCHANGED <<allocable, remote, reply, caller, aborted>>

-----------------------------------------------------------------------------
Fiber(c, k) ==
    \/ mm_alloc(c, k) \/ AssertFails(c, k) \/ WriteKV(c, k)
    \/ Finish(c, k) \/ mm_free_cur(c, k)

Next ==
    \E c \in Clients :
        \/ Start(c) \/ server_on_alloc(c) \/ dyn_reg_new_space(c)
        \/ Crash(c) \/ mm_recovery(c)
        \/ \E k \in Coros : Fiber(c, k)

Spec == Init /\ [][Next]_vars

-----------------------------------------------------------------------------
(* Properties *)

Alive(c) == mode[c] \in {"run", "rpc", "reply"}

(* Pointers of the memory manager stay within its blocks. *)
TypeOK ==
    /\ allocable \in [Nodes -> Seq(1 .. NumBlocks)]
    /\ queue \in [Clients -> Seq(Sub \cup {Garbage})]
    /\ last \in [Clients -> Sub \cup {Garbage}]
    /\ rr \in [Clients -> Nat] /\ metaPtr \in [Clients -> Nat \ {0}]
    /\ meta \in [Clients -> Seq(Blocks \cup {None})]
    /\ head \in [Clients -> Blocks \cup {None}]
    /\ next \in [Sub -> Sub \cup {None}]
    /\ st \in [Clients -> [Coros -> {"idle", "posted", "written"}]]
    /\ ctx \in [Clients -> [Coros -> [addr : Sub \cup {None}, nxt : Sub \cup {None},
                                     prev : Sub \cup {None, Garbage}]]]
    /\ wire \in [Clients -> Seq(Coros)]
    /\ mode \in [Clients -> {"down", "run", "rpc", "reply", "dead", "exit"}]
    /\ reply \in [Clients -> Blocks \cup {None}]
    /\ caller \in [Clients -> Coros \cup {None}]
    /\ published \subseteq Sub
    /\ restarts \in [Clients -> 0 .. MaxRestart]
    /\ aborted \subseteq Clients

(* Subblocks in the hands of the requests of client c. *)
Held(c) == {ctx[c][k].addr : k \in Coros} \ {None}

(* mm_alloc, mm_free_cur, mm_recover_mm_blocks: a free subblock is in the  *)
(* queue of one client once; no request holds it and the index has never   *)
(* pointed to it.  No two requests hold the same subblock.                 *)
OneOwner ==
    /\ \A c \in Clients : Alive(c) => IsInjective(queue[c])
    /\ \A c, d \in Clients : Alive(c) /\ Alive(d) =>
          /\ Range(queue[c]) \cap (Held(d) \cup published) = {}
          /\ c # d => (Range(queue[c]) \cup Held(c)) \cap (Range(queue[d]) \cup Held(d)) = {}
    /\ \A c \in Clients : Alive(c) =>
          \A k, l \in Coros : k # l /\ ctx[c][k].addr # None => ctx[c][k].addr # ctx[c][l].addr

(* update_log_tail: whatever the index points to is in the log chain of a  *)
(* client at every moment, so that a crash now would find it.              *)
LogHoldsPublished ==
    \A s \in published : \E c \in Clients :
        head[c] # None /\ s \in Range(mm_traverse_log(c))

(* mm_recover_mm_blocks: a restart loses no subblock that was free, or     *)
(* allocated and not yet written, when the client died.                    *)
RestartKeepsFree ==
    [][\A c \in Clients : mode[c] = "dead" /\ mode'[c] = "run" =>
          {s \in Range(queue[c]) \cup Held(c) : next[s] = None} \subseteq Range(queue'[c])]_vars

(* mm_recover_mm_blocks: a restarted client has found the subblock of its  *)
(* last request and the front of its queue.                                *)
RecoversLastAndHead ==
    \A c \in Clients : Alive(c) /\ restarts[c] > 0 =>
        last[c] # Garbage /\ Garbage \notin Range(queue[c])

(* mm_alloc: assert(subblock_free_queue_.size() > 0). *)
QueueNeverEmpty == aborted = {}

-----------------------------------------------------------------------------
(* The inductive invariant behind OneOwner while no client restarts. *)

(* The block of a subblock, and whether its server has handed it out. *)
BlockOf(s) == <<s[1], s[2]>>
HandedOut(b) == b \in Blocks /\ b[2] \notin Range(allocable[b[1]])

(* A subblock that is free in a queue, held by a request or in the index. *)
Placed(s) ==
    \/ s \in published
    \/ \E c \in Clients : s \in Range(queue[c])
    \/ \E c \in Clients, k \in Coros : ctx[c][k].addr = s

OwnTypes ==
    /\ allocable \in [Nodes -> Seq(1 .. NumBlocks)] /\ \A n \in Nodes : IsInjective(allocable[n])
    /\ queue \in [Clients -> Seq(Sub)] /\ last \in [Clients -> Sub \cup {None, Garbage}]
    /\ rr \in [Clients -> Nat] /\ restarts \in [Clients -> Nat]
    /\ st \in [Clients -> [Coros -> {"idle", "posted", "written"}]]
    /\ ctx \in [Clients -> [Coros -> [addr : Sub \cup {None}, nxt : Sub \cup {None},
                                     prev : Sub \cup {None, Garbage}]]]
    /\ mode \in [Clients -> {"down", "run", "rpc", "reply", "dead", "exit"}]
    /\ reply \in [Clients -> Blocks \cup {None}] /\ caller \in [Clients -> Coros \cup {None}]
    /\ published \subseteq Sub

(* A request past mm_alloc, or one that waits in it, has a subblock. *)
Served(c) ==
    /\ \A k \in Coros : st[c][k] # "idle" => ctx[c][k].addr # None
    /\ mode[c] \in {"rpc", "reply"} =>
          /\ caller[c] \in Coros /\ st[c][caller[c]] = "idle"
          /\ ctx[c][caller[c]].addr # None /\ queue[c] = <<>>

(* A subblock has one place: queue, request or index. *)
OnePlace ==
    /\ \A c \in Clients : /\ IsInjective(queue[c])
                          /\ \A s \in Range(queue[c]) : s \notin published
    /\ \A c, d \in Clients : c # d => \A s \in Range(queue[c]) : s \notin Range(queue[d])
    /\ \A c, d \in Clients, k \in Coros : ctx[d][k].addr \notin Range(queue[c])
    /\ \A c, d \in Clients, k, l \in Coros :
          ctx[c][k].addr # None /\ ctx[c][k].addr = ctx[d][l].addr => c = d /\ k = l
    /\ \A c \in Clients, k \in Coros : ctx[c][k].addr \notin published

(* The block in an answer is new to everybody. *)
NewBlock(c) ==
    mode[c] = "reply" /\ reply[c] # None =>
        /\ HandedOut(reply[c])
        /\ \A s \in Sub : Placed(s) => BlockOf(s) # reply[c]
        /\ \A d \in Clients \ {c} : mode[d] = "reply" => reply[d] # reply[c]

(* mm_alloc, mm_free_cur, server_on_alloc: a subblock is free in one queue, *)
(* held by one request or in the index, a request that waits for a block    *)
(* has its subblock, and a block stays unused until its answer arrives.     *)
OwnInv ==
    /\ OwnTypes /\ OnePlace
    /\ \A c \in Clients : Served(c) /\ NewBlock(c)
    /\ \A s \in Sub : Placed(s) => HandedOut(BlockOf(s))

=============================================================================
