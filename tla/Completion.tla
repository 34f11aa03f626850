----------------------------- MODULE Completion -----------------------------
(***************************************************************************)
(* How the calls of UDPNetworkManager (src/nm.cc) post work requests (WRs) *)
(* and learn that they are done.  A client has one completion queue for    *)
(* the queue pairs of all servers.  Completions are taken from it by a     *)
(* polling thread or fiber, which files them by wr_id in wrid_wc_map_, or  *)
(* by the calls that poll the queue themselves:                            *)
(*   async       rdma_post_sr_lists_async and _batch_async, then a         *)
(*               cooperative wait on wrid_wc_map_ (Client::poll_completion)*)
(*   unsignaled  rdma_post_sr_lists_*_unsignaled: no completion at all     *)
(*   sync        rdma_post_sr_lists_sync and _batch_sync: busy polling of  *)
(*               the queue                                                 *)
(*   one         nm_rdma_read_from_sid and its kind: take one completion   *)
(*   map_sync    nm_rdma_write_inl_to_sid_sync: busy wait on wrid_wc_map_  *)
(* The fibers of a client share one thread: a busy wait gives it to nobody.*)
(***************************************************************************)
EXTENDS Integers, Sequences

CONSTANTS
    Fibers,
    Servers,
    Loads    \* [poller, program]; program[f]: the calls of fiber f in order,
             \* a call being [how, wrs] with wrs[s] the WRs it has for server s

Hows == {"async", "unsignaled", "sync", "one", "map_sync"}

(* A client calls the cooperative functions when it has a poller and those *)
(* that poll the queue themselves only without one; the calls for a single *)
(* WR have one.                                                            *)
SingleWR(wrs) == \E s \in Servers : wrs = [t \in Servers |-> IF t = s THEN 1 ELSE 0]

CallOK(call, poller) ==
    /\ call \in [how : Hows, wrs : [Servers -> Nat]]
    /\ call.how = "async" => poller # "none"
    /\ call.how \in {"sync", "one"} => poller = "none"
    /\ call.how \in {"one", "map_sync"} => SingleWR(call.wrs)

ASSUME LoadsOK ==
    \A l \in Loads :
        /\ l.poller \in {"thread", "fiber", "none"}
        /\ \A f \in Fibers : /\ DOMAIN l.program[f] = 1..Len(l.program[f])
                             /\ Len(l.program[f]) \in Nat
                             /\ \A n \in DOMAIN l.program[f] : CallOK(l.program[f][n], l.poller)

VARIABLES
    load,
    qp,            \* qp[s]: WRs posted to the queue pair of s, in order
    cq,            \* completions not yet polled
    wrid_wc_map_,  \* completions filed by the poller
    pc,            \* "ready" to call, "sleep"ing, or "busy" in a wait
    cur,           \* position in the program
    wait           \* wr_ids the current call still waits for

vars == <<load, qp, cq, wrid_wc_map_, pc, cur, wait>>

Call(f) == load.program[f][cur[f]]
Idle == \A f \in Fibers : pc[f] # "busy"

-----------------------------------------------------------------------------
(* Seeded faults: the wr_id does not tell fibers, or servers, apart. *)
Mut_ib_gen_wr_id(f, s, i) == <<s, i>>
Mut_no_server_id(f, s, i) == <<f, i>>

(* The id of the i-th WR of fiber f for server s, which the next call of   *)
(* the fiber uses again.                                                   *)
ib_gen_wr_id(f, s, i) == <<f, s, i>>

(* The calls for a single WR have a fixed id, whichever fiber makes them. *)
fixed_id == <<"any", "any", 0>>

wr_id(f, s, i) ==
    IF Call(f).how \in {"one", "map_sync"} THEN fixed_id ELSE ib_gen_wr_id(f, s, i)

(* Seeded fault: no WR is signaled. *)
Mut_Signaled(f, s, i) == FALSE

(* ib_merge_sr_lists chains the lists for a server and signals the last WR *)
Signaled(f, s, i) == Call(f).how # "unsignaled" /\ i = Call(f).wrs[s]

ib_merge_sr_lists(f, s) ==
    [i \in 1..Call(f).wrs[s] |->
       [id |-> wr_id(f, s, i), signaled |-> Signaled(f, s, i), by |-> <<f, cur[f]>>]]

last_wr_ids(f) ==
    {wr_id(f, s, Call(f).wrs[s]) : s \in {t \in Servers : Call(f).wrs[t] > 0}}

Init ==
    /\ load \in Loads
    /\ qp = [s \in Servers |-> <<>>]
    /\ cq = <<>>
    /\ wrid_wc_map_ = {}
    /\ pc = [f \in Fibers |-> "ready"]
    /\ cur = [f \in Fibers |-> 1]
    /\ wait = [f \in Fibers |-> {}]

(* The posting half of every call. *)
post(f) ==
    /\ pc[f] = "ready" /\ cur[f] =< Len(load.program[f]) /\ Idle
    /\ qp' = [s \in Servers |-> qp[s] \o ib_merge_sr_lists(f, s)]
    /\ IF Call(f).how = "unsignaled"
       THEN cur' = [cur EXCEPT ![f] = @ + 1] /\ UNCHANGED <<pc, wait>>
       ELSE /\ wait' = [wait EXCEPT ![f] = last_wr_ids(f)]
            /\ pc' = [pc EXCEPT ![f] = IF Call(f).how = "async" THEN "sleep" ELSE "busy"]
            /\ UNCHANGED cur
    /\ UNCHANGED <<load, cq, wrid_wc_map_>>

(* The adapter executes the WRs of a queue pair in order. *)
execute(s) ==
    /\ qp[s] # <<>>
    /\ qp' = [qp EXCEPT ![s] = Tail(@)]
    /\ cq' = IF Head(qp[s]).signaled THEN Append(cq, Head(qp[s]).id) ELSE cq
    /\ UNCHANGED <<load, wrid_wc_map_, pc, cur, wait>>

(* nm_thread_polling; nm_fiber_polling runs only when no fiber is busy *)
nm_polling ==
    /\ load.poller = "thread" \/ (load.poller = "fiber" /\ Idle)
    /\ cq # <<>>
    /\ wrid_wc_map_' = wrid_wc_map_ \cup {Head(cq)}
    /\ cq' = Tail(cq)
    /\ UNCHANGED <<load, qp, pc, cur, wait>>

(* Call f goes on waiting for w, or returns when nothing is left. *)
GoOn(f, w) ==
    /\ wait' = [wait EXCEPT ![f] = w]
    /\ pc' = [pc EXCEPT ![f] = IF w = {} THEN "ready" ELSE @]
    /\ cur' = [cur EXCEPT ![f] = IF w = {} THEN @ + 1 ELSE @]

(* nm_check_completion of a sleeping fiber, nm_poll_completion_sync *)
nm_check_completion(f) ==
    /\ \/ pc[f] = "sleep" /\ Idle
       \/ pc[f] = "busy" /\ Call(f).how = "map_sync"
    /\ wait[f] \cap wrid_wc_map_ # {}
    /\ wrid_wc_map_' = wrid_wc_map_ \ wait[f]
    /\ GoOn(f, wait[f] \ wrid_wc_map_)
    /\ UNCHANGED <<load, qp, cq>>

(* ibv_poll_cq in rdma_post_sr_lists_sync: completions of others are lost *)
rdma_post_sr_lists_sync(f) ==
    /\ pc[f] = "busy" /\ Call(f).how = "sync" /\ cq # <<>>
    /\ cq' = Tail(cq)
    /\ GoOn(f, wait[f] \ {Head(cq)})
    /\ UNCHANGED <<load, qp, wrid_wc_map_>>

(* rdma_poll_one_completion: whatever completion comes first *)
rdma_poll_one_completion(f) ==
    /\ pc[f] = "busy" /\ Call(f).how = "one" /\ cq # <<>>
    /\ cq' = Tail(cq)
    /\ GoOn(f, {})
    /\ UNCHANGED <<load, qp, wrid_wc_map_>>

Step(f) ==
    \/ post(f) \/ nm_check_completion(f)
    \/ rdma_post_sr_lists_sync(f) \/ rdma_poll_one_completion(f)

AllDone == \A f \in Fibers : pc[f] = "ready" /\ cur[f] > Len(load.program[f])

Next ==
    \/ \E f \in Fibers : Step(f)
    \/ \E s \in Servers : execute(s)
    \/ nm_polling

Spec == Init /\ [][Next]_vars

(* The adapter executes what is posted, the poller keeps polling and the   *)
(* fiber scheduler is round robin.                                         *)
FairSpec ==
    /\ Spec
    /\ \A f \in Fibers : SF_vars(Step(f))
    /\ \A s \in Servers : WF_vars(execute(s))
    /\ SF_vars(nm_polling)

-----------------------------------------------------------------------------
WrIds == (Fibers \X Servers \X Nat) \cup {fixed_id}
WRs == [id : WrIds, signaled : BOOLEAN, by : Fibers \X Nat]

(* Type invariant of the queues and the calls. *)
TypeOK ==
    /\ load \in Loads
    /\ qp \in [Servers -> Seq(WRs)] /\ cq \in Seq(WrIds) /\ wrid_wc_map_ \subseteq WrIds
    /\ pc \in [Fibers -> {"ready", "sleep", "busy"}]
    /\ cur \in [Fibers -> Nat \ {0}]
    /\ wait \in [Fibers -> SUBSET WrIds]

(* A call that waits returns only when every WR it posted, to whichever    *)
(* server, has been executed, although only the last WR for each server is *)
(* signaled and the ids are used again by the next call of the fiber       *)
(* (ib_merge_sr_lists, nm_check_completion, rdma_post_sr_lists_sync).      *)
ReturnsAfterOwnWork ==
    [][\A f \in Fibers : pc[f] # "ready" /\ pc'[f] = "ready" =>
         \A s \in Servers : \A i \in DOMAIN qp[s] : qp[s][i].by # <<f, cur[f]>>]_vars

(* Where the completion with an id is: in a queue pair, to be executed, in *)
(* the completion queue, or in the map.                                    *)
InQp(id) ==
    {x \in UNION {{s} \X DOMAIN qp[s] : s \in Servers} :
        qp[x[1]][x[2]].signaled /\ qp[x[1]][x[2]].id = id}
InCq(id) == {<<"cq", "cq", i>> : i \in {n \in DOMAIN cq : cq[n] = id}}
InMap(id) == {<<"map", "map", "map">> : x \in {id} \cap wrid_wc_map_}

(* The completion a call waits for is never taken by another call: it is   *)
(* in flight, in the completion queue or filed in wrid_wc_map_ exactly     *)
(* once (the callers of nm_poll_completion_sync, rdma_post_sr_lists_sync). *)
NoCompletionLost ==
    \A f \in Fibers : \A id \in wait[f] :
        LET places == InQp(id) \cup InCq(id) \cup InMap(id) IN
        \E p \in places : places = {p}

(* What makes the two properties inductive.  A call that waits is the one  *)
(* the program counter says, and at most one fiber is busy.                *)
CallInv ==
    /\ \A f, g \in Fibers : pc[f] = "busy" /\ pc[g] = "busy" => f = g
    /\ \A f \in Fibers :
         /\ pc[f] = "ready" => wait[f] = {}
         /\ pc[f] # "ready" => /\ cur[f] =< Len(load.program[f])
                               /\ Call(f).how # "unsignaled"
                               /\ pc[f] = "sleep" <=> Call(f).how = "async"
                               /\ wait[f] \subseteq last_wr_ids(f)

(* Behind every WR of the current call in its queue pair comes, or is, one *)
(* that is signaled, and the call waits for that one.                      *)
PostedInv ==
    \A s \in Servers : \A i \in DOMAIN qp[s] :
        LET w == qp[s][i] IN
        /\ w.by[2] =< cur[w.by[1]]
        /\ w.by[2] = cur[w.by[1]] =>
             /\ pc[w.by[1]] # "ready"
             /\ \E j \in DOMAIN qp[s] : i =< j /\ qp[s][j].signaled /\ qp[s][j].by = w.by
        /\ w.signaled => w.by[2] = cur[w.by[1]] /\ w.id \in wait[w.by[1]]

Arrived(id) == id \in wrid_wc_map_ \/ \E i \in DOMAIN cq : cq[i] = id

(* Every completion is somewhere once, and somebody waits for it. *)
OnceInv ==
    /\ \A s, t \in Servers : \A i \in DOMAIN qp[s], j \in DOMAIN qp[t] :
         qp[s][i].signaled /\ qp[t][j].signaled /\ qp[s][i].id = qp[t][j].id => s = t /\ i = j
    /\ \A s \in Servers : \A i \in DOMAIN qp[s] : qp[s][i].signaled => ~Arrived(qp[s][i].id)
    /\ \A i, j \in DOMAIN cq : cq[i] = cq[j] => i = j
    /\ \A i \in DOMAIN cq : cq[i] \notin wrid_wc_map_ /\ \E f \in Fibers : cq[i] \in wait[f]
    /\ \A id \in wrid_wc_map_ : \E f \in Fibers : id \in wait[f]
    /\ \A f \in Fibers : \A id \in wait[f] :
         Arrived(id) \/ \E s \in Servers : \E i \in DOMAIN qp[s] : qp[s][i].signaled /\ qp[s][i].id = id

(* The inductive invariant of posting, executing and polling in nm.cc. *)
CompletionInv == TypeOK /\ CallInv /\ PostedInv /\ OnceInv

(* Every call returns. *)
CallsReturn == <>AllDone

=============================================================================
