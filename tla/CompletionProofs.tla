-------------------------- MODULE CompletionProofs --------------------------
(***************************************************************************)
(* CompletionInv holds for any fibers, servers and programs of calls.      *)
(***************************************************************************)
EXTENDS Completion, TLAPS

-----------------------------------------------------------------------------
(* Sequences. *)

(* A function on 1..n is a sequence of length n. *)
LEMMA FunctionIsSeq ==
    ASSUME NEW S, NEW n \in Nat, NEW g \in [1..n -> S]
    PROVE  g \in Seq(S) /\ Len(g) = n
OBVIOUS

(* The domain and the elements of a queue. *)
LEMMA SeqFacts ==
    ASSUME NEW S, NEW q \in Seq(S)
    PROVE  /\ Len(q) \in Nat /\ DOMAIN q = 1..Len(q)
           /\ \A i \in DOMAIN q : q[i] \in S
OBVIOUS

(* What is left of a queue is the queue, one place further on. *)
LEMMA TailFacts ==
    ASSUME NEW S, NEW q \in Seq(S), q # <<>>
    PROVE  /\ 1 \in DOMAIN q /\ Head(q) = q[1] /\ Head(q) \in S
           /\ Tail(q) \in Seq(S)
           /\ \A i \in DOMAIN Tail(q) : i \in Nat \ {0} /\ i + 1 \in DOMAIN q /\ Tail(q)[i] = q[i + 1]
           /\ \A i \in DOMAIN q : i \in Nat \ {0} /\ (i # 1 => i - 1 \in DOMAIN Tail(q) /\ Tail(q)[i - 1] = q[i])
<1>1. Len(q) \in Nat \ {0} /\ DOMAIN q = 1..Len(q)
    OBVIOUS
<1>2. Tail(q) \in Seq(S) /\ Len(Tail(q)) = Len(q) - 1 /\ DOMAIN Tail(q) = 1..(Len(q) - 1)
    BY <1>1
<1>3. \A i \in 1..(Len(q) - 1) : Tail(q)[i] = q[i + 1]
    BY <1>1
<1> QED BY <1>1, <1>2, <1>3

(* A queue with something appended to it. *)
LEMMA AppendFacts ==
    ASSUME NEW S, NEW q \in Seq(S), NEW e \in S
    PROVE  /\ Append(q, e) \in Seq(S)
           /\ DOMAIN Append(q, e) = DOMAIN q \cup {Len(q) + 1}
           /\ Len(q) + 1 \notin DOMAIN q
           /\ Append(q, e)[Len(q) + 1] = e
           /\ \A i \in DOMAIN q : Append(q, e)[i] = q[i]
OBVIOUS

(* Two queues, one behind the other. *)
LEMMA ConcatFacts ==
    ASSUME NEW S, NEW q \in Seq(S), NEW r \in Seq(S)
    PROVE  /\ q \o r \in Seq(S)
           /\ DOMAIN (q \o r) = 1..(Len(q) + Len(r)) /\ Len(q \o r) = Len(q) + Len(r)
           /\ \A i \in DOMAIN q : i \in DOMAIN (q \o r) /\ (q \o r)[i] = q[i]
           /\ \A i \in DOMAIN (q \o r) \ DOMAIN q :
                i - Len(q) \in DOMAIN r /\ (q \o r)[i] = r[i - Len(q)]
           /\ \A i \in DOMAIN r : Len(q) + i \in DOMAIN (q \o r) \ DOMAIN q /\ (q \o r)[Len(q) + i] = r[i]
<1>1. Len(q) \in Nat /\ Len(r) \in Nat /\ DOMAIN q = 1..Len(q) /\ DOMAIN r = 1..Len(r)
    OBVIOUS
<1>2. /\ q \o r \in Seq(S) /\ Len(q \o r) = Len(q) + Len(r)
      /\ \A i \in 1..(Len(q) + Len(r)) :
           (q \o r)[i] = IF i =< Len(q) THEN q[i] ELSE r[i - Len(q)]
    BY <1>1
<1>3. DOMAIN (q \o r) = 1..(Len(q) + Len(r))
    BY <1>2
<1> QED BY <1>1, <1>2, <1>3

-----------------------------------------------------------------------------
(* Calls and ids. *)

(* The call of a fiber is one of its program. *)
LEMMA CallType ==
    ASSUME TypeOK, NEW f \in Fibers, cur[f] =< Len(load.program[f])
    PROVE  CallOK(Call(f), load.poller)
<1>1. load \in Loads /\ cur[f] \in Nat \ {0}
    BY DEF TypeOK
<1>2. cur[f] \in DOMAIN load.program[f]
    BY <1>1, LoadsOK
<1> QED BY <1>1, <1>2, LoadsOK, Zenon DEF Call

(* The WRs of a call for a server as a queue: the last one is signaled. *)
LEMMA MergedType ==
    ASSUME TypeOK, NEW f \in Fibers, NEW s \in Servers, cur[f] =< Len(load.program[f])
    PROVE  /\ ib_merge_sr_lists(f, s) \in Seq(WRs)
           /\ Len(ib_merge_sr_lists(f, s)) = Call(f).wrs[s]
           /\ Call(f).wrs[s] \in Nat
           /\ \A i \in DOMAIN ib_merge_sr_lists(f, s) :
                LET w == ib_merge_sr_lists(f, s)[i] IN
                /\ i \in 1..Call(f).wrs[s]
                /\ w.by = <<f, cur[f]>>
                /\ w.id = IF Call(f).how \in {"one", "map_sync"} THEN fixed_id ELSE <<f, s, i>>
                /\ w.signaled <=> Call(f).how # "unsignaled" /\ i = Call(f).wrs[s]
<1>1. /\ Call(f).how \in Hows /\ Call(f).wrs[s] \in Nat
    BY CallType, Zenon DEF CallOK
<1>2. ASSUME NEW i \in 1..Call(f).wrs[s]
      PROVE  [id |-> wr_id(f, s, i), signaled |-> Signaled(f, s, i), by |-> <<f, cur[f]>>] \in WRs
    <2>1. wr_id(f, s, i) \in WrIds
        BY <1>1 DEF WrIds, wr_id, ib_gen_wr_id
    <2>2. Signaled(f, s, i) \in BOOLEAN /\ cur[f] \in Nat
        BY Zenon DEF Signaled, TypeOK
    <2> QED BY <2>1, <2>2, Zenon DEF WRs
<1>3. ib_merge_sr_lists(f, s) \in [1..Call(f).wrs[s] -> WRs]
    BY <1>2, Zenon DEF ib_merge_sr_lists
<1>4. ib_merge_sr_lists(f, s) \in Seq(WRs) /\ Len(ib_merge_sr_lists(f, s)) = Call(f).wrs[s]
    BY <1>1, <1>3, FunctionIsSeq, Zenon
<1>5. DOMAIN ib_merge_sr_lists(f, s) = 1..Call(f).wrs[s]
    BY <1>3, Zenon
<1>6. ASSUME NEW i \in 1..Call(f).wrs[s]
      PROVE  LET w == ib_merge_sr_lists(f, s)[i] IN
             /\ w.by = <<f, cur[f]>>
             /\ w.id = IF Call(f).how \in {"one", "map_sync"} THEN fixed_id ELSE <<f, s, i>>
             /\ w.signaled <=> Call(f).how # "unsignaled" /\ i = Call(f).wrs[s]
    BY Zenon DEF ib_merge_sr_lists, Signaled, wr_id, ib_gen_wr_id
<1> QED BY <1>1, <1>4, <1>5, <1>6, Zenon

(* The ids a call waits for: those of its fiber, or the fixed one. *)
LEMMA LastIds ==
    ASSUME TypeOK, NEW f \in Fibers, cur[f] =< Len(load.program[f]), NEW id \in last_wr_ids(f)
    PROVE  IF Call(f).how \in {"one", "map_sync"}
           THEN id = fixed_id
           ELSE \E s \in Servers, n \in Nat \ {0} : id = <<f, s, n>>
<1>1. PICK s \in Servers : Call(f).wrs[s] > 0 /\ id = wr_id(f, s, Call(f).wrs[s])
    BY Zenon DEF last_wr_ids
<1>2. Call(f).wrs[s] \in Nat \ {0}
    BY <1>1, CallType DEF CallOK
<1> QED BY <1>1, <1>2, Zenon DEF wr_id, ib_gen_wr_id

(* A sleeping fiber waits for nothing another call waits for. *)
LEMMA OtherIds ==
    ASSUME TypeOK, NEW f \in Fibers, NEW g \in Fibers, f # g,
           cur[f] =< Len(load.program[f]), cur[g] =< Len(load.program[g]),
           Call(g).how = "async",
           NEW id \in last_wr_ids(f)
    PROVE  id \notin last_wr_ids(g)
<1>1. id \in last_wr_ids(g) => \E s \in Servers, n \in Nat \ {0} : id = <<g, s, n>>
    BY LastIds
<1>2. id = fixed_id \/ \E s \in Servers, n \in Nat \ {0} : id = <<f, s, n>>
    BY LastIds, Zenon
<1> QED BY <1>1, <1>2 DEF fixed_id

(* Every completion has one fiber that waits for it. *)
LEMMA OneWaiter ==
    ASSUME TypeOK, CallInv, NEW f \in Fibers, NEW g \in Fibers, wait[f] \cap wait[g] # {}
    PROVE  f = g
<1>1. SUFFICES ASSUME f # g PROVE FALSE
    OBVIOUS
<1>2. PICK id \in wait[f] : id \in wait[g]
    OBVIOUS
<1>3. /\ pc[f] # "ready" /\ cur[f] =< Len(load.program[f]) /\ id \in last_wr_ids(f)
      /\ pc[g] # "ready" /\ cur[g] =< Len(load.program[g]) /\ id \in last_wr_ids(g)
    BY <1>2, Zenon DEF CallInv
<1>4. Call(f).how = "async" \/ Call(g).how = "async"
    BY <1>1, <1>3, Zenon DEF CallInv, TypeOK
<1> QED BY <1>1, <1>3, <1>4, OtherIds, Zenon

-----------------------------------------------------------------------------
(* A call returns, or goes on waiting. *)

(* A fiber that keeps its place keeps its call and the ids of it. *)
LEMMA SameCall ==
    ASSUME NEW f \in Fibers, load' = load, cur'[f] = cur[f]
    PROVE  Call(f)' = Call(f) /\ last_wr_ids(f)' = last_wr_ids(f)
BY DEF Call, last_wr_ids, wr_id, ib_gen_wr_id, fixed_id

(* When a call stops waiting for ids that have arrived, it still waits for *)
(* the signaled WRs it has in the queue pairs: it returns only when it has *)
(* no WR there.                                                            *)
LEMMA GoOnKeeps ==
    ASSUME CompletionInv, NEW f \in Fibers, pc[f] # "ready", NEW w \in SUBSET wait[f],
           \A id \in wait[f] \ w : Arrived(id),
           GoOn(f, w), UNCHANGED <<load, qp>>
    PROVE  /\ pc' \in [Fibers -> {"ready", "sleep", "busy"}]
           /\ cur' \in [Fibers -> Nat \ {0}]
           /\ wait' \in [Fibers -> SUBSET WrIds]
           /\ CallInv' /\ PostedInv'
           /\ w = {} => \A s \in Servers : \A i \in DOMAIN qp[s] : qp[s][i].by # <<f, cur[f]>>
<1> USE DEF CompletionInv
<1>1. /\ pc' \in [Fibers -> {"ready", "sleep", "busy"}]
      /\ cur' \in [Fibers -> Nat \ {0}]
      /\ wait' \in [Fibers -> SUBSET WrIds]
    BY DEF TypeOK, GoOn
<1>2. /\ wait'[f] = w
      /\ w = {} => pc'[f] = "ready" /\ cur'[f] = cur[f] + 1
      /\ w # {} => pc'[f] = pc[f] /\ cur'[f] = cur[f]
      /\ \A g \in Fibers \ {f} : pc'[g] = pc[g] /\ cur'[g] = cur[g] /\ wait'[g] = wait[g]
    BY Zenon DEF TypeOK, GoOn
<1>3. ASSUME NEW s \in Servers, NEW i \in DOMAIN qp[s]
      PROVE  /\ qp[s][i].by \in Fibers \X Nat
             /\ qp[s][i].signaled /\ qp[s][i].by[1] = f => qp[s][i].id \in w
    <2>1. qp[s][i] \in WRs
        BY SeqFacts, Zenon DEF TypeOK
    <2>2. qp[s][i].signaled /\ qp[s][i].by[1] = f => qp[s][i].id \in wait[f] /\ ~Arrived(qp[s][i].id)
        BY DEF PostedInv, OnceInv
    <2> QED BY <2>1, <2>2, Zenon DEF WRs
<1>4. ASSUME w = {}, NEW s \in Servers, NEW i \in DOMAIN qp[s], qp[s][i].by[1] = f
      PROVE  qp[s][i].by[2] < cur[f]
    <2>1. \A j \in DOMAIN qp[s] : ~(qp[s][j].signaled /\ qp[s][j].by[1] = f)
        BY <1>3, <1>4, Zenon
    <2>2. qp[s][i].by[2] # cur[f] /\ qp[s][i].by[2] =< cur[f]
        BY <1>4, <2>1, Zenon DEF PostedInv
    <2>3. qp[s][i].by[2] \in Nat /\ cur[f] \in Nat
        BY <1>3, Zenon DEF TypeOK
    <2> QED BY <2>2, <2>3
<1>5. CallInv'
    <2>1. \A g, h \in Fibers : pc'[g] = "busy" /\ pc'[h] = "busy" => g = h
        BY <1>2 DEF CallInv
    <2>2. ASSUME NEW g \in Fibers, pc'[g] = "ready" PROVE wait'[g] = {}
        BY <1>2, <2>2 DEF CallInv
    <2>3. ASSUME NEW g \in Fibers, pc'[g] # "ready"
          PROVE  /\ cur'[g] =< Len(load'.program[g])
                 /\ Call(g)'.how # "unsignaled"
                 /\ pc'[g] = "sleep" <=> Call(g)'.how = "async"
                 /\ wait'[g] \subseteq last_wr_ids(g)'
        <3>1. pc'[g] = pc[g] /\ cur'[g] = cur[g] /\ wait'[g] \subseteq wait[g]
            BY <1>2, <2>3, Zenon
        <3>2. Call(g)' = Call(g) /\ last_wr_ids(g)' = last_wr_ids(g)
            BY <3>1, SameCall, Zenon
        <3> QED BY <2>3, <3>1, <3>2, Zenon DEF CallInv
    <2> QED BY <2>1, <2>2, <2>3, Zenon DEF CallInv
<1>6. PostedInv'
    <2>1. SUFFICES ASSUME NEW s \in Servers, NEW i \in DOMAIN qp[s]
                   PROVE  LET x == qp[s][i] IN
                          /\ x.by[2] =< cur'[x.by[1]]
                          /\ x.by[2] = cur'[x.by[1]] =>
                               /\ pc'[x.by[1]] # "ready"
                               /\ \E j \in DOMAIN qp[s] : i =< j /\ qp[s][j].signaled /\ qp[s][j].by = x.by
                          /\ x.signaled => x.by[2] = cur'[x.by[1]] /\ x.id \in wait'[x.by[1]]
        BY DEF PostedInv
    <2>2. CASE qp[s][i].by[1] # f
        BY <1>2, <1>3, <2>2 DEF PostedInv
    <2>3. CASE qp[s][i].by[1] = f /\ w # {}
        BY <1>2, <1>3, <2>3 DEF PostedInv
    <2>4. CASE qp[s][i].by[1] = f /\ w = {}
        <3>1. qp[s][i].by[2] < cur[f] /\ qp[s][i].by[2] \in Nat /\ cur[f] \in Nat /\ cur'[f] = cur[f] + 1
            BY <1>2, <1>3, <1>4, <2>4, Zenon DEF TypeOK
        <3>2. ~qp[s][i].signaled
            BY <1>3, <2>4, Zenon
        <3> QED BY <2>4, <3>1, <3>2
    <2> QED BY <2>2, <2>3, <2>4, Zenon
<1>7. ASSUME w = {}, NEW s \in Servers, NEW i \in DOMAIN qp[s] PROVE qp[s][i].by # <<f, cur[f]>>
    <2>1. qp[s][i].by[1] = f => qp[s][i].by[2] < cur[f] /\ qp[s][i].by[2] \in Nat /\ cur[f] \in Nat
        BY <1>3, <1>4, <1>7, Zenon DEF TypeOK
    <2> QED BY <2>1
<1> QED BY <1>1, <1>5, <1>6, <1>7, Zenon

-----------------------------------------------------------------------------
(* The steps that take completions. *)

(* nm_check_completion and nm_poll_completion_sync keep the invariant. *)
LEMMA CheckKeeps ==
    ASSUME CompletionInv, NEW f \in Fibers, nm_check_completion(f)
    PROVE  /\ CompletionInv'
           /\ pc'[f] = "ready" => \A s \in Servers : \A i \in DOMAIN qp[s] : qp[s][i].by # <<f, cur[f]>>
<1> DEFINE w == wait[f] \ wrid_wc_map_
<1>1. /\ pc[f] # "ready" /\ GoOn(f, w) /\ UNCHANGED <<load, qp, cq>>
      /\ wrid_wc_map_' = wrid_wc_map_ \ wait[f]
    BY Zenon DEF nm_check_completion
<1>2. w \in SUBSET wait[f] /\ \A id \in wait[f] \ w : Arrived(id)
    BY DEF Arrived
<1>3. /\ pc' \in [Fibers -> {"ready", "sleep", "busy"}]
      /\ cur' \in [Fibers -> Nat \ {0}]
      /\ wait' \in [Fibers -> SUBSET WrIds]
      /\ CallInv' /\ PostedInv'
      /\ w = {} => \A s \in Servers : \A i \in DOMAIN qp[s] : qp[s][i].by # <<f, cur[f]>>
    BY <1>1, <1>2, GoOnKeeps, Zenon
<1>4. TypeOK'
    BY <1>1, <1>3, Zenon DEF CompletionInv, TypeOK
<1>5. /\ wait'[f] = w
      /\ \A g \in Fibers \ {f} : wait'[g] = wait[g] /\ wait[g] \cap wait[f] = {}
      /\ w # {} => pc'[f] = pc[f]
    BY <1>1, OneWaiter, Zenon DEF GoOn, CompletionInv, TypeOK
<1>6. OnceInv'
    <2>1. \A id : Arrived(id)' => Arrived(id)
        BY <1>1, Zenon DEF Arrived
    <2>2. \A id \in w : Arrived(id)' <=> Arrived(id)
        BY <1>1, Zenon DEF Arrived
    <2>3. \A g \in Fibers \ {f} : \A id \in wait[g] : Arrived(id)' <=> Arrived(id)
        BY <1>1, <1>5 DEF Arrived
    <2>4. \A i \in DOMAIN cq : cq[i] \notin wrid_wc_map_' /\ \E g \in Fibers : cq[i] \in wait'[g]
        <3> SUFFICES ASSUME NEW i \in DOMAIN cq
                     PROVE cq[i] \notin wrid_wc_map_' /\ \E g \in Fibers : cq[i] \in wait'[g]
            OBVIOUS
        <3>1. PICK g \in Fibers : cq[i] \in wait[g] /\ cq[i] \notin wrid_wc_map_
            BY Zenon DEF CompletionInv, OnceInv
        <3>2. cq[i] \in wait'[g]
            BY <1>5, <3>1
        <3> QED BY <1>1, <3>1, <3>2, Zenon
    <2>5. \A id \in wrid_wc_map_' : \E g \in Fibers : id \in wait'[g]
        <3> SUFFICES ASSUME NEW id \in wrid_wc_map_' PROVE \E g \in Fibers : id \in wait'[g]
            OBVIOUS
        <3>1. PICK g \in Fibers : id \in wait[g]
            BY <1>1, Zenon DEF CompletionInv, OnceInv
        <3>2. g # f
            BY <1>1, <3>1
        <3> QED BY <1>5, <3>1, <3>2, Zenon
    <2>6. \A g \in Fibers : \A id \in wait'[g] :
            Arrived(id)' \/ \E s \in Servers : \E i \in DOMAIN qp[s] : qp[s][i].signaled /\ qp[s][i].id = id
        <3> SUFFICES ASSUME NEW g \in Fibers, NEW id \in wait'[g], ~Arrived(id)'
                     PROVE  \E s \in Servers : \E i \in DOMAIN qp[s] : qp[s][i].signaled /\ qp[s][i].id = id
            OBVIOUS
        <3>1. id \in wait[g] /\ ~Arrived(id)
            BY <1>5, <2>2, <2>3, Zenon
        <3> QED BY <3>1, Zenon DEF CompletionInv, OnceInv
    <2> QED BY <1>1, <2>1, <2>4, <2>5, <2>6 DEF CompletionInv, OnceInv
<1>7. pc'[f] = "ready" => w = {}
    BY <1>1, <1>5, Zenon
<1> QED BY <1>3, <1>4, <1>6, <1>7, Zenon DEF CompletionInv

(* Without a poller the fiber that polls the queue is the only one that    *)
(* waits.                                                                  *)
LEMMA Alone ==
    ASSUME CompletionInv, NEW f \in Fibers, pc[f] = "busy", Call(f).how \in {"sync", "one"}, cq # <<>>
    PROVE  /\ \A g \in Fibers \ {f} : wait[g] = {}
           /\ Head(cq) \in wait[f]
           /\ Call(f).how = "one" => wait[f] = {Head(cq)}
<1> USE DEF CompletionInv
<1>1. cur[f] =< Len(load.program[f]) /\ wait[f] \subseteq last_wr_ids(f)
    BY Zenon DEF CallInv
<1>2. load.poller = "none"
    BY <1>1, CallType, Zenon DEF CallOK
<1>3. ASSUME NEW g \in Fibers \ {f} PROVE wait[g] = {}
    <2>1. pc[g] # "busy"
        BY <1>3 DEF CallInv
    <2>2. pc[g] # "sleep"
        <3> SUFFICES ASSUME pc[g] = "sleep" PROVE FALSE
            OBVIOUS
        <3>1. cur[g] =< Len(load.program[g]) /\ Call(g).how = "async"
            BY <1>3, Zenon DEF CallInv
        <3> QED BY <1>2, <1>3, <3>1, CallType, Zenon DEF CallOK
    <2> QED BY <1>3, <2>1, <2>2, Zenon DEF CallInv, TypeOK
<1>4. Head(cq) \in wait[f]
    <2>1. 1 \in DOMAIN cq /\ Head(cq) = cq[1]
        BY TailFacts, Zenon DEF TypeOK
    <2> QED BY <1>3, <2>1 DEF OnceInv
<1>5. Call(f).how = "one" => \A id \in wait[f] : id = fixed_id
    BY <1>1, LastIds, Zenon
<1> QED BY <1>3, <1>4, <1>5, Zenon

(* Taking the first completion of the queue for the call that waits for it *)
(* keeps the invariant.                                                    *)
LEMMA TakeKeeps ==
    ASSUME CompletionInv, NEW f \in Fibers, pc[f] = "busy", Call(f).how \in {"sync", "one"}, cq # <<>>,
           cq' = Tail(cq), GoOn(f, wait[f] \ {Head(cq)}), UNCHANGED <<load, qp, wrid_wc_map_>>
    PROVE  /\ CompletionInv'
           /\ pc'[f] = "ready" => \A s \in Servers : \A i \in DOMAIN qp[s] : qp[s][i].by # <<f, cur[f]>>
<1> DEFINE h == Head(cq)
           w == wait[f] \ {h}
<1>1. /\ 1 \in DOMAIN cq /\ h = cq[1]
      /\ cq' \in Seq(WrIds)
      /\ \A i \in DOMAIN cq' : i \in Nat \ {0} /\ i + 1 \in DOMAIN cq /\ cq'[i] = cq[i + 1]
      /\ \A i \in DOMAIN cq : i # 1 => i - 1 \in DOMAIN cq' /\ cq'[i - 1] = cq[i]
    BY TailFacts DEF CompletionInv, TypeOK
<1>2. w \in SUBSET wait[f] /\ \A id \in wait[f] \ w : Arrived(id)
    BY <1>1, Zenon DEF Arrived
<1>3. /\ pc' \in [Fibers -> {"ready", "sleep", "busy"}]
      /\ cur' \in [Fibers -> Nat \ {0}]
      /\ wait' \in [Fibers -> SUBSET WrIds]
      /\ CallInv' /\ PostedInv'
      /\ w = {} => \A s \in Servers : \A i \in DOMAIN qp[s] : qp[s][i].by # <<f, cur[f]>>
    BY <1>2, GoOnKeeps, Zenon
<1>4. TypeOK'
    BY <1>1, <1>3, Zenon DEF CompletionInv, TypeOK
<1>5. /\ wait'[f] = w
      /\ \A g \in Fibers \ {f} : wait'[g] = wait[g] /\ wait[g] = {}
      /\ w # {} => pc'[f] = pc[f]
    BY Alone, Zenon DEF GoOn, CompletionInv, TypeOK
<1>6. OnceInv'
    <2>1. \A i \in DOMAIN cq' : cq'[i] # h
        BY <1>1 DEF CompletionInv, OnceInv
    <2>2. \A id : Arrived(id)' => Arrived(id)
        BY <1>1 DEF Arrived
    <2>3. \A id : id # h /\ Arrived(id) => Arrived(id)'
        <3>1. \A i \in DOMAIN cq : cq[i] # h => \E j \in DOMAIN cq' : cq'[j] = cq[i]
            BY <1>1, Zenon
        <3> QED BY <3>1, Zenon DEF Arrived
    <2>4. \A i, j \in DOMAIN cq' : cq'[i] = cq'[j] => i = j
        <3> SUFFICES ASSUME NEW i \in DOMAIN cq', NEW j \in DOMAIN cq', cq'[i] = cq'[j] PROVE i = j
            OBVIOUS
        <3>1. i \in Nat /\ j \in Nat /\ i + 1 = j + 1
            BY <1>1 DEF CompletionInv, OnceInv
        <3> QED BY <3>1
    <2>5. \A i \in DOMAIN cq' : cq'[i] \notin wrid_wc_map_ /\ \E g \in Fibers : cq'[i] \in wait'[g]
        BY <1>1, <1>5, <2>1 DEF CompletionInv, OnceInv
    <2>6. \A id \in wrid_wc_map_ : \E g \in Fibers : id \in wait'[g]
        BY <1>1, <1>5 DEF CompletionInv, OnceInv
    <2>7. \A g \in Fibers : \A id \in wait'[g] :
            Arrived(id)' \/ \E s \in Servers : \E i \in DOMAIN qp[s] : qp[s][i].signaled /\ qp[s][i].id = id
        <3> SUFFICES ASSUME NEW g \in Fibers, NEW id \in wait'[g], ~Arrived(id)'
                     PROVE  \E s \in Servers : \E i \in DOMAIN qp[s] : qp[s][i].signaled /\ qp[s][i].id = id
            OBVIOUS
        <3>1. id \in wait[g] /\ ~Arrived(id)
            BY <1>5, <2>3, Zenon
        <3> QED BY <3>1, Zenon DEF CompletionInv, OnceInv
    <2> QED BY <2>2, <2>4, <2>5, <2>6, <2>7 DEF CompletionInv, OnceInv
<1>7. pc'[f] = "ready" => w = {}
    BY <1>5, Zenon
<1> QED BY <1>3, <1>4, <1>6, <1>7, Zenon DEF CompletionInv

(* nm_thread_polling and nm_fiber_polling keep the invariant. *)
LEMMA PollingKeeps ==
    ASSUME CompletionInv, nm_polling
    PROVE  CompletionInv'
<1> DEFINE h == Head(cq)
<1>1. /\ cq # <<>> /\ cq' = Tail(cq) /\ wrid_wc_map_' = wrid_wc_map_ \cup {h}
      /\ UNCHANGED <<load, qp, pc, cur, wait>>
    BY Zenon DEF nm_polling
<1>2. /\ 1 \in DOMAIN cq /\ h = cq[1] /\ h \in WrIds
      /\ cq' \in Seq(WrIds)
      /\ \A i \in DOMAIN cq' : i \in Nat \ {0} /\ i + 1 \in DOMAIN cq /\ cq'[i] = cq[i + 1]
      /\ \A i \in DOMAIN cq : i # 1 => i - 1 \in DOMAIN cq' /\ cq'[i - 1] = cq[i]
    BY <1>1, TailFacts DEF CompletionInv, TypeOK
<1>3. TypeOK'
    BY <1>1, <1>2 DEF CompletionInv, TypeOK
<1>4. CallInv'
    <2>1. \A g \in Fibers : Call(g)' = Call(g) /\ last_wr_ids(g)' = last_wr_ids(g)
        BY <1>1, SameCall, Zenon
    <2> QED BY <1>1, <2>1 DEF CompletionInv, CallInv
<1>5. PostedInv'
    BY <1>1 DEF CompletionInv, PostedInv
<1>6. OnceInv'
    <2>1. \A id : Arrived(id)' <=> Arrived(id)
        <3>1. \A i \in DOMAIN cq : cq[i] # h => \E j \in DOMAIN cq' : cq'[j] = cq[i]
            BY <1>2, Zenon
        <3>2. \A i \in DOMAIN cq' : \E j \in DOMAIN cq : cq[j] = cq'[i]
            BY <1>2, Zenon
        <3>3. wrid_wc_map_' = wrid_wc_map_ \cup {h} /\ 1 \in DOMAIN cq /\ cq[1] = h
            BY <1>1, <1>2, Zenon
        <3> HIDE DEF h
        <3>4. \A id : Arrived(id) => Arrived(id)'
            BY <3>1, <3>3, Zenon DEF Arrived
        <3>5. \A id : Arrived(id)' => Arrived(id)
            BY <3>2, <3>3, Zenon DEF Arrived
        <3> QED BY <3>4, <3>5, Zenon
    <2>2. \A i \in DOMAIN cq' : cq'[i] # h
        BY <1>2 DEF CompletionInv, OnceInv
    <2>3. \A i, j \in DOMAIN cq' : cq'[i] = cq'[j] => i = j
        <3> SUFFICES ASSUME NEW i \in DOMAIN cq', NEW j \in DOMAIN cq', cq'[i] = cq'[j] PROVE i = j
            OBVIOUS
        <3>1. i \in Nat /\ j \in Nat /\ i + 1 = j + 1
            BY <1>2 DEF CompletionInv, OnceInv
        <3> QED BY <3>1
    <2>4. \A i \in DOMAIN cq' : cq'[i] \notin wrid_wc_map_' /\ \E g \in Fibers : cq'[i] \in wait[g]
        BY <1>1, <1>2, <2>2 DEF CompletionInv, OnceInv
    <2>5. \A id \in wrid_wc_map_' : \E g \in Fibers : id \in wait[g]
        BY <1>1, <1>2 DEF CompletionInv, OnceInv
    <2> QED BY <1>1, <2>1, <2>3, <2>4, <2>5 DEF CompletionInv, OnceInv
<1> QED BY <1>3, <1>4, <1>5, <1>6 DEF CompletionInv

-----------------------------------------------------------------------------
(* The adapter. *)

(* Executing a WR keeps the invariant: the completion of the WR goes to    *)
(* the end of the completion queue.                                        *)
LEMMA ExecuteKeeps ==
    ASSUME CompletionInv, NEW s \in Servers, execute(s)
    PROVE  CompletionInv'
<1> DEFINE h == Head(qp[s])
           N(t) == IF t = s THEN 1 ELSE 0
<1> USE DEF CompletionInv
<1>1. /\ qp[s] # <<>> /\ qp' = [qp EXCEPT ![s] = Tail(@)]
      /\ cq' = IF h.signaled THEN Append(cq, h.id) ELSE cq
      /\ UNCHANGED <<load, wrid_wc_map_, pc, cur, wait>>
    BY Zenon DEF execute
<1>2. /\ 1 \in DOMAIN qp[s] /\ h = qp[s][1] /\ h \in WRs
      /\ Tail(qp[s]) \in Seq(WRs)
      /\ \A i \in DOMAIN Tail(qp[s]) :
           i \in Nat \ {0} /\ i + 1 \in DOMAIN qp[s] /\ Tail(qp[s])[i] = qp[s][i + 1]
      /\ \A i \in DOMAIN qp[s] :
           i \in Nat \ {0} /\ (i # 1 => i - 1 \in DOMAIN Tail(qp[s]) /\ Tail(qp[s])[i - 1] = qp[s][i])
    BY <1>1, TailFacts DEF TypeOK
<1>3. /\ qp' \in [Servers -> Seq(WRs)]
      /\ qp'[s] = Tail(qp[s])
      /\ \A t \in Servers \ {s} : qp'[t] = qp[t]
    BY <1>1, <1>2 DEF TypeOK
<1>4. cq \in Seq(WrIds) /\ h.id \in WrIds
    BY <1>2, Zenon DEF TypeOK, WRs
<1>5. /\ cq' \in Seq(WrIds)
      /\ \A i \in DOMAIN cq : i \in DOMAIN cq' /\ cq'[i] = cq[i]
      /\ h.signaled => /\ DOMAIN cq' = DOMAIN cq \cup {Len(cq) + 1}
                       /\ Len(cq) + 1 \notin DOMAIN cq
                       /\ cq'[Len(cq) + 1] = h.id
      /\ ~h.signaled => cq' = cq
    <2>1. CASE h.signaled
        <3>1. cq' = Append(cq, h.id)
            BY <1>1, <2>1, Zenon
        <3> QED BY <1>4, <2>1, <3>1, AppendFacts
    <2>2. CASE ~h.signaled
        BY <1>1, <1>4, <2>2, Zenon
    <2> QED BY <2>1, <2>2, Zenon
<1>6. TypeOK'
    BY <1>1, <1>3, <1>5, Zenon DEF TypeOK
<1>7. CallInv'
    <2>1. \A g \in Fibers : Call(g)' = Call(g) /\ last_wr_ids(g)' = last_wr_ids(g)
        BY <1>1, SameCall, Zenon
    <2> QED BY <1>1, <2>1, Zenon DEF CallInv
<1>8. ASSUME NEW t \in Servers, NEW i \in DOMAIN qp'[t]
      PROVE  /\ i \in Nat \ {0} /\ i + N(t) \in DOMAIN qp[t] /\ qp'[t][i] = qp[t][i + N(t)]
             /\ t = s => i + N(t) # 1
    <2>1. i \in Nat \ {0}
        BY <1>3, <1>8, SeqFacts
    <2>2. CASE t = s
        BY <1>2, <1>3, <1>8, <2>1, <2>2
    <2>3. CASE t # s
        BY <1>3, <1>8, <2>1, <2>3
    <2> QED BY <2>2, <2>3, Zenon
<1>9. ASSUME NEW t \in Servers, NEW i \in DOMAIN qp[t], t = s => i # 1
      PROVE  /\ i \in Nat \ {0} /\ i - N(t) \in DOMAIN qp'[t] /\ qp'[t][i - N(t)] = qp[t][i]
    <2>1. i \in Nat \ {0}
        BY <1>9, SeqFacts DEF TypeOK
    <2>2. CASE t = s
        BY <1>2, <1>3, <1>9, <2>1, <2>2, Zenon
    <2>3. CASE t # s
        BY <1>3, <1>9, <2>1, <2>3
    <2> QED BY <2>2, <2>3, Zenon
<1>10. PostedInv'
    <2>1. SUFFICES ASSUME NEW t \in Servers, NEW i \in DOMAIN qp'[t]
                   PROVE  LET x == qp'[t][i] IN
                          /\ x.by[2] =< cur'[x.by[1]]
                          /\ x.by[2] = cur'[x.by[1]] =>
                               /\ pc'[x.by[1]] # "ready"
                               /\ \E j \in DOMAIN qp'[t] : i =< j /\ qp'[t][j].signaled /\ qp'[t][j].by = x.by
                          /\ x.signaled => x.by[2] = cur'[x.by[1]] /\ x.id \in wait'[x.by[1]]
        BY Zenon DEF PostedInv
    <2>2. /\ i \in Nat \ {0} /\ i + N(t) \in DOMAIN qp[t] /\ qp'[t][i] = qp[t][i + N(t)]
          /\ t = s => i + N(t) # 1
        BY <1>8, Zenon
    <2> DEFINE x == qp[t][i + N(t)]
    <2>3. /\ x.by[2] =< cur[x.by[1]]
          /\ x.by[2] = cur[x.by[1]] =>
               /\ pc[x.by[1]] # "ready"
               /\ \E j \in DOMAIN qp[t] : i + N(t) =< j /\ qp[t][j].signaled /\ qp[t][j].by = x.by
          /\ x.signaled => x.by[2] = cur[x.by[1]] /\ x.id \in wait[x.by[1]]
        BY <2>2 DEF PostedInv
    <2>4. ASSUME x.by[2] = cur[x.by[1]]
          PROVE  \E j \in DOMAIN qp'[t] : i =< j /\ qp'[t][j].signaled /\ qp'[t][j].by = x.by
        <3>1. PICK j \in DOMAIN qp[t] : i + N(t) =< j /\ qp[t][j].signaled /\ qp[t][j].by = x.by
            BY <2>3, <2>4, Zenon
        <3>2. j \in Nat
            BY SeqFacts DEF TypeOK
        <3>3. t = s => j # 1
            BY <2>2, <3>1, <3>2
        <3>4. j - N(t) \in DOMAIN qp'[t] /\ qp'[t][j - N(t)] = qp[t][j]
            BY <1>9, <3>3, Zenon
        <3>5. i =< j - N(t)
            BY <2>2, <3>1, <3>2
        <3> QED BY <3>1, <3>4, <3>5, Zenon
    <2>5. qp'[t][i] = x /\ UNCHANGED <<cur, pc, wait>>
        BY <1>1, <2>2, Zenon
    <2> HIDE DEF x
    <2> QED BY <2>3, <2>4, <2>5, Zenon
<1>11. OnceInv'
    <2>1. \A id : Arrived(id)' <=> Arrived(id) \/ (h.signaled /\ id = h.id)
        BY <1>1, <1>5, Zenon DEF Arrived
    <2>2. h.signaled => ~Arrived(h.id) /\ \E g \in Fibers : h.id \in wait[g]
        <3> SUFFICES ASSUME h.signaled PROVE ~Arrived(h.id) /\ \E g \in Fibers : h.id \in wait[g]
            OBVIOUS
        <3>1. h.by[1] \in Fibers
            BY <1>2, Zenon DEF WRs
        <3> QED BY <1>2, <3>1 DEF OnceInv, PostedInv
    <2>3. \A t, u \in Servers : \A i \in DOMAIN qp'[t], j \in DOMAIN qp'[u] :
            qp'[t][i].signaled /\ qp'[u][j].signaled /\ qp'[t][i].id = qp'[u][j].id => t = u /\ i = j
        <3> SUFFICES ASSUME NEW t \in Servers, NEW u \in Servers,
                            NEW i \in DOMAIN qp'[t], NEW j \in DOMAIN qp'[u],
                            qp'[t][i].signaled, qp'[u][j].signaled, qp'[t][i].id = qp'[u][j].id
                     PROVE  t = u /\ i = j
            OBVIOUS
        <3>1. i \in Nat /\ j \in Nat /\ t = u /\ i + N(t) = j + N(u)
            BY <1>8 DEF OnceInv
        <3> QED BY <3>1
    <2>4. (\A t \in Servers : \A i \in DOMAIN qp[t] : qp[t][i].signaled => ~Arrived(qp[t][i].id))'
        <3> SUFFICES ASSUME NEW t \in Servers, NEW i \in DOMAIN qp'[t], qp'[t][i].signaled
                     PROVE  ~(Arrived(qp[t][i].id)')
            OBVIOUS
        <3>1. /\ i + N(t) \in DOMAIN qp[t] /\ qp'[t][i] = qp[t][i + N(t)]
              /\ t = s => i + N(t) # 1
            BY <1>8, Zenon
        <3>2. ~Arrived(qp'[t][i].id)
            BY <3>1, Zenon DEF OnceInv
        <3>3. ~(h.signaled /\ qp'[t][i].id = h.id)
            BY <1>2, <3>1 DEF OnceInv
        <3> QED BY <2>1, <3>2, <3>3, Zenon DEF Arrived
    <2>5. \A i, j \in DOMAIN cq' : cq'[i] = cq'[j] => i = j
        BY <1>5, <2>2 DEF OnceInv, Arrived
    <2>6. \A i \in DOMAIN cq' : cq'[i] \notin wrid_wc_map_ /\ \E g \in Fibers : cq'[i] \in wait[g]
        BY <1>5, <2>2 DEF OnceInv, Arrived
    <2>7. \A g \in Fibers : \A id \in wait[g] :
            Arrived(id)' \/ \E t \in Servers : \E i \in DOMAIN qp'[t] : qp'[t][i].signaled /\ qp'[t][i].id = id
        <3> SUFFICES ASSUME NEW g \in Fibers, NEW id \in wait[g], ~Arrived(id)'
                     PROVE  \E t \in Servers : \E i \in DOMAIN qp'[t] : qp'[t][i].signaled /\ qp'[t][i].id = id
            OBVIOUS
        <3>1. ~Arrived(id) /\ ~(h.signaled /\ id = h.id)
            BY <2>1, Zenon
        <3>2. PICK t \in Servers : \E i \in DOMAIN qp[t] : qp[t][i].signaled /\ qp[t][i].id = id
            BY <3>1, Zenon DEF OnceInv
        <3>3. PICK i \in DOMAIN qp[t] : qp[t][i].signaled /\ qp[t][i].id = id
            BY <3>2, Zenon
        <3>4. t = s => i # 1
            BY <1>2, <3>1, <3>3, Zenon
        <3> QED BY <1>9, <3>3, <3>4
    <2> QED BY <1>1, <2>3, <2>4, <2>5, <2>6, <2>7, Zenon DEF OnceInv
<1> QED BY <1>6, <1>7, <1>10, <1>11

-----------------------------------------------------------------------------
(* Posting. *)

(* A fiber that is about to call has nothing of its call in a queue pair,  *)
(* and nothing signaled.                                                   *)
LEMMA NothingPosted ==
    ASSUME CompletionInv, NEW f \in Fibers, pc[f] = "ready",
           NEW s \in Servers, NEW i \in DOMAIN qp[s], qp[s][i].by[1] = f
    PROVE  qp[s][i].by[2] < cur[f] /\ ~qp[s][i].signaled
<1>1. qp[s][i] \in WRs /\ cur[f] \in Nat
    BY SeqFacts, Zenon DEF CompletionInv, TypeOK
<1>2. qp[s][i].by[2] \in Nat
    BY <1>1, Zenon DEF WRs
<1> QED BY <1>1, <1>2 DEF CompletionInv, PostedInv

(* The ids of a call are free when it is made: nobody waits for them, they *)
(* have not arrived and no signaled WR has them.                           *)
LEMMA FreshIds ==
    ASSUME CompletionInv, NEW f \in Fibers, post(f), NEW id \in last_wr_ids(f)
    PROVE  /\ \A g \in Fibers : id \notin wait[g]
           /\ ~Arrived(id)
           /\ \A s \in Servers : \A i \in DOMAIN qp[s] : qp[s][i].signaled => qp[s][i].id # id
<1> USE DEF CompletionInv
<1>1. pc[f] = "ready" /\ cur[f] =< Len(load.program[f]) /\ Idle
    BY Zenon DEF post
<1>2. ASSUME NEW g \in Fibers PROVE id \notin wait[g]
    <2>1. CASE pc[g] = "ready"
        BY <2>1, Zenon DEF CallInv
    <2>2. CASE pc[g] # "ready"
        <3>1. f # g /\ pc[g] = "sleep"
            BY <1>1, <2>2 DEF Idle, TypeOK
        <3>2. cur[g] =< Len(load.program[g]) /\ Call(g).how = "async" /\ wait[g] \subseteq last_wr_ids(g)
            BY <3>1, Zenon DEF CallInv
        <3> QED BY <1>1, <3>1, <3>2, OtherIds, Zenon
    <2> QED BY <2>1, <2>2
<1>3. ~Arrived(id)
    BY <1>2 DEF OnceInv, Arrived
<1>4. ASSUME NEW s \in Servers, NEW i \in DOMAIN qp[s], qp[s][i].signaled PROVE qp[s][i].id # id
    <2>1. qp[s][i] \in WRs
        BY SeqFacts DEF TypeOK
    <2>2. qp[s][i].by[1] \in Fibers
        BY <2>1, Zenon DEF WRs
    <2> QED BY <1>2, <1>4, <2>2, Zenon DEF PostedInv
<1> QED BY <1>2, <1>3, <1>4, Zenon

(* The posting half of a call keeps the invariant. *)
LEMMA PostKeeps ==
    ASSUME CompletionInv, NEW f \in Fibers, post(f)
    PROVE  CompletionInv'
<1> USE DEF CompletionInv
<1> DEFINE New(s) == DOMAIN qp'[s] \ DOMAIN qp[s]
           quiet == Call(f).how = "unsignaled"
<1>1. /\ pc[f] = "ready" /\ cur[f] =< Len(load.program[f]) /\ Idle
      /\ UNCHANGED <<load, cq, wrid_wc_map_>>
      /\ cur[f] \in Nat /\ wait[f] = {}
    BY Zenon DEF post, TypeOK, CallInv
<1>2. /\ \A g \in Fibers \ {f} : cur'[g] = cur[g] /\ pc'[g] = pc[g] /\ wait'[g] = wait[g]
      /\ quiet => cur'[f] = cur[f] + 1 /\ pc'[f] = "ready" /\ wait'[f] = {}
      /\ ~quiet => /\ cur'[f] = cur[f] /\ wait'[f] = last_wr_ids(f)
                   /\ pc'[f] = IF Call(f).how = "async" THEN "sleep" ELSE "busy"
    BY <1>1, Zenon DEF post, TypeOK
<1>3. ASSUME NEW s \in Servers
      PROVE  /\ qp'[s] \in Seq(WRs)
             /\ \A i \in DOMAIN qp[s] : i \in DOMAIN qp'[s] /\ qp'[s][i] = qp[s][i]
             /\ \A i \in New(s) :
                  /\ qp'[s][i].by[1] = f /\ qp'[s][i].by[2] = cur[f]
                  /\ i =< Len(qp'[s]) /\ Len(qp'[s]) \in New(s)
                  /\ Call(f).wrs[s] > 0
                  /\ qp'[s][i].signaled <=> ~quiet /\ i = Len(qp'[s])
             /\ Len(qp'[s]) \in New(s) =>
                  qp'[s][Len(qp'[s])].id = IF Call(f).how \in {"one", "map_sync"} THEN fixed_id
                                          ELSE <<f, s, Call(f).wrs[s]>>
             /\ Call(f).wrs[s] > 0 => Len(qp'[s]) \in New(s)
    <2> DEFINE m == ib_merge_sr_lists(f, s)
               n == Call(f).wrs[s]
    <2>1. /\ m \in Seq(WRs) /\ Len(m) = n /\ n \in Nat /\ qp[s] \in Seq(WRs)
          /\ \A i \in DOMAIN m :
               /\ i \in 1..n
               /\ m[i].by[1] = f /\ m[i].by[2] = cur[f]
               /\ m[i].id = IF Call(f).how \in {"one", "map_sync"} THEN fixed_id ELSE <<f, s, i>>
               /\ m[i].signaled <=> Call(f).how # "unsignaled" /\ i = n
        BY MergedType DEF post, CompletionInv, TypeOK
    <2>2. qp'[s] = qp[s] \o m
        BY Zenon DEF post
    <2> HIDE DEF m, n
    <2>3. /\ Len(qp[s]) \in Nat /\ DOMAIN qp[s] = 1..Len(qp[s]) /\ DOMAIN m = 1..n
        BY <2>1, SeqFacts, Zenon
    <2>4. /\ qp'[s] \in Seq(WRs) /\ DOMAIN qp'[s] = 1..(Len(qp[s]) + n)
          /\ Len(qp'[s]) = Len(qp[s]) + n
          /\ \A i \in DOMAIN qp[s] : i \in DOMAIN qp'[s] /\ qp'[s][i] = qp[s][i]
          /\ \A i \in DOMAIN qp'[s] \ DOMAIN qp[s] : i - Len(qp[s]) \in DOMAIN m /\ qp'[s][i] = m[i - Len(qp[s])]
        <3> DEFINE q == qp[s]
        <3>1. q \in Seq(WRs) /\ m \in Seq(WRs) /\ Len(m) = n /\ qp'[s] = q \o m
            BY <2>1, <2>2, Zenon
        <3> SUFFICES /\ qp'[s] \in Seq(WRs) /\ DOMAIN qp'[s] = 1..(Len(q) + n)
                     /\ Len(qp'[s]) = Len(q) + n
                     /\ \A i \in DOMAIN q : i \in DOMAIN qp'[s] /\ qp'[s][i] = q[i]
                     /\ \A i \in DOMAIN qp'[s] \ DOMAIN q : i - Len(q) \in DOMAIN m /\ qp'[s][i] = m[i - Len(q)]
            OBVIOUS
        <3> HIDE DEF q
        <3>2. /\ q \o m \in Seq(WRs)
              /\ DOMAIN (q \o m) = 1..(Len(q) + Len(m)) /\ Len(q \o m) = Len(q) + Len(m)
              /\ \A i \in DOMAIN q : i \in DOMAIN (q \o m) /\ (q \o m)[i] = q[i]
              /\ \A i \in DOMAIN (q \o m) \ DOMAIN q : i - Len(q) \in DOMAIN m /\ (q \o m)[i] = m[i - Len(q)]
            BY <3>1, ConcatFacts, Zenon
        <3> QED BY <3>1, <3>2, Zenon
    <2>5. ASSUME NEW i \in DOMAIN qp'[s] \ DOMAIN qp[s]
          PROVE  /\ qp'[s][i].by[1] = f /\ qp'[s][i].by[2] = cur[f]
                 /\ i =< Len(qp'[s]) /\ Len(qp'[s]) \in DOMAIN qp'[s] \ DOMAIN qp[s]
                 /\ i \in Nat /\ Len(qp'[s]) \in Nat
                 /\ n > 0
                 /\ qp'[s][i].signaled <=> Call(f).how # "unsignaled" /\ i = Len(qp'[s])
                 /\ i = Len(qp'[s]) =>
                      qp'[s][i].id = IF Call(f).how \in {"one", "map_sync"} THEN fixed_id ELSE <<f, s, n>>
        <3> DEFINE k == i - Len(qp[s])
        <3>1. k \in DOMAIN m /\ qp'[s][i] = m[k] /\ k \in 1..n
            BY <2>1, <2>4, <2>5, Zenon
        <3>2. /\ i \in Nat /\ n > 0 /\ i =< Len(qp'[s]) /\ Len(qp'[s]) \in Nat
              /\ Len(qp'[s]) \in DOMAIN qp'[s] \ DOMAIN qp[s]
              /\ k = n <=> i = Len(qp'[s])
            BY <2>1, <2>3, <2>4, <2>5, <3>1
        <3> HIDE DEF k
        <3>3. /\ qp'[s][i].by[1] = f /\ qp'[s][i].by[2] = cur[f]
              /\ qp'[s][i].id = IF Call(f).how \in {"one", "map_sync"} THEN fixed_id ELSE <<f, s, k>>
              /\ qp'[s][i].signaled <=> Call(f).how # "unsignaled" /\ k = n
            BY <2>1, <3>1
        <3> QED BY <3>2, <3>3, Zenon
    <2>6. n > 0 => Len(qp'[s]) \in DOMAIN qp'[s] \ DOMAIN qp[s]
        BY <2>1, <2>3, <2>4
    <2> QED BY <2>4, <2>5, <2>6, Zenon DEF n
<1>typ. ASSUME NEW s \in Servers
        PROVE  qp'[s] \in Seq(WRs)
    BY <1>3, Zenon
<1>old. ASSUME NEW s \in Servers, NEW i \in DOMAIN qp[s]
        PROVE  i \in DOMAIN qp'[s] /\ qp'[s][i] = qp[s][i]
    BY <1>3, Zenon
<1>new. ASSUME NEW s \in Servers, NEW i \in New(s)
        PROVE  /\ qp'[s][i].by = <<f, cur[f]>>
               /\ i =< Len(qp'[s]) /\ Len(qp'[s]) \in New(s)
               /\ qp'[s][i].signaled <=> ~quiet /\ i = Len(qp'[s])
    <2>1. qp'[s][i] \in WRs
        BY <1>3, SeqFacts, Zenon
    <2>2. qp'[s][i].by = <<f, cur[f]>>
        <3>1. qp'[s][i].by \in Fibers \X Nat
            BY <2>1, Zenon DEF WRs
        <3>2. qp'[s][i].by[1] = f /\ qp'[s][i].by[2] = cur[f]
            BY <1>3, Zenon
        <3> QED BY <3>1, <3>2
    <2> QED BY <1>3, <2>2, Zenon
<1>last. ASSUME NEW s \in Servers
         PROVE  /\ Call(f).wrs[s] > 0 <=> Len(qp'[s]) \in New(s)
                /\ Len(qp'[s]) \in New(s) => qp'[s][Len(qp'[s])].id = wr_id(f, s, Call(f).wrs[s])
    BY <1>3, Zenon DEF wr_id, ib_gen_wr_id
<1>4. ASSUME NEW s \in Servers, NEW i \in New(s), qp'[s][i].signaled
      PROVE  qp'[s][i].id \in last_wr_ids(f)
    BY <1>4, <1>new, <1>last DEF last_wr_ids
<1>5. last_wr_ids(f) \subseteq WrIds
    BY <1>1, LastIds DEF WrIds
<1>6. TypeOK'
    <2>1. qp' \in [Servers -> Seq(WRs)]
        <3>1. qp' = [s \in Servers |-> qp'[s]]
            BY Zenon DEF post
        <3> QED BY <1>typ, <3>1
    <2>2. cur' \in [Fibers -> Nat \ {0}] /\ pc' \in [Fibers -> {"ready", "sleep", "busy"}]
        <3>1. CASE quiet
            BY <3>1 DEF post, TypeOK
        <3>2. CASE ~quiet
            BY <3>2, Zenon DEF post, TypeOK
        <3> QED BY <3>1, <3>2
    <2>3. wait' \in [Fibers -> SUBSET WrIds]
        BY <1>5 DEF post, TypeOK
    <2> QED BY <1>1, <2>1, <2>2, <2>3, Zenon DEF TypeOK
<1>7. CallInv'
    <2>1. \A g, h \in Fibers : pc'[g] = "busy" /\ pc'[h] = "busy" => g = h
        BY <1>1, <1>2 DEF Idle
    <2>2. ASSUME NEW g \in Fibers, pc'[g] = "ready" PROVE wait'[g] = {}
        BY <1>2, <2>2 DEF CallInv
    <2>3. ASSUME NEW g \in Fibers, pc'[g] # "ready"
          PROVE  /\ cur'[g] =< Len(load'.program[g])
                 /\ Call(g)'.how # "unsignaled"
                 /\ pc'[g] = "sleep" <=> Call(g)'.how = "async"
                 /\ wait'[g] \subseteq last_wr_ids(g)'
        <3>1. cur'[g] = cur[g]
            BY <1>2, <2>3, Zenon
        <3>2. Call(g)' = Call(g) /\ last_wr_ids(g)' = last_wr_ids(g)
            BY <1>1, <3>1, SameCall, Zenon
        <3>3. CASE g = f
            BY <1>1, <1>2, <2>3, <3>1, <3>2, <3>3, Zenon
        <3>4. CASE g # f
            BY <1>1, <1>2, <2>3, <3>1, <3>2, <3>4 DEF CallInv
        <3> QED BY <3>3, <3>4, Zenon
    <2> QED BY <2>1, <2>2, <2>3, Zenon DEF CallInv
<1>8. PostedInv'
    <2>1. SUFFICES ASSUME NEW s \in Servers, NEW i \in DOMAIN qp'[s]
                   PROVE  LET x == qp'[s][i] IN
                          /\ x.by[2] =< cur'[x.by[1]]
                          /\ x.by[2] = cur'[x.by[1]] =>
                               /\ pc'[x.by[1]] # "ready"
                               /\ \E j \in DOMAIN qp'[s] : i =< j /\ qp'[s][j].signaled /\ qp'[s][j].by = x.by
                          /\ x.signaled => x.by[2] = cur'[x.by[1]] /\ x.id \in wait'[x.by[1]]
        BY Zenon DEF PostedInv
    <2> DEFINE x == qp'[s][i]
    <2>2. CASE i \in New(s)
        <3>1. /\ x.by = <<f, cur[f]>> /\ i =< Len(qp'[s]) /\ Len(qp'[s]) \in New(s)
              /\ x.signaled => ~quiet /\ x.id \in last_wr_ids(f)
            BY <1>new, <1>4, <2>2, Zenon
        <3>2. ~quiet => qp'[s][Len(qp'[s])].signaled /\ qp'[s][Len(qp'[s])].by = x.by
            BY <1>new, <3>1, Zenon
        <3> QED BY <1>1, <1>2, <3>1, <3>2
    <2>3. CASE i \in DOMAIN qp[s] /\ qp[s][i].by[1] = f
        <3>1. x = qp[s][i] /\ x.by[2] < cur[f] /\ ~x.signaled
            BY <1>1, <1>old, <2>3, NothingPosted
        <3>2. x \in WRs
            BY <1>typ, SeqFacts
        <3>3. x.by[2] \in Nat
            BY <3>2, Zenon DEF WRs
        <3>4. x.by[2] < cur'[f]
            BY <1>1, <1>2, <3>1, <3>3
        <3> QED BY <1>1, <2>3, <3>1, <3>3, <3>4, <1>2
    <2>4. CASE i \in DOMAIN qp[s] /\ qp[s][i].by[1] # f
        <3>1. x = qp[s][i] /\ x \in WRs
            BY <1>old, <1>typ, <2>4, SeqFacts, Zenon
        <3>2. x.by[1] \in Fibers \ {f}
            BY <2>4, <3>1, Zenon DEF WRs
        <3>3. /\ x.by[2] =< cur[x.by[1]]
              /\ x.by[2] = cur[x.by[1]] =>
                   /\ pc[x.by[1]] # "ready"
                   /\ \E j \in DOMAIN qp[s] : i =< j /\ qp[s][j].signaled /\ qp[s][j].by = x.by
              /\ x.signaled => x.by[2] = cur[x.by[1]] /\ x.id \in wait[x.by[1]]
            BY <2>4, <3>1 DEF PostedInv
        <3>4. (\E j \in DOMAIN qp[s] : i =< j /\ qp[s][j].signaled /\ qp[s][j].by = x.by)
              => \E j \in DOMAIN qp'[s] : i =< j /\ qp'[s][j].signaled /\ qp'[s][j].by = x.by
            BY <1>old, Zenon
        <3> QED BY <1>2, <3>2, <3>3, <3>4, Zenon
    <2> QED BY <2>2, <2>3, <2>4, Zenon
<1>9. OnceInv'
    <2>1. \A id : Arrived(id)' <=> Arrived(id)
        BY <1>1 DEF Arrived
    <2>2. ASSUME NEW s \in Servers, NEW t \in Servers, NEW i \in New(s), NEW j \in New(t),
                 qp'[s][i].signaled, qp'[t][j].signaled, qp'[s][i].id = qp'[t][j].id
          PROVE  s = t /\ i = j
        <3>1. i = Len(qp'[s]) /\ j = Len(qp'[t]) /\ Call(f).wrs[s] > 0 /\ Call(f).wrs[t] > 0
            BY <1>new, <1>last, <2>2, Zenon
        <3>2. CASE Call(f).how \in {"one", "map_sync"}
            <4>1. SingleWR(Call(f).wrs)
                BY <1>1, <3>2, CallType, Zenon DEF CallOK
            <4>2. PICK u \in Servers : Call(f).wrs = [v \in Servers |-> IF v = u THEN 1 ELSE 0]
                BY <4>1 DEF SingleWR
            <4> QED BY <3>1, <4>2
        <3>3. CASE Call(f).how \notin {"one", "map_sync"}
            <4>1. <<f, s, Call(f).wrs[s]>> = <<f, t, Call(f).wrs[t]>>
                BY <1>new, <1>last, <2>2, <3>1, <3>3, Zenon DEF wr_id, ib_gen_wr_id
            <4> QED BY <3>1, <4>1, Zenon
        <3> QED BY <3>2, <3>3
    <2>3. \A s, t \in Servers : \A i \in DOMAIN qp'[s], j \in DOMAIN qp'[t] :
            qp'[s][i].signaled /\ qp'[t][j].signaled /\ qp'[s][i].id = qp'[t][j].id => s = t /\ i = j
        <3> SUFFICES ASSUME NEW s \in Servers, NEW t \in Servers,
                            NEW i \in DOMAIN qp'[s], NEW j \in DOMAIN qp'[t],
                            qp'[s][i].signaled, qp'[t][j].signaled, qp'[s][i].id = qp'[t][j].id
                     PROVE  s = t /\ i = j
            OBVIOUS
        <3>1. CASE i \in New(s) /\ j \in New(t)
            BY <2>2, <3>1
        <3>2. CASE i \in New(s) /\ j \in DOMAIN qp[t]
            BY <1>old, <1>4, <3>2, FreshIds
        <3>3. CASE i \in DOMAIN qp[s] /\ j \in New(t)
            BY <1>old, <1>4, <3>3, FreshIds
        <3>4. CASE i \in DOMAIN qp[s] /\ j \in DOMAIN qp[t]
            BY <1>old, <3>4 DEF OnceInv
        <3> QED BY <3>1, <3>2, <3>3, <3>4, Zenon
    <2>4. (\A s \in Servers : \A i \in DOMAIN qp[s] : qp[s][i].signaled => ~Arrived(qp[s][i].id))'
        <3> SUFFICES ASSUME NEW s \in Servers, NEW i \in DOMAIN qp'[s], qp'[s][i].signaled
                     PROVE  ~(Arrived(qp[s][i].id)')
            OBVIOUS
        <3>1. ~Arrived(qp'[s][i].id)
            <4>1. CASE i \in New(s)
                BY <1>4, <4>1, FreshIds, Zenon
            <4>2. CASE i \in DOMAIN qp[s]
                BY <1>old, <4>2 DEF OnceInv
            <4> QED BY <4>1, <4>2, Zenon
        <3> QED BY <1>1, <3>1, Zenon DEF Arrived
    <2>5. \A g \in Fibers : wait[g] \subseteq wait'[g]
        BY <1>1, <1>2, Zenon
    <2>6. \A i \in DOMAIN cq : cq[i] \notin wrid_wc_map_ /\ \E g \in Fibers : cq[i] \in wait'[g]
        BY <2>5, Zenon DEF OnceInv
    <2>7. \A id \in wrid_wc_map_ : \E g \in Fibers : id \in wait'[g]
        BY <2>5, Zenon DEF OnceInv
    <2>8. \A g \in Fibers : \A id \in wait'[g] :
            Arrived(id)' \/ \E s \in Servers : \E i \in DOMAIN qp'[s] : qp'[s][i].signaled /\ qp'[s][i].id = id
        <3> SUFFICES ASSUME NEW g \in Fibers, NEW id \in wait'[g], ~Arrived(id)'
                     PROVE  \E s \in Servers : \E i \in DOMAIN qp'[s] : qp'[s][i].signaled /\ qp'[s][i].id = id
            OBVIOUS
        <3>1. CASE id \in wait[g]
            <4>1. \E s \in Servers : \E i \in DOMAIN qp[s] : qp[s][i].signaled /\ qp[s][i].id = id
                BY <2>1, <3>1, Zenon DEF OnceInv
            <4> QED BY <1>old, <4>1
        <3>2. CASE id \notin wait[g]
            <4>1. g = f /\ ~quiet /\ id \in last_wr_ids(f)
                BY <1>1, <1>2, <3>2, Zenon
            <4>2. PICK s \in Servers : Call(f).wrs[s] > 0 /\ id = wr_id(f, s, Call(f).wrs[s])
                BY <4>1, Zenon DEF last_wr_ids
            <4>3. Len(qp'[s]) \in New(s)
                BY <1>last, <4>2, Zenon
            <4>4. qp'[s][Len(qp'[s])].signaled /\ qp'[s][Len(qp'[s])].id = id
                BY <1>new, <1>last, <4>1, <4>2, <4>3, Zenon
            <4> QED BY <4>3, <4>4, Zenon
        <3> QED BY <3>1, <3>2, Zenon
    <2> QED BY <1>1, <2>3, <2>4, <2>6, <2>7, <2>8, Zenon DEF OnceInv
<1> QED BY <1>6, <1>7, <1>8, <1>9

-----------------------------------------------------------------------------
(* The theorems. *)

(* The invariant holds when the clients start. *)
LEMMA InitHolds == Init => CompletionInv
<1> SUFFICES ASSUME Init PROVE CompletionInv
    OBVIOUS
<1>1. TypeOK
    BY DEF Init, TypeOK
<1>2. CallInv
    BY Zenon DEF Init, CallInv
<1>3. \A s \in Servers : DOMAIN qp[s] = {}
    BY DEF Init
<1>4. DOMAIN cq = {} /\ wrid_wc_map_ = {} /\ \A f \in Fibers : wait[f] = {}
    BY DEF Init
<1> QED BY <1>1, <1>2, <1>3, <1>4, Zenon DEF CompletionInv, PostedInv, OnceInv

(* A step of a fiber keeps the invariant, and a call that returns has no   *)
(* WR in a queue pair.                                                     *)
LEMMA StepKeeps ==
    ASSUME CompletionInv, NEW f \in Fibers, Step(f)
    PROVE  /\ CompletionInv'
           /\ pc[f] # "ready" /\ pc'[f] = "ready" =>
                \A s \in Servers : \A i \in DOMAIN qp[s] : qp[s][i].by # <<f, cur[f]>>
           /\ \A g \in Fibers \ {f} : pc'[g] = pc[g]
<1>1. CASE post(f)
    <2>1. pc[f] = "ready" /\ \A g \in Fibers \ {f} : pc'[g] = pc[g]
        BY <1>1, Zenon DEF post, CompletionInv, TypeOK
    <2> QED BY <1>1, <2>1, PostKeeps
<1>2. CASE nm_check_completion(f)
    <2>1. \A g \in Fibers \ {f} : pc'[g] = pc[g]
        BY <1>2, Zenon DEF nm_check_completion, GoOn, CompletionInv, TypeOK
    <2> QED BY <1>2, <2>1, CheckKeeps, Zenon
<1>3. CASE rdma_post_sr_lists_sync(f)
    <2>1. \A g \in Fibers \ {f} : pc'[g] = pc[g]
        BY <1>3, Zenon DEF rdma_post_sr_lists_sync, GoOn, CompletionInv, TypeOK
    <2>2. /\ pc[f] = "busy" /\ Call(f).how \in {"sync", "one"} /\ cq # <<>>
          /\ cq' = Tail(cq) /\ GoOn(f, wait[f] \ {Head(cq)}) /\ UNCHANGED <<load, qp, wrid_wc_map_>>
        BY <1>3, Zenon DEF rdma_post_sr_lists_sync
    <2> QED BY <2>1, <2>2, TakeKeeps, Zenon
<1>4. CASE rdma_poll_one_completion(f)
    <2>1. \A g \in Fibers \ {f} : pc'[g] = pc[g]
        BY <1>4, Zenon DEF rdma_poll_one_completion, GoOn, CompletionInv, TypeOK
    <2>2. /\ pc[f] = "busy" /\ Call(f).how = "one" /\ cq # <<>>
          /\ cq' = Tail(cq) /\ GoOn(f, {}) /\ UNCHANGED <<load, qp, wrid_wc_map_>>
        BY <1>4, Zenon DEF rdma_poll_one_completion
    <2>3. wait[f] \ {Head(cq)} = {}
        BY <2>2, Alone, Zenon
    <2>4. GoOn(f, wait[f] \ {Head(cq)})
        BY <2>2, <2>3, Zenon
    <2> QED BY <2>1, <2>2, <2>4, TakeKeeps, Zenon
<1> QED BY <1>1, <1>2, <1>3, <1>4, Zenon DEF Step

(* Every step keeps the invariant, and a call that returns has no WR in a  *)
(* queue pair.                                                             *)
LEMMA NextKeeps ==
    ASSUME CompletionInv, [Next]_vars
    PROVE  /\ CompletionInv'
           /\ \A f \in Fibers : pc[f] # "ready" /\ pc'[f] = "ready" =>
                \A s \in Servers : \A i \in DOMAIN qp[s] : qp[s][i].by # <<f, cur[f]>>
<1>1. CASE \E f \in Fibers : Step(f)
    <2>1. PICK f \in Fibers : Step(f)
        BY <1>1
    <2>2. /\ CompletionInv'
          /\ pc[f] # "ready" /\ pc'[f] = "ready" =>
               \A s \in Servers : \A i \in DOMAIN qp[s] : qp[s][i].by # <<f, cur[f]>>
          /\ \A g \in Fibers \ {f} : pc'[g] = pc[g]
        BY <2>1, StepKeeps, Zenon
    <2> QED BY <2>2
<1>2. CASE \E s \in Servers : execute(s)
    <2>1. pc' = pc
        BY <1>2, Zenon DEF execute
    <2> QED BY <1>2, <2>1, ExecuteKeeps, Zenon
<1>3. CASE nm_polling
    <2>1. pc' = pc
        BY <1>3 DEF nm_polling
    <2> QED BY <1>3, <2>1, PollingKeeps, Zenon
<1>4. CASE UNCHANGED vars
    <2>1. \A f \in Fibers : Call(f)' = Call(f) /\ last_wr_ids(f)' = last_wr_ids(f)
        BY <1>4, SameCall DEF vars
    <2>2. TypeOK' /\ PostedInv' /\ OnceInv'
        BY <1>4 DEF vars, CompletionInv, TypeOK, PostedInv, OnceInv, Arrived
    <2>3. CallInv'
        BY <1>4, <2>1 DEF vars, CompletionInv, CallInv
    <2> QED BY <1>4, <2>2, <2>3, Zenon DEF vars, CompletionInv
<1> QED BY <1>1, <1>2, <1>3, <1>4, Zenon DEF Next

(* Every completion somebody waits for is in one place. *)
LEMMA OnePlace == CompletionInv => NoCompletionLost
<1> SUFFICES ASSUME CompletionInv, NEW f \in Fibers, NEW id \in wait[f]
             PROVE  \E p \in InQp(id) \cup InCq(id) \cup InMap(id) :
                        InQp(id) \cup InCq(id) \cup InMap(id) = {p}
    BY Zenon DEF NoCompletionLost
<1> USE DEF CompletionInv
<1>1. CASE id \in wrid_wc_map_
    <2>1. InMap(id) = {<<"map", "map", "map">>}
        BY <1>1 DEF InMap
    <2>2. InCq(id) = {}
        BY <1>1 DEF InCq, OnceInv
    <2>3. InQp(id) = {}
        BY <1>1 DEF InQp, OnceInv, Arrived
    <2> QED BY <2>1, <2>2, <2>3
<1>2. CASE \E i \in DOMAIN cq : cq[i] = id
    <2>1. PICK i \in DOMAIN cq : cq[i] = id
        BY <1>2
    <2>2. InMap(id) = {}
        BY <2>1 DEF InMap, OnceInv
    <2>3. InCq(id) = {<<"cq", "cq", i>>}
        BY <2>1 DEF InCq, OnceInv
    <2>4. InQp(id) = {}
        BY <1>2 DEF InQp, OnceInv, Arrived
    <2> QED BY <2>2, <2>3, <2>4
<1>3. CASE ~Arrived(id)
    <2>1. InMap(id) = {} /\ InCq(id) = {}
        BY <1>3 DEF InMap, InCq, Arrived
    <2>2. PICK s \in Servers : \E i \in DOMAIN qp[s] : qp[s][i].signaled /\ qp[s][i].id = id
        BY <1>3, Zenon DEF OnceInv
    <2>3. PICK i \in DOMAIN qp[s] : qp[s][i].signaled /\ qp[s][i].id = id
        BY <2>2, Zenon
    <2>4. <<s, i>> \in InQp(id)
        BY <2>3 DEF InQp
    <2>5. \A x \in InQp(id) : x = <<s, i>>
        <3> SUFFICES ASSUME NEW x \in InQp(id) PROVE x = <<s, i>>
            OBVIOUS
        <3>1. PICK t \in Servers : x \in {t} \X DOMAIN qp[t] /\ qp[x[1]][x[2]].signaled /\ qp[x[1]][x[2]].id = id
            BY Zenon DEF InQp
        <3>2. PICK j \in DOMAIN qp[t] : x = <<t, j>>
            BY <3>1
        <3>3. t = s /\ j = i
            BY <2>3, <3>1, <3>2 DEF OnceInv
        <3> QED BY <3>2, <3>3
    <2> QED BY <2>1, <2>4, <2>5
<1> QED BY <1>1, <1>2, <1>3, Zenon DEF Arrived

(* CompletionInv is an invariant for any fibers, servers and programs of   *)
(* calls of nm.cc.                                                         *)
THEOREM CompletionInvHolds == Spec => []CompletionInv
<1>1. CompletionInv /\ [Next]_vars => CompletionInv'
    BY NextKeeps, Zenon
<1> QED BY <1>1, InitHolds, PTL DEF Spec

(* No completion a call waits for is taken by another call or comes twice, *)
(* although the ids are used again by every call and the calls for one WR  *)
(* share an id (nm_check_completion, rdma_post_sr_lists_sync).             *)
THEOREM CompletionsKept == Spec => []NoCompletionLost
BY CompletionInvHolds, OnePlace, PTL

(* A call returns only when all its WRs have been executed, although only  *)
(* the last one for each server is signaled (ib_merge_sr_lists).           *)
THEOREM ReturnsAfterWork == Spec => ReturnsAfterOwnWork
<1>1. CompletionInv /\ [Next]_vars =>
        [\A f \in Fibers : pc[f] # "ready" /\ pc'[f] = "ready" =>
           \A s \in Servers : \A i \in DOMAIN qp[s] : qp[s][i].by # <<f, cur[f]>>]_vars
    BY NextKeeps, Zenon
<1> QED BY <1>1, CompletionInvHolds, PTL DEF Spec, ReturnsAfterOwnWork

=============================================================================
