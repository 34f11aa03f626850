---------------------------- MODULE MCCompletion ----------------------------
(* Instances of Completion for TLC: the calls a client makes in each mode. *)
EXTENDS Completion

To(m, n) == [s1 |-> m, s2 |-> n]
Do(h, m, n) == [how |-> h, wrs |-> To(m, n)]

(* The phases of an UPDATE in each of two fibers, which both run out of    *)
(* memory and register a new block on the way (dyn_reg_new_space).         *)
FiberCalls ==
    [f1 |-> <<Do("async", 2, 1), Do("async", 1, 1), Do("map_sync", 0, 1),
              Do("unsignaled", 1, 1), Do("async", 2, 0)>>,
     f2 |-> <<Do("async", 1, 1), Do("map_sync", 1, 0), Do("map_sync", 0, 1), Do("async", 1, 2)>>]

FiberCallsNoAlloc ==
    [f1 |-> <<Do("async", 2, 1), Do("unsignaled", 1, 1), Do("async", 1, 1)>>,
     f2 |-> <<Do("async", 1, 2), Do("async", 1, 0)>>]

(* The start of a client, then an UPDATE with the synchronous calls. *)
SyncCalls ==
    [f1 |-> <<Do("one", 1, 0), Do("one", 0, 1), Do("sync", 2, 1), Do("sync", 1, 1),
              Do("unsignaled", 1, 1), Do("sync", 2, 0)>>,
     f2 |-> <<>>]

(* The same with a new block on the way. *)
SyncCallsAlloc ==
    [f1 |-> <<Do("one", 1, 0), Do("map_sync", 1, 0), Do("sync", 1, 1)>>, f2 |-> <<>>]

AllModes ==
    {[poller |-> "thread", program |-> FiberCalls],
     [poller |-> "fiber", program |-> FiberCallsNoAlloc],
     [poller |-> "none", program |-> SyncCalls]}

NoPoller == {[poller |-> "none", program |-> SyncCallsAlloc]}
PollFiber == {[poller |-> "fiber", program |-> FiberCalls]}

=============================================================================
