# A TLA+ verification of FUSEE-FS

FUSEE-FS stores the metadata of a file system in FUSEE, a key-value store on
disaggregated memory. Clients reach the memory of the storage servers with
one-sided RDMA operations (READ, WRITE, CAS, FAA); the servers only hand out
memory. This directory models the parts of the repository that carry state,
checks them with TLC on small instances and proves the central properties with
TLAPS for every instance.

## The system

| part | code | what it does | module |
|---|---|---|---|
| replication protocol | `src/client.cc` (`kv_insert`, `kv_update`, `kv_delete`) | conflicting writers of a slot agree by CAS on the backups who wins | `Snapshot` |
| operation recovery | `src/client.cc` (`client_recovery`, `kv_recover*`) | a restarted client replays its last logged request | `Recovery` |
| search, address cache, failed servers | `src/client.cc` (`kv_search*`), `src/client.h` | reads through a cache of addresses and around servers marked as failed | `Search` |
| hash index | `src/hashtable.*`, `src/client.cc` (`find_*`, `get_kv_hash_info`) | finds the buckets of a key, an empty slot, the slot of a key | `Index` |
| placement of subtables | `src/client_mm.cc`, `src/server_mm.cc`, `src/hashtable.h` | lays the replicas of the subtables out in server memory | `Subtables` |
| chained client | `src/client_cr.cc` | an alternative client that updates the index replicas one after another | `ClientCR` |
| client and server memory | `src/client_mm.cc`, `src/server_mm.cc`, `src/server.cc` | cuts blocks into subblocks, one per request | `ClientMM` |
| embedded log, memory recovery | `src/kv_utils.h`, `src/client_mm.cc` | every pair ends in a `KVLogTail` that names the next allocation; a restart rebuilds the free queue from the chain | `ClientMM` |
| completions | `src/nm.cc`, `src/ib.cc` | posts work requests, files and waits for their completions | `Completion` |
| file system | `fs/engine` | directories and inodes as key-value pairs | `Engine` |
| inode groups, locks | `fs/central` | RPC handlers for locks and inode groups | through `Engine` |

How they interact: a request takes a subblock (`mm_alloc`), writes its pair and
log tail there, READs the buckets of its key, CASes the address into the index
replicas, and leaves the replaced subblock to the garbage collector. The file
system issues such requests, several per call. What makes the code hard: every
participant is a client acting alone with one-sided operations; fibers of a
client interleave at each wait; a request can be abandoned at each wait
(`should_stop`); a client can die between any two steps and come back with only
what it left in remote memory; buckets are read one by one while others change
them; the file-system calls are rows of independent pairs.

The modules compose by extension and by abstraction. `Recovery` and `Search`
extend `Snapshot`: crashes and replays, or searches, run beside its writers.
`Index` takes the replacement of one slot for one step, and `Engine` an operation
on one key for one step; `ImplementsRegister` of `Snapshot` is what justifies
both.

## Modules

**Snapshot** follows one slot: `pr` and `bk[b]` are the replicas, the other
variables the fields of each request's `KVReqCtx`. There is one action per
function of the chain in `kv_insert`, `kv_update`, `kv_delete` and one per RDMA
operation that takes effect at a memory node (`CasBackup`, `CasRest`,
`ReadPrimary`, `CasPrimary`, `WriteInvalid`); operations of a batch land in any
order. `SyncReq` marks the `_sync` variants, `CacheReq` requests that may act on
any earlier value of the slot, `FullReq` failed allocations, `StopReq` requests
whose `should_stop` may be raised.

**SlotRegister** is the abstract promise: an atomic register in which a request
may take effect together with the ones it beats. **SnapshotRefinement** maps
`Snapshot` to it: the register is the primary, and a request takes effect when
the primary leaves the value it saw. **SnapshotInv** holds the inductive
invariant, **SnapshotProofs** the proofs.

**Recovery** adds to `Snapshot` the death of a client at any step of a request,
its log entry, the READs of the slot on every replica and the decision of
`client_recovery`: finish the primary CAS of a committed request, or run the
request again. The replay of `r` is a request `Replay[r]` that goes through the
phases of the `_sync` UPDATE, as the code's replay does; a DELETE is replayed as
an UPDATE, as in the code. A replay may hang in a wait that needs a polling
thread, and may read the never initialised `has_modified_bk_idx` either way.

**Search** adds to `Snapshot` fibers that search: the batch that READs bucket
and cached block, the trust in `is_valid`, the update of the cache entry with its
miss rate, and after `crash_server` the READ of the healthy replicas and the vote
on them. The list of candidates is kept between searches, as in the code.
**SearchProofs** has the proofs.

**Index** follows the slots of the whole table: `hash` is any function of keys to
subtable and two indices, `table` the buckets, `local` the copy of four buckets
that a request READ one by one. INSERT, UPDATE, DELETE and SEARCH choose from the
copy. When the CAS meets another content, UPDATE and DELETE report success as
overwritten requests, and INSERT is redone (`KV_OPS_FAIL_REDO`) or, with several
index replicas (`Replicated`), reports success too. **IndexProofs**
has the proofs.

**Subtables** computes where the replicas of each subtable lie and lets clients
insert keys of their own subtables over two replicas.

**ClientCR** is the chained client on one slot: replica 0 is the primary; a
request CASes the backups in order, commits its log entry, and CASes the
primary, each CAS repeated with what it met. The fiber variant looks at the
return buffer of the first backup whichever backup it CASed. **ClientCRProofs**
has the proofs.

**ClientMM** follows blocks and subblocks. `queue`, `last`, `rr` and `metaPtr`
are local to a client and lost in a crash; `meta`, `head` and `next` (the chain)
are remote and stay. A request takes a subblock (`mm_alloc`), its write lands
later (`WriteKV`, in order per memory node, as one queue pair delivers), and it
ends with the index pointing there, or not (`Finish`), or gives the subblock
back (`mm_free_cur`). Waiting for a server blocks the whole client (`rpc`,
`reply`). `Crash` may hit at any step; `mm_recovery` restarts the client. The
constructor (`Start`) is one step. Replicas of a block are left out: they go
with the primary copy. **ClientMMProofs** has the proofs.

**Completion** follows work requests from the call that posts them through the
queue pair and the completion queue to the wait that ends with them: five kinds
of calls, a polling thread, a polling fiber or none. The fibers of a client
share a thread, so a busy wait stops the others and a polling fiber.
**CompletionProofs** has the proofs.

**Engine** follows the pairs of the file system. A thread's call is a row of
key-value operations, one step each; failed operations replace the rest of the
row by the code's undo operations. A permission check may answer either way.
A key may have several slots because INSERT does not look for it. **EngineInv**
records the store at the start of each call (`before`) and holds the inductive
invariants; **EngineProofs** has the lemmas about the key-value operations and
trees and the proof about inode numbers, **EngineUndoProofs** the ones about trees
and undo paths.

The `MC` modules give the constants their values. Operators named `Mut_X` are `X` with a seeded
fault: for each property of each passing run TLC finds it violated when the
fault replaces `X`.

## Runs

| run | instance | shows |
|---|---|---|
| `snapshot_updates` | 3 updates, 3 backups | the slot is an atomic register; one winner per version; round 1 never meets a changed backup; no exit; commit before primary; backups before primary; every request returns |
| `snapshot_mixed` | insert, cached sync update, delete without log entry, two stoppable, 2 backups | the inductive invariant of the proofs; no backup behind the primary; losers return after the overwrite |
| `recovery` | an insert and an update may die, twice in all, beside a third update, 2 backups | a committed winner takes effect; nothing overwritten comes back; a replay beats no other winner; the survivor returns |
| `search` | three searches beside an update and a cached delete, 2 backups, the primary's server fails | answers from the index are values the slot held after the search began; cached answers had not been reported replaced; a vote serves only winners |
| `index` | 2 clients, 2 keys, 2 subtables with 1 slot per bucket, every placement, empty or nearly full table | inserts stay; one slot per key; searches answer for one moment; INSERT gives up only when full; the redo loop ends |
| `chained_client` | 5 requests, 2 backups, sync, cached, stopped and out of memory | the invariant of the proofs; backups before primary; retries bounded by the other requests; replicas differ only if somebody met a foreign value; all return |
| `mm_fibers` | 1 client, 2 fibers, 2 nodes with 2 blocks of 1 subblock | no subblock has two owners: the invariant of the proofs |
| `mm_crash` | 2 clients, 1 fiber, 2 nodes with 2 blocks of 2 subblocks, 1 restart each | the same across crashes; the chain holds what the index points to; a restart finds queue head and last subblock and loses nothing free |
| `completion` | 2 fibers, 2 servers, three modes | a call returns after its own work; no completion is taken by another call; every call returns |
| `fs_single` | 1 thread, 2 names, 2 levels, 1 failed operation | the pairs form a tree between calls; a failed call has no effect |
| `fs_threads` | 2 threads on one name, group of 2 numbers | inode numbers are used once; calls return |
| `subtable_overlap` | 2 inserts in neighbouring subtables, 2 servers | a counterexample, see below |

Bounds. Three requests are the smallest number in which a tie-break meets a
third value; three backups the smallest with a majority that is not all of
them. Two crashes reach a client that dies again while it recovers. Three
searches reach one that fills the cache, one that uses it and one after the
failure. One slot per bucket and two keys make every INSERT of the second key a
contest; four hash indices give two groups of three buckets with shared overflow.
Two blocks per memory node let a client use up its first block, ask for another
and run out. `MaxRestart`, `MaxCrashes`, `MaxSearch`, `MaxId`, `MaxFail` and
`Wrap` cap restarts, crashes, searches, inode numbers, failed operations and the
children counter; numbers reach past the group and the counter wraps.

`recovery` has `AtomicRead`: nobody writes the slot between the READs of one
recovery. The code does not ensure it; `MCRecovery_overtaken` drops it.

Deadlock is not checked where the program really may stop: clients that died, ran
out of blocks or hang in a replay (`mm_*`, `recovery`), clients whose calls
are over (`completion`), and `snapshot_updates`, where a loser's polling is no
step; that a request is never stuck there is what `EveryRequestReturns` says.

Type invariants are part of `IInv`, `PipelineInv` and `PlaceInv`; those of `Recovery`,
`Search`, `ClientMM`, `Engine` and `Completion` are invariants of the further
configurations below.

Fairness. `Snapshot`, `ClientCR` and `Index` assume weak fairness of each
request's steps: fibers are scheduled round robin, and a reliable queue pair
completes what was posted. `RFairSpec` of `Recovery` assumes it of the clients
that survive and of the recovery of a client, which an operator starts; a crash
is never forced. `Engine` assumes it of each thread: they are operating-system
threads that wait for nothing but their own RDMA operations. `Completion` needs
strong fairness of the fibers and of the poller, because another fiber's busy
wait disables them in between and the round-robin scheduler and the operating
system come back to each of them afterwards; the network (`execute`) is weakly
fair.

### Where the code disagrees with its comments

| run | comment or check | what happens |
|---|---|---|
| `subtable_overlap` | "cannot have happened!" (`client.cc:1882`) | a server lays its subtables `RACE_HASH_ADDRESSABLE_BUCKET_NUM` buckets apart, clients address half as many again; INSERTs in two subtables both win a backup, then one finds its primary taken and exits |

Further configurations show where the assumptions of the other runs end. They
are not part of the list of runs; `tlc -config <configuration>.cfg <module>`
prints a counterexample for each. Several invariants in one configuration:
add `-continue`.

| configuration | comment or check | what happens |
|---|---|---|
| `MCSnapshot_late_delete` | "cannot have happened!" (`client.cc:1882`) | an overtaken asynchronous delete posts its primary CAS and exits |
| `MCSnapshot_two_deletes` | "this can only happen under recovery" (`client.cc:2026`) | two deletes take each other's CAS for their own |
| `MCSnapshot_late_sync` | "Can only happen when there is only one index replica" (`client.cc:1972`) | an overtaken sync update posts a primary CAS that fails |
| `MCSnapshot_reuse` | "backup is not consistent!" (`client.cc:1766`) | a slot filled, emptied and filled again deceives the tie-break |
| `MCRecovery_delete` | "Before CAS Primary" needs the CAS (`kv_recover_update_read_kv`) | a committed DELETE is replayed as an UPDATE and never takes effect |
| `MCRecovery_overtaken` | "After CAS Primary -> just return" | a winner moves the slot between the READs of a recovery, which then puts an overwritten value back |
| `MCRecovery_insert` | | the commit of an INSERT stores the old value 0, reads as uncommitted, and the replay takes a second slot |
| `MCSearch_carried` | | `find_kv_in_buckets_on_crash` keeps the candidates of an earlier search and answers with them; with `NoSearchDies` in place of the invariant, a vote finds no address and ends the client |
| `MCSearch_moved` | | after the failure of a data server the cache points to another replica of a block, whose header nobody marks invalid |
| `MCIndex_replicated` | | with several index replicas an INSERT that lost its slot to another key's reports success |
| `MCClientCR_contended` | | of two contending inserts the replicas keep different values, a block given back is pointed to, a replaced block stays valid |
| `MCClientMM_fibers_crash` | "record the allocated information" (`client_mm.cc:668`) | the chain skips a subblock in use, and a restart frees it |
| `MCClientMM_two_crashes` | "recover the last allocated subblock info and the queue head info" (`client_mm.cc:702`) | a block taken after a restart overwrites the first meta entry |
| `MCCompletion_no_poller` | | `dyn_reg_new_space` of a client without polling thread waits for ever (`Loads <- PollFiber`: with a polling fiber too) |
| `MCEngine_locks` | "lock parent inode" (`engine.cc:352`) | the locks are empty and a children count is lost |
| `MCEngine_exists` | "check if exists" (`engine.cc:303`) | two threads create one name (`Early = {t1}` and `RootStaysRoot`: a thread draws the root's number before it is inserted) |

Six more behaviours need other constants only. `MCIndex_replicated` with
`Requests <- DeleteAgainstUpdate`, `Replicated = FALSE` and `OneSlotPerKey`: a
DELETE that lost to an UPDATE reports success, the key is inserted again and is
in two slots (`SameKey`: two clients insert one key, the same). `MCEngine_exists` with one
thread, names `x` and `y`, `GroupSize = 2`, `MaxId = 5` and `NumbersInGroup`: the
"double check" of `GetNewInodeId` (`engine.cc:61`) is inverted and the old group
is overrun. `MCEngine_threads` with `MaxFail = 2`: two threads remove one name, both
run out of space at the parent inode, and both put the inode back, which
`OneInodePerId` does not allow. `MCClientMM_fibers` with one fiber, one node, one block and
`QueueNeverEmpty`: out of blocks, `assert(subblock_free_queue_.size() > 0)`
(`client_mm.cc:330`) ends the next request. `MCSubtables_overlap` with three
servers, `InsertsEnd` and no deadlock check: two overlapping inserts wait for
each other's primary. `MCSearch_mixed` with `Req = {a, b}`, empty `CacheReq` and
`OnCrash`, and `NothingBeforeSuccess`: a loser reports success when the primary
has moved, but until the winner's write of `is_valid` lands a search still
returns the old value from its cache.

## Proofs

For any number of requests, clients, keys and backups.

`Snapshot`. The safety theorems assume that no two requests install
the same value and none installs the initial one (`NoReuse`; an allocator that
does not reuse addresses while a request may remember them, and at most one
delete per slot) and that there are backups; `MCSnapshot_two_deletes` and
`MCSnapshot_reuse` show that the assumption is needed. `NoExit` also assumes
that deletes are synchronous (`MCSnapshot_late_delete`), and each theorem names
what it uses.

- `TypeCorrect`: the type invariant, with no assumption beyond
  the constants'.
- `InductiveInvariant` and from it `OneWinner`,
  `BackupsFirst`, `RoundOneSucceeds`, `NoLag`, `WinnersSwap`, `NoExit`,
  `LosersWait`, `CommitFirst`, `BackupsShowFirst`, `ReplacedOnce`.
- `Refinement`: the protocol implements `SlotRegister`, for
  uncached asynchronous requests of one key that are not stopped, deletes
  having memory for their log entry.

"At most one winner" is not inductive: it says nothing about what requests still
underway will see. `IInv` follows one version of the slot, the value of the
primary. A backup leaves that version once, for the request whose round-0 CAS
succeeded (`UntouchedInv`, `LeftInv`). A later CAS there returns that request's
value or that of a winner (`WitnessInv`). So a request with a majority is seen
as such by everyone who finishes round 0, two majorities meet
(`MajoritiesMeet`), and two requests without one see each other's values, of
which only one is the smallest (`WinnerInv`, `CandidateInv`). Until the winner
swaps the primary the version does not end, and afterwards nobody who saw it can
win (`ValueInv`). `SnapshotProofs` has the frame lemmas, one lemma per action and
the theorems. TLC checks `IInv` in `snapshot_mixed`.

`Search`. The theorems of `SearchProofs` hold for any number of writers and
searchers, with `NoReuse` and backups as above. `WritersUndisturbed` carries
`IInv` over to the composition. On top of it three invariants are inductive:

- `FreshInv`, from which `IndexAnswersAreCurrent`. A value that left the primary
  never comes back to the primary or to a backup, so what a READ of this search
  shows is not in `old.all`, the values replaced before the search began; the
  invariant says so of every bucket already READ, and that the list of candidates
  is what this search READ (`Agreed`, after a failure, is a part of it). It
  assumes that all requests are for the key searched (`SameKey`) and that an
  index replica survives (`SomeHealthy`).
- `LiveInv`, from which `CacheAnswersAreValid`. A request that has returned has
  cleared `is_valid` of the block it replaced, and nobody sets it again
  (`Retired`); a cached block READ valid was therefore not reported replaced when
  the search began (`Lively`). It assumes that no cache entry is redirected to
  another data replica (`NotRedirected`; `MCSearch_moved` shows why).
- `BackedInv`, from which `FailoverServesWinners`. A value READ from a backup and
  not yet shown by the primary belongs to a request that took that backup in round
  0 or has won (`Has`). A request that has every backup keeps them all: any other
  winner of its version would have taken a backup and seen its value there
  (`AllHave`). It assumes `SameKey` and that the primary's server is the one that
  fails, with at most three backups (`PrimaryFails`). The code counts the votes of
  all replicas, the failed one included, and a majority of up to four replicas
  without the primary is all the backups (`VoteIsUnanimous`). From four backups
  on, the vote may serve a value that a majority of them shows before the winner's
  round 1 has reached the rest, and the property as stated does not hold.

The three invariants were checked with TLC on the instance of `search`, on one
with an insert, and on one with three backups.

`ClientCR`. The theorems need no assumption beyond the constants'. `CRInv` says where a chain has been: every
backup behind its position has held its value (for a fiber, the first backup
only, because it looks at the wrong return buffer), and a request at the primary
has committed its log entry unless it was stopped; `ChainOrderHolds` and
`CommitOrderHolds` follow. `DivergenceIsSeenHolds` needs to know what the chains
look like while no CAS has met a foreign value and nobody was stopped:
`PipelineInv` says that at most two requests are then on their way down the
chain, a DELETE and behind it an INSERT, and that a backup holds the value of the
last one past it and otherwise that of the primary (`Follows`), so that with no
request under way the replicas are equal. TLC checks it in `chained_client`.

`Index`. `GivesUpWhenFull` needs no assumption; `IndexInvHolds` and `InsertsStay`
assume one index replica (`~Replicated`), and `MCIndex_replicated` shows that
`InsertsStay` needs it.
That a reported key stays is not inductive: a request underway may be about to
overwrite its slot. `IndexInv` adds that the slot a request aims at (`Aimed`)
is empty for an INSERT and holds the key of an UPDATE or DELETE in the copy the
request read, and that the CAS compares with that copy, so that no request
removes a content of another key. The choice of `find_empty_slot` is proved to
be an empty slot of the right bucket from the parity of its two counters and the
least free position.

`OneSlot` and `SearchIsOneMoment` assume `OneInserter`: a key is inserted by one
client, and by it again only if nobody else writes the key and it deleted the key
in between. `MCIndex_replicated` with other requests (see above) shows two slots
without it. "One slot" is not inductive: an INSERT under way may
be about to fill a second one. `PlaceInv` follows a key through the inserter's
requests: before its INSERT the key is nowhere, and while the INSERT is under way
it is still nowhere, because a request that is redone has lost its CAS
(`Placed`); the copy of a client that alone writes a key is up to date
(`Accurate`). For the searches it adds that what a request may answer with was in
the table since it began and that, unless the key was absent at some moment,
there is a slot where the request cannot miss it (`Watched`).
The lemmas about buckets and single CASes come first in `IndexProofs`. TLC checks
`PlaceInv` in `index`.

`ClientMM`. `OneOwnerHolds` and the invariant behind it, `OwnInvHolds`, are for any
clients, fibers, nodes, blocks and sizes, and for clients that may die at any step
but do not come back (`MaxRestart = 0`); `MCClientMM_fibers_crash` shows that with
restarts and two fibers the property does not hold, and `mm_crash` checks it with
restarts and one fiber. That a subblock has one owner is not inductive: a block on
its way to a client must be new to everybody. `OwnInv` adds that a block is cut
into subblocks only after it left its server's list for good (`HandedOut`,
`Placed`), that the block in an answer is nowhere else (`NewBlock`), and that the
fiber whose `mm_alloc` waits for the answer already holds its subblock (`Served`).
The constructor asks for several blocks at once; that they differ rests on the
round robin of `get_one_server_id`, whose remainders do not repeat within one
round. TLC checks `OwnInv` in `mm_fibers`.

`Completion`. `CompletionsKept`, `ReturnsAfterWork` and the invariant behind them,
`CompletionInvHolds`, hold for any fibers, servers and sequence of calls. They
assume `LoadsOK`: calls that poll the queue themselves are made only by a client
without poller, cooperative waits only by one with a poller, and the calls with
the fixed id have one work request. That a call returns after its own work is not
inductive: it returns when ids have arrived, and ids are used again.
`CompletionInv` adds that every completion, whether executed, in the queue or in
the map, is there once and belongs to a fiber that waits for it now (`OnceInv`),
that a waiting call has a signaled work request behind each unexecuted one
(`PostedInv`), and that the fixed id is in use by one busy fiber at a time
(`CallInv`). `MCCompletion_no_poller` checks `CompletionInv`; it also holds in
every state of `completion`.

`Engine`, one thread. `TreeOKHolds` and `ErrorsUndoneHolds` are for any names, calls
and group size, with one thread (`OneThread`; `MCEngine_locks` and
`MCEngine_exists` show what two do), a children counter that the names of a
directory fit in (`NamesFit`; in the code it has 64 bits), and at most one
operation that runs out of space (`OneFailure`): nobody looks at the result of an
undo operation, so a second failure may leave half a call behind. Neither property
is inductive, as they say nothing about a call under way. `UndoInv` (theorem
`UndoInvHolds`) says that a call finds a tree (`Tree`, `Ready`), and that after each
of its operations the store is that tree with what the call has done and not
undone, the lists of operations and of undo operations being the matching ones
(`Modifying`, `Undoing`). `MakeTree` and `RemoveTree` show that a call that gets to
its end leaves a tree, `HalfBoth` that the undo operations lead back to the one it
found. No number from `seq` on is in use (`Unused`), so a new inode has a larger
number than its directory; that is why `TreeOK` can say that numbers grow down the
tree and there is no cycle. `OneInodePerIdAlone` follows from `UndoInv` too. TLC
agrees with `UndoInv` on the instance of `fs_single`.

`Engine`, any threads. `OneInodePerIdHolds` is for any threads, names, calls, group
size and failed operations. It assumes that no thread calls before thread 0 has
stored the sequence (`Early = {}`; `MCEngine_exists` with `RootStaysRoot` is the
other case), and it speaks of the behaviours in which no Rmdir or Unlink has to put
its inode back (`NoPutBack`): two removals of one name may both do so, and then the
inode is there twice (`MCEngine_threads` with `MaxFail = 2`); a single thread needs
no such condition (`OneInodePerIdAlone`). Calls that make an
inode may fail and be undone at any step. "At most one value under an inode key" is
not inductive, because a thread that has drawn its number inserts some steps later.
`IdInv` adds that no number from `seq` on is in use, and that a number drawn for an
inode still to be inserted (`Pending`) is in nobody's use and no other thread's
(`Drawn`); every other operation of every call writes an inode key only where there
is a value already (`CalmOperations`, `CalmApply`). TLC agrees with `IdInv` for two
threads on one name with one failed operation.

Model-checked only: liveness (fairness is outside the prover's reach);
`BoundedRetries` of `ClientCR`, because a fiber may swap a later backup twice and
no count per request is inductive; `LogHoldsPublished`, `RecoversLastAndHead` and
`RestartKeepsFree` of `ClientMM`, which are about the log chain, a recursive
function; and everything about `Recovery`, whose replays run beside the requests of
`Snapshot` without the `NoReuse` its invariant rests on, and `Subtables`.

## Not modelled

- Connection set-up, memory registration and the UDP messages behind `rpc`:
  calls into libibverbs and sockets. A lost UDP message blocks a client for
  ever, as the code has neither timeout nor retry.
- `mm_free` and the garbage collection of `free_batch`: they set bits in remote
  bitmaps that no allocator reads back, so no state of the other modules depends
  on them.
- `get_allocable_blocks` and `get_block_map`: the layout of a server's data area
  is computed once at start-up; `ClientMM` starts with its result.
- The start-up handshake (`init_hash_table`, `sync_init_finish`): the modules
  start after it; `Subtables` has the placement it computes.
- Threads of one engine that share a client id and so a meta area: nothing in
  the code orders their writes, so there is nothing to claim.
- The bodies of `CentralLockInode` and `CentralUnlockInode`, which are commented
  out.
- Trace replay, statistics, configuration and `main` programs: input and output.
- The text of keys and paths, which the properties do not tell apart.
