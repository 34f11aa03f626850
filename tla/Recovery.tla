------------------------------ MODULE Recovery ------------------------------
(***************************************************************************)
(* Crash of a client in the middle of a request of Snapshot and the replay *)
(* of the request by client_recovery (src/client.cc).  The restarted       *)
(* client reads the last log entry, reads the slot on every index replica  *)
(* and either finishes the primary CAS of a committed request or runs the  *)
(* request again from the CAS of the backups.                              *)
(*                                                                         *)
(* The replay of request r is a request Replay[r] of its own: it shares    *)
(* r's log entry and goes through the phases of Snapshot it shares with    *)
(* the *_sync UPDATE.  Other clients keep running throughout, and the      *)
(* recovering client may crash again.                                      *)
(***************************************************************************)
EXTENDS Snapshot

CONSTANTS
    CrashReq,        \* requests whose client may crash
    Replay,          \* Replay[r]: the request that stands for r's replay
    Block,           \* Block[r]: the block of r's log entry, also for DELETE
    NumReplication,  \* num_replication: replicas of a data block
    MaxCrashes,      \* crashes considered, all clients together
    AtomicRead       \* TRUE: nobody writes the slot while recovery reads it

Replays == {Replay[r] : r \in CrashReq}
PR == "pr"
Replicas == {PR} \cup Backups

ASSUME RecoveryConstantsOK ==
    /\ CrashReq \subseteq Req \ Replays
    /\ AtomicRead \in BOOLEAN /\ MaxCrashes \in Nat /\ NumReplication \in Nat
    /\ Replay \in [CrashReq -> Req]
    /\ \A r, s \in CrashReq : Replay[r] = Replay[s] => r = s
    /\ \A r \in CrashReq :
         /\ Kind[Replay[r]] = "UPDATE" /\ Replay[r] \in SyncReq \ StopReq
         /\ Key[Replay[r]] = Key[r] /\ Target[Replay[r]] = Block[r]
         /\ Kind[r] # "DELETE" => Block[r] = Target[r]

VARIABLES
    phase,    \* phase[r]: where the client of r is in its crash and recovery
    got,      \* got[r][x]: the slot as client_recovery read it on replica x
    away,     \* blocks a replayed INSERT put into another slot of the bucket
    crashes   \* crashes so far

rvars == <<phase, got, away, crashes>>

Phases == {"up", "down", "redo", "over"}
Unread == [x \in Replicas |-> None]

RInit ==
    /\ Init
    /\ phase = [r \in CrashReq |-> "up"]
    /\ got = [r \in CrashReq |-> Unread]
    /\ away = {}
    /\ crashes = 0

(* The log entry of r in remote memory: the replay writes the same one. *)
Entry(r) == IF log[Replay[r]].op = "NONE" THEN log[r] ELSE log[Replay[r]]

(* The process dies; work requests it has not seen complete may be lost,   *)
(* the unsignaled write of FINISH among them.  A client that has written   *)
(* no entry for r replays an earlier request, which is that one's crash.   *)
Crash(r) ==
    /\ phase[r] # "over" /\ crashes < MaxCrashes
    /\ log[r].op # "NONE"
    /\ LET p == Replay[r]
           dying == IF phase[r] = "up" THEN r ELSE p
       IN /\ posted' = [posted EXCEPT ![dying] = {}]
          /\ prq' = [prq EXCEPT ![dying] = {}]
          /\ pc' = [pc EXCEPT ![r] = "exit", ![p] = "start"]
          /\ ret' = [ret EXCEPT ![p] = [x \in Backups |-> None]]
          /\ cons' = [cons EXCEPT ![p] = "NON"]
          /\ swapped' = [swapped EXCEPT ![p] = FALSE]
          /\ \/ UNCHANGED log
             \/ /\ phase[r] = "up" /\ log[r].op = "FINISH"
                /\ log' = [log EXCEPT ![r].op = Kind[r]]
    /\ phase' = [phase EXCEPT ![r] = "down"]
    /\ got' = [got EXCEPT ![r] = Unread]
    /\ crashes' = crashes + 1
    /\ UNCHANGED <<mem, orig, rc, bad, stop, away>>

(* READs of kv_recover_read_all_buckets: the replicas xs are read, one at  *)
(* a time in general, since the batch reaches each server when it may.     *)
kv_recover_read_all_buckets(r, xs) ==
    /\ phase[r] = "down" /\ \A x \in xs : got[r][x] = None
    /\ got' = [got EXCEPT ![r] = [x \in Replicas |->
                  IF x \notin xs THEN @[x] ELSE IF x = PR THEN pr ELSE bk[x]]]
    /\ UNCHANGED <<vars, phase, away, crashes>>

(* Seeded fault: the backups are not looked at. *)
Mut_check_recover_need_cas_pr(r) == got[r][PR] # Block[r]

(* Seeded fault: one backup too many is counted, the primary among them. *)
Mut_num_replication(r) ==
    /\ got[r][PR] # Block[r]
    /\ Cardinality({x \in Backups : got[r][x] = Block[r]}) = NumReplication

(* A committed request still has to CAS the primary when every backup, and *)
(* not the primary, was read with its value.  The code counts the backups  *)
(* against num_replication, not num_idx_rep.                               *)
check_recover_need_cas_pr(r) ==
    /\ got[r][PR] # Block[r]
    /\ Cardinality({x \in Backups : got[r][x] = Block[r]}) = NumReplication - 1

(* The recovering client stops in the constructor: it dereferences what    *)
(* was never set.                                                          *)
Segfault(r) ==
    /\ Goto(Replay[r], "exit")
    /\ phase' = [phase EXCEPT ![r] = "over"]
    /\ UNCHANGED <<orig, posted, cons, rc, away>>

Over(r, c) ==
    /\ Return(Replay[r], c)
    /\ phase' = [phase EXCEPT ![r] = "over"]
    /\ UNCHANGED <<orig, posted, cons>>

(* CAS the backups from the value read on the primary. *)
Redo(r) ==
    /\ orig' = [orig EXCEPT ![Replay[r]] = got[r][PR]]
    /\ PostBackups(Replay[r])
    /\ phase' = [phase EXCEPT ![r] = "redo"]
    /\ UNCHANGED <<rc, away>>

(* An entry that reads committed: finish the primary or leave it alone. *)
RecoverCommitted(r) ==
    \/ ~check_recover_need_cas_pr(r) /\ Over(r, "SUCCESS") /\ UNCHANGED away
    \/ /\ check_recover_need_cas_pr(r)
       /\ orig' = [orig EXCEPT ![Replay[r]] = got[r][PR]]
       /\ cons' = [cons EXCEPT ![Replay[r]] = "WIN_ALL"]
       /\ Goto(Replay[r], "pr")
       /\ phase' = [phase EXCEPT ![r] = "redo"]
       /\ UNCHANGED <<posted, rc, away>>

(* An uncommitted INSERT goes to an empty slot, this one or another of the *)
(* bucket.  has_modified_bk_idx was never set: when it happens to be true  *)
(* recover_modified_slots takes the first match of an empty list.          *)
kv_recover_insert(r) ==
    \/ Segfault(r)
    \/ got[r][PR] = 0 /\ Redo(r)
    \/ got[r][PR] # 0 /\ Over(r, "SUCCESS") /\ away' = away \cup {Block[r]}

(* Any other uncommitted entry is run again as an UPDATE.  Without a match *)
(* in the bucket (the slot empty or taken by another key, or already       *)
(* holding the very block) the later phases still run, on descriptors that *)
(* were never filled in.                                                   *)
kv_recover_update(r) ==
    LET match == HoldsKey(got[r][PR], Key[r]) /\ got[r][PR] # Block[r]
    IN \/ match /\ Redo(r)
       \/ ~match /\ Segfault(r)
       \/ ~match /\ Backups = {} /\ Over(r, "FAIL_RETURN") /\ UNCHANGED away

(* The last entry is replayed once every READ has completed. *)
client_recovery(r) ==
    /\ phase[r] = "down" /\ \A x \in Replicas : got[r][x] # None
    /\ log' = [log EXCEPT ![Replay[r]] = Entry(r)]
    /\ IF Entry(r).old # 0 THEN RecoverCommitted(r)
       ELSE IF Entry(r).op = "INSERT" THEN kv_recover_insert(r)
       ELSE kv_recover_update(r)
    /\ UNCHANGED <<mem, ret, prq, swapped, bad, stop, got, crashes>>

(* kv_recover_update_backup_consensus_1 calls the fiber variant, and no    *)
(* polling thread runs yet: whatever waits for a completion there hangs.   *)
NeedsPoller(r) ==
    LET p == Replay[r]
    IN /\ Entry(r).op # "INSERT"
       /\ pc[p] = "readpr" \/ (pc[p] = "bk1" /\ posted[p] = {})

HangWithoutPoller(r) ==
    /\ NeedsPoller(r)
    /\ Goto(Replay[r], "hang")
    /\ UNCHANGED <<mem, ctx, stop>>

(* modify_primary_idx_sync for a recovery request: it neither clears       *)
(* is_valid of the old block nor frees it.                                 *)
kv_recover_cas_primary(r) ==
    LET p == Replay[r]
    IN /\ pc[p] = "pr"
       /\ \/ cons[p] = "FAIL" /\ Return(p, rc[p]) /\ UNCHANGED prq
          \/ /\ cons[p] # "FAIL"
             /\ prq' = [prq EXCEPT ![p] = {"cas"}]
             /\ Goto(p, "prq") /\ UNCHANGED rc
       /\ UNCHANGED <<mem, orig, ret, posted, swapped, cons, log, stop, bad>>

(* The phases of a replay. *)
RedoStep(r) ==
    LET p == Replay[r]
    IN /\ phase[r] = "redo"
       /\ \/ \E x \in Backups : CasBackup(p, x)
          \/ modify_backup_idx_consensus_1(p)
          \/ ~NeedsPoller(r) /\ ReadPrimary(p)
          \/ \E x \in Backups : CasRest(p, x)
          \/ ~NeedsPoller(r) /\ EndRest(p)
          \/ HangWithoutPoller(r)
          \/ WaitPrimary(p)
          \/ kv_log_commit(p)
          \/ kv_recover_cas_primary(r)
          \/ CasPrimary(p)
          \/ modify_primary_idx(p)
       /\ UNCHANGED rvars

EndRecovery(r) ==
    /\ phase[r] = "redo" /\ pc[Replay[r]] \in {"done", "hang"}
    /\ phase' = [phase EXCEPT ![r] = "over"]
    /\ UNCHANGED <<vars, got, away, crashes>>

Recover(r) ==
    \/ \E xs \in IF AtomicRead THEN {Replicas} ELSE {{x} : x \in Replicas} :
          kv_recover_read_all_buckets(r, xs)
    \/ client_recovery(r)
    \/ RedoStep(r)
    \/ EndRecovery(r)

RFinished ==
    /\ \A r \in Req \ Replays : pc[r] \in {"done", "exit", "hang"}
    /\ \A r \in CrashReq : phase[r] \in {"up", "over"}
    /\ UNCHANGED <<vars, rvars>>

RNext ==
    \/ \E r \in Req \ Replays : (Step(r) \/ Stop(r)) /\ UNCHANGED rvars
    \/ \E r \in CrashReq : Crash(r) \/ Recover(r)
    \/ RFinished

RSpec == RInit /\ [][RNext]_<<vars, rvars>>

(* The restarted client is scheduled, as are the others. *)
RFairSpec ==
    /\ RSpec
    /\ \A r \in Req \ Replays : WF_<<vars, rvars>>(Step(r) /\ UNCHANGED rvars)
    /\ \A r \in CrashReq : WF_<<vars, rvars>>(Recover(r))

-----------------------------------------------------------------------------
(* Properties *)

(* Type invariant of the recovery state. *)
RTypeOK ==
    /\ TypeOK
    /\ phase \in [CrashReq -> Phases]
    /\ got \in [CrashReq -> [Replicas -> Values \cup {None}]]
    /\ away \subseteq Values
    /\ crashes \in 0..MaxCrashes

(* The comment in kv_recover_update_read_kv: a committed entry found       *)
(* "Before CAS Primary" needs the primary CAS.  When the recovery of a     *)
(* winner that had committed is over, its value has been in the primary,   *)
(* wherever and how often the client died.                                 *)
CommittedSurvives ==
    \A r \in CrashReq :
        phase[r] = "over" /\ Won(r) /\ log_is_committed(r) => Target[r] \in past

(* The other half of the comment, "After CAS Primary -> just return":      *)
(* recovery never puts a value back that the primary has already lost.     *)
NoResurrection == [][pr' # pr => pr' \notin past]_<<vars, rvars>>

(* Whoever moves the primary, a client or its recovery, moves it to the    *)
(* value that every backup holds.                                          *)
RPrimaryFollowsBackups ==
    [][pr' # pr => \A x \in Backups : bk[x] = pr']_<<vars, rvars>>

(* A replay is the same request: of two different requests that saw the    *)
(* same old value at most one wins, replayed or not.                       *)
Original(r) == IF r \in Replays THEN CHOOSE s \in CrashReq : Replay[s] = r ELSE r
OneWinnerUnderRecovery ==
    Backups # {} =>
        \A r, s \in Req : Won(r) /\ Won(s) /\ orig[r] = orig[s]
                          => Original(r) = Original(s)

(* A key is in the index once: a replayed INSERT does not put its block    *)
(* into a second slot while the first still holds it.                      *)
InsertedOnce == pr \notin away

(* The clients that did not crash return, although they may have lost to   *)
(* the request that died: its replay moves the primary they poll, unless   *)
(* the replay itself is stuck.                                             *)
SurvivorsReturn ==
    [](\A r \in CrashReq : pc[Replay[r]] \notin {"exit", "hang"})
        => \A s \in Req \ (CrashReq \cup Replays) : <>(pc[s] = "done")

=============================================================================
