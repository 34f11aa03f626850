--------------------------- MODULE SnapshotProofs ---------------------------
(***************************************************************************)
(* Proofs about the replication protocol of src/client.cc, for any number  *)
(* of requests and backup replicas: type correctness; IInv is inductive,   *)
(* when no slot value is installed twice (NoReuse) and the index is        *)
(* replicated, and the safety properties follow; the requests of one key   *)
(* implement the atomic register of SlotRegister.                          *)
(***************************************************************************)
EXTENDS SnapshotRefinement, FiniteSetTheorems, TLAPS

(* Slot values are naturals, so None never stands for one. *)
LEMMA ValuesAreNat == Values \subseteq Nat /\ None \notin Values /\ None # 0
BY ConstantsOK DEF Values, None

(* What a request is made of. *)
LEMMA RequestTypes ==
    ASSUME NEW r \in Req
    PROVE  Target[r] \in Values /\ Target[r] \in Nat /\ Kind[r] \in Ops
BY ConstantsOK, Zenon DEF Values

-----------------------------------------------------------------------------
(* Type correctness. *)

LogTypes == [op : Ops \cup {"NONE", "FINISH"}, old : Values \cup {0}]
ReturnCodes == {"NONE", "SUCCESS", "FAIL_RETURN", "FAIL_REDO"}

(* Moving a request, and returning from it, keep pc and rc typed. *)
LEMMA TypeGoto ==
    ASSUME TypeOK, NEW r \in Req, NEW l \in PCs, Goto(r, l)
    PROVE  pc' \in [Req -> PCs]
BY Zenon DEF TypeOK, Goto

LEMMA TypeReturn ==
    ASSUME TypeOK, NEW r \in Req, NEW c \in ReturnCodes, Return(r, c)
    PROVE  pc' \in [Req -> PCs] /\ rc' \in [Req -> ReturnCodes]
BY Zenon DEF TypeOK, Return, Goto, PCs, ReturnCodes

(* The phases that read the index keep every variable in its set. *)
LEMMA TypeRead ==
    ASSUME TypeOK, NEW r \in Req,
           \/ kv_insert_read_buckets_and_write_kv(r)
           \/ kv_update_read_buckets_and_write_kv(r)
           \/ kv_delete_read_buckets_write_log(r)
    PROVE  TypeOK'
<1>0. Target[r] \in Values /\ Kind[r] \in Ops /\ FoundSlot(r) \subseteq Values
    BY RequestTypes, Zenon DEF FoundSlot, TypeOK
<1> USE DEF kv_insert_read_buckets_and_write_kv,
            kv_update_read_buckets_and_write_kv, kv_delete_read_buckets_write_log
<1>1. \/ Return(r, "FAIL_RETURN") /\ UNCHANGED <<orig, log, valid>>
      \/ /\ WriteKV(r) \/ UNCHANGED <<log, valid>>
         /\ \E v \in Values \cup {0} : orig' = [orig EXCEPT ![r] = v]
         /\ Goto(r, "match") /\ UNCHANGED rc
    BY <1>0, Zenon DEF TypeOK
<1>2. UNCHANGED <<pr, bk, past, ret, posted, prq, swapped, cons, stop, bad>>
    OBVIOUS
<1> HIDE DEF kv_insert_read_buckets_and_write_kv,
             kv_update_read_buckets_and_write_kv, kv_delete_read_buckets_write_log
<1>3. pc' \in [Req -> PCs] /\ rc' \in [Req -> ReturnCodes]
    BY <1>1, TypeGoto, TypeReturn, Zenon DEF PCs, ReturnCodes, TypeOK
<1>4. log' \in [Req -> LogTypes] /\ valid' \subseteq Values
    <2>1. log \in [Req -> LogTypes] /\ valid \subseteq Values
        BY Zenon DEF TypeOK, LogTypes
    <2>2. [op |-> Kind[r], old |-> 0] \in LogTypes
        BY <1>0, Zenon DEF LogTypes
    <2> QED BY <1>0, <1>1, <2>1, <2>2 DEF Return, WriteKV
<1>5. orig' \in [Req -> Values \cup {0}]
    BY <1>1, Zenon DEF TypeOK
<1> QED BY <1>2, <1>3, <1>4, <1>5, Zenon DEF TypeOK, LogTypes, ReturnCodes

(* So does posting the first round of backup CASes. *)
LEMMA TypePost ==
    ASSUME TypeOK, NEW r \in Req,
           \/ kv_insert_backup_consensus_0(r)
           \/ kv_update_backup_consensus_0(r)
           \/ kv_delete_backup_consensus_0(r)
    PROVE  TypeOK'
<1>1. /\ \/ \E c \in ReturnCodes : Return(r, c) /\ UNCHANGED <<posted, cons>>
         \/ PostBackups(r) /\ UNCHANGED rc
      /\ UNCHANGED <<mem, orig, ret, prq, swapped, log, stop, bad>>
    BY Zenon DEF kv_insert_backup_consensus_0, kv_update_backup_consensus_0,
           kv_delete_backup_consensus_0, ReturnCodes
<1>2. CASE \E c \in ReturnCodes : Return(r, c) /\ UNCHANGED <<posted, cons>>
    <2>1. pc' \in [Req -> PCs] /\ rc' \in [Req -> ReturnCodes]
        BY <1>2, TypeReturn, Zenon
    <2> QED BY <1>1, <1>2, <2>1, Zenon DEF TypeOK, mem, ReturnCodes
<1>3. CASE PostBackups(r) /\ UNCHANGED rc
    <2>1. pc' \in [Req -> PCs]
        BY <1>3, TypeGoto, Zenon DEF PostBackups, PCs
    <2>2. posted \in [Req -> SUBSET Backups] /\ cons \in [Req -> ConsensusStates]
        BY Zenon DEF TypeOK
    <2>3. posted' \in [Req -> SUBSET Backups] /\ cons' \in [Req -> ConsensusStates]
        BY <1>3, <2>2, Zenon DEF PostBackups, ConsensusStates, Wins
    <2> QED BY <1>1, <1>3, <2>1, <2>3, Zenon DEF TypeOK, mem
<1> QED BY <1>1, <1>2, <1>3, Zenon

(* So do the decision of round 0 and losing. *)
LEMMA TypeLose ==
    ASSUME TypeOK, NEW r \in Req, Lose(r)
    PROVE  /\ pc' \in [Req -> PCs]
           /\ log' \in [Req -> LogTypes]
           /\ rc' \in [Req -> ReturnCodes]
<1>1. pc' \in [Req -> PCs]
    BY TypeGoto, Zenon DEF Lose, AfterLoss, PCs
<1>2. log' \in [Req -> LogTypes]
    <2>1. log \in [Req -> LogTypes] /\ log' = [log EXCEPT ![r].op = "FINISH"]
        BY Zenon DEF Lose, TypeOK, LogTypes
    <2> QED BY <2>1 DEF LogTypes
<1>3. rc' \in [Req -> ReturnCodes]
    BY Zenon DEF Lose, TypeOK, ReturnCodes
<1> QED BY <1>1, <1>2, <1>3

LEMMA TypeDecide ==
    ASSUME TypeOK, NEW r \in Req, NEW s \in ConsensusStates, Decide(r, s),
           UNCHANGED <<mem, orig, ret, prq, swapped, stop, bad>>
    PROVE  TypeOK'
<1>1. cons' \in [Req -> ConsensusStates] /\ posted' \in [Req -> SUBSET Backups]
    <2>1. posted \in [Req -> SUBSET Backups] /\ cons \in [Req -> ConsensusStates]
        BY Zenon DEF TypeOK
    <2>2. UNCHANGED posted \/ posted' = [posted EXCEPT ![r] = Rest(r)]
        BY Zenon DEF Decide
    <2>3. cons' = [cons EXCEPT ![r] = s] /\ Rest(r) \in SUBSET Backups
        BY Zenon DEF Decide, Rest
    <2> QED BY <2>1, <2>2, <2>3, Zenon
<1>2. \/ Lose(r)
      \/ (\E l \in PCs : Goto(r, l)) /\ UNCHANGED <<log, rc>>
    BY Zenon DEF Decide, PCs
<1>3. /\ pc' \in [Req -> PCs]
      /\ log' \in [Req -> LogTypes]
      /\ rc' \in [Req -> ReturnCodes]
    BY <1>2, TypeLose, TypeGoto, Zenon DEF TypeOK, LogTypes, ReturnCodes
<1> QED BY <1>1, <1>3, Zenon DEF TypeOK, mem, LogTypes, ReturnCodes

(* The two rounds of backup CASes and what lies between them. *)
LEMMA TypeBackups ==
    ASSUME TypeOK, NEW r \in Req,
           \/ \E b \in Backups : CasBackup(r, b)
           \/ modify_backup_idx_consensus_1(r)
           \/ ReadPrimary(r)
           \/ \E b \in Backups : CasRest(r, b)
           \/ EndRest(r)
           \/ WaitPrimary(r)
    PROVE  TypeOK'
<1>0. Target[r] \in Values
    BY RequestTypes, Zenon
<1>2. CASE \E b \in Backups : CasBackup(r, b)
    BY <1>0, <1>2 DEF CasBackup, TypeOK
<1>5. CASE modify_backup_idx_consensus_1(r)
    <2>1. check_cas_consensus_0(r) \in ConsensusStates
        BY Zenon DEF check_cas_consensus_0, ConsensusStates, Wins
    <2>2. CASE Decide(r, check_cas_consensus_0(r))
        BY <1>5, <2>1, <2>2, TypeDecide, Zenon DEF modify_backup_idx_consensus_1
    <2>3. CASE ~Decide(r, check_cas_consensus_0(r))
        <3>1. Goto(r, "done") /\ UNCHANGED <<cons, posted, log, rc, mem, orig, ret,
                                             prq, swapped, stop, bad>>
            BY <1>5, <2>3, Zenon DEF modify_backup_idx_consensus_1
        <3>2. pc' \in [Req -> PCs]
            BY <3>1, TypeGoto, Zenon DEF PCs
        <3> QED BY <3>1, <3>2, Zenon DEF TypeOK, mem
    <2> QED BY <2>2, <2>3
<1>6. CASE ReadPrimary(r)
    <2>1. BreakTie(r) \in ConsensusStates
        BY Zenon DEF BreakTie, ConsensusStates, Wins
    <2> QED BY <1>6, <2>1, TypeDecide, Zenon DEF ReadPrimary
<1>7. CASE \E b \in Backups : CasRest(r, b)
    BY <1>0, <1>7 DEF CasRest, TypeOK
<1>8. CASE EndRest(r)
    BY <1>8, Zenon DEF EndRest, TypeOK, mem, ConsensusStates, Wins, Goto, PCs
<1>9. CASE WaitPrimary(r)
    <2>1. /\ pc' \in [Req -> PCs]
          /\ log' \in [Req -> LogTypes]
          /\ rc' \in [Req -> ReturnCodes]
        BY <1>9, TypeLose, TypeGoto, Zenon DEF WaitPrimary, PCs, TypeOK, LogTypes, ReturnCodes
    <2> QED BY <1>9, <2>1, Zenon DEF WaitPrimary, TypeOK, mem, LogTypes, ReturnCodes
<1> QED BY <1>2, <1>5, <1>6, <1>7, <1>8, <1>9, Zenon

(* And the commit and the primary CAS. *)
LEMMA TypePrimary ==
    ASSUME TypeOK, NEW r \in Req,
           \/ kv_log_commit(r) \/ PostPrimary(r) \/ CasPrimary(r)
           \/ WriteInvalid(r) \/ modify_primary_idx(r) \/ Stop(r)
    PROVE  TypeOK'
<1>0. Target[r] \in Values
    BY RequestTypes
<1>1. CASE kv_log_commit(r)
    <2>1. pc' \in [Req -> PCs]
        BY <1>1, TypeGoto, Zenon DEF kv_log_commit, PCs
    <2>2. log' \in [Req -> LogTypes]
        <3>1. log \in [Req -> LogTypes] /\ orig \in [Req -> Values \cup {0}]
            BY Zenon DEF TypeOK, LogTypes
        <3> QED BY <1>1, <3>1 DEF kv_log_commit, LogTypes
    <2> QED BY <1>1, <2>1, <2>2, Zenon DEF kv_log_commit, TypeOK, mem, LogTypes
<1>2. CASE PostPrimary(r)
    <2>1. /\ \/ Goto(r, "done") /\ UNCHANGED rc
             \/ \E c \in ReturnCodes : Return(r, c)
             \/ Goto(r, "prq") /\ UNCHANGED rc
          /\ UNCHANGED <<mem, orig, ret, posted, swapped, cons, log, stop, bad>>
        BY <1>2, Zenon DEF PostPrimary, TypeOK, ReturnCodes
    <2>2. pc' \in [Req -> PCs] /\ rc' \in [Req -> ReturnCodes]
        BY <2>1, TypeGoto, TypeReturn DEF PCs, TypeOK, ReturnCodes
    <2>3. prq' \in [Req -> SUBSET {"cas", "inv"}]
        BY <1>2 DEF PostPrimary, TypeOK
    <2> QED BY <2>1, <2>2, <2>3, Zenon DEF TypeOK, mem, ReturnCodes
<1>3. CASE CasPrimary(r)
    BY <1>0, <1>3, Zenon DEF CasPrimary, TypeOK
<1>4. CASE WriteInvalid(r)
    BY <1>4, Zenon DEF WriteInvalid, TypeOK
<1>5. CASE modify_primary_idx(r)
    BY <1>5, Zenon DEF modify_primary_idx, TypeOK, mem, Goto, Return, PCs
<1>6. CASE Stop(r)
    BY <1>6, Zenon DEF Stop, TypeOK, mem, ctx
<1> QED BY <1>1, <1>2, <1>3, <1>4, <1>5, <1>6, Zenon

LEMMA TypeStep == TypeOK /\ [Next]_vars => TypeOK'
<1> SUFFICES ASSUME TypeOK, [Next]_vars PROVE TypeOK'
    OBVIOUS
<1>1. CASE UNCHANGED vars \/ Finished
    BY <1>1, Zenon DEF TypeOK, Finished, vars, mem, ctx
<1>2. ASSUME NEW r \in Req, Step(r) \/ Stop(r) PROVE TypeOK'
    BY <1>2, TypeRead, TypePost, TypeBackups, TypePrimary, Zenon DEF Step
<1> QED BY <1>1, <1>2 DEF Next

LEMMA TypeInit == Init => TypeOK
BY ConstantsOK, ValuesAreNat
DEF Init, TypeOK, Values, PCs, ConsensusStates, Wins, None

(* Every variable of the protocol keeps its type, whatever the workload. *)
THEOREM TypeCorrect == Spec => []TypeOK
BY TypeInit, TypeStep, PTL DEF Spec

-----------------------------------------------------------------------------
(* Two requests of the same version that have heard from every backup and  *)
(* whose takings each other saw cannot both be in a winning position.      *)

Strong(r) == TookMajority(r) \/ (Undecided(r) /\ Smallest(r))

LEMMA NoRival ==
    ASSUME MajoritiesMeet, NoReuse, NEW r \in Req, NEW s \in Req, r # s,
           Strong(r), Strong(s),
           \A b \in Backups : Took(s, b) => ret[r][b] = Target[s],
           \A b \in Backups : Took(r, b) => ret[s][b] = Target[r],
           \A b \in Backups : ret[r][b] # Target[r] /\ ret[s][b] # Target[s],
           Target[r] # orig[s], Target[s] # orig[r]
    PROVE  FALSE
<1>1. /\ Target[r] \in Values /\ Target[s] \in Values
      /\ Target[r] \in Nat /\ Target[s] \in Nat /\ Target[r] # Target[s]
    BY RequestTypes, Zenon DEF NoReuse
<1>2. \A b \in Backups : /\ Took(s, b) => Vote(r, b) = Target[s]
                         /\ Took(r, b) => Vote(s, b) = Target[r]
    BY <1>1, Zenon DEF Vote
<1>3. TookSet(r) \cap TookSet(s) = {}
    BY Zenon DEF TookSet, Took
<1>4. /\ TookSet(r) \in SUBSET Backups /\ TookSet(s) \in SUBSET Backups
    BY Zenon DEF TookSet
<1>5. /\ TookMajority(r) => Majority(s, Target[r])
      /\ TookMajority(s) => Majority(r, Target[s])
    <2>1. TookSet(r) \subseteq {b \in Backups : Vote(s, b) = Target[r]}
        BY <1>2, Zenon DEF TookSet
    <2>2. TookSet(s) \subseteq {b \in Backups : Vote(r, b) = Target[s]}
        BY <1>2, Zenon DEF TookSet
    <2>3. /\ {b \in Backups : Vote(s, b) = Target[r]} \in SUBSET Backups
          /\ {b \in Backups : Vote(r, b) = Target[s]} \in SUBSET Backups
        OBVIOUS
    <2> QED BY <1>4, <2>1, <2>2, <2>3, Zenon DEF MajoritiesMeet, TookMajority, Majority, Votes
<1>6. ~(TookMajority(r) /\ TookMajority(s))
    BY <1>3, <1>4, Zenon DEF MajoritiesMeet, TookMajority
<1>7. ~(Undecided(r) /\ TookMajority(s)) /\ ~(Undecided(s) /\ TookMajority(r))
    BY <1>1, <1>5, Zenon DEF Undecided
<1>8. CASE Undecided(r) /\ Smallest(r) /\ Undecided(s) /\ Smallest(s)
    <2>1. PICK b \in Backups : Took(s, b)
        BY <1>8, Zenon DEF Undecided, TookSet
    <2>2. PICK c \in Backups : Took(r, c)
        BY <1>8, Zenon DEF Undecided, TookSet
    <2>3. Target[r] =< Target[s] /\ Target[s] =< Target[r]
        BY <1>2, <1>8, <2>1, <2>2, Zenon DEF Smallest
    <2> QED BY <1>1, <2>3
<1> QED BY <1>6, <1>7, <1>8, Zenon DEF Strong

(* A request in a winning position for the current version has no rival,   *)
(* and the backups still are as its round 0 left them.                     *)
LEMMA NewWinner ==
    ASSUME NoReuse, IInv, NEW r \in Req, ~Won(r), orig[r] = pr, Strong(r),
           \A b \in Backups : ret[r][b] # None
    PROVE  /\ \A w \in Req : ~CurrentWinner(w)
           /\ \A b \in Backups : bk[b] = Left(r, b)
<1>1. ASSUME NEW w \in Req, CurrentWinner(w) PROVE FALSE
    <2>1. w # r /\ Won(w) /\ orig[w] = pr
        BY <1>1 DEF CurrentWinner
    <2>2. \A v \in Req : CurrentWinner(v) => v = w
        <3>1. TookSet(r) # {}
            BY Zenon DEF IInv, MajoritiesMeet, Strong, Undecided, TookMajority, TookSet
        <3>2. Backups # {}
            BY <3>1 DEF TookSet
        <3> QED BY <2>1, <3>2, Zenon DEF IInv, AtMostOneWinner, CurrentWinner
    <2>3. Strong(w)
        BY <2>1, Zenon DEF IInv, WinnerInv, Strong
    <2>4. \A b \in Backups : ret[w][b] # None
        BY <2>1, Zenon DEF IInv, ControlInv, Control, Won, Wins
    <2>5. \A b \in Backups : Took(w, b) => ret[r][b] = Target[w]
        BY <2>1, <2>2 DEF IInv, WitnessInv
    <2>6. \A b \in Backups : Took(r, b) => ret[w][b] = Target[r]
        BY <2>1, <2>2, <2>4, Zenon DEF IInv, WitnessInv
    <2>7. \A b \in Backups : ret[r][b] # Target[r] /\ ret[w][b] # Target[w]
        BY Zenon DEF IInv, ValueInv, Value
    <2>8. Target[r] # pr /\ Target[w] # pr
        BY <2>1, Zenon DEF IInv, ValueInv, Value, ControlInv, Control
    <2> QED BY <2>1, <2>3, <2>5, <2>6, <2>7, <2>8, NoRival, Zenon DEF IInv
<1>2. \A b \in Backups : bk[b] = Left(r, b)
    BY <1>1, Zenon DEF IInv, LeftInv
<1> QED BY <1>1, <1>2, Zenon

-----------------------------------------------------------------------------
(* Frames. *)

(* The agreement part of IInv. *)
Agreement ==
    /\ UntouchedInv /\ LeftInv /\ WitnessInv /\ WinnerInv /\ CandidateInv
    /\ AtMostOneWinner /\ BackupsNeverLag /\ RestCasSucceeds

(* Everything IInv says of request s alone but for the shared memory.      *)
LocalUnchanged(s) ==
    /\ pc'[s] = pc[s] /\ orig'[s] = orig[s] /\ ret'[s] = ret[s]
    /\ posted'[s] = posted[s] /\ prq'[s] = prq[s] /\ swapped'[s] = swapped[s]
    /\ cons'[s] = cons[s] /\ log'[s] = log[s]
    /\ (s \in stop => s \in stop')

(* A request that does not move keeps its control and commit invariants. *)
LEMMA LocalFrame ==
    ASSUME NEW s \in Req, Control(s), Commit(s), LocalUnchanged(s)
    PROVE  Control(s)' /\ Commit(s)'
<1>1. Control(s)'
    BY DEF LocalUnchanged, Control, Won
<1>2. Commit(s)'
    BY Zenon DEF LocalUnchanged, Commit, Won, log_is_committed
<1> QED BY <1>1, <1>2

(* ... and its value invariant while the shared memory rests. *)
LEMMA ValueFrame ==
    ASSUME NEW s \in Req, Value(s), LocalUnchanged(s), UNCHANGED <<pr, bk, past>>
    PROVE  Value(s)'
BY Zenon DEF LocalUnchanged, Value, Won, Took

(* What a request makes of its round 0 depends on what it saw alone. *)
LEMMA RoundFrame ==
    ASSUME NEW s \in Req, orig'[s] = orig[s], ret'[s] = ret[s]
    PROVE  /\ TookMajority(s)' = TookMajority(s)
           /\ Undecided(s)' = Undecided(s) /\ Smallest(s)' = Smallest(s)
<1>1. TookSet(s)' = TookSet(s)
    BY DEF TookSet, Took
<1>2. \A b \in Backups : Vote(s, b)' = Vote(s, b)
    BY Zenon DEF Vote
<1>3. \A v : Votes(s, v)' = Votes(s, v)
    BY <1>2, Zenon DEF Votes
<1> QED BY <1>1, <1>2, <1>3, Zenon DEF TookMajority, Undecided, Smallest, Majority

(* A step that moves one request without touching what it saw or the       *)
(* replicas, nor whether it won, keeps the agreement part.                 *)
LEMMA QuietStep ==
    ASSUME IInv,
           UNCHANGED <<pr, bk, past, orig, ret, swapped, bad>>,
           \A s \in Req : Won(s)' <=> Won(s),
           \A s \in Req : Won(s) => posted'[s] = posted[s],
           \A s \in Req : pc'[s] = "readpr" => pc[s] = "readpr" \/ Undecided(s),
           \A s \in Req : pc'[s] = "bk0" => pc[s] = "bk0" \/ TookSet(s) = {}
    PROVE  Agreement'
<1>1. UntouchedInv' /\ BackupsNeverLag' /\ RestCasSucceeds'
    BY Zenon DEF IInv, UntouchedInv, BackupsNeverLag, RestCasSucceeds
<1>2. LeftInv'
    BY DEF IInv, LeftInv, Left, Took, CurrentWinner
<1>3. WitnessInv'
    BY DEF IInv, WitnessInv, Took, CurrentWinner
<1>4. \A s \in Req : /\ TookMajority(s)' = TookMajority(s)
                     /\ Undecided(s)' = Undecided(s) /\ Smallest(s)' = Smallest(s)
    BY RoundFrame, Zenon
<1>5. WinnerInv'
    BY <1>4, Zenon DEF IInv, WinnerInv
<1>6. CandidateInv'
    <2>1. \A s \in Req : TookSet(s) = {} => ~TookMajority(s)
        BY Zenon DEF IInv, MajoritiesMeet, TookMajority
    <2> QED BY <1>4, <2>1, Zenon DEF IInv, CandidateInv
<1>7. AtMostOneWinner'
    BY Zenon DEF IInv, AtMostOneWinner
<1> QED BY <1>1, <1>2, <1>3, <1>5, <1>6, <1>7, Zenon DEF Agreement

(* IInv from its parts, for a step of request r. *)
LEMMA Assemble ==
    ASSUME IInv, TypeOK', NEW r \in Req,
           \A s \in Req \ {r} : LocalUnchanged(s),
           Control(r)', Commit(r)', ValueInv', Agreement'
    PROVE  IInv'
<1>1. \A s \in Req : Control(s)' /\ Commit(s)'
    BY LocalFrame, Zenon DEF IInv, ControlInv, CommitInv
<1>2. MajoritiesMeet'
    BY Zenon DEF IInv, MajoritiesMeet
<1> QED BY <1>1, <1>2, Zenon DEF IInv, ControlInv, CommitInv, Agreement

LEMMA QuietAssemble ==
    ASSUME IInv, TypeOK', NEW r \in Req,
           \A s \in Req \ {r} : LocalUnchanged(s),
           UNCHANGED <<pr, bk, past, orig, ret, swapped, bad>>,
           Won(r)' <=> Won(r),
           Won(r) => posted'[r] = posted[r],
           pc'[r] = "readpr" => pc[r] = "readpr" \/ Undecided(r),
           pc'[r] = "bk0" => pc[r] = "bk0" \/ TookSet(r) = {},
           Control(r)', Commit(r)', Value(r)'
    PROVE  IInv'
<1>1. \A s \in Req : Value(s)'
    BY ValueFrame, Zenon DEF IInv, ValueInv
<1>2. ValueInv'
    BY <1>1, Zenon DEF IInv, ValueInv
<1>3. Agreement'
    <2>1. \A s \in Req : Won(s)' <=> Won(s)
        BY Zenon DEF LocalUnchanged, Won
    <2>2. \A s \in Req : Won(s) => posted'[s] = posted[s]
        BY Zenon DEF LocalUnchanged
    <2>3. \A s \in Req : pc'[s] = "readpr" => pc[s] = "readpr" \/ Undecided(s)
        BY Zenon DEF LocalUnchanged
    <2>4. \A s \in Req : pc'[s] = "bk0" => pc[s] = "bk0" \/ TookSet(s) = {}
        BY Zenon DEF LocalUnchanged
    <2> QED BY <2>1, <2>2, <2>3, <2>4, QuietStep, Zenon
<1> QED BY <1>2, <1>3, Assemble, Zenon

-----------------------------------------------------------------------------
(* IInv is preserved by the actions of a request outside the contest for   *)
(* the backups, one lemma per action.                                      *)

(* Posting round 0 sends the request of a block it found to the backups. *)
LEMMA PostPreserves ==
    ASSUME Backups # {}, IInv, TypeOK', NEW r \in Req,
           \/ kv_insert_backup_consensus_0(r)
           \/ kv_update_backup_consensus_0(r)
           \/ kv_delete_backup_consensus_0(r)
    PROVE  IInv'
<1>1. /\ UNCHANGED <<mem, orig, ret, prq, swapped, log, stop, bad, cons>>
      /\ pc[r] = "match"
      /\ \/ /\ pc' = [pc EXCEPT ![r] = "done"] /\ UNCHANGED posted
         \/ /\ pc' = [pc EXCEPT ![r] = "bk0"]
            /\ posted' = [posted EXCEPT ![r] = Backups]
            /\ Kind[r] = "INSERT" \/ orig[r] # 0
            /\ Kind[r] # "INSERT" => orig[r] # 0
    BY Zenon DEF kv_insert_backup_consensus_0, kv_update_backup_consensus_0,
           kv_delete_backup_consensus_0, PostBackups, Return, Goto, HoldsKey
<1>2. TypeOK /\ Control(r) /\ Commit(r) /\ Value(r)
    BY DEF IInv, ControlInv, CommitInv, ValueInv
<1>3. \A s \in Req \ {r} : LocalUnchanged(s)
    BY <1>1, <1>2 DEF TypeOK, LocalUnchanged, mem
<1>4. cons[r] = "NON" /\ ~Won(r) /\ (\A b \in Backups : ret[r][b] = None) /\ ~swapped[r]
    BY <1>1, <1>2, Zenon DEF Control, Won, Wins
<1>5. TookSet(r) = {}
    BY <1>2, <1>4, ValuesAreNat DEF TookSet, Took, TypeOK
<1>6. pc'[r] \in {"done", "bk0"} /\ (pc'[r] = "bk0" => posted'[r] = Backups)
    BY <1>1, <1>2 DEF TypeOK
<1>7. Control(r)'
    BY <1>1, <1>2, <1>4, <1>6, Zenon DEF Control, Won, Wins
<1>8. Commit(r)'
    BY <1>1, <1>2, <1>4, <1>6, Zenon DEF Commit, Won, Wins, log_is_committed, TypeOK
<1>9. Value(r)'
    <2>1. pc'[r] = "bk0" => orig[r] \in past
        BY <1>1, <1>2, Zenon DEF Value, TypeOK
    <2>2. UNCHANGED <<pr, bk, past, orig, ret, swapped, cons, stop>>
        BY <1>1, Zenon DEF mem
    <2> QED BY <1>2, <1>4, <1>6, <2>1, <2>2, Zenon DEF Value, Won, Took
<1> QED BY <1>1, <1>3, <1>4, <1>5, <1>6, <1>7, <1>8, <1>9, QuietAssemble, Zenon DEF mem, Won

(* The end of round 1. *)
LEMMA EndRestPreserves ==
    ASSUME IInv, TypeOK', NEW r \in Req, EndRest(r)
    PROVE  IInv'
<1>1. TypeOK /\ Control(r) /\ Commit(r) /\ Value(r)
    BY DEF IInv, ControlInv, CommitInv, ValueInv
<1>2. /\ UNCHANGED <<pr, bk, past, orig, ret, posted, prq, swapped, log, stop, bad>>
      /\ pc[r] = "bk1" /\ posted[r] = {}
      /\ pc' = [pc EXCEPT ![r] = "commit"] /\ cons' = [cons EXCEPT ![r] = "WIN_ALL"]
    BY Zenon DEF EndRest, mem, Goto
<1>3. \A s \in Req \ {r} : LocalUnchanged(s)
    BY <1>1, <1>2, Zenon DEF TypeOK, LocalUnchanged
<1>4. /\ pc'[r] = "commit" /\ cons'[r] = "WIN_ALL"
      /\ cons[r] \in {"WIN_MAJOR", "WIN_LITTLE"}
    BY <1>1, <1>2, Zenon DEF TypeOK, Control
<1>5. Control(r)' /\ Commit(r)' /\ Value(r)'
    <2>1. Control(r)'
        BY <1>1, <1>2, <1>4, Zenon DEF Control, Won, Wins
    <2>2. Commit(r)'
        BY <1>1, <1>2, <1>4, Zenon DEF Commit, Won, Wins, log_is_committed
    <2>3. Value(r)'
        BY <1>1, <1>2, <1>4, Zenon DEF Value, Won, Wins, Took
    <2> QED BY <2>1, <2>2, <2>3
<1> QED BY <1>2, <1>3, <1>4, <1>5, QuietAssemble, Zenon DEF Won, Wins

(* A loser stops waiting. *)
LEMMA WaitPreserves ==
    ASSUME IInv, TypeOK', NEW r \in Req, WaitPrimary(r)
    PROVE  IInv'
<1>1. TypeOK /\ Control(r) /\ Commit(r) /\ Value(r)
    BY Zenon DEF IInv, ControlInv, CommitInv, ValueInv
<1>2. /\ UNCHANGED <<pr, bk, past, orig, ret, posted, prq, swapped, cons, stop, bad>>
      /\ pc[r] = "wait"
      /\ Async(r) => pr # orig[r] \/ r \in stop
      /\ \E l \in {AfterLoss(r), "hang"} : pc' = [pc EXCEPT ![r] = l]
      /\ log' = log \/ log' = [log EXCEPT ![r].op = "FINISH"]
    BY Zenon DEF WaitPrimary, mem, Goto, Lose
<1>3. \A s \in Req \ {r} : LocalUnchanged(s)
    BY <1>1, <1>2 DEF TypeOK, LocalUnchanged
<1>4. /\ pc'[r] \in {AfterLoss(r), "hang"} /\ cons[r] = "FAIL"
      /\ ~swapped[r]
    BY <1>1, <1>2, Zenon DEF TypeOK, Control
<1>5. Control(r)' /\ Commit(r)' /\ Value(r)'
    <2>1. Control(r)'
        <3>1. /\ pc'[r] \in {"done", "pr", "commit", "hang"}
              /\ pc'[r] \in {"pr", "commit"} /\ Async(r) => Kind[r] = "DELETE"
            BY <1>4, RequestTypes, Zenon DEF AfterLoss, Ops
        <3> QED BY <1>1, <1>2, <1>4, <3>1, Zenon DEF Control, Won, Wins
    <2>2. Commit(r)'
        BY <1>1, <1>2, <1>4, Zenon DEF Commit, Won, Wins
    <2>3. Value(r)'
        BY <1>1, <1>2, <1>4, Zenon DEF Value, Won, Wins, Took, AfterLoss
    <2> QED BY <2>1, <2>2, <2>3
<1> QED BY <1>2, <1>3, <1>4, <1>5, QuietAssemble, Zenon DEF Won, Wins, AfterLoss

(* The log commit. *)
LEMMA CommitPreserves ==
    ASSUME IInv, TypeOK', NEW r \in Req, kv_log_commit(r)
    PROVE  IInv'
<1>1. TypeOK /\ Control(r) /\ Commit(r) /\ Value(r)
    BY DEF IInv, ControlInv, CommitInv, ValueInv
<1>2. /\ UNCHANGED <<pr, bk, past, orig, ret, posted, prq, swapped, cons, stop, bad>>
      /\ pc[r] = "commit"
      /\ \/ /\ pc' = [pc EXCEPT ![r] = "done"] /\ r \in stop /\ UNCHANGED log
         \/ /\ pc' = [pc EXCEPT ![r] = "pr"]
            /\ \/ UNCHANGED log /\ Kind[r] = "DELETE"
               \/ log' = [log EXCEPT ![r].old = orig[r]]
    BY Zenon DEF kv_log_commit, mem, Goto, StopsEarly
<1>3. \A s \in Req \ {r} : LocalUnchanged(s)
    BY <1>1, <1>2 DEF TypeOK, LocalUnchanged
<1>4. /\ pc'[r] \in {"done", "pr"} /\ (pc'[r] = "done" => r \in stop)
      /\ cons[r] \in {"WIN_ALL", "FAIL", "FINISH"} /\ ~swapped[r]
    BY <1>1, <1>2 DEF TypeOK, Control
<1>5. pc'[r] = "pr" /\ Kind[r] = "UPDATE" => log'[r].old = orig[r]
    <2>1. log \in [Req -> LogTypes]
        BY <1>1, Zenon DEF TypeOK, LogTypes
    <2>2. pc \in [Req -> PCs]
        BY <1>1, Zenon DEF TypeOK
    <2> QED BY <1>2, <2>1, <2>2 DEF LogTypes
<1>6. Control(r)' /\ Commit(r)' /\ Value(r)'
    <2>1. Control(r)'
        BY <1>1, <1>2, <1>4, Zenon DEF Control, Won, Wins
    <2>2. Commit(r)'
        BY <1>1, <1>2, <1>4, <1>5, Zenon DEF Commit, Won, Wins, log_is_committed
    <2>3. Value(r)'
        BY <1>1, <1>2, <1>4, Zenon DEF Value, Won, Wins, Took
    <2> QED BY <2>1, <2>2, <2>3
<1> QED BY <1>2, <1>3, <1>4, <1>6, QuietAssemble, Zenon DEF Won, Wins

(* The primary batch is posted, or a stopped or losing request returns. *)
LEMMA PostPrimaryPreserves ==
    ASSUME IInv, TypeOK', NEW r \in Req, PostPrimary(r)
    PROVE  IInv'
<1>1. TypeOK /\ Control(r) /\ Commit(r) /\ Value(r)
    BY DEF IInv, ControlInv, CommitInv, ValueInv
<1>2. /\ UNCHANGED <<pr, bk, past, orig, ret, posted, swapped, cons, log, stop, bad>>
      /\ pc[r] = "pr"
      /\ \/ /\ pc' = [pc EXCEPT ![r] = "done"] /\ UNCHANGED prq
            /\ r \in stop \/ cons[r] = "FAIL"
         \/ /\ pc' = [pc EXCEPT ![r] = "prq"] /\ cons[r] # "FAIL"
            /\ \/ prq' = [prq EXCEPT ![r] = {"cas"}]
               \/ prq' = [prq EXCEPT ![r] = {"cas", "inv"}]
    BY Zenon DEF PostPrimary, mem, Goto, Return
<1>3. \A s \in Req \ {r} : LocalUnchanged(s)
    BY <1>1, <1>2 DEF TypeOK, LocalUnchanged
<1>4. /\ cons[r] \in {"WIN_ALL", "FAIL", "FINISH"} /\ ~swapped[r]
      /\ \/ /\ pc'[r] = "done" /\ prq'[r] = {}
            /\ r \in stop \/ cons[r] = "FAIL"
         \/ pc'[r] = "prq" /\ cons[r] # "FAIL" /\ "cas" \in prq'[r]
    BY <1>1, <1>2 DEF TypeOK, Control
<1>5. Control(r)' /\ Commit(r)' /\ Value(r)'
    <2>1. Control(r)'
        BY <1>1, <1>2, <1>4, Zenon DEF Control, Won, Wins
    <2>2. Commit(r)'
        BY <1>1, <1>2, <1>4, Zenon DEF Commit, Won, Wins, log_is_committed
    <2>3. Value(r)'
        BY <1>1, <1>2, <1>4, Zenon DEF Value, Won, Wins, Took
    <2> QED BY <2>1, <2>2, <2>3
<1> QED BY <1>2, <1>3, <1>4, <1>5, QuietAssemble, Zenon DEF Won, Wins

(* The old block is marked invalid. *)
LEMMA InvalidPreserves ==
    ASSUME IInv, TypeOK', NEW r \in Req, WriteInvalid(r)
    PROVE  IInv'
<1>1. TypeOK /\ Control(r) /\ Commit(r) /\ Value(r)
    BY DEF IInv, ControlInv, CommitInv, ValueInv
<1>2. /\ UNCHANGED <<pr, bk, past, pc, orig, ret, posted, swapped, cons, log, stop, bad>>
      /\ pc[r] = "prq"
      /\ prq' = [prq EXCEPT ![r] = @ \ {"inv"}]
    BY Zenon DEF WriteInvalid
<1>3. \A s \in Req \ {r} : LocalUnchanged(s)
    BY <1>1, <1>2, Zenon DEF TypeOK, LocalUnchanged
<1>4. "cas" \in prq'[r] <=> "cas" \in prq[r]
    BY <1>1, <1>2, Zenon DEF TypeOK
<1>5. Control(r)' /\ Commit(r)' /\ Value(r)'
    <2>1. Control(r)'
        BY <1>1, <1>2, <1>4, Zenon DEF Control, Won
    <2>2. Commit(r)'
        BY <1>1, <1>2, Zenon DEF Commit, Won, log_is_committed
    <2>3. Value(r)'
        BY <1>1, <1>2, Zenon DEF Value, Won, Took
    <2> QED BY <2>1, <2>2, <2>3
<1> QED BY <1>2, <1>3, <1>5, QuietAssemble, Zenon DEF Won

(* The primary batch completes. *)
LEMMA PrimaryPreserves ==
    ASSUME IInv, TypeOK', NEW r \in Req, modify_primary_idx(r)
    PROVE  IInv'
<1>1. TypeOK /\ Control(r) /\ Commit(r) /\ Value(r)
    BY DEF IInv, ControlInv, CommitInv, ValueInv
<1>2. /\ UNCHANGED <<pr, bk, past, orig, ret, posted, prq, swapped, cons, log, stop, bad>>
      /\ pc[r] = "prq" /\ prq[r] = {}
      /\ \/ pc' = [pc EXCEPT ![r] = "done"]
         \/ pc' = [pc EXCEPT ![r] = "exit"] /\ ~swapped[r] /\ Async(r)
    BY Zenon DEF modify_primary_idx, mem, Goto, Return
<1>3. \A s \in Req \ {r} : LocalUnchanged(s)
    BY <1>1, <1>2 DEF TypeOK, LocalUnchanged
<1>4. /\ cons[r] \in {"WIN_ALL", "FINISH"} /\ (Won(r) <=> swapped[r])
      /\ \/ pc'[r] = "done"
         \/ pc'[r] = "exit" /\ ~swapped[r] /\ Async(r)
    BY <1>1, <1>2 DEF TypeOK, Control
<1>5. Control(r)' /\ Commit(r)' /\ Value(r)'
    <2>1. Control(r)'
        BY <1>1, <1>2, <1>4, Zenon DEF Control, Won, Wins
    <2>2. Commit(r)'
        BY <1>1, <1>2, <1>4, Zenon DEF Commit, Won, log_is_committed
    <2>3. Value(r)'
        BY <1>1, <1>2, <1>4, Zenon DEF Value, Won, Took
    <2> QED BY <2>1, <2>2, <2>3
<1> QED BY <1>2, <1>3, <1>4, <1>5, QuietAssemble, Zenon DEF Won

(* A client raises should_stop. *)
LEMMA StopPreserves ==
    ASSUME IInv, TypeOK', NEW r \in Req, Stop(r)
    PROVE  IInv'
<1>1. TypeOK /\ Control(r) /\ Commit(r) /\ Value(r)
    BY DEF IInv, ControlInv, CommitInv, ValueInv
<1>2. /\ UNCHANGED <<pr, bk, past, pc, orig, ret, posted, prq, swapped, cons, log, bad>>
      /\ stop \subseteq stop'
    BY Zenon DEF Stop, mem, ctx
<1>3. \A s \in Req : LocalUnchanged(s)
    BY <1>2, Zenon DEF LocalUnchanged
<1>4. Control(r)' /\ Commit(r)' /\ Value(r)'
    BY <1>1, <1>2, <1>3, LocalFrame, ValueFrame, Zenon
<1> QED BY <1>2, <1>3, <1>4, QuietAssemble, Zenon DEF Won

(* A request begins: it has touched nothing of the index yet. *)
LEMMA ReadPreserves ==
    ASSUME IInv, TypeOK', NEW r \in Req,
           \/ kv_insert_read_buckets_and_write_kv(r)
           \/ kv_update_read_buckets_and_write_kv(r)
           \/ kv_delete_read_buckets_write_log(r)
    PROVE  IInv'
<1>1. TypeOK /\ Control(r) /\ Commit(r) /\ Value(r) /\ pr \in past
    BY Zenon DEF IInv, ControlInv, CommitInv, ValueInv
<1>2. /\ UNCHANGED <<pr, bk, past, ret, posted, prq, swapped, cons, stop, bad>>
      /\ pc[r] = "start"
      /\ \/ pc' = [pc EXCEPT ![r] = "done"] /\ UNCHANGED <<orig, log>>
         \/ /\ pc' = [pc EXCEPT ![r] = "match"]
            /\ log' = log \/ log' = [log EXCEPT ![r] = [op |-> Kind[r], old |-> 0]]
            /\ \E v \in past \cup {0} :
                    /\ orig' = [orig EXCEPT ![r] = v]
                    /\ Kind[r] = "INSERT" => v \in past
    BY <1>1, Zenon DEF kv_insert_read_buckets_and_write_kv, kv_update_read_buckets_and_write_kv,
                kv_delete_read_buckets_write_log, Return, Goto, WriteKV, FoundSlot
<1>3. \A s \in Req \ {r} : LocalUnchanged(s)
    BY <1>1, <1>2 DEF TypeOK, LocalUnchanged
<1>4. /\ pc'[r] \in {"done", "match"}
      /\ pc'[r] = "match" /\ (orig'[r] # 0 \/ Kind[r] = "INSERT") => orig'[r] \in past
      /\ cons[r] = "NON" /\ ~swapped[r] /\ ~Won(r) /\ ~Won(r)'
      /\ \A b \in Backups : ret[r][b] = None
    <2>1. cons[r] = "NON" /\ ~swapped[r] /\ \A b \in Backups : ret[r][b] = None
        BY <1>1, <1>2, Zenon DEF Control, Won, Wins
    <2>2. ~Won(r) /\ ~Won(r)'
        BY <1>2, <2>1, Zenon DEF Won, Wins
    <2>3. pc \in [Req -> PCs] /\ orig \in [Req -> Values \cup {0}]
        BY <1>1, Zenon DEF TypeOK
    <2>4. pc'[r] \in {"done", "match"}
        BY <1>2, <2>3, Zenon
    <2>5. pc'[r] = "match" /\ (orig'[r] # 0 \/ Kind[r] = "INSERT") => orig'[r] \in past
        BY <1>2, <2>3, Zenon
    <2> QED BY <2>1, <2>2, <2>4, <2>5, Zenon
<1>5. \A b \in Backups : ~Took(r, b) /\ ~Took(r, b)'
    <2>1. orig \in [Req -> Values \cup {0}] /\ orig' \in [Req -> Values \cup {0}] /\ ret' = ret
        BY <1>1, <1>2, Zenon DEF TypeOK
    <2> QED BY <1>4, <2>1, ValuesAreNat DEF Took
<1>6. Control(r)' /\ Commit(r)'
    <2>1. /\ ret' = ret /\ posted' = posted /\ prq' = prq
          /\ swapped' = swapped /\ cons' = cons /\ stop' = stop
        BY <1>2, Zenon
    <2>2. Control(r)'
        BY <1>1, <1>4, <2>1, Zenon DEF Control, Won, Wins
    <2>3. Commit(r)'
        BY <1>1, <1>4, <2>1, Zenon DEF Commit
    <2> QED BY <2>2, <2>3
<1>7. ValueInv'
    <2>1. Value(r)'
        BY <1>1, <1>2, <1>4, <1>5, Zenon DEF Value
    <2> QED BY <1>2, <1>3, <2>1, ValueFrame, Zenon DEF IInv, ValueInv
<1>8. Agreement'
    <2>1. \A s \in Req \ {r} : /\ orig'[s] = orig[s] /\ ret'[s] = ret[s] /\ pc'[s] = pc[s]
                              /\ (Won(s)' <=> Won(s)) /\ posted'[s] = posted[s]
        BY <1>3, Zenon DEF LocalUnchanged, Won
    <2>0. /\ pr' = pr /\ bk' = bk /\ past' = past /\ ret' = ret
          /\ posted' = posted /\ swapped' = swapped /\ bad' = bad
        BY <1>2, Zenon
    <2>2. UntouchedInv' /\ BackupsNeverLag' /\ RestCasSucceeds'
        <3>1. UntouchedInv /\ BackupsNeverLag /\ RestCasSucceeds
            BY Zenon DEF IInv
        <3>2. UntouchedInv'
            BY <2>0, <1>4, <2>1, <3>1 DEF UntouchedInv
        <3>3. BackupsNeverLag' /\ RestCasSucceeds'
            BY <2>0, <3>1 DEF BackupsNeverLag, RestCasSucceeds
        <3> QED BY <3>2, <3>3
    <2>3. LeftInv'
        BY <2>0, <1>4, <2>1 DEF IInv, LeftInv, Left, Took, CurrentWinner
    <2>4. WitnessInv'
        BY <2>0, <1>4, <1>5, <2>1 DEF IInv, WitnessInv, Took, CurrentWinner
    <2>5. \A s \in Req \ {r} : /\ TookMajority(s)' = TookMajority(s)
                              /\ Undecided(s)' = Undecided(s) /\ Smallest(s)' = Smallest(s)
        BY <2>1, RoundFrame, Zenon
    <2>6. WinnerInv'
        <3>1. WinnerInv
            BY DEF IInv
        <3> QED BY <2>0, <1>4, <2>1, <2>5, <3>1, Zenon DEF WinnerInv
    <2>7. CandidateInv'
        BY <2>0, <1>4, <2>1, <2>5, Zenon DEF IInv, CandidateInv
    <2>8. AtMostOneWinner'
        BY <1>4, <2>1 DEF IInv, AtMostOneWinner
    <2> QED BY <2>2, <2>3, <2>4, <2>6, <2>7, <2>8 DEF Agreement
<1> QED BY <1>3, <1>6, <1>7, <1>8, Assemble

-----------------------------------------------------------------------------
(* IInv is preserved by the contest for the backups: a backup's CAS, and   *)
(* the evaluation of round 0.                                              *)

(* A request decides it won: it is the first of its version. *)
LEMMA WinPreserves ==
    ASSUME NoReuse, Backups # {}, IInv, TypeOK', NEW r \in Req, NEW st \in Wins,
           pc[r] \in {"bk0", "readpr"}, orig[r] = pr, Strong(r),
           \A b \in Backups : ret[r][b] # None,
           posted[r] = {} \/ st # "WIN_ALL",
           st = "WIN_ALL" => \A b \in Backups : Took(r, b),
           Decide(r, st), UNCHANGED <<mem, orig, ret, prq, swapped, stop, bad>>
    PROVE  IInv'
<1>1. TypeOK /\ Control(r) /\ Commit(r) /\ Value(r) /\ pr \in past
    BY Zenon DEF IInv, ControlInv, CommitInv, ValueInv
<1>2. /\ UNCHANGED <<pr, past, bk, orig, ret, prq, swapped, stop, bad, log>>
      /\ cons' = [cons EXCEPT ![r] = st]
      /\ \/ st = "WIN_ALL" /\ pc' = [pc EXCEPT ![r] = "commit"] /\ UNCHANGED posted
         \/ /\ st # "WIN_ALL" /\ pc' = [pc EXCEPT ![r] = "bk1"]
            /\ posted' = [posted EXCEPT ![r] = Rest(r)]
    BY Zenon DEF Decide, mem, Goto, Wins
<1>3. \A s \in Req \ {r} : LocalUnchanged(s)
    BY <1>1, <1>2 DEF TypeOK, LocalUnchanged
<1>4. ~Won(r) /\ ~swapped[r] /\ Won(r)' /\ cons'[r] = st
    BY <1>1, <1>2, Zenon DEF Control, Won, Wins, TypeOK
<1>5. /\ \A w \in Req : ~CurrentWinner(w)
      /\ \A b \in Backups : bk[b] = Left(r, b)
    BY <1>4, NewWinner, Zenon
<1>6. \/ st = "WIN_ALL" /\ pc'[r] = "commit" /\ posted'[r] = {}
      \/ st # "WIN_ALL" /\ pc'[r] = "bk1" /\ posted'[r] = Rest(r)
    BY <1>1, <1>2, Zenon DEF TypeOK
<1>7. Control(r)' /\ Commit(r)'
    <2>1. Control(r)'
        BY <1>1, <1>2, <1>4, <1>6, Zenon DEF Control, Won, Wins
    <2>2. Commit(r)'
        BY <1>1, <1>2, <1>4, <1>6, Zenon DEF Commit, log_is_committed
    <2> QED BY <2>1, <2>2, Zenon
<1>8. ValueInv'
    <2>1. Value(r)'
        BY <1>1, <1>2, <1>4, <1>6, Zenon DEF Value, Took, Wins
    <2> QED BY <1>1, <1>2, <1>3, <2>1, ValueFrame, Zenon DEF IInv, ValueInv
<1>9. Agreement'
    <2>0. \A s \in Req \ {r} : /\ Won(s)' <=> Won(s)
                              /\ pc'[s] = pc[s] /\ posted'[s] = posted[s]
        BY <1>3, Zenon DEF LocalUnchanged, Won
    <2>1. UntouchedInv' /\ BackupsNeverLag' /\ RestCasSucceeds'
        BY <1>2, Zenon DEF IInv, UntouchedInv, BackupsNeverLag, RestCasSucceeds
    <2>2. AtMostOneWinner'
        <3>1. \A s \in Req \ {r} : Won(s) => orig[s] # pr
            BY <1>5, Zenon DEF CurrentWinner
        <3> QED BY <1>2, <2>0, <3>1, Zenon DEF IInv, AtMostOneWinner
    <2>3. LeftInv'
        BY <1>2, <1>5 DEF IInv, LeftInv, Left, Took
    <2>4. WitnessInv'
        BY <1>2, <1>5 DEF IInv, WitnessInv, Took
    <2>5. \A s \in Req : /\ TookMajority(s)' = TookMajority(s)
                         /\ Undecided(s)' = Undecided(s) /\ Smallest(s)' = Smallest(s)
        BY <1>2, RoundFrame, Zenon
    <2>6. WinnerInv'
        <3>1. \A b \in Backups : bk[b] = IF b \in posted'[r] THEN ret[r][b] ELSE Target[r]
            BY <1>1, <1>5, <1>6, Zenon DEF Left, Rest, Took, Value
        <3> QED BY <1>2, <2>0, <2>5, <3>1 DEF IInv, WinnerInv, Strong
    <2>7. CandidateInv'
        BY <1>2, <1>6, <2>0, <2>5, Zenon DEF IInv, CandidateInv
    <2> QED BY <2>1, <2>2, <2>3, <2>4, <2>6, <2>7, Zenon DEF Agreement
<1> QED BY <1>3, <1>7, <1>8, <1>9, Assemble, Zenon

(* A round-0 CAS.  When it succeeds the backup was untouched, so nobody    *)
(* has won this version; when it fails, the value it returns tells who     *)
(* took the backup.                                                        *)
LEMMA CasBackupPreserves ==
    ASSUME NoReuse, IInv, TypeOK', NEW r \in Req, NEW b \in Backups, CasBackup(r, b)
    PROVE  IInv'
<1>1. TypeOK /\ Control(r) /\ Commit(r) /\ Value(r) /\ pr \in past
    BY Zenon DEF IInv, ControlInv, CommitInv, ValueInv
<1>2. /\ UNCHANGED <<pr, past, pc, orig, prq, swapped, cons, log, stop, bad>>
      /\ pc[r] = "bk0" /\ b \in posted[r]
      /\ ret' = [ret EXCEPT ![r][b] = bk[b]]
      /\ bk' = IF bk[b] = orig[r] THEN [bk EXCEPT ![b] = Target[r]] ELSE bk
      /\ posted' = [posted EXCEPT ![r] = @ \ {b}]
    BY Zenon DEF CasBackup
<1>3. \A s \in Req \ {r} : LocalUnchanged(s)
    BY <1>1, <1>2, Zenon DEF TypeOK, LocalUnchanged
<1>4. /\ cons[r] = "NON" /\ ~Won(r) /\ ret[r][b] = None /\ orig[r] \in past /\ ~swapped[r]
      /\ ~Took(r, b) /\ Target[r] \notin past
    BY <1>1, <1>2, ValuesAreNat DEF Control, Value, Won, Wins, Took, TypeOK
<1>5. /\ ret'[r][b] = bk[b] /\ posted'[r] = posted[r] \ {b} /\ bk[b] # None
      /\ \A c \in Backups \ {b} : ret'[r][c] = ret[r][c]
      /\ \A c \in Backups \ {b} : bk'[c] = bk[c]
      /\ \A s \in Req \ {r} : ret'[s] = ret[s]
      /\ \A s \in Req : Won(s)' <=> Won(s)
    <2>1. ret'[r][b] = bk[b] /\ posted'[r] = posted[r] \ {b}
        BY <1>1, <1>2 DEF TypeOK
    <2>2. bk[b] # None
        BY <1>1, ValuesAreNat DEF TypeOK
    <2>3. /\ \A c \in Backups \ {b} : ret'[r][c] = ret[r][c]
          /\ \A s \in Req \ {r} : ret'[s] = ret[s]
        BY <1>1, <1>2 DEF TypeOK
    <2>4. \A c \in Backups \ {b} : bk'[c] = bk[c]
        BY <1>1, <1>2, Zenon DEF TypeOK
    <2>5. \A s \in Req : Won(s)' <=> Won(s)
        BY <1>2, Zenon DEF Won
    <2> QED BY <2>1, <2>2, <2>3, <2>4, <2>5, Zenon
<1>6. Control(r)' /\ Commit(r)'
    <2>1. Control(r)'
        BY <1>1, <1>2, <1>4, <1>5 DEF Control, Won, Wins
    <2>2. Commit(r)'
        BY <1>1, <1>2, Zenon DEF Commit, Won, log_is_committed
    <2> QED BY <2>1, <2>2
<1>7. \A s \in Req \ {r} : /\ TookMajority(s)' = TookMajority(s)
                          /\ Undecided(s)' = Undecided(s) /\ Smallest(s)' = Smallest(s)
    BY <1>2, <1>5, RoundFrame, Zenon
<1>8. CASE bk[b] # orig[r]
    <2>1. bk' = bk /\ ~Took(r, b)' /\ (\A c \in Backups : Took(r, c)' <=> Took(r, c))
        BY <1>2, <1>4, <1>5, <1>8 DEF Took
    <2>2. ValueInv'
        <3>1. Value(r)'
            <4>1. bk[b] # Target[r]
                BY <1>1, <1>4, Zenon DEF Value
            <4> QED BY <1>1, <1>2, <1>4, <1>5, <2>1, <4>1 DEF Value
        <3>2. \A s \in Req \ {r} : Value(s)'
            BY <1>2, <1>3, <2>1, ValueFrame, Zenon DEF IInv, ValueInv
        <3> QED BY <1>1, <1>2, <3>1, <3>2, Zenon DEF ValueInv
    <2>3. UntouchedInv'
        BY <1>2, <1>5, <1>8, <2>1 DEF IInv, UntouchedInv
    <2>4. BackupsNeverLag' /\ RestCasSucceeds' /\ AtMostOneWinner'
        BY <1>2, <1>5, <2>1, Zenon DEF IInv, BackupsNeverLag, RestCasSucceeds, AtMostOneWinner
    <2>5. LeftInv'
        BY <1>2, <1>5, <2>1 DEF IInv, LeftInv, Left, Took, CurrentWinner
    <2>6. WitnessInv'
        <3> SUFFICES ASSUME NEW x \in Req, NEW s \in Req, NEW c \in Backups,
                            x # s, orig[x] = pr, orig[s] = pr, Took(s, c)', ret'[x][c] # None
                     PROVE  \/ ret'[x][c] = Target[s]
                            \/ \E w \in Req \ {x} : CurrentWinner(w) /\ ret'[x][c] = Target[w]
            BY <1>2, <1>5 DEF WitnessInv, CurrentWinner
        <3>1. Took(s, c)
            BY <1>2, <1>5, <2>1 DEF Took
        <3>2. CASE x = r /\ c = b
            <4>1. ret[s][b] # None
                BY <1>1, <3>1, <3>2, ValuesAreNat, Zenon DEF Took, TypeOK
            <4>2. Left(s, b) = Target[s]
                BY <3>1, <3>2, Zenon DEF Left
            <4>3. \/ bk[b] = Target[s]
                  \/ \E w \in Req : CurrentWinner(w) /\ bk[b] = Target[w]
                BY <4>1, <4>2, Zenon DEF IInv, LeftInv
            <4> QED BY <1>4, <1>5, <3>2, <4>3, Zenon DEF CurrentWinner
        <3>3. CASE ~(x = r /\ c = b)
            <4>1. ret'[x][c] = ret[x][c]
                BY <1>5, <3>3, Zenon
            <4> QED BY <3>1, <4>1 DEF IInv, WitnessInv
        <3> QED BY <3>2, <3>3, Zenon
    <2>7. WinnerInv'
        <3>1. \A s \in Req : Won(s) => s # r /\ posted'[s] = posted[s]
            BY <1>3, <1>4, Zenon DEF LocalUnchanged
        <3> QED BY <1>2, <1>5, <1>7, <2>1, <3>1 DEF IInv, WinnerInv
    <2>8. CandidateInv'
        <3>1. TookMajority(r)' = TookMajority(r)
            BY <2>1, Zenon DEF TookMajority, TookSet
        <3> QED BY <1>2, <1>7, <3>1, Zenon DEF IInv, CandidateInv
    <2> QED BY <1>3, <1>6, <2>2, <2>3, <2>4, <2>5, <2>6, <2>7, <2>8, Assemble, Zenon DEF Agreement
<1>9. CASE bk[b] = orig[r]
    <2>1. /\ bk[b] = pr /\ orig[r] = pr /\ bk'[b] = Target[r] /\ Took(r, b)'
          /\ Target[r] # pr
        BY <1>1, <1>2, <1>4, <1>5, <1>9 DEF IInv, BackupsNeverLag, Took, TypeOK
    <2>2. \A s \in Req : orig[s] = pr => ret[s][b] = None /\ ~Took(s, b) /\ ~Won(s)
        <3>1. \A s \in Req : orig[s] = pr => ret[s][b] = None
            BY <2>1, Zenon DEF IInv, UntouchedInv
        <3>2. \A s \in Req : Won(s) => ret[s][b] # None
            BY Zenon DEF IInv, ControlInv, Control, Won, Wins
        <3> QED BY <1>1, <3>1, <3>2, ValuesAreNat, Zenon DEF Took, TypeOK
    <2>3. \A s \in Req : Won(s) => swapped[s] /\ s # r
        BY <1>4, <2>2, Zenon DEF IInv, WinnerInv
    <2>4. ValueInv'
        <3>1. Value(r)'
            BY <1>1, <1>2, <1>4, <1>5, <2>1, Zenon DEF Value, Took
        <3>2. ASSUME NEW s \in Req \ {r} PROVE Value(s)'
            <4>1. Value(s) /\ LocalUnchanged(s) /\ Target[s] # Target[r]
                BY <1>3, Zenon DEF IInv, ValueInv, NoReuse
            <4> QED BY <1>2, <1>5, <2>1, <4>1 DEF Value, LocalUnchanged, Took, Won
        <3> QED BY <1>1, <1>2, <3>1, <3>2, Zenon DEF ValueInv
    <2>5. UntouchedInv'
        BY <1>2, <1>5, <2>1 DEF IInv, UntouchedInv
    <2>6. BackupsNeverLag' /\ RestCasSucceeds' /\ AtMostOneWinner'
        BY <1>2, <1>4, <1>5, <2>1 DEF IInv, BackupsNeverLag, RestCasSucceeds, AtMostOneWinner
    <2>7. LeftInv'
        BY <1>2, <1>5, <2>1, <2>2 DEF IInv, LeftInv, Left, Took, CurrentWinner
    <2>8. WitnessInv'
        <3> SUFFICES ASSUME NEW x \in Req, NEW s \in Req, NEW c \in Backups,
                            x # s, orig[x] = pr, orig[s] = pr, Took(s, c)', ret'[x][c] # None
                     PROVE  \/ ret'[x][c] = Target[s]
                            \/ \E w \in Req \ {x} : CurrentWinner(w) /\ ret'[x][c] = Target[w]
            BY <1>2, <1>5 DEF WitnessInv, CurrentWinner
        <3>1. c # b
            BY <1>2, <1>5, <2>2 DEF Took
        <3> QED BY <1>2, <1>5, <3>1 DEF IInv, WitnessInv, Took
    <2>9. WinnerInv'
        BY <1>2, <1>5, <1>7, <2>3, Zenon DEF IInv, WinnerInv
    <2>10. CandidateInv'
        BY <1>2, <1>7, <2>1, Zenon DEF IInv, CandidateInv
    <2> QED BY <1>3, <1>6, <2>4, <2>5, <2>6, <2>7, <2>8, <2>9, <2>10, Assemble, Zenon DEF Agreement
<1> QED BY <1>8, <1>9

(* A request decides it lost, came too late, or has to break a tie. *)
LEMMA NoWinPreserves ==
    ASSUME IInv, TypeOK', NEW r \in Req, NEW st \in {"FAIL", "NON", "FINISH"},
           pc[r] \in {"bk0", "readpr"},
           \A b \in Backups : ret[r][b] # None,
           st = "NON" => Undecided(r),
           st = "FINISH" => orig[r] # pr,
           Decide(r, st), UNCHANGED <<mem, orig, ret, prq, swapped, stop, bad>>
    PROVE  IInv'
<1>1. TypeOK /\ Control(r) /\ Commit(r) /\ Value(r)
    BY Zenon DEF IInv, ControlInv, CommitInv, ValueInv
<1>2. /\ UNCHANGED <<pr, past, bk, orig, ret, posted, prq, swapped, stop, bad>>
      /\ cons' = [cons EXCEPT ![r] = st]
      /\ \/ st = "FAIL" /\ pc' = [pc EXCEPT ![r] = "wait"] /\ UNCHANGED log
         \/ st = "NON" /\ pc' = [pc EXCEPT ![r] = "readpr"] /\ UNCHANGED log
         \/ /\ st = "FINISH" /\ pc' = [pc EXCEPT ![r] = AfterLoss(r)]
            /\ log' = [log EXCEPT ![r].op = "FINISH"]
    BY Zenon DEF Decide, mem, Goto, Lose
<1>3. \A s \in Req \ {r} : LocalUnchanged(s)
    BY <1>1, <1>2 DEF TypeOK, LocalUnchanged
<1>4. cons[r] = "NON" /\ cons'[r] = st /\ ~Won(r) /\ ~Won(r)' /\ ~swapped[r]
    BY <1>1, <1>2, Zenon DEF Control, Won, Wins, TypeOK
<1>5. \/ st = "FAIL" /\ pc'[r] = "wait"
      \/ st = "NON" /\ pc'[r] = "readpr"
      \/ st = "FINISH" /\ pc'[r] = AfterLoss(r)
    BY <1>1, <1>2, Zenon DEF TypeOK
<1>6. /\ AfterLoss(r) \in {"done", "pr", "commit"}
      /\ AfterLoss(r) \in {"pr", "commit"} /\ Async(r) => Kind[r] = "DELETE"
    BY RequestTypes, Zenon DEF AfterLoss, Ops
<1>7. Control(r)'
    BY <1>1, <1>2, <1>4, <1>5, <1>6, Zenon DEF Control
<1>8. Commit(r)'
    BY <1>1, <1>2, <1>4, <1>5, Zenon DEF Commit
<1>9. Value(r)'
    BY <1>1, <1>2, <1>4, <1>5, <1>6, Zenon DEF Value, Took
<1> QED BY <1>2, <1>3, <1>4, <1>5, <1>6, <1>7, <1>8, <1>9, QuietAssemble, Zenon

(* The end of round 0. *)
LEMMA ConsensusPreserves ==
    ASSUME NoReuse, Backups # {}, IInv, TypeOK', NEW r \in Req,
           modify_backup_idx_consensus_1(r)
    PROVE  IInv'
<1>1. TypeOK /\ Control(r) /\ Commit(r) /\ Value(r)
    BY Zenon DEF IInv, ControlInv, CommitInv, ValueInv
<1>2. /\ UNCHANGED <<mem, orig, ret, prq, swapped, stop, bad>>
      /\ pc[r] = "bk0" /\ posted[r] = {}
      /\ \/ Decide(r, check_cas_consensus_0(r))
         \/ pc' = [pc EXCEPT ![r] = "done"] /\ UNCHANGED <<cons, posted, log>>
    BY Zenon DEF modify_backup_idx_consensus_1, Goto
<1>3. \A b \in Backups : ret[r][b] # None
    BY <1>1, <1>2, Zenon DEF Control
<1>4. \A b \in Backups : Vote(r, b) = Target[r] <=> Took(r, b)
    BY <1>1, Zenon DEF Vote, Took, Value
<1>5. {b \in Backups : Vote(r, b) = Target[r]} = TookSet(r)
    BY <1>4 DEF TookSet
<1>6. CASE Decide(r, check_cas_consensus_0(r))
    <2>1. CASE check_cas_consensus_0(r) \in Wins
        <3>1. TookMajority(r)
            <4>1. CASE check_cas_consensus_0(r) = "WIN_ALL"
                <5>1. TookSet(r) = Backups
                    BY <1>4, <4>1, Zenon DEF check_cas_consensus_0, TookSet
                <5> QED BY <5>1, Zenon DEF IInv, MajoritiesMeet, TookMajority
            <4>2. CASE check_cas_consensus_0(r) # "WIN_ALL"
                BY <1>5, <2>1, <4>2, Zenon DEF check_cas_consensus_0, Wins, Majority, Votes, TookMajority
            <4> QED BY <4>1, <4>2
        <3>2. orig[r] = pr
            BY <1>2, <3>1, Zenon DEF IInv, CandidateInv
        <3>3. check_cas_consensus_0(r) = "WIN_ALL" => \A b \in Backups : Took(r, b)
            BY <1>4, Zenon DEF check_cas_consensus_0
        <3> QED BY <1>2, <1>3, <1>6, <2>1, <3>1, <3>2, <3>3, WinPreserves, Zenon DEF Strong
    <2>2. CASE check_cas_consensus_0(r) \notin Wins
        <3>1. check_cas_consensus_0(r) \in {"FAIL", "NON"}
            BY <2>2, Zenon DEF check_cas_consensus_0, Wins
        <3>2. check_cas_consensus_0(r) = "NON" => Undecided(r)
            BY <1>4, Zenon DEF check_cas_consensus_0, Undecided, TookSet
        <3> QED BY <1>2, <1>3, <1>6, <3>1, <3>2, NoWinPreserves, Zenon
    <2> QED BY <2>1, <2>2
<1>7. CASE pc' = [pc EXCEPT ![r] = "done"] /\ UNCHANGED <<cons, posted, log>>
    <2>1. \A s \in Req \ {r} : LocalUnchanged(s)
        BY <1>1, <1>2, <1>7, Zenon DEF TypeOK, LocalUnchanged, mem
    <2>2. pc'[r] = "done" /\ cons[r] = "NON" /\ ~Won(r) /\ ~swapped[r]
        BY <1>1, <1>2, <1>7, Zenon DEF TypeOK, Control, Won, Wins
    <2>3. Control(r)'
        BY <1>1, <1>2, <1>7, <2>2, Zenon DEF Control, Won
    <2>4. Commit(r)'
        BY <1>1, <1>2, <1>7, <2>2, Zenon DEF Commit, Won
    <2>5. Value(r)'
        BY <1>1, <1>2, <1>7, <2>2, Zenon DEF Value, Won, Took, mem
    <2> QED BY <1>2, <1>7, <2>1, <2>2, <2>3, <2>4, <2>5, QuietAssemble, Zenon DEF mem, Won
<1> QED BY <1>2, <1>6, <1>7, Zenon

(* The tie-break. *)
LEMMA TieBreakPreserves ==
    ASSUME NoReuse, Backups # {}, IInv, TypeOK', NEW r \in Req, ReadPrimary(r)
    PROVE  IInv'
<1>1. /\ UNCHANGED <<mem, orig, ret, prq, swapped, stop, bad>>
      /\ pc[r] = "readpr" /\ Decide(r, BreakTie(r))
    BY Zenon DEF ReadPrimary
<1>2. \A b \in Backups : ret[r][b] # None
    BY <1>1, Zenon DEF IInv, ControlInv, Control
<1>3. Undecided(r)
    BY <1>1, Zenon DEF IInv, CandidateInv
<1>4. CASE BreakTie(r) = "WIN_LITTLE"
    <2>1. orig[r] = pr /\ Strong(r)
        BY <1>3, <1>4 DEF BreakTie, Strong
    <2> QED BY <1>1, <1>2, <1>4, <2>1, WinPreserves, Zenon DEF Wins
<1>5. CASE BreakTie(r) \in {"FAIL", "FINISH"}
    <2>1. BreakTie(r) = "FINISH" => orig[r] # pr
        BY DEF BreakTie
    <2> QED BY <1>1, <1>2, <1>5, <2>1, NoWinPreserves, Zenon
<1> QED BY <1>4, <1>5 DEF BreakTie

-----------------------------------------------------------------------------
(* The last two actions, the invariant and the safety properties *)

(* A round-1 CAS always succeeds: the winner is alone. *)
LEMMA CasRestPreserves ==
    ASSUME NoReuse, IInv, TypeOK', NEW r \in Req, NEW b \in Backups, CasRest(r, b)
    PROVE  IInv'
<1>1. TypeOK /\ Control(r) /\ Commit(r) /\ Value(r) /\ pr \in past
    BY DEF IInv, ControlInv, CommitInv, ValueInv
<1>2. pc[r] = "bk1" /\ b \in posted[r] /\ Won(r) /\ ~swapped[r] /\ orig[r] = pr
    <2>1. pc[r] = "bk1" /\ b \in posted[r]
        BY Zenon DEF CasRest
    <2>2. Won(r) /\ ~swapped[r]
        BY <1>1, <2>1, Zenon DEF Control, Won, Wins
    <2> QED BY <2>1, <2>2, Zenon DEF IInv, WinnerInv
<1>3. bk[b] = ret[r][b]
    BY <1>2, Zenon DEF IInv, WinnerInv
<1>4. /\ UNCHANGED <<pr, past, pc, orig, ret, prq, swapped, cons, log, stop, bad>>
      /\ bk' = [bk EXCEPT ![b] = Target[r]]
      /\ posted' = [posted EXCEPT ![r] = @ \ {b}]
    BY <1>3, Zenon DEF CasRest
<1>5. \A s \in Req \ {r} : LocalUnchanged(s)
    BY <1>1, <1>4, Zenon DEF TypeOK, LocalUnchanged
<1>6. /\ posted'[r] = posted[r] \ {b} /\ bk'[b] = Target[r]
      /\ \A c \in Backups \ {b} : bk'[c] = bk[c]
      /\ Target[r] \notin past /\ Target[r] # pr
      /\ \A s \in Req : Won(s)' <=> Won(s)
    BY <1>1, <1>2, <1>4, Zenon DEF TypeOK, Won, Value
<1>7. Control(r)' /\ Commit(r)'
    <2>1. Control(r)'
        BY <1>1, <1>2, <1>4, <1>6, Zenon DEF Control, Won
    <2>2. Commit(r)'
        BY <1>1, <1>4, Zenon DEF Commit, Won, log_is_committed
    <2> QED BY <2>1, <2>2
<1>8. ValueInv'
    <2>1. Value(r)'
        BY <1>1, <1>2, <1>4, <1>6, Zenon DEF Value, Took
    <2>2. ASSUME NEW s \in Req \ {r} PROVE Value(s)'
        <3>1. Value(s) /\ LocalUnchanged(s) /\ Target[s] # Target[r]
            BY <1>5 DEF IInv, ValueInv, NoReuse
        <3> QED BY <1>4, <1>6, <3>1, Zenon DEF Value, LocalUnchanged, Took, Won
    <2> QED BY <1>1, <1>4, <2>1, <2>2, Zenon DEF ValueInv
<1>9. Agreement'
    <2>1. UntouchedInv' /\ BackupsNeverLag' /\ RestCasSucceeds' /\ AtMostOneWinner'
        BY <1>4, <1>6 DEF IInv, UntouchedInv, BackupsNeverLag, RestCasSucceeds, AtMostOneWinner
    <2>2. LeftInv'
        <3>1. CurrentWinner(r)'
            BY <1>2, <1>4, <1>6, Zenon DEF CurrentWinner
        <3> QED BY <1>4, <1>6, <3>1 DEF IInv, LeftInv, Left, Took, CurrentWinner
    <2>3. WitnessInv'
        BY <1>4, <1>6 DEF IInv, WitnessInv, Took, CurrentWinner
    <2>4. \A s \in Req : /\ TookMajority(s)' = TookMajority(s)
                         /\ Undecided(s)' = Undecided(s) /\ Smallest(s)' = Smallest(s)
        BY <1>4, RoundFrame, Zenon
    <2>5. WinnerInv'
        <3>1. \A w \in Req : Won(w) /\ ~swapped[w] => w = r
            BY <1>2, Zenon DEF IInv, WinnerInv, AtMostOneWinner
        <3> QED BY <1>2, <1>4, <1>6, <2>4, <3>1 DEF IInv, WinnerInv
    <2>6. CandidateInv'
        BY <1>4, <2>4, Zenon DEF IInv, CandidateInv
    <2> QED BY <2>1, <2>2, <2>3, <2>5, <2>6 DEF Agreement
<1> QED BY <1>5, <1>7, <1>8, <1>9, Assemble

(* The primary CAS: it succeeds exactly for a winner, ends the version, and *)
(* leaves every rival of that version unable to win.                       *)
LEMMA CasPrimaryPreserves ==
    ASSUME NoReuse, Backups # {}, IInv, TypeOK', NEW r \in Req, CasPrimary(r)
    PROVE  IInv'
<1>1. TypeOK /\ Control(r) /\ Commit(r) /\ Value(r) /\ pr \in past
    BY DEF IInv, ControlInv, CommitInv, ValueInv
<1>2. /\ UNCHANGED <<bk, pc, orig, ret, posted, cons, log, stop, bad>>
      /\ pc[r] = "prq" /\ "cas" \in prq[r]
      /\ prq' = [prq EXCEPT ![r] = @ \ {"cas"}]
    BY Zenon DEF CasPrimary
<1>3. /\ prq'[r] = prq[r] \ {"cas"} /\ ~swapped[r] /\ Target[r] \notin past
      /\ cons[r] \in {"WIN_ALL", "FINISH"}
    BY <1>1, <1>2, Zenon DEF TypeOK, Control, Value
<1>4. CASE pr # orig[r] /\ UNCHANGED <<pr, past, swapped>>
    <2>1. \A s \in Req \ {r} : LocalUnchanged(s)
        BY <1>1, <1>2, <1>4, Zenon DEF TypeOK, LocalUnchanged
    <2>2. ~Won(r)
        BY <1>3, <1>4, Zenon DEF IInv, WinnerInv
    <2>3. Control(r)'
        BY <1>1, <1>2, <1>3, <1>4, <2>2, Zenon DEF Control, Won
    <2>4. Commit(r)'
        BY <1>1, <1>2, <1>4, Zenon DEF Commit, Won, log_is_committed
    <2>5. Value(r)'
        BY <1>1, <1>2, <1>4, Zenon DEF Value, Won, Took
    <2> QED BY <1>2, <1>4, <2>1, <2>3, <2>4, <2>5, QuietAssemble, Zenon DEF Won
<1>5. CASE /\ pr = orig[r] /\ pr' = Target[r] /\ past' = past \cup {Target[r]}
           /\ swapped' = [swapped EXCEPT ![r] = TRUE]
    <2>1. Won(r) /\ posted[r] = {} /\ \A b \in Backups : bk[b] = Target[r]
        <3>1. Won(r)
            BY <1>1, <1>3, <1>5, Zenon DEF Value, Won, Wins
        <3>2. posted[r] = {}
            BY <1>1, <1>2, <3>1, Zenon DEF Control
        <3> QED BY <1>3, <3>1, <3>2, Zenon DEF IInv, WinnerInv
    <2>2. \A s \in Req \ {r} : LocalUnchanged(s)
        BY <1>1, <1>2, <1>5, Zenon DEF TypeOK, LocalUnchanged
    <2>3. /\ swapped'[r] = TRUE /\ \A s \in Req \ {r} : swapped'[s] = swapped[s]
          /\ \A s \in Req : Won(s)' <=> Won(s)
        BY <1>1, <1>2, <1>5, Zenon DEF TypeOK, Won
    <2>4. \A s \in Req, b \in Backups : ret[s][b] # None => orig[s] # Target[r]
        BY <1>3, Zenon DEF IInv, ValueInv, Value
    <2>5. Control(r)' /\ Commit(r)'
        <3>1. Control(r)'
            BY <1>1, <1>2, <1>3, <2>1, <2>3, Zenon DEF Control, Won
        <3>2. Commit(r)'
            BY <1>1, <1>2, <2>1, Zenon DEF Commit, Won, log_is_committed
        <3> QED BY <3>1, <3>2
    <2>6. \A s \in Req : Value(s)'
        <3>1. \A s \in Req : cons[s] # "NON" => orig[s] \in past
            BY DEF IInv, ControlInv, Control, ValueInv, Value
        <3>2. ASSUME NEW s \in Req PROVE Value(s)'
            <4>1. Value(s) /\ Control(s) /\ (s # r => Target[s] # Target[r])
                BY DEF IInv, ValueInv, ControlInv, NoReuse
            <4>2. swapped[s] => cons[s] # "NON"
                BY <4>1, Zenon DEF Control, Won, Wins
            <4>3. cons[s] # "NON" => orig[s] # pr'
                BY <1>3, <1>5, <3>1, Zenon
            <4>4. Won(r) => cons[r] # "NON"
                BY DEF Won, Wins
            <4> QED BY <1>2, <1>5, <2>1, <2>3, <4>1, <4>2, <4>3, <4>4, Zenon DEF Value, Took, Won
        <3> QED BY <3>2, Zenon
    <2>7. ValueInv'
        BY <1>5, <2>6 DEF ValueInv
    <2>8. UntouchedInv' /\ LeftInv' /\ WitnessInv'
        <3>1. \A s \in Req, b \in Backups : orig[s] = pr' => ret[s][b] = None
            BY <1>5, <2>4, Zenon
        <3> QED BY <1>2, <3>1, Zenon DEF UntouchedInv, LeftInv, WitnessInv
    <2>9. BackupsNeverLag' /\ RestCasSucceeds' /\ AtMostOneWinner'
        BY <1>2, <1>5, <2>1, <2>3, Zenon DEF IInv, BackupsNeverLag, RestCasSucceeds, AtMostOneWinner
    <2>10. \A s \in Req : /\ TookMajority(s)' = TookMajority(s)
                          /\ Undecided(s)' = Undecided(s) /\ Smallest(s)' = Smallest(s)
        BY <1>2, RoundFrame, Zenon
    <2>11. \A w \in Req : CurrentWinner(w) => w = r
        BY <1>5, <2>1, Zenon DEF IInv, AtMostOneWinner, CurrentWinner
    <2>12. WinnerInv'
        <3>1. \A w \in Req : Won(w) => swapped'[w]
            BY <1>5, <2>1, <2>3, <2>11, Zenon DEF IInv, WinnerInv, CurrentWinner
        <3> QED BY <2>3, <2>10, <3>1, Zenon DEF IInv, WinnerInv
    <2>13. CandidateInv'
        <3>1. ASSUME NEW s \in Req, pc[s] = "bk0", orig[s] = pr, TookMajority(s) PROVE FALSE
            <4>1. s # r /\ orig[r] = pr
                BY <1>2, <1>5, <3>1, Zenon
            <4>2. \A b \in Backups : ret[r][b] # None
                BY <2>1, Zenon DEF IInv, ControlInv, Control, Won, Wins
            <4>3. \A b \in Backups : Took(s, b) => ret[r][b] = Target[s]
                BY <2>11, <3>1, <4>1, <4>2, Zenon DEF IInv, WitnessInv
            <4>4. Target[s] # pr
                <5>1. Value(s) /\ Control(s)
                    BY DEF IInv, ValueInv, ControlInv
                <5> QED BY <1>1, <3>1, <5>1, Zenon DEF Value, Control
            <4>5. \A b \in Backups : Took(s, b) => ~Took(r, b) /\ Vote(r, b) = Target[s]
                BY <4>1, <4>3, <4>4, Zenon DEF Took, Vote, NoReuse
            <4>6. TookSet(s) \in SUBSET Backups /\ TookSet(r) \in SUBSET Backups
                  /\ TookSet(s) \cap TookSet(r) = {}
                BY <4>5 DEF TookSet
            <4>7. ~TookMajority(r)
                BY <3>1, <4>6, Zenon DEF IInv, MajoritiesMeet, TookMajority
            <4>8. Majority(r, Target[s])
                <5>1. /\ TookSet(s) \subseteq {b \in Backups : Vote(r, b) = Target[s]}
                      /\ {b \in Backups : Vote(r, b) = Target[s]} \in SUBSET Backups
                    BY <4>5 DEF TookSet
                <5> QED BY <3>1, <4>6, <5>1, Zenon DEF IInv, MajoritiesMeet, TookMajority, Majority, Votes
            <4>9. ~Undecided(r)
                BY <4>8, RequestTypes DEF Undecided
            <4> QED BY <2>1, <4>7, <4>9, Zenon DEF IInv, WinnerInv
        <3> QED BY <1>2, <2>10, <3>1, Zenon DEF IInv, CandidateInv
    <2> QED BY <2>2, <2>5, <2>7, <2>8, <2>9, <2>12, <2>13, Assemble, Zenon DEF Agreement
<1> QED BY <1>4, <1>5, Zenon DEF CasPrimary

-----------------------------------------------------------------------------
(* The invariant and what it implies. *)

(* Majorities of a finite set of backups grow, meet and are not empty. *)
LEMMA Majorities == MajoritiesMeet
<1>0. IsFiniteSet(Backups) /\ Cardinality(Backups) \in Nat
    BY ConstantsOK, FS_CardinalityType
<1>1. ASSUME NEW S \in SUBSET Backups, NEW T \in SUBSET Backups,
             2 * Cardinality(S) > Cardinality(Backups)
      PROVE  /\ S \subseteq T => 2 * Cardinality(T) > Cardinality(Backups)
             /\ S \cap T = {} => ~(2 * Cardinality(T) > Cardinality(Backups))
             /\ S # {}
    <2>1. /\ IsFiniteSet(S) /\ IsFiniteSet(T) /\ IsFiniteSet(S \cup T)
          /\ Cardinality(S \cup T) =< Cardinality(Backups)
        <3>1. S \cup T \in SUBSET Backups
            OBVIOUS
        <3> QED BY <1>0, <3>1, FS_Subset
    <2>2. /\ Cardinality(S) \in Nat /\ Cardinality(T) \in Nat
          /\ Cardinality(S \cup T) \in Nat
        BY <2>1, FS_CardinalityType
    <2>3. ASSUME S \subseteq T PROVE 2 * Cardinality(T) > Cardinality(Backups)
        <3>1. Cardinality(S) =< Cardinality(T)
            BY <2>1, <2>3, FS_Subset
        <3> QED BY <1>0, <1>1, <2>2, <3>1
    <2>4. ASSUME S \cap T = {} PROVE ~(2 * Cardinality(T) > Cardinality(Backups))
        <3>1. Cardinality(S \cup T) = Cardinality(S) + Cardinality(T)
            <4>1. Cardinality(S \cap T) = 0
                BY <2>4, FS_EmptySet
            <4>2. Cardinality(S \cup T) = Cardinality(S) + Cardinality(T) - Cardinality(S \cap T)
                BY <2>1, FS_Union
            <4> QED BY <2>2, <4>1, <4>2
        <3> QED BY <1>0, <1>1, <2>1, <2>2, <3>1
    <2>5. S # {}
        BY <1>0, <1>1, FS_EmptySet
    <2> QED BY <2>3, <2>4, <2>5
<1>2. Backups # {} => 2 * Cardinality(Backups) > Cardinality(Backups)
    BY <1>0, FS_EmptySet
<1> QED BY <1>1, <1>2 DEF MajoritiesMeet

LEMMA InitIInv == NoReuse /\ Init => IInv
<1> SUFFICES ASSUME NoReuse, Init PROVE IInv
    OBVIOUS
<1>1. TypeOK
    BY TypeInit
<1>2. /\ pr = InitSlot /\ past = {InitSlot} /\ bad = {}
      /\ \A b \in Backups : bk[b] = InitSlot
      /\ \A r \in Req : /\ pc[r] = "start" /\ cons[r] = "NON" /\ ~swapped[r] /\ prq[r] = {}
                        /\ Target[r] # InitSlot
                        /\ \A b \in Backups : ret[r][b] = None
    BY Zenon DEF Init, NoReuse
<1>3. \A r \in Req : Target[r] # None
    BY RequestTypes, ValuesAreNat
<1>4. ControlInv /\ CommitInv
    BY <1>2, Zenon DEF ControlInv, Control, CommitInv, Commit, Won, Wins
<1>5. ValueInv
    BY <1>2, <1>3, Zenon DEF ValueInv, Value
<1>6. UntouchedInv /\ LeftInv /\ WitnessInv /\ CandidateInv /\ RestCasSucceeds
    BY <1>2 DEF UntouchedInv, LeftInv, WitnessInv, CandidateInv, RestCasSucceeds
<1>7. WinnerInv /\ AtMostOneWinner /\ BackupsNeverLag
    BY <1>2, Zenon DEF WinnerInv, AtMostOneWinner, BackupsNeverLag, Won, Wins
<1> QED BY <1>1, <1>4, <1>5, <1>6, <1>7, Majorities DEF IInv

LEMMA StepIInv == NoReuse /\ Backups # {} /\ IInv /\ [Next]_vars => IInv'
<1> SUFFICES ASSUME NoReuse, Backups # {}, IInv, [Next]_vars PROVE IInv'
    OBVIOUS
<1>0. TypeOK'
    BY TypeStep DEF IInv
<1>1. CASE UNCHANGED vars \/ Finished
    <2>1. UNCHANGED vars
        BY <1>1 DEF Finished
    <2>2. UNCHANGED <<pr, bk, past, pc, orig, ret, posted, prq, swapped, cons, log, stop, bad>>
        BY <2>1 DEF vars, mem, ctx
    <2>3. \A s \in Req : LocalUnchanged(s)
        BY <2>2 DEF LocalUnchanged
    <2>4. ControlInv' /\ CommitInv' /\ ValueInv'
        BY <2>2, <2>3, LocalFrame, ValueFrame, Zenon DEF IInv, ControlInv, CommitInv, ValueInv
    <2>5. Agreement'
        BY <2>2, QuietStep, Zenon DEF Won
    <2> QED BY <1>0, <2>4, <2>5 DEF IInv, Agreement
<1>2. ASSUME NEW r \in Req, Step(r) \/ Stop(r) PROVE IInv'
    BY <1>0, <1>2, ReadPreserves, PostPreserves, CasBackupPreserves, ConsensusPreserves,
       TieBreakPreserves, CasRestPreserves, EndRestPreserves, WaitPreserves, CommitPreserves,
       PostPrimaryPreserves, CasPrimaryPreserves, InvalidPreserves, PrimaryPreserves,
       StopPreserves, Zenon DEF Step
<1> QED BY <1>1, <1>2 DEF Next

(* The inductive invariant holds on every replicated index whose workload  *)
(* installs no slot value twice.                                           *)
THEOREM InductiveInvariant ==
    ASSUME NoReuse, Backups # {}
    PROVE  Spec => []IInv
BY InitIInv, StepIInv, PTL DEF Spec

(* check_cas_consensus_0: of the requests that saw the same slot value at  *)
(* most one wins, for any number of clients and backups.                   *)
THEOREM OneWinner ==
    ASSUME NoReuse, Backups # {}
    PROVE  Spec => []AtMostOneWinner
<1>1. IInv => AtMostOneWinner
    BY DEF IInv
<1> QED BY <1>1, InductiveInvariant, PTL

(* modify_primary_idx: a winner CASes the primary only after every backup  *)
(* holds its value, and finds the primary as it saw it.                    *)
THEOREM BackupsFirst ==
    ASSUME NoReuse, Backups # {}
    PROVE  Spec => []BackupsAgreeBeforePrimary
<1>1. IInv => BackupsAgreeBeforePrimary
    <2> SUFFICES ASSUME IInv, NEW r \in Req, Won(r),
                        pc[r] \in {"commit", "pr"} \/ (pc[r] = "prq" /\ "cas" \in prq[r])
                 PROVE  pr = orig[r] /\ \A b \in Backups : bk[b] = Target[r]
        BY Zenon DEF BackupsAgreeBeforePrimary
    <2>1. Control(r)
        BY DEF IInv, ControlInv
    <2>2. ~swapped[r] /\ posted[r] = {}
        BY <2>1, Zenon DEF Control
    <2> QED BY <2>2, Zenon DEF IInv, WinnerInv
<1> QED BY <1>1, InductiveInvariant, PTL

(* check_cas_consensus_1 never finds a backup changed under a winner.      *)
THEOREM RoundOneSucceeds ==
    ASSUME NoReuse, Backups # {}
    PROVE  Spec => []RestCasSucceeds
<1>1. IInv => RestCasSucceeds
    BY DEF IInv
<1> QED BY <1>1, InductiveInvariant, PTL

(* No backup ever holds a value older than the primary's.                  *)
THEOREM NoLag ==
    ASSUME NoReuse, Backups # {}
    PROVE  Spec => []BackupsNeverLag
<1>1. IInv => BackupsNeverLag
    BY DEF IInv
<1> QED BY <1>1, InductiveInvariant, PTL

(* A winner that is not stopped has swapped the primary when it returns.   *)
THEOREM WinnersSwap ==
    ASSUME NoReuse, Backups # {}
    PROVE  Spec => []WinnerSwapsPrimary
<1>1. IInv => WinnerSwapsPrimary
    BY Zenon DEF IInv, ControlInv, Control, WinnerSwapsPrimary
<1> QED BY <1>1, InductiveInvariant, PTL

(* The "cannot have happened!" exit of modify_primary_idx is unreachable   *)
(* as long as every DELETE goes through kv_delete_sync.                    *)
THEOREM NoExit ==
    ASSUME NoReuse, Backups # {}, \A r \in Req : Kind[r] = "DELETE" => r \in SyncReq
    PROVE  Spec => []NeverExit
<1>1. IInv => NeverExit
    BY Zenon DEF IInv, ControlInv, Control, NeverExit, Async, Won, Wins
<1> QED BY <1>1, InductiveInvariant, PTL

(* A loser that polls the primary returns only after the overwrite.        *)
THEOREM LosersWait ==
    ASSUME NoReuse, Backups # {}
    PROVE  Spec => []LoserReturnsAfterOverwrite
<1>1. IInv => LoserReturnsAfterOverwrite
    BY Zenon DEF IInv, ValueInv, Value, LoserReturnsAfterOverwrite
<1> QED BY <1>1, InductiveInvariant, PTL

(* An UPDATE is committed in its log before the primary shows it.          *)
THEOREM CommitFirst ==
    ASSUME NoReuse, Backups # {}
    PROVE  Spec => []CommittedBeforePrimary
<1>1. IInv => CommittedBeforePrimary
    BY DEF IInv, CommitInv, Commit, CommittedBeforePrimary
<1> QED BY <1>1, InductiveInvariant, PTL

(* The primary moves only to a value every backup holds: the CAS of a      *)
(* DELETE that came too late (FINISH) never takes effect.                  *)
THEOREM BackupsShowFirst ==
    ASSUME NoReuse, Backups # {}
    PROVE  Spec => PrimaryFollowsBackups
<1>1. IInv /\ [Next]_vars => [pr' # pr => \A b \in Backups : bk[b] = pr']_vars
    <2> SUFFICES ASSUME IInv, Next, pr' # pr, NEW b \in Backups PROVE bk[b] = pr'
        BY DEF vars, mem
    <2>1. ASSUME NEW r \in Req, Step(r) \/ Stop(r) PROVE bk[b] = pr'
        <3>1. CasPrimary(r)
            BY <2>1, Zenon DEF Step, Stop, mem, CasPrimary, kv_insert_read_buckets_and_write_kv,
                kv_update_read_buckets_and_write_kv, kv_delete_read_buckets_write_log,
                kv_insert_backup_consensus_0, kv_update_backup_consensus_0,
                kv_delete_backup_consensus_0, CasBackup, modify_backup_idx_consensus_1,
                ReadPrimary, CasRest, EndRest, WaitPrimary, kv_log_commit, PostPrimary,
                WriteInvalid, modify_primary_idx
        <3>2. pr = orig[r] /\ pr' = Target[r] /\ pc[r] = "prq" /\ "cas" \in prq[r]
            BY <3>1, Zenon DEF CasPrimary
        <3>3. Control(r) /\ Value(r)
            BY DEF IInv, ControlInv, ValueInv
        <3>4. Won(r) /\ ~swapped[r] /\ posted[r] = {}
            BY <3>2, <3>3, Zenon DEF Control, Value, Won, Wins
        <3> QED BY <3>2, <3>4, Zenon DEF IInv, WinnerInv
    <2> QED BY <2>1 DEF Next, Finished, vars, mem
<1>2. Spec => []IInv
    BY InductiveInvariant
<1> QED BY <1>1, <1>2, PTL DEF Spec, PrimaryFollowsBackups

(* Each version of the slot is replaced at most once.                      *)
THEOREM ReplacedOnce ==
    ASSUME NoReuse, Backups # {}
    PROVE  Spec => []OneReplacesEachVersion
<1>1. IInv => OneReplacesEachVersion
    BY Zenon DEF IInv, ControlInv, Control, AtMostOneWinner, OneReplacesEachVersion
<1> QED BY <1>1, InductiveInvariant, PTL

-----------------------------------------------------------------------------
(* The refinement: the initial states map to initial states of the         *)
(* register and every step to a step or a stutter.                         *)

(* In a workload of one key a slot value holds that key unless it is 0. *)
LEMMA HoldsKeyPlain ==
    ASSUME PlainWorkload, NEW r \in Req, NEW v \in Values \cup {0}
    PROVE  HoldsKey(v, Key[r]) <=> v # 0
<1>1. \A s \in Req : Key[s] = InitKey /\ (Kind[s] = "DELETE" => Target[s] = 0)
    BY ConstantsOK DEF PlainWorkload
<1> QED BY <1>1 DEF HoldsKey, Values

(* A step of one request leaves the others where they are. *)
LEMMA OthersRest ==
    ASSUME TypeOK, NEW r \in Req, Step(r) \/ Stop(r), NEW s \in Req \ {r}
    PROVE  pc'[s] = pc[s] /\ orig'[s] = orig[s] /\ cons'[s] = cons[s] /\ rc'[s] = rc[s]
<1>0. /\ pc \in [Req -> PCs] /\ cons \in [Req -> ConsensusStates]
      /\ rc \in [Req -> ReturnCodes] /\ orig \in [Req -> Values \cup {0}]
    BY Zenon DEF TypeOK, ReturnCodes
<1>1. CASE \/ kv_insert_read_buckets_and_write_kv(r)
           \/ kv_update_read_buckets_and_write_kv(r)
           \/ kv_delete_read_buckets_write_log(r)
    BY <1>0, <1>1, Zenon DEF kv_insert_read_buckets_and_write_kv,
       kv_update_read_buckets_and_write_kv, kv_delete_read_buckets_write_log, Return, Goto
<1>2. CASE \/ kv_insert_backup_consensus_0(r)
           \/ kv_update_backup_consensus_0(r)
           \/ kv_delete_backup_consensus_0(r)
    BY <1>0, <1>2, Zenon DEF kv_insert_backup_consensus_0, kv_update_backup_consensus_0,
       kv_delete_backup_consensus_0, PostBackups, Return, Goto
<1>3. ASSUME NEW st, Decide(r, st), UNCHANGED orig
      PROVE  pc'[s] = pc[s] /\ orig'[s] = orig[s] /\ cons'[s] = cons[s] /\ rc'[s] = rc[s]
    BY <1>0, <1>3, Zenon DEF Decide, Lose, Goto
<1>4. CASE modify_backup_idx_consensus_1(r) \/ ReadPrimary(r)
    BY <1>0, <1>3, <1>4, Zenon DEF modify_backup_idx_consensus_1, ReadPrimary, Goto
<1>5. CASE (\E b \in Backups : CasBackup(r, b) \/ CasRest(r, b)) \/ WriteInvalid(r) \/ CasPrimary(r)
    BY <1>5, Zenon DEF CasBackup, CasRest, WriteInvalid, CasPrimary
<1>6. CASE EndRest(r) \/ WaitPrimary(r)
    BY <1>0, <1>6, Zenon DEF EndRest, WaitPrimary, Goto, Lose
<1>7. CASE kv_log_commit(r) \/ PostPrimary(r)
    BY <1>0, <1>7, Zenon DEF kv_log_commit, PostPrimary, Goto, Return
<1>8. CASE modify_primary_idx(r) \/ Stop(r)
    BY <1>0, <1>8, Zenon DEF modify_primary_idx, Stop, ctx, Goto, Return
<1> QED BY <1>1, <1>2, <1>4, <1>5, <1>6, <1>7, <1>8, Zenon DEF Step

(* PlainInv is preserved: only Lose leaves a loser short of its return. *)
LEMMA StepPlainInv ==
    ASSUME PlainWorkload, IInv, PlainInv, [Next]_vars
    PROVE  PlainInv'
<1>0. /\ TypeOK /\ stop = {} /\ StopReq = {}
      /\ pc \in [Req -> PCs] /\ cons \in [Req -> ConsensusStates]
      /\ rc \in [Req -> ReturnCodes]
    BY Zenon DEF IInv, TypeOK, PlainInv, ReturnCodes, PlainWorkload
<1>1. stop' = {}
    BY <1>0 DEF Next, Step, Stop, Finished, vars, CasPrimary,
       kv_insert_read_buckets_and_write_kv,
       kv_update_read_buckets_and_write_kv, kv_delete_read_buckets_write_log,
       kv_insert_backup_consensus_0, kv_update_backup_consensus_0,
       kv_delete_backup_consensus_0, CasBackup, modify_backup_idx_consensus_1,
       ReadPrimary, CasRest, EndRest, WaitPrimary, kv_log_commit, PostPrimary,
       WriteInvalid, modify_primary_idx
<1> DEFINE Told(s) == pc[s] \in {"commit", "pr"} /\ cons[s] = "FAIL" => rc[s] = "SUCCESS"
<1>2. \A s \in Req : Told(s)
    BY DEF PlainInv
<1>3. CASE UNCHANGED vars \/ Finished
    BY <1>0, <1>1, <1>3, Zenon DEF vars, ctx, Finished, PlainInv
<1>4. ASSUME NEW r \in Req, Step(r) \/ Stop(r) PROVE Told(r)'
    <2>1. CASE \/ kv_insert_read_buckets_and_write_kv(r)
               \/ kv_update_read_buckets_and_write_kv(r)
               \/ kv_delete_read_buckets_write_log(r)
        BY <1>0, <2>1, Zenon DEF kv_insert_read_buckets_and_write_kv,
           kv_update_read_buckets_and_write_kv, kv_delete_read_buckets_write_log, Return, Goto
    <2>2. CASE \/ kv_insert_backup_consensus_0(r)
               \/ kv_update_backup_consensus_0(r)
               \/ kv_delete_backup_consensus_0(r)
        BY <1>0, <2>2, Zenon DEF kv_insert_backup_consensus_0, kv_update_backup_consensus_0,
           kv_delete_backup_consensus_0, PostBackups, Return, Goto
    <2>3. ASSUME NEW st, Decide(r, st) PROVE Told(r)'
        <3>1. cons'[r] = st /\ (st = "FAIL" => pc'[r] = "wait")
            BY <1>0, <2>3, Zenon DEF Decide, Lose, Goto
        <3> QED BY <3>1
    <2>4. CASE modify_backup_idx_consensus_1(r) \/ ReadPrimary(r)
        BY <1>0, <2>3, <2>4, Zenon DEF modify_backup_idx_consensus_1, ReadPrimary, Goto
    <2>5. CASE (\E b \in Backups : CasBackup(r, b) \/ CasRest(r, b)) \/ WriteInvalid(r) \/ CasPrimary(r)
        BY <1>2, <2>5, Zenon DEF CasBackup, CasRest, WriteInvalid, CasPrimary
    <2>6. CASE EndRest(r) \/ WaitPrimary(r)
        BY <1>0, <2>6, Zenon DEF EndRest, WaitPrimary, Goto, Lose
    <2>7. CASE kv_log_commit(r) \/ PostPrimary(r)
        BY <1>0, <1>2, <2>7, Zenon DEF kv_log_commit, PostPrimary, Goto, Return
    <2>8. CASE modify_primary_idx(r) \/ Stop(r)
        BY <1>0, <1>2, <2>8, Zenon DEF modify_primary_idx, Stop, ctx, Goto, Return
    <2> QED BY <1>4, <2>1, <2>2, <2>4, <2>5, <2>6, <2>7, <2>8, Zenon DEF Step
<1>5. ASSUME NEW r \in Req, Step(r) \/ Stop(r) PROVE PlainInv'
    <2>1. \A s \in Req : Told(s)'
        BY <1>0, <1>2, <1>4, <1>5, OthersRest
    <2> QED BY <1>1, <2>1 DEF PlainInv
<1> QED BY <1>3, <1>5 DEF Next

(* A step of r that leaves the primary alone changes only r's image. *)
LEMMA ImageOf ==
    ASSUME TypeOK, NEW r \in Req, Step(r) \/ Stop(r), pr' = pr
    PROVE  /\ stBar' = [stBar EXCEPT ![r] = Outcome(r)']
           /\ resBar' = [resBar EXCEPT ![r] = Result(r)']
           /\ stBar[r] = Outcome(r) /\ resBar[r] = Result(r)
<1>1. \A s \in Req \ {r} : Outcome(s)' = Outcome(s) /\ Result(s)' = Result(s)
    BY OthersRest DEF Outcome, Result, Missing
<1> QED BY <1>1, Zenon DEF stBar, resBar

(* A step that changes neither the primary nor r's image is a stutter. *)
LEMMA Stutter ==
    ASSUME TypeOK, NEW r \in Req, Step(r) \/ Stop(r), pr' = pr,
           Outcome(r)' = Outcome(r), Result(r)' = Result(r)
    PROVE  UNCHANGED Register!regVars
<1>1. /\ stBar' = [stBar EXCEPT ![r] = Outcome(r)'] /\ stBar[r] = Outcome(r)
      /\ resBar' = [resBar EXCEPT ![r] = Result(r)'] /\ resBar[r] = Result(r)
    BY ImageOf, Zenon
<1>2. stBar' = stBar /\ resBar' = resBar
    BY <1>1, Zenon DEF stBar, resBar
<1> QED BY <1>2 DEF Register!regVars

(* A step that ends r's call with code c is a Finish of the register. *)
LEMMA Returns ==
    ASSUME TypeOK, NEW r \in Req, Step(r), pr' = pr, NEW c, Return(r, c)
    PROVE  Register!Finish(r, Outcome(r), c)
<1>1. /\ stBar' = [stBar EXCEPT ![r] = Outcome(r)'] /\ stBar[r] = Outcome(r)
      /\ resBar' = [resBar EXCEPT ![r] = Result(r)']
    BY ImageOf
<1>2. pc'[r] = "done" /\ rc'[r] = c
    BY Zenon DEF TypeOK, Return, Goto
<1>3. Outcome(r)' = "returned" /\ Result(r)' = c
    BY <1>2 DEF Outcome, Result
<1> QED BY <1>1, <1>3 DEF Register!Finish

(* Phase 1 opens the request, misses, or runs out of memory. *)
LEMMA ReadMaps ==
    ASSUME PlainWorkload, TypeOK, NEW r \in Req, Step(r),
           \/ kv_insert_read_buckets_and_write_kv(r)
           \/ kv_update_read_buckets_and_write_kv(r)
           \/ kv_delete_read_buckets_write_log(r)
    PROVE  Register!RegNext
<1>0. /\ pr' = pr /\ pc[r] = "start" /\ Outcome(r) = "idle"
      /\ pc \in [Req -> PCs] /\ orig \in [Req -> Values \cup {0}]
    BY Zenon DEF kv_insert_read_buckets_and_write_kv, kv_update_read_buckets_and_write_kv,
       kv_delete_read_buckets_write_log, Outcome, TypeOK
<1>1. \/ Kind[r] # "DELETE" /\ Return(r, "FAIL_RETURN")
      \/ Goto(r, "match") /\ orig' = [orig EXCEPT ![r] = pr]
    BY Zenon DEF kv_insert_read_buckets_and_write_kv, kv_update_read_buckets_and_write_kv,
       kv_delete_read_buckets_write_log, FoundSlot, PlainWorkload
<1>2. CASE Kind[r] # "DELETE" /\ Return(r, "FAIL_RETURN")
    <2>1. Register!Finish(r, "idle", "FAIL_RETURN")
        BY <1>0, <1>2, Returns
    <2> QED BY <1>2, <2>1 DEF Register!RegNext
<1>3. CASE Goto(r, "match") /\ orig' = [orig EXCEPT ![r] = pr]
    <2>1. pc'[r] = "match" /\ orig'[r] = pr
        BY <1>0, <1>3 DEF Goto
    <2>2. Outcome(r)' = IF Register!Applicable(r, pr) THEN "open" ELSE "missed"
        BY <1>0, <2>1, Zenon DEF Outcome, Missing, Register!Applicable
    <2>3. Result(r)' = Result(r)
        BY <1>0, <2>1 DEF Result
    <2>4. /\ stBar' = [stBar EXCEPT ![r] = Outcome(r)'] /\ stBar[r] = "idle"
          /\ resBar' = [resBar EXCEPT ![r] = Result(r)'] /\ resBar[r] = Result(r)
        BY <1>0, ImageOf, Zenon
    <2>5. resBar' = resBar
        BY <2>3, <2>4, Zenon DEF resBar
    <2>6. Register!Open(r) \/ Register!Miss(r)
        BY <1>0, <2>2, <2>4, <2>5, Zenon DEF Register!Open, Register!Miss
    <2> QED BY <2>6 DEF Register!RegNext
<1> QED BY <1>1, <1>2, <1>3

(* The match either returns a missed request or goes on with an open one. *)
LEMMA MatchMaps ==
    ASSUME PlainWorkload, TypeOK, PlainInv, Backups # {}, NEW r \in Req, Step(r),
           \/ kv_insert_backup_consensus_0(r)
           \/ kv_update_backup_consensus_0(r)
           \/ kv_delete_backup_consensus_0(r)
    PROVE  Register!RegNext \/ UNCHANGED Register!regVars
<1>0. /\ pr' = pr /\ orig' = orig /\ pc[r] = "match"
      /\ pc \in [Req -> PCs] /\ orig[r] \in Values \cup {0}
      /\ Kind[r] \in {"INSERT", "UPDATE", "DELETE"}
    BY RequestTypes, Zenon DEF kv_insert_backup_consensus_0, kv_update_backup_consensus_0,
       kv_delete_backup_consensus_0, mem, TypeOK, Ops
<1> DEFINE code == IF Kind[r] = "DELETE" THEN "SUCCESS" ELSE "FAIL_RETURN"
<1>1. HoldsKey(orig[r], Key[r]) <=> orig[r] # 0
    BY <1>0, HoldsKeyPlain
<1>2. (Missing(r) /\ Return(r, code)) \/ (~Missing(r) /\ Goto(r, "bk0"))
    BY <1>0, <1>1, Zenon DEF kv_insert_backup_consensus_0, kv_update_backup_consensus_0,
       kv_delete_backup_consensus_0, PostBackups, Missing, PlainInv
<1>3. CASE Missing(r) /\ Return(r, code)
    <2>1. Outcome(r) = "missed"
        BY <1>0, <1>3, Zenon DEF Outcome
    <2>2. Register!Finish(r, "missed", code)
        BY <1>0, <1>3, <2>1, Returns, Zenon
    <2> QED BY <2>2 DEF Register!RegNext
<1>4. CASE ~Missing(r) /\ Goto(r, "bk0")
    <2>1. Outcome(r)' = Outcome(r) /\ Result(r)' = Result(r)
        BY <1>0, <1>4, Zenon DEF Outcome, Result, Goto
    <2> QED BY <1>0, <2>1, Stutter, Zenon
<1> QED BY <1>2, <1>3, <1>4

(* A step between two phases past the match is a stutter. *)
LEMMA Moves ==
    ASSUME TypeOK, NEW r \in Req, Step(r), pr' = pr, orig' = orig,
           pc[r] \notin {"start", "match", "done"},
           pc'[r] \notin {"start", "match", "done"}
    PROVE  UNCHANGED Register!regVars
<1>1. Outcome(r)' = Outcome(r) /\ Result(r)' = Result(r)
    BY Zenon DEF Outcome, Result
<1> QED BY <1>1, Stutter

(* A request past the match returns SUCCESS after the primary has moved. *)
LEMMA Applied ==
    ASSUME TypeOK, NEW r \in Req, Step(r), pr' = pr, orig[r] # pr,
           pc[r] \notin {"start", "match", "done"}, Return(r, "SUCCESS")
    PROVE  Register!RegNext
<1>1. Outcome(r) = "applied"
    BY DEF Outcome
<1>2. Register!Finish(r, "applied", "SUCCESS")
    BY <1>1, Returns
<1> QED BY <1>2 DEF Register!RegNext

(* Losing returns at once or stutters on the way to the primary. *)
LEMMA LoseMaps ==
    ASSUME TypeOK, NEW r \in Req, Step(r), Lose(r), pr' = pr, orig' = orig,
           orig[r] # pr, pc[r] \in {"bk0", "readpr", "wait"}
    PROVE  Register!RegNext \/ UNCHANGED Register!regVars
<1>0. pc \in [Req -> PCs] /\ AfterLoss(r) \in {"done", "pr", "commit"}
    BY Zenon DEF TypeOK, AfterLoss
<1>1. CASE AfterLoss(r) = "done"
    BY <1>1, Applied, Zenon DEF Lose, Return
<1>2. CASE AfterLoss(r) # "done"
    <2>1. pc'[r] \in {"pr", "commit"}
        BY <1>0, <1>2 DEF Lose, Goto
    <2> QED BY <2>1, Moves
<1> QED BY <1>1, <1>2

(* Past the match a request's old value is one the primary has held. *)
LEMMA SawPast ==
    ASSUME IInv, Backups # {}, NEW r \in Req, pc[r] \notin {"start", "done"},
           ~(pc[r] = "match" /\ Missing(r))
    PROVE  orig[r] \in past
<1>0. Control(r) /\ Value(r) /\ pc[r] \in PCs
    BY DEF IInv, ControlInv, ValueInv, TypeOK
<1>1. CASE pc[r] \in {"match", "bk0"}
    BY <1>0, <1>1, Zenon DEF Value, Missing
<1>2. CASE pc[r] \notin {"match", "bk0"}
    <2>1. pc[r] = "readpr" \/ cons[r] # "NON"
        BY <1>0, <1>2, Zenon DEF Control, PCs, Wins
    <2>2. \A b \in Backups : ret[r][b] # None
        BY <1>0, <2>1, Zenon DEF Control
    <2> QED BY <1>0, <2>2, Zenon DEF Value
<1> QED BY <1>1, <1>2

(* The primary CAS of the winner is the instant at which it and everybody  *)
(* who saw the same value take effect.                                     *)
LEMMA PrimaryMaps ==
    ASSUME IInv, Backups # {}, NEW r \in Req, Step(r), CasPrimary(r)
    PROVE  Register!RegNext \/ UNCHANGED Register!regVars
<1>0. /\ TypeOK /\ pc[r] = "prq" /\ pc' = pc /\ orig' = orig /\ rc' = rc
      /\ "cas" \in prq[r]
    BY Zenon DEF IInv, CasPrimary
<1>1. CASE pr' = pr
    BY <1>0, <1>1, Moves
<1>2. CASE pr' # pr
    <2>1. pr = orig[r] /\ pr' = Target[r]
        BY <1>2, Zenon DEF CasPrimary
    <2>2. Target[r] \notin past
        BY <1>0, Zenon DEF IInv, ControlInv, Control, ValueInv, Value
    <2> DEFINE W == {s \in Req \ {r} : stBar[s] = "open"}
    <2>3. ASSUME NEW s \in Req
          PROVE  /\ Outcome(s)' = IF Outcome(s) = "open" THEN "applied" ELSE Outcome(s)
                 /\ Result(s)' = Result(s)
        <3>1. CASE pc[s] \in {"start", "done"} \/ (pc[s] = "match" /\ Missing(s))
            BY <1>0, <3>1, Zenon DEF Outcome, Result, Missing
        <3>2. CASE pc[s] \notin {"start", "done"} /\ ~(pc[s] = "match" /\ Missing(s))
            <4>1. orig[s] # Target[r]
                BY <2>2, <3>2, SawPast
            <4> QED BY <1>0, <2>1, <3>2, <4>1, Zenon DEF Outcome, Result, Missing
        <3> QED BY <3>1, <3>2
    <2>4. stBar[r] = "open" /\ \A s \in Req : stBar[s] = Outcome(s)
        BY <1>0, <2>1, Zenon DEF stBar, Outcome
    <2>5. stBar' = [s \in Req |-> IF s = r \/ s \in W THEN "applied" ELSE stBar[s]]
        BY <2>3, <2>4 DEF stBar
    <2>6. resBar' = resBar
        BY <2>3 DEF resBar
    <2>7. Register!Write(r, W)
        BY <2>1, <2>4, <2>5, <2>6 DEF Register!Write
    <2> QED BY <2>7 DEF Register!RegNext
<1> QED BY <1>1, <1>2

(* Every step of a request maps to a step of the register or to a stutter. *)
LEMMA StepMaps ==
    ASSUME PlainWorkload, IInv, PlainInv, Backups # {}, NEW r \in Req, Step(r)
    PROVE  Register!RegNext \/ UNCHANGED Register!regVars
<1>0. /\ TypeOK /\ stop = {} /\ Async(r) /\ ~StopsEarly(r)
      /\ pc \in [Req -> PCs] /\ rc \in [Req -> ReturnCodes]
      /\ Control(r) /\ Value(r)
    BY Zenon DEF IInv, TypeOK, PlainInv, PlainWorkload, Async, StopsEarly, ReturnCodes,
       ControlInv, ValueInv
<1>1. CASE \/ kv_insert_read_buckets_and_write_kv(r)
           \/ kv_update_read_buckets_and_write_kv(r)
           \/ kv_delete_read_buckets_write_log(r)
    BY <1>0, <1>1, ReadMaps
<1>2. CASE \/ kv_insert_backup_consensus_0(r)
           \/ kv_update_backup_consensus_0(r)
           \/ kv_delete_backup_consensus_0(r)
    BY <1>0, <1>2, MatchMaps
<1>3. ASSUME NEW st, Decide(r, st), st = "FINISH" => orig[r] # pr,
             UNCHANGED <<pr, orig>>, pc[r] \in {"bk0", "readpr"}
      PROVE  Register!RegNext \/ UNCHANGED Register!regVars
    <2>1. CASE st = "FINISH"
        BY <1>0, <1>3, <2>1, LoseMaps, Zenon DEF Decide
    <2>2. CASE st # "FINISH"
        <3>1. pc'[r] \in {"commit", "bk1", "wait", "readpr"}
            BY <1>0, <1>3, <2>2, Zenon DEF Decide, Goto
        <3> QED BY <1>0, <1>3, <3>1, Moves, Zenon
    <2> QED BY <2>1, <2>2
<1>4. CASE modify_backup_idx_consensus_1(r)
    <2>1. check_cas_consensus_0(r) # "FINISH"
        BY DEF check_cas_consensus_0
    <2> QED BY <1>0, <1>3, <1>4, <2>1, Zenon DEF modify_backup_idx_consensus_1, mem
<1>5. CASE ReadPrimary(r)
    <2>1. BreakTie(r) = "FINISH" => orig[r] # pr
        BY DEF BreakTie
    <2> QED BY <1>3, <1>5, <2>1 DEF ReadPrimary, mem
<1>6. CASE \E b \in Backups : CasBackup(r, b) \/ CasRest(r, b)
    BY <1>0, <1>6, Moves, Zenon DEF CasBackup, CasRest
<1>7. CASE EndRest(r) \/ kv_log_commit(r)
    <2>1. pc'[r] \in {"commit", "pr"} /\ pr' = pr /\ orig' = orig
        BY <1>0, <1>7, Zenon DEF EndRest, kv_log_commit, Goto, mem
    <2> QED BY <1>0, <1>7, <2>1, Moves, Zenon DEF EndRest, kv_log_commit
<1>8. CASE WaitPrimary(r)
    BY <1>0, <1>8, LoseMaps, Zenon DEF WaitPrimary, mem
<1>9. CASE PostPrimary(r)
    <2>0. pc[r] = "pr" /\ pr' = pr /\ orig' = orig
        BY <1>9, Zenon DEF PostPrimary, mem
    <2>1. CASE cons[r] = "FAIL"
        <3>1. Kind[r] = "DELETE" /\ rc[r] = "SUCCESS" /\ orig[r] # pr
            BY <1>0, <2>0, <2>1, Zenon DEF Control, Value, PlainInv, Won, Wins
        <3>2. Return(r, "SUCCESS")
            BY <1>0, <1>9, <2>1, <3>1, Zenon DEF PostPrimary
        <3> QED BY <1>0, <2>0, <3>1, <3>2, Applied, Zenon
    <2>2. CASE cons[r] # "FAIL"
        <3>1. pc'[r] = "prq"
            BY <1>0, <1>9, <2>2, Zenon DEF PostPrimary, Goto
        <3> QED BY <1>0, <2>0, <3>1, Moves
    <2> QED BY <2>1, <2>2
<1>10. CASE CasPrimary(r)
    BY <1>10, PrimaryMaps
<1>11. CASE WriteInvalid(r)
    BY <1>0, <1>11, Moves, Zenon DEF WriteInvalid
<1>12. CASE modify_primary_idx(r)
    <2>0. pc[r] = "prq" /\ pr' = pr /\ orig' = orig
        BY <1>12, Zenon DEF modify_primary_idx, mem
    <2>1. CASE swapped[r]
        <3>1. orig[r] # pr /\ Return(r, "SUCCESS")
            BY <1>0, <1>12, <2>1, Zenon DEF modify_primary_idx, Value
        <3> QED BY <1>0, <2>0, <3>1, Applied
    <2>2. CASE ~swapped[r]
        <3>1. pc'[r] = "exit"
            BY <1>0, <1>12, <2>2, Zenon DEF modify_primary_idx, Goto
        <3> QED BY <1>0, <2>0, <3>1, Moves
    <2> QED BY <2>1, <2>2
<1> QED BY <1>1, <1>2, <1>4, <1>5, <1>6, <1>7, <1>8, <1>9, <1>10, <1>11, <1>12 DEF Step

(* The replicated slot of client.cc is an atomic register: asynchronous    *)
(* kv_insert, kv_update and kv_delete of one key take effect each at one   *)
(* instant of its execution and report success only if they did, for any   *)
(* number of requests and backups, as long as no slot value is reused.     *)
THEOREM Refinement ==
    ASSUME NoReuse, Backups # {}, PlainWorkload
    PROVE  Spec => ImplementsRegister
<1>1. Init => Register!RegInit
    BY DEF Init, Register!RegInit, stBar, resBar, Outcome, Result
<1>2. Init => PlainInv
    BY Zenon DEF Init, PlainInv
<1>3. IInv /\ PlainInv /\ [Next]_vars => PlainInv'
    BY StepPlainInv
<1>4. IInv /\ PlainInv /\ [Next]_vars => [Register!RegNext]_(Register!regVars)
    <2> SUFFICES ASSUME IInv, PlainInv, [Next]_vars
                 PROVE  Register!RegNext \/ UNCHANGED Register!regVars
        OBVIOUS
    <2>1. CASE UNCHANGED vars \/ Finished
        BY <2>1, Zenon DEF Finished, vars, mem, ctx, Register!regVars, stBar, resBar,
           Outcome, Result, Missing
    <2>2. ASSUME NEW r \in Req, Step(r) \/ Stop(r)
          PROVE  Register!RegNext \/ UNCHANGED Register!regVars
        BY <2>2, StepMaps DEF Stop, PlainWorkload
    <2> QED BY <2>1, <2>2 DEF Next
<1>5. Spec => []IInv
    BY InductiveInvariant
<1> QED BY <1>1, <1>2, <1>3, <1>4, <1>5, PTL DEF Spec, ImplementsRegister, Register!RegSpec

=============================================================================
