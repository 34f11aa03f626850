----------------------------- MODULE SnapshotInv ----------------------------
(***************************************************************************)
(* The inductive invariant behind the safety of the replication protocol,  *)
(* for workloads that install no slot value twice (NoReuse) on an index    *)
(* with backups.  The argument runs per version of the slot, a version     *)
(* being the value the primary holds:                                      *)
(*   - a backup is taken from the current version at most once, by the     *)
(*     request whose round-0 CAS succeeded there (Took);                   *)
(*   - later round-0 CASes on that backup return the taker's value, or the *)
(*     value of a winner that has already overwritten it (Witness);        *)
(*   - a winner took a majority, or saw no majority and has the smallest   *)
(*     value in sight: two requests cannot both be in that position.       *)
(***************************************************************************)
EXTENDS Snapshot

(* Request r's round-0 CAS on b succeeded. *)
Took(r, b) == ret[r][b] = orig[r]

TookSet(r) == {b \in Backups : Took(r, b)}

TookMajority(r) == 2 * Cardinality(TookSet(r)) > Cardinality(Backups)

(* Request r took a backup and sees no value with a majority. *)
Undecided(r) ==
    /\ TookSet(r) # {}
    /\ \A v \in Values : ~Majority(r, v)

(* What backup b held right after r's round-0 CAS. *)
Left(r, b) == IF Took(r, b) THEN Target[r] ELSE ret[r][b]

(* A constant fact the argument turns on: majorities of the backups grow,  *)
(* meet, and are not empty; all the backups are one.                       *)
MajoritiesMeet ==
    /\ \A S, T \in SUBSET Backups :
          2 * Cardinality(S) > Cardinality(Backups) =>
              /\ S \subseteq T => 2 * Cardinality(T) > Cardinality(Backups)
              /\ S \cap T = {} => ~(2 * Cardinality(T) > Cardinality(Backups))
              /\ S # {}
    /\ Backups # {} => 2 * Cardinality(Backups) > Cardinality(Backups)

CurrentWinner(w) == Won(w) /\ orig[w] = pr

(* Where a request may be for each outcome of the consensus. *)
Control(r) ==
    /\ pc[r] \in {"start", "match", "bk0", "readpr"} => cons[r] = "NON"
    /\ pc[r] \in {"start", "match"} => \A b \in Backups : ret[r][b] = None
    /\ pc[r] = "bk0" => \A b \in Backups : ret[r][b] = None <=> b \in posted[r]
    /\ pc[r] = "readpr" \/ cons[r] # "NON" => \A b \in Backups : ret[r][b] # None
    /\ pc[r] = "bk1" => cons[r] \in {"WIN_MAJOR", "WIN_LITTLE"}
    /\ pc[r] \in {"wait", "hang"} => cons[r] = "FAIL"
    /\ pc[r] \in {"commit", "pr"} => cons[r] \in {"WIN_ALL", "FAIL", "FINISH"}
    /\ pc[r] = "prq" => cons[r] \in {"WIN_ALL", "FINISH"}
    /\ Won(r) /\ pc[r] # "bk1" => posted[r] = {}
    /\ swapped[r] => Won(r) /\ pc[r] \in {"prq", "done"} /\ "cas" \notin prq[r]
    /\ prq[r] # {} => pc[r] = "prq"
    /\ pc[r] = "prq" /\ "cas" \notin prq[r] /\ Won(r) => swapped[r]
    /\ Won(r) /\ pc[r] \in {"done", "exit"} => swapped[r] \/ r \in stop
    /\ pc[r] \in {"commit", "pr", "prq", "exit"} /\ ~Won(r) /\ Async(r)
           => Kind[r] = "DELETE"
    /\ pc[r] = "exit" => Async(r) /\ cons[r] = "FINISH"

ControlInv == \A r \in Req : Control(r)

(* An UPDATE replaces a block, and names it in its log before it wins. *)
Commit(r) ==
    Kind[r] = "UPDATE" =>
        /\ pc[r] \in {"bk0", "readpr"} \/ cons[r] # "NON" => orig[r] # 0
        /\ Won(r) /\ pc[r] \in {"pr", "prq"} => log_is_committed(r)
        /\ swapped[r] => log_is_committed(r)

CommitInv == \A r \in Req : Commit(r)

(* Values: what is old, what is new, and who may have written it. *)
Value(r) ==
    /\ pc[r] = "match" /\ (orig[r] # 0 \/ Kind[r] = "INSERT") => orig[r] \in past
    /\ pc[r] = "bk0" => orig[r] \in past
    /\ \A b \in Backups : ret[r][b] # None => orig[r] \in past
    /\ Target[r] \in past <=> swapped[r]
    /\ swapped[r] => orig[r] # pr
    /\ cons[r] = "FINISH" => orig[r] # pr
    /\ cons[r] = "FAIL" /\ pc[r] # "wait" /\ Async(r) /\ r \notin stop
           => orig[r] # pr
    /\ \A b \in Backups : ret[r][b] # Target[r]
    /\ \A b \in Backups : bk[b] = Target[r] => Took(r, b) \/ Won(r)

ValueInv == pr \in past /\ \A r \in Req : Value(r)

(* An untouched backup has been tried by no request of this version. *)
UntouchedInv ==
    \A b \in Backups : bk[b] = pr =>
        \A r \in Req : orig[r] = pr => ret[r][b] = None

(* A backup keeps what a request left there until a winner overwrites it. *)
LeftInv ==
    \A r \in Req, b \in Backups :
        orig[r] = pr /\ ret[r][b] # None =>
            \/ bk[b] = Left(r, b)
            \/ \E w \in Req : CurrentWinner(w) /\ bk[b] = Target[w]

(* Whoever tries a backup another request took learns of it. *)
WitnessInv ==
    \A r, s \in Req, b \in Backups :
        r # s /\ orig[r] = pr /\ orig[s] = pr /\ Took(s, b) /\ ret[r][b] # None =>
            \/ ret[r][b] = Target[s]
            \/ \E w \in Req \ {r} : CurrentWinner(w) /\ ret[r][b] = Target[w]

(* How a winner won, and what the replicas look like until it is done. *)
WinnerInv ==
    \A w \in Req : Won(w) =>
        /\ TookMajority(w) \/ (Undecided(w) /\ Smallest(w))
        /\ ~swapped[w] =>
              /\ orig[w] = pr
              /\ \A b \in Backups :
                    bk[b] = IF b \in posted[w] THEN ret[w][b] ELSE Target[w]

(* What the tie-break starts from; who may still win for an old version. *)
CandidateInv ==
    \A r \in Req :
        /\ pc[r] = "readpr" => Undecided(r)
        /\ pc[r] = "bk0" /\ orig[r] # pr => ~TookMajority(r)

IInv ==
    /\ TypeOK
    /\ MajoritiesMeet
    /\ ControlInv
    /\ CommitInv
    /\ ValueInv
    /\ UntouchedInv
    /\ LeftInv
    /\ WitnessInv
    /\ WinnerInv
    /\ CandidateInv
    /\ AtMostOneWinner
    /\ BackupsNeverLag
    /\ RestCasSucceeds

=============================================================================
