--------------------------- MODULE BuildAuthority ---------------------------
(***************************************************************************)
(* The host's authority over building, kermp/buildsync.py: one lease, held *)
(* by one player for LeaseTicks of the monotonic clock after its last use, *)
(* and the numbered stream of accepted operations, of which the last       *)
(* HistoryLimit are kept.  A lease is stored with its age.                 *)
(***************************************************************************)
EXTENDS Integers, Sequences

CONSTANTS Players,
          Nobody,        \* no owner
          Ops,           \* operations, with their data
          ValidOps,      \* those _validate_build_data lets through
          LeaseTicks,    \* lease_seconds
          HistoryLimit,
          MaxSeq         \* bound on the accepted operations

ASSUME BuildAssumption ==
  /\ Nobody \notin Players
  /\ ValidOps \subseteq Ops
  /\ LeaseTicks \in Nat /\ MaxSeq \in Nat
  /\ HistoryLimit \in Nat \ {0}     \* `del h[:-0]` would keep everything

VARIABLES lock,      \* [owner, age]
          lease_id,  \* whose grant the lease id names
          seq,       \* _seq
          history    \* _history

authority == <<lock, lease_id, seq, history>>

-----------------------------------------------------------------------------
NoLock == [owner |-> Nobody, age |-> 0]
Lock(p) == [owner |-> p, age |-> 0]

Expired == lock.age > LeaseTicks

(* The lock once an expired lease has been cleared away. *)
Live == IF Expired THEN NoLock ELSE lock

Operation(p, op, n) == [seq |-> n, player |-> p, op |-> op]

(* mutant: the oldest operation is cut once too often *)
LatestShort(h) == IF Len(h) < HistoryLimit THEN h
                  ELSE SubSeq(h, Len(h) - HistoryLimit + 2, Len(h))

(* del h[:-limit] *)
Latest(h) == IF Len(h) <= HistoryLimit THEN h
             ELSE SubSeq(h, Len(h) - HistoryLimit + 1, Len(h))

AuthorityInit == lock = NoLock /\ lease_id = Nobody /\ seq = 0 /\ history = <<>>

(* request_lock: the holder may ask again, which renews *)
(* mutant: whoever asks gets the lease *)
MayLockAnybody(p) == p \in Players
MayLock(p) == Live.owner \in {Nobody, p}

RequestLock(p) ==
  /\ MayLock(p)
  /\ lock' = Lock(p)
  /\ lease_id' = p
  /\ UNCHANGED <<seq, history>>

(* release_lock: the holder's alone, expired or not *)
ReleaseLock(p) ==
  /\ lock.owner = p
  /\ lock' = NoLock
  /\ lease_id' = Nobody
  /\ UNCHANGED <<seq, history>>

(* mutant: submit trusts the owner's name without looking at the clock *)
MaySubmitExpired(p) == lock.owner = p
MaySubmit(p) == Live.owner = p

(* the operation is numbered and kept *)
Record(p, op) ==
  /\ seq < MaxSeq
  /\ seq' = seq + 1
  /\ history' = Latest(Append(history, Operation(p, op, seq + 1)))

(* mutant: the operation is not validated *)
SubmitUnvalidated(p, op) ==
  /\ MaySubmit(p)
  /\ lock' = Lock(p)
  /\ Record(p, op)
  /\ UNCHANGED lease_id

(* submit accepted, which also renews the lease *)
Submit(p, op) ==
  /\ MaySubmit(p)
  /\ op \in ValidOps
  /\ lock' = Lock(p)
  /\ Record(p, op)
  /\ UNCHANGED lease_id

(* submit refused with PermissionError: it leaves no expired lease behind, *)
(* but its lease id.                                                       *)
SubmitDenied(p) ==
  /\ ~MaySubmit(p)
  /\ lock' = Live
  /\ UNCHANGED <<lease_id, seq, history>>

(* HostSession.remove_player *)
ClearLockOf(p) ==
  IF lock.owner = p THEN ReleaseLock(p) ELSE UNCHANGED authority

(* The monotonic clock; past expiry it makes no difference. *)
Tick ==
  /\ lock.owner # Nobody /\ lock.age <= LeaseTicks
  /\ lock' = [lock EXCEPT !.age = @ + 1]
  /\ UNCHANGED <<lease_id, seq, history>>

AuthorityNext ==
  \/ \E p \in Players : \/ RequestLock(p) \/ ReleaseLock(p) \/ SubmitDenied(p)
                        \/ \E op \in Ops : Submit(p, op)
  \/ Tick

AuthoritySpec == AuthorityInit /\ [][AuthorityNext]_authority

-----------------------------------------------------------------------------
(* The fields of BuildAuthority, BuildLock and BuildOperation. *)
AuthorityTypeOK ==
  /\ lock \in [owner : Players \cup {Nobody}, age : 0..LeaseTicks + 1]
  /\ lease_id \in Players \cup {Nobody}
  /\ seq \in 0..MaxSeq
  /\ history \in Seq([seq : 1..MaxSeq, player : Players, op : ValidOps])

(* What history_since can replay has no gap and reaches to the newest       *)
(* operation: the history is the last HistoryLimit operations of the stream *)
(* (submit appends and trims).                                              *)
HistoryIsTheTail ==
  /\ Len(history) = IF seq < HistoryLimit THEN seq ELSE HistoryLimit
  /\ \A i \in 1..Len(history) : history[i].seq = seq - Len(history) + i

(* The lease passes straight from one player to another only when the       *)
(* first one's has run out; a holder at work is never put out (request_lock).*)
NoTheft ==
  [][ (lock.owner # Nobody /\ lock'.owner \notin {Nobody, lock.owner})
        => lock.age > LeaseTicks ]_authority

(* An operation enters the stream only from the player whose lease is still *)
(* running, as the next number, and renews that lease (submit).             *)
OnlyTheHolderBuilds ==
  [][ history' # history =>
        /\ seq' = seq + 1
        /\ history'[Len(history')].player = lock.owner
        /\ lock.age <= LeaseTicks
        /\ lock' = [owner |-> lock.owner, age |-> 0] ]_authority
=============================================================================
