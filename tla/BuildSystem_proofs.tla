------------------------- MODULE BuildSystem_proofs -------------------------
(***************************************************************************)
(* Proofs about the build authority and about building in the whole system,  *)
(* for any number of players, any contents, lease and history limit, and any *)
(* number of moves.                                                          *)
(***************************************************************************)
EXTENDS BuildSystem, SequenceTheorems, TLAPS

-----------------------------------------------------------------------------
(* The authority alone.  The invariant is two conjuncts, the types and the    *)
(* shape of the history; the type of the history is needed for the            *)
(* arithmetic on its last entry and the shape says what the trimming in       *)
(* submit removes.                                                            *)

Entry == [seq : 1..MaxSeq, player : Players, op : ValidOps]

Kept == IF seq < HistoryLimit THEN seq ELSE HistoryLimit

Authority == AuthorityTypeOK /\ HistoryIsTheTail

-----------------------------------------------------------------------------
(* Latest keeps the end of a sequence: what `del history[:-limit]` leaves   *)
(* is at most HistoryLimit entries, the last ones, in their order.          *)
LEMMA LatestIsASuffix ==
  ASSUME NEW S, NEW h \in Seq(S)
  PROVE  /\ Latest(h) \in Seq(S)
         /\ Len(Latest(h)) = IF Len(h) < HistoryLimit THEN Len(h) ELSE HistoryLimit
         /\ \A i \in 1..Len(Latest(h)) :
               Latest(h)[i] = h[Len(h) - Len(Latest(h)) + i]
<1>0. HistoryLimit \in Nat \ {0} /\ Len(h) \in Nat
  BY BuildAssumption
<1>1. CASE Len(h) <= HistoryLimit
  <2>1. Latest(h) = h
    BY <1>1 DEF Latest
  <2> QED BY <1>0, <1>1, <2>1
<1>2. CASE ~(Len(h) <= HistoryLimit)
  <2> DEFINE m == Len(h) - HistoryLimit + 1
  <2>1. Latest(h) = SubSeq(h, m, Len(h))
    BY <1>2 DEF Latest
  <2>2. m \in 1..Len(h) /\ Len(h) - m + 1 = HistoryLimit
    BY <1>0, <1>2
  <2>3. /\ SubSeq(h, m, Len(h)) \in Seq(S)
        /\ Len(SubSeq(h, m, Len(h))) = HistoryLimit
    BY <1>0, <2>2
  <2>4. \A i \in 1..HistoryLimit : SubSeq(h, m, Len(h))[i] = h[m + i - 1]
    BY <1>0, <2>2
  <2> QED BY <1>0, <1>2, <2>1, <2>3, <2>4
<1> QED BY <1>1, <1>2

(* Accepting an operation keeps the history the tail of the stream.         *)
LEMMA SubmitKeepsTheTail ==
  ASSUME Authority, NEW p \in Players, NEW op \in Ops, Submit(p, op)
  PROVE  /\ history' \in Seq(Entry)
         /\ HistoryIsTheTail'
         /\ history'[Len(history')] = Operation(p, op, seq + 1)
<1> DEFINE e == Operation(p, op, seq + 1)
           h == Append(history, e)
<1>0. /\ HistoryLimit \in Nat \ {0} /\ MaxSeq \in Nat
      /\ seq \in 0..MaxSeq /\ seq + 1 \in 1..MaxSeq
      /\ history \in Seq(Entry)
      /\ Len(history) = Kept /\ Len(history) \in Nat
  BY BuildAssumption DEF Authority, AuthorityTypeOK, HistoryIsTheTail, Entry,
     Kept, Submit, Record
<1>1. e \in Entry /\ e.seq = seq + 1
  BY <1>0 DEF Submit, Record, Operation, Entry
<1>2. /\ h \in Seq(Entry) /\ Len(h) = Len(history) + 1
      /\ \A i \in 1..Len(history) : h[i] = history[i]
      /\ h[Len(history) + 1] = e
  BY <1>0, <1>1
<1>3. history' = Latest(h) /\ seq' = seq + 1
  BY DEF Submit, Record
<1> HIDE DEF h, e
<1>4. /\ history' \in Seq(Entry)
      /\ Len(history') = IF Len(h) < HistoryLimit THEN Len(h) ELSE HistoryLimit
      /\ \A i \in 1..Len(history') : history'[i] = h[Len(h) - Len(history') + i]
  BY <1>2, <1>3, LatestIsASuffix
<1>5. Len(history') = IF seq' < HistoryLimit THEN seq' ELSE HistoryLimit
  BY <1>0, <1>2, <1>3, <1>4 DEF Kept
<1>6. \A i \in 1..Len(h) : h[i].seq = seq + 1 - Len(h) + i
  <2>1. Len(h) = Len(history) + 1 /\ Len(history) \in Nat
    BY <1>0, <1>2
  <2>2. ASSUME NEW i \in 1..Len(history)
        PROVE  h[i].seq = seq + 1 - Len(h) + i
    <3>1. h[i].seq = seq - Len(history) + i
      BY <1>2 DEF Authority, HistoryIsTheTail
    <3> QED BY <1>0, <2>1, <3>1
  <2>3. h[Len(h)].seq = seq + 1 - Len(h) + Len(h)
    BY <1>0, <1>1, <1>2, <2>1
  <2>4. \A i \in 1..Len(h) : i \in 1..Len(history) \/ i = Len(h)
    BY <2>1
  <2> QED BY <2>2, <2>3, <2>4
<1>7. ASSUME NEW i \in 1..Len(history')
      PROVE  history'[i].seq = seq' - Len(history') + i
  <2>1. /\ Len(h) - Len(history') + i \in 1..Len(h)
        /\ Len(h) \in Nat /\ Len(history') \in Nat
    BY <1>0, <1>2, <1>4
  <2>2. history'[i].seq = seq + 1 - Len(h) + (Len(h) - Len(history') + i)
    BY <1>4, <1>6, <2>1
  <2> QED BY <1>0, <1>3, <2>1, <2>2
<1>8. history'[Len(history')] = e
  BY <1>0, <1>2, <1>4
<1> QED BY <1>4, <1>5, <1>7, <1>8 DEF HistoryIsTheTail, e

LEMMA AuthorityInitially == AuthorityInit => Authority
  BY BuildAssumption DEF AuthorityInit, Authority, AuthorityTypeOK,
     HistoryIsTheTail, NoLock

LEMMA AuthorityStep == Authority /\ [AuthorityNext]_authority => Authority'
<1> SUFFICES ASSUME Authority, [AuthorityNext]_authority
             PROVE  Authority'
  OBVIOUS
<1> USE BuildAssumption
<1>1. ASSUME UNCHANGED <<seq, history>>,
             lock' \in [owner : Players \cup {Nobody}, age : 0..LeaseTicks + 1],
             lease_id' \in Players \cup {Nobody}
      PROVE  Authority'
  BY <1>1 DEF Authority, AuthorityTypeOK, HistoryIsTheTail
<1>2. ASSUME NEW p \in Players, RequestLock(p)
      PROVE  Authority'
  BY <1>1, <1>2 DEF RequestLock, Lock
<1>3. ASSUME NEW p \in Players, ReleaseLock(p)
      PROVE  Authority'
  BY <1>1, <1>3 DEF ReleaseLock, NoLock
<1>4. ASSUME NEW p \in Players, SubmitDenied(p)
      PROVE  Authority'
  BY <1>1, <1>4 DEF SubmitDenied, Live, NoLock, Authority, AuthorityTypeOK
<1>5. ASSUME NEW p \in Players, NEW op \in Ops, Submit(p, op)
      PROVE  Authority'
  <2>1. history' \in Seq(Entry) /\ HistoryIsTheTail'
    BY <1>5, SubmitKeepsTheTail
  <2>2. /\ lock' \in [owner : Players \cup {Nobody}, age : 0..LeaseTicks + 1]
        /\ lease_id' \in Players \cup {Nobody}
        /\ seq' \in 0..MaxSeq
    BY <1>5 DEF Submit, Record, Lock, Authority, AuthorityTypeOK
  <2> QED BY <2>1, <2>2 DEF Authority, AuthorityTypeOK, Entry
<1>6. ASSUME Tick
      PROVE  Authority'
  <2>1. lock' \in [owner : Players \cup {Nobody}, age : 0..LeaseTicks + 1]
    BY <1>6 DEF Tick, Authority, AuthorityTypeOK
  <2> QED BY <1>1, <1>6, <2>1 DEF Tick, Authority, AuthorityTypeOK
<1>7. CASE UNCHANGED authority
  BY <1>7 DEF authority, Authority, AuthorityTypeOK, HistoryIsTheTail
<1> QED BY <1>2, <1>3, <1>4, <1>5, <1>6, <1>7 DEF AuthorityNext

(* Both conjuncts hold whatever players request, release and submit, and     *)
(* however time passes.                                                     *)
THEOREM AuthorityInvariance == AuthoritySpec => []Authority
  BY AuthorityInitially, AuthorityStep, PTL DEF AuthoritySpec

-----------------------------------------------------------------------------
(* The types: in particular only validated operations are ever kept         *)
(* (_validate_build_data before the append in submit).                      *)
THEOREM AuthorityTypeCorrect == AuthoritySpec => []AuthorityTypeOK
  BY AuthorityInvariance, PTL DEF Authority

(* history_since replays a gap-free run that reaches the newest operation.  *)
THEOREM ReplayHasNoGap == AuthoritySpec => []HistoryIsTheTail
  BY AuthorityInvariance, PTL DEF Authority

(* request_lock takes a lease over only once it has expired.                *)
THEOREM LeaseIsNotStolen == AuthoritySpec => NoTheft
<1>1. ASSUME Authority, [AuthorityNext]_authority
      PROVE  [ (lock.owner # Nobody /\ lock'.owner \notin {Nobody, lock.owner})
                 => lock.age > LeaseTicks ]_authority
  <2> SUFFICES ASSUME AuthorityNext, lock.owner # Nobody,
                      lock'.owner \notin {Nobody, lock.owner}
               PROVE  lock.age > LeaseTicks
    BY <1>1
  <2>1. lock \in [owner : Players \cup {Nobody}, age : 0..LeaseTicks + 1]
    BY <1>1 DEF Authority, AuthorityTypeOK
  <2>2. ASSUME NEW p \in Players, RequestLock(p)
        PROVE  lock.age > LeaseTicks
    BY <2>2 DEF RequestLock, MayLock, Live, Expired, Lock
  <2>3. ASSUME NEW p \in Players, ReleaseLock(p)
        PROVE  FALSE
    BY <2>3 DEF ReleaseLock, NoLock
  <2>4. ASSUME NEW p \in Players, SubmitDenied(p)
        PROVE  FALSE
    BY <2>4 DEF SubmitDenied, Live, NoLock
  <2>5. ASSUME NEW p \in Players, NEW op \in Ops, Submit(p, op)
        PROVE  lock.age > LeaseTicks
    BY <2>5 DEF Submit, MaySubmit, Live, Expired, Lock
  <2>6. ASSUME Tick
        PROVE  FALSE
    BY <2>1, <2>6 DEF Tick
  <2> QED BY <2>2, <2>3, <2>4, <2>5, <2>6 DEF AuthorityNext
<1> QED BY <1>1, AuthorityInvariance, PTL DEF AuthoritySpec, NoTheft

(* submit is the only way into the stream and it is the holder's.           *)
THEOREM StreamIsTheHolders == AuthoritySpec => OnlyTheHolderBuilds
<1> DEFINE A == history' # history =>
                  /\ seq' = seq + 1
                  /\ history'[Len(history')].player = lock.owner
                  /\ lock.age <= LeaseTicks
                  /\ lock' = [owner |-> lock.owner, age |-> 0]
<1>1. ASSUME Authority, [AuthorityNext]_authority
      PROVE  [A]_authority
  <2> SUFFICES ASSUME AuthorityNext, history' # history
               PROVE  A
    BY <1>1
  <2>1. PICK p \in Players, op \in Ops : Submit(p, op)
    BY DEF AuthorityNext, RequestLock, ReleaseLock, SubmitDenied, Tick
  <2>2. history'[Len(history')].player = p
    <3>1. history'[Len(history')] = Operation(p, op, seq + 1)
      BY <1>1, <2>1, SubmitKeepsTheTail
    <3>2. Operation(p, op, seq + 1).player = p
      BY DEF Operation
    <3> QED BY <3>1, <3>2
  <2>3. lock.owner = p /\ ~(lock.age > LeaseTicks)
    BY <2>1, BuildAssumption DEF Submit, MaySubmit, Live, Expired, NoLock
  <2>4. lock.age \in Int /\ LeaseTicks \in Int
    BY <1>1, BuildAssumption DEF Authority, AuthorityTypeOK
  <2> QED BY <2>1, <2>2, <2>3, <2>4 DEF Submit, Record, Lock
<1> QED BY <1>1, AuthorityInvariance, PTL DEF AuthoritySpec, OnlyTheHolderBuilds

-----------------------------------------------------------------------------
(* The system *)

USE BuildAssumption, BuildSystemAssumption

-----------------------------------------------------------------------------
(* What the pieces are *)

AnyOp == [by : Players, n : Nat, what : Whats]
Operations == [type : {"operation"}, op : AnyOp]
Said == {LockRequest, LockRelease} \cup Operations
Keys == [seq : Nat] \cup [what : Whats]
Applications == [type : {"apply"}, key : Keys, op : AnyOp]
LockStates == [type : {"lock_state"}, owner : Players \cup {Nobody}]
Told == Applications \cup LockStates \cup {Error}
Leases == [owner : Players \cup {Nobody}, age : Nat]
Entries == [seq : Nat, player : Players, op : AnyOp]

BuildShape ==
  /\ lock \in Leases
  /\ seq \in Nat /\ stream \in Seq(Entries) /\ Len(stream) = seq
  /\ events \in [Players -> Seq(Said)]
  /\ pending \in [Clients -> Seq(Operations)]
  /\ owns \in [Clients -> BOOLEAN]
  /\ up \in [Clients -> Seq(Said)] /\ down \in [Clients -> Seq(Told)]
  /\ toGame \in [Players -> Seq(Applications)]
  /\ built \in [Players -> Nat]
  /\ applying \in [Players -> AnyOp \cup {Idle}]
  /\ seen \in [Players -> SUBSET Keys]
  /\ done \in [Players -> Seq(AnyOp)]
  /\ live \in [Clients -> BOOLEAN]

(* The place of what a player's game and sidecar say among the operations   *)
(* the player built; 0 is no operation.                                     *)
place == [m \in Said |-> IF m.type = "operation" THEN m.op.n ELSE 0]

(* The number in the stream an application carries; 0 is none. *)
number == [m \in Told |-> IF m.type = "apply" /\ m.key \in [seq : Nat] THEN m.key.seq ELSE 0]

(* The positive values of f rise along s, and those of s are below those of t. *)
Rising(f, s) ==
  \A i, j \in 1..Len(s) : i < j /\ f[s[i]] > 0 /\ f[s[j]] > 0 => f[s[i]] < f[s[j]]
Below(f, s, t) ==
  \A i \in 1..Len(s), j \in 1..Len(t) : f[s[i]] > 0 /\ f[t[j]] > 0 => f[s[i]] < f[t[j]]
Above(f, n, s) ==
  \A i \in 1..Len(s) : f[s[i]] > 0 => n < f[s[i]]

-----------------------------------------------------------------------------
(* Queues that lose their head or get more *)

LEMMA TailOfQueue ==
  ASSUME NEW S, NEW s \in Seq(S), s # <<>>
  PROVE  /\ Tail(s) \in Seq(S) /\ Head(s) \in S /\ Head(s) = s[1] /\ 1 \in 1..Len(s)
         /\ Len(Tail(s)) = Len(s) - 1 /\ Len(s) \in Nat
         /\ \A i \in 1..Len(Tail(s)) : i + 1 \in 1..Len(s) /\ Tail(s)[i] = s[i + 1]
         /\ \A i \in 1..Len(s) : i = 1 \/ (i - 1 \in 1..Len(Tail(s)) /\ Tail(s)[i - 1] = s[i])
BY HeadTailProperties, EmptySeq, ElementOfSeq

LEMMA RisingTail ==
  ASSUME NEW f, NEW S, NEW s \in Seq(S), s # <<>>, Rising(f, s)
  PROVE  /\ Rising(f, Tail(s))
         /\ f[Head(s)] > 0 => Above(f, f[Head(s)], Tail(s))
<1>1. /\ Head(s) = s[1] /\ 1 \in 1..Len(s)
      /\ \A i \in 1..Len(Tail(s)) : i + 1 \in 1..Len(s) /\ Tail(s)[i] = s[i + 1]
  BY TailOfQueue
<1>2. \A i \in 1..Len(Tail(s)) : i \in Nat /\ 1 < i + 1
  BY TailOfQueue
<1>3. Rising(f, Tail(s))
  <2> SUFFICES ASSUME NEW i \in 1..Len(Tail(s)), NEW j \in 1..Len(Tail(s)), i < j,
                      f[Tail(s)[i]] > 0, f[Tail(s)[j]] > 0
               PROVE  f[Tail(s)[i]] < f[Tail(s)[j]]
    BY DEF Rising
  <2>1. i + 1 < j + 1
    BY <1>2
  <2> QED BY <1>1, <2>1 DEF Rising
<1>4. ASSUME f[Head(s)] > 0
      PROVE  Above(f, f[Head(s)], Tail(s))
  <2> SUFFICES ASSUME NEW i \in 1..Len(Tail(s)), f[Tail(s)[i]] > 0
               PROVE  f[Head(s)] < f[Tail(s)[i]]
    BY DEF Above
  <2> QED BY <1>1, <1>2, <1>4 DEF Rising
<1> QED BY <1>3, <1>4

LEMMA BelowTail ==
  ASSUME NEW f, NEW S, NEW s \in Seq(S), s # <<>>, NEW t
  PROVE  /\ Below(f, s, t) => Below(f, Tail(s), t) /\ (f[Head(s)] > 0 => Above(f, f[Head(s)], t))
         /\ Below(f, t, s) => Below(f, t, Tail(s))
         /\ \A n : Above(f, n, s) => Above(f, n, Tail(s)) /\ (f[Head(s)] > 0 => n < f[Head(s)])
<1>1. /\ Head(s) = s[1] /\ 1 \in 1..Len(s)
      /\ \A i \in 1..Len(Tail(s)) : i + 1 \in 1..Len(s) /\ Tail(s)[i] = s[i + 1]
  BY TailOfQueue
<1> QED BY <1>1 DEF Below, Above

(* The elements of a concatenation are those of its parts. *)
LEMMA PartsOfQueue ==
  ASSUME NEW S, NEW s \in Seq(S), NEW t \in Seq(S)
  PROVE  /\ s \o t \in Seq(S) /\ Len(s \o t) = Len(s) + Len(t) /\ Len(s) \in Nat /\ Len(t) \in Nat
         /\ \A i \in 1..Len(s) : i \in 1..Len(s \o t) /\ (s \o t)[i] = s[i]
         /\ \A i \in 1..Len(t) : Len(s) + i \in 1..Len(s \o t) /\ (s \o t)[Len(s) + i] = t[i]
         /\ \A i \in 1..Len(s \o t) : \/ i \in 1..Len(s) /\ (s \o t)[i] = s[i]
                                      \/ i - Len(s) \in 1..Len(t) /\ (s \o t)[i] = t[i - Len(s)]
<1>1. /\ s \o t \in Seq(S) /\ Len(s \o t) = Len(s) + Len(t) /\ Len(s) \in Nat /\ Len(t) \in Nat
      /\ \A i \in 1..Len(s) + Len(t) : (s \o t)[i] = IF i <= Len(s) THEN s[i] ELSE t[i - Len(s)]
  BY ConcatProperties
<1>2. \A i \in 1..Len(s) : i \in 1..Len(s \o t) /\ (s \o t)[i] = s[i]
  BY <1>1
<1>3. \A i \in 1..Len(t) : Len(s) + i \in 1..Len(s \o t) /\ (s \o t)[Len(s) + i] = t[i]
  BY <1>1
<1>4. \A i \in 1..Len(s \o t) : \/ i \in 1..Len(s) /\ (s \o t)[i] = s[i]
                                \/ i - Len(s) \in 1..Len(t) /\ (s \o t)[i] = t[i - Len(s)]
  BY <1>1
<1> QED BY <1>1, <1>2, <1>3, <1>4

LEMMA RisingConcat ==
  ASSUME NEW f, NEW S, NEW s \in Seq(S), NEW t \in Seq(S), Rising(f, s), Rising(f, t), Below(f, s, t)
  PROVE  Rising(f, s \o t)
<1> SUFFICES ASSUME NEW i \in 1..Len(s \o t), NEW j \in 1..Len(s \o t), i < j,
                    f[(s \o t)[i]] > 0, f[(s \o t)[j]] > 0
             PROVE  f[(s \o t)[i]] < f[(s \o t)[j]]
  BY DEF Rising
<1>1. /\ \A k \in 1..Len(s \o t) : \/ k \in 1..Len(s) /\ (s \o t)[k] = s[k]
                                   \/ k - Len(s) \in 1..Len(t) /\ (s \o t)[k] = t[k - Len(s)]
      /\ Len(s) \in Nat
  BY PartsOfQueue
<1>2. CASE i \in 1..Len(s) /\ (s \o t)[i] = s[i]
  <2>1. CASE j \in 1..Len(s) /\ (s \o t)[j] = s[j]
    BY <1>2, <2>1 DEF Rising
  <2>2. CASE j - Len(s) \in 1..Len(t) /\ (s \o t)[j] = t[j - Len(s)]
    BY <1>2, <2>2 DEF Below
  <2> QED BY <1>1, <2>1, <2>2
<1>3. CASE i - Len(s) \in 1..Len(t) /\ (s \o t)[i] = t[i - Len(s)]
  <2>1. i \in Nat /\ j \in Nat /\ j \notin 1..Len(s)
    BY <1>1, <1>3
  <2>2. j - Len(s) \in 1..Len(t) /\ (s \o t)[j] = t[j - Len(s)] /\ i - Len(s) < j - Len(s)
    BY <1>1, <2>1
  <2> QED BY <1>3, <2>2 DEF Rising
<1> QED BY <1>1, <1>2, <1>3

LEMMA BelowConcat ==
  ASSUME NEW f, NEW S, NEW s \in Seq(S), NEW t \in Seq(S)
  PROVE  /\ \A u : Below(f, s, u) /\ Below(f, t, u) => Below(f, s \o t, u)
         /\ \A u : Below(f, u, s) /\ Below(f, u, t) => Below(f, u, s \o t)
         /\ \A n : Above(f, n, s) /\ Above(f, n, t) => Above(f, n, s \o t)
<1>1. \A k \in 1..Len(s \o t) : \/ k \in 1..Len(s) /\ (s \o t)[k] = s[k]
                                \/ k - Len(s) \in 1..Len(t) /\ (s \o t)[k] = t[k - Len(s)]
  BY PartsOfQueue
<1>2. ASSUME NEW u, Below(f, s, u), Below(f, t, u) PROVE Below(f, s \o t, u)
  BY <1>1, <1>2 DEF Below
<1>3. ASSUME NEW u, Below(f, u, s), Below(f, u, t) PROVE Below(f, u, s \o t)
  BY <1>1, <1>3 DEF Below
<1>4. ASSUME NEW n, Above(f, n, s), Above(f, n, t) PROVE Above(f, n, s \o t)
  BY <1>1, <1>4 DEF Above
<1> QED BY <1>2, <1>3, <1>4

(* One message, and none. *)
LEMMA ShortQueues ==
  ASSUME NEW f
  PROVE  /\ \A x : Rising(f, <<x>>)
         /\ \A t, x : Below(f, <<x>>, t) <=> (f[x] > 0 => Above(f, f[x], t))
         /\ \A s, x : Below(f, s, <<x>>) <=> \A i \in 1..Len(s) : f[s[i]] > 0 /\ f[x] > 0 => f[s[i]] < f[x]
         /\ \A n, x : Above(f, n, <<x>>) <=> (f[x] > 0 => n < f[x])
         /\ Rising(f, <<>>) /\ \A t : Below(f, <<>>, t) /\ Below(f, t, <<>>)
         /\ \A n : Above(f, n, <<>>)
BY DEF Rising, Below, Above

LEMMA Places ==
  /\ LockRequest \in Said /\ LockRelease \in Said /\ place[LockRequest] = 0 /\ place[LockRelease] = 0
  /\ LockRequest.type = "lock_request" /\ LockRelease.type = "lock_release"
  /\ \A m \in Said : m.type = "operation" <=> m \in Operations
  /\ \A m \in Operations : m \in Said /\ m.op \in AnyOp /\ place[m] = m.op.n /\ m.type = "operation"
  /\ \A m \in Said : place[m] \in Nat /\ (place[m] > 0 => m \in Operations)
  /\ \A op \in AnyOp : OperationOf(op) \in Operations /\ OperationOf(op).op = op
<1>1. /\ LockRequest \in Said /\ LockRelease \in Said
      /\ LockRequest.type = "lock_request" /\ LockRelease.type = "lock_release"
  BY DEF Said, LockRequest, LockRelease
<1>2. \A m \in Said : m.type = "operation" <=> m \in Operations
  BY DEF Said, Operations, LockRequest, LockRelease
<1>3. \A m \in Operations : m \in Said /\ m.op \in AnyOp /\ m.type = "operation"
  BY DEF Said, Operations
<1>4. \A m \in Said : place[m] = IF m.type = "operation" THEN m.op.n ELSE 0
  BY DEF place
<1>5. \A op \in AnyOp : OperationOf(op) \in Operations /\ OperationOf(op).op = op
  BY DEF OperationOf, Operations
<1>6. \A op \in AnyOp : op.n \in Nat
  BY DEF AnyOp
<1> QED BY <1>1, <1>2, <1>3, <1>4, <1>5, <1>6

LEMMA Numbers ==
  /\ \A n \in Nat, op \in AnyOp : /\ Apply(SeqKey(n), op) \in Applications /\ Apply(SeqKey(n), op).op = op
                                  /\ Apply(SeqKey(n), op).key = SeqKey(n) /\ number[Apply(SeqKey(n), op)] = n
  /\ \A op \in AnyOp : /\ Apply(ContentKey(op), op) \in Applications /\ Apply(ContentKey(op), op).op = op
                       /\ number[Apply(ContentKey(op), op)] = 0
  /\ \A x \in Players \cup {Nobody} : /\ LockState(x) \in LockStates /\ LockState(x).owner = x
                                      /\ number[LockState(x)] = 0
  /\ \A m \in LockStates : number[m] = 0
  /\ Error \in Told /\ number[Error] = 0
  /\ \A m \in Told : m.type = "apply" <=> m \in Applications
  /\ \A m \in Told : m.type = "lock_state" <=> m \in LockStates
  /\ \A m \in Told : number[m] \in Nat /\ (number[m] > 0 => m \in Applications /\ m.key = SeqKey(number[m]))
  /\ \A m \in Applications : m \in Told /\ m.op \in AnyOp /\ m.key \in Keys /\ m.type = "apply"
<1>1. \A n \in Nat, op \in AnyOp : /\ Apply(SeqKey(n), op) \in Applications /\ Apply(SeqKey(n), op).op = op
                                   /\ Apply(SeqKey(n), op).key = SeqKey(n) /\ number[Apply(SeqKey(n), op)] = n
  BY DEF Apply, SeqKey, Applications, Keys, number, Told
<1>2. \A op \in AnyOp : /\ Apply(ContentKey(op), op) \in Applications /\ Apply(ContentKey(op), op).op = op
                        /\ number[Apply(ContentKey(op), op)] = 0
  <2> SUFFICES ASSUME NEW op \in AnyOp
               PROVE  /\ Apply(ContentKey(op), op) \in Applications /\ Apply(ContentKey(op), op).op = op
                      /\ number[Apply(ContentKey(op), op)] = 0
    OBVIOUS
  <2>1. [what |-> op.what] \notin [seq : Nat] /\ op.what \in Whats
    BY DEF AnyOp
  <2> QED BY <2>1 DEF Apply, ContentKey, Applications, Keys, number, Told
<1>3. \A x \in Players \cup {Nobody} : LockState(x) \in LockStates /\ LockState(x).owner = x
  BY DEF LockState, LockStates
<1>4. \A m \in LockStates : number[m] = 0
  BY DEF LockStates, number, Told
<1>5. Error \in Told /\ number[Error] = 0
  BY DEF Error, Told, number
<1>6. /\ \A m \in Told : m.type = "apply" <=> m \in Applications
      /\ \A m \in Told : m.type = "lock_state" <=> m \in LockStates
  BY DEF Told, Error, LockStates, Applications
<1>7. \A m \in Told : number[m] \in Nat /\ (number[m] > 0 => m \in Applications /\ m.key = SeqKey(number[m]))
  BY <1>6 DEF number, SeqKey
<1>8. \A m \in Applications : m \in Told /\ m.op \in AnyOp /\ m.key \in Keys /\ m.type = "apply"
  BY DEF Applications, Told
<1> QED BY <1>1, <1>2, <1>3, <1>4, <1>5, <1>6, <1>7, <1>8

-----------------------------------------------------------------------------
(* The shape of the system *)

(* What a step does to a queue of one of the players. *)
LEMMA DropTyped ==
  ASSUME NEW D, NEW S, NEW q \in [D -> Seq(S)], NEW p \in D, q[p] # <<>>
  PROVE  Drop(q, p) \in [D -> Seq(S)] /\ Head(q[p]) \in S
<1>1. q[p] \in Seq(S)
  OBVIOUS
<1>2. Tail(q[p]) \in Seq(S) /\ Head(q[p]) \in S
  BY <1>1, TailOfQueue
<1> QED BY <1>2 DEF Drop

LEMMA AddTyped ==
  ASSUME NEW D, NEW S, NEW q \in [D -> Seq(S)], NEW p \in D, NEW ms \in Seq(S)
  PROVE  Add(q, p, ms) \in [D -> Seq(S)]
<1>1. q[p] \o ms \in Seq(S)
  BY PartsOfQueue
<1> QED BY <1>1 DEF Add

LEMMA OneTyped ==
  ASSUME NEW S, NEW x \in S
  PROVE  <<x>> \in Seq(S)
OBVIOUS

LEMMA BroadcastTyped ==
  ASSUME BuildShape, NEW m \in Told, Broadcast(m)
  PROVE  down' \in [Clients -> Seq(Told)]
<1>1. \A c \in Clients : down[c] \in Seq(Told) /\ Append(down[c], m) \in Seq(Told)
  BY AppendProperties DEF BuildShape
<1> QED BY <1>1 DEF Broadcast

(* The stream gets one more entry with each number. *)
LEMMA StreamGrows ==
  ASSUME BuildShape, NEW p \in Players, NEW op \in AnyOp, Streamed(p, op), seq' = seq + 1
  PROVE  /\ seq' \in Nat /\ stream' \in Seq(Entries) /\ Len(stream') = seq'
         /\ seq' \in 1..Len(stream') /\ stream'[seq'].op = op /\ stream'[seq'].player = p
         /\ \A n \in 1..Len(stream) : n \in 1..Len(stream') /\ stream'[n] = stream[n]
         /\ \A n \in 1..Len(stream') : n = seq' \/ (n \in 1..Len(stream) /\ n < seq')
<1> DEFINE e == Operation(p, op, seq')
<1>1. e \in Entries /\ e.op = op /\ e.player = p
  BY DEF Operation, Entries, BuildShape
<1>2. stream \in Seq(Entries) /\ seq \in Nat /\ Len(stream) = seq
  BY DEF BuildShape
<1>3. stream' = Append(stream, e)
  BY DEF Streamed
<1> HIDE DEF e
<1>4. /\ stream' \in Seq(Entries) /\ Len(stream') = seq + 1
      /\ \A i \in 1..Len(stream) : stream'[i] = stream[i]
      /\ stream'[Len(stream) + 1] = e
  BY <1>1, <1>2, <1>3, AppendProperties
<1> QED BY <1>1, <1>2, <1>4

LEMMA LockTyped ==
  ASSUME BuildShape, NEW p \in Players,
         RequestLock(p) \/ ReleaseLock(p) \/ SubmitDenied(p) \/ ClearLockOf(p) \/ Requested(p) \/ Tick
  PROVE  lock' \in Leases /\ seq' = seq
<1>1. lock \in Leases /\ NoLock \in Leases /\ Lock(p) \in Leases /\ Live \in Leases
  BY DEF BuildShape, Leases, NoLock, Lock, Live
<1>2. CASE Tick
  BY <1>1, <1>2 DEF Tick, Leases
<1>3. CASE RequestLock(p) \/ ReleaseLock(p) \/ SubmitDenied(p) \/ ClearLockOf(p) \/ Requested(p)
  BY <1>1, <1>3 DEF RequestLock, ReleaseLock, SubmitDenied, ClearLockOf, Requested, authority
<1> QED BY <1>2, <1>3

LEMMA SubmitTyped ==
  ASSUME BuildShape, NEW p \in Players, NEW op, Submit(p, op)
  PROVE  lock' \in Leases /\ seq' = seq + 1
BY DEF Submit, Record, Lock, Leases

LEMMA QueuesTyped ==
  ASSUME BuildShape
  PROVE  /\ \A p \in Players, m \in Said : Add(events, p, <<m>>) \in [Players -> Seq(Said)]
         /\ \A c \in Clients, ms \in Seq(Said) : Add(up, c, ms) \in [Clients -> Seq(Said)]
         /\ \A c \in Clients, m \in Said : Add(up, c, <<m>>) \in [Clients -> Seq(Said)]
         /\ \A c \in Clients, m \in Told : Add(down, c, <<m>>) \in [Clients -> Seq(Told)]
         /\ \A p \in Players, m \in Applications : Add(toGame, p, <<m>>) \in [Players -> Seq(Applications)]
         /\ \A p \in Players, op \in AnyOp : Add(done, p, <<op>>) \in [Players -> Seq(AnyOp)]
<1>1. \A p \in Players, m \in Said : Add(events, p, <<m>>) \in [Players -> Seq(Said)]
  BY OneTyped, AddTyped DEF BuildShape
<1>2. \A c \in Clients, ms \in Seq(Said) : Add(up, c, ms) \in [Clients -> Seq(Said)]
  BY AddTyped DEF BuildShape
<1>3. \A c \in Clients, m \in Said : Add(up, c, <<m>>) \in [Clients -> Seq(Said)]
  BY OneTyped, <1>2
<1>4. \A c \in Clients, m \in Told : Add(down, c, <<m>>) \in [Clients -> Seq(Told)]
  BY OneTyped, AddTyped DEF BuildShape
<1>5. \A p \in Players, m \in Applications : Add(toGame, p, <<m>>) \in [Players -> Seq(Applications)]
  BY OneTyped, AddTyped DEF BuildShape
<1>6. \A p \in Players, op \in AnyOp : Add(done, p, <<op>>) \in [Players -> Seq(AnyOp)]
  BY OneTyped, AddTyped DEF BuildShape
<1> QED BY <1>1, <1>2, <1>3, <1>4, <1>5, <1>6

LEMMA GamesKeepShape ==
  ASSUME BuildShape, NEW p \in Players,
         \/ \E what \in Whats : Build(p, what)
         \/ EnterBuildMode(p) \/ ExitBuildMode(p)
         \/ ApplyBegin(p) \/ ApplyEnd(p) \/ ApplyFails(p)
  PROVE  BuildShape'
<1>0. /\ events \in [Players -> Seq(Said)] /\ toGame \in [Players -> Seq(Applications)]
      /\ built \in [Players -> Nat] /\ applying \in [Players -> AnyOp \cup {Idle}]
      /\ seen \in [Players -> SUBSET Keys] /\ done \in [Players -> Seq(AnyOp)]
  BY DEF BuildShape
<1>1. \A op \in AnyOp : Captured(p, op) => events' \in [Players -> Seq(Said)]
  BY <1>0, Places, QueuesTyped DEF Captured
<1>2. ASSUME NEW what \in Whats, Build(p, what) PROVE BuildShape'
  <2> DEFINE op == [by |-> p, n |-> built[p] + 1, what |-> what]
  <2>1. op \in AnyOp
    BY <1>0 DEF AnyOp
  <2>2. /\ built' = [built EXCEPT ![p] = @ + 1] /\ done' = Add(done, p, <<op>>) /\ Captured(p, op)
        /\ UNCHANGED <<host, sidecar, up, down, toGame, applying, seen, live>>
    BY <1>2 DEF Build
  <2> HIDE DEF op
  <2>3. done' \in [Players -> Seq(AnyOp)] /\ events' \in [Players -> Seq(Said)] /\ built' \in [Players -> Nat]
    <3>1. done' \in [Players -> Seq(AnyOp)]
      BY <2>1, <2>2, QueuesTyped
    <3>2. events' \in [Players -> Seq(Said)]
      BY <1>1, <2>1, <2>2
    <3>3. built' \in [Players -> Nat]
      BY <1>0, <2>2
    <3> QED BY <3>1, <3>2, <3>3
  <2> QED BY <2>2, <2>3 DEF BuildShape, host, authority, sidecar
<1>3. CASE EnterBuildMode(p) \/ ExitBuildMode(p)
  <2>1. events' \in [Players -> Seq(Said)]
    <3>1. LockRequest \in Said /\ LockRelease \in Said
      BY Places
    <3>2. events' = Add(events, p, <<LockRequest>>) \/ events' = Add(events, p, <<LockRelease>>)
      BY <1>3 DEF EnterBuildMode, ExitBuildMode
    <3> QED BY <3>1, <3>2, QueuesTyped
  <2> QED BY <1>3, <2>1 DEF EnterBuildMode, ExitBuildMode, BuildShape, host, authority, sidecar
<1>4. CASE ApplyBegin(p)
  <2> DEFINE m == Head(toGame[p])
  <2>1. toGame' \in [Players -> Seq(Applications)] /\ m \in Applications
    BY <1>0, <1>4, DropTyped DEF ApplyBegin
  <2>2. m.op \in AnyOp /\ m.key \in Keys
    BY <2>1, Numbers
  <2>3. applying' \in [Players -> AnyOp \cup {Idle}] /\ seen' \in [Players -> SUBSET Keys]
    BY <1>0, <1>4, <2>2 DEF ApplyBegin
  <2> QED BY <1>4, <2>1, <2>3 DEF ApplyBegin, BuildShape, host, authority, sidecar
<1>5. CASE ApplyEnd(p)
  <2>1. applying[p] \in AnyOp
    BY <1>0, <1>5 DEF ApplyEnd
  <2>2. /\ done' \in [Players -> Seq(AnyOp)] /\ events' \in [Players -> Seq(Said)]
        /\ applying' \in [Players -> AnyOp \cup {Idle}]
    BY <1>0, <1>1, <1>5, <2>1, QueuesTyped DEF ApplyEnd
  <2> QED BY <1>5, <2>2 DEF ApplyEnd, BuildShape, host, authority, sidecar
<1>6. CASE ApplyFails(p)
  BY <1>6 DEF ApplyFails, BuildShape, host, authority, sidecar, pipes
<1> QED BY <1>2, <1>3, <1>4, <1>5, <1>6

LEMMA SidecarsKeepShape ==
  ASSUME BuildShape, NEW c \in Clients, SidecarEvent(c) \/ SidecarLockState(c) \/ SidecarForwards(c)
  PROVE  BuildShape'
<1>0. /\ events \in [Players -> Seq(Said)] /\ toGame \in [Players -> Seq(Applications)] /\ c \in Players
      /\ pending \in [Clients -> Seq(Operations)] /\ owns \in [Clients -> BOOLEAN]
      /\ up \in [Clients -> Seq(Said)] /\ down \in [Clients -> Seq(Told)]
  BY DEF BuildShape, Clients
<1>1. \A ops \in Seq(Operations) : ops \in Seq(Said)
  BY DEF Said
<1>2. <<>> \in Seq(Operations)
  OBVIOUS
<1>3. CASE SidecarEvent(c)
  <2> DEFINE m == Head(events[c])
  <2>1. events' \in [Players -> Seq(Said)] /\ m \in Said
    BY <1>0, <1>3, DropTyped DEF SidecarEvent
  <2>2. CASE m.type = "operation"
    <3> DEFINE ops == Append(pending[c], m)
    <3>1. ops \in Seq(Operations)
      BY <1>0, <2>1, <2>2, Places, AppendProperties
    <3>2. /\ UNCHANGED owns
          /\ \/ up' = Add(up, c, ops) /\ pending' = [pending EXCEPT ![c] = <<>>]
             \/ up' = Add(up, c, <<LockRequest>>) /\ pending' = [pending EXCEPT ![c] = ops]
      BY <1>3, <2>2, Places DEF SidecarEvent, Flushed
    <3> HIDE DEF ops
    <3>3. up' \in [Clients -> Seq(Said)] /\ pending' \in [Clients -> Seq(Operations)]
      <4>1. LockRequest \in Said /\ ops \in Seq(Said)
        BY <1>1, <3>1, Places
      <4>2. up' \in [Clients -> Seq(Said)]
        BY <3>2, <4>1, QueuesTyped
      <4>3. pending' \in [Clients -> Seq(Operations)]
        BY <1>0, <1>2, <3>1, <3>2
      <4> QED BY <4>2, <4>3
    <3> QED BY <1>3, <2>1, <3>2, <3>3 DEF SidecarEvent, BuildShape, host, authority, game
  <2>3. CASE m.type # "operation"
    <3>1. up' = Add(up, c, <<m>>) /\ pending' = pending /\ (owns' = owns \/ owns' = [owns EXCEPT ![c] = FALSE])
      BY <1>3, <2>3 DEF SidecarEvent
    <3>2. up' \in [Clients -> Seq(Said)]
      BY <1>0, <2>1, <3>1, QueuesTyped
    <3> QED BY <1>0, <1>3, <2>1, <3>1, <3>2 DEF SidecarEvent, BuildShape, host, authority, game
  <2> QED BY <2>2, <2>3
<1>4. CASE SidecarLockState(c)
  <2>1. down' \in [Clients -> Seq(Told)]
    BY <1>0, <1>4, DropTyped DEF SidecarLockState
  <2>2. up' \in [Clients -> Seq(Said)] /\ pending' \in [Clients -> Seq(Operations)]
    <3>1. CASE Flush(c)
      BY <1>0, <1>1, <1>2, <3>1, QueuesTyped DEF Flush, Flushed
    <3>2. CASE UNCHANGED <<up, pending>>
      BY <1>0, <3>2
    <3> QED BY <1>4, <3>1, <3>2 DEF SidecarLockState
  <2>3. owns' \in [Clients -> BOOLEAN]
    BY <1>0, <1>4 DEF SidecarLockState, OwnsAfter
  <2> QED BY <1>4, <2>1, <2>2, <2>3 DEF SidecarLockState, BuildShape, host, authority, game
<1>5. CASE SidecarForwards(c)
  <2> DEFINE m == Head(down[c])
  <2>1. down' \in [Clients -> Seq(Told)] /\ m \in Told
    BY <1>0, <1>5, DropTyped DEF SidecarForwards
  <2>2. toGame' \in [Players -> Seq(Applications)]
    <3>1. CASE m.type = "apply" /\ toGame' = Forwarded(c, m)
      BY <1>0, <2>1, <3>1, Numbers, QueuesTyped DEF Forwarded
    <3>2. CASE UNCHANGED toGame
      BY <1>0, <3>2
    <3> QED BY <1>5, <3>1, <3>2 DEF SidecarForwards
  <2> QED BY <1>5, <2>1, <2>2 DEF SidecarForwards, BuildShape, host, authority, game, sidecar
<1> QED BY <1>3, <1>4, <1>5

(* The next operation of a client or of the host's game *)
LEMMA NextOperation ==
  ASSUME BuildShape
  PROVE  /\ \A c \in Clients : HostReads(c, "operation") => up[c] # <<>> /\ Head(up[c]) \in Operations
         /\ (events[Host] # <<>> /\ Head(events[Host]).type = "operation") => Head(events[Host]) \in Operations
<1>1. ASSUME NEW c \in Clients, HostReads(c, "operation")
      PROVE  up[c] # <<>> /\ Head(up[c]) \in Operations
  <2>1. up[c] # <<>> /\ Head(up[c]).type = "operation" /\ up \in [Clients -> Seq(Said)]
    BY <1>1 DEF HostReads, BuildShape
  <2>2. Head(up[c]) \in Said
    BY <2>1, DropTyped
  <2> QED BY <2>1, <2>2, Places
<1>2. ASSUME events[Host] # <<>>, Head(events[Host]).type = "operation"
      PROVE  Head(events[Host]) \in Operations
  <2>1. events \in [Players -> Seq(Said)] /\ Host \in Players
    BY DEF BuildShape
  <2>2. Head(events[Host]) \in Said
    BY <1>2, <2>1, DropTyped
  <2> QED BY <1>2, <2>2, Places
<1> QED BY <1>1, <1>2

LEMMA DroppedKeepsShape ==
  ASSUME BuildShape, NEW c \in Clients, Dropped(c)
  PROVE  BuildShape'
<1>1. lock' \in Leases /\ seq' = seq
  BY LockTyped DEF Dropped, Clients
<1>2. up' \in [Clients -> Seq(Said)] /\ down' \in [Clients -> Seq(Told)] /\ live' \in [Clients -> BOOLEAN]
  <2>1. <<>> \in Seq(Said) /\ <<>> \in Seq(Told)
    OBVIOUS
  <2> QED BY <2>1 DEF Dropped, BuildShape
<1> QED BY <1>1, <1>2 DEF Dropped, BuildShape, game, sidecar

LEMMA HostKeepsShape ==
  ASSUME BuildShape, NEW c \in Clients,
         \/ HostLockRequest(c) \/ HostLockRelease(c) \/ HostOperation(c)
         \/ HostInvalidOperation(c) \/ Leave(c)
  PROVE  BuildShape'
<1>0. /\ toGame \in [Players -> Seq(Applications)] /\ c \in Players /\ Host \in Players
      /\ up \in [Clients -> Seq(Said)] /\ down \in [Clients -> Seq(Told)]
  BY DEF BuildShape, Clients
<1>1. HostReads(c, "operation") \/ HostReads(c, "lock_request") \/ HostReads(c, "lock_release")
         => Drop(up, c) \in [Clients -> Seq(Said)]
  BY <1>0, DropTyped DEF HostReads
<1>2. CASE HostLockRequest(c) \/ HostLockRelease(c)
  <2>1. lock' \in Leases /\ seq' = seq
    BY <1>0, <1>2, LockTyped DEF HostLockRequest, HostLockRelease
  <2>2. lock'.owner \in Players \cup {Nobody}
    BY <2>1 DEF Leases
  <2>3. down' \in [Clients -> Seq(Told)] /\ up' \in [Clients -> Seq(Said)]
    BY <1>1, <1>2, <2>2, Numbers, BroadcastTyped DEF HostLockRequest, HostLockRelease, Told
  <2> QED BY <1>2, <2>1, <2>3 DEF HostLockRequest, HostLockRelease, BuildShape, game, sidecar
<1>3. CASE HostOperation(c) /\ Accepted(c)
  <2> DEFINE op == Head(up[c]).op
             m == Apply(SeqKey(seq'), op)
  <2>1. op \in AnyOp
    BY <1>3, NextOperation, Places DEF HostOperation
  <2>2. /\ Submit(c, op) /\ Streamed(c, op) /\ Broadcast(m) /\ toGame' = Add(toGame, Host, <<m>>)
        /\ UNCHANGED live
    BY <1>3 DEF Accepted
  <2> HIDE DEF op
  <2>3. lock' \in Leases /\ seq' = seq + 1
    BY <1>0, <2>2, SubmitTyped
  <2>4. seq' \in Nat /\ stream' \in Seq(Entries) /\ Len(stream') = seq'
    BY <1>0, <2>1, <2>2, <2>3, StreamGrows
  <2>5. m \in Applications /\ m \in Told
    BY <2>1, <2>4, Numbers
  <2> HIDE DEF m
  <2>6. down' \in [Clients -> Seq(Told)] /\ toGame' \in [Players -> Seq(Applications)]
    BY <1>0, <2>2, <2>5, BroadcastTyped, QueuesTyped
  <2>7. up' \in [Clients -> Seq(Said)]
    BY <1>1, <1>3 DEF HostOperation
  <2> QED BY <1>3, <2>2, <2>3, <2>4, <2>6, <2>7 DEF HostOperation, BuildShape, game, sidecar
<1>4. CASE HostOperation(c) /\ Denied(c)
  <2>1. lock' \in Leases /\ seq' = seq
    BY <1>0, <1>4, LockTyped DEF Denied
  <2>2. down' \in [Clients -> Seq(Told)]
    BY <1>0, <1>4, Numbers, QueuesTyped DEF Denied
  <2>3. up' \in [Clients -> Seq(Said)]
    BY <1>1, <1>4 DEF HostOperation
  <2> QED BY <1>4, <2>1, <2>2, <2>3 DEF HostOperation, Denied, BuildShape, game, sidecar
<1>5. CASE HostInvalidOperation(c) \/ Leave(c)
  BY <1>5, DroppedKeepsShape DEF HostInvalidOperation, Leave
<1> QED BY <1>2, <1>3, <1>4, <1>5 DEF HostOperation

LEMMA HostsGameKeepsShape ==
  ASSUME BuildShape, HostBuilds \/ HostLock \/ Expiry
  PROVE  BuildShape'
<1>0. events \in [Players -> Seq(Said)] /\ Host \in Players
  BY DEF BuildShape
<1>1. events[Host] # <<>> => Drop(events, Host) \in [Players -> Seq(Said)]
  BY <1>0, DropTyped
<1>2. CASE HostBuilds
  <2> DEFINE op == Head(events[Host]).op
  <2>1. op \in AnyOp
    BY <1>2, NextOperation, Places DEF HostBuilds
  <2>2. events' \in [Players -> Seq(Said)]
    BY <1>1, <1>2 DEF HostBuilds
  <2>3. CASE lock' = Lock(Host) /\ Record(Host, op) /\ Streamed(Host, op) /\ Broadcast(Apply(ContentKey(op), op))
    <3> HIDE DEF op
    <3>1. lock' \in Leases /\ seq' = seq + 1
      BY <1>0, <2>3 DEF Lock, Leases, Record
    <3>2. seq' \in Nat /\ stream' \in Seq(Entries) /\ Len(stream') = seq'
      BY <1>0, <2>1, <2>3, <3>1, StreamGrows
    <3>3. Apply(ContentKey(op), op) \in Told
      BY <2>1, Numbers
    <3>4. down' \in [Clients -> Seq(Told)]
      BY <2>3, <3>3, BroadcastTyped
    <3> QED BY <1>2, <2>2, <3>1, <3>2, <3>4 DEF HostBuilds, BuildShape, game, sidecar
  <2>4. CASE RequestLock(Host) /\ UNCHANGED <<stream, down>>
    <3>1. lock' \in Leases /\ seq' = seq
      BY <1>0, <2>4, LockTyped
    <3> QED BY <1>2, <2>2, <2>4, <3>1 DEF HostBuilds, BuildShape, game, sidecar
  <2>5. CASE UNCHANGED <<host, down>>
    BY <1>2, <2>2, <2>5 DEF HostBuilds, BuildShape, host, authority, game, sidecar
  <2> QED BY <1>2, <2>3, <2>4, <2>5 DEF HostBuilds
<1>3. CASE HostLock
  <2>1. lock' \in Leases /\ seq' = seq
    BY <1>0, <1>3, LockTyped DEF HostLock
  <2>2. lock'.owner \in Players \cup {Nobody}
    BY <2>1 DEF Leases
  <2>3. down' \in [Clients -> Seq(Told)]
    BY <1>3, <2>2, Numbers, BroadcastTyped DEF HostLock, Told
  <2> QED BY <1>1, <1>3, <2>1, <2>3 DEF HostLock, BuildShape, game, sidecar
<1>4. CASE Expiry
  <2>1. lock' \in Leases /\ seq' = seq
    BY <1>0, <1>4, LockTyped DEF Expiry
  <2> QED BY <1>4, <2>1 DEF Expiry, BuildShape, game, sidecar, pipes
<1> QED BY <1>2, <1>3, <1>4

-----------------------------------------------------------------------------
(* What a player builds stands in one line: in the stream st, then on its    *)
(* way to the host (u), waiting for the lock (q), on its way from the game   *)
(* (e); b operations have been built.                                       *)

Sound(b, p, s) ==
  \A i \in 1..Len(s) : s[i] \in Operations => s[i].op.by = p /\ s[i].op.n \in 1..b
Recorded(st, p, s) ==
  \A k \in 1..Len(st) : st[k].player = p => Above(place, st[k].op.n, s)

LineOf(st, b, p, u, q, e) ==
  /\ Sound(b, p, u) /\ Sound(b, p, q) /\ Sound(b, p, e)
  /\ Rising(place, u) /\ Rising(place, q) /\ Rising(place, e)
  /\ Below(place, u, q) /\ Below(place, u, e) /\ Below(place, q, e)
  /\ Recorded(st, p, u) /\ Recorded(st, p, q) /\ Recorded(st, p, e)

Lines ==
  /\ \A c \in Clients : LineOf(stream, built[c], c, up[c], pending[c], events[c])
  /\ LineOf(stream, built[Host], Host, <<>>, <<>>, events[Host])
  /\ \A k \in 1..Len(stream) : stream[k].op.n \in 1..built[stream[k].player]
  /\ NoEcho /\ BuildersOrder

LEMMA SoundParts ==
  ASSUME NEW b, NEW p, NEW S, NEW s \in Seq(S)
  PROVE  /\ s # <<>> /\ Sound(b, p, s) => Sound(b, p, Tail(s))
         /\ \A t \in Seq(S) : Sound(b, p, s) /\ Sound(b, p, t) => Sound(b, p, s \o t)
         /\ Sound(b, p, <<>>)
<1>1. ASSUME s # <<>>, Sound(b, p, s) PROVE Sound(b, p, Tail(s))
  <2>1. \A i \in 1..Len(Tail(s)) : i + 1 \in 1..Len(s) /\ Tail(s)[i] = s[i + 1]
    BY <1>1, TailOfQueue
  <2> QED BY <1>1, <2>1 DEF Sound
<1>2. ASSUME NEW t \in Seq(S), Sound(b, p, s), Sound(b, p, t) PROVE Sound(b, p, s \o t)
  <2>1. \A k \in 1..Len(s \o t) : \/ k \in 1..Len(s) /\ (s \o t)[k] = s[k]
                                  \/ k - Len(s) \in 1..Len(t) /\ (s \o t)[k] = t[k - Len(s)]
    BY PartsOfQueue
  <2> QED BY <1>2, <2>1 DEF Sound
<1> QED BY <1>1, <1>2 DEF Sound

LEMMA RecordedParts ==
  ASSUME NEW st, NEW p, NEW S, NEW s \in Seq(S)
  PROVE  /\ s # <<>> /\ Recorded(st, p, s) => Recorded(st, p, Tail(s))
         /\ \A t \in Seq(S) : Recorded(st, p, s) /\ Recorded(st, p, t) => Recorded(st, p, s \o t)
         /\ Recorded(st, p, <<>>)
<1>1. ASSUME s # <<>>, Recorded(st, p, s) PROVE Recorded(st, p, Tail(s))
  BY <1>1, BelowTail DEF Recorded
<1>2. ASSUME NEW t \in Seq(S), Recorded(st, p, s), Recorded(st, p, t) PROVE Recorded(st, p, s \o t)
  BY <1>2, BelowConcat DEF Recorded
<1>3. Recorded(st, p, <<>>)
  BY ShortQueues DEF Recorded
<1> QED BY <1>1, <1>2, <1>3

(* A message that is no operation has no place in the line. *)
LEMMA NoPlace ==
  ASSUME NEW m \in Said, m \notin Operations
  PROVE  /\ \A b, p : Sound(b, p, <<m>>)
         /\ \A st, p : Recorded(st, p, <<m>>)
         /\ Rising(place, <<m>>) /\ \A s : Below(place, s, <<m>>) /\ Below(place, <<m>>, s)
<1>1. ~(place[m] > 0)
  BY Places
<1>2. /\ \A n : Above(place, n, <<m>>)
      /\ Rising(place, <<m>>) /\ \A s : Below(place, s, <<m>>) /\ Below(place, <<m>>, s)
  BY <1>1, ShortQueues
<1>3. \A b, p : Sound(b, p, <<m>>)
  BY DEF Sound
<1> QED BY <1>2, <1>3 DEF Recorded

(* An operation moves from the head of one part to the end of the one before.*)
LEMMA HeadInLine ==
  ASSUME NEW st, NEW b, NEW p, NEW u \in Seq(Said), NEW q \in Seq(Operations), NEW e \in Seq(Said),
         e # <<>>, Head(e) \in Operations, LineOf(st, b, p, u, q, e)
  PROVE  LineOf(st, b, p, u, Append(q, Head(e)), Tail(e))
<1> DEFINE m == Head(e)
<1>1. m \in Said /\ m = e[1] /\ 1 \in 1..Len(e)
  BY TailOfQueue
<1>2. <<m>> \in Seq(Operations) /\ <<m>> \in Seq(Said) /\ q \in Seq(Said) /\ Append(q, m) = q \o <<m>>
  BY Places
<1>3. place[m] > 0 /\ Sound(b, p, <<m>>)
  <2>1. m.op.by = p /\ m.op.n \in 1..b
    BY <1>1 DEF LineOf, Sound
  <2>2. place[m] = m.op.n
    BY Places
  <2>3. m.op.n \in Nat
    BY Places DEF AnyOp
  <2> QED BY <2>1, <2>2, <2>3 DEF Sound
<1>4. Rising(place, <<m>>) /\ Below(place, u, <<m>>) /\ Below(place, q, <<m>>) /\ Below(place, <<m>>, Tail(e))
      /\ Recorded(st, p, <<m>>)
  <2>1. Below(place, u, <<m>>) /\ Below(place, q, <<m>>)
    <3>1. /\ \A i \in 1..Len(u) : place[u[i]] > 0 /\ place[m] > 0 => place[u[i]] < place[m]
          /\ \A i \in 1..Len(q) : place[q[i]] > 0 /\ place[m] > 0 => place[q[i]] < place[m]
      BY <1>1 DEF LineOf, Below
    <3> HIDE DEF m
    <3> QED BY <3>1, ShortQueues
  <2>2. Below(place, <<m>>, Tail(e))
    BY <1>3, RisingTail, ShortQueues DEF LineOf
  <2>3. Recorded(st, p, <<m>>)
    <3>1. \A n : Above(place, n, e) => n < place[m]
      BY <1>1, <1>3 DEF Above
    <3>2. \A n : Above(place, n, e) => Above(place, n, <<m>>)
      BY <3>1, ShortQueues
    <3> QED BY <3>2 DEF LineOf, Recorded
  <2> QED BY <2>1, <2>2, <2>3, ShortQueues
<1> HIDE DEF m
<1>5. Rising(place, Tail(e)) /\ Sound(b, p, Tail(e)) /\ Recorded(st, p, Tail(e))
      /\ Below(place, u, Tail(e)) /\ Below(place, q, Tail(e))
  BY RisingTail, SoundParts, RecordedParts, BelowTail DEF LineOf
<1>6. Rising(place, q \o <<m>>) /\ Sound(b, p, q \o <<m>>) /\ Recorded(st, p, q \o <<m>>)
      /\ Below(place, u, q \o <<m>>) /\ Below(place, q \o <<m>>, Tail(e))
  BY <1>2, <1>3, <1>4, <1>5, RisingConcat, SoundParts, RecordedParts, BelowConcat DEF LineOf
<1> QED BY <1>2, <1>5, <1>6 DEF LineOf, m

LEMMA FlushInLine ==
  ASSUME NEW st, NEW b, NEW p, NEW u \in Seq(Said), NEW q \in Seq(Said), NEW e, LineOf(st, b, p, u, q, e)
  PROVE  LineOf(st, b, p, u \o q, <<>>, e)
<1>1. Rising(place, u \o q) /\ Sound(b, p, u \o q) /\ Recorded(st, p, u \o q) /\ Below(place, u \o q, e)
  BY RisingConcat, SoundParts, RecordedParts, BelowConcat DEF LineOf
<1>2. Rising(place, <<>>) /\ \A s : Below(place, s, <<>>) /\ Below(place, <<>>, s)
  BY ShortQueues
<1>3. Sound(b, p, <<>>) /\ Recorded(st, p, <<>>)
  BY SoundParts, RecordedParts
<1> QED BY <1>1, <1>2, <1>3 DEF LineOf

(* Messages that are no operations come and go. *)
LEMMA TalkInLine ==
  ASSUME NEW st, NEW b, NEW p, NEW u \in Seq(Said), NEW q, NEW e \in Seq(Said), LineOf(st, b, p, u, q, e)
  PROVE  /\ \A m \in Said \ Operations : LineOf(st, b, p, u \o <<m>>, q, e) /\ LineOf(st, b, p, u, q, e \o <<m>>)
         /\ e # <<>> => LineOf(st, b, p, u, q, Tail(e))
         /\ u # <<>> => LineOf(st, b, p, Tail(u), q, e)
         /\ LineOf(st, b, p, <<>>, q, e)
<1>1. ASSUME NEW m \in Said \ Operations
      PROVE  LineOf(st, b, p, u \o <<m>>, q, e) /\ LineOf(st, b, p, u, q, e \o <<m>>)
  <2>1. <<m>> \in Seq(Said)
    OBVIOUS
  <2>2. Sound(b, p, <<m>>) /\ Recorded(st, p, <<m>>) /\ Rising(place, <<m>>)
        /\ \A s : Below(place, s, <<m>>) /\ Below(place, <<m>>, s)
    BY NoPlace
  <2>3. Rising(place, u \o <<m>>) /\ Sound(b, p, u \o <<m>>) /\ Recorded(st, p, u \o <<m>>)
        /\ Below(place, u \o <<m>>, q) /\ Below(place, u \o <<m>>, e)
    BY <2>1, <2>2, RisingConcat, SoundParts, RecordedParts, BelowConcat DEF LineOf
  <2>4. Rising(place, e \o <<m>>) /\ Sound(b, p, e \o <<m>>) /\ Recorded(st, p, e \o <<m>>)
        /\ Below(place, u, e \o <<m>>) /\ Below(place, q, e \o <<m>>)
    BY <2>1, <2>2, RisingConcat, SoundParts, RecordedParts, BelowConcat DEF LineOf
  <2> QED BY <2>3, <2>4 DEF LineOf
<1>2. ASSUME e # <<>> PROVE LineOf(st, b, p, u, q, Tail(e))
  BY <1>2, RisingTail, SoundParts, RecordedParts, BelowTail DEF LineOf
<1>3. ASSUME u # <<>> PROVE LineOf(st, b, p, Tail(u), q, e)
  BY <1>3, RisingTail, SoundParts, RecordedParts, BelowTail DEF LineOf
<1>4. LineOf(st, b, p, <<>>, q, e)
  <2>1. Sound(b, p, <<>>) /\ Recorded(st, p, <<>>)
    BY SoundParts, RecordedParts
  <2> QED BY <2>1, ShortQueues DEF LineOf
<1> QED BY <1>1, <1>2, <1>3, <1>4

(* The player builds, captured or not. *)
LEMMA BuildInLine ==
  ASSUME NEW st, NEW b \in Nat, NEW p, NEW u \in Seq(Said), NEW q \in Seq(Operations), NEW e \in Seq(Said),
         LineOf(st, b, p, u, q, e),
         \A k \in 1..Len(st) : st[k].player = p => st[k].op.n \in 1..b
  PROVE  /\ LineOf(st, b + 1, p, u, q, e)
         /\ \A m \in Operations : m.op.by = p /\ m.op.n = b + 1 => LineOf(st, b + 1, p, u, q, e \o <<m>>)
<1>1. \A i \in 1..b : i \in 1..(b + 1) /\ i < b + 1
  OBVIOUS
<1>2. LineOf(st, b + 1, p, u, q, e)
  BY <1>1 DEF LineOf, Sound
<1>3. ASSUME NEW m \in Operations, m.op.by = p, m.op.n = b + 1
      PROVE  LineOf(st, b + 1, p, u, q, e \o <<m>>)
  <2>1. <<m>> \in Seq(Said) /\ m \in Said /\ place[m] = b + 1 /\ q \in Seq(Said)
    BY <1>3, Places
  <2>2. ASSUME NEW s \in Seq(Said), Sound(b, p, s)
        PROVE  Below(place, s, <<m>>)
    <3>1. ASSUME NEW i \in 1..Len(s), place[s[i]] > 0 PROVE place[s[i]] < place[m]
      <4>1. s[i] \in Said
        BY ElementOfSeq
      <4>2. s[i] \in Operations /\ place[s[i]] = s[i].op.n
        BY <3>1, <4>1, Places
      <4>3. s[i].op.n \in 1..b
        BY <2>2, <4>2 DEF Sound
      <4> QED BY <1>1, <2>1, <4>2, <4>3
    <3> QED BY <3>1, ShortQueues
  <2>3. Below(place, u, <<m>>) /\ Below(place, q, <<m>>) /\ Below(place, e, <<m>>)
    BY <2>1, <2>2 DEF LineOf
  <2>4. Sound(b + 1, p, <<m>>)
    <3>1. m.op.n \in 1..(b + 1)
      BY <1>3
    <3> QED BY <1>3, <3>1 DEF Sound
  <2>5. Recorded(st, p, <<m>>)
    <3>1. \A k \in 1..Len(st) : st[k].player = p => st[k].op.n < place[m]
      BY <1>1, <2>1
    <3> QED BY <3>1, ShortQueues DEF Recorded
  <2>6. Rising(place, <<m>>)
    BY ShortQueues
  <2>7. Rising(place, e \o <<m>>) /\ Sound(b + 1, p, e \o <<m>>) /\ Recorded(st, p, e \o <<m>>)
        /\ Below(place, u, e \o <<m>>) /\ Below(place, q, e \o <<m>>)
    BY <1>2, <2>1, <2>3, <2>4, <2>5, <2>6, RisingConcat, SoundParts, RecordedParts, BelowConcat DEF LineOf
  <2> QED BY <1>2, <2>7 DEF LineOf
<1> QED BY <1>2, <1>3

(* The head of the line enters the stream. *)
Enters(st, stNew, p, op) ==
  \A k \in 1..Len(stNew) : \/ k \in 1..Len(st) /\ stNew[k] = st[k]
                           \/ stNew[k].player = p /\ stNew[k].op = op

LEMMA OthersInLine ==
  ASSUME NEW st, NEW stNew, NEW p, NEW op, Enters(st, stNew, p, op),
         NEW b, NEW r, r # p, NEW u, NEW q, NEW e, LineOf(st, b, r, u, q, e)
  PROVE  LineOf(stNew, b, r, u, q, e)
BY DEF LineOf, Recorded, Enters

LEMMA RecordedWith ==
  ASSUME NEW st, NEW stNew, NEW p, NEW op, Enters(st, stNew, p, op),
         NEW s, Recorded(st, p, s), Above(place, op.n, s)
  PROVE  Recorded(stNew, p, s)
BY DEF Recorded, Enters

LEMMA AcceptInLine ==
  ASSUME NEW st, NEW stNew, NEW b, NEW p, NEW u \in Seq(Said), NEW q, NEW e,
         u # <<>>, Head(u) \in Operations, Enters(st, stNew, p, Head(u).op), LineOf(st, b, p, u, q, e)
  PROVE  LineOf(stNew, b, p, Tail(u), q, e)
<1> DEFINE m == Head(u)
<1>1. m = u[1] /\ 1 \in 1..Len(u) /\ place[m] = m.op.n
  BY TailOfQueue, Places
<1>2. m.op.n \in 1..b /\ m.op.n \in Nat
  BY <1>1, Places DEF LineOf, Sound, AnyOp
<1>3. place[m] > 0
  BY <1>1, <1>2
<1>4. Above(place, m.op.n, Tail(u)) /\ Above(place, m.op.n, q) /\ Above(place, m.op.n, e)
  BY <1>1, <1>3, RisingTail, BelowTail DEF LineOf
<1>5. LineOf(st, b, p, Tail(u), q, e)
  BY RisingTail, SoundParts, RecordedParts, BelowTail DEF LineOf
<1>6. Recorded(stNew, p, Tail(u)) /\ Recorded(stNew, p, q) /\ Recorded(stNew, p, e)
  BY <1>4, <1>5, RecordedWith DEF LineOf
<1> QED BY <1>5, <1>6 DEF LineOf

LEMMA AcceptOfHost ==
  ASSUME NEW st, NEW stNew, NEW b, NEW p, NEW e \in Seq(Said),
         e # <<>>, Head(e) \in Operations, Enters(st, stNew, p, Head(e).op), LineOf(st, b, p, <<>>, <<>>, e)
  PROVE  LineOf(stNew, b, p, <<>>, <<>>, Tail(e))
<1>1. <<>> \in Seq(Said)
  OBVIOUS
<1>2. Below(place, e, <<>>) /\ Rising(place, <<>>) /\ Sound(b, p, <<>>) /\ Below(place, <<>>, <<>>) /\ Recorded(st, p, <<>>)
      /\ Below(place, <<>>, Tail(e)) /\ Recorded(stNew, p, <<>>)
  BY <1>1, ShortQueues, SoundParts, RecordedParts
<1>3. LineOf(st, b, p, e, <<>>, <<>>)
  BY <1>2 DEF LineOf
<1>4. LineOf(stNew, b, p, Tail(e), <<>>, <<>>)
  BY <1>3, AcceptInLine
<1> QED BY <1>2, <1>4 DEF LineOf

-----------------------------------------------------------------------------
(* Every step keeps the lines. *)

LinesInv == BuildShape /\ Lines

(* What enters the stream is its builder's and comes after what that player   *)
(* built before.                                                             *)
LEMMA StreamStaysInOrder ==
  ASSUME LinesInv, NEW p \in Players, NEW op \in AnyOp, Streamed(p, op), seq' = seq + 1, UNCHANGED built,
         op.by = p, op.n \in 1..built[p],
         \A k \in 1..Len(stream) : stream[k].player = p => stream[k].op.n < op.n
  PROVE  /\ NoEcho' /\ BuildersOrder' /\ Enters(stream, stream', p, op)
         /\ \A k \in 1..Len(stream') : stream'[k].op.n \in 1..built'[stream'[k].player]
<1>1. /\ seq' \in 1..Len(stream') /\ stream'[seq'].op = op /\ stream'[seq'].player = p
      /\ \A n \in 1..Len(stream') : n = seq' \/ (n \in 1..Len(stream) /\ n < seq')
      /\ \A n \in 1..Len(stream) : n \in 1..Len(stream') /\ stream'[n] = stream[n]
      /\ seq' \in Nat /\ Len(stream') = seq' /\ stream' \in Seq(Entries)
  BY StreamGrows DEF LinesInv
<1>2. DOMAIN stream' = 1..Len(stream') /\ DOMAIN stream = 1..Len(stream)
  BY <1>1 DEF LinesInv, BuildShape
<1>3. NoEcho'
  BY <1>1, <1>2 DEF NoEcho, LinesInv, Lines
<1>4. BuildersOrder'
  <2> SUFFICES ASSUME NEW i \in 1..Len(stream'), NEW j \in 1..Len(stream'), i < j,
                      stream'[i].player = stream'[j].player
               PROVE  stream'[i].op.n < stream'[j].op.n
    BY <1>2 DEF BuildersOrder
  <2>1. i \in 1..Len(stream) /\ stream'[i] = stream[i]
    BY <1>1
  <2>2. CASE j = seq'
    BY <1>1, <2>1, <2>2
  <2>3. CASE j \in 1..Len(stream)
    BY <1>1, <1>2, <2>1, <2>3 DEF LinesInv, Lines, BuildersOrder
  <2> QED BY <1>1, <2>2, <2>3
<1>5. Enters(stream, stream', p, op)
  BY <1>1 DEF Enters
<1>6. \A k \in 1..Len(stream') : stream'[k].op.n \in 1..built'[stream'[k].player]
  BY <1>1 DEF LinesInv, Lines
<1> QED BY <1>3, <1>4, <1>5, <1>6

(* Steps that leave the stream alone. *)
LEMMA LinesStay ==
  ASSUME LinesInv, UNCHANGED <<stream, built>>,
         \A c \in Clients : LineOf(stream, built[c], c, up'[c], pending'[c], events'[c]),
         LineOf(stream, built[Host], Host, <<>>, <<>>, events'[Host])
  PROVE  Lines'
BY DEF LinesInv, Lines, NoEcho, BuildersOrder

LEMMA QueuesHere ==
  ASSUME BuildShape
  PROVE  /\ \A p \in Players : events[p] \in Seq(Said) /\ built[p] \in Nat
         /\ \A c \in Clients : up[c] \in Seq(Said) /\ pending[c] \in Seq(Operations) /\ pending[c] \in Seq(Said)
         /\ <<>> \in Seq(Said) /\ <<>> \in Seq(Operations)
         /\ Clients \subseteq Players /\ Host \in Players /\ Host \notin Clients
         /\ \A p \in Players : p = Host \/ p \in Clients
<1>1. \A s \in Seq(Operations) : s \in Seq(Said)
  BY DEF Said
<1> QED BY <1>1 DEF BuildShape, Clients

LEMMA BuildKeepsLines ==
  ASSUME LinesInv, NEW p \in Players, NEW what \in Whats, Build(p, what)
  PROVE  Lines'
<1> DEFINE op == [by |-> p, n |-> built[p] + 1, what |-> what]
           m == OperationOf(op)
<1>1. /\ events \in [Players -> Seq(Said)] /\ built \in [Players -> Nat] /\ BuildShape
  BY DEF LinesInv, BuildShape
<1>2. m \in Operations /\ m.op.by = p /\ m.op.n = built[p] + 1
  <2>1. op \in AnyOp /\ op.by = p /\ op.n = built[p] + 1
    BY <1>1 DEF AnyOp
  <2> QED BY <2>1, Places
<1>3. built' = [built EXCEPT ![p] = @ + 1] /\ UNCHANGED <<stream, up, pending>>
  BY DEF Build, host, sidecar
<1>4. events' = events \/ events' = Add(events, p, <<m>>)
  BY DEF Build, Captured
<1> HIDE DEF m
<1>5. built'[p] = built[p] + 1 /\ \A r \in Players \ {p} : built'[r] = built[r] /\ events'[r] = events[r]
  BY <1>1, <1>3, <1>4 DEF Add
<1>6. events'[p] = events[p] \/ events'[p] = events[p] \o <<m>>
  BY <1>1, <1>4 DEF Add
<1>7. \A k \in 1..Len(stream) : /\ stream[k].player \in Players
                                /\ stream[k].op.n \in 1..built[stream[k].player]
  <2>1. \A k \in 1..Len(stream) : stream[k] \in Entries
    BY <1>1, ElementOfSeq DEF BuildShape
  <2> QED BY <2>1 DEF LinesInv, Lines, Entries
<1>8. ASSUME NEW u \in Seq(Said), NEW q \in Seq(Operations), LineOf(stream, built[p], p, u, q, events[p])
      PROVE  LineOf(stream', built'[p], p, u, q, events'[p])
  <2>1. \A k \in 1..Len(stream) : stream[k].player = p => stream[k].op.n \in 1..built[p]
    BY <1>7
  <2>2. events[p] \in Seq(Said) /\ built[p] \in Nat
    BY <1>1
  <2>3. /\ LineOf(stream, built[p] + 1, p, u, q, events[p])
        /\ LineOf(stream, built[p] + 1, p, u, q, events[p] \o <<m>>)
    BY <1>2, <1>8, <2>1, <2>2, BuildInLine
  <2> QED BY <1>3, <1>5, <1>6, <2>3
<1>9. ASSUME NEW c \in Clients PROVE LineOf(stream', built'[c], c, up'[c], pending'[c], events'[c])
  <2>1. c \in Players /\ up[c] \in Seq(Said) /\ pending[c] \in Seq(Operations)
    BY <1>1, QueuesHere
  <2>2. LineOf(stream, built[c], c, up[c], pending[c], events[c])
    BY DEF LinesInv, Lines
  <2>3. CASE c = p
    BY <1>3, <1>8, <2>1, <2>2, <2>3
  <2>4. CASE c # p
    BY <1>3, <1>5, <2>1, <2>2, <2>4
  <2> QED BY <2>3, <2>4
<1>10. LineOf(stream', built'[Host], Host, <<>>, <<>>, events'[Host])
  <2>1. Host \in Players /\ <<>> \in Seq(Said) /\ <<>> \in Seq(Operations)
    BY <1>1, QueuesHere
  <2>2. LineOf(stream, built[Host], Host, <<>>, <<>>, events[Host])
    BY DEF LinesInv, Lines
  <2>3. CASE Host = p
    BY <1>8, <2>1, <2>2, <2>3
  <2>4. CASE Host # p
    BY <1>3, <1>5, <2>1, <2>2, <2>4
  <2> QED BY <2>3, <2>4
<1>11. \A k \in 1..Len(stream') : stream'[k].op.n \in 1..built'[stream'[k].player]
  <2>1. \A b \in Nat : \A i \in 1..b : i \in 1..(b + 1)
    OBVIOUS
  <2>2. \A r \in Players : built'[r] = built[r] \/ (built'[r] = built[r] + 1 /\ built[r] \in Nat)
    BY <1>1, <1>5
  <2> QED BY <1>3, <1>7, <2>1, <2>2
<1> QED BY <1>3, <1>9, <1>10, <1>11 DEF LinesInv, Lines, NoEcho, BuildersOrder

LEMMA GamesKeepLines ==
  ASSUME LinesInv, NEW p \in Players,
         EnterBuildMode(p) \/ ExitBuildMode(p) \/ ApplyBegin(p) \/ ApplyEnd(p) \/ ApplyFails(p)
  PROVE  Lines'
<1>1. /\ UNCHANGED <<stream, built, up, pending>> /\ BuildShape /\ events \in [Players -> Seq(Said)]
  BY DEF EnterBuildMode, ExitBuildMode, ApplyBegin, ApplyEnd, ApplyFails, host, sidecar, pipes, LinesInv, BuildShape
<1>2. PICK m \in {LockRequest, LockRelease} : events' = events \/ events' = Add(events, p, <<m>>)
  BY DEF EnterBuildMode, ExitBuildMode, ApplyBegin, ApplyEnd, ApplyFails, Captured, pipes
<1>3. m \in Said \ Operations
  BY <1>2, Places
<1>4. \A r \in Players : events'[r] = events[r] \/ events'[r] = events[r] \o <<m>>
  BY <1>1, <1>2 DEF Add
<1>5. ASSUME NEW c \in Clients PROVE LineOf(stream, built[c], c, up'[c], pending'[c], events'[c])
  <2>1. c \in Players /\ up[c] \in Seq(Said) /\ events[c] \in Seq(Said)
    BY <1>1, QueuesHere
  <2>2. LineOf(stream, built[c], c, up[c], pending[c], events[c])
    BY DEF LinesInv, Lines
  <2>3. LineOf(stream, built[c], c, up[c], pending[c], events[c] \o <<m>>)
    BY <1>3, <2>1, <2>2, TalkInLine
  <2> QED BY <1>1, <1>4, <2>1, <2>2, <2>3
<1>6. LineOf(stream, built[Host], Host, <<>>, <<>>, events'[Host])
  <2>1. Host \in Players /\ <<>> \in Seq(Said) /\ events[Host] \in Seq(Said)
    BY <1>1, QueuesHere
  <2>2. LineOf(stream, built[Host], Host, <<>>, <<>>, events[Host])
    BY DEF LinesInv, Lines
  <2>3. LineOf(stream, built[Host], Host, <<>>, <<>>, events[Host] \o <<m>>)
    BY <1>3, <2>1, <2>2, TalkInLine
  <2> QED BY <1>4, <2>1, <2>2, <2>3
<1> QED BY <1>1, <1>5, <1>6, LinesStay

(* Steps that concern the queues of one client only. *)
LEMMA OneLineMoves ==
  ASSUME LinesInv, NEW c \in Clients, UNCHANGED <<stream, built>>,
         \A d \in Clients \ {c} : up'[d] = up[d] /\ pending'[d] = pending[d] /\ events'[d] = events[d],
         events'[Host] = events[Host],
         LineOf(stream, built[c], c, up'[c], pending'[c], events'[c])
  PROVE  Lines'
<1>1. \A d \in Clients : LineOf(stream, built[d], d, up'[d], pending'[d], events'[d])
  BY DEF LinesInv, Lines
<1>2. LineOf(stream, built[Host], Host, <<>>, <<>>, events'[Host])
  BY DEF LinesInv, Lines
<1> QED BY <1>1, <1>2, LinesStay

LEMMA SidecarsKeepLines ==
  ASSUME LinesInv, NEW c \in Clients, SidecarEvent(c) \/ SidecarLockState(c) \/ SidecarForwards(c)
  PROVE  Lines'
<1>0. /\ BuildShape /\ c \in Players /\ Host \in Players /\ Host # c
      /\ up[c] \in Seq(Said) /\ pending[c] \in Seq(Operations) /\ pending[c] \in Seq(Said) /\ events[c] \in Seq(Said)
      /\ events \in [Players -> Seq(Said)] /\ up \in [Clients -> Seq(Said)] /\ pending \in [Clients -> Seq(Operations)]
      /\ Clients \subseteq Players
  BY QueuesHere DEF LinesInv, BuildShape
<1>1. LineOf(stream, built[c], c, up[c], pending[c], events[c])
  BY DEF LinesInv, Lines
<1>2. UNCHANGED <<stream, built>>
  BY DEF SidecarEvent, SidecarLockState, SidecarForwards, host, game
<1>3. CASE SidecarEvent(c)
  <2> DEFINE m == Head(events[c])
  <2>1. m \in Said /\ events[c] # <<>> /\ events' = Drop(events, c) /\ Tail(events[c]) \in Seq(Said)
    BY <1>0, <1>3, TailOfQueue DEF SidecarEvent
  <2>2. events'[c] = Tail(events[c]) /\ \A p \in Players \ {c} : events'[p] = events[p]
    BY <1>0, <2>1 DEF Drop
  <2>3. CASE m.type = "operation"
    <3> DEFINE ops == Append(pending[c], m)
    <3>1. m \in Operations /\ ops \in Seq(Operations)
      BY <1>0, <2>1, <2>3, Places, AppendProperties
    <3>2. LineOf(stream, built[c], c, up[c], ops, Tail(events[c]))
      BY <1>0, <1>1, <2>1, <3>1, HeadInLine
    <3>3. \/ up' = Add(up, c, ops) /\ pending' = [pending EXCEPT ![c] = <<>>]
          \/ up' = Add(up, c, <<LockRequest>>) /\ pending' = [pending EXCEPT ![c] = ops]
      BY <1>3, <2>3, Places DEF SidecarEvent, Flushed
    <3> HIDE DEF ops
    <3>4. /\ \A d \in Clients \ {c} : up'[d] = up[d] /\ pending'[d] = pending[d]
          /\ \/ up'[c] = up[c] \o ops /\ pending'[c] = <<>>
             \/ up'[c] = up[c] \o <<LockRequest>> /\ pending'[c] = ops
      BY <1>0, <3>3 DEF Add
    <3>5. ops \in Seq(Said)
      BY <3>1 DEF Said
    <3>6. LineOf(stream, built[c], c, up[c] \o ops, <<>>, Tail(events[c]))
      BY <1>0, <3>2, <3>5, FlushInLine
    <3>7. LineOf(stream, built[c], c, up[c] \o <<LockRequest>>, ops, Tail(events[c]))
      BY <1>0, <2>1, <3>2, Places, TalkInLine
    <3>8. LineOf(stream, built[c], c, up'[c], pending'[c], events'[c])
      BY <2>2, <3>4, <3>6, <3>7
    <3> QED BY <1>0, <1>2, <2>2, <3>4, <3>8, OneLineMoves
  <2>4. CASE m.type # "operation"
    <3>1. up' = Add(up, c, <<m>>) /\ pending' = pending
      BY <1>3, <2>4 DEF SidecarEvent
    <3>2. m \in Said \ Operations
      BY <2>1, <2>4, Places
    <3>3. up'[c] = up[c] \o <<m>> /\ \A d \in Clients \ {c} : up'[d] = up[d]
      BY <1>0, <3>1 DEF Add
    <3>4. LineOf(stream, built[c], c, up[c] \o <<m>>, pending[c], events[c])
      BY <1>0, <1>1, <3>2, TalkInLine
    <3>5. up[c] \o <<m>> \in Seq(Said)
      BY <1>0, <2>1
    <3>6. LineOf(stream, built[c], c, up[c] \o <<m>>, pending[c], Tail(events[c]))
      BY <1>0, <2>1, <3>4, <3>5, TalkInLine
    <3> QED BY <1>0, <1>2, <2>2, <3>1, <3>3, <3>6, OneLineMoves
  <2> QED BY <2>3, <2>4
<1>4. CASE SidecarLockState(c)
  <2>1. events' = events
    BY <1>4 DEF SidecarLockState
  <2>2. CASE Flush(c)
    <3>1. up'[c] = up[c] \o pending[c] /\ pending'[c] = <<>>
          /\ \A d \in Clients \ {c} : up'[d] = up[d] /\ pending'[d] = pending[d]
      BY <1>0, <2>2 DEF Flush, Flushed, Add
    <3>2. LineOf(stream, built[c], c, up[c] \o pending[c], <<>>, events[c])
      BY <1>0, <1>1, FlushInLine
    <3> QED BY <1>0, <1>2, <2>1, <3>1, <3>2, OneLineMoves
  <2>3. CASE UNCHANGED <<up, pending>>
    BY <1>0, <1>1, <1>2, <2>1, <2>3, OneLineMoves
  <2> QED BY <1>4, <2>2, <2>3 DEF SidecarLockState
<1>5. CASE SidecarForwards(c)
  <2>1. UNCHANGED <<up, pending, events>>
    BY <1>5 DEF SidecarForwards, sidecar
  <2> QED BY <1>0, <1>1, <1>2, <2>1, OneLineMoves
<1> QED BY <1>3, <1>4, <1>5

(* The host process and its game: the stream and the head of one line *)
LEMMA HostKeepsLines ==
  ASSUME LinesInv, NEW c \in Clients,
         \/ HostLockRequest(c) \/ HostLockRelease(c) \/ HostOperation(c)
         \/ HostInvalidOperation(c) \/ Leave(c)
  PROVE  Lines'
<1>0. /\ BuildShape /\ c \in Players /\ Host \in Players /\ Host # c /\ Clients \subseteq Players
      /\ up[c] \in Seq(Said) /\ pending[c] \in Seq(Operations) /\ events[c] \in Seq(Said)
      /\ up \in [Clients -> Seq(Said)]
  BY QueuesHere DEF LinesInv, BuildShape
<1>1. LineOf(stream, built[c], c, up[c], pending[c], events[c])
  BY DEF LinesInv, Lines
<1>2. UNCHANGED <<built, pending, events>>
  BY DEF HostLockRequest, HostLockRelease, HostOperation, HostInvalidOperation, Leave, Dropped, game, sidecar
<1>3. CASE HostOperation(c) /\ Accepted(c)
  <2> DEFINE m == Head(up[c])
             op == m.op
  <2>1. up[c] # <<>> /\ m \in Operations /\ op \in AnyOp /\ place[m] = op.n
    BY <1>0, <1>3, NextOperation, Places DEF HostOperation
  <2>2. Submit(c, op) /\ Streamed(c, op) /\ up' = Drop(up, c)
    BY <1>3 DEF HostOperation, Accepted
  <2>3. seq' = seq + 1
    BY <1>0, <2>2, SubmitTyped
  <2>4. m = up[c][1] /\ 1 \in 1..Len(up[c])
    BY <1>0, <2>1, TailOfQueue
  <2>5. op.by = c /\ op.n \in 1..built[c]
    BY <1>1, <2>1, <2>4 DEF LineOf, Sound
  <2>6. \A k \in 1..Len(stream) : stream[k].player = c => stream[k].op.n < op.n
    <3>1. place[m] > 0
      BY <1>0, <2>1, <2>5 DEF AnyOp
    <3> QED BY <1>1, <2>1, <2>4, <3>1 DEF LineOf, Recorded, Above
  <2> HIDE DEF m
  <2>7. /\ NoEcho' /\ BuildersOrder' /\ Enters(stream, stream', c, op)
        /\ \A k \in 1..Len(stream') : stream'[k].op.n \in 1..built'[stream'[k].player]
    BY <1>0, <1>2, <2>1, <2>2, <2>3, <2>5, <2>6, StreamStaysInOrder
  <2>8. up'[c] = Tail(up[c]) /\ \A d \in Clients \ {c} : up'[d] = up[d]
    BY <1>0, <2>2 DEF Drop
  <2>9. LineOf(stream', built[c], c, Tail(up[c]), pending[c], events[c])
    BY <1>0, <1>1, <2>1, <2>7, AcceptInLine DEF m
  <2>10. \A d \in Clients \ {c} : LineOf(stream', built[d], d, up[d], pending[d], events[d])
    BY <2>7, OthersInLine DEF LinesInv, Lines
  <2>11. LineOf(stream', built[Host], Host, <<>>, <<>>, events[Host])
    BY <1>0, <2>7, OthersInLine DEF LinesInv, Lines
  <2>12. \A d \in Clients : LineOf(stream', built'[d], d, up'[d], pending'[d], events'[d])
    BY <1>2, <2>8, <2>9, <2>10
  <2> QED BY <1>2, <2>7, <2>11, <2>12 DEF Lines
<1>4. CASE HostLockRequest(c) \/ HostLockRelease(c) \/ (HostOperation(c) /\ Denied(c))
  <2>1. stream' = stream /\ up' = Drop(up, c) /\ up[c] # <<>>
    BY <1>4 DEF HostLockRequest, HostLockRelease, HostOperation, Denied, HostReads
  <2>2. up'[c] = Tail(up[c]) /\ \A d \in Clients \ {c} : up'[d] = up[d]
    BY <1>0, <2>1 DEF Drop
  <2>3. LineOf(stream, built[c], c, Tail(up[c]), pending[c], events[c])
    BY <1>0, <1>1, <2>1, TalkInLine
  <2> QED BY <1>0, <1>2, <2>1, <2>2, <2>3, OneLineMoves
<1>5. CASE HostInvalidOperation(c) \/ Leave(c)
  <2>1. stream' = stream /\ up' = [up EXCEPT ![c] = <<>>]
    BY <1>5 DEF HostInvalidOperation, Leave, Dropped
  <2>2. up'[c] = <<>> /\ \A d \in Clients \ {c} : up'[d] = up[d]
    BY <1>0, <2>1
  <2>3. LineOf(stream, built[c], c, <<>>, pending[c], events[c])
    BY <1>0, <1>1, TalkInLine
  <2> QED BY <1>0, <1>2, <2>1, <2>2, <2>3, OneLineMoves
<1> QED BY <1>3, <1>4, <1>5 DEF HostOperation

LEMMA HostsGameKeepsLines ==
  ASSUME LinesInv, HostBuilds \/ HostLock \/ Expiry
  PROVE  Lines'
<1>0. /\ BuildShape /\ Host \in Players /\ Clients \subseteq Players /\ Host \notin Clients
      /\ events[Host] \in Seq(Said) /\ events \in [Players -> Seq(Said)] /\ <<>> \in Seq(Said)
  BY QueuesHere DEF LinesInv, BuildShape
<1>1. LineOf(stream, built[Host], Host, <<>>, <<>>, events[Host])
  BY DEF LinesInv, Lines
<1>2. UNCHANGED <<built, pending, up>>
  BY DEF HostBuilds, HostLock, Expiry, game, sidecar, pipes
<1>3. \A d \in Clients : LineOf(stream, built[d], d, up[d], pending[d], events[d])
  BY DEF LinesInv, Lines
<1>4. CASE HostBuilds /\ stream' # stream
  <2> DEFINE m == Head(events[Host])
             op == m.op
  <2>1. events[Host] # <<>> /\ m \in Operations /\ op \in AnyOp /\ place[m] = op.n
    BY <1>0, <1>4, NextOperation, Places DEF HostBuilds
  <2>2. Record(Host, op) /\ Streamed(Host, op) /\ events' = Drop(events, Host)
    BY <1>4 DEF HostBuilds, host
  <2>3. seq' = seq + 1
    BY <2>2 DEF Record
  <2>4. m = events[Host][1] /\ 1 \in 1..Len(events[Host])
    BY <1>0, <2>1, TailOfQueue
  <2>5. op.by = Host /\ op.n \in 1..built[Host]
    BY <1>1, <2>1, <2>4 DEF LineOf, Sound
  <2>6. \A k \in 1..Len(stream) : stream[k].player = Host => stream[k].op.n < op.n
    <3>1. place[m] > 0
      BY <1>0, <2>1, <2>5 DEF AnyOp
    <3> QED BY <1>1, <2>1, <2>4, <3>1 DEF LineOf, Recorded, Above
  <2> HIDE DEF m
  <2>7. /\ NoEcho' /\ BuildersOrder' /\ Enters(stream, stream', Host, op)
        /\ \A k \in 1..Len(stream') : stream'[k].op.n \in 1..built'[stream'[k].player]
    BY <1>0, <1>2, <2>1, <2>2, <2>3, <2>5, <2>6, StreamStaysInOrder
  <2>8. events'[Host] = Tail(events[Host]) /\ \A d \in Clients : events'[d] = events[d]
    BY <1>0, <2>2 DEF Drop
  <2>9. LineOf(stream', built[Host], Host, <<>>, <<>>, Tail(events[Host]))
    BY <1>0, <1>1, <2>1, <2>7, AcceptOfHost DEF m
  <2>10. \A d \in Clients : LineOf(stream', built[d], d, up[d], pending[d], events[d])
    BY <1>0, <1>3, <2>7, OthersInLine
  <2> QED BY <1>2, <2>7, <2>8, <2>9, <2>10 DEF Lines
<1>5. CASE stream' = stream /\ events' = Drop(events, Host) /\ events[Host] # <<>>
  <2>1. events'[Host] = Tail(events[Host]) /\ \A d \in Clients : events'[d] = events[d]
    BY <1>0, <1>5 DEF Drop
  <2>2. LineOf(stream, built[Host], Host, <<>>, <<>>, Tail(events[Host]))
    BY <1>0, <1>1, <1>5, TalkInLine
  <2>3. \A d \in Clients : LineOf(stream, built[d], d, up'[d], pending'[d], events'[d])
    BY <1>2, <1>3, <2>1
  <2> QED BY <1>2, <1>5, <2>1, <2>2, <2>3, LinesStay
<1>6. CASE UNCHANGED <<stream, events>>
  BY <1>1, <1>2, <1>3, <1>6, LinesStay
<1> QED BY <1>4, <1>5, <1>6 DEF HostBuilds, HostLock, Expiry, pipes

-----------------------------------------------------------------------------
(* The stream has every builder's operations in order, and its own only. *)

LEMMA ShapeInit ==
  ASSUME BuildInit
  PROVE  BuildShape
<1>1. /\ <<>> \in Seq(Said) /\ <<>> \in Seq(Told) /\ <<>> \in Seq(Operations)
      /\ <<>> \in Seq(Applications) /\ <<>> \in Seq(AnyOp) /\ <<>> \in Seq(Entries) /\ Len(<<>>) = 0
  OBVIOUS
<1>2. lock \in Leases /\ seq = 0
  BY DEF BuildInit, AuthorityInit, NoLock, Leases
<1> QED BY <1>1, <1>2 DEF BuildInit, BuildShape

LEMMA LinesInit ==
  ASSUME BuildInit
  PROVE  LinesInv
<1>1. BuildShape
  BY ShapeInit
<1>2. <<>> \in Seq(Said) /\ Host \in Players /\ Clients \subseteq Players
  BY <1>1, QueuesHere
<1>3. \A st, b, p : LineOf(st, b, p, <<>>, <<>>, <<>>)
  <2> SUFFICES ASSUME NEW st, NEW b, NEW p PROVE LineOf(st, b, p, <<>>, <<>>, <<>>)
    OBVIOUS
  <2>1. Sound(b, p, <<>>) /\ Recorded(st, p, <<>>)
    BY <1>2, SoundParts, RecordedParts
  <2> QED BY <2>1, ShortQueues DEF LineOf
<1>4. /\ stream = <<>> /\ \A c \in Clients : up[c] = <<>> /\ pending[c] = <<>>
      /\ \A p \in Players : events[p] = <<>>
  BY DEF BuildInit
<1> QED BY <1>1, <1>2, <1>3, <1>4 DEF LinesInv, Lines, NoEcho, BuildersOrder

LEMMA StutterKeepsLines ==
  ASSUME LinesInv, UNCHANGED vars
  PROVE  LinesInv'
BY DEF LinesInv, BuildShape, Lines, NoEcho, BuildersOrder, vars, host, authority, game, pipes, sidecar

LEMMA ShapeStep ==
  ASSUME BuildShape, BuildNext
  PROVE  BuildShape'
BY GamesKeepShape, SidecarsKeepShape, HostKeepsShape, HostsGameKeepsShape DEF BuildNext

LEMMA LinesStep ==
  ASSUME LinesInv, BuildNext
  PROVE  LinesInv'
<1>1. BuildShape'
  BY ShapeStep DEF LinesInv
<1>2. Lines'
  BY BuildKeepsLines, GamesKeepLines, SidecarsKeepLines, HostKeepsLines, HostsGameKeepsLines DEF BuildNext
<1> QED BY <1>1, <1>2 DEF LinesInv

(* What every player built stands in one line from the stream back to the   *)
(* player's game, each operation once and in the order it was built, and    *)
(* nothing anybody else built stands in that line.                          *)
THEOREM BuildLinesInvariant == BuildSpec => []LinesInv
<1>1. BuildInit => LinesInv
  BY LinesInit
<1>2. LinesInv /\ [BuildNext]_vars => LinesInv'
  BY LinesStep, StutterKeepsLines
<1> QED BY <1>1, <1>2, PTL DEF BuildSpec

(* The stream keeps each player's operations in the order they were built,  *)
(* each of them once, whether they waited for the lock or not               *)
(* (pending_build, _flush_build, submit).                                   *)
THEOREM OperationsKeepTheirOrder == BuildSpec => []BuildersOrder
<1>1. LinesInv => BuildersOrder
  BY DEF LinesInv, Lines
<1> QED BY <1>1, BuildLinesInvariant, PTL

(* What a game applies for somebody else never comes back as an operation of *)
(* its own (applying_remote, capture_local).                                 *)
THEOREM ApplicationsDoNotComeBack == BuildSpec => []NoEcho
<1>1. LinesInv => NoEcho
  BY DEF LinesInv, Lines
<1> QED BY <1>1, BuildLinesInvariant, PTL

-----------------------------------------------------------------------------
(* Who holds the lock, as the clients hear it: every connected client will  *)
(* take itself for the holder, once it has read everything, only if it is a. *)

Hears(s, mine, c, a) ==
  /\ \A k \in 1..Len(s) :
       (s[k] \in LockStates /\ \A j \in 1..Len(s) : s[j] \in LockStates => j <= k) => s[k].owner = a
  /\ (\A k \in 1..Len(s) : s[k] \notin LockStates) => (mine => a = c)

Holder(a) == \A c \in Clients : live[c] => Hears(down[c], owns[c], c, a)

Believed == \E a \in Players \cup {Nobody} : Holder(a)

LEMMA HearsMore ==
  ASSUME NEW s \in Seq(Told), NEW mine, NEW c, NEW a, Hears(s, mine, c, a)
  PROVE  \A m \in Told \ LockStates : Hears(s \o <<m>>, mine, c, a)
<1> SUFFICES ASSUME NEW m \in Told \ LockStates PROVE Hears(s \o <<m>>, mine, c, a)
  OBVIOUS
<1>1. Len(s \o <<m>>) = Len(s) + 1 /\ Len(s) \in Nat /\ (s \o <<m>>)[Len(s) + 1] = m
      /\ \A i \in 1..Len(s) : (s \o <<m>>)[i] = s[i]
  OBVIOUS
<1>2. \A i \in 1..(Len(s) + 1) : i \in 1..Len(s) \/ i = Len(s) + 1
  BY <1>1
<1>3. \A i \in 1..Len(s) : i \in 1..(Len(s) + 1)
  BY <1>1
<1> DEFINE t == s \o <<m>>
<1>4. t[Len(s) + 1] \notin LockStates
  BY <1>1
<1>5. Len(t) = Len(s) + 1 /\ \A i \in 1..Len(s) : t[i] = s[i]
  BY <1>1
<1> HIDE DEF t
<1>6. ASSUME NEW k \in 1..Len(t), t[k] \in LockStates, \A j \in 1..Len(t) : t[j] \in LockStates => j <= k
      PROVE  t[k].owner = a
  <2>1. k \in 1..Len(s) /\ t[k] = s[k]
    BY <1>2, <1>4, <1>5, <1>6
  <2>2. \A j \in 1..Len(s) : s[j] \in LockStates => j <= k
    BY <1>3, <1>5, <1>6
  <2> QED BY <1>6, <2>1, <2>2 DEF Hears
<1>7. ASSUME \A k \in 1..Len(t) : t[k] \notin LockStates, mine PROVE a = c
  BY <1>3, <1>5, <1>7 DEF Hears
<1> QED BY <1>6, <1>7 DEF Hears, t

LEMMA HearsNews ==
  ASSUME NEW s \in Seq(Told), NEW mine, NEW c, NEW a \in Players \cup {Nobody}
  PROVE  Hears(s \o <<LockState(a)>>, mine, c, a)
<1> DEFINE m == LockState(a)
           t == s \o <<m>>
<1>1. m \in LockStates /\ m.owner = a
  BY Numbers
<1>2. Len(t) = Len(s) + 1 /\ Len(s) \in Nat /\ t[Len(s) + 1] = m
  BY <1>1
<1>3. Len(s) + 1 \in 1..Len(t) /\ \A k \in 1..Len(t) : Len(s) + 1 <= k => k = Len(s) + 1
  BY <1>2
<1> HIDE DEF t, m
<1> SUFFICES Hears(t, mine, c, a)
  BY DEF t, m
<1> QED BY <1>1, <1>2, <1>3 DEF Hears

LEMMA HearsNext ==
  ASSUME NEW s \in Seq(Told), s # <<>>, NEW mine, NEW c, NEW a, Hears(s, mine, c, a)
  PROVE  /\ Head(s) \notin LockStates => Hears(Tail(s), mine, c, a)
         /\ Head(s) \in LockStates => Hears(Tail(s), Head(s).owner = c, c, a)
<1> DEFINE t == Tail(s)
<1>1. /\ Head(s) = s[1] /\ 1 \in 1..Len(s) /\ Len(t) = Len(s) - 1 /\ Len(s) \in Nat
      /\ \A i \in 1..Len(t) : i + 1 \in 1..Len(s) /\ t[i] = s[i + 1]
      /\ \A i \in 1..Len(s) : i = 1 \/ (i - 1 \in 1..Len(t) /\ t[i - 1] = s[i])
  BY TailOfQueue
<1> HIDE DEF t
<1>2. ASSUME NEW k \in 1..Len(t), t[k] \in LockStates, \A j \in 1..Len(t) : t[j] \in LockStates => j <= k
      PROVE  t[k].owner = a
  <2>1. k + 1 \in 1..Len(s) /\ s[k + 1] \in LockStates /\ s[k + 1] = t[k]
    BY <1>1, <1>2
  <2>2. \A j \in 1..Len(s) : s[j] \in LockStates => j <= k + 1
    BY <1>1, <1>2
  <2> QED BY <2>1, <2>2 DEF Hears
<1>3. ASSUME \A k \in 1..Len(t) : t[k] \notin LockStates
      PROVE  /\ Head(s) \notin LockStates => (mine => a = c)
             /\ Head(s) \in LockStates => Head(s).owner = a
  <2>1. \A j \in 1..Len(s) : s[j] \in LockStates => j = 1
    BY <1>1, <1>3
  <2>2. CASE Head(s) \in LockStates
    BY <1>1, <2>1, <2>2 DEF Hears
  <2>3. CASE Head(s) \notin LockStates
    BY <1>1, <2>1, <2>3 DEF Hears
  <2> QED BY <2>2, <2>3
<1> QED BY <1>2, <1>3 DEF Hears, t

LEMMA BroadcastHeard ==
  ASSUME BuildShape, NEW m \in Told, Broadcast(m), UNCHANGED <<owns, live>>, Believed
  PROVE  (m \notin LockStates \/ m \in {LockState(a) : a \in Players \cup {Nobody}}) => Believed'
<1>1. PICK a \in Players \cup {Nobody} : Holder(a)
  BY DEF Believed
<1>2. ASSUME NEW c \in Clients, live'[c]
      PROVE  live[c] /\ owns'[c] = owns[c] /\ down[c] \in Seq(Told) /\ down'[c] = down[c] \o <<m>>
  <2>1. live[c] /\ owns'[c] = owns[c] /\ down[c] \in Seq(Told)
    BY <1>2 DEF BuildShape
  <2>2. down'[c] = Append(down[c], m)
    BY <2>1 DEF Broadcast
  <2> QED BY <2>1, <2>2, AppendIsConcat
<1>3. CASE m \notin LockStates
  <2>1. ASSUME NEW c \in Clients, live'[c] PROVE Hears(down'[c], owns'[c], c, a)
    <3>1. Hears(down[c], owns[c], c, a)
      BY <1>1, <1>2, <2>1 DEF Holder
    <3>2. Hears(down[c] \o <<m>>, owns[c], c, a)
      BY <1>2, <1>3, <2>1, <3>1, HearsMore
    <3> QED BY <1>2, <2>1, <3>2
  <2> QED BY <2>1 DEF Believed, Holder
<1>4. ASSUME NEW b \in Players \cup {Nobody}, m = LockState(b)
      PROVE  Believed'
  <2>1. ASSUME NEW c \in Clients, live'[c] PROVE Hears(down'[c], owns'[c], c, b)
    <3>1. down[c] \in Seq(Told) /\ down'[c] = down[c] \o <<LockState(b)>>
      BY <1>2, <1>4, <2>1
    <3>2. Hears(down[c] \o <<LockState(b)>>, owns'[c], c, b)
      BY <3>1, HearsNews
    <3> QED BY <3>1, <3>2
  <2> QED BY <2>1 DEF Believed, Holder
<1> QED BY <1>3, <1>4

(* Steps that touch at most what one client hears and believes. *)
LEMMA OneHears ==
  ASSUME Believed, NEW c \in Clients, \A d \in Clients : live'[d] => live[d],
         \A d \in Clients \ {c} : down'[d] = down[d] /\ owns'[d] = owns[d],
         \A a : live[c] /\ live'[c] /\ Hears(down[c], owns[c], c, a) => Hears(down'[c], owns'[c], c, a)
  PROVE  Believed'
<1>1. PICK a \in Players \cup {Nobody} : Holder(a)
  BY DEF Believed
<1>2. \A d \in Clients : live'[d] => Hears(down'[d], owns'[d], d, a)
  BY <1>1 DEF Holder
<1> QED BY <1>2 DEF Believed, Holder

LEMMA SidecarsHear ==
  ASSUME BuildShape, Believed, NEW c \in Clients,
         SidecarEvent(c) \/ SidecarLockState(c) \/ SidecarForwards(c)
  PROVE  Believed'
<1>0. owns \in [Clients -> BOOLEAN] /\ down \in [Clients -> Seq(Told)] /\ down[c] \in Seq(Told)
  BY DEF BuildShape
<1>1. live' = live
  BY DEF SidecarEvent, SidecarLockState, SidecarForwards
<1>2. CASE SidecarEvent(c)
  <2>1. down' = down /\ (owns' = owns \/ owns' = [owns EXCEPT ![c] = FALSE])
    BY <1>2 DEF SidecarEvent
  <2>2. /\ \A d \in Clients \ {c} : down'[d] = down[d] /\ owns'[d] = owns[d]
        /\ \A a : Hears(down[c], owns[c], c, a) => Hears(down'[c], owns'[c], c, a)
    BY <1>0, <2>1 DEF Hears
  <2> QED BY <1>1, <2>2, OneHears
<1>3. CASE SidecarLockState(c)
  <2>1. /\ down[c] # <<>> /\ Head(down[c]).type = "lock_state" /\ down' = Drop(down, c)
        /\ owns' = [owns EXCEPT ![c] = (Head(down[c]).owner = c)]
    BY <1>3 DEF SidecarLockState, OwnsAfter
  <2>2. Head(down[c]) \in LockStates
    BY <1>0, <2>1, DropTyped, Numbers
  <2>3. /\ \A d \in Clients \ {c} : down'[d] = down[d] /\ owns'[d] = owns[d]
        /\ down'[c] = Tail(down[c]) /\ owns'[c] = (Head(down[c]).owner = c)
    BY <1>0, <2>1 DEF Drop
  <2>4. \A a : Hears(down[c], owns[c], c, a) => Hears(down'[c], owns'[c], c, a)
    BY <1>0, <2>1, <2>2, <2>3, HearsNext
  <2> QED BY <1>1, <2>3, <2>4, OneHears
<1>4. CASE SidecarForwards(c)
  <2>1. /\ down[c] # <<>> /\ Head(down[c]).type # "lock_state" /\ down' = Drop(down, c) /\ owns' = owns
    BY <1>4 DEF SidecarForwards, sidecar
  <2>2. Head(down[c]) \notin LockStates
    BY <1>0, <2>1, DropTyped, Numbers
  <2>3. /\ \A d \in Clients \ {c} : down'[d] = down[d] /\ owns'[d] = owns[d]
        /\ down'[c] = Tail(down[c]) /\ owns'[c] = owns[c]
    BY <1>0, <2>1 DEF Drop
  <2>4. \A a : Hears(down[c], owns[c], c, a) => Hears(down'[c], owns'[c], c, a)
    BY <1>0, <2>1, <2>2, <2>3, HearsNext
  <2> QED BY <1>1, <2>3, <2>4, OneHears
<1> QED BY <1>2, <1>3, <1>4

LEMMA HostIsHeard ==
  ASSUME BuildShape, Believed, NEW c \in Clients,
         \/ HostLockRequest(c) \/ HostLockRelease(c) \/ HostOperation(c)
         \/ HostInvalidOperation(c) \/ Leave(c)
  PROVE  Believed'
<1>0. /\ owns \in [Clients -> BOOLEAN] /\ down \in [Clients -> Seq(Told)] /\ down[c] \in Seq(Told)
      /\ live \in [Clients -> BOOLEAN] /\ c \in Players /\ Host \in Players
  BY DEF BuildShape, Clients
<1>1. owns' = owns
  BY DEF HostLockRequest, HostLockRelease, HostOperation, HostInvalidOperation, Leave, Dropped, sidecar
<1>2. CASE HostLockRequest(c) \/ HostLockRelease(c)
  <2>1. lock' \in Leases
    BY <1>0, <1>2, LockTyped DEF HostLockRequest, HostLockRelease
  <2>2. PICK a \in Players \cup {Nobody} : Broadcast(LockState(a)) /\ live' = live
    BY <1>2, <2>1 DEF HostLockRequest, HostLockRelease, Leases
  <2>3. LockState(a) \in Told
    BY Numbers DEF Told
  <2> QED BY <1>1, <2>2, <2>3, BroadcastHeard
<1>3. CASE HostOperation(c) /\ Accepted(c)
  <2> DEFINE op == Head(up[c]).op
             m == Apply(SeqKey(seq'), op)
  <2>1. op \in AnyOp /\ Submit(c, op) /\ Broadcast(m) /\ live' = live
    BY <1>0, <1>3, NextOperation, Places DEF HostOperation, Accepted
  <2>2. seq' \in Nat
    BY <1>0, <2>1, SubmitTyped, SMTT(30) DEF BuildShape
  <2>3. m \in Told /\ m \notin LockStates
    BY <2>1, <2>2, Numbers DEF Applications, LockStates, Apply
  <2> HIDE DEF m
  <2> QED BY <1>1, <2>1, <2>3, BroadcastHeard
<1>4. CASE HostOperation(c) /\ Denied(c)
  <2>1. down' = Add(down, c, <<Error>>) /\ live' = live
    BY <1>4 DEF Denied
  <2>2. Error \in Told \ LockStates
    BY Numbers DEF Error, LockStates
  <2>3. down'[c] = down[c] \o <<Error>> /\ \A d \in Clients \ {c} : down'[d] = down[d]
    BY <1>0, <2>1 DEF Add
  <2>4. \A a : Hears(down[c], owns[c], c, a) => Hears(down'[c], owns'[c], c, a)
    BY <1>0, <1>1, <2>2, <2>3, HearsMore
  <2> QED BY <1>1, <2>1, <2>3, <2>4, OneHears
<1>5. CASE HostInvalidOperation(c) \/ Leave(c)
  <2>1. live' = [live EXCEPT ![c] = FALSE] /\ down' = [down EXCEPT ![c] = <<>>]
    BY <1>5 DEF HostInvalidOperation, Leave, Dropped
  <2>2. ~live'[c] /\ \A d \in Clients \ {c} : down'[d] = down[d] /\ live'[d] = live[d]
    BY <1>0, <2>1
  <2> QED BY <1>1, <2>2, OneHears
<1> QED BY <1>2, <1>3, <1>4, <1>5 DEF HostOperation

LEMMA OthersAreHeard ==
  ASSUME BuildShape, Believed, BuildNext,
         \A c \in Clients : ~(\/ SidecarEvent(c) \/ SidecarLockState(c) \/ SidecarForwards(c)
                              \/ HostLockRequest(c) \/ HostLockRelease(c) \/ HostOperation(c)
                              \/ HostInvalidOperation(c) \/ Leave(c))
  PROVE  Believed'
<1>1. CASE UNCHANGED <<owns, down, live>>
  BY <1>1 DEF Believed, Holder
<1>2. owns' = owns /\ live' = live
  BY DEF BuildNext, Build, EnterBuildMode, ExitBuildMode, ApplyBegin, ApplyEnd, ApplyFails,
         HostBuilds, HostLock, Expiry, sidecar
<1>3. ASSUME NEW p \in Players,
             \/ \E what \in Whats : Build(p, what)
             \/ EnterBuildMode(p) \/ ExitBuildMode(p)
             \/ ApplyBegin(p) \/ ApplyEnd(p) \/ ApplyFails(p)
      PROVE  down' = down
  BY <1>3 DEF Build, EnterBuildMode, ExitBuildMode, ApplyBegin, ApplyEnd, ApplyFails, pipes
<1>4. CASE HostBuilds
  <2> DEFINE op == Head(events[Host]).op
             m == Apply(ContentKey(op), op)
  <2>1. op \in AnyOp
    BY <1>4, NextOperation, Places DEF HostBuilds
  <2>2. m \in Told /\ m \notin LockStates
    BY <2>1, Numbers DEF Applications, LockStates, Apply
  <2>3. Broadcast(m) \/ down' = down
    BY <1>4 DEF HostBuilds
  <2> HIDE DEF m
  <2> QED BY <1>1, <1>2, <2>2, <2>3, BroadcastHeard
<1>5. CASE HostLock
  <2>1. lock' \in Leases
    BY <1>5, LockTyped DEF HostLock
  <2>2. lock'.owner \in Players \cup {Nobody} /\ LockState(lock'.owner) \in Told
    BY <2>1, Numbers DEF Leases, Told
  <2>3. Broadcast(LockState(lock'.owner))
    BY <1>5 DEF HostLock
  <2> QED BY <1>2, <2>2, <2>3, BroadcastHeard
<1>6. CASE Expiry
  BY <1>1, <1>6 DEF Expiry, sidecar, pipes
<1> QED BY <1>1, <1>2, <1>3, <1>4, <1>5, <1>6 DEF BuildNext

LEMMA BelievedInit ==
  ASSUME BuildInit
  PROVE  Believed
<1>1. \A c \in Clients : down[c] = <<>> /\ owns[c] = FALSE
  BY DEF BuildInit
<1>2. Holder(Nobody)
  BY <1>1 DEF Holder, Hears
<1> QED BY <1>2 DEF Believed

(* When nothing is on its way to them, at most one sidecar takes itself for  *)
(* the holder of the lock (owns_build_lock follows the broadcasts): whoever  *)
(* each of them hears of last is the same player for all.                    *)
THEOREM SidecarsAgree == BuildSpec => []OneBeliever
<1> DEFINE Inv == BuildShape /\ Believed
<1>1. BuildInit => Inv
  BY ShapeInit, BelievedInit
<1>2. ASSUME Inv, BuildNext PROVE Inv'
  <2>1. BuildShape'
    BY <1>2, ShapeStep
  <2>2. Believed'
    BY <1>2, SidecarsHear, HostIsHeard, OthersAreHeard
  <2> QED BY <2>1, <2>2
<1>3. Inv /\ UNCHANGED vars => Inv'
  BY DEF BuildShape, Believed, Holder, vars, host, authority, game, pipes, sidecar
<1>4. Inv => OneBeliever
  <2> SUFFICES ASSUME Inv, NEW c \in Connected, NEW d \in Connected,
                      owns[c], owns[d], down[c] = <<>>, down[d] = <<>>
               PROVE  c = d
    BY DEF OneBeliever
  <2>1. PICK a \in Players \cup {Nobody} : Holder(a)
    BY DEF Believed
  <2>2. Hears(<<>>, owns[c], c, a) /\ Hears(<<>>, owns[d], d, a)
    BY <2>1 DEF Holder, Connected
  <2> QED BY <2>2 DEF Hears
<1> HIDE DEF Inv
<1> QED BY <1>1, <1>2, <1>3, <1>4, PTL DEF BuildSpec

-----------------------------------------------------------------------------
(* What the host accepted flows to a player's game: applications on the way  *)
(* to the sidecar (d) and to the game (g), the operation being applied (a),  *)
(* those carried out (dn), the keys seen (sn).                               *)

Foreign(p, op) == op.by \notin {p, Host, Nobody}

Numbered(st, s) ==
  \A i \in 1..Len(s) :
    IF number[s[i]] > 0 THEN number[s[i]] \in 1..Len(st) /\ s[i].op = st[number[s[i]]].op
    ELSE s[i] \in Applications => s[i].op.by = Host

Ahead(n, g, d) == Above(number, n, g) /\ Above(number, n, d)

Ordered(st, p, dn) ==
  \A i, j \in 1..Len(dn) :
    i < j /\ Foreign(p, dn[i]) /\ Foreign(p, dn[j])
      => \E k, l \in 1..Len(st) : k < l /\ st[k].op = dn[i] /\ st[l].op = dn[j]

Carries(st, p, g, d, a) ==
  Foreign(p, a) => \E n \in 1..Len(st) : st[n].op = a /\ Ahead(n, g, d)

Carried(st, p, g, d, a, dn) ==
  \A i \in 1..Len(dn) : Foreign(p, dn[i]) =>
    \E n \in 1..Len(st) :
      /\ st[n].op = dn[i] /\ Ahead(n, g, d)
      /\ Foreign(p, a) => \E k \in 1..Len(st) : n < k /\ st[k].op = a

Flow(st, p, g, d, a, dn, sn) ==
  /\ Numbered(st, g) /\ Numbered(st, d)
  /\ Rising(number, g) /\ Rising(number, d) /\ Below(number, g, d)
  /\ Carries(st, p, g, d, a) /\ Carried(st, p, g, d, a, dn) /\ Ordered(st, p, dn)
  /\ \A n \in Nat : SeqKey(n) \in sn => n <= Len(st) /\ Ahead(n, g, d)

(* Every client's operation the game can apply is somewhere on that way. *)
OnItsWay(n, op, g, d, a, dn) ==
  \/ op = a
  \/ \E i \in 1..Len(dn) : dn[i] = op
  \/ \E i \in 1..Len(g) : number[g[i]] = n
  \/ \E i \in 1..Len(d) : number[d[i]] = n

Arrives(st, p, g, d, a, dn) ==
  \A n \in 1..Len(st) :
    (st[n].player \notin {p, Host} /\ st[n].op.what \notin MayRaise)
      => OnItsWay(n, st[n].op, g, d, a, dn)

(* Messages that may come next when the stream st has become stn *)
Extends(st, stn) ==
  /\ Len(st) \in Nat /\ Len(stn) \in Nat /\ Len(st) <= Len(stn)
  /\ \A n \in 1..Len(st) : stn[n] = st[n]

Fresh(st, stn, m) ==
  /\ m \in Told
  /\ \/ number[m] = 0 /\ (m \in Applications => m.op.by = Host)
     \/ number[m] \in 1..Len(stn) /\ number[m] > Len(st) /\ m.op = stn[number[m]].op

LEMMA NumberedParts ==
  ASSUME NEW st, NEW S, NEW s \in Seq(S)
  PROVE  /\ s # <<>> /\ Numbered(st, s) => Numbered(st, Tail(s)) /\ Numbered(st, <<Head(s)>>)
         /\ \A t \in Seq(S) : Numbered(st, s) /\ Numbered(st, t) => Numbered(st, s \o t)
         /\ Numbered(st, <<>>)
<1>1. ASSUME s # <<>>, Numbered(st, s) PROVE Numbered(st, Tail(s)) /\ Numbered(st, <<Head(s)>>)
  <2>1. /\ Head(s) = s[1] /\ 1 \in 1..Len(s)
        /\ \A i \in 1..Len(Tail(s)) : i + 1 \in 1..Len(s) /\ Tail(s)[i] = s[i + 1]
    BY <1>1, TailOfQueue
  <2>2. Numbered(st, Tail(s))
    BY <1>1, <2>1 DEF Numbered
  <2>3. \A x : Len(<<x>>) = 1 /\ <<x>>[1] = x
    OBVIOUS
  <2>4. Numbered(st, <<Head(s)>>)
    BY <1>1, <2>1, <2>3 DEF Numbered
  <2> QED BY <2>2, <2>4
<1>2. ASSUME NEW t \in Seq(S), Numbered(st, s), Numbered(st, t) PROVE Numbered(st, s \o t)
  <2>1. \A k \in 1..Len(s \o t) : \/ k \in 1..Len(s) /\ (s \o t)[k] = s[k]
                                  \/ k - Len(s) \in 1..Len(t) /\ (s \o t)[k] = t[k - Len(s)]
    BY PartsOfQueue
  <2> QED BY <1>2, <2>1 DEF Numbered
<1> QED BY <1>1, <1>2, SMTT(40) DEF Numbered

LEMMA AheadParts ==
  ASSUME NEW g \in Seq(Told), NEW d \in Seq(Told), NEW n
  PROVE  /\ g # <<>> /\ Ahead(n, g, d) => /\ Ahead(n, Tail(g), d)
                                          /\ number[Head(g)] > 0 => n < number[Head(g)]
         /\ d # <<>> /\ Ahead(n, g, d) => Ahead(n, g, Tail(d)) /\ Ahead(n, g \o <<Head(d)>>, Tail(d))
         /\ \A m \in Told : Ahead(n, g, d) /\ (number[m] > 0 => n < number[m])
                              => Ahead(n, g \o <<m>>, d) /\ Ahead(n, g, d \o <<m>>)
         /\ Ahead(n, g, d) => Ahead(n, g, <<>>)
<1>1. ASSUME g # <<>>, Ahead(n, g, d)
      PROVE  Ahead(n, Tail(g), d) /\ (number[Head(g)] > 0 => n < number[Head(g)])
  BY <1>1, BelowTail DEF Ahead
<1>2. ASSUME d # <<>>, Ahead(n, g, d)
      PROVE  Ahead(n, g, Tail(d)) /\ Ahead(n, g \o <<Head(d)>>, Tail(d))
  <2>1. Above(number, n, Tail(d)) /\ (number[Head(d)] > 0 => n < number[Head(d)])
    BY <1>2, BelowTail DEF Ahead
  <2>2. Above(number, n, <<Head(d)>>) /\ <<Head(d)>> \in Seq(Told)
    BY <1>2, <2>1, ShortQueues, TailOfQueue, OneTyped
  <2>3. Above(number, n, g \o <<Head(d)>>)
    BY <1>2, <2>2, BelowConcat DEF Ahead
  <2> QED BY <1>2, <2>1, <2>3 DEF Ahead
<1>3. ASSUME NEW m \in Told, Ahead(n, g, d), number[m] > 0 => n < number[m]
      PROVE  Ahead(n, g \o <<m>>, d) /\ Ahead(n, g, d \o <<m>>)
  <2>1. Above(number, n, <<m>>) /\ <<m>> \in Seq(Told)
    BY <1>3, ShortQueues, OneTyped
  <2>2. Above(number, n, g \o <<m>>) /\ Above(number, n, d \o <<m>>)
    BY <1>3, <2>1, BelowConcat DEF Ahead
  <2> QED BY <1>3, <2>2 DEF Ahead
<1>4. ASSUME Ahead(n, g, d) PROVE Ahead(n, g, <<>>)
  BY <1>4, ShortQueues DEF Ahead
<1> QED BY <1>1, <1>2, <1>3, <1>4

(* Whatever is ahead of the queues stays so in other queues: the part of a   *)
(* flow that is about the operations of the game.                            *)
LEMMA FlowInOtherQueues ==
  ASSUME NEW st, NEW stn, Extends(st, stn), NEW p, NEW g, NEW d, NEW gn, NEW dd, NEW a, NEW dn, NEW sn,
         Flow(st, p, g, d, a, dn, sn),
         \A n \in Nat : n <= Len(st) /\ Ahead(n, g, d) => Ahead(n, gn, dd),
         Numbered(stn, gn), Numbered(stn, dd), Rising(number, gn), Rising(number, dd), Below(number, gn, dd)
  PROVE  Flow(stn, p, gn, dd, a, dn, sn)
<1>1. \A n \in 1..Len(st) : n \in 1..Len(stn) /\ stn[n] = st[n] /\ n \in Nat /\ n <= Len(st)
  BY DEF Extends
<1>2. Carries(stn, p, gn, dd, a)
  BY <1>1 DEF Flow, Carries
<1>3. Carried(stn, p, gn, dd, a, dn)
  <2> SUFFICES ASSUME NEW i \in 1..Len(dn), Foreign(p, dn[i])
               PROVE  \E n \in 1..Len(stn) :
                        /\ stn[n].op = dn[i] /\ Ahead(n, gn, dd)
                        /\ Foreign(p, a) => \E k \in 1..Len(stn) : n < k /\ stn[k].op = a
    BY DEF Carried
  <2>1. PICK n \in 1..Len(st) :
               /\ st[n].op = dn[i] /\ Ahead(n, g, d)
               /\ Foreign(p, a) => \E k \in 1..Len(st) : n < k /\ st[k].op = a
    BY DEF Flow, Carried
  <2>2. stn[n].op = dn[i] /\ Ahead(n, gn, dd) /\ n \in 1..Len(stn)
    BY <1>1, <2>1
  <2>3. Foreign(p, a) => \E k \in 1..Len(stn) : n < k /\ stn[k].op = a
    BY <1>1, <2>1
  <2> QED BY <2>2, <2>3
<1>4. Ordered(stn, p, dn)
  <2> SUFFICES ASSUME NEW i \in 1..Len(dn), NEW j \in 1..Len(dn), i < j, Foreign(p, dn[i]), Foreign(p, dn[j])
               PROVE  \E k, l \in 1..Len(stn) : k < l /\ stn[k].op = dn[i] /\ stn[l].op = dn[j]
    BY DEF Ordered
  <2>1. PICK k \in 1..Len(st), l \in 1..Len(st) : k < l /\ st[k].op = dn[i] /\ st[l].op = dn[j]
    BY DEF Flow, Ordered
  <2> QED BY <1>1, <2>1
<1>5. \A n \in Nat : SeqKey(n) \in sn => n <= Len(stn) /\ Ahead(n, gn, dd)
  BY DEF Flow, Extends
<1> QED BY <1>2, <1>3, <1>4, <1>5 DEF Flow

(* The stream grows and the next message is sent, or none. *)
LEMMA FlowGrows ==
  ASSUME NEW st, NEW stn, Extends(st, stn), NEW p, NEW g \in Seq(Told), NEW d \in Seq(Told),
         NEW a, NEW dn, NEW sn, Flow(st, p, g, d, a, dn, sn)
  PROVE  /\ Flow(stn, p, g, d, a, dn, sn) /\ Flow(stn, p, g, <<>>, a, dn, sn)
         /\ \A m : Fresh(st, stn, m) => /\ Flow(stn, p, g, d \o <<m>>, a, dn, sn)
                                        /\ d = <<>> => Flow(stn, p, g \o <<m>>, <<>>, a, dn, sn)
<1>1. Numbered(stn, g) /\ Numbered(stn, d)
  BY SMTT(30) DEF Flow, Numbered, Extends
<1>2. Rising(number, <<>>) /\ Below(number, g, <<>>) /\ Numbered(stn, <<>>)
  BY ShortQueues, NumberedParts
<1>0. Rising(number, g) /\ Rising(number, d) /\ Below(number, g, d)
  BY DEF Flow
<1>3. Flow(stn, p, g, d, a, dn, sn)
  BY <1>0, <1>1, FlowInOtherQueues
<1>4. Flow(stn, p, g, <<>>, a, dn, sn)
  <2>1. \A n \in Nat : n <= Len(st) /\ Ahead(n, g, d) => Ahead(n, g, <<>>)
    BY AheadParts
  <2> QED BY <1>0, <1>1, <1>2, <2>1, FlowInOtherQueues
<1>5. ASSUME NEW m, Fresh(st, stn, m)
      PROVE  /\ Flow(stn, p, g, d \o <<m>>, a, dn, sn)
             /\ d = <<>> => Flow(stn, p, g \o <<m>>, <<>>, a, dn, sn)
  <2>1. m \in Told /\ <<m>> \in Seq(Told) /\ number[m] \in Nat
    BY <1>5, OneTyped, Numbers DEF Fresh
  <2>2. \A n \in Nat : n <= Len(st) /\ number[m] > 0 => n < number[m]
    BY <1>5, <2>1 DEF Fresh, Extends
  <2>3. Numbered(stn, <<m>>) /\ Rising(number, <<m>>)
    <3>1. Len(<<m>>) = 1 /\ <<m>>[1] = m
      OBVIOUS
    <3>2. Numbered(stn, <<m>>)
      BY <1>5, <3>1 DEF Numbered, Fresh, Extends
    <3> QED BY <3>2, ShortQueues
  <2>4. ASSUME NEW s \in Seq(Told), Numbered(st, s)
        PROVE  Below(number, s, <<m>>)
    <3>1. ASSUME NEW i \in 1..Len(s), number[s[i]] > 0, number[m] > 0 PROVE number[s[i]] < number[m]
      <4>1. number[s[i]] \in Nat /\ number[s[i]] <= Len(st)
        BY <2>4, <3>1 DEF Numbered, Extends
      <4> QED BY <2>2, <3>1, <4>1
    <3> QED BY <3>1, ShortQueues
  <2>5. Below(number, g, <<m>>) /\ Below(number, d, <<m>>)
    BY <2>4 DEF Flow
  <2>6. Flow(stn, p, g, d \o <<m>>, a, dn, sn)
    <3>1. Rising(number, d \o <<m>>) /\ Below(number, g, d \o <<m>>) /\ Numbered(stn, d \o <<m>>)
      BY <1>0, <1>1, <2>1, <2>3, <2>5, RisingConcat, BelowConcat, NumberedParts
    <3>2. \A n \in Nat : n <= Len(st) /\ Ahead(n, g, d) => Ahead(n, g, d \o <<m>>)
      BY <2>1, <2>2, AheadParts
    <3> QED BY <1>0, <1>1, <3>1, <3>2, FlowInOtherQueues
  <2>7. d = <<>> => Flow(stn, p, g \o <<m>>, <<>>, a, dn, sn)
    <3>1. Rising(number, g \o <<m>>) /\ Numbered(stn, g \o <<m>>)
      BY <1>1, <2>1, <2>3, <2>5, RisingConcat, NumberedParts DEF Flow
    <3>2. \A n \in Nat : n <= Len(st) /\ Ahead(n, g, d) => Ahead(n, g \o <<m>>, d)
      BY <2>1, <2>2, AheadParts
    <3>3. Below(number, g \o <<m>>, <<>>)
      BY ShortQueues
    <3>4. ASSUME d = <<>> PROVE Flow(stn, p, g \o <<m>>, <<>>, a, dn, sn)
      <4>1. \A n \in Nat : n <= Len(st) /\ Ahead(n, g, d) => Ahead(n, g \o <<m>>, <<>>)
        BY <3>2, <3>4
      <4> QED BY <1>2, <3>1, <3>3, <4>1, FlowInOtherQueues
    <3> QED BY <3>4
  <2> QED BY <2>6, <2>7
<1> QED BY <1>3, <1>4, <1>5

LEMMA ExtendsItself ==
  ASSUME NEW S, NEW st \in Seq(S)
  PROVE  Extends(st, st)
BY DEF Extends

(* The sidecar reads its next message: forwards it or not. *)
LEMMA FlowForwards ==
  ASSUME NEW S, NEW st \in Seq(S), NEW p, NEW g \in Seq(Told), NEW d \in Seq(Told), d # <<>>,
         NEW a, NEW dn, NEW sn, Flow(st, p, g, d, a, dn, sn)
  PROVE  /\ Flow(st, p, g, Tail(d), a, dn, sn)
         /\ Flow(st, p, g \o <<Head(d)>>, Tail(d), a, dn, sn)
<1> DEFINE h == Head(d)
<1>1. Tail(d) \in Seq(Told) /\ h \in Told /\ <<h>> \in Seq(Told) /\ Extends(st, st)
  BY TailOfQueue, OneTyped, ExtendsItself
<1>2. Rising(number, Tail(d)) /\ Numbered(st, Tail(d)) /\ Numbered(st, <<h>>) /\ Below(number, g, Tail(d))
  BY RisingTail, NumberedParts, BelowTail DEF Flow
<1>3. Below(number, <<h>>, Tail(d)) /\ Rising(number, <<h>>)
  BY RisingTail, ShortQueues DEF Flow
<1>4. Below(number, g, <<h>>)
  <2>1. h = d[1] /\ 1 \in 1..Len(d)
    BY TailOfQueue
  <2>2. \A i \in 1..Len(g) : number[g[i]] > 0 /\ number[h] > 0 => number[g[i]] < number[h]
    BY <2>1 DEF Flow, Below
  <2> HIDE DEF h
  <2> QED BY <2>2, ShortQueues
<1>5. \A n \in Nat : n <= Len(st) /\ Ahead(n, g, d) => Ahead(n, g, Tail(d)) /\ Ahead(n, g \o <<h>>, Tail(d))
  BY AheadParts
<1> HIDE DEF h
<1>6. Flow(st, p, g, Tail(d), a, dn, sn)
  BY <1>1, <1>2, <1>5, FlowInOtherQueues DEF Flow
<1>7. Rising(number, g \o <<h>>) /\ Numbered(st, g \o <<h>>) /\ Below(number, g \o <<h>>, Tail(d))
  BY <1>1, <1>2, <1>3, <1>4, RisingConcat, NumberedParts, BelowConcat DEF Flow
<1>8. Flow(st, p, g \o <<h>>, Tail(d), a, dn, sn)
  BY <1>1, <1>2, <1>5, <1>7, FlowInOtherQueues
<1> QED BY <1>6, <1>8 DEF h

(* The game takes the next application. *)
LEMMA FlowBegins ==
  ASSUME NEW S, NEW st \in Seq(S), NEW p, NEW g \in Seq(Applications), NEW d \in Seq(Told), g # <<>>,
         NEW a, ~Foreign(p, a), NEW dn, NEW sn, Flow(st, p, g, d, a, dn, sn)
  PROVE  /\ Flow(st, p, Tail(g), d, a, dn, sn \cup {Head(g).key})
         /\ Flow(st, p, Tail(g), d, Head(g).op, dn, sn \cup {Head(g).key})
<1> DEFINE m == Head(g)
<1>0. g \in Seq(Told) /\ Extends(st, st)
  BY ExtendsItself DEF Told
<1>1. Tail(g) \in Seq(Told) /\ m \in Applications /\ m = g[1] /\ 1 \in 1..Len(g)
  BY <1>0, TailOfQueue
<1>2. Rising(number, Tail(g)) /\ Numbered(st, Tail(g)) /\ Below(number, Tail(g), d)
  BY <1>0, RisingTail, NumberedParts, BelowTail DEF Flow
<1>3. number[m] > 0 => Ahead(number[m], Tail(g), d)
  BY <1>0, RisingTail, BelowTail DEF Flow, Ahead
<1>4. \A n : Ahead(n, g, d) => Ahead(n, Tail(g), d) /\ (number[m] > 0 => n < number[m])
  BY <1>0, AheadParts
<1>5. Flow(st, p, Tail(g), d, a, dn, sn)
  <2>1. Rising(number, d) /\ Numbered(st, d)
    BY DEF Flow
  <2>2. \A n \in Nat : n <= Len(st) /\ Ahead(n, g, d) => Ahead(n, Tail(g), d)
    BY <1>4
  <2> HIDE DEF m
  <2> QED BY <1>0, <1>2, <2>1, <2>2, FlowInOtherQueues
<1>6. IF number[m] > 0 THEN number[m] \in 1..Len(st) /\ m.op = st[number[m]].op ELSE m.op.by = Host
  BY <1>1 DEF Flow, Numbered
<1>7. number[m] \in Nat /\ Len(st) \in Nat
  BY <1>1, Numbers
<1>8. \A n \in Nat : SeqKey(n) \in sn \cup {m.key} => n <= Len(st) /\ Ahead(n, Tail(g), d)
  <2> SUFFICES ASSUME NEW n \in Nat, m.key = SeqKey(n)
               PROVE  n <= Len(st) /\ Ahead(n, Tail(g), d)
    BY <1>5 DEF Flow
  <2>1. number[m] = n
    BY <1>1 DEF number, SeqKey, Told, Applications
  <2>2. CASE n > 0
    BY <1>3, <1>6, <1>7, <2>1, <2>2
  <2>3. CASE n = 0
    <3>1. \A s : Above(number, 0, s)
      BY DEF Above
    <3> QED BY <1>7, <2>3, <3>1 DEF Ahead
  <2> QED BY <2>2, <2>3
<1>9. Flow(st, p, Tail(g), d, a, dn, sn \cup {m.key})
  BY <1>5, <1>8 DEF Flow
<1>10. Carries(st, p, Tail(g), d, m.op)
  BY <1>3, <1>6 DEF Carries, Foreign
<1>11. Carried(st, p, Tail(g), d, m.op, dn)
  <2> SUFFICES ASSUME NEW i \in 1..Len(dn), Foreign(p, dn[i])
               PROVE  \E n \in 1..Len(st) :
                        /\ st[n].op = dn[i] /\ Ahead(n, Tail(g), d)
                        /\ Foreign(p, m.op) => \E k \in 1..Len(st) : n < k /\ st[k].op = m.op
    BY DEF Carried
  <2>1. PICK n \in 1..Len(st) : st[n].op = dn[i] /\ Ahead(n, g, d)
    BY DEF Flow, Carried
  <2>2. Ahead(n, Tail(g), d) /\ (number[m] > 0 => n < number[m])
    BY <1>4, <2>1
  <2>3. ASSUME Foreign(p, m.op)
        PROVE  \E k \in 1..Len(st) : n < k /\ st[k].op = m.op
    <3>1. number[m] > 0
      BY <1>6, <2>3 DEF Foreign
    <3> QED BY <1>6, <2>2, <3>1
  <2> QED BY <2>1, <2>2, <2>3
<1> HIDE DEF m
<1>12. Flow(st, p, Tail(g), d, m.op, dn, sn \cup {m.key})
  BY <1>9, <1>10, <1>11 DEF Flow
<1> QED BY <1>9, <1>12 DEF m

(* The game carries out what it builds, what it applies, or fails to. *)
LEMMA FlowEnds ==
  ASSUME NEW st, NEW p, NEW g, NEW d, NEW a, NEW dn \in Seq(AnyOp), NEW sn, Flow(st, p, g, d, a, dn, sn)
  PROVE  /\ Flow(st, p, g, d, Idle, dn, sn)
         /\ a \in AnyOp => Flow(st, p, g, d, Idle, dn \o <<a>>, sn)
         /\ \A op \in AnyOp : op.by = p => Flow(st, p, g, d, a, dn \o <<op>>, sn)
<1>1. ~Foreign(p, Idle)
  BY DEF Foreign, Idle
<1>2. Carries(st, p, g, d, Idle)
  BY <1>1 DEF Carries
<1>3. Carried(st, p, g, d, Idle, dn)
  BY <1>1 DEF Flow, Carried
<1>4. Flow(st, p, g, d, Idle, dn, sn)
  BY <1>2, <1>3 DEF Flow
<1>5. ASSUME NEW op \in AnyOp
      PROVE  /\ Len(dn \o <<op>>) = Len(dn) + 1 /\ Len(dn) \in Nat /\ (dn \o <<op>>)[Len(dn) + 1] = op
             /\ \A i \in 1..Len(dn \o <<op>>) : \/ i \in 1..Len(dn) /\ (dn \o <<op>>)[i] = dn[i]
                                                \/ i = Len(dn) + 1 /\ (dn \o <<op>>)[i] = op
  OBVIOUS
<1>6. ASSUME a \in AnyOp
      PROVE  Flow(st, p, g, d, Idle, dn \o <<a>>, sn)
  <2> DEFINE t == dn \o <<a>>
  <2>0. /\ Len(t) = Len(dn) + 1 /\ Len(dn) \in Nat
        /\ \A i \in 1..Len(t) : \/ i \in 1..Len(dn) /\ t[i] = dn[i]
                                \/ i = Len(dn) + 1 /\ t[i] = a
    BY <1>5, <1>6
  <2> HIDE DEF t
  <2>1. Carried(st, p, g, d, Idle, t)
    <3> SUFFICES ASSUME NEW i \in 1..Len(t), Foreign(p, t[i])
                 PROVE  \E n \in 1..Len(st) : st[n].op = t[i] /\ Ahead(n, g, d)
      BY <1>1 DEF Carried
    <3>1. CASE i \in 1..Len(dn) /\ t[i] = dn[i]
      BY <3>1 DEF Flow, Carried
    <3>2. CASE t[i] = a
      BY <3>2 DEF Flow, Carries
    <3> QED BY <2>0, <3>1, <3>2
  <2>2. Ordered(st, p, t)
    <3> SUFFICES ASSUME NEW i \in 1..Len(t), NEW j \in 1..Len(t), i < j, Foreign(p, t[i]), Foreign(p, t[j])
                 PROVE  \E k, l \in 1..Len(st) : k < l /\ st[k].op = t[i] /\ st[l].op = t[j]
      BY DEF Ordered
    <3>1. i \in 1..Len(dn) /\ t[i] = dn[i]
      BY <2>0
    <3>2. CASE j \in 1..Len(dn) /\ t[j] = dn[j]
      BY <3>1, <3>2 DEF Flow, Ordered
    <3>3. CASE t[j] = a
      BY <3>1, <3>3 DEF Flow, Carried
    <3> QED BY <2>0, <3>2, <3>3
  <2> QED BY <1>2, <2>1, <2>2 DEF Flow, t
<1>7. ASSUME NEW op \in AnyOp, op.by = p
      PROVE  Flow(st, p, g, d, a, dn \o <<op>>, sn)
  <2> DEFINE t == dn \o <<op>>
  <2>0. /\ Len(t) = Len(dn) + 1 /\ Len(dn) \in Nat
        /\ \A i \in 1..Len(t) : \/ i \in 1..Len(dn) /\ t[i] = dn[i]
                                \/ i = Len(dn) + 1 /\ t[i] = op
    BY <1>5
  <2> HIDE DEF t
  <2>1. \A i \in 1..Len(t) : Foreign(p, t[i]) => i \in 1..Len(dn) /\ t[i] = dn[i]
    BY <1>7, <2>0 DEF Foreign
  <2>2. Carried(st, p, g, d, a, t)
    BY <2>1 DEF Flow, Carried
  <2>3. Ordered(st, p, t)
    BY <2>1 DEF Flow, Ordered
  <2> QED BY <2>2, <2>3 DEF Flow, t
<1> QED BY <1>4, <1>6, <1>7

(* The message with a new number goes to everybody; the host's operations   *)
(* have none.                                                               *)
Sent(st, stn, p, m) ==
  \A n \in 1..Len(stn) : n \in 1..Len(st) \/ number[m] = n \/ stn[n].player \in {p, Host}

LEMMA ArrivesGrows ==
  ASSUME NEW st, NEW stn, Extends(st, stn), NEW p, NEW g \in Seq(Told), NEW d \in Seq(Told),
         NEW a, NEW dn, Arrives(st, p, g, d, a, dn), NEW m \in Told, Sent(st, stn, p, m)
  PROVE  /\ Arrives(stn, p, g, d \o <<m>>, a, dn)
         /\ d = <<>> => Arrives(stn, p, g \o <<m>>, <<>>, a, dn)
<1>1. <<m>> \in Seq(Told) /\ 1 \in 1..Len(<<m>>) /\ <<m>>[1] = m
  OBVIOUS
<1>2. ASSUME NEW s \in Seq(Told)
      PROVE  /\ \A i \in 1..Len(s) : i \in 1..Len(s \o <<m>>) /\ (s \o <<m>>)[i] = s[i]
             /\ Len(s) + 1 \in 1..Len(s \o <<m>>) /\ (s \o <<m>>)[Len(s) + 1] = m
  BY <1>1, PartsOfQueue
<1>3. ASSUME NEW n \in 1..Len(stn), stn[n].player \notin {p, Host}, stn[n].op.what \notin MayRaise
      PROVE  \/ number[m] = n
             \/ stn[n].op = a \/ \E i \in 1..Len(dn) : dn[i] = stn[n].op
             \/ \E i \in 1..Len(g) : number[g[i]] = n
             \/ \E i \in 1..Len(d) : number[d[i]] = n
  <2>1. n \in 1..Len(st) \/ number[m] = n
    BY <1>3 DEF Sent
  <2>2. n \in 1..Len(st) => stn[n] = st[n]
    BY DEF Extends
  <2> QED BY <1>3, <2>1, <2>2 DEF Arrives, OnItsWay
<1>4. Arrives(stn, p, g, d \o <<m>>, a, dn)
  <2> SUFFICES ASSUME NEW n \in 1..Len(stn), stn[n].player \notin {p, Host}, stn[n].op.what \notin MayRaise
               PROVE  OnItsWay(n, stn[n].op, g, d \o <<m>>, a, dn)
    BY DEF Arrives
  <2>1. (\E i \in 1..Len(d) : number[d[i]] = n) \/ number[m] = n
          => \E i \in 1..Len(d \o <<m>>) : number[(d \o <<m>>)[i]] = n
    BY <1>2
  <2> QED BY <1>3, <2>1 DEF OnItsWay
<1>5. ASSUME d = <<>> PROVE Arrives(stn, p, g \o <<m>>, <<>>, a, dn)
  <2> SUFFICES ASSUME NEW n \in 1..Len(stn), stn[n].player \notin {p, Host}, stn[n].op.what \notin MayRaise
               PROVE  OnItsWay(n, stn[n].op, g \o <<m>>, <<>>, a, dn)
    BY DEF Arrives
  <2>1. (\E i \in 1..Len(g) : number[g[i]] = n) \/ number[m] = n
          => \E i \in 1..Len(g \o <<m>>) : number[(g \o <<m>>)[i]] = n
    BY <1>2
  <2> QED BY <1>3, <1>5, <2>1 DEF OnItsWay
<1> QED BY <1>4, <1>5

LEMMA ArrivesForwards ==
  ASSUME NEW st, NEW p, NEW g \in Seq(Told), NEW d \in Seq(Told), d # <<>>,
         NEW a, NEW dn, Arrives(st, p, g, d, a, dn)
  PROVE  /\ Head(d) \notin Applications => Arrives(st, p, g, Tail(d), a, dn)
         /\ Arrives(st, p, g \o <<Head(d)>>, Tail(d), a, dn)
<1> DEFINE h == Head(d)
           t == Tail(d)
<1>1. /\ h \in Told /\ h = d[1] /\ <<h>> \in Seq(Told) /\ 1 \in 1..Len(<<h>>) /\ <<h>>[1] = h
      /\ \A i \in 1..Len(d) : i = 1 \/ (i - 1 \in 1..Len(t) /\ t[i - 1] = d[i])
  BY TailOfQueue, OneTyped
<1>2. /\ \A i \in 1..Len(g) : i \in 1..Len(g \o <<h>>) /\ (g \o <<h>>)[i] = g[i]
      /\ Len(g) + 1 \in 1..Len(g \o <<h>>) /\ (g \o <<h>>)[Len(g) + 1] = h
  BY <1>1, PartsOfQueue
<1> HIDE DEF h, t
<1>3. \A n : (\E i \in 1..Len(d) : number[d[i]] = n) => number[h] = n \/ \E i \in 1..Len(t) : number[t[i]] = n
  BY <1>1
<1>4. \A n : (\E i \in 1..Len(g) : number[g[i]] = n) \/ number[h] = n
               => \E i \in 1..Len(g \o <<h>>) : number[(g \o <<h>>)[i]] = n
  BY <1>2
<1>5. Arrives(st, p, g \o <<h>>, t, a, dn)
  BY <1>3, <1>4 DEF Arrives, OnItsWay
<1>6. ASSUME h \notin Applications PROVE Arrives(st, p, g, t, a, dn)
  <2>1. \A n \in 1..Len(st) : number[h] # n
    BY <1>1, <1>6, Numbers
  <2> QED BY <1>3, <2>1 DEF Arrives, OnItsWay
<1> QED BY <1>5, <1>6 DEF h, t

(* An operation with a number is never taken for one the game has seen. *)
LEMMA ArrivesBegins ==
  ASSUME NEW st \in Seq(Entries), NEW p, NEW g \in Seq(Applications), NEW d \in Seq(Told), g # <<>>,
         NEW dn, NEW sn, Flow(st, p, g, d, Idle, dn, sn), Arrives(st, p, g, d, Idle, dn)
  PROVE  /\ Head(g).key \in sn => Arrives(st, p, Tail(g), d, Idle, dn)
         /\ Arrives(st, p, Tail(g), d, Head(g).op, dn)
<1> DEFINE m == Head(g)
           t == Tail(g)
<1>1. /\ g \in Seq(Told) /\ m \in Applications /\ m = g[1] /\ 1 \in 1..Len(g)
      /\ \A i \in 1..Len(g) : i = 1 \/ (i - 1 \in 1..Len(t) /\ t[i - 1] = g[i])
  BY TailOfQueue DEF Told
<1>2. number[m] > 0 => m.op = st[number[m]].op /\ m.key = SeqKey(number[m]) /\ number[m] \in Nat
  BY <1>1, Numbers DEF Flow, Numbered
<1>3. m.key \in sn => ~(number[m] > 0)
  <2>1. \A n \in Nat : SeqKey(n) \in sn /\ number[m] > 0 => n < number[m]
    BY <1>1 DEF Flow, Ahead, Above
  <2> QED BY <1>2, <2>1
<1>4. \A n \in 1..Len(st) : st[n].op # Idle
  <2>1. \A n \in 1..Len(st) : st[n] \in Entries
    BY ElementOfSeq
  <2>2. \A n \in 1..Len(st) : st[n].op \in AnyOp
    BY <2>1 DEF Entries
  <2> QED BY <2>2 DEF AnyOp, Idle
<1> HIDE DEF m, t
<1>5. \A n : (\E i \in 1..Len(g) : number[g[i]] = n) => number[m] = n \/ \E i \in 1..Len(t) : number[t[i]] = n
  BY <1>1
<1>6. \A n \in 1..Len(st) : n > 0
  OBVIOUS
<1>7. m.key \in sn => Arrives(st, p, t, d, Idle, dn)
  BY <1>3, <1>5, <1>6 DEF Arrives, OnItsWay
<1>8. Arrives(st, p, t, d, m.op, dn)
  <2> SUFFICES ASSUME NEW n \in 1..Len(st), st[n].player \notin {p, Host}, st[n].op.what \notin MayRaise
               PROVE  OnItsWay(n, st[n].op, t, d, m.op, dn)
    BY DEF Arrives
  <2>1. OnItsWay(n, st[n].op, g, d, Idle, dn)
    BY DEF Arrives
  <2>2. number[m] = n => st[n].op = m.op
    BY <1>2, <1>6
  <2> QED BY <1>4, <1>5, <2>1, <2>2 DEF OnItsWay
<1> QED BY <1>7, <1>8 DEF m, t

LEMMA ArrivesEnds ==
  ASSUME NEW st, NEW p, NEW g, NEW d, NEW a, NEW dn \in Seq(AnyOp), Arrives(st, p, g, d, a, dn)
  PROVE  /\ a.what \in MayRaise => Arrives(st, p, g, d, Idle, dn)
         /\ a \in AnyOp => Arrives(st, p, g, d, Idle, dn \o <<a>>)
         /\ \A op \in AnyOp : Arrives(st, p, g, d, a, dn \o <<op>>)
<1>1. ASSUME NEW op \in AnyOp
      PROVE  /\ \A i \in 1..Len(dn) : i \in 1..Len(dn \o <<op>>) /\ (dn \o <<op>>)[i] = dn[i]
             /\ Len(dn) + 1 \in 1..Len(dn \o <<op>>) /\ (dn \o <<op>>)[Len(dn) + 1] = op
  OBVIOUS
<1>2. ASSUME NEW op \in AnyOp
      PROVE  \A x : (\E i \in 1..Len(dn) : dn[i] = x) \/ x = op => \E i \in 1..Len(dn \o <<op>>) : (dn \o <<op>>)[i] = x
  BY <1>1
<1>3. a.what \in MayRaise => Arrives(st, p, g, d, Idle, dn)
  BY DEF Arrives, OnItsWay
<1>4. ASSUME a \in AnyOp
      PROVE  Arrives(st, p, g, d, Idle, dn \o <<a>>)
  <2>1. \A x : (\E i \in 1..Len(dn) : dn[i] = x) \/ x = a
               => \E i \in 1..Len(dn \o <<a>>) : (dn \o <<a>>)[i] = x
    BY <1>2, <1>4
  <2>2. ASSUME NEW n, NEW x, OnItsWay(n, x, g, d, a, dn)
        PROVE  OnItsWay(n, x, g, d, Idle, dn \o <<a>>)
    BY <2>1, <2>2 DEF OnItsWay
  <2> QED BY <2>2 DEF Arrives
<1>5. \A op \in AnyOp : Arrives(st, p, g, d, a, dn \o <<op>>)
  BY <1>2 DEF Arrives, OnItsWay
<1> QED BY <1>3, <1>4, <1>5

LEMMA ArrivesWithHosts ==
  ASSUME NEW st, NEW stn, Extends(st, stn), NEW p, NEW g, NEW d, NEW a, NEW dn, Arrives(st, p, g, d, a, dn),
         \A n \in 1..Len(stn) : n \in 1..Len(st) \/ stn[n].player \in {p, Host}
  PROVE  Arrives(stn, p, g, d, a, dn)
BY DEF Arrives, Extends

-----------------------------------------------------------------------------
(* Every step keeps the flow to every player. *)

heard == [p \in Players |-> IF p \in Clients THEN down[p] ELSE <<>>]
Reached(p) == p = Host \/ live[p]

FlowTo(p) == Flow(stream, p, toGame[p], heard[p], applying[p], done[p], seen[p])
ArrivesAt(p) == Arrives(stream, p, toGame[p], heard[p], applying[p], done[p])

Flows == \A p \in Players : FlowTo(p) /\ (Reached(p) => ArrivesAt(p))

LEMMA FlowsHere ==
  ASSUME BuildShape
  PROVE  /\ stream \in Seq(Entries) /\ Host \in Players /\ heard[Host] = <<>>
         /\ \A p \in Players : /\ toGame[p] \in Seq(Applications) /\ toGame[p] \in Seq(Told)
                               /\ heard[p] \in Seq(Told) /\ done[p] \in Seq(AnyOp)
                               /\ applying[p] \in AnyOp \cup {Idle}
         /\ \A c \in Clients : heard[c] = down[c] /\ heard'[c] = down'[c] /\ c # Host /\ c \in Players
<1>1. \A s \in Seq(Applications) : s \in Seq(Told)
  BY DEF Told
<1>2. <<>> \in Seq(Told)
  OBVIOUS
<1>3. \A p \in Players : toGame[p] \in Seq(Applications) /\ done[p] \in Seq(AnyOp) /\ applying[p] \in AnyOp \cup {Idle}
  BY DEF BuildShape
<1>4. \A c \in Clients : heard[c] = down[c] /\ heard'[c] = down'[c] /\ c # Host /\ c \in Players
  BY DEF heard, Clients
<1>5. Host \in Players /\ heard[Host] = <<>>
  BY DEF heard, Clients
<1>6. \A p \in Players : p = Host \/ p \in Clients
  BY DEF Clients
<1>7. \A c \in Clients : down[c] \in Seq(Told)
  BY DEF BuildShape
<1>8. \A p \in Players : heard[p] \in Seq(Told)
  BY <1>2, <1>4, <1>5, <1>6, <1>7
<1> QED BY <1>1, <1>3, <1>4, <1>5, <1>8 DEF BuildShape

LEMMA OneFlow ==
  ASSUME Flows, NEW p \in Players, UNCHANGED <<stream, live>>,
         \A r \in Players \ {p} : /\ toGame'[r] = toGame[r] /\ heard'[r] = heard[r]
                                  /\ applying'[r] = applying[r] /\ done'[r] = done[r] /\ seen'[r] = seen[r],
         FlowTo(p)', Reached(p) => ArrivesAt(p)'
  PROVE  Flows'
<1>1. ASSUME NEW r \in Players \ {p} PROVE FlowTo(r)' /\ (Reached(r)' => ArrivesAt(r)')
  <2>1. FlowTo(r) /\ (Reached(r) => ArrivesAt(r)) /\ Reached(r)' = Reached(r)
    BY DEF Flows, Reached
  <2>2. FlowTo(r)'
    BY <2>1 DEF FlowTo
  <2>3. Reached(r) => ArrivesAt(r)'
    BY <2>1 DEF ArrivesAt
  <2> QED BY <2>1, <2>2, <2>3
<1>2. Reached(p)' = Reached(p)
  BY DEF Reached
<1> QED BY <1>1, <1>2 DEF Flows

LEMMA FlowsStay ==
  ASSUME Flows, UNCHANGED <<stream, live, toGame, down, applying, done, seen>>
  PROVE  Flows'
BY DEF Flows, FlowTo, ArrivesAt, Reached, heard

LEMMA GamesKeepFlows ==
  ASSUME BuildShape, Flows, NEW p \in Players,
         \/ \E what \in Whats : Build(p, what)
         \/ EnterBuildMode(p) \/ ExitBuildMode(p)
         \/ ApplyBegin(p) \/ ApplyEnd(p) \/ ApplyFails(p)
  PROVE  Flows'
<1>0. /\ stream \in Seq(Entries) /\ toGame[p] \in Seq(Applications) /\ heard[p] \in Seq(Told)
      /\ done[p] \in Seq(AnyOp) /\ applying[p] \in AnyOp \cup {Idle}
      /\ toGame \in [Players -> Seq(Applications)] /\ done \in [Players -> Seq(AnyOp)]
      /\ applying \in [Players -> AnyOp \cup {Idle}] /\ seen \in [Players -> SUBSET Keys]
  BY FlowsHere DEF BuildShape
<1>1. UNCHANGED <<stream, live, heard>>
  BY DEF Build, EnterBuildMode, ExitBuildMode, ApplyBegin, ApplyEnd, ApplyFails, host, pipes, heard
<1>2. /\ Flow(stream, p, toGame[p], heard[p], applying[p], done[p], seen[p])
      /\ Reached(p) => Arrives(stream, p, toGame[p], heard[p], applying[p], done[p])
  BY DEF Flows, FlowTo, ArrivesAt
<1>3. ASSUME NEW what \in Whats, Build(p, what) PROVE Flows'
  <2> DEFINE op == [by |-> p, n |-> built[p] + 1, what |-> what]
  <2>1. op \in AnyOp /\ op.by = p
    BY DEF AnyOp, BuildShape
  <2>2. done' = Add(done, p, <<op>>) /\ UNCHANGED <<toGame, applying, seen>>
    BY <1>3 DEF Build
  <2> HIDE DEF op
  <2>3. done'[p] = done[p] \o <<op>> /\ \A r \in Players \ {p} : done'[r] = done[r]
    BY <1>0, <2>2 DEF Add
  <2>4. Flow(stream, p, toGame[p], heard[p], applying[p], done[p] \o <<op>>, seen[p])
    BY <1>0, <1>2, <2>1, FlowEnds
  <2>5. Reached(p) => Arrives(stream, p, toGame[p], heard[p], applying[p], done[p] \o <<op>>)
    BY <1>0, <1>2, <2>1, ArrivesEnds
  <2>6. FlowTo(p)'
    BY <1>1, <2>2, <2>3, <2>4 DEF FlowTo
  <2>7. Reached(p) => ArrivesAt(p)'
    BY <1>1, <2>2, <2>3, <2>5 DEF ArrivesAt
  <2> QED BY <1>1, <2>2, <2>3, <2>6, <2>7, OneFlow
<1>4. CASE EnterBuildMode(p) \/ ExitBuildMode(p)
  BY <1>1, <1>4, FlowsStay DEF EnterBuildMode, ExitBuildMode
<1>5. CASE ApplyBegin(p)
  <2> DEFINE m == Head(toGame[p])
  <2>1. /\ toGame[p] # <<>> /\ applying[p] = Idle /\ toGame' = Drop(toGame, p) /\ UNCHANGED done
        /\ seen' = [seen EXCEPT ![p] = @ \cup {m.key}]
        /\ applying' = IF m.key \in seen[p] THEN applying ELSE [applying EXCEPT ![p] = m.op]
    BY <1>5 DEF ApplyBegin
  <2> HIDE DEF m
  <2>2. /\ toGame'[p] = Tail(toGame[p]) /\ seen'[p] = seen[p] \cup {m.key}
        /\ applying'[p] = IF m.key \in seen[p] THEN Idle ELSE m.op
        /\ \A r \in Players \ {p} : toGame'[r] = toGame[r] /\ seen'[r] = seen[r] /\ applying'[r] = applying[r]
    BY <1>0, <2>1 DEF Drop
  <2>3. ~Foreign(p, Idle)
    BY DEF Foreign, Idle
  <2>4. /\ Flow(stream, p, Tail(toGame[p]), heard[p], Idle, done[p], seen[p] \cup {m.key})
        /\ Flow(stream, p, Tail(toGame[p]), heard[p], m.op, done[p], seen[p] \cup {m.key})
    BY <1>0, <1>2, <2>1, <2>3, FlowBegins DEF m
  <2>5. Reached(p) => /\ m.key \in seen[p] => Arrives(stream, p, Tail(toGame[p]), heard[p], Idle, done[p])
                      /\ Arrives(stream, p, Tail(toGame[p]), heard[p], m.op, done[p])
    BY <1>0, <1>2, <2>1, ArrivesBegins DEF m
  <2>6. FlowTo(p)'
    BY <1>1, <2>1, <2>2, <2>4 DEF FlowTo
  <2>7. Reached(p) => ArrivesAt(p)'
    BY <1>1, <2>1, <2>2, <2>5 DEF ArrivesAt
  <2> QED BY <1>1, <2>1, <2>2, <2>6, <2>7, OneFlow
<1>6. CASE ApplyEnd(p)
  <2>1. /\ applying[p] \in AnyOp /\ done' = Add(done, p, <<applying[p]>>) /\ UNCHANGED <<toGame, seen>>
        /\ applying' = [applying EXCEPT ![p] = Idle]
    BY <1>0, <1>6 DEF ApplyEnd
  <2>2. /\ done'[p] = done[p] \o <<applying[p]>> /\ applying'[p] = Idle
        /\ \A r \in Players \ {p} : done'[r] = done[r] /\ applying'[r] = applying[r]
    BY <1>0, <2>1 DEF Add
  <2>3. Flow(stream, p, toGame[p], heard[p], Idle, done[p] \o <<applying[p]>>, seen[p])
    BY <1>0, <1>2, <2>1, FlowEnds
  <2>4. Reached(p) => Arrives(stream, p, toGame[p], heard[p], Idle, done[p] \o <<applying[p]>>)
    BY <1>0, <1>2, <2>1, ArrivesEnds
  <2>5. FlowTo(p)'
    BY <1>1, <2>1, <2>2, <2>3 DEF FlowTo
  <2>6. Reached(p) => ArrivesAt(p)'
    BY <1>1, <2>1, <2>2, <2>4 DEF ArrivesAt
  <2> QED BY <1>1, <2>1, <2>2, <2>5, <2>6, OneFlow
<1>7. CASE ApplyFails(p)
  <2>1. applying[p].what \in MayRaise /\ applying' = [applying EXCEPT ![p] = Idle] /\ UNCHANGED <<toGame, done, seen>>
    BY <1>7 DEF ApplyFails, pipes
  <2>2. applying'[p] = Idle /\ \A r \in Players \ {p} : applying'[r] = applying[r]
    BY <1>0, <2>1
  <2>3. Flow(stream, p, toGame[p], heard[p], Idle, done[p], seen[p])
    BY <1>0, <1>2, FlowEnds
  <2>4. Reached(p) => Arrives(stream, p, toGame[p], heard[p], Idle, done[p])
    BY <1>0, <1>2, <2>1, ArrivesEnds
  <2>5. FlowTo(p)'
    BY <1>1, <2>1, <2>2, <2>3 DEF FlowTo
  <2>6. Reached(p) => ArrivesAt(p)'
    BY <1>1, <2>1, <2>2, <2>4 DEF ArrivesAt
  <2> QED BY <1>1, <2>1, <2>2, <2>5, <2>6, OneFlow
<1> QED BY <1>3, <1>4, <1>5, <1>6, <1>7

LEMMA SidecarsKeepFlows ==
  ASSUME BuildShape, Flows, NEW c \in Clients, SidecarEvent(c) \/ SidecarLockState(c) \/ SidecarForwards(c)
  PROVE  Flows'
<1>0. /\ stream \in Seq(Entries) /\ c \in Players /\ toGame[c] \in Seq(Told) /\ down[c] \in Seq(Told)
      /\ heard[c] = down[c] /\ heard'[c] = down'[c]
      /\ toGame \in [Players -> Seq(Applications)] /\ down \in [Clients -> Seq(Told)]
  BY FlowsHere DEF BuildShape
<1>1. UNCHANGED <<stream, live, applying, done, seen>>
  BY DEF SidecarEvent, SidecarLockState, SidecarForwards, host, game
<1>2. /\ Flow(stream, c, toGame[c], down[c], applying[c], done[c], seen[c])
      /\ Reached(c) => Arrives(stream, c, toGame[c], down[c], applying[c], done[c])
  BY <1>0 DEF Flows, FlowTo, ArrivesAt
<1>3. CASE SidecarEvent(c)
  BY <1>1, <1>3, FlowsStay DEF SidecarEvent
<1>4. CASE SidecarLockState(c) \/ SidecarForwards(c)
  <2> DEFINE h == Head(down[c])
  <2>1. down[c] # <<>> /\ down' = Drop(down, c) /\ h \in Told
    <3>1. down[c] # <<>> /\ down' = Drop(down, c)
      BY <1>4 DEF SidecarLockState, SidecarForwards
    <3> QED BY <1>0, <3>1, TailOfQueue
  <2>2. \/ toGame' = Add(toGame, c, <<h>>)
        \/ toGame' = toGame /\ h \notin Applications
    BY <1>4, <2>1, Numbers DEF SidecarLockState, SidecarForwards, Forwarded
  <2> HIDE DEF h
  <2>3. /\ down'[c] = Tail(down[c])
        /\ \A r \in Players \ {c} : heard'[r] = heard[r]
    BY <1>0, <2>1 DEF Drop, heard
  <2>4. /\ \/ toGame'[c] = toGame[c] \o <<h>>
           \/ toGame'[c] = toGame[c] /\ h \notin Applications
        /\ \A r \in Players \ {c} : toGame'[r] = toGame[r]
    BY <1>0, <2>2 DEF Add
  <2>5. /\ Flow(stream, c, toGame[c], Tail(down[c]), applying[c], done[c], seen[c])
        /\ Flow(stream, c, toGame[c] \o <<h>>, Tail(down[c]), applying[c], done[c], seen[c])
    BY <1>0, <1>2, <2>1, FlowForwards DEF h
  <2>6. Reached(c) =>
          /\ h \notin Applications => Arrives(stream, c, toGame[c], Tail(down[c]), applying[c], done[c])
          /\ Arrives(stream, c, toGame[c] \o <<h>>, Tail(down[c]), applying[c], done[c])
    BY <1>0, <1>2, <2>1, ArrivesForwards DEF h
  <2>7. FlowTo(c)'
    BY <1>0, <1>1, <2>3, <2>4, <2>5 DEF FlowTo
  <2>8. Reached(c) => ArrivesAt(c)'
    BY <1>0, <1>1, <2>3, <2>4, <2>6 DEF ArrivesAt
  <2> QED BY <1>0, <1>1, <2>3, <2>4, <2>7, <2>8, OneFlow
<1> QED BY <1>3, <1>4

(* A message for everybody, and what the host's own game gets *)
LEMMA BroadcastFlows ==
  ASSUME BuildShape, Flows, NEW m, Broadcast(m), Extends(stream, stream'), Fresh(stream, stream', m),
         \A c \in Clients : Sent(stream, stream', c, m) /\ toGame'[c] = toGame[c],
         UNCHANGED <<live, applying, done, seen>>,
         FlowTo(Host)', ArrivesAt(Host)'
  PROVE  Flows'
<1>1. ASSUME NEW c \in Clients PROVE FlowTo(c)' /\ (Reached(c)' => ArrivesAt(c)')
  <2>1. /\ toGame[c] \in Seq(Told) /\ down[c] \in Seq(Told) /\ heard[c] = down[c] /\ heard'[c] = down'[c]
        /\ c \in Players /\ c # Host /\ m \in Told
    BY FlowsHere DEF Fresh
  <2>2. Flow(stream, c, toGame[c], down[c], applying[c], done[c], seen[c])
    BY <2>1 DEF Flows, FlowTo
  <2>3. /\ Flow(stream', c, toGame[c], down[c], applying[c], done[c], seen[c])
        /\ Flow(stream', c, toGame[c], down[c] \o <<m>>, applying[c], done[c], seen[c])
    BY <2>1, <2>2, FlowGrows
  <2>4. down'[c] = IF live[c] THEN down[c] \o <<m>> ELSE down[c]
    <3>1. Append(down[c], m) = down[c] \o <<m>>
      BY <2>1, AppendIsConcat
    <3> QED BY <3>1 DEF Broadcast
  <2>5. FlowTo(c)'
    BY <2>1, <2>3, <2>4 DEF FlowTo
  <2>6. ASSUME Reached(c)' PROVE ArrivesAt(c)'
    <3>1. live[c] /\ Reached(c)
      BY <2>1, <2>6 DEF Reached
    <3>2. Arrives(stream, c, toGame[c], down[c], applying[c], done[c])
      BY <2>1, <3>1 DEF Flows, ArrivesAt
    <3>3. Arrives(stream', c, toGame[c], down[c] \o <<m>>, applying[c], done[c])
      BY <2>1, <3>2, ArrivesGrows
    <3> QED BY <2>1, <2>4, <3>1, <3>3 DEF ArrivesAt
  <2> QED BY <2>5, <2>6
<1>2. \A p \in Players : p = Host \/ p \in Clients
  BY DEF Clients
<1> QED BY <1>1, <1>2 DEF Flows

(* Nothing for the host's game *)
LEMMA HostsGameStays ==
  ASSUME BuildShape, Flows, Extends(stream, stream'),
         \A n \in 1..Len(stream') : n \in 1..Len(stream) \/ stream'[n].player = Host,
         UNCHANGED <<toGame, applying, done, seen>>
  PROVE  FlowTo(Host)' /\ ArrivesAt(Host)'
<1>1. Host \in Players /\ toGame[Host] \in Seq(Told) /\ heard[Host] = <<>> /\ heard'[Host] = <<>> /\ <<>> \in Seq(Told)
  BY FlowsHere DEF heard, Clients
<1>2. /\ Flow(stream, Host, toGame[Host], <<>>, applying[Host], done[Host], seen[Host])
      /\ Arrives(stream, Host, toGame[Host], <<>>, applying[Host], done[Host])
  BY <1>1 DEF Flows, FlowTo, ArrivesAt, Reached
<1>3. /\ Flow(stream', Host, toGame[Host], <<>>, applying[Host], done[Host], seen[Host])
      /\ Arrives(stream', Host, toGame[Host], <<>>, applying[Host], done[Host])
  BY <1>1, <1>2, FlowGrows, ArrivesWithHosts
<1> QED BY <1>1, <1>3 DEF FlowTo, ArrivesAt

LEMMA StreamExtends ==
  ASSUME BuildShape, NEW p \in Players, NEW op \in AnyOp, Streamed(p, op), seq' = seq + 1
  PROVE  /\ Extends(stream, stream')
         /\ seq' \in 1..Len(stream') /\ seq' > Len(stream) /\ stream'[seq'].op = op /\ stream'[seq'].player = p
         /\ \A n \in 1..Len(stream') : n \in 1..Len(stream) \/ n = seq'
<1>1. /\ seq' \in Nat /\ Len(stream') = seq'
      /\ seq' \in 1..Len(stream') /\ stream'[seq'].op = op /\ stream'[seq'].player = p
      /\ \A n \in 1..Len(stream) : n \in 1..Len(stream') /\ stream'[n] = stream[n]
      /\ \A n \in 1..Len(stream') : n = seq' \/ (n \in 1..Len(stream) /\ n < seq')
  BY StreamGrows
<1>2. Len(stream) = seq /\ seq \in Nat
  BY DEF BuildShape
<1> QED BY <1>1, <1>2 DEF Extends

(* A lock state for everybody *)
LEMMA LockStateFlows ==
  ASSUME BuildShape, Flows, NEW a \in Players \cup {Nobody}, Broadcast(LockState(a)),
         UNCHANGED <<stream, live, toGame, applying, done, seen>>
  PROVE  Flows'
<1>1. LockState(a) \in Told /\ number[LockState(a)] = 0 /\ LockState(a) \notin Applications
  BY Numbers DEF Told, LockState, Applications
<1>2. Extends(stream, stream') /\ Fresh(stream, stream', LockState(a))
      /\ \A c \in Clients : Sent(stream, stream', c, LockState(a))
      /\ \A n \in 1..Len(stream') : n \in 1..Len(stream)
  <2>1. Extends(stream, stream)
    BY ExtendsItself DEF BuildShape
  <2> QED BY <1>1, <2>1 DEF Fresh, Sent
<1>3. FlowTo(Host)' /\ ArrivesAt(Host)'
  BY <1>2, HostsGameStays
<1> QED BY <1>2, <1>3, BroadcastFlows

LEMMA HostKeepsFlows ==
  ASSUME LinesInv, Flows, NEW c \in Clients,
         \/ HostLockRequest(c) \/ HostLockRelease(c) \/ HostOperation(c)
         \/ HostInvalidOperation(c) \/ Leave(c)
  PROVE  Flows'
<1>0. /\ BuildShape /\ c \in Players /\ Host \in Players /\ c # Host
      /\ toGame[c] \in Seq(Told) /\ down[c] \in Seq(Told) /\ heard[c] = down[c] /\ heard'[c] = down'[c]
      /\ down \in [Clients -> Seq(Told)] /\ live \in [Clients -> BOOLEAN]
      /\ toGame \in [Players -> Seq(Applications)] /\ stream \in Seq(Entries)
  BY FlowsHere DEF LinesInv, BuildShape
<1>1. UNCHANGED <<applying, done, seen>>
  BY DEF HostLockRequest, HostLockRelease, HostOperation, HostInvalidOperation, Leave, Dropped, game
<1>2. CASE HostLockRequest(c) \/ HostLockRelease(c)
  <2>1. lock' \in Leases
    BY <1>0, <1>2, LockTyped DEF HostLockRequest, HostLockRelease
  <2>2. PICK a \in Players \cup {Nobody} : Broadcast(LockState(a)) /\ UNCHANGED <<stream, live, toGame>>
    BY <1>2, <2>1 DEF HostLockRequest, HostLockRelease, Leases
  <2> QED BY <1>0, <1>1, <2>2, LockStateFlows
<1>3. CASE HostOperation(c) /\ Accepted(c)
  <2> DEFINE op == Head(up[c]).op
             m == Apply(SeqKey(seq'), op)
  <2>1. /\ op \in AnyOp /\ Submit(c, op) /\ Streamed(c, op) /\ Broadcast(m) /\ live' = live
        /\ toGame' = Add(toGame, Host, <<m>>)
    BY <1>0, <1>3, NextOperation, Places DEF HostOperation, Accepted
  <2> HIDE DEF op
  <2>2. seq' = seq + 1
    BY <1>0, <2>1, SubmitTyped
  <2>3. /\ Extends(stream, stream')
        /\ seq' \in 1..Len(stream') /\ seq' > Len(stream) /\ stream'[seq'].op = op /\ stream'[seq'].player = c
        /\ \A n \in 1..Len(stream') : n \in 1..Len(stream) \/ n = seq'
    BY <1>0, <2>1, <2>2, StreamExtends
  <2>4. seq' \in Nat
    BY <1>0, <2>2 DEF BuildShape
  <2>5. m \in Applications /\ m \in Told /\ number[m] = seq' /\ m.op = op
    BY <2>1, <2>4, Numbers
  <2> HIDE DEF m
  <2>6. Fresh(stream, stream', m) /\ \A p \in Players : Sent(stream, stream', p, m)
    BY <2>3, <2>5 DEF Fresh, Sent
  <2>7. toGame'[Host] = toGame[Host] \o <<m>> /\ \A d \in Clients : toGame'[d] = toGame[d]
    BY <1>0, <2>1 DEF Add, Clients
  <2>8. Host \in Players /\ toGame[Host] \in Seq(Told) /\ heard[Host] = <<>> /\ heard'[Host] = <<>> /\ <<>> \in Seq(Told)
    BY <1>0, FlowsHere DEF heard, Clients
  <2>9. /\ Flow(stream, Host, toGame[Host], <<>>, applying[Host], done[Host], seen[Host])
        /\ Arrives(stream, Host, toGame[Host], <<>>, applying[Host], done[Host])
    BY <2>8 DEF Flows, FlowTo, ArrivesAt, Reached
  <2>10. /\ Flow(stream', Host, toGame[Host] \o <<m>>, <<>>, applying[Host], done[Host], seen[Host])
         /\ Arrives(stream', Host, toGame[Host] \o <<m>>, <<>>, applying[Host], done[Host])
    <3>1. Flow(stream', Host, toGame[Host] \o <<m>>, <<>>, applying[Host], done[Host], seen[Host])
      BY <2>3, <2>6, <2>8, <2>9, FlowGrows
    <3>2. Arrives(stream', Host, toGame[Host] \o <<m>>, <<>>, applying[Host], done[Host])
      BY <2>3, <2>5, <2>6, <2>8, <2>9, ArrivesGrows
    <3> QED BY <3>1, <3>2
  <2>11. FlowTo(Host)' /\ ArrivesAt(Host)'
    BY <1>1, <2>7, <2>8, <2>10 DEF FlowTo, ArrivesAt
  <2>12. \A d \in Clients : Sent(stream, stream', d, m) /\ toGame'[d] = toGame[d]
    BY <2>6, <2>7 DEF Clients
  <2> QED BY <1>0, <1>1, <2>1, <2>3, <2>6, <2>11, <2>12, BroadcastFlows
<1>4. CASE HostOperation(c) /\ Denied(c)
  <2>1. down' = Add(down, c, <<Error>>) /\ UNCHANGED <<toGame, live, stream>>
    BY <1>4 DEF Denied
  <2>2. down'[c] = down[c] \o <<Error>> /\ \A r \in Players \ {c} : heard'[r] = heard[r]
    BY <1>0, <2>1 DEF Add, heard
  <2>3. Extends(stream, stream) /\ Fresh(stream, stream, Error) /\ Error \in Told /\ Sent(stream, stream, c, Error)
    <3>1. Error \in Told /\ number[Error] = 0 /\ Error \notin Applications
      BY Numbers DEF Error, Applications
    <3> QED BY <1>0, <3>1, ExtendsItself DEF Fresh, Sent
  <2>4. /\ Flow(stream, c, toGame[c], down[c], applying[c], done[c], seen[c])
        /\ Reached(c) => Arrives(stream, c, toGame[c], down[c], applying[c], done[c])
    BY <1>0 DEF Flows, FlowTo, ArrivesAt
  <2>5. Flow(stream, c, toGame[c], down[c] \o <<Error>>, applying[c], done[c], seen[c])
    BY <1>0, <2>3, <2>4, FlowGrows
  <2>6. Reached(c) => Arrives(stream, c, toGame[c], down[c] \o <<Error>>, applying[c], done[c])
    BY <1>0, <2>3, <2>4, ArrivesGrows
  <2>7. FlowTo(c)'
    BY <1>0, <1>1, <2>1, <2>2, <2>5 DEF FlowTo
  <2>8. Reached(c) => ArrivesAt(c)'
    BY <1>0, <1>1, <2>1, <2>2, <2>6 DEF ArrivesAt
  <2> QED BY <1>0, <1>1, <2>1, <2>2, <2>7, <2>8, OneFlow
<1>5. CASE HostInvalidOperation(c) \/ Leave(c)
  <2>1. /\ live' = [live EXCEPT ![c] = FALSE] /\ down' = [down EXCEPT ![c] = <<>>] /\ UNCHANGED <<stream, toGame>>
    BY <1>5 DEF HostInvalidOperation, Leave, Dropped
  <2>2. ~live'[c] /\ down'[c] = <<>>
        /\ \A r \in Players \ {c} : heard'[r] = heard[r] /\ (Reached(r)' => Reached(r))
    BY <1>0, <2>1 DEF heard, Reached, Clients
  <2>3. Flow(stream, c, toGame[c], down[c], applying[c], done[c], seen[c])
    BY <1>0 DEF Flows, FlowTo
  <2>4. Flow(stream, c, toGame[c], <<>>, applying[c], done[c], seen[c])
    BY <1>0, <2>3, FlowGrows, ExtendsItself
  <2>5. FlowTo(c)' /\ ~Reached(c)'
    BY <1>0, <1>1, <2>1, <2>2, <2>4 DEF FlowTo, Reached
  <2>6. ASSUME NEW r \in Players \ {c} PROVE FlowTo(r)' /\ (Reached(r)' => ArrivesAt(r)')
    <3>1. FlowTo(r) /\ (Reached(r) => ArrivesAt(r))
      BY DEF Flows
    <3>2. FlowTo(r)'
      BY <1>1, <2>1, <2>2, <3>1 DEF FlowTo
    <3>3. ArrivesAt(r) => ArrivesAt(r)'
      BY <1>1, <2>1, <2>2 DEF ArrivesAt
    <3> QED BY <2>2, <3>1, <3>2, <3>3
  <2> QED BY <2>5, <2>6 DEF Flows
<1> QED BY <1>2, <1>3, <1>4, <1>5 DEF HostOperation

LEMMA HostsGameKeepsFlows ==
  ASSUME LinesInv, Flows, HostBuilds \/ HostLock \/ Expiry
  PROVE  Flows'
<1>0. BuildShape /\ Host \in Players
  BY DEF LinesInv, BuildShape
<1>1. UNCHANGED <<applying, done, seen, toGame, live>>
  BY DEF HostBuilds, HostLock, Expiry, game, pipes
<1>2. CASE HostLock
  <2>1. lock' \in Leases
    BY <1>0, <1>2, LockTyped DEF HostLock
  <2>2. lock'.owner \in Players \cup {Nobody} /\ Broadcast(LockState(lock'.owner)) /\ stream' = stream
    BY <1>2, <2>1 DEF HostLock, Leases
  <2> QED BY <1>0, <1>1, <2>2, LockStateFlows
<1>3. CASE UNCHANGED <<stream, down>>
  BY <1>1, <1>3, FlowsStay
<1>4. CASE HostBuilds /\ stream' # stream
  <2> DEFINE e == Head(events[Host])
             op == e.op
             m == Apply(ContentKey(op), op)
  <2>1. events[Host] # <<>> /\ e \in Operations /\ op \in AnyOp
    BY <1>0, <1>4, NextOperation, Places DEF HostBuilds
  <2>2. Record(Host, op) /\ Streamed(Host, op) /\ Broadcast(m)
    BY <1>4 DEF HostBuilds, host
  <2>3. seq' = seq + 1
    BY <2>2 DEF Record
  <2>4. op.by = Host
    <3>1. e = events[Host][1] /\ 1 \in 1..Len(events[Host])
      BY <1>0, <2>1, QueuesHere, TailOfQueue
    <3> QED BY <2>1, <3>1 DEF LinesInv, Lines, LineOf, Sound
  <2> HIDE DEF e
  <2>5. m \in Told /\ number[m] = 0 /\ m.op = op
    BY <2>1, Numbers
  <2>6. /\ Extends(stream, stream')
        /\ \A n \in 1..Len(stream') : n \in 1..Len(stream) \/ stream'[n].player = Host
    BY <1>0, <2>1, <2>2, <2>3, StreamExtends
  <2> HIDE DEF m
  <2>7. Fresh(stream, stream', m) /\ \A c \in Clients : Sent(stream, stream', c, m)
    BY <2>4, <2>5, <2>6 DEF Fresh, Sent
  <2>8. FlowTo(Host)' /\ ArrivesAt(Host)'
    BY <1>0, <1>1, <2>6, HostsGameStays
  <2> QED BY <1>0, <1>1, <2>2, <2>6, <2>7, <2>8, BroadcastFlows
<1>5. HostBuilds => stream' # stream \/ UNCHANGED <<stream, down>>
  <2> SUFFICES ASSUME HostBuilds, stream' = stream PROVE UNCHANGED <<stream, down>>
    OBVIOUS
  <2>1. ASSUME NEW op, Record(Host, op), Streamed(Host, op) PROVE FALSE
    <3>1. stream' = Append(stream, Operation(Host, op, seq')) /\ stream \in Seq(Entries)
      BY <1>0, <2>1 DEF Streamed, BuildShape
    <3>2. \A x : Len(Append(stream, x)) = Len(stream) + 1 /\ Len(stream) \in Nat
      BY <3>1
    <3> QED BY <3>1, <3>2
  <2> QED BY <2>1 DEF HostBuilds, host
<1> QED BY <1>2, <1>3, <1>4, <1>5 DEF Expiry, pipes

-----------------------------------------------------------------------------
(* The order of the stream, and the whole of it, in every game *)

LEMMA FlowsInit ==
  ASSUME BuildInit
  PROVE  Flows
<1>1. \A p \in Players : toGame[p] = <<>> /\ heard[p] = <<>> /\ done[p] = <<>> /\ applying[p] = Idle /\ seen[p] = {}
  BY DEF BuildInit, heard
<1>2. stream = <<>>
  BY DEF BuildInit
<1>3. \A p : ~Foreign(p, Idle)
  BY DEF Foreign, Idle
<1>4. ASSUME NEW p
      PROVE  Flow(<<>>, p, <<>>, <<>>, Idle, <<>>, {}) /\ Arrives(<<>>, p, <<>>, <<>>, Idle, <<>>)
  <2>1. <<>> \in Seq(Told) /\ 1..Len(<<>>) = {}
    OBVIOUS
  <2>2. Numbered(<<>>, <<>>) /\ Rising(number, <<>>) /\ Below(number, <<>>, <<>>)
    BY <2>1, NumberedParts, ShortQueues
  <2>3. Carries(<<>>, p, <<>>, <<>>, Idle)
    BY <1>3 DEF Carries
  <2>4. Carried(<<>>, p, <<>>, <<>>, Idle, <<>>) /\ Ordered(<<>>, p, <<>>) /\ Arrives(<<>>, p, <<>>, <<>>, Idle, <<>>)
    BY <2>1 DEF Carried, Ordered, Arrives
  <2> QED BY <2>2, <2>3, <2>4 DEF Flow
<1> QED BY <1>1, <1>2, <1>4 DEF Flows, FlowTo, ArrivesAt

(* What the host accepted is on its way to each game, or there, in the order *)
(* of the stream and with its number; nothing a client built that a game can *)
(* apply is lost or taken for known on that way.                             *)
THEOREM FlowsInvariant == BuildSpec => [](LinesInv /\ Flows)
<1>1. BuildInit => LinesInv /\ Flows
  BY LinesInit, FlowsInit
<1>2. ASSUME LinesInv /\ Flows, BuildNext PROVE (LinesInv /\ Flows)'
  <2>1. LinesInv' /\ BuildShape
    BY <1>2, LinesStep DEF LinesInv
  <2>2. Flows'
    BY <1>2, <2>1, GamesKeepFlows, SidecarsKeepFlows, HostKeepsFlows, HostsGameKeepsFlows DEF BuildNext
  <2> QED BY <2>1, <2>2
<1>3. LinesInv /\ Flows /\ UNCHANGED vars => (LinesInv /\ Flows)'
  <2>1. Flows /\ UNCHANGED vars => Flows'
    BY FlowsStay DEF vars, host, game, pipes
  <2> QED BY <2>1, StutterKeepsLines
<1> QED BY <1>1, <1>2, <1>3, PTL DEF BuildSpec

(* What a game carries out for others arrives in the order of the stream: of *)
(* two operations of clients, the one with the lower number first.           *)
THEOREM GamesFollowTheStream == BuildSpec => []StreamOrder
<1>1. LinesInv /\ Flows => StreamOrder
  <2> SUFFICES ASSUME LinesInv, Flows, NEW p \in Players, NEW i \in DOMAIN done[p], NEW j \in DOMAIN done[p],
                      i < j, {done[p][i].by, done[p][j].by} \cap {p, Host} = {}
               PROVE  \E k, l \in DOMAIN stream : k < l /\ stream[k].op = done[p][i] /\ stream[l].op = done[p][j]
    BY DEF StreamOrder
  <2>1. done[p] \in Seq(AnyOp) /\ stream \in Seq(Entries)
    BY DEF LinesInv, BuildShape
  <2>2. DOMAIN done[p] = 1..Len(done[p]) /\ DOMAIN stream = 1..Len(stream)
    BY <2>1
  <2>3. done[p][i] \in AnyOp /\ done[p][j] \in AnyOp
    BY <2>1, <2>2, ElementOfSeq
  <2>4. Foreign(p, done[p][i]) /\ Foreign(p, done[p][j])
    BY <2>3 DEF AnyOp, Foreign
  <2>5. Ordered(stream, p, done[p])
    BY DEF Flows, FlowTo, Flow
  <2> QED BY <2>2, <2>4, <2>5 DEF Ordered
<1> QED BY <1>1, FlowsInvariant, PTL

(* What clients built and the host accepted is, once nothing is on its way,  *)
(* in every other game that can apply it (BUILD_APPLY with include_host).    *)
THEOREM WorkArrives == BuildSpec => []ClientsWorkArrives
<1>1. LinesInv /\ Flows => ClientsWorkArrives
  <2> SUFFICES ASSUME LinesInv, Flows, NEW p \in Players, AtRest(p), NEW n \in DOMAIN stream,
                      stream[n].player \notin {p, Host}, stream[n].op.what \notin MayRaise
               PROVE  stream[n].op \in Range(done[p])
    BY DEF ClientsWorkArrives
  <2>1. done[p] \in Seq(AnyOp) /\ stream \in Seq(Entries)
    BY DEF LinesInv, BuildShape
  <2>2. DOMAIN done[p] = 1..Len(done[p]) /\ DOMAIN stream = 1..Len(stream)
    BY <2>1
  <2>3. Reached(p) /\ toGame[p] = <<>> /\ applying[p] = Idle /\ heard[p] = <<>>
    BY DEF AtRest, Reached, heard, Clients
  <2>4. Arrives(stream, p, <<>>, <<>>, Idle, done[p])
    BY <2>3 DEF Flows, ArrivesAt
  <2>5. OnItsWay(n, stream[n].op, <<>>, <<>>, Idle, done[p])
    BY <2>2, <2>4 DEF Arrives
  <2>6. stream[n].op # Idle
    <3>1. stream[n] \in Entries
      BY <2>1, <2>2, ElementOfSeq
    <3>2. stream[n].op \in AnyOp
      BY <3>1 DEF Entries
    <3> QED BY <3>2 DEF AnyOp, Idle
  <2>7. \E i \in 1..Len(done[p]) : done[p][i] = stream[n].op
    BY <2>5, <2>6 DEF OnItsWay
  <2> QED BY <2>2, <2>7 DEF Range
<1> QED BY <1>1, FlowsInvariant, PTL

================================================================================
