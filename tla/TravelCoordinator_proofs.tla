---------------------- MODULE TravelCoordinator_proofs ----------------------
(***************************************************************************)
(* Proofs about the travel coordinator for any set of players and any      *)
(* number of proposals: its type invariant, its two safety invariants, its *)
(* action property, and that it implements the barrier of TravelBarrier.   *)
(***************************************************************************)
EXTENDS TravelCoordinator, TLAPS

(* What the bookkeeping keeps true: the three sets of a transaction and the *)
(* acknowledgements behind them agree with its phase.                       *)
Bookkeeping ==
  /\ current.phase = "idle" => current = NoTxn
  /\ current.phase # "idle" => current.epoch \in Epochs
  /\ current.ready \subseteq current.participants
  /\ current.zone_ready \subseteq current.participants
  /\ current.phase \in Committed => current.ready = current.participants
  /\ current.phase = "complete" => current.zone_ready = current.participants
  /\ current.phase \in {"waiting_ready", "committed"} => current.zone_ready = {}
  /\ \A p \in current.ready : <<"ready", p, current.epoch>> \in said
  /\ \A p \in current.zone_ready : <<"zone_ready", p, current.epoch>> \in said

Inv == TypeOK /\ Bookkeeping /\ NeverWaitsForNobody

USE MaxEpochAssumption

(* The initial state has no transaction (__init__). *)
LEMMA InitInv == Init => Inv
  BY DEF Init, Inv, TypeOK, Bookkeeping, NeverWaitsForNobody, NoTxn, TravelTxn,
         Phase, Committed, Epochs

(* propose opens a transaction that no acknowledgement has reached. *)
LEMMA ProposeInv ==
  ASSUME Inv, NEW S \in SUBSET Players, Propose(S)
  PROVE  Inv'
<1>1. TypeOK' /\ current'.epoch \in Epochs
  <2>1. epoch' \in Epochs /\ epoch' = epoch + 1 /\ said' = said
    BY DEF Inv, Propose, TypeOK, Epochs
  <2>2. current' = [epoch |-> epoch + 1, phase |-> "waiting_ready", participants |-> S,
                    ready |-> {}, zone_ready |-> {}]
    BY DEF Propose, NewTxn, NoTxn
  <2> QED BY <2>1, <2>2 DEF Inv, TypeOK, TravelTxn, Phase, Epochs
<1>2. Bookkeeping' /\ NeverWaitsForNobody'
  BY <1>1 DEF Inv, Propose, Bookkeeping, NeverWaitsForNobody, NewTxn, NoTxn, Committed
<1> QED BY <1>1, <1>2 DEF Inv

(* What an acknowledgement records has the shape TypeOK asks for. *)
LEMMA SaysType ==
  ASSUME TypeOK, NEW kind \in AckKind, NEW p \in Players, NEW t \in Epochs,
         NEW e \in Epochs \cup {Anyone}, Says(kind, p, t, e)
  PROVE  said' \subseteq AckKind \X Players \X Epochs
  BY DEF TypeOK, Says

(* mark_ready adds a participant that has acknowledged this epoch, and     *)
(* commits exactly when nobody is owed.                                    *)
LEMMA MarkReadyInv ==
  ASSUME Inv, NEW p \in Players, NEW t \in Epochs,
         NEW e \in Epochs \cup {Anyone}, MarkReady(p, t, e)
  PROVE  Inv'
<1> DEFINE r == current.ready \cup ({p} \cap current.participants)
<1>1. /\ current.phase = "waiting_ready" /\ t = current.epoch /\ e \in {Anyone, t}
      /\ current' = [current EXCEPT !.ready = r,
              !.phase = IF r = current.participants THEN "committed" ELSE @]
      /\ said' = said \cup {<<"ready", p, t>>} /\ epoch' = epoch
  BY DEF MarkReady, ReadyTaken, Answers, WithReady, Says
<1>2. TypeOK'
  <2>1. said' \subseteq AckKind \X Players \X Epochs
    BY <1>1 DEF Inv, TypeOK, AckKind
  <2>2. current' \in TravelTxn /\ current'.epoch = current.epoch
    BY <1>1 DEF Inv, TypeOK, TravelTxn, Phase
  <2> QED BY <1>1, <2>1, <2>2 DEF Inv, TypeOK
<1>3. Bookkeeping' /\ NeverWaitsForNobody'
  BY <1>1 DEF Inv, TypeOK, TravelTxn, Bookkeeping, NeverWaitsForNobody, Committed
<1> QED BY <1>2, <1>3 DEF Inv

(* mark_zone_ready does the same for the load round. *)
LEMMA MarkZoneReadyInv ==
  ASSUME Inv, NEW p \in Players, NEW t \in Epochs,
         NEW e \in Epochs \cup {Anyone}, MarkZoneReady(p, t, e)
  PROVE  Inv'
<1> DEFINE z == current.zone_ready \cup ({p} \cap current.participants)
<1>1. /\ current.phase \in {"committed", "waiting_zone_ready"}
      /\ t = current.epoch /\ e \in {Anyone, t}
      /\ current' = [current EXCEPT !.zone_ready = z,
              !.phase = IF z = current.participants THEN "complete"
                                                    ELSE "waiting_zone_ready"]
      /\ said' = said \cup {<<"zone_ready", p, t>>} /\ epoch' = epoch
  BY DEF MarkZoneReady, ZoneReadyTaken, Answers, WithZoneReady, Says
<1>2. TypeOK'
  <2>1. said' \subseteq AckKind \X Players \X Epochs
    BY <1>1 DEF Inv, TypeOK, AckKind
  <2>2. current' \in TravelTxn /\ current'.epoch = current.epoch
    BY <1>1 DEF Inv, TypeOK, TravelTxn, Phase
  <2> QED BY <1>1, <2>1, <2>2 DEF Inv, TypeOK
<1>3. Bookkeeping' /\ NeverWaitsForNobody'
  BY <1>1 DEF Inv, TypeOK, TravelTxn, Bookkeeping, NeverWaitsForNobody, Committed
<1> QED BY <1>2, <1>3 DEF Inv

(* remove_participant takes a player out of all three sets and ends the    *)
(* round that player was the last to be waited for in.                     *)
LEMMA RemoveParticipantInv ==
  ASSUME Inv, NEW p \in Players, RemoveParticipant(p)
  PROVE  Inv'
<1>1. /\ current.phase \in {"waiting_ready", "committed", "waiting_zone_ready"}
      /\ epoch' = epoch /\ said' = said
      /\ current' = WithoutParticipant(current, p)
  BY DEF RemoveParticipant, Free, Finished, Inv, TypeOK, TravelTxn, Phase
<1>2. TypeOK'
  BY <1>1 DEF Inv, TypeOK, TravelTxn, WithoutParticipant, Phase
<1>3. Bookkeeping'
  BY <1>1 DEF Inv, TypeOK, TravelTxn, Bookkeeping, NeverWaitsForNobody,
              WithoutParticipant, Committed
<1>4. NeverWaitsForNobody'
  BY <1>1 DEF Inv, TypeOK, TravelTxn, Bookkeeping, NeverWaitsForNobody,
              WithoutParticipant, Committed
<1> QED BY <1>2, <1>3, <1>4 DEF Inv

(* The remaining operations touch the phase, or nothing. *)
LEMMA OtherStepsInv ==
  ASSUME Inv,
         \/ \E t \in Epochs : BeginZoneWait(t) \/ Abort(t)
         \/ \E kind \in AckKind, p \in Players, t \in Epochs, e \in Epochs \cup {Anyone} :
               Refused(kind, p, t, e)
         \/ UNCHANGED vars
  PROVE  Inv'
<1>1. CASE \E t \in Epochs : BeginZoneWait(t)
  BY <1>1 DEF BeginZoneWait, Inv, TypeOK, TravelTxn, Phase, Bookkeeping,
              NeverWaitsForNobody, Committed
<1>2. CASE \E t \in Epochs : Abort(t)
  BY <1>2 DEF Abort, Inv, TypeOK, TravelTxn, Phase, Bookkeeping,
              NeverWaitsForNobody, Committed
<1>3. CASE \E kind \in AckKind, p \in Players, t \in Epochs, e \in Epochs \cup {Anyone} :
               Refused(kind, p, t, e)
  <2>1. PICK kind \in AckKind, p \in Players, t \in Epochs, e \in Epochs \cup {Anyone} :
               Refused(kind, p, t, e)
    BY <1>3
  <2>2. current' = current /\ epoch' = epoch /\ Says(kind, p, t, e)
    BY <2>1 DEF Refused
  <2>3. said' \subseteq AckKind \X Players \X Epochs
    BY <2>2, SaysType DEF Inv
  <2>4. said \subseteq said'
    BY <2>2 DEF Says
  <2> QED BY <2>2, <2>3, <2>4 DEF Inv, TypeOK, Bookkeeping, NeverWaitsForNobody
<1>4. CASE UNCHANGED vars
  BY <1>4 DEF vars, Inv, TypeOK, Bookkeeping, NeverWaitsForNobody
<1> QED BY <1>1, <1>2, <1>3, <1>4

(* Every operation of the coordinator keeps the invariant. *)
LEMMA StepInv == Inv /\ [Next]_vars => Inv'
<1> SUFFICES ASSUME Inv, [Next]_vars PROVE Inv'
  OBVIOUS
<1>1. CASE \E S \in SUBSET Players : Propose(S)
  BY <1>1, ProposeInv
<1>2. CASE \E p \in Players, t \in Epochs, e \in Epochs \cup {Anyone} :
              MarkReady(p, t, e)
  BY <1>2, MarkReadyInv
<1>3. CASE \E p \in Players, t \in Epochs, e \in Epochs \cup {Anyone} :
              MarkZoneReady(p, t, e)
  BY <1>3, MarkZoneReadyInv
<1>4. CASE \E p \in Players : RemoveParticipant(p)
  BY <1>4, RemoveParticipantInv
<1>5. CASE \/ \E t \in Epochs : BeginZoneWait(t) \/ Abort(t)
           \/ \E kind \in AckKind, p \in Players, t \in Epochs, e \in Epochs \cup {Anyone} :
                 Refused(kind, p, t, e)
           \/ UNCHANGED vars
  BY <1>5, OtherStepsInv
<1> QED BY <1>1, <1>2, <1>3, <1>4, <1>5 DEF Next

(* Inv holds in every reachable state, for all players and proposals. *)
THEOREM Invariance == Spec => []Inv
  BY InitInv, StepInv, PTL DEF Spec

(* The coordinator's fields keep their types whatever calls are made. *)
THEOREM TypeCorrect == Spec => []TypeOK
<1>1. Inv => TypeOK
  BY DEF Inv
<1> QED BY <1>1, Invariance, PTL

(* Whoever takes part in a committed (complete) transaction has said so for *)
(* this very epoch: stale, mistaken and foreign calls of mark_ready and     *)
(* mark_zone_ready never count.                                             *)
THEOREM AcksAreGenuine == Spec => []NobodyIsSpokenFor
<1>1. Inv => NobodyIsSpokenFor
  BY DEF Inv, Bookkeeping, NobodyIsSpokenFor
<1> QED BY <1>1, Invariance, PTL

(* While a round is closed, a present participant has yet to answer it, in  *)
(* whatever order answers and departures came (remove_participant).         *)
THEOREM WaitsForSomebody == Spec => []NeverWaitsForNobody
<1>1. Inv => NeverWaitsForNobody
  BY DEF Inv
<1> QED BY <1>1, Invariance, PTL

-----------------------------------------------------------------------------
(* One step of the coordinator never moves a transaction back. *)
LEMMA OneWayStep ==
  ASSUME Inv, [Next]_vars
  PROVE  IF current'.epoch = current.epoch
         THEN /\ Rank[current'.phase] >= Rank[current.phase]
              /\ current'.participants \subseteq current.participants
         ELSE Free(current) /\ epoch' = epoch + 1
<1>0. current \in TravelTxn /\ epoch \in Nat /\ current.epoch = epoch
  BY DEF Inv, TypeOK
<1>1. CASE \E S \in SUBSET Players : Propose(S)
  BY <1>0, <1>1 DEF Propose, NewTxn, NoTxn
<1>2. CASE \E p \in Players, t \in Epochs, e \in Epochs \cup {Anyone} :
              MarkReady(p, t, e)
  BY <1>0, <1>2 DEF MarkReady, ReadyTaken, WithReady, Rank, TravelTxn
<1>3. CASE \E p \in Players, t \in Epochs, e \in Epochs \cup {Anyone} :
              MarkZoneReady(p, t, e)
  BY <1>0, <1>3 DEF MarkZoneReady, ZoneReadyTaken, WithZoneReady, Rank, TravelTxn
<1>4. CASE \E p \in Players : RemoveParticipant(p)
  <2>1. current.phase \in {"waiting_ready", "committed", "waiting_zone_ready"}
    BY <1>0, <1>4 DEF RemoveParticipant, Free, Finished, TravelTxn, Phase
  <2> QED BY <1>0, <1>4, <2>1 DEF RemoveParticipant, WithoutParticipant, Rank, TravelTxn
<1>5. CASE \E t \in Epochs : BeginZoneWait(t)
  BY <1>0, <1>5 DEF BeginZoneWait, Rank, TravelTxn
<1>6. CASE \E t \in Epochs : Abort(t)
  BY <1>0, <1>6 DEF Abort, Rank, TravelTxn, Phase
<1>7. CASE current' = current
  BY <1>0, <1>7 DEF Rank, TravelTxn, Phase
<1> QED BY <1>1, <1>2, <1>3, <1>4, <1>5, <1>6, <1>7 DEF Next, Refused, vars

(* A transaction is never reopened, never takes a late joiner in and yields *)
(* only when finished (propose, begin_zone_wait, abort).                    *)
THEOREM TransactionsGoOneWay == Spec => OneWay
<1>1. Inv /\ [Next]_vars =>
        [ IF current'.epoch = current.epoch
          THEN /\ Rank[current'.phase] >= Rank[current.phase]
               /\ current'.participants \subseteq current.participants
          ELSE Free(current) /\ epoch' = epoch + 1 ]_vars
  BY OneWayStep
<1> QED BY <1>1, Invariance, PTL DEF Spec, OneWay

-----------------------------------------------------------------------------
(* The refinement: each operation is an answer, a departure, a start, a     *)
(* void, or nothing, of the abstract barrier.                               *)
LEMMA BarrierInit == Init => Barrier!Init
  BY DEF Init, Barrier!Init, Round, Owed, NoTxn

LEMMA BarrierStep ==
  ASSUME Inv, [Next]_vars
  PROVE  [Barrier!Next]_Barrier!vars
<1>0. current \in TravelTxn /\ epoch \in Nat /\ current.epoch = epoch
  BY DEF Inv, TypeOK
<1>1. CASE \E S \in SUBSET Players : Propose(S)
  <2>1. PICK S \in SUBSET Players : Propose(S)
    BY <1>1
  <2>2. Round \in {"closed", "open", "void"}
    BY <1>0, <2>1 DEF Propose, Free, Finished, Round, TravelTxn, Phase
  <2>3. Round' = "gather" /\ Owed' = S /\ current'.participants = S
    BY <2>1 DEF Propose, NewTxn, NoTxn, Round, Owed
  <2>4. Barrier!Start(S)
    BY <2>1, <2>2, <2>3 DEF Propose, Barrier!Start
  <2> QED BY <2>4 DEF Barrier!Next
<1>2. CASE \E p \in Players, t \in Epochs, e \in Epochs \cup {Anyone} :
              MarkReady(p, t, e)
  <2>1. PICK p \in Players, t \in Epochs, e \in Epochs \cup {Anyone} :
              MarkReady(p, t, e)
    BY <1>2
  <2> DEFINE r == current.ready \cup ({p} \cap current.participants)
  <2>2. /\ current.phase = "waiting_ready" /\ epoch' = epoch
        /\ current' = [current EXCEPT !.ready = r,
              !.phase = IF r = current.participants THEN "committed" ELSE @]
    BY <2>1 DEF MarkReady, ReadyTaken, WithReady
  <2>3. Round = "gather" /\ Owed = current.participants \ current.ready
    BY <2>2 DEF Round, Owed
  <2>4. current.zone_ready = {} /\ current.ready \subseteq current.participants
    BY <2>2 DEF Inv, Bookkeeping
  <2>5. CASE r = current.participants
    <3>1. /\ current'.phase = "committed" /\ current'.participants = current.participants
          /\ current'.zone_ready = {}
      BY <1>0, <2>2, <2>4, <2>5 DEF TravelTxn
    <3>2. Round' = "load" /\ Owed' = current.participants /\ Owed \ {p} = {}
      BY <2>3, <2>5, <3>1 DEF Round, Owed
    <3> QED BY <2>1, <2>2, <2>3, <3>1, <3>2 DEF Barrier!Answer, Barrier!Gather, Barrier!Next
  <2>6. CASE r # current.participants
    <3>1. /\ current'.phase = "waiting_ready" /\ current'.participants = current.participants
          /\ current'.ready = r
      BY <1>0, <2>2, <2>6 DEF TravelTxn
    <3>2. Round' = "gather" /\ Owed' = Owed \ {p} /\ Owed \ {p} # {}
      BY <2>3, <2>4, <2>6, <3>1 DEF Round, Owed
    <3> QED BY <2>1, <2>2, <2>3, <3>1, <3>2 DEF Barrier!Answer, Barrier!Gather, Barrier!Next
  <2> QED BY <2>5, <2>6
<1>3. CASE \E p \in Players, t \in Epochs, e \in Epochs \cup {Anyone} :
              MarkZoneReady(p, t, e)
  <2>1. PICK p \in Players, t \in Epochs, e \in Epochs \cup {Anyone} :
              MarkZoneReady(p, t, e)
    BY <1>3
  <2> DEFINE z == current.zone_ready \cup ({p} \cap current.participants)
  <2>2. /\ current.phase \in {"committed", "waiting_zone_ready"} /\ epoch' = epoch
        /\ current' = [current EXCEPT !.zone_ready = z,
              !.phase = IF z = current.participants THEN "complete" ELSE "waiting_zone_ready"]
    BY <2>1 DEF MarkZoneReady, ZoneReadyTaken, WithZoneReady
  <2>3. Round = "load" /\ Owed = current.participants \ current.zone_ready
    BY <2>2 DEF Round, Owed
  <2>4. current.zone_ready \subseteq current.participants
    BY DEF Inv, Bookkeeping
  <2>5. CASE z = current.participants
    <3>1. current'.phase = "complete" /\ current'.participants = current.participants
      BY <1>0, <2>2, <2>5 DEF TravelTxn
    <3>2. Round' = "open" /\ Owed' = {} /\ Owed \ {p} = {}
      BY <2>3, <2>5, <3>1 DEF Round, Owed
    <3> QED BY <2>1, <2>2, <2>3, <3>1, <3>2 DEF Barrier!Answer, Barrier!Load, Barrier!Next
  <2>6. CASE z # current.participants
    <3>1. /\ current'.phase = "waiting_zone_ready" /\ current'.participants = current.participants
          /\ current'.zone_ready = z
      BY <1>0, <2>2, <2>6 DEF TravelTxn
    <3>2. Round' = "load" /\ Owed' = Owed \ {p} /\ Owed \ {p} # {}
      BY <2>3, <2>4, <2>6, <3>1 DEF Round, Owed
    <3> QED BY <2>1, <2>2, <2>3, <3>1, <3>2 DEF Barrier!Answer, Barrier!Load, Barrier!Next
  <2> QED BY <2>5, <2>6
<1>4. CASE \E p \in Players : RemoveParticipant(p)
  <2>1. PICK p \in Players : RemoveParticipant(p)
    BY <1>4
  <2>2. /\ current.phase \in {"waiting_ready", "committed", "waiting_zone_ready"}
        /\ epoch' = epoch /\ current' = WithoutParticipant(current, p)
    BY <1>0, <2>1 DEF RemoveParticipant, Free, Finished, TravelTxn, Phase
  <2> DEFINE m == current.participants \ {p}
  <2>3. current'.participants = m /\ current'.ready = current.ready \ {p}
        /\ current'.zone_ready = current.zone_ready \ {p}
    BY <1>0, <2>2 DEF WithoutParticipant, TravelTxn
  <2>4. CASE current.phase = "waiting_ready"
    <3>1. Round = "gather" /\ Owed = current.participants \ current.ready
      BY <2>4 DEF Round, Owed
    <3>2. current.zone_ready = {} /\ current.ready \subseteq current.participants
      BY <2>4 DEF Inv, Bookkeeping
    <3>3. CASE current.ready \ {p} = m
      <4>1. current'.phase = "committed"
        BY <1>0, <2>2, <2>4, <3>3 DEF WithoutParticipant, TravelTxn
      <4>2. Round' = "load" /\ Owed' = m /\ Owed \ {p} = {}
        BY <2>3, <3>1, <3>2, <3>3, <4>1 DEF Round, Owed
      <4> QED BY <2>1, <2>2, <2>3, <3>1, <4>2 DEF Barrier!Leave, Barrier!Gather, Barrier!Next
    <3>4. CASE current.ready \ {p} # m
      <4>1. current'.phase = "waiting_ready"
        BY <1>0, <2>2, <2>4, <3>4 DEF WithoutParticipant, TravelTxn
      <4>2. Round' = "gather" /\ Owed' = Owed \ {p} /\ Owed \ {p} # {}
        BY <2>3, <3>1, <3>2, <3>4, <4>1 DEF Round, Owed
      <4> QED BY <2>1, <2>2, <2>3, <3>1, <4>2 DEF Barrier!Leave, Barrier!Gather, Barrier!Next
    <3> QED BY <3>3, <3>4
  <2>5. CASE current.phase \in {"committed", "waiting_zone_ready"}
    <3>1. Round = "load" /\ Owed = current.participants \ current.zone_ready
      BY <2>5 DEF Round, Owed
    <3>2. current.zone_ready \subseteq current.participants
      BY DEF Inv, Bookkeeping
    <3>3. CASE current'.phase = "complete"
      <4>1. current.zone_ready \ {p} = m
        BY <1>0, <2>2, <2>5, <3>3 DEF WithoutParticipant, TravelTxn
      <4>2. Round' = "open" /\ Owed' = {} /\ Owed \ {p} = {}
        BY <2>3, <3>1, <3>3, <4>1 DEF Round, Owed
      <4> QED BY <2>1, <2>2, <2>3, <3>1, <4>2 DEF Barrier!Leave, Barrier!Load, Barrier!Next
    <3>4. CASE current'.phase # "complete"
      <4>1. current'.phase = current.phase
        BY <1>0, <2>2, <2>5, <3>4 DEF WithoutParticipant, TravelTxn
      <4>2. Round' = "load" /\ Owed' = Owed \ {p}
        BY <2>3, <2>5, <3>1, <4>1 DEF Round, Owed
      <4>3. Owed \ {p} # {} \/ m = {}
        <5>1. CASE current.phase = "waiting_zone_ready"
          BY <1>0, <2>2, <3>1, <3>2, <3>4, <5>1 DEF WithoutParticipant, TravelTxn
        <5>2. CASE current.phase = "committed"
          BY <3>1, <5>2 DEF Inv, Bookkeeping
        <5> QED BY <2>5, <5>1, <5>2
      <4> QED BY <2>1, <2>2, <2>3, <3>1, <4>2, <4>3 DEF Barrier!Leave, Barrier!Load, Barrier!Next
    <3> QED BY <3>3, <3>4
  <2> QED BY <2>2, <2>4, <2>5
<1>5. CASE \E t \in Epochs : BeginZoneWait(t)
  BY <1>0, <1>5 DEF BeginZoneWait, Round, Owed, Barrier!vars, TravelTxn
<1>6. CASE \E t \in Epochs : Abort(t)
  <2>1. /\ current.phase # "idle" /\ epoch' = epoch
        /\ current' = [current EXCEPT !.phase = "aborted"]
    BY <1>6 DEF Abort
  <2>2. Round # "closed"
    BY <1>0, <2>1 DEF Round, TravelTxn, Phase
  <2>3. Round' = "void" /\ Owed' = {} /\ current'.participants = current.participants
    BY <1>0, <2>1 DEF Round, Owed, TravelTxn
  <2> QED BY <2>1, <2>2, <2>3 DEF Barrier!Void, Barrier!Next
<1>7. CASE current' = current /\ epoch' = epoch
  BY <1>7 DEF Round, Owed, Barrier!vars
<1> QED BY <1>1, <1>2, <1>3, <1>4, <1>5, <1>6, <1>7 DEF Next, Refused, vars

(* kermp/travel.py implements the two-round barrier of its docstring. *)
THEOREM ImplementsBarrier == Spec => BarrierSpec
<1>1. Inv /\ [Next]_vars => [Barrier!Next]_Barrier!vars
  BY BarrierStep
<1> QED BY <1>1, BarrierInit, Invariance, PTL DEF Spec, BarrierSpec, Barrier!Spec
=============================================================================
