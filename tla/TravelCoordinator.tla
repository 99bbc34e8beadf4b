------------------------- MODULE TravelCoordinator -------------------------
(***************************************************************************)
(* The host's travel coordinator, kermp/travel.py: one transaction at a    *)
(* time, its participants, who acknowledged it, who reported its zone.     *)
(*                                                                         *)
(* A transaction's uuid is fresh at each propose, as its epoch is, so the  *)
(* epoch stands for both.  Calls carry a txn_id and an epoch of their own  *)
(* (the epoch may be absent), which need not agree.                        *)
(***************************************************************************)
EXTENDS Integers

CONSTANTS Players,   \* player ids that may ever take part
          MaxEpoch   \* bound on the number of proposals

ASSUME MaxEpochAssumption == MaxEpoch \in Nat

VARIABLES current,   \* the transaction, or NoTxn
          epoch,     \* _epoch: the last epoch handed out
          said       \* history: the acknowledgements made, <<kind, player, epoch>>

vars == <<current, epoch, said>>

-----------------------------------------------------------------------------
Phase == {"idle", "waiting_ready", "committed", "waiting_zone_ready",
          "complete", "aborted"}
Finished == {"complete", "aborted"}
Anyone == 0                           \* the epoch argument left out (None)
Epochs == 1..MaxEpoch
AckKind == {"ready", "zone_ready"}

TravelTxn == [epoch : 0..MaxEpoch, phase : Phase, participants : SUBSET Players,
              ready : SUBSET Players, zone_ready : SUBSET Players]

NoTxn == [epoch |-> 0, phase |-> "idle", participants |-> {},
          ready |-> {}, zone_ready |-> {}]

(* mutant: the transaction carries the epoch from before the increment *)
NewTxnEpochBehind(e, S) == [NoTxn EXCEPT !.epoch = e - 1, !.phase = "waiting_ready",
                                         !.participants = S]

NewTxn(e, S) == [NoTxn EXCEPT !.epoch = e, !.phase = "waiting_ready",
                              !.participants = S]

(* No transaction, or a finished one: only then is a proposal taken. *)
Free(t) == t.phase \in Finished \cup {"idle"}

(* mutant: the acknowledgement's epoch is not compared *)
AnswersAnyEpoch(t, txn_id, e) == t.phase # "idle" /\ txn_id = t.epoch

(* _get finds the transaction, and the epoch is absent or agrees. *)
Answers(t, txn_id, e) == /\ t.phase # "idle"
                         /\ txn_id = t.epoch
                         /\ e \in {Anyone, t.epoch}

(* mark_ready after its early returns *)
WithReady(t, p) ==
  LET ready == t.ready \cup ({p} \cap t.participants)
  IN  [t EXCEPT !.ready = ready,
                !.phase = IF ready = t.participants THEN "committed" ELSE @]

(* mutant: the first zone report completes the travel *)
WithFirstZoneReady(t, p) ==
  [t EXCEPT !.zone_ready = @ \cup ({p} \cap t.participants), !.phase = "complete"]

(* mark_zone_ready after its early returns *)
WithZoneReady(t, p) ==
  LET loaded == t.zone_ready \cup ({p} \cap t.participants)
  IN  [t EXCEPT !.zone_ready = loaded,
                !.phase = IF loaded = t.participants THEN "complete"
                                                     ELSE "waiting_zone_ready"]

(* mutant: a departure does not re-examine the barrier *)
WithoutParticipantUnchecked(t, p) ==
  [t EXCEPT !.participants = @ \ {p}, !.ready = @ \ {p}, !.zone_ready = @ \ {p}]

(* remove_participant after its early return *)
WithoutParticipant(t, p) ==
  LET u == [t EXCEPT !.participants = @ \ {p}, !.ready = @ \ {p},
                     !.zone_ready = @ \ {p}]
  IN  [u EXCEPT !.phase =
         CASE u.phase = "waiting_ready" /\ u.ready = u.participants -> "committed"
           [] u.phase = "waiting_zone_ready" /\ u.zone_ready = u.participants -> "complete"
           [] OTHER -> u.phase]

-----------------------------------------------------------------------------
Init == current = NoTxn /\ epoch = 0 /\ said = {}

Propose(S) ==
  /\ Free(current)
  /\ S # {}
  /\ epoch < MaxEpoch
  /\ epoch' = epoch + 1
  /\ current' = NewTxn(epoch + 1, S)
  /\ UNCHANGED said

(* The acknowledgement (kind, p) names transaction txn_id and epoch e.  One   *)
(* that contradicts itself is an acknowledgement of nothing.                  *)
Says(kind, p, txn_id, e) ==
  said' = said \cup (IF e \in {Anyone, txn_id} THEN {<<kind, p, txn_id>>} ELSE {})

(* mutant: an acknowledgement is taken whatever the phase *)
TakenAnyPhase(txn_id, e) ==
  Answers(current, txn_id, e) /\ current.phase \notin Finished

ReadyTaken(txn_id, e) ==
  Answers(current, txn_id, e) /\ current.phase = "waiting_ready"

ZoneReadyTaken(txn_id, e) ==
  Answers(current, txn_id, e) /\ current.phase \in {"committed", "waiting_zone_ready"}

MarkReady(p, txn_id, e) ==
  /\ ReadyTaken(txn_id, e)
  /\ current' = WithReady(current, p)
  /\ Says("ready", p, txn_id, e)
  /\ UNCHANGED epoch

MarkZoneReady(p, txn_id, e) ==
  /\ ZoneReadyTaken(txn_id, e)
  /\ current' = WithZoneReady(current, p)
  /\ Says("zone_ready", p, txn_id, e)
  /\ UNCHANGED epoch

(* KeyError, or False: the acknowledgement changes no transaction. *)
Refused(kind, p, txn_id, e) ==
  /\ CASE kind = "ready" -> ~ReadyTaken(txn_id, e)
       [] kind = "zone_ready" -> ~ZoneReadyTaken(txn_id, e)
  /\ Says(kind, p, txn_id, e)
  /\ UNCHANGED <<current, epoch>>

BeginZoneWait(txn_id) ==
  /\ txn_id = current.epoch
  /\ current.phase = "committed"
  /\ current' = [current EXCEPT !.phase = "waiting_zone_ready"]
  /\ UNCHANGED <<epoch, said>>

(* abort looks at no phase: it also overwrites "complete". *)
Abort(txn_id) ==
  /\ current.phase # "idle"
  /\ txn_id = current.epoch
  /\ current' = [current EXCEPT !.phase = "aborted"]
  /\ UNCHANGED <<epoch, said>>

RemoveParticipant(p) ==
  /\ ~Free(current)
  /\ current' = WithoutParticipant(current, p)
  /\ UNCHANGED <<epoch, said>>

Next ==
  \/ \E S \in SUBSET Players : Propose(S)
  \/ \E p \in Players, t \in Epochs, e \in Epochs \cup {Anyone} :
        \/ MarkReady(p, t, e)
        \/ MarkZoneReady(p, t, e)
        \/ \E kind \in AckKind : Refused(kind, p, t, e)
  \/ \E t \in Epochs : BeginZoneWait(t) \/ Abort(t)
  \/ \E p \in Players : RemoveParticipant(p)

Spec == Init /\ [][Next]_vars

-----------------------------------------------------------------------------
(* The shape of the coordinator's fields (TravelTxn and TravelCoordinator). *)
TypeOK ==
  /\ current \in TravelTxn
  /\ epoch \in 0..MaxEpoch
  /\ current.epoch = epoch
  /\ said \subseteq AckKind \X Players \X Epochs

Committed == {"committed", "waiting_zone_ready", "complete"}

(* Nobody travels, and nobody is counted as arrived, on the strength of an  *)
(* acknowledgement made for another transaction or another epoch: whoever   *)
(* is still a participant has said "ready" for this very epoch before it is *)
(* committed, and "zone_ready" for this very epoch before it is complete    *)
(* (mark_ready and mark_zone_ready with the checks of _get and the epoch).  *)
NobodyIsSpokenFor ==
  /\ current.phase \in Committed =>
        \A p \in current.participants : <<"ready", p, current.epoch>> \in said
  /\ current.phase = "complete" =>
        \A p \in current.participants : <<"zone_ready", p, current.epoch>> \in said

(* The barrier never waits for nobody: while it is closed somebody who is   *)
(* still a participant has yet to answer, whatever the order in which the   *)
(* last answer and the last departure came (mark_ready, mark_zone_ready and *)
(* remove_participant all have to look).  The one exception is a load round *)
(* that has lost every participant.                                         *)
NeverWaitsForNobody ==
  /\ current.phase = "waiting_ready" => current.ready # current.participants
  /\ current.phase \in {"committed", "waiting_zone_ready"} =>
        current.zone_ready # current.participants \/ current.participants = {}

Rank == [idle |-> 0, waiting_ready |-> 1, committed |-> 2,
         waiting_zone_ready |-> 3, complete |-> 4, aborted |-> 5]

(* A transaction never goes back a phase, never takes a late joiner in, and *)
(* yields to the next one only when it is finished.                         *)
OneWay ==
  [][ IF current'.epoch = current.epoch
      THEN /\ Rank[current'.phase] >= Rank[current.phase]
           /\ current'.participants \subseteq current.participants
      ELSE Free(current) /\ epoch' = epoch + 1 ]_vars

-----------------------------------------------------------------------------
(* The barrier it implements: who is owed an answer in which round. *)
Round ==
  CASE current.phase = "idle" -> "closed"
    [] current.phase = "waiting_ready" -> "gather"
    [] current.phase \in {"committed", "waiting_zone_ready"} -> "load"
    [] current.phase = "complete" -> "open"
    [] current.phase = "aborted" -> "void"

Owed ==
  CASE current.phase = "waiting_ready" -> current.participants \ current.ready
    [] current.phase \in {"committed", "waiting_zone_ready"} ->
         current.participants \ current.zone_ready
    [] OTHER -> {}

Barrier == INSTANCE TravelBarrier
             WITH round <- Round, members <- current.participants,
                  owed <- Owed, number <- epoch

(* The coordinator implements the two-round barrier of TravelBarrier. *)
BarrierSpec == Barrier!Spec
=============================================================================
