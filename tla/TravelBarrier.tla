--------------------------- MODULE TravelBarrier ---------------------------
(***************************************************************************)
(* What kermp/travel.py promises, without its bookkeeping: travel is an    *)
(* all-members barrier with two rounds.  In the round "gather" the members *)
(* acknowledge the proposal, in the round "load" they report the target    *)
(* zone loaded; a round ends only when nobody it still counts is owed.     *)
(***************************************************************************)
EXTENDS Integers

CONSTANTS Players, MaxEpoch

VARIABLES round,    \* "closed", "gather", "load", "open" or "void"
          members,  \* whom the barrier counts
          owed,     \* the members that have not answered in this round
          number    \* how many barriers were started

vars == <<round, members, owed, number>>

Init == round = "closed" /\ members = {} /\ owed = {} /\ number = 0

(* A barrier starts only when the one before it was opened or given up. *)
Start(S) ==
  /\ round \in {"closed", "open", "void"}
  /\ S # {}
  /\ number < MaxEpoch
  /\ round' = "gather" /\ members' = S /\ owed' = S /\ number' = number + 1

(* Someone answers, or leaves: `m` are the members after it, `o` the members *)
(* still owed in the round.                                                 *)
Gather(m, o) ==
  /\ round = "gather"
  /\ \/ o # {} /\ round' = "gather" /\ owed' = o
     \/ o = {} /\ round' = "load" /\ owed' = m

(* The load round may stay unopened when its last member leaves. *)
Load(m, o) ==
  /\ round = "load"
  /\ owed' = o
  /\ \/ (o # {} \/ m = {}) /\ round' = "load"
     \/ o = {} /\ round' = "open"

Answer(p) ==
  /\ members' = members
  /\ Gather(members, owed \ {p}) \/ Load(members, owed \ {p})
  /\ UNCHANGED number

Leave(p) ==
  /\ members' = members \ {p}
  /\ Gather(members \ {p}, owed \ {p}) \/ Load(members \ {p}, owed \ {p})
  /\ UNCHANGED number

Void ==
  /\ round # "closed"
  /\ round' = "void" /\ owed' = {}
  /\ UNCHANGED <<members, number>>

Next ==
  \/ \E S \in SUBSET Players : Start(S)
  \/ \E p \in Players : Answer(p) \/ Leave(p)
  \/ Void

Spec == Init /\ [][Next]_vars
=============================================================================
