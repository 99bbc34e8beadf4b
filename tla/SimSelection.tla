----------------------------- MODULE SimSelection -----------------------------
(***************************************************************************)
(* Who plays which Sim.  HostSession (kermp/session.py) keeps the players,   *)
(* the Sims of the last roster it was sent and who controls each; the games   *)
(* (kermp_mod/hooks.py) publish the Sim their player has selected, the        *)
(* sidecars (kermp/runtime.py) pass it on.                                   *)
(***************************************************************************)
EXTENDS Naturals, Sequences, FiniteSets

CONSTANTS
    Players, Host,      \* player ids, and the host's
    Sims, NoSim,        \* Sim ids, and "none"
    Loads,              \* the Sims loaded in each player's game
    MaxPicks,           \* bound: selections, departures and cancellations in all
    Window              \* bound: messages on the way from one game

ASSUME SelectionAssumption ==
    /\ Host \in Players /\ NoSim \notin Sims
    /\ Loads \in [Players -> SUBSET Sims]
    /\ MaxPicks \in Nat /\ Window \in Nat \ {0}

VARIABLES
    joined, active, saved,      \* session.players, active_sim_id, reconnect_sim_ids
    roster, controllers,        \* session.sims and the controllers in it
    selected,                   \* the Sim selected in each game
    localSim, published,        \* _local_active_sim_id, _last_published_active_sim_id
    picking,                    \* a game between its selection and the publication
    nudges,                     \* selections of others on the way to each game
    up,                         \* messages from each game to the session
    late,                       \* SIM_SELECTs a suspended coroutine still has to send
    picks,                      \* history: selections, departures and cancellations so far
    had                         \* history: the Sims the session let each player have

sessionVars == <<joined, active, saved, roster, controllers, had>>
gameVars == <<selected, localSim, published, picking, picks>>
selectionVars == <<sessionVars, gameVars, nudges, up, late>>

SomeSim == Sims \cup {NoSim}

RosterMsg(sims, sim) == [type |-> "sims.state", sims |-> sims, sim |-> sim]
SelectMsg(sim) == [type |-> "sim.select", sim |-> sim]

\* The players in ps whose Sim, after act, is s.
Choosers(ps, act, s) == {p \in ps : act[p] = s}

\* The controllers of the Sims of a roster, all computed anew.
Rederived(ps, act, sims) == [s \in Sims |-> IF s \in sims THEN Choosers(ps, act, s) ELSE {}]

SelectionInit ==
    /\ joined = {Host} /\ roster = {}
    /\ active = [p \in Players |-> NoSim]
    /\ saved = [p \in Players |-> NoSim]
    /\ controllers = [s \in Sims |-> {}]
    /\ selected \in [Players -> SomeSim]
    /\ \A p \in Players : selected[p] \in Loads[p] \cup {NoSim}
    /\ localSim = [p \in Players |-> NoSim]
    /\ published = [p \in Players |-> NoSim]
    /\ picking = [p \in Players |-> FALSE]
    /\ nudges = [p \in Players |-> 0]
    /\ up = [p \in Players |-> <<>>]
    /\ late = [p \in Players |-> <<>>]
    /\ picks = 0
    /\ had = [p \in Players |-> {}]

-----------------------------------------------------------------------------
(* The games.                                                              *)

Room(p, n) == Len(up[p]) + n <= Window

\* What a game says while its sidecar is in no session is lost.
Said(p, ms) == up' = [up EXCEPT ![p] = IF p \in joined THEN @ \o ms ELSE @]

\* set_active_sim: the wrapper calls the original first.  kermp.sims, the
\* sidecar's welcome and a loaded zone publish without a change.
Selects(p, s) ==
    /\ ~picking[p] /\ picks < MaxPicks
    /\ s \in Loads[p] \cup {selected[p]}
    /\ selected' = [selected EXCEPT ![p] = s]
    /\ picking' = [picking EXCEPT ![p] = TRUE]
    /\ picks' = picks + 1
    /\ UNCHANGED <<sessionVars, localSim, published, nudges, up, late>>

\* _publish_active_sim_if_ready: the roster always, the selection when it is
\* loaded and not the one published last.
Publishes(p) ==
    LET s == selected[p]
        isNews == s \in Loads[p] /\ s # published[p]
        news == IF isNews THEN <<RosterMsg(Loads[p], s), SelectMsg(s)>> ELSE <<RosterMsg(Loads[p], s)>>
    IN
    /\ picking[p] /\ Room(p, Len(news))
    /\ picking' = [picking EXCEPT ![p] = FALSE]
    /\ localSim' = [localSim EXCEPT ![p] = s]
    /\ published' = [published EXCEPT ![p] = IF isNews THEN s ELSE @]
    /\ Said(p, news)
    /\ UNCHANGED <<sessionVars, selected, picks, nudges, late>>

\* kermp.sim.select names any Sim, whatever is selected in the game.
Commands(p, s) ==
    /\ picks < MaxPicks /\ Room(p, 1)
    /\ picks' = picks + 1
    /\ Said(p, <<SelectMsg(s)>>)
    /\ UNCHANGED <<sessionVars, selected, localSim, published, picking, nudges, late>>

\* _restore_local_active_sim, on the reader thread of a client's game: the
\* original setter, past the wrapper, with what was published last.
Restores(p) ==
    /\ nudges[p] > 0
    /\ nudges' = [nudges EXCEPT ![p] = @ - 1]
    /\ selected' = [selected EXCEPT ![p] = IF localSim[p] = NoSim THEN @ ELSE localSim[p]]
    /\ UNCHANGED <<sessionVars, localSim, published, picking, picks, up, late>>

-----------------------------------------------------------------------------
(* The session.                                                            *)

\* add_player: who comes back gets the Sim it had.
AddPlayer(p) ==
    LET s == saved[p] IN
    /\ joined' = joined \cup {p}
    /\ active' = [active EXCEPT ![p] = IF s \in roster THEN s ELSE NoSim]
    /\ controllers' = IF s \in roster THEN [controllers EXCEPT ![s] = Choosers(joined', active', s)]
                                      ELSE controllers

\* Mutant: the controllers are kept as they were.
RemovePlayerKeepingControllers(p) ==
    /\ saved' = [saved EXCEPT ![p] = IF active[p] = NoSim THEN @ ELSE active[p]]
    /\ joined' = joined \ {p}
    /\ active' = [active EXCEPT ![p] = NoSim]
    /\ UNCHANGED controllers

RemovePlayer(p) ==
    /\ saved' = [saved EXCEPT ![p] = IF active[p] = NoSim THEN @ ELSE active[p]]
    /\ joined' = joined \ {p}
    /\ active' = [active EXCEPT ![p] = NoSim]
    /\ controllers' = Rederived(joined', active', roster)

\* update_sims: any player's roster takes the place of the one before.
UpdateSims(sims) ==
    /\ roster' = sims
    /\ controllers' = Rederived(joined, active, sims)
    /\ UNCHANGED <<joined, active, saved, had>>

\* select_sim: the Sim's controllers are computed anew, those of the Sim the
\* player had are not.
SelectSim(p, s) ==
    /\ active' = [active EXCEPT ![p] = s]
    /\ controllers' = [controllers EXCEPT ![s] = Choosers(joined, active', s)]
    /\ had' = [had EXCEPT ![p] = @ \cup {s}]
    /\ UNCHANGED <<joined, saved, roster>>

\* What the broadcast of a selection does to the other clients' games.
Nudged(p) == [q \in Players |-> IF q \in joined \ {Host, p} THEN nudges[q] + 1 ELSE nudges[q]]

\* SIM_SELECT, or its refusal ("unknown_player" cannot be: p has joined).
Selection(p, s) ==
    IF s \in roster THEN SelectSim(p, s) /\ nudges' = Nudged(p)
                    ELSE UNCHANGED <<sessionVars, nudges>>

\* The session takes the next message of p: a roster, which the sidecar of a
\* client follows up with a SIM_SELECT of its own, at once or, when its first
\* write is suspended, later; or a selection.
TakesSelection(p) ==
    LET m == Head(up[p]) IN
    /\ p \in joined /\ up[p] # <<>>
    /\ \/ /\ m.type = "sims.state"
          /\ UpdateSims(m.sims)
          /\ up' = [up EXCEPT ![p] = Tail(@)]
          /\ late' = [late EXCEPT ![p] = IF p = Host \/ m.sim = NoSim THEN @ ELSE Append(@, m.sim)]
          /\ UNCHANGED nudges
       \/ /\ m.type = "sim.select"
          /\ Selection(p, m.sim)
          /\ up' = [up EXCEPT ![p] = Tail(@)]
          /\ UNCHANGED late
    /\ UNCHANGED gameVars

TakesLate(p) ==
    /\ p \in joined /\ late[p] # <<>>
    /\ Selection(p, Head(late[p]))
    /\ late' = [late EXCEPT ![p] = Tail(@)]
    /\ UNCHANGED <<gameVars, up>>

PlayerJoins(p) ==
    /\ p \notin joined
    /\ AddPlayer(p)
    /\ UNCHANGED <<saved, roster, had, gameVars, nudges, up, late>>

PlayerLeaves(p) ==
    /\ p \in joined \ {Host} /\ picks < MaxPicks
    /\ picks' = picks + 1
    /\ RemovePlayer(p)
    /\ up' = [up EXCEPT ![p] = <<>>]
    /\ late' = [late EXCEPT ![p] = <<>>]
    /\ nudges' = [nudges EXCEPT ![p] = 0]
    /\ UNCHANGED <<roster, had, selected, localSim, published, picking>>

-----------------------------------------------------------------------------

SelectionStep(p) ==
    \/ \E s \in SomeSim : Selects(p, s)
    \/ \E s \in Sims : Commands(p, s)
    \/ Publishes(p) \/ Restores(p) \/ TakesSelection(p) \/ TakesLate(p)

SelectionTypeOK ==
    /\ joined \subseteq Players /\ Host \in joined
    /\ active \in [Players -> SomeSim] /\ saved \in [Players -> SomeSim]
    /\ roster \subseteq Sims /\ controllers \in [Sims -> SUBSET Players]
    /\ selected \in [Players -> SomeSim]
    /\ localSim \in [Players -> SomeSim] /\ published \in [Players -> SomeSim]
    /\ picking \in [Players -> BOOLEAN] /\ nudges \in [Players -> Nat]
    /\ late \in [Players -> Seq(Sims)] /\ had \in [Players -> SUBSET Sims]

\* A player is among the controllers of the Sim it plays, nobody who has left
\* controls a Sim, and no Sim outside the roster is controlled, through every
\* change of the roster, departure and return.  ("disconnect removes the player's
\* controlled-Sim marker", research/CORE_MULTIPLAYER_SPIKE.md:11)
ControllersAreHere ==
    /\ \A p \in joined : active[p] \in roster => p \in controllers[active[p]]
    /\ \A s \in Sims : controllers[s] \subseteq joined /\ (s \notin roster => controllers[s] = {})

=============================================================================
