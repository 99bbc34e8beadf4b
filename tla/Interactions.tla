----------------------------- MODULE Interactions -----------------------------
(***************************************************************************)
(* An interaction on its way: a client's game captures it instead of running  *)
(* it, the session accepts it for the Sim its player has, the host's game      *)
(* replays it and reports what becomes of it.  In the host's game the reader   *)
(* thread of the bridge replays while the game thread starts and ends          *)
(* interactions, its own ones among them.                                     *)
(***************************************************************************)
EXTENDS SimSelection

CONSTANTS
    Requests, NoRequest,    \* request ids, and "none"
    MaxWork                 \* bound: interactions in the host's game

ASSUME InteractionsAssumption == NoRequest \notin Requests /\ MaxWork \in Nat

VARIABLES
    req,            \* session.interaction_requests
    pending,        \* per connection, what its suspended handler has for the host's game
    known,          \* per client's game and Sim, the last of
                    \* _interaction_request_by_id
    used,           \* history: the request ids handed out
    todo,           \* messages to the host's game
    reader,         \* what the reader thread of the host's game is doing
    current,        \* _active_native_command
    clientSim,      \* the Sim of each player's stand-in Client
    registered,     \* _native_interaction_requests
    work            \* the interactions in the host's game

askVars == <<req, pending, known, used>>
hostGameVars == <<reader, current, clientSim, registered, work>>
interactionVars == <<selectionVars, askVars, todo, hostGameVars>>

\* "request" comes from a menu's AOP or kermp.interact; the others are native
\* commands: "push" makes an interaction (select, push, push_targeting_sim_info),
\* "query" fills a menu (has_choices, choices).
Kinds == {"request", "push", "query", "cancel_si"}
Reportable == {"request", "push"}

Work == 1..MaxWork
NoWork == 0

NoReq == [status |-> "none", kind |-> "none", player |-> Host, sim |-> NoSim, iid |-> NoWork]
Statuses == {"none", "accepted", "queued", "started", "finished", "rejected", "cancel_requested"}

Ask(kind, r, sim, iid) == [type |-> "ask", kind |-> kind, r |-> r, sim |-> sim, iid |-> iid]
Cancel(r, sim, iid) == [type |-> "cancel", r |-> r, sim |-> sim, iid |-> iid]
Report(what, r, iid) == [type |-> "report", what |-> what, r |-> r, iid |-> iid]
ForGame(kind, r, p, sim, iid) == [kind |-> kind, r |-> r, player |-> p, sim |-> sim, iid |-> iid]

Idle == [at |-> "idle"]

InteractionInit ==
    /\ SelectionInit
    /\ req = [r \in Requests |-> NoReq]
    /\ pending = [p \in Players |-> <<>>]
    /\ known = [p \in Players |-> [s \in SomeSim |-> NoRequest]]
    /\ used = {}
    /\ todo = <<>>
    /\ reader = Idle /\ current = NoRequest
    /\ clientSim = [p \in Players |-> NoSim]
    /\ registered = [i \in Work |-> NoRequest]
    /\ work = <<>>

-----------------------------------------------------------------------------
(* A client's game.                                                        *)

\* A request under a new id, remembered with its Sim.  What the bridge does not
\* take is not asked; a push and a menu then go to the game's own handler.
Asks(p, kind, r, sim, iid) ==
    /\ p # Host /\ p \in joined /\ Room(p, 1)
    /\ r \notin used /\ sim # NoSim
    /\ used' = used \cup {r}
    /\ known' = [known EXCEPT ![p][sim] = r]
    /\ Said(p, <<Ask(kind, r, sim, iid)>>)
    /\ UNCHANGED <<sessionVars, gameVars, nudges, late, req, pending, todo, hostGameVars>>

\* test_and_execute of a menu's entry, for the Sim of its context.
PicksEntry(p, r) == Asks(p, "request", r, selected[p], NoWork)

\* push_super_affordance, of whatever Sim it is called on.
PushesAffordance(p, r) == \E sim \in Loads[p] : Asks(p, "request", r, sim, NoWork)

\* The commands that push an interaction, fill a menu or choose from it, and
\* cancel: for the selected Sim.
CommandsPush(p, r) == Asks(p, "push", r, selected[p], NoWork)
CommandsChoice(p, r) == \E kind \in {"query", "push"} : Asks(p, kind, r, selected[p], NoWork)
CommandsCancel(p, r, iid) == Asks(p, "cancel_si", r, selected[p], iid)

\* The wrapper of cancel_super_interaction names the last request it knows for
\* the Sim, whichever interaction is to be cancelled.
LastFor(p, sim) == known[p][sim]

AsksToCancel(p, iid) ==
    /\ p # Host /\ p \in joined /\ Room(p, 1) /\ picks < MaxPicks
    /\ Said(p, <<Cancel(LastFor(p, selected[p]), selected[p], iid)>>)
    /\ picks' = picks + 1
    /\ UNCHANGED <<sessionVars, selected, localSim, published, picking, nudges, late, askVars, todo, hostGameVars>>

-----------------------------------------------------------------------------
(* The session.                                                            *)

\* Mutant: whoever asks for a Sim of the roster is taken for its player.
ValidAnySim(p, m) == req[m.r] = NoReq /\ m.sim \in roster

\* validate_interaction, for a request with an id and an affordance.
Valid(p, m) == req[m.r] = NoReq /\ m.sim = active[p] /\ m.sim \in roster

Accepted(p, m) == [status |-> "accepted", kind |-> m.kind, player |-> p, sim |-> m.sim, iid |-> NoWork]

\* A request of a client, accepted or answered with an error nobody reads.  The
\* handler may be suspended before it hands the request to the host's game.
TakesAsk(p) ==
    LET m == Head(up[p]) IN
    /\ p # Host /\ p \in joined /\ up[p] # <<>> /\ m.type = "ask" /\ pending[p] = <<>>
    /\ up' = [up EXCEPT ![p] = Tail(@)]
    /\ IF Valid(p, m)
       THEN /\ req' = [req EXCEPT ![m.r] = Accepted(p, m)]
            /\ pending' = [pending EXCEPT ![p] = <<ForGame(m.kind, m.r, p, m.sim, m.iid)>>]
       ELSE UNCHANGED <<req, pending>>
    /\ UNCHANGED <<sessionVars, gameVars, nudges, late, known, used, todo, hostGameVars>>

\* kermp.interact in the host's game: the runtime sends it back at once.
HostAsks(r, sim) ==
    LET m == Ask("request", r, sim, NoWork) IN
    /\ r \notin used
    /\ used' = used \cup {r}
    /\ IF Valid(Host, m)
       THEN /\ req' = [req EXCEPT ![r] = Accepted(Host, m)]
            /\ todo' = Append(todo, ForGame("request", r, Host, sim, NoWork))
       ELSE UNCHANGED <<req, todo>>
    /\ UNCHANGED <<selectionVars, pending, known, hostGameVars>>

\* INTERACTION_CANCEL without a request id: one that is known by the
\* interaction, or an id of its own.
Meant(m) ==
    IF m.r # NoRequest THEN {m.r}
    ELSE LET those == {r \in Requests : req[r] # NoReq /\ req[r].iid = m.iid}
         IN IF those = {} THEN {NoRequest} ELSE those

\* cancel_interaction: a request the session does not have is made up.
CancelRequested(p, m, r) ==
    IF r = NoRequest THEN req
    ELSE [req EXCEPT ![r] = IF @ = NoReq THEN [NoReq EXCEPT !.status = "cancel_requested", !.player = p, !.sim = m.sim]
                                         ELSE [@ EXCEPT !.status = "cancel_requested"]]

TakesCancel(p) ==
    LET m == Head(up[p]) IN
    /\ p # Host /\ p \in joined /\ up[p] # <<>> /\ m.type = "cancel" /\ pending[p] = <<>>
    /\ up' = [up EXCEPT ![p] = Tail(@)]
    /\ IF m.sim = active[p]
       THEN \E r \in Meant(m) :
              /\ req' = CancelRequested(p, m, r)
              /\ pending' = [pending EXCEPT ![p] = <<ForGame("cancel", r, p, m.sim, m.iid)>>]
       ELSE UNCHANGED <<req, pending>>
    /\ UNCHANGED <<sessionVars, gameVars, nudges, late, known, used, todo, hostGameVars>>

\* The rest of the broadcast: the bridge takes it, or has no game at its other
\* end; then the clients are told and the status stays as it is.
ToHostGame(p) ==
    /\ pending[p] # <<>>
    /\ pending' = [pending EXCEPT ![p] = <<>>]
    /\ todo' \in {todo, todo \o pending[p]}
    /\ UNCHANGED <<selectionVars, req, known, used, hostGameVars>>

\* A report of the host's game: its last word is the request's status.
TakesReport ==
    LET m == Head(up[Host])
        iid == IF m.iid = NoWork THEN req[m.r].iid ELSE m.iid
    IN
    /\ up[Host] # <<>> /\ m.type = "report"
    /\ up' = [up EXCEPT ![Host] = Tail(@)]
    /\ req' = IF m.r = NoRequest \/ req[m.r] = NoReq THEN req
              ELSE [req EXCEPT ![m.r] = [@ EXCEPT !.status = m.what, !.iid = iid]]
    /\ UNCHANGED <<sessionVars, gameVars, nudges, late, pending, known, used, todo, hostGameVars>>

-----------------------------------------------------------------------------
(* The host's game, reader thread.                                         *)

Reports(ms) == Room(Host, Len(ms)) /\ up' = [up EXCEPT ![Host] = @ \o ms]
NoReport == UNCHANGED up
Elsewhere == UNCHANGED <<sessionVars, gameVars, nudges, late, askVars>>

InQueueOf(sim) == {i \in DOMAIN work : work[i].sim = sim /\ work[i].stage = "queued"}
Alive(i, sim) == i \in DOMAIN work /\ work[i].sim = sim /\ work[i].stage # "gone"
Gone(i) == [work EXCEPT ![i].stage = "gone"]

\* _remote_client_for: one Client for each player, set to the Sim of the command.
ClientFor(m) == clientSim' = [clientSim EXCEPT ![m.player] = m.sim]

Takes(kinds) == reader = Idle /\ todo # <<>> /\ Head(todo).kind \in kinds /\ todo' = Tail(todo)
Acting(m) == reader' = [at |-> "acting", m |-> m, before |-> InQueueOf(m.sim)]
Rejects(m) == Reports(<<Report("rejected", m.r, NoWork)>>)

\* _resolve_interaction: the Sim must be loaded, and affordance, target and
\* context be found, or it raises.
Resolves ==
    LET m == Head(todo) IN
    /\ Takes({"request"})
    /\ \/ m.sim \in Loads[Host] /\ Acting(m) /\ NoReport
       \/ Rejects(m) /\ UNCHANGED reader
    /\ UNCHANGED <<current, clientSim, registered, work>> /\ Elsewhere

\* _interaction_command up to the native call.  A Sim that is not loaded, or a
\* Client that cannot be made, is an exception.
Begins ==
    LET m == Head(todo) IN
    /\ Takes(Kinds \ {"request"})
    /\ \/ /\ m.sim \in Loads[Host] /\ Acting(m)
          /\ current' = m.r /\ ClientFor(m)
          /\ NoReport
       \/ Rejects(m) /\ UNCHANGED <<reader, current, clientSim>>
    /\ UNCHANGED <<registered, work>> /\ Elsewhere

\* Mutant: there is no finally block.
ForgetsToFinish == reader' = Idle /\ UNCHANGED current

\* The finally block.
Finishes == reader' = Idle /\ current' = NoRequest

\* Whose queue the native call works on.
ActsOn(m) == IF m.kind = "request" THEN m.sim ELSE clientSim[m.player]

\* It makes an interaction.  One that starts inside the call is reported for
\* the active command, and there is none for a "request".
Pushes ==
    LET m == reader.m
        i == Len(work) + 1
    IN
    /\ reader.at = "acting" /\ m.kind \in Reportable /\ i \in Work
    /\ \/ /\ work' = Append(work, [sim |-> ActsOn(m), by |-> m.r, stage |-> "queued"])
          /\ NoReport
       \/ /\ work' = Append(work, [sim |-> ActsOn(m), by |-> m.r, stage |-> "running"])
          /\ IF m.kind = "push" THEN Reports(<<Report("started", m.r, i)>>) ELSE NoReport
    /\ reader' = [at |-> "reporting", m |-> m, before |-> reader.before, made |-> i]
    /\ UNCHANGED <<current, clientSim, registered, todo>> /\ Elsewhere

\* It fills a menu, or cancels an interaction of the Client's Sim if it finds it.
ActsSilently ==
    LET m == reader.m IN
    /\ reader.at = "acting" /\ m.kind \in {"query", "cancel_si"}
    /\ work' = IF m.kind = "cancel_si" /\ Alive(m.iid, ActsOn(m)) THEN Gone(m.iid) ELSE work
    /\ Finishes /\ NoReport
    /\ UNCHANGED <<clientSim, registered, todo>> /\ Elsewhere

\* It refuses, or raises.
Fails ==
    /\ reader.at = "acting"
    /\ Rejects(reader.m)
    /\ Finishes
    /\ UNCHANGED <<clientSim, registered, work, todo>> /\ Elsewhere

\* What the native call has come to, taken for one of these: in the queue it is
\* reported and remembered, and one that has started may have left the queue.
ReportsQueued(these) ==
    /\ \/ \E i \in these :
             /\ work[i].stage # "gone"
             /\ registered' = [registered EXCEPT ![i] = reader.m.r]
             /\ Reports(<<Report("queued", reader.m.r, i)>>)
       \/ work[reader.made].stage # "queued" /\ NoReport /\ UNCHANGED registered
    /\ Finishes
    /\ UNCHANGED <<clientSim, work, todo>> /\ Elsewhere

\* _interaction_request has the interaction from the result.
RequestQueued ==
    /\ reader.at = "reporting" /\ reader.m.kind = "request"
    /\ ReportsQueued({reader.made})

\* A command's result may carry none: then it is the first that is new in the
\* queue.
CommandQueued ==
    /\ reader.at = "reporting" /\ reader.m.kind = "push"
    /\ ReportsQueued({reader.made} \cup (InQueueOf(reader.m.sim) \ reader.before))

\* _interaction_cancel.
Cancels ==
    LET m == Head(todo) IN
    /\ Takes({"cancel"})
    /\ IF Alive(m.iid, m.sim)
       THEN work' = Gone(m.iid) /\ Reports(<<Report("finished", m.r, m.iid)>>)
       ELSE Rejects(m) /\ UNCHANGED work
    /\ UNCHANGED <<reader, current, clientSim, registered>> /\ Elsewhere

-----------------------------------------------------------------------------
(* The host's game, game thread.                                           *)

\* The host's player, or a Sim by itself.
OwnWork(sim) ==
    /\ Len(work) < MaxWork
    /\ work' = Append(work, [sim |-> sim, by |-> NoRequest, stage |-> "queued"])
    /\ UNCHANGED <<reader, current, clientSim, registered, todo, up>> /\ Elsewhere

\* Mutant: every command counts, menus and cancellations too.
CountsAny(r) == r # NoRequest

\* _native_interaction_started reports for commands that make interactions.
Counts(r) == r # NoRequest /\ req[r].kind \in Reportable

\* The start event: for the request the interaction is registered with, or
\* else for whatever command the reader is at.
Starts(i) ==
    LET r == IF registered[i] # NoRequest THEN registered[i] ELSE current IN
    /\ work[i].stage = "queued"
    /\ work' = [work EXCEPT ![i].stage = "running"]
    /\ registered' = [registered EXCEPT ![i] = NoRequest]
    /\ IF Counts(r) THEN Reports(<<Report("started", r, i)>>) ELSE NoReport
    /\ UNCHANGED <<reader, current, clientSim, todo>> /\ Elsewhere

Ends(i) ==
    /\ work[i].stage = "running"
    /\ work' = Gone(i)
    /\ UNCHANGED <<reader, current, clientSim, registered, todo, up>> /\ Elsewhere

-----------------------------------------------------------------------------

SelectionMoves(p) ==
    /\ \/ \E s \in SomeSim : Selects(p, s)
       \/ \E s \in Sims : Commands(p, s)
       \/ Publishes(p) \/ Restores(p)
       \/ pending[p] = <<>> /\ (TakesSelection(p) \/ TakesLate(p))
    /\ UNCHANGED <<askVars, todo, hostGameVars>>

Connections(p) ==
    /\ \/ PlayerJoins(p) /\ UNCHANGED pending
       \/ PlayerLeaves(p) /\ pending' = [pending EXCEPT ![p] = <<>>]
    /\ UNCHANGED <<req, known, used, todo, hostGameVars>>

PlayerStep(p) ==
    \/ SelectionMoves(p) \/ Connections(p)
    \/ \E r \in Requests : \/ PicksEntry(p, r) \/ PushesAffordance(p, r)
                          \/ CommandsPush(p, r) \/ CommandsChoice(p, r)
                          \/ \E i \in DOMAIN work : CommandsCancel(p, r, i)
    \/ \E i \in DOMAIN work : AsksToCancel(p, i)
    \/ TakesAsk(p) \/ TakesCancel(p) \/ ToHostGame(p)

HostGameStep ==
    \/ Resolves \/ Begins \/ Pushes \/ ActsSilently \/ Fails
    \/ RequestQueued \/ CommandQueued \/ Cancels
    \/ \E sim \in Loads[Host] : OwnWork(sim)
    \/ \E i \in DOMAIN work : Starts(i) \/ Ends(i)

InteractionNext ==
    \/ \E p \in Players : PlayerStep(p)
    \/ HostGameStep \/ TakesReport
    \/ \E r \in Requests, s \in Sims : HostAsks(r, s)

InteractionSpec == InteractionInit /\ [][InteractionNext]_interactionVars

-----------------------------------------------------------------------------

InteractionTypeOK ==
    /\ SelectionTypeOK
    /\ req \in [Requests -> [status : Statuses, kind : Kinds \cup {"none"}, player : Players,
                             sim : SomeSim, iid : Work \cup {NoWork}]]
    /\ used \subseteq Requests /\ current \in Requests \cup {NoRequest}
    /\ clientSim \in [Players -> SomeSim]
    /\ registered \in [Work -> Requests \cup {NoRequest}]
    /\ work \in Seq([sim : Sims, by : Requests \cup {NoRequest}, stage : {"queued", "running", "gone"}])
    /\ Len(work) <= MaxWork
    /\ reader.at = "idle" => current = NoRequest

\* What the host's game does for a request it does to the Sim the request was
\* accepted for, one its player had in the session.  ("The host rejects
\* unknown Sims, ... requests for a different Sim", CORE_MULTIPLAYER_SPIKE.md:9)
OwnSimsOnly ==
    \A i \in DOMAIN work : LET r == work[i].by IN
        r # NoRequest => work[i].sim = req[r].sim /\ req[r].sim \in had[req[r].player]

\* A menu that was opened, or a cancellation, is never counted as an
\* interaction that was queued or has started, whatever starts meanwhile.
\* ("started=14 while no Sim physically began", CURRENT_SIM_INTERACTION_PIPELINE.md:120)
MenusNeverStart ==
    \A r \in Requests : req[r].kind \in {"query", "cancel_si"} => req[r].status \notin {"queued", "started"}

=============================================================================
