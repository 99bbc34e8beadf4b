---------------------------- MODULE TravelSystem ----------------------------
(***************************************************************************)
(* Travel across the whole of KerMP: the host process (kermp/travel.py,    *)
(* runtime.HostRuntime and the parts of net.KerMPHost it uses), a sidecar  *)
(* per client (runtime.ClientRuntime) and the script mod in every game     *)
(* (kermp_mod/hooks.py), with the host's raw view messages travelling      *)
(* beside the travel messages.                                             *)
(*                                                                         *)
(*   game --bridge--> sidecar --TCP--> host process --TCP--> sidecar       *)
(*        --bridge--> game                                                 *)
(*                                                                         *)
(* Each arrow is a FIFO.  A client's sidecar passes its game's travel      *)
(* events on at once, so `up` holds game and network leg together.  In a   *)
(* game two threads act: the bridge reader handles messages while the game *)
(* itself loads zones.                                                     *)
(***************************************************************************)
EXTENDS TravelCoordinator, Sequences, Functions

CONSTANTS Host,         \* the player the host process runs for
          MayRequest,   \* players who may ask for travel
          MayFail,      \* players whose native travel call may raise
          MayLeave,     \* clients whose connection may break
          MayStall,     \* whether a broadcast may have to wait for a slow peer
          MaxJoins,     \* bound on reconnections
          MaxRequests,  \* bound on travel requests
          MaxRaw,       \* bound on raw view messages
          BufferLimit   \* max_buffered_view_updates and _MAX_TRAVEL_BUFFER

ASSUME TravelSystemAssumption ==
  /\ Host \in Players /\ MayRequest \subseteq Players
  /\ MayFail \subseteq Players /\ MayLeave \subseteq Players \ {Host}
  /\ MayStall \in BOOLEAN
  /\ MaxJoins \in Nat /\ MaxRequests \in Nat /\ MaxRaw \in Nat /\ BufferLimit \in Nat

Clients == Players \ {Host}

VARIABLES session,   \* player ids in HostSession (the host, and the peers)
          joins, requests, rawSent,
          committing,\* _travel_ready coroutines waiting in a broadcast
          up,        \* up[p]: events on their way from p's game to the host process
          down,      \* down[c]: messages on their way from host to c's sidecar
          toGame,    \* toGame[p]: messages on the bridge from p's sidecar to its game
          sidecar,   \* sidecar[c]: fields of ClientRuntime
          game,      \* game[p]: globals of hooks.py, and the zone the game is in
          hostSeq    \* HostRuntime._game_sequence

hostVars == <<session, committing, hostSeq>>
bounds == <<joins, requests, rawSent>>
coord == <<current, epoch, said>>
sysVars == <<coord, hostVars, bounds, up, down, toGame, sidecar, game>>

-----------------------------------------------------------------------------
None == 0          \* no txn_id, no epoch, no zone being loaded

Msg(type, txn_id, e) == [type |-> type, txn_id |-> txn_id, epoch |-> e]
Raw(seq, e) == [type |-> "raw", seq |-> seq, epoch |-> e]

FreshSidecar == [travel_epoch |-> 0, last_seq |-> 0, buffering |-> FALSE,
                 buffer |-> <<>>, batch_complete |-> FALSE]

FreshGame == [pending |-> None, epoch |-> 0, batch_complete |-> FALSE,
              zone_reported |-> FALSE, bypass |-> FALSE, buffering |-> FALSE,
              buffer |-> <<>>, shown |-> <<>>, loading |-> None, zone |-> 0]

SystemInit ==
  /\ Init
  /\ session = Players
  /\ joins = 0 /\ requests = 0 /\ rawSent = 0
  /\ committing = {}
  /\ up = [p \in Players |-> <<>>]
  /\ down = [c \in Clients |-> <<>>]
  /\ toGame = [p \in Players |-> <<>>]
  /\ sidecar = [c \in Clients |-> FreshSidecar]
  /\ game = [p \in Players |-> FreshGame]
  /\ hostSeq = 0

-----------------------------------------------------------------------------
(* The host process.  broadcast reaches every peer, never the host itself. *)
Broadcast(ms) ==
  down' = [c \in Clients |-> IF c \in session THEN down[c] \o ms ELSE down[c]]

ToHostGame(ms) == toGame' = [toGame EXCEPT ![Host] = @ \o ms]

(* A connection's messages are dispatched one at a time: while its handler *)
(* waits in a broadcast the next one is not read.  Bridge events of the    *)
(* host's own game are tasks of their own.                                 *)
Reads(p, type) ==
  /\ up[p] # <<>> /\ Head(up[p]).type = type
  /\ p # Host => \A task \in committing : task.by # p

Consume(p) == up' = [up EXCEPT ![p] = Tail(@)]

(* _drop: the peer and its session entry go, a travel goes on without it. *)
Drop(c) ==
  /\ session' = session \ {c}
  /\ down' = [down EXCEPT ![c] = <<>>]
  /\ up' = [up EXCEPT ![c] = <<>>]
  /\ IF Free(current) THEN UNCHANGED coord ELSE RemoveParticipant(c)

(* _start_travel *)
StartTravel(p) ==
  /\ Reads(p, "request") /\ Free(current)
  /\ Consume(p)
  /\ Propose(session)
  /\ LET m == Msg("prepare", epoch', epoch')
     IN  ToHostGame(<<m>>) /\ Broadcast(<<[m EXCEPT !.type = "propose"]>>)
  /\ UNCHANGED <<hostVars, bounds, sidecar, game>>

(* propose raises RuntimeError: it ends the requesting client's connection, *)
(* or the host's bridge task.                                               *)
RefuseTravel(p) ==
  /\ Reads(p, "request") /\ ~Free(current)
  /\ IF p = Host THEN Consume(p) /\ UNCHANGED <<coord, session, down>>
                 ELSE Drop(p)
  /\ UNCHANGED <<committing, hostSeq, bounds, toGame, sidecar, game>>

(* _travel_ready up to its first broadcast: BEGIN goes out on a commit *)
TravelReady(p) ==
  /\ Reads(p, "ready")
  /\ Consume(p)
  /\ LET m == Head(up[p])
     IN  \/ /\ m.txn_id # None
            /\ MarkReady(p, m.txn_id, m.epoch)
            /\ IF current'.phase = "committed"
               THEN /\ committing' = committing \cup {[by |-> p, epoch |-> epoch, sent |-> FALSE]}
                    /\ Broadcast(<<Msg("begin", m.txn_id, m.epoch)>>)
               ELSE UNCHANGED <<committing, down>>
         \/ /\ m.txn_id # None
            /\ Refused("ready", p, m.txn_id, m.epoch)
            /\ UNCHANGED <<committing, down>>
         \/ m.txn_id = None /\ UNCHANGED <<coord, committing, down>>
  /\ UNCHANGED <<session, hostSeq, bounds, toGame, sidecar, game>>

(* ... its second broadcast, after BEGIN and COMMIT for the host's own game *)
SendCommit(task) ==
  /\ task \in committing /\ ~task.sent
  /\ committing' = (committing \ {task}) \cup {[task EXCEPT !.sent = TRUE]}
  /\ ToHostGame(<<Msg("begin", task.epoch, task.epoch), Msg("commit", task.epoch, task.epoch)>>)
  /\ Broadcast(<<Msg("commit", task.epoch, task.epoch)>>)
  /\ UNCHANGED <<coord, session, hostSeq, bounds, up, sidecar, game>>

(* ... and begin_zone_wait, which raises once the phase has moved on: that *)
(* ends the connection whose message committed the travel.                 *)
AwaitZones(task) ==
  /\ task \in committing /\ task.sent
  /\ committing' = committing \ {task}
  /\ \/ BeginZoneWait(task.epoch) /\ UNCHANGED <<session, up, down>>
     \/ /\ current.epoch # task.epoch \/ current.phase # "committed"
        /\ IF task.by \in session \ {Host} THEN Drop(task.by)
                                           ELSE UNCHANGED <<coord, session, up, down>>
  /\ UNCHANGED <<hostSeq, bounds, toGame, sidecar, game>>

(* _travel_zone_ready *)
TravelZoneReady(p) ==
  /\ Reads(p, "zone_ready")
  /\ Consume(p)
  /\ LET m == Head(up[p])
         resume == <<Msg("resume", m.txn_id, m.epoch)>>
     IN  \/ /\ m.txn_id # None
            /\ MarkZoneReady(p, m.txn_id, m.epoch)
            /\ IF current'.phase = "complete" THEN ToHostGame(resume) /\ Broadcast(resume)
                                              ELSE UNCHANGED <<down, toGame>>
         \/ /\ m.txn_id # None
            /\ Refused("zone_ready", p, m.txn_id, m.epoch)
            /\ UNCHANGED <<down, toGame>>
         \/ m.txn_id = None /\ UNCHANGED <<coord, down, toGame>>
  /\ UNCHANGED <<hostVars, bounds, sidecar, game>>

(* TRAVEL_VIEW_BATCH END of the host's game: clients first, then its own game *)
ViewBatchEnd ==
  /\ Reads(Host, "end")
  /\ Consume(Host)
  /\ LET e == Head(up[Host]).epoch
         out == <<Msg("end", current.epoch, e)>>
     IN  IF current.epoch = e THEN Broadcast(out) /\ ToHostGame(out)
                              ELSE UNCHANGED <<down, toGame>>
  /\ UNCHANGED <<coord, hostVars, bounds, sidecar, game>>

(* TRAVEL_ABORT of the host's game: no phase is looked at, and the host's *)
(* own game is not told.                                                  *)
TravelAbort ==
  /\ Reads(Host, "abort")
  /\ Consume(Host)
  /\ LET e == Head(up[Host]).epoch
     IN  IF current.epoch = e
         THEN Abort(e) /\ Broadcast(<<Msg("abort", e, e)>>)
         ELSE UNCHANGED <<coord, down>>
  /\ UNCHANGED <<hostVars, bounds, toGame, sidecar, game>>

(* The epoch that marks a raw message: only while a travel is open. *)
RawEpoch == IF Free(current) THEN None ELSE current.epoch

(* GAME_RAW_MESSAGE of the host's game *)
RawMessage ==
  /\ Reads(Host, "raw")
  /\ Consume(Host)
  /\ hostSeq' = hostSeq + 1
  /\ Broadcast(<<Raw(hostSeq', RawEpoch)>>)
  /\ UNCHANGED <<coord, session, committing, bounds, toGame, sidecar, game>>

HostNext ==
  \/ \E p \in Players : \/ StartTravel(p) \/ RefuseTravel(p)
                        \/ TravelReady(p) \/ TravelZoneReady(p)
  \/ ViewBatchEnd \/ TravelAbort \/ RawMessage

HostCoroutines == \E task \in committing : SendCommit(task) \/ AwaitZones(task)

-----------------------------------------------------------------------------
(* The client's sidecar, ClientRuntime._on_network_message *)
Receives(c, types) == down[c] # <<>> /\ Head(down[c]).type \in types
Take(c) == down' = [down EXCEPT ![c] = Tail(@)]
Pass(c, ms) == toGame' = [toGame EXCEPT ![c] = @ \o ms]

SidecarPropose(c) ==
  /\ Receives(c, {"propose"})
  /\ Take(c)
  /\ LET m == Head(down[c])
     IN  IF m.epoch <= sidecar[c].travel_epoch
         THEN UNCHANGED <<sidecar, toGame>>
         ELSE /\ sidecar' = [sidecar EXCEPT ![c].travel_epoch = m.epoch,
                   ![c].batch_complete = FALSE, ![c].buffering = TRUE, ![c].buffer = <<>>]
              /\ Pass(c, <<[m EXCEPT !.type = "prepare"]>>)
  /\ UNCHANGED <<coord, hostVars, bounds, up, game>>

(* local_zone_loaded stays False: nothing calls mark_local_zone_loaded. *)
SidecarViewBatch(c) ==
  /\ Receives(c, {"begin", "end"})
  /\ Take(c)
  /\ LET m == Head(down[c])
     IN  IF m.epoch # sidecar[c].travel_epoch
         THEN UNCHANGED <<sidecar, toGame>>
         ELSE /\ sidecar' = IF m.type = "begin"
                   THEN [sidecar EXCEPT ![c].batch_complete = FALSE,
                                        ![c].buffering = TRUE, ![c].buffer = <<>>]
                   ELSE [sidecar EXCEPT ![c].batch_complete = TRUE]
              /\ Pass(c, <<m>>)
  /\ UNCHANGED <<coord, hostVars, bounds, up, game>>

SidecarResume(c) ==
  /\ Receives(c, {"resume"})
  /\ Take(c)
  /\ LET m == Head(down[c])
     IN  IF m.epoch = sidecar[c].travel_epoch /\ sidecar[c].batch_complete
         THEN /\ sidecar' = [sidecar EXCEPT ![c].buffering = FALSE, ![c].buffer = <<>>]
              /\ Pass(c, Append(sidecar[c].buffer, m))
         ELSE Pass(c, <<m>>) /\ UNCHANGED sidecar
  /\ UNCHANGED <<coord, hostVars, bounds, up, game>>

SidecarForwards(c) ==
  /\ Receives(c, {"commit", "abort"})
  /\ Take(c)
  /\ Pass(c, <<Head(down[c])>>)
  /\ UNCHANGED <<coord, hostVars, bounds, up, sidecar, game>>

(* The checks a raw message has to pass, in the order they are made. *)
RawAccepted(s, m) ==
  /\ m.seq > s.last_seq
  /\ s.travel_epoch # 0 => m.epoch = s.travel_epoch

(* buffer_view_updates decides whether a packet waits in the sidecar. *)
(* mutant: it waits for END only, not for RESUME *)
HoldsUntilEnd(s) == s.buffering /\ ~s.batch_complete
Holds(s) == s.buffering

SidecarRaw(c) ==
  /\ Receives(c, {"raw"})
  /\ Take(c)
  /\ LET m == Head(down[c])
         s == sidecar[c]
         seen == [s EXCEPT !.last_seq = m.seq]
     IN  \/ ~RawAccepted(s, m) /\ UNCHANGED <<sidecar, toGame>>
         \/ /\ RawAccepted(s, m) /\ Holds(s)
            /\ sidecar' = [sidecar EXCEPT ![c] =
                  IF Len(s.buffer) < BufferLimit THEN [seen EXCEPT !.buffer = Append(@, m)]
                                                 ELSE seen]
            /\ UNCHANGED toGame
         \/ /\ RawAccepted(s, m) /\ ~Holds(s)
            /\ sidecar' = [sidecar EXCEPT ![c] = seen]
            /\ Pass(c, <<m>>)
  /\ UNCHANGED <<coord, hostVars, bounds, up, game>>

Sidecar(c) == \/ SidecarPropose(c) \/ SidecarViewBatch(c) \/ SidecarResume(c)
              \/ SidecarForwards(c) \/ SidecarRaw(c)

-----------------------------------------------------------------------------
(* The script mod in p's game, kermp_mod/hooks.py.  What it emits reaches  *)
(* the host process unless p's connection is gone; a client's sidecar      *)
(* passes no travel.abort on.                                              *)
Handles(p, types) == toGame[p] # <<>> /\ Head(toGame[p]).type \in types
Handled(p) == toGame' = [toGame EXCEPT ![p] = Tail(@)]
Emit(p, ms) == up' = IF p \in session THEN [up EXCEPT ![p] = @ \o ms] ELSE up

(* begin_travel_buffer *)
Buffering(p, g) == IF p = Host THEN g ELSE [g EXCEPT !.buffering = TRUE, !.buffer = <<>>]

(* A client's simulation suppression is lifted while it travels. *)
Travelling(p, g) == IF p = Host THEN g ELSE [Buffering(p, g) EXCEPT !.bypass = TRUE]

(* mutant: the transaction is forgotten before its zone is reported *)
ZoneReadyNoTxn(g) == Msg("zone_ready", None, g.epoch)
ZoneReady(g) == Msg("zone_ready", g.pending, g.epoch)

(* A client reports its zone once the host's END has come. *)
MayReport(g) == g.batch_complete

(* mutant: the simulation bypass is left on *)
FinishHydrationBypassed(p, g) ==
  IF g.zone_reported
  THEN game' = [game EXCEPT ![p] = g] /\ UNCHANGED up
  ELSE /\ game' = [game EXCEPT ![p] = [g EXCEPT !.zone_reported = TRUE]]
       /\ Emit(p, <<ZoneReady(g)>>)

(* _finish_zone_hydration, after g has been brought up to date: once per *)
(* travel the zone is reported.                                          *)
FinishHydration(p, g) ==
  IF g.zone_reported
  THEN game' = [game EXCEPT ![p] = g] /\ UNCHANGED up
  ELSE /\ game' = [game EXCEPT ![p] = [g EXCEPT !.zone_reported = TRUE, !.bypass = FALSE]]
       /\ Emit(p, <<ZoneReady(g)>>)

(* _zone_is_loaded of a message without zone_id: true unless the zone *)
(* service raises, as it may while a zone is being loaded.            *)
ZoneIsLoaded(g) == IF g.loading = None THEN {TRUE} ELSE BOOLEAN

(* mutant: the mod keeps the epoch of the travel before *)
GamePrepareOldEpoch(p) ==
  /\ Handles(p, {"prepare"})
  /\ Handled(p)
  /\ LET m == Head(toGame[p])
     IN  /\ game' = [game EXCEPT ![p] = Travelling(p,
                [@ EXCEPT !.pending = m.txn_id, !.zone_reported = FALSE])]
         /\ Emit(p, <<Msg("ready", m.txn_id, m.epoch)>>)
  /\ UNCHANGED <<coord, hostVars, bounds, down, sidecar>>

(* _travel_prepare: store the travel, and be ready at once *)
GamePrepare(p) ==
  /\ Handles(p, {"prepare"})
  /\ Handled(p)
  /\ LET m == Head(toGame[p])
     IN  /\ game' = [game EXCEPT ![p] = Travelling(p,
                [@ EXCEPT !.pending = m.txn_id, !.epoch = m.epoch, !.zone_reported = FALSE])]
         /\ Emit(p, <<Msg("ready", m.txn_id, m.epoch)>>)
  /\ UNCHANGED <<coord, hostVars, bounds, down, sidecar>>

(* _travel_commit: the native travel call starts a zone load, or raises *)
GameCommit(p) ==
  /\ Handles(p, {"commit"})
  /\ Handled(p)
  /\ LET m == Head(toGame[p])
         g == Travelling(p, [game[p] EXCEPT !.pending = m.txn_id, !.epoch = m.epoch,
                                            !.batch_complete = FALSE, !.zone_reported = FALSE])
     IN  \/ game' = [game EXCEPT ![p] = [g EXCEPT !.loading = m.epoch]] /\ UNCHANGED up
         \/ /\ p \in MayFail
            /\ game' = [game EXCEPT ![p] = g]
            /\ IF p = Host THEN Emit(p, <<Msg("abort", m.txn_id, m.epoch)>>) ELSE UNCHANGED up
  /\ UNCHANGED <<coord, hostVars, bounds, down, sidecar>>

GameViewBatch(p) ==
  /\ Handles(p, {"begin", "end"})
  /\ Handled(p)
  /\ LET m == Head(toGame[p])
         g == [game[p] EXCEPT !.batch_complete = (m.type = "end")]
     IN  \/ m.epoch # game[p].epoch /\ UNCHANGED <<game, up>>
         \/ /\ m.epoch = game[p].epoch /\ m.type = "begin"
            /\ game' = [game EXCEPT ![p] = Buffering(p, g)]
            /\ UNCHANGED up
         \/ /\ m.epoch = game[p].epoch /\ m.type = "end"
            /\ \E loaded \in ZoneIsLoaded(g) :
                  IF p # Host /\ loaded THEN FinishHydration(p, g)
                                        ELSE game' = [game EXCEPT ![p] = g] /\ UNCHANGED up
  /\ UNCHANGED <<coord, hostVars, bounds, down, sidecar>>

GameResume(p) ==
  /\ Handles(p, {"resume"})
  /\ Handled(p)
  /\ \E loaded \in ZoneIsLoaded(game[p]) :
        IF /\ p # Host /\ loaded
           /\ Head(toGame[p]).epoch = game[p].epoch /\ MayReport(game[p])
        THEN FinishHydration(p, game[p])
        ELSE UNCHANGED <<game, up>>
  /\ UNCHANGED <<coord, hostVars, bounds, down, sidecar>>

(* _travel_abort leaves the mod buffering. *)
GameAbort(p) ==
  /\ Handles(p, {"abort"})
  /\ Handled(p)
  /\ game' = [game EXCEPT ![p].pending = None, ![p].bypass = FALSE]
  /\ UNCHANGED <<coord, hostVars, bounds, up, down, sidecar>>

(* receive_raw_game_message; nothing in the mod calls flush_travel_buffer *)
GameRaw(p) ==
  /\ Handles(p, {"raw"})
  /\ Handled(p)
  /\ LET m == Head(toGame[p])
         g == game[p]
     IN  game' = [game EXCEPT ![p] =
           IF ~g.buffering THEN [g EXCEPT !.shown = Append(@, m.seq)]
           ELSE IF Len(g.buffer) < BufferLimit /\ m.epoch \in {None, g.epoch}
                THEN [g EXCEPT !.buffer = Append(@, m.seq)] ELSE g]
  /\ UNCHANGED <<coord, hostVars, bounds, up, down, sidecar>>

Game(p) == \/ GamePrepare(p) \/ GameCommit(p) \/ GameViewBatch(p)
           \/ GameResume(p) \/ GameAbort(p) \/ GameRaw(p)

(* The game thread finishes loading a zone: _after_zone_spin_up.  The host's *)
(* mod announces END and itself; a client's waits for END.                   *)
SpinUp(p) ==
  /\ game[p].loading # None
  /\ LET g == [game[p] EXCEPT !.zone = game[p].loading, !.loading = None]
     IN  \/ g.pending = None /\ game' = [game EXCEPT ![p] = g] /\ UNCHANGED up
         \/ /\ g.pending # None /\ p # Host
            /\ IF MayReport(g) THEN FinishHydration(p, g)
                                   ELSE game' = [game EXCEPT ![p] = g] /\ UNCHANGED up
         \/ /\ g.pending # None /\ p = Host
            /\ game' = [game EXCEPT ![p] = [g EXCEPT !.batch_complete = TRUE]]
            /\ Emit(p, <<Msg("end", g.pending, g.epoch), ZoneReady(g)>>)
  /\ UNCHANGED <<coord, hostVars, bounds, down, toGame, sidecar>>

(* A player travels: the wrapped native command asks the host instead. *)
RequestTravel(p) ==
  /\ p \in MayRequest \cap session /\ game[p].loading = None
  /\ requests < MaxRequests
  /\ requests' = requests + 1
  /\ Emit(p, <<Msg("request", None, None)>>)
  /\ UNCHANGED <<coord, hostVars, joins, rawSent, down, toGame, sidecar, game>>

(* The host's game distributes a view message. *)
HostDistributes ==
  /\ rawSent < MaxRaw
  /\ rawSent' = rawSent + 1
  /\ Emit(Host, <<Msg("raw", None, None)>>)
  /\ UNCHANGED <<coord, hostVars, joins, requests, down, toGame, sidecar, game>>

-----------------------------------------------------------------------------
(* A connection breaks, with whatever is still on it. *)
Disconnect(c) ==
  /\ c \in MayLeave \cap session
  /\ \A task \in committing : task.by # c
  /\ Drop(c)
  /\ UNCHANGED <<committing, hostSeq, bounds, toGame, sidecar, game>>

(* The player comes back with a new sidecar, the game still running: WELCOME *)
(* carries a snapshot of the travel, of which ClientRuntime keeps nothing.   *)
Join(c) ==
  /\ c \in Clients \ session /\ joins < MaxJoins
  /\ joins' = joins + 1
  /\ session' = session \cup {c}
  /\ toGame' = [toGame EXCEPT ![c] = <<>>]
  /\ sidecar' = [sidecar EXCEPT ![c] = FreshSidecar]
  /\ UNCHANGED <<coord, committing, hostSeq, requests, rawSent, up, down, game>>

(* drain suspends a broadcast only above the high-water mark of some peer's *)
(* transport; otherwise a coroutine runs on before anything else happens in *)
(* the host process.                                                        *)
SystemNext ==
  \/ HostCoroutines
  \/ /\ MayStall \/ committing = {}
     /\ \/ HostNext
        \/ \E c \in Clients : Disconnect(c) \/ Join(c)
  \/ \E c \in Clients : Sidecar(c)
  \/ \E p \in Players : Game(p) \/ SpinUp(p) \/ RequestTravel(p)
  \/ HostDistributes

SystemSpec == SystemInit /\ [][SystemNext]_sysVars

(* Every process goes on working: event loops take the next message, games *)
(* finish loading.  Nobody has to travel, distribute, leave or come back.  *)
HostReads(p) == /\ MayStall \/ committing = {}
                /\ \/ StartTravel(p) \/ RefuseTravel(p) \/ TravelReady(p) \/ TravelZoneReady(p)
                   \/ p = Host /\ (ViewBatchEnd \/ TravelAbort \/ RawMessage)

Fairness ==
  /\ \A p \in Players : /\ WF_sysVars(HostReads(p)) /\ WF_sysVars(Game(p))
                         /\ WF_sysVars(SpinUp(p))
  /\ \A c \in Clients : WF_sysVars(Sidecar(c))
  /\ WF_sysVars(HostCoroutines)

FairSpec == SystemSpec /\ Fairness

-----------------------------------------------------------------------------
Message == [type : {"request", "ready", "zone_ready", "begin", "end", "abort", "raw",
                    "propose", "prepare", "commit", "resume"},
            txn_id : 0..MaxEpoch, epoch : 0..MaxEpoch]
RawPacket == [type : {"raw"}, seq : 1..MaxRaw, epoch : 0..MaxEpoch]

(* The shape of every process's state, and of what travels between them. *)
SystemTypeOK ==
  /\ TypeOK
  /\ session \in SUBSET Players /\ Host \in session
  /\ joins \in 0..MaxJoins /\ requests \in 0..MaxRequests
  /\ rawSent \in 0..MaxRaw /\ hostSeq \in 0..rawSent
  /\ committing \subseteq [by : Players, epoch : Epochs, sent : BOOLEAN]
  /\ \A p \in Players : Range(up[p]) \subseteq Message
  /\ \A c \in Clients : Range(down[c]) \subseteq Message \cup RawPacket
  /\ \A p \in Players : Range(toGame[p]) \subseteq Message \cup RawPacket
  /\ \A c \in Clients : /\ sidecar[c].travel_epoch \in 0..epoch
                        /\ Len(sidecar[c].buffer) <= BufferLimit
  /\ \A p \in Players : /\ game[p].epoch \in 0..epoch /\ game[p].pending \in {None, game[p].epoch}
                        /\ {game[p].loading, game[p].zone} \subseteq 0..game[p].epoch
                        /\ Len(game[p].buffer) <= BufferLimit

(* RESUME for the newest travel is about only when it is over, and every   *)
(* player still in it has reported its zone (_travel_zone_ready).          *)
ResumeIsEarned ==
  \A p \in Players :
    Msg("resume", epoch, epoch) \in
        Range(toGame[p]) \cup (IF p = Host THEN {} ELSE Range(down[p]))
      => /\ current.phase \in Finished
         /\ \A q \in current.participants : <<"zone_ready", q, epoch>> \in said

(* What is on its way to a client, the next to be shown first: the numbers *)
(* of the raw messages, 0 for everything else.                             *)
RawSeqs(ms) == [i \in 1..Len(ms) |-> IF ms[i].type = "raw" THEN ms[i].seq ELSE 0]
Pipeline(c) == game[c].shown \o game[c].buffer \o RawSeqs(toGame[c])
                 \o RawSeqs(sidecar[c].buffer) \o RawSeqs(down[c])

(* From the host's broadcast to the client's screen no view message ever    *)
(* overtakes another or is there twice, through two buffers, several        *)
(* travels and a reconnection (sequence check, flush on RESUME).            *)
KeepsHostOrder ==
  \A c \in Clients : LET s == Pipeline(c)
                     IN  \A i, j \in 1..Len(s) :
                            i < j /\ 0 \notin {s[i], s[j]} => s[i] < s[j]

(* A view message sent while a travel is under way is handed to the game of *)
(* a client taking part only when that travel is over (buffer_view_updates);*)
(* one that joined meanwhile sees it at once.                               *)
TravelPacketsWait ==
  \A c \in Clients : \A m \in Range(toGame[c]) :
    (m.type = "raw" /\ m.epoch # None)
      => m.epoch < epoch \/ current.phase \in Finished \/ c \notin current.participants

(* Every travel comes to an end, complete or aborted. *)
TravelFinishes ==
  \A e \in Epochs : (current.epoch = e /\ current.phase = "waiting_ready")
                      ~> (current.epoch > e \/ current.phase \in Finished)

(* A client's own simulation, suppressed because the host's is the one that *)
(* counts, runs for the time of a travel only (set_simulation_bypass).      *)
SuppressionReturns ==
  \A c \in Clients : game[c].bypass ~> ~game[c].bypass

(* travel.py:33: "nobody resumes simulation until every participant reports *)
(* the target zone loaded".  Complete is what RESUME is sent on.            *)
EveryoneHasLoaded ==
  current.phase = "complete" =>
    \A p \in current.participants : game[p].zone = current.epoch

=============================================================================
