# KerMP in TLA+

KerMP lets several Sims 4 players share one session. One player's machine is
the host. In every game runs a script mod (`sims_mod_src/kermp_mod`), which
talks over a localhost socket to a sidecar process; the clients' sidecars talk
over TCP to the host process. The host decides: it numbers the operations, holds
the lock for building, keeps the players together when they travel to another
lot, and sends its game's view of the world to the others.

    game --bridge--> sidecar --TCP--> host process --TCP--> sidecar --bridge--> game
                                      |
                                      +--bridge--> the host's own game

This directory holds TLA+ models of that system, the TLC configurations that
check them, and proofs for the TLA+ proof system. Line numbers refer to the
repository's files.

## 1. Inventory

| Part | State | Operations | What makes it correct |
|---|---|---|---|
| Travel coordinator, `kermp/travel.py` | the transaction (phase, participants, ready, zone_ready), the epoch | propose, mark_ready, begin_zone_wait, mark_zone_ready, abort, remove_participant | two-round barrier: nobody travels or resumes on somebody else's or an older answer; the barrier opens when the last one answers or leaves |
| Build authority, `kermp/buildsync.py` | lock with its time, lease id, sequence number, history | request_lock, release_lock, submit | one builder at a time; the history is the end of the stream |
| Host session, `kermp/session.py` | players, sims and controllers, interactions, clock, reconnection | add_player, remove_player, select_sim, update_sims, validate/cancel_interaction | controllers follow the players' selection; a departure leaves nothing behind |
| LAN transport, `kermp/net.py` | peers, sequence numbers | handshake, dispatch, broadcast, drop | one connection per player; FIFO per peer; a failing handler ends its own connection only |
| Host runtime, `kermp/runtime.py` 14-331 | number of the last view message | bridge events and network messages | travel messages follow the coordinator; view messages are numbered and carry the travel's epoch |
| Client runtime, `kermp/runtime.py` 334-566 | travel epoch, view buffer, pending operations, lock flag, save receiver | the same from the client's side | buffers are flushed in order when the travel is over; operations leave in order under the lock |
| Script mod, `kermp_mod/hooks.py` | pending travel, batch flag, buffer, simulation bypass, patches, clock state, interactions | bridge handlers on the reader thread, hooks on the game thread | reports a zone when host and self are there; suppression ends; patches are restored |
| Build adapter, `kermp_mod/build_adapter.py` | known keys, applying flag, last definitions | capture_local, apply_remote | applied once, and never captured again |
| Bridge, `kermp/bridge.py`, `kermp_mod/bridge_client.py` | socket, reader thread, `_conn` | send, read, stop, reconnect | FIFO between one game and its sidecar; the link comes back and the host hears of it |
| Save transfer, `kermp/save_sync.py` | receiver, partial file, slot | stream_save_to, open, write_chunk, finalize | the slot is one whole version; a player is synced with what it has |
| Readiness, `kermp/readiness.py` | per player: save, bridge, zone, authority | update_readiness | says nothing of a player that is not so |
| Clock, in `hooks.py`, `runtime.py`, `net.py` | speed of each game, of the session | set, push, pop, apply a state | who has been told the last state runs at it |
| Interactions and active Sim, in `hooks.py`, `session.py` | roster, controllers, requests; stand-in Clients, the active command | select, publish; ask, accept, replay, report, cancel | only the own Sim; reports of what really happened |
| Hooks, reload, lifecycle guard | wrapped attributes and what they covered | install, welcome, teardown, reload | intercepted once; the game is left as it was |
| Command capture, trace | proxies, recorded calls | start, stop, print | take off what they put on |
| Dialogs, compatibility, protocol, GUI, CLI, preflight, native capture | see section 5 | | |

What is hard: three kinds of process and, in every game, two threads; asyncio
handlers that suspend in `drain` with other connections running on; connections
that break at any point and are made again under the same id; a table that
changes under a suspended broadcast; two nested buffers for view messages; flags
of one travel that are still there in the next; a lease that expires while the
client believes it holds it; one global that says which command the reader
thread is at, read by the game thread; wrappers over wrappers, put on and taken
off in different orders. `PROJECT.json` lists each hazard at its line.

## 2. Modules

| Module | Models |
|---|---|
| `TravelBarrier` | the abstract promise of travel: an all-members barrier with the rounds *gather* and *load* |
| `TravelCoordinator` | `kermp/travel.py`, one action per method |
| `TravelCoordinator_proofs` | its theorems |
| `TravelSystem` | travel and view messages through host process, sidecars and mods; EXTENDS `TravelCoordinator` |
| `TravelSystem_proofs` | its theorems; EXTENDS `TravelCoordinator_proofs` |
| `BuildAuthority` | `kermp/buildsync.py`, one action per method and the clock |
| `BuildSystem` | building through games, sidecars and host process; EXTENDS `BuildAuthority` |
| `BuildSystem_proofs` | theorems about the authority and about building |
| `PeerTable` | the table of connections of `kermp/net.py`: handshake, broadcast, drop |
| `Joining` | readiness reports and the transfer of the save; EXTENDS `PeerTable` |
| `Joining_proofs` | theorems about the table and about joining |
| `SimSelection` | who plays and who controls which Sim: `kermp/session.py` with the games' selections |
| `Interactions` | interactions from the capture to the reports; EXTENDS `SimSelection` |
| `Interactions_proofs` | theorems about Sims and interactions |
| `ClockSync` | the speed of the game clock on every machine |
| `ClockSync_proofs` | its theorems |
| `HookRegistry` | `install`, `_sidecar_welcome`, `teardown`, `kermp.reload`, the tracer and the proxies |
| `HookRegistry_proofs` | its theorems |
| `GameLink` | both ends of the bridge, with threads, torn lines and restarts |
| `GameLink_proofs` | its theorems |
| `MC...` | definitions for instances and their symmetry; the other `.cfg` files instantiate a module itself |

Definitions called *mutant* in a comment are plausible bugs in the definition
after them. They are used by no specification; substituting one shows that a
property can fail.

### Travel

`TravelCoordinator` has `current` (the transaction), `epoch` and the history
variable `said`: every acknowledgement a player made, with the transaction it
was made for. A `uuid` and an epoch are fresh together, so the epoch stands for
both, but a call may name a transaction and an epoch that disagree, as the code
allows. An acknowledgement that the code refuses (a `KeyError` or a `False`)
is `Refused`. The optional epoch left out is `Anyone`.

`TravelSystem` puts the coordinator between the processes. `up[p]` is the pipe
from p's game to the host process (the client's sidecar passes travel events
on unseen, so game and network leg are one queue), `down[c]` the connection to
c's sidecar, `toGame[p]` the bridge to p's game. `sidecar[c]` holds the fields
of `ClientRuntime`, `game[p]` the globals of `hooks.py` and where the game
stands: `loading` is the epoch whose zone is being loaded, `zone` the last one
loaded. Handlers are actions: `StartTravel`, `TravelReady`, `TravelZoneReady`,
`ViewBatchEnd`, `TravelAbort`, `RawMessage` in the host process,
`SidecarPropose` ... in the sidecars, `GamePrepare`, `GameCommit` ... in the mod,
and `SpinUp`, the end of a zone load, on the game thread. A handler is one step,
with one exception: `_travel_ready` awaits two broadcasts between the commit
and `begin_zone_wait`, and everything else in the host process may run
meanwhile. It is three actions (`TravelReady`, `SendCommit`, `AwaitZones`),
interleaved only when `MayStall` says that a peer is slow enough for `drain` to
suspend. A rejoining player gets a new sidecar, with its game still in the state
it had; the snapshot in WELCOME is not used by the client.

The constants `MayRequest`, `MayFail`, `MayLeave`, `MayStall` say who may do what;
`MaxEpoch`, `MaxRequests`, `MaxJoins`, `MaxRaw` bound travels, requests,
reconnections and view messages; `BufferLimit` stands for the 256 of both buffers.

### Building

`BuildAuthority` stores the lease with its age in ticks (`lock.age`); a lease is
expired when the age exceeds `LeaseTicks`, as `expired` compares with `>`. An
operation is accepted (`Submit`), denied (`SubmitDenied`, which clears an expired
lock) or invalid, which leaves everything as it is. Operations are elements of
`Ops`; those that `_validate_build_data` lets through are `ValidOps`.

`BuildSystem` adds the games, sidecars and connections. An operation is a record
of its builder, its place among that builder's operations, and its content
`what`. `MaxMoves` bounds what the players do, operations and visits of build mode
together; `Refused` are the contents the host finds invalid, `MayRaise` those a game
may fail to apply. Builder and place are not in the code; they let properties speak of one
particular operation. `events[p]` is the pipe from p's game to its sidecar (for
the host, to the host process), `up`, `down` and `toGame` are as above,
`pending` and `owns` are fields of `ClientRuntime`, `seen` and `applying` of the
build adapter, and `done[p]` is what has been carried out in p's game. `stream` is
history: everything the host ever accepted, of which `history` keeps the end. The
application of another's operation runs on the bridge reader thread while the
player builds on the game thread: it is the two steps `ApplyBegin` and
`ApplyEnd` (or `ApplyFails`). `Build` is a native call of the player through one
of the wrappers. `Definitions` are contents that give one object its definition:
`_wrap_definition` passes on only what differs from the definition the object has
(`Changes`), `capture_local` only what differs from the one its game captured last
(`defined`, `Repeated`), which may be from before the session: the adapter lives as
long as the game, whatever save it loads. What an application is known by follows the code: the stream
number for a client's operation, the content for a host's, because of the
`op_id` key without a value. The loop of `_flush_build` is one step; it writes
without a suspension unless a peer is slow, and a suspended loop would go on
with the same queue in the same order.

### Connections and saves

A connection in `PeerTable` is the coroutine `_handle_conn` that serves it: `at`
says where it is, `who` the id it has noted. `broadcast` is `StartWalk`, one
`WalkOn` for each peer, because every `drain` may suspend, and `WalkEnds`, or
`WalkRaises` when Python finds the dictionary changed. Python notices another
size, and an entry beyond those it counted; an entry that has taken the place of
another it does not notice, and neither does the model (`Changed`). The order of
the table is left open. The dead are dropped in one step: a peer is dead because
its transport is, and `wait_closed` of such a transport does not suspend. The
`finally` block drops by id whatever connection that id has by then, which is the
modelled one only if nobody else claimed the id.

`Joining` puts messages on these connections. A transfer looks its player up for
every message, reads the file as it is at that moment, and may go on on the
connection a player has come back with. A chunk is a version and a place; the
hash of a file is the version it is whole of. `Window` is the room before
`drain` suspends. `installed` is history. That `SAVE_END` carries the hash as
well does not matter, as the receiver uses the one of the manifest.

### Sims and interactions

In `SimSelection` a game's selection and its publication are two steps
(`Selects`, `Publishes`), since the wrapper calls the original first. The
session's methods are `AddPlayer`, `RemovePlayer`, `UpdateSims` and `SelectSim`.
A client's sidecar answers a roster with a `SIM_SELECT` of its own; `late` holds
it when its first write is suspended. `nudges` are the selections of others,
which make a client's game go back to its own.

`Interactions` follows a request: captured in a client's game (`PicksEntry`,
`PushesAffordance`, `CommandsPush`, `CommandsChoice`, `CommandsCancel`), accepted
or refused (`TakesAsk`), passed on (`ToHostGame`), replayed by the reader thread
(`Resolves` and `Begins`, then `Pushes`, `ActsSilently` or `Fails`, then
`RequestQueued` or `CommandQueued`), started and ended on the game thread
(`Starts`, `Ends`), and reported back (`TakesReport`). The host's own game makes
interactions of its own meanwhile (`OwnWork`). `current` is
`_active_native_command`, which both threads see. Kinds of commands that are
treated alike are one kind.

### The clock

`ClockSync` has one queue each way between a game and the session. A wrapper in a
client's game asks and leaves the clock alone; one in the host's game changes and
reports. Applying a state is three steps, as the game thread may change the clock
while the bypass is set and after the state was set. `told`, `slipped` and
`crossed` are history: the clients that were ever told a state, the games whose
own change went unreported under the bypass, and that a report of the host's game
and a client's request are crossing. The properties speak of the rest: who joins
is told nothing until the next change, and of two changes that cross neither end
finds out.

### Hooks

What an attribute of the game holds is, in `HookRegistry`, the sequence of wrappers
over the game's own callable. Installers differ in when they run and in what
they look at before they wrap; the instance has one attribute for each kind. Of the
entries of `_patches` only the last one for an attribute decides what teardown puts
back, as they go back in the order they came; `patches` has that one. Teardown is
three steps on the game thread, `StopsBridge`, `Unproxies`, `Restores`. The one
thing on another thread is the creation of a stand-in Client, for which
`send_message` is covered; `overrun` notes that it outlived the second which
teardown gives the reader.

### The bridge

`GameLink` has a client's game with its two threads, the sidecar with the bridge's
thread and its event loop, the connections between them in the order they are
made, and what the host hears. The loop and the bridge thread share `_conn`
without a lock, so a send has two steps (`TakesTask` or `Notifies`, then
`SendEnds`). `writing` is a line of the game thread that the reader thread may
write into. Game and sidecar may end and start again at any point; `AssertionFails`
is the `assert` in `_run`. `early` and `untimely` are history and note the two
cases from which the code does not recover: an event before the sidecar has joined
(`runtime.py:358`), and a failed send that cleared a connection it was not made on
(`bridge.py:46`).

## 3. Runs

Passing runs:

| Run | Instance | Shows |
|---|---|---|
| `coordinator` | 3 players (symmetric), 2 epochs, every call with every transaction and epoch | `TypeOK`, `NobodyIsSpokenFor`, `NeverWaitsForNobody`, `OneWay`; `BarrierSpec`, the refinement of `TravelBarrier` |
| `travel` | host and client, 2 travels asked for by the client, 2 view messages, buffers of 1, 1 reconnection, a failing travel call of the host, stalled broadcasts | `SystemTypeOK`; `ResumeIsEarned`: RESUME rests on a report of everybody still there; `KeepsHostOrder` and `TravelPacketsWait` of the view messages |
| `live` | host and 2 clients, 2 travels, failing calls, fair | `TravelFinishes`, `SuppressionReturns` |
| `authority` | 2 players, lease of 1 tick, history of 2, 4 operations | `AuthorityTypeOK`, `HistoryIsTheTail`, `NoTheft`, `OnlyTheHolderBuilds` |
| `build` | host and 2 clients, all of them building or visiting build mode, 2 moves in all, expiring lease; one content the definition of an object, one invalid, one that may fail to apply; a client may leave | `BuildersOrder`, `NoEcho`, `OneBeliever`, `StreamOrder`, `ClientsWorkArrives` |
| `joining` | host and 2 players, 2 connections and 2 transfers (symmetric), valid and invalid manifests, 2 versions of a save of 2 chunks, one message of room | `EntriesAreServed`, `PlayersAreListed`, `OthersAreSafe` of the table; `SlotIsWhole`, `SyncedIsInstalled` of the saves |
| `interactions` | host and client, 2 Sims of which the client's game has one loaded, 2 selections, departures or cancellations, 2 requests (symmetric), 1 interaction at a time in the host's game | `InteractionTypeOK`, `ControllersAreHere`, `OwnSimsOnly`, `MenusNeverStart` |
| `clock` | host and 2 clients (symmetric), 3 changes to 0, 2 or 5, which the session has no name for, 2 messages of room | `ClockTypeOK`, `ClientsFollow`, `HostFollowsUnlessCrossed` |
| `hooks` | one attribute of each kind, 2 reloads, 3 traces | `HookTypeOK`, `InterceptedOnce`, `NothingIntercepted`, `StockClientStays` |
| `link` | 4 connections, 2 games, 2 sidecars, 1 event and 1 message besides the handshake, with or without `Timeline.simulate`, fair | `LinkTypeOK`, `AuthorityIsReal`, `LinkHeals`, `BridgeIsReported` |

Runs that end in a violation, each a disagreement of the code with a text of the
repository:

| Run | Property | What happens |
|---|---|---|
| `barrier_broken` | `EveryoneHasLoaded` | END reaches a client that is still in the old zone. The message has no `zone_id` (`runtime.py:96`), so `_zone_is_loaded` is true and the zone is reported; RESUME goes out before the client has loaded. |
| `build_applied` | `AppliedOnce` | a client's operation comes back to the game that built it and is carried out again (`net.py:276`). |

The bounds. Two epochs are needed, and enough, for one travel's state to meet the
next: the code compares epochs with equal and less only, and keeps those of one
travel. Two clients let one leave while the other still owes an answer. View
messages outnumber a buffer by one, so that both limits are reached. A lease of
zero or one tick expires at every point. Two operations are the least that can
change places, of one builder or of two; that
a definition is remembered from before the session lets the filter drop the first. Two connections are the least that can
claim one id, and a broadcast on one of them meets the handshake on the other; two
versions and two transfers let the save change in the middle of a transfer, and a
second one take the first one's place. Two requests are the least that can be
taken for each other. Three changes of the clock are a report of the host, a
request that crosses it and one after both. Two reloads show what the first leaves
behind. Two games and two sidecars restart each end once, at any point of the
other's start. The history keeps one operation in `build`, so that it
is trimmed at the second. The largest run, `build`, has 2.3 million states.

Symmetry is used where all properties are of single states or single steps and
name none of the permuted values: in `coordinator`, `joining`, `interactions` and
`clock`, never in a run with liveness.

Deadlock is not checked in the system runs: players are free never to travel or
build again, and the bounds end every run.

Fairness. In `live` (`FairSpec`): the host's event loop takes the next message of
every connection, suspended coroutines go on, sidecars and bridge readers handle
what has arrived, and a zone that is being loaded comes to its end. In `link`
(`LinkFairness`): the game's reader thread, the rest of a line that the game thread
has begun, the bridge's thread, the sidecar's loop, its connection to the host and
the host's handling of reports. These are the event loops and threads of the code,
which never wait for one another. No fairness is assumed of players: nobody has to
travel, leave or come back, or start a game again. `live` allows requests by the
host only and nobody to leave; section 5 says what happens otherwise.

## 4. Proofs

`TravelCoordinator_proofs` proves for any set of players and any number of epochs:
`TypeCorrect`, `AcksAreGenuine` (`NobodyIsSpokenFor`), `WaitsForSomebody`
(`NeverWaitsForNobody`), `TransactionsGoOneWay` (`OneWay`) and `ImplementsBarrier`
(`BarrierSpec`). The only assumption is that the bound on epochs is a number.
The inductive invariant `Inv` adds to the stated ones the bookkeeping between
the fields: who is in `ready` or `zone_ready` is a participant and has said so
for the current epoch. Without it nothing ties the sets that the phase is
computed from to the acknowledgements. For the refinement, each action of the
coordinator is matched with `Start`, `Answer`, `Leave`, `Void` or a stutter.

`BuildSystem_proofs` proves of the authority `AuthorityTypeCorrect`, `ReplayHasNoGap`
(`HistoryIsTheTail`), `LeaseIsNotStolen` (`NoTheft`) and `StreamIsTheHolders`
(`OnlyTheHolderBuilds`) for any lease and any history limit but zero, for which
`del history[:-0]` would remove everything. The invariant is the type together
with the shape of the history; the lemma `LatestIsASuffix` says what the
trimming leaves, `SubmitKeepsTheTail` carries it through `submit`.

`Joining_proofs` proves for any players, connections, transfers and any size of save
`TableTypeCorrect`, `NobodyIsLeftBehind` (`EntriesAreServed`), `TableMatchesSession`
(`PlayersAreListed`), `FailuresOfOthersAreHarmless` (`OthersAreSafe`),
`SlotsAreWhole` (`SlotIsWhole`), `SyncedHasTheSave` (`SyncedIsInstalled`), and
`JoiningKeepsTheTable`: a join is a behaviour of `TableSpec`, in which handlers do
what `net.py` alone has them do. It assumes that players and connections are
finitely many. The invariant of the table, `TableInv`, adds
`WalksAreSound`, what a suspended broadcast still knows of the table: it has
written to no more connections than it counted, and each of its dead stands for a
connection it found broken. With it `WalkCoversTheTable` shows by counting that a
broadcast which reaches its end without an error has written to exactly the
connections in the table; otherwise a player who came back during it could be
dropped for the connection it had before. `JoiningIsATableStep` carries all this
over to `Joining`. The invariant of the transfers, `SaveInv`, adds that
acknowledgements under way are of versions the disk has had.

`TravelSystem_proofs` proves for any players, travels, requests, reconnections, view
messages and buffer limit:

- `SystemCoordinates`: the host process uses its coordinator as `TravelCoordinator`
  allows, also with a committing coroutine suspended; so all of the coordinator's
  theorems hold in the system. `SystemKeepsTheBarrier` is the one that matters: the
  whole of KerMP implements `TravelBarrier`.
- `ViewKeepsHostOrder` (`KeepsHostOrder`). What a client's game has shown, holds back,
  has on its bridge, what its sidecar holds back and what is on the connection are five
  queues, one behind the other (`Pipe`, `Queues`): each number is below all behind it. A
  message without a number counts as 0 and is ignored by the order. Every step moves
  the end of one queue to the next, or loses something, and keeps the pipe.
- `NobodyResumesEarly` (`ResumeIsEarned`). RESUME of the newest travel is out only if the
  transaction is over and rests on the reports (`Earned`); this stays so while it is
  under way, because a transaction that is over does not come back.
- `ClientsHoldTheView` (`TravelPacketsWait`). For every participant of an open travel,
  either its sidecar is buffering for that travel, or the proposal is on the same
  connection ahead of any view message of it (`HoldsBack`, `Prepared`). That a packet of
  the travel cannot be earlier rests on `HostStage`: until the host's own part is done
  there is exactly one sign of how far it is - the coroutine that has yet to send
  COMMIT, COMMIT on the bridge, the zone being loaded, or the report.
- `SystemTypes` (`SystemTypeOK`). The bounds in it need two arguments of their own. The
  epochs of proposals, PREPARE and COMMIT never fall along game, bridge and connection
  (`Chains`), so that no game is taken back to an earlier travel; and no more messages are
  numbered than the host's game has sent, counting those on its bridge (`Counted`).

What one step of the host process sends is stated once (`HostSays`), and what a sidecar
or a game does with one message too (`SidecarDoes`, `GameDoes`); the proofs above go
through these and not through the actions.

`BuildSystem_proofs` proves for any players, contents, lease and history limit:
`OperationsKeepTheirOrder` (`BuildersOrder`) and `ApplicationsDoNotComeBack` (`NoEcho`) from
`Lines`: what a player built stands in one line, in the stream, on its way to the host,
waiting for the lock, on its way from the game, each operation once and in the order it
was built; `SidecarsAgree` (`OneBeliever`) from `Believed`: after reading what is under
way, every client will have heard of the same holder last; `GamesFollowTheStream`
(`StreamOrder`) and `WorkArrives` (`ClientsWorkArrives`) from `Flows`: on the way from the
host to each game numbers rise, everything numbered is in the stream under that
number, and what a game can apply is on this way or carried out.

`Interactions_proofs` proves for any players, Sims and requests `InteractionTypesHold`,
`ControllersStayHere` (`ControllersAreHere`), `PlayersMoveTheirOwnSims` (`OwnSimsOnly`) and
`MenusAreNeverCounted` (`MenusNeverStart`). `InteractionInv` follows a request through its
places: an order, wherever it is between session and game, is what was accepted for a
Sim its player had (`OrdersAreGranted`), the stand-in Client stands for the Sim of the
command as long as the command lasts (`ClientFits`), work done for a request is done
to its Sim, and reports under way are of what makes interactions.

`ClockSync_proofs` proves for any clients, speeds and changes `ClockTypeCorrect`,
`ClientsRunAtTheSessionsSpeed` (`ClientsFollow`) and `HostRunsAtTheSessionsSpeed`
(`HostFollowsUnlessCrossed`). The invariant: the last state on its way to a client is the
session's, and a client with none on its way has carried it out; between session and
host's game, unless they crossed, states and reports are never both under way.

`GameLink_proofs` proves for any connections, restarts and messages `LinkTypesHold` and
`SuppressionIsReal` (`AuthorityIsReal`). The invariant: as long as the game that runs has
not put its wrapper in place, no claim that it has follows its hello anywhere - in the
lines it is sending, on the connection being served, in the listener's backlog, among
the loop's tasks, in the reports to the host. What is claimed there is of a game before.

`HookRegistry_proofs` proves for any attributes, however they are divided among
installers and tracer, and any number of reloads and traces `HookTypesHold`,
`CallsAreInterceptedOnce` (`InterceptedOnce`), `TeardownIsComplete` (`NothingIntercepted`)
and `DistributorKeepsItsClient` (`StockClientStays`). `HookInv` says of every attribute that
it has no hook or one; what is flagged has one; what was recorded as covered has none;
what the tracer or the reader will put back is wrapped as what they found there. The
tracer may have been covered in between, so this is known only of an attribute whose
outermost wrapper is the tracer's (`Tracing`). Except for `send_message` nothing but hooks
and tracers is over an attribute (`Plain`), which is why `functools.wraps` lets a hook be
recognised under a tracer.

All proofs are for the specifications without fairness; the bounds in the guards are
any numbers. Model-checked only: `TravelFinishes`, `SuppressionReturns`, `LinkHeals` and
`BridgeIsReported`, which are liveness and outside the prover's reach, and the two
properties that do not hold. The invariants and action properties of all the passing runs
are proved.

## 5. Not modelled

Wording, diagnostics, logs, the native calls themselves, and the size and encoding
of messages are left out. Except in `GameLink` the bridge is a FIFO that does not
fail. Parts with no model, and why:

- `NetworkedCommandRouter` and `DialogRouter`: the session has one of each, but the
  program registers no command family and opens no dialog, only tests do; every request
  is answered with an error and changes nothing.
- Compatibility manifest: a comparison of fields; its verdict is in `Refuse`.
- Protocol envelopes: JSON. A line that is none is `Garbled` in `GameLink` and the
  end of a connection elsewhere.
- GUI, command line, identity, preflight, native capture, packaging, the fake player:
  no state that players share.
- Of modelled parts: the restoration of the selected Sim after a load, the filter of local-only view messages, the wall
  contour callback, `readiness.progress`, what the tracer records.
  `mark_local_zone_loaded` and `_finish_local_travel` have no caller.

Behaviour that the models have, with no property against it because no text of the
repository promises better, or because one that does would need a run of its own:

- A player who gives an object the definition that its game captured last, after
  another player's was applied or another save loaded, changes it for nobody else
  (`build_adapter.py:257`, `Repeated`).
- What the mod buffers during a travel is never shown: nothing calls
  `flush_travel_buffer` (`hooks.py:1778`).
- A travel that moves on while its committing coroutine is suspended makes
  `begin_zone_wait` raise and costs the client whose message committed its connection
  (`AwaitZones`).
- `_travel_batch_complete` survives from the travel before (`hooks.py:2210`), so that a
  late zone load of the first travel is reported for the second.
- The last player owed an answer may leave: `remove_player` drops the result of
  `remove_participant` (`session.py:59`) and nobody is told to commit or resume.
- After its first travel a sidecar rejects every message without an epoch
  (`runtime.py:473`), which is every message outside a travel.
- A host's operation is known to clients by its content, as its `op_id` is empty
  (`runtime.py:203`): there, back and there again ends back.
- An operation sent under an expired lease is lost (`Denied`), a request for the lock is
  not repeated after a denial, an operation the player builds in the middle of an
  application is not captured, and an invalid one disconnects its client.
- A refused HELLO drops the connection that has the id already (`net.py:104` and 144).
- `select_sim` leaves a player among the controllers of the Sim before
  (`session.py:119`), until the next roster.
- An interaction that starts while the reader thread is at a command is reported for
  that command; a cancellation names the last request for the Sim, whichever it is.
- Who joins is told no clock state until the next change.
- The handler of `interactions.cancel_si` that a teardown registers again is a wrapper
  of KerMP (`hooks.py:822`).
- A failed send may clear a connection it was not made on, and the `assert` at
  `bridge.py:82` may then end the bridge's thread.

## 6. Plan

Done: the travel coordinator with its barrier, the travel system, the build authority
and the build system, the table of connections and the save transfer, Sims and
interactions, the clock, the hooks and the bridge are modelled and model-checked; every
safety property of the passing runs is proved for all values of the constants.

Left, as far as the code repays it: properties for the hazards that `PROJECT.json` lists
with a note only, where a text of the repository says what should hold; step-wise facts
that the liveness properties rest on (which message is the next to be handled when a
travel is open), as invariants that can be proved.
