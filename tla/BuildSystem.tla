---------------------------- MODULE BuildSystem ----------------------------
(***************************************************************************)
(* Building in the whole system: every player's game with its mod          *)
(* (kermp_mod/build_adapter.py and the build part of hooks.py), the        *)
(* clients' sidecars (kermp/runtime.py, ClientRuntime), and the host       *)
(* process (kermp/net.py and HostRuntime) around the BuildAuthority.       *)
(*                                                                         *)
(* A game's own thread builds while its bridge reader thread applies what  *)
(* the others built, so an application takes two steps.  Sockets and       *)
(* bridges are FIFO; a handler whose awaits only write to them is one step.*)
(*                                                                         *)
(* An operation names its builder and its place among that builder's       *)
(* operations, which the code does not transmit: `what` is its content.    *)
(***************************************************************************)
EXTENDS BuildAuthority, SequencesExt, FiniteSets

CONSTANTS Host,
          MayBuild,     \* who builds
          Whats,        \* contents of operations
          Refused,      \* the contents the host finds invalid
          MayRaise,     \* the contents a game may fail to apply
          Definitions,  \* the contents that give one object its definition
          MaxMoves,     \* bound on what all players do: operations built and
                        \* visits of build mode
          MayExpire,    \* whether a lease may run out
          MayLeave      \* clients whose connection may break

Clients == Players \ {Host}

BuildOps == [by : Players, n : 1..MaxMoves, what : Whats]

ASSUME BuildSystemAssumption ==
  /\ Host \in Players
  /\ MayBuild \subseteq Players
  /\ MayLeave \subseteq Clients
  /\ MayExpire \in BOOLEAN
  /\ Refused \subseteq Whats /\ MayRaise \subseteq Whats /\ Definitions \subseteq Whats
  /\ MaxMoves \in Nat
  /\ Ops = BuildOps
  /\ ValidOps = {op \in Ops : op.what \notin Refused}
  /\ MaxSeq >= MaxMoves

VARIABLES events,    \* from each game to its sidecar or the host process
          pending,   \* ClientRuntime.pending_build
          owns,      \* ClientRuntime.owns_build_lock
          up, down,  \* from and to each client
          toGame,    \* applications on the way to each game
          mode,      \* where each player is with respect to build mode
          built,     \* how many operations each player has built
          applying,  \* the operation a game is applying (applying_remote)
          seen,      \* SimsBuildAdapter._seen
          defined,   \* the definition each game captured last, if any
                     \* (_last_definition of the object)
          done,      \* the operations each game has carried out, in order
          live,      \* whether a client is connected
          stream     \* history: all accepted operations, in order

host == <<authority, stream>>
game == <<mode, built, applying, seen, defined, done>>
pipes == <<events, up, down, toGame>>
sidecar == <<pending, owns>>
vars == <<host, game, pipes, sidecar, live>>

-----------------------------------------------------------------------------
(* Messages and events *)

Idle == [by |-> Nobody]

LockRequest == [type |-> "lock_request"]
LockRelease == [type |-> "lock_release"]
OperationOf(op) == [type |-> "operation", op |-> op]
LockState(p) == [type |-> "lock_state", owner |-> p]
Error == [type |-> "error"]

(* normalize_operation's op_id: a client's operation is known by its number *)
(* in the stream; a host's carries the key op_id with no value, and is then *)
(* known by its content.                                                    *)
SeqKey(n) == [seq |-> n]
ContentKey(op) == [what |-> op.what]
Apply(key, op) == [type |-> "apply", key |-> key, op |-> op]

Connected == {c \in Clients : live[c]}

Drop(queue, p) == [queue EXCEPT ![p] = Tail(@)]
Add(queue, p, ms) == [queue EXCEPT ![p] = @ \o ms]

(* KerMPHost.broadcast *)
Broadcast(m) ==
  down' = [c \in Clients |-> IF live[c] THEN Append(down[c], m) ELSE down[c]]

(* A mod captures from the start of its game, before anybody joins, and keeps  *)
(* what it remembers when another save is loaded: any definition may be there. *)
BuildInit ==
  /\ AuthorityInit
  /\ events = [p \in Players |-> <<>>]
  /\ pending = [c \in Clients |-> <<>>]
  /\ owns = [c \in Clients |-> FALSE]
  /\ up = [c \in Clients |-> <<>>] /\ down = [c \in Clients |-> <<>>]
  /\ toGame = [p \in Players |-> <<>>]
  /\ mode = [p \in Players |-> "live"]
  /\ built = [p \in Players |-> 0]
  /\ applying = [p \in Players |-> Idle]
  /\ seen = [p \in Players |-> {}]
  /\ defined \in [Players -> {{}} \cup {{what} : what \in Definitions}]
  /\ done = [p \in Players |-> <<>>]
  /\ live = [c \in Clients |-> TRUE]
  /\ stream = <<>>

-----------------------------------------------------------------------------
(* The game and its mod *)

(* mutant: the adapter captures during an application too *)
CapturedAlways(p, op) ==
  /\ events' = Add(events, p, <<OperationOf(op)>>)
  /\ UNCHANGED defined
(* The filter of capture_local: the definition captured last counts, not the *)
(* one the object has, which what is applied for others sets too.            *)
Repeated(p, op) == op.what \in defined[p]
(* capture_local and the emission *)
Captured(p, op) ==
  IF applying[p] # Idle \/ Repeated(p, op)
  THEN UNCHANGED <<events, defined>>
  ELSE /\ events' = Add(events, p, <<OperationOf(op)>>)
       /\ defined' = IF op.what \in Definitions
                     THEN [defined EXCEPT ![p] = {op.what}] ELSE defined

Moves == SumFunction(built) + Cardinality({p \in Players : mode[p] # "live"})

(* The definition that was given to the object in a game, if any *)
DefinitionIn(p) ==
  LET given == SelectSeq(done[p], LAMBDA op : op.what \in Definitions)
  IN IF given = <<>> THEN {} ELSE {Last(given).what}

(* _wrap_definition: giving the object the definition it has is no change. *)
Changes(p, what) == what \notin DefinitionIn(p)

(* The player builds natively and the wrapper captures it. *)
Build(p, what) ==
  LET op == [by |-> p, n |-> built[p] + 1, what |-> what]
  IN /\ p \in MayBuild /\ Changes(p, what) /\ Moves < MaxMoves
     /\ built' = [built EXCEPT ![p] = @ + 1]
     /\ done' = Add(done, p, <<op>>)
     /\ Captured(p, op)
     /\ UNCHANGED <<host, sidecar, up, down, toGame, mode, applying, seen, live>>

(* _on_build_buy_enter and _on_build_buy_exit; once per player *)
EnterBuildMode(p) ==
  /\ p \in MayBuild /\ mode[p] = "live" /\ Moves < MaxMoves
  /\ mode' = [mode EXCEPT ![p] = "build"]
  /\ events' = Add(events, p, <<LockRequest>>)
  /\ UNCHANGED <<host, sidecar, up, down, toGame, built, applying, seen, defined, done, live>>

ExitBuildMode(p) ==
  /\ mode[p] = "build"
  /\ mode' = [mode EXCEPT ![p] = "left"]
  /\ events' = Add(events, p, <<LockRelease>>)
  /\ UNCHANGED <<host, sidecar, up, down, toGame, built, applying, seen, defined, done, live>>

(* apply_remote up to self._apply: a known key is dropped *)
ApplyBegin(p) ==
  /\ toGame[p] # <<>> /\ applying[p] = Idle
  /\ LET m == Head(toGame[p])
     IN /\ applying' = IF m.key \in seen[p] THEN applying
                       ELSE [applying EXCEPT ![p] = m.op]
        /\ seen' = [seen EXCEPT ![p] = @ \cup {m.key}]
  /\ toGame' = Drop(toGame, p)
  /\ UNCHANGED <<host, sidecar, events, up, down, mode, built, defined, done, live>>

(* The native call goes through the same wrapper as a player's. *)
ApplyEnd(p) ==
  /\ applying[p] # Idle
  /\ done' = Add(done, p, <<applying[p]>>)
  /\ Captured(p, applying[p])
  /\ applying' = [applying EXCEPT ![p] = Idle]
  /\ UNCHANGED <<host, sidecar, up, down, toGame, mode, built, seen, live>>

(* _apply_object_operation raises: the key stays in _seen *)
ApplyFails(p) ==
  /\ applying[p] # Idle /\ applying[p].what \in MayRaise
  /\ applying' = [applying EXCEPT ![p] = Idle]
  /\ UNCHANGED <<host, sidecar, pipes, mode, built, seen, defined, done, live>>

-----------------------------------------------------------------------------
(* A client's sidecar *)

(* mutant: the newest first *)
FlushedNewestFirst(c, ops) == Add(up, c, Reverse(ops))
(* _flush_build *)
Flushed(c, ops) == Add(up, c, ops)

SidecarEvent(c) ==
  /\ live[c] /\ events[c] # <<>>
  /\ events' = Drop(events, c)
  /\ LET m == Head(events[c])
     IN \/ /\ m.type = "operation"
           /\ LET ops == Append(pending[c], m)
              IN IF owns[c]
                 THEN /\ up' = Flushed(c, ops)
                      /\ pending' = [pending EXCEPT ![c] = <<>>]
                 ELSE /\ up' = Add(up, c, <<LockRequest>>)
                      /\ pending' = [pending EXCEPT ![c] = ops]
           /\ UNCHANGED owns
        \/ /\ m.type = "lock_request"
           /\ up' = Add(up, c, <<m>>)
           /\ UNCHANGED <<pending, owns>>
        \/ /\ m.type = "lock_release"
           /\ owns' = [owns EXCEPT ![c] = FALSE]
           /\ up' = Add(up, c, <<m>>)
           /\ UNCHANGED pending
  /\ UNCHANGED <<host, game, down, toGame, live>>

(* mutant: a lock state that names another player is ignored *)
OwnsOnceGranted(c, p) == owns[c] \/ p = c
OwnsAfter(c, p) == p = c

Flush(c) ==
  /\ up' = Flushed(c, pending[c])
  /\ pending' = [pending EXCEPT ![c] = <<>>]

SidecarLockState(c) ==
  /\ live[c] /\ down[c] # <<>>
  /\ Head(down[c]).type = "lock_state"
  /\ LET mine == OwnsAfter(c, Head(down[c]).owner)
     IN /\ owns' = [owns EXCEPT ![c] = mine]
        /\ IF mine THEN Flush(c) ELSE UNCHANGED <<up, pending>>
  /\ down' = Drop(down, c)
  /\ UNCHANGED <<host, game, events, toGame, live>>

(* mutant: the last application first *)
ForwardedFirst(c, m) == [toGame EXCEPT ![c] = <<m>> \o @]
Forwarded(c, m) == Add(toGame, c, <<m>>)

(* An application goes to the game, an error is only shown. *)
SidecarForwards(c) ==
  /\ live[c] /\ down[c] # <<>>
  /\ LET m == Head(down[c])
     IN \/ m.type = "apply" /\ toGame' = Forwarded(c, m)
        \/ m.type = "error" /\ UNCHANGED toGame
  /\ down' = Drop(down, c)
  /\ UNCHANGED <<host, game, sidecar, events, up, live>>

-----------------------------------------------------------------------------
(* The host process *)

HostReads(c, type) == live[c] /\ up[c] # <<>> /\ Head(up[c]).type = type

(* request_lock, granted or not *)
Requested(p) == RequestLock(p) \/ (~MayLock(p) /\ UNCHANGED authority)

HostLockRequest(c) ==
  /\ HostReads(c, "lock_request")
  /\ Requested(c)
  /\ Broadcast(LockState(lock'.owner))
  /\ up' = Drop(up, c)
  /\ UNCHANGED <<stream, game, sidecar, events, toGame, live>>

(* Whoever releases, the broadcast says that nobody holds the lock. *)
HostLockRelease(c) ==
  /\ HostReads(c, "lock_release")
  /\ ClearLockOf(c)
  /\ Broadcast(LockState(Nobody))
  /\ up' = Drop(up, c)
  /\ UNCHANGED <<stream, game, sidecar, events, toGame, live>>

(* submit appends the operation; the history variable keeps what is cut off *)
Streamed(p, op) == stream' = Append(stream, Operation(p, op, seq'))

(* mutant: the host's own game is left out (include_host) *)
AcceptedWithoutHost(c) ==
  LET op == Head(up[c]).op
  IN /\ Submit(c, op) /\ Streamed(c, op)
     /\ Broadcast(Apply(SeqKey(seq'), op))
     /\ UNCHANGED <<toGame, live>>
(* an operation goes to every client, its builder included, and to the host *)
Accepted(c) ==
  LET op == Head(up[c]).op
      m == Apply(SeqKey(seq'), op)
  IN /\ Submit(c, op) /\ Streamed(c, op)
     /\ Broadcast(m)
     /\ toGame' = Add(toGame, Host, <<m>>)
     /\ UNCHANGED live

Denied(c) ==
  /\ SubmitDenied(c)
  /\ down' = Add(down, c, <<Error>>)
  /\ UNCHANGED <<toGame, live, stream>>

HostOperation(c) ==
  /\ HostReads(c, "operation")
  /\ Accepted(c) \/ Denied(c)
  /\ up' = Drop(up, c)
  /\ UNCHANGED <<game, sidecar, events>>

(* _drop: HostSession.remove_player clears the lock, and nobody is told *)
Dropped(c) ==
  /\ live' = [live EXCEPT ![c] = FALSE]
  /\ ClearLockOf(c)
  /\ up' = [up EXCEPT ![c] = <<>>]
  /\ down' = [down EXCEPT ![c] = <<>>]
  /\ UNCHANGED <<stream, game, sidecar, events, toGame>>

(* The ValueError of an invalid operation ends the connection. *)
HostInvalidOperation(c) ==
  /\ HostReads(c, "operation")
  /\ MaySubmit(c) /\ Head(up[c]).op \notin ValidOps
  /\ Dropped(c)

Leave(c) ==
  /\ c \in MayLeave /\ live[c]
  /\ Dropped(c)

(* The host's own operation takes the lock if it can, without a lock state. *)
(* A refused or invalid one stays in the host's game alone.                 *)
HostBuilds ==
  /\ events[Host] # <<>> /\ Head(events[Host]).type = "operation"
  /\ LET op == Head(events[Host]).op
     IN \/ /\ MayLock(Host) /\ op \in ValidOps
           /\ lock' = Lock(Host) /\ lease_id' = Host
           /\ Record(Host, op) /\ Streamed(Host, op)
           /\ Broadcast(Apply(ContentKey(op), op))
        \/ op \notin ValidOps /\ RequestLock(Host) /\ UNCHANGED <<stream, down>>
        \/ ~MayLock(Host) /\ UNCHANGED <<host, down>>
  /\ events' = Drop(events, Host)
  /\ UNCHANGED <<game, sidecar, up, toGame, live>>

HostLock ==
  /\ events[Host] # <<>>
  /\ \/ Head(events[Host]).type = "lock_request" /\ Requested(Host)
     \/ Head(events[Host]).type = "lock_release" /\ ClearLockOf(Host)
  /\ Broadcast(LockState(lock'.owner))
  /\ events' = Drop(events, Host)
  /\ UNCHANGED <<stream, game, sidecar, up, toGame, live>>

Expiry ==
  /\ MayExpire
  /\ Tick
  /\ UNCHANGED <<stream, game, sidecar, pipes, live>>

-----------------------------------------------------------------------------
BuildNext ==
  \/ \E p \in Players :
       \/ \E what \in Whats : Build(p, what)
       \/ EnterBuildMode(p) \/ ExitBuildMode(p)
       \/ ApplyBegin(p) \/ ApplyEnd(p) \/ ApplyFails(p)
  \/ \E c \in Clients :
       \/ SidecarEvent(c) \/ SidecarLockState(c) \/ SidecarForwards(c)
       \/ HostLockRequest(c) \/ HostLockRelease(c) \/ HostOperation(c)
       \/ HostInvalidOperation(c) \/ Leave(c)
  \/ HostBuilds \/ HostLock
  \/ Expiry

BuildSpec == BuildInit /\ [][BuildNext]_vars

-----------------------------------------------------------------------------

(* The stream keeps each player's operations in the order they were built,   *)
(* each of them once, whether they waited for the lock or not                *)
(* (pending_build, _flush_build, submit).                                    *)
BuildersOrder ==
  \A i, j \in DOMAIN stream :
    (i < j /\ stream[i].player = stream[j].player)
      => stream[i].op.n < stream[j].op.n

(* No echo: what a game applies for somebody else never comes back as an     *)
(* operation of its own (applying_remote, capture_local).                    *)
NoEcho == \A i \in DOMAIN stream : stream[i].op.by = stream[i].player

(* When nothing is on its way to them, at most one sidecar takes itself for  *)
(* the holder of the lock (owns_build_lock follows the broadcasts).          *)
OneBeliever ==
  \A c, d \in Connected :
    (owns[c] /\ owns[d] /\ down[c] = <<>> /\ down[d] = <<>>) => c = d

(* What a game carries out for others arrives in the order of the stream:    *)
(* of two operations of clients, the one with the lower number first.        *)
StreamOrder ==
  \A p \in Players : \A i, j \in DOMAIN done[p] :
    (i < j /\ {done[p][i].by, done[p][j].by} \cap {p, Host} = {})
      => \E k, l \in DOMAIN stream :
           k < l /\ stream[k].op = done[p][i] /\ stream[l].op = done[p][j]

AtRest(p) == /\ toGame[p] = <<>> /\ applying[p] = Idle
             /\ p # Host => live[p] /\ down[p] = <<>>

(* What clients built and the host accepted is, once nothing is on its way,  *)
(* in every other game that can apply it (BUILD_APPLY with include_host).    *)
ClientsWorkArrives ==
  \A p \in Players : AtRest(p) =>
    \A i \in DOMAIN stream :
      (stream[i].player \notin {p, Host} /\ stream[i].op.what \notin MayRaise)
        => stream[i].op \in Range(done[p])

-----------------------------------------------------------------------------
(* What the documentation says and the code does not do *)

(* runtime.py, HostRuntime: echoing an operation to the game that built it   *)
(* would apply it twice; only the others apply it.                           *)
AppliedOnce ==
  \A p \in Players : \A i, j \in DOMAIN done[p] :
    done[p][i] = done[p][j] => i = j

=============================================================================
