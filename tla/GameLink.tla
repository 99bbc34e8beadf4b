-------------------------------- MODULE GameLink --------------------------------
(***************************************************************************)
(* The connection between a client's game and its sidecar, and what the host  *)
(* hears of it: LocalGameBridge (bridge.py) with its thread and the event     *)
(* loop that sends through it, KerMPBridgeClient (bridge_client.py) with its   *)
(* reader and the game's own thread, ClientRuntime's answer to game.hello and  *)
(* simulation.authority, and the player's readiness in the session.           *)
(*                                                                         *)
(* Connections are numbered in the order the game makes them.  The game is    *)
(* closed and started again, or hot-reloaded: either way it loses all it had.  *)
(***************************************************************************)
EXTENDS Naturals, Sequences

CONSTANTS
    MayLack,        \* whether a game may be without Timeline.simulate
    MaxConns, MaxGames, MaxSidecars,    \* bounds: connections, games, sidecars
    MaxEmits, MaxNotes                  \* bounds: other events and messages

ASSUME LinkAssumption ==
    /\ MayLack \in BOOLEAN
    /\ \A n \in {MaxConns, MaxSidecars, MaxEmits, MaxNotes} : n \in Nat
    /\ MaxGames \in Nat \ {0}

VARIABLES
    \* the sidecar
    joined,     \* its client is in the session
    listener,   \* where the bridge's thread is
    serving,    \* the connection in that thread's hands
    conn,       \* LocalGameBridge._conn
    sending,    \* a send that has read _conn and not written yet
    tasks,      \* events on their way to the loop
    sidecars, notes,
    \* the game
    sock,       \* KerMPBridgeClient.sock
    suppressed, \* _timeline_suppression_installed
    writing,    \* an event the game's thread has written a part of
    games, emits,
    \* between them
    made, backlog,              \* connections so far, and those not accepted
    toSidecar, toGame,          \* what is in each of them
    closedBySidecar, closedByGame,
    \* the host
    up,         \* READINESS messages on their way
    record,     \* PlayerReadiness
    heard,      \* history: the game whose hello the host has heard of last
    early,      \* history: a report was lost for want of a session
    untimely    \* history: a failed send cleared a connection not its own, or not yet read

sidecarVars == <<joined, listener, serving, conn, sending, tasks, sidecars, notes>>
gameVars == <<sock, suppressed, writing, games, emits>>
lineVars == <<made, backlog, toSidecar, toGame, closedBySidecar, closedByGame>>
hostVars == <<up, record, heard>>
linkVars == <<sidecarVars, gameVars, lineVars, hostVars, early, untimely>>

Conns == 1..MaxConns
NoConn == 0
Games == 1..MaxGames
NoGame == 0

Hello(g) == [type |-> "hello", game |-> g]
Authority(installed) == [type |-> "authority", installed |-> installed]
Event == [type |-> "event"]
Garbled == [type |-> "garbled"]

Welcome == "welcome"
Note == "note"

\* READINESS, with what the client fills in.
HelloReport(g) == [authority |-> FALSE, game |-> g]
AuthorityReport(b) == [authority |-> b, game |-> NoGame]
NoReport == <<>>

NotSending == [to |-> NoConn, what |-> "nothing", report |-> NoReport]
NotWriting == [to |-> NoConn, torn |-> FALSE]
Unready == [bridge |-> FALSE, authority |-> FALSE]

LinkInit ==
    /\ joined = FALSE /\ listener = "accepting" /\ serving = NoConn /\ conn = NoConn
    /\ sending = NotSending /\ tasks = <<>> /\ sidecars = 1 /\ notes = 0
    /\ sock = NoConn /\ suppressed = FALSE /\ writing = NotWriting /\ games = 1 /\ emits = 0
    /\ made = 0 /\ backlog = <<>>
    /\ toSidecar = [c \in Conns |-> <<>>] /\ toGame = [c \in Conns |-> <<>>]
    /\ closedBySidecar = {} /\ closedByGame = {}
    /\ up = <<>> /\ record = Unready /\ heard = NoGame /\ early = FALSE /\ untimely = FALSE

-----------------------------------------------------------------------------
(* The game: the reader's thread, and the game's own.                        *)

\* The listener's backlog takes the connection, and the hello, before anybody
\* has accepted it.
Connects ==
    /\ sock = NoConn /\ listener # "dead" /\ made < MaxConns
    /\ made' = made + 1 /\ sock' = made' /\ backlog' = Append(backlog, made')
    /\ toSidecar' = [toSidecar EXCEPT ![made'] = <<Hello(games)>>]
    /\ UNCHANGED <<sidecarVars, suppressed, writing, games, emits, toGame, closedBySidecar,
                   closedByGame, hostVars, early, untimely>>

\* A line of the reader's thread ends up inside one the game's thread is writing.
Written(line) == IF writing.to = sock THEN Garbled ELSE line

\* _configure_simulation_authority, with the installer of lifecycle_guard.  The
\* status is a new one for each welcome, and an installer that finds the wrapper
\* in place does not fill it in.
Suppresses(possible) ==
    /\ suppressed' = (suppressed \/ possible)
    /\ toSidecar' = [toSidecar EXCEPT ![sock] = Append(@, Written(Authority(possible /\ ~suppressed)))]
    /\ writing' = IF writing.to = sock THEN [writing EXCEPT !.torn = TRUE] ELSE writing

GameReads ==
    /\ sock # NoConn /\ toGame[sock] # <<>>
    /\ toGame' = [toGame EXCEPT ![sock] = Tail(@)]
    /\ \/ Head(toGame[sock]) = Welcome /\ \E possible \in {TRUE, ~MayLack} : Suppresses(possible)
       \/ Head(toGame[sock]) = Note /\ UNCHANGED <<suppressed, toSidecar, writing>>
    /\ UNCHANGED <<sidecarVars, sock, games, emits, made, backlog, closedBySidecar, closedByGame,
                   hostVars, early, untimely>>

\* The end of the stream, or an error: the transport is closed.
GameSeesEnd ==
    /\ sock \in closedBySidecar
    /\ sock' = NoConn /\ closedByGame' = closedByGame \cup {sock}
    /\ UNCHANGED <<sidecarVars, suppressed, writing, games, emits, made, backlog, toSidecar, toGame,
                   closedBySidecar, hostVars, early, untimely>>

EmitBegins ==
    /\ writing = NotWriting /\ sock # NoConn /\ emits < MaxEmits
    /\ emits' = emits + 1
    /\ writing' = [to |-> sock, torn |-> FALSE]
    /\ UNCHANGED <<sidecarVars, sock, suppressed, games, lineVars, hostVars, early, untimely>>

\* The rest of the line; on a connection that is closed, an exception.
EmitEnds ==
    /\ writing # NotWriting
    /\ writing' = NotWriting
    /\ toSidecar' = [toSidecar EXCEPT ![writing.to] = Append(@, IF writing.torn THEN Garbled ELSE Event)]
    /\ UNCHANGED <<sidecarVars, sock, suppressed, games, emits, made, backlog, toGame,
                   closedBySidecar, closedByGame, hostVars, early, untimely>>

\* KerMPBridgeClient.stop with a teardown, or the end of the process; then start.
GameStartsAgain ==
    /\ games < MaxGames /\ games' = games + 1
    /\ sock' = NoConn /\ suppressed' = FALSE /\ writing' = NotWriting
    /\ closedByGame' = closedByGame \cup ({sock} \ {NoConn})
    /\ UNCHANGED <<sidecarVars, emits, made, backlog, toSidecar, toGame, closedBySidecar,
                   hostVars, early, untimely>>

-----------------------------------------------------------------------------
(* The bridge's thread, LocalGameBridge._run.                                *)

\* The variable that held the connection before is bound anew, which closes it.
Accepts ==
    /\ listener = "accepting" /\ backlog # <<>>
    /\ serving' = Head(backlog) /\ conn' = Head(backlog) /\ backlog' = Tail(backlog)
    /\ closedBySidecar' = closedBySidecar \cup ({serving} \ {NoConn})
    /\ listener' = "accepted"
    /\ UNCHANGED <<joined, sending, tasks, sidecars, notes, gameVars, made, toSidecar, toGame,
                   closedByGame, hostVars, early, untimely>>

StartsReading ==
    /\ listener = "accepted" /\ conn # NoConn
    /\ listener' = "reading"
    /\ UNCHANGED <<joined, serving, conn, sending, tasks, sidecars, notes, gameVars, lineVars,
                   hostVars, early, untimely>>

\* An AssertionError is none that the thread expects: it ends, and the listening
\* socket with it.
AssertionFails ==
    /\ listener = "accepted" /\ conn = NoConn
    /\ listener' = "dead" /\ serving' = NoConn /\ backlog' = <<>>
    /\ closedBySidecar' = closedBySidecar \cup {serving} \cup {backlog[i] : i \in DOMAIN backlog}
    /\ UNCHANGED <<joined, conn, sending, tasks, sidecars, notes, gameVars, made, toSidecar, toGame,
                   closedByGame, hostVars, early, untimely>>

\* A line goes to the loop as a task of its own.
ReadsLine ==
    /\ listener = "reading" /\ toSidecar[serving] # <<>>
    /\ Head(toSidecar[serving]) # Garbled
    /\ tasks' = Append(tasks, Head(toSidecar[serving]))
    /\ toSidecar' = [toSidecar EXCEPT ![serving] = Tail(@)]
    /\ UNCHANGED <<joined, listener, serving, conn, sending, sidecars, notes, gameVars, made, backlog,
                   toGame, closedBySidecar, closedByGame, hostVars, early, untimely>>

NothingToRead ==
    \/ toSidecar[serving] = <<>> /\ serving \in closedByGame
    \/ toSidecar[serving] # <<>> /\ Head(toSidecar[serving]) = Garbled

\* Mutant: the error of a line that is no JSON is not caught.
EndsReadingForGood ==
    /\ listener = "reading" /\ NothingToRead
    /\ listener' = IF serving \in closedByGame THEN "accepting" ELSE "dead"
    /\ conn' = NoConn
    /\ closedBySidecar' = closedBySidecar \cup ({conn} \ {NoConn})
    /\ UNCHANGED <<joined, serving, sending, tasks, sidecars, notes, gameVars, made, backlog, toSidecar,
                   toGame, closedByGame, hostVars, early, untimely>>

\* Mutant: the connection is closed and remembered.
EndsReadingRemembering ==
    /\ listener = "reading" /\ NothingToRead
    /\ listener' = "accepting"
    /\ closedBySidecar' = closedBySidecar \cup ({conn} \ {NoConn})
    /\ UNCHANGED <<joined, serving, conn, sending, tasks, sidecars, notes, gameVars, made, backlog,
                   toSidecar, toGame, closedByGame, hostVars, early, untimely>>

\* The end, or a line that is no JSON.  What _conn holds is closed, if anything.
EndsReading ==
    /\ listener = "reading" /\ NothingToRead
    /\ listener' = "accepting" /\ conn' = NoConn
    /\ closedBySidecar' = closedBySidecar \cup ({conn} \ {NoConn})
    /\ UNCHANGED <<joined, serving, sending, tasks, sidecars, notes, gameVars, made, backlog, toSidecar,
                   toGame, closedByGame, hostVars, early, untimely>>

-----------------------------------------------------------------------------
(* The sidecar's loop: ClientRuntime and LocalGameBridge.send.               *)

\* ClientRuntime._on_game_event: hello is answered, then reported.
TakesTask ==
    LET e == Head(tasks) IN
    /\ sending = NotSending /\ tasks # <<>>
    /\ tasks' = Tail(tasks)
    /\ sending' = CASE e.type = "hello" -> [to |-> conn, what |-> Welcome, report |-> <<HelloReport(e.game)>>]
                    [] e.type = "authority" ->
                          [to |-> NoConn, what |-> "report", report |-> <<AuthorityReport(e.installed)>>]
                    [] e.type = "event" -> NotSending
    /\ UNCHANGED <<joined, listener, serving, conn, sidecars, notes, gameVars, lineVars, hostVars,
                   early, untimely>>

\* Something of the host for the game.
Notifies ==
    /\ sending = NotSending /\ joined /\ notes < MaxNotes
    /\ notes' = notes + 1
    /\ sending' = [to |-> conn, what |-> Note, report |-> NoReport]
    /\ UNCHANGED <<joined, listener, serving, conn, tasks, sidecars, gameVars, lineVars, hostVars,
                   early, untimely>>

\* sendall, on what _conn was: an error clears _conn, whatever it is by now.
Delivered ==
    \/ /\ sending.to \in {NoConn} \cup closedByGame
       /\ UNCHANGED <<conn, toGame, untimely>>
    \/ /\ sending.to \in closedByGame \cup closedBySidecar
       /\ conn' = NoConn
       /\ untimely' = (untimely \/ conn \notin {NoConn, sending.to} \/ listener = "accepted")
       /\ UNCHANGED toGame
    \/ /\ sending.to \notin {NoConn} \cup closedByGame \cup closedBySidecar
       /\ toGame' = [toGame EXCEPT ![sending.to] = Append(@, sending.what)]
       /\ UNCHANGED <<conn, untimely>>

\* The report follows; without a connection to the host it raises.
SendEnds ==
    /\ sending # NotSending
    /\ sending' = NotSending
    /\ Delivered
    /\ up' = IF joined THEN up \o sending.report ELSE up
    /\ early' = (early \/ (~joined /\ sending.report # NoReport))
    /\ UNCHANGED <<joined, listener, serving, tasks, sidecars, notes, gameVars, made, backlog, toSidecar,
                   closedBySidecar, closedByGame, record, heard>>

\* connect(), which start() calls after it has started the bridge.
Joins ==
    /\ ~joined /\ joined' = TRUE
    /\ UNCHANGED <<listener, serving, conn, sending, tasks, sidecars, notes, gameVars, lineVars, hostVars,
                   early, untimely>>

\* stop(), and another start: the host drops the player's record.
SidecarStartsAgain ==
    /\ sidecars < MaxSidecars /\ sidecars' = sidecars + 1
    /\ joined' = FALSE /\ listener' = "accepting" /\ serving' = NoConn /\ conn' = NoConn
    /\ sending' = NotSending /\ tasks' = <<>> /\ backlog' = <<>>
    /\ closedBySidecar' = closedBySidecar \cup 1..made
    /\ up' = <<>> /\ record' = Unready /\ heard' = NoGame /\ early' = FALSE /\ untimely' = FALSE
    /\ UNCHANGED <<notes, gameVars, made, toSidecar, toGame, closedByGame>>

-----------------------------------------------------------------------------
(* The host: READINESS.                                                      *)

\* Mutant: the report takes the place of the record.
RecordedAnew(m) == [bridge |-> m.game # NoGame, authority |-> m.authority]

\* Mutant: a hello says nothing of the authority.
RecordedHelloKeeps(m) == [bridge |-> TRUE, authority |-> m.authority \/ (m.game # NoGame /\ record.authority)]

Recorded(m) == [bridge |-> TRUE, authority |-> m.authority]

HostTakes ==
    /\ up # <<>>
    /\ up' = Tail(up)
    /\ record' = Recorded(Head(up))
    /\ heard' = IF Head(up).game = NoGame THEN heard ELSE Head(up).game
    /\ UNCHANGED <<sidecarVars, gameVars, lineVars, early, untimely>>

-----------------------------------------------------------------------------

GameReader == Connects \/ GameReads \/ GameSeesEnd
BridgeThread == Accepts \/ StartsReading \/ AssertionFails \/ ReadsLine \/ EndsReading
Loop == TakesTask \/ SendEnds

LinkNext ==
    \/ GameReader \/ EmitBegins \/ EmitEnds \/ GameStartsAgain
    \/ BridgeThread
    \/ Loop \/ Notifies \/ Joins \/ SidecarStartsAgain
    \/ HostTakes

\* Threads run, the loop runs, the network delivers, and a sidecar gets in.
LinkFairness ==
    /\ WF_linkVars(GameReader) /\ WF_linkVars(EmitEnds)
    /\ WF_linkVars(BridgeThread) /\ WF_linkVars(Loop)
    /\ WF_linkVars(Joins) /\ WF_linkVars(HostTakes)

LinkSpec == LinkInit /\ [][LinkNext]_linkVars /\ LinkFairness

-----------------------------------------------------------------------------

\* While the bridge's thread waits for a connection it has forgotten the one
\* before, or it would never wait again.
LinkTypeOK ==
    /\ joined \in BOOLEAN /\ listener \in {"accepting", "accepted", "reading", "dead"}
    /\ serving \in Conns \cup {NoConn} /\ conn \in {serving, NoConn}
    /\ listener \in {"accepting", "dead"} => conn = NoConn
    /\ sending.to \in Conns \cup {NoConn} /\ writing.to \in Conns \cup {NoConn}
    /\ sock \in Conns \cup {NoConn} /\ suppressed \in BOOLEAN
    /\ closedBySidecar \subseteq Conns /\ closedByGame \subseteq Conns
    /\ record \in [bridge : BOOLEAN, authority : BOOLEAN] /\ heard \in Games \cup {NoGame}

\* The host has a client down as suppressed only if the game it last heard of,
\* when that is still the one that runs, has the wrapper in place.
AuthorityIsReal == record.authority /\ heard = games => suppressed

Linked == listener = "reading" /\ sock # NoConn /\ sock = serving /\ conn = sock

\* However often game or sidecar start again, lines tear and connections break,
\* in the end the game's connection is the one the sidecar reads and writes,
\* unless a failed send cleared one it was not made on, or one that had only
\* been accepted (bridge.py:46).
LinkHeals == <>[](untimely \/ Linked)

\* And the host learns that the game is there, unless the game said hello
\* before the sidecar had joined (runtime.py:358).
BridgeIsReported == <>[](untimely \/ early \/ record.bridge)

=============================================================================
