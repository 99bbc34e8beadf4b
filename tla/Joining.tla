------------------------------- MODULE Joining -------------------------------
(***************************************************************************)
(* What happens on the connections of PeerTable when a player joins: the    *)
(* readiness reports of kermp/readiness.py and the transfer of the host's   *)
(* save, from KerMPHost.stream_save_to to SaveReceiver in kermp/save_sync.py.*)
(* A transfer is a coroutine that looks the player up for every message, so *)
(* it may start on one connection and go on on another, and two may run at   *)
(* once.                                                                     *)
(***************************************************************************)
EXTENDS PeerTable, Sequences

CONSTANTS
    MaySend,        \* the players the host sends its save to
    Transfers,      \* the calls of stream_save_to
    Chunks,         \* chunks in a save
    MaxVersion,     \* bound: the host's save is written so many times
    Window          \* bound: messages in a connection, where drain() suspends

ASSUME JoiningAssumption ==
    Chunks \in Nat \ {0} /\ MaxVersion \in Nat \ {0} /\ Window \in Nat \ {0}

VARIABLES
    ready,      \* PlayerReadiness of each player
    up, down,   \* what is in the connection, to the host and to the client
    receiver,   \* ClientRuntime.save_receiver, of the client at each connection
    partial,    \* the partial file on each player's disk
    final,      \* the save slot there
    hostSave,   \* the version of the host's save file
    stream,     \* the transfers
    installed   \* history: the versions each player has installed

saveVars == <<receiver, partial, final, hostSave, stream, installed>>
joinVars == <<tableVars, ready, up, down, saveVars>>

Versions == 1..MaxVersion
NoSave == 0                 \* no hash, no save
NoFile == <<>>

\* A chunk is known by the version it was read from and its place.
Chunk == Versions \X (0..(Chunks - 1))
Whole(v) == [k \in 1..Chunks |-> <<v, k - 1>>]

\* PlayerReadiness, as far as a transfer is concerned.
Readiness == [hash : Versions \cup {NoSave}, error : BOOLEAN]
FreshReadiness == [hash |-> NoSave, error |-> FALSE]

NoReceiver == [hash |-> NoSave, next |-> 0]
Stream == [to : Ids, version : Versions \cup {NoSave}, next : 0..(Chunks + 2)]
Idle == [to |-> Host, version |-> NoSave, next |-> 0]

JoinInit ==
    /\ TableInit
    /\ ready = [i \in Ids |-> FreshReadiness]
    /\ up = [c \in Conns |-> <<>>]
    /\ down = [c \in Conns |-> <<>>]
    /\ receiver = [c \in Conns |-> NoReceiver]
    /\ partial = [i \in Ids |-> NoFile]
    /\ final = [i \in Ids |-> NoFile]
    /\ hostSave = 1
    /\ stream = [t \in Transfers |-> Idle]
    /\ installed = [i \in Ids |-> {}]

Joins(c, i) ==
    /\ Welcome(c, i)
    /\ ready' = [ready EXCEPT ![i] = FreshReadiness]
    /\ UNCHANGED <<up, down, saveVars>>

\* Everything else that happens to the table leaves the rest alone.
TableStep(c) ==
    /\ \/ NoHello(c) \/ Break(c) \/ WalkOn(c) \/ WalkRaises(c) \/ WalkEnds(c)
       \/ \E i \in Ids : Refuse(c, i)
       \/ up[c] = <<>> /\ c \in lost /\ StopReading(c)
    /\ UNCHANGED <<ready, up, down, saveVars>>

\* What is still in the connection is read by nobody.
Ends(c) ==
    /\ Finally(c)
    /\ up' = [up EXCEPT ![c] = <<>>]
    /\ UNCHANGED <<ready, down, saveVars>>

-----------------------------------------------------------------------------
(* The host sends its save.                                                *)

\* Where send_to finds the player: no entry is a ValueError, a broken
\* transport an OSError; both end the transfer.
Reachable(i) == i \in Listed /\ peers[i] \notin lost

\* The game may write its save at any moment.
HostSaves ==
    /\ hostSave < MaxVersion
    /\ hostSave' = hostSave + 1
    /\ UNCHANGED <<tableVars, ready, up, down, receiver, partial, final, stream, installed>>

SendTo(i, m) ==
    /\ Len(down[peers[i]]) < Window
    /\ down' = [down EXCEPT ![peers[i]] = Append(@, m)]

\* SAVE_MANIFEST with the hash of the file as it is now.  SAVE_BEGIN, which
\* follows it, is read by nobody.
StreamSave(t, i) ==
    /\ stream[t] = Idle /\ i \in MaySend /\ Reachable(i)
    /\ stream' = [stream EXCEPT ![t] = [to |-> i, version |-> hostSave, next |-> 1]]
    /\ SendTo(i, [type |-> "save.manifest", hash |-> hostSave])
    /\ UNCHANGED <<tableVars, ready, up, receiver, partial, final, hostSave, installed>>

\* The next chunk, read from the file now, or SAVE_END after the last one.
StreamOn(t) ==
    LET s == stream[t] IN
    /\ s.next \in 1..(Chunks + 1) /\ Reachable(s.to)
    /\ stream' = [stream EXCEPT ![t] =
                     IF s.next <= Chunks THEN [s EXCEPT !.next = @ + 1]
                                         ELSE [Idle EXCEPT !.next = Chunks + 2]]
    /\ SendTo(s.to, IF s.next <= Chunks
                    THEN [type |-> "save.chunk", index |-> s.next - 1, data |-> <<hostSave, s.next - 1>>]
                    ELSE [type |-> "save.end"])
    /\ UNCHANGED <<tableVars, ready, up, receiver, partial, final, hostSave, installed>>

StreamFails(t) ==
    /\ stream[t].next \in 1..(Chunks + 1) /\ ~Reachable(stream[t].to)
    /\ stream' = [stream EXCEPT ![t] = [Idle EXCEPT !.next = Chunks + 2]]
    /\ UNCHANGED <<tableVars, ready, up, down, receiver, partial, final, hostSave, installed>>

-----------------------------------------------------------------------------
(* The client at connection c handles the next message.  Its answer may    *)
(* raise when the connection is broken, which ends its listening.          *)

OpenReceiver(v) == [hash |-> v, next |-> 0]

\* SaveReceiver.write_chunk raises unless the chunk is the next one.  Sizes
\* are left out: chunks of one size, counted.
InOrder(r, m) == r # NoReceiver /\ m.index = r.next

\* Mutant: finalize counts the chunks and does not look at the hash.
CompleteByCount(r, file) == r # NoReceiver /\ r.next = Chunks

\* SaveReceiver.finalize: the number of chunks and the hash of the file.
Complete(r, file) == r # NoReceiver /\ r.next = Chunks /\ file = Whole(r.hash)

\* The answer, what becomes of the receiver, and of the partial file.
Progress == [type |-> "progress"]
Failure == [type |-> "error"]

ClientHandles(c) ==
    LET m == Head(down[c])
        i == who[c]
        r == receiver[c]
        taken == [r EXCEPT !.next = @ + 1]
        \* receiver, partial file, installed version or NoSave, answer
        outcome ==
            CASE m.type = "save.manifest" -> <<OpenReceiver(m.hash), NoFile, NoSave, Progress>>
              [] m.type = "save.chunk" /\ InOrder(r, m) ->
                    <<taken, Append(partial[i], m.data), NoSave, Progress>>
              [] m.type = "save.chunk" /\ ~InOrder(r, m) ->
                    <<r, IF r = NoReceiver THEN partial[i] ELSE NoFile, NoSave, Failure>>
              [] m.type = "save.end" /\ Complete(r, partial[i]) ->
                    <<NoReceiver, NoFile, r.hash, [type |-> "ack", hash |-> r.hash]>>
              [] m.type = "save.end" /\ ~Complete(r, partial[i]) ->
                    <<NoReceiver, IF r = NoReceiver THEN partial[i] ELSE NoFile, NoSave, Failure>>
    IN
    /\ down[c] # <<>> /\ Len(up[c]) < Window
    /\ receiver' = [receiver EXCEPT ![c] = outcome[1]]
    /\ final' = [final EXCEPT ![i] = IF outcome[3] = NoSave THEN @ ELSE partial[i]]
    /\ installed' = [installed EXCEPT ![i] = @ \cup ({outcome[3]} \ {NoSave})]
    /\ \/ /\ up' = [up EXCEPT ![c] = IF c \in lost \/ at[c] = "ended" THEN @ ELSE Append(@, outcome[4])]
          /\ down' = [down EXCEPT ![c] = Tail(@)]
          /\ partial' = [partial EXCEPT ![i] = outcome[2]]
       \/ /\ c \in lost
          /\ down' = [down EXCEPT ![c] = <<>>]
          /\ partial' = [partial EXCEPT ![i] = IF m.type = "save.chunk" THEN NoFile ELSE outcome[2]]
          /\ UNCHANGED up
    /\ UNCHANGED <<tableVars, ready, hostSave, stream>>

-----------------------------------------------------------------------------
(* KerMPHost._dispatch: the host process handles what the client says.     *)

\* Mutant: the save counts as there once something of it has arrived.
UpdatedEarly(r, m) ==
    CASE m.type = "progress" -> [r EXCEPT !.hash = hostSave]
      [] m.type = "ack" -> [r EXCEPT !.hash = m.hash]
      [] m.type = "error" -> [r EXCEPT !.error = TRUE]

\* update_readiness with the fields of READINESS (the bytes received, which
\* nothing depends on), SAVE_ACK or SAVE_ERROR.
Updated(r, m) ==
    CASE m.type = "progress" -> r
      [] m.type = "ack" -> [r EXCEPT !.hash = m.hash]
      [] m.type = "error" -> [r EXCEPT !.error = TRUE]

Dispatch(c) ==
    LET m == Head(up[c]) IN
    /\ at[c] = "serving" /\ up[c] # <<>>
    /\ up' = [up EXCEPT ![c] = Tail(@)]
    /\ IF who[c] \in players
       THEN /\ ready' = [ready EXCEPT ![who[c]] = Updated(@, m)]
            /\ StartWalk(c)
       ELSE \* KeyError, which SAVE_ERROR's branch does not catch
            /\ at' = [at EXCEPT ![c] = IF m.type = "error" THEN "ending" ELSE @]
            /\ UNCHANGED <<ready, walk>>
    /\ UNCHANGED <<who, peers, players, lost, down, saveVars>>

-----------------------------------------------------------------------------

ConnStep(c) ==
    \/ TableStep(c) \/ Ends(c) \/ ClientHandles(c) \/ Dispatch(c)
    \/ \E i \in Ids : Joins(c, i)

JoinNext ==
    \/ \E c \in Conns : ConnStep(c)
    \/ \E t \in Transfers : StreamOn(t) \/ StreamFails(t) \/ \E i \in Ids : StreamSave(t, i)
    \/ HostSaves

JoinSpec == JoinInit /\ [][JoinNext]_joinVars

-----------------------------------------------------------------------------

\* The slot on a player's disk is always one whole version of the host's save,
\* however transfers, connections and writes of the host's game are mixed.
\* ("final slot is never written until hash validation", save_sync.py:75)
SlotIsWhole == \A i \in Ids : final[i] = NoFile \/ \E v \in Versions : final[i] = Whole(v)

\* A player counts as synced with a version only when its disk has had that
\* version installed: by its own acknowledgement, on whichever connection.
SyncedIsInstalled == \A i \in Ids : ready[i].hash # NoSave => ready[i].hash \in installed[i]

=============================================================================
