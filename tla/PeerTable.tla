------------------------------ MODULE PeerTable ------------------------------
(***************************************************************************)
(* The host process's table of connections, kermp/net.py.  Every accepted   *)
(* TCP connection has a handler, one coroutine, that reads a HELLO, serves   *)
(* messages and, whatever ends it, drops the player it spoke for.  A         *)
(* broadcast walks the table and is suspended after each write; the other   *)
(* handlers run meanwhile and may change the table under it.                *)
(***************************************************************************)
EXTENDS Naturals, FiniteSets

CONSTANTS
    Ids,        \* player ids
    Host,       \* the host's own id, one of them
    Claims,     \* the ids that HELLOs carry; the host's own is among them when
                \* a client runs on the host's machine
    Valid,      \* whether the manifest in a HELLO may be valid, or invalid
    Conns,      \* TCP connections in the order of no particular player
    NoConn,     \* "not in the table"
    NoId        \* a connection that has not said who it is

ASSUME TableAssumption ==
    /\ Host \in Ids /\ Claims \subseteq Ids /\ Valid \subseteq BOOLEAN /\ NoId \notin Ids /\ NoConn \notin Conns
    /\ IsFiniteSet(Ids) /\ IsFiniteSet(Conns)

VARIABLES
    at,         \* where the handler of each connection is
    who,        \* the id it speaks for
    walk,       \* the broadcast it is in
    peers,      \* KerMPHost.peers: the connection of each player
    players,    \* the keys of HostSession.players
    lost        \* connections whose transport is closed or broken

tableVars == <<at, who, walk, peers, players, lost>>

\* "waiting": for the connection and its HELLO.  "ending": left its try block,
\* the finally block is still to come.
Stages == {"waiting", "serving", "broadcasting", "ending", "ended"}

Walk == [sent : SUBSET Conns, size : Nat, dead : SUBSET Ids]
NoWalk == [sent |-> {}, size |-> 0, dead |-> {}]

\* The ids in the table.
Listed == {i \in Ids : peers[i] # NoConn}

TableInit ==
    /\ at = [c \in Conns |-> "waiting"]
    /\ who = [c \in Conns |-> NoId]
    /\ walk = [c \in Conns |-> NoWalk]
    /\ peers = [i \in Ids |-> NoConn]
    /\ players = {Host}
    /\ lost = {}

-----------------------------------------------------------------------------
(* The handler of connection c.                                            *)

\* No HELLO within the time, or something else in its place: nobody to drop.
NoHello(c) ==
    /\ at[c] = "waiting"
    /\ at' = [at EXCEPT ![c] = "ended"]
    /\ lost' = lost \cup {c}
    /\ UNCHANGED <<who, walk, peers, players>>

\* The id is taken or the manifest invalid: an error is written, and the
\* handler is suspended before its finally block.  It has noted the id.
Refuse(c, i) ==
    /\ at[c] = "waiting" /\ i \in Claims
    /\ i \in Listed \cup {Host} \/ FALSE \in Valid
    /\ who' = [who EXCEPT ![c] = i]
    /\ at' = [at EXCEPT ![c] = "ending"]
    /\ UNCHANGED <<walk, peers, players, lost>>

Welcome(c, i) ==
    /\ at[c] = "waiting" /\ i \in Claims
    /\ i \notin Listed \cup {Host} /\ TRUE \in Valid
    /\ who' = [who EXCEPT ![c] = i]
    /\ at' = [at EXCEPT ![c] = "serving"]
    /\ peers' = [peers EXCEPT ![i] = c]
    /\ players' = players \cup {i}
    /\ UNCHANGED <<walk, lost>>

\* The transport breaks under the handler's feet.
Break(c) ==
    /\ at[c] \in {"serving", "broadcasting"} /\ c \notin lost
    /\ lost' = lost \cup {c}
    /\ UNCHANGED <<at, who, walk, peers, players>>

\* End of file, or a message whose handling raises.
StopReading(c) ==
    /\ at[c] = "serving"
    /\ at' = [at EXCEPT ![c] = "ending"]
    /\ UNCHANGED <<who, walk, peers, players, lost>>

\* Mutant: the table is cleared and the session forgotten.
DropTableOnly(ids, closing) ==
    /\ peers' = [i \in Ids |-> IF i \in ids THEN NoConn ELSE peers[i]]
    /\ players' = players
    /\ lost' = lost \cup {peers[i] : i \in ids \cap Listed} \cup closing

\* _drop of each of the ids: whatever connection they have by now is closed.
Drop(ids, closing) ==
    /\ peers' = [i \in Ids |-> IF i \in ids THEN NoConn ELSE peers[i]]
    /\ players' = players \ ids
    /\ lost' = lost \cup {peers[i] : i \in ids \cap Listed} \cup closing

\* Mutant: the finally block ends without the drop.
FinallyNoDrop(c) ==
    /\ at[c] = "ending"
    /\ at' = [at EXCEPT ![c] = "ended"]
    /\ lost' = lost \cup {c}
    /\ UNCHANGED <<who, walk, peers, players>>

\* The finally block, which looks at the id and not at the connection.
Finally(c) ==
    /\ at[c] = "ending"
    /\ at' = [at EXCEPT ![c] = "ended"]
    /\ Drop({who[c]}, {c})
    /\ UNCHANGED <<who, walk>>

-----------------------------------------------------------------------------
(* broadcast(), called by the handler of c, walks the table.               *)

StartWalk(c) ==
    /\ at' = [at EXCEPT ![c] = "broadcasting"]
    /\ walk' = [walk EXCEPT ![c] = [NoWalk EXCEPT !.size = Cardinality(Listed)]]

\* Peers the walk has not come to.
Unvisited(c) == {i \in Listed : peers[i] \notin walk[c].sent}

\* An entry the walk did not count on: another has left and this one come.
Surplus(c) == Unvisited(c) # {} /\ Cardinality(walk[c].sent) = walk[c].size

\* The dictionary has changed: RuntimeError.
Changed(c) == Cardinality(Listed) # walk[c].size \/ Surplus(c)

\* The next peer: a broken transport raises OSError and the id is noted.
WalkOn(c) ==
    /\ at[c] = "broadcasting" /\ ~Changed(c)
    /\ \E i \in Unvisited(c) :
         walk' = [walk EXCEPT ![c].sent = @ \cup {peers[i]},
                              ![c].dead = IF peers[i] \in lost THEN @ \cup {i} ELSE @]
    /\ UNCHANGED <<at, who, peers, players, lost>>

\* The error is none that _handle_conn expects; it ends the handler.
WalkRaises(c) ==
    /\ at[c] = "broadcasting" /\ Changed(c)
    /\ at' = [at EXCEPT ![c] = "ending"]
    /\ walk' = [walk EXCEPT ![c] = NoWalk]
    /\ UNCHANGED <<who, peers, players, lost>>

\* Mutant: the dead are dropped with everybody the walk has written to.
WalkEndsAll(c) ==
    /\ at[c] = "broadcasting" /\ ~Changed(c) /\ Unvisited(c) = {}
    /\ at' = [at EXCEPT ![c] = "serving"]
    /\ walk' = [walk EXCEPT ![c] = NoWalk]
    /\ Drop(IF walk[c].dead = {} THEN {} ELSE Listed, {})
    /\ UNCHANGED who

\* All of them written to: the dead are dropped, by id.
WalkEnds(c) ==
    /\ at[c] = "broadcasting" /\ ~Changed(c) /\ Unvisited(c) = {}
    /\ at' = [at EXCEPT ![c] = "serving"]
    /\ walk' = [walk EXCEPT ![c] = NoWalk]
    /\ Drop(walk[c].dead, {})
    /\ UNCHANGED who

\* A handler has served a message that ends in a broadcast.
Broadcasts(c) ==
    /\ at[c] = "serving"
    /\ StartWalk(c)
    /\ UNCHANGED <<who, peers, players, lost>>

-----------------------------------------------------------------------------
(* What a handler may do, whatever the messages it serves are about.       *)

HandlerStep(c) ==
    \/ NoHello(c) \/ Break(c) \/ StopReading(c) \/ Finally(c)
    \/ Broadcasts(c) \/ WalkOn(c) \/ WalkRaises(c) \/ WalkEnds(c)
    \/ \E i \in Ids : Refuse(c, i) \/ Welcome(c, i)

TableSpec == TableInit /\ [][\E c \in Conns : HandlerStep(c)]_tableVars

-----------------------------------------------------------------------------

TableTypeOK ==
    /\ at \in [Conns -> Stages]
    /\ who \in [Conns -> Ids \cup {NoId}]
    /\ walk \in [Conns -> Walk]
    /\ peers \in [Ids -> Conns \cup {NoConn}]
    /\ players \in SUBSET Ids
    /\ lost \in SUBSET Conns

\* Whoever is in the table is served by a handler that speaks for it and has
\* its finally block still to come: nobody stays in the table for ever.
EntriesAreServed ==
    \A i \in Listed : /\ who[peers[i]] = i
                      /\ at[peers[i]] \in {"serving", "broadcasting", "ending"}

\* The session's players, the host aside, are those in the table: a player
\* without a connection would hold up every barrier, a connection without a
\* player would act for nobody.
PlayersAreListed == players \ {Host} = Listed \ {Host}

\* Only a connection that ends and claims the id, or its own broken transport,
\* takes a player from the table: the failures of others do not.
OthersAreSafe ==
    [][\A i \in Listed : peers'[i] # peers[i] =>
          \/ peers[i] \in lost
          \/ \E c \in Conns : at[c] = "ending" /\ who[c] = i /\ at'[c] = "ended"]_tableVars

=============================================================================
