---------------------------- MODULE Joining_proofs ----------------------------
(***************************************************************************)
(* Proofs about the table of connections and about players who join, for    *)
(* any number of players, connections, transfers, chunks and versions of    *)
(* the save.  A join takes only the steps of the table's handlers, so what   *)
(* holds of the table holds of it.                                         *)
(***************************************************************************)
EXTENDS Joining, FiniteSetTheorems, TLAPS

-----------------------------------------------------------------------------
(* The table, PeerTable: its invariant, and that the steps of its handlers   *)
(* keep it.                                                                 *)

USE TableAssumption

(* What a broadcast over the table has noted while it was suspended: it has *)
(* written to no more peers than it counted, to nobody that has not said who *)
(* it is, and each of its dead is one whose connection it found broken.     *)
WalkIsSound(c) ==
    /\ Cardinality(walk[c].sent) <= walk[c].size
    /\ \A d \in walk[c].sent : at[d] # "waiting"
    /\ \A i \in walk[c].dead : \E d \in walk[c].sent \cap lost : who[d] = i

WalksAreSound == \A c \in Conns : WalkIsSound(c)

TableInv == TableTypeOK /\ EntriesAreServed /\ PlayersAreListed /\ WalksAreSound

(* A connection is the entry of one player at most. *)
LEMMA OneEntryEach ==
  ASSUME EntriesAreServed, NEW i \in Listed, NEW j \in Listed, peers[i] = peers[j]
  PROVE  i = j
  BY DEF EntriesAreServed

(* No broadcast has anything noted before it begins. *)
LEMMA NoWalkIsSound == NoWalk \in Walk /\ NoWalk.sent = {} /\ NoWalk.dead = {} /\ Cardinality(NoWalk.sent) = 0
  BY FS_EmptySet DEF NoWalk, Walk

LEMMA ListedIsFinite == IsFiniteSet(Listed) /\ Cardinality(Listed) \in Nat
  BY FS_Subset, FS_CardinalityType DEF Listed

LEMMA SentIsFinite ==
  ASSUME TableTypeOK, NEW c \in Conns
  PROVE  IsFiniteSet(walk[c].sent) /\ Cardinality(walk[c].sent) \in Nat
<1>1. walk[c].sent \in SUBSET Conns
  BY DEF TableTypeOK, Walk
<1> QED BY <1>1, FS_Subset, FS_CardinalityType

(* The table is empty at first (KerMPHost.__init__). *)
LEMMA InitTableInv == TableInit => TableInv
<1> SUFFICES ASSUME TableInit PROVE TableInv
  OBVIOUS
<1>1. Listed = {}
  BY DEF TableInit, Listed
<1>2. TableTypeOK
  BY NoWalkIsSound DEF TableInit, TableTypeOK, Stages
<1>3. WalksAreSound
  <2> SUFFICES ASSUME NEW c \in Conns PROVE WalkIsSound(c)
    BY DEF WalksAreSound
  <2>1. walk[c].sent = {} /\ walk[c].dead = {} /\ walk[c].size = 0
    BY DEF TableInit, NoWalk
  <2>2. Cardinality(walk[c].sent) = 0
    BY <2>1, FS_EmptySet
  <2> QED BY <2>1, <2>2 DEF WalkIsSound
<1> QED BY <1>1, <1>2, <1>3 DEF TableInit, TableInv, EntriesAreServed, PlayersAreListed

(* What a broadcast has noted stays sound as long as it goes on with it,    *)
(* those who have said who they are stay who they are, and what is lost     *)
(* stays lost.                                                              *)
LEMMA WalksStaySound ==
  ASSUME TableTypeOK, WalksAreSound, lost \subseteq lost',
         \A d \in Conns : at[d] # "waiting" => at'[d] # "waiting" /\ who'[d] = who[d],
         \A c \in Conns : walk'[c] = walk[c] \/ walk'[c] = NoWalk \/ WalkIsSound(c)'
  PROVE  WalksAreSound'
<1> SUFFICES ASSUME NEW c \in Conns PROVE WalkIsSound(c)'
  BY DEF WalksAreSound
<1>1. CASE walk'[c] = walk[c]
  <2>1. walk[c].sent \subseteq Conns
    BY DEF TableTypeOK, Walk
  <2> QED BY <1>1, <2>1 DEF WalksAreSound, WalkIsSound
<1>2. CASE walk'[c] = NoWalk
  <2>1. walk'[c].sent = {} /\ walk'[c].dead = {} /\ Cardinality(walk'[c].sent) = 0
    BY <1>2, NoWalkIsSound
  <2>2. walk'[c].size = 0
    BY <1>2 DEF NoWalk
  <2> QED BY <2>1, <2>2 DEF WalkIsSound
<1> QED BY <1>1, <1>2

(* The first message of a connection: nobody that has an entry is disturbed. *)
LEMMA NoHelloInv ==
  ASSUME TableInv, NEW c \in Conns, NoHello(c)
  PROVE  TableInv'
<1> USE DEF NoHello
<1>1. TableTypeOK'
  BY DEF TableInv, TableTypeOK, Stages
<1>2. EntriesAreServed' /\ PlayersAreListed'
  BY DEF TableInv, TableTypeOK, EntriesAreServed, PlayersAreListed, Listed
<1>3. WalksAreSound'
  BY WalksStaySound DEF TableInv, TableTypeOK
<1> QED BY <1>1, <1>2, <1>3 DEF TableInv

LEMMA RefuseInv ==
  ASSUME TableInv, NEW c \in Conns, NEW i \in Ids, Refuse(c, i)
  PROVE  TableInv'
<1> USE DEF Refuse
<1>1. TableTypeOK'
  BY DEF TableInv, TableTypeOK, Stages
<1>2. EntriesAreServed' /\ PlayersAreListed'
  BY DEF TableInv, TableTypeOK, EntriesAreServed, PlayersAreListed, Listed
<1>3. WalksAreSound'
  BY WalksStaySound DEF TableInv, TableTypeOK
<1> QED BY <1>1, <1>2, <1>3 DEF TableInv

(* A welcome adds the connection and the player together. *)
LEMMA WelcomeInv ==
  ASSUME TableInv, NEW c \in Conns, NEW i \in Ids, Welcome(c, i)
  PROVE  TableInv'
<1> USE DEF Welcome
<1>1. TableTypeOK'
  BY DEF TableInv, TableTypeOK, Stages
<1>2. Listed' = Listed \cup {i} /\ i # Host
  BY DEF TableInv, TableTypeOK, Listed
<1>3. EntriesAreServed'
  <2> SUFFICES ASSUME NEW j \in Listed'
               PROVE  who'[peers'[j]] = j /\ at'[peers'[j]] \in {"serving", "broadcasting", "ending"}
    BY DEF EntriesAreServed
  <2>1. CASE j = i
    BY <2>1 DEF TableInv, TableTypeOK
  <2>2. CASE j # i
    <3>1. j \in Listed /\ peers'[j] = peers[j] /\ peers[j] \in Conns
      BY <1>2, <2>2 DEF TableInv, TableTypeOK, Listed
    <3> QED BY <3>1 DEF TableInv, TableTypeOK, EntriesAreServed
  <2> QED BY <2>1, <2>2
<1>4. PlayersAreListed'
  BY <1>2 DEF TableInv, PlayersAreListed
<1>5. WalksAreSound'
  BY WalksStaySound DEF TableInv, TableTypeOK
<1> QED BY <1>1, <1>3, <1>4, <1>5 DEF TableInv

(* A transport that breaks, and reading that stops, leave the table alone. *)
LEMMA ReadingInv ==
  ASSUME TableInv, NEW c \in Conns, Break(c) \/ StopReading(c)
  PROVE  TableInv'
<1> USE DEF Break, StopReading
<1>1. TableTypeOK'
  BY DEF TableInv, TableTypeOK, Stages
<1>2. EntriesAreServed' /\ PlayersAreListed'
  BY DEF TableInv, TableTypeOK, EntriesAreServed, PlayersAreListed, Listed
<1>3. WalksAreSound'
  BY WalksStaySound DEF TableInv, TableTypeOK
<1> QED BY <1>1, <1>2, <1>3 DEF TableInv

(* A drop takes the same ids from the table and from the session. *)
LEMMA DropKeeps ==
  ASSUME TableTypeOK, PlayersAreListed,
         NEW ids, NEW closing \in SUBSET Conns, Drop(ids, closing)
  PROVE  /\ peers' \in [Ids -> Conns \cup {NoConn}]
         /\ players' \in SUBSET Ids
         /\ lost' \in SUBSET Conns /\ lost \subseteq lost'
         /\ Listed' = Listed \ ids
         /\ \A j \in Listed' : peers'[j] = peers[j]
         /\ PlayersAreListed'
<1> USE DEF Drop
<1>1. Listed' = Listed \ ids /\ \A j \in Listed' : peers'[j] = peers[j]
  BY DEF Listed
<1>2. /\ peers' \in [Ids -> Conns \cup {NoConn}]
      /\ players' \in SUBSET Ids
      /\ lost' \in SUBSET Conns /\ lost \subseteq lost'
  BY DEF TableTypeOK, Listed
<1> QED BY <1>1, <1>2 DEF PlayersAreListed

(* The finally block ends its handler, so whoever it speaks for must go. *)
LEMMA FinallyInv ==
  ASSUME TableInv, NEW c \in Conns, Finally(c)
  PROVE  TableInv'
<1>1. Drop({who[c]}, {c})
  BY DEF Finally
<1>2. /\ peers' \in [Ids -> Conns \cup {NoConn}]
      /\ players' \in SUBSET Ids
      /\ lost' \in SUBSET Conns /\ lost \subseteq lost'
      /\ Listed' = Listed \ {who[c]}
      /\ \A j \in Listed' : peers'[j] = peers[j]
      /\ PlayersAreListed'
  BY <1>1, DropKeeps DEF TableInv
<1>3. TableTypeOK'
  BY <1>2 DEF Finally, TableInv, TableTypeOK, Stages
<1>4. EntriesAreServed'
  BY <1>2 DEF Finally, TableInv, TableTypeOK, EntriesAreServed, Listed
<1>5. WalksAreSound'
  BY <1>2, WalksStaySound DEF Finally, TableInv, TableTypeOK
<1> QED BY <1>2, <1>3, <1>4, <1>5 DEF TableInv

(* A broadcast counts the table before it writes to anybody. *)
LEMMA BroadcastsInv ==
  ASSUME TableInv, NEW c \in Conns, Broadcasts(c)
  PROVE  TableInv'
<1> DEFINE new == [sent |-> {}, size |-> Cardinality(Listed), dead |-> {}]
<1>1. /\ at[c] = "serving" /\ at' = [at EXCEPT ![c] = "broadcasting"]
      /\ walk' = [walk EXCEPT ![c] = new]
      /\ UNCHANGED <<who, peers, players, lost>>
  <2>1. [NoWalk EXCEPT !.size = Cardinality(Listed)] = new
    BY DEF NoWalk
  <2> HIDE DEF new
  <2> QED BY <2>1 DEF Broadcasts, StartWalk
<1>2. TableTypeOK'
  <2>1. new \in Walk
    BY ListedIsFinite DEF Walk
  <2> HIDE DEF new
  <2> QED BY <1>1, <2>1 DEF TableInv, TableTypeOK, Stages
<1>3. EntriesAreServed' /\ PlayersAreListed'
  BY <1>1 DEF TableInv, TableTypeOK, EntriesAreServed, PlayersAreListed, Listed
<1>4. WalkIsSound(c)'
  <2>1. walk'[c].sent = {} /\ walk'[c].dead = {} /\ walk'[c].size = Cardinality(Listed)
    BY <1>1 DEF TableInv, TableTypeOK
  <2>2. Cardinality(walk'[c].sent) = 0
    BY <2>1, FS_EmptySet
  <2> QED BY <2>1, <2>2, ListedIsFinite DEF WalkIsSound
<1>5. WalksAreSound'
  BY <1>1, <1>4, WalksStaySound DEF TableInv, TableTypeOK
<1> QED BY <1>2, <1>3, <1>5 DEF TableInv

(* The next peer: the walk has counted on it, and if it is noted as dead,   *)
(* then because its own connection is lost.                                 *)
LEMMA WalkOnInv ==
  ASSUME TableInv, NEW c \in Conns, WalkOn(c)
  PROVE  TableInv'
<1>1. PICK i \in Unvisited(c) :
        walk' = [walk EXCEPT ![c].sent = @ \cup {peers[i]},
                             ![c].dead = IF peers[i] \in lost THEN @ \cup {i} ELSE @]
  BY DEF WalkOn
<1>2. i \in Listed /\ i \in Ids /\ peers[i] \in Conns /\ peers[i] \notin walk[c].sent
  BY DEF TableInv, TableTypeOK, Unvisited, Listed
<1>3. UNCHANGED <<at, who, peers, players, lost>> /\ ~Changed(c)
  BY DEF WalkOn
<1>4. walk[c] \in Walk /\ walk \in [Conns -> Walk]
  BY DEF TableInv, TableTypeOK
<1>5. /\ walk'[c].sent = walk[c].sent \cup {peers[i]}
      /\ walk'[c].size = walk[c].size
      /\ walk'[c].dead = IF peers[i] \in lost THEN walk[c].dead \cup {i} ELSE walk[c].dead
      /\ walk'[c] \in Walk
      /\ \A d \in Conns \ {c} : walk'[d] = walk[d]
  BY <1>1, <1>2, <1>4 DEF Walk
<1>6. TableTypeOK'
  BY <1>1, <1>3, <1>4, <1>5 DEF TableInv, TableTypeOK
<1>7. EntriesAreServed' /\ PlayersAreListed'
  BY <1>3 DEF TableInv, EntriesAreServed, PlayersAreListed, Listed
<1>8. WalkIsSound(c)'
  <2>1. Cardinality(walk'[c].sent) = Cardinality(walk[c].sent) + 1
    BY <1>2, <1>5, SentIsFinite, FS_AddElement DEF TableInv
  <2>2. Cardinality(walk[c].sent) # walk[c].size
    BY <1>3 DEF Changed, Surplus
  <2>3. Cardinality(walk'[c].sent) <= walk'[c].size
    BY <1>4, <1>5, <2>1, <2>2, SentIsFinite DEF TableInv, WalksAreSound, WalkIsSound, Walk
  <2>4. who[peers[i]] = i /\ at[peers[i]] # "waiting"
    BY <1>2 DEF TableInv, EntriesAreServed
  <2>5. \A d \in walk'[c].sent : at'[d] # "waiting"
    BY <1>3, <1>5, <2>4 DEF TableInv, WalksAreSound, WalkIsSound
  <2>6. \A j \in walk'[c].dead : \E d \in walk'[c].sent \cap lost' : who'[d] = j
    BY <1>3, <1>5, <2>4 DEF TableInv, WalksAreSound, WalkIsSound
  <2> QED BY <2>3, <2>5, <2>6 DEF WalkIsSound
<1>9. WalksAreSound'
  BY <1>3, <1>5, <1>8, WalksStaySound DEF TableInv
<1> QED BY <1>6, <1>7, <1>9 DEF TableInv

LEMMA WalkRaisesInv ==
  ASSUME TableInv, NEW c \in Conns, WalkRaises(c)
  PROVE  TableInv'
<1> USE DEF WalkRaises
<1>1. TableTypeOK'
  BY NoWalkIsSound DEF TableInv, TableTypeOK, Stages
<1>2. EntriesAreServed' /\ PlayersAreListed'
  BY DEF TableInv, TableTypeOK, EntriesAreServed, PlayersAreListed, Listed
<1>3. WalksAreSound'
  BY WalksStaySound DEF TableInv, TableTypeOK
<1> QED BY <1>1, <1>2, <1>3 DEF TableInv

LEMMA WalkEndsInv ==
  ASSUME TableInv, NEW c \in Conns, WalkEnds(c)
  PROVE  TableInv'
<1> USE DEF WalkEnds
<1>1. /\ peers' \in [Ids -> Conns \cup {NoConn}]
      /\ players' \in SUBSET Ids
      /\ lost' \in SUBSET Conns /\ lost \subseteq lost'
      /\ Listed' = Listed \ walk[c].dead
      /\ \A j \in Listed' : peers'[j] = peers[j]
      /\ PlayersAreListed'
  BY DropKeeps DEF TableInv
<1>2. TableTypeOK'
  BY <1>1, NoWalkIsSound DEF TableInv, TableTypeOK, Stages
<1>3. EntriesAreServed'
  BY <1>1 DEF TableInv, TableTypeOK, EntriesAreServed, Listed
<1>4. WalksAreSound'
  BY <1>1, WalksStaySound DEF TableInv, TableTypeOK
<1> QED BY <1>1, <1>2, <1>3, <1>4 DEF TableInv

LEMMA HandlerInv ==
  ASSUME TableInv, NEW c \in Conns, HandlerStep(c)
  PROVE  TableInv'
  BY NoHelloInv, RefuseInv, WelcomeInv, ReadingInv, FinallyInv, BroadcastsInv,
     WalkOnInv, WalkRaisesInv, WalkEndsInv DEF HandlerStep

LEMMA TableStepInv ==
  ASSUME TableInv, [\E c \in Conns : HandlerStep(c)]_tableVars
  PROVE  TableInv'
<1>1. CASE UNCHANGED tableVars
  BY <1>1 DEF tableVars, TableInv, TableTypeOK, EntriesAreServed, PlayersAreListed,
              Listed, WalksAreSound, WalkIsSound
<1> QED BY <1>1, HandlerInv

-----------------------------------------------------------------------------

(* A walk that has found nobody left to write to has written to exactly the *)
(* connections in the table, because the table has the size it counted.     *)
LEMMA WalkCoversTheTable ==
  ASSUME TableInv, NEW c \in Conns, ~Changed(c), Unvisited(c) = {}, NEW d \in walk[c].sent
  PROVE  \E j \in Listed : peers[j] = d
<1> DEFINE f == [j \in Listed |-> peers[j]]
<1>1. f \in [Listed -> walk[c].sent]
  BY DEF Unvisited
<1>2. f \in Injection(Listed, walk[c].sent)
  BY <1>1, OneEntryEach DEF Injection, IsInjective, TableInv
<1>3. /\ Cardinality(Listed) <= Cardinality(walk[c].sent)
      /\ Cardinality(Listed) = Cardinality(walk[c].sent) <=> f \in Surjection(Listed, walk[c].sent)
  BY <1>2, SentIsFinite, FS_Injection DEF TableInv
<1>4. Cardinality(walk[c].sent) <= Cardinality(Listed)
  BY DEF Changed, TableInv, WalksAreSound, WalkIsSound
<1>5. f \in Surjection(Listed, walk[c].sent)
  BY <1>3, <1>4, ListedIsFinite, SentIsFinite DEF TableInv
<1> QED BY <1>5 DEF Surjection

(* So the dead are found by the connection they have now. *)
LEMMA DeadAreLost ==
  ASSUME TableInv, NEW c \in Conns, ~Changed(c), Unvisited(c) = {},
         NEW i \in Listed, i \in walk[c].dead
  PROVE  peers[i] \in lost
<1>1. PICK d \in walk[c].sent \cap lost : who[d] = i
  BY DEF TableInv, WalksAreSound, WalkIsSound
<1>2. PICK j \in Listed : peers[j] = d
  BY WalkCoversTheTable
<1>3. j = i
  BY <1>1, <1>2 DEF TableInv, EntriesAreServed
<1> QED BY <1>1, <1>2, <1>3

(* What may happen to the entries of a table in one step. *)
EntriesStay == \A i \in Listed : peers'[i] # peers[i] =>
                  \/ peers[i] \in lost
                  \/ \E c \in Conns : at[c] = "ending" /\ who[c] = i /\ at'[c] = "ended"

LEMMA HandlersAreSafe ==
  ASSUME TableInv, NEW c \in Conns, HandlerStep(c)
  PROVE  EntriesStay
<1>1. CASE peers' = peers
  BY <1>1 DEF EntriesStay
<1>2. CASE Finally(c)
  <2>1. at[c] = "ending" /\ at'[c] = "ended"
    BY <1>2 DEF Finally, TableInv, TableTypeOK
  <2>2. \A i \in Listed : peers'[i] # peers[i] => i = who[c]
    BY <1>2 DEF Finally, Drop, Listed
  <2> QED BY <2>1, <2>2 DEF EntriesStay
<1>3. CASE WalkEnds(c)
  <2>1. ~Changed(c) /\ Unvisited(c) = {} /\ Drop(walk[c].dead, {})
    BY <1>3 DEF WalkEnds
  <2>2. \A i \in Listed : peers'[i] # peers[i] => i \in walk[c].dead
    BY <2>1 DEF Drop, Listed
  <2> QED BY <2>1, <2>2, DeadAreLost DEF EntriesStay
<1>4. CASE \E i \in Ids : Welcome(c, i)
  <2>1. PICK i \in Ids : Welcome(c, i)
    BY <1>4
  <2> QED BY <2>1 DEF Welcome, EntriesStay, Listed, TableInv, TableTypeOK
<1> QED
  BY <1>1, <1>2, <1>3, <1>4 DEF HandlerStep, NoHello, Break, StopReading, Broadcasts,
     WalkOn, WalkRaises, Refuse

-----------------------------------------------------------------------------
(* Joining *)

USE JoiningAssumption

(* Dispatch is the one step of a join that the table does not have by name: *)
(* it begins a broadcast, ends its handler, or changes nothing but messages. *)
LEMMA DispatchIsATableStep ==
  ASSUME TableTypeOK, NEW c \in Conns, Dispatch(c)
  PROVE  Broadcasts(c) \/ StopReading(c) \/ UNCHANGED tableVars
<1>1. at[c] = "serving" /\ UNCHANGED <<who, peers, players, lost>>
  BY DEF Dispatch
<1>2. CASE who[c] \in players
  BY <1>1, <1>2 DEF Dispatch, Broadcasts
<1>3. CASE who[c] \notin players
  <2>1. /\ walk' = walk
        /\ at' = [at EXCEPT ![c] = IF Head(up[c]).type = "error" THEN "ending" ELSE at[c]]
    BY <1>3 DEF Dispatch
  <2> QED BY <1>1, <2>1 DEF StopReading, tableVars, TableTypeOK
<1> QED BY <1>2, <1>3

LEMMA JoiningIsATableStep ==
  ASSUME TableTypeOK, [JoinNext]_joinVars
  PROVE  [\E c \in Conns : HandlerStep(c)]_tableVars
<1>1. CASE UNCHANGED joinVars
  BY <1>1 DEF joinVars
<1>2. ASSUME NEW c \in Conns, ConnStep(c)
      PROVE  [\E d \in Conns : HandlerStep(d)]_tableVars
  <2>1. CASE TableStep(c)
    BY <2>1 DEF TableStep, HandlerStep
  <2>2. CASE Ends(c)
    BY <2>2 DEF Ends, HandlerStep
  <2>3. CASE ClientHandles(c)
    BY <2>3 DEF ClientHandles
  <2>4. CASE Dispatch(c)
    BY <2>4, DispatchIsATableStep DEF HandlerStep
  <2>5. CASE \E i \in Ids : Joins(c, i)
    BY <2>5 DEF Joins, HandlerStep
  <2> QED BY <1>2, <2>1, <2>2, <2>3, <2>4, <2>5 DEF ConnStep
<1>3. CASE \/ \E t \in Transfers : StreamOn(t) \/ StreamFails(t) \/ \E i \in Ids : StreamSave(t, i)
           \/ HostSaves
  BY <1>3 DEF StreamOn, StreamFails, StreamSave, HostSaves
<1> QED BY <1>1, <1>2, <1>3 DEF JoinNext

LEMMA JoinInvariant == JoinSpec => []TableInv
<1>1. JoinInit => TableInv
  BY InitTableInv DEF JoinInit
<1>2. TableInv /\ [JoinNext]_joinVars => TableInv'
  BY JoiningIsATableStep, TableStepInv DEF TableInv
<1> QED BY <1>1, <1>2, PTL DEF JoinSpec

-----------------------------------------------------------------------------

(* The table has the shape of its declaration (net.py:36, session.py:23),    *)
(* and what a suspended broadcast has noted stays true of it (net.py:67).    *)
THEOREM TableTypeCorrect == JoinSpec => []TableTypeOK
<1>1. TableInv => TableTypeOK
  BY DEF TableInv
<1> QED BY <1>1, JoinInvariant, PTL

(* Nobody stays in the table whose handler has ended, whatever ended it and  *)
(* in whatever order connections with one id come and go (net.py:101-148).   *)
THEOREM NobodyIsLeftBehind == JoinSpec => []EntriesAreServed
<1>1. TableInv => EntriesAreServed
  BY DEF TableInv
<1> QED BY <1>1, JoinInvariant, PTL

(* Table and session list the same players (_handle_conn and _drop).        *)
THEOREM TableMatchesSession == JoinSpec => []PlayersAreListed
<1>1. TableInv => PlayersAreListed
  BY DEF TableInv
<1> QED BY <1>1, JoinInvariant, PTL

(* A broadcast that drops its dead by id drops nobody whose connection is    *)
(* sound, although the table may have changed under it (broadcast).          *)
THEOREM FailuresOfOthersAreHarmless == JoinSpec => OthersAreSafe
<1>1. TableInv /\ [JoinNext]_joinVars => [EntriesStay]_tableVars
  BY JoiningIsATableStep, HandlersAreSafe DEF TableInv
<1> QED BY <1>1, JoinInvariant, PTL DEF JoinSpec, OthersAreSafe, EntriesStay

(* A join, with its transfers and reports, takes the table through steps of  *)
(* its handlers only: KerMPHost's connections as net.py alone has them.      *)
THEOREM JoiningKeepsTheTable == JoinSpec => TableSpec
<1>1. JoinInit => TableInit
  BY DEF JoinInit
<1>2. TableInv /\ [JoinNext]_joinVars => [\E c \in Conns : HandlerStep(c)]_tableVars
  BY JoiningIsATableStep DEF TableInv
<1> QED BY <1>1, <1>2, JoinInvariant, PTL DEF JoinSpec, TableSpec

-----------------------------------------------------------------------------
(* The transfers.                                                          *)

ToClient == [type : {"save.manifest"}, hash : Versions]
            \cup [type : {"save.chunk"}, index : Int, data : Versions \X Int]
            \cup [type : {"save.end"}]
ToHost == [type : {"progress", "error"}]
          \cup [type : {"ack"}, hash : Versions \cup {NoSave}]

SaveTypeOK ==
    /\ ready \in [Ids -> Readiness]
    /\ up \in [Conns -> Seq(ToHost)]
    /\ down \in [Conns -> Seq(ToClient)]
    /\ receiver \in [Conns -> [hash : Versions \cup {NoSave}, next : Int]]
    /\ hostSave \in Versions
    /\ stream \in [Transfers -> Stream]
    /\ installed \in [Ids -> SUBSET Versions]
    /\ final \in [Ids -> {NoFile} \cup {Whole(v) : v \in Versions}]

(* Messages are in the connections of players only, and what a client has  *)
(* acknowledged on one of them is on its player's disk.                     *)
Addressed == \A c \in Conns : up[c] # <<>> \/ down[c] # <<>> => at[c] # "waiting" /\ who[c] \in Ids
AcksAreHonest ==
    \A c \in Conns : \A k \in 1..Len(up[c]) :
        up[c][k].type = "ack" => up[c][k].hash \in installed[who[c]] \cup {NoSave}

SaveInv == SaveTypeOK /\ Addressed /\ AcksAreHonest /\ SyncedIsInstalled

LEMMA InitSaveInv == JoinInit => SaveInv
<1> SUFFICES ASSUME JoinInit PROVE SaveInv
  OBVIOUS
<1>1. SaveTypeOK
  BY TableAssumption DEF JoinInit, SaveTypeOK, Readiness, FreshReadiness, Versions, NoSave, NoReceiver, Stream, Idle
<1>2. Addressed /\ AcksAreHonest /\ SyncedIsInstalled
  BY DEF JoinInit, Addressed, AcksAreHonest, SyncedIsInstalled, FreshReadiness
<1> QED BY <1>1, <1>2 DEF SaveInv

(* A client that installs has compared the whole file with the hash it was   *)
(* given, and acknowledges that hash and no other (SaveReceiver.finalize).  *)
LEMMA ClientOutcome ==
  ASSUME SaveTypeOK, NEW c \in Conns, ClientHandles(c)
  PROVE  \E r \in [hash : Versions \cup {NoSave}, next : Int], v \in Versions \cup {NoSave}, a \in ToHost :
           /\ receiver' = [receiver EXCEPT ![c] = r]
           /\ v # NoSave => partial[who[c]] = Whole(v)
           /\ final' = [final EXCEPT ![who[c]] = IF v = NoSave THEN @ ELSE partial[who[c]]]
           /\ installed' = [installed EXCEPT ![who[c]] = @ \cup ({v} \ {NoSave})]
           /\ a.type = "ack" => a.hash = v
           /\ up' = up \/ up' = [up EXCEPT ![c] = Append(@, a)]
           /\ down' = [down EXCEPT ![c] = Tail(@)] \/ down' = [down EXCEPT ![c] = <<>>]
<1> DEFINE m == Head(down[c])
           i == who[c]
           r == receiver[c]
           taken == [r EXCEPT !.next = @ + 1]
           opened == <<OpenReceiver(m.hash), NoFile, NoSave, Progress>>
           written == <<taken, Append(partial[i], m.data), NoSave, Progress>>
           broken == <<r, IF r = NoReceiver THEN partial[i] ELSE NoFile, NoSave, Failure>>
           complete == <<NoReceiver, NoFile, r.hash, [type |-> "ack", hash |-> r.hash]>>
           failed == <<NoReceiver, IF r = NoReceiver THEN partial[i] ELSE NoFile, NoSave, Failure>>
           next == InOrder(r, m)
           all == Complete(r, partial[i])
           outcome == CASE m.type = "save.manifest" -> opened
                        [] m.type = "save.chunk" /\ next -> written
                        [] m.type = "save.chunk" /\ ~next -> broken
                        [] m.type = "save.end" /\ all -> complete
                        [] m.type = "save.end" /\ ~all -> failed
           o1 == outcome[1]
           v == outcome[3]
           a == outcome[4]
<1>1. /\ receiver' = [receiver EXCEPT ![c] = o1]
      /\ final' = [final EXCEPT ![i] = IF v = NoSave THEN @ ELSE partial[i]]
      /\ installed' = [installed EXCEPT ![i] = @ \cup ({v} \ {NoSave})]
      /\ up' = up \/ up' = [up EXCEPT ![c] = IF c \in lost \/ at[c] = "ended" THEN @ ELSE Append(@, a)]
      /\ down' = [down EXCEPT ![c] = Tail(@)] \/ down' = [down EXCEPT ![c] = <<>>]
  BY Zenon DEF ClientHandles
<1>2. m \in ToClient /\ r \in [hash : Versions \cup {NoSave}, next : Int]
  <2>1. down[c] # <<>>
    BY Zenon DEF ClientHandles
  <2> QED BY <2>1 DEF SaveTypeOK
<1>3. /\ o1 \in [hash : Versions \cup {NoSave}, next : Int]
      /\ v \in Versions \cup {NoSave}
      /\ a \in ToHost
      /\ v # NoSave => partial[i] = Whole(v)
      /\ a.type = "ack" => a.hash = v
  <2> HIDE DEF m, i, r, taken, next, all, opened, written, broken, complete, failed
  <2>1. CASE m.type = "save.manifest"
    <3>1. outcome = opened
      BY <2>1
    <3>2. m.hash \in Versions
      BY <1>2, <2>1 DEF ToClient
    <3> HIDE DEF outcome
    <3> QED BY <3>1, <3>2 DEF opened, OpenReceiver, Progress, ToHost
  <2>2. CASE m.type = "save.chunk" /\ next
    <3>1. outcome = written
      BY <2>2
    <3>2. taken \in [hash : Versions \cup {NoSave}, next : Int]
      BY <1>2 DEF taken
    <3> HIDE DEF outcome
    <3> QED BY <3>1, <3>2 DEF written, Progress, ToHost
  <2>3. CASE m.type = "save.chunk" /\ ~next
    <3>1. outcome = broken
      BY <2>3
    <3> HIDE DEF outcome
    <3> QED BY <1>2, <3>1 DEF broken, Failure, ToHost
  <2>4. CASE m.type = "save.end" /\ all
    <3>1. outcome = complete
      BY <2>4
    <3>2. partial[i] = Whole(r.hash)
      BY <2>4 DEF all, Complete
    <3> HIDE DEF outcome
    <3> QED BY <1>2, <3>1, <3>2 DEF complete, NoReceiver, ToHost
  <2>5. CASE m.type = "save.end" /\ ~all
    <3>1. outcome = failed
      BY <2>5
    <3> HIDE DEF outcome
    <3> QED BY <3>1 DEF failed, NoReceiver, Failure, ToHost
  <2>6. m.type \in {"save.manifest", "save.chunk", "save.end"}
    BY <1>2 DEF ToClient
  <2> QED BY <2>1, <2>2, <2>3, <2>4, <2>5, <2>6
<1> HIDE DEF o1, v, a, outcome
<1>4. up' = up \/ up' = [up EXCEPT ![c] = Append(@, a)]
  <2>1. CASE up' = [up EXCEPT ![c] = IF c \in lost \/ at[c] = "ended" THEN @ ELSE Append(@, a)]
    BY <2>1 DEF SaveTypeOK
  <2> QED BY <1>1, <2>1
<1> QED BY <1>1, <1>3, <1>4

(* Who a connection speaks for is settled once it has said so. *)
IdentityStays == \A d \in Conns : at[d] # "waiting" => at'[d] # "waiting" /\ who'[d] = who[d]

LEMMA HandlersKeepIdentity ==
  ASSUME TableTypeOK, [\E c \in Conns : HandlerStep(c)]_tableVars
  PROVE  IdentityStays
<1>1. CASE UNCHANGED tableVars
  BY <1>1 DEF tableVars, IdentityStays
<1>2. ASSUME NEW c \in Conns, HandlerStep(c)
      PROVE  IdentityStays
  BY <1>2, ZenonT(60) DEF HandlerStep, NoHello, Break, StopReading, Finally, Broadcasts, StartWalk, WalkOn,
              WalkRaises, WalkEnds, Refuse, Welcome, IdentityStays, TableTypeOK
<1> QED BY <1>1, <1>2

(* What may happen to a connection to the host: it is emptied, its first    *)
(* message is taken, or an honest one is added.                             *)
UpGoesOn(c) ==
    \/ up'[c] = up[c]
    \/ up'[c] = <<>>
    \/ up[c] # <<>> /\ up'[c] = Tail(up[c])
    \/ /\ at[c] # "waiting" /\ who[c] \in Ids
       /\ \E a \in ToHost : /\ up'[c] = Append(up[c], a)
                            /\ a.type = "ack" => a.hash \in installed'[who[c]] \cup {NoSave}

LEMMA MessagesStayHonest ==
  ASSUME SaveInv, SaveTypeOK', IdentityStays,
         \A i \in Ids : installed[i] \subseteq installed'[i],
         \A c \in Conns : UpGoesOn(c),
         \A c \in Conns : down'[c] # <<>> => down[c] # <<>> \/ (at[c] # "waiting" /\ who[c] \in Ids)
  PROVE  Addressed' /\ AcksAreHonest'
<1>1. ASSUME NEW c \in Conns, up'[c] # <<>> \/ down'[c] # <<>>
      PROVE  at[c] # "waiting" /\ who[c] \in Ids /\ at'[c] # "waiting" /\ who'[c] = who[c]
  <2>1. at[c] # "waiting" /\ who[c] \in Ids
    BY <1>1 DEF UpGoesOn, SaveInv, Addressed
  <2> QED BY <2>1 DEF IdentityStays
<1>2. Addressed'
  BY <1>1 DEF Addressed
<1>3. ASSUME NEW c \in Conns, NEW k \in 1..Len(up'[c]), up'[c][k].type = "ack"
      PROVE  up'[c][k].hash \in installed'[who'[c]] \cup {NoSave}
  <2>1. up[c] \in Seq(ToHost) /\ up'[c] \in Seq(ToHost) /\ up'[c] # <<>>
    BY <1>3 DEF SaveInv, SaveTypeOK
  <2>2. who'[c] = who[c] /\ installed[who[c]] \subseteq installed'[who[c]]
    BY <1>1, <2>1
  <2>3. \A j \in 1..Len(up[c]) :
           up[c][j].type = "ack" => up[c][j].hash \in installed'[who[c]] \cup {NoSave}
    BY <2>2 DEF SaveInv, AcksAreHonest
  <2>4. CASE up'[c] = up[c]
    BY <1>3, <2>2, <2>3, <2>4
  <2>5. CASE up[c] # <<>> /\ up'[c] = Tail(up[c])
    <3>1. k + 1 \in 1..Len(up[c]) /\ up'[c][k] = up[c][k + 1]
      BY <1>3, <2>1, <2>5
    <3> QED BY <1>3, <2>2, <2>3, <3>1
  <2>6. ASSUME NEW a \in ToHost, up'[c] = Append(up[c], a),
               a.type = "ack" => a.hash \in installed'[who[c]] \cup {NoSave}
        PROVE  up'[c][k].hash \in installed'[who'[c]] \cup {NoSave}
    <3>1. CASE k \in 1..Len(up[c])
      <4>1. up'[c][k] = up[c][k]
        BY <2>1, <2>6, <3>1
      <4> QED BY <1>3, <2>2, <2>3, <3>1, <4>1
    <3>2. CASE k \notin 1..Len(up[c])
      <4>1. up'[c][k] = a
        BY <1>3, <2>1, <2>6, <3>2
      <4> QED BY <1>3, <2>2, <2>6, <4>1
    <3> QED BY <3>1, <3>2
  <2> QED BY <2>1, <2>4, <2>5, <2>6 DEF UpGoesOn
<1> QED BY <1>2, <1>3 DEF AcksAreHonest

(* The table's own steps, and the end of a handler, which nobody reads for. *)
LEMMA TableStepSaves ==
  ASSUME SaveInv, IdentityStays, NEW c \in Conns, TableStep(c) \/ Ends(c)
  PROVE  SaveInv'
<1>1. up' = up \/ up' = [up EXCEPT ![c] = <<>>]
  BY DEF TableStep, Ends
<1>2. UNCHANGED <<ready, down, saveVars>>
  BY DEF TableStep, Ends
<1>3. SaveTypeOK'
  <2>1. up' \in [Conns -> Seq(ToHost)]
    <3>1. up \in [Conns -> Seq(ToHost)] /\ <<>> \in Seq(ToHost)
      BY DEF SaveInv, SaveTypeOK
    <3> QED BY <1>1, <3>1
  <2> QED BY <1>2, <2>1 DEF SaveInv, SaveTypeOK, saveVars
<1>4. Addressed' /\ AcksAreHonest'
  <2>1. \A d \in Conns : UpGoesOn(d)
    BY <1>1 DEF UpGoesOn, SaveInv, SaveTypeOK
  <2> QED BY <1>2, <1>3, <2>1, MessagesStayHonest DEF saveVars
<1> QED BY <1>2, <1>3, <1>4 DEF SaveInv, SyncedIsInstalled, saveVars

(* A player who joins starts without a save, whatever it had before. *)
LEMMA JoinsSaves ==
  ASSUME SaveInv, IdentityStays, NEW c \in Conns, NEW i \in Ids, Joins(c, i)
  PROVE  SaveInv'
<1>1. ready' = [ready EXCEPT ![i] = FreshReadiness] /\ UNCHANGED <<up, down, saveVars>>
  BY DEF Joins
<1>2. SaveTypeOK' /\ FreshReadiness.hash = NoSave
  BY <1>1 DEF SaveInv, SaveTypeOK, saveVars, FreshReadiness, Readiness
<1>3. Addressed' /\ AcksAreHonest'
  BY <1>1, <1>2, MessagesStayHonest DEF UpGoesOn, saveVars
<1>4. SyncedIsInstalled'
  BY <1>1, <1>2 DEF SaveInv, SyncedIsInstalled, SaveTypeOK, saveVars
<1> QED BY <1>2, <1>3, <1>4 DEF SaveInv

(* What the host sends goes to a connection that is in the table. *)
LEMMA SendingSaves ==
  ASSUME SaveInv, TableInv, NEW i \in Ids, NEW m \in ToClient, Reachable(i), SendTo(i, m),
         stream' \in [Transfers -> Stream],
         UNCHANGED <<tableVars, ready, up, receiver, partial, final, hostSave, installed>>
  PROVE  SaveInv'
<1>1. peers[i] \in Conns /\ at[peers[i]] # "waiting" /\ who[peers[i]] \in Ids
  BY DEF Reachable, Listed, TableInv, TableTypeOK, EntriesAreServed
<1>2. down' = [down EXCEPT ![peers[i]] = Append(@, m)]
  BY DEF SendTo
<1>3. SaveTypeOK'
  BY <1>1, <1>2 DEF SaveInv, SaveTypeOK
<1>4. Addressed' /\ AcksAreHonest'
  BY <1>1, <1>2, <1>3, MessagesStayHonest DEF UpGoesOn, tableVars, IdentityStays, SaveInv, SaveTypeOK
<1> QED BY <1>3, <1>4 DEF SaveInv, SyncedIsInstalled

LEMMA TransferSaves ==
  ASSUME SaveInv, TableInv, NEW t \in Transfers,
         StreamOn(t) \/ StreamFails(t) \/ \E i \in Ids : StreamSave(t, i)
  PROVE  SaveInv'
<1>1. CASE StreamFails(t)
  <2>1. [Idle EXCEPT !.next = Chunks + 2] \in Stream
    BY TableAssumption DEF Idle, Stream
  <2>2. stream' \in [Transfers -> Stream] /\ UNCHANGED <<tableVars, ready, up, down, receiver, partial, final, hostSave, installed>>
    BY <1>1, <2>1 DEF StreamFails, SaveInv, SaveTypeOK
  <2>3. SaveTypeOK' /\ SyncedIsInstalled'
    BY <2>2 DEF SaveInv, SaveTypeOK, SyncedIsInstalled
  <2> QED BY <2>2, <2>3 DEF SaveInv, Addressed, AcksAreHonest, tableVars
<1>2. ASSUME NEW i \in Ids, StreamSave(t, i)
      PROVE  SaveInv'
  <2>1. [to |-> i, version |-> hostSave, next |-> 1] \in Stream
    BY DEF Stream, SaveInv, SaveTypeOK
  <2>2. stream' \in [Transfers -> Stream]
    BY <1>2, <2>1 DEF StreamSave, SaveInv, SaveTypeOK
  <2>3. [type |-> "save.manifest", hash |-> hostSave] \in ToClient
    BY DEF ToClient, SaveInv, SaveTypeOK
  <2> QED BY <1>2, <2>2, <2>3, SendingSaves DEF StreamSave
<1>3. CASE StreamOn(t)
  <2> DEFINE s == stream[t]
             m == IF s.next <= Chunks
                  THEN [type |-> "save.chunk", index |-> s.next - 1, data |-> <<hostSave, s.next - 1>>]
                  ELSE [type |-> "save.end"]
             after == IF s.next <= Chunks THEN [s EXCEPT !.next = @ + 1] ELSE [Idle EXCEPT !.next = Chunks + 2]
  <2>1. /\ s.next \in 1..(Chunks + 1) /\ Reachable(s.to)
        /\ stream' = [stream EXCEPT ![t] = after]
        /\ SendTo(s.to, m)
        /\ UNCHANGED <<tableVars, ready, up, receiver, partial, final, hostSave, installed>>
    BY <1>3 DEF StreamOn
  <2>2. s \in Stream
    BY DEF SaveInv, SaveTypeOK
  <2>3. after \in Stream
    <3>1. CASE s.next <= Chunks
      BY <2>1, <2>2, <3>1 DEF Stream
    <3>2. CASE ~(s.next <= Chunks)
      BY <3>2, TableAssumption DEF Idle, Stream
    <3> QED BY <3>1, <3>2
  <2>4. m \in ToClient
    <3>1. CASE s.next <= Chunks
      BY <2>1, <2>2, <3>1 DEF ToClient, SaveInv, SaveTypeOK, Stream
    <3>2. CASE ~(s.next <= Chunks)
      BY <3>2 DEF ToClient
    <3> QED BY <3>1, <3>2
  <2>5. s.to \in Ids
    BY <2>2 DEF Stream
  <2> HIDE DEF s, m, after
  <2>6. stream' \in [Transfers -> Stream]
    BY <2>1, <2>3 DEF SaveInv, SaveTypeOK
  <2> QED BY <2>1, <2>4, <2>5, <2>6, SendingSaves
<1> QED BY <1>1, <1>2, <1>3

LEMMA HostSavesSaves ==
  ASSUME SaveInv, HostSaves
  PROVE  SaveInv'
<1>1. UNCHANGED <<tableVars, ready, up, down, receiver, partial, final, stream, installed>> /\ hostSave' \in Versions
  BY DEF HostSaves, SaveInv, SaveTypeOK, Versions
<1>2. SaveTypeOK' /\ SyncedIsInstalled'
  BY <1>1 DEF SaveInv, SaveTypeOK, SyncedIsInstalled
<1> QED BY <1>1, <1>2 DEF SaveInv, Addressed, AcksAreHonest, tableVars

(* A file is installed and acknowledged in one step. *)
LEMMA ClientSaves ==
  ASSUME SaveInv, NEW c \in Conns, ClientHandles(c)
  PROVE  SaveInv'
<1>1. PICK r \in [hash : Versions \cup {NoSave}, next : Int], v \in Versions \cup {NoSave}, a \in ToHost :
           /\ receiver' = [receiver EXCEPT ![c] = r]
           /\ v # NoSave => partial[who[c]] = Whole(v)
           /\ final' = [final EXCEPT ![who[c]] = IF v = NoSave THEN @ ELSE partial[who[c]]]
           /\ installed' = [installed EXCEPT ![who[c]] = @ \cup ({v} \ {NoSave})]
           /\ a.type = "ack" => a.hash = v
           /\ up' = up \/ up' = [up EXCEPT ![c] = Append(@, a)]
           /\ down' = [down EXCEPT ![c] = Tail(@)] \/ down' = [down EXCEPT ![c] = <<>>]
  BY ClientOutcome DEF SaveInv
<1>2. down[c] # <<>> /\ UNCHANGED <<tableVars, ready, hostSave, stream>>
  BY Zenon DEF ClientHandles
<1>3. at[c] # "waiting" /\ who[c] \in Ids
  BY <1>2 DEF SaveInv, Addressed
<1>4. final' \in [Ids -> {NoFile} \cup {Whole(w) : w \in Versions}]
  <2>1. (IF v = NoSave THEN final[who[c]] ELSE partial[who[c]]) \in {NoFile} \cup {Whole(w) : w \in Versions}
    BY <1>1, <1>3 DEF SaveInv, SaveTypeOK
  <2> QED BY <1>1, <1>3, <2>1 DEF SaveInv, SaveTypeOK
<1>5. installed' \in [Ids -> SUBSET Versions] /\ \A i \in Ids : installed[i] \subseteq installed'[i]
  BY <1>1, <1>3 DEF SaveInv, SaveTypeOK
<1>6. SaveTypeOK'
  <2>1. up' \in [Conns -> Seq(ToHost)]
    <3>1. up \in [Conns -> Seq(ToHost)] /\ Append(up[c], a) \in Seq(ToHost)
      BY DEF SaveInv, SaveTypeOK
    <3>2. up' = up \/ up' = [up EXCEPT ![c] = Append(@, a)]
      BY <1>1
    <3> QED BY <3>1, <3>2
  <2>2. down' \in [Conns -> Seq(ToClient)]
    <3>1. /\ down \in [Conns -> Seq(ToClient)]
          /\ Tail(down[c]) \in Seq(ToClient) /\ <<>> \in Seq(ToClient)
      BY <1>2 DEF SaveInv, SaveTypeOK
    <3>2. down' = [down EXCEPT ![c] = Tail(@)] \/ down' = [down EXCEPT ![c] = <<>>]
      BY <1>1
    <3> QED BY <3>1, <3>2
  <2>3. receiver' \in [Conns -> [hash : Versions \cup {NoSave}, next : Int]]
    BY <1>1 DEF SaveInv, SaveTypeOK
  <2> QED BY <1>2, <1>4, <1>5, <2>1, <2>2, <2>3 DEF SaveInv, SaveTypeOK
<1>7. a.type = "ack" => a.hash \in installed'[who[c]] \cup {NoSave}
  BY <1>1, <1>3 DEF SaveInv, SaveTypeOK
<1>8. \A d \in Conns : UpGoesOn(d)
  BY <1>1, <1>3, <1>7, ZenonT(60) DEF UpGoesOn, SaveInv, SaveTypeOK
<1>9. \A d \in Conns : down'[d] # <<>> => down[d] # <<>> \/ (at[d] # "waiting" /\ who[d] \in Ids)
  BY <1>1, <1>3 DEF SaveInv, SaveTypeOK
<1>10. Addressed' /\ AcksAreHonest'
  BY <1>2, <1>5, <1>6, <1>8, <1>9, MessagesStayHonest DEF IdentityStays, tableVars
<1>11. SyncedIsInstalled'
  BY <1>2, <1>5 DEF SaveInv, SyncedIsInstalled
<1> QED BY <1>6, <1>10, <1>11 DEF SaveInv

(* The host notes the hash that the player of this connection acknowledged. *)
LEMMA DispatchSaves ==
  ASSUME SaveInv, IdentityStays, NEW c \in Conns, Dispatch(c)
  PROVE  SaveInv'
<1> DEFINE m == Head(up[c])
           r == ready[who[c]]
           u == Updated(r, m)
<1>1. /\ up[c] # <<>> /\ up' = [up EXCEPT ![c] = Tail(@)] /\ UNCHANGED <<down, saveVars>>
      /\ ready' = ready \/ ready' = [ready EXCEPT ![who[c]] = u]
  BY DEF Dispatch
<1>2. who[c] \in Ids /\ m \in ToHost /\ m = up[c][1] /\ 1 \in 1..Len(up[c])
  BY <1>1 DEF SaveInv, SaveTypeOK, Addressed
<1>3. m.type = "ack" => m.hash \in installed[who[c]] \cup {NoSave}
  BY <1>2 DEF SaveInv, AcksAreHonest
<1>4. r \in Readiness /\ ready \in [Ids -> Readiness]
  BY <1>2 DEF SaveInv, SaveTypeOK
<1>5. u \in Readiness /\ (u.hash = r.hash \/ (m.type = "ack" /\ u.hash = m.hash))
  <2> HIDE DEF m, r
  <2>1. CASE m.type = "progress"
    BY <1>4, <2>1 DEF Updated
  <2>2. CASE m.type = "ack"
    <3>1. u = [r EXCEPT !.hash = m.hash] /\ m.hash \in Versions \cup {NoSave}
      BY <1>2, <2>2 DEF Updated, ToHost
    <3> HIDE DEF u
    <3> QED BY <1>4, <2>2, <3>1 DEF Readiness
  <2>3. CASE m.type = "error"
    <3>1. u = [r EXCEPT !.error = TRUE]
      BY <2>3 DEF Updated
    <3> HIDE DEF u
    <3> QED BY <1>4, <3>1 DEF Readiness
  <2> QED BY <1>2, <2>1, <2>2, <2>3 DEF ToHost
<1> HIDE DEF m, u
<1>6. SaveTypeOK'
  <2>1. ready' \in [Ids -> Readiness]
    BY <1>1, <1>4, <1>5
  <2>2. up' \in [Conns -> Seq(ToHost)]
    BY <1>1 DEF SaveInv, SaveTypeOK
  <2> QED BY <1>1, <2>1, <2>2 DEF SaveInv, SaveTypeOK, saveVars
<1>7. Addressed' /\ AcksAreHonest'
  <2>1. \A d \in Conns : UpGoesOn(d)
    BY <1>1 DEF UpGoesOn, SaveInv, SaveTypeOK
  <2> QED BY <1>1, <1>6, <2>1, MessagesStayHonest DEF saveVars
<1>8. SyncedIsInstalled'
  <2>1. installed' = installed /\ \A i \in Ids : ready[i].hash # NoSave => ready[i].hash \in installed[i]
    BY <1>1 DEF SaveInv, SyncedIsInstalled, saveVars
  <2>2. CASE ready' = ready
    BY <2>1, <2>2 DEF SyncedIsInstalled
  <2>3. CASE ready' = [ready EXCEPT ![who[c]] = u]
    <3>1. ready'[who[c]] = u /\ \A i \in Ids \ {who[c]} : ready'[i] = ready[i]
      BY <1>2, <1>4, <2>3
    <3>2. u.hash # NoSave => u.hash \in installed[who[c]]
      BY <1>2, <1>3, <1>5, <2>1
    <3> QED BY <2>1, <3>1, <3>2 DEF SyncedIsInstalled
  <2> QED BY <1>1, <2>2, <2>3
<1> QED BY <1>6, <1>7, <1>8 DEF SaveInv

LEMMA JoinStepSaves ==
  ASSUME SaveInv, TableInv, [JoinNext]_joinVars
  PROVE  SaveInv'
<1>1. IdentityStays
  BY JoiningIsATableStep, HandlersKeepIdentity DEF TableInv
<1>2. CASE UNCHANGED joinVars
  <2>1. SaveTypeOK' /\ SyncedIsInstalled'
    BY <1>2 DEF joinVars, saveVars, SaveInv, SaveTypeOK, SyncedIsInstalled
  <2> QED BY <1>2, <2>1 DEF joinVars, tableVars, saveVars, SaveInv, Addressed, AcksAreHonest
<1>3. ASSUME NEW c \in Conns, ConnStep(c)
      PROVE  SaveInv'
  BY <1>1, <1>3, TableStepSaves, JoinsSaves, ClientSaves, DispatchSaves DEF ConnStep
<1>4. CASE \E t \in Transfers : StreamOn(t) \/ StreamFails(t) \/ \E i \in Ids : StreamSave(t, i)
  BY <1>4, TransferSaves
<1> QED BY <1>2, <1>3, <1>4, HostSavesSaves DEF JoinNext

LEMMA SaveInvariant == JoinSpec => []SaveInv
<1>1. TableInv /\ SaveInv /\ [JoinNext]_joinVars => SaveInv'
  BY JoinStepSaves
<1> QED BY <1>1, InitSaveInv, JoinInvariant, PTL DEF JoinSpec

(* The slot on a player's disk is one whole version of the host's save, for  *)
(* any size of save and any number of transfers and writes (finalize).      *)
THEOREM SlotsAreWhole == JoinSpec => []SlotIsWhole
<1>1. SaveInv => SlotIsWhole
  BY DEF SaveInv, SaveTypeOK, SlotIsWhole
<1> QED BY <1>1, SaveInvariant, PTL

(* The host takes a player for synced with nothing its disk has never had    *)
(* (the SAVE_ACK branch of _dispatch).                                      *)
THEOREM SyncedHasTheSave == JoinSpec => []SyncedIsInstalled
<1>1. SaveInv => SyncedIsInstalled
  BY DEF SaveInv
<1> QED BY <1>1, SaveInvariant, PTL

===============================================================================
