-------------------------- MODULE Interactions_proofs --------------------------
(***************************************************************************)
(* Proofs about Sims and interactions, for any number of players, Sims,     *)
(* requests and interactions, whatever is loaded where.                     *)
(***************************************************************************)
EXTENDS Interactions, SequenceTheorems, TLAPS

USE SelectionAssumption, InteractionsAssumption

(* What is on the way from a game to the session. *)
Rosters == [type : {"sims.state"}, sims : SUBSET Sims, sim : SomeSim]
Picks == [type : {"sim.select"}, sim : Sims]
Questions == [type : {"ask"}, kind : Kinds, r : Requests, sim : SomeSim, iid : Work \cup {NoWork}]
Cancellations == [type : {"cancel"}, r : Requests \cup {NoRequest}, sim : SomeSim, iid : Work]
Reported == [type : {"report"}, what : {"rejected", "queued", "started", "finished"},
             r : Requests \cup {NoRequest}, iid : Work \cup {NoWork}]
UpMsg == Rosters \cup Picks \cup Questions \cup Cancellations \cup Reported

(* What is on the way to the host's game, and what its reader is doing. *)
Orders == [kind : Kinds, r : Requests, player : Players, sim : Sims, iid : Work \cup {NoWork}]
Recalls == [kind : {"cancel"}, r : Requests \cup {NoRequest}, player : Players, sim : SomeSim, iid : Work]
GameMsg == Orders \cup Recalls
Acts == [at : {"acting"}, m : Orders, before : SUBSET Work]
Reporting == [at : {"reporting"}, m : Orders, before : SUBSET Work, made : Work]

InteractionShape ==
    /\ SelectionTypeOK
    /\ up \in [Players -> Seq(UpMsg)]
    /\ req \in [Requests -> [status : Statuses, kind : Kinds \cup {"none"}, player : Players,
                             sim : SomeSim, iid : Work \cup {NoWork}]]
    /\ pending \in [Players -> Seq(GameMsg)] /\ todo \in Seq(GameMsg)
    /\ known \in [Players -> [SomeSim -> Requests \cup {NoRequest}]]
    /\ used \subseteq Requests
    /\ reader \in {Idle} \cup Acts \cup Reporting
    /\ current \in Requests \cup {NoRequest}
    /\ clientSim \in [Players -> SomeSim]
    /\ registered \in [Work -> Requests \cup {NoRequest}]
    /\ work \in Seq([sim : Sims, by : Requests \cup {NoRequest}, stage : {"queued", "running", "gone"}])
    /\ Len(work) <= MaxWork
    /\ reader = Idle => current = NoRequest

(* The Sim a player has, and the one it gets back, are of those the session  *)
(* let it have.                                                             *)
SimsWereHad ==
    \A p \in Players : {active[p], saved[p]} \ {NoSim} \subseteq had[p]

(* By the requests rs and the Sims hs that players had, r was accepted for a *)
(* Sim its player had, and has kept what it was accepted for.                *)
Granted(rs, hs, r, kind, sim) ==
    /\ rs[r].kind = kind /\ rs[r].sim = sim
    /\ sim \in hs[rs[r].player]

(* An order, wherever it is between the session and the host's game, is what *)
(* was accepted.                                                            *)
IsGranted(rs, hs, m) == m.kind \in Kinds => Granted(rs, hs, m.r, m.kind, m.sim)
OrdersAreGranted ==
    /\ \A p \in Players : \A k \in 1..Len(pending[p]) : IsGranted(req, had, pending[p][k])
    /\ \A k \in 1..Len(todo) : IsGranted(req, had, todo[k])
    /\ reader # Idle => IsGranted(req, had, reader.m)

(* The Client a command acts through stands for the Sim of the command, as   *)
(* long as the command lasts.                                               *)
ClientFits ==
    reader.at = "acting" /\ reader.m.kind # "request" => clientSim[reader.m.player] = reader.m.sim

(* Work done for a request is done to its Sim. *)
WorkIsGranted ==
    \A i \in 1..Len(work) : LET r == work[i].by IN
        r # NoRequest => req[r].kind \in Kinds /\ Granted(req, had, r, req[r].kind, work[i].sim)

(* Only what makes interactions is ever reported as queued or started. *)
Truthful(rs, m) ==
    m.type = "report" /\ m.what \in {"queued", "started"} /\ m.r # NoRequest => rs[m.r].kind \in Reportable
ReportsAreTruthful == \A p \in Players : \A k \in 1..Len(up[p]) : Truthful(req, up[p][k])

InteractionInv ==
    /\ InteractionShape /\ SimsWereHad /\ ControllersAreHere
    /\ OrdersAreGranted /\ ClientFits /\ WorkIsGranted /\ ReportsAreTruthful /\ MenusNeverStart

-----------------------------------------------------------------------------
(* Messages, and channels of them. *)

LEMMA MessageKinds ==
  /\ \A sims \in SUBSET Sims, sim \in SomeSim : RosterMsg(sims, sim) \in UpMsg
  /\ \A sim \in Sims : SelectMsg(sim) \in UpMsg
  /\ \A kind \in Kinds, r \in Requests, sim \in SomeSim, iid \in Work \cup {NoWork} :
       Ask(kind, r, sim, iid) \in UpMsg
  /\ \A r \in Requests \cup {NoRequest}, sim \in SomeSim, iid \in Work : Cancel(r, sim, iid) \in UpMsg
  /\ \A what \in {"rejected", "queued", "started", "finished"}, r \in Requests \cup {NoRequest},
        iid \in Work \cup {NoWork} : Report(what, r, iid) \in UpMsg
BY DEF RosterMsg, SelectMsg, Ask, Cancel, Report, UpMsg, Rosters, Picks, Questions, Cancellations, Reported

LEMMA OnlyReportsCount ==
  /\ \A rs, sims, sim : Truthful(rs, RosterMsg(sims, sim))
  /\ \A rs, sim : Truthful(rs, SelectMsg(sim))
  /\ \A rs, kind, r, sim, iid : Truthful(rs, Ask(kind, r, sim, iid))
  /\ \A rs, r, sim, iid : Truthful(rs, Cancel(r, sim, iid))
  /\ \A what \in {"rejected", "finished"} : \A rs, r, iid : Truthful(rs, Report(what, r, iid))
BY DEF Truthful, RosterMsg, SelectMsg, Ask, Cancel, Report

(* What was granted stays so, whatever becomes of the request. *)
GrantsLast ==
    /\ \A r \in Requests : req[r].kind \in Kinds =>
          req'[r].kind = req[r].kind /\ req'[r].sim = req[r].sim /\ req'[r].player = req[r].player
    /\ \A p \in Players : had[p] \subseteq had'[p]

LEMMA GrantedStays ==
  ASSUME InteractionShape, GrantsLast, NEW r \in Requests, NEW kind \in Kinds, NEW sim, Granted(req, had, r, kind, sim)
  PROVE  Granted(req', had', r, kind, sim)
<1>1. req[r].player \in Players
  BY DEF InteractionShape
<1> QED BY <1>1 DEF GrantsLast, Granted

LEMMA OrderStaysGranted ==
  ASSUME InteractionShape, GrantsLast, NEW m \in GameMsg, IsGranted(req, had, m)
  PROVE  IsGranted(req', had', m)
<1> SUFFICES ASSUME m.kind \in Kinds PROVE Granted(req', had', m.r, m.kind, m.sim)
  BY DEF IsGranted
<1>1. m.r \in Requests
  BY DEF GameMsg, Orders, Recalls, Kinds
<1> QED BY <1>1, GrantedStays DEF IsGranted

LEMMA TruthStays ==
  ASSUME InteractionShape, GrantsLast, NEW m \in UpMsg, Truthful(req, m)
  PROVE  Truthful(req', m)
<1> SUFFICES ASSUME m.type = "report", m.what \in {"queued", "started"}, m.r # NoRequest
             PROVE  req'[m.r].kind \in Reportable
  BY DEF Truthful
<1>1. m.r \in Requests
  BY DEF UpMsg, Rosters, Picks, Questions, Cancellations, Reported
<1>2. req[m.r].kind \in Kinds
  BY DEF Truthful, Reportable, Kinds
<1> QED BY <1>1, <1>2 DEF Truthful, GrantsLast

(* A channel to the session is left alone, loses its first message, is       *)
(* emptied, or gets more of which every report is true.                      *)
Extends(p, ms) == up' = [up EXCEPT ![p] = @ \o ms]
Shrinks(p) == up' = up \/ up' = [up EXCEPT ![p] = <<>>] \/ (up[p] # <<>> /\ up' = [up EXCEPT ![p] = Tail(@)])

LEMMA ChannelsStayTruthful ==
  ASSUME InteractionShape, ReportsAreTruthful, GrantsLast, NEW p \in Players, Shrinks(p)
  PROVE  up' \in [Players -> Seq(UpMsg)] /\ ReportsAreTruthful'
<1>0. up \in [Players -> Seq(UpMsg)]
  BY DEF InteractionShape
<1>1. \A q \in Players : up[q] \in Seq(UpMsg)
  BY <1>0
<1>2. up' \in [Players -> Seq(UpMsg)]
  <2>1. up[p] # <<>> => Tail(up[p]) \in Seq(UpMsg)
    BY <1>1, HeadTailProperties
  <2>2. <<>> \in Seq(UpMsg)
    OBVIOUS
  <2>3. \A c \in Seq(UpMsg) : [up EXCEPT ![p] = c] \in [Players -> Seq(UpMsg)]
    BY <1>0
  <2> QED BY <1>0, <2>1, <2>2, <2>3 DEF Shrinks
<1>3. ASSUME NEW q \in Players, NEW k \in 1..Len(up'[q])
      PROVE  \E j \in 1..Len(up[q]) : up'[q][k] = up[q][j]
  <2>1. CASE up'[q] = up[q]
    BY <1>3, <2>1
  <2>2. CASE up'[q] = <<>>
    BY <1>3, <2>2
  <2>3. CASE up[q] # <<>> /\ up'[q] = Tail(up[q])
    <3>1. k + 1 \in 1..Len(up[q]) /\ up'[q][k] = up[q][k + 1]
      BY <1>1, <1>3, <2>3, HeadTailProperties
    <3> QED BY <3>1
  <2>4. up'[q] = up[q] \/ up'[q] = <<>> \/ (up[q] # <<>> /\ up'[q] = Tail(up[q]))
    BY DEF Shrinks, InteractionShape
  <2> QED BY <2>1, <2>2, <2>3, <2>4
<1>4. ASSUME NEW q \in Players, NEW k \in 1..Len(up'[q])
      PROVE  Truthful(req', up'[q][k])
  <2>1. PICK j \in 1..Len(up[q]) : up'[q][k] = up[q][j]
    BY <1>3
  <2>2. up[q][j] \in UpMsg
    BY <1>1, <2>1, ElementOfSeq
  <2>3. Truthful(req', up[q][j])
    BY <2>2, TruthStays DEF ReportsAreTruthful
  <2> QED BY <2>1, <2>3 DEF Truthful
<1> QED BY <1>2, <1>4 DEF ReportsAreTruthful

LEMMA MoreStaysTruthful ==
  ASSUME InteractionShape, ReportsAreTruthful, GrantsLast, NEW p \in Players,
         NEW ms \in Seq(UpMsg), \A k \in 1..Len(ms) : Truthful(req', ms[k]), Extends(p, ms)
  PROVE  up' \in [Players -> Seq(UpMsg)] /\ ReportsAreTruthful'
<1>1. \A q \in Players : up[q] \in Seq(UpMsg)
  BY DEF InteractionShape
<1>2. /\ up[p] \o ms \in Seq(UpMsg) /\ Len(up[p] \o ms) = Len(up[p]) + Len(ms)
      /\ \A i \in 1..Len(up[p]) + Len(ms) :
           (up[p] \o ms)[i] = IF i <= Len(up[p]) THEN up[p][i] ELSE ms[i - Len(up[p])]
  BY <1>1, ConcatProperties
<1>3. up' \in [Players -> Seq(UpMsg)]
  BY <1>2 DEF Extends, InteractionShape
<1>4. ASSUME NEW q \in Players, NEW j \in 1..Len(up[q])
      PROVE  Truthful(req', up[q][j])
  <2>1. up[q][j] \in UpMsg
    BY <1>1, ElementOfSeq
  <2> QED BY <2>1, TruthStays DEF ReportsAreTruthful
<1>5. ASSUME NEW q \in Players, NEW k \in 1..Len(up'[q])
      PROVE  Truthful(req', up'[q][k])
  <2>1. CASE q # p
    <3>1. up'[q] = up[q]
      BY <2>1 DEF Extends, InteractionShape
    <3> QED BY <1>4, <1>5, <3>1
  <2>2. CASE q = p
    <3>1. up'[q] = up[p] \o ms
      BY <2>2 DEF Extends, InteractionShape
    <3>2. Len(up[p]) \in Nat /\ Len(ms) \in Nat /\ k \in 1..(Len(up[p]) + Len(ms))
      BY <1>1, <1>2, <1>5, <3>1
    <3>3. CASE k <= Len(up[p])
      <4>1. k \in 1..Len(up[p]) /\ up'[q][k] = up[p][k]
        BY <1>2, <3>1, <3>2, <3>3
      <4> QED BY <1>4, <4>1
    <3>4. CASE k > Len(up[p])
      <4>1. k - Len(up[p]) \in 1..Len(ms) /\ up'[q][k] = ms[k - Len(up[p])]
        BY <1>2, <3>1, <3>2, <3>4
      <4> QED BY <4>1
    <3> QED BY <3>2, <3>3, <3>4
  <2> QED BY <2>1, <2>2
<1> QED BY <1>3, <1>5 DEF ReportsAreTruthful

-----------------------------------------------------------------------------
(* Who plays which Sim. *)

SessionShape ==
    /\ joined \subseteq Players /\ Host \in joined
    /\ active \in [Players -> SomeSim] /\ saved \in [Players -> SomeSim]
    /\ roster \subseteq Sims /\ controllers \in [Sims -> SUBSET Players]
    /\ had \in [Players -> SUBSET Sims]
GamesShape ==
    /\ selected \in [Players -> SomeSim]
    /\ localSim \in [Players -> SomeSim] /\ published \in [Players -> SomeSim]
    /\ picking \in [Players -> BOOLEAN] /\ nudges \in [Players -> Nat]
    /\ late \in [Players -> Seq(Sims)]
SessionInv == SessionShape /\ SimsWereHad /\ ControllersAreHere

LEMMA Shapes == SelectionTypeOK <=> SessionShape /\ GamesShape
BY DEF SelectionTypeOK, SessionShape, GamesShape

LEMMA SessionIdle ==
  ASSUME SessionInv, UNCHANGED sessionVars
  PROVE  SessionInv'
BY DEF SessionInv, SessionShape, SimsWereHad, ControllersAreHere, sessionVars

LEMMA AddPlayerKeeps ==
  ASSUME SessionInv, NEW p \in Players, p \notin joined, AddPlayer(p), UNCHANGED <<saved, roster, had>>
  PROVE  SessionInv'
<1> DEFINE s == saved[p]
<1>1. CASE s \in roster
  <2>1. /\ active' = [active EXCEPT ![p] = s] /\ joined' = joined \cup {p}
        /\ controllers' = [controllers EXCEPT ![s] = Choosers(joined', active', s)]
    BY <1>1 DEF AddPlayer
  <2>2. SessionShape'
    BY <1>1, <2>1 DEF SessionInv, SessionShape, SomeSim, Choosers
  <2>3. SimsWereHad'
    BY <1>1, <2>1 DEF SessionInv, SessionShape, SimsWereHad
  <2>4. ControllersAreHere'
    BY <1>1, <2>1 DEF SessionInv, SessionShape, ControllersAreHere, Choosers
  <2> QED BY <2>2, <2>3, <2>4 DEF SessionInv
<1>2. CASE s \notin roster
  <2>1. /\ active' = [active EXCEPT ![p] = NoSim] /\ joined' = joined \cup {p}
        /\ controllers' = controllers
    BY <1>2 DEF AddPlayer
  <2>2. SessionShape'
    BY <2>1 DEF SessionInv, SessionShape, SomeSim
  <2>3. SimsWereHad'
    BY <2>1 DEF SessionInv, SessionShape, SimsWereHad
  <2>4. ControllersAreHere'
    BY <2>1 DEF SessionInv, SessionShape, ControllersAreHere
  <2> QED BY <2>2, <2>3, <2>4 DEF SessionInv
<1> QED BY <1>1, <1>2

LEMMA RemovePlayerKeeps ==
  ASSUME SessionInv, NEW p \in joined \ {Host}, RemovePlayer(p), UNCHANGED <<roster, had>>
  PROVE  SessionInv'
<1>1. p \in Players
  BY DEF SessionInv, SessionShape
<1>2. SessionShape'
  BY <1>1 DEF SessionInv, SessionShape, RemovePlayer, Rederived, Choosers, SomeSim
<1>3. SimsWereHad'
  BY <1>1 DEF SessionInv, SessionShape, SimsWereHad, RemovePlayer
<1>4. ControllersAreHere'
  BY <1>1, <1>2 DEF SessionInv, SessionShape, ControllersAreHere, RemovePlayer, Rederived, Choosers
<1> QED BY <1>2, <1>3, <1>4 DEF SessionInv

LEMMA UpdateSimsKeeps ==
  ASSUME SessionInv, NEW sims \in SUBSET Sims, UpdateSims(sims)
  PROVE  SessionInv'
<1>1. SessionShape'
  BY DEF SessionInv, SessionShape, UpdateSims, Rederived, Choosers
<1>2. SimsWereHad'
  BY DEF SessionInv, SimsWereHad, UpdateSims
<1>3. ControllersAreHere'
  BY <1>1 DEF SessionInv, SessionShape, ControllersAreHere, UpdateSims, Rederived, Choosers
<1> QED BY <1>1, <1>2, <1>3 DEF SessionInv

LEMMA SelectSimKeeps ==
  ASSUME SessionInv, NEW p \in joined, NEW s \in roster, SelectSim(p, s)
  PROVE  SessionInv'
<1>1. p \in Players /\ s \in Sims
  BY DEF SessionInv, SessionShape
<1>2. SessionShape'
  BY <1>1 DEF SessionInv, SessionShape, SelectSim, Choosers, SomeSim
<1>3. SimsWereHad'
  BY <1>1 DEF SessionInv, SessionShape, SimsWereHad, SelectSim
<1>4. ControllersAreHere'
  BY <1>1, <1>2 DEF SessionInv, SessionShape, ControllersAreHere, SelectSim, Choosers
<1> QED BY <1>2, <1>3, <1>4 DEF SessionInv

(* The session forgets no Sim it let a player have. *)
HadGrows == \A p \in Players : had[p] \subseteq had'[p]

LEMMA SelectionKeeps ==
  ASSUME SessionInv, nudges \in [Players -> Nat], NEW p \in joined, NEW s, Selection(p, s)
  PROVE  SessionInv' /\ nudges' \in [Players -> Nat] /\ HadGrows
<1>1. CASE s \in roster
  <2>1. SelectSim(p, s) /\ nudges' = Nudged(p)
    BY <1>1 DEF Selection
  <2>2. nudges' \in [Players -> Nat]
    BY <2>1 DEF Nudged
  <2>3. HadGrows
    BY <2>1 DEF HadGrows, SelectSim, SessionInv, SessionShape
  <2> QED BY <1>1, <2>1, <2>2, <2>3, SelectSimKeeps
<1>2. CASE s \notin roster
  <2>1. UNCHANGED <<sessionVars, nudges>>
    BY <1>2 DEF Selection
  <2> QED BY <2>1, SessionIdle DEF HadGrows, sessionVars
<1> QED BY <1>1, <1>2

MessagesKept == up' \in [Players -> Seq(UpMsg)] /\ ReportsAreTruthful'

LEMMA SaidIsKept ==
  ASSUME InteractionShape, ReportsAreTruthful, GrantsLast, NEW p \in Players,
         NEW ms \in Seq(UpMsg), \A k \in 1..Len(ms) : Truthful(req', ms[k]), Said(p, ms)
  PROVE  MessagesKept
<1>1. CASE p \in joined
  BY <1>1, MoreStaysTruthful DEF Said, Extends, MessagesKept
<1>2. CASE p \notin joined
  <2>1. up' = up
    BY <1>2 DEF Said, InteractionShape
  <2> QED BY <2>1, ChannelsStayTruthful DEF Shrinks, MessagesKept
<1> QED BY <1>1, <1>2

(* The members of a channel, by their type. *)
LEMMA MessageFields ==
  ASSUME NEW m \in UpMsg
  PROVE  /\ m.type = "sims.state" => m.sims \in SUBSET Sims /\ m.sim \in SomeSim
         /\ m.type = "sim.select" => m.sim \in Sims
         /\ m.type = "ask" => /\ m.kind \in Kinds /\ m.r \in Requests /\ m.sim \in SomeSim
                              /\ m.iid \in Work \cup {NoWork}
         /\ m.type = "cancel" => m.r \in Requests \cup {NoRequest} /\ m.sim \in SomeSim /\ m.iid \in Work
         /\ m.type = "report" => /\ m.what \in {"rejected", "queued", "started", "finished"}
                                 /\ m.r \in Requests \cup {NoRequest} /\ m.iid \in Work \cup {NoWork}
BY DEF UpMsg, Rosters, Picks, Questions, Cancellations, Reported

LEMMA HeadOfChannel ==
  ASSUME InteractionShape, NEW p \in Players, up[p] # <<>>
  PROVE  Head(up[p]) \in UpMsg /\ 1 \in 1..Len(up[p]) /\ Head(up[p]) = up[p][1]
<1>1. up[p] \in Seq(UpMsg)
  BY DEF InteractionShape
<1>2. Len(up[p]) \in Nat /\ Len(up[p]) # 0 /\ Head(up[p]) = up[p][1]
  BY <1>1, EmptySeq
<1> QED BY <1>1, <1>2, ElementOfSeq

LEMMA SameRequests ==
  ASSUME HadGrows, UNCHANGED req
  PROVE  GrantsLast
BY DEF HadGrows, GrantsLast

LEMMA HadStays ==
  ASSUME UNCHANGED had
  PROVE  HadGrows
BY DEF HadGrows

SelectionKept == SessionInv' /\ GamesShape' /\ HadGrows /\ MessagesKept

LEMMA PickingKeeps ==
  ASSUME InteractionShape, SessionInv, ReportsAreTruthful, UNCHANGED req, NEW p \in Players,
         \/ \E s \in SomeSim : Selects(p, s)
         \/ \E s \in Sims : Commands(p, s)
         \/ Publishes(p) \/ Restores(p)
  PROVE  SelectionKept
<1>1. GamesShape /\ p \in Players
  BY Shapes DEF InteractionShape
<1>2. SessionInv' /\ UNCHANGED had
  BY SessionIdle DEF Selects, Commands, Publishes, Restores, sessionVars
<1>3. HadGrows /\ GrantsLast
  BY <1>2, HadStays, SameRequests
<1>4. up' = up => MessagesKept
  BY <1>3, ChannelsStayTruthful DEF Shrinks, MessagesKept
<1>5. ASSUME NEW s \in SomeSim, Selects(p, s)
      PROVE  SelectionKept
  <2>1. GamesShape'
    BY <1>1, <1>5 DEF Selects, GamesShape
  <2> QED BY <1>2, <1>3, <1>4, <1>5, <2>1 DEF Selects, SelectionKept
<1>6. ASSUME NEW s \in Sims, Commands(p, s)
      PROVE  SelectionKept
  <2>1. GamesShape'
    BY <1>1, <1>6 DEF Commands, GamesShape
  <2>2. MessagesKept
    <3>1. <<SelectMsg(s)>> \in Seq(UpMsg) /\ \A k \in 1..Len(<<SelectMsg(s)>>) : Truthful(req', <<SelectMsg(s)>>[k])
      BY MessageKinds, OnlyReportsCount
    <3> QED BY <1>3, <1>6, <3>1, SaidIsKept DEF Commands
  <2> QED BY <1>2, <1>3, <2>1, <2>2 DEF SelectionKept
<1>7. CASE Publishes(p)
  <2> DEFINE s == selected[p]
             isNews == s \in Loads[p] /\ s # published[p]
             news == IF isNews THEN <<RosterMsg(Loads[p], s), SelectMsg(s)>> ELSE <<RosterMsg(Loads[p], s)>>
  <2>1. GamesShape'
    BY <1>1, <1>7 DEF Publishes, GamesShape
  <2>2. s \in SomeSim /\ Loads[p] \in SUBSET Sims
    BY <1>1 DEF GamesShape
  <2>3. /\ RosterMsg(Loads[p], s) \in UpMsg /\ Truthful(req', RosterMsg(Loads[p], s))
        /\ isNews => SelectMsg(s) \in UpMsg /\ Truthful(req', SelectMsg(s))
    BY <2>2, MessageKinds, OnlyReportsCount
  <2> HIDE DEF s
  <2>4. news \in Seq(UpMsg) /\ \A k \in 1..Len(news) : Truthful(req', news[k])
    BY <2>3
  <2>5. Said(p, news)
    BY <1>7 DEF Publishes, s
  <2> HIDE DEF news
  <2>6. MessagesKept
    BY <1>3, <2>4, <2>5, SaidIsKept
  <2> QED BY <1>2, <1>3, <2>1, <2>6 DEF SelectionKept
<1>8. CASE Restores(p)
  <2>1. GamesShape'
    BY <1>1, <1>8 DEF Restores, GamesShape
  <2> QED BY <1>2, <1>3, <1>4, <1>8, <2>1 DEF Restores, SelectionKept
<1> QED BY <1>5, <1>6, <1>7, <1>8

LEMMA TakingKeeps ==
  ASSUME InteractionShape, SessionInv, ReportsAreTruthful, UNCHANGED req, NEW p \in Players,
         TakesSelection(p) \/ TakesLate(p)
  PROVE  SelectionKept
<1>1. GamesShape
  BY Shapes DEF InteractionShape
<1>2. nudges \in [Players -> Nat] /\ late \in [Players -> Seq(Sims)]
  BY <1>1 DEF GamesShape
<1>3. CASE TakesSelection(p)
  <2> DEFINE m == Head(up[p])
  <2>1. m \in UpMsg /\ p \in joined /\ up[p] # <<>>
    BY <1>3, HeadOfChannel DEF TakesSelection
  <2>2. UNCHANGED gameVars /\ Shrinks(p)
    BY <1>3 DEF TakesSelection, Shrinks
  <2>3. SessionInv' /\ nudges' \in [Players -> Nat] /\ late' \in [Players -> Seq(Sims)] /\ HadGrows
    <3>1. CASE m.type = "sims.state"
      <4>1. UpdateSims(m.sims) /\ UNCHANGED nudges /\ UNCHANGED had
        BY <1>3, <3>1 DEF TakesSelection, UpdateSims
      <4>2. m.sims \in SUBSET Sims /\ (m.sim # NoSim => m.sim \in Sims)
        BY <2>1, <3>1, MessageFields DEF SomeSim
      <4>3. late' = [late EXCEPT ![p] = IF p = Host \/ m.sim = NoSim THEN @ ELSE Append(@, m.sim)]
        BY <1>3, <3>1 DEF TakesSelection
      <4>4. late' \in [Players -> Seq(Sims)]
        <5> HIDE DEF m
        <5>1. late[p] \in Seq(Sims)
          BY <1>2
        <5>2. m.sim \in Sims => Append(late[p], m.sim) \in Seq(Sims)
          BY <5>1
        <5> QED BY <1>2, <4>2, <4>3, <5>2
      <4> QED BY <1>2, <4>1, <4>2, <4>4, UpdateSimsKeeps, HadStays
    <3>2. CASE m.type = "sim.select"
      <4>1. Selection(p, m.sim) /\ UNCHANGED late
        BY <1>3, <3>2 DEF TakesSelection
      <4> QED BY <1>2, <2>1, <4>1, SelectionKeeps
    <3> QED BY <1>3, <3>1, <3>2 DEF TakesSelection
  <2>4. GamesShape'
    BY <1>1, <2>2, <2>3 DEF GamesShape, gameVars
  <2>5. MessagesKept
    BY <2>2, <2>3, SameRequests, ChannelsStayTruthful DEF MessagesKept
  <2> QED BY <2>3, <2>4, <2>5 DEF SelectionKept
<1>4. CASE TakesLate(p)
  <2>1. p \in joined /\ Selection(p, Head(late[p])) /\ UNCHANGED <<gameVars, up>>
    BY <1>4 DEF TakesLate
  <2>2. SessionInv' /\ nudges' \in [Players -> Nat] /\ HadGrows
    BY <1>2, <2>1, SelectionKeeps
  <2>3. late' \in [Players -> Seq(Sims)]
    <3>1. late[p] \in Seq(Sims) /\ late[p] # <<>> /\ late' = [late EXCEPT ![p] = Tail(@)]
      BY <1>2, <1>4 DEF TakesLate
    <3>2. Tail(late[p]) \in Seq(Sims)
      BY <3>1, HeadTailProperties
    <3> QED BY <1>2, <3>1, <3>2
  <2>4. GamesShape'
    BY <1>1, <2>1, <2>2, <2>3 DEF GamesShape, gameVars
  <2>5. MessagesKept
    BY <2>1, <2>2, SameRequests, ChannelsStayTruthful DEF Shrinks, MessagesKept
  <2> QED BY <2>2, <2>4, <2>5 DEF SelectionKept
<1> QED BY <1>3, <1>4

LEMMA ConnectionsKeep ==
  ASSUME InteractionShape, SessionInv, ReportsAreTruthful, UNCHANGED req, NEW p \in Players,
         PlayerJoins(p) \/ PlayerLeaves(p)
  PROVE  SelectionKept
<1>1. GamesShape
  BY Shapes DEF InteractionShape
<1>2. UNCHANGED had /\ Shrinks(p)
  BY DEF PlayerJoins, PlayerLeaves, Shrinks
<1>3. HadGrows /\ MessagesKept
  BY <1>2, HadStays, SameRequests, ChannelsStayTruthful DEF MessagesKept
<1>4. CASE PlayerJoins(p)
  <2>1. SessionInv'
    BY <1>4, AddPlayerKeeps DEF PlayerJoins
  <2>2. GamesShape'
    BY <1>1, <1>4 DEF PlayerJoins, GamesShape, gameVars
  <2> QED BY <1>3, <2>1, <2>2 DEF SelectionKept
<1>5. CASE PlayerLeaves(p)
  <2>1. SessionInv'
    BY <1>5, RemovePlayerKeeps DEF PlayerLeaves
  <2>2. GamesShape'
    <3>1. <<>> \in Seq(Sims)
      OBVIOUS
    <3> QED BY <1>1, <1>5, <3>1 DEF PlayerLeaves, GamesShape
  <2> QED BY <1>3, <2>1, <2>2 DEF SelectionKept
<1> QED BY <1>4, <1>5

-----------------------------------------------------------------------------
(* What steps leave as it was. *)

LEMMA InvParts ==
  InteractionInv <=> /\ InteractionShape /\ SessionInv
                     /\ OrdersAreGranted /\ ClientFits /\ WorkIsGranted /\ ReportsAreTruthful /\ MenusNeverStart
BY Shapes DEF InteractionInv, InteractionShape, SessionInv

LEMMA OldOrdersStay ==
  ASSUME InteractionShape, OrdersAreGranted, GrantsLast
  PROVE  /\ \A p \in Players : \A k \in 1..Len(pending[p]) : IsGranted(req', had', pending[p][k])
         /\ \A k \in 1..Len(todo) : IsGranted(req', had', todo[k])
         /\ reader # Idle => IsGranted(req', had', reader.m)
<1>1. ASSUME NEW p \in Players, NEW k \in 1..Len(pending[p])
      PROVE  IsGranted(req', had', pending[p][k])
  <2>1. pending[p] \in Seq(GameMsg)
    BY DEF InteractionShape
  <2>2. pending[p][k] \in GameMsg
    BY <2>1, ElementOfSeq
  <2> QED BY <2>2, OrderStaysGranted DEF OrdersAreGranted
<1>2. ASSUME NEW k \in 1..Len(todo)
      PROVE  IsGranted(req', had', todo[k])
  <2>1. todo[k] \in GameMsg
    BY ElementOfSeq DEF InteractionShape
  <2> QED BY <2>1, OrderStaysGranted DEF OrdersAreGranted
<1>3. ASSUME reader # Idle
      PROVE  IsGranted(req', had', reader.m)
  <2>1. reader.m \in GameMsg
    BY <1>3 DEF InteractionShape, Acts, Reporting, GameMsg
  <2> QED BY <1>3, <2>1, OrderStaysGranted DEF OrdersAreGranted
<1> QED BY <1>1, <1>2, <1>3

(* Interactions that are made for nobody or for the same request, for the    *)
(* same Sim.                                                                *)
SameMakers ==
    /\ Len(work') = Len(work)
    /\ \A i \in 1..Len(work) : work'[i].by = work[i].by /\ work'[i].sim = work[i].sim

LEMMA OldWorkStays ==
  ASSUME InteractionShape, WorkIsGranted, GrantsLast, NEW i \in 1..Len(work), work[i].by # NoRequest
  PROVE  req'[work[i].by].kind \in Kinds /\ Granted(req', had', work[i].by, req'[work[i].by].kind, work[i].sim)
<1> DEFINE r == work[i].by
<1>1. r \in Requests
  <2>1. work[i] \in [sim : Sims, by : Requests \cup {NoRequest}, stage : {"queued", "running", "gone"}]
    BY ElementOfSeq DEF InteractionShape
  <2> QED BY <2>1
<1>2. req[r].kind \in Kinds /\ Granted(req, had, r, req[r].kind, work[i].sim)
  BY DEF WorkIsGranted
<1>3. req'[r].kind = req[r].kind
  BY <1>1, <1>2 DEF GrantsLast
<1> QED BY <1>1, <1>2, <1>3, GrantedStays

LEMMA WorkStaysGranted ==
  ASSUME InteractionShape, WorkIsGranted, GrantsLast, SameMakers
  PROVE  WorkIsGranted'
<1> SUFFICES ASSUME NEW i \in 1..Len(work'), work'[i].by # NoRequest
             PROVE  /\ req'[work'[i].by].kind \in Kinds
                    /\ Granted(req', had', work'[i].by, req'[work'[i].by].kind, work'[i].sim)
  BY DEF WorkIsGranted
<1>1. i \in 1..Len(work) /\ work'[i].by = work[i].by /\ work'[i].sim = work[i].sim
  BY DEF SameMakers
<1> QED BY <1>1, OldWorkStays

LEMMA SelectionStepKeeps ==
  ASSUME InteractionInv, SelectionKept, UNCHANGED <<req, todo, hostGameVars>>,
         known' \in [Players -> [SomeSim -> Requests \cup {NoRequest}]], used' \subseteq Requests,
         pending' \in [Players -> Seq(GameMsg)],
         \A p \in Players : pending'[p] \in {pending[p], <<>>}
  PROVE  InteractionInv'
<1>1. GrantsLast
  BY SameRequests DEF SelectionKept
<1>2. InteractionShape' /\ SessionInv' /\ ReportsAreTruthful'
  <2>1. SelectionTypeOK'
    BY Shapes DEF SelectionKept, SessionInv, SelectionTypeOK, SessionShape, GamesShape
  <2> QED BY <2>1 DEF SelectionKept, MessagesKept, InteractionInv, InteractionShape, hostGameVars
<1>3. OrdersAreGranted'
  <2>1. ASSUME NEW p \in Players, NEW k \in 1..Len(pending'[p])
        PROVE  IsGranted(req', had', pending'[p][k])
    <3>1. CASE pending'[p] = pending[p]
      BY <1>1, <2>1, <3>1, OldOrdersStay DEF InteractionInv
    <3>2. CASE pending'[p] = <<>>
      BY <2>1, <3>2
    <3> QED BY <3>1, <3>2
  <2>2. UNCHANGED <<todo, reader>>
    BY DEF hostGameVars
  <2> QED BY <1>1, <2>1, <2>2, OldOrdersStay DEF InteractionInv, OrdersAreGranted
<1>4. ClientFits'
  BY DEF InteractionInv, ClientFits, hostGameVars
<1>5. WorkIsGranted'
  BY <1>1, WorkStaysGranted DEF InteractionInv, SameMakers, hostGameVars
<1>6. MenusNeverStart'
  BY DEF InteractionInv, MenusNeverStart
<1> QED BY <1>2, <1>3, <1>4, <1>5, <1>6, InvParts DEF InteractionInv, SessionInv

LEMMA SelectionMovesKeep ==
  ASSUME InteractionInv, NEW p \in Players, SelectionMoves(p) \/ Connections(p)
  PROVE  InteractionInv'
<1>1. InteractionShape /\ SessionInv /\ ReportsAreTruthful
  BY InvParts
<1>2. /\ pending \in [Players -> Seq(GameMsg)] /\ used \subseteq Requests
      /\ known \in [Players -> [SomeSim -> Requests \cup {NoRequest}]]
  BY <1>1 DEF InteractionShape
<1>3. CASE SelectionMoves(p)
  <2>1. UNCHANGED <<req, pending, known, used, todo, hostGameVars>>
    BY <1>3 DEF SelectionMoves, askVars
  <2>2. SelectionKept
    BY <1>1, <1>3, <2>1, PickingKeeps, TakingKeeps DEF SelectionMoves
  <2> QED BY <1>2, <2>1, <2>2, SelectionStepKeeps
<1>4. CASE Connections(p)
  <2>1. UNCHANGED <<req, known, used, todo, hostGameVars>>
    BY <1>4 DEF Connections
  <2>2. SelectionKept
    BY <1>1, <1>4, <2>1, ConnectionsKeep DEF Connections
  <2>3. pending' = pending \/ pending' = [pending EXCEPT ![p] = <<>>]
    BY <1>4 DEF Connections
  <2>4. <<>> \in Seq(GameMsg)
    OBVIOUS
  <2> QED BY <1>2, <2>1, <2>2, <2>3, <2>4, SelectionStepKeeps
<1> QED BY <1>3, <1>4

-----------------------------------------------------------------------------
(* A client's game asks. *)

LEMMA PlacesOfWork ==
  ASSUME InteractionShape
  PROVE  DOMAIN work = 1..Len(work) /\ DOMAIN work \subseteq Work /\ Len(work) \in Nat
BY DEF InteractionShape, Work

LEMMA AsksKeeps ==
  ASSUME InteractionInv, NEW p \in Players, NEW kind \in Kinds, NEW r \in Requests,
         NEW sim \in SomeSim, NEW iid \in Work \cup {NoWork}, Asks(p, kind, r, sim, iid)
  PROVE  InteractionInv'
<1>1. InteractionShape /\ SessionInv /\ ReportsAreTruthful /\ GamesShape
  BY InvParts, Shapes DEF InteractionShape
<1>2. UNCHANGED <<sessionVars, gameVars, nudges, late, req, pending, todo, hostGameVars>>
  BY DEF Asks
<1>3. HadGrows /\ GrantsLast
  BY <1>2, HadStays, SameRequests DEF sessionVars
<1>4. MessagesKept
  <2>1. <<Ask(kind, r, sim, iid)>> \in Seq(UpMsg)
    BY MessageKinds
  <2>2. \A k \in 1..Len(<<Ask(kind, r, sim, iid)>>) : Truthful(req', <<Ask(kind, r, sim, iid)>>[k])
    BY OnlyReportsCount
  <2> QED BY <1>1, <1>3, <2>1, <2>2, SaidIsKept DEF Asks
<1>5. SelectionKept
  BY <1>1, <1>2, <1>3, <1>4, SessionIdle DEF SelectionKept, GamesShape, gameVars
<1>6. /\ known' \in [Players -> [SomeSim -> Requests \cup {NoRequest}]]
      /\ used' \subseteq Requests /\ pending' \in [Players -> Seq(GameMsg)]
  BY <1>1, <1>2 DEF Asks, InteractionShape
<1> QED BY <1>2, <1>5, <1>6, SelectionStepKeeps

LEMMA AsksToCancelKeeps ==
  ASSUME InteractionInv, NEW p \in Players, NEW iid \in DOMAIN work, AsksToCancel(p, iid)
  PROVE  InteractionInv'
<1>1. InteractionShape /\ SessionInv /\ ReportsAreTruthful /\ GamesShape
  BY InvParts, Shapes DEF InteractionShape
<1>2. UNCHANGED <<sessionVars, selected, localSim, published, picking, nudges, late, askVars, todo, hostGameVars>>
  BY DEF AsksToCancel
<1>3. HadGrows /\ GrantsLast
  BY <1>2, HadStays, SameRequests DEF sessionVars, askVars
<1>4. iid \in Work /\ selected[p] \in SomeSim /\ LastFor(p, selected[p]) \in Requests \cup {NoRequest}
  BY <1>1, PlacesOfWork, SMTT(40) DEF GamesShape, InteractionShape, LastFor
<1>5. MessagesKept
  <2> DEFINE m == Cancel(LastFor(p, selected[p]), selected[p], iid)
  <2>1. m \in UpMsg
    BY <1>4, MessageKinds
  <2>2. Truthful(req', m)
    BY OnlyReportsCount
  <2>3. Said(p, <<m>>)
    BY DEF AsksToCancel
  <2> HIDE DEF m
  <2>4. <<m>> \in Seq(UpMsg) /\ \A k \in 1..Len(<<m>>) : Truthful(req', <<m>>[k])
    BY <2>1, <2>2
  <2> QED BY <1>1, <1>3, <2>3, <2>4, SaidIsKept
<1>6. SelectionKept
  BY <1>1, <1>2, <1>3, <1>5, SessionIdle DEF SelectionKept, GamesShape
<1>7. /\ known' \in [Players -> [SomeSim -> Requests \cup {NoRequest}]]
      /\ used' \subseteq Requests /\ pending' \in [Players -> Seq(GameMsg)]
  BY <1>1, <1>2 DEF InteractionShape, askVars
<1> QED BY <1>2, <1>6, <1>7, SelectionStepKeeps DEF askVars

LEMMA ClientAsksKeep ==
  ASSUME InteractionInv, NEW p \in Players, NEW r \in Requests,
         \/ PicksEntry(p, r) \/ PushesAffordance(p, r)
         \/ CommandsPush(p, r) \/ CommandsChoice(p, r)
         \/ \E i \in DOMAIN work : CommandsCancel(p, r, i)
  PROVE  InteractionInv'
<1>1. InteractionShape /\ GamesShape
  BY InvParts, Shapes DEF InteractionShape
<1>2. selected[p] \in SomeSim /\ Loads[p] \subseteq SomeSim /\ DOMAIN work \subseteq Work
  BY <1>1, PlacesOfWork DEF GamesShape, SomeSim
<1>3. \E kind \in Kinds, sim \in SomeSim, iid \in Work \cup {NoWork} : Asks(p, kind, r, sim, iid)
  BY <1>2 DEF PicksEntry, PushesAffordance, CommandsPush, CommandsChoice, CommandsCancel, Kinds
<1> QED BY <1>3, AsksKeeps

-----------------------------------------------------------------------------
(* The session takes requests, cancellations and reports. *)

RequestRecords == [status : Statuses, kind : Kinds \cup {"none"}, player : Players, sim : SomeSim, iid : Work \cup {NoWork}]

PendingGranted == \A p \in Players : \A k \in 1..Len(pending[p]) : IsGranted(req, had, pending[p][k])
TodoGranted == \A k \in 1..Len(todo) : IsGranted(req, had, todo[k])

LEMMA SessionStepKeeps ==
  ASSUME InteractionInv, GrantsLast, MessagesKept,
         UNCHANGED <<sessionVars, gameVars, nudges, late, known, hostGameVars>>,
         req' \in [Requests -> RequestRecords], used' \subseteq Requests,
         pending' \in [Players -> Seq(GameMsg)], todo' \in Seq(GameMsg),
         PendingGranted', TodoGranted', MenusNeverStart'
  PROVE  InteractionInv'
<1>1. InteractionShape /\ SessionInv /\ GamesShape
  BY InvParts, Shapes DEF InteractionShape
<1>2. SessionInv' /\ GamesShape'
  BY <1>1, SessionIdle DEF GamesShape, gameVars
<1>3. InteractionShape'
  <2>1. SelectionTypeOK'
    BY <1>2, Shapes DEF SessionInv, SelectionTypeOK, SessionShape, GamesShape
  <2> QED BY <1>1, <2>1 DEF InteractionShape, MessagesKept, hostGameVars, RequestRecords
<1>4. OrdersAreGranted'
  <2>1. reader' # Idle => IsGranted(req', had', reader'.m)
    BY <1>1, OldOrdersStay DEF InteractionInv, hostGameVars
  <2> QED BY <2>1 DEF OrdersAreGranted, PendingGranted, TodoGranted
<1>5. ClientFits' /\ WorkIsGranted'
  BY <1>1, WorkStaysGranted DEF InteractionInv, ClientFits, SameMakers, hostGameVars
<1> QED BY <1>2, <1>3, <1>4, <1>5, InvParts DEF MessagesKept, InteractionInv, SessionInv

(* Accepting a request, of p for sim, as validate_interaction does. *)
LEMMA AcceptanceGrants ==
  ASSUME InteractionInv, NEW p \in Players, NEW m, m.kind \in Kinds, m.r \in Requests, m.iid \in Work \cup {NoWork},
         Valid(p, m), req' = [req EXCEPT ![m.r] = Accepted(p, m)], UNCHANGED had
  PROVE  /\ GrantsLast /\ MenusNeverStart' /\ req' \in [Requests -> RequestRecords]
         /\ ForGame(m.kind, m.r, p, m.sim, m.iid) \in GameMsg
         /\ IsGranted(req', had', ForGame(m.kind, m.r, p, m.sim, m.iid))
<1>1. InteractionShape /\ SessionInv
  BY InvParts
<1>2. req \in [Requests -> RequestRecords]
  BY <1>1 DEF InteractionShape, RequestRecords
<1>3. req[m.r].kind = "none" /\ m.sim = active[p] /\ m.sim \in Sims
  BY <1>1 DEF Valid, NoReq, SessionInv, SessionShape
<1>4. m.sim \in had[p]
  BY <1>1, <1>3 DEF SessionInv, SimsWereHad
<1>5. Accepted(p, m) \in RequestRecords
  BY <1>3 DEF Accepted, RequestRecords, Statuses, SomeSim
<1>6. /\ req'[m.r] = Accepted(p, m)
      /\ \A r \in Requests \ {m.r} : req'[r] = req[r]
  BY <1>2
<1>7. req' \in [Requests -> RequestRecords]
  BY <1>2, <1>5
<1>8. GrantsLast
  BY <1>3, <1>6 DEF GrantsLast, Kinds
<1>9. MenusNeverStart'
  BY <1>6 DEF InteractionInv, MenusNeverStart, Accepted
<1>10. ForGame(m.kind, m.r, p, m.sim, m.iid) \in GameMsg
  BY <1>3 DEF ForGame, GameMsg, Orders
<1>11. Granted(req', had', m.r, m.kind, m.sim)
  BY <1>4, <1>6 DEF Granted, Accepted
<1>12. IsGranted(req', had', ForGame(m.kind, m.r, p, m.sim, m.iid))
  BY <1>11 DEF IsGranted, ForGame
<1> QED BY <1>7, <1>8, <1>9, <1>10, <1>12

(* More orders behind those that were granted. *)
LEMMA MoreToDo ==
  ASSUME InteractionShape, OrdersAreGranted, GrantsLast, NEW ms \in Seq(GameMsg), todo' = todo \o ms,
         \A k \in 1..Len(ms) : IsGranted(req', had', ms[k])
  PROVE  todo' \in Seq(GameMsg) /\ TodoGranted'
<1>1. todo \in Seq(GameMsg)
  BY DEF InteractionShape
<1>2. /\ todo' \in Seq(GameMsg) /\ Len(todo') = Len(todo) + Len(ms) /\ Len(todo) \in Nat /\ Len(ms) \in Nat
      /\ \A i \in 1..Len(todo) + Len(ms) : todo'[i] = IF i <= Len(todo) THEN todo[i] ELSE ms[i - Len(todo)]
  BY <1>1, ConcatProperties
<1>3. ASSUME NEW k \in 1..Len(todo')
      PROVE  IsGranted(req', had', todo'[k])
  <2>1. CASE k <= Len(todo)
    <3>1. k \in 1..Len(todo) /\ todo'[k] = todo[k]
      BY <1>2, <2>1
    <3> QED BY <3>1, OldOrdersStay
  <2>2. CASE k > Len(todo)
    <3>1. k - Len(todo) \in 1..Len(ms) /\ todo'[k] = ms[k - Len(todo)]
      BY <1>2, <2>2
    <3> QED BY <3>1
  <2> QED BY <1>2, <2>1, <2>2
<1> QED BY <1>2, <1>3 DEF TodoGranted

LEMMA TakesAskKeeps ==
  ASSUME InteractionInv, NEW p \in Players, TakesAsk(p)
  PROVE  InteractionInv'
<1> DEFINE m == Head(up[p])
           order == ForGame(m.kind, m.r, p, m.sim, m.iid)
<1>1. InteractionShape /\ OrdersAreGranted /\ ReportsAreTruthful /\ MenusNeverStart
  BY DEF InteractionInv
<1>2. UNCHANGED <<sessionVars, gameVars, nudges, late, known, used, todo, hostGameVars>> /\ Shrinks(p)
  BY DEF TakesAsk, Shrinks
<1>3. UNCHANGED had
  BY <1>2 DEF sessionVars
<1>4. m \in UpMsg /\ m.type = "ask" /\ pending[p] = <<>>
  BY <1>1, HeadOfChannel DEF TakesAsk
<1>5. m.kind \in Kinds /\ m.r \in Requests /\ m.iid \in Work \cup {NoWork}
  BY <1>4, MessageFields
<1>6. /\ used' \subseteq Requests /\ todo' \in Seq(GameMsg)
      /\ pending \in [Players -> Seq(GameMsg)] /\ req \in [Requests -> RequestRecords]
  BY <1>1, <1>2 DEF InteractionShape, RequestRecords
<1>7. CASE Valid(p, m)
  <2>1. req' = [req EXCEPT ![m.r] = Accepted(p, m)] /\ pending' = [pending EXCEPT ![p] = <<order>>]
    BY <1>7 DEF TakesAsk
  <2>2. /\ GrantsLast /\ MenusNeverStart' /\ req' \in [Requests -> RequestRecords]
        /\ order \in GameMsg /\ IsGranted(req', had', order)
    BY <1>3, <1>5, <1>7, <2>1, AcceptanceGrants
  <2> HIDE DEF order
  <2>3. pending' \in [Players -> Seq(GameMsg)]
    BY <1>6, <2>1, <2>2
  <2>4. PendingGranted' /\ TodoGranted'
    <3>1. ASSUME NEW q \in Players, NEW k \in 1..Len(pending'[q])
          PROVE  IsGranted(req', had', pending'[q][k])
      <4>1. CASE q = p
        <5>1. pending'[q] = <<order>>
          BY <1>6, <2>1, <4>1
        <5> QED BY <2>2, <3>1, <5>1
      <4>2. CASE q # p
        <5>1. pending'[q] = pending[q]
          BY <1>6, <2>1, <4>2
        <5> QED BY <1>1, <2>2, <3>1, <5>1, OldOrdersStay
      <4> QED BY <4>1, <4>2
    <3> QED BY <1>1, <1>2, <2>2, <3>1, OldOrdersStay DEF PendingGranted, TodoGranted
  <2>5. MessagesKept
    BY <1>1, <1>2, <2>2, ChannelsStayTruthful DEF MessagesKept
  <2> QED BY <1>2, <1>6, <2>2, <2>3, <2>4, <2>5, SessionStepKeeps
<1>8. CASE ~Valid(p, m)
  <2>1. UNCHANGED <<req, pending>>
    BY <1>8 DEF TakesAsk
  <2>2. GrantsLast
    BY <1>3, <2>1, HadStays, SameRequests
  <2>3. PendingGranted' /\ TodoGranted'
    BY <1>1, <1>2, <2>1, <2>2, OldOrdersStay DEF PendingGranted, TodoGranted
  <2>4. MessagesKept
    BY <1>1, <1>2, <2>2, ChannelsStayTruthful DEF MessagesKept
  <2>5. MenusNeverStart'
    BY <1>1, <2>1 DEF MenusNeverStart
  <2> QED BY <1>2, <1>6, <2>1, <2>2, <2>3, <2>4, <2>5, SessionStepKeeps
<1> QED BY <1>7, <1>8

LEMMA HostAsksKeeps ==
  ASSUME InteractionInv, NEW r \in Requests, NEW sim \in Sims, HostAsks(r, sim)
  PROVE  InteractionInv'
<1> DEFINE m == Ask("request", r, sim, NoWork)
           order == ForGame("request", r, Host, sim, NoWork)
<1>1. InteractionShape /\ OrdersAreGranted /\ ReportsAreTruthful /\ MenusNeverStart
  BY DEF InteractionInv
<1>2. UNCHANGED <<sessionVars, gameVars, nudges, late, known, pending, hostGameVars>> /\ Shrinks(Host)
  BY DEF HostAsks, selectionVars, Shrinks
<1>3. UNCHANGED had
  BY <1>2 DEF sessionVars
<1>4. /\ m.kind = "request" /\ m.r = r /\ m.iid = NoWork /\ m.sim = sim
      /\ m.kind \in Kinds /\ m.r \in Requests /\ m.iid \in Work \cup {NoWork}
  BY DEF Ask, Kinds
<1>5. /\ used' \subseteq Requests /\ todo \in Seq(GameMsg)
      /\ pending' \in [Players -> Seq(GameMsg)] /\ req \in [Requests -> RequestRecords]
  BY <1>1, <1>2 DEF InteractionShape, RequestRecords, HostAsks
<1>6. GrantsLast => PendingGranted'
  BY <1>1, <1>2, OldOrdersStay DEF PendingGranted
<1>7. GrantsLast => MessagesKept
  BY <1>1, <1>2, ChannelsStayTruthful DEF MessagesKept
<1>8. CASE Valid(Host, m)
  <2>1. req' = [req EXCEPT ![m.r] = Accepted(Host, m)] /\ todo' = Append(todo, order)
    BY <1>4, <1>8 DEF HostAsks
  <2>2. order = ForGame(m.kind, m.r, Host, m.sim, m.iid)
    BY <1>4
  <2>3. /\ GrantsLast /\ MenusNeverStart' /\ req' \in [Requests -> RequestRecords]
        /\ order \in GameMsg /\ IsGranted(req', had', order)
    BY <1>3, <1>4, <1>8, <2>1, <2>2, AcceptanceGrants
  <2> HIDE DEF order
  <2>4. todo' = todo \o <<order>>
    BY <1>5, <2>1, <2>3
  <2>5. todo' \in Seq(GameMsg) /\ TodoGranted'
    <3>1. <<order>> \in Seq(GameMsg) /\ \A k \in 1..Len(<<order>>) : IsGranted(req', had', <<order>>[k])
      BY <2>3
    <3> QED BY <1>1, <2>3, <2>4, <3>1, MoreToDo
  <2> QED BY <1>2, <1>5, <1>6, <1>7, <2>3, <2>5, SessionStepKeeps
<1>9. CASE ~Valid(Host, m)
  <2>1. UNCHANGED <<req, todo>>
    BY <1>9 DEF HostAsks
  <2>2. GrantsLast
    BY <1>3, <2>1, HadStays, SameRequests
  <2>3. TodoGranted'
    BY <1>1, <2>1, <2>2, OldOrdersStay DEF TodoGranted
  <2>4. MenusNeverStart'
    BY <1>1, <2>1 DEF MenusNeverStart
  <2> QED BY <1>2, <1>5, <1>6, <1>7, <2>1, <2>2, <2>3, <2>4, SessionStepKeeps
<1> QED BY <1>8, <1>9

(* A cancellation changes the status of a request, or makes one up that was  *)
(* for nothing.                                                             *)
LEMMA CancellingKeeps ==
  ASSUME InteractionInv, NEW p \in Players, NEW m, m.sim \in SomeSim, NEW r \in Requests \cup {NoRequest},
         req' = CancelRequested(p, m, r), UNCHANGED had
  PROVE  GrantsLast /\ MenusNeverStart' /\ req' \in [Requests -> RequestRecords]
<1>1. req \in [Requests -> RequestRecords] /\ MenusNeverStart
  BY DEF InteractionInv, InteractionShape, RequestRecords
<1>2. CASE r = NoRequest
  <2>1. req' = req
    BY <1>2 DEF CancelRequested
  <2> QED BY <1>1, <2>1, HadStays, SameRequests DEF MenusNeverStart
<1>3. CASE r # NoRequest
  <2>1. r \in Requests
    BY <1>3
  <2>2. req[r] \in RequestRecords
    BY <1>1, <2>1
  <2>3. CASE req[r] = NoReq
    <3> DEFINE new == [NoReq EXCEPT !.status = "cancel_requested", !.player = p, !.sim = m.sim]
    <3>1. req' = [req EXCEPT ![r] = new]
      BY <1>3, <2>3 DEF CancelRequested
    <3>2. new \in RequestRecords /\ new.status = "cancel_requested"
      BY DEF RequestRecords, NoReq, Statuses, NoWork
    <3>3. req[r].kind = "none"
      BY <2>3 DEF NoReq
    <3> HIDE DEF new
    <3>4. req'[r] = new /\ \A q \in Requests \ {r} : req'[q] = req[q]
      BY <1>1, <2>1, <3>1
    <3>5. req' \in [Requests -> RequestRecords]
      BY <1>1, <3>1, <3>2
    <3>6. GrantsLast
      BY <3>3, <3>4 DEF GrantsLast, Kinds
    <3>7. MenusNeverStart'
      BY <1>1, <3>2, <3>4 DEF MenusNeverStart
    <3> QED BY <3>5, <3>6, <3>7
  <2>4. CASE req[r] # NoReq
    <3> DEFINE new == [req[r] EXCEPT !.status = "cancel_requested"]
    <3>1. req' = [req EXCEPT ![r] = new]
      BY <1>3, <2>4 DEF CancelRequested
    <3>2. /\ new \in RequestRecords /\ new.status = "cancel_requested"
          /\ new.kind = req[r].kind /\ new.sim = req[r].sim /\ new.player = req[r].player
      BY <2>2 DEF RequestRecords, Statuses
    <3> HIDE DEF new
    <3>3. req'[r] = new /\ \A q \in Requests \ {r} : req'[q] = req[q]
      BY <1>1, <2>1, <3>1
    <3>4. req' \in [Requests -> RequestRecords]
      BY <1>1, <3>1, <3>2
    <3>5. GrantsLast
      BY <3>2, <3>3 DEF GrantsLast
    <3>6. MenusNeverStart'
      BY <1>1, <3>2, <3>3 DEF MenusNeverStart
    <3> QED BY <3>4, <3>5, <3>6
  <2> QED BY <2>3, <2>4
<1> QED BY <1>2, <1>3

LEMMA TakesCancelKeeps ==
  ASSUME InteractionInv, NEW p \in Players, TakesCancel(p)
  PROVE  InteractionInv'
<1> DEFINE m == Head(up[p])
<1>1. InteractionShape /\ OrdersAreGranted /\ ReportsAreTruthful /\ MenusNeverStart
  BY DEF InteractionInv
<1>2. UNCHANGED <<sessionVars, gameVars, nudges, late, known, used, todo, hostGameVars>> /\ Shrinks(p)
  BY DEF TakesCancel, Shrinks
<1>3. UNCHANGED had
  BY <1>2 DEF sessionVars
<1>4. m \in UpMsg /\ m.type = "cancel"
  BY <1>1, HeadOfChannel DEF TakesCancel
<1>5. m.r \in Requests \cup {NoRequest} /\ m.sim \in SomeSim /\ m.iid \in Work
  BY <1>4, MessageFields
<1>6. /\ used' \subseteq Requests /\ todo' \in Seq(GameMsg)
      /\ pending \in [Players -> Seq(GameMsg)] /\ req \in [Requests -> RequestRecords]
  BY <1>1, <1>2 DEF InteractionShape, RequestRecords
<1>7. CASE m.sim = active[p]
  <2>1. PICK r \in Meant(m) : /\ req' = CancelRequested(p, m, r)
                              /\ pending' = [pending EXCEPT ![p] = <<ForGame("cancel", r, p, m.sim, m.iid)>>]
    BY <1>7 DEF TakesCancel
  <2>2. r \in Requests \cup {NoRequest}
    BY <1>5, <2>1 DEF Meant
  <2> DEFINE order == ForGame("cancel", r, p, m.sim, m.iid)
  <2>3. order \in GameMsg /\ IsGranted(req', had', order)
    BY <1>5, <2>2 DEF ForGame, GameMsg, Recalls, IsGranted, Kinds
  <2>4. GrantsLast /\ MenusNeverStart' /\ req' \in [Requests -> RequestRecords]
    BY <1>3, <1>5, <2>1, <2>2, CancellingKeeps
  <2>5. pending' = [pending EXCEPT ![p] = <<order>>]
    BY <2>1
  <2> HIDE DEF order
  <2>6. pending' \in [Players -> Seq(GameMsg)]
    BY <1>6, <2>3, <2>5
  <2>7. PendingGranted' /\ TodoGranted'
    <3>1. ASSUME NEW q \in Players, NEW k \in 1..Len(pending'[q])
          PROVE  IsGranted(req', had', pending'[q][k])
      <4>1. CASE q = p
        <5>1. pending'[q] = <<order>>
          BY <1>6, <2>5, <4>1
        <5> QED BY <2>3, <3>1, <5>1
      <4>2. CASE q # p
        <5>1. pending'[q] = pending[q]
          BY <1>6, <2>5, <4>2
        <5> QED BY <1>1, <2>4, <3>1, <5>1, OldOrdersStay
      <4> QED BY <4>1, <4>2
    <3> QED BY <1>1, <1>2, <2>4, <3>1, OldOrdersStay DEF PendingGranted, TodoGranted
  <2>8. MessagesKept
    BY <1>1, <1>2, <2>4, ChannelsStayTruthful DEF MessagesKept
  <2> QED BY <1>2, <1>6, <2>4, <2>6, <2>7, <2>8, SessionStepKeeps
<1>8. CASE m.sim # active[p]
  <2>1. UNCHANGED <<req, pending>>
    BY <1>8 DEF TakesCancel
  <2>2. GrantsLast
    BY <1>3, <2>1, HadStays, SameRequests
  <2>3. PendingGranted' /\ TodoGranted'
    BY <1>1, <1>2, <2>1, <2>2, OldOrdersStay DEF PendingGranted, TodoGranted
  <2>4. MessagesKept
    BY <1>1, <1>2, <2>2, ChannelsStayTruthful DEF MessagesKept
  <2>5. MenusNeverStart'
    BY <1>1, <2>1 DEF MenusNeverStart
  <2> QED BY <1>2, <1>6, <2>1, <2>2, <2>3, <2>4, <2>5, SessionStepKeeps
<1> QED BY <1>7, <1>8

LEMMA ToHostGameKeeps ==
  ASSUME InteractionInv, NEW p \in Players, ToHostGame(p)
  PROVE  InteractionInv'
<1>1. InteractionShape /\ OrdersAreGranted /\ ReportsAreTruthful /\ MenusNeverStart
  BY DEF InteractionInv
<1>2. UNCHANGED <<sessionVars, gameVars, nudges, late, known, used, req, hostGameVars>> /\ Shrinks(p)
  BY DEF ToHostGame, selectionVars, Shrinks
<1>3. GrantsLast
  BY <1>2, HadStays, SameRequests DEF sessionVars
<1>4. /\ used' \subseteq Requests /\ todo \in Seq(GameMsg) /\ pending[p] \in Seq(GameMsg)
      /\ pending \in [Players -> Seq(GameMsg)] /\ req' \in [Requests -> RequestRecords]
  BY <1>1, <1>2 DEF InteractionShape, RequestRecords
<1>5. pending' = [pending EXCEPT ![p] = <<>>] /\ todo' \in {todo, todo \o pending[p]}
  BY DEF ToHostGame
<1>6. pending' \in [Players -> Seq(GameMsg)]
  <2>1. <<>> \in Seq(GameMsg)
    OBVIOUS
  <2> QED BY <1>4, <1>5, <2>1
<1>7. PendingGranted'
  <2>1. ASSUME NEW q \in Players, NEW k \in 1..Len(pending'[q])
        PROVE  IsGranted(req', had', pending'[q][k])
    <3>1. CASE q = p
      <4>1. pending'[q] = <<>>
        BY <1>4, <1>5, <3>1
      <4> QED BY <2>1, <4>1
    <3>2. CASE q # p
      <4>1. pending'[q] = pending[q]
        BY <1>4, <1>5, <3>2
      <4> QED BY <1>1, <1>3, <2>1, <4>1, OldOrdersStay
    <3> QED BY <3>1, <3>2
  <2> QED BY <2>1 DEF PendingGranted
<1>8. todo' \in Seq(GameMsg) /\ TodoGranted'
  <2>1. CASE todo' = todo
    BY <1>1, <1>3, <1>4, <2>1, OldOrdersStay DEF TodoGranted
  <2>2. CASE todo' = todo \o pending[p]
    <3>1. \A k \in 1..Len(pending[p]) : IsGranted(req', had', pending[p][k])
      BY <1>1, <1>3, OldOrdersStay
    <3> QED BY <1>1, <1>3, <1>4, <2>2, <3>1, MoreToDo
  <2> QED BY <1>5, <2>1, <2>2
<1>9. MessagesKept
  BY <1>1, <1>2, <1>3, ChannelsStayTruthful DEF MessagesKept
<1>10. MenusNeverStart'
  BY <1>1, <1>2 DEF MenusNeverStart
<1> QED BY <1>2, <1>3, <1>4, <1>6, <1>7, <1>8, <1>9, <1>10, SessionStepKeeps

LEMMA TakesReportKeeps ==
  ASSUME InteractionInv, TakesReport
  PROVE  InteractionInv'
<1> DEFINE m == Head(up[Host])
<1>1. InteractionShape /\ OrdersAreGranted /\ ReportsAreTruthful /\ MenusNeverStart
  BY DEF InteractionInv
<1>2. UNCHANGED <<sessionVars, gameVars, nudges, late, pending, known, used, todo, hostGameVars>> /\ Shrinks(Host)
  BY DEF TakesReport, Shrinks
<1>3. UNCHANGED had
  BY <1>2 DEF sessionVars
<1>4. m \in UpMsg /\ m.type = "report" /\ Truthful(req, m)
  <2>1. Host \in Players /\ up[Host] # <<>>
    BY DEF TakesReport
  <2> QED BY <1>1, <2>1, HeadOfChannel DEF TakesReport, ReportsAreTruthful
<1>5. m.what \in {"rejected", "queued", "started", "finished"} /\ m.r \in Requests \cup {NoRequest}
      /\ m.iid \in Work \cup {NoWork}
  BY <1>4, MessageFields
<1>6. /\ used' \subseteq Requests /\ todo' \in Seq(GameMsg)
      /\ pending' \in [Players -> Seq(GameMsg)] /\ req \in [Requests -> RequestRecords]
  BY <1>1, <1>2 DEF InteractionShape, RequestRecords
<1>7. GrantsLast /\ MenusNeverStart' /\ req' \in [Requests -> RequestRecords]
  <2>1. CASE m.r = NoRequest \/ req[m.r] = NoReq
    <3>1. req' = req
      BY <1>5, <1>6, <2>1 DEF TakesReport
    <3> QED BY <1>1, <1>3, <1>6, <3>1, HadStays, SameRequests DEF MenusNeverStart
  <2>2. CASE m.r # NoRequest /\ req[m.r] # NoReq
    <3> DEFINE iid == IF m.iid = NoWork THEN req[m.r].iid ELSE m.iid
               new == [req[m.r] EXCEPT !.status = m.what, !.iid = iid]
    <3>1. m.r \in Requests
      BY <1>5, <2>2
    <3>2. req' = [req EXCEPT ![m.r] = new]
      BY <2>2 DEF TakesReport
    <3>3. req[m.r] \in RequestRecords
      BY <1>6, <3>1
    <3>4. /\ new \in RequestRecords /\ new.status = m.what
          /\ new.kind = req[m.r].kind /\ new.sim = req[m.r].sim /\ new.player = req[m.r].player
      BY <1>5, <3>3 DEF RequestRecords, Statuses
    <3> HIDE DEF new
    <3>5. req'[m.r] = new /\ \A q \in Requests \ {m.r} : req'[q] = req[q]
      BY <1>6, <3>1, <3>2
    <3>6. new.kind \in {"query", "cancel_si"} => new.status \notin {"queued", "started"}
      BY <1>4, <2>2, <3>4 DEF Truthful, Reportable
    <3>7. req' \in [Requests -> RequestRecords]
      BY <1>6, <3>1, <3>4, <3>2
    <3>8. GrantsLast
      BY <1>3, <3>4, <3>5 DEF GrantsLast
    <3>9. MenusNeverStart'
      BY <1>1, <3>5, <3>6 DEF MenusNeverStart
    <3> QED BY <3>7, <3>8, <3>9
  <2> QED BY <2>1, <2>2
<1>8. PendingGranted' /\ TodoGranted'
  BY <1>1, <1>2, <1>7, OldOrdersStay DEF PendingGranted, TodoGranted
<1>9. MessagesKept
  BY <1>1, <1>2, <1>7, ChannelsStayTruthful DEF MessagesKept
<1> QED BY <1>2, <1>6, <1>7, <1>8, <1>9, SessionStepKeeps

-----------------------------------------------------------------------------
(* The host's game. *)

Interaction == [sim : Sims, by : Requests \cup {NoRequest}, stage : {"queued", "running", "gone"}]
WorkShape == work \in Seq(Interaction) /\ Len(work) <= MaxWork

LEMMA ElsewhereStays ==
  ASSUME InteractionInv, Elsewhere
  PROVE  /\ GrantsLast /\ SessionInv' /\ GamesShape' /\ MenusNeverStart' /\ PendingGranted'
         /\ UNCHANGED <<req, pending, known, used>>
<1>1. InteractionShape /\ SessionInv /\ GamesShape /\ OrdersAreGranted /\ MenusNeverStart
  BY InvParts, Shapes DEF InteractionShape
<1>2. UNCHANGED <<sessionVars, gameVars, nudges, late, req, pending, known, used>>
  BY DEF Elsewhere, askVars
<1>3. GrantsLast
  BY <1>2, HadStays, SameRequests DEF sessionVars
<1>4. SessionInv' /\ GamesShape'
  BY <1>1, <1>2, SessionIdle DEF GamesShape, gameVars
<1>5. PendingGranted'
  BY <1>1, <1>2, <1>3, OldOrdersStay DEF PendingGranted
<1> QED BY <1>1, <1>2, <1>3, <1>4, <1>5 DEF MenusNeverStart

LEMMA HostGameKeeps ==
  ASSUME InteractionInv, Elsewhere, MessagesKept, todo' \in Seq(GameMsg), TodoGranted',
         reader' \in {Idle} \cup Acts \cup Reporting,
         reader' # Idle => IsGranted(req', had', reader'.m),
         current' \in Requests \cup {NoRequest}, reader' = Idle => current' = NoRequest,
         clientSim' \in [Players -> SomeSim], registered' \in [Work -> Requests \cup {NoRequest}],
         WorkShape', ClientFits', WorkIsGranted'
  PROVE  InteractionInv'
<1>1. InteractionShape
  BY DEF InteractionInv
<1>2. /\ SessionInv' /\ GamesShape' /\ MenusNeverStart' /\ PendingGranted'
      /\ UNCHANGED <<req, pending, known, used>>
  BY ElsewhereStays
<1>3. InteractionShape'
  <2>1. SelectionTypeOK'
    BY <1>2, Shapes DEF SessionInv, SelectionTypeOK, SessionShape, GamesShape
  <2> QED BY <1>1, <1>2, <2>1 DEF InteractionShape, MessagesKept, WorkShape, Interaction
<1>4. OrdersAreGranted'
  BY <1>2 DEF OrdersAreGranted, PendingGranted, TodoGranted
<1> QED BY <1>2, <1>3, <1>4, InvParts DEF MessagesKept, SessionInv, InteractionInv

(* What the host's game says is true. *)
LEMMA ReportIsKept ==
  ASSUME InteractionInv, Elsewhere,
         NEW what \in {"rejected", "queued", "started", "finished"},
         NEW r \in Requests \cup {NoRequest}, NEW iid \in Work \cup {NoWork},
         what \in {"queued", "started"} /\ r # NoRequest => req[r].kind \in Reportable,
         Reports(<<Report(what, r, iid)>>)
  PROVE  MessagesKept
<1>1. InteractionShape /\ ReportsAreTruthful /\ GrantsLast /\ UNCHANGED req /\ Host \in Players
  BY ElsewhereStays DEF InteractionInv
<1> DEFINE m == Report(what, r, iid)
<1>2. m \in UpMsg
  BY MessageKinds
<1>3. Truthful(req', m)
  BY <1>1 DEF Truthful, Report
<1>4. Extends(Host, <<m>>)
  BY DEF Extends, Reports
<1> HIDE DEF m
<1>5. <<m>> \in Seq(UpMsg) /\ \A k \in 1..Len(<<m>>) : Truthful(req', <<m>>[k])
  BY <1>2, <1>3
<1> QED BY <1>1, <1>4, <1>5, MoreStaysTruthful DEF MessagesKept

LEMMA SilenceIsKept ==
  ASSUME InteractionInv, Elsewhere, UNCHANGED up
  PROVE  MessagesKept
<1>1. InteractionShape /\ ReportsAreTruthful /\ GrantsLast /\ Host \in Players
  BY ElsewhereStays DEF InteractionInv
<1> QED BY <1>1, ChannelsStayTruthful DEF MessagesKept, Shrinks

(* The next message to the host's game is what was accepted. *)
LEMMA TakenOrder ==
  ASSUME InteractionInv, Elsewhere, NEW kinds, Takes(kinds)
  PROVE  /\ Head(todo) \in GameMsg /\ Head(todo).kind \in kinds
         /\ IsGranted(req, had, Head(todo)) /\ IsGranted(req', had', Head(todo))
         /\ Head(todo).kind \in Kinds => Head(todo) \in Orders
         /\ Head(todo).kind = "cancel" => Head(todo) \in Recalls
         /\ todo' \in Seq(GameMsg) /\ TodoGranted'
         /\ reader = Idle /\ current = NoRequest
<1>1. InteractionShape /\ OrdersAreGranted /\ GrantsLast
  BY ElsewhereStays DEF InteractionInv
<1>2. todo \in Seq(GameMsg) /\ todo # <<>> /\ todo' = Tail(todo) /\ reader = Idle /\ current = NoRequest
  BY <1>1 DEF InteractionShape, Takes
<1>3. Len(todo) \in Nat /\ Len(todo) # 0 /\ Head(todo) = todo[1]
  BY <1>2, EmptySeq
<1>4. 1 \in 1..Len(todo)
  BY <1>3
<1>5. Head(todo) \in GameMsg
  BY <1>2, <1>3, <1>4, ElementOfSeq
<1>6. IsGranted(req, had, Head(todo)) /\ IsGranted(req', had', Head(todo))
  BY <1>1, <1>3, <1>4, OldOrdersStay DEF OrdersAreGranted
<1>7. todo' \in Seq(GameMsg) /\ TodoGranted'
  <2>1. /\ Tail(todo) \in Seq(GameMsg) /\ Len(Tail(todo)) = Len(todo) - 1
        /\ \A k \in 1..Len(Tail(todo)) : Tail(todo)[k] = todo[k + 1]
    BY <1>2, HeadTailProperties
  <2>2. ASSUME NEW k \in 1..Len(todo')
        PROVE  IsGranted(req', had', todo'[k])
    <3>1. k + 1 \in 1..Len(todo) /\ todo'[k] = todo[k + 1]
      BY <1>2, <1>3, <2>1
    <3> QED BY <1>1, <3>1, OldOrdersStay
  <2> QED BY <1>2, <2>1, <2>2 DEF TodoGranted
<1>8. /\ Head(todo).kind \in Kinds => Head(todo) \in Orders
      /\ Head(todo).kind = "cancel" => Head(todo) \in Recalls
  BY <1>5 DEF GameMsg, Orders, Recalls, Kinds
<1> QED BY <1>2, <1>5, <1>6, <1>7, <1>8 DEF Takes

LEMMA TodoStays ==
  ASSUME InteractionInv, Elsewhere, UNCHANGED todo
  PROVE  todo' \in Seq(GameMsg) /\ TodoGranted'
<1>1. InteractionShape /\ OrdersAreGranted /\ GrantsLast
  BY ElsewhereStays DEF InteractionInv
<1> QED BY <1>1, OldOrdersStay DEF TodoGranted, InteractionShape

(* The interactions get one more, or one of them changes its stage. *)
LEMMA WorkStays ==
  ASSUME InteractionInv, Elsewhere, UNCHANGED work
  PROVE  WorkShape' /\ WorkIsGranted'
<1>1. InteractionShape /\ WorkIsGranted /\ GrantsLast
  BY ElsewhereStays DEF InteractionInv
<1> QED BY <1>1, WorkStaysGranted DEF SameMakers, WorkShape, Interaction, InteractionShape

LEMMA WorkMoves ==
  ASSUME InteractionInv, Elsewhere, NEW i \in DOMAIN work, NEW stage \in {"queued", "running", "gone"},
         work' = [work EXCEPT ![i].stage = stage]
  PROVE  WorkShape' /\ WorkIsGranted'
<1>1. InteractionShape /\ WorkIsGranted /\ GrantsLast
  BY ElsewhereStays DEF InteractionInv
<1>2. work \in Seq(Interaction) /\ Len(work) \in Nat /\ DOMAIN work = 1..Len(work) /\ Len(work) <= MaxWork
  BY <1>1 DEF InteractionShape, Interaction
<1>3. \A j \in 1..Len(work) : work[j] \in Interaction
  BY <1>2, ElementOfSeq
<1> DEFINE new == [work[i] EXCEPT !.stage = stage]
<1>4. new \in Interaction /\ new.by = work[i].by /\ new.sim = work[i].sim
  BY <1>2, <1>3 DEF Interaction
<1>5. work' = [work EXCEPT ![i] = new]
  OBVIOUS
<1> HIDE DEF new
<1>6. work' \in Seq(Interaction) /\ Len(work') = Len(work)
  BY <1>2, <1>4, <1>5, ExceptSeq
<1>7. SameMakers
  BY <1>2, <1>4, <1>5, <1>6 DEF SameMakers
<1> QED BY <1>1, <1>2, <1>6, <1>7, WorkStaysGranted DEF WorkShape

LEMMA WorkGrows ==
  ASSUME InteractionInv, Elsewhere, NEW new \in Interaction, Len(work) < MaxWork,
         new.by # NoRequest => req[new.by].kind \in Kinds /\ Granted(req, had, new.by, req[new.by].kind, new.sim),
         work' = Append(work, new)
  PROVE  WorkShape' /\ WorkIsGranted'
<1>1. InteractionShape /\ WorkIsGranted /\ GrantsLast
  BY ElsewhereStays DEF InteractionInv
<1>2. work \in Seq(Interaction) /\ Len(work) \in Nat
  BY <1>1 DEF InteractionShape, Interaction
<1>3. /\ work' \in Seq(Interaction) /\ Len(work') = Len(work) + 1
      /\ \A i \in 1..Len(work) : work'[i] = work[i]
      /\ work'[Len(work) + 1] = new
  BY <1>2, AppendProperties
<1>4. ASSUME NEW i \in 1..Len(work'), work'[i].by # NoRequest
      PROVE  /\ req'[work'[i].by].kind \in Kinds
             /\ Granted(req', had', work'[i].by, req'[work'[i].by].kind, work'[i].sim)
  <2>1. CASE i <= Len(work)
    <3>1. i \in 1..Len(work) /\ work'[i] = work[i]
      BY <1>2, <1>3, <2>1
    <3> QED BY <1>1, <1>4, <3>1, OldWorkStays
  <2>2. CASE i > Len(work)
    <3>1. work'[i] = new
      BY <1>2, <1>3, <2>2
    <3>2. UNCHANGED req /\ UNCHANGED had
      BY DEF Elsewhere, sessionVars, askVars
    <3> QED BY <1>4, <3>1, <3>2
  <2> QED BY <1>2, <1>3, <2>1, <2>2
<1>5. WorkIsGranted'
  BY <1>4 DEF WorkIsGranted
<1>6. MaxWork \in Nat
  OBVIOUS
<1> QED BY <1>2, <1>3, <1>5, <1>6 DEF WorkShape

(* What the reader thread is at. *)
LEMMA Reading ==
  ASSUME InteractionShape
  PROVE  /\ reader.at = "acting" => reader \in Acts
         /\ reader.at = "reporting" => reader \in Reporting
         /\ \A kinds : Takes(kinds) => reader = Idle
         /\ Idle \notin Acts \cup Reporting
         /\ \A sim : InQueueOf(sim) \in SUBSET Work
BY PlacesOfWork DEF InteractionShape, Idle, Acts, Reporting, Takes, InQueueOf

LEMMA Untouched ==
  ASSUME InteractionInv
  PROVE  /\ current \in Requests \cup {NoRequest} /\ clientSim \in [Players -> SomeSim]
         /\ registered \in [Work -> Requests \cup {NoRequest}]
         /\ reader \in {Idle} \cup Acts \cup Reporting /\ (reader = Idle => current = NoRequest)
         /\ ClientFits /\ InteractionShape
BY DEF InteractionInv, InteractionShape

(* The order that is acted on is what was accepted. *)
LEMMA OrderInHand ==
  ASSUME InteractionInv, reader \in Acts \cup Reporting
  PROVE  /\ reader.m \in Orders /\ reader.m.r \in Requests /\ reader.m.sim \in Sims
         /\ reader.m.kind \in Kinds /\ req[reader.m.r].kind = reader.m.kind
         /\ Granted(req, had, reader.m.r, reader.m.kind, reader.m.sim)
<1>1. reader # Idle /\ reader.m \in Orders
  BY DEF Idle, Acts, Reporting
<1>2. IsGranted(req, had, reader.m)
  BY <1>1 DEF InteractionInv, OrdersAreGranted
<1> QED BY <1>1, <1>2 DEF IsGranted, Granted, Orders

LEMMA ResolvesKeeps ==
  ASSUME InteractionInv, Resolves
  PROVE  InteractionInv'
<1> DEFINE m == Head(todo)
<1>1. Takes({"request"}) /\ Elsewhere /\ UNCHANGED <<current, clientSim, registered, work>>
  BY DEF Resolves
<1>2. /\ m \in Orders /\ m.kind = "request" /\ IsGranted(req', had', m)
      /\ todo' \in Seq(GameMsg) /\ TodoGranted' /\ reader = Idle /\ current = NoRequest
  BY <1>1, TakenOrder DEF Kinds
<1>3. WorkShape' /\ WorkIsGranted'
  BY <1>1, WorkStays
<1>4. CASE Acting(m) /\ NoReport
  <2>1. reader' \in Acts /\ reader'.m = m /\ reader' # Idle
    BY <1>2, <1>4, Reading, Untouched DEF Acting, Acts, Idle
  <2>2. ClientFits'
    BY <1>2, <2>1 DEF ClientFits
  <2> QED BY <1>1, <1>2, <1>3, <1>4, <2>1, <2>2, Untouched, SilenceIsKept, HostGameKeeps DEF NoReport
<1>5. CASE Rejects(m) /\ UNCHANGED reader
  <2>1. m.r \in Requests
    BY <1>2 DEF Orders
  <2>2. MessagesKept
    BY <1>1, <1>5, <2>1, ReportIsKept DEF Rejects
  <2>3. ClientFits'
    BY <1>2, <1>5 DEF ClientFits, Idle
  <2> QED BY <1>1, <1>2, <1>3, <1>5, <2>2, <2>3, Untouched, HostGameKeeps
<1> QED BY <1>4, <1>5 DEF Resolves

LEMMA BeginsKeeps ==
  ASSUME InteractionInv, Begins
  PROVE  InteractionInv'
<1> DEFINE m == Head(todo)
<1>1. Takes(Kinds \ {"request"}) /\ Elsewhere /\ UNCHANGED <<registered, work>>
  BY DEF Begins
<1>2. /\ m \in Orders /\ IsGranted(req', had', m)
      /\ todo' \in Seq(GameMsg) /\ TodoGranted' /\ reader = Idle /\ current = NoRequest
  BY <1>1, TakenOrder
<1>3. WorkShape' /\ WorkIsGranted'
  BY <1>1, WorkStays
<1>4. m.r \in Requests /\ m.player \in Players /\ m.sim \in Sims
  BY <1>2 DEF Orders
<1>5. CASE Acting(m) /\ current' = m.r /\ ClientFor(m) /\ NoReport
  <2>1. reader' \in Acts /\ reader'.m = m /\ reader' # Idle
    BY <1>2, <1>5, Reading, Untouched DEF Acting, Acts, Idle
  <2>2. clientSim' \in [Players -> SomeSim] /\ clientSim'[m.player] = m.sim
    BY <1>4, <1>5, Untouched DEF ClientFor, SomeSim
  <2>3. ClientFits'
    BY <2>1, <2>2 DEF ClientFits
  <2> QED BY <1>1, <1>2, <1>3, <1>4, <1>5, <2>1, <2>2, <2>3, Untouched, SilenceIsKept, HostGameKeeps DEF NoReport
<1>6. CASE Rejects(m) /\ UNCHANGED <<reader, current, clientSim>>
  <2>1. MessagesKept
    BY <1>1, <1>4, <1>6, ReportIsKept DEF Rejects
  <2>2. ClientFits'
    BY <1>2, <1>6 DEF ClientFits, Idle
  <2> QED BY <1>1, <1>2, <1>3, <1>6, <2>1, <2>2, Untouched, HostGameKeeps
<1> QED BY <1>5, <1>6 DEF Begins

LEMMA PushesKeeps ==
  ASSUME InteractionInv, Pushes
  PROVE  InteractionInv'
<1> DEFINE m == reader.m
           i == Len(work) + 1
           new(stage) == [sim |-> ActsOn(m), by |-> m.r, stage |-> stage]
<1>1. Elsewhere /\ UNCHANGED <<current, clientSim, registered, todo>> /\ reader.at = "acting"
      /\ m.kind \in Reportable /\ i \in Work
  BY DEF Pushes
<1>2. reader \in Acts
  BY <1>1, Reading, Untouched
<1>3. m \in Orders /\ m.r \in Requests /\ m.sim \in Sims /\ m.kind \in Kinds
      /\ req[m.r].kind = m.kind /\ Granted(req, had, m.r, m.kind, m.sim)
  BY <1>2, OrderInHand
<1>4. ActsOn(m) = m.sim
  BY <1>1, Untouched DEF ActsOn, ClientFits
<1>5. /\ todo' \in Seq(GameMsg) /\ TodoGranted'
  BY <1>1, TodoStays
<1>6. reader' = [at |-> "reporting", m |-> m, before |-> reader.before, made |-> i]
  BY DEF Pushes
<1>7. reader' \in Reporting /\ reader' # Idle /\ reader'.m = m /\ reader'.at = "reporting"
  BY <1>1, <1>2, <1>3, <1>6 DEF Reporting, Acts, Idle
<1>8. IsGranted(req', had', m)
  <2>1. UNCHANGED req /\ UNCHANGED had
    BY <1>1 DEF Elsewhere, sessionVars, askVars
  <2> QED BY <1>3, <2>1 DEF IsGranted
<1>9. ClientFits'
  BY <1>7 DEF ClientFits
<1>10. ASSUME NEW stage \in {"queued", "running", "gone"}, work' = Append(work, new(stage))
       PROVE  WorkShape' /\ WorkIsGranted'
  <2>1. new(stage) \in Interaction /\ new(stage).by = m.r /\ new(stage).sim = m.sim
    BY <1>3, <1>4 DEF Interaction
  <2>2. Len(work) < MaxWork
    BY <1>1, PlacesOfWork, Untouched DEF Work
  <2> HIDE DEF new, m
  <2> QED BY <1>1, <1>3, <1>10, <2>1, <2>2, WorkGrows
<1>11. CASE work' = Append(work, new("queued")) /\ NoReport
  BY <1>1, <1>5, <1>7, <1>8, <1>9, <1>10, <1>11, Untouched, SilenceIsKept, HostGameKeeps DEF NoReport
<1>12. CASE /\ work' = Append(work, new("running"))
            /\ IF m.kind = "push" THEN Reports(<<Report("started", m.r, i)>>) ELSE NoReport
  <2>1. MessagesKept
    BY <1>1, <1>3, <1>12, ReportIsKept, SilenceIsKept DEF NoReport
  <2> QED BY <1>1, <1>5, <1>7, <1>8, <1>9, <1>10, <1>12, <2>1, Untouched, HostGameKeeps
<1> QED BY <1>11, <1>12 DEF Pushes

LEMMA ActsSilentlyKeeps ==
  ASSUME InteractionInv, ActsSilently
  PROVE  InteractionInv'
<1> DEFINE m == reader.m
<1>1. Elsewhere /\ UNCHANGED <<clientSim, registered, todo, up>> /\ reader' = Idle /\ current' = NoRequest
  BY DEF ActsSilently, Finishes, NoReport
<1>2. WorkShape' /\ WorkIsGranted'
  <2>1. CASE work' = work
    BY <1>1, <2>1, WorkStays
  <2>2. CASE Alive(m.iid, ActsOn(m)) /\ work' = Gone(m.iid)
    BY <1>1, <2>2, WorkMoves DEF Alive, Gone
  <2> QED BY <2>1, <2>2 DEF ActsSilently
<1>3. ClientFits'
  BY <1>1 DEF ClientFits, Idle
<1> QED BY <1>1, <1>2, <1>3, Untouched, SilenceIsKept, TodoStays, HostGameKeeps

LEMMA FailsKeeps ==
  ASSUME InteractionInv, Fails
  PROVE  InteractionInv'
<1>1. Elsewhere /\ UNCHANGED <<clientSim, registered, work, todo>> /\ reader' = Idle /\ current' = NoRequest
      /\ reader.at = "acting"
  BY DEF Fails, Finishes
<1>2. reader.m.r \in Requests
  BY <1>1, Reading, Untouched, OrderInHand
<1>3. MessagesKept
  BY <1>1, <1>2, ReportIsKept DEF Fails, Rejects
<1>4. ClientFits'
  BY <1>1 DEF ClientFits, Idle
<1> QED BY <1>1, <1>3, <1>4, Untouched, WorkStays, TodoStays, HostGameKeeps

LEMMA ReportsQueuedKeeps ==
  ASSUME InteractionInv, reader.at = "reporting", reader.m.kind \in Reportable,
         NEW these \in SUBSET Work, ReportsQueued(these)
  PROVE  InteractionInv'
<1> DEFINE m == reader.m
<1>1. Elsewhere /\ UNCHANGED <<clientSim, work, todo>> /\ reader' = Idle /\ current' = NoRequest
  BY DEF ReportsQueued, Finishes
<1>2. m.r \in Requests /\ req[m.r].kind \in Reportable
  BY Reading, Untouched, OrderInHand
<1>3. MessagesKept /\ registered' \in [Work -> Requests \cup {NoRequest}]
  <2>1. CASE \E i \in these : /\ registered' = [registered EXCEPT ![i] = m.r]
                              /\ Reports(<<Report("queued", m.r, i)>>)
    <3>1. PICK i \in these : /\ registered' = [registered EXCEPT ![i] = m.r]
                             /\ Reports(<<Report("queued", m.r, i)>>)
      BY <2>1
    <3>2. MessagesKept
      BY <1>1, <1>2, <3>1, ReportIsKept
    <3> QED BY <1>2, <3>1, <3>2, Untouched
  <2>2. CASE NoReport /\ UNCHANGED registered
    BY <1>1, <2>2, Untouched, SilenceIsKept DEF NoReport
  <2> QED BY <2>1, <2>2 DEF ReportsQueued
<1>4. ClientFits'
  BY <1>1 DEF ClientFits, Idle
<1> QED BY <1>1, <1>3, <1>4, Untouched, WorkStays, TodoStays, HostGameKeeps

LEMMA QueuedKeeps ==
  ASSUME InteractionInv, RequestQueued \/ CommandQueued
  PROVE  InteractionInv'
<1>1. reader.at = "reporting" /\ reader.m.kind \in Reportable
  BY DEF RequestQueued, CommandQueued, Reportable
<1>2. reader.made \in Work
  BY <1>1, Reading, Untouched DEF Reporting
<1>3. {reader.made} \in SUBSET Work /\ {reader.made} \cup (InQueueOf(reader.m.sim) \ reader.before) \in SUBSET Work
  BY <1>2, Reading, Untouched
<1> QED BY <1>1, <1>3, ReportsQueuedKeeps DEF RequestQueued, CommandQueued

LEMMA CancelsKeeps ==
  ASSUME InteractionInv, Cancels
  PROVE  InteractionInv'
<1> DEFINE m == Head(todo)
<1>1. Takes({"cancel"}) /\ Elsewhere /\ UNCHANGED <<reader, current, clientSim, registered>>
  BY DEF Cancels
<1>2. /\ m \in Recalls /\ todo' \in Seq(GameMsg) /\ TodoGranted' /\ reader = Idle /\ current = NoRequest
  BY <1>1, TakenOrder
<1>3. m.r \in Requests \cup {NoRequest} /\ m.iid \in Work
  BY <1>2 DEF Recalls
<1>4. MessagesKept /\ WorkShape' /\ WorkIsGranted'
  <2>1. CASE Alive(m.iid, m.sim) /\ work' = Gone(m.iid) /\ Reports(<<Report("finished", m.r, m.iid)>>)
    BY <1>1, <1>3, <2>1, WorkMoves, ReportIsKept DEF Alive, Gone
  <2>2. CASE Rejects(m) /\ UNCHANGED work
    BY <1>1, <1>3, <2>2, WorkStays, ReportIsKept DEF Rejects
  <2> QED BY <2>1, <2>2 DEF Cancels
<1>5. ClientFits'
  BY <1>1, <1>2 DEF ClientFits, Idle
<1> QED BY <1>1, <1>2, <1>4, <1>5, Untouched, HostGameKeeps

(* Steps of the game thread leave the reader thread at what it is. *)
LEMMA GameThreadKeeps ==
  ASSUME InteractionInv, Elsewhere, UNCHANGED <<reader, current, clientSim, todo>>,
         MessagesKept, registered' \in [Work -> Requests \cup {NoRequest}], WorkShape', WorkIsGranted'
  PROVE  InteractionInv'
<1>1. reader' # Idle => IsGranted(req', had', reader'.m)
  BY ElsewhereStays, OldOrdersStay DEF InteractionInv
<1>2. ClientFits'
  BY Untouched DEF ClientFits
<1> QED BY <1>1, <1>2, Untouched, TodoStays, HostGameKeeps

LEMMA OwnWorkKeeps ==
  ASSUME InteractionInv, NEW sim \in Loads[Host], OwnWork(sim)
  PROVE  InteractionInv'
<1> DEFINE new == [sim |-> sim, by |-> NoRequest, stage |-> "queued"]
<1>1. Elsewhere /\ UNCHANGED <<reader, current, clientSim, registered, todo, up>>
      /\ Len(work) < MaxWork /\ work' = Append(work, new)
  BY DEF OwnWork
<1>2. new \in Interaction /\ new.by = NoRequest
  BY DEF Interaction
<1> HIDE DEF new
<1>3. WorkShape' /\ WorkIsGranted'
  BY <1>1, <1>2, WorkGrows
<1> QED BY <1>1, <1>3, Untouched, SilenceIsKept, GameThreadKeeps

LEMMA StartsKeeps ==
  ASSUME InteractionInv, NEW i \in DOMAIN work, Starts(i)
  PROVE  InteractionInv'
<1> DEFINE r == IF registered[i] # NoRequest THEN registered[i] ELSE current
<1>1. Elsewhere /\ UNCHANGED <<reader, current, clientSim, todo>>
      /\ work' = [work EXCEPT ![i].stage = "running"] /\ registered' = [registered EXCEPT ![i] = NoRequest]
      /\ IF Counts(r) THEN Reports(<<Report("started", r, i)>>) ELSE NoReport
  BY DEF Starts
<1>2. i \in Work
  BY PlacesOfWork, Untouched
<1>3. r \in Requests \cup {NoRequest}
  BY <1>2, Untouched
<1>4. registered' \in [Work -> Requests \cup {NoRequest}]
  BY <1>1, Untouched
<1>5. WorkShape' /\ WorkIsGranted'
  BY <1>1, WorkMoves
<1>6. MessagesKept
  <2>1. CASE Counts(r) /\ Reports(<<Report("started", r, i)>>)
    <3>1. req[r].kind \in Reportable
      BY <2>1 DEF Counts
    <3> HIDE DEF r
    <3> QED BY <1>1, <1>2, <1>3, <2>1, <3>1, ReportIsKept
  <2>2. CASE NoReport
    BY <1>1, <2>2, SilenceIsKept DEF NoReport
  <2> QED BY <1>1, <2>1, <2>2
<1> QED BY <1>1, <1>4, <1>5, <1>6, GameThreadKeeps

LEMMA EndsKeeps ==
  ASSUME InteractionInv, NEW i \in DOMAIN work, Ends(i)
  PROVE  InteractionInv'
<1>1. Elsewhere /\ UNCHANGED <<reader, current, clientSim, registered, todo, up>>
      /\ work' = [work EXCEPT ![i].stage = "gone"]
  BY DEF Ends, Gone
<1>2. WorkShape' /\ WorkIsGranted'
  BY <1>1, WorkMoves
<1> QED BY <1>1, <1>2, Untouched, SilenceIsKept, GameThreadKeeps

-----------------------------------------------------------------------------
(* The theorems. *)

LEMMA InteractionStart == InteractionInit => InteractionInv
<1> SUFFICES ASSUME InteractionInit PROVE InteractionInv
  OBVIOUS
<1>1. SessionInv /\ GamesShape
  <2>1. SessionShape
    BY DEF InteractionInit, SelectionInit, SessionShape, SomeSim
  <2>2. SimsWereHad
    BY DEF InteractionInit, SelectionInit, SimsWereHad
  <2>3. ControllersAreHere
    BY DEF InteractionInit, SelectionInit, ControllersAreHere
  <2>4. \A p \in Players : selected[p] \in SomeSim
    BY DEF InteractionInit, SelectionInit, SomeSim
  <2>5. GamesShape
    BY <2>4 DEF InteractionInit, SelectionInit, GamesShape, SomeSim
  <2> QED BY <2>1, <2>2, <2>3, <2>5 DEF SessionInv
<1>2. SelectionTypeOK
  BY <1>1, Shapes DEF SessionInv
<1>3. InteractionShape
  <2>1. NoReq \in RequestRecords
    BY DEF NoReq, RequestRecords, Statuses, SomeSim
  <2>2. req \in [Requests -> RequestRecords]
    BY <2>1 DEF InteractionInit
  <2>3. /\ up \in [Players -> Seq(UpMsg)] /\ pending \in [Players -> Seq(GameMsg)] /\ todo \in Seq(GameMsg)
    BY DEF InteractionInit, SelectionInit
  <2>4. work \in Seq(Interaction) /\ Len(work) <= MaxWork
    BY DEF InteractionInit
  <2> QED BY <1>2, <2>2, <2>3, <2>4 DEF InteractionShape, InteractionInit, RequestRecords, Interaction, SomeSim
<1>4. OrdersAreGranted
  BY DEF InteractionInit, OrdersAreGranted
<1>5. ClientFits
  BY DEF InteractionInit, ClientFits, Idle
<1>6. WorkIsGranted
  BY DEF InteractionInit, WorkIsGranted
<1>7. ReportsAreTruthful
  BY DEF InteractionInit, SelectionInit, ReportsAreTruthful
<1>8. MenusNeverStart
  BY DEF InteractionInit, MenusNeverStart, NoReq
<1> QED BY <1>1, <1>3, <1>4, <1>5, <1>6, <1>7, <1>8, InvParts

LEMMA InteractionIdle ==
  ASSUME InteractionInv, UNCHANGED interactionVars
  PROVE  InteractionInv'
<1>1. UNCHANGED <<sessionVars, gameVars, nudges, late, up, req, pending, known, used, todo, hostGameVars>>
  BY DEF interactionVars, selectionVars, askVars
<1>2. GrantsLast /\ InteractionShape /\ OrdersAreGranted /\ ReportsAreTruthful /\ MenusNeverStart
  BY <1>1, HadStays, SameRequests DEF InteractionInv, sessionVars
<1>3. MessagesKept
  <2>1. Host \in Players
    OBVIOUS
  <2> QED BY <1>1, <1>2, <2>1, ChannelsStayTruthful DEF Shrinks, MessagesKept
<1>4. PendingGranted' /\ TodoGranted'
  BY <1>1, <1>2, OldOrdersStay DEF PendingGranted, TodoGranted
<1> QED BY <1>1, <1>2, <1>3, <1>4, SessionStepKeeps DEF InteractionShape, RequestRecords, MenusNeverStart

LEMMA InteractionStep == InteractionInv /\ [InteractionNext]_interactionVars => InteractionInv'
<1> SUFFICES ASSUME InteractionInv, [InteractionNext]_interactionVars PROVE InteractionInv'
  OBVIOUS
<1>1. ASSUME NEW p \in Players, PlayerStep(p) PROVE InteractionInv'
  <2>1. CASE SelectionMoves(p) \/ Connections(p)
    BY <2>1, SelectionMovesKeep
  <2>2. ASSUME NEW r \in Requests,
               \/ PicksEntry(p, r) \/ PushesAffordance(p, r)
               \/ CommandsPush(p, r) \/ CommandsChoice(p, r)
               \/ \E i \in DOMAIN work : CommandsCancel(p, r, i)
        PROVE  InteractionInv'
    BY <2>2, ClientAsksKeep
  <2>3. ASSUME NEW i \in DOMAIN work, AsksToCancel(p, i) PROVE InteractionInv'
    BY <2>3, AsksToCancelKeeps
  <2>4. CASE TakesAsk(p) \/ TakesCancel(p) \/ ToHostGame(p)
    BY <2>4, TakesAskKeeps, TakesCancelKeeps, ToHostGameKeeps
  <2> QED BY <1>1, <2>1, <2>2, <2>3, <2>4 DEF PlayerStep
<1>2. CASE HostGameStep
  BY <1>2, ResolvesKeeps, BeginsKeeps, PushesKeeps, ActsSilentlyKeeps, FailsKeeps, QueuedKeeps,
     CancelsKeeps, OwnWorkKeeps, StartsKeeps, EndsKeeps DEF HostGameStep
<1>3. CASE TakesReport
  BY <1>3, TakesReportKeeps
<1>4. ASSUME NEW r \in Requests, NEW s \in Sims, HostAsks(r, s) PROVE InteractionInv'
  BY <1>4, HostAsksKeeps
<1>5. CASE UNCHANGED interactionVars
  BY <1>5, InteractionIdle
<1> QED BY <1>1, <1>2, <1>3, <1>4, <1>5 DEF InteractionNext

(* The invariant behind the theorems: orders on their way to the host's game *)
(* are what validate_interaction accepted, and what the game says of them is *)
(* true, whichever of its two threads says it.                              *)
THEOREM InteractionInvariant == InteractionSpec => []InteractionInv
BY InteractionStart, InteractionStep, PTL DEF InteractionSpec

(* Requests, orders, interactions and Clients keep their form, and the active *)
(* command is cleared whenever the reader thread is done (the finally block). *)
THEOREM InteractionTypesHold == InteractionSpec => []InteractionTypeOK
<1>1. InteractionInv => InteractionTypeOK
  BY DEF InteractionInv, InteractionShape, InteractionTypeOK, Idle, Acts, Reporting
<1> QED BY <1>1, InteractionInvariant, PTL

(* add_player, remove_player, update_sims and select_sim keep the controllers *)
(* of every Sim true, though each recomputes only some of them.              *)
THEOREM ControllersStayHere == InteractionSpec => []ControllersAreHere
<1>1. InteractionInv => ControllersAreHere
  BY DEF InteractionInv
<1> QED BY <1>1, InteractionInvariant, PTL

(* What the host's game does for a request, after validate_interaction, the   *)
(* bridge and the Client of its player, it does to the Sim it was accepted    *)
(* for, one that player had.                                                *)
THEOREM PlayersMoveTheirOwnSims == InteractionSpec => []OwnSimsOnly
<1>1. InteractionInv => OwnSimsOnly
  <2> SUFFICES ASSUME InteractionInv, NEW i \in DOMAIN work, work[i].by # NoRequest
               PROVE  work[i].sim = req[work[i].by].sim /\ req[work[i].by].sim \in had[req[work[i].by].player]
    BY DEF OwnSimsOnly
  <2>1. i \in 1..Len(work)
    BY PlacesOfWork DEF InteractionInv
  <2> QED BY <2>1 DEF InteractionInv, WorkIsGranted, Granted
<1> QED BY <1>1, InteractionInvariant, PTL

(* _native_interaction_started takes a start it cannot place for the active   *)
(* command; still nothing that fills a menu or cancels is reported to have    *)
(* been queued or started.                                                  *)
THEOREM MenusAreNeverCounted == InteractionSpec => []MenusNeverStart
<1>1. InteractionInv => MenusNeverStart
  BY DEF InteractionInv
<1> QED BY <1>1, InteractionInvariant, PTL

================================================================================
