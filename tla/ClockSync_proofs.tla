---------------------------- MODULE ClockSync_proofs ----------------------------
(***************************************************************************)
(* Proofs about the clock, for any number of players, any speeds a game may *)
(* set, and channels of any length.                                         *)
(***************************************************************************)
EXTENDS ClockSync, SequenceTheorems, TLAPS

USE ClockAssumption

(* The states the session can have, and tell. *)
Clocks == {c \in [speed : Speeds, paused : BOOLEAN] : c.paused <=> c.speed = 0}

(* Clients ask for speeds the session has a name for, the host's game       *)
(* reports speeds only.                                                     *)
Asked == {Speed(s) : s \in Speeds} \cup {Pause(b) : b \in BOOLEAN}
Reported == {Speed(s) : s \in Offered}

ClockShape ==
    /\ joined \subseteq Players /\ Host \in joined /\ clock \in Clocks
    /\ speed \in [Players -> Offered \cup Speeds]
    /\ stage \in [Players -> {"idle", "before", "after"}]
    /\ inbox \in [Players -> Seq(Clocks)]
    /\ outbox \in [Players -> Seq(Report)]
    /\ told \subseteq joined /\ slipped \subseteq joined /\ crossed \in BOOLEAN
    /\ outbox[Host] \in Seq(Reported)
    /\ \A p \in Players \ {Host} : outbox[p] \in Seq(Asked)

(* A state that is about to be set has not been taken from the channel, and *)
(* none is on its way to a player who has not joined.                       *)
StagesFit ==
    \A p \in Players : /\ stage[p] = "before" => inbox[p] # <<>>
                       /\ stage[p] # "idle" \/ inbox[p] # <<>> => p \in joined

(* The last state on its way to a client is the session's, and a client    *)
(* to whom nothing is on its way has carried it out.                        *)
NewestIsLast(p) == inbox[p] # <<>> => inbox[p][Len(inbox[p])] = clock
ClientsCatchUp ==
    \A p \in Players \ {Host} :
        /\ NewestIsLast(p)
        /\ p \in told \ slipped /\ inbox[p] = <<>> => speed[p] = clock.speed

(* Unless they crossed, states and reports are never both under way between *)
(* the session and the host's game, and the newest of them is what the     *)
(* other side has.                                                         *)
HostCatchesUp ==
    ~crossed =>
        /\ NewestIsLast(Host) /\ (inbox[Host] # <<>> => outbox[Host] = <<>>)
        /\ Host \notin slipped =>
             /\ inbox[Host] = <<>> /\ outbox[Host] = <<>> => speed[Host] = clock.speed
             /\ outbox[Host] # <<>> => outbox[Host][Len(outbox[Host])] = Speed(speed[Host])

ClockInv == ClockShape /\ StagesFit /\ ClientsCatchUp /\ HostCatchesUp

-----------------------------------------------------------------------------
(* Sequences as channels. *)

LEMMA AppendIsLast ==
  ASSUME NEW S, NEW s \in Seq(S), NEW e \in S
  PROVE  /\ Append(s, e) \in Seq(S) /\ Append(s, e) # <<>>
         /\ Append(s, e)[Len(Append(s, e))] = e
  BY AppendProperties

LEMMA TailKeepsLast ==
  ASSUME NEW S, NEW s \in Seq(S), s # <<>>
  PROVE  /\ Tail(s) \in Seq(S) /\ Head(s) \in S
         /\ Tail(s) # <<>> => Tail(s)[Len(Tail(s))] = s[Len(s)]
         /\ Tail(s) = <<>> => Head(s) = s[Len(s)]
         /\ Tail(s) = <<>> <=> Len(s) = 1
<1>1. /\ Tail(s) \in Seq(S) /\ Head(s) \in S /\ Len(Tail(s)) = Len(s) - 1
      /\ \A i \in 1..Len(Tail(s)) : Tail(s)[i] = s[i + 1]
  BY HeadTailProperties
<1>2. Len(s) \in Nat \ {0} /\ (Tail(s) = <<>> <=> Len(Tail(s)) = 0)
  BY <1>1, EmptySeq
<1>3. Head(s) = s[1]
  BY DEF Head
<1>4. ASSUME Tail(s) # <<>> PROVE Tail(s)[Len(Tail(s))] = s[Len(s)]
  <2>1. Len(Tail(s)) \in 1..Len(Tail(s))
    BY <1>1, <1>2, <1>4
  <2> QED BY <1>1, <1>2, <2>1
<1> QED BY <1>1, <1>2, <1>3, <1>4

LEMMA ClampedSpeeds ==
  ASSUME NEW n \in Nat
  PROVE  Lesser(n, 3) \in Speeds
  BY DEF Lesser, Speeds

(* A game runs at the speed of the state it sets, exactly. *)
LEMMA AppliedIsItsSpeed ==
  ASSUME NEW c \in Clocks
  PROVE  Applied(c) = c.speed
  BY DEF Applied, Clocks, Greater, Lesser, Speeds

LEMMA DecidedIsAClock ==
  ASSUME clock \in Clocks, NEW m \in Asked
  PROVE  Decided(m) \in Clocks
<1>1. CASE \E s \in Speeds : m = Speed(s)
  <2>1. PICK s \in Speeds : m = Speed(s)
    BY <1>1
  <2>2. m[1] = "speed" /\ m[2] = s
    BY <2>1 DEF Speed
  <2> QED BY <2>2 DEF Decided, Clock, Clocks
<1>2. CASE \E b \in BOOLEAN : m = Pause(b)
  <2>1. PICK b \in BOOLEAN : m = Pause(b)
    BY <1>2
  <2>2. m[1] # "speed" /\ m[2] = b
    BY <2>1 DEF Pause
  <2>3. Greater(1, clock.speed) \in 1..3
    BY DEF Clocks, Greater, Speeds
  <2> QED BY <2>2, <2>3 DEF Decided, Clocks, Speeds
<1> QED BY <1>1, <1>2 DEF Asked

-----------------------------------------------------------------------------

LEMMA InitClockInv == ClockInit => ClockInv
<1> SUFFICES ASSUME ClockInit PROVE ClockInv
  OBVIOUS
<1>1. <<>> \in Seq(Clocks) /\ <<>> \in Seq(Report) /\ <<>> \in Seq(Reported) /\ <<>> \in Seq(Asked)
  OBVIOUS
<1>2. clock \in Clocks /\ speed \in [Players -> Offered \cup Speeds]
  BY DEF ClockInit, Clocks, Speeds
<1>3. ClockShape
  BY <1>1, <1>2 DEF ClockInit, ClockShape
<1>4. StagesFit /\ ClientsCatchUp /\ HostCatchesUp
  BY DEF ClockInit, StagesFit, ClientsCatchUp, HostCatchesUp, NewestIsLast
<1> QED BY <1>3, <1>4 DEF ClockInv

LEMMA JoinsKeeps ==
  ASSUME ClockInv, NEW p \in Players, Joins(p)
  PROVE  ClockInv'
<1>1. p # Host /\ p \notin told
  BY DEF Joins, ClockInv, ClockShape
<1>2. ClockShape'
  BY DEF Joins, ClockInv, ClockShape
<1>3. StagesFit'
  BY DEF Joins, ClockInv, StagesFit
<1>4. ClientsCatchUp'
  BY <1>1 DEF Joins, ClockInv, ClockShape, ClientsCatchUp, NewestIsLast
<1>5. HostCatchesUp'
  BY <1>1 DEF Joins, ClockInv, ClockShape, HostCatchesUp, NewestIsLast
<1> QED BY <1>2, <1>3, <1>4, <1>5 DEF ClockInv

(* Under the bypass a change is lost on the session.  Before the state is    *)
(* set it does not matter, after it the change counts as slipped.           *)
LEMMA BypassKeeps ==
  ASSUME ClockInv, NEW p \in joined, NEW s \in Offered, UnderBypass(p, s),
         UNCHANGED <<joined, clock, stage, inbox, told>>
  PROVE  ClockInv'
<1>1. p \in Players /\ stage[p] \in {"before", "after"}
  BY DEF UnderBypass, ClockInv, ClockShape
<1>2. ClockShape'
  BY <1>1 DEF UnderBypass, Runs, ClockInv, ClockShape
<1>3. StagesFit'
  BY DEF ClockInv, StagesFit
<1>4. ClientsCatchUp'
  <2> SUFFICES ASSUME NEW q \in Players \ {Host}
               PROVE  /\ NewestIsLast(q)'
                      /\ q \in told \ slipped' /\ inbox[q] = <<>> => speed'[q] = clock.speed
    BY DEF ClientsCatchUp
  <2>1. NewestIsLast(q)'
    BY DEF ClockInv, ClientsCatchUp, NewestIsLast
  <2>2. CASE q = p
    BY <1>1, <2>1, <2>2 DEF ClockInv, StagesFit, UnderBypass
  <2>3. CASE q # p
    BY <2>1, <2>3 DEF ClockInv, ClockShape, ClientsCatchUp, UnderBypass, Runs
  <2> QED BY <2>2, <2>3
<1>5. HostCatchesUp'
  <2>1. NewestIsLast(Host)' <=> NewestIsLast(Host)
    BY DEF NewestIsLast
  <2>2. CASE p = Host /\ stage[p] = "before"
    BY <1>1, <2>1, <2>2 DEF ClockInv, StagesFit, HostCatchesUp, UnderBypass
  <2>3. CASE p = Host /\ stage[p] = "after"
    BY <1>1, <2>1, <2>3 DEF ClockInv, HostCatchesUp, UnderBypass
  <2>4. CASE p # Host
    BY <2>1, <2>4 DEF ClockInv, ClockShape, HostCatchesUp, UnderBypass, Runs
  <2> QED BY <1>1, <2>2, <2>3, <2>4
<1> QED BY <1>2, <1>3, <1>4, <1>5 DEF ClockInv

LEMMA AsksKeeps ==
  ASSUME ClockInv, NEW p \in Players, NEW m \in Asked, Asks(p, m),
         UNCHANGED <<joined, clock, stage, inbox, told>>
  PROVE  ClockInv'
<1>1. p # Host /\ outbox[p] \in Seq(Asked)
  BY DEF Asks, ClockInv, ClockShape
<1>2. Asked \subseteq Report
  BY DEF Asked, Report
<1>3. Append(outbox[p], m) \in Seq(Asked) /\ Append(outbox[p], m) \in Seq(Report)
  BY <1>1, <1>2, AppendIsLast DEF ClockInv, ClockShape
<1>4. ClockShape'
  BY <1>1, <1>3 DEF Asks, Sends, ClockInv, ClockShape
<1>5. StagesFit' /\ ClientsCatchUp'
  BY DEF Asks, ClockInv, StagesFit, ClientsCatchUp, NewestIsLast
<1>6. HostCatchesUp'
  BY <1>1 DEF Asks, Sends, ClockInv, ClockShape, HostCatchesUp, NewestIsLast
<1> QED BY <1>4, <1>5, <1>6 DEF ClockInv

LEMMA ChangesAndReportsKeeps ==
  ASSUME ClockInv, NEW s \in Offered, ChangesAndReports(s),
         UNCHANGED <<joined, clock, stage, inbox, told>>
  PROVE  ClockInv'
<1> DEFINE m == Speed(s)
<1>1. m \in Reported /\ m \in Report
  BY DEF Reported, Report
<1>2. /\ Append(outbox[Host], m) \in Seq(Reported) /\ Append(outbox[Host], m) \in Seq(Report)
      /\ Append(outbox[Host], m) # <<>>
      /\ Append(outbox[Host], m)[Len(Append(outbox[Host], m))] = m
  BY <1>1, AppendIsLast DEF ClockInv, ClockShape
<1>3. outbox'[Host] = Append(outbox[Host], m) /\ speed'[Host] = s
  BY DEF ChangesAndReports, Sends, Runs, ClockInv, ClockShape
<1>4. ClockShape'
  BY <1>2, <1>3 DEF ChangesAndReports, Sends, Runs, ClockInv, ClockShape
<1>5. StagesFit' /\ ClientsCatchUp'
  BY DEF ChangesAndReports, Runs, ClockInv, ClockShape, StagesFit, ClientsCatchUp, NewestIsLast
<1>6. HostCatchesUp'
  BY <1>2, <1>3 DEF ChangesAndReports, ClockInv, HostCatchesUp, NewestIsLast
<1> QED BY <1>4, <1>5, <1>6 DEF ClockInv

LEMMA GameChangesKeeps ==
  ASSUME ClockInv, NEW p \in Players, GameChanges(p)
  PROVE  ClockInv'
<1>1. UNCHANGED <<joined, clock, stage, inbox, told>> /\ p \in joined
  BY DEF GameChanges
<1>2. PICK s \in Offered : \/ UnderBypass(p, s)
                           \/ Asks(p, Speed(Lesser(s, 3)))
                           \/ Asks(p, Pause(FALSE))
                           \/ p = Host /\ ChangesAndReports(s)
  BY DEF GameChanges
<1>3. Speed(Lesser(s, 3)) \in Asked /\ Pause(FALSE) \in Asked
  BY ClampedSpeeds DEF Asked
<1> QED BY <1>1, <1>2, <1>3, BypassKeeps, AsksKeeps, ChangesAndReportsKeeps

-----------------------------------------------------------------------------

LEMMA BeforeAndAfterKeep ==
  ASSUME ClockInv, NEW p \in Players, Before(p) \/ After(p)
  PROVE  ClockInv'
<1>1. UNCHANGED <<joined, clock, speed, inbox, outbox, told, slipped, crossed>>
  BY DEF Before, After
<1>2. ClockShape'
  BY <1>1 DEF Before, After, ClockInv, ClockShape
<1>3. StagesFit'
  BY <1>1 DEF Before, After, ClockInv, ClockShape, StagesFit
<1>4. ClientsCatchUp' /\ HostCatchesUp'
  BY <1>1 DEF ClockInv, ClientsCatchUp, HostCatchesUp, NewestIsLast
<1> QED BY <1>2, <1>3, <1>4 DEF ClockInv

LEMMA SetsKeeps ==
  ASSUME ClockInv, NEW p \in Players, Sets(p)
  PROVE  ClockInv'
<1>1. /\ p \in joined /\ inbox[p] \in Seq(Clocks) /\ inbox[p] # <<>> /\ stage[p] = "before"
  BY DEF Sets, ClockInv, ClockShape, StagesFit
<1>2. /\ Tail(inbox[p]) \in Seq(Clocks) /\ Head(inbox[p]) \in Clocks
      /\ Tail(inbox[p]) # <<>> => Tail(inbox[p])[Len(Tail(inbox[p]))] = inbox[p][Len(inbox[p])]
      /\ Tail(inbox[p]) = <<>> => Head(inbox[p]) = inbox[p][Len(inbox[p])]
  BY <1>1, TailKeepsLast
<1>3. Applied(Head(inbox[p])) = Head(inbox[p]).speed /\ Head(inbox[p]).speed \in Speeds
  BY <1>2, AppliedIsItsSpeed DEF Clocks
<1>4. /\ inbox' = [inbox EXCEPT ![p] = Tail(inbox[p])]
      /\ speed' = [speed EXCEPT ![p] = Head(inbox[p]).speed]
      /\ stage' = [stage EXCEPT ![p] = "after"]
      /\ told' = told \cup {p} /\ slipped' = slipped \ {p}
      /\ UNCHANGED <<joined, clock, outbox, crossed>>
  BY <1>3 DEF Sets, Runs
<1>5. ClockShape'
  BY <1>1, <1>2, <1>3, <1>4 DEF ClockInv, ClockShape
<1>6. StagesFit'
  BY <1>1, <1>4 DEF ClockInv, ClockShape, StagesFit
<1>7. ASSUME NEW q \in Players, NewestIsLast(q)
      PROVE  NewestIsLast(q)'
  BY <1>1, <1>2, <1>4, <1>7 DEF ClockInv, ClockShape, NewestIsLast
<1>8. ASSUME NewestIsLast(p), inbox'[p] = <<>>
      PROVE  speed'[p] = clock'.speed
  BY <1>1, <1>2, <1>4, <1>8 DEF ClockInv, ClockShape, NewestIsLast
<1>9. ClientsCatchUp'
  <2> SUFFICES ASSUME NEW q \in Players \ {Host}
               PROVE  /\ NewestIsLast(q)'
                      /\ q \in told' \ slipped' /\ inbox'[q] = <<>> => speed'[q] = clock'.speed
    BY DEF ClientsCatchUp
  <2>1. NewestIsLast(q) /\ NewestIsLast(q)'
    BY <1>7 DEF ClockInv, ClientsCatchUp
  <2>2. CASE q = p
    BY <1>8, <2>1, <2>2
  <2>3. CASE q # p
    BY <1>4, <2>1, <2>3 DEF ClockInv, ClockShape, ClientsCatchUp
  <2> QED BY <2>2, <2>3
<1>10. HostCatchesUp'
  <2> SUFFICES ASSUME ~crossed PROVE HostCatchesUp'
    BY <1>4 DEF HostCatchesUp
  <2>1. NewestIsLast(Host) /\ NewestIsLast(Host)'
    BY <1>7 DEF ClockInv, HostCatchesUp
  <2>2. CASE p = Host
    <3>1. outbox'[Host] = <<>>
      BY <1>1, <1>4, <2>2 DEF ClockInv, HostCatchesUp
    <3> QED BY <1>8, <2>1, <2>2, <3>1 DEF HostCatchesUp
  <2>3. CASE p # Host
    BY <1>4, <2>1, <2>3 DEF ClockInv, ClockShape, HostCatchesUp
  <2> QED BY <2>2, <2>3
<1> QED BY <1>5, <1>6, <1>9, <1>10 DEF ClockInv

-----------------------------------------------------------------------------
(* The session tells the clients every state it takes, so that its newest is *)
(* the last on the way to each of them.                                     *)

LEMMA TellsTheNewest ==
  ASSUME ClockInv, NEW ps \in SUBSET joined, joined \ {Host} \subseteq ps,
         clock' \in Clocks, Tells(ps),
         UNCHANGED <<joined, speed, stage, told, slipped>>
  PROVE  /\ inbox' \in [Players -> Seq(Clocks)]
         /\ \A p \in Players : inbox[p] # <<>> => inbox'[p] # <<>>
         /\ \A p \in ps : inbox'[p] # <<>> /\ NewestIsLast(p)'
         /\ \A p \in Players \ ps : inbox'[p] = inbox[p]
         /\ StagesFit' /\ ClientsCatchUp'
<1>1. inbox' = [p \in Players |-> IF p \in ps THEN Append(inbox[p], clock') ELSE inbox[p]]
  BY DEF Tells
<1>2. \A p \in Players : inbox[p] \in Seq(Clocks)
  BY DEF ClockInv, ClockShape
<1>3. ASSUME NEW p \in ps
      PROVE  /\ inbox'[p] = Append(inbox[p], clock') /\ inbox'[p] \in Seq(Clocks) /\ inbox'[p] # <<>>
             /\ inbox'[p][Len(inbox'[p])] = clock'
  <2>1. p \in Players
    BY DEF ClockInv, ClockShape
  <2>2. inbox'[p] = Append(inbox[p], clock')
    BY <1>1, <2>1
  <2> QED BY <1>2, <2>1, <2>2, AppendIsLast
<1>4. \A p \in Players \ ps : inbox'[p] = inbox[p]
  BY <1>1
<1>5. inbox' \in [Players -> Seq(Clocks)]
  BY <1>1, <1>2, <1>3
<1>6. StagesFit'
  BY <1>3, <1>4 DEF ClockInv, ClockShape, StagesFit
<1>7. ClientsCatchUp'
  <2> SUFFICES ASSUME NEW p \in Players \ {Host}
               PROVE  /\ NewestIsLast(p)'
                      /\ p \in told \ slipped /\ inbox'[p] = <<>> => speed[p] = clock'.speed
    BY DEF ClientsCatchUp
  <2>1. CASE p \in ps
    BY <1>3, <2>1 DEF NewestIsLast
  <2>2. CASE p \notin ps
    <3>1. p \notin joined /\ p \notin told /\ inbox'[p] = <<>>
      BY <1>4, <2>2 DEF ClockInv, ClockShape, StagesFit
    <3> QED BY <3>1 DEF NewestIsLast
  <2> QED BY <2>1, <2>2
<1> QED BY <1>3, <1>4, <1>5, <1>6, <1>7 DEF NewestIsLast

LEMMA TakesReportKeeps ==
  ASSUME ClockInv, TakesReport
  PROVE  ClockInv'
<1> DEFINE m == Head(outbox[Host])
           s == m[2]
<1>1. outbox[Host] \in Seq(Reported) /\ outbox[Host] \in Seq(Report) /\ outbox[Host] # <<>>
  BY DEF TakesReport, ClockInv, ClockShape
<1>2. /\ Tail(outbox[Host]) \in Seq(Reported) /\ Tail(outbox[Host]) \in Seq(Report) /\ m \in Reported
      /\ Tail(outbox[Host]) # <<>> =>
           Tail(outbox[Host])[Len(Tail(outbox[Host]))] = outbox[Host][Len(outbox[Host])]
      /\ Tail(outbox[Host]) = <<>> => m = outbox[Host][Len(outbox[Host])]
      /\ Tail(outbox[Host]) = <<>> <=> Len(outbox[Host]) = 1
  BY <1>1, TailKeepsLast
<1>3. m = Speed(s)
  BY <1>2 DEF Reported, Speed
<1>4. /\ outbox' = [outbox EXCEPT ![Host] = Tail(outbox[Host])]
      /\ UNCHANGED <<joined, speed, stage, told, slipped>>
  BY DEF TakesReport
<1>5. outbox' \in [Players -> Seq(Report)] /\ outbox'[Host] = Tail(outbox[Host])
  BY <1>2, <1>4 DEF ClockInv, ClockShape
<1>6. \A p \in Players \ {Host} : outbox'[p] = outbox[p]
  BY <1>4 DEF ClockInv, ClockShape
<1>7. CASE s \in Speeds
  <2>1. /\ clock' = Clock(s) /\ Tells(joined \ {Host})
        /\ crossed' = (crossed /\ ~(inbox[Host] = <<>> /\ Len(outbox[Host]) = 1
                                    /\ stage[Host] = "idle" /\ speed[Host] = s))
    BY <1>7 DEF TakesReport
  <2>2. clock' \in Clocks /\ clock'.speed = s
    BY <1>7, <2>1 DEF Clock, Clocks
  <2>3. /\ inbox' \in [Players -> Seq(Clocks)] /\ StagesFit' /\ ClientsCatchUp'
        /\ inbox'[Host] = inbox[Host]
    <3>1. joined \ {Host} \in SUBSET joined /\ Host \in Players \ (joined \ {Host})
      OBVIOUS
    <3> QED BY <1>4, <2>1, <2>2, <3>1, TellsTheNewest
  <2>4. ClockShape'
    BY <1>2, <1>4, <1>5, <1>6, <2>1, <2>2, <2>3 DEF ClockInv, ClockShape
  <2>5. HostCatchesUp'
    <3> SUFFICES ASSUME ~crossed' PROVE HostCatchesUp'
      BY DEF HostCatchesUp
    <3>1. CASE ~crossed
      <4>1. inbox[Host] = <<>>
        BY <1>1, <3>1 DEF ClockInv, HostCatchesUp
      <4>2. ASSUME Host \notin slipped, Tail(outbox[Host]) = <<>>
            PROVE  speed[Host] = s
        BY <1>1, <1>2, <1>3, <3>1, <4>2 DEF ClockInv, HostCatchesUp, Speed
      <4>3. ASSUME Host \notin slipped, Tail(outbox[Host]) # <<>>
            PROVE  Tail(outbox[Host])[Len(Tail(outbox[Host]))] = Speed(speed[Host])
        BY <1>1, <1>2, <3>1, <4>3 DEF ClockInv, HostCatchesUp
      <4> QED BY <1>4, <1>5, <2>2, <2>3, <4>1, <4>2, <4>3 DEF HostCatchesUp, NewestIsLast
    <3>2. CASE crossed
      <4>1. inbox[Host] = <<>> /\ Tail(outbox[Host]) = <<>> /\ speed[Host] = s
        BY <1>2, <2>1, <3>2
      <4> QED BY <1>4, <1>5, <2>2, <2>3, <4>1 DEF HostCatchesUp, NewestIsLast
    <3> QED BY <3>1, <3>2
  <2> QED BY <2>3, <2>4, <2>5 DEF ClockInv
<1>8. CASE s \notin Speeds
  <2>1. UNCHANGED <<clock, inbox>> /\ crossed' = TRUE
    BY <1>8 DEF TakesReport
  <2>2. ClockShape'
    BY <1>2, <1>4, <1>5, <1>6, <2>1 DEF ClockInv, ClockShape
  <2>3. StagesFit' /\ ClientsCatchUp' /\ HostCatchesUp'
    BY <1>4, <2>1 DEF ClockInv, StagesFit, ClientsCatchUp, NewestIsLast, HostCatchesUp
  <2> QED BY <2>2, <2>3 DEF ClockInv
<1> QED BY <1>7, <1>8

LEMMA TakesRequestKeeps ==
  ASSUME ClockInv, NEW p \in Players, TakesRequest(p)
  PROVE  ClockInv'
<1>1. /\ p # Host /\ Tells(joined) /\ clock' = Decided(Head(outbox[p]))
      /\ crossed' = (outbox[Host] # <<>>)
      /\ outbox' = [outbox EXCEPT ![p] = Tail(outbox[p])]
      /\ UNCHANGED <<joined, speed, stage, told, slipped>>
  BY DEF TakesRequest
<1>2. /\ outbox[p] \in Seq(Asked) /\ outbox[p] \in Seq(Report) /\ outbox[p] # <<>>
  BY <1>1 DEF TakesRequest, ClockInv, ClockShape
<1>3. Tail(outbox[p]) \in Seq(Asked) /\ Tail(outbox[p]) \in Seq(Report) /\ Head(outbox[p]) \in Asked
  BY <1>2, TailKeepsLast
<1>4. clock' \in Clocks
  BY <1>1, <1>3, DecidedIsAClock DEF ClockInv, ClockShape
<1>5. /\ inbox' \in [Players -> Seq(Clocks)] /\ StagesFit' /\ ClientsCatchUp'
      /\ inbox'[Host] # <<>> /\ NewestIsLast(Host)'
  BY <1>1, <1>4, TellsTheNewest DEF ClockInv, ClockShape
<1>6. outbox'[Host] = outbox[Host]
  BY <1>1 DEF ClockInv, ClockShape
<1>7. ClockShape'
  BY <1>1, <1>3, <1>4, <1>5, <1>6 DEF ClockInv, ClockShape
<1>8. HostCatchesUp'
  BY <1>1, <1>5, <1>6 DEF HostCatchesUp
<1> QED BY <1>5, <1>7, <1>8 DEF ClockInv

LEMMA ClockInvariant == ClockSpec => []ClockInv
<1>1. ClockInv /\ [ClockNext]_clockVars => ClockInv'
  <2> SUFFICES ASSUME ClockInv, [ClockNext]_clockVars PROVE ClockInv'
    OBVIOUS
  <2>1. CASE UNCHANGED clockVars
    BY <2>1 DEF clockVars, ClockInv, ClockShape, StagesFit, ClientsCatchUp, HostCatchesUp, NewestIsLast
  <2>2. CASE TakesReport
    BY <2>2, TakesReportKeeps
  <2>3. ASSUME NEW p \in Players,
               Joins(p) \/ GameChanges(p) \/ Before(p) \/ Sets(p) \/ After(p) \/ TakesRequest(p)
        PROVE  ClockInv'
    BY <2>3, JoinsKeeps, GameChangesKeeps, BeforeAndAfterKeep, SetsKeeps, TakesRequestKeeps
  <2> QED BY <2>1, <2>2, <2>3 DEF ClockNext
<1> QED BY <1>1, InitClockInv, PTL DEF ClockSpec

-----------------------------------------------------------------------------

(* The session's clock is one it has a name for and 0 exactly when it is     *)
(* paused, whatever speeds the games set (session.py, ClockState).           *)
THEOREM ClockTypeCorrect == ClockSpec => []ClockTypeOK
<1>1. ASSUME ClockInv PROVE ClockTypeOK
  <2>1. \A p \in Players : inbox[p] \in Seq([speed : Speeds, paused : BOOLEAN])
    <3>1. Clocks \subseteq [speed : Speeds, paused : BOOLEAN]
      BY DEF Clocks
    <3> HIDE DEF Clocks
    <3>2. \A p \in Players : inbox[p] \in Seq(Clocks)
      BY <1>1 DEF ClockInv, ClockShape
    <3> QED BY <3>1, <3>2, SeqMonotonic
  <2> QED BY <1>1, <2>1 DEF ClockInv, ClockShape, Clocks, ClockTypeOK
<1> QED BY <1>1, ClockInvariant, PTL

(* When nothing is under way every client that was told a state, and made no *)
(* change of its own under the bypass since, runs at the session's speed:    *)
(* for any number of them, and any number of changes that cross (net.py:179).*)
THEOREM ClientsRunAtTheSessionsSpeed == ClockSpec => []ClientsFollow
<1>1. ASSUME ClockInv PROVE ClientsFollow
  BY <1>1 DEF ClockInv, ClockShape, ClientsCatchUp, ClientsFollow, Quiet
<1> QED BY <1>1, ClockInvariant, PTL

(* The host's own game runs at it too, unless its last change and a client's *)
(* request crossed, or it changed under the bypass.                         *)
THEOREM HostRunsAtTheSessionsSpeed == ClockSpec => []HostFollowsUnlessCrossed
<1>1. ASSUME ClockInv PROVE HostFollowsUnlessCrossed
  BY <1>1 DEF ClockInv, HostCatchesUp, HostFollowsUnlessCrossed, Quiet
<1> QED BY <1>1, ClockInvariant, PTL

=============================================================================
