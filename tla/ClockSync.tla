------------------------------- MODULE ClockSync -------------------------------
(***************************************************************************)
(* The speed of the game clock on every machine (hooks.py, runtime.py,      *)
(* net.py): a client's game asks, the host's game changes its own clock and *)
(* reports, the session decides and tells the others.  The channels between *)
(* a game and the session are first-in first-out (a local socket and a LAN  *)
(* connection one after the other).  A state is applied by the thread that  *)
(* reads the bridge, while the game's own thread may change the clock.      *)
(***************************************************************************)
EXTENDS Naturals, Sequences

CONSTANTS
    Players, Host,
    Offered,        \* the speeds games set: 0..3 and those the session has no name for
    MaxChanges,     \* bound: changes of a clock by its own game
    Window          \* bound: messages under way in a channel

ASSUME ClockAssumption ==
    /\ Host \in Players /\ Offered \subseteq Nat
    /\ MaxChanges \in Nat /\ Window \in Nat \ {0}

VARIABLES
    joined,     \* the players of the session
    clock,      \* session.clock
    speed,      \* the speed each game runs at
    stage,      \* how far each game's _clock_state has come
    inbox,      \* states on their way to each game
    outbox,     \* requests or reports on their way to the session
    changes,    \* the bound's counter
    told,       \* history: the clients a state has reached since they joined
    slipped,    \* history: those whose own change has gone unreported since
    crossed     \* history: the last changes of the host's game and the session crossed

gameVars == <<speed, stage, inbox>>
clockVars == <<joined, clock, speed, stage, inbox, outbox, changes, told, slipped, crossed>>

Speeds == 0..3
Lesser(a, b) == IF a < b THEN a ELSE b
Greater(a, b) == IF a < b THEN b ELSE a

\* Messages: a speed a game has set or asks for, or a pause asked for or ended.
Speed(s) == <<"speed", s>>
Pause(b) == <<"paused", b>>
Report == {Speed(s) : s \in Offered \cup Speeds} \cup {Pause(b) : b \in BOOLEAN}

ClockInit ==
    /\ joined = {Host} /\ clock = [speed |-> 1, paused |-> FALSE]
    /\ speed = [p \in Players |-> 1] /\ stage = [p \in Players |-> "idle"]
    /\ inbox = [p \in Players |-> <<>>] /\ outbox = [p \in Players |-> <<>>]
    /\ changes = 0 /\ told = {} /\ slipped = {} /\ crossed = FALSE

\* A client is welcomed; its game runs at a speed of its own, and nothing says
\* what the session's is (no code sends clock.resync).
Joins(p) ==
    /\ p \in Players \ joined
    /\ joined' = joined \cup {p}
    /\ \E s \in Speeds : speed' = [speed EXCEPT ![p] = s]
    /\ UNCHANGED <<clock, stage, inbox, outbox, changes, told, slipped, crossed>>

-----------------------------------------------------------------------------
(* The game's own thread: the wrappers of set_clock_speed, push_speed and    *)
(* pop_speed.  The original of the last runs the game at the speed it names. *)

Sends(p, m) == Len(outbox[p]) < Window /\ outbox' = [outbox EXCEPT ![p] = Append(@, m)]
Runs(p, s) == speed' = [speed EXCEPT ![p] = s]

\* While a state is applied every change goes straight to the original.
UnderBypass(p, s) ==
    /\ stage[p] # "idle"
    /\ Runs(p, s)
    /\ slipped' = IF stage[p] = "after" THEN slipped \cup {p} ELSE slipped
    /\ UNCHANGED <<outbox, crossed>>

\* A client's game only asks, for a speed within the session's.
Asks(p, m) ==
    /\ stage[p] = "idle" /\ p # Host
    /\ Sends(p, m)
    /\ UNCHANGED <<speed, slipped, crossed>>

\* The host's game changes first and reports.
ChangesAndReports(s) ==
    /\ stage[Host] = "idle"
    /\ Runs(Host, s)
    /\ Sends(Host, Speed(s))
    /\ crossed' = (crossed \/ inbox[Host] # <<>>)
    /\ slipped' = slipped \ {Host}

GameChanges(p) ==
    /\ p \in joined /\ changes < MaxChanges
    /\ changes' = changes + 1
    /\ \E s \in Offered :
         \/ UnderBypass(p, s)
         \/ Asks(p, Speed(Lesser(s, 3)))
         \/ Asks(p, Pause(FALSE))
         \/ p = Host /\ ChangesAndReports(s)
    /\ UNCHANGED <<joined, clock, stage, inbox, told>>

-----------------------------------------------------------------------------
(* The thread that reads the bridge: _clock_state.                           *)

\* What the game is to run at: 0 when paused, else 1..3.
Applied(c) == IF c.paused THEN 0 ELSE Greater(1, Lesser(3, c.speed))

Before(p) ==
    /\ stage[p] = "idle" /\ inbox[p] # <<>>
    /\ stage' = [stage EXCEPT ![p] = "before"]
    /\ UNCHANGED <<joined, clock, speed, inbox, outbox, changes, told, slipped, crossed>>

Sets(p) ==
    /\ stage[p] = "before"
    /\ Runs(p, Applied(Head(inbox[p])))
    /\ inbox' = [inbox EXCEPT ![p] = Tail(@)]
    /\ stage' = [stage EXCEPT ![p] = "after"]
    /\ told' = told \cup {p}
    /\ slipped' = slipped \ {p}
    /\ UNCHANGED <<joined, clock, outbox, changes, crossed>>

After(p) ==
    /\ stage[p] = "after"
    /\ stage' = [stage EXCEPT ![p] = "idle"]
    /\ UNCHANGED <<joined, clock, speed, inbox, outbox, changes, told, slipped, crossed>>

-----------------------------------------------------------------------------
(* The session (HostRuntime._on_game_event, KerMPHost._process).             *)

\* The clock after a speed was set, or a pause asked for or ended.
Clock(s) == [speed |-> s, paused |-> s = 0]

\* Mutant: an end of the pause leaves the speed alone.
DecidedAsIs(m) ==
    IF m[1] = "speed" THEN Clock(m[2])
    ELSE [paused |-> m[2], speed |-> IF m[2] THEN 0 ELSE clock.speed]

Decided(m) ==
    IF m[1] = "speed" THEN Clock(m[2])
    ELSE [paused |-> m[2], speed |-> IF m[2] THEN 0 ELSE Greater(1, clock.speed)]

Tells(ps) ==
    /\ \A p \in ps : Len(inbox[p]) < Window
    /\ inbox' = [p \in Players |-> IF p \in ps THEN Append(inbox[p], clock') ELSE inbox[p]]

\* Mutant: a report is told nobody.
TakesReportTellsNobody ==
    /\ outbox[Host] # <<>>
    /\ clock' = Clock(Lesser(3, Head(outbox[Host])[2]))
    /\ outbox' = [outbox EXCEPT ![Host] = Tail(@)]
    /\ UNCHANGED <<joined, gameVars, changes, told, slipped, crossed>>

\* A report of the host's game goes to the clients, unless it is a speed the
\* session has no name for.
TakesReport ==
    /\ outbox[Host] # <<>>
    /\ LET s == Head(outbox[Host])[2] IN
         IF s \in Speeds
         THEN /\ clock' = Clock(s)
              /\ Tells(joined \ {Host})
              /\ crossed' = (crossed /\ ~(inbox[Host] = <<>> /\ Len(outbox[Host]) = 1
                                          /\ stage[Host] = "idle" /\ speed[Host] = s))
         ELSE UNCHANGED <<clock, inbox>> /\ crossed' = TRUE
    /\ outbox' = [outbox EXCEPT ![Host] = Tail(@)]
    /\ UNCHANGED <<joined, speed, stage, changes, told, slipped>>

\* Mutant: a client's request leaves the host's game out.
TakesRequestForClients(p) ==
    /\ p # Host /\ outbox[p] # <<>>
    /\ clock' = Decided(Head(outbox[p]))
    /\ Tells(joined \ {Host})
    /\ crossed' = (outbox[Host] # <<>>)
    /\ outbox' = [outbox EXCEPT ![p] = Tail(@)]
    /\ UNCHANGED <<joined, speed, stage, changes, told, slipped>>

\* A client's request goes to all, the host's game included.
TakesRequest(p) ==
    /\ p # Host /\ outbox[p] # <<>>
    /\ clock' = Decided(Head(outbox[p]))
    /\ Tells(joined)
    /\ crossed' = (outbox[Host] # <<>>)
    /\ outbox' = [outbox EXCEPT ![p] = Tail(@)]
    /\ UNCHANGED <<joined, speed, stage, changes, told, slipped>>

ClockNext ==
    \/ TakesReport
    \/ \E p \in Players :
         Joins(p) \/ GameChanges(p) \/ Before(p) \/ Sets(p) \/ After(p) \/ TakesRequest(p)

ClockSpec == ClockInit /\ [][ClockNext]_clockVars

-----------------------------------------------------------------------------

\* The speed of the session is one it has a name for, and 0 exactly when it is
\* paused.
ClockTypeOK ==
    /\ joined \subseteq Players /\ Host \in joined
    /\ clock \in [speed : Speeds, paused : BOOLEAN] /\ (clock.paused <=> clock.speed = 0)
    /\ speed \in [Players -> Offered \cup Speeds]
    /\ stage \in [Players -> {"idle", "before", "after"}]
    /\ \A p \in Players : /\ inbox[p] \in Seq([speed : Speeds, paused : BOOLEAN])
                          /\ outbox[p] \in Seq(Report)
    /\ told \subseteq joined /\ slipped \subseteq joined /\ crossed \in BOOLEAN

Quiet == \A p \in Players : stage[p] = "idle" /\ inbox[p] = <<>> /\ outbox[p] = <<>>

\* When nothing is under way, the game of every client that has been told a
\* state, and has made no change of its own since under the bypass, runs at
\* the session's speed, whatever its player, the others and the host did.
ClientsFollow == Quiet => \A p \in told \ (slipped \cup {Host}) : speed[p] = clock.speed

\* So does the host's own game, unless its last change and a request of a client
\* crossed between it and the session, or it changed under the bypass.
HostFollowsUnlessCrossed == Quiet /\ ~crossed /\ Host \notin slipped => speed[Host] = clock.speed

=============================================================================
