---------------------------- MODULE GameLink_proofs ----------------------------
(***************************************************************************)
(* Proofs about the connection between a client's game and its sidecar, for *)
(* any number of connections, restarts, lines and messages.                 *)
(***************************************************************************)
EXTENDS GameLink, SequenceTheorems, TLAPS

Line == {Hello(g) : g \in 1..games} \cup {Authority(b) : b \in BOOLEAN} \cup {Event}
Report == {HelloReport(g) : g \in 1..games} \cup {AuthorityReport(b) : b \in BOOLEAN}
Said == {Welcome, Note, "report", "nothing"}

(* Nobody has said hello for a game that has not been started, and a torn   *)
(* line gets no further than the thread that reads it.                      *)
LinkShape ==
    /\ joined \in BOOLEAN /\ listener \in {"accepting", "accepted", "reading", "dead"}
    /\ games \in Games /\ made \in 0..MaxConns /\ backlog \in Seq(1..made) /\ serving \in 0..made
    /\ conn \in {serving, NoConn}
    /\ listener \in {"accepting", "dead"} => conn = NoConn
    /\ listener \in {"accepted", "reading"} => serving # NoConn
    /\ sending \in [to : 0..made, what : Said, report : Seq(Report)] /\ Len(sending.report) <= 1
    /\ tasks \in Seq(Line) /\ up \in Seq(Report)
    /\ sock \in 0..made /\ suppressed \in BOOLEAN
    /\ writing \in [to : 0..made, torn : BOOLEAN] /\ (writing # NotWriting => writing.to # NoConn)
    /\ toSidecar \in [Conns -> Seq(Line \cup {Garbled})] /\ toGame \in [Conns -> Seq(Said)]
    /\ closedBySidecar \subseteq Conns /\ closedByGame \subseteq Conns
    /\ record \in [bridge : BOOLEAN, authority : BOOLEAN] /\ heard \in 0..games

(* The hello of the game that runs, and the claim that its wrapper is in    *)
(* place, in a sequence of lines or reports.                                *)
Greeting == {Hello(games), HelloReport(games)}
Claim == {Authority(TRUE), AuthorityReport(TRUE)}
Greeted(s) == \E i \in 1..Len(s) : s[i] \in Greeting
Quiet(s) == \A i \in 1..Len(s) : s[i] \notin Claim
Clear(s) == \A i, j \in 1..Len(s) : i < j /\ s[i] \in Greeting => s[j] \notin Claim

(* What the sidecar has not read yet: the connection it serves, and those   *)
(* in the listener's backlog.                                               *)
Unread == IF serving # NoConn THEN toSidecar[serving] ELSE <<>>
LaterQuiet == \A i \in 1..Len(backlog) : Quiet(toSidecar[backlog[i]])

(* As long as the game has not put its wrapper in place, no claim follows   *)
(* its hello anywhere on the way to the host: what is claimed there is of a  *)
(* game before it.                                                          *)
NoClaimFollows ==
    /\ heard = games => /\ ~record.authority /\ Quiet(up) /\ Quiet(sending.report) /\ Quiet(tasks)
                        /\ Quiet(Unread) /\ LaterQuiet
    /\ Clear(up) /\ (Greeted(up) => Quiet(sending.report) /\ Quiet(tasks) /\ Quiet(Unread) /\ LaterQuiet)
    /\ Greeted(sending.report) => Quiet(tasks) /\ Quiet(Unread) /\ LaterQuiet
    /\ Clear(tasks) /\ (Greeted(tasks) => Quiet(Unread) /\ LaterQuiet)
    /\ Clear(Unread) /\ (Greeted(Unread) => LaterQuiet)
    /\ \A i \in 1..Len(backlog) : Clear(toSidecar[backlog[i]])
    /\ \A i, j \in 1..Len(backlog) :
          i < j /\ Greeted(toSidecar[backlog[i]]) => Quiet(toSidecar[backlog[j]])

LinkInv == LinkShape /\ (~suppressed => NoClaimFollows)

-----------------------------------------------------------------------------
(* Lines and reports *)

LEMMA Bounds ==
  ASSUME LinkShape
  PROVE  /\ MaxConns \in Nat /\ MaxGames \in Nat /\ 1 <= MaxGames
         /\ made \in Nat /\ made <= MaxConns /\ games \in Nat /\ 1 <= games /\ games <= MaxGames
<1>1. MaxConns \in Nat /\ MaxGames \in Nat \ {0}
  BY LinkAssumption
<1>2. made \in 0..MaxConns /\ games \in 1..MaxGames
  BY DEF LinkShape, Games
<1> QED BY <1>1, <1>2

LEMMA ConnsMade ==
  ASSUME LinkShape
  PROVE  /\ 1..made \subseteq Conns /\ 0..made \subseteq Conns \cup {NoConn} /\ 1..games \subseteq Games
         /\ \A c \in 0..made : c # NoConn => c \in Conns
         /\ \A i \in 1..Len(backlog) : backlog[i] \in 1..made
<1>1. backlog \in Seq(1..made)
  BY DEF LinkShape
<1>2. \A i \in 1..Len(backlog) : backlog[i] \in 1..made
  BY <1>1, ElementOfSeq
<1>3. 1..made \subseteq Conns /\ 0..made \subseteq Conns \cup {NoConn} /\ 1..games \subseteq Games
  BY Bounds DEF Conns, Games, NoConn
<1>4. \A c \in 0..made : c # NoConn => c \in Conns
  BY <1>3
<1> QED BY <1>2, <1>3, <1>4

LEMMA Kinds ==
  ASSUME games # NoGame
  PROVE  /\ \A g : Hello(g) \notin Claim /\ (Hello(g) \in Greeting <=> g = games) /\ Hello(g).type = "hello"
                   /\ Hello(g).game = g
         /\ \A g : HelloReport(g) \notin Claim /\ (HelloReport(g) \in Greeting <=> g = games)
                   /\ HelloReport(g).authority = FALSE /\ HelloReport(g).game = g
         /\ \A b : Authority(b) \notin Greeting /\ Authority(b).type = "authority" /\ Authority(b).installed = b
         /\ \A b : AuthorityReport(b) \notin Greeting /\ AuthorityReport(b).authority = b
                   /\ AuthorityReport(b).game = NoGame
         /\ Authority(FALSE) \notin Claim /\ AuthorityReport(FALSE) \notin Claim
         /\ Authority(TRUE) \in Claim /\ AuthorityReport(TRUE) \in Claim
         /\ Event \notin Claim \cup Greeting /\ Event.type = "event"
         /\ Garbled \notin Claim \cup Greeting /\ Garbled \notin Line
<1>1. \A g, b : /\ Hello(g) # Authority(b) /\ Hello(g) # AuthorityReport(b)
                 /\ HelloReport(g) # Authority(b) /\ Hello(g) # HelloReport(games)
                 /\ HelloReport(g) # Hello(games)
  BY DEF Hello, HelloReport, Authority, AuthorityReport
<1>2. \A g, b : /\ Event # Hello(g) /\ Event # HelloReport(g) /\ Event # Authority(b) /\ Event # AuthorityReport(b)
                 /\ Garbled # Hello(g) /\ Garbled # HelloReport(g) /\ Garbled # Authority(b)
                 /\ Garbled # AuthorityReport(b) /\ Garbled # Event
  BY DEF Hello, HelloReport, Authority, AuthorityReport, Event, Garbled
<1>3. \A g : HelloReport(g) # AuthorityReport(TRUE) /\ (HelloReport(g) = HelloReport(games) <=> g = games)
            /\ (Hello(g) = Hello(games) <=> g = games)
  BY DEF Hello, HelloReport, AuthorityReport
<1>4. Authority(FALSE) # Authority(TRUE) /\ AuthorityReport(FALSE) # AuthorityReport(TRUE)
  BY DEF Authority, AuthorityReport
<1>5. /\ \A g : Hello(g).type = "hello" /\ Hello(g).game = g
      /\ \A g : HelloReport(g).authority = FALSE /\ HelloReport(g).game = g
      /\ \A b : Authority(b).type = "authority" /\ Authority(b).installed = b
      /\ \A b : AuthorityReport(b).authority = b /\ AuthorityReport(b).game = NoGame
      /\ Event.type = "event"
  BY DEF Hello, HelloReport, Authority, AuthorityReport, Event
<1>6. Garbled \notin Line
  BY <1>2 DEF Line
<1>7. /\ \A g : Hello(g) \notin Claim /\ HelloReport(g) \notin Claim
      /\ Authority(FALSE) \notin Claim /\ AuthorityReport(FALSE) \notin Claim
      /\ Authority(TRUE) \in Claim /\ AuthorityReport(TRUE) \in Claim
      /\ Event \notin Claim /\ Garbled \notin Claim
  <2>1. \A x : x \in Claim <=> x = Authority(TRUE) \/ x = AuthorityReport(TRUE)
    BY DEF Claim
  <2>2. ASSUME NEW g PROVE Hello(g) # Authority(TRUE) /\ Hello(g) # AuthorityReport(TRUE)
    BY DEF Hello, Authority, AuthorityReport
  <2>3. ASSUME NEW g PROVE HelloReport(g) # Authority(TRUE) /\ HelloReport(g) # AuthorityReport(TRUE)
    BY DEF HelloReport, Authority, AuthorityReport
  <2>4. Authority(FALSE) # AuthorityReport(TRUE) /\ AuthorityReport(FALSE) # Authority(TRUE)
    BY DEF Authority, AuthorityReport
  <2>5. Event \notin Claim /\ Garbled \notin Claim
    BY <1>2, <2>1
  <2>6. \A g : Hello(g) \notin Claim /\ HelloReport(g) \notin Claim
    <3>1. ASSUME NEW g PROVE Hello(g) \notin Claim
      BY <2>2 DEF Claim
    <3>2. ASSUME NEW g PROVE HelloReport(g) \notin Claim
      BY <2>3 DEF Claim
    <3> QED BY <3>1, <3>2
  <2>7. /\ Authority(FALSE) \notin Claim /\ AuthorityReport(FALSE) \notin Claim
        /\ Authority(TRUE) \in Claim /\ AuthorityReport(TRUE) \in Claim
    <3>1. Authority(FALSE) \notin Claim
      BY <1>4, <2>4 DEF Claim
    <3>2. AuthorityReport(FALSE) \notin Claim
      BY <1>4, <2>4 DEF Claim
    <3>3. Authority(TRUE) \in Claim /\ AuthorityReport(TRUE) \in Claim
      BY DEF Claim
    <3> QED BY <3>1, <3>2, <3>3
  <2> QED BY <2>5, <2>6, <2>7
<1>8. /\ \A g : (Hello(g) \in Greeting <=> g = games) /\ (HelloReport(g) \in Greeting <=> g = games)
      /\ \A b : Authority(b) \notin Greeting /\ AuthorityReport(b) \notin Greeting
      /\ Event \notin Greeting /\ Garbled \notin Greeting
  <2>1. \A x : x \in Greeting <=> x = Hello(games) \/ x = HelloReport(games)
    BY DEF Greeting
  <2>2. \A g : (Hello(g) \in Greeting <=> g = games) /\ (HelloReport(g) \in Greeting <=> g = games)
    BY <1>1, <1>3, <2>1
  <2>3. \A b : AuthorityReport(b) # HelloReport(games)
    BY DEF AuthorityReport, HelloReport
  <2>4. \A b : Authority(b) \notin Greeting /\ AuthorityReport(b) \notin Greeting
    BY <1>1, <2>1, <2>3
  <2>5. Event \notin Greeting /\ Garbled \notin Greeting
    BY <1>2, <2>1
  <2> QED BY <2>2, <2>4, <2>5
<1> QED BY <1>5, <1>6, <1>7, <1>8

LEMMA TailOfQueue ==
  ASSUME NEW S, NEW s \in Seq(S), s # <<>>
  PROVE  /\ Tail(s) \in Seq(S) /\ Head(s) \in S /\ Head(s) = s[1] /\ 1 \in 1..Len(s)
         /\ \A i \in 1..Len(Tail(s)) : i + 1 \in 1..Len(s) /\ Tail(s)[i] = s[i + 1]
BY HeadTailProperties, EmptySeq, ElementOfSeq

(* What is taken from the head of a part, *)
LEMMA Taken ==
  ASSUME NEW S, NEW s \in Seq(S), s # <<>>
  PROVE  /\ Quiet(s) => Quiet(Tail(s)) /\ Head(s) \notin Claim
         /\ Clear(s) => Clear(Tail(s)) /\ (Head(s) \in Greeting => Quiet(Tail(s)))
         /\ Greeted(Tail(s)) \/ Head(s) \in Greeting => Greeted(s)
<1>1. /\ Head(s) = s[1] /\ 1 \in 1..Len(s)
      /\ \A i \in 1..Len(Tail(s)) : i + 1 \in 1..Len(s) /\ Tail(s)[i] = s[i + 1] /\ 1 < i + 1
  BY TailOfQueue
<1>2. Quiet(s) => Quiet(Tail(s)) /\ Head(s) \notin Claim
  BY <1>1 DEF Quiet
<1>3. Clear(s) => Clear(Tail(s))
  <2> SUFFICES ASSUME Clear(s), NEW i \in 1..Len(Tail(s)), NEW j \in 1..Len(Tail(s)), i < j,
                      Tail(s)[i] \in Greeting
               PROVE  Tail(s)[j] \notin Claim
    BY DEF Clear
  <2>1. i + 1 < j + 1 /\ i + 1 \in 1..Len(s) /\ j + 1 \in 1..Len(s)
    BY <1>1
  <2> QED BY <1>1, <2>1 DEF Clear
<1>4. Clear(s) /\ Head(s) \in Greeting => Quiet(Tail(s))
  BY <1>1 DEF Clear, Quiet
<1>5. Greeted(Tail(s)) \/ Head(s) \in Greeting => Greeted(s)
  BY <1>1 DEF Greeted
<1> QED BY <1>2, <1>3, <1>4, <1>5

(* and added at the end of the next. *)
LEMMA Added ==
  ASSUME NEW S, NEW s \in Seq(S), NEW x \in S
  PROVE  /\ Append(s, x) \in Seq(S)
         /\ Quiet(s) /\ x \notin Claim => Quiet(Append(s, x))
         /\ Greeted(Append(s, x)) <=> Greeted(s) \/ x \in Greeting
         /\ Clear(s) /\ (x \notin Claim \/ ~Greeted(s)) => Clear(Append(s, x))
<1>1. /\ Append(s, x) \in Seq(S) /\ Len(Append(s, x)) = Len(s) + 1 /\ Len(s) \in Nat
      /\ Append(s, x)[Len(s) + 1] = x /\ \A i \in 1..Len(s) : Append(s, x)[i] = s[i]
  BY AppendProperties, LenProperties
<1>2. \A i \in 1..Len(Append(s, x)) : i \in 1..Len(s) \/ i = Len(s) + 1
  BY <1>1
<1>3. \A i \in 1..Len(s) : i \in 1..Len(Append(s, x))
  BY <1>1
<1>4. Quiet(s) /\ x \notin Claim => Quiet(Append(s, x))
  BY <1>1, <1>2 DEF Quiet
<1>5. Greeted(Append(s, x)) <=> Greeted(s) \/ x \in Greeting
  BY <1>1, <1>2, <1>3 DEF Greeted
<1>6. Clear(s) /\ (x \notin Claim \/ ~Greeted(s)) => Clear(Append(s, x))
  BY <1>1, <1>2 DEF Clear, Greeted
<1> QED BY <1>1, <1>4, <1>5, <1>6

LEMMA OneOrNone ==
  /\ Quiet(<<>>) /\ Clear(<<>>) /\ ~Greeted(<<>>)
  /\ \A x : Clear(<<x>>) /\ (Greeted(<<x>>) <=> x \in Greeting) /\ (Quiet(<<x>>) <=> x \notin Claim)
BY DEF Quiet, Clear, Greeted

(* More games, more lines there can be. *)
LEMMA LongerLists ==
  ASSUME NEW S, NEW T, S \subseteq T, NEW s \in Seq(S)
  PROVE  s \in Seq(T)
BY ElementOfSeq, SeqDef

-----------------------------------------------------------------------------
(* The shape of the state *)

LEMMA LinkStart == LinkInit => LinkInv
<1> SUFFICES ASSUME LinkInit PROVE LinkInv
  OBVIOUS
<1>1. /\ <<>> \in Seq(Line) /\ <<>> \in Seq(Report) /\ <<>> \in Seq(Said) /\ <<>> \in Seq(1..made)
      /\ <<>> \in Seq(Line \cup {Garbled}) /\ Len(<<>>) = 0
  OBVIOUS
<1>2. 1 \in Games /\ 0 \in 0..MaxConns /\ 0 \in 0..0
  BY LinkAssumption DEF Games
<1>3. NotSending \in [to : 0..0, what : Said, report : Seq(Report)] /\ NotSending.report = <<>>
  BY <1>1 DEF NotSending, NoReport, Said, NoConn
<1>4. NotWriting \in [to : 0..0, torn : BOOLEAN] /\ Unready \in [bridge : BOOLEAN, authority : BOOLEAN]
  BY DEF NotWriting, Unready, NoConn
<1>5. LinkShape
  <2>1. /\ joined \in BOOLEAN /\ listener = "accepting" /\ suppressed \in BOOLEAN
        /\ games \in Games /\ made \in 0..MaxConns /\ serving \in 0..made /\ conn = serving /\ sock \in 0..made
        /\ conn = NoConn /\ heard \in 0..games
    <3>1. made = 0 /\ serving = 0 /\ conn = 0 /\ sock = 0 /\ games = 1 /\ heard = 0
      BY DEF LinkInit, NoConn, NoGame
    <3>2. joined \in BOOLEAN /\ listener = "accepting" /\ suppressed \in BOOLEAN
      BY DEF LinkInit
    <3> QED BY <1>2, <3>1, <3>2 DEF NoConn
  <2>2. backlog \in Seq(1..made) /\ tasks \in Seq(Line) /\ up \in Seq(Report)
        /\ toSidecar \in [Conns -> Seq(Line \cup {Garbled})] /\ toGame \in [Conns -> Seq(Said)]
    BY <1>1 DEF LinkInit
  <2>3. sending \in [to : 0..made, what : Said, report : Seq(Report)] /\ Len(sending.report) <= 1
    BY <1>1, <1>3 DEF LinkInit
  <2>4. writing \in [to : 0..made, torn : BOOLEAN] /\ writing = NotWriting
        /\ closedBySidecar \subseteq Conns /\ closedByGame \subseteq Conns
        /\ record \in [bridge : BOOLEAN, authority : BOOLEAN]
    BY <1>4 DEF LinkInit
  <2> QED BY <2>1, <2>2, <2>3, <2>4 DEF LinkShape
<1>6. NoClaimFollows
  <2>1. heard # games /\ up = <<>> /\ tasks = <<>> /\ backlog = <<>> /\ Unread = <<>>
        /\ sending.report = <<>>
    BY <1>3 DEF LinkInit, NoGame, Unread
  <2>2. Quiet(<<>>) /\ Clear(<<>>) /\ ~Greeted(<<>>)
    BY OneOrNone
  <2> QED BY <2>1, <2>2 DEF NoClaimFollows
<1> QED BY <1>5, <1>6 DEF LinkInv

(* A line is added to what a connection holds. *)
LEMMA LineAdded ==
  ASSUME LinkShape, NEW c \in Conns, NEW x \in Line \cup {Garbled}
  PROVE  /\ [toSidecar EXCEPT ![c] = Append(@, x)] \in [Conns -> Seq(Line \cup {Garbled})]
         /\ [toSidecar EXCEPT ![c] = <<x>>] \in [Conns -> Seq(Line \cup {Garbled})]
<1>1. toSidecar \in [Conns -> Seq(Line \cup {Garbled})]
  BY DEF LinkShape
<1>2. Append(toSidecar[c], x) \in Seq(Line \cup {Garbled}) /\ <<x>> \in Seq(Line \cup {Garbled})
  BY <1>1, AppendProperties
<1> QED BY <1>1, <1>2

LEMMA ConnectsShape == LinkShape /\ Connects => LinkShape'
<1> SUFFICES ASSUME LinkShape, Connects PROVE LinkShape'
  OBVIOUS
<1>1. made \in Nat /\ made' = made + 1 /\ made' \in 0..MaxConns /\ made' \in Conns
  <2>1. made < MaxConns /\ made' = made + 1
    BY DEF Connects
  <2> QED BY <2>1, Bounds DEF Conns
<1>2. 0..made \subseteq 0..made' /\ 1..made \subseteq 1..made' /\ made' \in 1..made' /\ made' \in 0..made'
  BY <1>1
<1>3. backlog' \in Seq(1..made')
  <2>1. backlog \in Seq(1..made')
    BY <1>2, LongerLists DEF LinkShape
  <2> QED BY <1>2, <2>1, AppendProperties DEF Connects
<1>4. Hello(games) \in Line
  BY DEF LinkShape, Line, Games
<1>5. toSidecar' \in [Conns -> Seq(Line \cup {Garbled})]
  BY <1>1, <1>4, LineAdded DEF Connects
<1>6. UNCHANGED <<Line, Report>>
  BY DEF Line, Report, Connects
<1> QED BY <1>1, <1>2, <1>3, <1>5, <1>6 DEF LinkShape, Connects, sidecarVars, hostVars

LEMMA GameReadsShape == LinkShape /\ GameReads => LinkShape'
<1> SUFFICES ASSUME LinkShape, GameReads PROVE LinkShape'
  OBVIOUS
<1>1. sock \in Conns
  BY ConnsMade DEF GameReads, LinkShape
<1>2. toGame' \in [Conns -> Seq(Said)]
  <2>1. Tail(toGame[sock]) \in Seq(Said)
    BY <1>1, TailOfQueue DEF LinkShape, GameReads
  <2> QED BY <2>1 DEF LinkShape, GameReads
<1>3. UNCHANGED <<Line, Report>>
  BY DEF Line, Report, GameReads
<1>4. ASSUME NEW possible \in BOOLEAN, Suppresses(possible)
      PROVE  /\ toSidecar' \in [Conns -> Seq(Line \cup {Garbled})] /\ suppressed' \in BOOLEAN
             /\ writing' \in [to : 0..made, torn : BOOLEAN] /\ (writing' # NotWriting => writing'.to # NoConn)
  <2>1. Authority(possible /\ ~suppressed) \in Line
    BY DEF Line, LinkShape
  <2>2. Written(Authority(possible /\ ~suppressed)) \in Line \cup {Garbled}
    BY <2>1 DEF Written
  <2>3. toSidecar' \in [Conns -> Seq(Line \cup {Garbled})]
    BY <1>1, <1>4, <2>2, LineAdded DEF Suppresses
  <2>4. writing' \in [to : 0..made, torn : BOOLEAN] /\ (writing' # NotWriting => writing'.to # NoConn)
    <3>1. writing \in [to : 0..made, torn : BOOLEAN] /\ (writing # NotWriting => writing.to # NoConn)
      BY DEF LinkShape
    <3>2. sock # NoConn
      BY DEF GameReads
    <3>3. writing' = IF writing.to = sock THEN [writing EXCEPT !.torn = TRUE] ELSE writing
      BY <1>4 DEF Suppresses
    <3>4. CASE writing.to = sock
      <4>1. writing'.to = writing.to /\ writing' \in [to : 0..made, torn : BOOLEAN]
        BY <3>1, <3>3, <3>4
      <4> QED BY <3>2, <3>4, <4>1
    <3>5. CASE writing.to # sock
      BY <3>1, <3>3, <3>5
    <3> QED BY <3>4, <3>5
  <2> QED BY <1>4, <2>3, <2>4 DEF Suppresses, LinkShape
<1>5. /\ toSidecar' \in [Conns -> Seq(Line \cup {Garbled})] /\ suppressed' \in BOOLEAN
      /\ writing' \in [to : 0..made, torn : BOOLEAN] /\ (writing' # NotWriting => writing'.to # NoConn)
  BY <1>4 DEF GameReads, LinkShape
<1> QED BY <1>2, <1>3, <1>5 DEF LinkShape, GameReads, sidecarVars, hostVars

LEMMA GameSeesEndShape == LinkShape /\ GameSeesEnd => LinkShape'
<1> SUFFICES ASSUME LinkShape, GameSeesEnd PROVE LinkShape'
  OBVIOUS
<1>1. UNCHANGED <<Line, Report>>
  BY DEF Line, Report, GameSeesEnd
<1>2. sock \in Conns /\ 0 \in 0..made
  BY DEF LinkShape, GameSeesEnd
<1> QED BY <1>1, <1>2, SMTT(30) DEF LinkShape, GameSeesEnd, sidecarVars, hostVars, NoConn

LEMMA EmitBeginsShape == LinkShape /\ EmitBegins => LinkShape'
<1> SUFFICES ASSUME LinkShape, EmitBegins PROVE LinkShape'
  OBVIOUS
<1>1. UNCHANGED <<Line, Report>>
  BY DEF Line, Report, EmitBegins
<1>2. writing' \in [to : 0..made, torn : BOOLEAN] /\ writing'.to # NoConn
  BY DEF EmitBegins, LinkShape
<1> QED BY <1>1, <1>2 DEF LinkShape, EmitBegins, sidecarVars, hostVars, lineVars

LEMMA EmitEndsShape == LinkShape /\ EmitEnds => LinkShape'
<1> SUFFICES ASSUME LinkShape, EmitEnds PROVE LinkShape'
  OBVIOUS
<1>1. UNCHANGED <<Line, Report>>
  BY DEF Line, Report, EmitEnds
<1>2. writing.to \in Conns
  BY ConnsMade DEF EmitEnds, LinkShape
<1>3. toSidecar' \in [Conns -> Seq(Line \cup {Garbled})]
  <2>1. Event \in Line
    BY DEF Line
  <2>2. (IF writing.torn THEN Garbled ELSE Event) \in Line \cup {Garbled}
    BY <2>1
  <2> QED BY <1>2, <2>2, LineAdded DEF EmitEnds
<1>4. NotWriting \in [to : 0..made, torn : BOOLEAN]
  BY DEF NotWriting, NoConn, LinkShape
<1> QED BY <1>1, <1>3, <1>4 DEF LinkShape, EmitEnds, sidecarVars, hostVars

LEMMA GameStartsAgainShape == LinkShape /\ GameStartsAgain => LinkShape'
<1> SUFFICES ASSUME LinkShape, GameStartsAgain PROVE LinkShape'
  OBVIOUS
<1>1. games \in Nat /\ games' = games + 1 /\ games' \in Games /\ 1..games \subseteq 1..games'
      /\ 0..games \subseteq 0..games'
  <2>1. games < MaxGames /\ games' = games + 1
    BY DEF GameStartsAgain
  <2> QED BY <2>1, Bounds DEF Games
<1>2. Line \subseteq Line' /\ Report \subseteq Report'
  BY <1>1 DEF Line, Report
<1>3. tasks' \in Seq(Line') /\ up' \in Seq(Report') /\ sending'.report \in Seq(Report')
  BY <1>2, LongerLists DEF LinkShape, GameStartsAgain, sidecarVars, hostVars
<1>4. sending' \in [to : 0..made', what : Said, report : Seq(Report')]
  BY <1>3 DEF LinkShape, GameStartsAgain, sidecarVars
<1>5. toSidecar' \in [Conns -> Seq((Line \cup {Garbled})')]
  <2>1. \A c \in Conns : toSidecar[c] \in Seq((Line \cup {Garbled})')
    BY <1>2, LongerLists DEF LinkShape
  <2> QED BY <2>1 DEF LinkShape, GameStartsAgain
<1>6. NotWriting \in [to : 0..made, torn : BOOLEAN]
  BY DEF NotWriting, NoConn, LinkShape
<1>7. closedByGame' \subseteq Conns
  BY ConnsMade DEF GameStartsAgain, LinkShape
<1>8. 0 \in 0..made /\ heard' \in 0..games'
  BY <1>1 DEF LinkShape, GameStartsAgain, hostVars
<1> QED BY <1>1, <1>3, <1>4, <1>5, <1>6, <1>7, <1>8
        DEF LinkShape, GameStartsAgain, sidecarVars, hostVars, NoConn

LEMMA BridgeThreadShape ==
  ASSUME LinkShape, BridgeThread
  PROVE  LinkShape'
<1>1. CASE Accepts
  <2>1. UNCHANGED <<Line, Report>>
    BY <1>1 DEF Line, Report, Accepts, gameVars
  <2>2. serving' \in 1..made /\ backlog' \in Seq(1..made)
    BY <1>1, TailOfQueue DEF Accepts, LinkShape
  <2>3. closedBySidecar' \subseteq Conns
    BY <1>1, ConnsMade DEF Accepts, LinkShape
  <2>4. serving' \in 0..made /\ serving' # NoConn
    BY <2>2, Bounds DEF NoConn
  <2> QED BY <1>1, <2>1, <2>2, <2>3, <2>4 DEF LinkShape, Accepts, gameVars, hostVars
<1>2. CASE StartsReading
  <2>1. UNCHANGED <<Line, Report>>
    BY <1>2 DEF Line, Report, StartsReading, gameVars
  <2> QED BY <1>2, <2>1 DEF LinkShape, StartsReading, gameVars, lineVars, hostVars
<1>3. CASE AssertionFails
  <2>1. UNCHANGED <<Line, Report>>
    BY <1>3 DEF Line, Report, AssertionFails, gameVars
  <2>2. closedBySidecar' \subseteq Conns
    <3>1. serving \in Conns
      BY <1>3, ConnsMade DEF AssertionFails, LinkShape
    <3>2. \A i \in 1..Len(backlog) : backlog[i] \in Conns
      BY ConnsMade
    <3>3. DOMAIN backlog = 1..Len(backlog) /\ closedBySidecar \subseteq Conns
      BY DEF LinkShape
    <3>4. closedBySidecar' = closedBySidecar \cup {serving} \cup {backlog[i] : i \in DOMAIN backlog}
      BY <1>3 DEF AssertionFails
    <3> QED BY <3>1, <3>2, <3>3, <3>4
  <2>3. 0 \in 0..made /\ <<>> \in Seq(1..made)
    BY Bounds
  <2>4. serving' = NoConn /\ conn' = NoConn /\ listener' = "dead"
    BY <1>3 DEF AssertionFails
  <2> QED BY <1>3, <2>1, <2>2, <2>3, <2>4 DEF LinkShape, AssertionFails, gameVars, hostVars, NoConn
<1>4. CASE ReadsLine
  <2>1. UNCHANGED <<Line, Report>>
    BY <1>4 DEF Line, Report, ReadsLine, gameVars
  <2>2. serving \in Conns
    BY <1>4, ConnsMade DEF ReadsLine, LinkShape
  <2>3. /\ Head(toSidecar[serving]) \in Line /\ Tail(toSidecar[serving]) \in Seq(Line \cup {Garbled})
    BY <1>4, <2>2, TailOfQueue DEF ReadsLine, LinkShape
  <2>4. tasks' \in Seq(Line) /\ toSidecar' \in [Conns -> Seq(Line \cup {Garbled})]
    BY <1>4, <2>3, AppendProperties DEF ReadsLine, LinkShape
  <2> QED BY <1>4, <2>1, <2>4 DEF LinkShape, ReadsLine, gameVars, hostVars
<1>5. CASE EndsReading
  <2>1. UNCHANGED <<Line, Report>>
    BY <1>5 DEF Line, Report, EndsReading, gameVars
  <2>2. closedBySidecar' \subseteq Conns
    BY <1>5, ConnsMade DEF EndsReading, LinkShape
  <2> QED BY <1>5, <2>1, <2>2 DEF LinkShape, EndsReading, gameVars, hostVars
<1> QED BY <1>1, <1>2, <1>3, <1>4, <1>5 DEF BridgeThread

LEMMA ReportsOfTasks ==
  ASSUME LinkShape, tasks # <<>>
  PROVE  /\ tasks' = Tail(tasks) => tasks' \in Seq(Line)
         /\ \/ \E g \in 1..games : Head(tasks) = Hello(g)
            \/ \E b \in BOOLEAN : Head(tasks) = Authority(b)
            \/ Head(tasks) = Event
<1>1. Tail(tasks) \in Seq(Line) /\ Head(tasks) \in Line
  BY TailOfQueue DEF LinkShape
<1> QED BY <1>1 DEF Line

LEMMA TakesTaskShape == LinkShape /\ TakesTask => LinkShape'
<1> SUFFICES ASSUME LinkShape, TakesTask PROVE LinkShape'
  OBVIOUS
<1>1. UNCHANGED <<Line, Report>>
  BY DEF Line, Report, TakesTask, gameVars
<1>2. tasks' \in Seq(Line)
  BY ReportsOfTasks DEF TakesTask
<1>3. sending' \in [to : 0..made, what : Said, report : Seq(Report)] /\ Len(sending'.report) <= 1
  <2>0. conn \in 0..made /\ 0 \in 0..made /\ games # NoGame
    BY Bounds DEF LinkShape, NoConn, NoGame
  <2>1. CASE \E g \in 1..games : Head(tasks) = Hello(g)
    <3>1. PICK g \in 1..games : Head(tasks) = Hello(g)
      BY <2>1
    <3>2. sending' = [to |-> conn, what |-> Welcome, report |-> <<HelloReport(g)>>]
      BY <2>0, <3>1, Kinds DEF TakesTask
    <3>3. HelloReport(g) \in Report
      BY DEF Report
    <3> QED BY <2>0, <3>2, <3>3 DEF Said
  <2>2. CASE \E b \in BOOLEAN : Head(tasks) = Authority(b)
    <3>1. PICK b \in BOOLEAN : Head(tasks) = Authority(b)
      BY <2>2
    <3>2. sending' = [to |-> NoConn, what |-> "report", report |-> <<AuthorityReport(b)>>]
      BY <2>0, <3>1, Kinds DEF TakesTask
    <3>3. AuthorityReport(b) \in Report
      BY DEF Report
    <3> QED BY <2>0, <3>2, <3>3 DEF Said, NoConn
  <2>3. CASE Head(tasks) = Event
    <3>1. sending' = NotSending
      BY <2>0, <2>3, Kinds DEF TakesTask
    <3> QED BY <2>0, <3>1 DEF NotSending, NoReport, Said, NoConn
  <2> QED BY <2>1, <2>2, <2>3, ReportsOfTasks DEF TakesTask
<1> QED BY <1>1, <1>2, <1>3 DEF LinkShape, TakesTask, gameVars, lineVars, hostVars

LEMMA NotifiesShape == LinkShape /\ Notifies => LinkShape'
<1> SUFFICES ASSUME LinkShape, Notifies PROVE LinkShape'
  OBVIOUS
<1>1. UNCHANGED <<Line, Report>>
  BY DEF Line, Report, Notifies, gameVars
<1>2. sending' \in [to : 0..made, what : Said, report : Seq(Report)] /\ Len(sending'.report) <= 1
  <2>1. conn \in 0..made
    BY Bounds DEF LinkShape, NoConn
  <2> QED BY <2>1 DEF Notifies, Said, NoReport
<1> QED BY <1>1, <1>2 DEF LinkShape, Notifies, gameVars, lineVars, hostVars

LEMMA SendEndsShape == LinkShape /\ SendEnds => LinkShape'
<1> SUFFICES ASSUME LinkShape, SendEnds PROVE LinkShape'
  OBVIOUS
<1>1. UNCHANGED <<Line, Report>>
  BY DEF Line, Report, SendEnds, gameVars
<1>2. NotSending \in [to : 0..made, what : Said, report : Seq(Report)] /\ Len(NotSending.report) <= 1
  BY Bounds DEF NotSending, NoReport, Said, NoConn
<1>3. up' \in Seq(Report)
  BY ConcatProperties DEF SendEnds, LinkShape
<1>4. conn' \in {serving, NoConn} /\ (listener \in {"accepting", "dead"} => conn' = NoConn)
  BY DEF SendEnds, Delivered, LinkShape
<1>5. toGame' \in [Conns -> Seq(Said)]
  <2>1. CASE sending.to \in {NoConn} \cup closedByGame \cup closedBySidecar
    BY <2>1 DEF SendEnds, Delivered, LinkShape
  <2>2. CASE sending.to \notin {NoConn} \cup closedByGame \cup closedBySidecar
    <3>1. sending.to \in Conns /\ sending.what \in Said
      BY <2>2, ConnsMade DEF LinkShape
    <3>2. Append(toGame[sending.to], sending.what) \in Seq(Said)
      BY <3>1, AppendProperties DEF LinkShape
    <3> QED BY <2>2, <3>1, <3>2 DEF SendEnds, Delivered, LinkShape
  <2> QED BY <2>1, <2>2
<1> QED BY <1>1, <1>2, <1>3, <1>4, <1>5 DEF LinkShape, SendEnds, gameVars

LEMMA SidecarStartsAgainShape == LinkShape /\ SidecarStartsAgain => LinkShape'
<1> SUFFICES ASSUME LinkShape, SidecarStartsAgain PROVE LinkShape'
  OBVIOUS
<1>1. UNCHANGED <<Line, Report>>
  BY DEF Line, Report, SidecarStartsAgain, gameVars
<1>2. NotSending \in [to : 0..made, what : Said, report : Seq(Report)] /\ Len(NotSending.report) <= 1
  BY Bounds DEF NotSending, NoReport, Said, NoConn
<1>3. /\ <<>> \in Seq(Line) /\ <<>> \in Seq(Report) /\ <<>> \in Seq(1..made)
      /\ 0 \in 0..made /\ 0 \in 0..games /\ Unready \in [bridge : BOOLEAN, authority : BOOLEAN]
  BY Bounds DEF Unready
<1>4. closedBySidecar' \subseteq Conns
  BY ConnsMade DEF SidecarStartsAgain, LinkShape
<1>5. serving' = 0 /\ conn' = 0 /\ heard' = 0 /\ listener' = "accepting"
  BY DEF SidecarStartsAgain, NoConn, NoGame
<1> QED BY <1>1, <1>2, <1>3, <1>4, <1>5 DEF LinkShape, SidecarStartsAgain, gameVars, NoConn

LEMMA HostTakesShape == LinkShape /\ HostTakes => LinkShape'
<1> SUFFICES ASSUME LinkShape, HostTakes PROVE LinkShape'
  OBVIOUS
<1>1. UNCHANGED <<Line, Report>>
  BY DEF Line, Report, HostTakes, gameVars
<1>2. up' \in Seq(Report) /\ Head(up) \in Report
  BY TailOfQueue DEF HostTakes, LinkShape
<1>3. Head(up).game \in 0..games /\ Head(up).authority \in BOOLEAN
  <2>1. CASE \E g \in 1..games : Head(up) = HelloReport(g)
    <3>1. PICK g \in 1..games : Head(up) = HelloReport(g)
      BY <2>1
    <3>2. Head(up).game = g /\ Head(up).authority = FALSE
      BY <3>1 DEF HelloReport
    <3>3. g \in 0..games
      BY <3>1, Bounds
    <3> QED BY <3>2, <3>3
  <2>2. CASE \E b \in BOOLEAN : Head(up) = AuthorityReport(b)
    BY <2>2, Bounds DEF AuthorityReport, NoGame
  <2> QED BY <1>2, <2>1, <2>2 DEF Report
<1> QED BY <1>1, <1>2, <1>3 DEF LinkShape, HostTakes, Recorded, sidecarVars, gameVars, lineVars

LEMMA LinkShapeStep == LinkShape /\ [LinkNext]_linkVars => LinkShape'
<1> SUFFICES ASSUME LinkShape, [LinkNext]_linkVars PROVE LinkShape'
  OBVIOUS
<1>1. CASE Joins
  BY <1>1 DEF Joins, LinkShape, Line, Report, gameVars, lineVars, hostVars
<1>2. CASE UNCHANGED linkVars
  BY <1>2 DEF LinkShape, Line, Report, linkVars, sidecarVars, gameVars, lineVars, hostVars
<1> QED BY <1>1, <1>2, ConnectsShape, GameReadsShape, GameSeesEndShape, EmitBeginsShape, EmitEndsShape,
           GameStartsAgainShape, BridgeThreadShape, TakesTaskShape, NotifiesShape, SendEndsShape,
           SidecarStartsAgainShape, HostTakesShape
        DEF LinkNext, GameReader, Loop

-----------------------------------------------------------------------------
(* No claim follows the hello of a game without the wrapper *)

(* A line of the game that is neither is added to what one connection holds.*)
LEMMA HarmlessLine ==
  ASSUME LinkShape, NoClaimFollows, NEW c \in Conns, NEW x \in Line \cup {Garbled}, x \notin Claim \cup Greeting,
         toSidecar' = [toSidecar EXCEPT ![c] = Append(@, x)],
         UNCHANGED <<games, heard, record, up, sending, tasks, serving, backlog>>
  PROVE  NoClaimFollows'
<1>1. UNCHANGED <<Greeting, Claim>>
  BY DEF Greeting, Claim
<1>2. ASSUME NEW d \in Conns
      PROVE  /\ Quiet(toSidecar[d]) => Quiet(toSidecar[d])'
             /\ Clear(toSidecar[d]) => Clear(toSidecar[d])'
             /\ Greeted(toSidecar[d])' => Greeted(toSidecar[d])
  <2>1. toSidecar[d] \in Seq(Line \cup {Garbled})
    BY DEF LinkShape
  <2>2. toSidecar'[d] = toSidecar[d] \/ toSidecar'[d] = Append(toSidecar[d], x)
    BY DEF LinkShape
  <2>3. /\ Quiet(toSidecar[d]) => Quiet(toSidecar'[d])
        /\ Clear(toSidecar[d]) => Clear(toSidecar'[d])
        /\ Greeted(toSidecar'[d]) => Greeted(toSidecar[d])
    BY <2>1, <2>2, Added
  <2> QED BY <1>1, <2>3 DEF Quiet, Clear, Greeted
<1>3. \A i \in 1..Len(backlog) : backlog[i] \in Conns
  BY ConnsMade
<1>4. LaterQuiet => LaterQuiet'
  BY <1>2, <1>3 DEF LaterQuiet
<1>5. serving # NoConn => serving \in Conns
  BY ConnsMade DEF LinkShape
<1>6. /\ Quiet(Unread) => Quiet(Unread)'
      /\ Clear(Unread) => Clear(Unread)'
      /\ Greeted(Unread)' => Greeted(Unread)
  <2>1. CASE serving = NoConn
    BY <1>1, <2>1 DEF Unread, Quiet, Clear, Greeted
  <2>2. CASE serving # NoConn
    BY <1>2, <1>5, <2>2 DEF Unread
  <2> QED BY <2>1, <2>2
<1>7. UNCHANGED <<Greeted(up), Greeted(sending.report), Greeted(tasks), Clear(up), Clear(tasks),
                  Quiet(up), Quiet(sending.report), Quiet(tasks)>>
  BY <1>1 DEF Greeted, Clear, Quiet
<1> QED BY <1>2, <1>3, <1>4, <1>6, <1>7 DEF NoClaimFollows

(* Steps that touch none of it. *)
LEMMA ClaimsStay ==
  ASSUME NoClaimFollows,
         UNCHANGED <<games, heard, record, up, sending, tasks, serving, backlog, toSidecar>>
  PROVE  NoClaimFollows'
<1>1. UNCHANGED <<Greeting, Claim, Unread>>
  BY DEF Greeting, Claim, Unread
<1> QED BY <1>1, ZenonT(60) DEF NoClaimFollows, Greeted, Clear, Quiet, LaterQuiet

LEMMA GameReadsClaims ==
  ASSUME LinkInv, GameReads, ~suppressed'
  PROVE  NoClaimFollows'
<1>1. LinkShape /\ sock \in Conns /\ games # NoGame
  <2>1. LinkShape
    BY DEF LinkInv
  <2>2. sock \in 0..made /\ sock # NoConn
    BY <2>1 DEF LinkShape, GameReads
  <2> QED BY <2>1, <2>2, ConnsMade, Bounds DEF NoGame
<1>2. CASE UNCHANGED <<suppressed, toSidecar, writing>>
  BY <1>2, ClaimsStay DEF GameReads, LinkInv, sidecarVars, hostVars
<1>3. ASSUME NEW possible \in BOOLEAN, Suppresses(possible)
      PROVE  NoClaimFollows'
  <2>1. possible = FALSE /\ ~suppressed
    BY <1>1, <1>3 DEF Suppresses, LinkShape
  <2>2. Authority(possible /\ ~suppressed) = Authority(FALSE)
    BY <2>1
  <2>3. Written(Authority(FALSE)) \in (Line \cup {Garbled}) \ (Claim \cup Greeting)
    <3>1. Authority(FALSE) \in Line
      BY DEF Line
    <3> QED BY <1>1, <3>1, Kinds DEF Written
  <2>4. toSidecar' = [toSidecar EXCEPT ![sock] = Append(@, Written(Authority(FALSE)))]
    BY <1>3, <2>2 DEF Suppresses
  <2>5. UNCHANGED <<games, heard, record, up, sending, tasks, serving, backlog>>
    BY DEF GameReads, sidecarVars, hostVars
  <2>6. NoClaimFollows
    BY <2>1 DEF LinkInv
  <2> QED BY <1>1, <2>3, <2>4, <2>5, <2>6, HarmlessLine
<1> QED BY <1>2, <1>3 DEF GameReads

LEMMA EmitEndsClaims ==
  ASSUME LinkInv, EmitEnds, ~suppressed'
  PROVE  NoClaimFollows'
<1>1. LinkShape /\ games # NoGame /\ NoClaimFollows
  BY Bounds DEF LinkInv, EmitEnds, NoGame
<1>2. writing.to \in Conns
  BY <1>1, ConnsMade DEF EmitEnds, LinkShape
<1>3. (IF writing.torn THEN Garbled ELSE Event) \in (Line \cup {Garbled}) \ (Claim \cup Greeting)
  <2>1. Event \in Line
    BY DEF Line
  <2> QED BY <1>1, <2>1, Kinds
<1>4. UNCHANGED <<games, heard, record, up, sending, tasks, serving, backlog>>
  BY DEF EmitEnds, sidecarVars, hostVars
<1> QED BY <1>1, <1>2, <1>3, <1>4, HarmlessLine DEF EmitEnds

(* A new connection comes last, and has the hello only. *)
LEMMA ConnectsClaims ==
  ASSUME LinkInv, Connects, ~suppressed'
  PROVE  NoClaimFollows'
<1>1. LinkShape /\ games # NoGame /\ NoClaimFollows /\ made \in Nat /\ made' = made + 1 /\ made' \in Conns
  <2>1. LinkShape /\ NoClaimFollows /\ made < MaxConns /\ made' = made + 1
    BY DEF LinkInv, Connects
  <2> QED BY <2>1, Bounds DEF NoGame, Conns
<1>2. UNCHANGED <<Greeting, Claim>>
  BY DEF Greeting, Claim, Connects
<1>3. \A d \in Conns : toSidecar'[d] = IF d = made' THEN <<Hello(games)>> ELSE toSidecar[d]
  BY DEF Connects, LinkInv, LinkShape
<1>4. Clear(<<Hello(games)>>) /\ Quiet(<<Hello(games)>>)
  BY <1>1, OneOrNone, Kinds
<1>5. UNCHANGED Unread
  <2>1. serving # NoConn => serving \in Conns /\ serving # made'
    BY <1>1, ConnsMade, SMTT(30) DEF LinkShape
  <2> QED BY <1>3, <2>1 DEF Unread, Connects, sidecarVars
<1>6. /\ Len(backlog') = Len(backlog) + 1 /\ Len(backlog) \in Nat /\ backlog'[Len(backlog) + 1] = made'
      /\ \A i \in 1..Len(backlog) : /\ backlog'[i] = backlog[i] /\ backlog[i] \in Conns
                                    /\ toSidecar'[backlog[i]] = toSidecar[backlog[i]]
  <2>1. \A i \in 1..Len(backlog) : backlog[i] \in Conns /\ backlog[i] # made'
    BY <1>1, ConnsMade
  <2>2. backlog \in Seq(1..made) /\ backlog' = Append(backlog, made')
    BY <1>1 DEF Connects, LinkShape
  <2>3. /\ Len(backlog') = Len(backlog) + 1 /\ Len(backlog) \in Nat /\ backlog'[Len(backlog) + 1] = made'
        /\ \A i \in 1..Len(backlog) : backlog'[i] = backlog[i]
    BY <2>2
  <2> QED BY <1>3, <2>1, <2>3
<1>7. \A i \in 1..Len(backlog') : i \in 1..Len(backlog) \/ (i = Len(backlog) + 1 /\ backlog'[i] = made')
  BY <1>6
<1>8. LaterQuiet => LaterQuiet'
  <2> SUFFICES ASSUME LaterQuiet, NEW i \in 1..Len(backlog') PROVE Quiet(toSidecar'[backlog'[i]])
    BY <1>2 DEF LaterQuiet, Quiet
  <2> QED BY <1>1, <1>3, <1>4, <1>6, <1>7 DEF LaterQuiet
<1>9. \A i \in 1..Len(backlog') : Clear(toSidecar'[backlog'[i]])
  BY <1>1, <1>3, <1>4, <1>6, <1>7 DEF NoClaimFollows
<1>10. ASSUME NEW i \in 1..Len(backlog'), NEW j \in 1..Len(backlog'), i < j, Greeted(toSidecar'[backlog'[i]])
       PROVE  Quiet(toSidecar'[backlog'[j]])
  <2>1. i \in 1..Len(backlog)
    BY <1>6, <1>10
  <2>2. CASE j \in 1..Len(backlog)
    BY <1>1, <1>6, <1>10, <2>1, <2>2 DEF NoClaimFollows
  <2>3. CASE j = Len(backlog) + 1 /\ backlog'[j] = made'
    BY <1>1, <1>3, <1>4, <2>3
  <2> QED BY <1>7, <2>2, <2>3
<1>11. /\ \A i \in 1..Len(backlog') : Clear(toSidecar[backlog[i]])'
       /\ \A i, j \in 1..Len(backlog') :
             i < j /\ Greeted(toSidecar[backlog[i]])' => Quiet(toSidecar[backlog[j]])'
  BY <1>2, <1>9, <1>10 DEF Clear, Greeted, Quiet
<1>12. UNCHANGED <<games, heard, record, up, sending, tasks>>
  BY DEF Connects, sidecarVars, hostVars
<1>13. UNCHANGED <<Greeted(up), Greeted(sending.report), Greeted(tasks), Clear(up), Clear(tasks),
                   Quiet(up), Quiet(sending.report), Quiet(tasks), Quiet(Unread), Clear(Unread), Greeted(Unread)>>
  BY <1>2, <1>5, <1>12 DEF Greeted, Clear, Quiet
<1> QED BY <1>1, <1>8, <1>11, <1>12, <1>13 DEF NoClaimFollows

(* Nothing on its way is a hello of a game that starts only now. *)
LEMMA StartClaims ==
  ASSUME LinkInv, GameStartsAgain
  PROVE  NoClaimFollows'
<1>1. LinkShape /\ games \in Nat /\ games' = games + 1
  BY Bounds DEF LinkInv, GameStartsAgain
<1>2. \A x \in Line \cup {Garbled} : x \notin Greeting'
  <2>1. \A g \in 1..games : Hello(g) # Hello(games') /\ Hello(g) # HelloReport(games')
    BY <1>1 DEF Hello, HelloReport
  <2>2. \A b : Authority(b) # Hello(games') /\ Authority(b) # HelloReport(games')
    BY DEF Authority, Hello, HelloReport
  <2>3. /\ Event # Hello(games') /\ Event # HelloReport(games')
        /\ Garbled # Hello(games') /\ Garbled # HelloReport(games')
    BY DEF Event, Garbled, Hello, HelloReport
  <2> QED BY <2>1, <2>2, <2>3 DEF Line, Greeting
<1>3. \A x \in Report : x \notin Greeting'
  <2>1. \A g \in 1..games : HelloReport(g) # Hello(games') /\ HelloReport(g) # HelloReport(games')
    BY <1>1 DEF Hello, HelloReport
  <2>2. \A b : AuthorityReport(b) # Hello(games') /\ AuthorityReport(b) # HelloReport(games')
    BY <1>1 DEF AuthorityReport, Hello, HelloReport, NoGame
  <2> QED BY <2>1, <2>2 DEF Report, Greeting
<1>4. /\ \A c \in Conns : toSidecar[c] \in Seq(Line \cup {Garbled})
      /\ tasks \in Seq(Line \cup {Garbled}) /\ up \in Seq(Report) /\ sending.report \in Seq(Report)
      /\ <<>> \in Seq(Line \cup {Garbled})
  <2>1. tasks \in Seq(Line \cup {Garbled})
    BY <1>1, LongerLists DEF LinkShape
  <2> QED BY <1>1, <2>1 DEF LinkShape
<1>5. /\ \A s \in Seq(Line \cup {Garbled}) : \A i \in 1..Len(s) : s[i] \notin Greeting'
      /\ \A s \in Seq(Report) : \A i \in 1..Len(s) : s[i] \notin Greeting'
  BY <1>2, <1>3, ElementOfSeq
<1>6. /\ UNCHANGED <<up, sending, tasks, toSidecar, serving, backlog, heard>> /\ heard' # games'
      /\ \A i \in 1..Len(backlog) : backlog[i] \in Conns
      /\ UNCHANGED Unread /\ Unread \in Seq(Line \cup {Garbled})
  <2>1. UNCHANGED <<up, sending, tasks, toSidecar, serving, backlog, heard>>
    BY DEF GameStartsAgain, sidecarVars, hostVars
  <2>2. heard \in 0..games
    BY <1>1 DEF LinkShape
  <2>3. serving # NoConn => serving \in Conns
    BY <1>1, ConnsMade DEF LinkShape
  <2> QED BY <1>1, <1>4, <2>1, <2>2, <2>3, ConnsMade DEF Unread
<1>7. /\ ~Greeted(up)' /\ Clear(up)' /\ ~Greeted(sending.report)' /\ ~Greeted(tasks)' /\ Clear(tasks)'
      /\ ~Greeted(Unread)' /\ Clear(Unread)'
  BY <1>4, <1>5, <1>6 DEF Greeted, Clear
<1>8. \A i \in 1..Len(backlog') : ~Greeted(toSidecar[backlog[i]])' /\ Clear(toSidecar[backlog[i]])'
  BY <1>4, <1>5, <1>6 DEF Greeted, Clear
<1> QED BY <1>6, <1>7, <1>8 DEF NoClaimFollows

(* The connection that is accepted moves up from the backlog. *)
LEMMA AcceptsClaims ==
  ASSUME LinkInv, Accepts, ~suppressed'
  PROVE  NoClaimFollows'
<1>1. LinkShape /\ NoClaimFollows
  BY DEF LinkInv, Accepts, gameVars
<1>2. UNCHANGED <<games, heard, record, up, sending, tasks, toSidecar>> /\ backlog # <<>>
      /\ serving' = Head(backlog) /\ backlog' = Tail(backlog)
  BY DEF Accepts, gameVars, hostVars
<1>3. UNCHANGED <<Greeting, Claim>>
  BY <1>2 DEF Greeting, Claim
<1>4. /\ Head(backlog) = backlog[1] /\ 1 \in 1..Len(backlog)
      /\ \A i \in 1..Len(Tail(backlog)) : i + 1 \in 1..Len(backlog) /\ Tail(backlog)[i] = backlog[i + 1] /\ 1 < i + 1
  BY <1>1, <1>2, TailOfQueue DEF LinkShape
<1>5. serving' \in Conns /\ serving' # NoConn
  BY <1>1, <1>2, <1>4, ConnsMade DEF Conns, NoConn
<1>6. Unread' = toSidecar[backlog[1]]
  BY <1>2, <1>4, <1>5 DEF Unread
<1>7. LaterQuiet => LaterQuiet' /\ Quiet(Unread)'
  BY <1>2, <1>3, <1>4, <1>6 DEF LaterQuiet, Quiet
<1>8. Clear(Unread)' /\ (Greeted(Unread)' => LaterQuiet')
  <2>1. Clear(toSidecar[backlog[1]])
    BY <1>1, <1>4 DEF NoClaimFollows
  <2>2. ASSUME Greeted(toSidecar[backlog[1]]), NEW i \in 1..Len(Tail(backlog))
        PROVE  Quiet(toSidecar[Tail(backlog)[i]])
    BY <1>1, <1>4, <2>2 DEF NoClaimFollows
  <2> QED BY <1>2, <1>3, <1>6, <2>1, <2>2 DEF LaterQuiet, Quiet, Clear, Greeted
<1>9. /\ \A i \in 1..Len(Tail(backlog)) : Clear(toSidecar[Tail(backlog)[i]])
      /\ \A i, j \in 1..Len(Tail(backlog)) :
            i < j /\ Greeted(toSidecar[Tail(backlog)[i]]) => Quiet(toSidecar[Tail(backlog)[j]])
  <2>1. \A i \in 1..Len(Tail(backlog)) : Clear(toSidecar[Tail(backlog)[i]])
    BY <1>1, <1>4 DEF NoClaimFollows
  <2>2. ASSUME NEW i \in 1..Len(Tail(backlog)), NEW j \in 1..Len(Tail(backlog)), i < j,
               Greeted(toSidecar[Tail(backlog)[i]])
        PROVE  Quiet(toSidecar[Tail(backlog)[j]])
    <3>1. i + 1 < j + 1
      BY <2>2
    <3> QED BY <1>1, <1>4, <2>2, <3>1 DEF NoClaimFollows
  <2> QED BY <2>1, <2>2
<1>10. /\ \A i \in 1..Len(backlog') : Clear(toSidecar[backlog[i]])'
       /\ \A i, j \in 1..Len(backlog') :
             i < j /\ Greeted(toSidecar[backlog[i]])' => Quiet(toSidecar[backlog[j]])'
  BY <1>2, <1>3, <1>9 DEF Clear, Greeted, Quiet
<1>11. UNCHANGED <<Greeted(up), Greeted(sending.report), Greeted(tasks), Clear(up), Clear(tasks),
                   Quiet(up), Quiet(sending.report), Quiet(tasks)>>
  BY <1>2, <1>3 DEF Greeted, Clear, Quiet
<1> QED BY <1>1, <1>2, <1>7, <1>8, <1>10, <1>11 DEF NoClaimFollows

(* Everything the sidecar has not read is gone. *)
LEMMA AssertionClaims ==
  ASSUME LinkInv, AssertionFails, ~suppressed'
  PROVE  NoClaimFollows'
<1>1. NoClaimFollows
  BY DEF LinkInv, AssertionFails, gameVars
<1>2. UNCHANGED <<games, heard, record, up, sending, tasks, toSidecar>>
      /\ serving' = NoConn /\ backlog' = <<>>
  BY DEF AssertionFails, gameVars, hostVars
<1>3. UNCHANGED <<Greeting, Claim>>
  BY <1>2 DEF Greeting, Claim
<1>4. Unread' = <<>> /\ LaterQuiet'
  BY <1>2 DEF Unread, LaterQuiet
<1>5. Quiet(Unread)' /\ Clear(Unread)' /\ ~Greeted(Unread)'
  BY <1>4 DEF Quiet, Clear, Greeted
<1>6. UNCHANGED <<Greeted(up), Greeted(sending.report), Greeted(tasks), Clear(up), Clear(tasks),
                  Quiet(up), Quiet(sending.report), Quiet(tasks)>>
  BY <1>2, <1>3 DEF Greeted, Clear, Quiet
<1> QED BY <1>1, <1>2, <1>4, <1>5, <1>6 DEF NoClaimFollows

(* A line moves from the connection to the tasks. *)
LEMMA ReadsLineClaims ==
  ASSUME LinkInv, ReadsLine, ~suppressed'
  PROVE  NoClaimFollows'
<1> DEFINE s == toSidecar[serving]
           x == Head(s)
<1>1. LinkShape /\ NoClaimFollows
  BY DEF LinkInv, ReadsLine, gameVars
<1>2. /\ UNCHANGED <<games, heard, record, up, sending, serving, backlog>>
      /\ s # <<>> /\ x # Garbled /\ tasks' = Append(tasks, x)
      /\ toSidecar' = [toSidecar EXCEPT ![serving] = Tail(@)] /\ serving # NoConn
  BY <1>1 DEF ReadsLine, LinkShape, gameVars, hostVars
<1>3. UNCHANGED <<Greeting, Claim>>
  BY <1>2 DEF Greeting, Claim
<1>4. serving \in Conns /\ s \in Seq(Line \cup {Garbled}) /\ tasks \in Seq(Line) /\ toSidecar \in [Conns -> Seq(Line \cup {Garbled})]
  BY <1>1, <1>2, ConnsMade DEF LinkShape
<1>5. x \in Line
  BY <1>2, <1>4, TailOfQueue
<1>6. Unread = s /\ Unread' = Tail(s)
  BY <1>2, <1>4 DEF Unread
<1>7. /\ Quiet(s) => Quiet(Tail(s)) /\ x \notin Claim
      /\ Clear(Tail(s)) /\ (x \in Greeting => Quiet(Tail(s)))
      /\ Greeted(Tail(s)) \/ x \in Greeting => Greeted(s)
  <2>1. Clear(s)
    BY <1>1, <1>6 DEF NoClaimFollows
  <2> QED BY <1>2, <1>4, <2>1, Taken
<1>8. /\ Quiet(tasks) /\ x \notin Claim => Quiet(tasks')
      /\ Greeted(tasks') <=> Greeted(tasks) \/ x \in Greeting
      /\ Clear(tasks) /\ (x \notin Claim \/ ~Greeted(tasks)) => Clear(tasks')
  BY <1>2, <1>4, <1>5, Added
<1>9. ASSUME NEW i \in 1..Len(backlog)
      PROVE  /\ backlog[i] \in Conns
             /\ \/ toSidecar'[backlog[i]] = toSidecar[backlog[i]]
                \/ toSidecar'[backlog[i]] = Tail(s) /\ toSidecar[backlog[i]] = s
  <2>1. backlog[i] \in Conns
    BY <1>1, ConnsMade
  <2>2. CASE backlog[i] = serving
    BY <1>2, <1>4, <2>1, <2>2
  <2>3. CASE backlog[i] # serving
    BY <1>2, <1>4, <2>1, <2>3
  <2> QED BY <2>1, <2>2, <2>3
<1>10. \A i \in 1..Len(backlog) :
         /\ Quiet(toSidecar[backlog[i]]) => Quiet(toSidecar'[backlog[i]])
         /\ Clear(toSidecar'[backlog[i]])
         /\ Greeted(toSidecar'[backlog[i]]) => Greeted(toSidecar[backlog[i]])
  BY <1>1, <1>7, <1>9 DEF NoClaimFollows
<1>11. LaterQuiet => LaterQuiet'
  <2>1. LaterQuiet => \A i \in 1..Len(backlog) : Quiet(toSidecar'[backlog[i]])
    BY <1>10 DEF LaterQuiet
  <2> QED BY <1>2, <1>3, <2>1 DEF LaterQuiet, Quiet
<1>12. /\ \A i \in 1..Len(backlog') : Clear(toSidecar[backlog[i]])'
       /\ \A i, j \in 1..Len(backlog') :
             i < j /\ Greeted(toSidecar[backlog[i]])' => Quiet(toSidecar[backlog[j]])'
  <2>1. \A i, j \in 1..Len(backlog) :
             i < j /\ Greeted(toSidecar'[backlog[i]]) => Quiet(toSidecar'[backlog[j]])
    BY <1>1, <1>10 DEF NoClaimFollows
  <2>2. \A i \in 1..Len(backlog) :
             /\ Clear(toSidecar[backlog[i]])' <=> Clear(toSidecar'[backlog[i]])
             /\ Greeted(toSidecar[backlog[i]])' <=> Greeted(toSidecar'[backlog[i]])
             /\ Quiet(toSidecar[backlog[i]])' <=> Quiet(toSidecar'[backlog[i]])
    BY <1>2, <1>3 DEF Clear, Greeted, Quiet
  <2> QED BY <1>2, <1>10, <2>1, <2>2
<1>13. /\ Quiet(Unread) => Quiet(Unread)' /\ Quiet(Tail(s))
       /\ Clear(Unread)' /\ (Quiet(Unread)' <=> Quiet(Tail(s))) /\ (Greeted(Unread)' => Greeted(Unread))
  BY <1>3, <1>6, <1>7 DEF Quiet, Clear, Greeted
<1>14. /\ (Quiet(tasks)' <=> Quiet(tasks')) /\ (Clear(tasks)' <=> Clear(tasks')) /\ (Greeted(tasks)' <=> Greeted(tasks'))
  BY <1>3 DEF Quiet, Clear, Greeted
<1>15. UNCHANGED <<Greeted(up), Greeted(sending.report), Clear(up), Quiet(up), Quiet(sending.report)>>
  BY <1>2, <1>3 DEF Greeted, Clear, Quiet
<1>16. heard' = games' => /\ ~record'.authority /\ Quiet(up)' /\ Quiet(sending.report)' /\ Quiet(tasks)'
                          /\ Quiet(Unread)' /\ LaterQuiet'
  BY <1>1, <1>2, <1>6, <1>7, <1>8, <1>11, <1>13, <1>14, <1>15 DEF NoClaimFollows
<1>17. Clear(up)' /\ (Greeted(up)' => Quiet(sending.report)' /\ Quiet(tasks)' /\ Quiet(Unread)' /\ LaterQuiet')
  BY <1>1, <1>2, <1>6, <1>7, <1>8, <1>11, <1>13, <1>14, <1>15 DEF NoClaimFollows
<1>18. Greeted(sending.report)' => Quiet(tasks)' /\ Quiet(Unread)' /\ LaterQuiet'
  BY <1>1, <1>2, <1>6, <1>7, <1>8, <1>11, <1>13, <1>14, <1>15 DEF NoClaimFollows
<1>19. Clear(tasks)' /\ (Greeted(tasks)' => Quiet(Unread)' /\ LaterQuiet')
  <2>1. Greeted(tasks) => Quiet(s)
    BY <1>1, <1>6 DEF NoClaimFollows
  <2>5. Greeted(tasks) => x \notin Claim
    BY <1>7, <2>1
  <2>2. Clear(tasks)'
    BY <1>1, <1>7, <1>8, <1>14, <2>1 DEF NoClaimFollows
  <2>3. x \in Greeting => Quiet(Unread)' /\ LaterQuiet'
    BY <1>1, <1>6, <1>7, <1>11, <1>13 DEF NoClaimFollows
  <2>4. Greeted(tasks) => Quiet(Unread)' /\ LaterQuiet'
    BY <1>1, <1>11, <1>13 DEF NoClaimFollows
  <2> QED BY <1>8, <1>14, <2>2, <2>3, <2>4
<1>20. Clear(Unread)' /\ (Greeted(Unread)' => LaterQuiet')
  BY <1>1, <1>11, <1>13 DEF NoClaimFollows
<1> QED BY <1>12, <1>16, <1>17, <1>18, <1>19, <1>20 DEF NoClaimFollows

(* A task becomes a report to be sent. *)
LEMMA TakesTaskClaims ==
  ASSUME LinkInv, TakesTask, ~suppressed'
  PROVE  NoClaimFollows'
<1> DEFINE e == Head(tasks)
<1>1. LinkShape /\ NoClaimFollows /\ games # NoGame /\ tasks \in Seq(Line)
  <2>1. LinkShape /\ NoClaimFollows
    BY DEF LinkInv, TakesTask, gameVars
  <2> QED BY <2>1, Bounds, SMTT(30) DEF NoGame, LinkShape
<1>2. /\ UNCHANGED <<games, heard, record, up, serving, backlog, toSidecar>>
      /\ tasks # <<>> /\ tasks' = Tail(tasks)
  BY DEF TakesTask, gameVars, lineVars, hostVars
<1>3. UNCHANGED <<Greeting, Claim>>
  BY <1>2 DEF Greeting, Claim
<1>4. /\ Quiet(tasks) => Quiet(Tail(tasks)) /\ e \notin Claim
      /\ Clear(Tail(tasks)) /\ (e \in Greeting => Quiet(Tail(tasks)))
      /\ Greeted(Tail(tasks)) \/ e \in Greeting => Greeted(tasks)
  <2>1. Clear(tasks)
    BY <1>1 DEF NoClaimFollows
  <2> QED BY <1>1, <1>2, <2>1, Taken
<1>5. /\ Greeted(sending'.report) => e \in Greeting
      /\ e \notin Claim => Quiet(sending'.report)
  <2>1. CASE \E g \in 1..games : e = Hello(g)
    <3>1. PICK g \in 1..games : e = Hello(g)
      BY <2>1
    <3>2. sending' = [to |-> conn, what |-> Welcome, report |-> <<HelloReport(g)>>]
      BY <1>1, <3>1, Kinds DEF TakesTask
    <3>3. sending'.report = <<HelloReport(g)>>
      BY <3>2
    <3>4. HelloReport(g) \notin Claim /\ (HelloReport(g) \in Greeting => e \in Greeting)
      BY <1>1, <3>1, Kinds, ZenonT(60)
    <3> QED BY <3>3, <3>4, OneOrNone
  <2>2. CASE \E b \in BOOLEAN : e = Authority(b)
    <3>1. PICK b \in BOOLEAN : e = Authority(b)
      BY <2>2
    <3>2. sending' = [to |-> NoConn, what |-> "report", report |-> <<AuthorityReport(b)>>]
      BY <1>1, <3>1, Kinds DEF TakesTask
    <3>3. sending'.report = <<AuthorityReport(b)>>
      BY <3>2
    <3>4. AuthorityReport(b) \notin Greeting
      BY <1>1, Kinds
    <3>5. e \notin Claim => AuthorityReport(b) \notin Claim
      <4>1. CASE b = TRUE
        <5>1. e = Authority(TRUE)
          BY <3>1, <4>1
        <5> QED BY <5>1 DEF Claim
      <4>2. CASE b = FALSE
        <5>1. AuthorityReport(b) = AuthorityReport(FALSE)
          BY <4>2
        <5> QED BY <1>1, <5>1, Kinds
      <4> QED BY <3>1, <4>1, <4>2
    <3> QED BY <3>3, <3>4, <3>5, OneOrNone
  <2>3. CASE e = Event
    <3>1. sending' = NotSending
      BY <1>1, <2>3, Kinds DEF TakesTask
    <3>2. sending'.report = <<>>
      BY <3>1 DEF NotSending, NoReport
    <3> QED BY <3>2, OneOrNone
  <2> QED BY <1>1, <1>2, <2>1, <2>2, <2>3, ReportsOfTasks
<1>6. UNCHANGED <<Unread, LaterQuiet, Quiet(Unread), Clear(Unread), Greeted(Unread),
                  Quiet(up), Clear(up), Greeted(up)>>
  BY <1>2, <1>3 DEF Unread, LaterQuiet, Quiet, Clear, Greeted
<1>7. /\ (Quiet(tasks)' <=> Quiet(Tail(tasks))) /\ (Clear(tasks)' <=> Clear(Tail(tasks)))
      /\ (Greeted(tasks)' <=> Greeted(Tail(tasks)))
      /\ (Quiet(sending.report)' <=> Quiet(sending'.report)) /\ (Greeted(sending.report)' <=> Greeted(sending'.report))
  BY <1>2, <1>3 DEF Quiet, Clear, Greeted
<1>8. /\ \A i \in 1..Len(backlog') : Clear(toSidecar[backlog[i]])'
      /\ \A i, j \in 1..Len(backlog') :
            i < j /\ Greeted(toSidecar[backlog[i]])' => Quiet(toSidecar[backlog[j]])'
  <2>1. \A i \in 1..Len(backlog) :
             /\ Clear(toSidecar[backlog[i]])' <=> Clear(toSidecar[backlog[i]])
             /\ Greeted(toSidecar[backlog[i]])' <=> Greeted(toSidecar[backlog[i]])
             /\ Quiet(toSidecar[backlog[i]])' <=> Quiet(toSidecar[backlog[i]])
    BY <1>2, <1>3 DEF Clear, Greeted, Quiet
  <2> QED BY <1>1, <1>2, <2>1 DEF NoClaimFollows
<1>9. heard' = games' => /\ ~record'.authority /\ Quiet(up)' /\ Quiet(sending.report)' /\ Quiet(tasks)'
                         /\ Quiet(Unread)' /\ LaterQuiet'
  BY <1>1, <1>2, <1>4, <1>5, <1>6, <1>7 DEF NoClaimFollows
<1>10. Clear(up)' /\ (Greeted(up)' => Quiet(sending.report)' /\ Quiet(tasks)' /\ Quiet(Unread)' /\ LaterQuiet')
  BY <1>1, <1>2, <1>4, <1>5, <1>6, <1>7 DEF NoClaimFollows
<1>11. Greeted(sending.report)' => Quiet(tasks)' /\ Quiet(Unread)' /\ LaterQuiet'
  BY <1>1, <1>4, <1>5, <1>6, <1>7 DEF NoClaimFollows
<1>12. /\ Clear(tasks)' /\ (Greeted(tasks)' => Quiet(Unread)' /\ LaterQuiet')
       /\ Clear(Unread)' /\ (Greeted(Unread)' => LaterQuiet')
  BY <1>1, <1>4, <1>6, <1>7 DEF NoClaimFollows
<1> QED BY <1>8, <1>9, <1>10, <1>11, <1>12 DEF NoClaimFollows

(* The report, if there is one, is on its way to the host. *)
LEMMA ReportLeaves ==
  ASSUME LinkShape, NoClaimFollows, sending'.report = <<>>, up' = up \o sending.report \/ up' = up,
         UNCHANGED <<games, heard, record, tasks, serving, backlog, toSidecar>>
  PROVE  NoClaimFollows'
<1> DEFINE r == sending.report
<1>1. UNCHANGED <<Greeting, Claim>>
  BY DEF Greeting, Claim
<1>2. r \in Seq(Report) /\ Len(r) <= 1 /\ up \in Seq(Report)
  BY DEF LinkShape
<1>3. /\ Quiet(up) /\ Quiet(r) => Quiet(up')
      /\ Greeted(up') => Greeted(up) \/ Greeted(r)
      /\ Clear(up')
  <2>0. Clear(up) /\ (Greeted(up) => Quiet(r))
    BY DEF NoClaimFollows
  <2>1. CASE up' = up
    BY <2>0, <2>1
  <2>2. CASE up' = up \o r /\ r = <<>>
    <3>1. up' = up
      BY <1>2, <2>2
    <3> QED BY <2>0, <3>1
  <2>3. CASE up' = up \o r /\ r # <<>>
    <3>1. Len(r) = 1 /\ r[1] \in Report /\ r = <<r[1]>>
      <4>1. Len(r) = 1
        <5>1. Len(r) \in Nat \ {0}
          BY <1>2, <2>3, EmptySeq
        <5>2. Len(r) <= 1
          BY <1>2
        <5>3. \A n \in Nat \ {0} : n <= 1 => n = 1
          OBVIOUS
        <5> QED BY <5>1, <5>2, <5>3
      <4>2. r[1] \in Report
        BY <1>2, <4>1, ElementOfSeq
      <4>3. r = <<r[1]>>
        BY <1>2, <4>1
      <4> QED BY <4>1, <4>2, <4>3
    <3>2. up' = Append(up, r[1])
      BY <1>2, <2>3, <3>1
    <3>3. (Quiet(r) <=> r[1] \notin Claim) /\ (Greeted(r) <=> r[1] \in Greeting)
      BY <3>1 DEF Quiet, Greeted
    <3> QED BY <1>2, <2>0, <3>1, <3>2, <3>3, Added
  <2> QED BY <2>1, <2>2, <2>3
<1>4. Quiet(sending'.report) /\ ~Greeted(sending'.report)
  BY OneOrNone
<1>5. /\ (Quiet(up)' <=> Quiet(up')) /\ (Clear(up)' <=> Clear(up')) /\ (Greeted(up)' <=> Greeted(up'))
      /\ (Quiet(sending.report)' <=> Quiet(sending'.report)) /\ (Greeted(sending.report)' <=> Greeted(sending'.report))
  BY <1>1 DEF Quiet, Clear, Greeted
<1>6. UNCHANGED <<LaterQuiet, Quiet(Unread), Clear(Unread), Greeted(Unread),
                  Quiet(tasks), Clear(tasks), Greeted(tasks)>>
  BY <1>1 DEF Unread, LaterQuiet, Quiet, Clear, Greeted
<1>7. /\ \A i \in 1..Len(backlog') : Clear(toSidecar[backlog[i]])'
      /\ \A i, j \in 1..Len(backlog') :
            i < j /\ Greeted(toSidecar[backlog[i]])' => Quiet(toSidecar[backlog[j]])'
  <2>1. \A i \in 1..Len(backlog) :
             /\ Clear(toSidecar[backlog[i]])' <=> Clear(toSidecar[backlog[i]])
             /\ Greeted(toSidecar[backlog[i]])' <=> Greeted(toSidecar[backlog[i]])
             /\ Quiet(toSidecar[backlog[i]])' <=> Quiet(toSidecar[backlog[i]])
    BY <1>1 DEF Clear, Greeted, Quiet
  <2> QED BY <2>1 DEF NoClaimFollows
<1>8. heard' = games' => /\ ~record'.authority /\ Quiet(up)' /\ Quiet(sending.report)' /\ Quiet(tasks)'
                         /\ Quiet(Unread)' /\ LaterQuiet'
  BY <1>3, <1>4, <1>5, <1>6 DEF NoClaimFollows
<1>9. Clear(up)' /\ (Greeted(up)' => Quiet(sending.report)' /\ Quiet(tasks)' /\ Quiet(Unread)' /\ LaterQuiet')
  BY <1>3, <1>4, <1>5, <1>6 DEF NoClaimFollows
<1>10. /\ Greeted(sending.report)' => Quiet(tasks)' /\ Quiet(Unread)' /\ LaterQuiet'
       /\ Clear(tasks)' /\ (Greeted(tasks)' => Quiet(Unread)' /\ LaterQuiet')
       /\ Clear(Unread)' /\ (Greeted(Unread)' => LaterQuiet')
  BY <1>4, <1>5, <1>6 DEF NoClaimFollows
<1> QED BY <1>7, <1>8, <1>9, <1>10 DEF NoClaimFollows

(* The host takes a report: a hello of the game that runs clears its record.*)
LEMMA HostTakesClaims ==
  ASSUME LinkInv, HostTakes, ~suppressed'
  PROVE  NoClaimFollows'
<1> DEFINE x == Head(up)
<1>1. LinkShape /\ NoClaimFollows /\ games # NoGame /\ up \in Seq(Report)
  <2>1. LinkShape /\ NoClaimFollows
    BY DEF LinkInv, HostTakes, gameVars
  <2> QED BY <2>1, Bounds, SMTT(30) DEF NoGame, LinkShape
<1>2. /\ UNCHANGED <<games, sending, tasks, serving, backlog, toSidecar>>
      /\ up # <<>> /\ up' = Tail(up) /\ record'.authority = x.authority
      /\ heard' = IF x.game = NoGame THEN heard ELSE x.game
  BY DEF HostTakes, Recorded, sidecarVars, gameVars, lineVars
<1>3. UNCHANGED <<Greeting, Claim>>
  BY <1>2 DEF Greeting, Claim
<1>4. /\ Quiet(up) => Quiet(Tail(up)) /\ x \notin Claim
      /\ Clear(Tail(up)) /\ (x \in Greeting => Quiet(Tail(up)))
      /\ Greeted(Tail(up)) \/ x \in Greeting => Greeted(up)
  <2>1. Clear(up)
    BY <1>1 DEF NoClaimFollows
  <2> QED BY <1>1, <1>2, <2>1, Taken
<1>5. heard' = games => \/ x \in Greeting /\ ~x.authority
                        \/ heard = games /\ (x \notin Claim => ~x.authority)
  <2>1. x \in Report
    BY <1>1, <1>2, TailOfQueue
  <2>2. CASE \E g \in 1..games : x = HelloReport(g)
    <3>1. PICK g \in 1..games : x = HelloReport(g)
      BY <2>2
    <3>2. x.game = g /\ x.authority = FALSE
      BY <3>1 DEF HelloReport
    <3>3. g # NoGame
      BY <3>1 DEF NoGame
    <3>4. g = games => x \in Greeting
      BY <3>1 DEF Greeting
    <3> QED BY <1>2, <3>2, <3>3, <3>4
  <2>3. CASE \E b \in BOOLEAN : x = AuthorityReport(b)
    <3>1. PICK b \in BOOLEAN : x = AuthorityReport(b)
      BY <2>3
    <3>2. x.game = NoGame /\ x.authority = b
      BY <3>1 DEF AuthorityReport
    <3>3. heard' = heard
      BY <1>2, <3>2
    <3>4. x \notin Claim => b = FALSE
      <4>1. b = TRUE => x = AuthorityReport(TRUE)
        BY <3>1
      <4> QED BY <3>1, <4>1 DEF Claim
    <3> QED BY <3>2, <3>3, <3>4
  <2> QED BY <2>1, <2>2, <2>3 DEF Report
<1>6. UNCHANGED <<LaterQuiet, Quiet(Unread), Clear(Unread), Greeted(Unread), Quiet(sending.report),
                  Greeted(sending.report), Quiet(tasks), Clear(tasks), Greeted(tasks)>>
  BY <1>2, <1>3 DEF Unread, LaterQuiet, Quiet, Clear, Greeted
<1>7. (Quiet(up)' <=> Quiet(Tail(up))) /\ (Clear(up)' <=> Clear(Tail(up))) /\ (Greeted(up)' <=> Greeted(Tail(up)))
  BY <1>2, <1>3 DEF Quiet, Clear, Greeted
<1>8. /\ \A i \in 1..Len(backlog') : Clear(toSidecar[backlog[i]])'
      /\ \A i, j \in 1..Len(backlog') :
            i < j /\ Greeted(toSidecar[backlog[i]])' => Quiet(toSidecar[backlog[j]])'
  <2>1. \A i \in 1..Len(backlog) :
             /\ Clear(toSidecar[backlog[i]])' <=> Clear(toSidecar[backlog[i]])
             /\ Greeted(toSidecar[backlog[i]])' <=> Greeted(toSidecar[backlog[i]])
             /\ Quiet(toSidecar[backlog[i]])' <=> Quiet(toSidecar[backlog[i]])
    BY <1>2, <1>3 DEF Clear, Greeted, Quiet
  <2> QED BY <1>1, <1>2, <2>1 DEF NoClaimFollows
<1>9. ASSUME heard' = games'
      PROVE  /\ ~record'.authority /\ Quiet(up)' /\ Quiet(sending.report)' /\ Quiet(tasks)'
             /\ Quiet(Unread)' /\ LaterQuiet'
  <2>1. CASE x \in Greeting /\ ~x.authority
    BY <1>1, <1>2, <1>4, <1>6, <1>7, <2>1 DEF NoClaimFollows
  <2>2. CASE heard = games /\ (x \notin Claim => ~x.authority)
    BY <1>1, <1>2, <1>4, <1>6, <1>7, <2>2 DEF NoClaimFollows
  <2> QED BY <1>2, <1>5, <1>9, <2>1, <2>2
<1>10. Clear(up)' /\ (Greeted(up)' => Quiet(sending.report)' /\ Quiet(tasks)' /\ Quiet(Unread)' /\ LaterQuiet')
  BY <1>1, <1>4, <1>6, <1>7 DEF NoClaimFollows
<1>11. /\ Greeted(sending.report)' => Quiet(tasks)' /\ Quiet(Unread)' /\ LaterQuiet'
       /\ Clear(tasks)' /\ (Greeted(tasks)' => Quiet(Unread)' /\ LaterQuiet')
       /\ Clear(Unread)' /\ (Greeted(Unread)' => LaterQuiet')
  BY <1>1, <1>6 DEF NoClaimFollows
<1> QED BY <1>8, <1>9, <1>10, <1>11 DEF NoClaimFollows

(* A new sidecar has read nothing, and the host has no record. *)
LEMMA SidecarStartsClaims ==
  ASSUME LinkInv, SidecarStartsAgain
  PROVE  NoClaimFollows'
<1>1. /\ sending'.report = <<>> /\ tasks' = <<>> /\ backlog' = <<>> /\ up' = <<>> /\ serving' = NoConn
      /\ record'.authority = FALSE
  BY DEF SidecarStartsAgain, NotSending, NoReport, Unready
<1>2. Unread' = <<>>
  BY <1>1 DEF Unread
<1> QED BY <1>1, <1>2 DEF NoClaimFollows, LaterQuiet, Quiet, Clear, Greeted

-----------------------------------------------------------------------------

LEMMA LinkStep == LinkInv /\ [LinkNext]_linkVars => LinkInv'
<1> SUFFICES ASSUME LinkInv, [LinkNext]_linkVars, ~suppressed' PROVE NoClaimFollows'
  BY LinkShapeStep DEF LinkInv
<1>1. LinkShape /\ (~suppressed => NoClaimFollows)
  BY DEF LinkInv
<1>2. ASSUME UNCHANGED <<suppressed, games, heard, record, up, sending, tasks, serving, backlog, toSidecar>>
      PROVE  NoClaimFollows'
  BY <1>1, <1>2, ClaimsStay
<1>3. CASE UNCHANGED linkVars
  BY <1>2, <1>3 DEF linkVars, sidecarVars, gameVars, lineVars, hostVars
<1>4. CASE Connects
  BY <1>4, ConnectsClaims
<1>5. CASE GameReads
  BY <1>5, GameReadsClaims
<1>6. CASE GameSeesEnd
  BY <1>2, <1>6 DEF GameSeesEnd, sidecarVars, hostVars
<1>7. CASE EmitBegins
  BY <1>2, <1>7 DEF EmitBegins, sidecarVars, lineVars, hostVars
<1>8. CASE EmitEnds
  BY <1>8, EmitEndsClaims
<1>9. CASE GameStartsAgain
  BY <1>9, StartClaims
<1>10. CASE Accepts
  BY <1>10, AcceptsClaims
<1>11. CASE StartsReading
  BY <1>2, <1>11 DEF StartsReading, gameVars, lineVars, hostVars
<1>12. CASE AssertionFails
  BY <1>12, AssertionClaims
<1>13. CASE ReadsLine
  BY <1>13, ReadsLineClaims
<1>14. CASE EndsReading
  BY <1>2, <1>14 DEF EndsReading, gameVars, hostVars
<1>15. CASE TakesTask
  BY <1>15, TakesTaskClaims
<1>16. CASE SendEnds
  <2>1. /\ sending'.report = <<>> /\ (up' = up \o sending.report \/ up' = up) /\ UNCHANGED suppressed
        /\ UNCHANGED <<games, heard, record, tasks, serving, backlog, toSidecar>>
    BY <1>16 DEF SendEnds, NotSending, NoReport, gameVars
  <2> QED BY <1>1, <2>1, ReportLeaves
<1>17. CASE Notifies
  <2>1. /\ sending'.report = <<>> /\ up' = up /\ UNCHANGED suppressed
        /\ UNCHANGED <<games, heard, record, tasks, serving, backlog, toSidecar>>
    BY <1>17 DEF Notifies, NoReport, gameVars, lineVars, hostVars
  <2> QED BY <1>1, <2>1, ReportLeaves
<1>18. CASE Joins
  BY <1>2, <1>18 DEF Joins, gameVars, lineVars, hostVars
<1>19. CASE SidecarStartsAgain
  BY <1>19, SidecarStartsClaims
<1>20. CASE HostTakes
  BY <1>20, HostTakesClaims
<1> QED BY <1>3, <1>4, <1>5, <1>6, <1>7, <1>8, <1>9, <1>10, <1>11, <1>12, <1>13, <1>14, <1>15, <1>16, <1>17,
           <1>18, <1>19, <1>20
        DEF LinkNext, GameReader, BridgeThread, Loop

(* However often game and sidecar start again, no claim that the wrapper is  *)
(* in place is on its way, or taken, behind the hello of a game without it:  *)
(* lines, tasks and reports keep their order, and a connection is read to    *)
(* its end before the next is accepted (bridge.py, LocalGameBridge._run).    *)
THEOREM LinkInvariant == LinkSpec => []LinkInv
<1>1. LinkInit => LinkInv
  BY LinkStart
<1>2. LinkInv /\ [LinkNext]_linkVars => LinkInv'
  BY LinkStep
<1> QED BY <1>1, <1>2, PTL DEF LinkSpec

(* The types of bridge, game and record; a bridge that waits for the next    *)
(* connection has forgotten the last (bridge.py, LocalGameBridge._run).      *)
THEOREM LinkTypesHold == LinkSpec => []LinkTypeOK
<1>1. LinkInv => LinkTypeOK
  <2> SUFFICES ASSUME LinkShape PROVE LinkTypeOK
    BY DEF LinkInv
  <2>1. /\ serving \in Conns \cup {NoConn} /\ sending.to \in Conns \cup {NoConn}
        /\ writing.to \in Conns \cup {NoConn} /\ sock \in Conns \cup {NoConn}
    <3>1. 0..made \subseteq Conns \cup {NoConn}
      BY ConnsMade
    <3> QED BY <3>1 DEF LinkShape
  <2>2. heard \in Games \cup {NoGame}
    <3>1. heard \in 0..games
      BY DEF LinkShape
    <3> QED BY <3>1, Bounds DEF Games, NoGame
  <2> QED BY <2>1, <2>2 DEF LinkShape, LinkTypeOK
<1> QED BY <1>1, LinkInvariant, PTL

(* The host has a client down as suppressed only if the game it last heard   *)
(* of, when that is still the one that runs, has the wrapper in place        *)
(* (runtime.py, ClientRuntime._on_game_event and HostRuntime's READINESS).   *)
THEOREM SuppressionIsReal == LinkSpec => []AuthorityIsReal
<1>1. LinkInv => AuthorityIsReal
  BY DEF LinkInv, NoClaimFollows, AuthorityIsReal
<1> QED BY <1>1, LinkInvariant, PTL

================================================================================
