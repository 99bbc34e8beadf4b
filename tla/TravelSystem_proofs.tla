------------------------ MODULE TravelSystem_proofs ------------------------
(***************************************************************************)
(* Proofs about travel across the whole system, for any players, any bound *)
(* on travels, requests, view messages and reconnections, and any choice   *)
(* of who may fail, leave or be slow.                                      *)
(***************************************************************************)
EXTENDS TravelSystem, TravelCoordinator_proofs, SequenceTheorems

-----------------------------------------------------------------------------
(* What travels between the processes once e travels were proposed and n    *)
(* view messages were numbered.                                             *)

ControlType == {"propose", "prepare", "begin", "commit", "end", "resume", "abort"}
ReportType == {"request", "ready", "zone_ready", "end", "abort", "raw"}

Control(e) == {m \in [type : ControlType, txn_id : 1..e, epoch : 1..e] : m.txn_id = m.epoch}
Packets(n, e) == [type : {"raw"}, seq : 1..n, epoch : 0..e]
Orders(n, e) == Control(e) \cup Packets(n, e)

Reports(e) ==
  {m \in [type : ReportType, txn_id : 0..e, epoch : 0..e] :
     /\ m.type \in {"ready", "end", "abort"} => m.txn_id = m.epoch /\ m.epoch # None
     /\ m.type = "zone_ready" => m.txn_id \in {None, m.epoch}}

SidecarState(n, e) ==
  [travel_epoch : 0..e, last_seq : Nat, buffering : BOOLEAN,
   buffer : Seq(Packets(n, e)), batch_complete : BOOLEAN]

GameState(n, e) ==
  [pending : 0..e, epoch : 0..e, batch_complete : BOOLEAN, zone_reported : BOOLEAN,
   bypass : BOOLEAN, buffering : BOOLEAN, buffer : Seq(1..n), shown : Seq(1..n),
   loading : 0..e, zone : 0..e]

SystemShape ==
  /\ session \in SUBSET Players /\ Host \in session
  /\ joins \in 0..MaxJoins /\ requests \in 0..MaxRequests
  /\ rawSent \in 0..MaxRaw /\ hostSeq \in Nat /\ epoch \in Nat
  /\ committing \subseteq [by : Players, epoch : 1..epoch, sent : BOOLEAN]
  /\ up \in [Players -> Seq(Reports(epoch))]
  /\ down \in [Clients -> Seq(Orders(hostSeq, epoch))]
  /\ toGame \in [Players -> Seq(Orders(hostSeq, epoch))]
  /\ sidecar \in [Clients -> SidecarState(hostSeq, epoch)]
  /\ game \in [Players -> GameState(hostSeq, epoch)]

(* A sidecar buffers for one travel, and a game holds one transaction. *)
Lawful(s) ==
  /\ Len(s.buffer) <= BufferLimit
  /\ ~s.buffering => s.buffer = <<>>
  /\ s.travel_epoch = 0 => ~s.buffering
  /\ \A i \in 1..Len(s.buffer) : s.buffer[i].epoch = s.travel_epoch

Sane(g) ==
  /\ g.pending \in {None, g.epoch}
  /\ Len(g.buffer) <= BufferLimit
  /\ ~g.buffering => g.buffer = <<>>

Habits == (\A c \in Clients : Lawful(sidecar[c])) /\ (\A p \in Players : Sane(game[p]))

-----------------------------------------------------------------------------
(* Sequences that lose their head or get more *)

LEMMA TailOfQueue ==
  ASSUME NEW S, NEW s \in Seq(S), s # <<>>
  PROVE  /\ Tail(s) \in Seq(S) /\ Head(s) \in S /\ Head(s) = s[1] /\ 1 \in 1..Len(s)
         /\ Len(Tail(s)) = Len(s) - 1 /\ Len(s) \in Nat
         /\ \A i \in 1..Len(Tail(s)) : i + 1 \in 1..Len(s) /\ Tail(s)[i] = s[i + 1]
         /\ \A i \in 1..Len(s) : i = 1 \/ (i - 1 \in 1..Len(Tail(s)) /\ Tail(s)[i - 1] = s[i])
BY HeadTailProperties, EmptySeq, ElementOfSeq

LEMMA PartsOfQueue ==
  ASSUME NEW S, NEW s \in Seq(S), NEW t \in Seq(S)
  PROVE  /\ s \o t \in Seq(S) /\ Len(s \o t) = Len(s) + Len(t) /\ Len(s) \in Nat /\ Len(t) \in Nat
         /\ \A i \in 1..Len(s) : i \in 1..Len(s \o t) /\ (s \o t)[i] = s[i]
         /\ \A i \in 1..Len(t) : Len(s) + i \in 1..Len(s \o t) /\ (s \o t)[Len(s) + i] = t[i]
         /\ \A i \in 1..Len(s \o t) : \/ i \in 1..Len(s) /\ (s \o t)[i] = s[i]
                                      \/ i - Len(s) \in 1..Len(t) /\ (s \o t)[i] = t[i - Len(s)]
<1>1. /\ s \o t \in Seq(S) /\ Len(s \o t) = Len(s) + Len(t) /\ Len(s) \in Nat /\ Len(t) \in Nat
      /\ \A i \in 1..Len(s) + Len(t) : (s \o t)[i] = IF i <= Len(s) THEN s[i] ELSE t[i - Len(s)]
  BY ConcatProperties
<1>2. \A i \in 1..Len(s) : i \in 1..Len(s \o t) /\ (s \o t)[i] = s[i]
  BY <1>1
<1>3. \A i \in 1..Len(t) : Len(s) + i \in 1..Len(s \o t) /\ (s \o t)[Len(s) + i] = t[i]
  BY <1>1
<1>4. \A i \in 1..Len(s \o t) : \/ i \in 1..Len(s) /\ (s \o t)[i] = s[i]
                                \/ i - Len(s) \in 1..Len(t) /\ (s \o t)[i] = t[i - Len(s)]
  BY <1>1
<1> QED BY <1>1, <1>2, <1>3, <1>4

(* A message appended is a message concatenated. *)
LEMMA OneMore ==
  ASSUME NEW S, NEW s \in Seq(S), NEW x \in S
  PROVE  /\ Append(s, x) = s \o <<x>> /\ <<x>> \in Seq(S)
         /\ s \o <<>> = s /\ <<>> \o s = s /\ <<>> \in Seq(S)
BY AppendIsConcat, ConcatEmptySeq

LEMMA OneAndOne ==
  ASSUME NEW S, NEW y \in S, NEW z \in S
  PROVE  <<y>> \o <<z>> = <<y, z>>
<1>1. <<y>> \in Seq(S) /\ <<z>> \in Seq(S) /\ <<y, z>> \in Seq(S)
  OBVIOUS
<1>2. /\ Len(<<y>>) = 1 /\ Len(<<z>>) = 1 /\ <<y>>[1] = y /\ <<z>>[1] = z
      /\ Len(<<y, z>>) = 2 /\ <<y, z>>[1] = y /\ <<y, z>>[2] = z
  OBVIOUS
<1>3. /\ <<y>> \o <<z>> \in Seq(S) /\ Len(<<y>> \o <<z>>) = 2
      /\ (<<y>> \o <<z>>)[1] = y /\ (<<y>> \o <<z>>)[2] = z
  BY <1>1, <1>2, ConcatProperties
<1>4. \A i \in 1..2 : (<<y>> \o <<z>>)[i] = <<y, z>>[i]
  BY <1>2, <1>3
<1> QED BY <1>1, <1>2, <1>3, <1>4, SeqEqual

(* The values of v along a sequence of messages. *)
Along(v, ms) == [i \in 1..Len(ms) |-> v[ms[i]]]

LEMMA AlongConcat ==
  ASSUME NEW S, NEW v \in [S -> Nat], NEW q \in Seq(S), NEW r \in Seq(S)
  PROVE  Along(v, q \o r) = Along(v, q) \o Along(v, r)
<1>0. \A w \in Seq(S) : /\ Along(v, w) \in Seq(Nat) /\ Len(Along(v, w)) = Len(w)
                        /\ \A i \in 1..Len(w) : Along(v, w)[i] = v[w[i]]
  <2> SUFFICES ASSUME NEW w \in Seq(S)
               PROVE  /\ Along(v, w) \in Seq(Nat) /\ Len(Along(v, w)) = Len(w)
                      /\ \A i \in 1..Len(w) : Along(v, w)[i] = v[w[i]]
    OBVIOUS
  <2>1. Len(w) \in Nat /\ \A i \in 1..Len(w) : v[w[i]] \in Nat
    BY ElementOfSeq
  <2> QED BY <2>1 DEF Along
<1> DEFINE a == Along(v, q \o r)
           b == Along(v, q) \o Along(v, r)
<1>1. /\ q \o r \in Seq(S) /\ Len(q \o r) = Len(q) + Len(r) /\ Len(q) \in Nat /\ Len(r) \in Nat
      /\ \A i \in 1..Len(q) + Len(r) : (q \o r)[i] = IF i <= Len(q) THEN q[i] ELSE r[i - Len(q)]
  BY ConcatProperties
<1>2. /\ a \in Seq(Nat) /\ Len(a) = Len(q) + Len(r)
      /\ \A i \in 1..Len(a) : a[i] = v[(q \o r)[i]]
  BY <1>0, <1>1
<1>3. /\ b \in Seq(Nat) /\ Len(b) = Len(q) + Len(r)
      /\ \A i \in 1..Len(b) : b[i] = IF i <= Len(q) THEN Along(v, q)[i] ELSE Along(v, r)[i - Len(q)]
  <2>1. /\ Along(v, q) \in Seq(Nat) /\ Len(Along(v, q)) = Len(q)
        /\ Along(v, r) \in Seq(Nat) /\ Len(Along(v, r)) = Len(r)
    BY <1>0
  <2>2. /\ b \in Seq(Nat) /\ Len(b) = Len(Along(v, q)) + Len(Along(v, r))
        /\ \A i \in 1..Len(Along(v, q)) + Len(Along(v, r)) :
             b[i] = IF i <= Len(Along(v, q)) THEN Along(v, q)[i]
                                             ELSE Along(v, r)[i - Len(Along(v, q))]
    BY <2>1, ConcatProperties
  <2> QED BY <2>1, <2>2
<1> HIDE DEF a, b
<1>4. \A i \in 1..Len(b) : a[i] = b[i]
  <2> SUFFICES ASSUME NEW i \in 1..Len(b) PROVE a[i] = b[i]
    OBVIOUS
  <2>1. i \in 1..Len(q) + Len(r) /\ a[i] = v[(q \o r)[i]]
    BY <1>2, <1>3
  <2>2. CASE i <= Len(q)
    <3>1. i \in 1..Len(q) /\ (q \o r)[i] = q[i] /\ b[i] = Along(v, q)[i]
      BY <2>1, <2>2, <1>1, <1>3
    <3> QED BY <3>1, <2>1, <1>0
  <2>3. CASE ~(i <= Len(q))
    <3>1. i - Len(q) \in 1..Len(r)
      BY <2>1, <2>3, <1>1
    <3>2. (q \o r)[i] = r[i - Len(q)] /\ b[i] = Along(v, r)[i - Len(q)]
      BY <2>1, <2>3, <1>1, <1>3
    <3> QED BY <3>1, <3>2, <2>1, <1>0
  <2> QED BY <2>2, <2>3
<1>5. a = b
  BY <1>2, <1>3, <1>4, SeqEqual
<1> QED BY <1>5 DEF a, b

LEMMA AlongParts ==
  ASSUME NEW S, NEW v \in [S -> Nat], NEW q \in Seq(S)
  PROVE  /\ Along(v, q) \in Seq(Nat) /\ Len(Along(v, q)) = Len(q)
         /\ q # <<>> => /\ Along(v, q) # <<>>
                        /\ Along(v, Tail(q)) = Tail(Along(v, q))
                        /\ Head(Along(v, q)) = v[Head(q)]
         /\ Along(v, <<>>) = <<>>
         /\ \A x \in S : Along(v, <<x>>) = <<v[x]>>
<1>1. \A w \in Seq(S) : /\ Along(v, w) \in Seq(Nat) /\ Len(Along(v, w)) = Len(w)
                        /\ \A i \in 1..Len(w) : Along(v, w)[i] = v[w[i]]
  <2> SUFFICES ASSUME NEW w \in Seq(S)
               PROVE  /\ Along(v, w) \in Seq(Nat) /\ Len(Along(v, w)) = Len(w)
                      /\ \A i \in 1..Len(w) : Along(v, w)[i] = v[w[i]]
    OBVIOUS
  <2>1. Len(w) \in Nat /\ \A i \in 1..Len(w) : v[w[i]] \in Nat
    BY ElementOfSeq
  <2> QED BY <2>1 DEF Along
<1>2. ASSUME q # <<>>
      PROVE  /\ Along(v, q) # <<>> /\ Along(v, Tail(q)) = Tail(Along(v, q))
             /\ Head(Along(v, q)) = v[Head(q)]
  <2> DEFINE a == Along(v, Tail(q))
             b == Along(v, q)
             c == Tail(b)
  <2>1. /\ Tail(q) \in Seq(S) /\ Len(Tail(q)) = Len(q) - 1 /\ Len(q) \in Nat /\ 1 \in 1..Len(q)
        /\ Head(q) = q[1]
        /\ \A i \in 1..Len(Tail(q)) : i + 1 \in 1..Len(q) /\ Tail(q)[i] = q[i + 1]
    BY <1>2, TailOfQueue
  <2>2. b \in Seq(Nat) /\ b # <<>> /\ Len(b) = Len(q) /\ \A i \in 1..Len(q) : b[i] = v[q[i]]
    BY <1>1, <2>1, SMTT(40)
  <2>3. a \in Seq(Nat) /\ Len(a) = Len(q) - 1 /\ \A i \in 1..Len(a) : a[i] = v[Tail(q)[i]]
    BY <1>1, <2>1
  <2>4. /\ c \in Seq(Nat) /\ Len(c) = Len(q) - 1 /\ Head(b) = b[1]
        /\ \A i \in 1..Len(c) : c[i] = b[i + 1]
    BY <2>2, TailOfQueue
  <2> HIDE DEF a, b, c
  <2>5. \A i \in 1..Len(a) : a[i] = c[i]
    <3> SUFFICES ASSUME NEW i \in 1..Len(a) PROVE a[i] = c[i]
      OBVIOUS
    <3>1. i \in 1..Len(c) /\ i \in 1..Len(Tail(q))
      BY <2>1, <2>3, <2>4
    <3> QED BY <3>1, <2>1, <2>2, <2>3, <2>4
  <2>6. a = c
    BY <2>3, <2>4, <2>5, SeqEqual
  <2> QED BY <2>1, <2>2, <2>4, <2>6 DEF a, b, c
<1>3. Along(v, <<>>) = <<>> /\ \A x \in S : Along(v, <<x>>) = <<v[x]>>
  BY DEF Along
<1> QED BY <1>1, <1>2, <1>3

-----------------------------------------------------------------------------
(* Numbers in a row, 0 standing for no number: R relates every number to    *)
(* those behind it.                                                         *)

Values(s) == {s[i] : i \in 1..Len(s)} \ {0}

Ordered(R, s) ==
  \A i, j \in 1..Len(s) : i < j /\ s[i] # 0 /\ s[j] # 0 => <<s[i], s[j]>> \in R

Below(R, s, t) == \A x \in Values(s), y \in Values(t) : <<x, y>> \in R

(* Five queues, one behind the other. *)
Pipe(R, a, b, c, d, e) ==
  /\ Ordered(R, a) /\ Ordered(R, b) /\ Ordered(R, c) /\ Ordered(R, d) /\ Ordered(R, e)
  /\ Below(R, a, b) /\ Below(R, a, c) /\ Below(R, a, d) /\ Below(R, a, e)
  /\ Below(R, b, c) /\ Below(R, b, d) /\ Below(R, b, e)
  /\ Below(R, c, d) /\ Below(R, c, e)
  /\ Below(R, d, e)

(* t holds no number that s does not. *)
Shrinks(R, s, t) == Values(t) \subseteq Values(s) /\ (Ordered(R, s) => Ordered(R, t))

LEMMA ValuesOfTail ==
  ASSUME NEW R, NEW s \in Seq(Nat), s # <<>>
  PROVE  /\ Shrinks(R, s, Tail(s))
         /\ Head(s) \in Nat /\ Head(s) \in Values(s) \cup {0}
         /\ Ordered(R, s) /\ Head(s) # 0 => \A y \in Values(Tail(s)) : <<Head(s), y>> \in R
<1>1. /\ Head(s) = s[1] /\ 1 \in 1..Len(s) /\ Head(s) \in Nat
      /\ \A i \in 1..Len(Tail(s)) : i + 1 \in 1..Len(s) /\ Tail(s)[i] = s[i + 1]
  BY TailOfQueue
<1>2. Head(s) \in Values(s) \cup {0}
  BY <1>1 DEF Values
<1>3. Values(Tail(s)) \subseteq Values(s)
  BY <1>1 DEF Values
<1>4. ASSUME Ordered(R, s) PROVE Ordered(R, Tail(s))
  <2>1. \A i, j \in 1..Len(Tail(s)) : i < j => i + 1 < j + 1
    OBVIOUS
  <2> QED BY <1>1, <1>4, <2>1 DEF Ordered
<1>5. ASSUME Ordered(R, s), Head(s) # 0, NEW y \in Values(Tail(s))
      PROVE  <<Head(s), y>> \in R
  <2>1. PICK i \in 1..Len(Tail(s)) : y = Tail(s)[i] /\ y # 0
    BY <1>5 DEF Values
  <2>2. i + 1 \in 1..Len(s) /\ y = s[i + 1] /\ 1 < i + 1
    BY <1>1, <2>1
  <2> QED BY <1>1, <1>5, <2>1, <2>2 DEF Ordered
<1> QED BY <1>1, <1>2, <1>3, <1>4, <1>5 DEF Shrinks

LEMMA ValuesOfParts ==
  ASSUME NEW R, NEW s \in Seq(Nat), NEW t \in Seq(Nat)
  PROVE  /\ Values(s \o t) = Values(s) \cup Values(t)
         /\ Ordered(R, s) /\ Ordered(R, t) /\ Below(R, s, t) => Ordered(R, s \o t)
<1>1. /\ \A i \in 1..Len(s) : i \in 1..Len(s \o t) /\ (s \o t)[i] = s[i]
      /\ \A i \in 1..Len(t) : Len(s) + i \in 1..Len(s \o t) /\ (s \o t)[Len(s) + i] = t[i]
      /\ \A i \in 1..Len(s \o t) : \/ i \in 1..Len(s) /\ (s \o t)[i] = s[i]
                                   \/ i - Len(s) \in 1..Len(t) /\ (s \o t)[i] = t[i - Len(s)]
      /\ Len(s) \in Nat /\ Len(t) \in Nat /\ Len(s \o t) \in Nat
  BY PartsOfQueue
<1>2. Values(s \o t) = Values(s) \cup Values(t)
  <2>1. ASSUME NEW x \in Values(s \o t) PROVE x \in Values(s) \cup Values(t)
    <3>1. PICK i \in 1..Len(s \o t) : x = (s \o t)[i] /\ x # 0
      BY <2>1 DEF Values
    <3> QED BY <1>1, <3>1 DEF Values
  <2>2. ASSUME NEW x \in Values(s) PROVE x \in Values(s \o t)
    <3>1. PICK i \in 1..Len(s) : x = s[i] /\ x # 0
      BY <2>2 DEF Values
    <3> QED BY <1>1, <3>1 DEF Values
  <2>3. ASSUME NEW x \in Values(t) PROVE x \in Values(s \o t)
    <3>1. PICK i \in 1..Len(t) : x = t[i] /\ x # 0
      BY <2>3 DEF Values
    <3> QED BY <1>1, <3>1 DEF Values
  <2> QED BY <2>1, <2>2, <2>3
<1>3. ASSUME Ordered(R, s), Ordered(R, t), Below(R, s, t) PROVE Ordered(R, s \o t)
  <2> SUFFICES ASSUME NEW i \in 1..Len(s \o t), NEW j \in 1..Len(s \o t), i < j,
                      (s \o t)[i] # 0, (s \o t)[j] # 0
               PROVE  <<(s \o t)[i], (s \o t)[j]>> \in R
    BY DEF Ordered
  <2>1. CASE i \in 1..Len(s) /\ j \in 1..Len(s)
    BY <1>1, <1>3, <2>1 DEF Ordered
  <2>2. CASE i \in 1..Len(s) /\ j - Len(s) \in 1..Len(t) /\ (s \o t)[j] = t[j - Len(s)]
    <3>1. (s \o t)[i] \in Values(s)
      BY <1>1, <2>2 DEF Values
    <3>2. (s \o t)[j] \in Values(t)
      BY <2>2 DEF Values
    <3> QED BY <1>3, <3>1, <3>2 DEF Below
  <2>3. CASE /\ i - Len(s) \in 1..Len(t) /\ (s \o t)[i] = t[i - Len(s)]
             /\ j - Len(s) \in 1..Len(t) /\ (s \o t)[j] = t[j - Len(s)]
    <3>1. i - Len(s) < j - Len(s)
      BY <1>1
    <3> QED BY <1>3, <2>3, <3>1 DEF Ordered
  <2>4. j \in 1..Len(s) => i \in 1..Len(s)
    BY <1>1
  <2> QED BY <1>1, <2>1, <2>2, <2>3, <2>4
<1> QED BY <1>2, <1>3

LEMMA ShortQueues ==
  ASSUME NEW R
  PROVE  /\ Ordered(R, <<>>) /\ Values(<<>>) = {}
         /\ \A x : Ordered(R, <<x>>) /\ Values(<<x>>) = {x} \ {0}
BY DEF Ordered, Values

(* A queue and the one behind it may become one, and the head of one may go *)
(* over to the one in front.                                                *)
LEMMA PipeShrinks ==
  ASSUME NEW R, NEW a, NEW b, NEW c, NEW d, NEW e, Pipe(R, a, b, c, d, e),
         NEW a1, NEW b1, NEW c1, NEW d1, NEW e1,
         Shrinks(R, a, a1), Shrinks(R, b, b1), Shrinks(R, c, c1), Shrinks(R, d, d1), Shrinks(R, e, e1)
  PROVE  Pipe(R, a1, b1, c1, d1, e1)
<1>1. /\ Ordered(R, a1) /\ Ordered(R, b1) /\ Ordered(R, c1) /\ Ordered(R, d1) /\ Ordered(R, e1)
      /\ Values(a1) \subseteq Values(a) /\ Values(b1) \subseteq Values(b)
      /\ Values(c1) \subseteq Values(c) /\ Values(d1) \subseteq Values(d)
      /\ Values(e1) \subseteq Values(e)
  BY DEF Pipe, Shrinks
<1> QED BY <1>1 DEF Pipe, Below

LEMMA PipeMoves ==
  ASSUME NEW R, NEW a \in Seq(Nat), NEW b \in Seq(Nat), NEW c \in Seq(Nat),
         NEW d \in Seq(Nat), NEW e \in Seq(Nat), Pipe(R, a, b, c, d, e)
  PROVE  /\ e # <<>> => Pipe(R, a, b, c, d \o <<Head(e)>>, Tail(e))
         /\ Pipe(R, a, b, c \o d, <<>>, e)
         /\ c # <<>> => Pipe(R, a, b \o <<Head(c)>>, Tail(c), d, e)
         /\ Pipe(R, a \o b, <<>>, c, d, e)
<1>1. ASSUME NEW x \in Nat PROVE <<x>> \in Seq(Nat)
  OBVIOUS
<1>2. ASSUME e # <<>> PROVE Pipe(R, a, b, c, d \o <<Head(e)>>, Tail(e))
  <2>1. /\ Values(Tail(e)) \subseteq Values(e) /\ Ordered(R, Tail(e))
        /\ Values(<<Head(e)>>) \subseteq Values(e) /\ Below(R, <<Head(e)>>, Tail(e))
        /\ <<Head(e)>> \in Seq(Nat) /\ Ordered(R, <<Head(e)>>)
    <3>1. /\ Ordered(R, e)
          /\ Values(Tail(e)) \subseteq Values(e) /\ (Ordered(R, e) => Ordered(R, Tail(e)))
          /\ Head(e) \in Nat /\ Head(e) \in Values(e) \cup {0}
          /\ (Ordered(R, e) /\ Head(e) # 0) => \A y \in Values(Tail(e)) : <<Head(e), y>> \in R
      BY <1>2, ValuesOfTail DEF Shrinks, Pipe
    <3>2. Ordered(R, <<Head(e)>>) /\ Values(<<Head(e)>>) = {Head(e)} \ {0}
      BY ShortQueues
    <3> QED BY <1>1, <3>1, <3>2 DEF Below
  <2>2. Below(R, d, <<Head(e)>>)
    BY <2>1 DEF Below, Pipe
  <2>3. /\ Values(d \o <<Head(e)>>) = Values(d) \cup Values(<<Head(e)>>)
        /\ Ordered(R, d \o <<Head(e)>>)
    BY <2>1, <2>2, ValuesOfParts DEF Pipe
  <2> QED BY <2>1, <2>3 DEF Pipe, Below
<1>3. Pipe(R, a, b, c \o d, <<>>, e)
  <2>1. Values(c \o d) = Values(c) \cup Values(d) /\ Ordered(R, c \o d)
    BY ValuesOfParts DEF Pipe
  <2> QED BY <2>1, ShortQueues DEF Pipe, Below
<1>4. ASSUME c # <<>> PROVE Pipe(R, a, b \o <<Head(c)>>, Tail(c), d, e)
  <2>1. /\ Values(Tail(c)) \subseteq Values(c) /\ Ordered(R, Tail(c))
        /\ Values(<<Head(c)>>) \subseteq Values(c) /\ Below(R, <<Head(c)>>, Tail(c))
        /\ <<Head(c)>> \in Seq(Nat) /\ Ordered(R, <<Head(c)>>)
    <3>1. /\ Ordered(R, c)
          /\ Values(Tail(c)) \subseteq Values(c) /\ (Ordered(R, c) => Ordered(R, Tail(c)))
          /\ Head(c) \in Nat /\ Head(c) \in Values(c) \cup {0}
          /\ (Ordered(R, c) /\ Head(c) # 0) => \A y \in Values(Tail(c)) : <<Head(c), y>> \in R
      BY <1>4, ValuesOfTail DEF Shrinks, Pipe
    <3>2. Ordered(R, <<Head(c)>>) /\ Values(<<Head(c)>>) = {Head(c)} \ {0}
      BY ShortQueues
    <3> QED BY <1>1, <3>1, <3>2 DEF Below
  <2>2. Below(R, b, <<Head(c)>>)
    BY <2>1 DEF Below, Pipe
  <2>3. /\ Values(b \o <<Head(c)>>) = Values(b) \cup Values(<<Head(c)>>)
        /\ Ordered(R, b \o <<Head(c)>>)
    BY <2>1, <2>2, ValuesOfParts DEF Pipe
  <2> QED BY <2>1, <2>3 DEF Pipe, Below
<1>5. Pipe(R, a \o b, <<>>, c, d, e)
  <2>1. Values(a \o b) = Values(a) \cup Values(b) /\ Ordered(R, a \o b)
    BY ValuesOfParts DEF Pipe
  <2> QED BY <2>1, ShortQueues DEF Pipe, Below
<1> QED BY <1>2, <1>3, <1>4, <1>5

(* A number that all others are related to may come in at the end, and a   *)
(* message without a number anywhere.                                      *)
LEMMA PipeGrows ==
  ASSUME NEW R, NEW a \in Seq(Nat), NEW b \in Seq(Nat), NEW c \in Seq(Nat),
         NEW d \in Seq(Nat), NEW e \in Seq(Nat), Pipe(R, a, b, c, d, e), NEW x \in Nat,
         \A s \in {a, b, c, d, e} : Below(R, s, <<x>>)
  PROVE  /\ Pipe(R, a, b, c, d, e \o <<x>>)
         /\ Values(d) = {} /\ Values(e) = {} => Pipe(R, a, b, c \o <<x>>, d, e)
<1>1. <<x>> \in Seq(Nat) /\ Ordered(R, <<x>>)
  <2>1. <<x>> \in Seq(Nat)
    OBVIOUS
  <2> QED BY <2>1, ShortQueues
<1>2. /\ Values(e \o <<x>>) = Values(e) \cup Values(<<x>>) /\ Ordered(R, e \o <<x>>)
      /\ Values(c \o <<x>>) = Values(c) \cup Values(<<x>>) /\ Ordered(R, c \o <<x>>)
  BY <1>1, ValuesOfParts DEF Pipe
<1>3. Pipe(R, a, b, c, d, e \o <<x>>)
  BY <1>2 DEF Pipe, Below
<1>4. ASSUME Values(d) = {}, Values(e) = {} PROVE Pipe(R, a, b, c \o <<x>>, d, e)
  BY <1>2, <1>4 DEF Pipe, Below
<1> QED BY <1>3, <1>4

LEMMA ZerosShrink ==
  ASSUME NEW R, NEW s \in Seq(Nat)
  PROVE  /\ Shrinks(R, s, s) /\ Shrinks(R, s, <<>>)
         /\ Shrinks(R, s, s \o <<0>>) /\ Shrinks(R, s, s \o <<0, 0>>)
<1>1. Ordered(R, <<0>>) /\ Ordered(R, <<0, 0>>) /\ Values(<<0>>) = {} /\ Values(<<0, 0>>) = {}
  BY DEF Ordered, Values
<1>2. <<0>> \in Seq(Nat) /\ <<0, 0>> \in Seq(Nat)
  OBVIOUS
<1>3. ASSUME NEW z \in Seq(Nat), Ordered(R, z), Values(z) = {} PROVE Shrinks(R, s, s \o z)
  <2>1. Below(R, s, z)
    BY <1>3 DEF Below
  <2> QED BY <1>3, <2>1, ValuesOfParts DEF Shrinks
<1>4. Shrinks(R, s, s) /\ Shrinks(R, s, <<>>)
  BY ShortQueues DEF Shrinks
<1> QED BY <1>1, <1>2, <1>3, <1>4

-----------------------------------------------------------------------------
(* The messages *)

AnyOrder == [type : ControlType, txn_id : Nat, epoch : Nat] \cup [type : {"raw"}, seq : Nat, epoch : Nat]

LEMMA OrderKinds ==
  ASSUME NEW n \in Nat, NEW e \in Nat
  PROVE  /\ Orders(n, e) \subseteq AnyOrder
         /\ \A m \in Orders(n, e) :
              /\ m.type \in ControlType \cup {"raw"} /\ m.epoch \in 0..e /\ m.epoch \in Nat
              /\ m.type # "raw" => /\ m \in Control(e) /\ m.txn_id = m.epoch /\ m.epoch \in 1..e
                                   /\ m = Msg(m.type, m.epoch, m.epoch)
              /\ m.type = "raw" => m \in Packets(n, e) /\ m.seq \in 1..n
         /\ \A m \in Control(e) : m \in Orders(n, e) /\ m.type \in ControlType /\ m.type # "raw"
         /\ \A m \in Packets(n, e) : m \in Orders(n, e) /\ m.type = "raw" /\ m.seq \in 1..n
                                     /\ m.epoch \in 0..e
<1>1. \A m \in Control(e) : /\ m.type \in ControlType /\ m.type # "raw" /\ m.epoch \in 1..e
                            /\ m.epoch \in 0..e /\ m.epoch \in Nat /\ m.txn_id = m.epoch /\ m \in AnyOrder
                            /\ m = Msg(m.type, m.epoch, m.epoch)
  BY DEF Control, ControlType, AnyOrder, Msg
<1>2. \A m \in Packets(n, e) : /\ m.type = "raw" /\ m.seq \in 1..n /\ m.epoch \in 0..e /\ m.epoch \in Nat
                               /\ m \in AnyOrder
  BY DEF Packets, AnyOrder
<1> QED BY <1>1, <1>2 DEF Orders

LEMMA NewOrders ==
  ASSUME NEW n \in Nat, NEW e \in Nat
  PROVE  /\ \A t \in ControlType, f \in 1..e :
              /\ Msg(t, f, f) \in Orders(n, e) /\ Msg(t, f, f).type = t /\ Msg(t, f, f).epoch = f
         /\ \A m \in Control(e), t \in ControlType : [m EXCEPT !.type = t] = Msg(t, m.epoch, m.epoch)
         /\ \A q \in 1..n, f \in 0..e : /\ Raw(q, f) \in Orders(n, e) /\ Raw(q, f).type = "raw"
                                        /\ Raw(q, f).seq = q /\ Raw(q, f).epoch = f
<1>1. \A t \in ControlType, f \in 1..e : /\ Msg(t, f, f) \in Control(e) /\ Msg(t, f, f).type = t
                                         /\ Msg(t, f, f).epoch = f
  BY DEF Control, Msg
<1>2. \A q \in 1..n, f \in 0..e : /\ Raw(q, f) \in Packets(n, e) /\ Raw(q, f).type = "raw"
                                  /\ Raw(q, f).seq = q /\ Raw(q, f).epoch = f
  BY DEF Packets, Raw
<1>3. \A m \in Control(e), t \in ControlType : [m EXCEPT !.type = t] = Msg(t, m.epoch, m.epoch)
  BY DEF Control, Msg
<1> QED BY <1>1, <1>2, <1>3 DEF Orders

LEMMA ReportKinds ==
  ASSUME NEW e \in Nat
  PROVE  /\ \A m \in Reports(e) :
              /\ m.type \in ReportType /\ m.txn_id \in 0..e /\ m.epoch \in 0..e /\ m.epoch \in Nat
              /\ m.type \in {"ready", "end", "abort"} => m.txn_id = m.epoch /\ m.epoch \in 1..e
              /\ m.type = "zone_ready" => m.txn_id \in {None, m.epoch}
         /\ Msg("request", None, None) \in Reports(e) /\ Msg("raw", None, None) \in Reports(e)
         /\ \A f \in 1..e, t \in {"ready", "end", "abort"} : Msg(t, f, f) \in Reports(e)
         /\ \A f \in 0..e : \A g \in {None, f} : Msg("zone_ready", g, f) \in Reports(e)
<1>1. \A m \in Reports(e) :
         /\ m.type \in ReportType /\ m.txn_id \in 0..e /\ m.epoch \in 0..e /\ m.epoch \in Nat
         /\ m.type \in {"ready", "end", "abort"} => m.txn_id = m.epoch /\ m.epoch \in 1..e
         /\ m.type = "zone_ready" => m.txn_id \in {None, m.epoch}
  BY DEF Reports, None
<1>2. Msg("request", None, None) \in Reports(e) /\ Msg("raw", None, None) \in Reports(e)
  BY DEF Reports, None, Msg, ReportType
<1>3. \A f \in 1..e, t \in {"ready", "end", "abort"} : Msg(t, f, f) \in Reports(e)
  BY DEF Reports, None, Msg, ReportType
<1>4. \A f \in 0..e : \A g \in {None, f} : Msg("zone_ready", g, f) \in Reports(e)
  BY DEF Reports, None, Msg, ReportType
<1> QED BY <1>1, <1>2, <1>3, <1>4

(* What could travel still can when there are more travels or messages. *)
LEMMA Widens ==
  ASSUME NEW n \in Nat, NEW e \in Nat, NEW n1 \in Nat, NEW e1 \in Nat, n <= n1, e <= e1
  PROVE  /\ Seq(Orders(n, e)) \subseteq Seq(Orders(n1, e1))
         /\ Seq(Reports(e)) \subseteq Seq(Reports(e1))
         /\ SidecarState(n, e) \subseteq SidecarState(n1, e1)
         /\ GameState(n, e) \subseteq GameState(n1, e1)
<1>0. 0..e \subseteq 0..e1 /\ 1..e \subseteq 1..e1 /\ 1..n \subseteq 1..n1
  OBVIOUS
<1>1. Packets(n, e) \subseteq Packets(n1, e1)
  BY <1>0 DEF Packets
<1>2. Control(e) \subseteq Control(e1)
  BY <1>0 DEF Control
<1>3. Orders(n, e) \subseteq Orders(n1, e1)
  BY <1>1, <1>2 DEF Orders
<1>4. Reports(e) \subseteq Reports(e1)
  BY <1>0 DEF Reports
<1>5. /\ Seq(Orders(n, e)) \subseteq Seq(Orders(n1, e1)) /\ Seq(Reports(e)) \subseteq Seq(Reports(e1))
      /\ Seq(Packets(n, e)) \subseteq Seq(Packets(n1, e1)) /\ Seq(1..n) \subseteq Seq(1..n1)
  BY <1>0, <1>1, <1>3, <1>4, SeqMonotonic
<1>6. SidecarState(n, e) \subseteq SidecarState(n1, e1)
  BY <1>0, <1>5 DEF SidecarState
<1>7. GameState(n, e) \subseteq GameState(n1, e1)
  BY <1>0, <1>5 DEF GameState
<1> QED BY <1>5, <1>6, <1>7

-----------------------------------------------------------------------------
(* The steps of a sidecar and of a game, told by what they take off their   *)
(* queue, what they pass on and what becomes of their own state.            *)

elsewhere == <<current, epoch, said, session, committing, hostSeq, joins, requests, rawSent>>

(* b: the sidecar before, m: the message, s: the sidecar after, out: what it passes on *)
SidecarIgnores(b, m, s, out) ==
  /\ m.type \in {"propose", "begin", "end", "raw"} /\ (m.type = "propose" => m.epoch <= b.travel_epoch)
  /\ s = b /\ out = <<>>
SidecarPrepares(b, m, s, out) ==
  /\ m.type = "propose" /\ ~(m.epoch <= b.travel_epoch)
  /\ s = [b EXCEPT !.travel_epoch = m.epoch, !.batch_complete = FALSE, !.buffering = TRUE, !.buffer = <<>>]
  /\ out = <<[m EXCEPT !.type = "prepare"]>>
SidecarBatches(b, m, s, out) ==
  /\ m.type \in {"begin", "end"} /\ m.epoch = b.travel_epoch
  /\ s \in {[b EXCEPT !.batch_complete = FALSE, !.buffering = TRUE, !.buffer = <<>>],
            [b EXCEPT !.batch_complete = TRUE]}
  /\ out = <<m>>
SidecarFlushes(b, m, s, out) ==
  /\ m.type = "resume" /\ m.epoch = b.travel_epoch
  /\ s = [b EXCEPT !.buffering = FALSE, !.buffer = <<>>]
  /\ out = Append(b.buffer, m)
SidecarPasses(b, m, s, out) ==
  /\ m.type \in {"resume", "commit", "abort"}
  /\ s = b /\ out = <<m>>
SidecarHolds(b, m, s, out) ==
  /\ m.type = "raw" /\ b.buffering /\ (b.travel_epoch # 0 => m.epoch = b.travel_epoch)
  /\ \/ s = [b EXCEPT !.last_seq = m.seq]
     \/ Len(b.buffer) < BufferLimit /\ s = [b EXCEPT !.last_seq = m.seq, !.buffer = Append(@, m)]
  /\ out = <<>>
SidecarShows(b, m, s, out) ==
  /\ m.type = "raw" /\ ~b.buffering /\ (b.travel_epoch # 0 => m.epoch = b.travel_epoch)
  /\ s = [b EXCEPT !.last_seq = m.seq] /\ out = <<m>>

SidecarDoes(b, m, s, out) ==
  \/ SidecarIgnores(b, m, s, out) \/ SidecarPrepares(b, m, s, out) \/ SidecarBatches(b, m, s, out)
  \/ SidecarFlushes(b, m, s, out) \/ SidecarPasses(b, m, s, out) \/ SidecarHolds(b, m, s, out)
  \/ SidecarShows(b, m, s, out)

SidecarStep(c, m, s, out) ==
  /\ down[c] # <<>> /\ m = Head(down[c])
  /\ down' = [down EXCEPT ![c] = Tail(@)]
  /\ toGame' = [toGame EXCEPT ![c] = @ \o out]
  /\ sidecar' = [sidecar EXCEPT ![c] = s]
  /\ UNCHANGED <<elsewhere, up, game>>

LEMMA SidecarSteps ==
  ASSUME SystemShape, NEW c \in Clients, Sidecar(c)
  PROVE  \E m, s, out : SidecarStep(c, m, s, out) /\ SidecarDoes(sidecar[c], m, s, out)
<1> DEFINE m == Head(down[c])
           b == sidecar[c]
<1>0. /\ toGame = [toGame EXCEPT ![c] = @ \o <<>>] /\ sidecar = [sidecar EXCEPT ![c] = b]
  <2>1. toGame[c] \o <<>> = toGame[c] /\ toGame \in [Players -> Seq(Orders(hostSeq, epoch))]
    BY ConcatEmptySeq DEF SystemShape, Clients
  <2>2. sidecar \in [Clients -> SidecarState(hostSeq, epoch)] /\ c \in Players
    BY DEF SystemShape, Clients
  <2> QED BY <2>1, <2>2
<1> SUFFICES \E s, out : SidecarStep(c, m, s, out) /\ SidecarDoes(b, m, s, out)
  OBVIOUS
<1>1. CASE SidecarPropose(c)
  <2>1. /\ down[c] # <<>> /\ m.type = "propose" /\ down' = [down EXCEPT ![c] = Tail(@)]
        /\ UNCHANGED <<elsewhere, up, game>>
    BY <1>1 DEF SidecarPropose, Receives, Take, coord, hostVars, bounds, elsewhere
  <2>2. CASE m.epoch <= b.travel_epoch
    <3>1. SidecarIgnores(b, m, b, <<>>)
      BY <2>1, <2>2 DEF SidecarIgnores
    <3>2. SidecarStep(c, m, b, <<>>)
      BY <1>0, <1>1, <2>1, <2>2 DEF SidecarPropose, SidecarStep
    <3> QED BY <3>1, <3>2 DEF SidecarDoes
  <2>3. CASE ~(m.epoch <= b.travel_epoch)
    <3> DEFINE s == [b EXCEPT !.travel_epoch = m.epoch, !.batch_complete = FALSE,
                              !.buffering = TRUE, !.buffer = <<>>]
               out == <<[m EXCEPT !.type = "prepare"]>>
    <3>1. SidecarPrepares(b, m, s, out)
      BY <2>1, <2>3 DEF SidecarPrepares
    <3>2. SidecarStep(c, m, s, out)
      BY <1>0, <1>1, <2>1, <2>3 DEF SidecarPropose, SidecarStep, Pass
    <3> QED BY <3>1, <3>2 DEF SidecarDoes
  <2> QED BY <2>2, <2>3
<1>2. CASE SidecarViewBatch(c)
  <2>1. /\ down[c] # <<>> /\ m.type \in {"begin", "end"} /\ down' = [down EXCEPT ![c] = Tail(@)]
        /\ UNCHANGED <<elsewhere, up, game>>
    BY <1>2 DEF SidecarViewBatch, Receives, Take, coord, hostVars, bounds, elsewhere
  <2>2. CASE m.epoch # b.travel_epoch
    <3>1. SidecarIgnores(b, m, b, <<>>)
      BY <2>1, <2>2 DEF SidecarIgnores
    <3>2. SidecarStep(c, m, b, <<>>)
      BY <1>0, <1>2, <2>1, <2>2 DEF SidecarViewBatch, SidecarStep
    <3> QED BY <3>1, <3>2 DEF SidecarDoes
  <2>3. CASE m.epoch = b.travel_epoch
    <3> DEFINE s == IF m.type = "begin"
                    THEN [b EXCEPT !.batch_complete = FALSE, !.buffering = TRUE, !.buffer = <<>>]
                    ELSE [b EXCEPT !.batch_complete = TRUE]
    <3>1. SidecarBatches(b, m, s, <<m>>)
      BY <2>1, <2>3 DEF SidecarBatches
    <3>2. SidecarStep(c, m, s, <<m>>)
      BY <1>0, <1>2, <2>1, <2>3 DEF SidecarViewBatch, SidecarStep, Pass
    <3> QED BY <3>1, <3>2 DEF SidecarDoes
  <2> QED BY <2>2, <2>3
<1>3. CASE SidecarResume(c)
  <2>1. /\ down[c] # <<>> /\ m.type = "resume" /\ down' = [down EXCEPT ![c] = Tail(@)]
        /\ UNCHANGED <<elsewhere, up, game>>
    BY <1>3 DEF SidecarResume, Receives, Take, coord, hostVars, bounds, elsewhere
  <2>2. CASE m.epoch = b.travel_epoch /\ b.batch_complete
    <3> DEFINE s == [b EXCEPT !.buffering = FALSE, !.buffer = <<>>]
    <3>1. SidecarFlushes(b, m, s, Append(b.buffer, m))
      BY <2>1, <2>2 DEF SidecarFlushes
    <3>2. SidecarStep(c, m, s, Append(b.buffer, m))
      BY <1>0, <1>3, <2>1, <2>2 DEF SidecarResume, SidecarStep, Pass
    <3> QED BY <3>1, <3>2 DEF SidecarDoes
  <2>3. CASE ~(m.epoch = b.travel_epoch /\ b.batch_complete)
    <3>1. SidecarPasses(b, m, b, <<m>>)
      BY <2>1 DEF SidecarPasses
    <3>2. SidecarStep(c, m, b, <<m>>)
      BY <1>0, <1>3, <2>1, <2>3 DEF SidecarResume, SidecarStep, Pass
    <3> QED BY <3>1, <3>2 DEF SidecarDoes
  <2> QED BY <2>2, <2>3
<1>4. CASE SidecarForwards(c)
  <2>1. SidecarPasses(b, m, b, <<m>>)
    BY <1>4 DEF SidecarForwards, Receives, SidecarPasses
  <2>2. SidecarStep(c, m, b, <<m>>)
    BY <1>0, <1>4 DEF SidecarForwards, SidecarStep, Receives, Take, Pass, coord, hostVars, bounds, elsewhere
  <2> QED BY <2>1, <2>2 DEF SidecarDoes
<1>5. CASE SidecarRaw(c)
  <2>1. /\ down[c] # <<>> /\ m.type = "raw" /\ down' = [down EXCEPT ![c] = Tail(@)]
        /\ UNCHANGED <<elsewhere, up, game>>
    BY <1>5 DEF SidecarRaw, Receives, Take, coord, hostVars, bounds, elsewhere
  <2> DEFINE seen == [b EXCEPT !.last_seq = m.seq]
  <2>2. CASE UNCHANGED <<sidecar, toGame>>
    <3>1. SidecarIgnores(b, m, b, <<>>)
      BY <2>1 DEF SidecarIgnores
    <3>2. SidecarStep(c, m, b, <<>>)
      BY <1>0, <2>1, <2>2 DEF SidecarStep
    <3> QED BY <3>1, <3>2 DEF SidecarDoes
  <2>3. CASE /\ RawAccepted(b, m) /\ Holds(b)
             /\ sidecar' = [sidecar EXCEPT ![c] =
                  IF Len(b.buffer) < BufferLimit THEN [seen EXCEPT !.buffer = Append(@, m)] ELSE seen]
             /\ UNCHANGED toGame
    <3> DEFINE s == IF Len(b.buffer) < BufferLimit THEN [seen EXCEPT !.buffer = Append(@, m)] ELSE seen
    <3>0. [seen EXCEPT !.buffer = Append(@, m)] = [b EXCEPT !.last_seq = m.seq, !.buffer = Append(@, m)]
      <4>1. b \in SidecarState(hostSeq, epoch)
        BY DEF SystemShape
      <4> QED BY <4>1 DEF SidecarState
    <3>1. SidecarHolds(b, m, s, <<>>)
      BY <2>1, <2>3, <3>0 DEF SidecarHolds, RawAccepted, Holds
    <3>2. SidecarStep(c, m, s, <<>>)
      BY <1>0, <2>1, <2>3 DEF SidecarStep
    <3> QED BY <3>1, <3>2 DEF SidecarDoes
  <2>4. CASE /\ RawAccepted(b, m) /\ ~Holds(b)
             /\ sidecar' = [sidecar EXCEPT ![c] = seen]
             /\ Pass(c, <<m>>)
    <3>1. SidecarShows(b, m, seen, <<m>>)
      BY <2>1, <2>4 DEF SidecarShows, RawAccepted, Holds
    <3>2. SidecarStep(c, m, seen, <<m>>)
      BY <1>0, <2>1, <2>4 DEF SidecarStep, Pass
    <3> QED BY <3>1, <3>2 DEF SidecarDoes
  <2> QED BY <1>5, <2>2, <2>3, <2>4 DEF SidecarRaw
<1> QED BY <1>1, <1>2, <1>3, <1>4, <1>5 DEF Sidecar

(* b: the game before, m: the message, g: the game after, ms: what it emits *)
ScreenAsWas(b, g) ==
  /\ g.shown = b.shown
  /\ \/ g.buffering = b.buffering /\ g.buffer = b.buffer
     \/ g.buffering /\ g.buffer = <<>>

GamePrepares(p, b, m, g, ms) ==
  /\ m.type = "prepare"
  /\ g.pending = m.txn_id /\ g.epoch = m.epoch /\ g.loading = b.loading /\ g.zone = b.zone
  /\ ScreenAsWas(b, g)
  /\ ms \in {<<>>, <<Msg("ready", m.txn_id, m.epoch)>>}
GameCommits(p, b, m, g, ms) ==
  /\ m.type = "commit"
  /\ g.pending = m.txn_id /\ g.epoch = m.epoch /\ g.zone = b.zone
  /\ ScreenAsWas(b, g)
  /\ \/ g.loading = m.epoch /\ ms = <<>>
     \/ g.loading = b.loading /\ ms = IF p = Host THEN <<Msg("abort", m.txn_id, m.epoch)>> ELSE <<>>
GameHydrates(p, b, m, g, ms) ==
  /\ m.type \in {"begin", "end", "resume"}
  /\ g.pending = b.pending /\ g.epoch = b.epoch /\ g.loading = b.loading /\ g.zone = b.zone
  /\ ScreenAsWas(b, g)
  /\ ms \in {<<>>, <<ZoneReady(b)>>} /\ (p = Host => ms = <<>>)
GameAborts(p, b, m, g, ms) ==
  /\ m.type = "abort"
  /\ g.pending = None /\ g.epoch = b.epoch /\ g.loading = b.loading /\ g.zone = b.zone
  /\ ScreenAsWas(b, g)
  /\ ms = <<>>
GameShows(p, b, m, g, ms) ==
  /\ m.type = "raw"
  /\ g.pending = b.pending /\ g.epoch = b.epoch /\ g.loading = b.loading /\ g.zone = b.zone
  /\ g.buffering = b.buffering
  /\ \/ ~b.buffering /\ g.shown = Append(b.shown, m.seq) /\ g.buffer = b.buffer
     \/ /\ b.buffering /\ Len(b.buffer) < BufferLimit
        /\ g.shown = b.shown /\ g.buffer = Append(b.buffer, m.seq)
     \/ g.shown = b.shown /\ g.buffer = b.buffer
  /\ ms = <<>>
GameArrives(p, b, g, ms) ==
  /\ b.loading # None
  /\ g.pending = b.pending /\ g.epoch = b.epoch /\ g.loading = None /\ g.zone = b.loading
  /\ ScreenAsWas(b, g)
  /\ IF p = Host THEN ms \in {<<>>, <<Msg("end", b.pending, b.epoch), ZoneReady(b)>>}
                 ELSE ms \in {<<>>, <<ZoneReady(b)>>}
  /\ ms # <<>> => b.pending # None

GameDoes(p, b, m, g, ms) ==
  \/ GamePrepares(p, b, m, g, ms) \/ GameCommits(p, b, m, g, ms) \/ GameHydrates(p, b, m, g, ms)
  \/ GameAborts(p, b, m, g, ms) \/ GameShows(p, b, m, g, ms)

GameStep(p, g, ms) ==
  /\ game' = [game EXCEPT ![p] = g]
  /\ up' = [up EXCEPT ![p] = @ \o ms]
  /\ UNCHANGED <<elsewhere, down, sidecar>>

GameTakes(p, m) ==
  toGame[p] # <<>> /\ m = Head(toGame[p]) /\ toGame' = [toGame EXCEPT ![p] = Tail(@)]

(* What a game emits comes in if its player is in the session. *)
LEMMA Emits ==
  ASSUME SystemShape, NEW p \in Players, NEW ms
  PROVE  /\ up' = up => up' = [up EXCEPT ![p] = @ \o <<>>]
         /\ Emit(p, ms) => \/ up' = [up EXCEPT ![p] = @ \o ms]
                           \/ p # Host /\ up' = [up EXCEPT ![p] = @ \o <<>>]
<1>1. up[p] \o <<>> = up[p] /\ up \in [Players -> Seq(Reports(epoch))]
  BY ConcatEmptySeq DEF SystemShape
<1>2. up = [up EXCEPT ![p] = @ \o <<>>]
  BY <1>1
<1> QED BY <1>2 DEF Emit, SystemShape

LEMMA GameSteps ==
  ASSUME SystemShape, NEW p \in Players, Game(p)
  PROVE  \E m, g, ms : /\ GameTakes(p, m) /\ GameStep(p, g, ms) /\ GameDoes(p, game[p], m, g, ms)
                       /\ g \in GameState(hostSeq, epoch)
<1> DEFINE m == Head(toGame[p])
           b == game[p]
<1>0. /\ b \in GameState(hostSeq, epoch) /\ game \in [Players -> GameState(hostSeq, epoch)]
      /\ toGame \in [Players -> Seq(Orders(hostSeq, epoch))]
      /\ hostSeq \in Nat /\ epoch \in Nat
  BY DEF SystemShape
<1>1. /\ toGame[p] # <<>> /\ toGame' = [toGame EXCEPT ![p] = Tail(@)] /\ GameTakes(p, m)
      /\ UNCHANGED <<elsewhere, down, sidecar>>
  BY DEF Game, GamePrepare, GameCommit, GameViewBatch, GameResume, GameAbort, GameRaw,
         Handles, Handled, GameTakes, coord, hostVars, bounds, elsewhere
<1>2. m \in Orders(hostSeq, epoch)
  <2>1. toGame[p] \in Seq(Orders(hostSeq, epoch))
    BY <1>0
  <2> QED BY <1>1, <2>1, TailOfQueue
<1>3. /\ m.type # "raw" => m.txn_id = m.epoch /\ m.epoch \in 0..epoch
      /\ m.type = "raw" => m.seq \in 1..hostSeq
  <2>1. 1..epoch \subseteq 0..epoch
    BY <1>0
  <2> QED BY <1>0, <1>2, <2>1, OrderKinds
<1>e. <<>> \in Seq(1..hostSeq)
  OBVIOUS
<1>4. \A g, ms : GameStep(p, g, ms) <=> game' = [game EXCEPT ![p] = g] /\ up' = [up EXCEPT ![p] = @ \o ms]
  BY <1>1 DEF GameStep
<1> SUFFICES \E g, ms : GameStep(p, g, ms) /\ GameDoes(p, b, m, g, ms) /\ g \in GameState(hostSeq, epoch)
  BY <1>1
<1>5. CASE GamePrepare(p)
  <2> DEFINE g == Travelling(p, [b EXCEPT !.pending = m.txn_id, !.epoch = m.epoch, !.zone_reported = FALSE])
             r == <<Msg("ready", m.txn_id, m.epoch)>>
  <2>1. m.type = "prepare" /\ game' = [game EXCEPT ![p] = g] /\ Emit(p, r)
    BY <1>5 DEF GamePrepare, Handles
  <2>2. /\ g.pending = m.txn_id /\ g.epoch = m.epoch /\ g.loading = b.loading /\ g.zone = b.zone
        /\ ScreenAsWas(b, g) /\ g \in GameState(hostSeq, epoch)
    BY <1>0, <1>3, <1>e, <2>1 DEF Travelling, Buffering, ScreenAsWas, GameState
  <2> HIDE DEF g
  <2>3. GamePrepares(p, b, m, g, r) /\ GamePrepares(p, b, m, g, <<>>)
    BY <2>1, <2>2 DEF GamePrepares
  <2> QED BY <1>4, <2>1, <2>2, <2>3, Emits DEF GameDoes
<1>6. CASE GameCommit(p)
  <2> DEFINE g0 == Travelling(p, [game[p] EXCEPT !.pending = m.txn_id, !.epoch = m.epoch,
                                                !.batch_complete = FALSE, !.zone_reported = FALSE])
             g1 == [g0 EXCEPT !.loading = m.epoch]
             a == <<Msg("abort", m.txn_id, m.epoch)>>
  <2>1. /\ m.type = "commit"
        /\ \/ game' = [game EXCEPT ![p] = g1] /\ UNCHANGED up
           \/ /\ game' = [game EXCEPT ![p] = g0]
              /\ IF p = Host THEN Emit(p, a) ELSE UNCHANGED up
    BY <1>6 DEF GameCommit, Handles
  <2>2. /\ g0.pending = m.txn_id /\ g0.epoch = m.epoch /\ g0.loading = b.loading /\ g0.zone = b.zone
        /\ ScreenAsWas(b, g0) /\ g0 \in GameState(hostSeq, epoch)
    BY <1>0, <1>3, <1>e, <2>1 DEF Travelling, Buffering, ScreenAsWas, GameState
  <2>3. /\ g1.pending = m.txn_id /\ g1.epoch = m.epoch /\ g1.loading = m.epoch /\ g1.zone = b.zone
        /\ ScreenAsWas(b, g1) /\ g1 \in GameState(hostSeq, epoch)
    <3> HIDE DEF g0
    <3> QED BY <1>3, <2>1, <2>2 DEF ScreenAsWas, GameState
  <2> HIDE DEF g0, g1
  <2>4. CASE game' = [game EXCEPT ![p] = g1] /\ UNCHANGED up
    <3>1. GameCommits(p, b, m, g1, <<>>)
      BY <2>1, <2>3 DEF GameCommits
    <3> QED BY <1>4, <2>3, <2>4, <3>1, Emits DEF GameDoes
  <2>5. CASE game' = [game EXCEPT ![p] = g0] /\ p = Host /\ Emit(p, a)
    <3>1. GameCommits(p, b, m, g0, a)
      BY <2>1, <2>2, <2>5 DEF GameCommits
    <3> QED BY <1>4, <2>2, <2>5, <3>1, Emits DEF GameDoes
  <2>6. CASE game' = [game EXCEPT ![p] = g0] /\ p # Host /\ UNCHANGED up
    <3>1. GameCommits(p, b, m, g0, <<>>)
      BY <2>1, <2>2, <2>6 DEF GameCommits
    <3> QED BY <1>4, <2>2, <2>6, <3>1, Emits DEF GameDoes
  <2> QED BY <2>1, <2>4, <2>5, <2>6
<1>7. ASSUME NEW g1 \in GameState(hostSeq, epoch), FinishHydration(p, g1), p # Host,
             m.type \in {"begin", "end", "resume"},
             /\ g1.pending = b.pending /\ g1.epoch = b.epoch /\ g1.loading = b.loading
             /\ g1.zone = b.zone /\ ScreenAsWas(b, g1)
      PROVE  \E g, ms : GameStep(p, g, ms) /\ GameDoes(p, b, m, g, ms) /\ g \in GameState(hostSeq, epoch)
  <2> DEFINE g2 == [g1 EXCEPT !.zone_reported = TRUE, !.bypass = FALSE]
  <2>1. /\ g2.pending = b.pending /\ g2.epoch = b.epoch /\ g2.loading = b.loading /\ g2.zone = b.zone
        /\ ScreenAsWas(b, g2) /\ g2 \in GameState(hostSeq, epoch)
    BY <1>7 DEF ScreenAsWas, GameState
  <2>2. ZoneReady(g1) = ZoneReady(b)
    BY <1>7 DEF ZoneReady
  <2>3. \/ game' = [game EXCEPT ![p] = g1] /\ UNCHANGED up
        \/ game' = [game EXCEPT ![p] = g2] /\ Emit(p, <<ZoneReady(b)>>)
    BY <1>7, <2>2 DEF FinishHydration
  <2> HIDE DEF g2
  <2>4. /\ GameHydrates(p, b, m, g1, <<>>) /\ GameHydrates(p, b, m, g2, <<>>)
        /\ GameHydrates(p, b, m, g2, <<ZoneReady(b)>>)
    BY <1>7, <2>1 DEF GameHydrates
  <2>5. CASE game' = [game EXCEPT ![p] = g1] /\ UNCHANGED up
    BY <1>4, <1>7, <2>4, <2>5, Emits DEF GameDoes
  <2>6. CASE game' = [game EXCEPT ![p] = g2] /\ Emit(p, <<ZoneReady(b)>>)
    BY <1>4, <2>1, <2>4, <2>6, Emits DEF GameDoes
  <2> QED BY <2>3, <2>5, <2>6
<1>8. ASSUME NEW g1 \in GameState(hostSeq, epoch), game' = [game EXCEPT ![p] = g1], UNCHANGED up,
             m.type \in {"begin", "end", "resume"},
             /\ g1.pending = b.pending /\ g1.epoch = b.epoch /\ g1.loading = b.loading
             /\ g1.zone = b.zone /\ ScreenAsWas(b, g1)
      PROVE  \E g, ms : GameStep(p, g, ms) /\ GameDoes(p, b, m, g, ms) /\ g \in GameState(hostSeq, epoch)
  <2>1. GameHydrates(p, b, m, g1, <<>>)
    BY <1>8 DEF GameHydrates
  <2> QED BY <1>4, <1>8, <2>1, Emits DEF GameDoes
<1>9. UNCHANGED game => game' = [game EXCEPT ![p] = b]
  BY <1>0
<1>10. CASE GameViewBatch(p)
  <2> DEFINE g1 == [b EXCEPT !.batch_complete = (m.type = "end")]
             g2 == Buffering(p, g1)
  <2>1. /\ m.type \in {"begin", "end"}
        /\ \/ UNCHANGED <<game, up>>
           \/ game' = [game EXCEPT ![p] = g2] /\ UNCHANGED up
           \/ game' = [game EXCEPT ![p] = g1] /\ UNCHANGED up
           \/ p # Host /\ FinishHydration(p, g1)
    BY <1>10 DEF GameViewBatch, Handles
  <2>2. /\ g1 \in GameState(hostSeq, epoch)
        /\ g1.pending = b.pending /\ g1.epoch = b.epoch /\ g1.loading = b.loading
        /\ g1.zone = b.zone /\ ScreenAsWas(b, g1)
    BY <1>0 DEF GameState, ScreenAsWas
  <2>3. /\ g2 \in GameState(hostSeq, epoch)
        /\ g2.pending = b.pending /\ g2.epoch = b.epoch /\ g2.loading = b.loading
        /\ g2.zone = b.zone /\ ScreenAsWas(b, g2)
    <3> HIDE DEF g1
    <3> QED BY <1>e, <2>2 DEF Buffering, GameState, ScreenAsWas
  <2>4. ScreenAsWas(b, b)
    BY DEF ScreenAsWas
  <2> HIDE DEF g1, g2
  <2>5. CASE UNCHANGED <<game, up>>
    BY <1>0, <1>8, <1>9, <2>1, <2>4, <2>5
  <2>6. CASE game' = [game EXCEPT ![p] = g2] /\ UNCHANGED up
    BY <1>8, <2>1, <2>3, <2>6
  <2>7. CASE game' = [game EXCEPT ![p] = g1] /\ UNCHANGED up
    BY <1>8, <2>1, <2>2, <2>7
  <2>8. CASE p # Host /\ FinishHydration(p, g1)
    BY <1>7, <2>1, <2>2, <2>8
  <2> QED BY <2>1, <2>5, <2>6, <2>7, <2>8
<1>11. CASE GameResume(p)
  <2>1. /\ m.type = "resume"
        /\ \/ UNCHANGED <<game, up>>
           \/ p # Host /\ FinishHydration(p, b)
    BY <1>11 DEF GameResume, Handles
  <2>2. ScreenAsWas(b, b)
    BY DEF ScreenAsWas
  <2>3. CASE UNCHANGED <<game, up>>
    BY <1>0, <1>8, <1>9, <2>1, <2>2, <2>3
  <2>4. CASE p # Host /\ FinishHydration(p, b)
    BY <1>0, <1>7, <2>1, <2>2, <2>4
  <2> QED BY <2>1, <2>3, <2>4
<1>12. CASE GameAbort(p)
  <2> DEFINE g == [b EXCEPT !.pending = None, !.bypass = FALSE]
  <2>1. m.type = "abort" /\ game' = [game EXCEPT ![p] = g] /\ UNCHANGED up
    <3>1. m.type = "abort" /\ UNCHANGED up
      BY <1>12 DEF GameAbort, Handles
    <3>2. game' = [game EXCEPT ![p] = g]
      BY <1>0, <1>12 DEF GameAbort
    <3> QED BY <3>1, <3>2
  <2>2. g \in GameState(hostSeq, epoch) /\ GameAborts(p, b, m, g, <<>>)
    <3>1. None \in 0..epoch
      BY <1>0 DEF None
    <3>2. g \in GameState(hostSeq, epoch)
      BY <1>0, <3>1 DEF GameState
    <3>3. g.pending = None /\ g.epoch = b.epoch /\ g.loading = b.loading /\ g.zone = b.zone
      BY <1>0 DEF GameState
    <3>4. ScreenAsWas(b, g)
      BY <1>0 DEF GameState, ScreenAsWas
    <3> HIDE DEF g
    <3> QED BY <2>1, <3>2, <3>3, <3>4 DEF GameAborts
  <2> HIDE DEF g
  <2> QED BY <1>4, <2>1, <2>2, Emits DEF GameDoes
<1>13. CASE GameRaw(p)
  <2> DEFINE g == IF ~b.buffering THEN [b EXCEPT !.shown = Append(@, m.seq)]
                  ELSE IF Len(b.buffer) < BufferLimit /\ m.epoch \in {None, b.epoch}
                       THEN [b EXCEPT !.buffer = Append(@, m.seq)] ELSE b
  <2>1. m.type = "raw" /\ game' = [game EXCEPT ![p] = g] /\ UNCHANGED up
    BY <1>13 DEF GameRaw, Handles
  <2>2. Append(b.shown, m.seq) \in Seq(1..hostSeq) /\ Append(b.buffer, m.seq) \in Seq(1..hostSeq)
    <3>1. b.shown \in Seq(1..hostSeq) /\ b.buffer \in Seq(1..hostSeq) /\ m.seq \in 1..hostSeq
      BY <1>0, <1>3, <2>1 DEF GameState
    <3> QED BY <3>1, AppendProperties
  <2>3. g \in GameState(hostSeq, epoch)
    BY <1>0, <2>2 DEF GameState
  <2>4. GameShows(p, b, m, g, <<>>)
    BY <1>0, <2>1 DEF GameShows, GameState
  <2> HIDE DEF g
  <2> QED BY <1>4, <2>1, <2>3, <2>4, Emits DEF GameDoes
<1> QED BY <1>5, <1>6, <1>10, <1>11, <1>12, <1>13 DEF Game

LEMMA SpinUpSteps ==
  ASSUME SystemShape, NEW p \in Players, SpinUp(p)
  PROVE  \E g, ms : /\ GameStep(p, g, ms) /\ GameArrives(p, game[p], g, ms) /\ UNCHANGED toGame
                    /\ g \in GameState(hostSeq, epoch)
<1> DEFINE b == game[p]
           g0 == [b EXCEPT !.zone = b.loading, !.loading = None]
           g1 == [g0 EXCEPT !.batch_complete = TRUE]
           g2 == [g0 EXCEPT !.zone_reported = TRUE, !.bypass = FALSE]
           both == <<Msg("end", b.pending, b.epoch), ZoneReady(b)>>
<1>0. b \in GameState(hostSeq, epoch) /\ None \in 0..epoch
  BY DEF SystemShape, None
<1>1. b.loading # None /\ UNCHANGED toGame /\ UNCHANGED <<elsewhere, down, sidecar>>
  BY DEF SpinUp, coord, hostVars, bounds, elsewhere
<1>2. /\ g0 \in GameState(hostSeq, epoch)
      /\ g0.pending = b.pending /\ g0.epoch = b.epoch /\ g0.loading = None /\ g0.zone = b.loading
      /\ ScreenAsWas(b, g0) /\ ZoneReady(g0) = ZoneReady(b)
  BY <1>0 DEF GameState, ScreenAsWas, ZoneReady
<1>3. /\ g1 \in GameState(hostSeq, epoch)
      /\ g1.pending = b.pending /\ g1.epoch = b.epoch /\ g1.loading = None /\ g1.zone = b.loading
      /\ ScreenAsWas(b, g1)
  <2> HIDE DEF g0
  <2> QED BY <1>2 DEF GameState, ScreenAsWas
<1>4. /\ g2 \in GameState(hostSeq, epoch)
      /\ g2.pending = b.pending /\ g2.epoch = b.epoch /\ g2.loading = None /\ g2.zone = b.loading
      /\ ScreenAsWas(b, g2)
  <2> HIDE DEF g0
  <2> QED BY <1>2 DEF GameState, ScreenAsWas
<1>5. \/ game' = [game EXCEPT ![p] = g0] /\ UNCHANGED up
      \/ b.pending # None /\ p # Host /\ game' = [game EXCEPT ![p] = g2] /\ Emit(p, <<ZoneReady(b)>>)
      \/ b.pending # None /\ p = Host /\ game' = [game EXCEPT ![p] = g1] /\ Emit(p, both)
  <2>1. g0.pending = b.pending /\ g0.epoch = b.epoch
    BY <1>2
  <2>2. FinishHydration(p, g0) => \/ game' = [game EXCEPT ![p] = g0] /\ UNCHANGED up
                                  \/ game' = [game EXCEPT ![p] = g2] /\ Emit(p, <<ZoneReady(b)>>)
    BY <1>2 DEF FinishHydration
  <2>3. \/ g0.pending = None /\ game' = [game EXCEPT ![p] = g0] /\ UNCHANGED up
        \/ /\ g0.pending # None /\ p # Host
           /\ FinishHydration(p, g0) \/ (game' = [game EXCEPT ![p] = g0] /\ UNCHANGED up)
        \/ /\ g0.pending # None /\ p = Host
           /\ game' = [game EXCEPT ![p] = g1]
           /\ Emit(p, <<Msg("end", g0.pending, g0.epoch), ZoneReady(g0)>>)
    BY DEF SpinUp
  <2> HIDE DEF g0, g1, g2
  <2> QED BY <1>2, <2>1, <2>2, <2>3
<1> HIDE DEF g0, g1, g2
<1>6. /\ GameArrives(p, b, g0, <<>>) /\ GameArrives(p, b, g1, <<>>) /\ GameArrives(p, b, g2, <<>>)
      /\ p = Host /\ b.pending # None => GameArrives(p, b, g1, both)
      /\ p # Host /\ b.pending # None => GameArrives(p, b, g2, <<ZoneReady(b)>>)
  BY <1>1, <1>2, <1>3, <1>4 DEF GameArrives
<1>7. CASE game' = [game EXCEPT ![p] = g0] /\ UNCHANGED up
  BY <1>1, <1>2, <1>6, <1>7, Emits DEF GameStep
<1>8. CASE b.pending # None /\ p # Host /\ game' = [game EXCEPT ![p] = g2] /\ Emit(p, <<ZoneReady(b)>>)
  BY <1>1, <1>4, <1>6, <1>8, Emits DEF GameStep
<1>9. CASE b.pending # None /\ p = Host /\ game' = [game EXCEPT ![p] = g1] /\ Emit(p, both)
  BY <1>1, <1>3, <1>6, <1>9, Emits DEF GameStep
<1> QED BY <1>5, <1>7, <1>8, <1>9

-----------------------------------------------------------------------------
(* Everything keeps its shape. *)

LEMMA QueuesTyped ==
  ASSUME NEW D, NEW S, NEW q \in [D -> Seq(S)], NEW p \in D
  PROVE  /\ q[p] # <<>> => [q EXCEPT ![p] = Tail(@)] \in [D -> Seq(S)] /\ Head(q[p]) \in S
         /\ [q EXCEPT ![p] = <<>>] \in [D -> Seq(S)]
         /\ \A ms \in Seq(S) : [q EXCEPT ![p] = @ \o ms] \in [D -> Seq(S)]
<1>1. q[p] \in Seq(S) /\ <<>> \in Seq(S)
  OBVIOUS
<1>2. q[p] # <<>> => Tail(q[p]) \in Seq(S) /\ Head(q[p]) \in S
  BY <1>1, TailOfQueue
<1>3. \A ms \in Seq(S) : q[p] \o ms \in Seq(S)
  BY <1>1, PartsOfQueue
<1> QED BY <1>1, <1>2, <1>3

LEMMA BroadcastTyped ==
  ASSUME NEW S, down \in [Clients -> Seq(S)], NEW ms \in Seq(S), Broadcast(ms)
  PROVE  down' \in [Clients -> Seq(S)]
<1>1. \A c \in Clients : down[c] \o ms \in Seq(S)
  BY PartsOfQueue
<1> QED BY <1>1 DEF Broadcast

LEMMA ShortTyped ==
  ASSUME NEW S
  PROVE  <<>> \in Seq(S) /\ (\A x \in S : <<x>> \in Seq(S)) /\ (\A x, y \in S : <<x, y>> \in Seq(S))
OBVIOUS

(* One game, one sidecar changed *)
LEMMA OneGame ==
  ASSUME SystemShape, Habits, NEW p \in Players, NEW g \in GameState(hostSeq, epoch),
         NEW ms \in Seq(Reports(epoch)), GameStep(p, g, ms), Sane(g),
         toGame' \in [Players -> Seq(Orders(hostSeq, epoch))]
  PROVE  SystemShape' /\ Habits'
<1>0. /\ epoch \in Nat /\ hostSeq \in Nat /\ up \in [Players -> Seq(Reports(epoch))]
      /\ game \in [Players -> GameState(hostSeq, epoch)]
  BY DEF SystemShape
<1>1. up' \in [Players -> Seq(Reports(epoch))]
  BY <1>0, QueuesTyped DEF GameStep
<1>2. game' = [game EXCEPT ![p] = g] /\ game' \in [Players -> GameState(hostSeq, epoch)]
  BY <1>0 DEF GameStep
<1>3. UNCHANGED elsewhere /\ down' = down /\ sidecar' = sidecar
  BY DEF GameStep
<1>4. SystemShape'
  BY <1>1, <1>2, <1>3 DEF SystemShape, elsewhere
<1>5. \A q \in Players : Sane(game'[q])
  BY <1>0, <1>2 DEF Habits
<1> QED BY <1>3, <1>4, <1>5 DEF Habits

LEMMA GamesKeepShape ==
  ASSUME SystemShape, Habits, NEW p \in Players, Game(p) \/ SpinUp(p)
  PROVE  SystemShape' /\ Habits'
<1> DEFINE b == game[p]
<1>0. /\ epoch \in Nat /\ hostSeq \in Nat
      /\ toGame \in [Players -> Seq(Orders(hostSeq, epoch))]
      /\ b \in GameState(hostSeq, epoch) /\ Sane(b)
      /\ b.pending \in {None, b.epoch} /\ b.epoch \in 0..epoch /\ BufferLimit \in Nat
  BY TravelSystemAssumption DEF SystemShape, Habits, Sane, GameState
<1>1. <<>> \in Seq(Reports(epoch)) /\ <<ZoneReady(b)>> \in Seq(Reports(epoch))
  <2>1. ZoneReady(b) \in Reports(epoch)
    BY <1>0, ReportKinds DEF ZoneReady
  <2> QED BY <2>1, ShortTyped
<1>2. ASSUME NEW g, ScreenAsWas(b, g) PROVE Len(g.buffer) <= BufferLimit /\ (~g.buffering => g.buffer = <<>>)
  BY <1>0, <1>2 DEF ScreenAsWas, Sane
<1>3. CASE Game(p)
  <2>1. PICK m, g, ms : /\ GameTakes(p, m) /\ GameStep(p, g, ms) /\ GameDoes(p, b, m, g, ms)
                        /\ g \in GameState(hostSeq, epoch)
    BY <1>3, GameSteps
  <2>2. m \in Orders(hostSeq, epoch) /\ toGame' \in [Players -> Seq(Orders(hostSeq, epoch))]
    BY <1>0, <2>1, QueuesTyped DEF GameTakes
  <2>3. m.type # "raw" => m.txn_id = m.epoch /\ m.epoch \in 1..epoch
    BY <1>0, <2>2, OrderKinds
  <2>4. Sane(g) /\ ms \in Seq(Reports(epoch))
    <3>1. CASE GamePrepares(p, b, m, g, ms)
      <4>1. Msg("ready", m.txn_id, m.epoch) \in Reports(epoch)
        BY <1>0, <2>3, <3>1, ReportKinds DEF GamePrepares
      <4> QED BY <1>1, <1>2, <2>3, <3>1, <4>1, ShortTyped DEF GamePrepares, Sane
    <3>2. CASE GameCommits(p, b, m, g, ms)
      <4>1. Msg("abort", m.txn_id, m.epoch) \in Reports(epoch)
        BY <1>0, <2>3, <3>2, ReportKinds DEF GameCommits
      <4> QED BY <1>1, <1>2, <2>3, <3>2, <4>1, ShortTyped DEF GameCommits, Sane
    <3>3. CASE GameHydrates(p, b, m, g, ms) \/ GameAborts(p, b, m, g, ms)
      BY <1>0, <1>1, <1>2, <3>3 DEF GameHydrates, GameAborts, Sane
    <3>4. CASE GameShows(p, b, m, g, ms)
      <4>1. m.seq \in 1..hostSeq /\ b.buffer \in Seq(1..hostSeq)
        BY <1>0, <2>2, <3>4, OrderKinds DEF GameShows, GameState
      <4>2. Len(Append(b.buffer, m.seq)) = Len(b.buffer) + 1 /\ Len(b.buffer) \in Nat
        BY <4>1, AppendProperties, LenProperties
      <4> QED BY <1>0, <1>1, <3>4, <4>2 DEF GameShows, Sane
    <3> QED BY <2>1, <3>1, <3>2, <3>3, <3>4 DEF GameDoes
  <2> QED BY <2>1, <2>2, <2>4, OneGame
<1>4. CASE SpinUp(p)
  <2>1. PICK g, ms : /\ GameStep(p, g, ms) /\ GameArrives(p, b, g, ms) /\ UNCHANGED toGame
                     /\ g \in GameState(hostSeq, epoch)
    BY <1>4, SpinUpSteps
  <2>2. Sane(g)
    BY <1>0, <1>2, <2>1 DEF GameArrives, Sane
  <2>3. ms \in Seq(Reports(epoch))
    <3>1. b.pending # None => b.epoch \in 1..epoch /\ b.pending = b.epoch
      BY <1>0 DEF None
    <3>2. b.pending # None => Msg("end", b.pending, b.epoch) \in Reports(epoch)
      BY <1>0, <3>1, ReportKinds
    <3>3. ZoneReady(b) \in Reports(epoch)
      BY <1>0, ReportKinds DEF ZoneReady
    <3> QED BY <1>1, <2>1, <3>2, <3>3, ShortTyped DEF GameArrives
  <2> QED BY <1>0, <2>1, <2>2, <2>3, OneGame
<1> QED BY <1>3, <1>4

LEMMA SidecarsKeepShape ==
  ASSUME SystemShape, Habits, NEW c \in Clients, Sidecar(c)
  PROVE  SystemShape' /\ Habits'
<1> DEFINE b == sidecar[c]
           n == hostSeq
           e == epoch
<1>0. /\ epoch \in Nat /\ hostSeq \in Nat /\ c \in Players
      /\ toGame \in [Players -> Seq(Orders(n, e))] /\ down \in [Clients -> Seq(Orders(n, e))]
      /\ sidecar \in [Clients -> SidecarState(n, e)]
      /\ b \in SidecarState(n, e) /\ Lawful(b) /\ BufferLimit \in Nat
  BY TravelSystemAssumption DEF SystemShape, Habits, Clients
<1>1. PICK m, s, out : SidecarStep(c, m, s, out) /\ SidecarDoes(b, m, s, out)
  BY SidecarSteps
<1>2. m \in Orders(n, e) /\ down' \in [Clients -> Seq(Orders(n, e))]
  BY <1>0, <1>1, QueuesTyped DEF SidecarStep
<1>3. /\ m.type # "raw" => m \in Control(e) /\ m.epoch \in 1..e /\ m.epoch \in 0..e /\ m.epoch # 0
      /\ m.type = "raw" => m \in Packets(n, e) /\ m.seq \in Nat
  <2>1. 1..e \subseteq 0..e /\ \A i \in 1..e : i # 0
    BY <1>0
  <2> QED BY <1>0, <1>2, <2>1, OrderKinds
<1>e. <<>> \in Seq(Packets(n, e)) /\ <<>> \in Seq(Orders(n, e)) /\ <<m>> \in Seq(Orders(n, e)) /\ Len(<<>>) = 0
  BY <1>2, ShortTyped
<1>4. s \in SidecarState(n, e) /\ Lawful(s) /\ out \in Seq(Orders(n, e))
  <2>1. CASE SidecarIgnores(b, m, s, out) \/ SidecarPasses(b, m, s, out)
    BY <1>0, <1>e, <2>1 DEF SidecarIgnores, SidecarPasses
  <2>2. CASE SidecarPrepares(b, m, s, out)
    <3>1. out \in Seq(Orders(n, e))
      <4>1. [m EXCEPT !.type = "prepare"] \in Orders(n, e)
        <5>1. m \in Control(e) /\ m.epoch \in 1..e /\ "prepare" \in ControlType
          BY <1>3, <2>2 DEF SidecarPrepares, ControlType
        <5>2. [m EXCEPT !.type = "prepare"] = Msg("prepare", m.epoch, m.epoch)
          BY <1>0, <5>1, NewOrders
        <5>3. Msg("prepare", m.epoch, m.epoch) \in Orders(n, e)
          BY <1>0, <5>1, NewOrders
        <5> QED BY <5>2, <5>3
      <4> QED BY <2>2, <4>1, ShortTyped DEF SidecarPrepares
    <3>2. s \in SidecarState(n, e)
      BY <1>0, <1>3, <1>e, <2>2 DEF SidecarPrepares, SidecarState
    <3>3. s.buffer = <<>> /\ s.buffering = TRUE /\ s.travel_epoch = m.epoch
      BY <1>0, <2>2 DEF SidecarPrepares, SidecarState
    <3> QED BY <1>0, <1>3, <1>e, <2>2, <3>1, <3>2, <3>3 DEF Lawful, SidecarPrepares
  <2>3. CASE SidecarBatches(b, m, s, out)
    <3>1. s \in SidecarState(n, e)
      BY <1>0, <1>3, <1>e, <2>3 DEF SidecarBatches, SidecarState
    <3>2. /\ s.travel_epoch = b.travel_epoch /\ s.travel_epoch # 0
          /\ \/ s.buffer = <<>> /\ s.buffering = TRUE
             \/ s.buffer = b.buffer /\ s.buffering = b.buffering
      BY <1>0, <1>3, <2>3 DEF SidecarBatches, SidecarState
    <3> QED BY <1>0, <1>e, <2>3, <3>1, <3>2 DEF Lawful, SidecarBatches
  <2>4. CASE SidecarFlushes(b, m, s, out)
    <3>1. s \in SidecarState(n, e)
      BY <1>0, <1>e, <2>4 DEF SidecarFlushes, SidecarState
    <3>2. s.buffer = <<>> /\ s.buffering = FALSE
      BY <1>0, <2>4 DEF SidecarFlushes, SidecarState
    <3>3. out \in Seq(Orders(n, e))
      <4>1. b.buffer \in Seq(Packets(n, e)) /\ Packets(n, e) \subseteq Orders(n, e)
        BY <1>0 DEF SidecarState, Orders
      <4>2. b.buffer \in Seq(Orders(n, e))
        BY <4>1, SeqMonotonic
      <4> QED BY <1>2, <2>4, <4>2, AppendProperties DEF SidecarFlushes
    <3> QED BY <1>0, <1>e, <3>1, <3>2, <3>3 DEF Lawful
  <2>5. CASE SidecarHolds(b, m, s, out)
    <3>1. /\ b.buffer \in Seq(Packets(n, e)) /\ m \in Packets(n, e) /\ b.travel_epoch # 0
          /\ m.epoch = b.travel_epoch /\ m.seq \in Nat /\ b.buffering
      BY <1>0, <1>3, <2>5 DEF SidecarHolds, SidecarState, Lawful
    <3>2. /\ Append(b.buffer, m) \in Seq(Packets(n, e)) /\ Len(b.buffer) \in Nat
          /\ Len(Append(b.buffer, m)) = Len(b.buffer) + 1
          /\ \A i \in 1..Len(b.buffer) + 1 : Append(b.buffer, m)[i] = IF i <= Len(b.buffer) THEN b.buffer[i] ELSE m
      BY <3>1, AppendProperties, LenProperties
    <3>3. s \in SidecarState(n, e)
      BY <1>0, <2>5, <3>1, <3>2 DEF SidecarHolds, SidecarState
    <3>4. /\ s.travel_epoch = b.travel_epoch /\ s.buffering = b.buffering
          /\ \/ s.buffer = b.buffer
             \/ s.buffer = Append(b.buffer, m) /\ Len(b.buffer) < BufferLimit
      BY <1>0, <2>5 DEF SidecarHolds, SidecarState
    <3>5. CASE s.buffer = b.buffer
      BY <1>0, <1>e, <2>5, <3>3, <3>4, <3>5 DEF Lawful, SidecarHolds
    <3>6. CASE s.buffer = Append(b.buffer, m) /\ Len(b.buffer) < BufferLimit
      <4>1. \A i \in 1..Len(s.buffer) : s.buffer[i].epoch = s.travel_epoch
        <5> SUFFICES ASSUME NEW i \in 1..Len(b.buffer) + 1
                     PROVE  Append(b.buffer, m)[i].epoch = b.travel_epoch
          BY <3>2, <3>4, <3>6
        <5>1. i \in 1..Len(b.buffer) \/ ~(i <= Len(b.buffer))
          BY <3>2
        <5> QED BY <1>0, <3>1, <3>2, <5>1 DEF Lawful
      <4>2. Len(s.buffer) <= BufferLimit
        BY <1>0, <3>2, <3>6
      <4>3. out \in Seq(Orders(n, e))
        BY <1>e, <2>5 DEF SidecarHolds
      <4> QED BY <3>1, <3>3, <3>4, <4>1, <4>2, <4>3 DEF Lawful
    <3> QED BY <3>4, <3>5, <3>6
  <2>6. CASE SidecarShows(b, m, s, out)
    <3>1. s \in SidecarState(n, e)
      BY <1>0, <1>3, <2>6 DEF SidecarShows, SidecarState
    <3>2. s.travel_epoch = b.travel_epoch /\ s.buffering = b.buffering /\ s.buffer = b.buffer
      BY <1>0, <2>6 DEF SidecarShows, SidecarState
    <3> QED BY <1>0, <1>e, <2>6, <3>1, <3>2 DEF Lawful, SidecarShows
  <2> QED BY <1>1, <2>1, <2>2, <2>3, <2>4, <2>5, <2>6 DEF SidecarDoes
<1>5. toGame' \in [Players -> Seq(Orders(n, e))]
  BY <1>0, <1>1, <1>4, QueuesTyped DEF SidecarStep
<1>6. sidecar' = [sidecar EXCEPT ![c] = s] /\ UNCHANGED elsewhere /\ up' = up /\ game' = game
  BY <1>1 DEF SidecarStep
<1>7. sidecar' \in [Clients -> SidecarState(n, e)] /\ \A x \in Clients : Lawful(sidecar'[x])
  BY <1>0, <1>4, <1>6 DEF Habits
<1>8. SystemShape'
  BY <1>2, <1>5, <1>6, <1>7 DEF SystemShape, elsewhere
<1> QED BY <1>6, <1>7, <1>8 DEF Habits

-----------------------------------------------------------------------------
(* The host process *)

(* What the host process reads is a report of that player's game. *)
LEMMA NextReport ==
  ASSUME SystemShape, TypeOK, NEW p \in Players, up[p] # <<>>
  PROVE  /\ Head(up[p]) \in Reports(epoch) /\ 1..epoch \subseteq Epochs
         /\ Head(up[p]).txn_id \in 0..epoch /\ Head(up[p]).epoch \in 0..epoch
         /\ Head(up[p]).type \in {"ready", "end", "abort"}
              => Head(up[p]).txn_id = Head(up[p]).epoch /\ Head(up[p]).epoch \in 1..epoch
         /\ Head(up[p]).type = "zone_ready" /\ Head(up[p]).txn_id # None
              => Head(up[p]).txn_id = Head(up[p]).epoch /\ Head(up[p]).epoch \in 1..epoch
         /\ Consume(p) => up' \in [Players -> Seq(Reports(epoch))]
<1>0. epoch \in Nat /\ up \in [Players -> Seq(Reports(epoch))]
  BY DEF SystemShape
<1>1. Head(up[p]) \in Reports(epoch) /\ (Consume(p) => up' \in [Players -> Seq(Reports(epoch))])
  BY <1>0, QueuesTyped, SMTT(40) DEF Consume
<1>2. 1..epoch \subseteq Epochs
  BY MaxEpochAssumption DEF TypeOK, Epochs
<1>3. /\ Head(up[p]).txn_id \in 0..epoch /\ Head(up[p]).epoch \in 0..epoch
      /\ Head(up[p]).type \in {"ready", "end", "abort"}
           => Head(up[p]).txn_id = Head(up[p]).epoch /\ Head(up[p]).epoch \in 1..epoch
      /\ Head(up[p]).type = "zone_ready" => Head(up[p]).txn_id \in {None, Head(up[p]).epoch}
  BY <1>0, <1>1, ReportKinds
<1>4. \A i \in 0..epoch : i # 0 => i \in 1..epoch
  BY <1>0
<1> QED BY <1>1, <1>2, <1>3, <1>4 DEF None

(* A connection goes: the coordinator forgets the participant. *)
LEMMA DropStep ==
  ASSUME NEW c \in Players, Drop(c)
  PROVE  \/ Free(current) /\ UNCHANGED vars
         \/ ~Free(current) /\ RemoveParticipant(c)
BY DEF Drop, coord, vars

(* What a step of the host process does to the coordinator is a call of it. *)
LEMMA HostCalls ==
  ASSUME SystemShape, TypeOK, NEW p \in Players
  PROVE  /\ StartTravel(p) => Propose(session) /\ session \in SUBSET Players
         /\ RefuseTravel(p) => (UNCHANGED vars \/ RemoveParticipant(p))
         /\ TravelReady(p) =>
              \/ UNCHANGED vars
              \/ /\ Head(up[p]).txn_id \in Epochs /\ Head(up[p]).epoch = Head(up[p]).txn_id
                 /\ \/ MarkReady(p, Head(up[p]).txn_id, Head(up[p]).epoch)
                    \/ Refused("ready", p, Head(up[p]).txn_id, Head(up[p]).epoch)
         /\ TravelZoneReady(p) =>
              \/ UNCHANGED vars
              \/ /\ Head(up[p]).txn_id \in Epochs /\ Head(up[p]).epoch = Head(up[p]).txn_id
                 /\ \/ MarkZoneReady(p, Head(up[p]).txn_id, Head(up[p]).epoch)
                    \/ Refused("zone_ready", p, Head(up[p]).txn_id, Head(up[p]).epoch)
         /\ ViewBatchEnd \/ RawMessage => UNCHANGED vars
         /\ TravelAbort => (UNCHANGED vars \/ \E t \in Epochs : Abort(t))
         /\ \A task \in committing :
              /\ SendCommit(task) => UNCHANGED vars
              /\ AwaitZones(task) =>
                   \/ UNCHANGED vars
                   \/ \E t \in Epochs : BeginZoneWait(t)
                   \/ task.by \in Clients /\ RemoveParticipant(task.by)
<1>1. StartTravel(p) => Propose(session) /\ session \in SUBSET Players
  BY DEF StartTravel, SystemShape
<1>2. RefuseTravel(p) => (UNCHANGED vars \/ RemoveParticipant(p))
  BY DEF RefuseTravel, Drop, coord, vars
<1>3. ASSUME TravelReady(p)
      PROVE  \/ UNCHANGED vars
             \/ /\ Head(up[p]).txn_id \in Epochs /\ Head(up[p]).epoch = Head(up[p]).txn_id
                /\ \/ MarkReady(p, Head(up[p]).txn_id, Head(up[p]).epoch)
                   \/ Refused("ready", p, Head(up[p]).txn_id, Head(up[p]).epoch)
  <2>1. up[p] # <<>> /\ Head(up[p]).type = "ready"
    BY <1>3 DEF TravelReady, Reads
  <2>2. Head(up[p]).txn_id \in Epochs /\ Head(up[p]).epoch = Head(up[p]).txn_id
    BY <2>1, NextReport
  <2> QED BY <1>3, <2>2 DEF TravelReady, coord, vars
<1>4. ASSUME TravelZoneReady(p)
      PROVE  \/ UNCHANGED vars
             \/ /\ Head(up[p]).txn_id \in Epochs /\ Head(up[p]).epoch = Head(up[p]).txn_id
                /\ \/ MarkZoneReady(p, Head(up[p]).txn_id, Head(up[p]).epoch)
                   \/ Refused("zone_ready", p, Head(up[p]).txn_id, Head(up[p]).epoch)
  <2>1. up[p] # <<>> /\ Head(up[p]).type = "zone_ready"
    BY <1>4 DEF TravelZoneReady, Reads
  <2>2. Head(up[p]).txn_id # None => Head(up[p]).txn_id \in Epochs /\ Head(up[p]).epoch = Head(up[p]).txn_id
    BY <2>1, NextReport
  <2> QED BY <1>4, <2>2 DEF TravelZoneReady, coord, vars
<1>5. ViewBatchEnd \/ RawMessage => UNCHANGED vars
  BY DEF ViewBatchEnd, RawMessage, coord, vars
<1>6. ASSUME TravelAbort PROVE UNCHANGED vars \/ \E t \in Epochs : Abort(t)
  <2>1. up[Host] # <<>> /\ Head(up[Host]).type = "abort" /\ Host \in Players
    BY <1>6, TravelSystemAssumption DEF TravelAbort, Reads
  <2>2. Head(up[Host]).epoch \in Epochs
    BY <2>1, NextReport
  <2> QED BY <1>6, <2>2 DEF TravelAbort, coord, vars
<1>7. ASSUME NEW task \in committing
      PROVE  /\ SendCommit(task) => UNCHANGED vars
             /\ AwaitZones(task) =>
                  \/ UNCHANGED vars
                  \/ \E t \in Epochs : BeginZoneWait(t)
                  \/ task.by \in Clients /\ RemoveParticipant(task.by)
  <2>1. task.epoch \in Epochs
    BY MaxEpochAssumption DEF SystemShape, TypeOK, Epochs
  <2>2. session \in SUBSET Players
    BY DEF SystemShape
  <2>3. SendCommit(task) => UNCHANGED vars
    BY DEF SendCommit, coord, vars
  <2>4. AwaitZones(task) =>
           \/ UNCHANGED vars
           \/ BeginZoneWait(task.epoch)
           \/ task.by \in Clients /\ RemoveParticipant(task.by)
    BY <2>2 DEF AwaitZones, Drop, coord, vars, Clients
  <2> QED BY <2>1, <2>3, <2>4
<1> QED BY <1>1, <1>2, <1>3, <1>4, <1>5, <1>6, <1>7

(* Every step of the system is a step of the coordinator, or none. *)
LEMMA CoordinatorSteps ==
  ASSUME SystemShape, TypeOK, [SystemNext]_sysVars
  PROVE  [Next]_vars
<1>0. Host \in Players /\ Clients \subseteq Players /\ MayLeave \subseteq Players
  BY TravelSystemAssumption DEF Clients
<1>1. ASSUME NEW p \in Players, RemoveParticipant(p) PROVE Next
  BY <1>1 DEF Next
<1>2. CASE HostCoroutines
  <2>1. PICK task \in committing : SendCommit(task) \/ AwaitZones(task)
    BY <1>2 DEF HostCoroutines
  <2>2. CASE \E t \in Epochs : BeginZoneWait(t)
    BY <2>2 DEF Next
  <2> QED BY <1>0, <1>1, <2>1, <2>2, HostCalls
<1>3. CASE HostNext
  <2>1. CASE \E p \in Players : StartTravel(p) \/ RefuseTravel(p)
    <3>1. PICK p \in Players : StartTravel(p) \/ RefuseTravel(p)
      BY <2>1
    <3>2. \/ UNCHANGED vars \/ RemoveParticipant(p)
          \/ \E S \in SUBSET Players : Propose(S)
      BY <3>1, HostCalls
    <3> QED BY <1>1, <3>2 DEF Next
  <2>2. CASE \E p \in Players : TravelReady(p) \/ TravelZoneReady(p)
    <3>1. PICK p \in Players : TravelReady(p) \/ TravelZoneReady(p)
      BY <2>2
    <3> DEFINE t == Head(up[p]).txn_id
               e == Head(up[p]).epoch
    <3>2. \/ UNCHANGED vars
          \/ /\ t \in Epochs /\ e = t
             /\ \/ MarkReady(p, t, e) \/ MarkZoneReady(p, t, e)
                \/ Refused("ready", p, t, e) \/ Refused("zone_ready", p, t, e)
      BY <3>1, HostCalls
    <3> HIDE DEF t, e
    <3> QED BY <3>2 DEF Next, AckKind
  <2>3. CASE ViewBatchEnd \/ TravelAbort \/ RawMessage
    BY <1>0, <2>3, HostCalls DEF Next
  <2> QED BY <1>3, <2>1, <2>2, <2>3 DEF HostNext
<1>4. CASE \E c \in Clients : Disconnect(c) \/ Join(c)
  <2>1. PICK c \in Clients : Disconnect(c) \/ Join(c)
    BY <1>4
  <2>2. UNCHANGED vars \/ RemoveParticipant(c)
    BY <1>0, <2>1, DropStep DEF Disconnect, Join, coord, vars
  <2> QED BY <1>0, <1>1, <2>2
<1>5. CASE \E c \in Clients : Sidecar(c)
  BY <1>5 DEF Sidecar, SidecarPropose, SidecarViewBatch, SidecarResume, SidecarForwards, SidecarRaw,
              coord, vars
<1>6. CASE \E p \in Players : Game(p) \/ SpinUp(p) \/ RequestTravel(p)
  BY <1>6 DEF Game, GamePrepare, GameCommit, GameViewBatch, GameResume, GameAbort, GameRaw,
              SpinUp, RequestTravel, coord, vars
<1>7. CASE HostDistributes
  BY <1>7 DEF HostDistributes, coord, vars
<1>8. CASE UNCHANGED sysVars
  BY <1>8 DEF sysVars, coord, vars
<1> QED BY <1>2, <1>3, <1>4, <1>5, <1>6, <1>7, <1>8 DEF SystemNext

(* The games and sidecars stay as they are: what the host process sends may *)
(* carry the new travel, or the new number.                                 *)
LEMMA HostShape ==
  ASSUME SystemShape, Habits, epoch' \in Nat, hostSeq' \in Nat, epoch <= epoch', hostSeq <= hostSeq',
         session' \in SUBSET Players, Host \in session',
         joins' \in 0..MaxJoins, requests' \in 0..MaxRequests, rawSent' \in 0..MaxRaw,
         committing' \subseteq [by : Players, epoch : 1..epoch', sent : BOOLEAN],
         up' \in [Players -> Seq(Reports(epoch))],
         down' \in [Clients -> Seq(Orders(hostSeq', epoch'))],
         toGame' \in [Players -> Seq(Orders(hostSeq', epoch'))],
         UNCHANGED <<sidecar, game>>
  PROVE  SystemShape' /\ Habits'
<1>1. /\ Seq(Reports(epoch)) \subseteq Seq(Reports(epoch'))
      /\ SidecarState(hostSeq, epoch) \subseteq SidecarState(hostSeq', epoch')
      /\ GameState(hostSeq, epoch) \subseteq GameState(hostSeq', epoch')
  BY Widens DEF SystemShape
<1>2. up' \in [Players -> Seq(Reports(epoch'))]
  BY <1>1
<1>3. /\ sidecar' \in [Clients -> SidecarState(hostSeq', epoch')]
      /\ game' \in [Players -> GameState(hostSeq', epoch')]
  BY <1>1 DEF SystemShape
<1>4. SystemShape'
  BY <1>2, <1>3 DEF SystemShape
<1> QED BY <1>4 DEF Habits

(* What the host process sends *)
LEMMA Sending ==
  ASSUME NEW n \in Nat, NEW e \in Nat, down \in [Clients -> Seq(Orders(n, e))],
         toGame \in [Players -> Seq(Orders(n, e))]
  PROVE  /\ \A ms \in Seq(Orders(n, e)) : Broadcast(ms) => down' \in [Clients -> Seq(Orders(n, e))]
         /\ \A ms \in Seq(Orders(n, e)) : ToHostGame(ms) => toGame' \in [Players -> Seq(Orders(n, e))]
         /\ \A t \in ControlType, f \in 1..e : <<Msg(t, f, f)>> \in Seq(Orders(n, e))
<1>1. Host \in Players
  BY TravelSystemAssumption
<1>2. \A ms \in Seq(Orders(n, e)) : Broadcast(ms) => down' \in [Clients -> Seq(Orders(n, e))]
  BY BroadcastTyped
<1>3. \A ms \in Seq(Orders(n, e)) : ToHostGame(ms) => toGame' \in [Players -> Seq(Orders(n, e))]
  BY <1>1, QueuesTyped DEF ToHostGame
<1>4. \A t \in ControlType, f \in 1..e : <<Msg(t, f, f)>> \in Seq(Orders(n, e))
  BY NewOrders, ShortTyped
<1> QED BY <1>2, <1>3, <1>4

LEMMA DropShape ==
  ASSUME SystemShape, TypeOK, NEW c \in Clients, Drop(c)
  PROVE  /\ epoch' = epoch /\ session' \in SUBSET Players /\ Host \in session'
         /\ up' \in [Players -> Seq(Reports(epoch))]
         /\ down' \in [Clients -> Seq(Orders(hostSeq, epoch))]
<1>1. epoch' = epoch
  BY DEF Drop, RemoveParticipant, coord
<1>2. /\ c \in Players /\ c # Host /\ session \in SUBSET Players /\ Host \in session
      /\ up \in [Players -> Seq(Reports(epoch))] /\ down \in [Clients -> Seq(Orders(hostSeq, epoch))]
  BY DEF Clients, SystemShape
<1>3. up' \in [Players -> Seq(Reports(epoch))] /\ down' \in [Clients -> Seq(Orders(hostSeq, epoch))]
  BY <1>2, QueuesTyped DEF Drop
<1> QED BY <1>1, <1>2, <1>3 DEF Drop

LEMMA HostKeepsShape ==
  ASSUME SystemShape, Habits, TypeOK, NEW p \in Players,
         \/ StartTravel(p) \/ RefuseTravel(p) \/ TravelReady(p) \/ TravelZoneReady(p)
         \/ ViewBatchEnd \/ TravelAbort \/ RawMessage
  PROVE  SystemShape' /\ Habits'
<1>0. /\ epoch \in Nat /\ hostSeq \in Nat /\ epoch <= epoch /\ hostSeq <= hostSeq
      /\ Host \in Players
      /\ up \in [Players -> Seq(Reports(epoch))]
      /\ down \in [Clients -> Seq(Orders(hostSeq, epoch))]
      /\ toGame \in [Players -> Seq(Orders(hostSeq, epoch))]
      /\ session \in SUBSET Players /\ Host \in session
      /\ committing \subseteq [by : Players, epoch : 1..epoch, sent : BOOLEAN]
      /\ joins \in 0..MaxJoins /\ requests \in 0..MaxRequests /\ rawSent \in 0..MaxRaw
  BY TravelSystemAssumption DEF SystemShape
<1>1. /\ \A ms \in Seq(Orders(hostSeq, epoch)) :
           /\ Broadcast(ms) => down' \in [Clients -> Seq(Orders(hostSeq, epoch))]
           /\ ToHostGame(ms) => toGame' \in [Players -> Seq(Orders(hostSeq, epoch))]
      /\ \A t \in ControlType, f \in 1..epoch : <<Msg(t, f, f)>> \in Seq(Orders(hostSeq, epoch))
  BY <1>0, Sending
<1>2. {"propose", "prepare", "begin", "commit", "end", "resume", "abort"} \subseteq ControlType
  BY DEF ControlType
<1>3. CASE StartTravel(p)
  <2>1. /\ up[p] # <<>> /\ Consume(p) /\ UNCHANGED <<hostVars, bounds, sidecar, game>>
        /\ ToHostGame(<<Msg("prepare", epoch', epoch')>>)
        /\ Broadcast(<<[Msg("prepare", epoch', epoch') EXCEPT !.type = "propose"]>>)
    BY <1>3 DEF StartTravel, Reads
  <2>2. epoch' = epoch + 1
    BY <1>3 DEF StartTravel, Propose
  <2>3. epoch' \in Nat /\ epoch <= epoch' /\ epoch' \in 1..epoch' /\ 1..epoch \subseteq 1..epoch'
    BY <1>0, <2>2
  <2>4. [Msg("prepare", epoch', epoch') EXCEPT !.type = "propose"] = Msg("propose", epoch', epoch')
    BY DEF Msg
  <2>5. down \in [Clients -> Seq(Orders(hostSeq, epoch'))] /\ toGame \in [Players -> Seq(Orders(hostSeq, epoch'))]
    <3>1. Seq(Orders(hostSeq, epoch)) \subseteq Seq(Orders(hostSeq, epoch'))
      BY <1>0, <2>3, Widens
    <3> QED BY <1>0, <3>1
  <2>6. /\ <<Msg("prepare", epoch', epoch')>> \in Seq(Orders(hostSeq, epoch'))
        /\ <<Msg("propose", epoch', epoch')>> \in Seq(Orders(hostSeq, epoch'))
        /\ down' \in [Clients -> Seq(Orders(hostSeq, epoch'))]
        /\ toGame' \in [Players -> Seq(Orders(hostSeq, epoch'))]
    BY <1>0, <1>2, <2>1, <2>3, <2>4, <2>5, Sending
  <2>7. up' \in [Players -> Seq(Reports(epoch))]
    BY <2>1, NextReport
  <2>8. committing' \subseteq [by : Players, epoch : 1..epoch', sent : BOOLEAN]
    BY <1>0, <2>1, <2>3 DEF hostVars
  <2> QED BY <1>0, <2>1, <2>3, <2>6, <2>7, <2>8, HostShape DEF hostVars, bounds
<1>4. CASE RefuseTravel(p)
  <2>1. /\ up[p] # <<>> /\ UNCHANGED <<committing, hostSeq, bounds, toGame, sidecar, game>>
        /\ \/ p = Host /\ Consume(p) /\ UNCHANGED <<coord, session, down>>
           \/ p # Host /\ Drop(p)
    BY <1>4 DEF RefuseTravel, Reads
  <2>2. CASE p = Host /\ Consume(p) /\ UNCHANGED <<coord, session, down>>
    <3>1. up' \in [Players -> Seq(Reports(epoch))]
      BY <2>1, <2>2, NextReport
    <3> QED BY <1>0, <2>1, <2>2, <3>1, HostShape DEF coord, bounds
  <2>3. CASE p # Host /\ Drop(p)
    <3>1. p \in Clients
      BY <2>3 DEF Clients
    <3> QED BY <1>0, <2>1, <2>3, <3>1, DropShape, HostShape DEF bounds
  <2> QED BY <2>1, <2>2, <2>3
<1>5. CASE TravelReady(p)
  <2> DEFINE m == Head(up[p])
  <2>1. /\ up[p] # <<>> /\ m.type = "ready" /\ Consume(p) /\ epoch' = epoch
        /\ UNCHANGED <<session, hostSeq, bounds, toGame, sidecar, game>>
        /\ \/ UNCHANGED <<committing, down>>
           \/ /\ committing' = committing \cup {[by |-> p, epoch |-> epoch, sent |-> FALSE]}
              /\ Broadcast(<<Msg("begin", m.txn_id, m.epoch)>>)
    BY <1>5 DEF TravelReady, Reads, MarkReady, Refused, coord
  <2>2. up' \in [Players -> Seq(Reports(epoch))] /\ m.txn_id = m.epoch /\ m.epoch \in 1..epoch
    BY <2>1, NextReport
  <2>3. epoch \in 1..epoch
    BY <1>0, <2>2
  <2>4. committing' \subseteq [by : Players, epoch : 1..epoch, sent : BOOLEAN]
    <3>1. [by |-> p, epoch |-> epoch, sent |-> FALSE] \in [by : Players, epoch : 1..epoch, sent : BOOLEAN]
      BY <2>3
    <3>2. committing' \subseteq committing \cup {[by |-> p, epoch |-> epoch, sent |-> FALSE]}
      BY <2>1
    <3> HIDE DEF m
    <3> QED BY <1>0, <3>1, <3>2
  <2>5. down' \in [Clients -> Seq(Orders(hostSeq, epoch))]
    BY <1>0, <1>1, <1>2, <2>1, <2>2
  <2> QED BY <1>0, <2>1, <2>2, <2>4, <2>5, HostShape DEF bounds
<1>6. CASE TravelZoneReady(p)
  <2> DEFINE m == Head(up[p])
             ms == <<Msg("resume", m.txn_id, m.epoch)>>
  <2>1. /\ up[p] # <<>> /\ m.type = "zone_ready" /\ Consume(p) /\ epoch' = epoch
        /\ UNCHANGED <<hostVars, bounds, sidecar, game>>
        /\ \/ UNCHANGED <<down, toGame>>
           \/ m.txn_id # None /\ ToHostGame(ms) /\ Broadcast(ms)
    BY <1>6 DEF TravelZoneReady, Reads, MarkZoneReady, Refused, coord
  <2>2. /\ up' \in [Players -> Seq(Reports(epoch))]
        /\ m.txn_id # None => m.txn_id = m.epoch /\ m.epoch \in 1..epoch
    BY <2>1, NextReport
  <2>3. m.txn_id # None => ms \in Seq(Orders(hostSeq, epoch))
    BY <1>1, <1>2, <2>2
  <2>4. /\ down' \in [Clients -> Seq(Orders(hostSeq, epoch))]
        /\ toGame' \in [Players -> Seq(Orders(hostSeq, epoch))]
    BY <1>0, <1>1, <2>1, <2>3
  <2> QED BY <1>0, <2>1, <2>2, <2>4, HostShape DEF hostVars, bounds
<1>7. CASE ViewBatchEnd
  <2> DEFINE e == Head(up[Host]).epoch
             ms == <<Msg("end", current.epoch, e)>>
  <2>1. /\ up[Host] # <<>> /\ Head(up[Host]).type = "end" /\ Consume(Host)
        /\ UNCHANGED <<coord, hostVars, bounds, sidecar, game>>
        /\ \/ UNCHANGED <<down, toGame>>
           \/ current.epoch = e /\ ToHostGame(ms) /\ Broadcast(ms)
    BY <1>7 DEF ViewBatchEnd, Reads
  <2>2. up' \in [Players -> Seq(Reports(epoch))] /\ e \in 1..epoch
    BY <1>0, <2>1, NextReport
  <2>3. current.epoch = e => ms \in Seq(Orders(hostSeq, epoch))
    BY <1>1, <1>2, <2>2
  <2>4. /\ down' \in [Clients -> Seq(Orders(hostSeq, epoch))]
        /\ toGame' \in [Players -> Seq(Orders(hostSeq, epoch))]
    BY <1>0, <1>1, <2>1, <2>3
  <2> QED BY <1>0, <2>1, <2>2, <2>4, HostShape DEF hostVars, bounds, coord
<1>8. CASE TravelAbort
  <2> DEFINE e == Head(up[Host]).epoch
  <2>1. /\ up[Host] # <<>> /\ Head(up[Host]).type = "abort" /\ Consume(Host) /\ epoch' = epoch
        /\ UNCHANGED <<hostVars, bounds, toGame, sidecar, game>>
        /\ UNCHANGED down \/ Broadcast(<<Msg("abort", e, e)>>)
    BY <1>8 DEF TravelAbort, Reads, Abort, coord
  <2>2. up' \in [Players -> Seq(Reports(epoch))] /\ e \in 1..epoch
    BY <1>0, <2>1, NextReport
  <2>3. down' \in [Clients -> Seq(Orders(hostSeq, epoch))]
    BY <1>0, <1>1, <1>2, <2>1, <2>2
  <2> QED BY <1>0, <2>1, <2>2, <2>3, HostShape DEF hostVars, bounds
<1>9. CASE RawMessage
  <2>1. /\ up[Host] # <<>> /\ Consume(Host) /\ hostSeq' = hostSeq + 1
        /\ Broadcast(<<Raw(hostSeq', RawEpoch)>>)
        /\ UNCHANGED <<coord, session, committing, bounds, toGame, sidecar, game>>
    BY <1>9 DEF RawMessage, Reads
  <2>2. hostSeq' \in Nat /\ hostSeq <= hostSeq' /\ hostSeq' \in 1..hostSeq' /\ RawEpoch \in 0..epoch
    BY <1>0, <2>1 DEF RawEpoch, TypeOK, None
  <2>3. up' \in [Players -> Seq(Reports(epoch))]
    BY <1>0, <2>1, NextReport
  <2>4. Seq(Orders(hostSeq, epoch)) \subseteq Seq(Orders(hostSeq', epoch))
    BY <1>0, <2>2, Widens
  <2>5. down \in [Clients -> Seq(Orders(hostSeq', epoch))] /\ toGame' \in [Players -> Seq(Orders(hostSeq', epoch))]
    BY <1>0, <2>1, <2>4
  <2>6. <<Raw(hostSeq', RawEpoch)>> \in Seq(Orders(hostSeq', epoch))
    BY <1>0, <2>2, NewOrders, ShortTyped
  <2>7. down' \in [Clients -> Seq(Orders(hostSeq', epoch))]
    BY <2>1, <2>5, <2>6, BroadcastTyped
  <2> QED BY <1>0, <2>1, <2>2, <2>3, <2>5, <2>7, HostShape DEF coord, bounds
<1> QED BY <1>3, <1>4, <1>5, <1>6, <1>7, <1>8, <1>9

LEMMA CoroutinesKeepShape ==
  ASSUME SystemShape, Habits, TypeOK, NEW task \in committing, SendCommit(task) \/ AwaitZones(task)
  PROVE  SystemShape' /\ Habits'
<1>0. /\ epoch \in Nat /\ hostSeq \in Nat /\ epoch <= epoch /\ hostSeq <= hostSeq
      /\ up \in [Players -> Seq(Reports(epoch))]
      /\ down \in [Clients -> Seq(Orders(hostSeq, epoch))]
      /\ toGame \in [Players -> Seq(Orders(hostSeq, epoch))]
      /\ session \in SUBSET Players /\ Host \in session
      /\ committing \subseteq [by : Players, epoch : 1..epoch, sent : BOOLEAN]
      /\ joins \in 0..MaxJoins /\ requests \in 0..MaxRequests /\ rawSent \in 0..MaxRaw
      /\ task \in [by : Players, epoch : 1..epoch, sent : BOOLEAN]
  BY DEF SystemShape
<1>1. CASE SendCommit(task)
  <2> DEFINE f == task.epoch
             both == <<Msg("begin", f, f), Msg("commit", f, f)>>
             sent == [task EXCEPT !.sent = TRUE]
  <2>1. /\ committing' = (committing \ {task}) \cup {sent}
        /\ ToHostGame(both) /\ Broadcast(<<Msg("commit", f, f)>>)
        /\ UNCHANGED <<coord, session, hostSeq, bounds, up, sidecar, game>>
    BY <1>1 DEF SendCommit
  <2>2. Msg("begin", f, f) \in Orders(hostSeq, epoch) /\ Msg("commit", f, f) \in Orders(hostSeq, epoch)
    BY <1>0, NewOrders DEF ControlType
  <2>3. both \in Seq(Orders(hostSeq, epoch)) /\ <<Msg("commit", f, f)>> \in Seq(Orders(hostSeq, epoch))
    BY <2>2, ShortTyped
  <2>4. /\ down' \in [Clients -> Seq(Orders(hostSeq, epoch))]
        /\ toGame' \in [Players -> Seq(Orders(hostSeq, epoch))]
    BY <1>0, <2>1, <2>3, Sending
  <2>5. committing' \subseteq [by : Players, epoch : 1..epoch, sent : BOOLEAN]
    <3>1. sent \in [by : Players, epoch : 1..epoch, sent : BOOLEAN]
      BY <1>0
    <3> HIDE DEF sent
    <3> QED BY <1>0, <2>1, <3>1
  <2> QED BY <1>0, <2>1, <2>4, <2>5, HostShape DEF bounds, coord
<1>2. CASE AwaitZones(task)
  <2>1. /\ committing' = committing \ {task}
        /\ UNCHANGED <<hostSeq, bounds, toGame, sidecar, game>>
        /\ \/ epoch' = epoch /\ UNCHANGED <<session, up, down>>
           \/ task.by \in session \ {Host} /\ Drop(task.by)
    BY <1>2 DEF AwaitZones, BeginZoneWait, coord
  <2>2. committing' \subseteq [by : Players, epoch : 1..epoch, sent : BOOLEAN]
    BY <1>0, <2>1
  <2>3. CASE epoch' = epoch /\ UNCHANGED <<session, up, down>>
    BY <1>0, <2>1, <2>2, <2>3, HostShape DEF bounds
  <2>4. CASE task.by \in session \ {Host} /\ Drop(task.by)
    <3>1. task.by \in Clients
      BY <1>0, <2>4 DEF Clients
    <3> QED BY <1>0, <2>1, <2>2, <2>4, <3>1, DropShape, HostShape DEF bounds
  <2> QED BY <2>1, <2>3, <2>4
<1> QED BY <1>1, <1>2

LEMMA PlayersKeepShape ==
  ASSUME SystemShape, Habits, TypeOK,
         \/ \E c \in Clients : Disconnect(c) \/ Join(c)
         \/ \E p \in Players : RequestTravel(p)
         \/ HostDistributes
  PROVE  SystemShape' /\ Habits'
<1>0. /\ epoch \in Nat /\ hostSeq \in Nat /\ epoch <= epoch /\ hostSeq <= hostSeq
      /\ up \in [Players -> Seq(Reports(epoch))]
      /\ down \in [Clients -> Seq(Orders(hostSeq, epoch))]
      /\ toGame \in [Players -> Seq(Orders(hostSeq, epoch))]
      /\ session \in SUBSET Players /\ Host \in session /\ Host \in Players
      /\ committing \subseteq [by : Players, epoch : 1..epoch, sent : BOOLEAN]
      /\ joins \in 0..MaxJoins /\ requests \in 0..MaxRequests /\ rawSent \in 0..MaxRaw
      /\ MaxJoins \in Nat /\ MaxRequests \in Nat /\ MaxRaw \in Nat
  BY TravelSystemAssumption DEF SystemShape
<1>1. ASSUME NEW c \in Clients, Disconnect(c) PROVE SystemShape' /\ Habits'
  <2>1. Drop(c) /\ UNCHANGED <<committing, hostSeq, bounds, toGame, sidecar, game>>
    BY <1>1 DEF Disconnect
  <2> QED BY <1>0, <2>1, DropShape, HostShape DEF bounds
<1>2. ASSUME NEW c \in Clients, Join(c) PROVE SystemShape' /\ Habits'
  <2>1. /\ joins' = joins + 1 /\ joins < MaxJoins /\ session' = session \cup {c}
        /\ toGame' = [toGame EXCEPT ![c] = <<>>]
        /\ sidecar' = [sidecar EXCEPT ![c] = FreshSidecar]
        /\ UNCHANGED <<coord, committing, hostSeq, requests, rawSent, up, down, game>>
    BY <1>2 DEF Join
  <2>2. c \in Players
    BY DEF Clients
  <2>3. toGame' \in [Players -> Seq(Orders(hostSeq, epoch))]
    BY <1>0, <2>1, <2>2, QueuesTyped
  <2>4. FreshSidecar \in SidecarState(hostSeq, epoch) /\ Lawful(FreshSidecar)
    <3>1. <<>> \in Seq(Packets(hostSeq, epoch)) /\ Len(<<>>) = 0 /\ 0 \in 0..epoch
      BY <1>0
    <3> QED BY <3>1, TravelSystemAssumption DEF FreshSidecar, SidecarState, Lawful
  <2>5. sidecar' \in [Clients -> SidecarState(hostSeq, epoch)] /\ \A x \in Clients : Lawful(sidecar'[x])
    BY <2>1, <2>4 DEF SystemShape, Habits
  <2>6. joins' \in 0..MaxJoins /\ session' \in SUBSET Players /\ Host \in session'
    BY <1>0, <2>1, <2>2
  <2>7. SystemShape'
    BY <2>1, <2>3, <2>5, <2>6 DEF SystemShape, coord
  <2> QED BY <2>1, <2>5, <2>7 DEF Habits
<1>3. ASSUME NEW p \in Players, NEW x \in Reports(epoch), Emit(p, <<x>>)
      PROVE  up' \in [Players -> Seq(Reports(epoch))]
  BY <1>0, <1>3, QueuesTyped, ShortTyped DEF Emit
<1>4. Msg("request", None, None) \in Reports(epoch) /\ Msg("raw", None, None) \in Reports(epoch)
  BY <1>0, ReportKinds
<1>5. ASSUME NEW p \in Players, RequestTravel(p) PROVE SystemShape' /\ Habits'
  <2>1. /\ requests < MaxRequests /\ requests' = requests + 1 /\ Emit(p, <<Msg("request", None, None)>>)
        /\ UNCHANGED <<coord, hostVars, joins, rawSent, down, toGame, sidecar, game>>
    BY <1>5 DEF RequestTravel
  <2>2. up' \in [Players -> Seq(Reports(epoch))] /\ requests' \in 0..MaxRequests
    BY <1>0, <1>3, <1>4, <2>1
  <2> QED BY <1>0, <2>1, <2>2, HostShape DEF hostVars, coord
<1>6. CASE HostDistributes
  <2>1. /\ rawSent < MaxRaw /\ rawSent' = rawSent + 1 /\ Emit(Host, <<Msg("raw", None, None)>>)
        /\ UNCHANGED <<coord, hostVars, joins, requests, down, toGame, sidecar, game>>
    BY <1>6 DEF HostDistributes
  <2>2. up' \in [Players -> Seq(Reports(epoch))] /\ rawSent' \in 0..MaxRaw
    BY <1>0, <1>3, <1>4, <2>1
  <2> QED BY <1>0, <2>1, <2>2, HostShape DEF hostVars, coord
<1> QED BY <1>1, <1>2, <1>5, <1>6

LEMMA ShapeInit == SystemInit => SystemShape /\ Habits
<1> SUFFICES ASSUME SystemInit PROVE SystemShape /\ Habits
  OBVIOUS
<1>1. /\ session = Players /\ joins = 0 /\ requests = 0 /\ rawSent = 0 /\ committing = {}
      /\ up = [p \in Players |-> <<>>] /\ down = [c \in Clients |-> <<>>]
      /\ toGame = [p \in Players |-> <<>>] /\ sidecar = [c \in Clients |-> FreshSidecar]
      /\ game = [p \in Players |-> FreshGame] /\ hostSeq = 0 /\ epoch = 0
  BY DEF SystemInit, Init
<1>2. /\ \A S : <<>> \in Seq(S)
      /\ Len(<<>>) = 0 /\ 0 \in 0..0
  OBVIOUS
<1>3. FreshSidecar \in SidecarState(0, 0) /\ Lawful(FreshSidecar)
  BY <1>2, TravelSystemAssumption DEF FreshSidecar, SidecarState, Lawful
<1>4. FreshGame \in GameState(0, 0) /\ Sane(FreshGame)
  BY <1>2, TravelSystemAssumption DEF FreshGame, GameState, Sane, None
<1>5. SystemShape
  BY <1>1, <1>2, <1>3, <1>4, TravelSystemAssumption DEF SystemShape
<1> QED BY <1>1, <1>3, <1>4, <1>5 DEF Habits

LEMMA ShapeSteps ==
  ASSUME SystemShape, Habits, Inv, [SystemNext]_sysVars
  PROVE  SystemShape' /\ Habits' /\ Inv'
<1>0. TypeOK /\ Host \in Players
  BY TravelSystemAssumption DEF Inv
<1>1. Inv'
  BY <1>0, CoordinatorSteps, StepInv
<1> SUFFICES SystemShape' /\ Habits'
  BY <1>1
<1>2. CASE HostCoroutines
  BY <1>0, <1>2, CoroutinesKeepShape DEF HostCoroutines
<1>3. CASE HostNext
  BY <1>0, <1>3, HostKeepsShape DEF HostNext
<1>4. CASE \/ \E c \in Clients : Disconnect(c) \/ Join(c)
           \/ \E p \in Players : RequestTravel(p)
           \/ HostDistributes
  BY <1>0, <1>4, PlayersKeepShape
<1>5. CASE \E c \in Clients : Sidecar(c)
  BY <1>5, SidecarsKeepShape
<1>6. CASE \E p \in Players : Game(p) \/ SpinUp(p)
  BY <1>6, GamesKeepShape
<1>7. CASE UNCHANGED sysVars
  BY <1>7 DEF sysVars, coord, hostVars, bounds, SystemShape, Habits
<1> QED BY <1>2, <1>3, <1>4, <1>5, <1>6, <1>7 DEF SystemNext

(* The host process uses its coordinator as the coordinator is meant to be  *)
(* used, whatever games, sidecars and connections do: TravelSystem          *)
(* implements TravelCoordinator.                                            *)
THEOREM SystemCoordinates == SystemSpec => Spec
<1>1. SystemInit => Init /\ SystemShape /\ Habits /\ Inv
  BY ShapeInit, InitInv DEF SystemInit
<1>2. (SystemShape /\ Habits /\ Inv) /\ [SystemNext]_sysVars => (SystemShape /\ Habits /\ Inv)'
  BY ShapeSteps
<1>3. (SystemShape /\ Habits /\ Inv) /\ [SystemNext]_sysVars => [Next]_vars
  BY CoordinatorSteps DEF Inv
<1> QED BY <1>1, <1>2, <1>3, PTL DEF SystemSpec, Spec

-----------------------------------------------------------------------------
(* Who takes part, and how far the travel of the host's own game is         *)

Open == current.phase \in {"committed", "waiting_zone_ready"}

TakesPart ==
  /\ current.phase # "idle" => Host \in current.participants
  /\ ~Free(current) => current.participants \subseteq session

NoCommitIn(q) == \A i \in 1..Len(q) : q[i].type # "commit"
OneCommitIn(q, e) ==
  \A i \in 1..Len(q) : q[i].type = "commit" =>
     /\ q[i].epoch = e
     /\ \A j \in 1..Len(q) : q[j].type = "commit" => i = j
NoReportIn(q, e) ==
  \A i \in 1..Len(q) : ~(q[i].type \in {"zone_ready", "abort"} /\ q[i].epoch = e)

NoLoading == game[Host].loading = None
NoReport == Host \notin current.zone_ready /\ NoReportIn(up[Host], epoch)

(* Until COMMIT is out, in the host's game, and its zone reported or its     *)
(* failure announced, there is exactly one sign of where the host's part of  *)
(* the travel is: the coroutine that has yet to send COMMIT, COMMIT on the   *)
(* bridge, the zone being loaded, or the report; and the travel stays open.  *)
HostStage ==
  /\ \A task \in committing : ~task.sent =>
        task.epoch = epoch /\ Open /\ NoCommitIn(toGame[Host]) /\ NoLoading /\ NoReport
  /\ \A t1, t2 \in committing : ~t1.sent /\ ~t2.sent => t1 = t2
  /\ current.phase = "waiting_ready" => NoCommitIn(toGame[Host]) /\ NoLoading /\ NoReport
  /\ OneCommitIn(toGame[Host], epoch)
  /\ NoCommitIn(toGame[Host]) \/ (Open /\ NoLoading /\ NoReport)
  /\ NoLoading \/ (game[Host].loading = epoch /\ Open /\ NoReport)

LEMMA CallsOfCoordinator ==
  ASSUME Inv
  PROVE  /\ \A p, t, e : MarkReady(p, t, e) =>
              /\ epoch' = epoch /\ t = epoch /\ current.phase = "waiting_ready"
              /\ current'.phase \in {"waiting_ready", "committed"}
              /\ current'.participants = current.participants /\ current'.zone_ready = current.zone_ready
         /\ \A p, t, e : MarkZoneReady(p, t, e) =>
              /\ epoch' = epoch /\ t = epoch /\ Open
              /\ current'.phase \in {"waiting_zone_ready", "complete"}
              /\ current'.participants = current.participants
              /\ current'.zone_ready = current.zone_ready \cup ({p} \cap current.participants)
              /\ current'.phase = "complete" => current'.zone_ready = current.participants
         /\ \A p : RemoveParticipant(p) =>
              /\ epoch' = epoch
              /\ current.phase \in {"waiting_ready", "committed", "waiting_zone_ready"}
              /\ current'.participants = current.participants \ {p}
              /\ current'.zone_ready = current.zone_ready \ {p}
              /\ \/ current.phase = "waiting_ready" /\ current'.phase \in {"waiting_ready", "committed"}
                 \/ Open /\ current'.phase \in {"committed", "waiting_zone_ready"}
                 \/ Open /\ current'.phase = "complete" /\ current'.zone_ready = current'.participants
         /\ \A t : BeginZoneWait(t) =>
              /\ epoch' = epoch /\ t = epoch /\ Open /\ current'.phase = "waiting_zone_ready"
              /\ current'.participants = current.participants /\ current'.zone_ready = current.zone_ready
         /\ \A t : Abort(t) =>
              /\ epoch' = epoch /\ t = epoch /\ current.phase # "idle" /\ current'.phase = "aborted"
              /\ current'.participants = current.participants /\ current'.zone_ready = current.zone_ready
         /\ \A S : Propose(S) =>
              /\ epoch' = epoch + 1 /\ Free(current) /\ current'.phase = "waiting_ready"
              /\ current'.participants = S /\ current'.zone_ready = {}
         /\ Free(current) <=> current.phase \in {"idle", "complete", "aborted"}
         /\ ~Free(current) <=> current.phase \in {"waiting_ready", "committed", "waiting_zone_ready"}
<1>0. current \in TravelTxn /\ current.epoch = epoch
  BY DEF Inv, TypeOK
<1>1. \A p, t, e : MarkReady(p, t, e) =>
        /\ epoch' = epoch /\ t = epoch /\ current.phase = "waiting_ready"
        /\ current'.phase \in {"waiting_ready", "committed"}
        /\ current'.participants = current.participants /\ current'.zone_ready = current.zone_ready
  BY <1>0 DEF MarkReady, ReadyTaken, Answers, WithReady, TravelTxn
<1>2. \A p, t, e : MarkZoneReady(p, t, e) =>
        /\ epoch' = epoch /\ t = epoch /\ Open
        /\ current'.phase \in {"waiting_zone_ready", "complete"}
        /\ current'.participants = current.participants
        /\ current'.zone_ready = current.zone_ready \cup ({p} \cap current.participants)
        /\ current'.phase = "complete" => current'.zone_ready = current.participants
  BY <1>0 DEF MarkZoneReady, ZoneReadyTaken, Answers, WithZoneReady, TravelTxn, Open
<1>3. ASSUME NEW p, RemoveParticipant(p)
      PROVE  /\ epoch' = epoch
             /\ current.phase \in {"waiting_ready", "committed", "waiting_zone_ready"}
             /\ current'.participants = current.participants \ {p}
             /\ current'.zone_ready = current.zone_ready \ {p}
             /\ \/ current.phase = "waiting_ready" /\ current'.phase \in {"waiting_ready", "committed"}
                \/ Open /\ current'.phase \in {"committed", "waiting_zone_ready"}
                \/ Open /\ current'.phase = "complete" /\ current'.zone_ready = current'.participants
  <2>1. /\ current.phase \in {"waiting_ready", "committed", "waiting_zone_ready"}
        /\ epoch' = epoch /\ current' = WithoutParticipant(current, p)
    BY <1>0, <1>3 DEF RemoveParticipant, Free, Finished, TravelTxn, Phase
  <2> QED BY <1>0, <2>1 DEF WithoutParticipant, TravelTxn, Open
<1>4. \A t : BeginZoneWait(t) =>
        /\ epoch' = epoch /\ t = epoch /\ Open /\ current'.phase = "waiting_zone_ready"
        /\ current'.participants = current.participants /\ current'.zone_ready = current.zone_ready
  BY <1>0 DEF BeginZoneWait, TravelTxn, Open
<1>5. \A t : Abort(t) =>
        /\ epoch' = epoch /\ t = epoch /\ current.phase # "idle" /\ current'.phase = "aborted"
        /\ current'.participants = current.participants /\ current'.zone_ready = current.zone_ready
  BY <1>0 DEF Abort, TravelTxn
<1>6. \A S : Propose(S) =>
        /\ epoch' = epoch + 1 /\ Free(current) /\ current'.phase = "waiting_ready"
        /\ current'.participants = S /\ current'.zone_ready = {}
  BY DEF Propose, NewTxn, NoTxn
<1>7. /\ Free(current) <=> current.phase \in {"idle", "complete", "aborted"}
      /\ ~Free(current) <=> current.phase \in {"waiting_ready", "committed", "waiting_zone_ready"}
  BY <1>0 DEF Free, Finished, TravelTxn, Phase
<1> QED BY <1>1, <1>2, <1>3, <1>4, <1>5, <1>6, <1>7

LEMMA TakesPartSteps ==
  ASSUME SystemShape, Inv, TakesPart, [SystemNext]_sysVars
  PROVE  TakesPart'
<1>0. TypeOK /\ Host \in Players /\ Clients \subseteq Players /\ Host \notin Clients /\ MayLeave \subseteq Clients
  BY TravelSystemAssumption DEF Inv, Clients
<1>i. Inv'
  BY <1>0, CoordinatorSteps, StepInv
<1>f. /\ ~Free(current) <=> current.phase \in {"waiting_ready", "committed", "waiting_zone_ready"}
      /\ (~Free(current))' <=> current'.phase \in {"waiting_ready", "committed", "waiting_zone_ready"}
  <2>1. ~Free(current') <=> current'.phase \in {"waiting_ready", "committed", "waiting_zone_ready"}
    BY <1>i DEF Inv, TypeOK, Free, Finished, TravelTxn, Phase
  <2> QED BY <2>1, CallsOfCoordinator DEF Free
<1>1. ASSUME UNCHANGED vars, session \subseteq session' PROVE TakesPart'
  BY <1>1, <1>f DEF TakesPart, vars
<1>2. ASSUME NEW c \in Clients, Drop(c) PROVE TakesPart'
  <2>1. session' = session \ {c} /\ c # Host
    BY <1>0, <1>2 DEF Drop
  <2>2. CASE Free(current) /\ UNCHANGED vars
    BY <1>f, <2>2 DEF TakesPart, vars, Free
  <2>3. CASE ~Free(current) /\ RemoveParticipant(c)
    <3>1. /\ current'.participants = current.participants \ {c} /\ current.phase # "idle"
      BY <2>3, CallsOfCoordinator
    <3> QED BY <2>1, <2>3, <3>1 DEF TakesPart
  <2> QED BY <1>0, <1>2, <2>2, <2>3, DropStep
<1>3. CASE HostCoroutines
  <2>1. PICK task \in committing : SendCommit(task) \/ AwaitZones(task)
    BY <1>3 DEF HostCoroutines
  <2>2. CASE SendCommit(task)
    BY <1>1, <2>2 DEF SendCommit, coord, vars
  <2>3. CASE AwaitZones(task) /\ BeginZoneWait(task.epoch) /\ session' = session
    BY <1>f, <2>3, CallsOfCoordinator DEF TakesPart, Open
  <2>4. CASE AwaitZones(task) /\ task.by \in session \ {Host} /\ Drop(task.by)
    BY <1>2, <2>4 DEF SystemShape, Clients
  <2>5. CASE UNCHANGED vars /\ session' = session
    BY <1>1, <2>5
  <2> QED BY <2>1, <2>2, <2>3, <2>4, <2>5 DEF AwaitZones, coord, vars
<1>4. CASE \E p \in Players : StartTravel(p)
  <2>1. Propose(session) /\ session' = session /\ Host \in session
    BY <1>4 DEF StartTravel, hostVars, SystemShape
  <2> QED BY <2>1, CallsOfCoordinator DEF TakesPart
<1>5. CASE \E p \in Players : RefuseTravel(p)
  <2>1. PICK p \in Players : RefuseTravel(p)
    BY <1>5
  <2>2. CASE p = Host
    BY <1>1, <2>1, <2>2 DEF RefuseTravel, coord, vars
  <2>3. CASE p # Host
    BY <1>2, <2>1, <2>3 DEF RefuseTravel, Clients
  <2> QED BY <2>2, <2>3
<1>6. CASE \E p \in Players : TravelReady(p) \/ TravelZoneReady(p)
  <2>1. PICK p \in Players : TravelReady(p) \/ TravelZoneReady(p)
    BY <1>6
  <2> DEFINE t == Head(up[p]).txn_id
             e == Head(up[p]).epoch
  <2>2. /\ session' = session
        /\ \/ UNCHANGED vars
           \/ MarkReady(p, t, e) \/ MarkZoneReady(p, t, e)
           \/ Refused("ready", p, t, e) \/ Refused("zone_ready", p, t, e)
    BY <1>0, <2>1, HostCalls DEF TravelReady, TravelZoneReady, hostVars
  <2> HIDE DEF t, e
  <2>3. CASE MarkReady(p, t, e)
    BY <1>f, <2>2, <2>3, CallsOfCoordinator DEF TakesPart
  <2>4. CASE MarkZoneReady(p, t, e)
    BY <1>f, <2>2, <2>4, CallsOfCoordinator DEF TakesPart, Open
  <2>5. CASE UNCHANGED vars \/ Refused("ready", p, t, e) \/ Refused("zone_ready", p, t, e)
    <3>1. current' = current
      BY <2>5 DEF vars, Refused
    <3> QED BY <1>f, <2>2, <3>1 DEF TakesPart
  <2> QED BY <2>2, <2>3, <2>4, <2>5
<1>7. CASE TravelAbort
  <2>1. session' = session /\ (UNCHANGED vars \/ \E t \in Epochs : Abort(t))
    BY <1>0, <1>7, HostCalls DEF TravelAbort, hostVars
  <2>2. CASE \E t \in Epochs : Abort(t)
    BY <1>f, <2>1, <2>2, CallsOfCoordinator DEF TakesPart
  <2> QED BY <1>1, <2>1, <2>2
<1>8. CASE ViewBatchEnd \/ RawMessage
  BY <1>1, <1>8 DEF ViewBatchEnd, RawMessage, coord, vars, hostVars
<1>9. CASE \E c \in Clients : Disconnect(c) \/ Join(c)
  BY <1>1, <1>2, <1>9 DEF Disconnect, Join, coord, vars
<1>10. CASE \/ \E c \in Clients : Sidecar(c)
            \/ \E p \in Players : Game(p) \/ SpinUp(p) \/ RequestTravel(p)
            \/ HostDistributes \/ UNCHANGED sysVars
  <2>1. UNCHANGED vars /\ session' = session
    BY <1>10 DEF Sidecar, SidecarPropose, SidecarViewBatch, SidecarResume, SidecarForwards, SidecarRaw,
                 Game, GamePrepare, GameCommit, GameViewBatch, GameResume, GameAbort, GameRaw,
                 SpinUp, RequestTravel, HostDistributes, sysVars, coord, vars, hostVars
  <2> QED BY <1>1, <2>1, SMTT(40)
<1> QED BY <1>3, <1>4, <1>5, <1>6, <1>7, <1>8, <1>9, <1>10 DEF SystemNext, HostNext

LEMMA StageQueues ==
  ASSUME NEW S, NEW q \in Seq(S), NEW e
  PROVE  /\ q # <<>> =>
              /\ NoCommitIn(q) => NoCommitIn(Tail(q))
              /\ OneCommitIn(q, e) => OneCommitIn(Tail(q), e)
              /\ Head(q).type = "commit" => ~NoCommitIn(q)
              /\ OneCommitIn(q, e) /\ Head(q).type = "commit" => Head(q).epoch = e /\ NoCommitIn(Tail(q))
              /\ NoReportIn(q, e) => NoReportIn(Tail(q), e)
              /\ Head(q).type \in {"zone_ready", "abort"} /\ Head(q).epoch = e => ~NoReportIn(q, e)
         /\ \A r \in Seq(S) :
              /\ NoCommitIn(q) /\ NoCommitIn(r) => NoCommitIn(q \o r)
              /\ OneCommitIn(q, e) /\ NoCommitIn(r) => OneCommitIn(q \o r, e)
              /\ NoCommitIn(q) /\ OneCommitIn(r, e) => OneCommitIn(q \o r, e)
              /\ NoReportIn(q, e) /\ NoReportIn(r, e) => NoReportIn(q \o r, e)
<1>1. ASSUME q # <<>>
      PROVE  /\ NoCommitIn(q) => NoCommitIn(Tail(q))
             /\ OneCommitIn(q, e) => OneCommitIn(Tail(q), e)
             /\ Head(q).type = "commit" => ~NoCommitIn(q)
             /\ OneCommitIn(q, e) /\ Head(q).type = "commit" => Head(q).epoch = e /\ NoCommitIn(Tail(q))
             /\ NoReportIn(q, e) => NoReportIn(Tail(q), e)
             /\ Head(q).type \in {"zone_ready", "abort"} /\ Head(q).epoch = e => ~NoReportIn(q, e)
  <2>1. /\ Head(q) = q[1] /\ 1 \in 1..Len(q)
        /\ \A i \in 1..Len(Tail(q)) : i + 1 \in 1..Len(q) /\ Tail(q)[i] = q[i + 1]
    BY <1>1, TailOfQueue
  <2>2. \A i, j \in 1..Len(Tail(q)) : (i + 1 = j + 1 => i = j) /\ 1 # i + 1
    OBVIOUS
  <2>3. /\ NoCommitIn(q) => NoCommitIn(Tail(q))
        /\ NoReportIn(q, e) => NoReportIn(Tail(q), e)
    BY <2>1 DEF NoCommitIn, NoReportIn
  <2>4. /\ Head(q).type = "commit" => ~NoCommitIn(q)
        /\ Head(q).type \in {"zone_ready", "abort"} /\ Head(q).epoch = e => ~NoReportIn(q, e)
    BY <2>1 DEF NoCommitIn, NoReportIn
  <2>5. OneCommitIn(q, e) => OneCommitIn(Tail(q), e)
    <3> SUFFICES ASSUME OneCommitIn(q, e), NEW i \in 1..Len(Tail(q)), Tail(q)[i].type = "commit"
                 PROVE  /\ Tail(q)[i].epoch = e
                        /\ \A j \in 1..Len(Tail(q)) : Tail(q)[j].type = "commit" => i = j
      BY DEF OneCommitIn
    <3>1. /\ i + 1 \in 1..Len(q) /\ q[i + 1].type = "commit" /\ Tail(q)[i] = q[i + 1]
      BY <2>1
    <3>2. q[i + 1].epoch = e /\ \A j \in 1..Len(q) : q[j].type = "commit" => i + 1 = j
      BY <3>1 DEF OneCommitIn
    <3> QED BY <2>1, <2>2, <3>1, <3>2
  <2>6. OneCommitIn(q, e) /\ Head(q).type = "commit" => Head(q).epoch = e /\ NoCommitIn(Tail(q))
    <3> SUFFICES ASSUME OneCommitIn(q, e), Head(q).type = "commit"
                 PROVE  Head(q).epoch = e /\ NoCommitIn(Tail(q))
      OBVIOUS
    <3>1. q[1].epoch = e /\ \A j \in 1..Len(q) : q[j].type = "commit" => 1 = j
      BY <2>1 DEF OneCommitIn
    <3> QED BY <2>1, <2>2, <3>1 DEF NoCommitIn
  <2> QED BY <2>3, <2>4, <2>5, <2>6
<1>2. ASSUME NEW r \in Seq(S)
      PROVE  /\ NoCommitIn(q) /\ NoCommitIn(r) => NoCommitIn(q \o r)
             /\ OneCommitIn(q, e) /\ NoCommitIn(r) => OneCommitIn(q \o r, e)
             /\ NoCommitIn(q) /\ OneCommitIn(r, e) => OneCommitIn(q \o r, e)
             /\ NoReportIn(q, e) /\ NoReportIn(r, e) => NoReportIn(q \o r, e)
  <2>1. /\ \A k \in 1..Len(q \o r) : \/ k \in 1..Len(q) /\ (q \o r)[k] = q[k]
                                     \/ k - Len(q) \in 1..Len(r) /\ (q \o r)[k] = r[k - Len(q)]
        /\ Len(q) \in Nat /\ Len(q \o r) \in Nat
    BY PartsOfQueue
  <2>2. /\ NoCommitIn(q) /\ NoCommitIn(r) => NoCommitIn(q \o r)
        /\ NoReportIn(q, e) /\ NoReportIn(r, e) => NoReportIn(q \o r, e)
    BY <2>1 DEF NoCommitIn, NoReportIn
  <2>3. ASSUME OneCommitIn(q, e), NoCommitIn(r) PROVE OneCommitIn(q \o r, e)
    <3>1. \A k \in 1..Len(q \o r) : (q \o r)[k].type = "commit" => k \in 1..Len(q) /\ (q \o r)[k] = q[k]
      BY <2>1, <2>3 DEF NoCommitIn
    <3> QED BY <2>3, <3>1 DEF OneCommitIn
  <2>4. ASSUME NoCommitIn(q), OneCommitIn(r, e) PROVE OneCommitIn(q \o r, e)
    <3>1. \A k \in 1..Len(q \o r) : (q \o r)[k].type = "commit" =>
             k - Len(q) \in 1..Len(r) /\ (q \o r)[k] = r[k - Len(q)]
      BY <2>1, <2>4 DEF NoCommitIn
    <3>2. \A i, j \in 1..Len(q \o r) : i - Len(q) = j - Len(q) => i = j
      BY <2>1
    <3> QED BY <2>4, <3>1, <3>2 DEF OneCommitIn
  <2> QED BY <2>2, <2>3, <2>4
<1> QED BY <1>1, <1>2

(* Where nothing is committed, loaded, sent or reported anew, all stays as it is. *)
LEMMA StageKept ==
  ASSUME HostStage, epoch' = epoch,
         \A task \in committing' : ~task.sent => task \in committing,
         Open /\ NoReport => Open',
         NoReport => NoReport',
         current'.phase = "waiting_ready" => current.phase = "waiting_ready",
         NoCommitIn(toGame[Host]) => NoCommitIn(toGame'[Host]),
         OneCommitIn(toGame[Host], epoch) => OneCommitIn(toGame'[Host], epoch),
         game'[Host].loading \in {game[Host].loading, None}
  PROVE  HostStage'
<1>1. NoLoading => NoLoading'
  BY DEF NoLoading
<1>2. ~NoLoading' => game'[Host].loading = game[Host].loading /\ ~NoLoading
  BY DEF NoLoading
<1>3. \A task \in committing' : ~task.sent =>
        task.epoch = epoch' /\ Open' /\ NoCommitIn(toGame'[Host]) /\ NoLoading' /\ NoReport'
  BY <1>1 DEF HostStage
<1>4. \A t1, t2 \in committing' : ~t1.sent /\ ~t2.sent => t1 = t2
  BY DEF HostStage
<1>5. current'.phase = "waiting_ready" => NoCommitIn(toGame'[Host]) /\ NoLoading' /\ NoReport'
  BY <1>1 DEF HostStage
<1>6. /\ OneCommitIn(toGame'[Host], epoch')
      /\ NoCommitIn(toGame'[Host]) \/ (Open' /\ NoLoading' /\ NoReport')
      /\ NoLoading' \/ (game'[Host].loading = epoch' /\ Open' /\ NoReport')
  BY <1>1, <1>2 DEF HostStage
<1> QED BY <1>3, <1>4, <1>5, <1>6 DEF HostStage

LEMMA NoReportKept ==
  ASSUME epoch' = epoch, Host \notin current.zone_ready => Host \notin current'.zone_ready,
         NoReportIn(up[Host], epoch) => NoReportIn(up'[Host], epoch)
  PROVE  NoReport => NoReport'
BY DEF NoReport

LEMMA GamesKeepStage ==
  ASSUME SystemShape, HostStage, NEW p \in Players, Game(p) \/ SpinUp(p)
  PROVE  HostStage'
<1>0. /\ Host \in Players /\ toGame \in [Players -> Seq(Orders(hostSeq, epoch))]
      /\ up \in [Players -> Seq(Reports(epoch))] /\ game \in [Players -> GameState(hostSeq, epoch)]
      /\ toGame[Host] \in Seq(Orders(hostSeq, epoch)) /\ up[Host] \in Seq(Reports(epoch))
  BY TravelSystemAssumption DEF SystemShape
<1>1. ASSUME UNCHANGED elsewhere, up'[Host] = up[Host], toGame'[Host] = toGame[Host], game'[Host] = game[Host]
      PROVE  HostStage'
  <2>1. epoch' = epoch /\ current' = current /\ committing' = committing
    BY <1>1 DEF elsewhere
  <2>2. (NoReport => NoReport') /\ (Open => Open')
    BY <1>1, <2>1, NoReportKept DEF Open
  <2> QED BY <1>1, <2>1, <2>2, StageKept
<1>2. CASE p # Host
  <2>1. PICK g, ms : GameStep(p, g, ms) /\ (toGame' = toGame \/ toGame' = [toGame EXCEPT ![p] = Tail(@)])
    BY GameSteps, SpinUpSteps DEF GameTakes
  <2> QED BY <1>0, <1>1, <1>2, <2>1 DEF GameStep
<1>3. CASE p = Host /\ Game(p)
  <2> DEFINE b == game[Host]
  <2>1. PICK m, g, ms : /\ GameTakes(Host, m) /\ GameStep(Host, g, ms) /\ GameDoes(Host, b, m, g, ms)
    BY <1>3, GameSteps
  <2>2. /\ toGame[Host] # <<>> /\ m = Head(toGame[Host]) /\ toGame'[Host] = Tail(toGame[Host])
        /\ game'[Host] = g /\ up'[Host] = up[Host] \o ms
        /\ epoch' = epoch /\ current' = current /\ committing' = committing
    BY <1>0, <2>1 DEF GameTakes, GameStep, elsewhere
  <2>3. /\ NoCommitIn(toGame[Host]) => NoCommitIn(toGame'[Host])
        /\ OneCommitIn(toGame[Host], epoch) => OneCommitIn(toGame'[Host], epoch)
    BY <1>0, <2>2, StageQueues
  <2>4. up[Host] \o <<>> = up[Host]
    BY <1>0, ConcatEmptySeq
  <2>5. CASE GameCommits(Host, b, m, g, ms)
    <3>1. /\ ~NoCommitIn(toGame[Host]) /\ m.epoch = epoch /\ NoCommitIn(toGame'[Host])
      BY <1>0, <2>2, <2>5, StageQueues DEF HostStage, GameCommits
    <3>2. Open /\ NoLoading /\ NoReport /\ \A task \in committing : task.sent
      BY <3>1 DEF HostStage
    <3>3. /\ Open' /\ ~(current'.phase = "waiting_ready") /\ \A task \in committing' : task.sent
          /\ OneCommitIn(toGame'[Host], epoch')
      BY <2>2, <2>3, <3>2 DEF Open, HostStage
    <3>4. CASE g.loading = m.epoch /\ ms = <<>>
      <4>1. game'[Host].loading = epoch' /\ NoReport'
        BY <2>2, <2>4, <3>1, <3>2, <3>4 DEF NoReport
      <4> QED BY <3>1, <3>3, <4>1 DEF HostStage
    <3>5. CASE g.loading = b.loading
      <4>1. NoLoading'
        BY <2>2, <3>2, <3>5 DEF NoLoading
      <4> QED BY <3>1, <3>3, <4>1 DEF HostStage
    <3> QED BY <2>5, <3>4, <3>5 DEF GameCommits
  <2>6. CASE ~GameCommits(Host, b, m, g, ms)
    <3>1. /\ g.loading = b.loading
          /\ ms = <<>> \/ (m.type = "prepare" /\ ms = <<Msg("ready", m.txn_id, m.epoch)>>)
      BY <2>1, <2>6 DEF GameDoes, GamePrepares, GameHydrates, GameAborts, GameShows
    <3>2. NoReportIn(up[Host], epoch) => NoReportIn(up'[Host], epoch)
      <4>1. CASE ms = <<>>
        BY <2>2, <2>4, <4>1
      <4>2. CASE m.type = "prepare" /\ ms = <<Msg("ready", m.txn_id, m.epoch)>>
        <5> DEFINE S == Reports(epoch) \cup {Msg("ready", m.txn_id, m.epoch)}
        <5>1. up[Host] \in Seq(S) /\ ms \in Seq(S)
          BY <1>0, <4>2, SeqMonotonic
        <5>2. NoReportIn(ms, epoch)
          BY <4>2 DEF NoReportIn, Msg
        <5> QED BY <2>2, <5>1, <5>2, StageQueues
      <4> QED BY <3>1, <4>1, <4>2
    <3>3. (NoReport => NoReport') /\ (Open => Open')
      BY <2>2, <3>2, NoReportKept DEF Open
    <3> QED BY <2>2, <2>3, <3>1, <3>3, StageKept
  <2> QED BY <2>5, <2>6
<1>4. CASE p = Host /\ SpinUp(p)
  <2> DEFINE b == game[Host]
  <2>1. PICK g, ms : GameStep(Host, g, ms) /\ GameArrives(Host, b, g, ms) /\ UNCHANGED toGame
    BY <1>4, SpinUpSteps
  <2>2. /\ toGame'[Host] = toGame[Host] /\ game'[Host] = g /\ g.loading = None /\ b.loading # None
        /\ epoch' = epoch /\ current' = current /\ committing' = committing
    BY <1>0, <2>1 DEF GameStep, GameArrives, elsewhere
  <2>3. Open /\ NoCommitIn(toGame[Host]) /\ \A task \in committing : task.sent
    BY <2>2 DEF HostStage, NoLoading
  <2>4. /\ ~(current'.phase = "waiting_ready") /\ NoLoading' /\ NoCommitIn(toGame'[Host])
        /\ OneCommitIn(toGame'[Host], epoch') /\ \A task \in committing' : task.sent
    BY <2>2, <2>3 DEF Open, NoLoading, HostStage
  <2> QED BY <2>4 DEF HostStage
<1> QED BY <1>2, <1>3, <1>4

LEMMA SidecarsKeepStage ==
  ASSUME SystemShape, HostStage, NEW c \in Clients, Sidecar(c)
  PROVE  HostStage'
<1>1. PICK m, s, out : SidecarStep(c, m, s, out)
  BY SidecarSteps
<1>2. /\ c # Host /\ Host \in Players /\ toGame \in [Players -> Seq(Orders(hostSeq, epoch))]
  BY TravelSystemAssumption DEF Clients, SystemShape
<1>3. /\ epoch' = epoch /\ current' = current /\ committing' = committing /\ up' = up /\ game' = game
      /\ toGame'[Host] = toGame[Host]
  BY <1>1, <1>2 DEF SidecarStep, elsewhere
<1>4. (NoReport => NoReport') /\ (Open => Open')
  BY <1>3, NoReportKept DEF Open
<1> QED BY <1>3, <1>4, StageKept

-----------------------------------------------------------------------------
(* What a step of the host process says, x to the clients and ms to the     *)
(* host's own game.                                                         *)

HostSays(x, ms) ==
  \/ /\ x = Msg("propose", epoch', epoch') /\ ms = <<Msg("prepare", epoch', epoch')>>
     /\ Propose(session) /\ epoch' = epoch + 1 /\ hostSeq' = hostSeq
  \/ /\ x.type \in {"begin", "abort"} /\ ms = <<>> /\ epoch' = epoch /\ hostSeq' = hostSeq
  \/ /\ x.type = "end" /\ ms = <<x>> /\ epoch' = epoch /\ hostSeq' = hostSeq
  \/ /\ x.type = "commit" /\ ms = <<Msg("begin", x.epoch, x.epoch), x>>
     /\ epoch' = epoch /\ hostSeq' = hostSeq
     /\ \E task \in committing : ~task.sent /\ task.epoch = x.epoch
  \/ /\ x = Msg("resume", epoch, epoch) /\ ms = <<x>> /\ current'.phase = "complete"
     /\ epoch' = epoch /\ hostSeq' = hostSeq
  \/ /\ x = Raw(hostSeq + 1, RawEpoch) /\ ms = <<>> /\ hostSeq' = hostSeq + 1
     /\ epoch' = epoch /\ current' = current

HostTells(x, ms) ==
  /\ x \in Orders(hostSeq', epoch') /\ ms \in Seq(Orders(hostSeq', epoch'))
  /\ HostSays(x, ms) /\ Broadcast(<<x>>) /\ ToHostGame(ms) /\ session' = session

HostIsSilent ==
  /\ epoch' = epoch /\ hostSeq' = hostSeq /\ toGame' = toGame
  /\ \A c \in Clients : down'[c] = down[c] \/ (down'[c] = <<>> /\ c \notin session')

LEMMA HostSends ==
  ASSUME SystemShape, Habits, Inv,
         HostCoroutines \/ HostNext \/ \E c \in Clients : Disconnect(c)
  PROVE  UNCHANGED <<sidecar, game>> /\ (HostIsSilent \/ \E x, ms : HostTells(x, ms))
<1>0. /\ TypeOK /\ epoch \in Nat /\ hostSeq \in Nat /\ Host \in Players /\ Host \in session
      /\ down \in [Clients -> Seq(Orders(hostSeq, epoch))]
      /\ toGame \in [Players -> Seq(Orders(hostSeq, epoch))]
      /\ session \in SUBSET Players
      /\ committing \subseteq [by : Players, epoch : 1..epoch, sent : BOOLEAN]
  BY TravelSystemAssumption DEF SystemShape, Inv
<1>1. toGame' = toGame => ToHostGame(<<>>)
  <2>1. toGame[Host] \o <<>> = toGame[Host]
    <3>1. toGame[Host] \in Seq(Orders(hostSeq, epoch))
      BY <1>0
    <3> QED BY <3>1, ConcatEmptySeq
  <2> QED BY <1>0, <2>1 DEF ToHostGame
<1>2. /\ \A t \in ControlType, f \in 1..epoch' :
            epoch' \in Nat /\ hostSeq' \in Nat =>
              /\ Msg(t, f, f) \in Orders(hostSeq', epoch')
              /\ Msg(t, f, f).type = t /\ Msg(t, f, f).epoch = f
      /\ \A S : <<>> \in Seq(S) /\ (\A x \in S : <<x>> \in Seq(S)) /\ (\A x, y \in S : <<x, y>> \in Seq(S))
  BY NewOrders, ShortTyped
<1>3. {"propose", "prepare", "begin", "commit", "end", "resume", "abort"} \subseteq ControlType
  BY DEF ControlType
<1>4. ASSUME NEW c \in Clients, Drop(c), hostSeq' = hostSeq, toGame' = toGame
      PROVE  HostIsSilent
  <2>1. epoch' = epoch /\ session' = session \ {c} /\ down' = [down EXCEPT ![c] = <<>>]
    BY <1>4 DEF Drop, RemoveParticipant, coord
  <2> QED BY <1>0, <1>4, <2>1 DEF HostIsSilent
<1>5. ASSUME NEW p \in Players, StartTravel(p)
      PROVE  UNCHANGED <<sidecar, game>> /\ (\E x, ms : HostTells(x, ms))
  <2> DEFINE x == Msg("propose", epoch', epoch')
             ms == <<Msg("prepare", epoch', epoch')>>
  <2>1. /\ Propose(session) /\ epoch' = epoch + 1 /\ hostSeq' = hostSeq /\ session' = session
        /\ ToHostGame(ms) /\ Broadcast(<<[Msg("prepare", epoch', epoch') EXCEPT !.type = "propose"]>>)
        /\ UNCHANGED <<sidecar, game>>
    BY <1>5 DEF StartTravel, Propose, hostVars
  <2>2. [Msg("prepare", epoch', epoch') EXCEPT !.type = "propose"] = x
    BY DEF Msg
  <2>3. epoch' \in Nat /\ epoch' \in 1..epoch' /\ hostSeq' \in Nat
    BY <1>0, <2>1
  <2>4. x \in Orders(hostSeq', epoch') /\ ms \in Seq(Orders(hostSeq', epoch'))
    BY <1>2, <1>3, <2>3
  <2>5. HostTells(x, ms)
    BY <2>1, <2>2, <2>4 DEF HostTells, HostSays
  <2> QED BY <2>1, <2>5
<1>6. ASSUME NEW p \in Players, RefuseTravel(p)
      PROVE  UNCHANGED <<sidecar, game>> /\ HostIsSilent
  <2>1. CASE p = Host
    BY <1>6, <2>1 DEF RefuseTravel, HostIsSilent, coord
  <2>2. CASE p # Host
    <3>1. p \in Clients
      BY <2>2 DEF Clients
    <3> QED BY <1>4, <1>6, <2>2, <3>1 DEF RefuseTravel
  <2> QED BY <2>1, <2>2
<1>7. ASSUME NEW p \in Players, TravelReady(p)
      PROVE  UNCHANGED <<sidecar, game>> /\ (HostIsSilent \/ \E x, ms : HostTells(x, ms))
  <2> DEFINE m == Head(up[p])
             x == Msg("begin", m.epoch, m.epoch)
  <2>1. up[p] # <<>> /\ m.type = "ready"
    BY <1>7 DEF TravelReady, Reads
  <2>2. m.txn_id = m.epoch /\ m.epoch \in 1..epoch
    BY <1>0, <2>1, NextReport
  <2> HIDE DEF m
  <2>3. /\ epoch' = epoch /\ hostSeq' = hostSeq /\ session' = session /\ toGame' = toGame
        /\ UNCHANGED <<sidecar, game>>
        /\ UNCHANGED down \/ Broadcast(<<x>>)
    BY <1>7, <2>2 DEF TravelReady, MarkReady, Refused, coord, m
  <2>4. x \in Orders(hostSeq', epoch') /\ <<>> \in Seq(Orders(hostSeq', epoch')) /\ x.type = "begin"
    BY <1>0, <1>2, <1>3, <2>2, <2>3
  <2>5. UNCHANGED down => HostIsSilent
    BY <2>3 DEF HostIsSilent
  <2>6. Broadcast(<<x>>) => HostTells(x, <<>>)
    BY <1>1, <2>3, <2>4 DEF HostTells, HostSays
  <2> QED BY <2>3, <2>5, <2>6
<1>8. ASSUME NEW p \in Players, TravelZoneReady(p)
      PROVE  UNCHANGED <<sidecar, game>> /\ (HostIsSilent \/ \E x, ms : HostTells(x, ms))
  <2> DEFINE m == Head(up[p])
             x == Msg("resume", epoch, epoch)
  <2>1. up[p] # <<>> /\ m.type = "zone_ready"
    BY <1>8 DEF TravelZoneReady, Reads
  <2>2. m.txn_id # None => m.txn_id = m.epoch /\ m.epoch \in 1..epoch
    BY <1>0, <2>1, NextReport
  <2> HIDE DEF m
  <2>3. /\ epoch' = epoch /\ hostSeq' = hostSeq /\ session' = session
        /\ UNCHANGED <<sidecar, game>>
        /\ \/ UNCHANGED <<down, toGame>>
           \/ /\ m.txn_id # None /\ MarkZoneReady(p, m.txn_id, m.epoch) /\ current'.phase = "complete"
              /\ ToHostGame(<<Msg("resume", m.txn_id, m.epoch)>>)
              /\ Broadcast(<<Msg("resume", m.txn_id, m.epoch)>>)
    BY <1>8 DEF TravelZoneReady, MarkZoneReady, Refused, coord, hostVars, m
  <2>4. CASE UNCHANGED <<down, toGame>>
    BY <2>3, <2>4 DEF HostIsSilent
  <2>5. CASE /\ m.txn_id # None /\ MarkZoneReady(p, m.txn_id, m.epoch) /\ current'.phase = "complete"
             /\ ToHostGame(<<Msg("resume", m.txn_id, m.epoch)>>)
             /\ Broadcast(<<Msg("resume", m.txn_id, m.epoch)>>)
    <3>1. m.txn_id = epoch /\ m.epoch = epoch
      BY <2>2, <2>5, CallsOfCoordinator
    <3>2. x \in Orders(hostSeq', epoch') /\ <<x>> \in Seq(Orders(hostSeq', epoch'))
      BY <1>0, <1>2, <1>3, <2>2, <2>3, <2>5, <3>1
    <3>3. HostTells(x, <<x>>)
      BY <2>3, <2>5, <3>1, <3>2 DEF HostTells, HostSays
    <3> QED BY <2>3, <3>3
  <2> QED BY <2>3, <2>4, <2>5
<1>9. ASSUME ViewBatchEnd
      PROVE  UNCHANGED <<sidecar, game>> /\ (HostIsSilent \/ \E x, ms : HostTells(x, ms))
  <2> DEFINE f == Head(up[Host]).epoch
             x == Msg("end", f, f)
  <2>1. up[Host] # <<>> /\ Head(up[Host]).type = "end"
    BY <1>9 DEF ViewBatchEnd, Reads
  <2>2. f \in 1..epoch
    BY <1>0, <2>1, NextReport
  <2> HIDE DEF f
  <2>3. /\ epoch' = epoch /\ hostSeq' = hostSeq /\ session' = session
        /\ UNCHANGED <<sidecar, game>>
        /\ \/ UNCHANGED <<down, toGame>>
           \/ ToHostGame(<<x>>) /\ Broadcast(<<x>>)
    BY <1>9 DEF ViewBatchEnd, coord, hostVars, f
  <2>4. x \in Orders(hostSeq', epoch') /\ <<x>> \in Seq(Orders(hostSeq', epoch')) /\ x.type = "end"
    BY <1>0, <1>2, <1>3, <2>2, <2>3
  <2>5. CASE UNCHANGED <<down, toGame>>
    BY <2>3, <2>5 DEF HostIsSilent
  <2>6. CASE ToHostGame(<<x>>) /\ Broadcast(<<x>>)
    <3>1. HostTells(x, <<x>>)
      BY <2>3, <2>4, <2>6 DEF HostTells, HostSays
    <3> QED BY <2>3, <3>1
  <2> QED BY <2>3, <2>5, <2>6
<1>10. ASSUME TravelAbort
       PROVE  UNCHANGED <<sidecar, game>> /\ (HostIsSilent \/ \E x, ms : HostTells(x, ms))
  <2> DEFINE f == Head(up[Host]).epoch
             x == Msg("abort", f, f)
  <2>1. up[Host] # <<>> /\ Head(up[Host]).type = "abort"
    BY <1>10 DEF TravelAbort, Reads
  <2>2. f \in 1..epoch
    BY <1>0, <2>1, NextReport
  <2> HIDE DEF f
  <2>3. /\ epoch' = epoch /\ hostSeq' = hostSeq /\ session' = session /\ toGame' = toGame
        /\ UNCHANGED <<sidecar, game>>
        /\ UNCHANGED down \/ Broadcast(<<x>>)
    BY <1>10 DEF TravelAbort, Abort, coord, hostVars, f
  <2>4. x \in Orders(hostSeq', epoch') /\ <<>> \in Seq(Orders(hostSeq', epoch')) /\ x.type = "abort"
    BY <1>0, <1>2, <1>3, <2>2, <2>3
  <2>5. UNCHANGED down => HostIsSilent
    BY <2>3 DEF HostIsSilent
  <2>6. Broadcast(<<x>>) => HostTells(x, <<>>)
    BY <1>1, <2>3, <2>4 DEF HostTells, HostSays
  <2> QED BY <2>3, <2>5, <2>6
<1>11. ASSUME RawMessage
       PROVE  UNCHANGED <<sidecar, game>> /\ (\E x, ms : HostTells(x, ms))
  <2> DEFINE x == Raw(hostSeq + 1, RawEpoch)
  <2>1. /\ hostSeq' = hostSeq + 1 /\ Broadcast(<<x>>) /\ current' = current /\ epoch' = epoch
        /\ session' = session /\ toGame' = toGame /\ UNCHANGED <<sidecar, game>>
    BY <1>11 DEF RawMessage, coord
  <2>2. RawEpoch \in 0..epoch
    BY <1>0 DEF RawEpoch, TypeOK, None
  <2>3. x \in Orders(hostSeq', epoch')
    <3>1. /\ hostSeq' \in Nat /\ epoch' \in Nat /\ hostSeq + 1 \in 1..hostSeq' /\ RawEpoch \in 0..epoch'
      BY <1>0, <2>1, <2>2
    <3> QED BY <3>1, NewOrders
  <2>4. HostTells(x, <<>>)
    BY <1>1, <1>2, <2>1, <2>3 DEF HostTells, HostSays
  <2> QED BY <2>1, <2>4
<1>12. ASSUME NEW task \in committing, SendCommit(task)
       PROVE  UNCHANGED <<sidecar, game>> /\ (\E x, ms : HostTells(x, ms))
  <2> DEFINE f == task.epoch
             x == Msg("commit", f, f)
             ms == <<Msg("begin", f, f), x>>
  <2>1. /\ ~task.sent /\ ToHostGame(ms) /\ Broadcast(<<x>>) /\ epoch' = epoch /\ hostSeq' = hostSeq
        /\ session' = session /\ UNCHANGED <<sidecar, game>>
    BY <1>12 DEF SendCommit, coord
  <2>2. f \in 1..epoch
    BY <1>0
  <2>3. /\ x \in Orders(hostSeq', epoch') /\ x.type = "commit" /\ x.epoch = f
        /\ Msg("begin", f, f) \in Orders(hostSeq', epoch')
    BY <1>0, <1>2, <1>3, <2>1, <2>2
  <2>4. ms \in Seq(Orders(hostSeq', epoch'))
    BY <1>2, <2>3
  <2>5. HostTells(x, ms)
    BY <2>1, <2>3, <2>4 DEF HostTells, HostSays
  <2> QED BY <2>1, <2>5
<1>13. ASSUME NEW task \in committing, AwaitZones(task)
       PROVE  UNCHANGED <<sidecar, game>> /\ HostIsSilent
  <2>1. /\ UNCHANGED <<hostSeq, toGame, sidecar, game>>
        /\ \/ epoch' = epoch /\ UNCHANGED <<session, down>>
           \/ task.by \in session \ {Host} /\ Drop(task.by)
    BY <1>13 DEF AwaitZones, BeginZoneWait, coord
  <2>2. task.by \in session \ {Host} => task.by \in Clients
    BY <1>0 DEF Clients
  <2>3. epoch' = epoch /\ UNCHANGED <<session, down>> => HostIsSilent
    BY <2>1 DEF HostIsSilent
  <2> QED BY <1>4, <2>1, <2>2, <2>3
<1>14. ASSUME NEW c \in Clients, Disconnect(c)
       PROVE  UNCHANGED <<sidecar, game>> /\ HostIsSilent
  BY <1>4, <1>14 DEF Disconnect
<1>15. CASE HostCoroutines
  BY <1>12, <1>13, <1>15 DEF HostCoroutines
<1>16. CASE HostNext
  BY <1>5, <1>6, <1>7, <1>8, <1>9, <1>10, <1>11, <1>16 DEF HostNext
<1>17. CASE \E c \in Clients : Disconnect(c)
  BY <1>14, <1>17
<1> QED BY <1>15, <1>16, <1>17

-----------------------------------------------------------------------------
(* The order of view messages *)

Number(m) == IF m.type = "raw" THEN m.seq ELSE 0
Numbers == [m \in AnyOrder |-> Number(m)]

LEMMA NumbersOfQueue ==
  ASSUME NEW n \in Nat, NEW e \in Nat, NEW q \in Seq(Orders(n, e)), NEW r \in Seq(Orders(n, e))
  PROVE  /\ RawSeqs(q) \in Seq(Nat) /\ RawSeqs(q) \in Seq(0..n) /\ RawSeqs(q \o r) = RawSeqs(q) \o RawSeqs(r)
         /\ q # <<>> => /\ RawSeqs(q) # <<>> /\ RawSeqs(Tail(q)) = Tail(RawSeqs(q))
                        /\ Head(RawSeqs(q)) = Number(Head(q))
         /\ RawSeqs(<<>>) = <<>>
         /\ \A m \in Orders(n, e) : RawSeqs(<<m>>) = <<Number(m)>> /\ Number(m) \in 0..n
<1>0. Orders(n, e) \subseteq AnyOrder
  BY OrderKinds
<1>1. Numbers \in [AnyOrder -> Nat] /\ \A m \in AnyOrder : Numbers[m] = Number(m)
  <2>1. \A m \in AnyOrder : Number(m) \in Nat
    BY DEF AnyOrder, Number, ControlType
  <2> QED BY <2>1 DEF Numbers
<1>2. q \in Seq(AnyOrder) /\ r \in Seq(AnyOrder) /\ q \o r \in Seq(AnyOrder)
  BY <1>0, SeqMonotonic, PartsOfQueue
<1>3. ASSUME NEW s \in Seq(AnyOrder) PROVE RawSeqs(s) = Along(Numbers, s)
  <2>1. \A i \in 1..Len(s) : (IF s[i].type = "raw" THEN s[i].seq ELSE 0) = Numbers[s[i]]
    <3>1. \A i \in 1..Len(s) : s[i] \in AnyOrder
      BY ElementOfSeq
    <3> QED BY <1>1, <3>1 DEF Number
  <2> QED BY <2>1 DEF RawSeqs, Along
<1>4. \A m \in Orders(n, e) : Number(m) \in 0..n
  <2>1. 1..n \subseteq 0..n /\ 0 \in 0..n
    OBVIOUS
  <2> QED BY <2>1, OrderKinds DEF Number
<1>5. RawSeqs(q) \in Seq(0..n)
  <2>1. \A i \in 1..Len(q) : (IF q[i].type = "raw" THEN q[i].seq ELSE 0) \in 0..n
    <3>1. \A i \in 1..Len(q) : q[i] \in Orders(n, e)
      BY ElementOfSeq
    <3> QED BY <1>4, <3>1 DEF Number
  <2>2. Len(q) \in Nat
    BY LenProperties
  <2> QED BY <2>1, <2>2 DEF RawSeqs
<1>6. /\ RawSeqs(q) \in Seq(Nat) /\ RawSeqs(q \o r) = RawSeqs(q) \o RawSeqs(r)
  <2>1. /\ RawSeqs(q) = Along(Numbers, q) /\ RawSeqs(r) = Along(Numbers, r)
        /\ RawSeqs(q \o r) = Along(Numbers, q \o r)
    BY <1>2, <1>3
  <2>2. Along(Numbers, q) \in Seq(Nat)
    BY <1>1, <1>2, AlongParts
  <2>3. Along(Numbers, q \o r) = Along(Numbers, q) \o Along(Numbers, r)
    <3>1. \A x, y \in Seq(AnyOrder) : Along(Numbers, x \o y) = Along(Numbers, x) \o Along(Numbers, y)
      BY <1>1, AlongConcat
    <3> QED BY <1>2, <3>1
  <2> QED BY <2>1, <2>2, <2>3
<1>7. ASSUME q # <<>>
      PROVE  /\ RawSeqs(q) # <<>> /\ RawSeqs(Tail(q)) = Tail(RawSeqs(q))
             /\ Head(RawSeqs(q)) = Number(Head(q))
  <2>1. Tail(q) \in Seq(AnyOrder) /\ Head(q) \in AnyOrder
    BY <1>2, <1>7, TailOfQueue
  <2>2. RawSeqs(q) = Along(Numbers, q) /\ RawSeqs(Tail(q)) = Along(Numbers, Tail(q))
    BY <1>2, <1>3, <2>1
  <2>3. /\ Along(Numbers, q) # <<>> /\ Along(Numbers, Tail(q)) = Tail(Along(Numbers, q))
        /\ Head(Along(Numbers, q)) = Numbers[Head(q)]
    BY <1>1, <1>2, <1>7, AlongParts
  <2> QED BY <1>1, <2>1, <2>2, <2>3
<1>8. RawSeqs(<<>>) = <<>>
  BY DEF RawSeqs
<1>9. \A m \in Orders(n, e) : RawSeqs(<<m>>) = <<Number(m)>>
  BY DEF RawSeqs, Number
<1> QED BY <1>4, <1>5, <1>6, <1>7, <1>8, <1>9

Less == {w \in Nat \X Nat : w[1] < w[2]}

InOrder(g, ms, held, coming) ==
  Pipe(Less, g.shown, g.buffer, RawSeqs(ms), RawSeqs(held), RawSeqs(coming))

(* Everything a client's game has shown comes before all it holds back,     *)
(* that before all that is on the bridge, and so on up to the host.         *)
Queues == \A c \in Clients : InOrder(game[c], toGame[c], sidecar[c].buffer, down[c])

LEMMA QueuesOfClient ==
  ASSUME SystemShape, NEW c \in Clients
  PROVE  /\ hostSeq \in Nat /\ epoch \in Nat /\ c \in Players /\ c # Host
         /\ toGame[c] \in Seq(Orders(hostSeq, epoch)) /\ down[c] \in Seq(Orders(hostSeq, epoch))
         /\ sidecar[c].buffer \in Seq(Orders(hostSeq, epoch))
         /\ sidecar[c] \in SidecarState(hostSeq, epoch) /\ game[c] \in GameState(hostSeq, epoch)
         /\ game[c].shown \in Seq(Nat) /\ game[c].buffer \in Seq(Nat)
         /\ game[c].shown \in Seq(0..hostSeq) /\ game[c].buffer \in Seq(0..hostSeq)
         /\ RawSeqs(toGame[c]) \in Seq(Nat) /\ RawSeqs(down[c]) \in Seq(Nat)
         /\ RawSeqs(sidecar[c].buffer) \in Seq(Nat)
<1>1. /\ hostSeq \in Nat /\ epoch \in Nat /\ c \in Players /\ c # Host
      /\ toGame[c] \in Seq(Orders(hostSeq, epoch)) /\ down[c] \in Seq(Orders(hostSeq, epoch))
      /\ sidecar[c] \in SidecarState(hostSeq, epoch) /\ game[c] \in GameState(hostSeq, epoch)
  BY DEF SystemShape, Clients
<1>2. sidecar[c].buffer \in Seq(Orders(hostSeq, epoch))
  <2>1. sidecar[c].buffer \in Seq(Packets(hostSeq, epoch)) /\ Packets(hostSeq, epoch) \subseteq Orders(hostSeq, epoch)
    BY <1>1 DEF SidecarState, Orders
  <2> QED BY <2>1, SeqMonotonic
<1>3. /\ game[c].shown \in Seq(Nat) /\ game[c].buffer \in Seq(Nat)
      /\ game[c].shown \in Seq(0..hostSeq) /\ game[c].buffer \in Seq(0..hostSeq)
  <2>1. game[c].shown \in Seq(1..hostSeq) /\ game[c].buffer \in Seq(1..hostSeq)
    BY <1>1 DEF GameState
  <2>2. 1..hostSeq \subseteq 0..hostSeq /\ 1..hostSeq \subseteq Nat
    BY <1>1
  <2> QED BY <2>1, <2>2, SeqMonotonic
<1> QED BY <1>1, <1>2, <1>3, NumbersOfQueue

LEMMA SidecarsKeepOrder ==
  ASSUME SystemShape, Habits, NEW c \in Clients, Sidecar(c),
         InOrder(game[c], toGame[c], sidecar[c].buffer, down[c])
  PROVE  InOrder(game'[c], toGame'[c], sidecar'[c].buffer, down'[c])
<1> DEFINE n == hostSeq
           e == epoch
           b == sidecar[c]
           A == game[c].shown
           B == game[c].buffer
           C == RawSeqs(toGame[c])
           D == RawSeqs(b.buffer)
           E == RawSeqs(down[c])
<1>0. /\ n \in Nat /\ e \in Nat /\ c \in Players
      /\ toGame[c] \in Seq(Orders(n, e)) /\ down[c] \in Seq(Orders(n, e)) /\ b.buffer \in Seq(Orders(n, e))
      /\ A \in Seq(Nat) /\ B \in Seq(Nat) /\ C \in Seq(Nat) /\ D \in Seq(Nat) /\ E \in Seq(Nat)
      /\ b \in SidecarState(n, e) /\ Lawful(b)
  BY QueuesOfClient DEF Habits
<1>p. Pipe(Less, A, B, C, D, E)
  BY DEF InOrder
<1>1. PICK m, s, out : SidecarStep(c, m, s, out) /\ SidecarDoes(b, m, s, out)
  BY SidecarSteps
<1>2. /\ down[c] # <<>> /\ m = Head(down[c]) /\ down'[c] = Tail(down[c])
      /\ toGame'[c] = toGame[c] \o out /\ sidecar'[c] = s /\ game'[c] = game[c]
  BY <1>0, <1>1 DEF SidecarStep, SystemShape
<1>3. m \in Orders(n, e)
  BY <1>0, <1>2, TailOfQueue
<1>4. /\ E # <<>> /\ RawSeqs(down'[c]) = Tail(E) /\ Head(E) = Number(m) /\ Tail(E) \in Seq(Nat)
  <2>1. E # <<>> /\ RawSeqs(Tail(down[c])) = Tail(E) /\ Head(E) = Number(Head(down[c]))
    BY <1>0, <1>2, NumbersOfQueue
  <2> QED BY <1>0, <1>2, <2>1, TailOfQueue
<1>5. ASSUME out \in Seq(Orders(n, e)) PROVE RawSeqs(toGame'[c]) = C \o RawSeqs(out)
  BY <1>0, <1>2, <1>5, NumbersOfQueue, ZenonT(60)
<1>6. /\ RawSeqs(<<>>) = <<>> /\ RawSeqs(<<m>>) = <<Number(m)>> /\ <<m>> \in Seq(Orders(n, e))
      /\ <<>> \in Seq(Orders(n, e)) /\ C \o <<>> = C /\ Number(m) \in Nat
  <2>1. Number(m) \in 0..n /\ RawSeqs(<<>>) = <<>> /\ RawSeqs(<<m>>) = <<Number(m)>>
    BY <1>0, <1>3, NumbersOfQueue
  <2>2. <<m>> \in Seq(Orders(n, e)) /\ <<>> \in Seq(Orders(n, e))
    BY <1>3, ShortTyped
  <2>3. C \o <<>> = C
    BY <1>0, ConcatEmptySeq
  <2> QED BY <1>0, <2>1, <2>2, <2>3
<1>7. /\ Shrinks(Less, E, Tail(E)) /\ Shrinks(Less, A, A) /\ Shrinks(Less, B, B) /\ Shrinks(Less, C, C)
      /\ Shrinks(Less, D, D) /\ Shrinks(Less, D, <<>>) /\ Shrinks(Less, C, C \o <<0>>)
  BY <1>0, <1>4, ValuesOfTail, ZerosShrink
<1>8. ASSUME NEW C1, NEW D1, Shrinks(Less, C, C1), Shrinks(Less, D, D1),
             C1 = RawSeqs(toGame'[c]), D1 = RawSeqs(s.buffer)
      PROVE  InOrder(game'[c], toGame'[c], sidecar'[c].buffer, down'[c])
  <2>1. Pipe(Less, A, B, C1, D1, Tail(E))
    BY <1>p, <1>7, <1>8, PipeShrinks
  <2> QED BY <1>2, <1>4, <1>8, <2>1 DEF InOrder
<1>c. m.type # "raw" => Number(m) = 0
  BY DEF Number
<1> HIDE DEF n, e, b, A, B, C, D, E
<1>9. CASE SidecarIgnores(b, m, s, out)
  <2>1. RawSeqs(toGame'[c]) = C /\ RawSeqs(s.buffer) = D
    BY <1>5, <1>6, <1>9 DEF SidecarIgnores, D
  <2> QED BY <1>7, <1>8, <2>1
<1>10. CASE SidecarPrepares(b, m, s, out)
  <2>1. s.buffer = <<>>
    BY <1>0, <1>10 DEF SidecarPrepares, SidecarState
  <2>2. out \in Seq(Orders(n, e)) /\ RawSeqs(out) = <<0>>
    <3> DEFINE x == Msg("prepare", m.epoch, m.epoch)
    <3>1. m \in Control(e) /\ m.epoch \in 1..e /\ "prepare" \in ControlType
      BY <1>0, <1>3, <1>10, OrderKinds DEF SidecarPrepares, ControlType
    <3>2. [m EXCEPT !.type = "prepare"] = x /\ x \in Orders(n, e) /\ x.type = "prepare"
      BY <1>0, <3>1, NewOrders
    <3>3. out = <<x>> /\ Number(x) = 0
      BY <1>10, <3>2 DEF SidecarPrepares, Number
    <3> HIDE DEF x
    <3>4. RawSeqs(<<x>>) = <<Number(x)>>
      BY <1>0, <3>2, NumbersOfQueue
    <3> QED BY <3>2, <3>3, <3>4, ShortTyped
  <2> QED BY <1>5, <1>6, <1>7, <1>8, <2>1, <2>2
<1>11. CASE SidecarBatches(b, m, s, out)
  <2>1. out = <<m>> /\ RawSeqs(out) = <<0>>
    BY <1>6, <1>11, <1>c DEF SidecarBatches
  <2>2. s.buffer = <<>> \/ s.buffer = b.buffer
    BY <1>0, <1>11 DEF SidecarBatches, SidecarState
  <2>3. RawSeqs(s.buffer) \in {<<>>, D}
    BY <1>6, <2>2 DEF D
  <2> QED BY <1>5, <1>6, <1>7, <1>8, <2>1, <2>3
<1>12. CASE SidecarFlushes(b, m, s, out)
  <2>1. s.buffer = <<>> /\ out = b.buffer \o <<m>>
    <3>1. s.buffer = <<>>
      BY <1>0, <1>12 DEF SidecarFlushes, SidecarState
    <3>2. Append(b.buffer, m) = b.buffer \o <<m>>
      BY <1>0, <1>3, OneMore
    <3> QED BY <1>12, <3>1, <3>2 DEF SidecarFlushes
  <2>2. out \in Seq(Orders(n, e)) /\ RawSeqs(out) = D \o <<0>>
    <3>1. out \in Seq(Orders(n, e))
      BY <1>0, <1>6, <2>1, PartsOfQueue
    <3>2. RawSeqs(b.buffer \o <<m>>) = D \o RawSeqs(<<m>>)
      BY <1>0, <1>6, NumbersOfQueue DEF D
    <3> QED BY <1>6, <1>12, <1>c, <2>1, <3>1, <3>2 DEF SidecarFlushes
  <2>3. RawSeqs(toGame'[c]) = (C \o D) \o <<0>>
    <3> DEFINE z == <<0>>
               N == Nat
    <3>1. C \in Seq(N) /\ D \in Seq(N) /\ z \in Seq(N)
      BY <1>0
    <3> HIDE DEF z, N
    <3>2. (C \o D) \o z = C \o (D \o z)
      BY <3>1, ConcatAssociative
    <3> QED BY <1>5, <2>2, <3>2 DEF z
  <2>4. Pipe(Less, A, B, C \o D, <<>>, E)
    BY <1>0, <1>p, PipeMoves
  <2>5. C \o D \in Seq(Nat) /\ <<>> \in Seq(Nat)
    BY <1>0, PartsOfQueue
  <2>6. Shrinks(Less, C \o D, (C \o D) \o <<0>>) /\ Shrinks(Less, <<>>, <<>>)
    BY <2>5, ZerosShrink
  <2>7. Pipe(Less, A, B, (C \o D) \o <<0>>, <<>>, Tail(E))
    BY <1>7, <2>4, <2>6, PipeShrinks
  <2> QED BY <1>2, <1>4, <1>6, <2>1, <2>3, <2>7 DEF InOrder, A, B
<1>13. CASE SidecarPasses(b, m, s, out)
  <2>1. out = <<m>> /\ RawSeqs(out) = <<0>> /\ RawSeqs(s.buffer) = D
    BY <1>6, <1>13, <1>c DEF SidecarPasses, D
  <2> QED BY <1>5, <1>6, <1>7, <1>8, <2>1
<1>14. CASE SidecarHolds(b, m, s, out)
  <2>1. RawSeqs(toGame'[c]) = C
    BY <1>5, <1>6, <1>14 DEF SidecarHolds
  <2>2. s.buffer = b.buffer \/ s.buffer = Append(b.buffer, m)
    BY <1>0, <1>14 DEF SidecarHolds, SidecarState
  <2>3. CASE s.buffer = b.buffer
    BY <1>7, <1>8, <2>1, <2>3 DEF D
  <2>4. CASE s.buffer = Append(b.buffer, m)
    <3>1. s.buffer = b.buffer \o <<m>>
      BY <1>0, <1>3, <2>4, OneMore
    <3>2. RawSeqs(b.buffer \o <<m>>) = D \o <<Number(m)>>
      <4>1. RawSeqs(b.buffer \o <<m>>) = D \o RawSeqs(<<m>>)
        BY <1>0, <1>6, NumbersOfQueue DEF D
      <4> QED BY <1>6, <4>1
    <3>3. Pipe(Less, A, B, C, D \o <<Number(m)>>, Tail(E))
      BY <1>0, <1>4, <1>p, PipeMoves
    <3> QED BY <1>2, <1>4, <2>1, <3>1, <3>2, <3>3 DEF InOrder, A, B
  <2> QED BY <2>2, <2>3, <2>4
<1>15. CASE SidecarShows(b, m, s, out)
  <2>1. b.buffer = <<>> /\ s.buffer = <<>> /\ out = <<m>>
    BY <1>0, <1>15 DEF SidecarShows, SidecarState, Lawful
  <2>2. D = <<>> /\ RawSeqs(toGame'[c]) = C \o <<Number(m)>>
    BY <1>5, <1>6, <2>1 DEF D
  <2>3. <<Number(m)>> \in Seq(Nat) /\ D \o <<Number(m)>> = <<Number(m)>>
    <3>1. <<Number(m)>> \in Seq(Nat)
      BY <1>6
    <3>2. <<>> \o <<Number(m)>> = <<Number(m)>>
      BY <3>1, ConcatEmptySeq
    <3> QED BY <2>2, <3>1, <3>2
  <2>4. Pipe(Less, A, B, C, <<Number(m)>>, Tail(E))
    <3>1. Pipe(Less, A, B, C, D \o <<Number(m)>>, Tail(E))
      BY <1>0, <1>4, <1>p, PipeMoves
    <3> QED BY <2>3, <3>1
  <2>5. Pipe(Less, A, B, C \o <<Number(m)>>, <<>>, Tail(E))
    BY <1>0, <1>4, <2>3, <2>4, PipeMoves
  <2> QED BY <1>2, <1>4, <1>6, <2>1, <2>2, <2>5 DEF InOrder, A, B
<1> QED BY <1>1, <1>9, <1>10, <1>11, <1>12, <1>13, <1>14, <1>15 DEF SidecarDoes

LEMMA GamesKeepOrder ==
  ASSUME SystemShape, Habits, NEW c \in Clients, Game(c) \/ SpinUp(c),
         InOrder(game[c], toGame[c], sidecar[c].buffer, down[c])
  PROVE  InOrder(game'[c], toGame'[c], sidecar'[c].buffer, down'[c])
<1> DEFINE n == hostSeq
           e == epoch
           b == game[c]
           A == b.shown
           B == b.buffer
           C == RawSeqs(toGame[c])
           D == RawSeqs(sidecar[c].buffer)
           E == RawSeqs(down[c])
<1>0. /\ n \in Nat /\ e \in Nat /\ c \in Players
      /\ toGame[c] \in Seq(Orders(n, e)) /\ Sane(b)
      /\ A \in Seq(Nat) /\ B \in Seq(Nat) /\ C \in Seq(Nat) /\ D \in Seq(Nat) /\ E \in Seq(Nat)
  BY QueuesOfClient DEF Habits
<1>p. Pipe(Less, A, B, C, D, E)
  BY DEF InOrder
<1>1. ASSUME NEW g, NEW ms, GameStep(c, g, ms)
      PROVE  game'[c] = g /\ sidecar'[c] = sidecar[c] /\ down'[c] = down[c]
  BY <1>0, <1>1 DEF GameStep, SystemShape
<1>2. /\ Shrinks(Less, A, A) /\ Shrinks(Less, B, B) /\ Shrinks(Less, B, <<>>) /\ Shrinks(Less, C, C)
      /\ Shrinks(Less, D, D) /\ Shrinks(Less, E, E)
  BY <1>0, ZerosShrink
<1>3. ASSUME NEW g, NEW ms, GameStep(c, g, ms), g.shown = A, g.buffer \in {B, <<>>},
             Shrinks(Less, C, RawSeqs(toGame'[c]))
      PROVE  InOrder(game'[c], toGame'[c], sidecar'[c].buffer, down'[c])
  <2>1. Pipe(Less, A, g.buffer, RawSeqs(toGame'[c]), D, E)
    BY <1>p, <1>2, <1>3, PipeShrinks
  <2> QED BY <1>1, <1>3, <2>1 DEF InOrder
<1>4. CASE SpinUp(c)
  <2>1. PICK g, ms : GameStep(c, g, ms) /\ GameArrives(c, b, g, ms) /\ UNCHANGED toGame
    BY <1>0, <1>4, SpinUpSteps
  <2>2. g.shown = A /\ g.buffer \in {B, <<>>}
    BY <2>1 DEF GameArrives, ScreenAsWas
  <2> QED BY <1>2, <1>3, <2>1, <2>2
<1>5. CASE Game(c)
  <2>1. PICK m, g, ms : GameTakes(c, m) /\ GameStep(c, g, ms) /\ GameDoes(c, b, m, g, ms)
    BY <1>0, <1>5, GameSteps
  <2>2. toGame[c] # <<>> /\ m = Head(toGame[c]) /\ toGame'[c] = Tail(toGame[c])
    BY <1>0, <2>1 DEF GameTakes, SystemShape
  <2>3. C # <<>> /\ RawSeqs(toGame'[c]) = Tail(C) /\ Head(C) = Number(m) /\ Number(m) \in Nat
    <3>1. C # <<>> /\ RawSeqs(Tail(toGame[c])) = Tail(C) /\ Head(C) = Number(Head(toGame[c]))
      BY <1>0, <2>2, NumbersOfQueue
    <3>2. Head(C) \in Nat
      BY <1>0, <3>1, TailOfQueue
    <3> QED BY <2>2, <3>1, <3>2
  <2>4. Shrinks(Less, C, Tail(C))
    BY <1>0, <2>3, ValuesOfTail
  <2>5. CASE ~GameShows(c, b, m, g, ms)
    <3>1. ScreenAsWas(b, g)
      BY <2>1, <2>5 DEF GameDoes, GamePrepares, GameCommits, GameHydrates, GameAborts
    <3>2. g.shown = A /\ g.buffer \in {B, <<>>}
      BY <3>1 DEF ScreenAsWas
    <3> QED BY <1>3, <2>1, <2>3, <2>4, <3>2
  <2>6. CASE GameShows(c, b, m, g, ms)
    <3>0. Number(m) = m.seq /\ <<Number(m)>> \in Seq(Nat)
      <4>1. Number(m) = m.seq
        BY <2>6 DEF GameShows, Number
      <4> QED BY <2>3, <4>1
    <3>1. Pipe(Less, A, B \o <<Number(m)>>, Tail(C), D, E)
      BY <1>0, <1>p, <2>3, PipeMoves
    <3>2. \/ B = <<>> /\ g.shown = A \o <<Number(m)>> /\ g.buffer = B
          \/ g.shown = A /\ g.buffer = B \o <<Number(m)>>
          \/ g.shown = A /\ g.buffer = B
      <4>1. Append(A, m.seq) = A \o <<Number(m)>> /\ Append(B, m.seq) = B \o <<Number(m)>>
        BY <1>0, <2>3, <3>0, OneMore, ZenonT(60)
      <4> QED BY <1>0, <2>6, <4>1 DEF GameShows, Sane
    <3>3. CASE B = <<>> /\ g.shown = A \o <<Number(m)>> /\ g.buffer = B
      <4>1. B \o <<Number(m)>> = <<Number(m)>> /\ Tail(C) \in Seq(Nat)
        BY <1>0, <2>3, <3>0, <3>3, ConcatEmptySeq, TailOfQueue
      <4>2. Pipe(Less, A, <<Number(m)>>, Tail(C), D, E)
        BY <3>1, <4>1
      <4>3. Pipe(Less, A \o <<Number(m)>>, <<>>, Tail(C), D, E)
        BY <1>0, <3>0, <4>1, <4>2, PipeMoves
      <4> QED BY <1>1, <2>1, <2>3, <3>3, <4>3 DEF InOrder
    <3>4. CASE g.shown = A /\ g.buffer = B \o <<Number(m)>>
      BY <1>1, <2>1, <2>3, <3>1, <3>4 DEF InOrder
    <3>5. CASE g.shown = A /\ g.buffer = B
      BY <1>3, <2>1, <2>3, <2>4, <3>5
    <3> QED BY <3>2, <3>3, <3>4, <3>5
  <2> QED BY <2>5, <2>6
<1> QED BY <1>4, <1>5

(* A message without a number, or with the next one, may join the queue; a  *)
(* queue may be lost.                                                       *)
LEMMA OrderKept ==
  ASSUME SystemShape, NEW c \in Clients, InOrder(game[c], toGame[c], sidecar[c].buffer, down[c]),
         hostSeq' \in Nat, epoch' \in Nat, hostSeq <= hostSeq', epoch <= epoch',
         NEW x \in Orders(hostSeq', epoch'), Number(x) \in {0, hostSeq + 1},
         game'[c] = game[c], sidecar'[c].buffer \in {sidecar[c].buffer, <<>>},
         toGame'[c] \in {toGame[c], <<>>}, down'[c] \in {down[c], <<>>, down[c] \o <<x>>}
  PROVE  InOrder(game'[c], toGame'[c], sidecar'[c].buffer, down'[c])
<1> DEFINE n == hostSeq
           A == game[c].shown
           B == game[c].buffer
           C == RawSeqs(toGame[c])
           D == RawSeqs(sidecar[c].buffer)
           E == RawSeqs(down[c])
           X == Number(x)
<1>0. /\ A \in Seq(Nat) /\ B \in Seq(Nat) /\ C \in Seq(Nat) /\ D \in Seq(Nat) /\ E \in Seq(Nat)
      /\ A \in Seq(0..n) /\ B \in Seq(0..n) /\ C \in Seq(0..n) /\ D \in Seq(0..n) /\ E \in Seq(0..n)
      /\ n \in Nat /\ X \in Nat /\ RawSeqs(<<>>) = <<>> /\ RawSeqs(<<x>>) = <<X>>
  <2>1. /\ C \in Seq(0..n) /\ D \in Seq(0..n) /\ E \in Seq(0..n) /\ RawSeqs(<<>>) = <<>>
    BY QueuesOfClient, NumbersOfQueue
  <2>2. RawSeqs(<<x>>) = <<X>>
    <3>1. \A m \in Orders(hostSeq', epoch') : RawSeqs(<<m>>) = <<Number(m)>>
      BY NumbersOfQueue, ShortTyped
    <3> QED BY <3>1
  <2>3. n \in Nat /\ X \in Nat
    BY DEF SystemShape
  <2> QED BY <2>1, <2>2, <2>3, QueuesOfClient
<1>1. RawSeqs(down[c] \o <<x>>) = E \o <<X>>
  <2>1. down[c] \in Seq(Orders(hostSeq', epoch')) /\ <<x>> \in Seq(Orders(hostSeq', epoch'))
    <3>1. Seq(Orders(hostSeq, epoch)) \subseteq Seq(Orders(hostSeq', epoch'))
      BY Widens DEF SystemShape
    <3> QED BY <3>1, QueuesOfClient, ShortTyped
  <2>2. RawSeqs(down[c] \o <<x>>) = E \o RawSeqs(<<x>>)
    BY <2>1, NumbersOfQueue
  <2> QED BY <1>0, <2>2
<1>2. Pipe(Less, A, B, C, D, E)
  BY DEF InOrder
<1> HIDE DEF n, A, B, C, D, E, X
<1>3. Pipe(Less, A, B, C, D, E \o <<X>>)
  <2>1. CASE X = 0
    <3>1. \A s \in {A, B, C, D, E} : Below(Less, s, <<X>>)
      BY <2>1, ShortQueues DEF Below
    <3> QED BY <1>0, <1>2, <3>1, PipeGrows
  <2>2. CASE X = n + 1
    <3>1. ASSUME NEW s \in Seq(0..n) PROVE Below(Less, s, <<X>>)
      <4>1. \A v \in Values(s) : v \in 0..n
        BY ElementOfSeq, ZenonT(60) DEF Values
      <4>2. Values(<<X>>) \subseteq {X}
        BY ShortQueues
      <4>3. \A v \in 0..n : <<v, X>> \in Less
        BY <1>0, <2>2 DEF Less
      <4> QED BY <4>1, <4>2, <4>3 DEF Below
    <3>2. \A s \in {A, B, C, D, E} : Below(Less, s, <<X>>)
      BY <1>0, <3>1
    <3> QED BY <1>0, <1>2, <3>2, PipeGrows
  <2> QED BY <2>1, <2>2 DEF X, n
<1>4. /\ Shrinks(Less, A, A) /\ Shrinks(Less, B, B) /\ Shrinks(Less, C, C) /\ Shrinks(Less, C, <<>>)
      /\ Shrinks(Less, D, D) /\ Shrinks(Less, D, <<>>) /\ Shrinks(Less, E, E) /\ Shrinks(Less, E, <<>>)
  BY <1>0, ZerosShrink
<1> DEFINE C1 == RawSeqs(toGame'[c])
           D1 == RawSeqs(sidecar'[c].buffer)
           E1 == RawSeqs(down'[c])
<1>5. C1 \in {C, <<>>} /\ D1 \in {D, <<>>} /\ E1 \in {E, <<>>, E \o <<X>>}
  BY <1>0, <1>1 DEF C, D, E
<1> HIDE DEF C1, D1, E1
<1>6. Shrinks(Less, E \o <<X>>, E \o <<X>>)
  BY <1>3 DEF Shrinks
<1>7. Pipe(Less, A, B, C1, D1, E1)
  <2>1. CASE E1 = E \o <<X>>
    BY <1>3, <1>4, <1>5, <1>6, <2>1, PipeShrinks
  <2>2. CASE E1 \in {E, <<>>}
    BY <1>2, <1>4, <1>5, <2>2, PipeShrinks
  <2> QED BY <1>5, <2>1, <2>2
<1> QED BY <1>7 DEF InOrder, A, B, C1, D1, E1

LEMMA QueuesSteps ==
  ASSUME SystemShape, Habits, Inv, Queues, [SystemNext]_sysVars
  PROVE  Queues'
<1> SUFFICES ASSUME NEW c \in Clients
             PROVE  InOrder(game'[c], toGame'[c], sidecar'[c].buffer, down'[c])
  BY DEF Queues
<1>0. /\ InOrder(game[c], toGame[c], sidecar[c].buffer, down[c])
      /\ c \in Players /\ c # Host /\ Host \in Players /\ epoch \in Nat /\ hostSeq \in Nat
      /\ down \in [Clients -> Seq(Orders(hostSeq, epoch))]
      /\ toGame \in [Players -> Seq(Orders(hostSeq, epoch))]
      /\ sidecar \in [Clients -> SidecarState(hostSeq, epoch)]
      /\ game \in [Players -> GameState(hostSeq, epoch)]
  BY TravelSystemAssumption DEF Queues, Clients, SystemShape
<1>1. ASSUME game'[c] = game[c], sidecar'[c] = sidecar[c], toGame'[c] = toGame[c], down'[c] = down[c]
      PROVE  InOrder(game'[c], toGame'[c], sidecar'[c].buffer, down'[c])
  BY <1>0, <1>1
<1>2. ASSUME epoch' = epoch, hostSeq' = hostSeq, game'[c] = game[c], toGame'[c] \in {toGame[c], <<>>},
             sidecar'[c].buffer \in {sidecar[c].buffer, <<>>}, down'[c] \in {down[c], <<>>}
      PROVE  InOrder(game'[c], toGame'[c], sidecar'[c].buffer, down'[c])
  <2> DEFINE A == game[c].shown
             B == game[c].buffer
             C == RawSeqs(toGame[c])
             D == RawSeqs(sidecar[c].buffer)
             E == RawSeqs(down[c])
             C1 == RawSeqs(toGame'[c])
             D1 == RawSeqs(sidecar'[c].buffer)
             E1 == RawSeqs(down'[c])
  <2>1. /\ A \in Seq(Nat) /\ B \in Seq(Nat) /\ C \in Seq(Nat) /\ D \in Seq(Nat) /\ E \in Seq(Nat)
        /\ RawSeqs(<<>>) = <<>>
    BY QueuesOfClient, NumbersOfQueue
  <2>2. C1 \in {C, <<>>} /\ D1 \in {D, <<>>} /\ E1 \in {E, <<>>}
    BY <1>2, <2>1
  <2>3. Pipe(Less, A, B, C, D, E)
    BY <1>0 DEF InOrder
  <2> HIDE DEF A, B, C, D, E, C1, D1, E1
  <2>4. /\ Shrinks(Less, A, A) /\ Shrinks(Less, B, B) /\ Shrinks(Less, C, C1)
        /\ Shrinks(Less, D, D1) /\ Shrinks(Less, E, E1)
    BY <2>1, <2>2, ZerosShrink
  <2>5. Pipe(Less, A, B, C1, D1, E1)
    BY <2>3, <2>4, PipeShrinks
  <2> QED BY <1>2, <2>5 DEF InOrder, A, B, C1, D1, E1
<1>3. CASE HostCoroutines \/ HostNext \/ \E d \in Clients : Disconnect(d)
  <2>1. UNCHANGED <<sidecar, game>> /\ (HostIsSilent \/ \E x, ms : HostTells(x, ms))
    BY <1>3, HostSends
  <2>2. CASE HostIsSilent
    BY <1>2, <2>1, <2>2 DEF HostIsSilent
  <2>3. CASE \E x, ms : HostTells(x, ms)
    <3>1. PICK x, ms : HostTells(x, ms)
      BY <2>3
    <3>2. /\ x \in Orders(hostSeq', epoch') /\ HostSays(x, ms)
          /\ down'[c] \in {down[c], down[c] \o <<x>>} /\ toGame'[c] = toGame[c]
      BY <1>0, <3>1 DEF HostTells, Broadcast, ToHostGame
    <3>3. /\ hostSeq' \in {hostSeq, hostSeq + 1} /\ epoch' \in {epoch, epoch + 1}
      BY <3>2 DEF HostSays
    <3>4. Number(x) \in {0, hostSeq + 1}
      BY <3>2 DEF HostSays, Number, Msg, Raw
    <3>5. hostSeq' \in Nat /\ epoch' \in Nat /\ hostSeq <= hostSeq' /\ epoch <= epoch'
      BY <1>0, <3>3
    <3> QED BY <1>0, <2>1, <3>2, <3>4, <3>5, OrderKept
  <2> QED BY <2>1, <2>2, <2>3
<1>4. CASE \E d \in Clients : Join(d)
  <2>1. PICK d \in Clients : Join(d)
    BY <1>4
  <2>2. /\ epoch' = epoch /\ hostSeq' = hostSeq /\ game' = game /\ down' = down
        /\ toGame' = [toGame EXCEPT ![d] = <<>>] /\ sidecar' = [sidecar EXCEPT ![d] = FreshSidecar]
        /\ FreshSidecar.buffer = <<>>
    BY <2>1 DEF Join, coord, FreshSidecar
  <2>3. toGame'[c] \in {toGame[c], <<>>} /\ sidecar'[c].buffer \in {sidecar[c].buffer, <<>>}
    BY <1>0, <2>2
  <2> QED BY <1>2, <2>2, <2>3
<1>5. CASE \E d \in Clients : Sidecar(d)
  <2>1. PICK d \in Clients : Sidecar(d)
    BY <1>5
  <2>2. CASE d = c
    BY <1>0, <2>1, <2>2, SidecarsKeepOrder
  <2>3. CASE d # c
    <3>1. PICK m, s, out : SidecarStep(d, m, s, out)
      BY <2>1, SidecarSteps
    <3> QED BY <1>0, <1>1, <2>3, <3>1 DEF SidecarStep
  <2> QED BY <2>2, <2>3
<1>6. CASE \E p \in Players : Game(p) \/ SpinUp(p)
  <2>1. PICK p \in Players : Game(p) \/ SpinUp(p)
    BY <1>6
  <2>2. CASE p = c
    BY <1>0, <2>1, <2>2, GamesKeepOrder
  <2>3. CASE p # c
    <3>1. PICK g, ms : GameStep(p, g, ms) /\ (toGame' = toGame \/ toGame' = [toGame EXCEPT ![p] = Tail(@)])
      BY <2>1, GameSteps, SpinUpSteps DEF GameTakes
    <3> QED BY <1>0, <1>1, <2>3, <3>1 DEF GameStep
  <2> QED BY <2>2, <2>3
<1>7. CASE (\E p \in Players : RequestTravel(p)) \/ HostDistributes \/ UNCHANGED sysVars
  BY <1>1, <1>7 DEF RequestTravel, HostDistributes, sysVars
<1> QED BY <1>3, <1>4, <1>5, <1>6, <1>7 DEF SystemNext

LEMMA QueuesInit == SystemInit => Queues
<1> SUFFICES ASSUME SystemInit, NEW c \in Clients
             PROVE  InOrder(game[c], toGame[c], sidecar[c].buffer, down[c])
  BY DEF Queues
<1>1. /\ game[c].shown = <<>> /\ game[c].buffer = <<>> /\ toGame[c] = <<>> /\ down[c] = <<>>
      /\ sidecar[c].buffer = <<>>
  BY DEF SystemInit, FreshGame, FreshSidecar, Clients
<1>2. RawSeqs(<<>>) = <<>>
  BY DEF RawSeqs
<1>3. Pipe(Less, <<>>, <<>>, <<>>, <<>>, <<>>)
  BY ShortQueues DEF Pipe, Below
<1> QED BY <1>1, <1>2, <1>3 DEF InOrder

(* Along a pipe whose parts are in order the numbers grow. *)
LEMMA PipeIsOrdered ==
  ASSUME NEW R, NEW a \in Seq(Nat), NEW b \in Seq(Nat), NEW c \in Seq(Nat),
         NEW d \in Seq(Nat), NEW e \in Seq(Nat), Pipe(R, a, b, c, d, e)
  PROVE  Ordered(R, a \o b \o c \o d \o e) /\ a \o b \o c \o d \o e \in Seq(Nat)
<1>1. a \o b \in Seq(Nat) /\ Ordered(R, a \o b) /\ Values(a \o b) = Values(a) \cup Values(b)
  BY PartsOfQueue, ValuesOfParts DEF Pipe
<1>2. /\ (a \o b) \o c \in Seq(Nat) /\ Values((a \o b) \o c) = Values(a \o b) \cup Values(c)
      /\ Ordered(R, (a \o b) \o c)
  <2>1. Below(R, a \o b, c)
    BY <1>1 DEF Pipe, Below
  <2> QED BY <1>1, <2>1, PartsOfQueue, ValuesOfParts DEF Pipe
<1>3. /\ ((a \o b) \o c) \o d \in Seq(Nat)
      /\ Values(((a \o b) \o c) \o d) = Values((a \o b) \o c) \cup Values(d)
      /\ Ordered(R, ((a \o b) \o c) \o d)
  <2>1. Below(R, (a \o b) \o c, d)
    BY <1>1, <1>2 DEF Pipe, Below
  <2> QED BY <1>2, <2>1, PartsOfQueue, ValuesOfParts DEF Pipe
<1>4. Below(R, ((a \o b) \o c) \o d, e)
  BY <1>1, <1>2, <1>3 DEF Pipe, Below
<1> QED BY <1>3, <1>4, PartsOfQueue, ValuesOfParts DEF Pipe

LEMMA QueuesAreOrdered ==
  ASSUME SystemShape, Queues
  PROVE  KeepsHostOrder
<1> SUFFICES ASSUME NEW c \in Clients, NEW i \in 1..Len(Pipeline(c)), NEW j \in 1..Len(Pipeline(c)),
                    i < j, 0 \notin {Pipeline(c)[i], Pipeline(c)[j]}
             PROVE  Pipeline(c)[i] < Pipeline(c)[j]
  BY DEF KeepsHostOrder
<1>1. Pipe(Less, game[c].shown, game[c].buffer, RawSeqs(toGame[c]), RawSeqs(sidecar[c].buffer), RawSeqs(down[c]))
  BY DEF Queues, InOrder
<1>2. Ordered(Less, Pipeline(c)) /\ Pipeline(c) \in Seq(Nat)
  BY <1>1, QueuesOfClient, PipeIsOrdered DEF Pipeline
<1>3. <<Pipeline(c)[i], Pipeline(c)[j]>> \in Less
  BY <1>2 DEF Ordered
<1> QED BY <1>3 DEF Less

(* View messages keep the host's order all the way to the client's screen,  *)
(* whatever travels, buffers that run full, departures and reconnections do *)
(* (the sequence check, the flush on RESUME, receive_raw_game_message).     *)
THEOREM ViewKeepsHostOrder == SystemSpec => []KeepsHostOrder
<1> DEFINE Ordering == SystemShape /\ Habits /\ Inv /\ Queues
<1>1. SystemInit => Ordering
  BY ShapeInit, InitInv, QueuesInit DEF SystemInit
<1>2. Ordering /\ [SystemNext]_sysVars => Ordering'
  BY ShapeSteps, QueuesSteps
<1>3. Ordering => KeepsHostOrder
  BY QueuesAreOrdered
<1> QED BY <1>1, <1>2, <1>3, PTL DEF SystemSpec

-----------------------------------------------------------------------------
(* When RESUME may be about *)

Resume == Msg("resume", epoch, epoch)
Earned == /\ current.phase \in Finished
          /\ \A q \in current.participants : <<"zone_ready", q, epoch>> \in said
ResumeIsOut == \/ \E p \in Players : Resume \in Range(toGame[p])
               \/ \E c \in Clients : Resume \in Range(down[c])

LEMMA EarnedIs == /\ ResumeIsEarned <=> (ResumeIsOut => Earned)
                  /\ ResumeIsEarned' <=> (ResumeIsOut' => Earned')
<1>1. ResumeIsEarned <=> (ResumeIsOut => Earned)
  BY TravelSystemAssumption DEF ResumeIsEarned, ResumeIsOut, Resume, Earned, Clients
<1>2. ResumeIsEarned' <=> (ResumeIsOut' => Earned')
  BY TravelSystemAssumption DEF ResumeIsEarned, ResumeIsOut, Resume, Earned, Clients
<1> QED BY <1>1, <1>2

LEMMA ShortRanges == /\ Range(<<>>) = {}
                     /\ \A x : Range(<<x>>) = {x}
                     /\ \A x, y : Range(<<x, y>>) = {x, y}
<1>1. DOMAIN <<>> = {}
  OBVIOUS
<1>2. \A x : DOMAIN <<x>> = {1} /\ <<x>>[1] = x
  OBVIOUS
<1>3. \A x, y : DOMAIN <<x, y>> = {1, 2} /\ <<x, y>>[1] = x /\ <<x, y>>[2] = y
  OBVIOUS
<1>4. ASSUME NEW x PROVE Range(<<x>>) = {x}
  BY <1>2, Zenon DEF Range
<1>5. ASSUME NEW x, NEW y PROVE Range(<<x, y>>) = {x, y}
  <2>1. Range(<<x, y>>) = {<<x, y>>[k] : k \in {1, 2}}
    BY <1>3, Zenon DEF Range
  <2> QED BY <1>3, <2>1
<1> QED BY <1>1, <1>4, <1>5 DEF Range

LEMMA RangeOfQueues ==
  ASSUME NEW S
  PROVE  /\ \A q \in Seq(S) : Range(q) \subseteq S
         /\ \A q, r \in Seq(S) : Range(q \o r) = Range(q) \cup Range(r)
         /\ \A q \in Seq(S) : q # <<>> => Range(Tail(q)) \subseteq Range(q) /\ Head(q) \in Range(q)
<1>1. \A s \in Seq(S) : Range(s) = {s[i] : i \in 1..Len(s)} /\ Range(s) \subseteq S
  <2> SUFFICES ASSUME NEW s \in Seq(S)
               PROVE  Range(s) = {s[i] : i \in 1..Len(s)} /\ Range(s) \subseteq S
    OBVIOUS
  <2>1. DOMAIN s = 1..Len(s) /\ \A i \in 1..Len(s) : s[i] \in S
    BY ElementOfSeq, LenProperties
  <2> QED BY <2>1 DEF Range
<1>2. ASSUME NEW q \in Seq(S), NEW r \in Seq(S) PROVE Range(q \o r) = Range(q) \cup Range(r)
  <2>0. /\ q \o r \in Seq(S)
        /\ \A i \in 1..Len(q) : i \in 1..Len(q \o r) /\ (q \o r)[i] = q[i]
        /\ \A i \in 1..Len(r) : Len(q) + i \in 1..Len(q \o r) /\ (q \o r)[Len(q) + i] = r[i]
        /\ \A i \in 1..Len(q \o r) : \/ i \in 1..Len(q) /\ (q \o r)[i] = q[i]
                                     \/ i - Len(q) \in 1..Len(r) /\ (q \o r)[i] = r[i - Len(q)]
    BY PartsOfQueue
  <2> DEFINE s == q \o r
  <2>1. /\ Range(s) = {s[i] : i \in 1..Len(s)} /\ Range(q) = {q[i] : i \in 1..Len(q)}
        /\ Range(r) = {r[i] : i \in 1..Len(r)}
    BY <1>1, <2>0
  <2>2. /\ \A i \in 1..Len(q) : i \in 1..Len(s) /\ s[i] = q[i]
        /\ \A i \in 1..Len(r) : Len(q) + i \in 1..Len(s) /\ s[Len(q) + i] = r[i]
        /\ \A i \in 1..Len(s) : s[i] \in Range(q) \/ s[i] \in Range(r)
    BY <2>0, <2>1
  <2> HIDE DEF s
  <2>3. Range(s) \subseteq Range(q) \cup Range(r)
    BY <2>1, <2>2
  <2>4. Range(q) \subseteq Range(s)
    BY <2>1, <2>2
  <2>5. Range(r) \subseteq Range(s)
    BY <2>1, <2>2
  <2>6. Range(s) = Range(q) \cup Range(r)
    BY <2>3, <2>4, <2>5
  <2> QED BY <2>6 DEF s
<1>3. ASSUME NEW q \in Seq(S), q # <<>> PROVE Range(Tail(q)) \subseteq Range(q) /\ Head(q) \in Range(q)
  <2>1. /\ Tail(q) \in Seq(S) /\ Head(q) = q[1] /\ 1 \in 1..Len(q)
        /\ \A i \in 1..Len(Tail(q)) : i + 1 \in 1..Len(q) /\ Tail(q)[i] = q[i + 1]
    BY <1>3, TailOfQueue
  <2> DEFINE s == Tail(q)
  <2>2. Range(s) = {s[i] : i \in 1..Len(s)} /\ Range(q) = {q[i] : i \in 1..Len(q)}
    BY <1>1, <2>1
  <2>3. \A i \in 1..Len(s) : s[i] \in Range(q)
    BY <2>1, <2>2
  <2> HIDE DEF s
  <2>4. Range(s) \subseteq Range(q)
    BY <2>2, <2>3
  <2>5. Head(q) \in Range(q)
    BY <2>1, <2>2
  <2> QED BY <2>4, <2>5 DEF s
<1> QED BY <1>1, <1>2, <1>3

(* A sidecar passes on no RESUME but the one it has been sent. *)
LEMMA SidecarsEarn ==
  ASSUME SystemShape, Habits, NEW c \in Clients, Sidecar(c), ResumeIsOut'
  PROVE  ResumeIsOut
<1> DEFINE n == hostSeq
           e == epoch
           b == sidecar[c]
<1>0. /\ n \in Nat /\ e \in Nat /\ c \in Players
      /\ toGame[c] \in Seq(Orders(n, e)) /\ down[c] \in Seq(Orders(n, e)) /\ b.buffer \in Seq(Orders(n, e))
      /\ b.buffer \in Seq(Packets(n, e))
      /\ down \in [Clients -> Seq(Orders(n, e))] /\ toGame \in [Players -> Seq(Orders(n, e))]
  BY QueuesOfClient DEF SidecarState, SystemShape
<1>1. PICK m, s, out : SidecarStep(c, m, s, out) /\ SidecarDoes(b, m, s, out)
  BY SidecarSteps
<1>2. /\ down[c] # <<>> /\ m = Head(down[c]) /\ down' = [down EXCEPT ![c] = Tail(@)]
      /\ toGame' = [toGame EXCEPT ![c] = @ \o out] /\ epoch' = epoch
  BY <1>1 DEF SidecarStep, elsewhere
<1>3. m \in Orders(n, e) /\ m \in Range(down[c])
  BY <1>0, <1>2, TailOfQueue, RangeOfQueues
<1>4. Resume.type = "resume"
  BY DEF Resume, Msg
<1>5. Resume \notin Packets(n, e)
  BY <1>0, <1>4, OrderKinds
<1>6. out \in Seq(Orders(n, e)) /\ (Resume \in Range(out) => Resume = m)
  <2>1. CASE out = <<>> \/ out = <<m>>
    <3>1. Range(<<m>>) = {m} /\ <<m>> \in Seq(Orders(n, e)) /\ Range(<<>>) = {} /\ <<>> \in Seq(Orders(n, e))
      <4> HIDE DEF n, e
      <4> QED BY <1>3, ShortTyped, ShortRanges
    <3>2. CASE out = <<>>
      BY <3>1, <3>2
    <3>3. CASE out = <<m>>
      <4>1. Range(out) = Range(<<m>>)
        BY <3>3
      <4> QED BY <3>1, <3>3, <4>1
    <3> QED BY <2>1, <3>2, <3>3
  <2>2. CASE SidecarPrepares(b, m, s, out)
    <3>1. m \in Control(e) /\ m.epoch \in 1..e /\ "prepare" \in ControlType
      BY <1>0, <1>3, <2>2, OrderKinds DEF SidecarPrepares, ControlType
    <3>2. [m EXCEPT !.type = "prepare"] \in Orders(n, e) /\ [m EXCEPT !.type = "prepare"].type = "prepare"
      <4>1. [m EXCEPT !.type = "prepare"] = Msg("prepare", m.epoch, m.epoch)
        BY <1>0, <3>1, NewOrders
      <4>2. Msg("prepare", m.epoch, m.epoch) \in Orders(n, e) /\ Msg("prepare", m.epoch, m.epoch).type = "prepare"
        BY <1>0, <3>1, NewOrders
      <4> QED BY <4>1, <4>2
    <3>3. Range(out) = {[m EXCEPT !.type = "prepare"]}
      <4>1. out = <<[m EXCEPT !.type = "prepare"]>>
        BY <2>2 DEF SidecarPrepares
      <4>2. Range(<<[m EXCEPT !.type = "prepare"]>>) = {[m EXCEPT !.type = "prepare"]}
        BY ShortRanges
      <4> QED BY <4>1, <4>2
    <3> QED BY <1>4, <2>2, <3>2, <3>3, ShortTyped DEF SidecarPrepares
  <2>3. CASE SidecarFlushes(b, m, s, out)
    <3>1. out = b.buffer \o <<m>> /\ <<m>> \in Seq(Orders(n, e))
      BY <1>0, <1>3, <2>3, OneMore DEF SidecarFlushes
    <3>2. out \in Seq(Orders(n, e)) /\ Range(out) = Range(b.buffer) \cup {m}
      <4>1. out \in Seq(Orders(n, e))
        BY <1>0, <3>1, PartsOfQueue
      <4>2. Range(b.buffer \o <<m>>) = Range(b.buffer) \cup Range(<<m>>) /\ Range(<<m>>) = {m}
        <5>1. \A q, r \in Seq(Orders(n, e)) : Range(q \o r) = Range(q) \cup Range(r)
          BY RangeOfQueues
        <5> HIDE DEF b
        <5> QED BY <1>0, <3>1, <5>1, ShortRanges
      <4> QED BY <3>1, <4>1, <4>2
    <3>3. Range(b.buffer) \subseteq Packets(n, e)
      BY <1>0, RangeOfQueues
    <3> QED BY <1>5, <3>2, <3>3
  <2> QED BY <1>1, <2>1, <2>2, <2>3 DEF SidecarDoes, SidecarIgnores, SidecarBatches, SidecarPasses,
                                       SidecarHolds, SidecarShows
<1>7. Resume' = Resume
  BY <1>2 DEF Resume
<1>8. Resume \in Range(toGame'[c]) => Resume \in Range(toGame[c]) \cup Range(down[c])
  <2>1. toGame'[c] = toGame[c] \o out /\ Range(toGame[c] \o out) = Range(toGame[c]) \cup Range(out)
    BY <1>0, <1>2, <1>6, RangeOfQueues
  <2> QED BY <1>3, <1>6, <2>1
<1>9. Resume \in Range(down'[c]) => Resume \in Range(down[c])
  BY <1>0, <1>2, RangeOfQueues
<1>10. /\ \A p \in Players \ {c} : toGame'[p] = toGame[p]
       /\ \A d \in Clients \ {c} : down'[d] = down[d]
  BY <1>0, <1>2
<1> HIDE DEF n, e, b
<1> QED BY <1>0, <1>7, <1>8, <1>9, <1>10 DEF ResumeIsOut

LEMMA GamesEarn ==
  ASSUME SystemShape, Habits, NEW p \in Players, Game(p) \/ SpinUp(p), ResumeIsOut'
  PROVE  ResumeIsOut
<1>1. PICK g, ms : /\ GameStep(p, g, ms)
                   /\ \/ toGame' = toGame
                      \/ toGame[p] # <<>> /\ toGame' = [toGame EXCEPT ![p] = Tail(@)]
  BY GameSteps, SpinUpSteps DEF GameTakes
<1>2. down' = down /\ Resume' = Resume
  BY <1>1 DEF GameStep, elsewhere, Resume
<1>3. \A q \in Players : Range(toGame'[q]) \subseteq Range(toGame[q])
  <2>1. toGame \in [Players -> Seq(Orders(hostSeq, epoch))]
    BY DEF SystemShape
  <2> QED BY <1>1, <2>1, RangeOfQueues
<1> QED BY <1>2, <1>3 DEF ResumeIsOut

LEMMA EarnedSteps ==
  ASSUME SystemShape, Habits, Inv, ResumeIsEarned, [SystemNext]_sysVars
  PROVE  ResumeIsEarned'
<1> SUFFICES ASSUME ResumeIsOut' PROVE Earned'
  BY EarnedIs
<1>0. /\ TypeOK /\ epoch \in Nat /\ hostSeq \in Nat /\ Host \in Players
      /\ down \in [Clients -> Seq(Orders(hostSeq, epoch))]
      /\ toGame \in [Players -> Seq(Orders(hostSeq, epoch))]
      /\ Clients \subseteq Players
  BY TravelSystemAssumption DEF SystemShape, Inv, Clients
<1>1. [Next]_vars /\ Inv'
  BY <1>0, CoordinatorSteps, StepInv
<1>2. current'.epoch = epoch' /\ current.epoch = epoch /\ current'.phase \in Phase /\ current.phase \in Phase
  BY <1>1 DEF Inv, TypeOK, TravelTxn
<1>3. said \subseteq said'
  BY <1>1 DEF Next, vars, Propose, MarkReady, MarkZoneReady, Refused, BeginZoneWait, Abort,
              RemoveParticipant, Says
<1>4. ASSUME epoch' = epoch, Earned PROVE Earned'
  <2>1. Rank[current'.phase] >= Rank[current.phase] /\ current'.participants \subseteq current.participants
    BY <1>1, <1>2, <1>4, OneWayStep
  <2>2. current'.phase \in Finished
    BY <1>2, <1>4, <2>1 DEF Earned, Finished, Phase, Rank
  <2> QED BY <1>3, <1>4, <2>1, <2>2 DEF Earned
<1>5. ASSUME epoch' = epoch, current'.phase = "complete" PROVE Earned'
  BY <1>1, <1>2, <1>5 DEF Inv, Bookkeeping, Earned, Finished
<1>6. ResumeIsOut => Earned
  BY EarnedIs
<1>7. CASE HostCoroutines \/ HostNext \/ \E d \in Clients : Disconnect(d)
  <2>1. HostIsSilent \/ \E x, ms : HostTells(x, ms)
    BY <1>7, HostSends
  <2>2. CASE HostIsSilent
    <3>1. epoch' = epoch /\ toGame' = toGame /\ \A c \in Clients : down'[c] \in {down[c], <<>>}
      BY <2>2 DEF HostIsSilent
    <3>2. Range(<<>>) = {}
      BY ShortRanges
    <3>3. ResumeIsOut
      BY <3>1, <3>2 DEF ResumeIsOut, Resume
    <3> QED BY <1>4, <1>6, <3>1, <3>3
  <2>3. CASE \E x, ms : HostTells(x, ms)
    <3>1. PICK x, ms : HostTells(x, ms)
      BY <2>3
    <3>2. /\ x \in Orders(hostSeq', epoch') /\ ms \in Seq(Orders(hostSeq', epoch')) /\ HostSays(x, ms)
          /\ \A c \in Clients : down'[c] \in {down[c], down[c] \o <<x>>}
          /\ toGame' = [toGame EXCEPT ![Host] = @ \o ms]
      BY <3>1 DEF HostTells, Broadcast, ToHostGame
    <3>3. /\ hostSeq' \in Nat /\ epoch' \in Nat /\ hostSeq <= hostSeq' /\ epoch <= epoch'
      BY <1>0, <3>2 DEF HostSays
    <3>4. Seq(Orders(hostSeq, epoch)) \subseteq Seq(Orders(hostSeq', epoch'))
      BY <1>0, <3>3, Widens
    <3>5. /\ \A c \in Clients : Range(down'[c]) \subseteq Range(down[c]) \cup {x}
          /\ \A p \in Players : Range(toGame'[p]) \subseteq Range(toGame[p]) \cup Range(ms)
      <4>1. \A q, r \in Seq(Orders(hostSeq', epoch')) : Range(q \o r) = Range(q) \cup Range(r)
        BY RangeOfQueues
      <4>2. Range(<<x>>) = {x} /\ <<x>> \in Seq(Orders(hostSeq', epoch'))
        BY <3>2, ShortRanges, ShortTyped
      <4>3. \A c \in Clients : Range(down[c] \o <<x>>) = Range(down[c]) \cup {x}
        BY <1>0, <3>4, <4>1, <4>2
      <4>4. Range(toGame[Host] \o ms) = Range(toGame[Host]) \cup Range(ms)
        BY <1>0, <3>2, <3>4, <4>1
      <4> QED BY <1>0, <3>2, <4>3, <4>4
    <3>6. Range(ms) \subseteq {x} \/ \A y \in Range(ms) : y = x \/ y.type # "resume"
      <4>1. /\ Range(<<>>) = {} /\ (\A y : Range(<<y>>) = {y}) /\ (\A y, z : Range(<<y, z>>) = {y, z})
        BY ShortRanges
      <4>2. \A f : Msg("prepare", f, f).type = "prepare" /\ Msg("begin", f, f).type = "begin"
        BY DEF Msg
      <4> QED BY <3>2, <4>1, <4>2 DEF HostSays
    <3>7. Resume'.type = "resume" /\ Resume'.epoch = epoch'
      BY DEF Resume, Msg
    <3>8. \/ \E p \in Players : Resume' \in Range(toGame[p])
          \/ \E c \in Clients : Resume' \in Range(down[c])
          \/ Resume' = x
      BY <3>5, <3>6, <3>7 DEF ResumeIsOut
    <3>9. CASE Resume' = x
      <4>1. x.type = "resume"
        BY <3>7, <3>9
      <4>2. epoch' = epoch /\ current'.phase = "complete"
        BY <3>2, <4>1 DEF HostSays, Msg, Raw
      <4> QED BY <1>5, <4>2
    <3>10. CASE \/ \E p \in Players : Resume' \in Range(toGame[p])
                \/ \E c \in Clients : Resume' \in Range(down[c])
      <4>1. Resume' \in Orders(hostSeq, epoch)
        <5>1. \A q \in Seq(Orders(hostSeq, epoch)) : Range(q) \subseteq Orders(hostSeq, epoch)
          BY RangeOfQueues
        <5> QED BY <1>0, <3>10, <5>1
      <4>2. epoch' \in 0..epoch
        BY <1>0, <3>7, <4>1, OrderKinds
      <4>3. epoch' = epoch
        BY <1>0, <3>3, <4>2
      <4>4. ResumeIsOut
        BY <3>10, <4>3 DEF ResumeIsOut, Resume
      <4> QED BY <1>4, <1>6, <4>3, <4>4
    <3> QED BY <3>8, <3>9, <3>10
  <2> QED BY <2>1, <2>2, <2>3
<1>8. ASSUME epoch' = epoch, ResumeIsOut PROVE Earned'
  BY <1>4, <1>6, <1>8
<1>9. CASE \E d \in Clients : Join(d)
  <2>1. PICK d \in Clients : Join(d)
    BY <1>9
  <2>2. epoch' = epoch /\ down' = down /\ toGame' = [toGame EXCEPT ![d] = <<>>]
    BY <2>1 DEF Join, coord
  <2>3. Range(<<>>) = {}
    BY ShortRanges
  <2>4. \A p \in Players : Range(toGame'[p]) \subseteq Range(toGame[p])
    BY <1>0, <2>2, <2>3
  <2>5. ResumeIsOut
    BY <2>2, <2>4 DEF ResumeIsOut, Resume
  <2> QED BY <1>8, <2>2, <2>5
<1>10. CASE \E d \in Clients : Sidecar(d)
  <2>1. epoch' = epoch
    BY <1>10, SidecarSteps DEF SidecarStep, elsewhere
  <2> QED BY <1>8, <1>10, <2>1, SidecarsEarn
<1>11. CASE \E p \in Players : Game(p) \/ SpinUp(p)
  <2>1. epoch' = epoch
    BY <1>11, GameSteps, SpinUpSteps DEF GameStep, elsewhere
  <2> QED BY <1>8, <1>11, <2>1, GamesEarn
<1>12. CASE (\E p \in Players : RequestTravel(p)) \/ HostDistributes \/ UNCHANGED sysVars
  <2>1. UNCHANGED <<epoch, toGame, down>>
    BY <1>12 DEF RequestTravel, HostDistributes, sysVars, coord
  <2>2. ResumeIsOut
    BY <2>1 DEF ResumeIsOut, Resume
  <2> QED BY <1>8, <2>1, <2>2
<1> QED BY <1>7, <1>9, <1>10, <1>11, <1>12 DEF SystemNext

(* Nobody is told to resume the newest travel before it is over and all who *)
(* take part in it have reported their zones; and while the message is on   *)
(* its way that stays so (_travel_zone_ready).                              *)
THEOREM NobodyResumesEarly == SystemSpec => []ResumeIsEarned
<1> DEFINE Earning == SystemShape /\ Habits /\ Inv /\ ResumeIsEarned
<1>1. SystemInit => Earning
  <2> SUFFICES ASSUME SystemInit PROVE Earning
    OBVIOUS
  <2>1. \A p \in Players : Range(toGame[p]) = {}
    BY ShortRanges DEF SystemInit
  <2>2. \A c \in Clients : Range(down[c]) = {}
    BY ShortRanges DEF SystemInit
  <2>3. ResumeIsEarned
    BY <2>1, <2>2, EarnedIs DEF ResumeIsOut
  <2> QED BY <2>3, ShapeInit, InitInv DEF SystemInit
<1>2. Earning /\ [SystemNext]_sysVars => Earning'
  BY ShapeSteps, EarnedSteps
<1>3. Earning => ResumeIsEarned
  OBVIOUS
<1> QED BY <1>1, <1>2, <1>3, PTL DEF SystemSpec

-----------------------------------------------------------------------------
(* Why a view message of an open travel waits in the sidecar *)

Early(m, e) == m.type = "raw" /\ m.epoch = e
NoneEarly(q, e) == \A i \in 1..Len(q) : ~Early(q[i], e)

(* Buffering for travel e; or the proposal that will start it is on its way, *)
(* before any view message of that travel.                                   *)
Waits(b, e) == b.travel_epoch = e /\ b.buffering
AnnouncedIn(q, e) == \E i \in 1..Len(q) : /\ q[i].type = "propose" /\ q[i].epoch = e
                                          /\ \A j \in 1..i : ~Early(q[j], e)
HoldsBack(t, b, q, e) ==
  NoneEarly(t, e) /\ (Waits(b, e) \/ (b.travel_epoch < e /\ AnnouncedIn(q, e)))

Prepared == \A c \in Clients : ~Free(current) /\ c \in current.participants
                                 => HoldsBack(toGame[c], sidecar[c], down[c], epoch)

LEMMA EarlyQueues ==
  ASSUME NEW S, NEW q \in Seq(S), NEW e
  PROVE  /\ NoneEarly(<<>>, e)
         /\ \A r \in Seq(S) : NoneEarly(q, e) /\ NoneEarly(r, e) => NoneEarly(q \o r, e)
         /\ \A r \in Seq(S) : AnnouncedIn(q, e) => AnnouncedIn(q \o r, e)
         /\ \A x \in S : x.type = "propose" /\ x.epoch = e /\ NoneEarly(q, e) => AnnouncedIn(q \o <<x>>, e)
         /\ q # <<>> => /\ NoneEarly(q, e) => NoneEarly(Tail(q), e)
                        /\ AnnouncedIn(q, e) =>
                             /\ ~Early(Head(q), e)
                             /\ \/ Head(q).type = "propose" /\ Head(q).epoch = e
                                \/ AnnouncedIn(Tail(q), e)
<1>1. ASSUME NEW r \in Seq(S)
      PROVE  /\ NoneEarly(q, e) /\ NoneEarly(r, e) => NoneEarly(q \o r, e)
             /\ AnnouncedIn(q, e) => AnnouncedIn(q \o r, e)
  <2>1. /\ \A k \in 1..Len(q \o r) : \/ k \in 1..Len(q) /\ (q \o r)[k] = q[k]
                                     \/ k - Len(q) \in 1..Len(r) /\ (q \o r)[k] = r[k - Len(q)]
        /\ \A k \in 1..Len(q) : k \in 1..Len(q \o r) /\ (q \o r)[k] = q[k]
        /\ Len(q) \in Nat
    BY PartsOfQueue
  <2>2. NoneEarly(q, e) /\ NoneEarly(r, e) => NoneEarly(q \o r, e)
    BY <2>1 DEF NoneEarly
  <2>3. ASSUME AnnouncedIn(q, e) PROVE AnnouncedIn(q \o r, e)
    <3>1. PICK i \in 1..Len(q) : /\ q[i].type = "propose" /\ q[i].epoch = e
                                 /\ \A j \in 1..i : ~Early(q[j], e)
      BY <2>3 DEF AnnouncedIn
    <3>2. \A j \in 1..i : j \in 1..Len(q)
      BY <2>1
    <3>3. \A j \in 1..i : ~Early((q \o r)[j], e)
      BY <2>1, <3>1, <3>2
    <3> QED BY <2>1, <3>1, <3>3 DEF AnnouncedIn
  <2> QED BY <2>2, <2>3
<1>2. ASSUME NEW x \in S, x.type = "propose", x.epoch = e, NoneEarly(q, e)
      PROVE  AnnouncedIn(q \o <<x>>, e)
  <2> DEFINE r == <<x>>
             i == Len(q) + 1
  <2>1. r \in Seq(S) /\ Len(r) = 1 /\ r[1] = x /\ NoneEarly(r, e)
    <3>1. r \in Seq(S) /\ Len(r) = 1 /\ r[1] = x
      OBVIOUS
    <3>2. ~Early(x, e)
      BY <1>2 DEF Early
    <3> HIDE DEF r
    <3>3. \A k \in 1..Len(r) : k = 1
      BY <3>1
    <3> QED BY <3>1, <3>2, <3>3 DEF NoneEarly
  <2>2. NoneEarly(q \o r, e)
    BY <1>1, <1>2, <2>1
  <2>3. i \in 1..Len(q \o r) /\ (q \o r)[i] = x /\ \A j \in 1..i : j \in 1..Len(q \o r)
    <3> HIDE DEF r
    <3>1. \A t \in Seq(S) :
             /\ \A k \in 1..Len(t) : Len(q) + k \in 1..Len(q \o t) /\ (q \o t)[Len(q) + k] = t[k]
             /\ Len(q \o t) = Len(q) + Len(t) /\ Len(q) \in Nat
      BY PartsOfQueue
    <3>2. /\ \A k \in 1..1 : Len(q) + k \in 1..Len(q \o r) /\ (q \o r)[Len(q) + k] = r[k]
          /\ Len(q \o r) = Len(q) + 1 /\ Len(q) \in Nat
      BY <2>1, <3>1
    <3> QED BY <2>1, <3>2
  <2> HIDE DEF r, i
  <2>4. AnnouncedIn(q \o r, e)
    BY <1>2, <2>2, <2>3 DEF AnnouncedIn, NoneEarly
  <2> QED BY <2>4 DEF r
<1>3. ASSUME q # <<>>
      PROVE  /\ NoneEarly(q, e) => NoneEarly(Tail(q), e)
             /\ AnnouncedIn(q, e) =>
                  /\ ~Early(Head(q), e)
                  /\ \/ Head(q).type = "propose" /\ Head(q).epoch = e
                     \/ AnnouncedIn(Tail(q), e)
  <2>1. /\ Head(q) = q[1] /\ 1 \in 1..Len(q) /\ Len(q) \in Nat
        /\ \A k \in 1..Len(Tail(q)) : k + 1 \in 1..Len(q) /\ Tail(q)[k] = q[k + 1]
        /\ \A k \in 1..Len(q) : k = 1 \/ (k - 1 \in 1..Len(Tail(q)) /\ Tail(q)[k - 1] = q[k])
    BY <1>3, TailOfQueue
  <2>2. NoneEarly(q, e) => NoneEarly(Tail(q), e)
    BY <2>1 DEF NoneEarly
  <2>3. ASSUME AnnouncedIn(q, e)
        PROVE  /\ ~Early(Head(q), e)
               /\ \/ Head(q).type = "propose" /\ Head(q).epoch = e
                  \/ AnnouncedIn(Tail(q), e)
    <3>1. PICK i \in 1..Len(q) : /\ q[i].type = "propose" /\ q[i].epoch = e
                                 /\ \A j \in 1..i : ~Early(q[j], e)
      BY <2>3 DEF AnnouncedIn
    <3>2. 1 \in 1..i /\ i \in Nat
      BY <2>1
    <3>3. CASE i = 1
      BY <2>1, <3>1, <3>2, <3>3
    <3>4. CASE i # 1
      <4>1. i - 1 \in 1..Len(Tail(q)) /\ Tail(q)[i - 1] = q[i]
        BY <2>1, <3>4
      <4>2. \A j \in 1..(i - 1) : j \in 1..Len(Tail(q)) /\ j + 1 \in 1..i
        BY <2>1, <3>2, <4>1
      <4>3. \A j \in 1..(i - 1) : ~Early(Tail(q)[j], e)
        BY <2>1, <3>1, <4>2
      <4> QED BY <2>1, <3>1, <3>2, <4>1, <4>3 DEF AnnouncedIn
    <3> QED BY <3>3, <3>4
  <2> QED BY <2>2, <2>3
<1> QED BY <1>1, <1>2, <1>3 DEF NoneEarly

(* A sidecar that holds back goes on doing so until its RESUME comes. *)
LEMMA SidecarsHoldBack ==
  ASSUME SystemShape, Habits, NEW c \in Clients, Sidecar(c),
         HoldsBack(toGame[c], sidecar[c], down[c], epoch),
         Resume \notin Range(down[c])
  PROVE  HoldsBack(toGame'[c], sidecar'[c], down'[c], epoch')
<1> DEFINE n == hostSeq
           e == epoch
           b == sidecar[c]
           q == down[c]
           S == Orders(n, e)
<1>0. /\ n \in Nat /\ e \in Nat /\ c \in Players
      /\ toGame[c] \in Seq(S) /\ q \in Seq(S) /\ b.buffer \in Seq(S)
      /\ b.travel_epoch \in 0..e /\ b.buffering \in BOOLEAN
      /\ \A i \in 1..Len(b.buffer) : b.buffer[i].epoch = b.travel_epoch
      /\ down \in [Clients -> Seq(S)] /\ toGame \in [Players -> Seq(S)]
      /\ sidecar \in [Clients -> SidecarState(n, e)] /\ b \in SidecarState(n, e)
  BY QueuesOfClient DEF SidecarState, SystemShape, Habits, Lawful
<1>1. PICK m, s, out : SidecarStep(c, m, s, out) /\ SidecarDoes(b, m, s, out)
  BY SidecarSteps
<1>2. /\ q # <<>> /\ m = Head(q) /\ down' = [down EXCEPT ![c] = Tail(@)]
      /\ toGame' = [toGame EXCEPT ![c] = @ \o out] /\ sidecar' = [sidecar EXCEPT ![c] = s] /\ epoch' = epoch
  BY <1>1 DEF SidecarStep, elsewhere
<1>3. m \in S /\ m \in Range(q) /\ m.epoch \in 0..e
  <2>1. m \in S /\ m \in Range(q)
    BY <1>0, <1>2, TailOfQueue, RangeOfQueues
  <2> QED BY <1>0, <2>1, OrderKinds
<1>4. toGame'[c] = toGame[c] \o out /\ sidecar'[c] = s /\ down'[c] = Tail(q)
  BY <1>0, <1>2
<1>5. ~(m.type = "resume" /\ m.epoch = e)
  <2> SUFFICES ASSUME m.type = "resume", m.epoch = e PROVE FALSE
    OBVIOUS
  <2>1. m = Msg("resume", e, e)
    BY <1>0, <1>3, OrderKinds
  <2> QED BY <1>3, <2>1 DEF Resume
<1>6. NoneEarly(toGame[c], e) /\ (Waits(b, e) \/ (b.travel_epoch < e /\ AnnouncedIn(q, e)))
  BY DEF HoldsBack
<1> HIDE DEF n, e, b, q, S
<1>7. ~Waits(b, e) => /\ b.travel_epoch < e /\ ~Early(m, e)
                      /\ \/ m.type = "propose" /\ m.epoch = e
                         \/ AnnouncedIn(Tail(q), e)
  BY <1>0, <1>2, <1>6, EarlyQueues
<1>8. Waits(b, e) => b.travel_epoch = e /\ b.buffering
  BY DEF Waits
<1>9. \/ Waits(s, e)
      \/ s.travel_epoch < e /\ AnnouncedIn(Tail(q), e)
  <2>1. CASE SidecarIgnores(b, m, s, out)
    BY <1>0, <1>3, <1>7, <2>1 DEF SidecarIgnores
  <2>2. CASE SidecarPrepares(b, m, s, out)
    <3>1. s.travel_epoch = m.epoch /\ s.buffering
      BY <1>0, <2>2 DEF SidecarPrepares, SidecarState
    <3>2. ~(m.epoch <= b.travel_epoch)
      BY <2>2 DEF SidecarPrepares
    <3>3. ~Waits(b, e)
      BY <1>0, <1>3, <1>8, <3>2
    <3>4. m.epoch = e \/ m.epoch < e
      BY <1>0, <1>3
    <3> QED BY <1>7, <3>1, <3>3, <3>4 DEF Waits
  <2>3. CASE SidecarBatches(b, m, s, out)
    <3>1. s.travel_epoch = b.travel_epoch /\ (b.buffering => s.buffering) /\ m.type # "propose"
      BY <1>0, <2>3 DEF SidecarBatches, SidecarState
    <3> QED BY <1>7, <3>1 DEF Waits
  <2>4. CASE SidecarFlushes(b, m, s, out)
    <3>1. s.travel_epoch = b.travel_epoch /\ m.type # "propose"
      BY <1>0, <2>4 DEF SidecarFlushes, SidecarState
    <3>2. ~Waits(b, e)
      BY <1>5, <1>8, <2>4 DEF SidecarFlushes
    <3> QED BY <1>7, <3>1, <3>2
  <2>5. CASE SidecarPasses(b, m, s, out)
    BY <1>7, <2>5 DEF SidecarPasses
  <2>6. CASE SidecarHolds(b, m, s, out)
    <3>1. s.travel_epoch = b.travel_epoch /\ s.buffering = b.buffering /\ m.type # "propose"
      BY <1>0, <2>6 DEF SidecarHolds, SidecarState
    <3> QED BY <1>7, <3>1 DEF Waits
  <2>7. CASE SidecarShows(b, m, s, out)
    <3>1. s.travel_epoch = b.travel_epoch /\ s.buffering = b.buffering /\ m.type # "propose"
      BY <1>0, <2>7 DEF SidecarShows, SidecarState
    <3> QED BY <1>7, <3>1 DEF Waits
  <2> QED BY <1>1, <2>1, <2>2, <2>3, <2>4, <2>5, <2>6, <2>7 DEF SidecarDoes
<1>10. out \in Seq(S) /\ NoneEarly(out, e)
  <2>0. /\ <<>> \in Seq(S) /\ NoneEarly(<<>>, e) /\ <<m>> \in Seq(S)
        /\ \A x : ~Early(x, e) => NoneEarly(<<x>>, e)
    <3>1. <<>> \in Seq(S) /\ NoneEarly(<<>>, e) /\ <<m>> \in Seq(S)
      BY <1>0, <1>3, EarlyQueues, ShortTyped
    <3>2. ASSUME NEW x, ~Early(x, e) PROVE NoneEarly(<<x>>, e)
      BY <3>2 DEF NoneEarly
    <3> QED BY <3>1, <3>2
  <2>1. CASE SidecarIgnores(b, m, s, out) \/ SidecarHolds(b, m, s, out)
    BY <2>0, <2>1 DEF SidecarIgnores, SidecarHolds
  <2>2. CASE SidecarPrepares(b, m, s, out)
    <3>1. m.type = "propose" /\ out = <<[m EXCEPT !.type = "prepare"]>> /\ m \in Control(e) /\ m.epoch \in 1..e
      BY <1>0, <1>3, <2>2, OrderKinds DEF SidecarPrepares, S
    <3>2. [m EXCEPT !.type = "prepare"] = Msg("prepare", m.epoch, m.epoch) /\ "prepare" \in ControlType
      <4>1. "prepare" \in ControlType
        BY DEF ControlType
      <4>2. \A z \in Control(e), t \in ControlType : [z EXCEPT !.type = t] = Msg(t, z.epoch, z.epoch)
        BY <1>0, NewOrders
      <4> QED BY <3>1, <4>1, <4>2
    <3> DEFINE y == Msg("prepare", m.epoch, m.epoch)
    <3>3. y \in S /\ y.type = "prepare"
      BY <1>0, <3>1, <3>2, NewOrders DEF S
    <3>4. out = <<y>> /\ ~Early(y, e)
      BY <3>1, <3>2, <3>3 DEF Early
    <3> HIDE DEF y
    <3> QED BY <2>0, <3>3, <3>4, ShortTyped
  <2>3. CASE SidecarBatches(b, m, s, out) \/ SidecarPasses(b, m, s, out)
    <3>1. out = <<m>> /\ ~Early(m, e)
      BY <2>3 DEF SidecarBatches, SidecarPasses, Early
    <3> QED BY <2>0, <3>1
  <2>4. CASE SidecarFlushes(b, m, s, out)
    <3>1. out = b.buffer \o <<m>> /\ ~Early(m, e)
      BY <1>0, <1>3, <2>4, OneMore DEF SidecarFlushes, Early
    <3>2. b.travel_epoch # e
      BY <1>5, <2>4 DEF SidecarFlushes
    <3>3. NoneEarly(b.buffer, e)
      BY <1>0, <3>2 DEF NoneEarly, Early
    <3>4. NoneEarly(<<m>>, e)
      BY <2>0, <3>1
    <3> QED BY <1>0, <2>0, <3>1, <3>3, <3>4, EarlyQueues, PartsOfQueue
  <2>5. CASE SidecarShows(b, m, s, out)
    <3>1. out = <<m>> /\ ~b.buffering
      BY <2>5 DEF SidecarShows
    <3>2. ~Early(m, e)
      BY <1>7, <1>8, <3>1
    <3> QED BY <2>0, <3>1, <3>2
  <2> QED BY <1>1, <2>1, <2>2, <2>3, <2>4, <2>5 DEF SidecarDoes
<1>11. NoneEarly(toGame[c] \o out, e)
  BY <1>0, <1>6, <1>10, EarlyQueues
<1> QED BY <1>2, <1>4, <1>9, <1>11 DEF HoldsBack, e

(* A travel that is over stays so until the next one is proposed. *)
LEMMA FreeStays ==
  ASSUME Inv, Inv', [Next]_vars, epoch' = epoch
  PROVE  /\ Free(current) => Free(current')
         /\ current'.participants \subseteq current.participants
<1>1. /\ current.epoch = epoch /\ current'.epoch = epoch' /\ current.phase \in Phase /\ current'.phase \in Phase
      /\ epoch \in Nat
  BY DEF Inv, TypeOK, TravelTxn
<1>2. Rank[current'.phase] >= Rank[current.phase] /\ current'.participants \subseteq current.participants
  BY <1>1, OneWayStep
<1>3. current.phase = "idle" => current'.phase = "idle"
  <2> SUFFICES ASSUME current.phase = "idle", current'.phase # "idle" PROVE FALSE
    OBVIOUS
  <2>1. current = NoTxn /\ current'.epoch \in Epochs
    BY DEF Inv, Bookkeeping
  <2> QED BY <1>1, <2>1 DEF NoTxn, Epochs
<1>4. current.phase \in Finished => current'.phase \in Finished
  BY <1>1, <1>2 DEF Finished, Phase, Rank
<1> QED BY <1>2, <1>3, <1>4 DEF Free

LEMMA PreparedSteps ==
  ASSUME SystemShape, Habits, Inv, TakesPart, ResumeIsEarned, Prepared, [SystemNext]_sysVars
  PROVE  Prepared'
<1>i. TypeOK /\ [Next]_vars /\ Inv' /\ TakesPart' /\ SystemShape'
  <2>1. TypeOK
    BY DEF Inv
  <2> QED BY <2>1, CoordinatorSteps, StepInv, TakesPartSteps, ShapeSteps
<1> SUFFICES ASSUME NEW c \in Clients, ~Free(current'), c \in current'.participants
             PROVE  HoldsBack(toGame'[c], sidecar'[c], down'[c], epoch')
  BY DEF Prepared, Free
<1>0. /\ c \in Players /\ c # Host /\ Host \in Players /\ epoch \in Nat /\ hostSeq \in Nat
      /\ down \in [Clients -> Seq(Orders(hostSeq, epoch))]
      /\ toGame \in [Players -> Seq(Orders(hostSeq, epoch))]
      /\ sidecar \in [Clients -> SidecarState(hostSeq, epoch)]
      /\ sidecar[c].travel_epoch \in 0..epoch
      /\ down[c] \in Seq(Orders(hostSeq, epoch)) /\ toGame[c] \in Seq(Orders(hostSeq, epoch))
  BY TravelSystemAssumption DEF Clients, SystemShape, SidecarState
<1>1. c \in session'
  BY <1>i DEF TakesPart, Free
<1>2. ASSUME epoch' = epoch
      PROVE  /\ HoldsBack(toGame[c], sidecar[c], down[c], epoch)
             /\ ~Free(current) /\ c \in current.participants /\ c \in session
  BY <1>2, <1>i, FreeStays DEF Prepared, TakesPart
<1>3. ASSUME epoch' = epoch, toGame'[c] = toGame[c], sidecar'[c] = sidecar[c], down'[c] = down[c]
      PROVE  HoldsBack(toGame'[c], sidecar'[c], down'[c], epoch')
  BY <1>2, <1>3
<1>4. CASE HostCoroutines \/ HostNext \/ \E d \in Clients : Disconnect(d)
  <2>1. sidecar' = sidecar /\ (HostIsSilent \/ \E x, ms : HostTells(x, ms))
    BY <1>4, HostSends
  <2>2. CASE HostIsSilent
    BY <1>1, <1>3, <2>1, <2>2 DEF HostIsSilent
  <2>3. CASE \E x, ms : HostTells(x, ms)
    <3>1. PICK x, ms : HostTells(x, ms)
      BY <2>3
    <3>2. /\ x \in Orders(hostSeq', epoch') /\ HostSays(x, ms)
          /\ down'[c] = down[c] \o <<x>> /\ toGame'[c] = toGame[c]
      BY <1>0, <1>1, <3>1 DEF HostTells, Broadcast, ToHostGame
    <3>3. /\ hostSeq' \in Nat /\ epoch' \in Nat /\ hostSeq <= hostSeq' /\ epoch <= epoch'
      BY <1>0, <3>2 DEF HostSays
    <3>4. /\ down[c] \in Seq(Orders(hostSeq', epoch')) /\ toGame[c] \in Seq(Orders(hostSeq', epoch'))
          /\ <<x>> \in Seq(Orders(hostSeq', epoch'))
      BY <1>0, <3>2, <3>3, Widens, ShortTyped
    <3>5. CASE epoch' = epoch
      <4>1. \/ Waits(sidecar[c], epoch)
            \/ sidecar[c].travel_epoch < epoch /\ AnnouncedIn(down[c] \o <<x>>, epoch)
        BY <1>2, <3>4, <3>5, EarlyQueues DEF HoldsBack
      <4> QED BY <1>2, <2>1, <3>2, <3>5, <4>1 DEF HoldsBack
    <3>6. CASE epoch' # epoch
      <4>1. x = Msg("propose", epoch', epoch') /\ epoch' = epoch + 1
        BY <3>2, <3>6 DEF HostSays
      <4>2. x.type = "propose" /\ x.epoch = epoch'
        BY <4>1 DEF Msg
      <4>3. ASSUME NEW q \in Seq(Orders(hostSeq, epoch)) PROVE NoneEarly(q, epoch')
        <5>1. \A i \in 1..Len(q) : q[i] \in Orders(hostSeq, epoch)
          BY ElementOfSeq
        <5>2. \A i \in 1..Len(q) : q[i].epoch \in 0..epoch
          BY <1>0, <5>1, OrderKinds
        <5>3. epoch' \notin 0..epoch
          BY <1>0, <4>1
        <5> QED BY <5>2, <5>3 DEF NoneEarly, Early
      <4>4. AnnouncedIn(down[c] \o <<x>>, epoch')
        <5>1. NoneEarly(down[c], epoch')
          BY <1>0, <4>3
        <5> QED BY <3>2, <3>4, <4>2, <5>1, EarlyQueues
      <4>5. NoneEarly(toGame[c], epoch') /\ sidecar[c].travel_epoch < epoch'
        BY <1>0, <4>1, <4>3
      <4> QED BY <2>1, <3>2, <4>4, <4>5 DEF HoldsBack
    <3> QED BY <3>5, <3>6
  <2> QED BY <2>1, <2>2, <2>3
<1>5. CASE \E d \in Clients : Join(d)
  <2>1. PICK d \in Clients : Join(d)
    BY <1>5
  <2>2. /\ epoch' = epoch /\ d \notin session /\ down' = down
        /\ toGame' = [toGame EXCEPT ![d] = <<>>] /\ sidecar' = [sidecar EXCEPT ![d] = FreshSidecar]
    BY <2>1 DEF Join, coord
  <2>3. d # c
    BY <1>2, <2>2
  <2> QED BY <1>0, <1>3, <2>2, <2>3
<1>6. CASE \E d \in Clients : Sidecar(d)
  <2>1. PICK d \in Clients : Sidecar(d)
    BY <1>6
  <2>2. PICK m, s, out : SidecarStep(d, m, s, out)
    BY <2>1, SidecarSteps
  <2>3. epoch' = epoch
    BY <2>2 DEF SidecarStep, elsewhere
  <2>4. CASE d = c
    <3>1. Resume \notin Range(down[c])
      <4>1. ~(current.phase \in Finished)
        BY <1>2, <2>3 DEF Free
      <4>2. ~ResumeIsOut
        BY <4>1, EarnedIs DEF Earned
      <4> QED BY <4>2 DEF ResumeIsOut
    <3> QED BY <1>2, <2>1, <2>3, <2>4, <3>1, SidecarsHoldBack
  <2>5. CASE d # c
    BY <1>0, <1>3, <2>2, <2>3, <2>5 DEF SidecarStep
  <2> QED BY <2>4, <2>5
<1>7. CASE \E p \in Players : Game(p) \/ SpinUp(p)
  <2>1. PICK p \in Players : Game(p) \/ SpinUp(p)
    BY <1>7
  <2>2. PICK g, ms : /\ GameStep(p, g, ms)
                     /\ \/ toGame' = toGame
                        \/ toGame[p] # <<>> /\ toGame' = [toGame EXCEPT ![p] = Tail(@)]
    BY <2>1, GameSteps, SpinUpSteps DEF GameTakes
  <2>3. epoch' = epoch /\ sidecar' = sidecar /\ down' = down
    BY <2>2 DEF GameStep, elsewhere
  <2>4. CASE toGame'[c] = toGame[c]
    BY <1>3, <2>3, <2>4
  <2>5. CASE toGame[c] # <<>> /\ toGame'[c] = Tail(toGame[c])
    <3>1. HoldsBack(toGame[c], sidecar[c], down[c], epoch)
      BY <1>2, <2>3
    <3>2. NoneEarly(Tail(toGame[c]), epoch)
      BY <1>0, <2>5, <3>1, EarlyQueues DEF HoldsBack
    <3> QED BY <2>3, <2>5, <3>1, <3>2 DEF HoldsBack
  <2> QED BY <1>0, <2>2, <2>4, <2>5
<1>8. CASE (\E p \in Players : RequestTravel(p)) \/ HostDistributes \/ UNCHANGED sysVars
  BY <1>3, <1>8 DEF RequestTravel, HostDistributes, sysVars, coord
<1> QED BY <1>4, <1>5, <1>6, <1>7, <1>8 DEF SystemNext

(* No view message of a travel that is still under way gets past the        *)
(* sidecar of a client that takes part in it: buffering is on before the    *)
(* first of them comes, because the proposal goes ahead of it on the same   *)
(* connection, and it is lifted only by the RESUME of that very travel      *)
(* (buffer_view_updates, the epoch checks of _on_network_message).          *)
THEOREM ClientsHoldTheView == SystemSpec => []TravelPacketsWait
<1> DEFINE Holding == SystemShape /\ Habits /\ Inv /\ TakesPart /\ ResumeIsEarned /\ Prepared
<1>1. SystemInit => Holding
  <2> SUFFICES ASSUME SystemInit PROVE Holding
    OBVIOUS
  <2>1. SystemShape /\ Habits /\ Inv
    BY ShapeInit, InitInv DEF SystemInit
  <2>2. current.phase = "idle" /\ Free(current)
    BY DEF SystemInit, Init, NoTxn, Free
  <2>3. ResumeIsEarned
    <3>1. \A p \in Players : Range(toGame[p]) = {}
      BY ShortRanges DEF SystemInit
    <3>2. \A c \in Clients : Range(down[c]) = {}
      BY ShortRanges DEF SystemInit
    <3> QED BY <3>1, <3>2, EarnedIs DEF ResumeIsOut
  <2> QED BY <2>1, <2>2, <2>3 DEF TakesPart, Prepared
<1>2. Holding /\ [SystemNext]_sysVars => Holding'
  BY ShapeSteps, TakesPartSteps, EarnedSteps, PreparedSteps, CoordinatorSteps, StepInv DEF Inv
<1>3. Holding => TravelPacketsWait
  <2> SUFFICES ASSUME Holding, NEW c \in Clients, NEW m \in Range(toGame[c]), m.type = "raw", m.epoch # None,
                      ~(m.epoch < epoch), current.phase \notin Finished, c \in current.participants
               PROVE  FALSE
    BY DEF TravelPacketsWait
  <2>1. toGame[c] \in Seq(Orders(hostSeq, epoch)) /\ epoch \in Nat /\ hostSeq \in Nat
    BY DEF SystemShape, Clients
  <2>2. PICK i \in 1..Len(toGame[c]) : m = toGame[c][i]
    BY <2>1, LenProperties DEF Range
  <2>3. m.epoch \in 0..epoch
    BY <2>1, <2>2, ElementOfSeq, OrderKinds
  <2>4. m.epoch = epoch /\ epoch # 0
    BY <2>1, <2>3 DEF None
  <2>5. ~Free(current)
    BY <2>4 DEF Inv, TypeOK, Bookkeeping, NoTxn, Free
  <2>6. NoneEarly(toGame[c], epoch)
    BY <2>5 DEF Prepared, HoldsBack
  <2> QED BY <2>2, <2>4, <2>6 DEF NoneEarly, Early
<1> QED BY <1>1, <1>2, <1>3, PTL DEF SystemSpec

-----------------------------------------------------------------------------
(* How far the host's part of a travel is, through every step *)

(* What the host process takes off the queue of its own game, and what it   *)
(* adds to the bridge, as far as HostStage looks at it.                     *)
LEMMA StageOfQueues ==
  ASSUME SystemShape, TypeOK
  PROVE  /\ \A p \in Players : up[p] # <<>> /\ Consume(p) =>
              /\ NoReportIn(up[Host], epoch) => NoReportIn(up'[Host], epoch)
              /\ p # Host => up'[Host] = up[Host]
         /\ up[Host] # <<>> /\ NoReportIn(up[Host], epoch) =>
              ~(Head(up[Host]).type \in {"zone_ready", "abort"} /\ Head(up[Host]).epoch = epoch)
         /\ \A f \in 1..epoch, t \in ControlType : ToHostGame(<<Msg(t, f, f)>>) /\ t # "commit" =>
              /\ NoCommitIn(toGame[Host]) => NoCommitIn(toGame'[Host])
              /\ OneCommitIn(toGame[Host], epoch) => OneCommitIn(toGame'[Host], epoch)
         /\ NoReportIn(up[Host], epoch + 1)
<1>0. /\ Host \in Players /\ epoch \in Nat /\ hostSeq \in Nat
      /\ up \in [Players -> Seq(Reports(epoch))] /\ up[Host] \in Seq(Reports(epoch))
      /\ toGame \in [Players -> Seq(Orders(hostSeq, epoch))] /\ toGame[Host] \in Seq(Orders(hostSeq, epoch))
  BY TravelSystemAssumption DEF SystemShape
<1>1. ASSUME NEW p \in Players, up[p] # <<>>, Consume(p)
      PROVE  /\ NoReportIn(up[Host], epoch) => NoReportIn(up'[Host], epoch)
             /\ p # Host => up'[Host] = up[Host]
  <2>1. up' = [up EXCEPT ![p] = Tail(@)]
    BY <1>1 DEF Consume
  <2>2. NoReportIn(up[Host], epoch) /\ up[Host] # <<>> => NoReportIn(Tail(up[Host]), epoch)
    BY <1>0, StageQueues
  <2> QED BY <1>0, <1>1, <2>1, <2>2
<1>2. up[Host] # <<>> /\ NoReportIn(up[Host], epoch) =>
        ~(Head(up[Host]).type \in {"zone_ready", "abort"} /\ Head(up[Host]).epoch = epoch)
  BY <1>0, StageQueues
<1>3. ASSUME NEW f \in 1..epoch, NEW t \in ControlType, ToHostGame(<<Msg(t, f, f)>>), t # "commit"
      PROVE  /\ NoCommitIn(toGame[Host]) => NoCommitIn(toGame'[Host])
             /\ OneCommitIn(toGame[Host], epoch) => OneCommitIn(toGame'[Host], epoch)
  <2> DEFINE y == Msg(t, f, f)
             r == <<y>>
  <2>1. y \in Orders(hostSeq, epoch) /\ y.type # "commit"
    BY <1>0, <1>3, NewOrders
  <2>2. toGame'[Host] = toGame[Host] \o r
    BY <1>0, <1>3 DEF ToHostGame
  <2> HIDE DEF y
  <2>3. r \in Seq(Orders(hostSeq, epoch)) /\ NoCommitIn(r)
    BY <2>1 DEF NoCommitIn
  <2> HIDE DEF r
  <2> QED BY <1>0, <2>2, <2>3, StageQueues
<1>4. NoReportIn(up[Host], epoch + 1)
  <2>1. \A i \in 1..Len(up[Host]) : up[Host][i] \in Reports(epoch)
    BY <1>0, ElementOfSeq
  <2>2. \A i \in 1..Len(up[Host]) : up[Host][i].epoch \in 0..epoch
    BY <1>0, <2>1, ReportKinds
  <2>3. epoch + 1 \notin 0..epoch
    BY <1>0
  <2> QED BY <2>2, <2>3 DEF NoReportIn
<1> QED BY <1>1, <1>2, <1>3, <1>4

(* Neither a departure nor what another player reports ends the travel while *)
(* the host has not reported.                                                *)
LEMMA CallsKeepOpen ==
  ASSUME Inv, TakesPart, TakesPart'
  PROVE  /\ \A c \in Clients : Drop(c) =>
              /\ epoch' = epoch
              /\ Open /\ NoReport => Open'
              /\ Host \notin current.zone_ready => Host \notin current'.zone_ready
              /\ current'.phase = "waiting_ready" => current.phase = "waiting_ready"
         /\ \A p \in Clients : \A t, e : MarkZoneReady(p, t, e) =>
              /\ epoch' = epoch
              /\ Open /\ NoReport => Open'
              /\ Host \notin current.zone_ready => Host \notin current'.zone_ready
              /\ current'.phase # "waiting_ready"
<1>1. ASSUME NEW c \in Clients, Drop(c)
      PROVE  /\ epoch' = epoch
             /\ Open /\ NoReport => Open'
             /\ Host \notin current.zone_ready => Host \notin current'.zone_ready
             /\ current'.phase = "waiting_ready" => current.phase = "waiting_ready"
  <2>1. c \in Players
    BY DEF Clients
  <2>2. CASE UNCHANGED vars
    BY <2>2 DEF vars, Open
  <2>3. CASE RemoveParticipant(c)
    <3>1. /\ epoch' = epoch
          /\ current'.zone_ready = current.zone_ready \ {c}
          /\ \/ current.phase = "waiting_ready" /\ current'.phase \in {"waiting_ready", "committed"}
             \/ Open /\ current'.phase \in {"committed", "waiting_zone_ready"}
             \/ Open /\ current'.phase = "complete" /\ current'.zone_ready = current'.participants
      BY <2>3, CallsOfCoordinator
    <3>2. current'.phase = "complete" => Host \in current'.participants
      BY DEF TakesPart
    <3> QED BY <3>1, <3>2 DEF Open, NoReport
  <2> QED BY <1>1, <2>1, <2>2, <2>3, DropStep
<1>2. ASSUME NEW p \in Clients, NEW t, NEW e, MarkZoneReady(p, t, e)
      PROVE  /\ epoch' = epoch
             /\ Open /\ NoReport => Open'
             /\ Host \notin current.zone_ready => Host \notin current'.zone_ready
             /\ current'.phase # "waiting_ready"
  <2>1. /\ epoch' = epoch
        /\ current'.phase \in {"waiting_zone_ready", "complete"}
        /\ current'.participants = current.participants
        /\ current'.zone_ready = current.zone_ready \cup ({p} \cap current.participants)
        /\ current'.phase = "complete" => current'.zone_ready = current.participants
    BY <1>2, CallsOfCoordinator
  <2>2. current'.phase = "complete" => Host \in current'.participants
    BY DEF TakesPart
  <2>3. p # Host
    BY DEF Clients
  <2> QED BY <2>1, <2>2, <2>3 DEF Open, NoReport
<1> QED BY <1>1, <1>2

LEMMA StageSteps ==
  ASSUME SystemShape, Habits, Inv, TakesPart, HostStage, [SystemNext]_sysVars
  PROVE  HostStage'
<1>i. TypeOK /\ [Next]_vars /\ Inv' /\ TakesPart'
  <2>1. TypeOK
    BY DEF Inv
  <2> QED BY <2>1, CoordinatorSteps, StepInv, TakesPartSteps
<1>0. /\ Host \in Players /\ epoch \in Nat /\ hostSeq \in Nat
      /\ up \in [Players -> Seq(Reports(epoch))] /\ up[Host] \in Seq(Reports(epoch))
      /\ toGame \in [Players -> Seq(Orders(hostSeq, epoch))] /\ toGame[Host] \in Seq(Orders(hostSeq, epoch))
      /\ game \in [Players -> GameState(hostSeq, epoch)]
      /\ committing \subseteq [by : Players, epoch : 1..epoch, sent : BOOLEAN]
      /\ current.phase # "waiting_ready" \/ ~Open
      /\ Host \notin Clients
  BY TravelSystemAssumption DEF SystemShape, Open, Clients
(* With the coordinator and the host's part as they are, queues may lose what does not count. *)
<1>1. ASSUME current' = current, epoch' = epoch, committing' = committing, game'[Host] = game[Host],
             NoCommitIn(toGame[Host]) => NoCommitIn(toGame'[Host]),
             OneCommitIn(toGame[Host], epoch) => OneCommitIn(toGame'[Host], epoch),
             NoReportIn(up[Host], epoch) => NoReportIn(up'[Host], epoch)
      PROVE  HostStage'
  <2>1. (NoReport => NoReport') /\ (Open => Open')
    BY <1>1, NoReportKept DEF Open
  <2> QED BY <1>1, <2>1, StageKept
(* A client is dropped. *)
<1>2. ASSUME NEW c \in Clients, Drop(c), \A task \in committing' : ~task.sent => task \in committing,
             toGame' = toGame, game' = game
      PROVE  HostStage'
  <2>1. up'[Host] = up[Host]
    BY <1>0, <1>2 DEF Drop
  <2>2. /\ epoch' = epoch
        /\ Open /\ NoReport => Open'
        /\ Host \notin current.zone_ready => Host \notin current'.zone_ready
        /\ current'.phase = "waiting_ready" => current.phase = "waiting_ready"
    BY <1>i, <1>2, CallsKeepOpen
  <2>3. NoReport => NoReport'
    BY <2>1, <2>2, NoReportKept
  <2> QED BY <1>2, <2>1, <2>2, <2>3, StageKept
<1>3. ASSUME NEW p \in Players, StartTravel(p) PROVE HostStage'
  <2>1. /\ up[p] # <<>> /\ Consume(p) /\ Propose(session) /\ committing' = committing /\ game' = game
        /\ ToHostGame(<<Msg("prepare", epoch', epoch')>>)
    BY <1>3 DEF StartTravel, Reads, hostVars
  <2>2. /\ epoch' = epoch + 1 /\ ~Open /\ current'.phase = "waiting_ready" /\ current'.zone_ready = {}
    BY <2>1, CallsOfCoordinator DEF Open
  <2>3. (\A task \in committing : task.sent) /\ NoCommitIn(toGame[Host]) /\ NoLoading
    BY <2>2 DEF HostStage
  <2>4. NoCommitIn(toGame'[Host])
    <3> DEFINE y == Msg("prepare", epoch', epoch')
               r == <<y>>
               S == Orders(hostSeq, epoch')
    <3>1. y \in S /\ y.type = "prepare"
      <4>1. "prepare" \in ControlType /\ epoch' \in 1..epoch' /\ epoch' \in Nat
        BY <1>0, <2>2 DEF ControlType
      <4> QED BY <1>0, <4>1, NewOrders
    <3>2. toGame'[Host] = toGame[Host] \o r /\ toGame[Host] \in Seq(S)
      <4>1. Seq(Orders(hostSeq, epoch)) \subseteq Seq(S)
        BY <1>0, <2>2, Widens
      <4> QED BY <1>0, <2>1, <4>1 DEF ToHostGame
    <3> HIDE DEF y
    <3>3. r \in Seq(S) /\ NoCommitIn(r)
      BY <3>1 DEF NoCommitIn
    <3> HIDE DEF r, S
    <3> QED BY <2>3, <3>2, <3>3, StageQueues, SMTT(40)
  <2>5. NoReportIn(up'[Host], epoch')
    <3>1. NoReportIn(up[Host], epoch')
      BY <1>i, <2>2, StageOfQueues
    <3>2. up[Host] # <<>> => NoReportIn(Tail(up[Host]), epoch')
      BY <1>0, <3>1, StageQueues
    <3> QED BY <1>0, <2>1, <3>1, <3>2 DEF Consume
  <2>6. NoLoading' /\ NoReport'
    BY <2>1, <2>2, <2>3, <2>5 DEF NoLoading, NoReport
  <2>7. OneCommitIn(toGame'[Host], epoch')
    BY <2>4 DEF NoCommitIn, OneCommitIn
  <2> QED BY <2>1, <2>3, <2>4, <2>6, <2>7 DEF HostStage
<1>4. ASSUME NEW p \in Players, RefuseTravel(p) PROVE HostStage'
  <2>1. CASE p = Host
    <3>1. /\ up[Host] # <<>> /\ Consume(Host)
          /\ UNCHANGED <<current, epoch, committing, toGame, game>>
      BY <1>4, <2>1 DEF RefuseTravel, Reads, coord
    <3>2. NoReportIn(up[Host], epoch) => NoReportIn(up'[Host], epoch)
      BY <1>0, <1>i, <3>1, StageOfQueues
    <3> QED BY <1>1, <3>1, <3>2
  <2>2. CASE p # Host
    <3>1. p \in Clients /\ Drop(p) /\ UNCHANGED <<committing, toGame, game>>
      BY <1>4, <2>2 DEF RefuseTravel, Clients
    <3> QED BY <1>2, <3>1
  <2> QED BY <2>1, <2>2
<1>5. ASSUME NEW p \in Players, TravelReady(p) PROVE HostStage'
  <2> DEFINE t == Head(up[p]).txn_id
             e == Head(up[p]).epoch
  <2>1. /\ up[p] # <<>> /\ Consume(p) /\ UNCHANGED <<toGame, game>>
        /\ \/ UNCHANGED <<current, epoch, committing>>
           \/ MarkReady(p, t, e) /\ current'.phase # "committed" /\ committing' = committing
           \/ /\ MarkReady(p, t, e) /\ current'.phase = "committed"
              /\ committing' = committing \cup {[by |-> p, epoch |-> epoch, sent |-> FALSE]}
    BY <1>5 DEF TravelReady, Reads, Refused, coord
  <2> HIDE DEF t, e
  <2>2. NoReportIn(up[Host], epoch) => NoReportIn(up'[Host], epoch)
    BY <1>0, <1>i, <2>1, StageOfQueues
  <2>3. CASE UNCHANGED <<current, epoch, committing>>
    BY <1>1, <2>1, <2>2, <2>3
  <2>4. CASE MarkReady(p, t, e)
    <3>1. /\ epoch' = epoch /\ current.phase = "waiting_ready"
          /\ current'.phase \in {"waiting_ready", "committed"} /\ current'.zone_ready = current.zone_ready
      BY <2>4, CallsOfCoordinator
    <3>2. NoCommitIn(toGame[Host]) /\ NoLoading /\ NoReport /\ \A task \in committing : task.sent
      BY <3>1 DEF HostStage, Open
    <3>3. NoCommitIn(toGame'[Host]) /\ NoLoading' /\ NoReport'
      BY <2>1, <2>2, <3>1, <3>2 DEF NoLoading, NoReport
    <3>4. OneCommitIn(toGame'[Host], epoch')
      BY <3>3 DEF NoCommitIn, OneCommitIn
    <3>5. CASE committing' = committing
      BY <3>2, <3>3, <3>4, <3>5 DEF HostStage
    <3>6. CASE /\ current'.phase = "committed"
               /\ committing' = committing \cup {[by |-> p, epoch |-> epoch, sent |-> FALSE]}
      <4>1. Open'
        BY <3>6 DEF Open
      <4>2. \A task \in committing' : ~task.sent => task = [by |-> p, epoch |-> epoch, sent |-> FALSE]
        BY <3>2, <3>6
      <4>3. \A task \in committing' : ~task.sent => task.epoch = epoch'
        BY <3>1, <4>2
      <4>4. \A t1, t2 \in committing' : ~t1.sent /\ ~t2.sent => t1 = t2
        BY <4>2
      <4>5. current'.phase # "waiting_ready"
        BY <3>6
      <4> QED BY <3>3, <3>4, <4>1, <4>3, <4>4, <4>5 DEF HostStage
    <3> QED BY <2>1, <2>4, <3>1, <3>5, <3>6
  <2> QED BY <2>1, <2>3, <2>4
<1>6. ASSUME NEW task \in committing, SendCommit(task) PROVE HostStage'
  <2> DEFINE f == task.epoch
             u == Msg("begin", f, f)
             x == Msg("commit", f, f)
             r == <<u, x>>
             S == Orders(hostSeq, epoch)
  <2>1. /\ ~task.sent /\ committing' = (committing \ {task}) \cup {[task EXCEPT !.sent = TRUE]}
        /\ toGame'[Host] = toGame[Host] \o r
        /\ UNCHANGED <<current, epoch, up, game>>
    BY <1>0, <1>6 DEF SendCommit, ToHostGame, coord
  <2>2. /\ f = epoch /\ Open /\ NoCommitIn(toGame[Host]) /\ NoLoading /\ NoReport
        /\ \A other \in committing : ~other.sent => other = task
    BY <2>1 DEF HostStage
  <2>3. u \in S /\ x \in S /\ u.type = "begin" /\ x.type = "commit" /\ x.epoch = f
    <3>1. f \in 1..epoch /\ "begin" \in ControlType /\ "commit" \in ControlType
      BY <1>0 DEF ControlType
    <3> HIDE DEF f
    <3> QED BY <1>0, <3>1, NewOrders
  <2> HIDE DEF f, u, x
  <2>4. /\ r \in Seq(S) /\ Len(r) = 2 /\ r[1] = u /\ r[2] = x
    <3>1. r \in Seq(S)
      BY <2>3, ShortTyped
    <3>2. Len(r) = 2 /\ r[1] = u /\ r[2] = x
      OBVIOUS
    <3> QED BY <3>1, <3>2
  <2>a. toGame[Host] \in Seq(S)
    BY <1>0
  <2> HIDE DEF r, S
  <2>5. OneCommitIn(r, epoch)
    <3>1. \A i \in 1..Len(r) : i = 1 \/ i = 2
      BY <2>4
    <3> QED BY <2>2, <2>3, <2>4, <3>1 DEF OneCommitIn
  <2>6. OneCommitIn(toGame'[Host], epoch')
    <3>1. OneCommitIn(toGame[Host] \o r, epoch)
      BY <2>a, <2>2, <2>4, <2>5, StageQueues
    <3> QED BY <2>1, <3>1
  <2>7. Open' /\ NoLoading' /\ NoReport' /\ current'.phase # "waiting_ready"
    BY <1>0, <2>1, <2>2 DEF Open, NoLoading, NoReport
  <2>8. [task EXCEPT !.sent = TRUE].sent
    BY <1>0
  <2>9. \A other \in committing' : other.sent
    BY <1>0, <2>1, <2>2, <2>8
  <2> QED BY <2>6, <2>7, <2>9 DEF HostStage
<1>7. ASSUME NEW task \in committing, AwaitZones(task) PROVE HostStage'
  <2>1. /\ UNCHANGED <<toGame, game>> /\ committing' = committing \ {task}
        /\ \/ BeginZoneWait(task.epoch) /\ up' = up
           \/ task.by \in session \ {Host} /\ Drop(task.by)
           \/ UNCHANGED <<current, epoch, up>>
    BY <1>7 DEF AwaitZones, coord
  <2>2. CASE BeginZoneWait(task.epoch) /\ up' = up
    <3>1. /\ epoch' = epoch /\ current'.phase = "waiting_zone_ready" /\ current'.zone_ready = current.zone_ready
      BY <2>2, CallsOfCoordinator
    <3>2. (NoReport => NoReport') /\ Open'
      BY <2>2, <3>1, NoReportKept DEF Open
    <3> QED BY <2>1, <3>1, <3>2, StageKept
  <2>3. CASE task.by \in session \ {Host} /\ Drop(task.by)
    <3>1. task.by \in Clients
      BY <2>3 DEF SystemShape, Clients
    <3> QED BY <1>2, <2>1, <2>3, <3>1
  <2>4. CASE UNCHANGED <<current, epoch, up>>
    <3>1. (NoReport => NoReport') /\ (Open => Open')
      BY <2>4, NoReportKept DEF Open
    <3> QED BY <2>1, <2>4, <3>1, StageKept
  <2> QED BY <2>1, <2>2, <2>3, <2>4
<1>8. ASSUME NEW p \in Players, TravelZoneReady(p) PROVE HostStage'
  <2> DEFINE t == Head(up[p]).txn_id
             e == Head(up[p]).epoch
  <2>1. /\ up[p] # <<>> /\ Head(up[p]).type = "zone_ready" /\ Consume(p) /\ UNCHANGED <<committing, game>>
        /\ \/ UNCHANGED <<current, epoch, toGame>>
           \/ /\ t # None /\ MarkZoneReady(p, t, e)
              /\ toGame' = toGame \/ ToHostGame(<<Msg("resume", t, e)>>)
    BY <1>8 DEF TravelZoneReady, Reads, Refused, coord, hostVars
  <2>2. t # None => t = e /\ e \in 1..epoch
    BY <1>i, <2>1, NextReport
  <2>3. NoReportIn(up[Host], epoch) => NoReportIn(up'[Host], epoch)
    BY <1>0, <1>i, <2>1, StageOfQueues
  <2>4. p = Host /\ NoReportIn(up[Host], epoch) => e # epoch
    BY <1>i, <2>1, StageOfQueues
  <2> HIDE DEF t, e
  <2>5. CASE UNCHANGED <<current, epoch, toGame>>
    BY <1>1, <2>1, <2>3, <2>5
  <2>6. CASE t # None /\ MarkZoneReady(p, t, e) /\ (toGame' = toGame \/ ToHostGame(<<Msg("resume", t, e)>>))
    <3>1. epoch' = epoch /\ t = epoch /\ e = epoch /\ Open /\ current'.phase \in {"waiting_zone_ready", "complete"}
      BY <2>2, <2>6, CallsOfCoordinator
    <3>2. /\ NoCommitIn(toGame[Host]) => NoCommitIn(toGame'[Host])
          /\ OneCommitIn(toGame[Host], epoch) => OneCommitIn(toGame'[Host], epoch)
      <4>1. "resume" \in ControlType
        BY DEF ControlType
      <4> QED BY <1>i, <2>2, <2>6, <3>1, <4>1, StageOfQueues
    <3>3. CASE p = Host
      <4>1. ~NoReport
        BY <2>4, <3>1, <3>3 DEF NoReport
      <4>2. (\A task \in committing : task.sent) /\ NoCommitIn(toGame[Host]) /\ NoLoading
        BY <4>1 DEF HostStage
      <4>3. NoCommitIn(toGame'[Host]) /\ NoLoading' /\ OneCommitIn(toGame'[Host], epoch')
        BY <2>1, <3>1, <3>2, <4>2 DEF NoLoading, HostStage
      <4> QED BY <2>1, <3>1, <4>2, <4>3 DEF HostStage
    <3>4. CASE p # Host
      <4>1. p \in Clients
        BY <3>4 DEF Clients
      <4>2. /\ Open /\ NoReport => Open'
            /\ Host \notin current.zone_ready => Host \notin current'.zone_ready
            /\ current'.phase # "waiting_ready"
        BY <1>i, <2>6, <4>1, CallsKeepOpen
      <4>3. NoReport => NoReport'
        BY <2>3, <3>1, <4>2, NoReportKept
      <4> QED BY <2>1, <3>1, <3>2, <4>2, <4>3, StageKept
    <3> QED BY <3>3, <3>4
  <2> QED BY <2>1, <2>5, <2>6
<1>9. ASSUME ViewBatchEnd \/ RawMessage PROVE HostStage'
  <2> DEFINE f == Head(up[Host]).epoch
  <2>1. /\ up[Host] # <<>> /\ Consume(Host) /\ UNCHANGED <<current, epoch, committing, game>>
        /\ \/ toGame' = toGame
           \/ Head(up[Host]).type = "end" /\ ToHostGame(<<Msg("end", f, f)>>)
    BY <1>9 DEF ViewBatchEnd, RawMessage, Reads, coord, hostVars
  <2>2. NoReportIn(up[Host], epoch) => NoReportIn(up'[Host], epoch)
    BY <1>0, <1>i, <2>1, StageOfQueues
  <2>3. Head(up[Host]).type = "end" => f \in 1..epoch
    BY <1>0, <1>i, <2>1, NextReport
  <2> HIDE DEF f
  <2>4. /\ NoCommitIn(toGame[Host]) => NoCommitIn(toGame'[Host])
        /\ OneCommitIn(toGame[Host], epoch) => OneCommitIn(toGame'[Host], epoch)
    <3>1. "end" \in ControlType
      BY DEF ControlType
    <3> QED BY <1>i, <2>1, <2>3, <3>1, StageOfQueues
  <2> QED BY <1>1, <2>1, <2>2, <2>4
<1>10. ASSUME TravelAbort PROVE HostStage'
  <2> DEFINE f == Head(up[Host]).epoch
  <2>1. /\ up[Host] # <<>> /\ Head(up[Host]).type = "abort" /\ Consume(Host)
        /\ UNCHANGED <<committing, toGame, game>>
        /\ UNCHANGED <<current, epoch>> \/ Abort(f)
    BY <1>10 DEF TravelAbort, Reads, coord, hostVars
  <2>2. NoReportIn(up[Host], epoch) => NoReportIn(up'[Host], epoch)
    BY <1>0, <1>i, <2>1, StageOfQueues
  <2>3. NoReportIn(up[Host], epoch) => f # epoch
    BY <1>i, <2>1, StageOfQueues
  <2> HIDE DEF f
  <2>4. CASE UNCHANGED <<current, epoch>>
    BY <1>1, <2>1, <2>2, <2>4
  <2>5. CASE Abort(f)
    <3>1. epoch' = epoch /\ f = epoch /\ current'.phase = "aborted"
      BY <2>5, CallsOfCoordinator
    <3>2. ~NoReport
      BY <2>3, <3>1 DEF NoReport
    <3>3. (\A task \in committing : task.sent) /\ NoCommitIn(toGame[Host]) /\ NoLoading
      BY <3>2 DEF HostStage
    <3> QED BY <2>1, <3>1, <3>3 DEF HostStage, NoLoading
  <2> QED BY <2>1, <2>4, <2>5
<1>11. CASE HostCoroutines
  BY <1>6, <1>7, <1>11 DEF HostCoroutines
<1>12. CASE HostNext
  BY <1>3, <1>4, <1>5, <1>8, <1>9, <1>10, <1>12 DEF HostNext
<1>13. CASE \E c \in Clients : Disconnect(c)
  BY <1>2, <1>13 DEF Disconnect
<1>14. CASE \E c \in Clients : Join(c)
  <2>1. PICK c \in Clients : Join(c)
    BY <1>14
  <2>2. /\ UNCHANGED <<current, epoch, committing, up, game>> /\ toGame' = [toGame EXCEPT ![c] = <<>>]
    BY <2>1 DEF Join, coord
  <2>3. toGame'[Host] = toGame[Host]
    BY <1>0, <2>2
  <2> QED BY <1>1, <2>2, <2>3
<1>15. CASE \E c \in Clients : Sidecar(c)
  BY <1>15, SidecarsKeepStage
<1>16. CASE \E p \in Players : Game(p) \/ SpinUp(p)
  BY <1>16, GamesKeepStage
<1>17. CASE (\E p \in Players : RequestTravel(p)) \/ HostDistributes
  <2>1. UNCHANGED <<current, epoch, committing, toGame, game>>
    BY <1>17 DEF RequestTravel, HostDistributes, coord, hostVars
  <2>2. \/ up' = up
        \/ \E p \in Players, t \in {"request", "raw"} : up' = [up EXCEPT ![p] = @ \o <<Msg(t, None, None)>>]
    BY <1>0, <1>17 DEF RequestTravel, HostDistributes, Emit
  <2>3. NoReportIn(up[Host], epoch) => NoReportIn(up'[Host], epoch)
    <3>1. ASSUME NEW p \in Players, NEW t \in {"request", "raw"},
                 up' = [up EXCEPT ![p] = @ \o <<Msg(t, None, None)>>],
                 NoReportIn(up[Host], epoch)
          PROVE  NoReportIn(up'[Host], epoch)
      <4> DEFINE y == Msg(t, None, None)
                 r == <<y>>
                 S == Reports(epoch) \cup {y}
      <4>1. y.type \notin {"zone_ready", "abort"}
        BY DEF Msg
      <4>2. up'[Host] \in {up[Host], up[Host] \o r}
        BY <1>0, <3>1
      <4> HIDE DEF y
      <4>3. r \in Seq(S) /\ NoReportIn(r, epoch)
        BY <4>1 DEF NoReportIn
      <4>4. up[Host] \in Seq(S)
        BY <1>0, SeqMonotonic
      <4> HIDE DEF r, S
      <4>5. NoReportIn(up[Host] \o r, epoch)
        BY <3>1, <4>3, <4>4, StageQueues
      <4> QED BY <3>1, <4>2, <4>5
    <3> QED BY <2>2, <3>1
  <2> QED BY <1>1, <2>1, <2>3
<1>18. CASE UNCHANGED sysVars
  BY <1>1, <1>18 DEF sysVars, coord, hostVars
<1> QED BY <1>11, <1>12, <1>13, <1>14, <1>15, <1>16, <1>17, <1>18 DEF SystemNext

-----------------------------------------------------------------------------
(* The order of travels: no game is ever taken back to an earlier one *)

MoveEpoch(m) == IF m.type \in {"propose", "prepare", "commit"} THEN m.epoch ELSE 0
MoveEpochs == [m \in AnyOrder |-> MoveEpoch(m)]
Moves(ms) == Along(MoveEpochs, ms)

Leq == {w \in Nat \X Nat : w[1] <= w[2]}

(* A game of travel v, with q on its bridge and r on its way to the sidecar *)
Chain(v, q, r) == Pipe(Leq, <<v>>, <<>>, Moves(q), <<>>, Moves(r))

Behind(p) == IF p = Host THEN <<>> ELSE down[p]
Chains == \A p \in Players : /\ Chain(game[p].epoch, toGame[p], Behind(p))
                             /\ game[p].loading <= game[p].epoch /\ game[p].zone <= game[p].epoch

LEMMA MovesOfQueue ==
  ASSUME NEW n \in Nat, NEW e \in Nat
  PROVE  /\ \A q \in Seq(Orders(n, e)) :
              /\ Moves(q) \in Seq(Nat) /\ Moves(q) \in Seq(0..e)
              /\ q # <<>> => /\ Moves(q) # <<>> /\ Moves(Tail(q)) = Tail(Moves(q))
                             /\ Head(Moves(q)) = MoveEpoch(Head(q))
         /\ \A q, r \in Seq(Orders(n, e)) : Moves(q \o r) = Moves(q) \o Moves(r)
         /\ Moves(<<>>) = <<>>
         /\ \A m \in Orders(n, e) : Moves(<<m>>) = <<MoveEpoch(m)>> /\ MoveEpoch(m) \in 0..e
<1>0. Orders(n, e) \subseteq AnyOrder
  BY OrderKinds
<1>1. MoveEpochs \in [AnyOrder -> Nat] /\ \A m \in AnyOrder : MoveEpochs[m] = MoveEpoch(m)
  <2>1. \A m \in AnyOrder : MoveEpoch(m) \in Nat
    BY DEF AnyOrder, MoveEpoch, ControlType
  <2> QED BY <2>1 DEF MoveEpochs
<1>2. \A q \in Seq(Orders(n, e)) : q \in Seq(AnyOrder)
  BY <1>0, SeqMonotonic
<1>3. \A m \in Orders(n, e) : m \in AnyOrder /\ MoveEpoch(m) \in 0..e
  <2>1. 0 \in 0..e
    OBVIOUS
  <2> QED BY <1>0, <2>1, OrderKinds DEF MoveEpoch
<1>4. \A x, y \in Seq(AnyOrder) : Along(MoveEpochs, x \o y) = Along(MoveEpochs, x) \o Along(MoveEpochs, y)
  BY <1>1, AlongConcat
<1>5. \A q \in Seq(AnyOrder) :
        /\ Along(MoveEpochs, q) \in Seq(Nat) /\ Len(Along(MoveEpochs, q)) = Len(q)
        /\ q # <<>> => /\ Along(MoveEpochs, q) # <<>>
                       /\ Along(MoveEpochs, Tail(q)) = Tail(Along(MoveEpochs, q))
                       /\ Head(Along(MoveEpochs, q)) = MoveEpochs[Head(q)]
        /\ Along(MoveEpochs, <<>>) = <<>>
        /\ \A x \in AnyOrder : Along(MoveEpochs, <<x>>) = <<MoveEpochs[x]>>
  BY <1>1, AlongParts
<1>6. <<>> \in Seq(AnyOrder)
  OBVIOUS
<1>7. ASSUME NEW q \in Seq(Orders(n, e)) PROVE Moves(q) \in Seq(0..e)
  <2>1. \A i \in 1..Len(q) : MoveEpochs[q[i]] \in 0..e
    <3>1. \A i \in 1..Len(q) : q[i] \in Orders(n, e)
      BY ElementOfSeq
    <3> QED BY <1>1, <1>3, <3>1
  <2>2. Len(q) \in Nat
    BY LenProperties
  <2> QED BY <2>1, <2>2 DEF Moves, Along
<1>8. ASSUME NEW q \in Seq(Orders(n, e)), q # <<>>
      PROVE  /\ Moves(q) # <<>> /\ Moves(Tail(q)) = Tail(Moves(q))
             /\ Head(Moves(q)) = MoveEpoch(Head(q))
  <2>1. Head(q) \in AnyOrder /\ q \in Seq(AnyOrder)
    BY <1>2, <1>3, <1>8, TailOfQueue
  <2> QED BY <1>1, <1>5, <1>8, <2>1 DEF Moves
<1>9. Moves(<<>>) = <<>> /\ \A m \in Orders(n, e) : Moves(<<m>>) = <<MoveEpoch(m)>>
  <2>1. \A m \in Orders(n, e) : Moves(<<m>>) = <<MoveEpochs[m]>>
    BY <1>3, <1>5, <1>6 DEF Moves
  <2>2. Moves(<<>>) = <<>>
    BY <1>5, <1>6 DEF Moves
  <2> QED BY <1>1, <1>3, <2>1, <2>2
<1>10. \A q \in Seq(Orders(n, e)) : Moves(q) \in Seq(Nat)
  BY <1>2, <1>5 DEF Moves
<1>11. \A q, r \in Seq(Orders(n, e)) : Moves(q \o r) = Moves(q) \o Moves(r)
  BY <1>2, <1>4 DEF Moves
<1> QED BY <1>3, <1>7, <1>8, <1>9, <1>10, <1>11

(* What may happen to a chain *)
LEMMA ChainTakes ==
  ASSUME NEW n \in Nat, NEW e \in Nat, NEW v \in Nat,
         NEW q \in Seq(Orders(n, e)), NEW r \in Seq(Orders(n, e)), Chain(v, q, r)
  PROVE  /\ Chain(v, <<>>, r) /\ Chain(v, q, <<>>)
         /\ q # <<>> => /\ Chain(v, Tail(q), r)
                        /\ MoveEpoch(Head(q)) # 0 => /\ v <= MoveEpoch(Head(q))
                                                     /\ Chain(MoveEpoch(Head(q)), Tail(q), r)
         /\ r # <<>> => /\ Chain(v, q, Tail(r))
                        /\ \A x \in Orders(n, e) : MoveEpoch(x) = MoveEpoch(Head(r))
                              => Chain(v, q \o <<x>>, Tail(r))
         /\ \A z \in Seq(Orders(n, e)) : Values(Moves(z)) = {} => Chain(v, q \o z, r)
<1> DEFINE A == <<v>>
           C == Moves(q)
           E == Moves(r)
           N == <<>>
<1>0. A \in Seq(Nat) /\ N \in Seq(Nat) /\ C \in Seq(Nat) /\ E \in Seq(Nat) /\ Moves(<<>>) = N
  BY MovesOfQueue
<1>1. Pipe(Leq, A, N, C, N, E)
  BY DEF Chain
<1>2. /\ Shrinks(Leq, A, A) /\ Shrinks(Leq, N, N) /\ Shrinks(Leq, C, C) /\ Shrinks(Leq, E, E)
      /\ Shrinks(Leq, C, N) /\ Shrinks(Leq, E, N)
  BY <1>0, ZerosShrink
<1> HIDE DEF C, E, A, N
<1>3. Pipe(Leq, A, N, N, N, E) /\ Pipe(Leq, A, N, C, N, N)
  BY <1>1, <1>2, PipeShrinks
<1>4. Chain(v, <<>>, r) /\ Chain(v, q, <<>>)
  BY <1>0, <1>3 DEF Chain, A, C, E, N
<1>5. ASSUME q # <<>>
      PROVE  /\ Chain(v, Tail(q), r)
             /\ MoveEpoch(Head(q)) # 0 => /\ v <= MoveEpoch(Head(q))
                                          /\ Chain(MoveEpoch(Head(q)), Tail(q), r)
  <2> DEFINE h == MoveEpoch(Head(q))
  <2>1. C # <<>> /\ Moves(Tail(q)) = Tail(C) /\ Head(C) = h
    BY <1>5, MovesOfQueue DEF C
  <2>2. Shrinks(Leq, C, Tail(C)) /\ h \in Nat /\ Tail(C) \in Seq(Nat)
    BY <1>0, <2>1, ValuesOfTail, TailOfQueue
  <2>3. Pipe(Leq, A, N, Tail(C), N, E)
    BY <1>1, <1>2, <2>2, PipeShrinks
  <2>4. Pipe(Leq, A, N \o <<h>>, Tail(C), N, E)
    BY <1>0, <1>1, <2>1, PipeMoves
  <2> HIDE DEF h
  <2>5. N \o <<h>> = <<h>>
    <3>1. <<h>> \in Seq(Nat)
      BY <2>2
    <3> QED BY <3>1, ConcatEmptySeq DEF N
  <2>6. Pipe(Leq, A, <<h>>, Tail(C), N, E)
    BY <2>4, <2>5
  <2>7. Pipe(Leq, <<h>>, N, Tail(C), N, E)
    <3>1. Ordered(Leq, N) /\ Values(N) = {}
      BY ShortQueues DEF N
    <3> QED BY <2>6, <3>1 DEF Pipe, Below
  <2>8. h # 0 => v <= h
    <3>1. Values(A) = {v} \ {0} /\ Values(<<h>>) = {h} \ {0}
      BY ShortQueues DEF A
    <3>2. v # 0 /\ h # 0 => <<v, h>> \in Leq
      BY <2>6, <3>1 DEF Pipe, Below
    <3> QED BY <2>2, <3>2 DEF Leq
  <2> QED BY <2>1, <2>3, <2>7, <2>8 DEF Chain, A, E, N, h
<1>6. ASSUME r # <<>>
      PROVE  /\ Chain(v, q, Tail(r))
             /\ \A x \in Orders(n, e) : MoveEpoch(x) = MoveEpoch(Head(r)) => Chain(v, q \o <<x>>, Tail(r))
  <2> DEFINE h == MoveEpoch(Head(r))
  <2>1. E # <<>> /\ Moves(Tail(r)) = Tail(E) /\ Head(E) = h
    BY <1>6, MovesOfQueue DEF E
  <2>2. Shrinks(Leq, E, Tail(E)) /\ h \in Nat /\ Tail(E) \in Seq(Nat)
    BY <1>0, <2>1, ValuesOfTail, TailOfQueue
  <2>3. Pipe(Leq, A, N, C, N, Tail(E))
    BY <1>1, <1>2, <2>2, PipeShrinks
  <2>4. Pipe(Leq, A, N, C, N \o <<h>>, Tail(E))
    BY <1>0, <1>1, <2>1, PipeMoves
  <2> HIDE DEF h
  <2>5. N \o <<h>> = <<h>> /\ <<h>> \in Seq(Nat)
    <3>1. <<h>> \in Seq(Nat)
      BY <2>2
    <3> QED BY <3>1, ConcatEmptySeq DEF N
  <2>6. Pipe(Leq, A, N, C, <<h>>, Tail(E))
    BY <2>4, <2>5
  <2>7. Pipe(Leq, A, N, C \o <<h>>, <<>>, Tail(E))
    BY <1>0, <2>2, <2>5, <2>6, PipeMoves
  <2>8. ASSUME NEW x \in Orders(n, e), MoveEpoch(x) = h PROVE Moves(q \o <<x>>) = C \o <<h>>
    <3>1. <<x>> \in Seq(Orders(n, e)) /\ Moves(<<x>>) = <<h>>
      BY <2>8, MovesOfQueue, ShortTyped
    <3>2. Moves(q \o <<x>>) = C \o Moves(<<x>>)
      BY <3>1, MovesOfQueue DEF C
    <3> QED BY <3>1, <3>2
  <2>9. Chain(v, q, Tail(r))
    BY <2>1, <2>3 DEF Chain, A, C, N
  <2>10. ASSUME NEW x \in Orders(n, e), MoveEpoch(x) = h PROVE Chain(v, q \o <<x>>, Tail(r))
    BY <2>1, <2>7, <2>8, <2>10 DEF Chain, A, N
  <2> QED BY <2>9, <2>10 DEF h
<1>7. ASSUME NEW z \in Seq(Orders(n, e)), Values(Moves(z)) = {} PROVE Chain(v, q \o z, r)
  <2> DEFINE Z == Moves(z)
  <2>1. Z \in Seq(Nat) /\ Moves(q \o z) = C \o Z
    BY MovesOfQueue DEF C
  <2> HIDE DEF Z
  <2>2. Ordered(Leq, Z)
    BY <1>7 DEF Ordered, Values, Z
  <2>3. Below(Leq, C, Z) /\ Values(Z) = {}
    BY <1>7 DEF Below, Z
  <2>4. Shrinks(Leq, C, C \o Z)
    BY <1>0, <2>1, <2>2, <2>3, ValuesOfParts DEF Shrinks
  <2>5. Pipe(Leq, A, N, C \o Z, N, E)
    BY <1>1, <1>2, <2>4, PipeShrinks
  <2> QED BY <2>1, <2>5 DEF Chain, A, E, N
<1> QED BY <1>4, <1>5, <1>6, <1>7

(* What is sent last is for the newest travel, or moves no game. *)
LEMMA ChainGrows ==
  ASSUME NEW n \in Nat, NEW e \in Nat, NEW v \in 0..e,
         NEW q \in Seq(Orders(n, e)), NEW r \in Seq(Orders(n, e)), Chain(v, q, r),
         NEW x \in Orders(n, e), MoveEpoch(x) \in {0, e}
  PROVE  /\ Chain(v, q, r \o <<x>>)
         /\ r = <<>> => Chain(v, q \o <<x>>, r)
<1> DEFINE A == <<v>>
           C == Moves(q)
           E == Moves(r)
           N == <<>>
           h == MoveEpoch(x)
<1>0. /\ A \in Seq(0..e) /\ N \in Seq(0..e) /\ C \in Seq(0..e) /\ E \in Seq(0..e) /\ Moves(<<>>) = N
      /\ A \in Seq(Nat) /\ N \in Seq(Nat) /\ C \in Seq(Nat) /\ E \in Seq(Nat) /\ h \in Nat /\ h \in {0, e}
  BY MovesOfQueue
<1>1. Pipe(Leq, A, N, C, N, E)
  BY DEF Chain
<1>2. /\ <<x>> \in Seq(Orders(n, e)) /\ Moves(<<x>>) = <<h>>
  BY MovesOfQueue, ShortTyped
<1>3. Moves(r \o <<x>>) = E \o <<h>> /\ Moves(q \o <<x>>) = C \o <<h>>
  <2>1. Moves(r \o <<x>>) = E \o Moves(<<x>>) /\ Moves(q \o <<x>>) = C \o Moves(<<x>>)
    BY <1>2, MovesOfQueue
  <2> QED BY <1>2, <2>1
<1> HIDE DEF A, C, E, h
<1>4. ASSUME NEW s \in Seq(0..e) PROVE Below(Leq, s, <<h>>)
  <2>1. \A y \in Values(s) : y \in 0..e
    BY ElementOfSeq DEF Values
  <2>2. Values(<<h>>) = {h} \ {0}
    BY ShortQueues
  <2>3. \A y \in 0..e : <<y, e>> \in Leq
    BY DEF Leq
  <2> QED BY <1>0, <2>1, <2>2, <2>3 DEF Below
<1>5. \A s \in {A, N, C, E} : Below(Leq, s, <<h>>)
  BY <1>0, <1>4
<1> HIDE DEF N
<1>6. Pipe(Leq, A, N, C, N, E \o <<h>>) /\ (Values(N) = {} /\ Values(E) = {} => Pipe(Leq, A, N, C \o <<h>>, N, E))
  BY <1>0, <1>1, <1>5, PipeGrows
<1>7. Chain(v, q, r \o <<x>>)
  BY <1>3, <1>6 DEF Chain, A, C, N
<1>8. ASSUME r = <<>> PROVE Chain(v, q \o <<x>>, r)
  <2>1. E = N
    BY <1>0, <1>8 DEF E
  <2>2. Values(N) = {}
    BY ShortQueues DEF N
  <2>3. Pipe(Leq, A, N, C \o <<h>>, N, E)
    BY <1>6, <2>1, <2>2
  <2> QED BY <1>3, <2>3 DEF Chain, A, E, N
<1> QED BY <1>7, <1>8

LEMMA SidecarsKeepChain ==
  ASSUME SystemShape, Habits, NEW c \in Clients, Sidecar(c), NEW v \in Nat,
         Chain(v, toGame[c], down[c])
  PROVE  Chain(v, toGame'[c], down'[c])
<1> DEFINE n == hostSeq
           e == epoch
           b == sidecar[c]
           q == toGame[c]
           r == down[c]
           S == Orders(n, e)
<1>0. /\ n \in Nat /\ e \in Nat /\ c \in Players
      /\ q \in Seq(S) /\ r \in Seq(S) /\ b.buffer \in Seq(S) /\ b.buffer \in Seq(Packets(n, e))
      /\ down \in [Clients -> Seq(S)] /\ toGame \in [Players -> Seq(S)]
  BY QueuesOfClient DEF SidecarState, SystemShape
<1>1. PICK m, s, out : SidecarStep(c, m, s, out) /\ SidecarDoes(b, m, s, out)
  BY SidecarSteps
<1>2. /\ r # <<>> /\ m = Head(r) /\ down'[c] = Tail(r) /\ toGame'[c] = q \o out
  BY <1>0, <1>1 DEF SidecarStep
<1>3. m \in S /\ Tail(r) \in Seq(S)
  BY <1>0, <1>2, TailOfQueue
<1>4. Chain(v, q, r)
  OBVIOUS
<1> HIDE DEF n, e, b, q, r
<1>5. ASSUME NEW x \in S, MoveEpoch(x) = MoveEpoch(m), out = <<x>>
      PROVE  Chain(v, toGame'[c], down'[c])
  <2>1. \A y \in Orders(n, e) : MoveEpoch(y) = MoveEpoch(Head(r)) => Chain(v, q \o <<y>>, Tail(r))
    BY <1>0, <1>2, <1>4, ChainTakes
  <2> QED BY <1>2, <1>5, <2>1
<1>6. ASSUME out = <<>> PROVE Chain(v, toGame'[c], down'[c])
  <2>1. Chain(v, q, Tail(r))
    BY <1>0, <1>2, <1>4, ChainTakes
  <2>2. q \o <<>> = q
    BY <1>0, ConcatEmptySeq
  <2> QED BY <1>2, <1>6, <2>1, <2>2
<1>7. CASE SidecarIgnores(b, m, s, out) \/ SidecarHolds(b, m, s, out)
  BY <1>6, <1>7 DEF SidecarIgnores, SidecarHolds
<1>8. CASE SidecarPrepares(b, m, s, out)
  <2> DEFINE x == Msg("prepare", m.epoch, m.epoch)
  <2>1. m \in Control(e) /\ m.epoch \in 1..e /\ m.type = "propose"
    BY <1>0, <1>3, <1>8, OrderKinds DEF SidecarPrepares
  <2>2. [m EXCEPT !.type = "prepare"] = x /\ x \in S /\ x.type = "prepare" /\ x.epoch = m.epoch
    <3>1. "prepare" \in ControlType
      BY DEF ControlType
    <3>2. \A z \in Control(e), t \in ControlType : [z EXCEPT !.type = t] = Msg(t, z.epoch, z.epoch)
      BY <1>0, NewOrders
    <3>3. x \in S /\ x.type = "prepare" /\ x.epoch = m.epoch
      BY <1>0, <2>1, <3>1, NewOrders
    <3> QED BY <2>1, <3>1, <3>2, <3>3
  <2> HIDE DEF x
  <2>3. MoveEpoch(x) = MoveEpoch(m) /\ out = <<x>>
    BY <1>8, <2>1, <2>2 DEF MoveEpoch, SidecarPrepares
  <2> QED BY <1>5, <2>2, <2>3
<1>9. CASE SidecarBatches(b, m, s, out) \/ SidecarPasses(b, m, s, out) \/ SidecarShows(b, m, s, out)
  <2>1. out = <<m>>
    BY <1>9 DEF SidecarBatches, SidecarPasses, SidecarShows
  <2> QED BY <1>3, <1>5, <2>1
<1>10. CASE SidecarFlushes(b, m, s, out)
  <2>1. out = b.buffer \o <<m>> /\ <<m>> \in Seq(S) /\ m.type = "resume"
    BY <1>0, <1>3, <1>10, OneMore DEF SidecarFlushes
  <2>2. out \in Seq(S)
    BY <1>0, <2>1, PartsOfQueue
  <2>3. Values(Moves(out)) = {}
    <3>1. Moves(out) = Moves(b.buffer) \o Moves(<<m>>) /\ Moves(<<m>>) = <<MoveEpoch(m)>>
      BY <1>0, <1>3, <2>1, MovesOfQueue, ZenonT(60)
    <3>2. MoveEpoch(m) = 0
      BY <2>1 DEF MoveEpoch
    <3>3. Values(Moves(b.buffer)) = {}
      <4>1. \A i \in 1..Len(b.buffer) : b.buffer[i] \in Packets(n, e)
        BY <1>0, ElementOfSeq
      <4>2. \A i \in 1..Len(b.buffer) : b.buffer[i] \in AnyOrder /\ MoveEpoch(b.buffer[i]) = 0
        BY <1>0, <4>1, OrderKinds DEF MoveEpoch
      <4>3. \A i \in 1..Len(b.buffer) : MoveEpochs[b.buffer[i]] = 0
        BY <4>2 DEF MoveEpochs
      <4>4. Len(b.buffer) \in Nat
        BY <1>0, LenProperties
      <4>5. Moves(b.buffer) = [i \in 1..Len(b.buffer) |-> 0]
        BY <4>3 DEF Moves, Along
      <4>6. Len(Moves(b.buffer)) = Len(b.buffer)
        BY <4>4, <4>5
      <4> QED BY <4>5, <4>6 DEF Values
    <3>4. Values(<<0>>) = {}
      BY ShortQueues
    <3>5. Moves(b.buffer) \in Seq(Nat) /\ <<0>> \in Seq(Nat)
      <4>1. Moves(b.buffer) \in Seq(Nat)
        BY <1>0, MovesOfQueue
      <4>2. <<0>> \in Seq(Nat)
        OBVIOUS
      <4> QED BY <4>1, <4>2
    <3>6. Values(Moves(b.buffer) \o <<0>>) = Values(Moves(b.buffer)) \cup Values(<<0>>)
      BY <3>5, ValuesOfParts
    <3> QED BY <3>1, <3>2, <3>3, <3>4, <3>6
  <2>4. Chain(v, q, Tail(r))
    BY <1>0, <1>2, <1>4, ChainTakes
  <2>5. Chain(v, q \o out, Tail(r))
    BY <1>0, <1>3, <2>2, <2>3, <2>4, ChainTakes
  <2> QED BY <1>2, <2>5
<1> QED BY <1>1, <1>7, <1>8, <1>9, <1>10 DEF SidecarDoes

LEMMA GamesKeepChain ==
  ASSUME SystemShape, NEW p \in Players, Game(p) \/ SpinUp(p),
         Chain(game[p].epoch, toGame[p], Behind(p)),
         game[p].loading <= game[p].epoch, game[p].zone <= game[p].epoch
  PROVE  /\ Chain(game'[p].epoch, toGame'[p], Behind(p)')
         /\ game'[p].loading <= game'[p].epoch /\ game'[p].zone <= game'[p].epoch
<1> DEFINE n == hostSeq
           e == epoch
           b == game[p]
           q == toGame[p]
           r == Behind(p)
<1>0. /\ n \in Nat /\ e \in Nat /\ q \in Seq(Orders(n, e)) /\ r \in Seq(Orders(n, e))
      /\ b \in GameState(n, e)
  BY DEF SystemShape, Behind, Clients
<1>1. b.epoch \in Nat /\ b.loading \in Nat /\ b.zone \in Nat
  BY <1>0 DEF GameState
<1>2. Chain(b.epoch, q, r) /\ b.loading <= b.epoch /\ b.zone <= b.epoch
  OBVIOUS
<1>3. ASSUME NEW g, NEW ms, GameStep(p, g, ms)
      PROVE  game'[p] = g /\ Behind(p)' = r
  BY <1>3 DEF GameStep, SystemShape, Behind
<1>4. CASE SpinUp(p)
  <2>1. PICK g, ms : GameStep(p, g, ms) /\ GameArrives(p, b, g, ms) /\ UNCHANGED toGame
    BY <1>4, SpinUpSteps
  <2>2. game'[p] = g /\ Behind(p)' = r /\ toGame'[p] = q
    BY <1>3, <2>1
  <2>3. g.epoch = b.epoch /\ g.loading = 0 /\ g.zone = b.loading
    BY <2>1 DEF GameArrives, None
  <2> HIDE DEF b, q, r
  <2> QED BY <1>1, <1>2, <2>2, <2>3
<1>5. CASE Game(p)
  <2>1. PICK m, g, ms : GameTakes(p, m) /\ GameStep(p, g, ms) /\ GameDoes(p, b, m, g, ms)
    BY <1>5, GameSteps
  <2>2. q # <<>> /\ m = Head(q) /\ toGame'[p] = Tail(q)
    BY <2>1 DEF GameTakes, SystemShape
  <2>3. game'[p] = g /\ Behind(p)' = r
    BY <1>3, <2>1
  <2> HIDE DEF b, q, r, n, e
  <2>4. m \in Orders(n, e)
    BY <1>0, <2>2, TailOfQueue
  <2>5. /\ Chain(b.epoch, Tail(q), r)
        /\ MoveEpoch(m) # 0 => b.epoch <= MoveEpoch(m) /\ Chain(MoveEpoch(m), Tail(q), r)
    BY <1>0, <1>1, <1>2, <2>2, ChainTakes
  <2>6. CASE GamePrepares(p, b, m, g, ms) \/ GameCommits(p, b, m, g, ms)
    <3>1. m.type \in {"prepare", "commit"} /\ g.epoch = m.epoch
      BY <2>6 DEF GamePrepares, GameCommits
    <3>2. MoveEpoch(m) = m.epoch /\ m.epoch \in 1..e
      <4>1. m.type # "raw"
        BY <3>1
      <4> QED BY <1>0, <2>4, <3>1, <4>1, OrderKinds DEF MoveEpoch
    <3>3. m.epoch # 0 /\ m.epoch \in Nat
      BY <1>0, <3>2
    <3>4. b.epoch <= m.epoch /\ Chain(m.epoch, Tail(q), r)
      BY <2>5, <3>2, <3>3
    <3>5. g.zone = b.zone /\ g.loading \in {m.epoch, b.loading}
      BY <2>6 DEF GamePrepares, GameCommits
    <3>6. g.zone <= g.epoch /\ g.loading <= g.epoch
      BY <1>1, <1>2, <3>1, <3>3, <3>4, <3>5
    <3> QED BY <2>2, <2>3, <3>1, <3>4, <3>6
  <2>7. CASE GameHydrates(p, b, m, g, ms) \/ GameAborts(p, b, m, g, ms) \/ GameShows(p, b, m, g, ms)
    <3>1. g.epoch = b.epoch /\ g.loading = b.loading /\ g.zone = b.zone
      BY <2>7 DEF GameHydrates, GameAborts, GameShows
    <3> QED BY <1>2, <2>2, <2>3, <2>5, <3>1
  <2> QED BY <2>1, <2>6, <2>7 DEF GameDoes
<1> QED BY <1>4, <1>5

(* The host process speaks of the newest travel, or of none. *)
LEMMA HostMoves ==
  ASSUME SystemShape, HostStage, NEW x, NEW ms, HostTells(x, ms)
  PROVE  /\ MoveEpoch(x) \in {0, epoch'}
         /\ \/ ms = <<>>
            \/ \E y \in Orders(hostSeq', epoch') : MoveEpoch(y) \in {0, epoch'} /\ ms = <<y>>
            \/ \E y, z \in Orders(hostSeq', epoch') :
                  MoveEpoch(y) \in {0, epoch'} /\ MoveEpoch(z) \in {0, epoch'} /\ ms = <<y, z>>
<1> DEFINE S == Orders(hostSeq', epoch')
<1>1. x \in S /\ ms \in Seq(S) /\ HostSays(x, ms)
  BY DEF HostTells
<1> HIDE DEF S
<1>2. ASSUME NEW y, ms = <<y>> PROVE y \in S
  <2>1. Len(ms) = 1 /\ ms[1] = y
    BY <1>2
  <2> QED BY <1>1, <2>1, ElementOfSeq
<1>3. ASSUME NEW y, NEW z, ms = <<y, z>> PROVE y \in S /\ z \in S
  <2>1. Len(ms) = 2 /\ ms[1] = y /\ ms[2] = z
    BY <1>3
  <2>2. \A i \in 1..Len(ms) : ms[i] \in S
    BY <1>1, ElementOfSeq
  <2>3. 1 \in 1..Len(ms) /\ 2 \in 1..Len(ms)
    BY <2>1
  <2> QED BY <2>1, <2>2, <2>3
<1>4. ASSUME NEW t, NEW f
      PROVE  MoveEpoch(Msg(t, f, f)) = IF t \in {"propose", "prepare", "commit"} THEN f ELSE 0
  BY DEF MoveEpoch, Msg
<1>5. CASE x = Msg("propose", epoch', epoch') /\ ms = <<Msg("prepare", epoch', epoch')>>
  <2> DEFINE y == Msg("prepare", epoch', epoch')
  <2>1. MoveEpoch(x) = epoch' /\ MoveEpoch(y) = epoch'
    BY <1>4, <1>5
  <2> HIDE DEF y
  <2>2. ms = <<y>> /\ y \in S
    BY <1>2, <1>5 DEF y
  <2> QED BY <2>1, <2>2 DEF S
<1>6. CASE x.type \in {"begin", "abort"} /\ ms = <<>>
  BY <1>6 DEF MoveEpoch
<1>7. CASE x.type = "end" /\ ms = <<x>>
  <2>1. MoveEpoch(x) = 0
    BY <1>7 DEF MoveEpoch
  <2> QED BY <1>1, <1>7, <2>1 DEF S
<1>8. CASE /\ x.type = "commit" /\ ms = <<Msg("begin", x.epoch, x.epoch), x>> /\ epoch' = epoch
           /\ \E task \in committing : ~task.sent /\ task.epoch = x.epoch
  <2> DEFINE y == Msg("begin", x.epoch, x.epoch)
  <2>1. x.epoch = epoch'
    BY <1>8 DEF HostStage
  <2>2. MoveEpoch(x) = epoch' /\ MoveEpoch(y) = 0
    BY <1>4, <1>8, <2>1 DEF MoveEpoch
  <2> HIDE DEF y
  <2>3. ms = <<y, x>> /\ y \in S
    BY <1>3, <1>8 DEF y
  <2> QED BY <1>1, <2>2, <2>3 DEF S
<1>9. CASE x = Msg("resume", epoch, epoch) /\ ms = <<x>>
  <2>1. MoveEpoch(x) = 0
    BY <1>4, <1>9
  <2> QED BY <1>1, <1>9, <2>1 DEF S
<1>10. CASE x = Raw(hostSeq + 1, RawEpoch) /\ ms = <<>>
  BY <1>10 DEF MoveEpoch, Raw
<1> QED BY <1>1, <1>5, <1>6, <1>7, <1>8, <1>9, <1>10 DEF HostSays

LEMMA ChainsSteps ==
  ASSUME SystemShape, Habits, Inv, HostStage, Chains, [SystemNext]_sysVars
  PROVE  Chains'
<1> SUFFICES ASSUME NEW p \in Players
             PROVE  /\ Chain(game'[p].epoch, toGame'[p], Behind(p)')
                    /\ game'[p].loading <= game'[p].epoch /\ game'[p].zone <= game'[p].epoch
  BY DEF Chains
<1> DEFINE v == game[p].epoch
           q == toGame[p]
           r == Behind(p)
<1>0. /\ Host \in Players /\ epoch \in Nat /\ hostSeq \in Nat
      /\ down \in [Clients -> Seq(Orders(hostSeq, epoch))]
      /\ toGame \in [Players -> Seq(Orders(hostSeq, epoch))]
      /\ game \in [Players -> GameState(hostSeq, epoch)]
      /\ (p # Host <=> p \in Clients)
  BY TravelSystemAssumption DEF Clients, SystemShape
<1>1. /\ q \in Seq(Orders(hostSeq, epoch)) /\ r \in Seq(Orders(hostSeq, epoch))
      /\ v \in Nat /\ v \in 0..epoch
  BY <1>0, SMTT(30) DEF Behind, GameState
<1>2. Chain(v, q, r) /\ game[p].loading <= game[p].epoch /\ game[p].zone <= game[p].epoch
  BY DEF Chains
<1>3. ASSUME game'[p] = game[p], toGame'[p] \in {q, <<>>}, Behind(p)' \in {r, <<>>}
      PROVE  /\ Chain(game'[p].epoch, toGame'[p], Behind(p)')
             /\ game'[p].loading <= game'[p].epoch /\ game'[p].zone <= game'[p].epoch
  <2> HIDE DEF v, q, r
  <2>1. Chain(v, <<>>, r) /\ Chain(v, q, <<>>)
    BY <1>0, <1>1, <1>2, ChainTakes
  <2>2. Chain(v, <<>>, <<>>)
    <3>1. <<>> \in Seq(Orders(hostSeq, epoch))
      BY ShortTyped
    <3> QED BY <1>0, <1>1, <2>1, <3>1, ChainTakes
  <2>3. Chain(v, toGame'[p], Behind(p)')
    BY <1>2, <1>3, <2>1, <2>2
  <2> QED BY <1>2, <1>3, <2>3 DEF v
<1>4. CASE HostCoroutines \/ HostNext \/ \E d \in Clients : Disconnect(d)
  <2>1. UNCHANGED <<sidecar, game>> /\ (HostIsSilent \/ \E x, ms : HostTells(x, ms))
    BY <1>4, HostSends
  <2>2. CASE HostIsSilent
    <3>1. toGame' = toGame /\ Behind(p)' \in {r, <<>>}
      BY <1>0, <2>2 DEF HostIsSilent, Behind
    <3> QED BY <1>3, <2>1, <3>1
  <2>3. CASE \E x, ms : HostTells(x, ms)
    <3>1. PICK x, ms : HostTells(x, ms)
      BY <2>3
    <3> DEFINE n == hostSeq'
               e == epoch'
               S == Orders(n, e)
    <3>2. /\ x \in S /\ HostSays(x, ms) /\ MoveEpoch(x) \in {0, e}
          /\ \/ ms = <<>>
             \/ \E y \in S : MoveEpoch(y) \in {0, e} /\ ms = <<y>>
             \/ \E y, z \in S : MoveEpoch(y) \in {0, e} /\ MoveEpoch(z) \in {0, e} /\ ms = <<y, z>>
      BY <3>1, HostMoves DEF HostTells
    <3>3. n \in Nat /\ e \in Nat /\ hostSeq <= n /\ epoch <= e
      BY <1>0, <3>2 DEF HostSays
    <3>4. q \in Seq(S) /\ r \in Seq(S) /\ v \in 0..e
      <4>1. Seq(Orders(hostSeq, epoch)) \subseteq Seq(S)
        BY <1>0, <3>3, Widens
      <4>2. v \in 0..e
        BY <1>0, <1>1, <3>3
      <4> QED BY <1>1, <4>1, <4>2
    <3>5. /\ p = Host => r = <<>> /\ toGame'[p] = q \o ms /\ Behind(p)' = <<>>
          /\ p # Host => toGame'[p] = q /\ Behind(p)' \in {r, r \o <<x>>}
      BY <1>0, <3>1 DEF HostTells, ToHostGame, Broadcast, Behind
    <3>6. game' = game
      BY <2>1
    <3> HIDE DEF n, e, S, v, q, r
    <3>7. CASE p # Host
      <4>1. Chain(v, q, r \o <<x>>)
        BY <1>2, <3>2, <3>3, <3>4, ChainGrows DEF S
      <4>2. Chain(v, toGame'[p], Behind(p)')
        BY <1>2, <3>5, <3>7, <4>1
      <4> QED BY <1>2, <3>6, <4>2 DEF v
    <3>8. CASE p = Host
      <4>1. ASSUME NEW s \in Seq(S), NEW y \in S, MoveEpoch(y) \in {0, e}, Chain(v, s, <<>>)
            PROVE  Chain(v, s \o <<y>>, <<>>) /\ s \o <<y>> \in Seq(S)
        <5>1. <<>> \in Seq(S) /\ <<y>> \in Seq(S)
          BY ShortTyped
        <5>2. s \o <<y>> \in Seq(S)
          BY <5>1, PartsOfQueue
        <5> QED BY <3>3, <3>4, <4>1, <5>1, <5>2, ChainGrows DEF S
      <4>2. r = <<>> /\ Chain(v, q, <<>>)
        BY <1>2, <3>5, <3>8
      <4>3. CASE ms = <<>>
        <5>1. q \o ms = q
          BY <3>4, <4>3, ConcatEmptySeq
        <5> QED BY <3>5, <3>6, <3>8, <4>2, <5>1, <1>2 DEF v
      <4>4. CASE \E y \in S : MoveEpoch(y) \in {0, e} /\ ms = <<y>>
        <5>1. Chain(v, q \o ms, <<>>)
          BY <3>4, <4>1, <4>2, <4>4
        <5> QED BY <3>5, <3>6, <3>8, <5>1, <1>2 DEF v
      <4>5. CASE \E y, z \in S : MoveEpoch(y) \in {0, e} /\ MoveEpoch(z) \in {0, e} /\ ms = <<y, z>>
        <5>1. PICK y \in S, z \in S : MoveEpoch(y) \in {0, e} /\ MoveEpoch(z) \in {0, e} /\ ms = <<y, z>>
          BY <4>5
        <5>2. Chain(v, q \o <<y>>, <<>>) /\ q \o <<y>> \in Seq(S)
          BY <3>4, <4>1, <4>2, <5>1
        <5>3. Chain(v, (q \o <<y>>) \o <<z>>, <<>>)
          BY <4>1, <5>1, <5>2
        <5>4. (q \o <<y>>) \o <<z>> = q \o ms
          <6>1. <<y>> \in Seq(S) /\ <<z>> \in Seq(S)
            BY ShortTyped
          <6>2. <<y>> \o <<z>> = <<y, z>>
            BY OneAndOne
          <6>3. (q \o <<y>>) \o <<z>> = q \o (<<y>> \o <<z>>)
            BY <3>4, <6>1, ConcatAssociative
          <6>4. ms = <<y>> \o <<z>>
            BY <5>1, <6>2
          <6> QED BY <6>3, <6>4
        <5>5. Chain(v, q \o ms, <<>>)
          BY <5>3, <5>4
        <5> QED BY <3>5, <3>6, <3>8, <5>5, <1>2 DEF v
      <4> QED BY <3>2, <4>3, <4>4, <4>5
    <3> QED BY <3>7, <3>8
  <2> QED BY <2>1, <2>2, <2>3
<1>5. CASE \E d \in Clients : Join(d)
  <2>1. PICK d \in Clients : Join(d)
    BY <1>5
  <2>2. game' = game /\ down' = down /\ toGame' = [toGame EXCEPT ![d] = <<>>]
    BY <2>1 DEF Join
  <2>3. toGame'[p] \in {q, <<>>} /\ Behind(p)' = r
    BY <1>0, <2>2 DEF Behind
  <2> QED BY <1>3, <2>2, <2>3
<1>6. CASE \E d \in Clients : Sidecar(d)
  <2>1. PICK d \in Clients : Sidecar(d)
    BY <1>6
  <2>2. PICK m, s, out : SidecarStep(d, m, s, out)
    BY <2>1, SidecarSteps
  <2>3. CASE d = p
    <3>1. Behind(p) = down[p] /\ Behind(p)' = down'[p] /\ game' = game
      BY <1>0, <2>2, <2>3 DEF Behind, SidecarStep
    <3>2. Chain(game[p].epoch, toGame'[p], down'[p])
      BY <1>1, <1>2, <2>1, <2>3, <3>1, SidecarsKeepChain
    <3> QED BY <1>2, <3>1, <3>2
  <2>4. CASE d # p
    <3>1. game' = game /\ toGame'[p] = q /\ Behind(p)' = r
      BY <1>0, <2>2, <2>4 DEF Behind, SidecarStep
    <3> QED BY <1>3, <3>1
  <2> QED BY <2>3, <2>4
<1>7. CASE \E d \in Players : Game(d) \/ SpinUp(d)
  <2>1. PICK d \in Players : Game(d) \/ SpinUp(d)
    BY <1>7
  <2>2. CASE d = p
    BY <1>2, <2>1, <2>2, GamesKeepChain
  <2>3. CASE d # p
    <3>1. PICK g, ms : GameStep(d, g, ms) /\ (toGame' = toGame \/ toGame' = [toGame EXCEPT ![d] = Tail(@)])
      BY <2>1, GameSteps, SpinUpSteps DEF GameTakes
    <3>2. game'[p] = game[p] /\ toGame'[p] = q /\ Behind(p)' = r
      BY <1>0, <2>3, <3>1 DEF GameStep, Behind
    <3> QED BY <1>3, <3>2
  <2> QED BY <2>2, <2>3
<1>8. CASE (\E d \in Players : RequestTravel(d)) \/ HostDistributes \/ UNCHANGED sysVars
  <2>1. game' = game /\ toGame' = toGame /\ Behind(p)' = r
    BY <1>8 DEF RequestTravel, HostDistributes, sysVars, Behind
  <2> QED BY <1>3, <2>1
<1> QED BY <1>4, <1>5, <1>6, <1>7, <1>8 DEF SystemNext

LEMMA ChainsInit == SystemInit => Chains
<1> SUFFICES ASSUME SystemInit, NEW p \in Players
             PROVE  /\ Chain(game[p].epoch, toGame[p], Behind(p))
                    /\ game[p].loading <= game[p].epoch /\ game[p].zone <= game[p].epoch
  BY DEF Chains
<1>1. /\ game[p].epoch = 0 /\ game[p].loading = 0 /\ game[p].zone = 0
      /\ toGame[p] = <<>> /\ Behind(p) = <<>>
  BY DEF SystemInit, FreshGame, Behind, Clients, None
<1>2. Moves(<<>>) = <<>>
  BY DEF Moves, Along
<1>3. Pipe(Leq, <<0>>, <<>>, <<>>, <<>>, <<>>)
  BY ShortQueues DEF Pipe, Below
<1> QED BY <1>1, <1>2, <1>3 DEF Chain

-----------------------------------------------------------------------------
(* How many view messages there are: every one the host process numbers is  *)
(* one its game has sent.                                                   *)

Weight(m) == IF m.type = "raw" THEN 1 ELSE 0

(* q holds no more view messages than there are numbers above lo up to hi:  *)
(* f counts them along the queue.                                           *)
Room(q, lo, hi) ==
  \E f \in [0..Len(q) -> lo..hi] :
     \A j \in 1..Len(q) : \A i \in 0..(j - 1) : f[i] + Weight(q[j]) <= f[j]

Counted == Room(up[Host], hostSeq, rawSent)

LEMMA RoomSteps ==
  ASSUME NEW S, NEW q \in Seq(S), NEW lo \in Nat, NEW hi \in Nat, Room(q, lo, hi)
  PROVE  /\ lo <= hi
         /\ q # <<>> => Room(Tail(q), lo + Weight(Head(q)), hi)
         /\ \A x : Room(q \o <<x>>, lo, hi + Weight(x))
<1>0. Len(q) \in Nat /\ \A m : Weight(m) \in 0..1
  BY LenProperties DEF Weight
<1>1. PICK f \in [0..Len(q) -> lo..hi] :
         \A j \in 1..Len(q) : \A i \in 0..(j - 1) : f[i] + Weight(q[j]) <= f[j]
  BY DEF Room
<1>2. \A i \in 0..Len(q) : f[i] \in Nat /\ lo <= f[i] /\ f[i] <= hi
  BY <1>1
<1>3. lo <= hi
  BY <1>0, <1>2
<1>4. ASSUME q # <<>> PROVE Room(Tail(q), lo + Weight(Head(q)), hi)
  <2> DEFINE w == Weight(Head(q))
             g == [i \in 0..Len(Tail(q)) |-> f[i + 1]]
  <2>1. /\ Len(Tail(q)) = Len(q) - 1 /\ Head(q) = q[1] /\ 1 \in 1..Len(q)
        /\ \A i \in 1..Len(Tail(q)) : i + 1 \in 1..Len(q) /\ Tail(q)[i] = q[i + 1]
    BY <1>4, TailOfQueue
  <2>2. w \in 0..1 /\ w = Weight(q[1])
    BY <1>0, <2>1
  <2> HIDE DEF w
  <2>3. \A i \in 0..Len(Tail(q)) : i + 1 \in 0..Len(q) /\ i + 1 \in 1..Len(q)
    BY <1>0, <2>1
  <2>4. \A i \in 0..Len(Tail(q)) : f[i + 1] \in (lo + w)..hi
    <3> SUFFICES ASSUME NEW i \in 0..Len(Tail(q)) PROVE f[i + 1] \in (lo + w)..hi
      OBVIOUS
    <3>1. f[0] + w <= f[1] /\ f[0] \in Nat /\ lo <= f[0] /\ f[1] \in Nat
      <4>1. 0 \in 0..(1 - 1) /\ 0 \in 0..Len(q) /\ 1 \in 0..Len(q)
        BY <1>0, <2>1
      <4> QED BY <1>1, <1>2, <2>1, <2>2, <4>1
    <3>2. f[i + 1] \in Nat /\ f[i + 1] <= hi
      BY <1>2, <2>3
    <3>3. f[1] <= f[i + 1]
      <4>1. CASE i = 0
        <5>1. i + 1 = 1
          BY <4>1
        <5> QED BY <3>1, <5>1
      <4>2. CASE i # 0
        <5>1. 1 \in 0..((i + 1) - 1) /\ i + 1 \in 1..Len(q)
          BY <2>3, <4>2
        <5>2. f[1] + Weight(q[i + 1]) <= f[i + 1] /\ Weight(q[i + 1]) \in 0..1
          BY <1>0, <1>1, <5>1
        <5> QED BY <3>1, <3>2, <5>2
      <4> QED BY <4>1, <4>2
    <3> QED BY <2>2, <3>1, <3>2, <3>3
  <2>5. g \in [0..Len(Tail(q)) -> (lo + w)..hi]
    BY <2>4
  <2>6. ASSUME NEW j \in 1..Len(Tail(q)), NEW i \in 0..(j - 1)
        PROVE  g[i] + Weight(Tail(q)[j]) <= g[j]
    <3>1. /\ j + 1 \in 1..Len(q) /\ Tail(q)[j] = q[j + 1] /\ i + 1 \in 0..((j + 1) - 1)
          /\ i \in 0..Len(Tail(q)) /\ j \in 0..Len(Tail(q))
      BY <1>0, <2>1
    <3>2. f[i + 1] + Weight(q[j + 1]) <= f[j + 1]
      BY <1>1, <3>1
    <3>3. g[i] = f[i + 1] /\ g[j] = f[j + 1]
      BY <3>1
    <3> QED BY <3>1, <3>2, <3>3
  <2> HIDE DEF g
  <2> QED BY <2>5, <2>6 DEF Room, w
<1>5. ASSUME NEW x PROVE Room(q \o <<x>>, lo, hi + Weight(x))
  <2> DEFINE w == Weight(x)
             r == q \o <<x>>
             g == [i \in 0..Len(r) |-> IF i <= Len(q) THEN f[i] ELSE hi + w]
  <2>1. /\ Len(r) = Len(q) + 1 /\ r[Len(q) + 1] = x
        /\ \A i \in 1..Len(q) : r[i] = q[i]
    <3>1. /\ q \in Seq(S \cup {x}) /\ <<x>> \in Seq(S \cup {x})
          /\ Len(<<x>>) = 1 /\ <<x>>[1] = x
      <4>1. q \in Seq(S \cup {x})
        BY SeqMonotonic
      <4>2. <<x>> \in Seq(S \cup {x})
        BY ShortTyped
      <4> QED BY <4>1, <4>2
    <3>2. /\ Len(q \o <<x>>) = Len(q) + Len(<<x>>)
          /\ \A i \in 1..Len(q) + Len(<<x>>) : (q \o <<x>>)[i] = IF i <= Len(q) THEN q[i] ELSE <<x>>[i - Len(q)]
      BY <3>1, ConcatProperties
    <3>3. (Len(q) + 1) - Len(q) = 1 /\ ~(Len(q) + 1 <= Len(q)) /\ Len(q) + 1 \in 1..Len(q) + Len(<<x>>)
      BY <1>0, <3>1
    <3>4. r[Len(q) + 1] = x
      BY <3>1, <3>2, <3>3
    <3>5. \A i \in 1..Len(q) : i \in 1..Len(q) + Len(<<x>>) /\ i <= Len(q)
      BY <1>0, <3>1
    <3> QED BY <3>1, <3>2, <3>4, <3>5
  <2>2. w \in 0..1
    BY <1>0
  <2> HIDE DEF w, r
  <2>3. \A i \in 0..Len(r) : g[i] \in lo..(hi + w)
    BY <1>0, <1>2, <1>3, <2>1, <2>2
  <2>4. g \in [0..Len(r) -> lo..(hi + w)]
    BY <2>3
  <2>5. ASSUME NEW j \in 1..Len(r), NEW i \in 0..(j - 1) PROVE g[i] + Weight(r[j]) <= g[j]
    <3>1. i \in 0..Len(q) /\ i \in 0..Len(r) /\ j \in 0..Len(r)
      BY <1>0, <2>1
    <3>2. g[i] = f[i]
      BY <1>0, <3>1
    <3>3. CASE j <= Len(q)
      <4>1. j \in 1..Len(q) /\ g[j] = f[j] /\ r[j] = q[j]
        BY <1>0, <2>1, <3>1, <3>3
      <4> QED BY <1>1, <3>2, <4>1
    <3>4. CASE ~(j <= Len(q))
      <4>1. j = Len(q) + 1
        BY <1>0, <2>1, <3>4
      <4>2. g[j] = hi + w /\ Weight(r[j]) = w
        BY <2>1, <3>1, <3>4, <4>1 DEF w
      <4>3. f[i] \in Nat /\ f[i] <= hi
        BY <1>2, <3>1
      <4> QED BY <2>2, <3>2, <4>2, <4>3
    <3> QED BY <3>3, <3>4
  <2> HIDE DEF g
  <2> QED BY <2>4, <2>5 DEF Room, w, r
<1> QED BY <1>3, <1>4, <1>5

(* The host process reads its own game's reports one by one. *)
LEMMA HostTakes ==
  ASSUME SystemShape, HostCoroutines \/ HostNext \/ \E c \in Clients : Disconnect(c)
  PROVE  /\ rawSent' = rawSent
         /\ \/ up'[Host] = up[Host] /\ hostSeq' = hostSeq
            \/ /\ up[Host] # <<>> /\ up'[Host] = Tail(up[Host])
               /\ hostSeq' = hostSeq + Weight(Head(up[Host]))
<1>0. Host \in Players /\ hostSeq \in Nat /\ up \in [Players -> Seq(Reports(epoch))]
  BY TravelSystemAssumption DEF SystemShape
<1>1. ASSUME NEW p \in Players, NEW t, Reads(p, t), Consume(p), t # "raw", hostSeq' = hostSeq
      PROVE  \/ up'[Host] = up[Host] /\ hostSeq' = hostSeq
             \/ /\ up[Host] # <<>> /\ up'[Host] = Tail(up[Host])
                /\ hostSeq' = hostSeq + Weight(Head(up[Host]))
  <2>1. up[p] # <<>> /\ Weight(Head(up[p])) = 0 /\ up' = [up EXCEPT ![p] = Tail(@)]
    BY <1>1 DEF Reads, Consume, Weight
  <2>2. hostSeq' = hostSeq + 0
    BY <1>0, <1>1
  <2> QED BY <1>0, <1>1, <2>1, <2>2
<1>2. ASSUME NEW c \in Clients, Drop(c) PROVE up'[Host] = up[Host]
  BY <1>0, <1>2 DEF Drop, Clients
<1>3. CASE HostCoroutines
  <2>1. PICK task \in committing : SendCommit(task) \/ AwaitZones(task)
    BY <1>3 DEF HostCoroutines
  <2>2. rawSent' = rawSent /\ hostSeq' = hostSeq
    BY <2>1 DEF SendCommit, AwaitZones, bounds
  <2>3. session \subseteq Players
    BY DEF SystemShape
  <2>4. up' = up \/ (task.by \in session \ {Host} /\ Drop(task.by))
    BY <2>1 DEF SendCommit, AwaitZones
  <2> QED BY <1>2, <2>2, <2>3, <2>4 DEF Clients
<1>4. CASE HostNext
  <2>1. CASE \E p \in Players : StartTravel(p)
    BY <1>1, <2>1 DEF StartTravel, hostVars, bounds
  <2>2. CASE \E p \in Players : RefuseTravel(p)
    <3>1. PICK p \in Players : RefuseTravel(p)
      BY <2>2
    <3>2. rawSent' = rawSent /\ hostSeq' = hostSeq /\ Reads(p, "request")
      BY <3>1 DEF RefuseTravel, bounds
    <3>3. CASE p = Host
      BY <1>1, <3>1, <3>2, <3>3 DEF RefuseTravel
    <3>4. CASE p # Host
      BY <1>2, <3>1, <3>2, <3>4 DEF RefuseTravel, Clients
    <3> QED BY <3>3, <3>4
  <2>3. CASE \E p \in Players : TravelReady(p)
    BY <1>1, <2>3 DEF TravelReady, bounds
  <2>4. CASE \E p \in Players : TravelZoneReady(p)
    BY <1>1, <2>4 DEF TravelZoneReady, hostVars, bounds
  <2>5. CASE ViewBatchEnd
    BY <1>0, <1>1, <2>5 DEF ViewBatchEnd, hostVars, bounds
  <2>6. CASE TravelAbort
    BY <1>0, <1>1, <2>6 DEF TravelAbort, hostVars, bounds
  <2>7. CASE RawMessage
    <3>1. Reads(Host, "raw") /\ Consume(Host) /\ hostSeq' = hostSeq + 1 /\ rawSent' = rawSent
      BY <2>7 DEF RawMessage, bounds
    <3>2. up[Host] # <<>> /\ Weight(Head(up[Host])) = 1 /\ up'[Host] = Tail(up[Host])
      BY <1>0, <3>1 DEF Reads, Consume, Weight
    <3> QED BY <3>1, <3>2
  <2> QED BY <1>4, <2>1, <2>2, <2>3, <2>4, <2>5, <2>6, <2>7 DEF HostNext
<1>5. CASE \E c \in Clients : Disconnect(c)
  BY <1>2, <1>5 DEF Disconnect, bounds
<1> QED BY <1>3, <1>4, <1>5

(* A game reports no view messages among its travel events. *)
LEMMA ReportsHaveRoom ==
  ASSUME NEW S, NEW q \in Seq(S), NEW lo \in Nat, NEW hi \in Nat, Room(q, lo, hi),
         NEW a, NEW b, a.type # "raw", b.type # "raw"
  PROVE  Room(q \o <<>>, lo, hi) /\ Room(q \o <<a>>, lo, hi) /\ Room(q \o <<a, b>>, lo, hi)
<1> DEFINE T == S \cup {a, b}
<1>1. Weight(a) = 0 /\ Weight(b) = 0 /\ hi + 0 = hi
  BY DEF Weight
<1>2. q \in Seq(T) /\ a \in T /\ b \in T
  BY SeqMonotonic
<1>3. <<a>> \in Seq(T) /\ <<b>> \in Seq(T)
  BY <1>2, ShortTyped
<1> HIDE DEF T
<1>4. q \o <<>> = q
  BY ConcatEmptySeq
<1>5. \A x : Room(q \o <<x>>, lo, hi + Weight(x))
  BY RoomSteps
<1>6. Room(q \o <<a>>, lo, hi) /\ q \o <<a>> \in Seq(T)
  <2>1. Room(q \o <<a>>, lo, hi + Weight(a))
    BY <1>5
  <2>2. q \o <<a>> \in Seq(T)
    BY <1>2, <1>3, PartsOfQueue
  <2> QED BY <1>1, <2>1, <2>2
<1>7. \A x : Room((q \o <<a>>) \o <<x>>, lo, hi + Weight(x))
  BY <1>6, RoomSteps
<1>8. Room((q \o <<a>>) \o <<b>>, lo, hi)
  <2>1. Room((q \o <<a>>) \o <<b>>, lo, hi + Weight(b))
    BY <1>7
  <2> QED BY <1>1, <2>1
<1>9. (q \o <<a>>) \o <<b>> = q \o <<a, b>>
  <2>1. (q \o <<a>>) \o <<b>> = q \o (<<a>> \o <<b>>)
    BY <1>2, <1>3, ConcatAssociative
  <2>2. <<a>> \o <<b>> = <<a, b>>
    BY <1>2, OneAndOne
  <2> QED BY <2>1, <2>2
<1> QED BY <1>4, <1>6, <1>8, <1>9

LEMMA CountedSteps ==
  ASSUME SystemShape, Counted, [SystemNext]_sysVars
  PROVE  Counted'
<1>0. /\ Host \in Players /\ hostSeq \in Nat /\ rawSent \in Nat
      /\ up \in [Players -> Seq(Reports(epoch))] /\ up[Host] \in Seq(Reports(epoch))
      /\ Room(up[Host], hostSeq, rawSent) /\ Host \in session
  BY TravelSystemAssumption DEF SystemShape, Counted
<1>1. ASSUME up'[Host] = up[Host], hostSeq' = hostSeq, rawSent' = rawSent PROVE Counted'
  BY <1>0, <1>1 DEF Counted
<1>2. CASE HostCoroutines \/ HostNext \/ \E c \in Clients : Disconnect(c)
  <2>1. /\ rawSent' = rawSent
        /\ \/ up'[Host] = up[Host] /\ hostSeq' = hostSeq
           \/ /\ up[Host] # <<>> /\ up'[Host] = Tail(up[Host])
              /\ hostSeq' = hostSeq + Weight(Head(up[Host]))
    BY <1>2, HostTakes
  <2>2. CASE up[Host] # <<>> /\ up'[Host] = Tail(up[Host]) /\ hostSeq' = hostSeq + Weight(Head(up[Host]))
    <3>1. Room(Tail(up[Host]), hostSeq + Weight(Head(up[Host])), rawSent)
      BY <1>0, <2>2, RoomSteps
    <3> QED BY <2>1, <2>2, <3>1 DEF Counted
  <2> QED BY <1>1, <2>1, <2>2
<1>3. CASE (\E c \in Clients : Join(c)) \/ UNCHANGED sysVars
  BY <1>1, <1>3 DEF Join, sysVars, hostVars, bounds
<1>4. CASE \E c \in Clients : Sidecar(c)
  <2>1. PICK c \in Clients : \E m, s, out : SidecarStep(c, m, s, out)
    BY <1>4, SidecarSteps
  <2> QED BY <1>1, <2>1 DEF SidecarStep, elsewhere
<1>5. CASE \E p \in Players : Game(p) \/ SpinUp(p)
  <2>1. PICK p \in Players : Game(p) \/ SpinUp(p)
    BY <1>5
  <2>2. PICK g, ms : /\ GameStep(p, g, ms)
                     /\ GameArrives(p, game[p], g, ms) \/ \E m : GameDoes(p, game[p], m, g, ms)
    BY <2>1, GameSteps, SpinUpSteps
  <2>3. hostSeq' = hostSeq /\ rawSent' = rawSent /\ up' = [up EXCEPT ![p] = @ \o ms]
    BY <2>2 DEF GameStep, elsewhere
  <2>4. CASE p # Host
    BY <1>0, <1>1, <2>3, <2>4
  <2>5. CASE p = Host
    <3>1. \E a, b : a.type # "raw" /\ b.type # "raw" /\ ms \in {<<>>, <<a>>, <<a, b>>}
      <4>1. \A t, x, e : Msg(t, x, e).type = t
        BY DEF Msg
      <4>2. ZoneReady(game[p]).type # "raw"
        BY <4>1 DEF ZoneReady
      <4>3. CASE GameArrives(p, game[p], g, ms)
        <5>1. ms \in {<<>>, <<Msg("end", game[p].pending, game[p].epoch), ZoneReady(game[p])>>}
          BY <2>5, <4>3 DEF GameArrives
        <5>2. Msg("end", game[p].pending, game[p].epoch).type # "raw"
          BY <4>1
        <5> QED BY <4>2, <5>1, <5>2
      <4>4. CASE \E m : GameDoes(p, game[p], m, g, ms)
        <5>1. PICK m : GameDoes(p, game[p], m, g, ms)
          BY <4>4
        <5>2. ms \in {<<>>, <<Msg("ready", m.txn_id, m.epoch)>>, <<Msg("abort", m.txn_id, m.epoch)>>}
          BY <2>5, <5>1 DEF GameDoes, GamePrepares, GameCommits, GameHydrates, GameAborts, GameShows
        <5>3. /\ Msg("ready", m.txn_id, m.epoch).type # "raw"
              /\ Msg("abort", m.txn_id, m.epoch).type # "raw"
          BY <4>1
        <5> QED BY <5>2, <5>3
      <4> QED BY <2>2, <4>3, <4>4
    <3>2. Room(up[Host] \o ms, hostSeq, rawSent)
      BY <1>0, <3>1, ReportsHaveRoom
    <3>3. up'[Host] = up[Host] \o ms
      BY <1>0, <2>3, <2>5
    <3> QED BY <2>3, <3>2, <3>3 DEF Counted
  <2> QED BY <2>4, <2>5
<1>6. CASE \E p \in Players : RequestTravel(p)
  <2>1. PICK p \in Players : RequestTravel(p)
    BY <1>6
  <2> DEFINE x == Msg("request", None, None)
  <2>2. hostSeq' = hostSeq /\ rawSent' = rawSent /\ Emit(p, <<x>>) /\ x.type # "raw"
    BY <2>1 DEF RequestTravel, hostVars, Msg
  <2> HIDE DEF x
  <2>3. up'[Host] = up[Host] \/ up'[Host] = up[Host] \o <<x>>
    BY <1>0, <2>2 DEF Emit
  <2>4. Room(up[Host] \o <<x>>, hostSeq, rawSent)
    BY <1>0, <2>2, ReportsHaveRoom
  <2> QED BY <1>1, <2>2, <2>3, <2>4 DEF Counted
<1>7. CASE HostDistributes
  <2> DEFINE x == Msg("raw", None, None)
  <2>1. hostSeq' = hostSeq /\ rawSent' = rawSent + 1 /\ Emit(Host, <<x>>) /\ Weight(x) = 1
    BY <1>7 DEF HostDistributes, hostVars, Msg, Weight
  <2> HIDE DEF x
  <2>2. up'[Host] = up[Host] \o <<x>>
    BY <1>0, <2>1 DEF Emit
  <2>3. \A y : Room(up[Host] \o <<y>>, hostSeq, rawSent + Weight(y))
    BY <1>0, RoomSteps
  <2>4. Room(up[Host] \o <<x>>, hostSeq, rawSent + 1)
    <3>1. Room(up[Host] \o <<x>>, hostSeq, rawSent + Weight(x))
      BY <2>3
    <3> QED BY <2>1, <3>1
  <2> QED BY <2>1, <2>2, <2>4 DEF Counted
<1> QED BY <1>2, <1>3, <1>4, <1>5, <1>6, <1>7 DEF SystemNext

LEMMA CountedInit == SystemInit => Counted
<1> SUFFICES ASSUME SystemInit PROVE Counted
  OBVIOUS
<1>1. up[Host] = <<>> /\ hostSeq = 0 /\ rawSent = 0
  BY TravelSystemAssumption DEF SystemInit
<1>2. Room(<<>>, 0, 0)
  <2>1. Len(<<>>) = 0
    OBVIOUS
  <2>2. [i \in 0..Len(<<>>) |-> 0] \in [0..Len(<<>>) -> 0..0] /\ 1..Len(<<>>) = {}
    BY <2>1
  <2> QED BY <2>2 DEF Room
<1> QED BY <1>1, <1>2 DEF Counted

-----------------------------------------------------------------------------
(* Everything together is what SystemTypeOK says. *)

LEMMA AllTyped ==
  ASSUME SystemShape, Habits, Inv, HostStage, Chains, Counted
  PROVE  SystemTypeOK
<1>0. /\ TypeOK /\ epoch \in 0..MaxEpoch /\ MaxEpoch \in Nat /\ epoch \in Nat
      /\ hostSeq \in Nat /\ rawSent \in Nat /\ rawSent <= MaxRaw /\ MaxRaw \in Nat
  BY MaxEpochAssumption, TravelSystemAssumption DEF Inv, TypeOK, SystemShape
<1>1. hostSeq \in 0..rawSent /\ hostSeq <= MaxRaw
  <2>1. \A p \in Players : up[p] \in Seq(Reports(epoch))
    BY DEF SystemShape
  <2>2. hostSeq <= rawSent
    BY <1>0, <2>1, RoomSteps, TravelSystemAssumption DEF Counted
  <2> QED BY <1>0, <2>2
<1>2. 0..epoch \subseteq 0..MaxEpoch /\ 1..epoch \subseteq Epochs /\ 1..epoch \subseteq 0..MaxEpoch
      /\ 1..hostSeq \subseteq 1..MaxRaw
  BY <1>0, <1>1 DEF Epochs
<1>3. Reports(epoch) \subseteq Message
  BY <1>2 DEF Reports, ReportType, Message
<1>4. Orders(hostSeq, epoch) \subseteq Message \cup RawPacket
  <2>1. Control(epoch) \subseteq Message
    BY <1>2 DEF Control, ControlType, Message
  <2>2. Packets(hostSeq, epoch) \subseteq RawPacket
    BY <1>2 DEF Packets, RawPacket
  <2> QED BY <2>1, <2>2 DEF Orders
<1>5. ASSUME NEW S, NEW T, S \subseteq T, NEW q \in Seq(S) PROVE Range(q) \subseteq T
  <2>1. \A i \in 1..Len(q) : q[i] \in T
    BY <1>5, ElementOfSeq
  <2> QED BY <2>1, LenProperties DEF Range
<1>6. \A p \in Players : /\ Range(up[p]) \subseteq Message
                         /\ Range(toGame[p]) \subseteq Message \cup RawPacket
  <2> SUFFICES ASSUME NEW p \in Players
               PROVE  /\ Range(up[p]) \subseteq Message
                      /\ Range(toGame[p]) \subseteq Message \cup RawPacket
    OBVIOUS
  <2>1. up[p] \in Seq(Reports(epoch)) /\ toGame[p] \in Seq(Orders(hostSeq, epoch))
    BY DEF SystemShape
  <2> QED BY <1>3, <1>4, <1>5, <2>1
<1>7. \A c \in Clients : Range(down[c]) \subseteq Message \cup RawPacket
  <2> SUFFICES ASSUME NEW c \in Clients PROVE Range(down[c]) \subseteq Message \cup RawPacket
    OBVIOUS
  <2>1. down[c] \in Seq(Orders(hostSeq, epoch))
    BY DEF SystemShape
  <2> QED BY <1>4, <1>5, <2>1
<1>8. committing \subseteq [by : Players, epoch : Epochs, sent : BOOLEAN]
  BY <1>2 DEF SystemShape
<1>9. \A c \in Clients : sidecar[c].travel_epoch \in 0..epoch /\ Len(sidecar[c].buffer) <= BufferLimit
  BY DEF SystemShape, SidecarState, Habits, Lawful
<1>10. \A p \in Players : /\ game[p].epoch \in 0..epoch /\ game[p].pending \in {None, game[p].epoch}
                          /\ {game[p].loading, game[p].zone} \subseteq 0..game[p].epoch
                          /\ Len(game[p].buffer) <= BufferLimit
  <2> SUFFICES ASSUME NEW p \in Players
               PROVE  /\ game[p].epoch \in 0..epoch /\ game[p].pending \in {None, game[p].epoch}
                      /\ {game[p].loading, game[p].zone} \subseteq 0..game[p].epoch
                      /\ Len(game[p].buffer) <= BufferLimit
    OBVIOUS
  <2>1. game[p].epoch \in 0..epoch /\ game[p].loading \in 0..epoch /\ game[p].zone \in 0..epoch
    BY DEF SystemShape, GameState
  <2>2. game[p].loading <= game[p].epoch /\ game[p].zone <= game[p].epoch
    BY DEF Chains
  <2>3. game[p].pending \in {None, game[p].epoch} /\ Len(game[p].buffer) <= BufferLimit
    BY DEF Habits, Sane
  <2>4. {game[p].loading, game[p].zone} \subseteq 0..game[p].epoch
    BY <1>0, <2>1, <2>2
  <2> QED BY <2>1, <2>3, <2>4
<1> QED BY <1>0, <1>1, <1>6, <1>7, <1>8, <1>9, <1>10 DEF SystemTypeOK, SystemShape

(* Every process's state and every message on the way keep their shape: no  *)
(* game is ahead of the host process, none is ever taken back to an earlier *)
(* travel by a late PREPARE or COMMIT, a zone being loaded is never of a    *)
(* travel the game has not heard of, no buffer outgrows its limit           *)
(* (max_buffered_view_updates, _MAX_TRAVEL_BUFFER), and no message is       *)
(* numbered that the host's game has not sent.                              *)
THEOREM SystemTypes == SystemSpec => []SystemTypeOK
<1> DEFINE Shaped == SystemShape /\ Habits /\ Inv /\ TakesPart /\ HostStage /\ Chains /\ Counted
<1>1. SystemInit => Shaped
  <2> SUFFICES ASSUME SystemInit PROVE Shaped
    OBVIOUS
  <2>1. SystemShape /\ Habits /\ Inv /\ Chains /\ Counted
    BY ShapeInit, InitInv, ChainsInit, CountedInit DEF SystemInit
  <2>2. /\ current.phase = "idle" /\ Free(current) /\ committing = {}
        /\ toGame[Host] = <<>> /\ game[Host].loading = None
    BY TravelSystemAssumption DEF SystemInit, Init, NoTxn, Free, FreshGame
  <2>3. TakesPart
    BY <2>2 DEF TakesPart
  <2>4. NoCommitIn(<<>>) /\ OneCommitIn(<<>>, epoch)
    BY DEF NoCommitIn, OneCommitIn
  <2>5. HostStage
    BY <2>2, <2>4 DEF HostStage, NoLoading
  <2> QED BY <2>1, <2>3, <2>5
<1>2. Shaped /\ [SystemNext]_sysVars => Shaped'
  BY ShapeSteps, TakesPartSteps, StageSteps, ChainsSteps, CountedSteps, CoordinatorSteps, StepInv DEF Inv
<1>3. Shaped => SystemTypeOK
  BY AllTyped
<1> QED BY <1>1, <1>2, <1>3, PTL DEF SystemSpec

(* Travel as the whole of KerMP carries it out keeps the promise of the      *)
(* barrier (travel.py:33): no round of a travel opens before everybody still *)
(* in it has answered for that very travel.                                  *)
THEOREM SystemKeepsTheBarrier == SystemSpec => BarrierSpec
BY SystemCoordinates, ImplementsBarrier

================================================================================
