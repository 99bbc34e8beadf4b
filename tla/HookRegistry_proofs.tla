------------------------- MODULE HookRegistry_proofs -------------------------
(***************************************************************************)
(* What the hooks promise for any attributes of the game, in whatever way    *)
(* they are divided among installers and tracer, and for any number of       *)
(* reloads and traces.                                                       *)
(***************************************************************************)
EXTENDS HookRegistry, FiniteSetTheorems, TLAPS

USE HookAssumption

-----------------------------------------------------------------------------
(* The invariant *)

\* No wrapper of KerMP over it, and exactly one.
Bare(v) == \A i \in 1..Len(v) : v[i] # "hook"
Single(v) == \E i \in 1..Len(v) : v[i] = "hook" /\ \A j \in 1..Len(v) : v[j] = "hook" => j = i

\* Send apart, there is nothing over an attribute but hooks and tracers, so that a
\* hook always passes for one.
Plain(v) == \A i \in 1..Len(v) : v[i] \in {"hook", "trace"}
Elsewhere == Attrs \ {Send}

Types ==
    /\ HookTypeOK
    /\ saved = None \/ saved.some \in Seq(Wrapper)
    /\ reloads \in 0..MaxReloads

\* What is flagged is wrapped, and what is wrapped was bare before.
Wrapping ==
    /\ \A a \in Attrs : Bare(value[a]) \/ Single(value[a])
    /\ stage = "up" => Early \subseteq flags /\ \A a \in flags : Single(value[a])
    /\ stage = "down" => flags = {} /\ \A a \in Attrs : Bare(value[a])
    /\ \A a \in Elsewhere : Plain(value[a])
    /\ \A a \in Attrs : patches[a] # None => Bare(patches[a].some)
    /\ \A a \in Elsewhere : patches[a] # None => Plain(patches[a].some)
    /\ \A a \in Attrs : ~Bare(value[a]) => patches[a] # None

\* What the tracer and the reader put back is wrapped as what they found.
Tracing ==
    /\ stage # "up" => boot = None /\ \A a \in Attrs : traces[a] = None
    /\ boot # None => Single(boot.some)
    /\ traces[Send] # None => Single(traces[Send].some)
    /\ traces[OnRemove] = None
    /\ \A a \in Elsewhere :
          traces[a] # None /\ HasTrace(value[a]) => value[a] = <<"trace">> \o traces[a].some

\* While there is a Client of KerMP, or one to come, its on_remove is wrapped.
Clients ==
    /\ boot # None \/ remotes # {} => Single(value[OnRemove])
    /\ stage \in {"unproxied", "down"} => remotes = {}
    /\ failed \/ clients = remotes

HookInv == Types /\ (overrun \/ (Wrapping /\ Tracing /\ Clients /\ ~cleared))

-----------------------------------------------------------------------------
(* Sequences of wrappers *)

\* The unset value is none of the set ones.
LEMMA SomeIsSet ==
  ASSUME NEW v
  PROVE  Some(v) # None /\ Some(v).some = v
<1>1. DOMAIN Some(v) = {"some"} /\ DOMAIN None = {"none"}
  BY DEF Some, None
<1>2. "some" # "none"
  OBVIOUS
<1>3. Some(v) # None
  BY <1>1, <1>2
<1> QED
  BY <1>3 DEF Some

\* Hooks counts what Bare and Single say.
LEMMA BareHasNone ==
  ASSUME NEW v \in Seq(Wrapper)
  PROVE  Bare(v) => Hooks(v) = 0
<1>1. Bare(v) => {i \in 1..Len(v) : v[i] = "hook"} = {}
  BY DEF Bare
<1> QED
  BY <1>1, FS_EmptySet DEF Hooks

LEMMA SingleHasOne ==
  ASSUME NEW v \in Seq(Wrapper)
  PROVE  Single(v) => Hooks(v) = 1
<1> SUFFICES ASSUME Single(v) PROVE Hooks(v) = 1
  OBVIOUS
<1>1. PICK i \in 1..Len(v) : v[i] = "hook" /\ \A j \in 1..Len(v) : v[j] = "hook" => j = i
  BY DEF Single
<1>2. {j \in 1..Len(v) : v[j] = "hook"} = {i}
  BY <1>1
<1> QED
  BY <1>2, FS_Singleton DEF Hooks

\* One more wrapper.
LEMMA CoverShape ==
  ASSUME NEW v \in Seq(Wrapper), NEW w \in Wrapper
  PROVE  /\ <<w>> \o v \in Seq(Wrapper)
         /\ Len(<<w>> \o v) = Len(v) + 1
         /\ (<<w>> \o v)[1] = w
         /\ \A i \in 1..Len(v) : (<<w>> \o v)[i + 1] = v[i]
         /\ \A i \in 1..(Len(v) + 1) : i = 1 \/ (i - 1 \in 1..Len(v) /\ (<<w>> \o v)[i] = v[i - 1])
<1>1. <<w>> \in Seq(Wrapper) /\ Len(<<w>>) = 1 /\ Len(v) \in Nat
  OBVIOUS
<1>2. <<w>> \o v \in Seq(Wrapper) /\ Len(<<w>> \o v) = Len(v) + 1 /\ (<<w>> \o v)[1] = w
  BY <1>1
<1>3. ASSUME NEW i \in 1..(Len(v) + 1), i # 1
      PROVE  i - 1 \in 1..Len(v) /\ (<<w>> \o v)[i] = v[i - 1]
  BY <1>1, <1>3
<1> QED
  BY <1>1, <1>2, <1>3

LEMMA CoverBare ==
  ASSUME NEW v \in Seq(Wrapper), NEW w \in Wrapper, w # "hook"
  PROVE  Bare(v) => Bare(<<w>> \o v)
<1> DEFINE c == <<w>> \o v
<1> HIDE DEF c
<1>1. /\ Len(c) = Len(v) + 1 /\ c[1] = w
      /\ \A i \in 1..(Len(v) + 1) : i = 1 \/ (i - 1 \in 1..Len(v) /\ c[i] = v[i - 1])
  BY CoverShape DEF c
<1>2. Bare(v) => Bare(c)
  BY <1>1 DEF Bare
<1> QED
  BY <1>2 DEF c

LEMMA CoverSingle ==
  ASSUME NEW v \in Seq(Wrapper), NEW w \in Wrapper, w # "hook"
  PROVE  Single(v) => Single(<<w>> \o v)
<1> DEFINE c == <<w>> \o v
<1> HIDE DEF c
<1>1. /\ Len(c) = Len(v) + 1 /\ c[1] = w
      /\ \A i \in 1..Len(v) : c[i + 1] = v[i]
      /\ \A i \in 1..(Len(v) + 1) : i = 1 \/ (i - 1 \in 1..Len(v) /\ c[i] = v[i - 1])
  BY CoverShape DEF c
<1>2. ASSUME Single(v) PROVE Single(c)
  <2>1. PICK i \in 1..Len(v) : v[i] = "hook" /\ \A j \in 1..Len(v) : v[j] = "hook" => j = i
    BY <1>2 DEF Single
  <2>2. i + 1 \in 1..Len(c) /\ c[i + 1] = "hook"
    BY <1>1, <2>1
  <2>3. ASSUME NEW j \in 1..Len(c), c[j] = "hook" PROVE j = i + 1
    <3>1. j # 1
      BY <1>1, <2>3
    <3>2. j - 1 \in 1..Len(v) /\ v[j - 1] = "hook"
      BY <1>1, <2>3, <3>1
    <3>3. j - 1 = i
      BY <2>1, <3>2
    <3> QED
      BY <3>3
  <2> QED
    BY <2>2, <2>3 DEF Single
<1> QED
  BY <1>2 DEF c

LEMMA HookOverBare ==
  ASSUME NEW v \in Seq(Wrapper), Bare(v)
  PROVE  Single(<<"hook">> \o v)
<1> DEFINE c == <<"hook">> \o v
<1> HIDE DEF c
<1>0. "hook" \in Wrapper
  BY DEF Wrapper
<1>1. /\ Len(c) = Len(v) + 1 /\ c[1] = "hook" /\ Len(v) \in Nat
      /\ \A i \in 1..(Len(v) + 1) : i = 1 \/ (i - 1 \in 1..Len(v) /\ c[i] = v[i - 1])
  BY <1>0, CoverShape DEF c
<1>2. \A j \in 1..Len(c) : c[j] = "hook" => j = 1
  BY <1>1 DEF Bare
<1>3. Single(c)
  BY <1>1, <1>2 DEF Single
<1> QED
  BY <1>3 DEF c

LEMMA CoverPlain ==
  ASSUME NEW v \in Seq(Wrapper), NEW w \in {"hook", "trace"}
  PROVE  Plain(v) => Plain(<<w>> \o v)
<1> DEFINE c == <<w>> \o v
<1> HIDE DEF c
<1>0. w \in Wrapper
  BY DEF Wrapper
<1>1. /\ Len(c) = Len(v) + 1 /\ c[1] = w
      /\ \A i \in 1..(Len(v) + 1) : i = 1 \/ (i - 1 \in 1..Len(v) /\ c[i] = v[i - 1])
  BY <1>0, CoverShape DEF c
<1>2. Plain(v) => Plain(c)
  BY <1>1 DEF Plain
<1> QED
  BY <1>2 DEF c

\* What is under a tracer's wrapper.
LEMMA UnderTrace ==
  ASSUME NEW v \in Seq(Wrapper), NEW c \in Seq(Wrapper), c = <<"trace">> \o v
  PROVE  /\ Bare(c) => Bare(v)
         /\ Single(c) => Single(v)
         /\ Plain(c) => Plain(v)
<1>0. "trace" \in Wrapper
  BY DEF Wrapper
<1>1. /\ Len(c) = Len(v) + 1 /\ c[1] = "trace" /\ Len(v) \in Nat
      /\ \A i \in 1..Len(v) : c[i + 1] = v[i]
      /\ \A i \in 1..(Len(v) + 1) : i = 1 \/ (i - 1 \in 1..Len(v) /\ c[i] = v[i - 1])
  BY <1>0, CoverShape
<1>2. Bare(c) => Bare(v)
  BY <1>1 DEF Bare
<1>3. Plain(c) => Plain(v)
  BY <1>1 DEF Plain
<1>4. ASSUME Single(c) PROVE Single(v)
  <2>1. PICK i \in 1..Len(c) : c[i] = "hook" /\ \A j \in 1..Len(c) : c[j] = "hook" => j = i
    BY <1>4 DEF Single
  <2>2. i - 1 \in 1..Len(v) /\ v[i - 1] = "hook"
    BY <1>1, <2>1
  <2>3. ASSUME NEW j \in 1..Len(v), v[j] = "hook" PROVE j = i - 1
    <3>1. j + 1 \in 1..Len(c) /\ c[j + 1] = "hook"
      BY <1>1, <2>3
    <3>2. j + 1 = i
      BY <2>1, <3>1
    <3> QED
      BY <3>2
  <2> QED
    BY <2>2, <2>3 DEF Single
<1> QED
  BY <1>2, <1>3, <1>4

LEMMA Heads ==
  ASSUME NEW v \in Seq(Wrapper), NEW w \in Wrapper
  PROVE  HasTrace(<<w>> \o v) <=> w = "trace"
<1> DEFINE c == <<w>> \o v
<1> HIDE DEF c
<1>1. c \in Seq(Wrapper) /\ Len(c) = Len(v) + 1 /\ c[1] = w /\ Len(v) \in Nat
  BY CoverShape DEF c
<1>2. c # <<>> /\ Head(c) = w
  BY <1>1
<1>3. HasTrace(c) <=> w = "trace"
  BY <1>2 DEF HasTrace
<1> QED
  BY <1>3 DEF c

\* A hook is recognised where there are tracers only.
LEMMA PlainIsMarked ==
  ASSUME NEW v \in Seq(Wrapper)
  PROVE  /\ Bare(v) => ~Marked(v)
         /\ Plain(v) /\ Single(v) => Marked(v)
<1>1. Bare(v) => ~Marked(v)
  BY DEF Bare, Marked, MarkedAt
<1>2. ASSUME Plain(v), Single(v) PROVE Marked(v)
  <2>1. PICK i \in 1..Len(v) : v[i] = "hook" /\ \A j \in 1..Len(v) : v[j] = "hook" => j = i
    BY <1>2 DEF Single
  <2>2. ASSUME NEW j \in 1..(i - 1) PROVE v[j] = "trace"
    <3>1. j \in 1..Len(v) /\ j # i
      BY <2>1, <2>2
    <3>2. v[j] \in {"hook", "trace"} /\ v[j] # "hook"
      BY <1>2, <2>1, <3>1 DEF Plain
    <3> QED
      BY <3>2
  <2> QED
    BY <2>1, <2>2 DEF Marked, MarkedAt
<1> QED
  BY <1>1, <1>2

\* What a wrapper covers is bare, unless the attribute is taken for wrapped.
LEMMA CoveredIsBare ==
  ASSUME NEW a, NEW v \in Seq(Wrapper)
  PROVE  /\ Covered(a, v) \in Seq(Wrapper)
         /\ Plain(v) => Plain(Covered(a, v))
         /\ Bare(v) => Bare(Covered(a, v))
         /\ a = Simulate /\ Single(v) /\ Marked(v) => Bare(Covered(a, v))
<1>1. CASE ~(a = Simulate /\ Marked(v))
  <2>1. Covered(a, v) = v
    BY <1>1 DEF Covered
  <2> QED
    BY <1>1, <2>1
<1>2. CASE a = Simulate /\ Marked(v)
  <2> DEFINE k == CHOOSE i \in 1..Len(v) : MarkedAt(v, i)
             c == Covered(a, v)
  <2>1. k \in 1..Len(v) /\ v[k] = "hook"
    BY <1>2 DEF Marked, MarkedAt
  <2>2. c = SubSeq(v, 1 + k, Len(v))
    BY <1>2 DEF Covered
  <2> HIDE DEF k, c
  <2>3. Len(v) \in Nat /\ k \in Nat /\ 1 <= k /\ k <= Len(v)
    BY <2>1
  <2>4. c \in Seq(Wrapper) /\ Len(c) = Len(v) - k /\ \A i \in 1..Len(c) : c[i] = v[i + k]
    BY <2>2, <2>3
  <2>5. \A i \in 1..Len(c) : i + k \in 1..Len(v) /\ i + k # k
    BY <2>3, <2>4
  <2>6. Plain(v) => Plain(c)
    BY <2>4, <2>5 DEF Plain
  <2>7. Bare(v) => Bare(c)
    BY <2>4, <2>5 DEF Bare
  <2>8. Single(v) => Bare(c)
    BY <2>1, <2>4, <2>5 DEF Single, Bare
  <2> QED
    BY <2>4, <2>6, <2>7, <2>8 DEF c
<1> QED
  BY <1>1, <1>2

-----------------------------------------------------------------------------
(* What the pieces of the steps do to one attribute *)

\* An installer wraps what is not covered and leaves the rest.
LEMMA WrapsShape ==
  ASSUME Types, NEW as \in SUBSET Attrs, Wraps(as)
  PROVE  /\ value' \in [Attrs -> Seq(Wrapper)]
         /\ flags' \subseteq flags \cup as
         /\ \A a \in Attrs : patches'[a] = None \/ patches'[a].some \in Seq(Wrapper)
         /\ \A a \in Attrs :
               IF a \in Uncovered(as)
               THEN /\ value'[a] = <<"hook">> \o Covered(a, value[a])
                    /\ patches'[a] = Some(Covered(a, value[a]))
               ELSE value'[a] = value[a] /\ patches'[a] = patches[a]
<1>0. /\ value \in [Attrs -> Seq(Wrapper)] /\ "hook" \in Wrapper
      /\ \A a \in Attrs : patches[a] = None \/ patches[a].some \in Seq(Wrapper)
  BY DEF Types, HookTypeOK, Wrapper
<1>1. \A a \in Attrs :
         IF a \in Uncovered(as)
         THEN /\ value'[a] = <<"hook">> \o Covered(a, value[a])
              /\ patches'[a] = Some(Covered(a, value[a]))
         ELSE value'[a] = value[a] /\ patches'[a] = patches[a]
  BY DEF Wraps, Patched
<1>2. \A a \in Attrs : Covered(a, value[a]) \in Seq(Wrapper)
  BY <1>0, CoveredIsBare
<1>3. \A a \in Attrs : <<"hook">> \o Covered(a, value[a]) \in Seq(Wrapper)
  BY <1>0, <1>2, CoverShape
<1>4. value' \in [Attrs -> Seq(Wrapper)]
  BY <1>0, <1>3 DEF Wraps
<1>5. \A a \in Attrs : patches'[a] = None \/ patches'[a].some \in Seq(Wrapper)
  BY <1>0, <1>1, <1>2, SomeIsSet, ZenonT(30)
<1>6. flags' \subseteq flags \cup as
  BY DEF Wraps
<1> QED
  BY <1>1, <1>4, <1>5, <1>6

\* Whatever an installer flags is wrapped once, over something bare.
LEMMA WrapsOnce ==
  ASSUME Types, NEW as \in SUBSET Attrs, Wraps(as), NEW a \in Attrs,
         Bare(value[a]) \/ Single(value[a]),
         a \in flags => Single(value[a]),
         a = Send => Bare(value[a]) \/ a \notin as,
         a # Send => Plain(value[a]),
         patches[a] # None => Bare(patches[a].some),
         a # Send /\ patches[a] # None => Plain(patches[a].some),
         ~Bare(value[a]) => patches[a] # None
  PROVE  /\ Bare(value'[a]) \/ Single(value'[a])
         /\ a \in flags' => Single(value'[a])
         /\ a # Send => Plain(value'[a])
         /\ patches'[a] # None => Bare(patches'[a].some)
         /\ a # Send /\ patches'[a] # None => Plain(patches'[a].some)
         /\ ~Bare(value'[a]) => patches'[a] # None
         /\ value'[a] = value[a] \/ ~HasTrace(value'[a])
         /\ Single(value[a]) => Single(value'[a])
         /\ a \notin as => value'[a] = value[a]
<1> DEFINE v == value[a]
           o == Covered(a, v)
<1>0. v \in Seq(Wrapper) /\ "hook" \in Wrapper /\ o \in Seq(Wrapper)
  <2>1. v \in Seq(Wrapper) /\ "hook" \in Wrapper
    BY DEF Types, HookTypeOK, Wrapper
  <2> QED
    BY <2>1, CoveredIsBare
<1>1. IF a \in Uncovered(as) THEN value'[a] = <<"hook">> \o o /\ patches'[a] = Some(o)
      ELSE value'[a] = v /\ patches'[a] = patches[a]
  BY WrapsShape
<1>2. flags' \subseteq flags \cup as
  BY WrapsShape
<1>3. CASE a \in Uncovered(as)
  <2>1. a \in as /\ (a = Simulate \/ ~Marked(v))
    BY <1>3 DEF Uncovered
  <2>2. Bare(o) /\ (a # Send => Plain(o))
    <3>1. a # Send => Plain(o)
      BY <1>0, CoveredIsBare
    <3>2. CASE Bare(v)
      BY <1>0, <3>1, <3>2, CoveredIsBare
    <3>3. CASE Single(v) /\ a # Send
      <4>1. Marked(v) /\ a = Simulate
        BY <1>0, <2>1, <3>3, PlainIsMarked
      <4> QED
        BY <1>0, <3>1, <3>3, <4>1, CoveredIsBare
    <3> QED
      BY <2>1, <3>2, <3>3
  <2> HIDE DEF o
  <2>3. value'[a] = <<"hook">> \o o /\ patches'[a] # None /\ patches'[a].some = o
    BY <1>1, <1>3, SomeIsSet
  <2>4. Single(value'[a])
    BY <1>0, <2>2, <2>3, HookOverBare
  <2>5. a # Send => Plain(value'[a])
    BY <1>0, <2>2, <2>3, CoverPlain
  <2>6. ~HasTrace(value'[a])
    BY <1>0, <2>3, Heads
  <2> QED
    BY <2>1, <2>2, <2>3, <2>4, <2>5, <2>6
<1>4. CASE a \notin Uncovered(as)
  <2>1. value'[a] = v /\ patches'[a] = patches[a]
    BY <1>1, <1>4
  <2>2. ASSUME a \in flags' PROVE Single(v)
    <3>1. CASE a \in flags
      BY <3>1
    <3>2. CASE a \notin flags
      <4>1. a \in as /\ Marked(v)
        BY <1>2, <1>4, <2>2, <3>2 DEF Uncovered
      <4>2. ~Bare(v)
        BY <1>0, <4>1, PlainIsMarked
      <4> QED
        BY <4>2
    <3> QED
      BY <3>1, <3>2
  <2> QED
    BY <2>1, <2>2
<1> QED
  BY <1>3, <1>4

\* A tracer goes over an attribute and comes off again.
LEMMA TracedShape ==
  ASSUME Types, TraceStart
  PROVE  /\ value' \in [Attrs -> Seq(Wrapper)]
         /\ \A a \in Attrs : \/ value'[a] = value[a] /\ traces'[a] = None
                             \/ /\ a \in Traced /\ value'[a] = <<"trace">> \o value[a]
                                /\ traces'[a] # None /\ traces'[a].some = value[a]
<1>0. value \in [Attrs -> Seq(Wrapper)] /\ "trace" \in Wrapper
  BY DEF Types, HookTypeOK, Wrapper
<1>1. \A a \in Attrs : traces'[a] = IF a \in Traced /\ ~HasTrace(value[a]) THEN Some(value[a]) ELSE None
  BY DEF TraceStart
<1>2. \A a \in Attrs : value'[a] = IF traces'[a] # None THEN <<"trace">> \o value[a] ELSE value[a]
  BY DEF TraceStart
<1>3. \A a \in Attrs : <<"trace">> \o value[a] \in Seq(Wrapper)
  BY <1>0, CoverShape
<1>4. value' \in [Attrs -> Seq(Wrapper)]
  BY <1>0, <1>3 DEF TraceStart
<1>5. ASSUME NEW a \in Attrs
      PROVE  \/ value'[a] = value[a] /\ traces'[a] = None
             \/ /\ a \in Traced /\ value'[a] = <<"trace">> \o value[a]
                /\ traces'[a] # None /\ traces'[a].some = value[a]
  <2>1. CASE a \in Traced /\ ~HasTrace(value[a])
    BY <1>1, <1>2, <2>1, SomeIsSet
  <2>2. CASE ~(a \in Traced /\ ~HasTrace(value[a]))
    BY <1>1, <1>2, <2>2
  <2> QED
    BY <2>1, <2>2
<1> QED
  BY <1>4, <1>5

LEMMA StopsShape ==
  ASSUME Types, Stops
  PROVE  /\ value' \in [Attrs -> Seq(Wrapper)]
         /\ \A a \in Attrs : traces'[a] = None
         /\ \A a \in Attrs : \/ value'[a] = value[a]
                             \/ traces[a] # None /\ HasTrace(value[a]) /\ value'[a] = traces[a].some
<1>0. value \in [Attrs -> Seq(Wrapper)] /\ \A a \in Attrs : traces[a] = None \/ traces[a].some \in Seq(Wrapper)
  BY DEF Types, HookTypeOK
<1> QED
  BY <1>0 DEF Stops

\* The tracer leaves the wrapping of every attribute as it found it.
LEMMA StopsKeepsWrapping ==
  ASSUME Types, Wrapping, Tracing, Stops, stage = "up", NEW a \in Attrs
  PROVE  /\ Bare(value[a]) => Bare(value'[a])
         /\ Single(value[a]) => Single(value'[a])
         /\ Bare(value'[a]) \/ Single(value'[a])
         /\ ~Bare(value'[a]) => ~Bare(value[a])
         /\ a # Send => Plain(value'[a])
         /\ a = OnRemove => value'[a] = value[a]
<1>0. /\ value[a] \in Seq(Wrapper) /\ (traces[a] = None \/ traces[a].some \in Seq(Wrapper))
      /\ Bare(value[a]) \/ Single(value[a])
      /\ a # Send => Plain(value[a])
      /\ a = Send => Single(value[a])
      /\ a = OnRemove => traces[a] = None
  BY DEF Types, HookTypeOK, Wrapping, Tracing, Elsewhere
<1>1. CASE value'[a] = value[a]
  BY <1>0, <1>1
<1>2. CASE value'[a] # value[a]
  <2>1. traces[a] # None /\ HasTrace(value[a]) /\ value'[a] = traces[a].some
    BY <1>2, StopsShape
  <2>2. CASE a = Send
    <3>1. Single(value'[a])
      BY <2>1, <2>2 DEF Tracing
    <3>2. ~Bare(value'[a]) /\ ~Bare(value[a])
      BY <1>0, <2>2, <3>1 DEF Bare, Single
    <3> QED
      BY <1>0, <2>1, <2>2, <3>1, <3>2
  <2>3. CASE a # Send
    <3>1. value[a] = <<"trace">> \o value'[a] /\ value'[a] \in Seq(Wrapper)
      BY <1>0, <2>1, <2>3 DEF Tracing, Elsewhere
    <3>2. /\ Bare(value[a]) => Bare(value'[a])
          /\ Single(value[a]) => Single(value'[a])
          /\ Plain(value[a]) => Plain(value'[a])
      BY <1>0, <3>1, UnderTrace
    <3> QED
      BY <1>0, <2>1, <2>3, <3>2
  <2> QED
    BY <2>2, <2>3
<1> QED
  BY <1>1, <1>2

-----------------------------------------------------------------------------
(* Every step *)

LEMMA HookInitially == HookInit => HookInv
<1> SUFFICES ASSUME HookInit PROVE HookInv
  OBVIOUS
<1>1. \A a \in Attrs : value[a] = <<>> /\ patches[a] = None /\ traces[a] = None
  BY DEF HookInit
<1>2. Bare(<<>>) /\ Plain(<<>>)
  BY DEF Bare, Plain
<1>3. Types
  <2>1. value \in [Attrs -> Seq(Wrapper)] /\ handler \in Seq(Wrapper)
    BY DEF HookInit
  <2>2. listeners = 0 /\ stage = "down" /\ reloads \in 0..MaxReloads
    BY DEF HookInit
  <2>3. flags \subseteq Attrs /\ remotes \subseteq 0..MaxReloads /\ clients \subseteq 0..MaxReloads
    BY DEF HookInit
  <2> QED
    BY <1>1, <2>1, <2>2, <2>3 DEF HookInit, Types, HookTypeOK
<1>4. Wrapping
  BY <1>1, <1>2 DEF HookInit, Wrapping, Elsewhere
<1>5. Tracing
  BY <1>1 DEF HookInit, Tracing, Elsewhere
<1>6. Clients /\ ~cleared
  BY DEF HookInit, Clients
<1> QED
  BY <1>3, <1>4, <1>5, <1>6 DEF HookInv

\* A Client under way needs a cover of send_message that can be put back.
LEMMA CreatesShape ==
  ASSUME Types, Creates
  PROVE  /\ value' \in [Attrs -> Seq(Wrapper)]
         /\ value'[Send] = <<"boot">> \o value[Send] /\ boot' # None /\ boot'.some = value[Send]
         /\ value'[OnRemove] = IF Marked(value[OnRemove]) THEN value[OnRemove] ELSE <<"hook">> \o value[OnRemove]
         /\ \A a \in Attrs \ {Send, OnRemove} : value'[a] = value[a]
         /\ \A a \in Attrs \ {OnRemove} : patches'[a] = patches[a]
         /\ IF Marked(value[OnRemove]) THEN patches'[OnRemove] = patches[OnRemove]
            ELSE patches'[OnRemove] # None /\ patches'[OnRemove].some = value[OnRemove]
         /\ \A a \in Attrs : patches'[a] = None \/ patches'[a].some \in Seq(Wrapper)
<1>0. /\ value \in [Attrs -> Seq(Wrapper)] /\ "hook" \in Wrapper /\ "boot" \in Wrapper
      /\ Send \in Attrs /\ OnRemove \in Attrs /\ Send # OnRemove
      /\ \A a \in Attrs : patches[a] = None \/ patches[a].some \in Seq(Wrapper)
  BY DEF Types, HookTypeOK, Wrapper
<1>1. <<"boot">> \o value[Send] \in Seq(Wrapper) /\ <<"hook">> \o value[OnRemove] \in Seq(Wrapper)
  BY <1>0, CoverShape
<1>2. value' = [value EXCEPT ![Send] = <<"boot">> \o @,
                            ![OnRemove] = IF Marked(@) THEN @ ELSE <<"hook">> \o @]
  BY DEF Creates
<1> DEFINE s == <<"boot">> \o value[Send]
           r == IF Marked(value[OnRemove]) THEN value[OnRemove] ELSE <<"hook">> \o value[OnRemove]
<1>3. value' = [value EXCEPT ![Send] = s, ![OnRemove] = r]
  BY <1>0, <1>2
<1>4. s \in Seq(Wrapper) /\ r \in Seq(Wrapper)
  BY <1>0, <1>1
<1> HIDE DEF s, r
<1>5. /\ value' \in [Attrs -> Seq(Wrapper)] /\ value'[Send] = s /\ value'[OnRemove] = r
      /\ \A a \in Attrs \ {Send, OnRemove} : value'[a] = value[a]
  BY <1>0, <1>3, <1>4
<1>6. boot' # None /\ boot'.some = value[Send]
  BY SomeIsSet DEF Creates
<1>7. \A a \in Attrs : patches'[a] = IF a = OnRemove /\ ~Marked(value[OnRemove])
                                     THEN Some(Covered(a, value[a])) ELSE patches[a]
  BY DEF Creates, Patched
<1>8. Covered(OnRemove, value[OnRemove]) \in Seq(Wrapper)
      /\ (~Marked(value[OnRemove]) => Covered(OnRemove, value[OnRemove]) = value[OnRemove])
  BY <1>0, CoveredIsBare DEF Covered
<1>9. IF Marked(value[OnRemove]) THEN patches'[OnRemove] = patches[OnRemove]
      ELSE patches'[OnRemove] # None /\ patches'[OnRemove].some = value[OnRemove]
  BY <1>0, <1>7, <1>8, SomeIsSet
<1>10. \A a \in Attrs \ {OnRemove} : patches'[a] = patches[a]
  BY <1>7
<1>11. \A a \in Attrs : patches'[a] = None \/ patches'[a].some \in Seq(Wrapper)
  BY <1>0, <1>9, <1>10
<1> QED
  BY <1>5, <1>6, <1>9, <1>10, <1>11 DEF s, r

LEMMA TypesStep == Types /\ [HookNext]_hookVars => Types'
<1> SUFFICES ASSUME Types, [HookNext]_hookVars PROVE Types'
  OBVIOUS
<1> USE DEF Types, HookTypeOK
<1>1. CASE Install
  <2>1. Early \in SUBSET Attrs /\ Wraps(Early)
    BY <1>1 DEF Install
  <2>2. /\ value' \in [Attrs -> Seq(Wrapper)] /\ flags' \subseteq Attrs
        /\ \A a \in Attrs : patches'[a] = None \/ patches'[a].some \in Seq(Wrapper)
    BY <2>1, WrapsShape
  <2> QED
    BY <1>1, <2>2 DEF Install, traceVars, clientVars
<1>2. ASSUME NEW r \in {"host", "client"}, Welcome(r) PROVE Types'
  <2> DEFINE as == (Attrs \ (Early \cup {OnRemove})) \ (IF r = "client" THEN {} ELSE {Simulate})
  <2>1. as \in SUBSET Attrs /\ Wraps(as)
    BY <1>2 DEF Welcome
  <2>2. /\ value' \in [Attrs -> Seq(Wrapper)] /\ flags' \subseteq Attrs
        /\ \A a \in Attrs : patches'[a] = None \/ patches'[a].some \in Seq(Wrapper)
    BY <2>1, WrapsShape
  <2>3. handler' \in Seq(Wrapper) /\ (saved' = None \/ saved'.some \in Seq(Wrapper))
    <3>0. value[Cancel] \in Seq(Wrapper) /\ "command" \in Wrapper
      BY DEF Wrapper
    <3>1. <<"command">> \o value[Cancel] \in Seq(Wrapper)
      BY <3>0, CoverShape
    <3>2. CASE saved = None
      BY <1>2, <3>0, <3>1, <3>2, SomeIsSet DEF Welcome, Proxies
    <3>3. CASE saved # None
      BY <1>2, <3>3 DEF Welcome, Proxies
    <3> QED
      BY <3>2, <3>3
  <2> QED
    BY <1>2, <2>2, <2>3 DEF Welcome, traceVars, clientVars
<1>3. CASE Creates
  <2>1. /\ value' \in [Attrs -> Seq(Wrapper)] /\ boot'.some \in Seq(Wrapper)
        /\ \A a \in Attrs : patches'[a] = None \/ patches'[a].some \in Seq(Wrapper)
    BY <1>3, CreatesShape
  <2> QED
    BY <1>3, <2>1 DEF Creates, traceVars
<1>4. CASE Created
  <2>1. value' \in [Attrs -> Seq(Wrapper)] /\ boot' = None
    BY <1>4 DEF Created
  <2>2. remotes' \subseteq 0..MaxReloads /\ clients' \subseteq 0..MaxReloads
    BY <1>4 DEF Created
  <2> QED
    BY <1>4, <2>1, <2>2 DEF Created, installVars, traceVars
<1>5. CASE TraceStart
  <2>1. value' \in [Attrs -> Seq(Wrapper)] /\ \A a \in Attrs : traces'[a] = None \/ traces'[a].some \in Seq(Wrapper)
    BY <1>5, TracedShape
  <2> QED
    BY <1>5, <2>1 DEF TraceStart, installVars, clientVars
<1>6. CASE TraceStop
  <2>1. value' \in [Attrs -> Seq(Wrapper)] /\ \A a \in Attrs : traces'[a] = None
    BY <1>6, StopsShape DEF TraceStop
  <2>2. tracing' = FALSE
    BY <1>6 DEF TraceStop, Stops
  <2> QED
    BY <1>6, <2>1, <2>2 DEF TraceStop, installVars, clientVars
<1>7. CASE StopsBridge
  <2>1. value' \in [Attrs -> Seq(Wrapper)] /\ \A a \in Attrs : traces'[a] = None
    BY <1>7, StopsShape DEF StopsBridge
  <2>2. tracing' = FALSE
    BY <1>7 DEF StopsBridge, Stops
  <2>3. reloads' \in 0..MaxReloads /\ stage' = "stopped" /\ listeners' = 1
    BY <1>7 DEF StopsBridge, installVars
  <2> QED
    BY <1>7, <2>1, <2>2, <2>3 DEF StopsBridge, installVars, clientVars
<1>8. CASE Unproxies
  <2>1. remotes' \subseteq 0..MaxReloads /\ clients' \subseteq 0..MaxReloads
    BY <1>8 DEF Unproxies, RemovesClients
  <2>2. handler' \in Seq(Wrapper)
    BY <1>8 DEF Unproxies
  <2> QED
    BY <1>8, <2>1, <2>2 DEF Unproxies, traceVars
<1>9. CASE Restores
  <2>1. value' \in [Attrs -> Seq(Wrapper)]
    BY <1>9 DEF Restores, Restored
  <2> QED
    BY <1>9, <2>1 DEF Restores, traceVars, clientVars
<1>10. CASE UNCHANGED hookVars
  BY <1>10 DEF hookVars, installVars, traceVars, clientVars
<1> QED
  BY <1>1, <1>2, <1>3, <1>4, <1>5, <1>6, <1>7, <1>8, <1>9, <1>10 DEF HookNext

\* Unless a teardown overtakes the reader.
Good == Wrapping /\ Tracing /\ Clients /\ ~cleared

LEMMA NotBoth ==
  ASSUME NEW v, Single(v)
  PROVE  ~Bare(v)
BY DEF Single, Bare

LEMMA InstallKeeps ==
  ASSUME Types, Good, Install
  PROVE  Good'
<1>0. /\ stage = "down" /\ stage' = "up" /\ flags = {} /\ \A a \in Attrs : Bare(value[a])
      /\ boot = None /\ remotes = {} /\ \A a \in Attrs : traces[a] = None
  BY DEF Good, Wrapping, Tracing, Clients, Install
<1>1. Early \in SUBSET Attrs /\ Wraps(Early)
  BY DEF Install
<1>2. ASSUME NEW a \in Attrs
      PROVE  /\ Bare(value'[a]) \/ Single(value'[a])
             /\ a \in flags' => Single(value'[a])
             /\ a # Send => Plain(value'[a])
             /\ patches'[a] # None => Bare(patches'[a].some)
             /\ a # Send /\ patches'[a] # None => Plain(patches'[a].some)
             /\ ~Bare(value'[a]) => patches'[a] # None
  <2>1. /\ a # Send => Plain(value[a])
        /\ patches[a] # None => Bare(patches[a].some)
        /\ a # Send /\ patches[a] # None => Plain(patches[a].some)
    BY DEF Good, Wrapping, Elsewhere
  <2> QED
    BY <1>0, <1>1, <2>1, WrapsOnce
<1>3. Early \subseteq flags' /\ flags' \subseteq Attrs
  <2>1. ~Marked(value[Cancel])
    BY <1>0, PlainIsMarked DEF Types, HookTypeOK
  <2>2. Cancel \in Uncovered(Early)
    BY <1>0, <2>1 DEF Uncovered
  <2>3. flags' = flags \cup Early
    BY <1>1, <2>2 DEF Wraps
  <2> QED
    BY <1>0, <2>3
<1>4. Wrapping'
  BY <1>0, <1>2, <1>3 DEF Wrapping, Elsewhere
<1>5. boot' = boot /\ remotes' = remotes /\ clients' = clients /\ failed' = failed /\ cleared' = cleared /\ traces' = traces
  BY DEF Install, clientVars, traceVars
<1>6. Tracing'
  BY <1>0, <1>5 DEF Tracing, Elsewhere
<1>7. Clients'
  BY <1>0, <1>5 DEF Good, Clients
<1> QED
  BY <1>4, <1>5, <1>6, <1>7 DEF Good

LEMMA WelcomeKeeps ==
  ASSUME Types, Good, NEW r \in {"host", "client"}, Welcome(r)
  PROVE  Good'
<1> DEFINE as == (Attrs \ (Early \cup {OnRemove})) \ (IF r = "client" THEN {} ELSE {Simulate})
<1>0. /\ stage = "up" /\ stage' = "up" /\ Early \subseteq flags /\ \A a \in flags : Single(value[a])
      /\ flags \subseteq Attrs
  BY DEF Good, Wrapping, Welcome, Types, HookTypeOK
<1>1. as \in SUBSET Attrs /\ Wraps(as) /\ Send \notin as /\ OnRemove \notin as
  BY DEF Welcome
<1> HIDE DEF as
<1>2. ASSUME NEW a \in Attrs
      PROVE  /\ Bare(value'[a]) \/ Single(value'[a])
             /\ a \in flags' => Single(value'[a])
             /\ a # Send => Plain(value'[a])
             /\ patches'[a] # None => Bare(patches'[a].some)
             /\ a # Send /\ patches'[a] # None => Plain(patches'[a].some)
             /\ ~Bare(value'[a]) => patches'[a] # None
             /\ value'[a] = value[a] \/ ~HasTrace(value'[a])
             /\ a \notin as => value'[a] = value[a]
  <2>1. /\ Bare(value[a]) \/ Single(value[a])
        /\ a \in flags => Single(value[a])
        /\ a # Send => Plain(value[a])
        /\ patches[a] # None => Bare(patches[a].some)
        /\ a # Send /\ patches[a] # None => Plain(patches[a].some)
        /\ ~Bare(value[a]) => patches[a] # None
    BY <1>0 DEF Good, Wrapping, Elsewhere
  <2> QED
    BY <1>1, <2>1, WrapsOnce
<1>3. flags \subseteq flags' /\ flags' \subseteq Attrs
  BY <1>0, <1>1 DEF Wraps
<1>4. Wrapping'
  BY <1>0, <1>2, <1>3 DEF Wrapping, Elsewhere
<1>5. boot' = boot /\ remotes' = remotes /\ clients' = clients /\ failed' = failed /\ cleared' = cleared /\ traces' = traces
  BY DEF Welcome, clientVars, traceVars
<1>6. Tracing'
  <2>1. \A a \in Elsewhere :
           traces'[a] # None /\ HasTrace(value'[a]) => value'[a] = <<"trace">> \o traces'[a].some
    BY <1>2, <1>5 DEF Good, Tracing, Elsewhere
  <2> QED
    BY <1>0, <1>5, <2>1 DEF Good, Tracing
<1>7. Clients'
  <2>1. value'[OnRemove] = value[OnRemove]
    BY <1>1, <1>2
  <2> QED
    BY <1>0, <1>5, <2>1 DEF Good, Clients
<1> QED
  BY <1>4, <1>5, <1>6, <1>7 DEF Good

LEMMA CreatesKeeps ==
  ASSUME Types, Good, Creates
  PROVE  Good'
<1>0. /\ stage = "up" /\ stage' = "up" /\ Single(value[Send]) /\ Send # OnRemove
      /\ value[Send] \in Seq(Wrapper) /\ value[OnRemove] \in Seq(Wrapper)
      /\ Plain(value[OnRemove]) /\ (Bare(value[OnRemove]) \/ Single(value[OnRemove]))
      /\ "boot" \in Wrapper /\ "hook" \in Wrapper /\ OnRemove \in Elsewhere /\ flags \subseteq Attrs
  BY DEF Good, Wrapping, Creates, Types, HookTypeOK, Wrapper, Elsewhere
<1>1. /\ flags' = flags /\ traces' = traces /\ remotes' = remotes /\ clients' = clients
      /\ failed' = failed /\ cleared' = cleared
  BY DEF Creates, traceVars
<1>2. Single(value'[Send])
  BY <1>0, CreatesShape, CoverSingle
<1>3. /\ Single(value'[OnRemove]) /\ Plain(value'[OnRemove])
      /\ patches'[OnRemove] # None /\ Bare(patches'[OnRemove].some) /\ Plain(patches'[OnRemove].some)
  <2>1. CASE Marked(value[OnRemove])
    <3>1. Single(value[OnRemove])
      BY <1>0, <2>1, PlainIsMarked
    <3>2. value'[OnRemove] = value[OnRemove] /\ patches'[OnRemove] = patches[OnRemove]
      BY <2>1, CreatesShape
    <3>3. ~Bare(value[OnRemove])
      BY <3>1, NotBoth
    <3> QED
      BY <1>0, <3>1, <3>2, <3>3 DEF Good, Wrapping, Elsewhere
  <2>2. CASE ~Marked(value[OnRemove])
    <3>1. Bare(value[OnRemove])
      BY <1>0, <2>2, PlainIsMarked
    <3>2. /\ value'[OnRemove] = <<"hook">> \o value[OnRemove]
          /\ patches'[OnRemove] # None /\ patches'[OnRemove].some = value[OnRemove]
      BY <2>2, CreatesShape
    <3>3. Single(value'[OnRemove])
      BY <1>0, <3>1, <3>2, HookOverBare
    <3>4. Plain(value'[OnRemove])
      BY <1>0, <3>2, CoverPlain
    <3> QED
      BY <1>0, <3>1, <3>2, <3>3, <3>4
  <2> QED
    BY <2>1, <2>2
<1>4. \A a \in Attrs \ {Send, OnRemove} : value'[a] = value[a] /\ patches'[a] = patches[a]
  BY CreatesShape
<1>5. patches'[Send] = patches[Send] /\ patches[Send] # None
  <2>1. ~Bare(value[Send])
    BY <1>0, NotBoth
  <2> QED
    BY <1>0, <2>1, CreatesShape DEF Good, Wrapping
<1>6. Wrapping'
  BY <1>0, <1>1, <1>2, <1>3, <1>4, <1>5 DEF Good, Wrapping, Elsewhere
<1>7. Tracing'
  <2>1. boot'.some = value[Send]
    BY CreatesShape
  <2>2. traces'[OnRemove] = None
    BY <1>1 DEF Good, Tracing
  <2> QED
    BY <1>0, <1>1, <1>4, <2>1, <2>2 DEF Good, Tracing, Elsewhere
<1>8. Clients'
  BY <1>0, <1>1, <1>3 DEF Good, Clients
<1> QED
  BY <1>1, <1>6, <1>7, <1>8 DEF Good

LEMMA CreatedKeeps ==
  ASSUME Types, Good, Created
  PROVE  Good'
<1>0. /\ boot # None /\ stage = "up" /\ stage' = "up" /\ Single(boot.some) /\ Single(value[OnRemove])
      /\ Send # OnRemove /\ Send \in flags /\ flags \subseteq Attrs /\ Send \in Attrs /\ OnRemove \in Attrs
  BY DEF Good, Wrapping, Tracing, Clients, Created, Types, HookTypeOK
<1>1. /\ flags' = flags /\ traces' = traces /\ patches' = patches /\ boot' = None
      /\ failed' = failed /\ cleared' = cleared
  BY DEF Created, traceVars, installVars
<1>2. value'[Send] = boot.some /\ \A a \in Elsewhere : value'[a] = value[a]
  BY DEF Created, Types, HookTypeOK, Elsewhere
<1>3. patches[Send] # None
  <2>1. ~Bare(value[Send])
    BY <1>0, NotBoth DEF Good, Wrapping
  <2> QED
    BY <1>0, <2>1 DEF Good, Wrapping
<1>4. Wrapping'
  BY <1>0, <1>1, <1>2, <1>3 DEF Good, Wrapping, Elsewhere
<1>5. Tracing'
  BY <1>0, <1>1, <1>2 DEF Good, Tracing
<1>6. Clients'
  <2>1. Single(value'[OnRemove])
    BY <1>0, <1>2 DEF Elsewhere
  <2>2. failed \/ clients' = remotes'
    BY DEF Created, Good, Clients
  <2> QED
    BY <1>0, <1>1, <2>1, <2>2 DEF Clients
<1> QED
  BY <1>1, <1>4, <1>5, <1>6 DEF Good

LEMMA TraceStartKeeps ==
  ASSUME Types, Good, TraceStart
  PROVE  Good'
<1>0. /\ stage = "up" /\ stage' = "up" /\ Single(value[Send]) /\ flags \subseteq Attrs /\ Send \in Attrs
      /\ "trace" \in Wrapper
  BY DEF Good, Wrapping, TraceStart, Types, HookTypeOK, Wrapper
<1>1. /\ flags' = flags /\ patches' = patches /\ boot' = boot /\ remotes' = remotes /\ clients' = clients
      /\ failed' = failed /\ cleared' = cleared
  BY DEF TraceStart, installVars, clientVars
<1>2. ASSUME NEW a \in Attrs
      PROVE  /\ Bare(value[a]) => Bare(value'[a])
             /\ Single(value[a]) => Single(value'[a])
             /\ Plain(value[a]) => Plain(value'[a])
             /\ traces'[a] # None => value'[a] = <<"trace">> \o traces'[a].some /\ traces'[a].some = value[a]
  <2>1. value[a] \in Seq(Wrapper)
    BY DEF Types, HookTypeOK
  <2>2. CASE value'[a] = value[a] /\ traces'[a] = None
    BY <2>2
  <2>3. CASE /\ a \in Traced /\ value'[a] = <<"trace">> \o value[a]
             /\ traces'[a] # None /\ traces'[a].some = value[a]
    BY <1>0, <2>1, <2>3, CoverBare, CoverSingle, CoverPlain
  <2> QED
    BY <2>2, <2>3, TracedShape
<1>3. value'[OnRemove] = value[OnRemove] /\ traces'[OnRemove] = None
  BY TracedShape
<1>4. Wrapping'
  BY <1>0, <1>1, <1>2 DEF Good, Wrapping, Elsewhere
<1>5. Tracing'
  BY <1>0, <1>1, <1>2, <1>3 DEF Good, Tracing, Elsewhere
<1>6. Clients'
  BY <1>0, <1>1, <1>3 DEF Good, Clients
<1> QED
  BY <1>1, <1>4, <1>5, <1>6 DEF Good

LEMMA StoppingKeeps ==
  ASSUME Types, Good, Stops, stage = "up", stage' \in {"up", "stopped"}, UNCHANGED <<installVars, clientVars>>,
         stage' = "stopped" => boot = None
  PROVE  Good'
<1>1. /\ flags' = flags /\ patches' = patches /\ boot' = boot /\ remotes' = remotes /\ clients' = clients
      /\ failed' = failed /\ cleared' = cleared /\ flags \subseteq Attrs
  BY DEF installVars, clientVars, Types, HookTypeOK
<1>2. \A a \in Attrs : traces'[a] = None
  BY StopsShape
<1>3. \A a \in Attrs :
         /\ Single(value[a]) => Single(value'[a])
         /\ Bare(value'[a]) \/ Single(value'[a])
         /\ ~Bare(value'[a]) => ~Bare(value[a])
         /\ a # Send => Plain(value'[a])
         /\ a = OnRemove => value'[a] = value[a]
  BY StopsKeepsWrapping DEF Good
<1>4. Wrapping'
  BY <1>1, <1>3 DEF Good, Wrapping, Elsewhere
<1>5. Tracing'
  BY <1>1, <1>2 DEF Good, Tracing, Elsewhere
<1>6. Clients'
  BY <1>1, <1>3 DEF Good, Clients
<1> QED
  BY <1>1, <1>4, <1>5, <1>6 DEF Good

LEMMA UnproxiesKeeps ==
  ASSUME Types, Good, Unproxies
  PROVE  Good'
<1>1. /\ stage = "stopped" /\ stage' = "unproxied" /\ value' = value /\ patches' = patches /\ flags' = flags
      /\ traces' = traces /\ boot' = boot /\ remotes' = {}
  BY DEF Unproxies, RemovesClients, traceVars
<1>2. Wrapping'
  BY <1>1 DEF Good, Wrapping
<1>3. Tracing'
  BY <1>1 DEF Good, Tracing
<1>4. Clients'
  <2>1. boot = None
    BY <1>1 DEF Good, Tracing
  <2>2. failed' \/ clients' = {}
    BY DEF Good, Clients, Unproxies, RemovesClients
  <2> QED
    BY <1>1, <2>1, <2>2 DEF Clients
<1>5. ~cleared'
  <2>1. remotes # {} => Hooks(value[OnRemove]) = 1
    BY SingleHasOne DEF Good, Clients, Types, HookTypeOK
  <2>2. cleared' = (cleared \/ (remotes # {} /\ Hooks(value[OnRemove]) = 0))
    BY DEF Unproxies, RemovesClients
  <2>3. ~(remotes # {} /\ Hooks(value[OnRemove]) = 0)
    BY <2>1
  <2>4. ~cleared
    BY DEF Good
  <2> QED
    BY <2>2, <2>3, <2>4, Zenon
<1> QED
  BY <1>2, <1>3, <1>4, <1>5 DEF Good

LEMMA RestoresKeeps ==
  ASSUME Types, Good, Restores
  PROVE  Good'
<1>1. /\ stage = "unproxied" /\ stage' = "down" /\ flags' = {} /\ traces' = traces /\ boot' = boot
      /\ remotes' = remotes /\ clients' = clients /\ failed' = failed /\ cleared' = cleared
      /\ \A a \in Attrs : patches'[a] = None /\ value'[a] = Restored(a)
  BY DEF Restores, traceVars, clientVars
<1>2. boot = None /\ remotes = {} /\ \A a \in Attrs : traces[a] = None
  BY <1>1 DEF Good, Tracing, Clients
<1>3. \A a \in Attrs : Bare(value'[a]) /\ (a # Send => Plain(value'[a]))
  BY <1>1 DEF Good, Wrapping, Restored, Elsewhere
<1>4. Wrapping'
  BY <1>1, <1>3 DEF Wrapping, Elsewhere
<1>5. Tracing'
  BY <1>1, <1>2 DEF Tracing, Elsewhere
<1>6. Clients'
  BY <1>1, <1>2 DEF Good, Clients
<1> QED
  BY <1>1, <1>4, <1>5, <1>6 DEF Good

LEMMA HookStep == HookInv /\ [HookNext]_hookVars => HookInv'
<1> SUFFICES ASSUME HookInv, [HookNext]_hookVars, ~overrun' PROVE Good'
  BY TypesStep DEF HookInv, Good
<1>0. Types /\ ~overrun /\ Good
  <2>1. ~overrun
    BY DEF HookNext, Install, Welcome, Creates, Created, TraceStart, TraceStop, StopsBridge, Unproxies,
           Restores, hookVars
  <2> QED
    BY <2>1 DEF HookInv, Good
<1>1. CASE Install
  BY <1>0, <1>1, InstallKeeps
<1>2. ASSUME NEW r \in {"host", "client"}, Welcome(r) PROVE Good'
  BY <1>0, <1>2, WelcomeKeeps
<1>3. CASE Creates
  BY <1>0, <1>3, CreatesKeeps
<1>4. CASE Created
  BY <1>0, <1>4, CreatedKeeps
<1>5. CASE TraceStart
  BY <1>0, <1>5, TraceStartKeeps
<1>6. CASE TraceStop
  BY <1>0, <1>6, StoppingKeeps DEF TraceStop
<1>7. CASE StopsBridge
  BY <1>0, <1>7, StoppingKeeps DEF StopsBridge
<1>8. CASE Unproxies
  BY <1>0, <1>8, UnproxiesKeeps
<1>9. CASE Restores
  BY <1>0, <1>9, RestoresKeeps
<1>10. CASE UNCHANGED hookVars
  BY <1>0, <1>10 DEF hookVars, installVars, traceVars, clientVars, Good, Wrapping, Tracing, Clients
<1> QED
  BY <1>1, <1>2, <1>3, <1>4, <1>5, <1>6, <1>7, <1>8, <1>9, <1>10 DEF HookNext

-----------------------------------------------------------------------------
(* The theorems *)

\* The wrapping of every attribute is known to the registry, whatever the
\* tracer, the reader and a reload do in between.
THEOREM HookInvariance == HookSpec => []HookInv
<1> QED
  BY HookInitially, HookStep, PTL DEF HookSpec

\* The registry keeps its types, and the callbacks of the build mode are
\* registered once while the mod is installed.  (hooks.py:122, 163)
THEOREM HookTypesHold == HookSpec => []HookTypeOK
<1>1. HookInv => HookTypeOK
  BY DEF HookInv, Types
<1> QED
  BY <1>1, HookInvariance, PTL

\* No call of the game is intercepted twice and what is taken for intercepted
\* is, through any welcomes, traces and reloads that no creation of a Client
\* outlives.  (hooks.py:1425, interaction_trace.py:249)
THEOREM CallsAreInterceptedOnce == HookSpec => []InterceptedOnce
<1>1. HookInv => InterceptedOnce
  <2> SUFFICES ASSUME HookInv, ~overrun, NEW a \in Attrs
               PROVE  Hooks(value[a]) <= 1 /\ (stage = "up" /\ a \in flags => Hooks(value[a]) = 1)
    BY DEF InterceptedOnce
  <2>1. value[a] \in Seq(Wrapper) /\ (Bare(value[a]) \/ Single(value[a]))
        /\ (stage = "up" /\ a \in flags => Single(value[a]))
    BY DEF HookInv, Types, HookTypeOK, Wrapping
  <2>2. Bare(value[a]) => Hooks(value[a]) = 0
    BY <2>1, BareHasNone
  <2>3. Single(value[a]) => Hooks(value[a]) = 1
    BY <2>1, SingleHasOne
  <2> QED
    BY <2>1, <2>2, <2>3
<1> QED
  BY <1>1, HookInvariance, PTL

\* A teardown the reader does not outlive takes every interception off, also
\* where a tracer was put over or under it, and leaves no Client but one the
\* game refused to remove.  (hooks.py:189)
THEOREM TeardownIsComplete == HookSpec => []NothingIntercepted
<1>1. HookInv => NothingIntercepted
  <2> SUFFICES ASSUME HookInv, ~overrun, stage = "down"
               PROVE  (\A a \in Attrs : Hooks(value[a]) = 0) /\ (failed \/ clients = {})
    BY DEF NothingIntercepted
  <2>1. ASSUME NEW a \in Attrs PROVE Hooks(value[a]) = 0
    <3>1. value[a] \in Seq(Wrapper) /\ Bare(value[a])
      BY DEF HookInv, Types, HookTypeOK, Wrapping
    <3> QED
      BY <3>1, BareHasNone
  <2>2. failed \/ clients = {}
    BY DEF HookInv, Clients
  <2> QED
    BY <2>1, <2>2
<1> QED
  BY <1>1, HookInvariance, PTL

\* A Client of KerMP is removed while its on_remove is still KerMP's: the
\* game's Distributor keeps its own client.  (hooks.py:182)
THEOREM DistributorKeepsItsClient == HookSpec => []StockClientStays
<1>1. HookInv => StockClientStays
  BY DEF HookInv, StockClientStays
<1> QED
  BY <1>1, HookInvariance, PTL

=============================================================================
