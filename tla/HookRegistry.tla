------------------------------ MODULE HookRegistry ------------------------------
(***************************************************************************)
(* How the mod gets into the game and out of it again: the wrappers hooks.py *)
(* puts over attributes of the game and the list of what they covered, the   *)
(* handler it registers for a console command, the Client objects it creates *)
(* for remote players, the tracer of interaction_trace.py that wraps some of  *)
(* the same attributes, and kermp.reload, which takes all of it out and in.   *)
(*                                                                         *)
(* What an attribute holds is the sequence of wrappers over the game's own   *)
(* callable, the outermost first: <<>> is the game's.  Reload runs on the     *)
(* game's thread; commands for remote players run on the bridge's reader.     *)
(***************************************************************************)
EXTENDS Naturals, Sequences, FiniteSets

CONSTANTS
    Attrs,
    Early,          \* wrapped by install(), the others at a welcome
    Traced,         \* those of _TRACE_SPECS
    Send, Cancel, Simulate, OnRemove,   \* attributes with a part of their own
    MaxReloads, MaxTraces               \* bounds

ASSUME HookAssumption ==
    /\ {Send, Cancel, Simulate, OnRemove} \subseteq Attrs
    /\ {Send, Cancel} \subseteq Early /\ Early \subseteq Attrs /\ Traced \subseteq Attrs
    /\ {Simulate, OnRemove} \cap Early = {} /\ OnRemove \notin Traced
    /\ MaxReloads \in Nat /\ MaxTraces \in Nat

VARIABLES
    value,      \* the wrappers over each attribute
    patches,    \* hooks._patches: what the last entry for each attribute covered, if any
    flags,      \* the attributes whose ..._installed flag is set
    listeners,  \* how often the build mode callbacks are registered
    handler,    \* the wrappers in the registered handler of interactions.cancel_si
    saved,      \* _command_registry_patches: what to register again, if anything
    role,       \* _sidecar_role
    stage,      \* how far a teardown has come
    tracing,    \* interaction_trace._enabled
    traces,     \* interaction_trace._patches
    boot,       \* original_send, while the reader creates a Client
    remotes,    \* _remote_clients
    clients,    \* KerMP's Clients in the game's ClientManager
    reloads, started,   \* the bounds' counters
    cleared,    \* history: a Client of KerMP was removed by the game's on_remove
    failed,     \* history: the game failed to remove one
    overrun     \* history: the reader outlived the join of a teardown

installVars == <<patches, flags, listeners, handler, saved, role>>
traceVars == <<tracing, traces, started>>
clientVars == <<boot, remotes, clients, cleared, failed>>
hookVars == <<value, installVars, traceVars, clientVars, stage, reloads, overrun>>

None == [none |-> TRUE]
Some(v) == [some |-> v]
Wrapper == {"hook", "trace", "boot", "command"}

\* functools.wraps copies the marks of what it wraps, so that a tracer's wrapper
\* over one of KerMP's passes for one of KerMP's too.
MarkedAt(v, i) == v[i] = "hook" /\ \A j \in 1..(i - 1) : v[j] = "trace"
Marked(v) == \E i \in 1..Len(v) : MarkedAt(v, i)
HasTrace(v) == v # <<>> /\ Head(v) = "trace"
Hooks(v) == Cardinality({i \in 1..Len(v) : v[i] = "hook"})

HookInit ==
    /\ value = [a \in Attrs |-> <<>>] /\ patches = [a \in Attrs |-> None] /\ flags = {} /\ listeners = 0
    /\ handler = <<>> /\ saved = None /\ role = "unknown" /\ stage = "down"
    /\ tracing = FALSE /\ traces = [a \in Attrs |-> None]
    /\ boot = None /\ remotes = {} /\ clients = {}
    /\ reloads = 0 /\ started = 0 /\ cleared = FALSE /\ failed = FALSE /\ overrun = FALSE

-----------------------------------------------------------------------------
(* Wrapping.  An installer leaves an attribute alone whose flag is set or     *)
(* that holds a wrapper of KerMP already; only the one of Timeline.simulate   *)
(* (lifecycle_guard) takes what is under that wrapper instead.                *)

\* What a wrapper put over v covers.
Covered(a, v) ==
    IF a = Simulate /\ Marked(v) THEN SubSeq(v, 1 + CHOOSE i \in 1..Len(v) : MarkedAt(v, i), Len(v))
    ELSE v

\* Mutant: installers look at no flag and no mark.
UncoveredAgain(as) == as
Uncovered(as) == {a \in as \ flags : a = Simulate \/ ~Marked(value[a])}

\* patches with entries for all of as.  The originals go back in the order they
\* were recorded: of two entries for an attribute the later one counts.
Patched(as) == [a \in Attrs |-> IF a \in as THEN Some(Covered(a, value[a])) ELSE patches[a]]

Wraps(as) ==
    LET new == Uncovered(as) IN
    /\ value' = [a \in Attrs |-> IF a \in new THEN <<"hook">> \o Covered(a, value[a]) ELSE value[a]]
    /\ patches' = Patched(new)
    /\ flags' = flags \cup (IF Cancel \in new THEN as ELSE as \ {Cancel})

\* install(), with the globals a reload leaves fresh.
Install ==
    /\ stage = "down" /\ stage' = "up"
    /\ Wraps(Early)
    /\ listeners' = listeners + 1
    /\ UNCHANGED <<handler, saved, role, traceVars, clientVars, reloads, overrun>>

\* _install_native_command_proxy, once: the command's handler over what
\* interaction_commands holds now, which is kept to be registered again.  (One
\* of its seven commands stands for all.)
Proxies ==
    IF saved = None
    THEN saved' = Some(value[Cancel]) /\ handler' = <<"command">> \o value[Cancel]
    ELSE UNCHANGED <<saved, handler>>

\* _sidecar_welcome: the rest of the wrappers, that of the simulation in a client
\* only, and the proxies.
Welcome(r) ==
    /\ stage = "up" /\ role' = r
    /\ Wraps((Attrs \ (Early \cup {OnRemove})) \ (IF r = "client" THEN {} ELSE {Simulate}))
    /\ Proxies
    /\ UNCHANGED <<listeners, traceVars, clientVars, stage, reloads, overrun>>

-----------------------------------------------------------------------------
(* The reader's thread: _remote_client_for, which covers Client.on_add and    *)
(* on_remove once, and Client.send_message while the game makes the Client.   *)

Creates ==
    /\ stage = "up" /\ role = "host" /\ boot = None /\ remotes = {}
    /\ boot' = Some(value[Send])
    /\ value' = [value EXCEPT ![Send] = <<"boot">> \o @, ![OnRemove] = IF Marked(@) THEN @ ELSE <<"hook">> \o @]
    /\ patches' = Patched(IF Marked(value[OnRemove]) THEN {} ELSE {OnRemove})
    /\ UNCHANGED <<flags, listeners, handler, saved, role, traceVars, remotes, clients,
                   cleared, failed, stage, reloads, overrun>>

\* It ends, with a Client or an exception, whatever happened to the mod meanwhile.
Created ==
    /\ boot # None /\ boot' = None
    /\ value' = [value EXCEPT ![Send] = boot.some]
    /\ \/ remotes' = remotes \cup {reloads} /\ clients' = clients \cup {reloads}
       \/ UNCHANGED <<remotes, clients>>
    /\ UNCHANGED <<installVars, traceVars, cleared, failed, stage, reloads, overrun>>

-----------------------------------------------------------------------------
(* The tracer.                                                               *)

TraceStart ==
    /\ stage = "up" /\ ~tracing /\ started < MaxTraces
    /\ started' = started + 1 /\ tracing' = TRUE
    /\ traces' = [a \in Attrs |-> IF a \in Traced /\ ~HasTrace(value[a]) THEN Some(value[a]) ELSE None]
    /\ value' = [a \in Attrs |-> IF traces'[a] # None THEN <<"trace">> \o value[a] ELSE value[a]]
    /\ UNCHANGED <<installVars, clientVars, stage, reloads, overrun>>

\* Mutant: what was there at the start comes back, whoever came in between.
StopsBlindly ==
    /\ tracing' = FALSE /\ traces' = [a \in Attrs |-> None]
    /\ value' = [a \in Attrs |-> IF traces[a] # None THEN traces[a].some ELSE value[a]]

\* A wrapper somebody has covered in the meantime stays where it is.
Stops ==
    /\ tracing' = FALSE /\ traces' = [a \in Attrs |-> None]
    /\ value' = [a \in Attrs |-> IF traces[a] # None /\ HasTrace(value[a]) THEN traces[a].some ELSE value[a]]

TraceStop ==
    /\ stage = "up" /\ tracing
    /\ Stops
    /\ UNCHANGED <<installVars, clientVars, started, stage, reloads, overrun>>

-----------------------------------------------------------------------------
(* teardown(), in the order of its steps.                                    *)

\* The tracer and the bridge stop; the reader gets a second to end.
StopsBridge ==
    /\ stage = "up" /\ reloads < MaxReloads
    /\ stage' = "stopped" /\ reloads' = reloads + 1
    /\ Stops
    /\ overrun' = (overrun \/ boot # None)
    /\ UNCHANGED <<installVars, clientVars, started>>

\* The originals go back.
Restored(a) == IF patches[a] = None THEN value[a] ELSE patches[a].some

\* Mutant: the wrappers are taken off before the Clients are removed.
RemovesClientsLast ==
    /\ cleared' = (cleared \/ (remotes # {} /\ Hooks(Restored(OnRemove)) = 0))
    /\ remotes' = {}
    /\ \/ clients' = clients \ remotes /\ UNCHANGED failed
       \/ remotes # {} /\ failed' = TRUE /\ UNCHANGED clients

\* Removing a Client runs the on_remove its class has now; the game may refuse.
RemovesClients ==
    /\ cleared' = (cleared \/ (remotes # {} /\ Hooks(value[OnRemove]) = 0))
    /\ remotes' = {}
    /\ \/ clients' = clients \ remotes /\ UNCHANGED failed
       \/ remotes # {} /\ failed' = TRUE /\ UNCHANGED clients

Unproxies ==
    /\ stage = "stopped" /\ stage' = "unproxied"
    /\ handler' = IF saved = None THEN handler ELSE saved.some
    /\ saved' = None
    /\ RemovesClients
    /\ UNCHANGED <<value, patches, flags, listeners, role, traceVars, boot, reloads, overrun>>

\* Mutant: the callbacks of the build mode stay registered.
RestoresAttributesOnly ==
    /\ stage = "unproxied" /\ stage' = "down"
    /\ value' = [a \in Attrs |-> Restored(a)]
    /\ patches' = [a \in Attrs |-> None] /\ flags' = {} /\ role' = "unknown"
    /\ UNCHANGED <<handler, saved, listeners, traceVars, clientVars, reloads, overrun>>

Restores ==
    /\ stage = "unproxied" /\ stage' = "down"
    /\ value' = [a \in Attrs |-> Restored(a)]
    /\ patches' = [a \in Attrs |-> None] /\ flags' = {} /\ listeners' = listeners - 1 /\ role' = "unknown"
    /\ UNCHANGED <<handler, saved, traceVars, clientVars, reloads, overrun>>

HookNext ==
    \/ Install \/ \E r \in {"host", "client"} : Welcome(r)
    \/ Creates \/ Created \/ TraceStart \/ TraceStop
    \/ StopsBridge \/ Unproxies \/ Restores

HookSpec == HookInit /\ [][HookNext]_hookVars

-----------------------------------------------------------------------------

\* The registry keeps its types; the callbacks of the build mode are registered
\* once while the mod is installed.
HookTypeOK ==
    /\ value \in [Attrs -> Seq(Wrapper)] /\ handler \in Seq(Wrapper)
    /\ \A a \in Attrs : patches[a] = None \/ patches[a].some \in Seq(Wrapper)
    /\ flags \subseteq Attrs /\ role \in {"unknown", "host", "client"}
    /\ stage \in {"up", "stopped", "unproxied", "down"}
    /\ listeners = IF stage = "down" THEN 0 ELSE 1
    /\ tracing \in BOOLEAN /\ \A a \in Attrs : traces[a] = None \/ traces[a].some \in Seq(Wrapper)
    /\ boot = None \/ boot.some \in Seq(Wrapper)
    /\ remotes \subseteq 0..MaxReloads /\ clients \subseteq 0..MaxReloads

\* Through welcomes repeated after a reconnection, tracing and reloads no call
\* of the game is intercepted twice, and one that KerMP takes for intercepted is,
\* as long as no creation of a Client outlives a teardown (hooks.py:1009).
InterceptedOnce ==
    overrun \/ \A a \in Attrs : Hooks(value[a]) <= 1 /\ (stage = "up" /\ a \in flags => Hooks(value[a]) = 1)

\* After a teardown the reader did not outlive, no attribute is intercepted and,
\* unless the game refused to remove it, no Client of KerMP is left.
NothingIntercepted ==
    stage = "down" /\ ~overrun =>
        /\ \A a \in Attrs : Hooks(value[a]) = 0
        /\ failed \/ clients = {}

\* The game's own on_remove, which would clear the one client of its Distributor,
\* is never run for a Client of KerMP.  (hooks.py:182)
StockClientStays == overrun \/ ~cleared

=============================================================================
