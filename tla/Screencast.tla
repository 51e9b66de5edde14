---------------------------- MODULE Screencast ----------------------------
(***************************************************************************)
(* The org.gnome.Mutter.ScreenCast service (screencast/dbus.rs) and the    *)
(* PipeWire workers it starts (pipewire_thread::start).  Method calls run  *)
(* on the bus executor and interleave at every await; a watcher task       *)
(* removes what a vanished bus client left behind.                         *)
(***************************************************************************)
EXTENDS Integers, FiniteSets, FiniteSetsExt

CONSTANTS
  Buses,        \* unique names of bus clients
  Sessions,     \* session paths: next_id never repeats
  MaxSessions,  \* MAX_SESSIONS
  MaxPerBus,    \* MAX_SESSIONS_PER_CLIENT
  MaxStreams,   \* MAX_STREAMS_PER_SESSION
  Nobody

ASSUME ScreencastAssumption ==
  Nobody \notin Buses /\ MaxSessions \in Nat /\ MaxPerBus \in Nat /\ MaxStreams \in Nat

VARIABLES
  onBus,      \* clients connected to the bus
  leftBus,    \* NameOwnerChanged signals the watcher has not handled
  registry,   \* SessionRegistry::by_owner
  owner,      \* session -> the client that created it
  creating,   \* create_session in flight: session -> "no", "reserved", "served"
  object,     \* sessions registered in the object server
  closed,     \* Session::closed
  recording,  \* record_* calls past the slot reservation, not yet pushed
  slots,      \* Session::stream_slots
  streams,    \* Session::streams: stream -> it holds a worker's handle
  starting,   \* start in flight: session -> "no", "spawned", "passed"
  abandoning, \* remove_abandoned_session in flight: sessions
  stopping,   \* stop in flight, past close_and_take_streams
  worker      \* PipeWire thread: "none", "starting", "failed", "live", "dead"

scVars == <<onBus, leftBus, registry, owner, creating, object, closed, recording, slots,
            streams, starting, abandoning, stopping, worker>>
busVars == <<onBus, leftBus, registry, owner, creating>>
callVars == <<recording, slots, starting>>

Tracks == 1 .. MaxStreams
HeldBy(s) == {t \in Tracks : streams[s][t] = "held"}
Recorded(s) == {t \in Tracks : streams[s][t] /= "absent"}

ScInit ==
  /\ onBus = Buses /\ leftBus = {} /\ registry = [b \in Buses |-> {}]
  /\ owner = [s \in Sessions |-> Nobody] /\ creating = [s \in Sessions |-> "no"]
  /\ object = {} /\ closed = {} /\ recording = [s \in Sessions |-> 0]
  /\ slots = [s \in Sessions |-> 0]
  /\ streams = [s \in Sessions |-> [t \in Tracks |-> "absent"]]
  /\ starting = [s \in Sessions |-> "no"] /\ abandoning = {} /\ stopping = {}
  /\ worker = [s \in Sessions |-> [t \in Tracks |-> "none"]]

-----------------------------------------------------------------------------
\* SessionRegistry::reserve, under its mutex
Reserve(s, b) ==
  /\ owner[s] = Nobody /\ b \in onBus
  /\ Cardinality(UNION {registry[c] : c \in Buses}) < MaxSessions
  /\ Cardinality(registry[b]) < MaxPerBus
  /\ registry' = [registry EXCEPT ![b] = @ \cup {s}]
  /\ owner' = [owner EXCEPT ![s] = b] /\ creating' = [creating EXCEPT ![s] = "reserved"]
  /\ UNCHANGED <<onBus, leftBus, object, closed, callVars, streams, abandoning, stopping, worker>>

Forget(s) == registry' = [registry EXCEPT ![owner[s]] = @ \ {s}]

\* object_server().at(): the session becomes callable, or the path is given up.
Serve(s) ==
  /\ creating[s] = "reserved"
  /\ \/ /\ object' = object \cup {s} /\ creating' = [creating EXCEPT ![s] = "served"]
        /\ UNCHANGED registry
     \/ /\ Forget(s) /\ creating' = [creating EXCEPT ![s] = "no"] /\ UNCHANGED object
  /\ UNCHANGED <<onBus, leftBus, owner, closed, callVars, streams, abandoning, stopping, worker>>

\* Mutant of CheckOwner: nobody asks whether the client is still there.
CheckNobody(s) ==
  /\ creating[s] = "served" /\ creating' = [creating EXCEPT ![s] = "no"]
  /\ UNCHANGED <<onBus, leftBus, registry, owner, object, closed, callVars, streams, abandoning, stopping, worker>>

\* name_has_owner: the client may have left while the call was served, and the
\* bus may refuse the question; either way the session is given up.
CheckOwner(s) ==
  /\ creating[s] = "served" /\ creating' = [creating EXCEPT ![s] = "no"]
  /\ \/ owner[s] \in onBus /\ UNCHANGED <<registry, abandoning>>
     \/ Forget(s) /\ abandoning' = abandoning \cup {s}
  /\ UNCHANGED <<onBus, leftBus, owner, object, closed, callVars, streams, stopping, worker>>

\* The bus client goes; watch_disconnects hears of it later.
LeaveBus(b) ==
  /\ b \in onBus /\ onBus' = onBus \ {b} /\ leftBus' = leftBus \cup {b}
  /\ UNCHANGED <<registry, owner, creating, object, closed, callVars, streams, abandoning, stopping, worker>>
Watch(b) ==
  /\ b \in leftBus /\ abandoning = {}
  /\ leftBus' = leftBus \ {b} /\ registry' = [registry EXCEPT ![b] = {}]
  /\ abandoning' = registry[b]
  /\ UNCHANGED <<onBus, owner, creating, object, closed, callVars, streams, stopping, worker>>

-----------------------------------------------------------------------------
Callable(s) == s \in object /\ owner[s] \in onBus

\* record_monitor and record_window: reserve a slot, serve the stream object,
\* then push it unless the session was closed meanwhile.
Record(s) ==
  /\ Callable(s) /\ s \notin closed /\ slots[s] < MaxStreams
  /\ slots' = [slots EXCEPT ![s] = @ + 1] /\ recording' = [recording EXCEPT ![s] = @ + 1]
  /\ UNCHANGED <<busVars, object, closed, streams, starting, abandoning, stopping, worker>>
Push(s) ==
  /\ recording[s] > 0 /\ recording' = [recording EXCEPT ![s] = @ - 1]
  /\ \/ /\ s \notin closed
        /\ streams' = [streams EXCEPT ![s][Min(Tracks \ Recorded(s))] = "idle"] /\ UNCHANGED slots
     \/ /\ slots' = [slots EXCEPT ![s] = @ - 1] /\ UNCHANGED streams
  /\ UNCHANGED <<busVars, object, closed, starting, abandoning, stopping, worker>>

\* Dropping a StreamHandle: stop is sent and the thread joined.
Dropped(s, tracks) ==
  worker' = [worker EXCEPT ![s] = [t \in Tracks |-> IF t \in tracks THEN "none" ELSE @[t]]]

\* start: dead handles are taken, every stream without one gets a worker.
Start(s) ==
  /\ Callable(s) /\ s \notin closed /\ starting[s] = "no" /\ Recorded(s) /= {}
  /\ LET stale == {t \in HeldBy(s) : worker[s][t] = "dead"}
         idle == (Recorded(s) \ HeldBy(s)) \cup stale
     IN /\ streams' = [streams EXCEPT ![s] = [t \in Tracks |-> IF t \in idle THEN "idle" ELSE @[t]]]
        /\ worker' = [worker EXCEPT ![s] = [t \in Tracks |-> IF t \in idle THEN "starting" ELSE @[t]]]
  /\ starting' = [starting EXCEPT ![s] = "spawned"]
  /\ UNCHANGED <<busVars, object, closed, recording, slots, abandoning, stopping>>

\* Workers that belong to the call: not yet attached to a stream.
Loose(s) == {t \in Tracks : worker[s][t] /= "none"} \ HeldBy(s)

\* PipeWire assigns a node, or the worker ends: a startup error, the daemon
\* lost, a picture of another size, a closed target.
NodeAssigned(s, t) ==
  /\ worker[s][t] = "starting" /\ worker' = [worker EXCEPT ![s][t] = "live"]
  /\ UNCHANGED <<busVars, object, closed, callVars, streams, abandoning, stopping>>
WorkerEnds(s, t) ==
  /\ \/ worker[s][t] = "starting" /\ worker' = [worker EXCEPT ![s][t] = "failed"]
     \/ worker[s][t] = "live" /\ worker' = [worker EXCEPT ![s][t] = "dead"]
  /\ UNCHANGED <<busVars, object, closed, callVars, streams, abandoning, stopping>>

\* One job failed or timed out after five seconds: every handle is dropped.
StartFails(s) ==
  /\ starting[s] = "spawned" /\ starting' = [starting EXCEPT ![s] = "no"]
  /\ \E t \in Loose(s) : worker[s][t] \in {"starting", "failed"}
  /\ Dropped(s, Loose(s))
  /\ UNCHANGED <<busVars, object, closed, recording, slots, streams, abandoning, stopping>>

\* All jobs reported a node: first the closed flag, then the streams' mutex.
StartPasses(s) ==
  /\ starting[s] = "spawned" /\ \A t \in Loose(s) : worker[s][t] \in {"live", "dead"}
  /\ IF s \in closed
     THEN starting' = [starting EXCEPT ![s] = "no"] /\ Dropped(s, Loose(s))
     ELSE starting' = [starting EXCEPT ![s] = "passed"] /\ UNCHANGED worker
  /\ UNCHANGED <<busVars, object, closed, recording, slots, streams, abandoning, stopping>>
Attach(s) ==
  /\ starting[s] = "passed" /\ starting' = [starting EXCEPT ![s] = "no"]
  /\ LET found == Loose(s) \cap Recorded(s) IN
     /\ streams' = [streams EXCEPT ![s] = [t \in Tracks |-> IF t \in found THEN "held" ELSE @[t]]]
     /\ Dropped(s, Loose(s) \ Recorded(s))
  /\ UNCHANGED <<busVars, object, closed, recording, slots, abandoning, stopping>>

-----------------------------------------------------------------------------
\* close_and_take_streams, once per session
CloseAndTake(s) ==
  /\ closed' = closed \cup {s}
  /\ IF s \in closed THEN UNCHANGED <<streams, worker>>
     ELSE /\ streams' = [streams EXCEPT ![s] = [t \in Tracks |-> "absent"]]
          /\ Dropped(s, HeldBy(s))

\* stop, by the owner; its registry entry and its object go afterwards.
Stop(s) ==
  /\ Callable(s) /\ s \notin closed /\ CloseAndTake(s) /\ stopping' = stopping \cup {s}
  /\ UNCHANGED <<busVars, object, callVars, abandoning>>
Unregister(s) ==
  /\ s \in stopping /\ Forget(s) /\ stopping' = stopping \ {s} /\ object' = object \ {s}
  /\ UNCHANGED <<onBus, leftBus, owner, creating, closed, callVars, streams, abandoning, worker>>

\* remove_abandoned_session: nothing to do for a path not served yet.
Abandon(s) ==
  /\ s \in abandoning /\ abandoning' = abandoning \ {s}
  /\ IF s \in object THEN CloseAndTake(s) /\ object' = object \ {s}
     ELSE UNCHANGED <<closed, streams, worker, object>>
  /\ UNCHANGED <<busVars, callVars, stopping>>

ScClient ==
  \/ \E s \in Sessions : (\E b \in Buses : Reserve(s, b)) \/ Record(s) \/ Start(s) \/ Stop(s)
  \/ \E b \in Buses : LeaveBus(b)
ScService(s) ==
  \/ Serve(s) \/ CheckOwner(s) \/ Push(s) \/ StartFails(s) \/ StartPasses(s) \/ Attach(s)
  \/ Unregister(s) \/ Abandon(s)
ScWorkers == \E s \in Sessions, t \in Tracks : NodeAssigned(s, t) \/ WorkerEnds(s, t)
ScNext == ScClient \/ (\E s \in Sessions : ScService(s)) \/ ScWorkers \/ \E b \in Buses : Watch(b)
ScSpec == ScInit /\ [][ScNext]_scVars

\* The executor runs every task; a worker reports or times out.
ScFairness ==
  /\ \A s \in Sessions : WF_scVars(ScService(s))
  /\ \A b \in Buses : WF_scVars(Watch(b))
  /\ WF_scVars(ScWorkers)

-----------------------------------------------------------------------------
InFlight(s) ==
  \/ creating[s] /= "no" \/ recording[s] > 0 \/ starting[s] /= "no"
  \/ s \in stopping \/ s \in abandoning

\* A worker is always somebody's to stop: an open session's stream holds its
\* handle, or a start call is in flight that will (pipewire_thread::StreamHandle
\* stops its thread only when it is dropped).
WorkersOwned ==
  \A s \in Sessions, t \in Tracks : worker[s][t] /= "none" =>
    (streams[s][t] = "held" /\ s \notin closed) \/ starting[s] /= "no"

\* Nothing is left of a client that is gone: once its departure was handled
\* and no call is in flight, no session of its is registered, callable or
\* streaming, whichever of create, record, start and stop it left in the middle.
NoOrphanSession ==
  \A s \in Sessions :
    (owner[s] \in Buses /\ owner[s] \notin onBus \cup leftBus /\ ~InFlight(s)) =>
      s \notin object /\ s \notin registry[owner[s]] /\ \A t \in Tracks : worker[s][t] = "none"

\* The session limits count what exists: a session that can be called is in
\* the registry of its owner, and a session never records past its slots.
ScreencastLimits ==
  /\ \A b \in Buses : Cardinality(registry[b]) <= MaxPerBus
  /\ \A s \in object : s \in registry[owner[s]] \/ InFlight(s) \/ owner[s] \notin onBus
  /\ \A s \in Sessions : s \notin closed => Cardinality(Recorded(s)) + recording[s] = slots[s]

\* A client that leaves takes its streams with it: OwnerLeft(s) ~> NothingLeft(s).
OwnerLeft(s) == owner[s] \in Buses /\ owner[s] \notin onBus
NothingLeft(s) == s \notin object /\ \A t \in Tracks : worker[s][t] = "none"

\* The service owns what runs for it: no worker without an owner, no session
\* without a client, no stream past the limits.
CastsOwned == WorkersOwned /\ NoOrphanSession /\ ScreencastLimits
=============================================================================
