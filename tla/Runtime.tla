------------------------------- MODULE Runtime -------------------------------
(***************************************************************************)
(* The runtime: a backend is acquired by Start, run, and closed by         *)
(* Shutdown; while it runs, its handler turns the callbacks of the hub,    *)
(* SPINE events, discovery and the trust coordinator's projection into     *)
(* snapshots.                                                              *)
(*                                                                         *)
(* A step is one critical section.  Every updater of the handler publishes *)
(* by itself: it captures the trust projection, then the graph, and hands  *)
(* both to the publisher, in three steps that interleave with those of the *)
(* others.  One peer is modelled; SHIP IDs and leases are in FeatureReads. *)
(***************************************************************************)
EXTENDS Naturals, Sequences, FiniteSets

CONSTANTS
    Starters, Stoppers,  \* callers of Start and of Shutdown
    MaxConnections,      \* bound on connections of the peer
    MaxFaults,           \* bound on faults
    Scenarios,           \* the bounds of a behaviour, one of which Init picks
    None

\* acquire: a stage of the acquisition fails; cancel: a Start's context ends;
\* listener: the listener terminates; report: the handler reports an error;
\* invalid: a snapshot is refused; silent: the trust coordinator is
\* quarantined without a notification.
AllFaults == {"acquire", "cancel", "listener", "report", "invalid", "silent"}

\* Who calls Start and Shutdown, how often the peer connects, the trust
\* projection and the discovered services change, and which faults may happen.
inScenario(s) ==
    /\ s.starters \subseteq Starters /\ s.stoppers \subseteq Stoppers
    /\ s.connections \in 0..MaxConnections
    /\ s.trust \in Nat /\ s.visible \in Nat
    /\ s.faults \subseteq AllFaults

\* What an acquisition sets up, in this order.
Stages == <<"trust", "service", "spine", "mutations", "listener">>
Resources == {Stages[k] : k \in 1..5}

\* Who publishes: the hub, the SPINE worker, discovery, the trust coordinator,
\* Run, and the closing coordinator.
Publishers == {"hub", "worker", "discovery", "trust", "run", "closer"}

Observation == [index : Nat, visible : BOOLEAN, devices : 0..MaxConnections,
                state : {"absent", "none", "connected", "disconnected"}]
Projection == [rev : Nat, state : {"paired", "denied", "unpaired"}]
Snapshot == [runtime : Nat, trust : Projection]
Refresh == [index : Nat, devices : 0..MaxConnections]

ASSUME RuntimeAssumption ==
    /\ MaxConnections \in Nat /\ MaxFaults \in Nat
    /\ \A s \in Scenarios : inScenario(s)
    /\ None \notin Starters \cup Snapshot \cup Refresh \cup 0..MaxConnections

VARIABLES
    start,     \* what each caller of Start is doing
    stop,      \* what each caller of Shutdown is doing
    rt,        \* runtimeImplementation
    held,      \* the resources of the backend that are open
    be,        \* facadeRuntimeBackend and serviceBackend
    runner,    \* the goroutine of runBackend
    peer,      \* the peer's connection, the hub's callbacks and SPINE's event
    hub,       \* the callback of the hub that is running
    h,         \* runtimeServiceHandler
    spine,     \* its SPINE part: active, wake, pending, event and worker
    trust,     \* the coordinator's projection
    pub,       \* what each publisher is doing
    ghost,     \* counters; whether a snapshot was refused, Shutdown returned
               \* before a publisher; what was announced when trust closed
    disturbances,
    bound      \* of this behaviour

vars == <<start, stop, rt, held, be, runner, peer, hub, h, spine, trust, pub,
          ghost, disturbances, bound>>
lifecycle == <<start, stop, rt, held, be, runner>>
handling == <<peer, hub, h, spine, trust, pub>>

TypeOK ==
    /\ start \in [Starters ->
         [at : {"idle", "acquire", "discard", "waiting", "ended"},
          on : Starters \cup {None}, cancelled : BOOLEAN,
          result : {None, "ok", "shutdown", "failed", "cancelled"}]]
    /\ stop \in [Stoppers ->
         [at : {"idle", "attempt", "close", "waiting", "ended"},
          on : Starters \cup {None}]]
    /\ rt \in [shutdown : BOOLEAN, started : BOOLEAN, workerErr : BOOLEAN,
               starting : Starters \cup {None}, backend : BOOLEAN,
               cancelled : BOOLEAN, done : {"none", "open", "closed"},
               completion : {"none", "open", "closed"},
               snapshot : Snapshot \cup {None}, frozen : BOOLEAN]
    /\ held \subseteq Resources
    /\ be \in [close : {"open", "closing", "deactivated", "drained",
                        "stopped", "denied", "closed"},
               terminal : Snapshot \cup {None}, publisher : BOOLEAN]
    /\ runner \in [at : {"none", "claim", "first", "select", "returned",
                         "ended"}, err : BOOLEAN]
    /\ peer \in [n : 0..MaxConnections, up : BOOLEAN, device : BOOLEAN,
                 due : Seq({"connected", "disconnected"}),
                 events : Seq([kind : {"change", "remove"},
                               of : 0..MaxConnections])]
    /\ hub \in 0..MaxConnections \cup {None}
    /\ h \in [obs : Observation, rev : Nat, errors : BOOLEAN,
              published : [trust : Nat, runtime : Nat]]
    /\ spine \in [active : BOOLEAN, wake : BOOLEAN,
                  pending : Refresh \cup {None},
                  at : {"idle", "look", "queue"}, kind : {"change", "remove"},
                  index : Nat, devices : 0..MaxConnections,
                  worker : {"idle", "ended"},
                  taken : Refresh \cup {None}]
    /\ trust \in [state : {"paired", "denied", "unpaired"}, rev : Nat,
                  last : {"paired", "denied", "unpaired"}]
    /\ pub \in [Publishers -> [at : {"idle", "graph", "publish"},
                               runtime : Nat, trust : Projection]]
    /\ disturbances \in 0..MaxFaults /\ bound \in Scenarios

-----------------------------------------------------------------------------
absent == [index |-> 0, visible |-> FALSE, devices |-> 0, state |-> "absent"]
silent == [at |-> "idle", runtime |-> 0,
           trust |-> [rev |-> 0, state |-> "paired"]]

\* newRuntimeServiceHandler, and the first projection, bound while there is no
\* publisher yet
newHandler == [obs |-> absent, rev |-> 0, errors |-> FALSE,
               published |-> [trust |-> 1, runtime |-> 0]]
inactive == [active |-> FALSE, wake |-> FALSE, pending |-> None, at |-> "idle",
             kind |-> "change", index |-> 0, devices |-> 0,
             worker |-> "ended", taken |-> None]
newBackend == [close |-> "open", terminal |-> None, publisher |-> FALSE]

Init ==
    /\ start = [c \in Starters |-> [at |-> "idle", on |-> None,
                                    cancelled |-> FALSE, result |-> None]]
    /\ stop = [c \in Stoppers |-> [at |-> "idle", on |-> None]]
    /\ rt = [shutdown |-> FALSE, started |-> FALSE, workerErr |-> FALSE,
             starting |-> None, backend |-> FALSE, cancelled |-> FALSE,
             done |-> "none", completion |-> "none", snapshot |-> None,
             frozen |-> FALSE]
    /\ held = {} /\ be = newBackend
    /\ runner = [at |-> "none", err |-> FALSE]
    /\ peer = [n |-> 0, up |-> FALSE, device |-> FALSE, due |-> <<>>,
               events |-> <<>>]
    /\ hub = None /\ h = newHandler /\ spine = inactive
    /\ trust = [state |-> "paired", rev |-> 1, last |-> "paired"]
    /\ pub = [t \in Publishers |-> silent]
    /\ ghost = [trust |-> 0, visible |-> 0, invalid |-> FALSE,
                late |-> FALSE, atClose |-> None]
    /\ disturbances = 0 /\ bound \in Scenarios

disturb(fault) ==
    /\ fault \in bound.faults
    /\ disturbances < MaxFaults /\ disturbances' = disturbances + 1

-----------------------------------------------------------------------------
(* Start.                                                                  *)

answered(c, result) ==
    start' = [start EXCEPT ![c].at = "ended", ![c].result = result]

\* Start up to the call of the factory; enabled runtimes only.
Start(c) ==
    /\ start[c].at = "idle" /\ c \in bound.starters
    /\ \/ rt.shutdown /\ answered(c, "shutdown") /\ UNCHANGED <<rt, be, ghost>>
       \/ /\ ~rt.shutdown /\ rt.workerErr
          /\ answered(c, "failed") /\ UNCHANGED <<rt, be, ghost>>
       \/ /\ ~rt.shutdown /\ ~rt.workerErr /\ rt.started
          /\ answered(c, "ok") /\ UNCHANGED <<rt, be, ghost>>
       \/ /\ ~rt.shutdown /\ ~rt.workerErr /\ ~rt.started
          /\ rt.starting # None
          /\ start' = [start EXCEPT ![c].at = "waiting", ![c].on = rt.starting]
          /\ UNCHANGED <<rt, be, ghost>>
       \/ /\ ~rt.shutdown /\ ~rt.workerErr /\ ~rt.started
          /\ rt.starting = None
          /\ rt' = [rt EXCEPT !.starting = c]
          /\ start' = [start EXCEPT ![c].at = "acquire"]
          /\ be' = newBackend
          /\ ghost' = [ghost EXCEPT !.atClose = None]
    /\ UNCHANGED <<stop, held, runner, handling, disturbances>>

\* The caller's context ends: a waiter gives up, an acquisition may notice.
CancelStart(c) ==
    /\ start[c].at \in {"acquire", "waiting"} /\ ~start[c].cancelled
    /\ disturb("cancel")
    /\ start' = [start EXCEPT ![c].cancelled = TRUE]
    /\ UNCHANGED <<stop, rt, held, be, runner, handling, ghost>>

\* The waiter of another caller's attempt.
WaitReturns(c) ==
    LET owner == start[c].on
    IN
    /\ start[c].at = "waiting"
    /\ \/ start[owner].at = "ended" /\ answered(c, start[owner].result)
       \/ start[c].cancelled /\ answered(c, "cancelled")
    /\ UNCHANGED <<stop, rt, held, be, runner, handling, ghost, disturbances>>

\* A stage of acquireRuntime succeeds.  The SPINE stage starts the worker, the
\* last one the hub.
AcquireStage(c) ==
    LET k == Cardinality(held) + 1
    IN
    /\ start[c].at = "acquire" /\ k <= Len(Stages)
    /\ held' = held \cup {Stages[k]}
    /\ h' = IF Stages[k] = "service" THEN newHandler ELSE h
    /\ trust' = IF Stages[k] = "trust"
                THEN [trust EXCEPT !.rev = 1, !.last = trust.state] ELSE trust
    /\ spine' = IF Stages[k] = "spine"
                THEN [inactive EXCEPT !.active = TRUE, !.worker = "idle"]
                ELSE spine
    /\ IF Stages[k] = "service"
       THEN /\ pub' = [t \in Publishers |-> silent] /\ hub' = None
            /\ peer' = [peer EXCEPT !.up = FALSE, !.device = FALSE,
                                    !.due = <<>>, !.events = <<>>]
       ELSE UNCHANGED <<pub, hub, peer>>
    /\ UNCHANGED <<start, stop, rt, be, runner, ghost, disturbances>>

undoneWithoutMutations(k) ==
    {Stages[j] : j \in 1..(IF k > 3 THEN 3 ELSE k)}

\* closeFirstTrust, closeRuntime, closeRuntimeWithSPINE: what is undone when
\* the stage after the k-th fails.
undone(k) == {Stages[j] : j \in 1..k}

\* finishStartAttemptLocked
finished(c, result) == answered(c, result) /\ rt' = [rt EXCEPT !.starting = None]

\* The factory fails: a stage does, or the context is found cancelled.
AcquireFails(c) ==
    /\ start[c].at = "acquire" /\ held # Resources
    /\ IF start[c].cancelled THEN UNCHANGED disturbances ELSE disturb("acquire")
    /\ held' = held \ undone(Cardinality(held))
    /\ spine' = inactive
    /\ finished(c, IF rt.shutdown THEN "shutdown" ELSE "failed")
    /\ UNCHANGED <<stop, be, runner, peer, hub, h, trust, pub, ghost>>

\* The factory returned a backend: it is handed to Shutdown, thrown away for
\* the context's sake, or run.
AcquireReturns(c) ==
    /\ start[c].at = "acquire" /\ held = Resources
    /\ \/ /\ rt.shutdown
          /\ answered(c, "shutdown")
          /\ rt' = [rt EXCEPT !.starting = None, !.backend = TRUE]
          /\ UNCHANGED <<be, runner>>
       \/ /\ ~rt.shutdown /\ start[c].cancelled
          /\ start' = [start EXCEPT ![c].at = "discard"]
          /\ be' = [be EXCEPT !.close = "closing"]
          /\ UNCHANGED <<rt, runner>>
       \/ /\ ~rt.shutdown /\ ~start[c].cancelled
          /\ answered(c, "ok")
          /\ rt' = [rt EXCEPT !.starting = None, !.backend = TRUE,
                              !.started = TRUE, !.done = "open"]
          /\ runner' = [at |-> "claim", err |-> FALSE]
          /\ UNCHANGED be
    /\ UNCHANGED <<stop, held, handling, ghost, disturbances>>

\* backend.Close has returned.
Discarded(c) ==
    /\ start[c].at = "discard" /\ be.close = "closed"
    /\ finished(c, IF rt.shutdown THEN "shutdown" ELSE "failed")
    /\ UNCHANGED <<stop, held, be, runner, handling, ghost, disturbances>>

-----------------------------------------------------------------------------
(* The goroutine of runBackend.                                            *)

\* publishCurrent: captureTrustAdminProjection.  It is taken in the step that
\* asks for the publication: a change of the projection in between would
\* commute with that step.
publishing(t) ==
    pub' = [pub EXCEPT ![t].at = "graph",
                       ![t].trust = [rev |-> trust.rev, state |-> trust.state]]

\* serviceBackend.Run up to its first publication
RunClaims ==
    /\ runner.at = "claim"
    /\ \/ /\ rt.cancelled \/ be.close # "open"
          /\ runner' = [runner EXCEPT !.at = "returned"]
          /\ UNCHANGED <<be, pub>>
       \/ /\ ~rt.cancelled /\ be.close = "open"
          /\ runner' = [runner EXCEPT !.at = "first"]
          /\ be' = [be EXCEPT !.publisher = TRUE]
          /\ publishing("run")
    /\ UNCHANGED <<start, stop, rt, held, peer, hub, h, spine, trust, ghost,
                   disturbances>>

RunSelects ==
    /\ runner.at = "first" /\ pub["run"].at = "idle"
    /\ runner' = [runner EXCEPT !.at = "select"]
    /\ UNCHANGED <<start, stop, rt, held, be, handling, ghost, disturbances>>

\* The select: the context, handler.errors, or the listener.
RunStops ==
    /\ runner.at = "select"
    /\ \/ rt.cancelled /\ runner' = [at |-> "returned", err |-> FALSE]
          /\ UNCHANGED <<h, disturbances>>
       \/ /\ h.errors /\ runner' = [at |-> "returned", err |-> TRUE]
          /\ h' = [h EXCEPT !.errors = FALSE]
          /\ UNCHANGED disturbances
       \/ /\ "listener" \in held /\ disturb("listener")
          /\ runner' = [at |-> "returned", err |-> TRUE]
          /\ UNCHANGED h
    /\ UNCHANGED <<start, stop, rt, held, be, peer, hub, spine, trust, pub,
                   ghost>>

\* runBackend after Run; retainWorkerErrorLocked
RunBackendEnds ==
    /\ runner.at = "returned"
    /\ rt' = [rt EXCEPT
         !.started = FALSE, !.done = "closed",
         !.workerErr = @ \/ runner.err \/ ~(rt.shutdown \/ rt.cancelled)]
    /\ runner' = [runner EXCEPT !.at = "ended"]
    /\ UNCHANGED <<start, stop, held, be, handling, ghost, disturbances>>

-----------------------------------------------------------------------------
(* Shutdown, and serviceBackend.Close.                                     *)

Shutdown(c) ==
    /\ stop[c].at = "idle" /\ c \in bound.stoppers
    /\ \/ /\ rt.completion # "none"
          /\ stop' = [stop EXCEPT ![c].at = "waiting"]
          /\ UNCHANGED <<rt, start>>
       \/ /\ rt.completion = "none"
          /\ stop' = [stop EXCEPT ![c] = [at |-> "attempt", on |-> rt.starting]]
          /\ rt' = [rt EXCEPT !.shutdown = TRUE, !.completion = "open",
                              !.cancelled = rt.done # "none"]
          /\ start' = IF rt.starting = None THEN start
                      ELSE [start EXCEPT ![rt.starting].cancelled = TRUE]
    /\ UNCHANGED <<held, be, runner, handling, ghost, disturbances>>

\* No callback is under way.
quiet == hub = None /\ \A t \in Publishers : pub[t].at = "idle"

\* The attempt, if any, is over: the backend is closed.
ShutdownCloses(c) ==
    /\ stop[c].at = "attempt"
    /\ stop[c].on # None => start[stop[c].on].at = "ended"
    /\ stop' = [stop EXCEPT ![c].at = "close"]
    /\ be' = IF rt.backend THEN [be EXCEPT !.close = "closing"] ELSE be
    /\ UNCHANGED <<start, rt, held, runner, handling, ghost, disturbances>>

\* The backend is closed and the worker joined: acceptTerminalSnapshotLocked,
\* freezeTerminalSnapshotLocked.
ShutdownReturns(c) ==
    LET terminal == IF be.terminal # None /\ ~ghost.invalid
                    THEN be.terminal ELSE rt.snapshot
    IN
    /\ stop[c].at = "close"
    /\ rt.backend => be.close = "closed"
    /\ rt.done # "open"
    /\ rt' = [rt EXCEPT !.snapshot = terminal, !.frozen = terminal # None,
                        !.completion = "closed"]
    /\ stop' = [stop EXCEPT ![c].at = "ended"]
    /\ ghost' = [ghost EXCEPT !.late = ~quiet]
    /\ UNCHANGED <<start, held, be, runner, handling, disturbances>>

ShutdownWaited(c) ==
    /\ stop[c].at = "waiting" /\ rt.completion = "closed"
    /\ stop' = [stop EXCEPT ![c].at = "ended"]
    /\ UNCHANGED <<start, rt, held, be, runner, handling, ghost, disturbances>>

CloseKeepsActive ==
    /\ be.close = "closing"
    /\ be' = [be EXCEPT !.close = "deactivated"]
    /\ held' = held \ {"mutations"}
    /\ spine' = [spine EXCEPT !.pending = None]
    /\ UNCHANGED <<start, stop, rt, runner, peer, hub, h, trust, pub, ghost,
                   disturbances>>

\* The mutation coordinator is closed; deactivateSPINEEvents.
CloseDeactivates ==
    /\ be.close = "closing"
    /\ be' = [be EXCEPT !.close = "deactivated"]
    /\ held' = held \ {"mutations"}
    /\ spine' = [spine EXCEPT !.active = FALSE, !.pending = None]
    /\ UNCHANGED <<start, stop, rt, runner, peer, hub, h, trust, pub, ghost,
                   disturbances>>

\* unsubscribeSPINE; waitForSPINEEvents
CloseDrains ==
    /\ be.close = "deactivated"
    /\ spine.at = "idle" /\ spine.worker = "ended"
    /\ be' = [be EXCEPT !.close = "drained"]
    /\ held' = held \ {"spine"}
    /\ UNCHANGED <<start, stop, rt, runner, handling, ghost, disturbances>>

\* service.Shutdown: no further connections.
CloseStops ==
    /\ be.close = "drained"
    /\ be' = [be EXCEPT !.close = "stopped"]
    /\ held' = held \ {"service", "listener"}
    /\ UNCHANGED <<start, stop, rt, runner, handling, ghost, disturbances>>

\* coordinator.shutdown, within firstTrust.Close: the phase becomes DISABLED,
\* which only a projection that was denied already does not show.
CloseDenies ==
    /\ be.close = "stopped"
    /\ be' = [be EXCEPT !.close = "denied"]
    /\ ghost' = [ghost EXCEPT !.atClose = trust.last]
    /\ IF trust.last = "denied"
       THEN trust' = [trust EXCEPT !.state = "denied"] /\ UNCHANGED pub
       ELSE /\ trust' = [state |-> "denied", rev |-> trust.rev + 1,
                         last |-> "denied"]
            /\ pub' = [pub EXCEPT !["closer"] =
                 [@ EXCEPT !.at = "graph",
                           !.trust = [rev |-> trust.rev + 1,
                                      state |-> "denied"]]]
    /\ UNCHANGED <<start, stop, rt, held, runner, peer, hub, h, spine,
                   disturbances>>

CloseReturns ==
    /\ be.close = "denied" /\ pub["closer"].at = "idle"
    /\ be' = [be EXCEPT !.close = "closed"]
    /\ held' = held \ {"trust"}
    /\ UNCHANGED <<start, stop, rt, runner, handling, ghost, disturbances>>

-----------------------------------------------------------------------------
(* The peer.                                                               *)

Connect ==
    /\ "listener" \in held /\ ~peer.up /\ peer.due = <<>>
    /\ peer.n < bound.connections
    /\ peer' = [peer EXCEPT !.n = @ + 1, !.up = TRUE,
                            !.due = Append(@, "connected")]
    /\ UNCHANGED <<lifecycle, hub, h, spine, trust, pub, ghost, disturbances>>

\* Detailed discovery
Discover ==
    /\ peer.up /\ ~peer.device
    /\ peer' = [peer EXCEPT !.device = TRUE,
         !.events = Append(@, [kind |-> "change", of |-> peer.n])]
    /\ UNCHANGED <<lifecycle, hub, h, spine, trust, pub, ghost, disturbances>>

Disconnect ==
    /\ peer.up
    /\ peer' = [peer EXCEPT !.up = FALSE, !.device = FALSE,
         !.due = Append(@, "disconnected"),
         !.events = IF peer.device
                    THEN Append(@, [kind |-> "remove", of |-> peer.n]) ELSE @]
    /\ UNCHANGED <<lifecycle, hub, h, spine, trust, pub, ghost, disturbances>>

\* service.LocalDevice().RemoteDeviceForSki(ski), and its devices
currentDevices == IF peer.up /\ peer.device THEN peer.n ELSE 0

-----------------------------------------------------------------------------
(* Updates of the handler.  Each one bumps the revision under handler.mu   *)
(* and goes on to publishCurrent.                                          *)

\* updateRemote, and then publishOrReport by t
updateRemote(t, o) ==
    /\ h' = [h EXCEPT !.obs = o, !.rev = @ + 1]
    /\ publishing(t)

callback(kind) ==
    /\ hub = None /\ pub["hub"].at = "idle"
    /\ peer.due # <<>> /\ Head(peer.due) = kind
    /\ peer' = [peer EXCEPT !.due = Tail(@)]

\* RemoteSKIConnected reads the devices, is given a generation, and records
\* both; it may be refused one.
RemoteSKIConnected ==
    /\ callback("connected")
    /\ hub' = currentDevices
    /\ UNCHANGED <<lifecycle, h, spine, trust, pub, ghost, disturbances>>

RecordConnected ==
    /\ hub # None
    /\ updateRemote("hub", [index |-> h.obs.index + 1, visible |-> TRUE,
                            devices |-> hub, state |-> "connected"])
    /\ hub' = None
    /\ UNCHANGED <<lifecycle, peer, spine, trust, ghost, disturbances>>

\* report: handler.errors holds one error.
ReportConnected ==
    /\ hub # None /\ disturb("report")
    /\ hub' = None /\ h' = [h EXCEPT !.errors = TRUE]
    /\ UNCHANGED <<lifecycle, peer, spine, trust, pub, ghost>>

RemoteSKIDisconnected ==
    /\ callback("disconnected")
    /\ \/ h.obs.state = "absent" /\ UNCHANGED <<h, pub>>
       \/ /\ h.obs.state # "absent"
          /\ updateRemote("hub", IF h.obs.index = 0 THEN h.obs
               ELSE [h.obs EXCEPT !.state = "disconnected", !.devices = 0])
    /\ UNCHANGED <<lifecycle, hub, spine, trust, ghost, disturbances>>

\* VisibleRemoteServicesUpdated: the peer appears or disappears.
VisibleRemoteServicesUpdated ==
    /\ "listener" \in held /\ pub["discovery"].at = "idle"
    /\ ghost.visible < bound.visible
    /\ ghost' = [ghost EXCEPT !.visible = @ + 1]
    /\ updateRemote("discovery",
         [h.obs EXCEPT !.visible = ~@,
                       !.state = IF @ = "absent" THEN "none" ELSE @])
    /\ UNCHANGED <<lifecycle, peer, hub, spine, trust, disturbances>>

-----------------------------------------------------------------------------
(* SPINE events: HandleEvent checks the session under handler.mu, looks up *)
(* the device without it, and queues what it found; the worker applies it. *)

inSession(index) ==
    spine.active /\ h.obs.state = "connected" /\ h.obs.index = index

HandleEvent ==
    LET e == Head(peer.events)
    IN
    /\ peer.events # <<>> /\ spine.at = "idle"
    /\ peer' = [peer EXCEPT !.events = Tail(@)]
    /\ spine' = IF inSession(h.obs.index)
                THEN [spine EXCEPT !.at = "look", !.kind = e.kind,
                                   !.index = h.obs.index, !.devices = e.of]
                ELSE spine
    /\ UNCHANGED <<lifecycle, hub, h, trust, pub, ghost, disturbances>>

\* Of another device than the event's, nothing is taken.
LookUpDevices ==
    /\ spine.at = "look"
    /\ spine' = IF spine.kind = "change" /\ spine.devices # currentDevices
                THEN [spine EXCEPT !.at = "idle", !.kind = "change", !.index = 0,
                               !.devices = 0]
                ELSE [spine EXCEPT !.at = "queue", !.devices = currentDevices]
    /\ UNCHANGED <<lifecycle, peer, hub, h, trust, pub, ghost, disturbances>>

EnqueueSPINERefresh ==
    LET done == [spine EXCEPT !.at = "idle", !.kind = "change", !.index = 0,
                               !.devices = 0]
    IN
    /\ spine.at = "queue"
    /\ spine' = IF inSession(spine.index)
                THEN [done EXCEPT !.wake = TRUE,
                        !.pending = [index |-> spine.index,
                                     devices |-> spine.devices]]
                ELSE done
    /\ UNCHANGED <<lifecycle, peer, hub, h, trust, pub, ghost, disturbances>>

\* runSPINERefreshWorker; pendingSPINERefreshSKIs, takeSPINERefresh
WorkerTakes ==
    /\ spine.worker = "idle" /\ spine.taken = None
    /\ pub["worker"].at = "idle" /\ spine.wake
    /\ spine' = [spine EXCEPT !.wake = FALSE, !.pending = None,
                              !.taken = spine.pending]
    /\ UNCHANGED <<lifecycle, peer, hub, h, trust, pub, ghost, disturbances>>

UpdateRemoteFromSPINEEvent ==
    LET r == spine.taken
    IN
    /\ r # None
    /\ IF inSession(r.index)
       THEN updateRemote("worker", [h.obs EXCEPT !.devices = r.devices])
       ELSE UNCHANGED <<h, pub>>
    /\ spine' = [spine EXCEPT !.taken = None]
    /\ UNCHANGED <<lifecycle, peer, hub, trust, ghost, disturbances>>

WorkerEnds ==
    /\ ~spine.active /\ spine.worker = "idle" /\ spine.taken = None
    /\ pub["worker"].at = "idle"
    /\ spine' = [spine EXCEPT !.worker = "ended"]
    /\ UNCHANGED <<lifecycle, peer, hub, h, trust, pub, ghost, disturbances>>

-----------------------------------------------------------------------------
(* The trust projection.                                                   *)

following == [paired |-> "denied", denied |-> "unpaired", unpaired |-> "paired"]

trustChanges ==
    /\ "trust" \in held /\ h.published.trust > 0 /\ be.close # "denied"
    /\ (Cardinality(held) >= 3 \/ be.close # "open")
    /\ ghost.trust < bound.trust
    /\ ghost' = [ghost EXCEPT !.trust = @ + 1]

\* A quarantine, a revocation, a repair or a pairing; notifyTrustAdminProjection
NotifyTrustAdminProjection ==
    LET state == following[trust.state]
    IN
    /\ trustChanges /\ pub["trust"].at = "idle"
    /\ IF state = trust.last
       THEN trust' = [trust EXCEPT !.state = state] /\ UNCHANGED pub
       ELSE /\ trust' = [state |-> state, rev |-> trust.rev + 1,
                         last |-> state]
            /\ pub' = [pub EXCEPT !["trust"] =
                 [@ EXCEPT !.at = "graph",
                           !.trust = [rev |-> trust.rev + 1,
                                      state |-> state]]]
    /\ UNCHANGED <<lifecycle, peer, hub, h, spine, disturbances>>

\* publishSelectedOutgoingAttemptControl, of unknown outcome
QuarantineSilently ==
    /\ trustChanges /\ trust.state = "paired" /\ disturb("silent")
    /\ trust' = [trust EXCEPT !.state = "denied"]
    /\ UNCHANGED <<lifecycle, peer, hub, h, spine, pub>>

-----------------------------------------------------------------------------
(* Publication.                                                            *)

\* runtimeGraphAndProjectionRemotes
TakeGraph(t) ==
    /\ pub[t].at = "graph"
    /\ pub' = [pub EXCEPT ![t].at = "publish", ![t].runtime = h.rev]
    /\ UNCHANGED <<lifecycle, peer, hub, h, spine, trust, ghost, disturbances>>

overtakenAsOld(p) == \/ p.trust.rev <= h.published.trust
                     \/ p.runtime <= h.published.runtime

\* What publishTrustAdminProjection drops.
overtaken(p) == \/ p.trust.rev < h.published.trust
                \/ p.runtime < h.published.runtime

\* publishSnapshot of the runtime
accepted(snapshot) ==
    IF rt.shutdown \/ rt.workerErr THEN rt
    ELSE [rt EXCEPT !.snapshot = snapshot]
refused == IF rt.shutdown THEN rt
           ELSE [rt EXCEPT !.workerErr = TRUE, !.started = FALSE,
                           !.cancelled = TRUE]

\* The snapshot that the closing backend keeps for Shutdown
firstCaptured(snapshot) ==
    IF be.publisher /\ be.close # "open" /\ be.terminal = None
    THEN [be EXCEPT !.terminal = snapshot] ELSE be
captured(snapshot) ==
    IF be.publisher /\ be.close # "open"
    THEN [be EXCEPT !.terminal = snapshot] ELSE be

\* publishTrustAdminProjection under publishMu, with the publication through
\* the backend, which keeps what is published while it closes.
Publish(t) ==
    LET p == pub[t]
        snapshot == [runtime |-> p.runtime, trust |-> p.trust]
    IN
    /\ p.at = "publish"
    /\ pub' = [pub EXCEPT ![t] = silent]
    /\ \/ /\ overtaken(p)
          /\ UNCHANGED <<h, rt, be, ghost, disturbances>>
       \/ /\ ~overtaken(p)
          /\ h' = [h EXCEPT !.published = [trust |-> p.trust.rev,
                                           runtime |-> p.runtime]]
          /\ be' = captured(snapshot)
          /\ \/ /\ rt' = IF be.publisher THEN accepted(snapshot) ELSE rt
                /\ UNCHANGED <<ghost, disturbances>>
             \/ /\ be.publisher /\ disturb("invalid")
                /\ rt' = refused
                /\ ghost' = [ghost EXCEPT !.invalid = TRUE]
    /\ UNCHANGED <<start, stop, held, runner, peer, hub, spine, trust>>

-----------------------------------------------------------------------------
StartStep(c) ==
    \/ Start(c) \/ CancelStart(c) \/ WaitReturns(c)
    \/ AcquireStage(c) \/ AcquireFails(c) \/ AcquireReturns(c) \/ Discarded(c)

RunStep == RunClaims \/ RunSelects \/ RunStops \/ RunBackendEnds

StopStep(c) ==
    \/ Shutdown(c) \/ ShutdownCloses(c) \/ ShutdownReturns(c)
    \/ ShutdownWaited(c)

CloseStep ==
    \/ CloseDeactivates \/ CloseDrains \/ CloseStops \/ CloseDenies
    \/ CloseReturns

PeerStep == Connect \/ Discover \/ Disconnect

HubStep ==
    \/ RemoteSKIConnected \/ RecordConnected \/ ReportConnected
    \/ RemoteSKIDisconnected

EventStep == HandleEvent \/ LookUpDevices \/ EnqueueSPINERefresh
WorkerStep == WorkerTakes \/ UpdateRemoteFromSPINEEvent \/ WorkerEnds
PublishStep(t) == TakeGraph(t) \/ Publish(t)

\* What the runtime does by itself once it was called.
OwnStep ==
    \/ \E c \in Starters : \/ WaitReturns(c) \/ AcquireStage(c)
                           \/ AcquireFails(c) \/ AcquireReturns(c)
                           \/ Discarded(c)
    \/ \E c \in Stoppers : \/ ShutdownCloses(c) \/ ShutdownReturns(c)
                           \/ ShutdownWaited(c)
    \/ RunStep \/ CloseStep \/ HubStep \/ EventStep \/ WorkerStep
    \/ \E t \in Publishers : PublishStep(t)

Next ==
    /\ UNCHANGED bound
    /\ \/ \E c \in Starters : StartStep(c)
       \/ \E c \in Stoppers : StopStep(c)
       \/ RunStep \/ CloseStep \/ PeerStep \/ HubStep \/ EventStep
       \/ WorkerStep \/ VisibleRemoteServicesUpdated
       \/ NotifyTrustAdminProjection \/ QuarantineSilently
       \/ \E t \in Publishers : PublishStep(t)

Spec == Init /\ [][Next]_vars

-----------------------------------------------------------------------------
\* When nobody is publishing, the runtime's snapshot shows the handler's last
\* observation and the coordinator's last announced projection, in whatever
\* order the publishers ran: of two publications of which each is newer in one
\* revision the second is dropped, and yet somebody publishes both
\* (publishTrustAdminProjection, publishCurrent).  A session never shows the
\* devices of a connection before its own (updateRemoteFromSPINEEvent).
PublishedCurrent ==
    /\ /\ quiet /\ be.publisher /\ ~rt.shutdown /\ ~rt.workerErr
       /\ trust.state = trust.last
       => /\ rt.snapshot # None
          /\ rt.snapshot.runtime = h.rev
          /\ rt.snapshot.trust.state = trust.state
    /\ h.obs.devices > 0 => h.obs.devices >= h.obs.index

\* Nothing an acquisition opened is left when Shutdown has returned, or when no
\* attempt is under way and no backend was kept (acquireRuntime, Close).
NothingLeft ==
    rt.completion = "closed" \/ (rt.starting = None /\ ~rt.backend)
    => held = {} /\ runner.at \in {"none", "ended"} /\ spine.worker = "ended"

\* The snapshot that Shutdown leaves shows no trust that the closing
\* coordinator withdrew, unless a callback of the hub was still under way or
\* the snapshot was refused (facadeRuntimeBackend.Close, TerminalSnapshot).
TerminalDenies ==
    rt.frozen /\ ~ghost.invalid /\ ~ghost.late /\ ghost.atClose # "denied"
    => rt.snapshot.trust.state = "denied"
=============================================================================
