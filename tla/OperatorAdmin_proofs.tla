------------------------ MODULE OperatorAdmin_proofs ------------------------
(***************************************************************************)
(* Proofs about Runtime and OperatorAdmin.                                 *)
(*                                                                         *)
(* First Runtime, for every set of callers of Start and Shutdown, every    *)
(* number of connections, changes and faults: nothing that an acquisition  *)
(* opened is left over, the published snapshot is current when nobody      *)
(* publishes, and the one that Shutdown leaves denies.                     *)
(*                                                                         *)
(* Then OperatorAdmin, for every number of callers, idempotency keys,      *)
(* remembered answers, moves of others and faults: the runtime under       *)
(* administration keeps its invariants; a request takes effect once; a     *)
(* call changes what its operator was shown; an action's outcome is of its *)
(* own attempt.                                                            *)
(***************************************************************************)
EXTENDS OperatorAdmin, FiniteSetTheorems, SequenceTheorems,
        WellFoundedInduction, TLAPS

-----------------------------------------------------------------------------
(* Runtime: types.                                                         *)

TrustStates == {"paired", "denied", "unpaired"}

Caller == [at : {"idle", "acquire", "discard", "waiting", "ended"},
           on : Starters \cup {None}, cancelled : BOOLEAN,
           result : {None, "ok", "shutdown", "failed", "cancelled"}]
Stopper == [at : {"idle", "attempt", "close", "waiting", "ended"},
            on : Starters \cup {None}]
State == [shutdown : BOOLEAN, started : BOOLEAN, workerErr : BOOLEAN,
          starting : Starters \cup {None}, backend : BOOLEAN,
          cancelled : BOOLEAN, done : {"none", "open", "closed"},
          completion : {"none", "open", "closed"},
          snapshot : Snapshot \cup {None}, frozen : BOOLEAN]
Backend == [close : {"open", "closing", "deactivated", "drained", "stopped",
                     "denied", "closed"},
            terminal : Snapshot \cup {None}, publisher : BOOLEAN]
Runner == [at : {"none", "claim", "first", "select", "returned", "ended"},
           err : BOOLEAN]
Event == [kind : {"change", "remove"}, of : 0..MaxConnections]
Peer == [n : 0..MaxConnections, up : BOOLEAN, device : BOOLEAN,
         due : Seq({"connected", "disconnected"}), events : Seq(Event)]
Revisions == [trust : Nat, runtime : Nat]
Handler == [obs : Observation, rev : Nat, errors : BOOLEAN,
            published : Revisions]
Spine == [active : BOOLEAN, wake : BOOLEAN, pending : Refresh \cup {None},
          at : {"idle", "look", "queue"}, kind : {"change", "remove"},
          index : Nat, devices : 0..MaxConnections,
          worker : {"idle", "ended"}, taken : Refresh \cup {None}]
Trust == [state : TrustStates, rev : Nat, last : TrustStates]
Publication == [at : {"idle", "graph", "publish"}, runtime : Nat,
                trust : Projection]
Ghost == [trust : Nat, visible : Nat, invalid : BOOLEAN, late : BOOLEAN,
          atClose : TrustStates \cup {None}]

TypeInv ==
    /\ start \in [Starters -> Caller]
    /\ stop \in [Stoppers -> Stopper]
    /\ rt \in State
    /\ held \subseteq Resources
    /\ be \in Backend
    /\ runner \in Runner
    /\ peer \in Peer
    /\ hub \in 0..MaxConnections \cup {None}
    /\ h \in Handler
    /\ spine \in Spine
    /\ trust \in Trust
    /\ pub \in [Publishers -> Publication]
    /\ ghost \in Ghost
    /\ disturbances \in 0..MaxFaults
    /\ bound \in Scenarios

\* Who waits for an attempt of Start knows whose it is.
WaitInv ==
    \A c \in Starters : start[c].at = "waiting" => start[c].on \in Starters

LEMMA TypeInvTypeOK == TypeInv => TypeOK
BY DEF TypeInv, TypeOK, Caller, Stopper, State, Backend, Runner, Event, Peer,
       Handler, Revisions, Spine, Trust, Publication, TrustStates

LEMMA SilentType == silent \in Publication
BY DEF silent, Publication, Projection

LEMMA InitTypes == Init => TypeInv /\ WaitInv
<1> SUFFICES ASSUME Init PROVE TypeInv /\ WaitInv OBVIOUS
<1> USE RuntimeAssumption
<1>1. start \in [Starters -> Caller] /\ stop \in [Stoppers -> Stopper]
  BY DEF Init, Caller, Stopper
<1>2. rt \in State /\ be \in Backend /\ runner \in Runner
  BY DEF Init, State, Backend, newBackend, Runner
<1>3. peer \in Peer
  BY DEF Init, Peer
<1>4. h \in Handler /\ spine \in Spine /\ trust \in Trust
  BY DEF Init, Handler, Revisions, newHandler, absent, Observation, Spine,
         inactive, Trust, TrustStates
<1>5. pub \in [Publishers -> Publication] /\ ghost \in Ghost
  BY SilentType DEF Init, Ghost
<1>6. held \subseteq Resources /\ hub \in 0..MaxConnections \cup {None}
      /\ disturbances \in 0..MaxFaults /\ bound \in Scenarios
  BY DEF Init
<1>7. WaitInv
  BY DEF Init, WaitInv
<1> QED BY <1>1, <1>2, <1>3, <1>4, <1>5, <1>6, <1>7 DEF TypeInv

\* The records that actions put together.
LEMMA RecordTypes ==
    /\ newBackend \in Backend /\ newHandler \in Handler /\ inactive \in Spine
    /\ \A at \in {"none", "claim", "first", "select", "returned", "ended"},
          err \in BOOLEAN : [at |-> at, err |-> err] \in Runner
    /\ \A n \in 0..MaxConnections, up \in BOOLEAN, device \in BOOLEAN,
          due \in Seq({"connected", "disconnected"}), events \in Seq(Event) :
         [n |-> n, up |-> up, device |-> device, due |-> due,
          events |-> events] \in Peer
    /\ \A i \in Nat, d \in 0..MaxConnections :
         [index |-> i, devices |-> d] \in Refresh
<1> USE RuntimeAssumption
<1>1. newBackend \in Backend
  BY DEF newBackend, Backend
<1>2. newHandler \in Handler
  BY DEF newHandler, absent, Handler, Revisions, Observation
<1>3. inactive \in Spine
  BY DEF inactive, Spine
<1>4. \A at \in {"none", "claim", "first", "select", "returned", "ended"},
         err \in BOOLEAN : [at |-> at, err |-> err] \in Runner
  BY DEF Runner
<1>5. \A n \in 0..MaxConnections, up \in BOOLEAN, device \in BOOLEAN,
         due \in Seq({"connected", "disconnected"}), events \in Seq(Event) :
        [n |-> n, up |-> up, device |-> device, due |-> due,
         events |-> events] \in Peer
  BY DEF Peer
<1>6. \A i \in Nat, d \in 0..MaxConnections :
        [index |-> i, devices |-> d] \in Refresh
  BY DEF Refresh
<1> QED BY <1>1, <1>2, <1>3, <1>4, <1>5, <1>6

\* A publisher sets out with a projection.
LEMMA SetOutTypes ==
    ASSUME NEW f \in [Publishers -> Publication], NEW t \in Publishers,
           NEW p \in Projection
    PROVE  /\ [f EXCEPT ![t] = [@ EXCEPT !.at = "graph", !.trust = p]]
                 \in [Publishers -> Publication]
           /\ [f EXCEPT ![t].at = "graph", ![t].trust = p]
                 = [f EXCEPT ![t] = [@ EXCEPT !.at = "graph", !.trust = p]]
<1>1. [f[t] EXCEPT !.at = "graph", !.trust = p] \in Publication
  BY DEF Publication
<1> QED BY <1>1

LEMMA ProjectionTypes ==
    ASSUME TypeInv, NEW s \in TrustStates
    PROVE  /\ [rev |-> trust.rev, state |-> trust.state] \in Projection
           /\ [rev |-> trust.rev + 1, state |-> s] \in Projection
BY DEF TypeInv, Trust, TrustStates, Projection

LEMMA PublishingTypes ==
    ASSUME TypeInv, NEW t \in Publishers, publishing(t)
    PROVE  pub' \in [Publishers -> Publication]
<1>1. [rev |-> trust.rev, state |-> trust.state] \in Projection
  BY ProjectionTypes DEF TypeInv, Trust
<1> QED BY <1>1, SetOutTypes DEF TypeInv, publishing

LEMMA UpdateTypes ==
    ASSUME TypeInv, NEW t \in Publishers, NEW o \in Observation,
           updateRemote(t, o)
    PROVE  h' \in Handler /\ pub' \in [Publishers -> Publication]
<1>1. h' \in Handler
  <2>1. \A g \in Handler, n \in Nat :
          [g EXCEPT !.obs = o, !.rev = n] \in Handler
    BY DEF Handler
  <2>2. h \in Handler /\ h.rev + 1 \in Nat
    BY DEF TypeInv, Handler
  <2>3. h' = [h EXCEPT !.obs = o, !.rev = h.rev + 1]
    BY DEF updateRemote
  <2> QED BY <2>1, <2>2, <2>3
<1> QED BY <1>1, PublishingTypes DEF updateRemote

LEMMA DeviceTypes ==
    ASSUME TypeInv
    PROVE  currentDevices \in 0..MaxConnections
BY RuntimeAssumption DEF TypeInv, currentDevices, Peer

LEMMA ResourcesAre ==
    Resources = {"trust", "service", "spine", "mutations", "listener"}
BY DEF Resources, Stages

LEMMA HeldFinite == ASSUME TypeInv PROVE IsFiniteSet(held)
<1>1. IsFiniteSet(Resources)
  <2>1. \A S, x : IsFiniteSet(S) => IsFiniteSet(S \cup {x})
    BY FS_AddElement
  <2>2. IsFiniteSet(((({"trust"} \cup {"service"}) \cup {"spine"})
                     \cup {"mutations"}) \cup {"listener"})
    BY <2>1, FS_Singleton
  <2>3. Resources = ((({"trust"} \cup {"service"}) \cup {"spine"})
                     \cup {"mutations"}) \cup {"listener"}
    BY ResourcesAre
  <2> QED BY <2>2, <2>3
<1> QED BY <1>1, FS_Subset DEF TypeInv

LEMMA StartTypes ==
    ASSUME TypeInv, WaitInv, UNCHANGED bound, NEW c \in Starters,
           StartStep(c)
    PROVE  TypeInv' /\ WaitInv'
<1>1. CASE Start(c)
  <2>1. start' \in [Starters -> Caller] /\ WaitInv'
    BY <1>1 DEF TypeInv, Start, answered, State, Caller, WaitInv
  <2>2. rt' \in State
    BY <1>1 DEF TypeInv, Start, State
  <2>3. be' \in Backend
    BY <1>1, RecordTypes DEF TypeInv, Start
  <2>4. ghost' \in Ghost
    BY <1>1 DEF TypeInv, Start, Ghost
  <2> QED BY <1>1, <2>1, <2>2, <2>3, <2>4 DEF TypeInv, Start, lifecycle,
           handling
<1>2. CASE CancelStart(c)
  <2>1. start' \in [Starters -> Caller] /\ WaitInv'
    BY <1>2 DEF TypeInv, CancelStart, Caller, WaitInv
  <2>2. disturbances' \in 0..MaxFaults
    BY <1>2, RuntimeAssumption DEF TypeInv, CancelStart, disturb
  <2> QED BY <1>2, <2>1, <2>2 DEF TypeInv, CancelStart, lifecycle, handling
<1>3. CASE WaitReturns(c)
  <2>1. start' \in [Starters -> Caller] /\ WaitInv'
    BY <1>3 DEF TypeInv, WaitReturns, answered, Caller, WaitInv
  <2> QED BY <1>3, <2>1 DEF TypeInv, WaitReturns, lifecycle, handling
<1>4. CASE AcquireReturns(c)
  <2>1. start' \in [Starters -> Caller] /\ WaitInv'
    BY <1>4 DEF TypeInv, AcquireReturns, answered, Caller, WaitInv
  <2>2. rt' \in State
    BY <1>4 DEF TypeInv, AcquireReturns, State
  <2>3. be' \in Backend
    BY <1>4 DEF TypeInv, AcquireReturns, Backend
  <2>4. runner' \in Runner
    BY <1>4, RecordTypes DEF TypeInv, AcquireReturns
  <2> QED BY <1>4, <2>1, <2>2, <2>3, <2>4 DEF TypeInv, AcquireReturns,
           lifecycle, handling
<1>5. CASE AcquireFails(c)
  <2>1. start' \in [Starters -> Caller] /\ WaitInv'
    BY <1>5 DEF TypeInv, AcquireFails, answered, finished, Caller, WaitInv
  <2>2. rt' \in State
    BY <1>5 DEF TypeInv, AcquireFails, finished, State
  <2>3. held' \subseteq Resources
    BY <1>5 DEF TypeInv, AcquireFails
  <2>4. spine' \in Spine
    BY <1>5, RuntimeAssumption DEF TypeInv, AcquireFails, inactive, Spine
  <2>5. disturbances' \in 0..MaxFaults
    BY <1>5, RuntimeAssumption DEF TypeInv, AcquireFails, disturb
  <2> QED BY <1>5, <2>1, <2>2, <2>3, <2>4, <2>5 DEF TypeInv, AcquireFails,
           lifecycle, handling
<1>6. CASE Discarded(c)
  <2>1. start' \in [Starters -> Caller] /\ WaitInv'
    BY <1>6 DEF TypeInv, Discarded, answered, finished, Caller, WaitInv
  <2>2. rt' \in State
    BY <1>6 DEF TypeInv, Discarded, finished, State
  <2> QED BY <1>6, <2>1, <2>2 DEF TypeInv, Discarded, lifecycle, handling
<1>7. CASE AcquireStage(c)
  <2> DEFINE k == Cardinality(held) + 1
  <2>1. k \in 1..5
    <3>1. Cardinality(held) \in Nat
      BY HeldFinite, FS_CardinalityType
    <3> QED BY <1>7, <3>1 DEF AcquireStage, Stages
  <2> HIDE DEF k
  <2>2. held' = held \cup {Stages[k]}
    BY <1>7 DEF AcquireStage, k
  <2>3. held' \subseteq Resources
    BY <2>1, <2>2 DEF TypeInv, Resources
  <2>4. h' \in Handler
    BY <1>7, RecordTypes DEF TypeInv, AcquireStage
  <2>5. trust' \in Trust
    <3>1. trust' = trust
          \/ trust' = [trust EXCEPT !.rev = 1, !.last = trust.state]
      BY <1>7, Zenon DEF AcquireStage
    <3>2. \A u \in Trust : [u EXCEPT !.rev = 1, !.last = u.state] \in Trust
      BY DEF Trust
    <3> QED BY <3>1, <3>2 DEF TypeInv
  <2>6. spine' \in Spine
    <3>1. spine' = spine
          \/ spine' = [inactive EXCEPT !.active = TRUE, !.worker = "idle"]
      BY <1>7, Zenon DEF AcquireStage
    <3>2. [inactive EXCEPT !.active = TRUE, !.worker = "idle"] \in Spine
      BY RecordTypes DEF Spine
    <3> QED BY <3>1, <3>2 DEF TypeInv
  <2>7. pub' \in [Publishers -> Publication]
    BY <1>7, SilentType DEF TypeInv, AcquireStage
  <2>8. hub' \in 0..MaxConnections \cup {None}
    BY <1>7 DEF TypeInv, AcquireStage
  <2>9. peer' \in Peer
    <3>1. peer' = peer
          \/ peer' = [peer EXCEPT !.up = FALSE, !.device = FALSE,
                                  !.due = <<>>, !.events = <<>>]
      BY <1>7, Zenon DEF AcquireStage
    <3>2. peer \in Peer
      BY DEF TypeInv
    <3>3. <<>> \in Seq({"connected", "disconnected"}) /\ <<>> \in Seq(Event)
      OBVIOUS
    <3> QED BY <3>1, <3>2, <3>3 DEF Peer
  <2> QED BY <1>7, <2>3, <2>4, <2>5, <2>6, <2>7, <2>8, <2>9
          DEF TypeInv, WaitInv, AcquireStage
<1> QED BY <1>1, <1>2, <1>3, <1>4, <1>5, <1>6, <1>7 DEF StartStep

LEMMA RunTypes ==
    ASSUME TypeInv, WaitInv, UNCHANGED bound,
           RunStep
    PROVE  TypeInv' /\ WaitInv'
<1>1. CASE RunClaims
  <2>1. runner' \in Runner
    BY <1>1 DEF TypeInv, RunClaims, Runner
  <2>2. be' \in Backend
    BY <1>1 DEF TypeInv, RunClaims, Backend
  <2>3. pub' \in [Publishers -> Publication]
    BY <1>1, PublishingTypes DEF TypeInv, RunClaims, Publishers
  <2> QED BY <1>1, <2>1, <2>2, <2>3 DEF TypeInv, RunClaims, WaitInv,
           lifecycle, handling
<1>2. CASE RunSelects
  <2>1. runner' \in Runner
    BY <1>2 DEF TypeInv, RunSelects, Runner
  <2> QED BY <1>2, <2>1 DEF TypeInv, RunSelects, WaitInv, lifecycle, handling
<1>3. CASE RunStops
  <2>1. runner' \in Runner
    BY <1>3, RecordTypes DEF RunStops
  <2>2. h' \in Handler
    BY <1>3, RuntimeAssumption DEF TypeInv, RunStops, Handler
  <2>3. disturbances' \in 0..MaxFaults
    BY <1>3, RuntimeAssumption DEF TypeInv, RunStops, disturb
  <2> QED BY <1>3, <2>1, <2>2, <2>3 DEF TypeInv, RunStops, WaitInv,
           lifecycle, handling
<1>4. CASE RunBackendEnds
  <2>1. rt' \in State
    BY <1>4 DEF TypeInv, RunBackendEnds, Runner, State
  <2>2. runner' \in Runner
    BY <1>4 DEF TypeInv, RunBackendEnds, Runner
  <2> QED BY <1>4, <2>1, <2>2 DEF TypeInv, RunBackendEnds, WaitInv,
           lifecycle, handling
<1> QED BY <1>1, <1>2, <1>3, <1>4 DEF RunStep

LEMMA StopTypes ==
    ASSUME TypeInv, WaitInv, UNCHANGED bound, NEW c \in Stoppers,
           StopStep(c)
    PROVE  TypeInv' /\ WaitInv'
<1>1. CASE Shutdown(c)
  <2>1. start' \in [Starters -> Caller] /\ WaitInv'
    <3> DEFINE marked == [start EXCEPT ![rt.starting].cancelled = TRUE]
    <3>1. rt.starting \in Starters \cup {None}
      BY DEF TypeInv, State
    <3>2. start' = start
          \/ start' = IF rt.starting = None THEN start ELSE marked
      BY <1>1, Zenon DEF Shutdown
    <3>3. rt.starting \in Starters =>
            /\ marked \in [Starters -> Caller]
            /\ \A d \in Starters :
                 marked[d].at = start[d].at /\ marked[d].on = start[d].on
      BY DEF TypeInv, Caller
    <3> HIDE DEF marked
    <3> QED BY <3>1, <3>2, <3>3 DEF TypeInv, WaitInv
  <2>2. stop' \in [Stoppers -> Stopper]
    BY <1>1 DEF TypeInv, Shutdown, State, Stopper
  <2>3. rt' \in State
    BY <1>1 DEF TypeInv, Shutdown, State
  <2> QED BY <1>1, <2>1, <2>2, <2>3 DEF TypeInv, Shutdown, lifecycle,
           handling
<1>2. CASE ShutdownCloses(c)
  <2>1. stop' \in [Stoppers -> Stopper]
    BY <1>2 DEF TypeInv, ShutdownCloses, Stopper
  <2>2. be' \in Backend
    BY <1>2 DEF TypeInv, ShutdownCloses, Backend
  <2> QED BY <1>2, <2>1, <2>2 DEF TypeInv, ShutdownCloses, WaitInv,
           lifecycle, handling
<1>3. CASE ShutdownReturns(c)
  <2>1. stop' \in [Stoppers -> Stopper]
    BY <1>3 DEF TypeInv, ShutdownReturns, Stopper
  <2>2. rt' \in State
    BY <1>3 DEF TypeInv, ShutdownReturns, Backend, State
  <2>3. ghost' \in Ghost
    BY <1>3 DEF TypeInv, ShutdownReturns, Ghost
  <2> QED BY <1>3, <2>1, <2>2, <2>3 DEF TypeInv, ShutdownReturns, WaitInv,
           lifecycle, handling
<1>4. CASE ShutdownWaited(c)
  <2>1. stop' \in [Stoppers -> Stopper]
    BY <1>4 DEF TypeInv, ShutdownWaited, Stopper
  <2> QED BY <1>4, <2>1 DEF TypeInv, ShutdownWaited, WaitInv, lifecycle,
           handling
<1> QED BY <1>1, <1>2, <1>3, <1>4 DEF StopStep

LEMMA CloseTypes ==
    ASSUME TypeInv, WaitInv, UNCHANGED bound,
           CloseStep
    PROVE  TypeInv' /\ WaitInv'
<1>1. CASE CloseDeactivates
  <2>1. be' \in Backend
    BY <1>1 DEF TypeInv, CloseDeactivates, Backend
  <2>2. held' \subseteq Resources
    BY <1>1 DEF TypeInv, CloseDeactivates
  <2>3. spine' \in Spine
    BY <1>1, RuntimeAssumption DEF TypeInv, CloseDeactivates, Spine
  <2> QED BY <1>1, <2>1, <2>2, <2>3 DEF TypeInv, CloseDeactivates, WaitInv,
           lifecycle, handling
<1>2. CASE CloseDrains
  <2>1. be' \in Backend
    BY <1>2 DEF TypeInv, CloseDrains, Backend
  <2>2. held' \subseteq Resources
    BY <1>2 DEF TypeInv, CloseDrains
  <2> QED BY <1>2, <2>1, <2>2 DEF TypeInv, CloseDrains, WaitInv, lifecycle,
           handling
<1>3. CASE CloseStops
  <2>1. be' \in Backend
    BY <1>3 DEF TypeInv, CloseStops, Backend
  <2>2. held' \subseteq Resources
    BY <1>3 DEF TypeInv, CloseStops
  <2> QED BY <1>3, <2>1, <2>2 DEF TypeInv, CloseStops, WaitInv, lifecycle,
           handling
<1>4. CASE CloseDenies
  <2>1. be' \in Backend
    BY <1>4 DEF TypeInv, CloseDenies, Backend
  <2>2. trust' \in Trust
    BY <1>4 DEF TypeInv, CloseDenies, Trust, TrustStates
  <2>3. pub' \in [Publishers -> Publication]
    <3>1. [rev |-> trust.rev + 1, state |-> "denied"] \in Projection
      BY ProjectionTypes DEF TrustStates
    <3> DEFINE p == [rev |-> trust.rev + 1, state |-> "denied"]
    <3>2. pub' = pub \/ pub' = [pub EXCEPT !["closer"] =
                                 [@ EXCEPT !.at = "graph", !.trust = p]]
      BY <1>4, Zenon DEF CloseDenies
    <3>3. p \in Projection
      BY <3>1
    <3> HIDE DEF p
    <3>4. pub \in [Publishers -> Publication] /\ "closer" \in Publishers
      BY DEF TypeInv, Publishers
    <3>5. [pub EXCEPT !["closer"] = [@ EXCEPT !.at = "graph", !.trust = p]]
            \in [Publishers -> Publication]
      BY <3>3, <3>4, SetOutTypes
    <3> QED BY <3>2, <3>4, <3>5
  <2>4. ghost' \in Ghost
    BY <1>4 DEF TypeInv, CloseDenies, Trust, Ghost
  <2> QED BY <1>4, <2>1, <2>2, <2>3, <2>4 DEF TypeInv, CloseDenies, WaitInv,
           lifecycle, handling
<1>5. CASE CloseReturns
  <2>1. be' \in Backend
    BY <1>5 DEF TypeInv, CloseReturns, Backend
  <2>2. held' \subseteq Resources
    BY <1>5 DEF TypeInv, CloseReturns
  <2> QED BY <1>5, <2>1, <2>2 DEF TypeInv, CloseReturns, WaitInv, lifecycle,
           handling
<1> QED BY <1>1, <1>2, <1>3, <1>4, <1>5 DEF CloseStep

LEMMA PeerTypes ==
    ASSUME TypeInv, WaitInv, UNCHANGED bound,
           PeerStep
    PROVE  TypeInv' /\ WaitInv'
<1>1. CASE Connect
  <2>1. peer' \in Peer
    <3>1. peer.n < MaxConnections
      BY <1>1, RuntimeAssumption DEF TypeInv, Connect, inScenario, Peer
    <3>2. Append(peer.due, "connected") \in Seq({"connected", "disconnected"})
      BY DEF TypeInv, Peer
    <3>3. peer.n + 1 \in 0..MaxConnections
      BY <3>1, RuntimeAssumption DEF TypeInv, Peer
    <3>4. peer \in Peer /\ peer' = [peer EXCEPT !.n = peer.n + 1, !.up = TRUE,
                                    !.due = Append(peer.due, "connected")]
      BY <1>1 DEF TypeInv, Connect
    <3> QED BY <3>2, <3>3, <3>4 DEF Peer
  <2> QED BY <1>1, <2>1 DEF TypeInv, Connect, WaitInv, lifecycle, handling
<1>2. CASE Discover
  <2>1. peer' \in Peer
    <3>1. [kind |-> "change", of |-> peer.n] \in Event
      BY DEF TypeInv, Peer, Event
    <3>2. Append(peer.events, [kind |-> "change", of |-> peer.n]) \in Seq(Event)
      BY <3>1 DEF TypeInv, Peer
    <3> QED BY <1>2, <3>2 DEF TypeInv, Discover, Peer
  <2> QED BY <1>2, <2>1 DEF TypeInv, Discover, WaitInv, lifecycle, handling
<1>3. CASE Disconnect
  <2>1. peer' \in Peer
    <3>1. [kind |-> "remove", of |-> peer.n] \in Event
      BY DEF TypeInv, Peer, Event
    <3>2. Append(peer.events, [kind |-> "remove", of |-> peer.n]) \in Seq(Event)
      BY <3>1 DEF TypeInv, Peer
    <3>3. Append(peer.due, "disconnected")
            \in Seq({"connected", "disconnected"})
      BY DEF TypeInv, Peer
    <3> QED BY <1>3, <3>2, <3>3 DEF TypeInv, Disconnect, Peer
  <2> QED BY <1>3, <2>1 DEF TypeInv, Disconnect, WaitInv, lifecycle, handling
<1> QED BY <1>1, <1>2, <1>3 DEF PeerStep

LEMMA CallbackTypes ==
    ASSUME TypeInv, NEW kind, callback(kind)
    PROVE  peer' \in Peer
<1>1. Tail(peer.due) \in Seq({"connected", "disconnected"})
  BY DEF TypeInv, Peer, callback
<1> QED BY <1>1 DEF TypeInv, Peer, callback

LEMMA HubTypes ==
    ASSUME TypeInv, WaitInv, UNCHANGED bound,
           HubStep
    PROVE  TypeInv' /\ WaitInv'
<1>1. CASE RemoteSKIConnected
  <2>1. peer' \in Peer
    BY <1>1, CallbackTypes DEF RemoteSKIConnected
  <2>2. hub' \in 0..MaxConnections \cup {None}
    BY <1>1, RuntimeAssumption DEF TypeInv, RemoteSKIConnected,
         currentDevices, Peer
  <2> QED BY <1>1, <2>1, <2>2 DEF TypeInv, RemoteSKIConnected, WaitInv,
           lifecycle, handling, callback
<1>2. CASE RecordConnected
  <2>1. h' \in Handler /\ pub' \in [Publishers -> Publication]
    <3> DEFINE o == [index |-> h.obs.index + 1, visible |-> TRUE,
                     devices |-> hub, state |-> "connected"]
    <3>1. o \in Observation
      BY <1>2 DEF TypeInv, RecordConnected, Handler, Observation
    <3> QED BY <1>2, <3>1, UpdateTypes DEF RecordConnected, Publishers
  <2>3. hub' \in 0..MaxConnections \cup {None}
    BY <1>2, RuntimeAssumption DEF TypeInv, RecordConnected
  <2> QED BY <1>2, <2>1, <2>3 DEF TypeInv, RecordConnected, WaitInv,
           lifecycle, handling
<1>3. CASE ReportConnected
  <2>1. h' \in Handler
    BY <1>3, RuntimeAssumption DEF TypeInv, ReportConnected, Handler
  <2>2. hub' \in 0..MaxConnections \cup {None}
    BY <1>3, RuntimeAssumption DEF TypeInv, ReportConnected
  <2>3. disturbances' \in 0..MaxFaults
    BY <1>3, RuntimeAssumption DEF TypeInv, ReportConnected, disturb
  <2> QED BY <1>3, <2>1, <2>2, <2>3 DEF TypeInv, ReportConnected, WaitInv,
           lifecycle, handling
<1>4. CASE RemoteSKIDisconnected
  <2>1. peer' \in Peer
    BY <1>4, CallbackTypes DEF RemoteSKIDisconnected
  <2>2. h' \in Handler /\ pub' \in [Publishers -> Publication]
    <3> DEFINE o == IF h.obs.index = 0 THEN h.obs
                    ELSE [h.obs EXCEPT !.state = "disconnected", !.devices = 0]
    <3>1. o \in Observation
      <4>1. h.obs \in Observation /\ 0 \in 0..MaxConnections
        BY RuntimeAssumption DEF TypeInv, Handler
      <4> QED BY <4>1 DEF Observation
    <3> QED BY <1>4, <3>1, UpdateTypes
            DEF TypeInv, RemoteSKIDisconnected, Publishers
  <2> QED BY <1>4, <2>1, <2>2 DEF TypeInv, RemoteSKIDisconnected,
           WaitInv, lifecycle, handling, callback
<1> QED BY <1>1, <1>2, <1>3, <1>4 DEF HubStep

LEMMA EventTypes ==
    ASSUME TypeInv, WaitInv, UNCHANGED bound,
           EventStep
    PROVE  TypeInv' /\ WaitInv'
<1>1. CASE HandleEvent
  <2>1. peer' \in Peer
    <3>1. Tail(peer.events) \in Seq(Event)
      BY <1>1 DEF TypeInv, HandleEvent, Peer
    <3> QED BY <1>1, <3>1 DEF TypeInv, HandleEvent, Peer
  <2>2. spine' \in Spine
    <3> DEFINE e == Head(peer.events)
    <3>1. e \in Event
      BY <1>1 DEF TypeInv, HandleEvent, Peer
    <3> HIDE DEF e
    <3>2. h.obs.index \in Nat
      BY DEF TypeInv, Handler, Observation
    <3>3. spine' = spine
          \/ spine' = [spine EXCEPT !.at = "look", !.kind = e.kind,
                                    !.index = h.obs.index, !.devices = e.of]
      BY <1>1, Zenon DEF HandleEvent, e
    <3> QED BY <3>1, <3>2, <3>3 DEF TypeInv, Spine, Event
  <2> QED BY <1>1, <2>1, <2>2 DEF TypeInv, HandleEvent, WaitInv, lifecycle,
           handling
<1>2. CASE LookUpDevices
  <2>1. spine' \in Spine
    <3>1. \/ spine' = [spine EXCEPT !.at = "idle", !.kind = "change",
                                     !.index = 0, !.devices = 0]
          \/ spine' = [spine EXCEPT !.at = "queue",
                                     !.devices = currentDevices]
      BY <1>2, Zenon DEF LookUpDevices
    <3>2. \A x \in Spine, d \in 0..MaxConnections :
            /\ [x EXCEPT !.at = "idle", !.kind = "change", !.index = 0,
                         !.devices = d] \in Spine
            /\ [x EXCEPT !.at = "queue", !.devices = d] \in Spine
      BY DEF Spine
    <3>3. 0 \in 0..MaxConnections
      BY RuntimeAssumption
    <3> QED BY <3>1, <3>2, <3>3, DeviceTypes DEF TypeInv
  <2> QED BY <1>2, <2>1 DEF TypeInv, LookUpDevices, WaitInv, lifecycle,
           handling
<1>3. CASE EnqueueSPINERefresh
  <2>1. spine' \in Spine
    <3> DEFINE done == [spine EXCEPT !.at = "idle", !.kind = "change",
                                     !.index = 0, !.devices = 0]
               r == [index |-> spine.index, devices |-> spine.devices]
    <3>1. done \in Spine
      <4>1. spine \in Spine /\ 0 \in 0..MaxConnections
        BY RuntimeAssumption DEF TypeInv
      <4> QED BY <4>1 DEF Spine
    <3>2. r \in Refresh
      BY RecordTypes DEF TypeInv, Spine
    <3>3. spine' = done
          \/ spine' = [done EXCEPT !.wake = TRUE, !.pending = r]
      BY <1>3, Zenon DEF EnqueueSPINERefresh
    <3> HIDE DEF done, r
    <3> QED BY <3>1, <3>2, <3>3 DEF Spine
  <2> QED BY <1>3, <2>1 DEF TypeInv, EnqueueSPINERefresh, WaitInv, lifecycle,
           handling
<1> QED BY <1>1, <1>2, <1>3 DEF EventStep

LEMMA WorkerTypes ==
    ASSUME TypeInv, WaitInv, UNCHANGED bound,
           WorkerStep
    PROVE  TypeInv' /\ WaitInv'
<1>1. CASE WorkerTakes
  <2>1. spine' \in Spine
    BY <1>1, RuntimeAssumption DEF TypeInv, WorkerTakes, Spine
  <2> QED BY <1>1, <2>1 DEF TypeInv, WorkerTakes, WaitInv, lifecycle,
           handling
<1>2. CASE UpdateRemoteFromSPINEEvent
  <2>1. spine' \in Spine
    BY <1>2, RuntimeAssumption DEF TypeInv, UpdateRemoteFromSPINEEvent, Spine
  <2>2. h' \in Handler /\ pub' \in [Publishers -> Publication]
    <3> DEFINE o == [h.obs EXCEPT !.devices = spine.taken.devices]
    <3>1. spine.taken \in Refresh
      BY <1>2 DEF TypeInv, Spine, UpdateRemoteFromSPINEEvent
    <3>2. o \in Observation
      BY <3>1 DEF TypeInv, Handler, Observation, Refresh
    <3> QED BY <1>2, <3>2, UpdateTypes
            DEF TypeInv, UpdateRemoteFromSPINEEvent, Publishers
  <2> QED BY <1>2, <2>1, <2>2 DEF TypeInv, UpdateRemoteFromSPINEEvent,
           WaitInv, lifecycle, handling
<1>3. CASE WorkerEnds
  <2>1. spine' \in Spine
    BY <1>3, RuntimeAssumption DEF TypeInv, WorkerEnds, Spine
  <2> QED BY <1>3, <2>1 DEF TypeInv, WorkerEnds, WaitInv, lifecycle, handling
<1> QED BY <1>1, <1>2, <1>3 DEF WorkerStep

LEMMA TrustTypes ==
    ASSUME TypeInv, WaitInv, UNCHANGED bound,
           VisibleRemoteServicesUpdated \/ NotifyTrustAdminProjection \/ QuarantineSilently
    PROVE  TypeInv' /\ WaitInv'
<1>1. CASE VisibleRemoteServicesUpdated
  <2>1. h' \in Handler /\ pub' \in [Publishers -> Publication]
    <3> DEFINE o == [h.obs EXCEPT !.visible = ~@,
                       !.state = IF @ = "absent" THEN "none" ELSE @]
    <3>1. o \in Observation
      BY DEF TypeInv, Handler, Observation
    <3> QED BY <1>1, <3>1, UpdateTypes
            DEF VisibleRemoteServicesUpdated, Publishers
  <2>3. ghost' \in Ghost
    BY <1>1 DEF TypeInv, VisibleRemoteServicesUpdated, Ghost
  <2> QED BY <1>1, <2>1, <2>3 DEF TypeInv,
           VisibleRemoteServicesUpdated, WaitInv, lifecycle, handling
<1>2. CASE NotifyTrustAdminProjection
  <2>1. trust' \in Trust
    BY <1>2 DEF TypeInv, NotifyTrustAdminProjection, following, Trust,
         TrustStates
  <2>2. pub' \in [Publishers -> Publication]
    <3>1. following[trust.state] \in TrustStates
      BY DEF TypeInv, Trust, TrustStates, following
    <3>2. [rev |-> trust.rev + 1, state |-> following[trust.state]]
            \in Projection
      BY <3>1, ProjectionTypes
    <3> DEFINE p == [rev |-> trust.rev + 1, state |-> following[trust.state]]
    <3>3. pub' = pub \/ pub' = [pub EXCEPT !["trust"] =
                                 [@ EXCEPT !.at = "graph", !.trust = p]]
      BY <1>2, Zenon DEF NotifyTrustAdminProjection
    <3>4. p \in Projection
      BY <3>2
    <3> HIDE DEF p
    <3>5. pub \in [Publishers -> Publication] /\ "trust" \in Publishers
      BY DEF TypeInv, Publishers
    <3>6. [pub EXCEPT !["trust"] = [@ EXCEPT !.at = "graph", !.trust = p]]
            \in [Publishers -> Publication]
      BY <3>4, <3>5, SetOutTypes
    <3> QED BY <3>3, <3>5, <3>6
  <2>3. ghost' \in Ghost
    BY <1>2 DEF TypeInv, NotifyTrustAdminProjection, trustChanges, Ghost
  <2> QED BY <1>2, <2>1, <2>2, <2>3 DEF TypeInv, NotifyTrustAdminProjection,
           WaitInv, lifecycle, handling
<1>3. CASE QuarantineSilently
  <2>1. trust' \in Trust
    BY <1>3 DEF TypeInv, QuarantineSilently, Trust, TrustStates
  <2>2. ghost' \in Ghost
    BY <1>3 DEF TypeInv, QuarantineSilently, trustChanges, Ghost
  <2>3. disturbances' \in 0..MaxFaults
    BY <1>3, RuntimeAssumption DEF TypeInv, QuarantineSilently, disturb
  <2> QED BY <1>3, <2>1, <2>2, <2>3 DEF TypeInv, QuarantineSilently, WaitInv,
           lifecycle, handling
<1> QED BY <1>1, <1>2, <1>3

LEMMA PublishTypes ==
    ASSUME TypeInv, WaitInv, UNCHANGED bound, NEW t \in Publishers,
           PublishStep(t)
    PROVE  TypeInv' /\ WaitInv'
<1>1. CASE TakeGraph(t)
  <2>1. pub' \in [Publishers -> Publication]
    BY <1>1 DEF TypeInv, TakeGraph, Publication, Handler
  <2> QED BY <1>1, <2>1 DEF TypeInv, WaitInv, TakeGraph, lifecycle
<1>2. CASE Publish(t)
  <2> DEFINE p == pub[t]
             snapshot == [runtime |-> p.runtime, trust |-> p.trust]
  <2>1. p \in Publication /\ snapshot \in Snapshot
    BY DEF TypeInv, Publication, Snapshot
  <2>2. pub' \in [Publishers -> Publication]
    BY <1>2, SilentType DEF TypeInv, Publish
  <2>3. h' \in Handler
    <3>1. h' = h \/ h' = [h EXCEPT !.published = [trust |-> p.trust.rev,
                                                 runtime |-> p.runtime]]
      BY <1>2, Zenon DEF Publish
    <3>2. [trust |-> p.trust.rev, runtime |-> p.runtime]
            \in Revisions
      BY <2>1 DEF Publication, Projection, Revisions
    <3> HIDE DEF p
    <3> QED BY <3>1, <3>2 DEF TypeInv, Handler
  <2>4. be' \in Backend
    <3>1. be' = be \/ be' = [be EXCEPT !.terminal = snapshot]
      BY <1>2, Zenon DEF Publish, captured
    <3> HIDE DEF snapshot
    <3> QED BY <2>1, <3>1 DEF TypeInv, Backend
  <2>5. rt' \in State
    <3>1. \/ rt' = rt \/ rt' = [rt EXCEPT !.snapshot = snapshot]
          \/ rt' = [rt EXCEPT !.workerErr = TRUE, !.started = FALSE,
                             !.cancelled = TRUE]
      BY <1>2, Zenon DEF Publish, accepted, refused
    <3> HIDE DEF snapshot
    <3> QED BY <2>1, <3>1 DEF TypeInv, State
  <2>6. ghost' \in Ghost /\ disturbances' \in 0..MaxFaults
    <3>1. \/ UNCHANGED <<ghost, disturbances>>
          \/ disturb("invalid") /\ ghost' = [ghost EXCEPT !.invalid = TRUE]
      BY <1>2, Zenon DEF Publish
    <3>2. ghost' \in Ghost
      BY <3>1 DEF TypeInv, Ghost
    <3>3. disturbances' \in 0..MaxFaults
      BY <3>1, RuntimeAssumption DEF TypeInv, disturb
    <3> QED BY <3>2, <3>3
  <2> QED BY <1>2, <2>2, <2>3, <2>4, <2>5, <2>6 DEF TypeInv, WaitInv, Publish
<1> QED BY <1>1, <1>2 DEF PublishStep

LEMMA NextTypes ==
    ASSUME TypeInv, WaitInv, Next
    PROVE  TypeInv' /\ WaitInv'
BY StartTypes, StopTypes, RunTypes, CloseTypes, PeerTypes, HubTypes,
   EventTypes, WorkerTypes, TrustTypes, PublishTypes DEF Next

LEMMA SameTypes ==
    ASSUME TypeInv, WaitInv, UNCHANGED vars
    PROVE  TypeInv' /\ WaitInv'
BY DEF TypeInv, WaitInv, vars

\* The type invariant of the runtime.
THEOREM RuntimeTypes == Spec => []TypeOK
<1>1. TypeInv /\ WaitInv /\ [Next]_vars => (TypeInv /\ WaitInv)'
  BY NextTypes, SameTypes
<1> QED BY <1>1, InitTypes, TypeInvTypeOK, PTL DEF Spec

-----------------------------------------------------------------------------
(* Who owns the backend, and what it has open.  At most one attempt of     *)
(* Start is under way, and none once a backend is kept; what is open       *)
(* follows from how far the acquisition, or Close, has come.               *)

underWay(c) == start[c].at \in {"acquire", "discard"}

\* What an acquisition has opened, stage by stage.
Opened == {{}, {"trust"}, {"trust", "service"}, {"trust", "service", "spine"},
           {"trust", "service", "spine", "mutations"}, Resources}

\* What Close has left open.
leftOpen(close) ==
    CASE close \in {"open", "closing"} -> Resources
      [] close = "deactivated" -> {"trust", "service", "spine", "listener"}
      [] close = "drained" -> {"trust", "service", "listener"}
      [] close \in {"stopped", "denied"} -> {"trust"}
      [] close = "closed" -> {}

\* A runtime with a backend starts no other.
AttemptInv ==
    /\ \A c \in Starters : underWay(c) <=> rt.starting = c
    /\ rt.starting # None => ~rt.backend
    /\ rt.backend => rt.shutdown \/ rt.started \/ rt.workerErr
    /\ rt.started => rt.backend
    /\ rt.cancelled => rt.shutdown \/ rt.workerErr

RunnerInv ==
    /\ runner.at = "none" <=> rt.done = "none"
    /\ runner.at = "ended" <=> rt.done = "closed"
    /\ runner.at # "none" => rt.backend

HeldInv ==
    /\ rt.starting = None /\ ~rt.backend
       => held = {} /\ be.close \in {"open", "closed"}
    /\ \A c \in Starters : start[c].at = "acquire"
         => be.close = "open" /\ held \in Opened
    /\ \A c \in Starters : start[c].at = "discard"
         => be.close # "open" /\ held = leftOpen(be.close)
    /\ rt.backend => held = leftOpen(be.close)
    /\ "spine" \notin held => spine.worker = "ended"

stopping(c) == stop[c].at \in {"attempt", "close"}

\* One call of Shutdown does the work.  It knows the attempt that is under
\* way, after which there is none.
StopInv ==
    /\ \A c, d \in Stoppers : stopping(c) /\ stopping(d) => c = d
    /\ \A c \in Stoppers : stopping(c) => rt.completion = "open"
    /\ rt.shutdown <=> rt.completion # "none"
    /\ rt.backend /\ ~rt.shutdown => be.close = "open"
    /\ \A c \in Stoppers : stop[c].at = "attempt"
         => /\ rt.starting \in {None, stop[c].on}
            /\ rt.backend => be.close = "open"
    /\ \A c \in Stoppers : stop[c].at = "close" => rt.starting = None
    /\ rt.completion = "closed"
       => /\ rt.starting = None /\ rt.done # "open"
          /\ rt.backend => be.close = "closed"

LifeInv == AttemptInv /\ RunnerInv /\ HeldInv /\ StopInv

LEMMA LifeNothingLeft == ASSUME TypeInv, LifeInv PROVE NothingLeft
<1>1. leftOpen("closed") = {}
  BY DEF leftOpen
<1>2. runner.at \in {"none", "ended"} <=> rt.done # "open"
  BY DEF TypeInv, Runner, State, LifeInv, RunnerInv
<1>3. ASSUME rt.completion = "closed" \/ (rt.starting = None /\ ~rt.backend)
      PROVE  held = {} /\ runner.at \in {"none", "ended"}
  BY <1>1, <1>2, <1>3
     DEF TypeInv, State, LifeInv, StopInv, HeldInv, RunnerInv
<1> QED BY <1>3 DEF NothingLeft, LifeInv, HeldInv

\* The stage after what is open, and what is undone when it fails.
LEMMA StageAfter ==
    ASSUME NEW P \in Opened
    PROVE  /\ Cardinality(P) \in 0..5
           /\ undone(Cardinality(P)) = P
           /\ Cardinality(P) = 5 <=> P = Resources
           /\ P # Resources =>
                /\ P \cup {Stages[Cardinality(P) + 1]} \in Opened
                /\ Stages[Cardinality(P) + 1] = "trust" <=> P = {}
                /\ Stages[Cardinality(P) + 1] = "service" <=> P = {"trust"}
                /\ Stages[Cardinality(P) + 1] = "spine"
                     <=> P = {"trust", "service"}
<1>1. Cardinality({}) = 0 /\ IsFiniteSet({})
  BY FS_EmptySet
<1>2. ASSUME NEW S, NEW x, IsFiniteSet(S), x \notin S
      PROVE  /\ IsFiniteSet(S \cup {x})
             /\ Cardinality(S \cup {x}) = Cardinality(S) + 1
  BY <1>2, FS_AddElement
<1>3. Cardinality({"trust"}) = 1 /\ IsFiniteSet({"trust"})
  BY FS_Singleton
<1>4. /\ {"trust"} \cup {"service"} = {"trust", "service"}
      /\ {"trust", "service"} \cup {"spine"} = {"trust", "service", "spine"}
      /\ {"trust", "service", "spine"} \cup {"mutations"}
           = {"trust", "service", "spine", "mutations"}
      /\ {"trust", "service", "spine", "mutations"} \cup {"listener"}
           = Resources
  BY ResourcesAre
<1>5. /\ Cardinality({"trust", "service"}) = 2
      /\ IsFiniteSet({"trust", "service"})
  BY <1>2, <1>3, <1>4
<1>6. /\ Cardinality({"trust", "service", "spine"}) = 3
      /\ IsFiniteSet({"trust", "service", "spine"})
  BY <1>2, <1>4, <1>5
<1>7. /\ Cardinality({"trust", "service", "spine", "mutations"}) = 4
      /\ IsFiniteSet({"trust", "service", "spine", "mutations"})
  BY <1>2, <1>4, <1>6
<1>8. Cardinality(Resources) = 5
  BY <1>2, <1>4, <1>7
<1>9. /\ undone(0) = {} /\ undone(1) = {"trust"}
      /\ undone(2) = {"trust", "service"}
      /\ undone(3) = {"trust", "service", "spine"}
      /\ undone(4) = {"trust", "service", "spine", "mutations"}
      /\ undone(5) = Resources
  BY DEF undone, Stages, Resources
<1>10. /\ Stages[1] = "trust" /\ Stages[2] = "service"
       /\ Stages[3] = "spine" /\ Stages[4] = "mutations"
       /\ Stages[5] = "listener"
  BY DEF Stages
<1>11. CASE P = {}
  BY <1>1, <1>9, <1>10, <1>11, ResourcesAre DEF Opened
<1>12. CASE P = {"trust"}
  BY <1>3, <1>4, <1>9, <1>10, <1>12, ResourcesAre DEF Opened
<1>13. CASE P = {"trust", "service"}
  BY <1>5, <1>4, <1>9, <1>10, <1>13, ResourcesAre DEF Opened
<1>14. CASE P = {"trust", "service", "spine"}
  BY <1>6, <1>4, <1>9, <1>10, <1>14, ResourcesAre DEF Opened
<1>15. CASE P = {"trust", "service", "spine", "mutations"}
  BY <1>7, <1>4, <1>9, <1>10, <1>15, ResourcesAre DEF Opened
<1>16. CASE P = Resources
  BY <1>8, <1>9, <1>16
<1> QED BY <1>11, <1>12, <1>13, <1>14, <1>15, <1>16 DEF Opened

LEMMA InitLife == Init => LifeInv
<1> SUFFICES ASSUME Init PROVE LifeInv OBVIOUS
<1>1. AttemptInv /\ RunnerInv
  BY RuntimeAssumption DEF Init, AttemptInv, underWay, RunnerInv
<1>2. HeldInv /\ StopInv
  BY DEF Init, HeldInv, StopInv, stopping, newBackend, inactive
<1> QED BY <1>1, <1>2 DEF LifeInv

\* The part of the runtime's state that says who owns the backend.
sameOwner ==
    /\ rt'.shutdown = rt.shutdown /\ rt'.started = rt.started
    /\ rt'.workerErr = rt.workerErr /\ rt'.starting = rt.starting
    /\ rt'.backend = rt.backend /\ rt'.cancelled = rt.cancelled
    /\ rt'.done = rt.done /\ rt'.completion = rt.completion

\* The attempts that are under way are the same.
sameAttempts ==
    \A c \in Starters : /\ start'[c].at = "acquire" <=> start[c].at = "acquire"
                        /\ start'[c].at = "discard" <=> start[c].at = "discard"

LEMMA LifeFrame ==
    ASSUME LifeInv, sameOwner, sameAttempts, UNCHANGED <<stop, held>>,
           be'.close = be.close, spine'.worker = spine.worker,
           runner' = runner
    PROVE  LifeInv'
<1>1. AttemptInv'
  BY DEF LifeInv, AttemptInv, underWay, sameOwner, sameAttempts
<1>2. RunnerInv'
  BY DEF LifeInv, RunnerInv, sameOwner
<1>3. HeldInv'
  BY DEF LifeInv, HeldInv, sameOwner, sameAttempts
<1>4. StopInv'
  BY DEF LifeInv, StopInv, stopping, sameOwner
<1> QED BY <1>1, <1>2, <1>3, <1>4 DEF LifeInv

LEMMA LifeStart ==
    ASSUME TypeInv, LifeInv, NEW c \in Starters, Start(c)
    PROVE  LifeInv'
<1>1. CASE UNCHANGED <<rt, be>>
  <2>1. sameAttempts
    <3>1. \/ start' = [start EXCEPT ![c].at = "ended", ![c].result = "shutdown"]
          \/ start' = [start EXCEPT ![c].at = "ended", ![c].result = "failed"]
          \/ start' = [start EXCEPT ![c].at = "ended", ![c].result = "ok"]
          \/ start' = [start EXCEPT ![c].at = "waiting",
                                    ![c].on = rt.starting]
          \/ rt' = [rt EXCEPT !.starting = c] /\ rt.starting = None
      BY Zenon DEF Start, answered
    <3>2. rt' # [rt EXCEPT !.starting = c] \/ rt.starting # None
      BY <1>1, RuntimeAssumption DEF TypeInv, State
    <3>3. start[c].at = "idle"
      BY DEF Start
    <3> QED BY <3>1, <3>2, <3>3 DEF TypeInv, Caller, sameAttempts
  <2> QED BY <1>1, <2>1, LifeFrame DEF Start, handling, sameOwner
<1>2. CASE ~UNCHANGED <<rt, be>>
  <2>1. /\ ~rt.shutdown /\ ~rt.workerErr /\ ~rt.started
        /\ rt.starting = None
        /\ rt' = [rt EXCEPT !.starting = c]
        /\ start' = [start EXCEPT ![c].at = "acquire"]
        /\ be' = newBackend
    BY <1>2, Zenon DEF Start
  <2>2. start[c].at = "idle" /\ UNCHANGED <<stop, held, runner, spine>>
    BY DEF Start, handling
  <2>3. /\ rt'.shutdown = rt.shutdown /\ rt'.started = rt.started
        /\ rt'.workerErr = rt.workerErr /\ rt'.starting = c
        /\ rt'.backend = rt.backend /\ rt'.cancelled = rt.cancelled
        /\ rt'.done = rt.done /\ rt'.completion = rt.completion
    BY <2>1 DEF TypeInv, State
  <2>4. /\ start'[c].at = "acquire"
        /\ \A d \in Starters \ {c} : start'[d] = start[d]
    BY <2>1 DEF TypeInv, Caller
  <2>5. ~rt.backend /\ held = {} /\ spine.worker = "ended"
    BY <2>1 DEF LifeInv, AttemptInv, HeldInv
  <2>6. rt.completion = "none"
    BY <2>1 DEF LifeInv, StopInv
  <2>7. \A d \in Starters : ~underWay(d)
    BY <2>1, RuntimeAssumption DEF LifeInv, AttemptInv
  <2>8. be'.close = "open"
    BY <2>1 DEF newBackend
  <2>9. AttemptInv'
    BY <2>1, <2>3, <2>4, <2>5, <2>7 DEF LifeInv, AttemptInv, underWay
  <2>10. RunnerInv'
    BY <2>2, <2>3 DEF LifeInv, RunnerInv
  <2>11. HeldInv'
    BY <2>2, <2>3, <2>4, <2>5, <2>7, <2>8, RuntimeAssumption
       DEF HeldInv, underWay, Opened
  <2>12. StopInv'
    BY <2>1, <2>2, <2>3, <2>5, <2>6, <2>8 DEF LifeInv, StopInv, stopping
  <2> QED BY <2>9, <2>10, <2>11, <2>12 DEF LifeInv
<1> QED BY <1>1, <1>2

LEMMA LifeWaiting ==
    ASSUME TypeInv, LifeInv, NEW c \in Starters,
           CancelStart(c) \/ WaitReturns(c)
    PROVE  LifeInv'
<1>1. sameAttempts
  <2>1. CASE CancelStart(c)
    BY <2>1 DEF CancelStart, TypeInv, Caller, sameAttempts
  <2>2. CASE WaitReturns(c)
    BY <2>2 DEF WaitReturns, answered, TypeInv, Caller, sameAttempts
  <2> QED BY <2>1, <2>2
<1>2. UNCHANGED <<stop, rt, held, be, runner, spine>>
  BY DEF CancelStart, WaitReturns, handling
<1> QED BY <1>1, <1>2, LifeFrame DEF sameOwner

\* The attempt that is under way, when c has it.
LEMMA OwnAttempt ==
    ASSUME TypeInv, LifeInv, NEW c \in Starters, underWay(c)
    PROVE  /\ rt.starting = c /\ ~rt.backend /\ runner.at = "none"
           /\ rt.done = "none" /\ ~rt.started
           /\ \A d \in Starters : underWay(d) => d = c
           /\ rt.completion # "closed"
           /\ \A d \in Stoppers : stop[d].at # "close"
BY RuntimeAssumption
   DEF TypeInv, State, LifeInv, AttemptInv, RunnerInv, StopInv

LEMMA LifeStage ==
    ASSUME TypeInv, LifeInv, NEW c \in Starters, AcquireStage(c)
    PROVE  LifeInv'
<1> DEFINE k == Cardinality(held) + 1
<1>1. start[c].at = "acquire" /\ k <= 5 /\ held' = held \cup {Stages[k]}
      /\ UNCHANGED <<start, stop, rt, be, runner>>
  BY DEF AcquireStage, Stages
<1>2. be.close = "open" /\ held \in Opened
  BY <1>1 DEF LifeInv, HeldInv
<1>3. held # Resources
  BY <1>1, <1>2, StageAfter
<1>4. held' \in Opened
  BY <1>1, <1>2, <1>3, StageAfter
<1>5. Stages[k] = "spine" \/ UNCHANGED spine
  BY DEF AcquireStage
<1>6. "spine" \notin held' => spine'.worker = "ended"
  BY <1>1, <1>5 DEF LifeInv, HeldInv
<1>7. rt.starting = c /\ ~rt.backend /\ \A d \in Starters : underWay(d) => d = c
  BY <1>1, OwnAttempt DEF underWay
<1>8. HeldInv'
  BY <1>1, <1>2, <1>4, <1>6, <1>7, RuntimeAssumption DEF HeldInv, underWay
<1> QED BY <1>1, <1>8
        DEF LifeInv, AttemptInv, underWay, RunnerInv, StopInv, stopping

\* An attempt is over without a backend to keep.
LEMMA LifeGivenUp ==
    ASSUME TypeInv, LifeInv, NEW c \in Starters, underWay(c),
           NEW result, finished(c, result),
           held' = {}, be'.close \in {"open", "closed"}, be'.close = be.close,
           spine'.worker = "ended", UNCHANGED <<stop, runner>>
    PROVE  LifeInv'
<1>1. /\ rt.starting = c /\ ~rt.backend
      /\ \A d \in Starters : underWay(d) => d = c
      /\ rt.completion # "closed"
  BY OwnAttempt
<1>2. /\ rt'.shutdown = rt.shutdown /\ rt'.started = rt.started
      /\ rt'.workerErr = rt.workerErr /\ rt'.starting = None
      /\ rt'.backend = rt.backend /\ rt'.cancelled = rt.cancelled
      /\ rt'.done = rt.done /\ rt'.completion = rt.completion
  BY DEF finished, TypeInv, State
<1>3. /\ start'[c].at = "ended"
      /\ \A d \in Starters \ {c} : start'[d] = start[d]
  BY DEF finished, answered, TypeInv, Caller
<1>4. \A d \in Starters : start'[d].at \notin {"acquire", "discard"}
  BY <1>1, <1>3 DEF underWay
<1>5. AttemptInv'
  BY <1>1, <1>2, <1>4, RuntimeAssumption DEF LifeInv, AttemptInv, underWay
<1>6. RunnerInv'
  BY <1>2 DEF LifeInv, RunnerInv
<1>7. HeldInv'
  BY <1>1, <1>2, <1>4 DEF HeldInv
<1>8. StopInv'
  BY <1>1, <1>2 DEF LifeInv, StopInv, stopping
<1> QED BY <1>5, <1>6, <1>7, <1>8 DEF LifeInv

LEMMA LifeAcquireFails ==
    ASSUME TypeInv, LifeInv, NEW c \in Starters, AcquireFails(c)
    PROVE  LifeInv'
<1>1. start[c].at = "acquire" /\ underWay(c)
  BY DEF AcquireFails, underWay
<1>2. held \in Opened /\ be.close = "open"
  BY <1>1 DEF LifeInv, HeldInv
<1>3. held' = {}
  BY <1>2, StageAfter DEF AcquireFails
<1>4. spine'.worker = "ended" /\ be' = be
  BY DEF AcquireFails, inactive
<1>5. PICK result : finished(c, result)
  BY DEF AcquireFails
<1> QED BY <1>1, <1>2, <1>3, <1>4, <1>5, LifeGivenUp DEF AcquireFails

LEMMA LifeDiscarded ==
    ASSUME TypeInv, LifeInv, NEW c \in Starters, Discarded(c)
    PROVE  LifeInv'
<1>1. start[c].at = "discard" /\ underWay(c) /\ be.close = "closed"
  BY DEF Discarded, underWay
<1>2. held = {} /\ spine.worker = "ended"
  BY <1>1 DEF LifeInv, HeldInv, leftOpen
<1>3. PICK result : finished(c, result)
  BY DEF Discarded
<1> QED BY <1>1, <1>2, <1>3, LifeGivenUp DEF Discarded, handling

LEMMA LifeAcquired ==
    ASSUME TypeInv, LifeInv, NEW c \in Starters, AcquireReturns(c)
    PROVE  LifeInv'
<1>1. /\ start[c].at = "acquire" /\ held = Resources
      /\ UNCHANGED <<stop, held, spine>>
  BY DEF AcquireReturns, handling
<1>2. be.close = "open" /\ held = leftOpen("open") /\ leftOpen("closing") = held
  BY <1>1 DEF LifeInv, HeldInv, leftOpen
<1>3. /\ rt.starting = c /\ ~rt.backend /\ runner.at = "none"
      /\ rt.done = "none" /\ ~rt.started
      /\ \A d \in Starters : underWay(d) => d = c
      /\ rt.completion # "closed"
      /\ \A d \in Stoppers : stop[d].at # "close"
  BY <1>1, OwnAttempt DEF underWay
<1>4. \A d \in Starters \ {c} : start[d].at \notin {"acquire", "discard"}
  BY <1>3 DEF underWay
<1>5. "spine" \in held
  BY <1>1, ResourcesAre
<1>6. CASE rt.shutdown \/ ~start[c].cancelled
  <2>1. \E result : answered(c, result)
    BY <1>6, Zenon DEF AcquireReturns
  <2>2. /\ start'[c].at = "ended"
        /\ \A d \in Starters \ {c} : start'[d] = start[d]
    BY <2>1 DEF answered, TypeInv, Caller
  <2>3. be' = be
    BY <1>6, Zenon DEF AcquireReturns
  <2>4. \/ /\ rt.shutdown /\ runner' = runner
           /\ rt' = [rt EXCEPT !.starting = None, !.backend = TRUE]
        \/ /\ ~rt.shutdown /\ runner' = [at |-> "claim", err |-> FALSE]
           /\ rt' = [rt EXCEPT !.starting = None, !.backend = TRUE,
                               !.started = TRUE, !.done = "open"]
    BY <1>6, Zenon DEF AcquireReturns
  <2>5. /\ rt'.shutdown = rt.shutdown /\ rt'.workerErr = rt.workerErr
        /\ rt'.starting = None /\ rt'.backend
        /\ rt'.cancelled = rt.cancelled /\ rt'.completion = rt.completion
        /\ rt'.shutdown \/ rt'.started
    BY <2>4 DEF TypeInv, State
  <2>6. RunnerInv'
    <3>1. CASE runner' = runner /\ rt'.done = rt.done
      BY <3>1, <2>5, <1>3 DEF LifeInv, RunnerInv
    <3>2. CASE runner'.at = "claim" /\ rt'.done = "open"
      BY <3>2, <2>5 DEF RunnerInv
    <3>3. rt.shutdown => runner' = runner /\ rt'.done = rt.done
      BY <2>4 DEF TypeInv, State
    <3>4. ASSUME ~rt.shutdown PROVE runner'.at = "claim" /\ rt'.done = "open"
      <4>1. runner' = [at |-> "claim", err |-> FALSE]
        BY <2>4, <3>4
      <4>2. rt' = [rt EXCEPT !.starting = None, !.backend = TRUE,
                            !.started = TRUE, !.done = "open"]
        BY <2>4, <3>4
      <4>3. rt'.done = "open"
        BY <4>2 DEF TypeInv, State
      <4> QED BY <4>1, <4>3
    <3> QED BY <3>1, <3>2, <3>3, <3>4
  <2>7. \A d \in Starters : start'[d].at \notin {"acquire", "discard"}
    BY <1>4, <2>2
  <2>8. AttemptInv'
    BY <2>5, <2>7, RuntimeAssumption DEF LifeInv, AttemptInv, underWay
  <2>9. HeldInv'
    BY <1>1, <1>2, <1>5, <2>3, <2>5, <2>7 DEF HeldInv
  <2>10. StopInv'
    BY <1>1, <1>2, <1>3, <2>3, <2>5 DEF LifeInv, StopInv, stopping
  <2> QED BY <2>6, <2>8, <2>9, <2>10 DEF LifeInv
<1>7. CASE ~rt.shutdown /\ start[c].cancelled
  <2>1. /\ start' = [start EXCEPT ![c].at = "discard"]
        /\ be' = [be EXCEPT !.close = "closing"]
        /\ UNCHANGED <<rt, runner>>
    BY <1>7, Zenon DEF AcquireReturns
  <2>2. /\ start'[c].at = "discard"
        /\ \A d \in Starters \ {c} : start'[d] = start[d]
    BY <2>1 DEF TypeInv, Caller
  <2>3. be'.close = "closing"
    BY <2>1 DEF TypeInv, Backend
  <2>4. AttemptInv'
    BY <1>1, <2>1, <2>2 DEF LifeInv, AttemptInv, underWay
  <2>5. HeldInv'
    BY <1>1, <1>2, <1>3, <1>4, <1>5, <2>1, <2>2, <2>3, RuntimeAssumption
       DEF HeldInv
  <2>6. RunnerInv' /\ StopInv'
    BY <1>1, <1>3, <2>1 DEF LifeInv, RunnerInv, StopInv, stopping
  <2> QED BY <2>4, <2>5, <2>6 DEF LifeInv
<1> QED BY <1>6, <1>7

LEMMA LifeRun ==
    ASSUME TypeInv, LifeInv, RunStep
    PROVE  LifeInv'
<1>1. CASE RunClaims \/ RunSelects \/ RunStops
  <2>1. UNCHANGED <<start, stop, rt, held, spine>>
    BY <1>1 DEF RunClaims, RunSelects, RunStops, handling
  <2>2. be'.close = be.close
    <3>1. be' = be \/ be' = [be EXCEPT !.publisher = TRUE]
      BY <1>1, Zenon DEF RunClaims, RunSelects, RunStops
    <3> QED BY <3>1 DEF TypeInv, Backend
  <2>3. /\ runner.at \notin {"none", "ended"}
        /\ runner'.at \notin {"none", "ended"}
    BY <1>1 DEF RunClaims, RunSelects, RunStops, TypeInv, Runner
  <2>4. RunnerInv'
    BY <2>1, <2>3 DEF LifeInv, RunnerInv
  <2> QED BY <2>1, <2>2, <2>4 DEF LifeInv, AttemptInv, underWay, HeldInv,
                                  StopInv, stopping
<1>2. CASE RunBackendEnds
  <2>1. /\ runner.at = "returned"
        /\ UNCHANGED <<start, stop, held, be, spine>>
    BY <1>2 DEF RunBackendEnds, handling
  <2>2. runner'.at = "ended"
    BY <1>2 DEF RunBackendEnds, TypeInv, Runner
  <2>3. /\ rt'.shutdown = rt.shutdown /\ ~rt'.started
        /\ rt'.starting = rt.starting /\ rt'.backend = rt.backend
        /\ rt'.cancelled = rt.cancelled /\ rt'.done = "closed"
        /\ rt'.completion = rt.completion
    BY <1>2 DEF RunBackendEnds, TypeInv, State
  <2>4. /\ rt.workerErr => rt'.workerErr
        /\ rt.shutdown \/ rt.cancelled \/ rt'.workerErr
    BY <1>2 DEF RunBackendEnds, TypeInv, State
  <2>5. rt.backend
    BY <2>1 DEF LifeInv, RunnerInv
  <2>6. AttemptInv'
    BY <2>1, <2>3, <2>4 DEF LifeInv, AttemptInv, underWay
  <2>7. RunnerInv'
    BY <2>2, <2>3, <2>5 DEF RunnerInv
  <2>8. HeldInv' /\ StopInv'
    BY <2>1, <2>3 DEF LifeInv, HeldInv, StopInv, stopping
  <2> QED BY <2>6, <2>7, <2>8 DEF LifeInv
<1> QED BY <1>1, <1>2 DEF RunStep

LEMMA LifeShutdown ==
    ASSUME TypeInv, LifeInv, NEW c \in Stoppers, Shutdown(c)
    PROVE  LifeInv'
<1>1. stop[c].at = "idle" /\ UNCHANGED <<held, be, runner, spine>>
  BY DEF Shutdown, handling
<1>2. CASE rt.completion # "none"
  <2>1. stop' = [stop EXCEPT ![c].at = "waiting"] /\ UNCHANGED <<rt, start>>
    BY <1>2, Zenon DEF Shutdown
  <2>2. \A d \in Stoppers :
          /\ d # c => stop'[d] = stop[d]
          /\ stop'[c].at = "waiting"
    BY <2>1 DEF TypeInv, Stopper
  <2>3. StopInv'
    BY <1>1, <2>1, <2>2 DEF LifeInv, StopInv, stopping
  <2> QED BY <1>1, <2>1, <2>3
          DEF LifeInv, AttemptInv, underWay, RunnerInv, HeldInv
<1>3. CASE rt.completion = "none"
  <2> DEFINE marked == [start EXCEPT ![rt.starting].cancelled = TRUE]
  <2>1. /\ stop' = [stop EXCEPT ![c] = [at |-> "attempt", on |-> rt.starting]]
        /\ rt' = [rt EXCEPT !.shutdown = TRUE, !.completion = "open",
                            !.cancelled = rt.done # "none"]
        /\ start' = IF rt.starting = None THEN start ELSE marked
    BY <1>3, Zenon DEF Shutdown
  <2>2. sameAttempts
    <3>1. \A d \in Starters : rt.starting # None => marked[d].at = start[d].at
      BY DEF TypeInv, State, Caller
    <3> HIDE DEF marked
    <3> QED BY <2>1, <3>1 DEF sameAttempts
  <2>3. /\ rt'.shutdown /\ rt'.started = rt.started
        /\ rt'.workerErr = rt.workerErr /\ rt'.starting = rt.starting
        /\ rt'.backend = rt.backend /\ rt'.done = rt.done
        /\ rt'.completion = "open"
    BY <2>1 DEF TypeInv, State
  <2>4. /\ stop'[c].at = "attempt" /\ stop'[c].on = rt.starting
        /\ \A d \in Stoppers \ {c} : stop'[d] = stop[d]
    BY <2>1 DEF TypeInv, Stopper
  <2>5. ~rt.shutdown /\ \A d \in Stoppers : ~stopping(d)
    BY <1>3 DEF LifeInv, StopInv
  <2>6. AttemptInv'
    BY <2>2, <2>3 DEF LifeInv, AttemptInv, underWay, sameAttempts
  <2>7. RunnerInv'
    BY <1>1, <2>3 DEF LifeInv, RunnerInv
  <2>8. HeldInv'
    BY <1>1, <2>2, <2>3 DEF LifeInv, HeldInv, sameAttempts
  <2>9. StopInv'
    BY <1>1, <2>3, <2>4, <2>5 DEF LifeInv, StopInv, stopping
  <2> QED BY <2>6, <2>7, <2>8, <2>9 DEF LifeInv
<1> QED BY <1>2, <1>3

LEMMA LifeStops ==
    ASSUME TypeInv, LifeInv, NEW c \in Stoppers,
           ShutdownCloses(c) \/ ShutdownReturns(c) \/ ShutdownWaited(c)
    PROVE  LifeInv'
<1>1. CASE ShutdownCloses(c)
  <2>1. /\ stop[c].at = "attempt" /\ stop' = [stop EXCEPT ![c].at = "close"]
        /\ stop[c].on # None => start[stop[c].on].at = "ended"
        /\ UNCHANGED <<start, rt, held, runner, spine>>
    BY <1>1 DEF ShutdownCloses, handling
  <2>2. /\ stop'[c].at = "close"
        /\ \A d \in Stoppers \ {c} : stop'[d] = stop[d]
    BY <2>1 DEF TypeInv, Stopper
  <2>3. rt.starting = None
    <3>1. rt.starting \in {None, stop[c].on} /\ stop[c].on \in Starters \cup {None}
      BY <2>1 DEF LifeInv, StopInv, TypeInv, Stopper
    <3> QED BY <2>1, <3>1 DEF LifeInv, AttemptInv, underWay
  <2>4. rt.backend => be.close = "open"
    BY <2>1 DEF LifeInv, StopInv
  <2>5. be'.close = IF rt.backend THEN "closing" ELSE be.close
    BY <1>1 DEF ShutdownCloses, TypeInv, Backend
  <2>6. leftOpen("closing") = leftOpen("open")
    BY DEF leftOpen
  <2>7. \A d \in Starters : ~underWay(d)
    BY <2>3, RuntimeAssumption DEF LifeInv, AttemptInv
  <2>8. HeldInv'
    BY <2>1, <2>4, <2>5, <2>6, <2>7 DEF LifeInv, HeldInv, underWay
  <2>9. stopping(c) /\ rt.completion = "open" /\ rt.shutdown
    BY <2>1 DEF LifeInv, StopInv, stopping
  <2>10. StopInv'
    BY <2>1, <2>2, <2>3, <2>9 DEF LifeInv, StopInv, stopping
  <2> QED BY <2>1, <2>8, <2>10 DEF LifeInv, AttemptInv, underWay, RunnerInv
<1>2. CASE ShutdownReturns(c)
  <2>1. /\ stop[c].at = "close"
        /\ rt.backend => be.close = "closed"
        /\ rt.done # "open" /\ stop' = [stop EXCEPT ![c].at = "ended"]
        /\ UNCHANGED <<start, held, be, runner, spine>>
    BY <1>2 DEF ShutdownReturns, handling
  <2>2. /\ rt'.shutdown = rt.shutdown /\ rt'.started = rt.started
        /\ rt'.workerErr = rt.workerErr /\ rt'.starting = rt.starting
        /\ rt'.backend = rt.backend /\ rt'.cancelled = rt.cancelled
        /\ rt'.done = rt.done /\ rt'.completion = "closed"
    BY <1>2 DEF ShutdownReturns, TypeInv, State
  <2>3. /\ stop'[c].at = "ended"
        /\ \A d \in Stoppers \ {c} : stop'[d] = stop[d]
    BY <2>1 DEF TypeInv, Stopper
  <2>4. /\ rt.starting = None /\ rt.completion = "open"
        /\ \A d \in Stoppers : stopping(d) => d = c
    BY <2>1 DEF LifeInv, StopInv, stopping
  <2>5. StopInv'
    BY <2>1, <2>2, <2>3, <2>4 DEF LifeInv, StopInv, stopping
  <2>6. AttemptInv' /\ RunnerInv' /\ HeldInv'
    BY <2>1, <2>2 DEF LifeInv, AttemptInv, underWay, RunnerInv, HeldInv
  <2> QED BY <2>5, <2>6 DEF LifeInv
<1>3. CASE ShutdownWaited(c)
  <2>1. /\ stop[c].at = "waiting" /\ stop' = [stop EXCEPT ![c].at = "ended"]
        /\ UNCHANGED <<start, rt, held, be, runner, spine>>
    BY <1>3 DEF ShutdownWaited, handling
  <2>2. /\ stop'[c].at = "ended"
        /\ \A d \in Stoppers \ {c} : stop'[d] = stop[d]
    BY <2>1 DEF TypeInv, Stopper
  <2>3. StopInv'
    BY <2>1, <2>2 DEF LifeInv, StopInv, stopping
  <2> QED BY <2>1, <2>3
          DEF LifeInv, AttemptInv, underWay, RunnerInv, HeldInv
<1> QED BY <1>1, <1>2, <1>3

\* A step of Close, which a discarding Start or the Shutdown waits for.
LEMMA LifeCloses ==
    ASSUME TypeInv, LifeInv, UNCHANGED <<start, stop, rt, runner>>,
           be.close \in {"closing", "deactivated", "drained", "stopped",
                         "denied"},
           be'.close # "open",
           held = leftOpen(be.close) => held' = leftOpen(be'.close),
           "spine" \notin held' => spine'.worker = "ended"
    PROVE  LifeInv'
<1>1. rt.starting # None \/ rt.backend
  BY DEF LifeInv, HeldInv
<1>2. \A c \in Starters : start[c].at # "acquire"
  BY DEF LifeInv, HeldInv
<1>3. held = leftOpen(be.close)
  <2>1. CASE rt.backend
    BY <2>1 DEF LifeInv, HeldInv
  <2>2. CASE ~rt.backend
    <3>1. rt.starting \in Starters
      BY <1>1, <2>2 DEF TypeInv, State
    <3>2. start[rt.starting].at = "discard"
      BY <1>2, <3>1 DEF LifeInv, AttemptInv, underWay
    <3> QED BY <3>1, <3>2 DEF LifeInv, HeldInv
  <2> QED BY <2>1, <2>2
<1>4. HeldInv'
  BY <1>1, <1>2, <1>3 DEF HeldInv
<1>5. StopInv'
  BY DEF LifeInv, StopInv, stopping
<1> QED BY <1>4, <1>5 DEF LifeInv, AttemptInv, underWay, RunnerInv

LEMMA LifeClose ==
    ASSUME TypeInv, LifeInv, CloseStep
    PROVE  LifeInv'
<1>1. CASE CloseDeactivates
  <2>1. be'.close = "deactivated" /\ spine'.worker = spine.worker
    BY <1>1 DEF CloseDeactivates, TypeInv, Backend, Spine
  <2>2. held = leftOpen("closing") => held' = leftOpen("deactivated")
    BY <1>1, ResourcesAre DEF CloseDeactivates, leftOpen
  <2>3. "spine" \notin held' => spine'.worker = "ended"
    BY <1>1, <2>1 DEF CloseDeactivates, LifeInv, HeldInv
  <2> QED BY <1>1, <2>1, <2>2, <2>3, LifeCloses DEF CloseDeactivates
<1>2. CASE CloseDrains
  <2>1. be'.close = "drained" /\ spine' = spine
    BY <1>2 DEF CloseDrains, TypeInv, Backend, handling
  <2>2. held = leftOpen("deactivated") => held' = leftOpen("drained")
    BY <1>2 DEF CloseDrains, leftOpen
  <2> QED BY <1>2, <2>1, <2>2, LifeCloses DEF CloseDrains
<1>3. CASE CloseStops
  <2>1. be'.close = "stopped" /\ spine' = spine
    BY <1>3 DEF CloseStops, TypeInv, Backend, handling
  <2>2. held = leftOpen("drained") => held' = leftOpen("stopped")
    BY <1>3 DEF CloseStops, leftOpen
  <2>3. "spine" \notin held' => "spine" \notin held
    BY <1>3 DEF CloseStops
  <2> QED BY <1>3, <2>1, <2>2, <2>3, LifeCloses
          DEF CloseStops, LifeInv, HeldInv
<1>4. CASE CloseDenies
  <2>1. be'.close = "denied" /\ spine' = spine
    BY <1>4 DEF CloseDenies, TypeInv, Backend
  <2>2. held = leftOpen("stopped") => held' = leftOpen("denied")
    BY <1>4 DEF CloseDenies, leftOpen
  <2> QED BY <1>4, <2>1, <2>2, LifeCloses
          DEF CloseDenies, LifeInv, HeldInv
<1>5. CASE CloseReturns
  <2>1. be'.close = "closed" /\ spine' = spine
    BY <1>5 DEF CloseReturns, TypeInv, Backend, handling
  <2>2. held = leftOpen("denied") => held' = leftOpen("closed")
    BY <1>5 DEF CloseReturns, leftOpen
  <2>3. "spine" \notin held' => "spine" \notin held
    BY <1>5 DEF CloseReturns
  <2> QED BY <1>5, <2>1, <2>2, <2>3, LifeCloses
          DEF CloseReturns, LifeInv, HeldInv
<1> QED BY <1>1, <1>2, <1>3, <1>4, <1>5 DEF CloseStep

\* What the handler does on callbacks leaves the backend with its owner.
LEMMA LifeHandling ==
    ASSUME TypeInv, LifeInv,
           \/ PeerStep \/ HubStep \/ EventStep \/ WorkerStep
           \/ VisibleRemoteServicesUpdated \/ NotifyTrustAdminProjection
           \/ QuarantineSilently \/ \E t \in Publishers : TakeGraph(t)
    PROVE  LifeInv'
<1>1. UNCHANGED lifecycle
  BY Zenon DEF PeerStep, Connect, Discover, Disconnect, HubStep,
     RemoteSKIConnected, RecordConnected, ReportConnected,
     RemoteSKIDisconnected, EventStep, HandleEvent, LookUpDevices,
     EnqueueSPINERefresh, WorkerStep, WorkerTakes,
     UpdateRemoteFromSPINEEvent, WorkerEnds, VisibleRemoteServicesUpdated,
     NotifyTrustAdminProjection, QuarantineSilently, TakeGraph
<1>2. spine'.worker = spine.worker \/ spine'.worker = "ended"
  <2>1. CASE EventStep
    <3>1. CASE HandleEvent
      BY <3>1 DEF HandleEvent, TypeInv, Spine
    <3>2. CASE LookUpDevices
      BY <3>2 DEF LookUpDevices, TypeInv, Spine
    <3>3. CASE EnqueueSPINERefresh
      BY <3>3 DEF EnqueueSPINERefresh, TypeInv, Spine
    <3> QED BY <2>1, <3>1, <3>2, <3>3 DEF EventStep
  <2>2. CASE WorkerStep
    BY <2>2 DEF WorkerStep, WorkerTakes, UpdateRemoteFromSPINEEvent,
                WorkerEnds, TypeInv, Spine
  <2>3. CASE UNCHANGED spine
    BY <2>3
  <2> QED BY <2>1, <2>2, <2>3 DEF PeerStep, Connect, Discover, Disconnect,
             HubStep, RemoteSKIConnected, RecordConnected, ReportConnected,
             RemoteSKIDisconnected, VisibleRemoteServicesUpdated,
             NotifyTrustAdminProjection, QuarantineSilently, TakeGraph
<1>3. HeldInv'
  BY <1>1, <1>2 DEF LifeInv, HeldInv, lifecycle
<1> QED BY <1>1, <1>3 DEF LifeInv, AttemptInv, underWay, RunnerInv, StopInv,
                          stopping, lifecycle

LEMMA LifePublish ==
    ASSUME TypeInv, LifeInv, NEW t \in Publishers, Publish(t)
    PROVE  LifeInv'
<1> DEFINE snapshot == [runtime |-> pub[t].runtime, trust |-> pub[t].trust]
<1>1. UNCHANGED <<start, stop, held, runner, spine>>
  BY DEF Publish
<1>2. be'.close = be.close
  <2>1. be' = be \/ be' = [be EXCEPT !.terminal = snapshot]
    BY Zenon DEF Publish, captured
  <2> HIDE DEF snapshot
  <2> QED BY <2>1 DEF TypeInv, Backend
<1>3. \/ rt' = rt \/ rt' = [rt EXCEPT !.snapshot = snapshot]
      \/ /\ be.publisher /\ ~rt.shutdown
         /\ rt' = [rt EXCEPT !.workerErr = TRUE, !.started = FALSE,
                             !.cancelled = TRUE]
  BY Zenon DEF Publish, accepted, refused
<1> HIDE DEF snapshot
<1>4. CASE rt' = rt \/ rt' = [rt EXCEPT !.snapshot = snapshot]
  <2>1. sameOwner
    BY <1>4 DEF sameOwner, TypeInv, State
  <2> QED BY <1>1, <1>2, <2>1, LifeFrame DEF sameAttempts
<1>5. CASE /\ be.publisher /\ ~rt.shutdown
           /\ rt' = [rt EXCEPT !.workerErr = TRUE, !.started = FALSE,
                               !.cancelled = TRUE]
  <2>1. /\ rt'.shutdown = rt.shutdown /\ ~rt'.started /\ rt'.workerErr
        /\ rt'.starting = rt.starting /\ rt'.backend = rt.backend
        /\ rt'.done = rt.done /\ rt'.completion = rt.completion
    BY <1>5 DEF TypeInv, State
  <2> QED BY <1>1, <1>2, <2>1 DEF LifeInv, AttemptInv, underWay, RunnerInv,
                                  HeldInv, StopInv, stopping
<1> QED BY <1>3, <1>4, <1>5

LEMMA NextLife ==
    ASSUME TypeInv, LifeInv, Next
    PROVE  LifeInv'
<1>1. ASSUME NEW c \in Starters, StartStep(c) PROVE LifeInv'
  BY <1>1, LifeStart, LifeWaiting, LifeStage, LifeAcquireFails, LifeAcquired,
     LifeDiscarded DEF StartStep
<1>2. ASSUME NEW c \in Stoppers, StopStep(c) PROVE LifeInv'
  BY <1>2, LifeShutdown, LifeStops DEF StopStep
<1>3. ASSUME NEW t \in Publishers, PublishStep(t) PROVE LifeInv'
  BY <1>3, LifeHandling, LifePublish DEF PublishStep
<1> QED BY <1>1, <1>2, <1>3, LifeRun, LifeClose, LifeHandling DEF Next

LEMMA SameLife ==
    ASSUME LifeInv, UNCHANGED <<lifecycle, handling>>
    PROVE  LifeInv'
BY DEF LifeInv, AttemptInv, underWay, RunnerInv, HeldInv, StopInv, stopping,
       lifecycle, handling

\* Nothing an acquisition opened is left when Shutdown has returned, or when
\* there is neither an attempt nor a backend.
THEOREM NothingIsLeft == Spec => []NothingLeft
<1> DEFINE Inv == TypeInv /\ WaitInv /\ LifeInv
<1>1. Init => Inv
  BY InitTypes, InitLife
<1>2. Inv /\ [Next]_vars => Inv'
  <2>1. CASE Next
    BY <2>1, NextTypes, NextLife
  <2>2. CASE UNCHANGED vars
    BY <2>2, SameTypes, SameLife DEF vars, lifecycle, handling
  <2> QED BY <2>1, <2>2
<1>3. Inv => NothingLeft
  BY LifeNothingLeft
<1> QED BY <1>1, <1>2, <1>3, PTL DEF Spec

-----------------------------------------------------------------------------
(* Sessions.  The recorded connections, and the one that is being          *)
(* recorded, are connections of the peer; what was read of the devices of  *)
(* one is of it or of a later one.                                         *)

\* Devices d, if any, are not of a connection before the i-th.
notBefore(d, i) == d > 0 => d >= i

dueConnected == IF Len(peer.due) > 0 /\ peer.due[1] = "connected" THEN 1 ELSE 0
recording == IF hub # None THEN 1 ELSE 0

\* What the hub has to tell: that the peer connected, that it disconnected, or
\* both.
DueInv ==
    LET n == Len(peer.due)
    IN  /\ n <= IF peer.up THEN 1 ELSE 2
        /\ n = 1 => peer.due[1] = IF peer.up THEN "connected"
                                 ELSE "disconnected"
        /\ n = 2 => peer.due[1] = "connected" /\ peer.due[2] = "disconnected"

SessionInv ==
    /\ DueInv
    /\ h.obs.index + recording + dueConnected <= peer.n
    /\ hub # None /\ hub > 0 => hub > h.obs.index
    /\ notBefore(h.obs.devices, h.obs.index)
    /\ spine.at \in {"look", "queue"} => spine.index <= peer.n
    /\ spine.at = "queue" => notBefore(spine.devices, spine.index)
    /\ spine.pending # None =>
         notBefore(spine.pending.devices, spine.pending.index)
    /\ spine.taken # None =>
         notBefore(spine.taken.devices, spine.taken.index)

LEMMA InitSession == Init => SessionInv
BY RuntimeAssumption
   DEF Init, SessionInv, DueInv, dueConnected, recording, notBefore, newHandler,
       absent, inactive

LEMMA SessionTypes ==
    ASSUME TypeInv
    PROVE  /\ peer.n \in Nat /\ h.obs.index \in Nat /\ h.obs.devices \in Nat
           /\ hub # None => hub \in Nat
           /\ currentDevices \in {0, peer.n}
           /\ dueConnected \in {0, 1} /\ recording \in {0, 1}
           /\ spine.index \in Nat /\ spine.devices \in Nat
           /\ spine.pending # None =>
                spine.pending.index \in Nat /\ spine.pending.devices \in Nat
           /\ spine.taken # None =>
                spine.taken.index \in Nat /\ spine.taken.devices \in Nat
BY RuntimeAssumption
   DEF TypeInv, Peer, Handler, Observation, Spine, Refresh, currentDevices,
       dueConnected, recording

LEMMA SessionPeer ==
    ASSUME TypeInv, SessionInv, PeerStep
    PROVE  SessionInv'
<1>1. UNCHANGED <<hub, h, spine>>
  BY DEF PeerStep, Connect, Discover, Disconnect
<1>2. CASE Connect
  <2>1. /\ peer'.n = peer.n + 1 /\ peer'.up
        /\ Len(peer.due) = 0 /\ Len(peer'.due) = 1
        /\ peer'.due[1] = "connected"
    BY <1>2 DEF Connect, TypeInv, Peer
  <2>2. DueInv' /\ dueConnected = 0 /\ dueConnected' = 1
    BY <2>1 DEF DueInv, dueConnected
  <2> QED BY <1>1, <2>1, <2>2, SessionTypes DEF SessionInv, recording
<1>3. CASE Discover
  <2>1. peer'.n = peer.n /\ peer'.up = peer.up /\ peer'.due = peer.due
    BY <1>3 DEF Discover, TypeInv, Peer
  <2> QED BY <1>1, <2>1 DEF SessionInv, DueInv, dueConnected, recording
<1>4. CASE Disconnect
  <2>1. /\ peer.up /\ peer'.n = peer.n /\ ~peer'.up
        /\ peer'.due = Append(peer.due, "disconnected")
        /\ peer.due \in Seq({"connected", "disconnected"})
    BY <1>4 DEF Disconnect, TypeInv, Peer
  <2>2. /\ Len(peer'.due) = Len(peer.due) + 1
        /\ peer'.due[Len(peer.due) + 1] = "disconnected"
        /\ Len(peer.due) > 0 => peer'.due[1] = peer.due[1]
    BY <2>1
  <2>3. Len(peer.due) \in {0, 1}
    <3>1. Len(peer.due) \in Nat
      BY <2>1
    <3>2. Len(peer.due) <= 1
      BY <2>1, Zenon DEF SessionInv, DueInv
    <3>3. \A n \in Nat : n <= 1 => n \in {0, 1}
      OBVIOUS
    <3> QED BY <3>1, <3>2, <3>3, Zenon
  <2>4. DueInv' /\ dueConnected' = dueConnected
    BY <2>1, <2>2, <2>3 DEF SessionInv, DueInv, dueConnected
  <2> QED BY <1>1, <2>1, <2>4 DEF SessionInv, recording
<1> QED BY <1>2, <1>3, <1>4 DEF PeerStep

\* A callback of the hub is taken from those that are due.
LEMMA SessionCallback ==
    ASSUME TypeInv, SessionInv, NEW kind \in {"connected", "disconnected"},
           callback(kind)
    PROVE  /\ peer'.n = peer.n /\ hub = None
           /\ DueInv' /\ dueConnected' = 0
           /\ dueConnected = IF kind = "connected" THEN 1 ELSE 0
<1>1. /\ peer'.n = peer.n /\ hub = None /\ peer'.up = peer.up
      /\ peer'.due = Tail(peer.due) /\ peer.due # <<>>
      /\ peer.due \in Seq({"connected", "disconnected"})
      /\ Head(peer.due) = kind
  BY DEF callback, TypeInv, Peer
<1>2. Len(peer.due) \in {1, 2} /\ peer.due[1] = kind
  <2>1. Len(peer.due) \in Nat \ {0} /\ peer.due[1] = kind
    BY <1>1
  <2>2. Len(peer.due) <= IF peer.up THEN 1 ELSE 2
    BY Zenon DEF SessionInv, DueInv
  <2>3. \A n \in Nat \ {0} : n <= (IF peer.up THEN 1 ELSE 2) => n \in {1, 2}
    OBVIOUS
  <2> QED BY <2>1, <2>2, <2>3, Zenon
<1>3. /\ Len(peer'.due) = Len(peer.due) - 1
      /\ Len(peer.due) = 2 => peer'.due[1] = peer.due[2]
  BY <1>1, <1>2
<1>4. /\ Len(peer.due) = 1 =>
           peer.due[1] = IF peer.up THEN "connected" ELSE "disconnected"
      /\ Len(peer.due) = 2 =>
           /\ ~peer.up
           /\ peer.due[1] = "connected" /\ peer.due[2] = "disconnected"
  BY DEF SessionInv, DueInv
<1>5. CASE Len(peer.due) = 1
  <2>1. Len(peer'.due) = 0
    BY <1>3, <1>5
  <2> QED BY <1>1, <1>2, <1>5, <2>1 DEF DueInv, dueConnected
<1>6. CASE Len(peer.due) = 2
  <2>1. Len(peer'.due) = 1 /\ peer'.due[1] = "disconnected"
        /\ ~peer'.up
    BY <1>1, <1>3, <1>4, <1>6
  <2>2. DueInv' /\ dueConnected' = 0
    BY <2>1 DEF DueInv, dueConnected
  <2>3. dueConnected = IF kind = "connected" THEN 1 ELSE 0
    BY <1>2, <1>6 DEF dueConnected
  <2> QED BY <1>1, <2>2, <2>3
<1> QED BY <1>2, <1>5, <1>6

LEMMA SessionHub ==
    ASSUME TypeInv, SessionInv, HubStep
    PROVE  SessionInv'
<1>1. CASE RemoteSKIConnected
  <2>1. hub' = currentDevices /\ UNCHANGED <<h, spine>>
    BY <1>1 DEF RemoteSKIConnected
  <2>2. /\ peer'.n = peer.n /\ hub = None
        /\ DueInv' /\ dueConnected' = 0 /\ dueConnected = 1
    BY <1>1, SessionCallback DEF RemoteSKIConnected
  <2>3. h.obs.index + 1 <= peer.n
    BY <2>2, SessionTypes DEF SessionInv, recording
  <2>4. currentDevices = 0 \/ currentDevices > h.obs.index
    BY <2>3, SessionTypes
  <2>5. recording' <= 1 /\ recording' \in Nat
    BY DEF recording
  <2>6. h.obs.index + recording' + dueConnected' <= peer.n
    BY <2>2, <2>3, <2>5, SessionTypes
  <2> QED BY <2>1, <2>2, <2>4, <2>6, SessionTypes DEF SessionInv
<1>2. CASE RecordConnected
  <2> DEFINE o == [index |-> h.obs.index + 1, visible |-> TRUE,
                   devices |-> hub, state |-> "connected"]
  <2>1. hub # None /\ hub' = None /\ UNCHANGED <<peer, spine>>
        /\ h' = [h EXCEPT !.obs = o, !.rev = @ + 1]
    BY <1>2 DEF RecordConnected, updateRemote
  <2>2. h'.obs.index = h.obs.index + 1 /\ h'.obs.devices = hub
    BY <2>1 DEF TypeInv, Handler
  <2>3. recording = 1 /\ recording' = 0
    BY <2>1 DEF recording
  <2>4. notBefore(h'.obs.devices, h'.obs.index)
    BY <2>1, <2>2, SessionTypes DEF SessionInv, notBefore
  <2> HIDE DEF o
  <2>5. h'.obs.index + recording' + dueConnected <= peer.n
    BY <2>2, <2>3, SessionTypes DEF SessionInv
  <2> QED BY <2>1, <2>4, <2>5 DEF SessionInv, DueInv, dueConnected
<1>3. CASE ReportConnected
  <2>1. hub # None /\ hub' = None /\ UNCHANGED <<peer, spine>>
        /\ h'.obs = h.obs
    BY <1>3 DEF ReportConnected, TypeInv, Handler
  <2>2. recording = 1 /\ recording' = 0
    BY <2>1 DEF recording
  <2>3. h.obs.index + recording' + dueConnected <= peer.n
    BY <2>2, SessionTypes DEF SessionInv
  <2> QED BY <2>1, <2>3 DEF SessionInv, DueInv, dueConnected
<1>4. CASE RemoteSKIDisconnected
  <2>1. UNCHANGED <<hub, spine>>
    BY <1>4 DEF RemoteSKIDisconnected
  <2>2. /\ peer'.n = peer.n /\ hub = None
        /\ DueInv' /\ dueConnected' = 0 /\ dueConnected = 0
    BY <1>4, SessionCallback DEF RemoteSKIDisconnected
  <2>3. /\ h'.obs.index = h.obs.index
        /\ h'.obs.devices = h.obs.devices \/ h'.obs.devices = 0
    <3> DEFINE ended == [h.obs EXCEPT !.state = "disconnected", !.devices = 0]
    <3>1. \/ h' = h \/ h' = [h EXCEPT !.obs = h.obs, !.rev = @ + 1]
          \/ h' = [h EXCEPT !.obs = ended, !.rev = @ + 1]
      BY <1>4 DEF RemoteSKIDisconnected, updateRemote
    <3>2. ended.index = h.obs.index /\ ended.devices = 0
      BY DEF TypeInv, Handler, Observation
    <3> HIDE DEF ended
    <3> QED BY <3>1, <3>2 DEF TypeInv, Handler
  <2>4. notBefore(h'.obs.devices, h'.obs.index)
    BY <2>3, SessionTypes DEF SessionInv, notBefore
  <2> QED BY <2>1, <2>2, <2>3, <2>4 DEF SessionInv, recording
<1> QED BY <1>1, <1>2, <1>3, <1>4 DEF HubStep

LEMMA SessionEvent ==
    ASSUME TypeInv, SessionInv, EventStep
    PROVE  SessionInv'
<1>1. UNCHANGED <<hub, h>> /\ peer'.n = peer.n /\ peer'.up = peer.up
      /\ peer'.due = peer.due
  BY DEF EventStep, HandleEvent, LookUpDevices, EnqueueSPINERefresh, TypeInv,
         Peer
<1>2. DueInv' /\ dueConnected' = dueConnected /\ recording' = recording
  BY <1>1 DEF SessionInv, DueInv, dueConnected, recording
<1>3. ASSUME /\ spine'.pending = spine.pending
             /\ spine'.taken = spine.taken
             /\ spine'.at \in {"look", "queue"} => spine'.index <= peer.n
             /\ spine'.at = "queue" => notBefore(spine'.devices, spine'.index)
      PROVE  SessionInv'
  BY <1>1, <1>2, <1>3 DEF SessionInv
<1>4. CASE HandleEvent
  <2> DEFINE e == Head(peer.events)
  <2>1. spine' = spine
        \/ spine' = [spine EXCEPT !.at = "look", !.kind = e.kind,
                                  !.index = h.obs.index, !.devices = e.of]
    BY <1>4, Zenon DEF HandleEvent
  <2>2. h.obs.index <= peer.n
    BY SessionTypes DEF SessionInv
  <2> HIDE DEF e
  <2>3. CASE spine' = spine
    BY <1>3, <2>3 DEF SessionInv
  <2>4. CASE spine' = [spine EXCEPT !.at = "look", !.kind = e.kind,
                                  !.index = h.obs.index, !.devices = e.of]
    <3>1. /\ spine'.at = "look" /\ spine'.index = h.obs.index
          /\ spine'.pending = spine.pending /\ spine'.taken = spine.taken
      BY <2>4 DEF TypeInv, Spine
    <3> QED BY <1>3, <2>2, <3>1
  <2> QED BY <2>1, <2>3, <2>4
<1>5. CASE LookUpDevices
  <2>1. spine.at = "look" /\ spine.index <= peer.n
    BY <1>5 DEF LookUpDevices, SessionInv
  <2>2. \/ spine' = [spine EXCEPT !.at = "idle", !.kind = "change",
                                   !.index = 0, !.devices = 0]
        \/ spine' = [spine EXCEPT !.at = "queue", !.devices = currentDevices]
    BY <1>5, Zenon DEF LookUpDevices
  <2>3. CASE spine' = [spine EXCEPT !.at = "idle", !.kind = "change",
                                   !.index = 0, !.devices = 0]
    <3>1. /\ spine'.at = "idle"
          /\ spine'.pending = spine.pending /\ spine'.taken = spine.taken
      BY <2>3 DEF TypeInv, Spine
    <3> QED BY <1>3, <3>1
  <2>4. CASE spine' = [spine EXCEPT !.at = "queue",
                                    !.devices = currentDevices]
    <3>1. /\ spine'.at = "queue" /\ spine'.index = spine.index
          /\ spine'.devices = currentDevices
          /\ spine'.pending = spine.pending /\ spine'.taken = spine.taken
      BY <2>4 DEF TypeInv, Spine
    <3>2. notBefore(currentDevices, spine.index)
      BY <2>1, SessionTypes DEF notBefore
    <3> QED BY <1>3, <2>1, <3>1, <3>2
  <2> QED BY <2>2, <2>3, <2>4
<1>6. CASE EnqueueSPINERefresh
  <2> DEFINE done == [spine EXCEPT !.at = "idle", !.kind = "change",
                                   !.index = 0, !.devices = 0]
             r == [index |-> spine.index, devices |-> spine.devices]
  <2>1. /\ done \in Spine /\ done.at = "idle"
        /\ done.pending = spine.pending /\ done.taken = spine.taken
    <3>1. 0 \in 0..MaxConnections
      BY RuntimeAssumption
    <3> QED BY <3>1 DEF TypeInv, Spine
  <2>2. r.index = spine.index /\ r.devices = spine.devices
    OBVIOUS
  <2>3. notBefore(r.devices, r.index)
    BY <1>6, <2>2 DEF EnqueueSPINERefresh, SessionInv
  <2>4. spine' = done \/ spine' = [done EXCEPT !.wake = TRUE, !.pending = r]
    BY <1>6, Zenon DEF EnqueueSPINERefresh
  <2> HIDE DEF done, r
  <2>5. /\ spine'.at = "idle" /\ spine'.taken = spine.taken
        /\ spine'.pending = spine.pending \/ spine'.pending = r
    BY <2>1, <2>4 DEF Spine
  <2> QED BY <1>1, <1>2, <2>3, <2>5 DEF SessionInv
<1> QED BY <1>4, <1>5, <1>6 DEF EventStep

LEMMA SessionWorker ==
    ASSUME TypeInv, SessionInv, WorkerStep
    PROVE  SessionInv'
<1>1. UNCHANGED <<peer, hub>>
  BY DEF WorkerStep, WorkerTakes, UpdateRemoteFromSPINEEvent, WorkerEnds
<1>2. DueInv' /\ dueConnected' = dueConnected /\ recording' = recording
  BY <1>1 DEF SessionInv, DueInv, dueConnected, recording
<1>3. CASE WorkerTakes
  <2>1. /\ spine'.at = spine.at /\ spine'.index = spine.index
        /\ spine'.devices = spine.devices /\ spine'.pending = None
        /\ spine'.taken = spine.pending /\ UNCHANGED h
    BY <1>3 DEF WorkerTakes, TypeInv, Spine
  <2> QED BY <1>1, <1>2, <2>1 DEF SessionInv
<1>4. CASE UpdateRemoteFromSPINEEvent
  <2> DEFINE o == [h.obs EXCEPT !.devices = spine.taken.devices]
  <2>1. /\ spine'.at = spine.at /\ spine'.index = spine.index
        /\ spine'.devices = spine.devices
        /\ spine'.pending = spine.pending /\ spine'.taken = None
        /\ spine.taken # None
    BY <1>4 DEF UpdateRemoteFromSPINEEvent, TypeInv, Spine
  <2>2. \/ h' = h
        \/ /\ h' = [h EXCEPT !.obs = o, !.rev = @ + 1]
           /\ h.obs.index = spine.taken.index
    BY <1>4, Zenon DEF UpdateRemoteFromSPINEEvent, updateRemote, inSession
  <2>3. o.index = h.obs.index /\ o.devices = spine.taken.devices
    BY DEF TypeInv, Handler, Observation
  <2> HIDE DEF o
  <2>4. CASE h' = h
    BY <1>1, <1>2, <2>1, <2>4 DEF SessionInv
  <2>5. CASE /\ h' = [h EXCEPT !.obs = o, !.rev = @ + 1]
             /\ h.obs.index = spine.taken.index
    <3>1. h'.obs = o
      BY <2>5 DEF TypeInv, Handler
    <3>2. notBefore(o.devices, o.index)
      BY <2>1, <2>3, <2>5 DEF SessionInv
    <3> QED BY <1>1, <1>2, <2>1, <2>3, <3>1, <3>2 DEF SessionInv
  <2> QED BY <2>2, <2>4, <2>5
<1>5. CASE WorkerEnds
  <2>1. /\ spine'.at = spine.at /\ spine'.index = spine.index
        /\ spine'.devices = spine.devices
        /\ spine'.pending = spine.pending /\ spine'.taken = spine.taken
        /\ UNCHANGED h
    BY <1>5 DEF WorkerEnds, TypeInv, Spine
  <2> QED BY <1>1, <1>2, <2>1 DEF SessionInv
<1> QED BY <1>3, <1>4, <1>5 DEF WorkerStep

\* What SPINE has noted, when no more is noted and no session changes.
LEMMA SessionFrame ==
    ASSUME SessionInv, UNCHANGED <<peer, hub>>, h'.obs = h.obs,
           spine'.at \in {spine.at, "idle"}, spine'.index = spine.index,
           spine'.devices = spine.devices,
           spine'.pending \in {spine.pending, None},
           spine'.taken = spine.taken
    PROVE  SessionInv'
<1>1. DueInv' /\ dueConnected' = dueConnected /\ recording' = recording
  BY DEF SessionInv, DueInv, dueConnected, recording
<1> QED BY <1>1 DEF SessionInv

LEMMA SessionStage ==
    ASSUME TypeInv, SessionInv, NEW c \in Starters, AcquireStage(c)
    PROVE  SessionInv'
<1> DEFINE k == Cardinality(held) + 1
           inits == [inactive EXCEPT !.active = TRUE, !.worker = "idle"]
<1>1. CASE Stages[k] = "spine"
  <2>1. UNCHANGED <<h, hub, peer>> /\ spine' = inits
    BY <1>1 DEF AcquireStage
  <2>2. inits.at = "idle" /\ inits.pending = None /\ inits.taken = None
    BY DEF inactive
  <2>3. DueInv' /\ dueConnected' = dueConnected /\ recording' = recording
    BY <2>1 DEF SessionInv, DueInv, dueConnected, recording
  <2> QED BY <2>1, <2>2, <2>3 DEF SessionInv
<1>2. CASE Stages[k] = "service"
  <2>1. UNCHANGED spine /\ h' = newHandler /\ hub' = None
        /\ peer' = [peer EXCEPT !.up = FALSE, !.device = FALSE, !.due = <<>>,
                                !.events = <<>>]
    BY <1>2 DEF AcquireStage
  <2>2. peer'.n = peer.n /\ Len(peer'.due) = 0
    BY <2>1 DEF TypeInv, Peer
  <2>3. h'.obs.index = 0 /\ h'.obs.devices = 0
    BY <2>1 DEF newHandler, absent
  <2>4. DueInv' /\ dueConnected' = 0 /\ recording' = 0
    BY <2>1, <2>2 DEF DueInv, dueConnected, recording
  <2> QED BY <2>1, <2>2, <2>3, <2>4, SessionTypes DEF SessionInv, notBefore
<1>3. CASE Stages[k] \notin {"spine", "service"}
  <2>1. UNCHANGED <<h, hub, peer, spine>>
    BY <1>3 DEF AcquireStage
  <2> QED BY <2>1, SessionFrame
<1> QED BY <1>1, <1>2, <1>3

LEMMA NextSession ==
    ASSUME TypeInv, SessionInv, Next
    PROVE  SessionInv'
<1>1. ASSUME UNCHANGED <<peer, hub, h, spine>> PROVE SessionInv'
  BY <1>1, SessionFrame
<1>2. ASSUME NEW c \in Starters, StartStep(c) PROVE SessionInv'
  <2>1. CASE AcquireFails(c)
    <3>1. UNCHANGED <<peer, hub, h>> /\ spine' = inactive
      BY <2>1 DEF AcquireFails
    <3>2. DueInv' /\ dueConnected' = dueConnected /\ recording' = recording
      BY <3>1 DEF SessionInv, DueInv, dueConnected, recording
    <3> QED BY <3>1, <3>2 DEF SessionInv, inactive
  <2> QED BY <1>1, <1>2, <2>1, SessionStage
          DEF StartStep, Start, CancelStart, WaitReturns, AcquireReturns,
              Discarded, handling
<1>3. ASSUME NEW c \in Stoppers, StopStep(c) PROVE SessionInv'
  BY <1>1, <1>3 DEF StopStep, Shutdown, ShutdownCloses, ShutdownReturns,
                    ShutdownWaited, handling
<1>4. ASSUME RunStep PROVE SessionInv'
  <2>1. CASE RunStops
    <3>1. UNCHANGED <<peer, hub, spine>> /\ h'.obs = h.obs
      BY <2>1 DEF RunStops, TypeInv, Handler
    <3> QED BY <3>1, SessionFrame
  <2> QED BY <1>1, <1>4, <2>1
          DEF RunStep, RunClaims, RunSelects, RunBackendEnds, handling
<1>5. ASSUME CloseStep PROVE SessionInv'
  <2>1. CASE CloseDeactivates
    <3>1. /\ UNCHANGED <<peer, hub, h>>
          /\ spine'.at = spine.at /\ spine'.index = spine.index
          /\ spine'.devices = spine.devices
          /\ spine'.pending = None /\ spine'.taken = spine.taken
      BY <2>1 DEF CloseDeactivates, TypeInv, Spine
    <3> QED BY <3>1, SessionFrame
  <2> QED BY <1>1, <1>5, <2>1
          DEF CloseStep, CloseDrains, CloseStops, CloseDenies, CloseReturns,
              handling
<1>6. ASSUME VisibleRemoteServicesUpdated PROVE SessionInv'
  <2> DEFINE o == [h.obs EXCEPT !.visible = ~@,
                       !.state = IF @ = "absent" THEN "none" ELSE @]
  <2>1. /\ UNCHANGED <<peer, hub, spine>>
        /\ h' = [h EXCEPT !.obs = o, !.rev = @ + 1]
    BY <1>6 DEF VisibleRemoteServicesUpdated, updateRemote
  <2>2. o.index = h.obs.index /\ o.devices = h.obs.devices
    BY DEF TypeInv, Handler, Observation
  <2> HIDE DEF o
  <2>3. h'.obs = o
    BY <2>1 DEF TypeInv, Handler
  <2>4. DueInv' /\ dueConnected' = dueConnected /\ recording' = recording
    BY <2>1 DEF SessionInv, DueInv, dueConnected, recording
  <2> QED BY <2>1, <2>2, <2>3, <2>4 DEF SessionInv
<1>7. ASSUME NotifyTrustAdminProjection \/ QuarantineSilently
      PROVE  SessionInv'
  BY <1>1, <1>7 DEF NotifyTrustAdminProjection, QuarantineSilently
<1>8. ASSUME NEW t \in Publishers, PublishStep(t) PROVE SessionInv'
  <2>1. CASE Publish(t)
    <3> DEFINE revs == [trust |-> pub[t].trust.rev,
                        runtime |-> pub[t].runtime]
    <3>1. /\ UNCHANGED <<peer, hub, spine>>
          /\ h' = h \/ h' = [h EXCEPT !.published = revs]
      BY <2>1, Zenon DEF Publish
    <3> HIDE DEF revs
    <3>2. h'.obs = h.obs
      BY <3>1 DEF TypeInv, Handler
    <3> QED BY <3>1, <3>2, SessionFrame
  <2> QED BY <1>1, <1>8, <2>1 DEF PublishStep, TakeGraph
<1> QED BY <1>2, <1>3, <1>4, <1>5, <1>6, <1>7, <1>8, SessionPeer, SessionHub,
           SessionEvent, SessionWorker DEF Next

-----------------------------------------------------------------------------
(* Publication.  Whoever changes the observation or the projection         *)
(* publishes with the newest revision of the one and, taken later, of the  *)
(* other; a publication that carries both is not dropped.                  *)

\* A projection that was captured: an older one, or the current one as it was
\* announced or as it is.
told(p) == /\ p.rev <= trust.rev
           /\ p.rev = trust.rev => p.state \in {trust.last, trust.state}

\* Publisher t publishes what is current, unless somebody else will.
carries(t) == /\ pub[t].at # "idle" /\ pub[t].trust.rev = trust.rev
              /\ pub[t].at = "publish" => pub[t].runtime = h.rev
carried == \E t \in Publishers : carries(t)

\* Snapshot s is current, and nothing newer was published.
shows(s) == /\ s # None /\ s.runtime = h.rev /\ s.trust.rev = trust.rev
            /\ h.published.trust = trust.rev /\ h.published.runtime = h.rev

\* From the service stage on the revisions are those of this backend.
counted == be.publisher \/ "service" \in held

PublisherInv(t) ==
    pub[t].at # "idle" =>
        /\ told(pub[t].trust)
        /\ pub[t].at = "publish" => pub[t].runtime <= h.rev

RevisionInv ==
    /\ trust.rev >= 1
    /\ \/ trust.state = trust.last
       \/ trust.state = "denied" /\ trust.last = "paired"
    /\ counted => /\ h.published.trust <= trust.rev
                  /\ h.published.runtime <= h.rev
                  /\ \A t \in Publishers : PublisherInv(t)

SnapshotInv ==
    /\ be.publisher => rt.backend
    /\ ~be.publisher => rt.snapshot = None /\ be.terminal = None
    /\ rt.snapshot # None => told(rt.snapshot.trust)
    /\ be.terminal # None => told(be.terminal.trust)

CurrentInv ==
    be.publisher /\ ~rt.shutdown /\ ~rt.workerErr
    => carried \/ shows(rt.snapshot)

\* The coordinator has withdrawn its trust.
withdrawn == be.publisher /\ be.close \in {"denied", "closed"}
             /\ ghost.atClose # "denied"

DeniedInv ==
    /\ withdrawn => /\ trust.state = "denied" /\ trust.last = "denied"
                    /\ carried \/ shows(be.terminal)
    /\ rt.frozen => rt.completion = "closed" /\ rt.snapshot # None
    /\ TerminalDenies

PublicationInv == RevisionInv /\ SnapshotInv /\ CurrentInv /\ DeniedInv

LEMMA InitPublication == Init => PublicationInv
BY DEF Init, PublicationInv, RevisionInv, SnapshotInv, CurrentInv, DeniedInv,
       TerminalDenies, withdrawn, counted, newBackend

LEMMA PublicationShows ==
    ASSUME TypeInv, SessionInv, PublicationInv
    PROVE  PublishedCurrent
<1>1. h.obs.devices > 0 => h.obs.devices >= h.obs.index
  BY DEF SessionInv, notBefore
<1>2. ASSUME quiet, be.publisher, ~rt.shutdown, ~rt.workerErr,
             trust.state = trust.last
      PROVE  /\ rt.snapshot # None
             /\ rt.snapshot.runtime = h.rev
             /\ rt.snapshot.trust.state = trust.state
  <2>1. ~carried
    BY <1>2 DEF quiet, carried, carries
  <2>2. shows(rt.snapshot)
    BY <1>2, <2>1 DEF PublicationInv, CurrentInv
  <2>3. told(rt.snapshot.trust)
    BY <2>2 DEF PublicationInv, SnapshotInv, shows
  <2> QED BY <1>2, <2>2, <2>3 DEF shows, told
<1> QED BY <1>1, <1>2 DEF PublishedCurrent

\* Steps that have nothing to do with publication: they may end the backend's
\* service, fail it or begin its shutdown.
LEMMA PublicationFrame ==
    ASSUME PublicationInv, UNCHANGED <<pub, trust>>,
           ghost'.late = ghost.late, ghost'.invalid = ghost.invalid,
           \/ ghost'.atClose = ghost.atClose
           \/ ~rt.frozen /\ (~be.publisher \/ ghost'.atClose = "denied"),
           h'.rev = h.rev, h'.published = h.published,
           be'.publisher = be.publisher, be'.terminal = be.terminal,
           be'.close \in {"denied", "closed"} =>
               \/ be.close \in {"denied", "closed"} \/ ~be.publisher
               \/ ghost'.atClose = "denied",
           rt'.snapshot = rt.snapshot, rt'.frozen = rt.frozen,
           rt.shutdown => rt'.shutdown, rt.workerErr => rt'.workerErr,
           rt.backend => rt'.backend,
           rt.completion = "closed" => rt'.completion = "closed",
           "service" \in held' => "service" \in held
    PROVE  PublicationInv'
<1>1. \A t \in Publishers :
        /\ PublisherInv(t) => PublisherInv(t)'
        /\ carries(t) => carries(t)'
  BY DEF PublisherInv, told, carries
<1>2. RevisionInv'
  BY <1>1 DEF PublicationInv, RevisionInv, counted
<1>3. SnapshotInv'
  BY DEF PublicationInv, SnapshotInv, told
<1>4. carried => carried'
  BY <1>1 DEF carried
<1>5. CurrentInv'
  BY <1>4 DEF PublicationInv, CurrentInv, shows
<1>6. DeniedInv'
  BY <1>4 DEF PublicationInv, DeniedInv, withdrawn, shows, TerminalDenies
<1> QED BY <1>2, <1>3, <1>5, <1>6 DEF PublicationInv

\* A publisher sets out with the current projection, whether the observation
\* has changed or not.
LEMMA PublicationSetsOut ==
    ASSUME TypeInv, PublicationInv, NEW t \in Publishers, publishing(t),
           UNCHANGED <<trust, rt>>, h'.rev \in {h.rev, h.rev + 1},
           h'.published = h.published,
           be'.close = be.close, be'.terminal = be.terminal,
           be.publisher => be'.publisher, be'.publisher => rt.backend,
           counted' => counted,
           withdrawn' => withdrawn,
           ghost'.atClose = ghost.atClose, ghost'.late = ghost.late,
           ghost'.invalid = ghost.invalid
    PROVE  PublicationInv'
<1>1. /\ pub'[t].at = "graph" /\ pub'[t].trust.rev = trust.rev
      /\ pub'[t].trust.state = trust.state
      /\ \A u \in Publishers \ {t} : pub'[u] = pub[u]
  BY DEF publishing, TypeInv, Publication
<1>2. h.rev <= h'.rev /\ h.rev \in Nat /\ h'.rev \in Nat
  BY DEF TypeInv, Handler
<1>3. trust.rev \in Nat
  BY DEF TypeInv, Trust
<1>4. carries(t)' /\ carried'
  BY <1>1 DEF carries, carried
<1>5. ASSUME counted PROVE RevisionInv'
  <2>1. PublisherInv(t)'
    BY <1>1, <1>3 DEF PublisherInv, told
  <2>2. ASSUME NEW u \in Publishers \ {t} PROVE PublisherInv(u)'
    <3>1. PublisherInv(u) /\ pub[u].runtime \in Nat
      BY <1>5 DEF PublicationInv, RevisionInv, TypeInv, Publication
    <3> QED BY <1>1, <1>2, <3>1 DEF PublisherInv, told
  <2>3. h.published.runtime \in Nat
    BY DEF TypeInv, Handler, Revisions
  <2> QED BY <1>2, <1>5, <2>1, <2>2, <2>3 DEF PublicationInv, RevisionInv
<1>6. RevisionInv'
  BY <1>5 DEF PublicationInv, RevisionInv
<1>7. SnapshotInv'
  BY DEF PublicationInv, SnapshotInv, told
<1>8. CurrentInv' /\ DeniedInv'
  BY <1>4 DEF PublicationInv, CurrentInv, DeniedInv, withdrawn,
              TerminalDenies
<1> QED BY <1>6, <1>7, <1>8 DEF PublicationInv

\* The coordinator announces a projection, and its publisher t sets out.
LEMMA PublicationAnnounces ==
    ASSUME TypeInv, PublicationInv, NEW t \in Publishers, NEW s,
           trust' = [state |-> s, rev |-> trust.rev + 1, last |-> s],
           pub' = [pub EXCEPT ![t] =
                     [@ EXCEPT !.at = "graph",
                               !.trust = [rev |-> trust.rev + 1, state |-> s]]],
           UNCHANGED <<h, rt, held>>, be'.publisher = be.publisher,
           be'.terminal = be.terminal,
           withdrawn' => s = "denied",
           rt.frozen => ghost'.atClose = ghost.atClose,
           ghost'.late = ghost.late, ghost'.invalid = ghost.invalid
    PROVE  PublicationInv'
<1> DEFINE p == [rev |-> trust.rev + 1, state |-> s]
<1>1. [pub[t] EXCEPT !.at = "graph", !.trust = p].at = "graph"
      /\ [pub[t] EXCEPT !.at = "graph", !.trust = p].trust = p
  BY DEF TypeInv, Publication
<1>2. /\ pub'[t].at = "graph" /\ pub'[t].trust = p
      /\ \A u \in Publishers \ {t} : pub'[u] = pub[u]
  BY <1>1 DEF TypeInv
<1>3. p.rev = trust.rev + 1 /\ p.state = s
  OBVIOUS
<1> HIDE DEF p
<1>4. /\ trust.rev \in Nat /\ trust'.rev = trust.rev + 1
      /\ trust'.state = s /\ trust'.last = s
  BY DEF TypeInv, Trust
<1>5. ASSUME NEW q \in Projection, told(q)
      PROVE  told(q)'
  BY <1>4, <1>5 DEF told, Projection
<1>6. carried'
  BY <1>2, <1>3, <1>4 DEF carries, carried
<1>7. ASSUME counted PROVE RevisionInv'
  <2>1. PublisherInv(t)'
    BY <1>2, <1>3, <1>4 DEF PublisherInv, told
  <2>2. ASSUME NEW u \in Publishers \ {t} PROVE PublisherInv(u)'
    <3>1. PublisherInv(u) /\ pub[u].trust \in Projection
      BY <1>7 DEF PublicationInv, RevisionInv, TypeInv, Publication
    <3> QED BY <1>2, <1>5, <3>1 DEF PublisherInv
  <2>3. h.published.trust <= trust'.rev
    BY <1>4, <1>7 DEF PublicationInv, RevisionInv, TypeInv, Handler, Revisions
  <2> QED BY <1>4, <1>7, <2>1, <2>2, <2>3
          DEF PublicationInv, RevisionInv, counted
<1>8. RevisionInv'
  BY <1>4, <1>7 DEF PublicationInv, RevisionInv, counted
<1>9. SnapshotInv'
  <2>1. rt.snapshot # None => rt.snapshot.trust \in Projection
    BY DEF TypeInv, State, Snapshot
  <2>2. be.terminal # None => be.terminal.trust \in Projection
    BY DEF TypeInv, Backend, Snapshot
  <2> QED BY <1>5, <2>1, <2>2 DEF PublicationInv, SnapshotInv
<1>10. CurrentInv' /\ DeniedInv'
  BY <1>4, <1>6 DEF PublicationInv, CurrentInv, DeniedInv, TerminalDenies
<1> QED BY <1>8, <1>9, <1>10 DEF PublicationInv

LEMMA PublicationTakesGraph ==
    ASSUME TypeInv, PublicationInv, NEW t \in Publishers, TakeGraph(t)
    PROVE  PublicationInv'
<1>1. /\ pub[t].at = "graph" /\ pub'[t].at = "publish"
      /\ pub'[t].runtime = h.rev /\ pub'[t].trust = pub[t].trust
      /\ \A u \in Publishers \ {t} : pub'[u] = pub[u]
  BY DEF TakeGraph, TypeInv, Publication
<1>2. UNCHANGED <<start, stop, rt, held, be, h, trust, ghost>>
  BY DEF TakeGraph, lifecycle
<1>3. h.rev \in Nat
  BY DEF TypeInv, Handler
<1>4. \A u \in Publishers :
        /\ PublisherInv(u) => PublisherInv(u)'
        /\ carries(u) => carries(u)'
  BY <1>1, <1>2, <1>3 DEF PublisherInv, told, carries
<1>5. carried => carried'
  BY <1>4 DEF carried
<1>6. RevisionInv' /\ SnapshotInv'
  BY <1>2, <1>4 DEF PublicationInv, RevisionInv, SnapshotInv, counted, told
<1>7. CurrentInv' /\ DeniedInv'
  BY <1>2, <1>5 DEF PublicationInv, CurrentInv, DeniedInv, withdrawn, shows,
                    TerminalDenies
<1> QED BY <1>6, <1>7 DEF PublicationInv

\* What publisher t had is dropped, or published.
LEMMA PublicationPublishes ==
    ASSUME TypeInv, LifeInv, PublicationInv, NEW t \in Publishers, Publish(t)
    PROVE  PublicationInv'
<1> DEFINE p == pub[t]
           snapshot == [runtime |-> p.runtime, trust |-> p.trust]
           revs == [trust |-> p.trust.rev, runtime |-> p.runtime]
           current == /\ snapshot # None /\ snapshot.runtime = h'.rev
                      /\ snapshot.trust.rev = trust'.rev
                      /\ h'.published.trust = trust'.rev
                      /\ h'.published.runtime = h'.rev
<1>1. /\ p.at = "publish" /\ pub' = [pub EXCEPT ![t] = silent]
      /\ UNCHANGED <<held, trust>>
  BY DEF Publish
<1>2. pub'[t].at = "idle" /\ \A u \in Publishers \ {t} : pub'[u] = pub[u]
  BY <1>1 DEF TypeInv, silent
<1>3. /\ p.trust.rev \in Nat /\ p.runtime \in Nat /\ trust.rev \in Nat
      /\ h.rev \in Nat /\ h.published.trust \in Nat
      /\ h.published.runtime \in Nat
  BY DEF TypeInv, Publication, Projection, Handler, Revisions, Trust
<1>4. /\ snapshot.runtime = p.runtime /\ snapshot.trust = p.trust
      /\ revs.trust = p.trust.rev /\ revs.runtime = p.runtime
      /\ snapshot \in Snapshot
  BY DEF TypeInv, Publication, Snapshot
<1>5. snapshot # None
  BY <1>4, RuntimeAssumption
<1>6. counted => told(p.trust) /\ p.runtime <= h.rev
  BY <1>1 DEF PublicationInv, RevisionInv, PublisherInv
<1>7. /\ \A u \in Publishers : h'.rev = h.rev /\ carries(u) /\ u # t => carries(u)'
      /\ \A u \in Publishers : h'.rev = h.rev /\ PublisherInv(u) => PublisherInv(u)'
  BY <1>1, <1>2 DEF carries, PublisherInv, told
<1>8. CASE overtaken(p) /\ UNCHANGED <<h, rt, be, ghost>>
  <2>1. counted => ~carries(t)
    BY <1>1, <1>3, <1>8 DEF overtaken, carries, PublicationInv, RevisionInv
  <2>2. counted /\ carried => carried'
    BY <1>7, <1>8, <2>1 DEF carried
  <2>3. be.publisher => counted
    BY DEF counted
  <2>4. RevisionInv' /\ SnapshotInv'
    BY <1>1, <1>7, <1>8 DEF PublicationInv, RevisionInv, SnapshotInv, counted,
                            told
  <2>5. CurrentInv' /\ DeniedInv'
    BY <1>1, <1>8, <2>2, <2>3 DEF PublicationInv, CurrentInv, DeniedInv,
                                  withdrawn, shows, TerminalDenies
  <2> QED BY <2>4, <2>5 DEF PublicationInv
<1>9. CASE /\ ~overtaken(p) /\ h' = [h EXCEPT !.published = revs]
           /\ be' = captured(snapshot)
           /\ \/ /\ rt' = IF be.publisher THEN accepted(snapshot) ELSE rt
                 /\ UNCHANGED ghost
              \/ /\ be.publisher /\ rt' = refused
                 /\ ghost' = [ghost EXCEPT !.invalid = TRUE]
  <2>1. h'.rev = h.rev /\ h'.published = revs
    BY <1>9 DEF TypeInv, Handler
  <2>2. p.trust.rev >= h.published.trust /\ p.runtime >= h.published.runtime
    BY <1>3, <1>9 DEF overtaken
  <2>3. /\ be'.close = be.close /\ be'.publisher = be.publisher
        /\ be'.terminal = IF be.publisher /\ be.close # "open"
                          THEN snapshot ELSE be.terminal
    BY <1>9 DEF captured, TypeInv, Backend
  <2>4. /\ rt'.backend = rt.backend /\ rt'.shutdown = rt.shutdown
        /\ rt'.frozen = rt.frozen /\ rt'.completion = rt.completion
        /\ rt'.snapshot = rt.snapshot \/ (rt'.snapshot = snapshot /\ be.publisher)
        /\ rt.shutdown => rt'.snapshot = rt.snapshot
        /\ be.publisher /\ ~rt'.shutdown /\ ~rt'.workerErr =>
             rt'.snapshot = snapshot /\ ~rt.workerErr
    <3>1. CASE rt' = rt /\ (be.publisher => rt.shutdown \/ rt.workerErr)
      BY <3>1
    <3>2. CASE /\ rt' = [rt EXCEPT !.snapshot = snapshot] /\ be.publisher
               /\ ~rt.shutdown /\ ~rt.workerErr
      BY <3>2 DEF TypeInv, State
    <3>3. CASE /\ ~rt.shutdown
               /\ rt' = [rt EXCEPT !.workerErr = TRUE, !.started = FALSE,
                                   !.cancelled = TRUE]
      BY <3>3 DEF TypeInv, State
    <3> QED BY <1>9, <3>1, <3>2, <3>3, Zenon DEF accepted, refused
  <2>5. /\ ghost'.atClose = ghost.atClose /\ ghost'.late = ghost.late
        /\ ghost.invalid => ghost'.invalid
    BY <1>9 DEF TypeInv, Ghost
  <2> HIDE DEF snapshot, revs, p
  <2>6. RevisionInv'
    BY <1>1, <1>4, <1>6, <1>7, <2>1, <2>3
       DEF PublicationInv, RevisionInv, counted, told
  <2>7. SnapshotInv'
    BY <1>1, <1>4, <1>6, <2>3, <2>4
       DEF PublicationInv, SnapshotInv, counted, told
  <2>8. ASSUME NEW s, be.publisher, carried \/ shows(s)
        PROVE  carried' \/ current
    <3>1. CASE \E u \in Publishers \ {t} : carries(u)
      BY <1>7, <2>1, <3>1 DEF carried
    <3>2. CASE carries(t)
      BY <1>1, <1>4, <1>5, <2>1, <3>2 DEF carries, p
    <3>3. CASE shows(s)
      <4>1. p.trust.rev = trust.rev /\ p.runtime = h.rev
        BY <1>3, <1>6, <2>2, <2>8, <3>3 DEF shows, counted, told
      <4> QED BY <1>1, <1>4, <1>5, <2>1, <4>1
    <3> HIDE DEF current
    <3> QED BY <2>8, <3>1, <3>2, <3>3 DEF carried
  <2>9. CurrentInv'
    BY <2>3, <2>4, <2>8 DEF PublicationInv, CurrentInv, shows
  <2>10. DeniedInv'
    <3>1. ASSUME withdrawn'
          PROVE  /\ trust'.state = "denied" /\ trust'.last = "denied"
                 /\ carried' \/ shows(be.terminal)'
      <4>1. withdrawn /\ be'.terminal = snapshot /\ be.publisher
        BY <2>3, <2>5, <3>1 DEF withdrawn
      <4>2. carried' \/ current
        BY <2>8, <4>1 DEF PublicationInv, DeniedInv
      <4> QED BY <1>1, <4>1, <4>2 DEF PublicationInv, DeniedInv, shows
    <3>2. ASSUME rt.frozen PROVE rt.shutdown
      BY <3>2 DEF PublicationInv, DeniedInv, LifeInv, StopInv
    <3> QED BY <2>4, <2>5, <3>1, <3>2
            DEF PublicationInv, DeniedInv, TerminalDenies
  <2> QED BY <2>6, <2>7, <2>9, <2>10 DEF PublicationInv
<1> QED BY <1>8, <1>9, Zenon DEF Publish

\* While a backend is being acquired nothing is published.
LEMMA NoPublisherYet ==
    ASSUME TypeInv, LifeInv, PublicationInv, ~rt.backend,
           ~rt.shutdown \/ rt.starting # None
    PROVE  /\ ~be.publisher /\ rt.snapshot = None /\ be.terminal = None
           /\ ~rt.frozen
BY DEF LifeInv, StopInv, PublicationInv, SnapshotInv, DeniedInv, TypeInv, State

LEMMA PublicationStart ==
    ASSUME TypeInv, LifeInv, PublicationInv, NEW c \in Starters, Start(c)
    PROVE  PublicationInv'
<1>1. UNCHANGED <<pub, trust, h, held>>
  BY DEF Start, handling
<1>2. CASE UNCHANGED <<rt, be, ghost>>
  BY <1>1, <1>2, PublicationFrame
<1>3. CASE /\ ~rt.shutdown /\ ~rt.workerErr /\ ~rt.started
           /\ rt' = [rt EXCEPT !.starting = c] /\ be' = newBackend
           /\ ghost' = [ghost EXCEPT !.atClose = None]
  <2>1. ~rt.backend
    BY <1>3 DEF LifeInv, AttemptInv
  <2>2. /\ ~be.publisher /\ be.terminal = None /\ ~rt.frozen
    BY <1>3, <2>1, NoPublisherYet
  <2>3. /\ ~be'.publisher /\ be'.terminal = None /\ be'.close = "open"
    BY <1>3 DEF newBackend
  <2>4. /\ rt'.snapshot = rt.snapshot /\ rt'.frozen = rt.frozen
        /\ rt'.shutdown = rt.shutdown /\ rt'.workerErr = rt.workerErr
        /\ rt'.backend = rt.backend /\ rt'.completion = rt.completion
    BY <1>3 DEF TypeInv, State
  <2>5. ghost'.late = ghost.late /\ ghost'.invalid = ghost.invalid
    BY <1>3 DEF TypeInv, Ghost
  <2>6. be'.publisher = be.publisher
    <3>1. be.publisher \in BOOLEAN
      BY DEF TypeInv, Backend
    <3>2. be'.publisher = FALSE
      BY <1>3 DEF newBackend
    <3> QED BY <2>2, <3>1, <3>2, Zenon
  <2> QED BY <1>1, <2>2, <2>3, <2>4, <2>5, <2>6, PublicationFrame
<1> QED BY <1>2, <1>3, Zenon DEF Start

LEMMA PublicationStage ==
    ASSUME TypeInv, LifeInv, PublicationInv, NEW c \in Starters,
           AcquireStage(c)
    PROVE  PublicationInv'
<1> DEFINE k == Cardinality(held) + 1
<1>1. start[c].at = "acquire" /\ k <= Len(Stages)
      /\ held' = held \cup {Stages[k]} /\ UNCHANGED <<rt, be, ghost>>
  BY DEF AcquireStage
<1>2. rt.starting = c /\ c # None
  BY <1>1, RuntimeAssumption DEF LifeInv, AttemptInv, underWay
<1>3. ~rt.backend
  BY <1>2 DEF LifeInv, AttemptInv
<1>4. ~be.publisher /\ rt.snapshot = None /\ be.terminal = None /\ ~rt.frozen
  BY <1>2, <1>3, NoPublisherYet
<1>5. held \in Opened
  BY <1>1 DEF LifeInv, HeldInv
<1>6. Len(Stages) = 5
  BY DEF Stages
<1>7. held # Resources
  BY <1>1, <1>5, <1>6, StageAfter
<1>8. /\ Stages[k] = "trust" <=> held = {}
      /\ Stages[k] = "service" <=> held = {"trust"}
  BY <1>5, <1>7, StageAfter
<1>9. RevisionInv'
  <2>1. CASE Stages[k] = "trust"
    <3>1. trust' = [trust EXCEPT !.rev = 1, !.last = trust.state]
      BY <2>1 DEF AcquireStage
    <3>2. trust'.rev = 1 /\ trust'.last = trust'.state
      BY <3>1 DEF TypeInv, Trust
    <3>3. ~counted'
      BY <1>1, <1>4, <1>8, <2>1 DEF counted
    <3> QED BY <3>2, <3>3 DEF RevisionInv
  <2>2. CASE Stages[k] = "service"
    <3>1. trust' = trust /\ h' = newHandler /\ pub' = [t \in Publishers |-> silent]
      BY <2>2 DEF AcquireStage
    <3>2. h'.published.trust = 1 /\ h'.published.runtime = 0 /\ h'.rev = 0
      BY <3>1 DEF newHandler
    <3>3. \A t \in Publishers : pub'[t].at = "idle"
      BY <3>1 DEF silent
    <3>4. \A t \in Publishers : PublisherInv(t)'
      BY <3>3 DEF PublisherInv
    <3> QED BY <3>1, <3>2, <3>4 DEF PublicationInv, RevisionInv
  <2>3. CASE Stages[k] \notin {"trust", "service"}
    <3>1. UNCHANGED <<trust, h, pub>>
      BY <2>3 DEF AcquireStage
    <3>2. counted' => counted
      BY <1>1, <2>3 DEF counted
    <3> QED BY <3>1, <3>2 DEF PublicationInv, RevisionInv, PublisherInv, told
  <2> QED BY <2>1, <2>2, <2>3
<1>10. SnapshotInv' /\ CurrentInv'
  BY <1>1, <1>4 DEF SnapshotInv, CurrentInv
<1>11. DeniedInv'
  BY <1>1, <1>4 DEF DeniedInv, withdrawn, TerminalDenies
<1> QED BY <1>9, <1>10, <1>11 DEF PublicationInv

\* The other steps of Start.
LEMMA PublicationAcquired ==
    ASSUME TypeInv, LifeInv, PublicationInv, NEW c \in Starters,
           \/ CancelStart(c) \/ WaitReturns(c) \/ AcquireFails(c)
           \/ AcquireReturns(c) \/ Discarded(c)
    PROVE  PublicationInv'
<1>1. UNCHANGED <<pub, trust, h, ghost>>
  BY Zenon DEF CancelStart, WaitReturns, AcquireFails, AcquireReturns,
               Discarded, handling
<1>2. held' \subseteq held
  BY DEF CancelStart, WaitReturns, AcquireFails, AcquireReturns, Discarded
<1>3. be' = be \/ be' = [be EXCEPT !.close = "closing"]
  BY Zenon DEF CancelStart, WaitReturns, AcquireFails, AcquireReturns, Discarded
<1>4. \/ rt' = rt \/ rt' = [rt EXCEPT !.starting = None]
      \/ rt' = [rt EXCEPT !.starting = None, !.backend = TRUE]
      \/ rt' = [rt EXCEPT !.starting = None, !.backend = TRUE,
                          !.started = TRUE, !.done = "open"]
  BY Zenon DEF CancelStart, WaitReturns, AcquireFails, AcquireReturns, Discarded,
               finished
<1>5. /\ be'.publisher = be.publisher /\ be'.terminal = be.terminal
      /\ be'.close \in {be.close, "closing"}
  BY <1>3 DEF TypeInv, Backend
<1>6. /\ rt'.snapshot = rt.snapshot /\ rt'.frozen = rt.frozen
      /\ rt'.shutdown = rt.shutdown /\ rt'.workerErr = rt.workerErr
      /\ rt'.completion = rt.completion
      /\ rt.backend => rt'.backend
  BY <1>4 DEF TypeInv, State
<1> QED BY <1>1, <1>2, <1>5, <1>6, PublicationFrame

LEMMA PublicationRun ==
    ASSUME TypeInv, LifeInv, PublicationInv, RunStep
    PROVE  PublicationInv'
<1>1. CASE RunClaims
  <2>1. UNCHANGED <<rt, held, h, trust, ghost>> /\ runner.at = "claim"
    BY <1>1 DEF RunClaims
  <2>2. CASE UNCHANGED <<be, pub>>
    BY <2>1, <2>2, PublicationFrame
  <2>3. CASE /\ be.close = "open" /\ be' = [be EXCEPT !.publisher = TRUE]
             /\ publishing("run")
    <3>1. be'.close = "open" /\ be'.terminal = be.terminal
      BY <2>3 DEF TypeInv, Backend
    <3>2. rt.backend
      BY <2>1 DEF LifeInv, RunnerInv
    <3>3. "service" \in held
      BY <2>3, <3>2, ResourcesAre DEF LifeInv, HeldInv, leftOpen
    <3>4. counted /\ ~withdrawn'
      BY <3>1, <3>3 DEF counted, withdrawn
    <3>5. be.publisher => be'.publisher
      BY <2>3 DEF TypeInv, Backend
    <3>6. h.rev \in Nat /\ "run" \in Publishers
      BY DEF TypeInv, Handler, Publishers
    <3> QED BY <2>1, <2>3, <3>1, <3>2, <3>4, <3>5, <3>6, PublicationSetsOut
  <2> QED BY <1>1, <2>2, <2>3, Zenon DEF RunClaims
<1>2. CASE RunSelects
  BY <1>2, PublicationFrame DEF RunSelects, handling
<1>3. CASE RunStops
  <2>1. /\ UNCHANGED <<rt, held, be, trust, pub, ghost>>
        /\ h' = h \/ h' = [h EXCEPT !.errors = FALSE]
    BY <1>3, Zenon DEF RunStops
  <2>2. h'.rev = h.rev /\ h'.published = h.published
    BY <2>1 DEF TypeInv, Handler
  <2> QED BY <2>1, <2>2, PublicationFrame
<1>4. CASE RunBackendEnds
  <2>1. UNCHANGED <<held, be, h, trust, pub, ghost>>
    BY <1>4 DEF RunBackendEnds, handling
  <2>2. /\ rt'.snapshot = rt.snapshot /\ rt'.frozen = rt.frozen
        /\ rt'.shutdown = rt.shutdown
        /\ rt.workerErr => rt'.workerErr
        /\ rt'.backend = rt.backend /\ rt'.completion = rt.completion
    BY <1>4 DEF RunBackendEnds, TypeInv, State
  <2> QED BY <2>1, <2>2, PublicationFrame
<1> QED BY <1>1, <1>2, <1>3, <1>4 DEF RunStep

\* Shutdown returns: what a closed backend has left is denied, if the last
\* publisher is done.
LEMMA PublicationFreezes ==
    ASSUME TypeInv, LifeInv, PublicationInv, NEW c \in Stoppers,
           ShutdownReturns(c)
    PROVE  PublicationInv'
<1> DEFINE terminal == IF be.terminal # None /\ ~ghost.invalid
                       THEN be.terminal ELSE rt.snapshot
<1>1. /\ stop[c].at = "close"
      /\ rt.backend => be.close = "closed"
      /\ rt' = [rt EXCEPT !.snapshot = terminal, !.frozen = terminal # None,
                          !.completion = "closed"]
      /\ ghost' = [ghost EXCEPT !.late = ~quiet]
      /\ UNCHANGED <<held, be, h, trust, pub>>
  BY DEF ShutdownReturns, handling
<1>2. rt.completion = "open" /\ rt.shutdown
  BY <1>1 DEF LifeInv, StopInv, stopping
<1>3. /\ terminal # None => told(terminal.trust)
      /\ ~be.publisher => terminal = None
  BY DEF PublicationInv, SnapshotInv
<1>4. ASSUME terminal # None, ~ghost.invalid, quiet, ghost.atClose # "denied"
      PROVE  terminal.trust.state = "denied"
  <2>1. withdrawn
    BY <1>1, <1>3, <1>4 DEF withdrawn, PublicationInv, SnapshotInv
  <2>2. ~carried
    BY <1>4 DEF quiet, carried, carries
  <2>3. /\ trust.state = "denied" /\ trust.last = "denied"
        /\ shows(be.terminal)
    BY <2>1, <2>2 DEF PublicationInv, DeniedInv
  <2>4. terminal = be.terminal
    BY <1>4, <2>3 DEF shows
  <2> HIDE DEF terminal
  <2> QED BY <1>3, <1>4, <2>3, <2>4 DEF shows, told
<1> HIDE DEF terminal
<1>5. /\ rt'.snapshot = terminal /\ rt'.frozen = (terminal # None)
      /\ rt'.completion = "closed" /\ rt'.shutdown = rt.shutdown
      /\ rt'.backend = rt.backend
  BY <1>1 DEF TypeInv, State
<1>6. /\ ghost'.late = ~quiet /\ ghost'.invalid = ghost.invalid
      /\ ghost'.atClose = ghost.atClose
  BY <1>1 DEF TypeInv, Ghost
<1>7. RevisionInv'
  BY <1>1 DEF PublicationInv, RevisionInv, PublisherInv, told, counted
<1>8. SnapshotInv'
  BY <1>1, <1>3, <1>5 DEF PublicationInv, SnapshotInv, told
<1>9. CurrentInv'
  BY <1>2, <1>5 DEF CurrentInv
<1>10. carried => carried'
  BY <1>1 DEF carried, carries
<1>11. DeniedInv'
  BY <1>1, <1>4, <1>5, <1>6, <1>10
     DEF PublicationInv, DeniedInv, withdrawn, shows, TerminalDenies
<1> QED BY <1>7, <1>8, <1>9, <1>11 DEF PublicationInv

LEMMA PublicationStops ==
    ASSUME TypeInv, LifeInv, PublicationInv, NEW c \in Stoppers, StopStep(c)
    PROVE  PublicationInv'
<1>1. CASE Shutdown(c)
  <2>1. /\ UNCHANGED <<held, be, h, trust, pub, ghost>>
        /\ \/ rt' = rt
           \/ /\ rt.completion = "none"
              /\ rt' = [rt EXCEPT !.shutdown = TRUE, !.completion = "open",
                                  !.cancelled = rt.done # "none"]
    BY <1>1, Zenon DEF Shutdown, handling
  <2>2. /\ rt'.snapshot = rt.snapshot /\ rt'.frozen = rt.frozen
        /\ rt.shutdown => rt'.shutdown
        /\ rt'.workerErr = rt.workerErr /\ rt'.backend = rt.backend
        /\ rt.completion = "closed" => rt'.completion = "closed"
    <3>1. CASE rt' = rt
      BY <3>1
    <3>2. CASE /\ rt.completion = "none"
               /\ rt' = [rt EXCEPT !.shutdown = TRUE, !.completion = "open",
                                   !.cancelled = rt.done # "none"]
      BY <3>2 DEF TypeInv, State
    <3> QED BY <2>1, <3>1, <3>2
  <2> QED BY <2>1, <2>2, PublicationFrame
<1>2. CASE ShutdownCloses(c)
  <2>1. /\ UNCHANGED <<rt, held, h, trust, pub, ghost>>
        /\ be' = be \/ be' = [be EXCEPT !.close = "closing"]
    BY <1>2, Zenon DEF ShutdownCloses, handling
  <2>2. /\ be'.publisher = be.publisher /\ be'.terminal = be.terminal
        /\ be'.close \in {be.close, "closing"}
    BY <2>1 DEF TypeInv, Backend
  <2> QED BY <2>1, <2>2, PublicationFrame
<1>3. CASE ShutdownWaited(c)
  BY <1>3, PublicationFrame DEF ShutdownWaited, handling
<1> QED BY <1>1, <1>2, <1>3, PublicationFreezes DEF StopStep

\* Shutdown returns after Close.
LEMMA ClosingNotFrozen ==
    ASSUME TypeInv, LifeInv, PublicationInv, be.close # "closed"
    PROVE  ~rt.frozen
BY DEF PublicationInv, DeniedInv, SnapshotInv, LifeInv, StopInv, TypeInv,
       State, Backend

LEMMA PublicationDenies ==
    ASSUME TypeInv, LifeInv, PublicationInv, CloseDenies
    PROVE  PublicationInv'
<1>1. /\ be.close = "stopped" /\ be' = [be EXCEPT !.close = "denied"]
      /\ ghost' = [ghost EXCEPT !.atClose = trust.last]
      /\ UNCHANGED <<rt, held, h>>
  BY DEF CloseDenies
<1>2. ~rt.frozen
  BY <1>1, ClosingNotFrozen
<1>3. /\ be'.publisher = be.publisher /\ be'.terminal = be.terminal
      /\ be'.close = "denied"
  BY <1>1 DEF TypeInv, Backend
<1>4. /\ ghost'.late = ghost.late /\ ghost'.invalid = ghost.invalid
      /\ ghost'.atClose = trust.last
  BY <1>1 DEF TypeInv, Ghost
<1>5. CASE trust.last = "denied"
  <2>1. trust' = [trust EXCEPT !.state = "denied"] /\ pub' = pub
    BY <1>5 DEF CloseDenies
  <2>2. trust.state = "denied"
    BY <1>5 DEF PublicationInv, RevisionInv
  <2>3. trust' = trust
    BY <2>1, <2>2 DEF TypeInv, Trust
  <2> QED BY <1>1, <1>2, <1>3, <1>4, <1>5, <2>1, <2>3, PublicationFrame
<1>6. CASE trust.last # "denied"
  <2>1. /\ trust' = [state |-> "denied", rev |-> trust.rev + 1,
                     last |-> "denied"]
        /\ pub' = [pub EXCEPT !["closer"] =
             [@ EXCEPT !.at = "graph",
                       !.trust = [rev |-> trust.rev + 1,
                                  state |-> "denied"]]]
    BY <1>6 DEF CloseDenies
  <2>2. "closer" \in Publishers
    BY DEF Publishers
  <2> QED BY <1>1, <1>2, <1>3, <1>4, <2>1, <2>2, PublicationAnnounces
<1> QED BY <1>5, <1>6

LEMMA PublicationClose ==
    ASSUME TypeInv, LifeInv, PublicationInv, CloseStep
    PROVE  PublicationInv'
<1>1. CASE CloseDeactivates \/ CloseDrains \/ CloseStops \/ CloseReturns
  <2>1. UNCHANGED <<rt, h, trust, pub, ghost>> /\ held' \subseteq held
    BY <1>1 DEF CloseDeactivates, CloseDrains, CloseStops, CloseReturns,
                handling
  <2>2. /\ be'.publisher = be.publisher /\ be'.terminal = be.terminal
        /\ be'.close \in {"denied", "closed"} => be.close = "denied"
    BY <1>1 DEF CloseDeactivates, CloseDrains, CloseStops, CloseReturns,
                TypeInv, Backend
  <2> QED BY <2>1, <2>2, PublicationFrame
<1> QED BY <1>1, PublicationDenies DEF CloseStep

\* A callback that changes the observation, and those that do not.
LEMMA PublicationUpdates ==
    ASSUME TypeInv, LifeInv, PublicationInv, NEW t \in Publishers, NEW o,
           updateRemote(t, o), UNCHANGED <<lifecycle, trust>>,
           ghost'.atClose = ghost.atClose, ghost'.late = ghost.late,
           ghost'.invalid = ghost.invalid
    PROVE  PublicationInv'
<1>1. UNCHANGED <<rt, held, be>>
  BY DEF lifecycle
<1>2. h' = [h EXCEPT !.obs = o, !.rev = @ + 1] /\ publishing(t)
  BY DEF updateRemote
<1>3. h'.rev = h.rev + 1 /\ h'.published = h.published
  BY <1>2 DEF TypeInv, Handler
<1>4. /\ counted' => counted
      /\ withdrawn' => withdrawn
  BY <1>1 DEF counted, withdrawn
<1>5. be.publisher => rt.backend
  BY DEF PublicationInv, SnapshotInv
<1> QED BY <1>1, <1>2, <1>3, <1>4, <1>5, PublicationSetsOut

LEMMA PublicationHandling ==
    ASSUME TypeInv, LifeInv, PublicationInv,
           \/ PeerStep \/ HubStep \/ EventStep \/ WorkerStep
           \/ VisibleRemoteServicesUpdated
    PROVE  PublicationInv'
<1>1. ASSUME UNCHANGED <<lifecycle, trust, pub, ghost>>, h'.rev = h.rev,
             h'.published = h.published
      PROVE  PublicationInv'
  BY <1>1, PublicationFrame DEF lifecycle
<1>2. CASE PeerStep \/ EventStep
  BY <1>1, <1>2 DEF PeerStep, Connect, Discover, Disconnect, EventStep,
     HandleEvent, LookUpDevices, EnqueueSPINERefresh
<1>3. ASSUME UNCHANGED <<lifecycle, trust, ghost>>, NEW t \in Publishers,
             NEW o, updateRemote(t, o)
      PROVE  PublicationInv'
  BY <1>3, PublicationUpdates
<1>4. {"hub", "worker", "discovery"} \subseteq Publishers
  BY DEF Publishers
<1>5. CASE HubStep
  <2>1. CASE RemoteSKIConnected
    BY <1>1, <2>1 DEF RemoteSKIConnected
  <2>2. CASE RecordConnected
    BY <1>3, <1>4, <2>2 DEF RecordConnected
  <2>3. CASE ReportConnected
    BY <1>1, <2>3 DEF ReportConnected, TypeInv, Handler
  <2>4. CASE RemoteSKIDisconnected
    BY <1>1, <1>3, <1>4, <2>4 DEF RemoteSKIDisconnected
  <2> QED BY <1>5, <2>1, <2>2, <2>3, <2>4 DEF HubStep
<1>6. CASE WorkerStep
  <2>1. CASE WorkerTakes \/ WorkerEnds
    BY <1>1, <2>1 DEF WorkerTakes, WorkerEnds
  <2>2. CASE UpdateRemoteFromSPINEEvent
    BY <1>1, <1>3, <1>4, <2>2 DEF UpdateRemoteFromSPINEEvent
  <2> QED BY <1>6, <2>1, <2>2 DEF WorkerStep
<1>7. CASE VisibleRemoteServicesUpdated
  <2> DEFINE o == [h.obs EXCEPT !.visible = ~@,
                       !.state = IF @ = "absent" THEN "none" ELSE @]
  <2>1. /\ updateRemote("discovery", o) /\ UNCHANGED <<lifecycle, trust>>
        /\ ghost' = [ghost EXCEPT !.visible = @ + 1]
    BY <1>7 DEF VisibleRemoteServicesUpdated
  <2> HIDE DEF o
  <2>2. /\ ghost'.atClose = ghost.atClose /\ ghost'.late = ghost.late
        /\ ghost'.invalid = ghost.invalid
    BY <2>1 DEF TypeInv, Ghost
  <2> QED BY <1>4, <2>1, <2>2, PublicationUpdates
<1> QED BY <1>2, <1>5, <1>6, <1>7

LEMMA PublicationTrust ==
    ASSUME TypeInv, LifeInv, PublicationInv,
           NotifyTrustAdminProjection \/ QuarantineSilently
    PROVE  PublicationInv'
<1>1. /\ UNCHANGED <<lifecycle, h>> /\ "trust" \in held
      /\ be.close # "denied" /\ ghost' = [ghost EXCEPT !.trust = @ + 1]
  BY DEF NotifyTrustAdminProjection, QuarantineSilently, trustChanges
<1>2. UNCHANGED <<rt, held, be>>
  BY <1>1 DEF lifecycle
<1>3. /\ ghost'.atClose = ghost.atClose /\ ghost'.late = ghost.late
      /\ ghost'.invalid = ghost.invalid
  BY <1>1 DEF TypeInv, Ghost
<1>4. leftOpen("closed") = {}
  BY DEF leftOpen
<1>5. ~withdrawn /\ ~withdrawn'
  BY <1>1, <1>2, <1>4
     DEF withdrawn, PublicationInv, SnapshotInv, LifeInv, HeldInv
<1>6. CASE NotifyTrustAdminProjection
  <2> DEFINE state == following[trust.state]
  <2>1. trust.state \in {"paired", "denied", "unpaired"}
    BY DEF TypeInv, Trust, TrustStates
  <2>2. state # trust.last
    BY <2>1 DEF following, PublicationInv, RevisionInv
  <2> HIDE DEF state
  <2>3. /\ trust' = [state |-> state, rev |-> trust.rev + 1, last |-> state]
        /\ pub' = [pub EXCEPT !["trust"] =
             [@ EXCEPT !.at = "graph",
                       !.trust = [rev |-> trust.rev + 1, state |-> state]]]
    BY <1>6, <2>2 DEF NotifyTrustAdminProjection, state
  <2>4. "trust" \in Publishers
    BY DEF Publishers
  <2> QED BY <1>1, <1>2, <1>3, <1>5, <2>3, <2>4, PublicationAnnounces
<1>7. CASE QuarantineSilently
  <2>1. trust.state = "paired" /\ trust' = [trust EXCEPT !.state = "denied"]
        /\ pub' = pub
    BY <1>7 DEF QuarantineSilently
  <2>2. trust.last = "paired"
    BY <2>1 DEF PublicationInv, RevisionInv
  <2>3. /\ trust'.state = "denied" /\ trust'.last = "paired"
        /\ trust'.rev = trust.rev
    BY <2>1, <2>2 DEF TypeInv, Trust
  <2>4. ASSUME NEW p, told(p)
        PROVE  /\ p.rev <= trust'.rev
               /\ p.rev = trust'.rev => p.state \in {trust'.last, trust'.state}
    BY <2>1, <2>2, <2>3, <2>4 DEF told
  <2>5. \A t \in Publishers : PublisherInv(t) => PublisherInv(t)'
    BY <1>1, <2>1, <2>4 DEF PublisherInv, told
  <2>6. RevisionInv'
    BY <1>1, <1>2, <2>3, <2>5 DEF PublicationInv, RevisionInv, counted
  <2>7. SnapshotInv'
    BY <1>2, <2>4 DEF PublicationInv, SnapshotInv, told
  <2>8. carried => carried'
    BY <1>1, <2>1, <2>3 DEF carried, carries
  <2>9. CurrentInv' /\ DeniedInv'
    BY <1>1, <1>2, <1>3, <1>5, <2>3, <2>8
       DEF PublicationInv, CurrentInv, DeniedInv, shows, TerminalDenies
  <2> QED BY <2>6, <2>7, <2>9 DEF PublicationInv
<1> QED BY <1>6, <1>7

LEMMA NextPublication ==
    ASSUME TypeInv, LifeInv, PublicationInv, Next
    PROVE  PublicationInv'
<1>1. ASSUME NEW c \in Starters, StartStep(c) PROVE PublicationInv'
  BY <1>1, PublicationStart, PublicationStage, PublicationAcquired
     DEF StartStep
<1>2. ASSUME NEW c \in Stoppers, StopStep(c) PROVE PublicationInv'
  BY <1>2, PublicationStops
<1>3. ASSUME NEW t \in Publishers, PublishStep(t) PROVE PublicationInv'
  BY <1>3, PublicationTakesGraph, PublicationPublishes DEF PublishStep
<1> QED BY <1>1, <1>2, <1>3, PublicationRun, PublicationClose,
           PublicationHandling, PublicationTrust DEF Next

LEMMA SamePublication ==
    ASSUME SessionInv, PublicationInv, UNCHANGED <<lifecycle, handling, ghost>>
    PROVE  SessionInv' /\ PublicationInv'
<1>1. UNCHANGED <<peer, hub, h, spine>>
  BY DEF handling
<1>2. SessionInv'
  BY <1>1, SessionFrame
<1>3. UNCHANGED <<rt, held, be, h, trust, pub>>
  BY DEF lifecycle, handling
<1>4. PublicationInv'
  BY <1>3, PublicationFrame
<1> QED BY <1>2, <1>4

\* Everything that is inductive about the runtime.
RuntimeInv == TypeInv /\ WaitInv /\ LifeInv /\ SessionInv /\ PublicationInv

LEMMA InitRuntime == Init => RuntimeInv
BY InitTypes, InitLife, InitSession, InitPublication DEF RuntimeInv

LEMMA NextRuntime == RuntimeInv /\ Next => RuntimeInv'
BY NextTypes, NextLife, NextSession, NextPublication DEF RuntimeInv

LEMMA SameRuntime == RuntimeInv /\ UNCHANGED vars => RuntimeInv'
<1> SUFFICES ASSUME RuntimeInv, UNCHANGED vars PROVE RuntimeInv'
  OBVIOUS
<1>1. UNCHANGED <<lifecycle, handling, ghost>>
  BY DEF vars, lifecycle, handling
<1> QED BY <1>1, SameTypes, SameLife, SamePublication DEF RuntimeInv

\* When nobody is publishing the runtime's snapshot shows the last observation
\* and the last announced projection, in whatever order any number of
\* publications ran; a session never shows devices of an earlier connection.
THEOREM SnapshotsCurrent == Spec => []PublishedCurrent
<1>1. RuntimeInv => PublishedCurrent
  BY PublicationShows DEF RuntimeInv
<1> QED BY <1>1, InitRuntime, NextRuntime, SameRuntime, PTL DEF Spec

\* The snapshot that Shutdown leaves shows no trust that the closing
\* coordinator withdrew, unless a publisher was still under way or a snapshot
\* was refused.
THEOREM TerminalSnapshotDenies == Spec => []TerminalDenies
<1>1. RuntimeInv => TerminalDenies
  BY DEF RuntimeInv, PublicationInv, DeniedInv
<1> QED BY <1>1, InitRuntime, NextRuntime, SameRuntime, PTL DEF Spec

-----------------------------------------------------------------------------
(* OperatorAdmin: types.                                                   *)

Facts == [window : Nat, valid : BOOLEAN, observation : SUBSET Sighting,
          candidate : SUBSET Nat,
          state : {"none", "incomplete", "complete", "transient"},
          partner : SUBSET Nat, connected : BOOLEAN,
          action : [id : Nat, state : {"pending", "terminal"}] \cup {None}]
Replay == [key : Keys, req : Request, ok : BOOLEAN, rev : Nat]
Reducer == [rev : Nat, facts : Facts \cup {None}, handles : SUBSET Handle,
            replays : Seq(Replay)]
Client == [rev : Nat, handles : SUBSET Handle,
           sent : [Keys -> Request \cup {None}]]
Seen == [ref : Nat, rev : Nat,
         life : {"none", "visible", "reserved", "consumed"}]
Candidate == [n : Nat, state : {"incomplete", "complete", "transient"}]
Coordinator == [window : Nat, windows : Nat, obs : Seen, seen : Nat,
                valid : BOOLEAN, sel : Reservation \cup {None}, sels : Nat,
                cand : Candidate \cup {None}, cands : Nat, partner : Nat,
                partners : Nat]
Connection == [gen : Nat, live : BOOLEAN, epoch : Nat]
Action == [id : Nat, state : {"pending", "terminal"}, gen : Nat, floor : Nat,
           before : Nat]
Facade == [next : Nat, epoch : Nat, conn : Connection \cup {None},
           action : Action \cup {None}, actions : Nat]
Did == [moves : Nat, effects : Nat, ran : SUBSET (Keys \X Request),
        twice : BOOLEAN]

PeerTypeInv == ft \in Coordinator /\ fac \in Facade /\ bridge \subseteq Selected
CallTypeInv == /\ adm \in Reducer /\ client \in Client /\ did \in Did
               /\ call \in Execution \cup Showing \cup {None}

AdminTypeInv == PeerTypeInv /\ CallTypeInv

-----------------------------------------------------------------------------
(* Invariants.                                                             *)

\* A selection is being made by the call that began it.
SelectInv ==
    call # None =>
        /\ call.at \in {"reserve", "finish"} => call.req.op = "select"
        /\ call.at = "finish" => ft.sel # None /\ ~ft.sel.done

executing == call # None /\ call.at \in {"effect", "reserve", "finish", "commit"}

\* What was done under a key is being recorded, or is remembered by an answer
\* that is kept, or was asked for in a state that is gone.
recorded(x) ==
    \/ call # None /\ call.at = "commit" /\ x = <<call.key, call.req>>
    \/ \E i \in 1..Len(adm.replays) : /\ adm.replays[i].key = x[1]
                                      /\ x[2].rev <= adm.replays[i].rev
    \/ x[2].rev < adm.rev

ReplayInv ==
    /\ executing => call.req.rev = adm.rev
    /\ executing /\ call.at # "commit" => <<call.key, call.req>> \notin did.ran
    /\ \A x \in did.ran : recorded(x)
    /\ ~did.twice

\* An action waits for an attempt from its floor on, or has one.
ownAttempt(a) == /\ a.floor > a.before
                 /\ a.gen = 0 => a.state = "pending"
                 /\ a.gen # 0 => a.gen > a.before

ActionInv ==
    /\ fac.conn # None => fac.conn.gen > 0
    /\ fac.action # None => ownAttempt(fac.action)

-----------------------------------------------------------------------------
(* The runtime under administration.                                       *)

\* Operators use up faults at most.
LEMMA CallsDisturb ==
    ASSUME TypeInv, UNCHANGED disturbances \/ disturb("cancel")
    PROVE  disturbances' \in 0..MaxFaults
BY RuntimeAssumption DEF TypeInv, disturb

LEMMA AdminDisturbs ==
    ASSUME TypeInv, AdminNext
    PROVE  \/ Next /\ withBridge
           \/ /\ UNCHANGED <<lifecycle, handling, ghost, bound>>
              /\ disturbances' \in 0..MaxFaults
<1>1. ASSUME NEW k, NEW req, Submit(k, req) PROVE UNCHANGED disturbances
  BY <1>1 DEF Submit
<1>2. ASSUME NEW view, AdminSnapshot(view) PROVE UNCHANGED disturbances
  BY <1>2 DEF AdminSnapshot
<1>3. ASSUME NEW op, effect(op) PROVE UNCHANGED disturbances
  BY <1>3 DEF effect
<1>4. ASSUME CallStep PROVE UNCHANGED disturbances \/ disturb("cancel")
  BY <1>3, <1>4 DEF CallStep, EffectWithheld, EffectRefused, unless,
     EffectOpen, EffectClose, EffectSelect, ReserveSelection, FinishSelection,
     EffectConnect, EffectConfirm, EffectCancel, EffectRetry, EffectUntrust,
     Commit, ObserveAction
<1>5. ASSUME OtherStep PROVE UNCHANGED disturbances
  BY <1>5 DEF OtherStep, OtherOpens, WindowEnds, PeerSeen, CandidateArrives,
     CandidateCompletes, CandidateEnds, OtherConfirms, OtherRevokes,
     AttemptBegins, PairingDetail, Disconnected, move
<1> QED BY <1>1, <1>2, <1>4, <1>5, CallsDisturb DEF AdminNext

LEMMA AdminKeepsRuntime ==
    ASSUME RuntimeInv, [AdminNext]_allVars
    PROVE  RuntimeInv'
<1>1. CASE Next
  BY <1>1, NextRuntime
<1>2. CASE UNCHANGED vars
  BY <1>2, SameRuntime
<1>3. CASE /\ UNCHANGED <<lifecycle, handling, ghost, bound>>
           /\ disturbances' \in 0..MaxFaults
  <2>1. TypeInv' /\ WaitInv'
    BY <1>3 DEF RuntimeInv, TypeInv, WaitInv, lifecycle, handling
  <2>2. LifeInv' /\ SessionInv' /\ PublicationInv'
    BY <1>3, SameLife, SamePublication DEF RuntimeInv
  <2> QED BY <2>1, <2>2 DEF RuntimeInv
<1>4. TypeInv
  BY DEF RuntimeInv
<1> QED BY <1>1, <1>2, <1>3, <1>4, AdminDisturbs DEF allVars

\* The runtime keeps its promises while it is administered: nothing is left
\* of an acquisition, snapshots are current, and the one that Shutdown leaves
\* shows no withdrawn trust.
THEOREM AdministeredRuntime ==
    AdminSpec => [](NothingLeft /\ PublishedCurrent /\ TerminalDenies)
<1>1. AdminInit => RuntimeInv
  BY InitRuntime DEF AdminInit
<1>2. RuntimeInv /\ [AdminNext]_allVars => RuntimeInv'
  BY AdminKeepsRuntime
<1>3. RuntimeInv => NothingLeft /\ PublishedCurrent /\ TerminalDenies
  BY LifeNothingLeft, PublicationShows
     DEF RuntimeInv, PublicationInv, DeniedInv
<1> QED BY <1>1, <1>2, <1>3, PTL DEF AdminSpec

-----------------------------------------------------------------------------
(* Types, of the coordinator and the facade first.                         *)

LEMMA AdminInitTypes == AdminInit => AdminTypeInv
<1> SUFFICES ASSUME AdminInit PROVE AdminTypeInv
  OBVIOUS
<1>1. PeerTypeInv
  BY DEF AdminInit, PeerTypeInv, Coordinator, Facade, Seen, noObservation
<1>2. adm \in Reducer /\ client \in Client /\ call = None
  BY DEF AdminInit, Reducer, Client
<1>3. did \in Did
  BY DEF AdminInit, Did
<1> QED BY <1>1, <1>2, <1>3 DEF AdminTypeInv, CallTypeInv

LEMMA PartTypes ==
    ASSUME NEW f \in Coordinator, NEW g \in Facade
    PROVE  /\ selectionFinished(f.sel) \in Reservation \cup {None}
           /\ cancelled(g.conn) \in Connection \cup {None}
BY DEF Coordinator, Facade, selectionFinished, Reservation, cancelled, Connection

LEMMA FacadeTypes ==
    ASSUME NEW g \in Facade
    PROVE  /\ \A c \in Connection \cup {None} : [g EXCEPT !.conn = c] \in Facade
           /\ \A a \in Action \cup {None} : [g EXCEPT !.action = a] \in Facade
           /\ \A n \in Nat : /\ [g EXCEPT !.next = n] \in Facade
                             /\ [g EXCEPT !.epoch = n] \in Facade
                             /\ [g EXCEPT !.actions = n] \in Facade
BY DEF Facade

\* What the call and others do to windows and candidates.
LEMMA WindowTypes ==
    ASSUME PeerTypeInv,
           windowClosed \/ windowOpened \/ candidateCancelled \/ committed
    PROVE  ft' \in Coordinator /\ fac' \in Facade
<1> DEFINE s == selectionFinished(ft.sel)
           c == cancelled(fac.conn)
<1>1. s \in Reservation \cup {None} /\ c \in Connection \cup {None}
  BY PartTypes DEF PeerTypeInv
<1>2. /\ ft.windows + 1 \in Nat /\ ft.partners + 1 \in Nat
      /\ fac.epoch + 1 \in Nat /\ fac.conn \in Connection \cup {None}
  BY DEF PeerTypeInv, Coordinator, Facade
<1> HIDE DEF s, c
<1>3. CASE windowClosed
  <2>1. /\ ft' = [ft EXCEPT !.window = 0, !.cand = None, !.sel = s]
        /\ \/ fac' = [fac EXCEPT !.action = None, !.conn = c]
           \/ fac' = [fac EXCEPT !.action = None, !.conn = fac.conn]
    BY <1>3, Zenon DEF windowClosed, s, c
  <2>2. ft' \in Coordinator
    BY <1>1, <2>1 DEF PeerTypeInv, Coordinator
  <2>3. fac' \in Facade
    BY <1>1, <1>2, <2>1 DEF PeerTypeInv, Facade
  <2> QED BY <2>2, <2>3
<1>4. CASE windowOpened
  BY <1>2, <1>4 DEF windowOpened, PeerTypeInv, Coordinator, Facade
<1>5. CASE candidateCancelled
  <2>1. /\ ft' = [ft EXCEPT !.cand = None, !.sel = s]
        /\ fac' = [fac EXCEPT !.conn = c, !.action = None]
    BY <1>5, Zenon DEF candidateCancelled, s, c
  <2> QED BY <1>1, <2>1 DEF PeerTypeInv, Coordinator, Facade
<1>6. CASE committed
  <2>1. /\ ft' = [ft EXCEPT !.window = 0, !.cand = None, !.sel = s,
                            !.partner = ft.partners + 1,
                            !.partners = ft.partners + 1]
        /\ fac' = [fac EXCEPT !.action = None]
    BY <1>6, Zenon DEF committed, s
  <2> QED BY <1>1, <1>2, <2>1 DEF PeerTypeInv, Coordinator, Facade
<1> QED BY <1>3, <1>4, <1>5, <1>6

LEMMA ActionTypes ==
    ASSUME NEW a \in Action \cup {None}, NEW g \in Nat
    PROVE  /\ rebound(a, g) \in Action \cup {None}
           /\ completed(a, g) \in Action \cup {None}
BY DEF rebound, completed, Action

LEMMA ArmedTypes ==
    ASSUME PeerTypeInv
    PROVE  /\ armed \in Facade /\ armed.action \in Action
           /\ [armed EXCEPT !.action = None] \in Facade
<1> DEFINE a == [id |-> fac.actions + 1, state |-> "pending",
                 gen |-> IF attempting THEN fac.conn.gen ELSE 0,
                 floor |-> IF attempting THEN fac.conn.gen ELSE fac.next + 1,
                 before |-> IF attempting THEN 0 ELSE fac.next]
<1>1. a \in Action
  BY DEF PeerTypeInv, Facade, attempting, Connection, Action
<1>2. armed = [fac EXCEPT !.actions = fac.actions + 1, !.action = a]
  BY DEF armed
<1> HIDE DEF a
<1>3. fac.actions + 1 \in Nat
  BY DEF PeerTypeInv, Facade
<1>4. armed \in Facade /\ armed.action = a
  BY <1>1, <1>2, <1>3 DEF PeerTypeInv, Facade
<1> QED BY <1>1, <1>4, FacadeTypes

-----------------------------------------------------------------------------
(* Types of the reducer and of calls.                                      *)

LEMMA FactsType ==
    ASSUME PeerTypeInv
    PROVE  facts \in Facts
<1> DEFINE o == IF ft.obs.life = "visible"
                THEN {[ref |-> ft.obs.ref, rev |-> ft.obs.rev]} ELSE {}
           n == IF ft.cand = None THEN {} ELSE {ft.cand.n}
           s == IF ft.cand = None THEN "none" ELSE ft.cand.state
           c == fac.conn # None /\ fac.conn.live
           a == IF fac.action = None THEN None
                ELSE [id |-> fac.action.id, state |-> fac.action.state]
<1>1. o \in SUBSET Sighting
  BY DEF PeerTypeInv, Coordinator, Seen, Sighting
<1>2. /\ n \in SUBSET Nat
      /\ s \in {"none", "incomplete", "complete", "transient"}
      /\ {ft.partner} \ {0} \in SUBSET Nat
      /\ ft.window \in Nat /\ ft.valid \in BOOLEAN
  BY DEF PeerTypeInv, Coordinator, Candidate
<1>3. c \in BOOLEAN
  BY DEF PeerTypeInv, Facade, Connection
<1>4. a \in [id : Nat, state : {"pending", "terminal"}] \cup {None}
  BY DEF PeerTypeInv, Facade, Action
<1>5. facts = [window |-> ft.window, valid |-> ft.valid, observation |-> o,
               candidate |-> n, state |-> s, partner |-> {ft.partner} \ {0},
               connected |-> c, action |-> a]
  BY DEF facts
<1> HIDE DEF o, n, s, c, a
<1> QED BY <1>1, <1>2, <1>3, <1>4, <1>5 DEF Facts

LEMMA ReducerTypes ==
    ASSUME NEW a \in Reducer
    PROVE  /\ a.rev \in Nat /\ a.replays \in Seq(Replay)
           /\ a.handles \subseteq Handle
           /\ Len(a.replays) \in Nat
           /\ \A i \in 1..Len(a.replays) : a.replays[i] \in Replay
BY DEF Reducer

\* The reducer accepts facts: its revision does not fall, and its answers are
\* kept.
LEMMA AcceptsTypes ==
    ASSUME NEW a \in Reducer, NEW f \in Facts \cup {None}
    PROVE  /\ advanced(a, f) \in Reducer /\ advanced(a, f).rev = a.rev + 1
           /\ advanced(a, f).replays = a.replays
           /\ accepts(a, f) \in Reducer /\ accepts(a, f).rev >= a.rev
           /\ accepts(a, f).replays = a.replays
<1>1. /\ advanced(a, f) \in Reducer /\ advanced(a, f).rev = a.rev + 1
      /\ advanced(a, f).replays = a.replays
  <2>1. ASSUME NEW n \in Nat, NEW hs \in SUBSET Handle
        PROVE  /\ [a EXCEPT !.rev = n, !.facts = f, !.handles = hs] \in Reducer
               /\ [a EXCEPT !.rev = n, !.facts = f, !.handles = hs].rev = n
               /\ [a EXCEPT !.rev = n, !.facts = f, !.handles = hs].replays
                    = a.replays
    BY DEF Reducer
  <2> DEFINE n == a.rev + 1
  <2>2. n \in Nat /\ {} \in SUBSET Handle
    BY ReducerTypes
  <2>3. advanced(a, f) = [a EXCEPT !.rev = n, !.facts = f, !.handles = {}]
    BY DEF advanced
  <2> HIDE DEF n
  <2>4. /\ [a EXCEPT !.rev = n, !.facts = f, !.handles = {}] \in Reducer
        /\ [a EXCEPT !.rev = n, !.facts = f, !.handles = {}].rev = n
        /\ [a EXCEPT !.rev = n, !.facts = f, !.handles = {}].replays
             = a.replays
    BY <2>1, <2>2, Zenon
  <2> QED BY <2>3, <2>4 DEF n
<1> QED BY <1>1, ReducerTypes DEF accepts

LEMMA IssuedTypes ==
    ASSUME NEW a \in Reducer,
           NEW kind \in {"observation", "selection", "candidate", "partner"},
           NEW targets, targets \subseteq Sighting \cup Selected \cup Nat
    PROVE  /\ issued(a, kind, targets) \in Reducer
           /\ issued(a, kind, targets).rev = a.rev
           /\ issued(a, kind, targets).replays = a.replays
<1> DEFINE made == {[kind |-> kind, target |-> t, rev |-> a.rev] : t \in targets}
<1>1. made \subseteq Handle
  <2>1. ASSUME NEW t \in targets
        PROVE  [kind |-> kind, target |-> t, rev |-> a.rev] \in Handle
    <3>1. t \in Sighting \cup Selected \cup Nat /\ a.rev \in Nat
      BY ReducerTypes
    <3> HIDE DEF made
    <3> QED BY <3>1 DEF Handle
  <2> QED BY <2>1
<1>2. issued(a, kind, targets) = [a EXCEPT !.handles = a.handles \cup made]
  BY DEF issued
<1> HIDE DEF made
<1> QED BY <1>1, <1>2 DEF Reducer

LEMMA ShownTypes ==
    ASSUME NEW f \in Facts, NEW view
    PROVE  shown(f, view) \subseteq Sighting \cup Selected \cup Nat
BY DEF shown, Facts

\* Of numbers there is a least one.
LEMMA LeastExists ==
    ASSUME NEW S, S \subseteq Nat, S # {}
    PROVE  \E i \in S : \A j \in S : i <= j
<1> DEFINE less == {p \in Nat \X Nat : p[1] < p[2]}
<1>1. IsWellFoundedOn(less, Nat)
  BY NatLessThanWellFounded DEF OpToRel
<1>2. \E x \in S : \A y \in S : ~(<<y, x>> \in less)
  <2> HIDE DEF less
  <2> QED BY <1>1, WFMin
<1>3. PICK i \in S : \A y \in S : ~(<<y, i>> \in less)
  BY <1>2
<1>4. ASSUME NEW j \in S PROVE i <= j
  <2>1. ~(j < i)
    BY <1>3
  <2> QED BY <2>1
<1> QED BY <1>4

\* A full reducer forgets one answer, which is evictable.
LEMMA SlotTypes ==
    ASSUME NEW a \in Reducer, hasSlot(a)
    PROVE  /\ withSlot(a) \in Reducer /\ withSlot(a).rev = a.rev
           /\ \A i \in 1..Len(a.replays) :
                \/ a.replays[i].rev < a.rev
                \/ \E j \in 1..Len(withSlot(a).replays) :
                     withSlot(a).replays[j] = a.replays[i]
           /\ \A j \in 1..Len(withSlot(a).replays) :
                \E i \in 1..Len(a.replays) :
                  withSlot(a).replays[j] = a.replays[i]
<1> DEFINE s == a.replays
           n == CHOOSE i \in evictable(a) : \A j \in evictable(a) : i <= j
           left == SubSeq(s, 1, n - 1) \o SubSeq(s, n + 1, Len(s))
<1>1. s \in Seq(Replay) /\ Len(s) \in Nat
  BY ReducerTypes
<1>2. CASE Len(s) < MaxReplays
  <2>1. withSlot(a) = a
    BY <1>2 DEF withSlot
  <2> HIDE DEF s, n, left
  <2> QED BY <2>1 DEF s
<1>3. CASE ~(Len(s) < MaxReplays)
  <2>1. evictable(a) \subseteq Nat /\ evictable(a) # {}
    BY <1>1, <1>3 DEF evictable, hasSlot
  <2>2. n \in evictable(a)
    BY <2>1, LeastExists
  <2>3. withSlot(a) = [a EXCEPT !.replays = left]
    BY <1>3 DEF withSlot
  <2>4. n \in 1..Len(s) /\ s[n].rev < a.rev
    BY <2>2 DEF evictable
  <2> HIDE DEF n
  <2>5. /\ left \in Seq(Replay) /\ Len(left) = Len(s) - 1
        /\ \A j \in 1..(n - 1) : left[j] = s[j]
        /\ \A j \in n..(Len(s) - 1) : left[j] = s[j + 1]
    <3> HIDE DEF s
    <3>1. /\ SubSeq(s, 1, n - 1) \in Seq(Replay)
          /\ Len(SubSeq(s, 1, n - 1)) = n - 1
          /\ \A j \in 1..(n - 1) : SubSeq(s, 1, n - 1)[j] = s[j]
      BY <1>1, <2>4
    <3>2. /\ SubSeq(s, n + 1, Len(s)) \in Seq(Replay)
          /\ Len(SubSeq(s, n + 1, Len(s))) = Len(s) - n
          /\ \A j \in 1..(Len(s) - n) :
               SubSeq(s, n + 1, Len(s))[j] = s[j + n]
      BY <1>1, <2>4
    <3> DEFINE b == SubSeq(s, 1, n - 1)
               c == SubSeq(s, n + 1, Len(s))
    <3>3. /\ b \o c \in Seq(Replay) /\ Len(b \o c) = Len(b) + Len(c)
          /\ \A j \in 1..(Len(b) + Len(c)) :
               (b \o c)[j] = IF j <= Len(b) THEN b[j] ELSE c[j - Len(b)]
      BY <3>1, <3>2, ConcatProperties
    <3>4. /\ Len(b) = n - 1 /\ Len(c) = Len(s) - n
          /\ \A j \in 1..(n - 1) : b[j] = s[j]
          /\ \A j \in 1..(Len(s) - n) : c[j] = s[j + n]
      BY <3>1, <3>2
    <3>5. left = b \o c
      OBVIOUS
    <3> HIDE DEF b, c, left
    <3>6. ASSUME NEW j \in 1..(n - 1) PROVE left[j] = s[j]
      <4>1. j \in 1..(Len(b) + Len(c)) /\ j <= Len(b)
        BY <1>1, <2>4, <3>4
      <4> QED BY <3>3, <3>4, <3>5, <4>1
    <3>7. ASSUME NEW j \in n..(Len(s) - 1) PROVE left[j] = s[j + 1]
      <4>1. /\ j - Len(b) \in 1..(Len(s) - n) /\ ~(j <= Len(b))
            /\ j \in 1..(Len(b) + Len(c)) /\ j - Len(b) + n = j + 1
        BY <1>1, <2>4, <3>4
      <4> QED BY <3>3, <3>4, <3>5, <4>1
    <3>8. Len(left) = Len(s) - 1
      <4>1. Len(left) = Len(b) + Len(c)
        BY <3>3, <3>5
      <4>2. Len(b) + Len(c) = Len(s) - 1
        BY <1>1, <2>4, <3>4
      <4> QED BY <4>1, <4>2
    <3> QED BY <3>3, <3>5, <3>6, <3>7, <3>8
  <2> HIDE DEF left
  <2>6. withSlot(a) \in Reducer /\ withSlot(a).replays = left
        /\ withSlot(a).rev = a.rev
    BY <2>3, <2>5 DEF Reducer
  <2>7. ASSUME NEW i \in 1..Len(s)
        PROVE  \/ s[i].rev < a.rev
               \/ \E j \in 1..Len(left) : left[j] = s[i]
    <3> HIDE DEF s
    <3>1. CASE i < n
      BY <1>1, <2>4, <2>5, <3>1
    <3>2. CASE i > n
      <4>1. i - 1 \in n..(Len(s) - 1) /\ i - 1 \in 1..Len(left)
        BY <1>1, <2>4, <2>5, <3>2
      <4>2. left[i - 1] = s[i - 1 + 1] /\ i - 1 + 1 = i
        BY <2>5, <4>1
      <4> QED BY <4>1, <4>2
    <3> QED BY <1>1, <2>4, <3>1, <3>2
  <2>8. ASSUME NEW j \in 1..Len(left)
        PROVE  \E i \in 1..Len(s) : left[j] = s[i]
    <3> HIDE DEF s
    <3>1. CASE j < n
      BY <1>1, <2>4, <2>5, <3>1
    <3>2. CASE ~(j < n)
      <4>1. j \in n..(Len(s) - 1) /\ j + 1 \in 1..Len(s)
        BY <1>1, <2>4, <2>5, <3>2
      <4> QED BY <2>5, <4>1
    <3> QED BY <3>1, <3>2
  <2> QED BY <2>6, <2>7, <2>8
<1> QED BY <1>2, <1>3

-----------------------------------------------------------------------------
(* What a step does to the reducer and the call: every step is of one of   *)
(* these kinds.                                                            *)

\* Nothing: a step of the runtime, of others, or an answer that is repeated.
staysPut == /\ UNCHANGED <<adm, call, client>> /\ did' \in Did
            /\ did'.ran = did.ran /\ did'.twice = did.twice

\* Facts are accepted and shown, or a request is refused.
looked == /\ call = None /\ call' \in Showing \cup {None}
          /\ adm' \in Reducer /\ adm'.rev >= adm.rev
          /\ adm'.replays = adm.replays
          /\ client' \in Client /\ did' = did

\* A request is taken up in the state that it expects, under a key that is not
\* remembered; an answer may be forgotten.
begun == /\ call = None /\ call' \in Execution /\ call'.at = "effect"
         /\ replayOf(call'.key) = {}
         /\ adm' \in Reducer /\ adm'.rev >= adm.rev
         /\ call'.req.rev = adm'.rev
         /\ \A i \in 1..Len(adm.replays) :
              \/ adm.replays[i].rev < adm'.rev
              \/ \E j \in 1..Len(adm'.replays) :
                   adm'.replays[j] = adm.replays[i]
         /\ client' \in Client /\ did' = did

\* The call ends without an effect.
dropped == /\ call # None /\ call.at \in {"effect", "observe"} /\ call' = None
           /\ UNCHANGED <<adm, client, did>>

\* The call goes on with the selection that it makes.
movedOn == /\ call \in Execution /\ call' \in Execution
           /\ \/ call.at = "effect" /\ call'.at = "reserve"
              \/ call.at = "reserve" /\ call'.at = "finish"
           /\ call'.key = call.key /\ call'.req = call.req
           /\ call.req.op = "select"
           /\ UNCHANGED <<adm, client, did>>

\* The effect is over.
ended == /\ call \in Execution /\ call' \in Execution
         /\ call.at # "commit" /\ call'.at = "commit"
         /\ call'.key = call.key /\ call'.req = call.req
         /\ did' \in Did /\ did'.ran = did.ran \cup {<<call.key, call.req>>}
         /\ did'.twice = (did.twice \/ <<call.key, call.req>> \in did.ran)
         /\ UNCHANGED <<adm, client>>

\* Its answer is recorded.
answeredNow ==
    /\ call \in Execution /\ call.at = "commit" /\ call' = None
    /\ adm' \in Reducer /\ adm'.rev >= adm.rev
    /\ Len(adm'.replays) = Len(adm.replays) + 1
    /\ \A i \in 1..Len(adm.replays) : adm'.replays[i] = adm.replays[i]
    /\ adm'.replays[Len(adm.replays) + 1].key = call.key
    /\ adm'.replays[Len(adm.replays) + 1].rev = adm'.rev
    /\ client' \in Client /\ did' = did

callKind == \/ staysPut \/ looked \/ begun \/ dropped \/ movedOn \/ ended
            \/ answeredNow

LEMMA CallsDistinct ==
    /\ None \notin Execution /\ None \notin Showing
    /\ \A x \in Execution : x.at \in {"effect", "reserve", "finish", "commit"}
    /\ \A x \in Showing : x.at = "observe"
BY AdminAssumption DEF Execution, Showing

LEMMA ExecutionTypes ==
    ASSUME AdminTypeInv, call # None, call.at # "observe"
    PROVE  /\ call \in Execution /\ call.key \in Keys /\ call.req \in Request
           /\ call.made \subseteq Selected
<1>1. call \in Execution
  BY CallsDistinct DEF AdminTypeInv, CallTypeInv
<1> QED BY <1>1 DEF Execution

LEMMA OtherKind ==
    ASSUME AdminTypeInv, OtherStep
    PROVE  staysPut
<1>1. /\ UNCHANGED <<adm, call, client>>
      /\ did' = [did EXCEPT !.moves = did.moves + 1]
  BY DEF OtherStep, OtherOpens, WindowEnds, PeerSeen, CandidateArrives,
     CandidateCompletes, CandidateEnds, OtherConfirms, OtherRevokes,
     AttemptBegins, PairingDetail, Disconnected, move
<1>2. did.moves + 1 \in Nat
  BY DEF AdminTypeInv, CallTypeInv, Did
<1>3. did' \in Did /\ did'.ran = did.ran /\ did'.twice = did.twice
  BY <1>1, <1>2 DEF AdminTypeInv, CallTypeInv, Did
<1> QED BY <1>1, <1>3 DEF staysPut

LEMMA EffectRanTypes ==
    ASSUME AdminTypeInv, call \in Execution, effectRan
    PROVE  /\ did' \in Did
           /\ did'.ran = did.ran \cup {<<call.key, call.req>>}
           /\ did'.twice = (did.twice \/ <<call.key, call.req>> \in did.ran)
<1> DEFINE x == <<call.key, call.req>>
           n == did.effects + 1
           r == did.ran \cup {x}
           b == did.twice \/ x \in did.ran
<1>1. x \in Keys \X Request
  BY DEF Execution
<1>2. n \in Nat /\ r \in SUBSET (Keys \X Request) /\ b \in BOOLEAN
  BY <1>1 DEF AdminTypeInv, CallTypeInv, Did
<1>3. did' = [did EXCEPT !.effects = n, !.ran = r, !.twice = b]
  BY Zenon DEF effectRan
<1> HIDE DEF x, n, r, b
<1>4. did' \in Did /\ did'.ran = r /\ did'.twice = b
  BY <1>2, <1>3 DEF AdminTypeInv, CallTypeInv, Did
<1> QED BY <1>4 DEF r, b, x

\* The effects.
LEMMA EndsKind ==
    ASSUME AdminTypeInv, call # None,
           call.at \in {"effect", "reserve"},
           NEW ok \in BOOLEAN, NEW changed \in BOOLEAN, ends(ok, changed),
           UNCHANGED <<adm, client>>
    PROVE  ended
<1>1. call \in Execution
  BY ExecutionTypes
<1>2. call' = [call EXCEPT !.at = "commit", !.ok = ok, !.changed = changed]
      /\ effectRan
  BY DEF ends
<1>3. /\ call' \in Execution /\ call'.at = "commit" /\ call'.key = call.key
      /\ call'.req = call.req
  BY <1>1, <1>2 DEF Execution
<1> QED BY <1>1, <1>2, <1>3, EffectRanTypes DEF ended

LEMMA FinishKind ==
    ASSUME AdminTypeInv, SelectInv, FinishSelection
    PROVE  ended
<1> DEFINE made == [n |-> ft.sel.n, ref |-> ft.sel.ref]
<1>1. call # None /\ call.at = "finish" /\ effectRan /\ UNCHANGED <<adm, client>>
  BY DEF FinishSelection
<1>2. call \in Execution
  BY <1>1, ExecutionTypes
<1>3. ft.sel # None
  BY <1>1 DEF SelectInv
<1>4. {made} \in SUBSET Selected
  BY <1>3 DEF AdminTypeInv, PeerTypeInv, Coordinator, Reservation, Selected
<1>5. \/ call' = [call EXCEPT !.at = "commit", !.ok = TRUE, !.changed = TRUE,
                              !.made = {made}]
      \/ call' = [call EXCEPT !.at = "commit", !.ok = FALSE, !.changed = TRUE]
  BY Zenon DEF FinishSelection
<1> HIDE DEF made
<1>6. /\ call' \in Execution /\ call'.at = "commit" /\ call'.key = call.key
      /\ call'.req = call.req
  BY <1>2, <1>4, <1>5 DEF Execution
<1> QED BY <1>1, <1>2, <1>6, EffectRanTypes DEF ended

LEMMA CommitKind ==
    ASSUME AdminTypeInv, Commit
    PROVE  answeredNow
<1> DEFINE a == IF ~bridgeUp
                THEN IF call.changed THEN advanced(adm, adm.facts) ELSE adm
                ELSE IF call.changed \/ facts # adm.facts
                THEN advanced(adm, facts) ELSE adm
           s == issued(a, "selection", call.made)
           e == [key |-> call.key, req |-> call.req, ok |-> call.ok,
                 rev |-> a.rev]
           hs == {x \in s.handles : x.kind = "selection"}
<1>1. /\ call # None /\ call.at = "commit" /\ call' = None /\ did' = did
      /\ adm' = [s EXCEPT !.replays = Append(s.replays, e)]
      /\ \/ client' = client
         \/ client' = [client EXCEPT !.rev = a.rev, !.handles = hs]
  BY Zenon DEF Commit
<1>2. call \in Execution /\ call.key \in Keys /\ call.req \in Request
      /\ call.made \subseteq Selected
  BY <1>1, ExecutionTypes
<1>3. adm \in Reducer /\ adm.facts \in Facts \cup {None} /\ facts \in Facts
  BY FactsType DEF AdminTypeInv, CallTypeInv, Reducer
<1>4. adm.rev \in Nat
  BY <1>3, ReducerTypes
<1>5. a \in Reducer /\ a.rev >= adm.rev /\ a.replays = adm.replays
  <2>1. ASSUME NEW f \in Facts \cup {None}
        PROVE  /\ advanced(adm, f) \in Reducer
               /\ advanced(adm, f).rev >= adm.rev
               /\ advanced(adm, f).replays = adm.replays
    <3>1. /\ advanced(adm, f) \in Reducer
          /\ advanced(adm, f).rev = adm.rev + 1
          /\ advanced(adm, f).replays = adm.replays
      BY <1>3, AcceptsTypes, Zenon
    <3> QED BY <1>4, <3>1
  <2>2. a \in {adm, advanced(adm, adm.facts), advanced(adm, facts)}
    OBVIOUS
  <2> HIDE DEF a
  <2> QED BY <1>3, <1>4, <2>1, <2>2
<1> HIDE DEF a
<1>6. s \in Reducer /\ s.rev = a.rev /\ s.replays = a.replays
  BY <1>2, <1>5, IssuedTypes
<1>7. e \in Replay /\ e.key = call.key /\ e.rev = a.rev
  <2>1. call.ok \in BOOLEAN /\ a.rev \in Nat
    BY <1>2, <1>5, ReducerTypes DEF Execution
  <2> QED BY <1>2, <2>1 DEF Replay
<1>8. hs \in SUBSET Handle /\ a.rev \in Nat
  BY <1>5, <1>6, ReducerTypes
<1> HIDE DEF s, e, hs
<1>9. client' \in Client
  BY <1>1, <1>8 DEF AdminTypeInv, CallTypeInv, Client
<1>10. s.replays \in Seq(Replay) /\ Len(s.replays) \in Nat
  BY <1>6, ReducerTypes
<1>11. /\ Append(s.replays, e) \in Seq(Replay)
       /\ Len(Append(s.replays, e)) = Len(s.replays) + 1
       /\ \A i \in 1..Len(s.replays) : Append(s.replays, e)[i] = s.replays[i]
       /\ Append(s.replays, e)[Len(s.replays) + 1] = e
  BY <1>7, <1>10
<1>12. /\ adm' \in Reducer /\ adm'.rev = a.rev
       /\ adm'.replays = Append(s.replays, e)
  BY <1>1, <1>6, <1>11 DEF Reducer
<1> QED BY <1>1, <1>2, <1>5, <1>6, <1>7, <1>9, <1>11, <1>12 DEF answeredNow

LEMMA CallStepKind ==
    ASSUME AdminTypeInv, SelectInv, CallStep
    PROVE  callKind
<1>1. ASSUME NEW op, effect(op)
      PROVE  /\ call # None /\ call.at = "effect" /\ call.req.op = op
             /\ UNCHANGED <<adm, client>>
  BY <1>1 DEF effect
<1>2. CASE EffectWithheld \/ ObserveAction
  BY <1>2 DEF EffectWithheld, ObserveAction, callKind, dropped
<1>3. CASE EffectRefused
  BY <1>3, EndsKind DEF EffectRefused, callKind
<1>4. CASE \/ EffectOpen \/ EffectClose \/ EffectConnect \/ EffectConfirm
           \/ EffectCancel \/ EffectRetry \/ EffectUntrust
  BY <1>1, <1>4, EndsKind DEF EffectOpen, EffectClose, EffectConnect,
     EffectConfirm, EffectCancel, EffectRetry, EffectUntrust, callKind
<1>5. CASE EffectSelect
  <2>1. /\ call # None /\ call.at = "effect" /\ call.req.op = "select"
        /\ UNCHANGED <<adm, client, did>>
        /\ call' = [call EXCEPT !.at = "reserve"]
    BY <1>1, <1>5 DEF EffectSelect
  <2>2. call \in Execution
    BY <2>1, ExecutionTypes
  <2>3. /\ call' \in Execution /\ call'.at = "reserve"
        /\ call'.key = call.key /\ call'.req = call.req
    BY <2>1, <2>2 DEF Execution
  <2> QED BY <2>1, <2>2, <2>3 DEF movedOn, callKind
<1>6. CASE ReserveSelection
  <2>1. /\ call # None /\ call.at = "reserve"
        /\ UNCHANGED <<adm, client, did>>
        /\ call' = [call EXCEPT !.at = "finish"]
    BY <1>6 DEF ReserveSelection
  <2>2. call \in Execution /\ call.req.op = "select"
    BY <2>1, ExecutionTypes DEF SelectInv
  <2>3. /\ call' \in Execution /\ call'.at = "finish"
        /\ call'.key = call.key /\ call'.req = call.req
    BY <2>1, <2>2 DEF Execution
  <2> QED BY <2>1, <2>2, <2>3 DEF movedOn, callKind
<1> QED BY <1>2, <1>3, <1>4, <1>5, <1>6, FinishKind, CommitKind
        DEF CallStep, callKind

LEMMA RequestTypes ==
    ASSUME TypeInv, AdminTypeInv, administering
    PROVE  /\ requests \subseteq Request
           /\ views \subseteq {"observation", "candidate", "partner"}
<1>1. bound.admin \in AdminBound
  BY AdminAssumption DEF TypeInv, administering
<1>2. bound.admin.ops \subseteq Operations
  BY <1>1 DEF AdminBound
<1>3. client.rev \in Nat /\ client.handles \subseteq Handle
  BY DEF AdminTypeInv, CallTypeInv, Client
<1>4. ASSUME NEW o \in bound.admin.ops, NEW x \in Handle \cup {None}
      PROVE  [op |-> o, rev |-> client.rev, handle |-> x] \in Request
  BY <1>2, <1>3 DEF Request
<1>5. requests \subseteq Request
  BY <1>3, <1>4 DEF requests
<1>6. ASSUME NEW o \in DOMAIN kindOf
      PROVE  kindOf[o] \in {"observation", "selection", "candidate", "partner"}
  BY DEF kindOf
<1>7. views \subseteq {"observation", "candidate", "partner"}
  BY <1>6 DEF views
<1> QED BY <1>5, <1>7

LEMMA SubmitKind ==
    ASSUME AdminTypeInv, NEW k \in Keys, NEW req \in Request, Submit(k, req)
    PROVE  callKind
<1> DEFINE a == accepts(adm, facts)
           c == [at |-> "effect", key |-> k, req |-> req, ok |-> FALSE,
                 changed |-> FALSE, made |-> {}]
<1>1. a \in Reducer /\ a.rev >= adm.rev /\ a.replays = adm.replays
  BY FactsType, AcceptsTypes DEF AdminTypeInv, CallTypeInv
<1>2. call = None /\ did' = did
  BY DEF Submit
<1>3. did \in Did /\ client \in Client
  BY DEF AdminTypeInv, CallTypeInv
<1>4. CASE UNCHANGED <<adm, call, client>>
  BY <1>2, <1>3, <1>4 DEF staysPut, callKind
<1>5. CASE adm' = a /\ UNCHANGED <<call, client>>
  <2> HIDE DEF a
  <2> QED BY <1>1, <1>2, <1>3, <1>5 DEF looked, callKind
<1>6. CASE /\ replayOf(k) = {} /\ expects(a, req) /\ hasSlot(a)
           /\ adm' = withSlot(a) /\ call' = c
           /\ client' = [client EXCEPT !.sent[k] = req]
  <2> HIDE DEF a
  <2>1. /\ adm' \in Reducer /\ adm'.rev = a.rev
        /\ \A i \in 1..Len(a.replays) :
             \/ a.replays[i].rev < a.rev
             \/ \E j \in 1..Len(adm'.replays) :
                  adm'.replays[j] = a.replays[i]
    BY <1>1, <1>6, SlotTypes
  <2>2. /\ c \in Execution /\ c.at = "effect" /\ c.key = k /\ c.req = req
    BY DEF Execution
  <2>3. req.rev = a.rev
    BY <1>6 DEF expects
  <2>4. client' \in Client
    BY <1>3, <1>6 DEF Client
  <2> HIDE DEF c
  <2> QED BY <1>1, <1>2, <1>6, <2>1, <2>2, <2>3, <2>4 DEF begun, callKind
<1> QED BY <1>4, <1>5, <1>6, Zenon DEF Submit

LEMMA SnapshotKind ==
    ASSUME AdminTypeInv, NEW view \in {"observation", "candidate", "partner"},
           AdminSnapshot(view)
    PROVE  callKind
<1> DEFINE b == accepts(adm, facts)
           a == issued(b, view, shown(facts, view))
           hs == {x \in client.handles : x.rev = a.rev} \cup
                 {x \in a.handles : x.kind = view}
<1>1. /\ call = None /\ did' = did /\ adm' = a
      /\ client' = [client EXCEPT !.rev = a.rev, !.handles = hs]
      /\ \/ call' = None
         \/ /\ fac.action # None
            /\ call' = [at |-> "observe", id |-> fac.action.id]
  BY DEF AdminSnapshot
<1>2. b \in Reducer /\ b.rev >= adm.rev /\ b.replays = adm.replays
  BY FactsType, AcceptsTypes DEF AdminTypeInv, CallTypeInv
<1>3. shown(facts, view) \subseteq Sighting \cup Selected \cup Nat
  BY FactsType, ShownTypes DEF AdminTypeInv
<1> HIDE DEF b
<1>4. a \in Reducer /\ a.rev = b.rev /\ a.replays = b.replays
  BY <1>2, <1>3, IssuedTypes
<1> HIDE DEF a
<1>5. hs \in SUBSET Handle /\ a.rev \in Nat
  BY <1>4, ReducerTypes DEF AdminTypeInv, CallTypeInv, Client
<1> HIDE DEF hs
<1>6. client' \in Client
  BY <1>1, <1>5 DEF AdminTypeInv, CallTypeInv, Client
<1>7. call' \in Showing \cup {None}
  BY <1>1 DEF AdminTypeInv, PeerTypeInv, Facade, Action, Showing
<1> QED BY <1>1, <1>2, <1>4, <1>6, <1>7 DEF looked, callKind

LEMMA AdminNextKind ==
    ASSUME TypeInv, AdminTypeInv, SelectInv, [AdminNext]_allVars
    PROVE  callKind
<1>1. ASSUME UNCHANGED <<adm, call, client, did>> PROVE callKind
  BY <1>1 DEF staysPut, callKind, AdminTypeInv, CallTypeInv
<1>2. CASE UNCHANGED allVars \/ (Next /\ withBridge)
  BY <1>1, <1>2, Zenon DEF allVars, adminVars, withBridge
<1>3. ASSUME NEW k \in Keys, administering,
             \/ \E req \in requests : Submit(k, req)
             \/ client.sent[k] # None /\ Submit(k, client.sent[k])
      PROVE  callKind
  <2>1. client.sent[k] \in Request \cup {None}
    BY DEF AdminTypeInv, CallTypeInv, Client
  <2> QED BY <1>3, <2>1, RequestTypes, SubmitKind
<1>4. ASSUME NEW view \in views, administering, AdminSnapshot(view)
      PROVE  callKind
  BY <1>4, RequestTypes, SnapshotKind
<1> QED BY <1>2, <1>3, <1>4, CallStepKind, OtherKind DEF AdminNext, callKind

LEMMA KindTypes ==
    ASSUME AdminTypeInv, callKind
    PROVE  CallTypeInv'
<1>1. adm \in Reducer /\ client \in Client /\ did \in Did
      /\ call \in Execution \cup Showing \cup {None}
  BY DEF AdminTypeInv, CallTypeInv
<1> QED BY <1>1 DEF callKind, CallTypeInv, staysPut, looked, begun, dropped,
           movedOn, ended, answeredNow

-----------------------------------------------------------------------------
(* One effect per key.                                                     *)

LEMMA RanTypes ==
    ASSUME AdminTypeInv, NEW x \in did.ran
    PROVE  x[2].rev \in Nat /\ x = <<x[1], x[2]>>
BY DEF AdminTypeInv, CallTypeInv, Did, Request

LEMMA KindReplays ==
    ASSUME AdminTypeInv, ReplayInv, callKind
    PROVE  ReplayInv'
<1>1. /\ adm.rev \in Nat /\ Len(adm.replays) \in Nat
      /\ \A i \in 1..Len(adm.replays) : adm.replays[i].rev \in Nat
  BY ReducerTypes DEF AdminTypeInv, CallTypeInv, Replay
<1>2. call \in Execution => executing
  BY CallsDistinct DEF executing
<1>3. call' \in Execution => call' # None
  BY CallsDistinct
<1>4. CASE staysPut
  BY <1>4 DEF staysPut, ReplayInv, recorded, executing
<1>5. CASE looked
  <2>1. adm'.rev \in Nat
    BY <1>5 DEF looked, Reducer
  <2>2. call' # None => call'.at = "observe"
    BY <1>5, CallsDistinct DEF looked
  <2>3. ~executing'
    BY <2>2 DEF executing
  <2>4. ASSUME NEW x \in did.ran PROVE recorded(x)'
    <3>1. recorded(x) /\ call = None
      BY <1>5 DEF ReplayInv, looked
    <3>2. x[2].rev \in Nat
      BY RanTypes
    <3> QED BY <1>1, <1>5, <2>1, <3>1, <3>2 DEF recorded, looked
  <2> QED BY <1>5, <2>3, <2>4 DEF ReplayInv, looked
<1>6. CASE begun
  <2>1. adm'.rev \in Nat
    BY <1>6 DEF begun, Reducer
  <2>2. ASSUME NEW x \in did.ran
        PROVE  recorded(x)' /\ x # <<call'.key, call'.req>>
    <3>1. /\ \/ \E i \in 1..Len(adm.replays) :
                  /\ adm.replays[i].key = x[1]
                  /\ x[2].rev <= adm.replays[i].rev
             \/ x[2].rev < adm.rev
          /\ x[2].rev \in Nat
      BY <1>6, RanTypes DEF ReplayInv, recorded, begun
    <3>2. CASE x[2].rev < adm.rev
      <4>1. x[2].rev < adm'.rev
        BY <1>1, <1>6, <2>1, <3>1, <3>2 DEF begun
      <4> QED BY <1>6, <2>1, <3>1, <4>1 DEF recorded, begun
    <3>3. ASSUME NEW i \in 1..Len(adm.replays), adm.replays[i].key = x[1],
                 x[2].rev <= adm.replays[i].rev
          PROVE  recorded(x)' /\ x # <<call'.key, call'.req>>
      <4>1. x # <<call'.key, call'.req>>
        BY <1>6, <3>3 DEF begun, replayOf
      <4>2. CASE adm.replays[i].rev < adm'.rev
        <5>1. x[2].rev < adm'.rev
          BY <1>1, <2>1, <3>1, <3>3, <4>2
        <5> QED BY <4>1, <5>1 DEF recorded
      <4>3. CASE \E j \in 1..Len(adm'.replays) : adm'.replays[j] = adm.replays[i]
        BY <3>3, <4>1, <4>3 DEF recorded
      <4> QED BY <1>6, <4>2, <4>3 DEF begun
    <3> QED BY <3>1, <3>2, <3>3
  <2> QED BY <1>6, <2>2 DEF ReplayInv, begun, executing
<1>7. CASE dropped
  <2>1. \A x \in did.ran : recorded(x) => recorded(x)'
    BY <1>7 DEF dropped, recorded
  <2> QED BY <1>7, <2>1 DEF dropped, ReplayInv, executing
<1>8. CASE movedOn
  <2>1. \A x \in did.ran : recorded(x) => recorded(x)'
    BY <1>8 DEF movedOn, recorded
  <2> QED BY <1>2, <1>8, <2>1 DEF movedOn, ReplayInv, executing
<1>9. CASE ended
  <2>1. \A x \in did.ran : recorded(x) => recorded(x)'
    BY <1>9 DEF ended, recorded
  <2>2. recorded(<<call.key, call.req>>)'
    BY <1>3, <1>9 DEF ended, recorded
  <2>3. executing /\ <<call.key, call.req>> \notin did.ran
    BY <1>2, <1>9 DEF ended, ReplayInv
  <2> QED BY <1>2, <1>9, <2>1, <2>2, <2>3 DEF ended, ReplayInv, executing
<1>10. CASE answeredNow
  <2>1. /\ adm'.rev \in Nat /\ Len(adm'.replays) = Len(adm.replays) + 1
        /\ adm'.rev >= adm.rev
    BY <1>10 DEF answeredNow, Reducer
  <2>2. call.req.rev = adm.rev
    BY <1>2, <1>10 DEF ReplayInv, answeredNow
  <2>3. ASSUME NEW x \in did.ran PROVE recorded(x)'
    <3>1. recorded(x) /\ x[2].rev \in Nat
      BY RanTypes DEF ReplayInv
    <3>2. CASE x = <<call.key, call.req>>
      <4>1. x[1] = call.key /\ x[2].rev <= adm'.rev
        BY <1>1, <2>1, <2>2, <3>2
      <4>2. Len(adm.replays) + 1 \in 1..Len(adm'.replays)
        BY <1>1, <2>1
      <4> QED BY <1>10, <4>1, <4>2 DEF answeredNow, recorded
    <3>3. ASSUME NEW i \in 1..Len(adm.replays), adm.replays[i].key = x[1],
                 x[2].rev <= adm.replays[i].rev
          PROVE  recorded(x)'
      <4>1. i \in 1..Len(adm'.replays) /\ adm'.replays[i] = adm.replays[i]
        BY <1>1, <1>10, <2>1 DEF answeredNow
      <4> QED BY <3>3, <4>1 DEF recorded
    <3>4. CASE x[2].rev < adm.rev
      BY <1>1, <2>1, <3>1, <3>4 DEF recorded
    <3> QED BY <3>1, <3>2, <3>3, <3>4 DEF recorded
  <2> QED BY <1>10, <2>3 DEF answeredNow, ReplayInv, executing
<1> QED BY <1>4, <1>5, <1>6, <1>7, <1>8, <1>9, <1>10 DEF callKind

-----------------------------------------------------------------------------
(* The coordinator and the facade.                                         *)

\* A selection that is being made outlives the window, its candidate and a
\* commit: it is only marked.  No action is left.
LEMMA WindowSteps ==
    ASSUME PeerTypeInv, ActionInv,
           windowClosed \/ windowOpened \/ candidateCancelled \/ committed
    PROVE  /\ ActionInv'
           /\ ft.sel # None /\ ~ft.sel.done => ft'.sel # None /\ ~ft'.sel.done
<1> DEFINE s == selectionFinished(ft.sel)
           c == cancelled(fac.conn)
<1>1. c # None => c.gen > 0
  BY DEF cancelled, ActionInv, PeerTypeInv, Facade, Connection
<1>2. ft.sel # None /\ ~ft.sel.done => s # None /\ ~s.done
  <2>1. ASSUME ft.sel \in Reservation
        PROVE  /\ [ft.sel EXCEPT !.aborted = TRUE] \in Reservation
               /\ [ft.sel EXCEPT !.aborted = TRUE].done = ft.sel.done
    BY <2>1 DEF Reservation
  <2>2. ft.sel # None => ft.sel \in Reservation
    BY DEF PeerTypeInv, Coordinator
  <2> QED BY <2>1, <2>2, AdminAssumption DEF selectionFinished
<1> HIDE DEF s, c
<1>3. \/ fac' = [fac EXCEPT !.action = None, !.conn = c]
      \/ fac' = [fac EXCEPT !.action = None, !.conn = fac.conn]
      \/ fac' = [fac EXCEPT !.action = None]
      \/ fac' = [fac EXCEPT !.conn = c, !.action = None]
      \/ fac' = [fac EXCEPT !.epoch = fac.epoch + 1]
  BY Zenon DEF windowClosed, windowOpened, candidateCancelled, committed, c
<1>4. /\ fac'.conn \in {fac.conn, c}
      /\ fac'.action \in {fac.action, None}
  BY <1>3 DEF PeerTypeInv, Facade
<1>5. ActionInv'
  BY <1>1, <1>4 DEF ActionInv
<1>6. ft'.sel \in {ft.sel, s}
  <2>1. \/ ft' = [ft EXCEPT !.window = 0, !.cand = None, !.sel = s]
        \/ ft' = [ft EXCEPT !.cand = None, !.sel = s]
        \/ ft' = [ft EXCEPT !.window = 0, !.cand = None, !.sel = s,
                            !.partner = ft.partners + 1,
                            !.partners = ft.partners + 1]
        \/ ft' = [ft EXCEPT !.window = ft.windows + 1,
                            !.windows = ft.windows + 1]
    BY Zenon DEF windowClosed, windowOpened, candidateCancelled, committed, s
  <2> QED BY <2>1 DEF PeerTypeInv, Coordinator
<1> QED BY <1>2, <1>5, <1>6

LEMMA OwnAttempts ==
    ASSUME NEW a \in Action \cup {None}, a # None => ownAttempt(a),
           NEW g \in Nat, g > 0
    PROVE  /\ rebound(a, g) # None => ownAttempt(rebound(a, g))
           /\ completed(a, g) # None => ownAttempt(completed(a, g))
<1>1. CASE a = None
  BY <1>1 DEF rebound, completed
<1>2. CASE a \in Action
  <2>1. /\ a.gen \in Nat /\ a.floor \in Nat /\ a.before \in Nat
        /\ a # None => a.floor > a.before
    BY <1>2 DEF Action, ownAttempt
  <2>2. /\ [a EXCEPT !.gen = g].gen = g
        /\ [a EXCEPT !.gen = g].floor = a.floor
        /\ [a EXCEPT !.gen = g].before = a.before
        /\ [a EXCEPT !.gen = g].state = a.state
        /\ [a EXCEPT !.state = "terminal"].gen = a.gen
        /\ [a EXCEPT !.state = "terminal"].floor = a.floor
        /\ [a EXCEPT !.state = "terminal"].before = a.before
    BY <1>2 DEF Action
  <2>3. rebound(a, g) # None => ownAttempt(rebound(a, g))
    <3>1. CASE a # None /\ ~(g < a.floor) /\ a.gen = 0
      <4>1. rebound(a, g) = [a EXCEPT !.gen = g]
        BY <3>1 DEF rebound
      <4> QED BY <2>1, <2>2, <3>1, <4>1 DEF ownAttempt
    <3>2. CASE ~(a # None /\ ~(g < a.floor) /\ a.gen = 0)
      BY <3>2 DEF rebound
    <3> QED BY <3>1, <3>2
  <2>4. completed(a, g) # None => ownAttempt(completed(a, g))
    <3>1. CASE a # None /\ a.gen = g
      <4>1. completed(a, g) = [a EXCEPT !.state = "terminal"]
        BY <3>1 DEF completed
      <4> QED BY <2>1, <2>2, <3>1, <4>1 DEF ownAttempt
    <3>2. CASE ~(a # None /\ a.gen = g)
      BY <3>2 DEF completed
    <3> QED BY <3>1, <3>2
  <2> QED BY <2>3, <2>4
<1> QED BY <1>1, <1>2

LEMMA OwnArmed ==
    ASSUME PeerTypeInv, ActionInv
    PROVE  ownAttempt(armed.action) /\ armed.conn = fac.conn
<1> DEFINE a == [id |-> fac.actions + 1, state |-> "pending",
                 gen |-> IF attempting THEN fac.conn.gen ELSE 0,
                 floor |-> IF attempting THEN fac.conn.gen ELSE fac.next + 1,
                 before |-> IF attempting THEN 0 ELSE fac.next]
<1>1. ownAttempt(a)
  BY DEF PeerTypeInv, Facade, attempting, Connection, ActionInv, ownAttempt
<1>2. armed = [fac EXCEPT !.actions = fac.actions + 1, !.action = a]
  BY DEF armed
<1> HIDE DEF a
<1>3. armed.action = a /\ armed.conn = fac.conn
  BY <1>2 DEF PeerTypeInv, Facade
<1> QED BY <1>1, <1>3

keepsSelection ==
    ft.sel # None /\ ~ft.sel.done => ft'.sel # None /\ ~ft'.sel.done

LEMMA OtherPeers ==
    ASSUME PeerTypeInv, ActionInv, OtherStep
    PROVE  PeerTypeInv' /\ ActionInv' /\ keepsSelection
<1>1. bridge' = bridge
  BY DEF OtherStep, OtherOpens, WindowEnds, PeerSeen, CandidateArrives,
     CandidateCompletes, CandidateEnds, OtherConfirms, OtherRevokes,
     AttemptBegins, PairingDetail, Disconnected, move
<1>2. ft \in Coordinator /\ fac \in Facade
  BY DEF PeerTypeInv
<1>3. ASSUME windowClosed \/ windowOpened \/ candidateCancelled \/ committed
      PROVE  PeerTypeInv' /\ ActionInv' /\ keepsSelection
  BY <1>1, <1>3, WindowTypes, WindowSteps DEF PeerTypeInv, keepsSelection
<1>4. ASSUME fac' = fac, ft' \in Coordinator, ft'.sel = ft.sel
      PROVE  PeerTypeInv' /\ ActionInv' /\ keepsSelection
  BY <1>1, <1>4 DEF PeerTypeInv, ActionInv, keepsSelection
<1>5. CASE OtherOpens \/ WindowEnds \/ CandidateEnds \/ OtherConfirms
  BY <1>3, <1>5 DEF OtherOpens, WindowEnds, CandidateEnds, OtherConfirms
<1>6. CASE PeerSeen
  <2>1. PICK o \in Seen : ft' = [ft EXCEPT !.valid = TRUE,
                                           !.seen = ft.seen + 1, !.obs = o]
    <3>1. PICK again \in BOOLEAN :
            LET ref == IF again THEN ft.obs.ref ELSE ft.obs.ref + 1
                life == IF ft.sel # None /\ ft.sel.ref = ref
                        THEN IF ft.sel.done THEN "consumed" ELSE "reserved"
                        ELSE IF again /\ ft.obs.life = "consumed"
                        THEN "consumed" ELSE "visible"
            IN  ft' = [ft EXCEPT !.valid = TRUE, !.seen = ft.seen + 1,
                         !.obs = [ref |-> ref, rev |-> ft.seen + 1,
                                  life |-> life]]
      BY <1>6 DEF PeerSeen
    <3> DEFINE ref == IF again THEN ft.obs.ref ELSE ft.obs.ref + 1
               life == IF ft.sel # None /\ ft.sel.ref = ref
                       THEN IF ft.sel.done THEN "consumed" ELSE "reserved"
                       ELSE IF again /\ ft.obs.life = "consumed"
                       THEN "consumed" ELSE "visible"
               o == [ref |-> ref, rev |-> ft.seen + 1, life |-> life]
    <3>2. ref \in Nat /\ ft.seen + 1 \in Nat
      BY <1>2 DEF Coordinator, Seen
    <3>3. life \in {"visible", "reserved", "consumed"}
      OBVIOUS
    <3>4. ft' = [ft EXCEPT !.valid = TRUE, !.seen = ft.seen + 1, !.obs = o]
      BY <3>1
    <3> HIDE DEF ref, life
    <3>5. o \in Seen
      BY <3>2, <3>3 DEF Seen
    <3> HIDE DEF o
    <3> QED BY <3>4, <3>5
  <2>2. ft.seen + 1 \in Nat
    BY <1>2 DEF Coordinator
  <2>3. ft' \in Coordinator /\ ft'.sel = ft.sel
    BY <1>2, <2>1, <2>2 DEF Coordinator
  <2> QED BY <1>4, <1>6, <2>3 DEF PeerSeen
<1>7. CASE CandidateArrives \/ CandidateCompletes \/ OtherRevokes
  <2>1. CASE CandidateArrives
    <3> DEFINE c == [n |-> ft.cands + 1, state |-> "incomplete"]
    <3>1. c \in Candidate /\ ft.cands + 1 \in Nat
      BY <1>2 DEF Coordinator, Candidate
    <3>2. ft' = [ft EXCEPT !.cands = ft.cands + 1, !.cand = c] /\ fac' = fac
      BY <2>1 DEF CandidateArrives
    <3> HIDE DEF c
    <3>3. ft' \in Coordinator /\ ft'.sel = ft.sel
      BY <1>2, <3>1, <3>2 DEF Coordinator
    <3> QED BY <1>4, <3>2, <3>3
  <2>2. CASE CandidateCompletes
    <3> DEFINE c == [ft.cand EXCEPT !.state = "complete"]
    <3>1. c \in Candidate
      BY <1>2, <2>2 DEF CandidateCompletes, Coordinator, Candidate
    <3>2. ft' = [ft EXCEPT !.cand = c] /\ fac' = fac
      BY <2>2 DEF CandidateCompletes
    <3> HIDE DEF c
    <3>3. ft' \in Coordinator /\ ft'.sel = ft.sel
      BY <1>2, <3>1, <3>2 DEF Coordinator
    <3> QED BY <1>4, <3>2, <3>3
  <2>3. CASE OtherRevokes
    <3>1. ft' = [ft EXCEPT !.partner = 0] /\ fac' = fac
      BY <2>3 DEF OtherRevokes
    <3>2. ft' \in Coordinator /\ ft'.sel = ft.sel
      BY <1>2, <3>1 DEF Coordinator
    <3> QED BY <1>4, <3>1, <3>2
  <2> QED BY <1>7, <2>1, <2>2, <2>3
<1>8. ASSUME ft' = ft, fac' \in Facade, ActionInv'
      PROVE  PeerTypeInv' /\ ActionInv' /\ keepsSelection
  BY <1>1, <1>8 DEF PeerTypeInv, keepsSelection
<1>9. CASE AttemptBegins
  <2> DEFINE g == fac.next + 1
             c == [gen |-> g, live |-> TRUE, epoch |-> fac.epoch]
             a == rebound(fac.action, g)
  <2>1. /\ g \in Nat /\ g > 0 /\ fac.action \in Action \cup {None}
        /\ fac.epoch \in Nat
    BY <1>2 DEF Facade
  <2>2. a \in Action \cup {None} /\ (a # None => ownAttempt(a))
    BY <2>1, ActionTypes, OwnAttempts DEF ActionInv
  <2>3. c \in Connection /\ c.gen > 0
    BY <2>1 DEF Connection
  <2>4. fac' = [fac EXCEPT !.next = g, !.conn = c, !.action = a] /\ ft' = ft
    BY <1>9 DEF AttemptBegins
  <2> HIDE DEF g, c, a
  <2>5. fac' \in Facade /\ fac'.conn = c /\ fac'.action = a
    BY <1>2, <2>1, <2>2, <2>3, <2>4 DEF Facade
  <2> QED BY <1>8, <2>2, <2>3, <2>4, <2>5 DEF ActionInv
<1>10. CASE PairingDetail
  <2> DEFINE g == fac.conn.gen
             b == rebound(fac.action, g)
             a == completed(b, g)
  <2>1. /\ g \in Nat /\ g > 0 /\ fac.action \in Action \cup {None}
    BY <1>2, <1>10 DEF Facade, Connection, PairingDetail, ActionInv
  <2>2. b \in Action \cup {None} /\ (b # None => ownAttempt(b))
    BY <2>1, ActionTypes, OwnAttempts DEF ActionInv
  <2> HIDE DEF b
  <2>3. a \in Action \cup {None} /\ (a # None => ownAttempt(a))
    BY <2>1, <2>2, ActionTypes, OwnAttempts
  <2>4. fac' = [fac EXCEPT !.action = a] /\ ft' = ft
    BY <1>10 DEF PairingDetail, b
  <2> HIDE DEF a
  <2>5. fac' \in Facade /\ fac'.conn = fac.conn /\ fac'.action = a
    BY <1>2, <2>3, <2>4 DEF Facade
  <2> QED BY <1>8, <2>3, <2>4, <2>5 DEF ActionInv
<1>11. CASE Disconnected
  <2> DEFINE g == fac.conn.gen
             a == completed(fac.action, g)
  <2>1. /\ g \in Nat /\ g > 0 /\ fac.action \in Action \cup {None}
    BY <1>2, <1>11 DEF Facade, Connection, Disconnected, ActionInv
  <2>2. a \in Action \cup {None} /\ (a # None => ownAttempt(a))
    BY <2>1, ActionTypes, OwnAttempts DEF ActionInv
  <2>3. fac' = [fac EXCEPT !.conn = None, !.action = a] /\ ft' = ft
    BY <1>11 DEF Disconnected
  <2> HIDE DEF a
  <2>4. fac' \in Facade /\ fac'.conn = None /\ fac'.action = a
    BY <1>2, <2>2, <2>3 DEF Facade
  <2> QED BY <1>8, <2>2, <2>3, <2>4 DEF ActionInv
<1> QED BY <1>5, <1>6, <1>7, <1>9, <1>10, <1>11 DEF OtherStep

\* What a call leaves of the coordinator and the facade; it comes to finish a
\* selection by reserving it.
LEMMA CallPeers ==
    ASSUME AdminTypeInv, SelectInv, ActionInv, CallStep
    PROVE  PeerTypeInv' /\ ActionInv'
<1>1. ft \in Coordinator /\ fac \in Facade /\ bridge \subseteq Selected
      /\ PeerTypeInv
  BY DEF AdminTypeInv, PeerTypeInv
<1>2. pruned \subseteq Selected
  BY <1>1 DEF pruned
<1>3. ASSUME ft' \in Coordinator, fac' = fac, bridge' \subseteq Selected
      PROVE  PeerTypeInv' /\ ActionInv'
  BY <1>1, <1>3 DEF PeerTypeInv, ActionInv
<1>4. CASE EffectWithheld \/ EffectRefused \/ EffectRetry \/ EffectSelect
           \/ Commit
  BY <1>1, <1>2, <1>3, <1>4
     DEF EffectWithheld, EffectRefused, EffectRetry, EffectSelect, Commit
<1>5. ASSUME windowClosed \/ windowOpened \/ candidateCancelled \/ committed,
             bridge' \subseteq Selected
      PROVE  PeerTypeInv' /\ ActionInv'
  BY <1>1, <1>5, WindowTypes, WindowSteps DEF PeerTypeInv
<1>6. ASSUME fac' = [fac EXCEPT !.action = None], ft' = ft,
             bridge' \subseteq Selected
      PROVE  PeerTypeInv' /\ ActionInv'
  <2>1. fac' \in Facade /\ fac'.action = None /\ fac'.conn = fac.conn
    BY <1>1, <1>6 DEF Facade
  <2> QED BY <1>1, <1>6, <2>1 DEF PeerTypeInv, ActionInv
<1>7. CASE EffectOpen \/ EffectClose \/ EffectCancel
  BY <1>1, <1>5, <1>6, <1>7 DEF EffectOpen, EffectClose, EffectCancel
<1>8. CASE ObserveAction
  BY <1>1, <1>3, <1>6, <1>8 DEF ObserveAction
<1>9. CASE EffectUntrust
  <2>1. ft' = [ft EXCEPT !.partner = 0] /\ fac' = fac /\ bridge' = bridge
    BY <1>9 DEF EffectUntrust
  <2> QED BY <1>1, <1>3, <2>1 DEF Coordinator
<1>10. CASE EffectConfirm
  <2>1. call # None /\ call.at = "effect" /\ call.req.op = "confirm" /\ applies
    BY <1>10 DEF EffectConfirm, effect
  <2>2. ft.cand # None
    BY <2>1 DEF applies, candidateCurrent
  <2>3. CASE ft' = [ft EXCEPT !.cand.state = "transient"] /\ fac' = fac
    <3> DEFINE c == [ft.cand EXCEPT !.state = "transient"]
    <3>1. c \in Candidate
      BY <1>1, <2>2 DEF Coordinator, Candidate
    <3>2. ft' = [ft EXCEPT !.cand = c]
      BY <2>3
    <3> HIDE DEF c
    <3>3. ft' \in Coordinator
      BY <1>1, <3>1, <3>2 DEF Coordinator
    <3> QED BY <1>1, <1>3, <1>10, <2>3, <3>3 DEF EffectConfirm
  <2> QED BY <1>1, <1>5, <1>10, <2>3 DEF EffectConfirm
<1>11. CASE EffectConnect
  <2>1. /\ ft' = ft /\ bridge' \subseteq bridge
        /\ fac' = armed \/ fac' = [armed EXCEPT !.action = None]
    BY <1>11 DEF EffectConnect
  <2>2. /\ armed \in Facade /\ armed.action \in Action
        /\ [armed EXCEPT !.action = None] \in Facade
        /\ ownAttempt(armed.action) /\ armed.conn = fac.conn
    BY <1>1, ArmedTypes, OwnArmed
  <2>3. /\ [armed EXCEPT !.action = None].action = None
        /\ [armed EXCEPT !.action = None].conn = fac.conn
    BY <2>2 DEF Facade
  <2>4. /\ fac' \in Facade /\ fac'.conn = fac.conn
        /\ fac'.action # None => ownAttempt(fac'.action)
    BY <2>1, <2>2, <2>3
  <2> QED BY <1>1, <2>1, <2>4 DEF PeerTypeInv, ActionInv
<1>12. CASE ReserveSelection
  <2> DEFINE s == [n |-> ft.sels + 1, ref |-> ft.obs.ref, done |-> FALSE,
                   aborted |-> FALSE]
             o == [ft.obs EXCEPT !.life = "reserved"]
  <2>1. s \in Reservation /\ o \in Seen /\ ft.sels + 1 \in Nat
    BY <1>1 DEF Coordinator, Reservation, Seen
  <2>2. /\ ft' = [ft EXCEPT !.sels = ft.sels + 1, !.obs = o, !.sel = s]
        /\ fac' = fac /\ bridge' = bridge
    BY <1>12 DEF ReserveSelection, reserved
  <2> HIDE DEF s, o
  <2>3. ft' \in Coordinator
    BY <1>1, <2>1, <2>2 DEF Coordinator
  <2> QED BY <1>1, <1>3, <2>2, <2>3
<1>13. CASE FinishSelection
  <2> DEFINE made == [n |-> ft.sel.n, ref |-> ft.sel.ref]
             s == [ft.sel EXCEPT !.done = TRUE]
             o == [ft.obs EXCEPT !.life = IF ft.obs.ref = ft.sel.ref
                                          THEN "consumed" ELSE ft.obs.life]
  <2>1. ft.sel \in Reservation
    BY <1>1, <1>13 DEF FinishSelection, SelectInv, Coordinator
  <2>2. made \in Selected /\ s \in Reservation
    BY <2>1 DEF Reservation, Selected
  <2>3. o \in Seen /\ noObservation \in Seen
    BY <1>1 DEF Coordinator, Seen, noObservation
  <2>4. /\ fac' = fac
        /\ \/ ft' = [ft EXCEPT !.sel = s, !.obs = o]
              /\ bridge' = bridge \cup {made}
           \/ ft' = [ft EXCEPT !.sel = None, !.obs = noObservation,
                               !.valid = FALSE]
              /\ bridge' = bridge
    BY <1>13 DEF FinishSelection
  <2> HIDE DEF made, s, o
  <2>5. ft' \in Coordinator
    BY <1>1, <2>2, <2>3, <2>4 DEF Coordinator
  <2> QED BY <1>1, <1>3, <2>2, <2>4, <2>5
<1> QED BY <1>4, <1>7, <1>8, <1>9, <1>10, <1>11, <1>12, <1>13 DEF CallStep

LEMMA Finishing ==
    ASSUME AdminTypeInv, SelectInv, CallStep, call' # None,
           call'.at = "finish"
    PROVE  ft'.sel # None /\ ~ft'.sel.done
<1>1. ASSUME NEW op, effect(op)
      PROVE  /\ call # None /\ call.at = "effect" /\ call.req.op = op
             /\ UNCHANGED <<adm, client>>
  BY <1>1 DEF effect
<1>2. ~ended
  BY DEF ended
<1>3. ~EffectRefused /\ ~FinishSelection /\ ~Commit
  BY <1>2, EndsKind, FinishKind DEF EffectRefused, Commit
<1>4. ~(\/ EffectOpen \/ EffectClose \/ EffectConnect \/ EffectConfirm
        \/ EffectCancel \/ EffectRetry \/ EffectUntrust)
  BY <1>1, <1>2, EndsKind DEF EffectOpen, EffectClose, EffectConnect,
     EffectConfirm, EffectCancel, EffectRetry, EffectUntrust
<1>5. ~EffectSelect
  <2>1. ASSUME EffectSelect PROVE FALSE
    <3>1. /\ call # None /\ call.at = "effect"
          /\ call' = [call EXCEPT !.at = "reserve"]
      BY <1>1, <2>1 DEF EffectSelect
    <3>2. call \in Execution
      BY <3>1, ExecutionTypes
    <3> QED BY <3>1, <3>2 DEF Execution
  <2> QED BY <2>1
<1>6. ReserveSelection
  BY <1>3, <1>4, <1>5 DEF CallStep, EffectWithheld, ObserveAction
<1> DEFINE s == [n |-> ft.sels + 1, ref |-> ft.obs.ref, done |-> FALSE,
                 aborted |-> FALSE]
           o == [ft.obs EXCEPT !.life = "reserved"]
<1>7. s \in Reservation /\ ~s.done
  BY DEF AdminTypeInv, PeerTypeInv, Coordinator, Seen, Reservation
<1>8. ft' = [ft EXCEPT !.sels = ft.sels + 1, !.obs = o, !.sel = s]
  BY <1>6 DEF ReserveSelection, reserved
<1> HIDE DEF s, o
<1>9. ft'.sel = s
  BY <1>8 DEF AdminTypeInv, PeerTypeInv, Coordinator
<1> QED BY <1>7, <1>9, AdminAssumption

-----------------------------------------------------------------------------
(* Everything that is inductive about administration.                      *)

AdminInv == /\ RuntimeInv /\ AdminTypeInv /\ SelectInv /\ ReplayInv
            /\ ActionInv

LEMMA AdminInitInv == AdminInit => AdminInv
<1> SUFFICES ASSUME AdminInit PROVE AdminInv
  OBVIOUS
<1>1. RuntimeInv /\ AdminTypeInv
  BY InitRuntime, AdminInitTypes DEF AdminInit
<1>2. SelectInv /\ ReplayInv /\ ActionInv
  BY DEF AdminInit, SelectInv, ReplayInv, ActionInv, executing
<1> QED BY <1>1, <1>2 DEF AdminInv

\* What a step leaves of the coordinator, the facade and the bridge.
LEMMA AdminPeers ==
    ASSUME AdminTypeInv, SelectInv, ActionInv, [AdminNext]_allVars
    PROVE  /\ PeerTypeInv' /\ ActionInv'
           /\ call' # None /\ call'.at = "finish"
              => \/ ft'.sel # None /\ ~ft'.sel.done
                 \/ ~staysPut /\ ~movedOn
<1>1. PeerTypeInv /\ fac \in Facade
  BY DEF AdminTypeInv, PeerTypeInv
<1>2. ASSUME call' = call, keepsSelection, call' # None, call'.at = "finish"
      PROVE  ft'.sel # None /\ ~ft'.sel.done
  BY <1>2 DEF SelectInv, keepsSelection
<1>3. CASE UNCHANGED adminVars
  BY <1>1, <1>2, <1>3 DEF adminVars, PeerTypeInv, ActionInv, keepsSelection
<1>4. CASE /\ bridge' = {} /\ fac' = [fac EXCEPT !.action = None]
           /\ UNCHANGED <<adm, call, client, ft, did>>
  <2>1. fac' \in Facade /\ fac'.action = None /\ fac'.conn = fac.conn
    BY <1>1, <1>4 DEF Facade
  <2> QED BY <1>1, <1>2, <1>4, <2>1 DEF PeerTypeInv, ActionInv, keepsSelection
<1>5. CASE /\ UNCHANGED <<ft, fac>> /\ bridge' \subseteq bridge /\ call = None
  <2>1. ~movedOn /\ (staysPut => call' = None)
    BY <1>5, CallsDistinct DEF movedOn, staysPut
  <2> QED BY <1>1, <1>5, <2>1 DEF PeerTypeInv, ActionInv
<1>6. ASSUME NEW k, NEW req, Submit(k, req)
      PROVE  UNCHANGED <<ft, fac>> /\ bridge' \subseteq bridge /\ call = None
  BY <1>6 DEF Submit, pruned
<1>7. ASSUME NEW view, AdminSnapshot(view)
      PROVE  UNCHANGED <<ft, fac>> /\ bridge' \subseteq bridge /\ call = None
  BY <1>7 DEF AdminSnapshot, pruned
<1>8. CASE CallStep
  BY <1>8, CallPeers, Finishing
<1>9. CASE OtherStep
  BY <1>1, <1>2, <1>9, OtherPeers, OtherKind DEF staysPut
<1>10. UNCHANGED allVars => UNCHANGED adminVars
  BY DEF allVars
<1>11. withBridge => \/ UNCHANGED adminVars
                     \/ /\ bridge' = {} /\ fac' = [fac EXCEPT !.action = None]
                        /\ UNCHANGED <<adm, call, client, ft, did>>
  BY Zenon DEF withBridge
<1> QED BY <1>3, <1>4, <1>5, <1>6, <1>7, <1>8, <1>9, <1>10, <1>11
        DEF AdminNext

LEMMA AdminNextInv == AdminInv /\ [AdminNext]_allVars => AdminInv'
<1> SUFFICES ASSUME AdminInv, [AdminNext]_allVars PROVE AdminInv'
  OBVIOUS
<1>1. /\ RuntimeInv /\ TypeInv /\ AdminTypeInv /\ SelectInv /\ ReplayInv
      /\ ActionInv
  BY DEF AdminInv, RuntimeInv
<1>2. callKind
  BY <1>1, AdminNextKind
<1>3. RuntimeInv' /\ CallTypeInv' /\ ReplayInv'
  BY <1>1, <1>2, AdminKeepsRuntime, KindTypes, KindReplays
<1>4. PeerTypeInv' /\ ActionInv'
  BY <1>1, AdminPeers
<1>5. ASSUME call' # None
      PROVE  /\ call'.at \in {"reserve", "finish"} => call'.req.op = "select"
             /\ call'.at = "finish" => staysPut \/ movedOn
  <2>1. CASE staysPut
    BY <1>1, <1>5, <2>1 DEF staysPut, SelectInv
  <2>2. CASE looked
    BY <1>5, <2>2, CallsDistinct DEF looked
  <2>3. CASE begun \/ dropped \/ movedOn \/ ended \/ answeredNow
    BY <1>5, <2>3 DEF begun, dropped, movedOn, ended, answeredNow
  <2> QED BY <1>2, <2>1, <2>2, <2>3 DEF callKind
<1>6. SelectInv'
  BY <1>1, <1>5, AdminPeers DEF SelectInv
<1> QED BY <1>3, <1>4, <1>6 DEF AdminInv, AdminTypeInv

\* A request takes effect once, however often it is sent under its key, and
\* also after its answer was evicted.
THEOREM EffectsOnce == AdminSpec => []OneEffectPerKey
<1>1. AdminInv => OneEffectPerKey
  BY DEF AdminInv, ReplayInv, OneEffectPerKey
<1> QED BY <1>1, AdminInitInv, AdminNextInv, PTL DEF AdminSpec

\* The outcome of an action is of the attempt that it started or found under
\* way.
THEOREM ActionsOwnAttempt == AdminSpec => []ActionOfItsAttempt
<1>1. AdminInv => ActionOfItsAttempt
  <2> SUFFICES ASSUME AdminInv, fac.action # None,
                      fac.action.state = "terminal"
               PROVE  fac.action.gen > fac.action.before
    BY DEF ActionOfItsAttempt
  <2> QED BY DEF AdminInv, ActionInv, ownAttempt
<1> QED BY <1>1, AdminInitInv, AdminNextInv, PTL DEF AdminSpec

\* A call changes the object that the operator was shown: the candidate, the
\* association or the peer of its handle, whatever others did while it ran.
THEOREM CallsActOnWhatWasSeen == AdminSpec => ActsOnWhatWasSeen
<1> DEFINE Acts ==
      call # None /\ call' # call =>
         /\ call.at = "effect" /\ call.req.op \in {"confirm", "cancel"}
            /\ ft' # ft => ft.cand.n = target
         /\ call.at = "effect" /\ call.req.op = "untrust"
            /\ ft' # ft => ft.partner = target
         /\ call.at = "reserve" /\ ft' # ft => ft.obs.ref = target.ref
<1>1. AdminInv /\ [AdminNext]_allVars => [Acts]_allVars
  <2> SUFFICES ASSUME AdminInv, AdminNext, call # None, call' # call,
                      ft' # ft
               PROVE  Acts
    BY DEF allVars, adminVars
  <2>1. CallStep
    <3>1. ~withBridge
      BY DEF withBridge, adminVars
    <3>2. ASSUME NEW k, NEW req, Submit(k, req) PROVE FALSE
      BY <3>2 DEF Submit
    <3>3. ASSUME NEW view, AdminSnapshot(view) PROVE FALSE
      BY <3>3 DEF AdminSnapshot
    <3>4. ~OtherStep
      BY OtherKind DEF AdminInv, staysPut
    <3> QED BY <3>1, <3>2, <3>3, <3>4 DEF AdminNext
  <2>2. ASSUME NEW op, effect(op)
        PROVE  call.at = "effect" /\ call.req.op = op /\ applies
    BY <2>2 DEF effect
  <2>3. CASE EffectConfirm \/ EffectCancel
    <3>1. /\ call.at = "effect" /\ applies
          /\ call.req.op \in {"confirm", "cancel"}
      BY <2>2, <2>3 DEF EffectConfirm, EffectCancel
    <3>2. candidateCurrent(target)
      BY <3>1 DEF applies
    <3> QED BY <3>1, <3>2 DEF candidateCurrent
  <2>4. CASE EffectUntrust
    <3>1. call.at = "effect" /\ applies /\ call.req.op = "untrust"
      BY <2>2, <2>4 DEF EffectUntrust
    <3>2. ft.partner = target
      BY <3>1 DEF applies
    <3> QED BY <3>1, <3>2
  <2>5. CASE ReserveSelection
    <3>1. call.at = "reserve" /\ applies
      BY <2>5 DEF ReserveSelection
    <3>2. call.req.op = "select"
      BY <3>1 DEF AdminInv, SelectInv
    <3>3. reservable(target.ref)
      BY <3>1, <3>2 DEF applies
    <3> QED BY <3>1, <3>3 DEF reservable
  <2>6. CASE EffectOpen \/ EffectClose
    <3>1. call.at = "effect" /\ call.req.op \in {"open", "close"}
      BY <2>2, <2>6 DEF EffectOpen, EffectClose
    <3> QED BY <3>1
  <2>7. CASE FinishSelection
    BY <2>7 DEF FinishSelection
  <2> QED BY <2>1, <2>3, <2>4, <2>5, <2>6, <2>7
          DEF CallStep, EffectWithheld, EffectRefused, EffectSelect,
              EffectConnect, EffectRetry, Commit, ObserveAction
<1> QED BY <1>1, AdminInitInv, AdminNextInv, PTL
        DEF AdminSpec, ActsOnWhatWasSeen

=============================================================================
