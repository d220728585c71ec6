------------------------ MODULE FeatureReads_proofs ------------------------
(***************************************************************************)
(* Proofs about FeatureReads: the leases, the tokens and the generations   *)
(* for every set of peers, addresses and callers, and every bound.         *)
(***************************************************************************)
EXTENDS FeatureReads, FiniteSetTheorems, TLAPS

-----------------------------------------------------------------------------
(* Types.  TypeOK is inductive together with what a thread, a call and a    *)
(* connection hold at each of their places.                                 *)

Files == [seen : Generations, safe : Generations]

Conns == {f \in [SKIs -> Connection] : \A s \in SKIs : f[s].up => f[s].n # 0}

Dues == [SKIs -> Seq(Callbacks)]

Bridges == [highWater : [SKIs -> Nat], pending : [SKIs -> Nat],
            bySKI : [SKIs -> Lease \cup {None}],
            byAddr : [Addresses -> Lease \cup {None}],
            inventory : [SKIs -> Item \cup {None}]]

Thread == {r \in [at : Places, ski : SKIs \cup {None}, epoch : Nat,
                  index : Nat, lease : Lease \cup {None}] :
             /\ r.at # "idle" => r.ski \in SKIs
             /\ r.at = "admit" => r.lease \in Lease}

Issuers == UNION {[present -> Token] : present \in SUBSET (1..MaxTokens)}

Call == {r \in [at : {"idle", "dispatch", "flight", "issue"},
                lease : Lease \cup {None}, read : 0..MaxConnections] :
           r.at # "idle" => r.lease \in Lease}

Frame == [read : 0..MaxConnections, sent : Connections]

Ghosts == {g \in [allocated : SUBSET Allocation, replaced : SUBSET Nat,
                  frames : SUBSET Frame, issued : 0..MaxTokens,
                  uses : [1..MaxTokens -> Nat], conns : 0..MaxConnections] :
             IsFiniteSet(g.allocated)}

Disturbances == [{"crash", "other"} -> Nat]

TypeInv ==
    /\ file \in Files
    /\ epoch \in Nat \ {0}
    /\ conn \in Conns
    /\ due \in Dues
    /\ obs \in [SKIs -> Observation]
    /\ bridge \in Bridges
    /\ active \in {"on", "closing", "off"}
    /\ thread \in [Threads -> Thread]
    /\ issuer \in Issuers
    /\ call \in [Callers -> Call]
    /\ candidate \in SKIs \cup {None}
    /\ ghost \in Ghosts
    /\ disturbances \in Disturbances

LEMMA TypeInvTypeOK == TypeInv => TypeOK
<1> SUFFICES ASSUME TypeInv PROVE TypeOK OBVIOUS
<1>1. \E present \in SUBSET (1..MaxTokens) : issuer \in [present -> Token]
  BY DEF TypeInv, Issuers
<1>2. conn \in [SKIs -> Connection]
  BY DEF TypeInv, Conns
<1>3. thread \in [Threads -> [at : Places, ski : SKIs \cup {None},
                             epoch : Nat, index : Nat,
                             lease : Lease \cup {None}]]
  BY DEF TypeInv, Thread
<1>4. call \in [Callers ->
                   [at : {"idle", "dispatch", "flight", "issue"},
                    lease : Lease \cup {None}, read : 0..MaxConnections]]
  BY DEF TypeInv, Call
<1> QED BY <1>1, <1>2, <1>3, <1>4
        DEF TypeInv, TypeOK, Files, Dues, Bridges, Ghosts, Frame, Disturbances

\* What retiring a lease does to the maps (retireLeaseLocked).
LEMMA RetireFields ==
    ASSUME NEW b \in Bridges, NEW l \in Lease, NEW k \in BOOLEAN,
           l # None, ~Retired(b, l)
    PROVE  LET item == b.inventory[l.ski]
               left == IF ~k THEN None
                       ELSE IF item # None /\ item.generation = l.generation
                            THEN [item EXCEPT !.source = "cache"] ELSE item
           IN  RetireLease(b, l, k) =
                 [highWater |-> b.highWater, pending |-> b.pending,
                  bySKI |-> [b.bySKI EXCEPT ![l.ski] =
                               IF @ = l THEN None ELSE @],
                  byAddr |-> [b.byAddr EXCEPT ![l.address] =
                               IF @ = l THEN None ELSE @],
                  inventory |-> [b.inventory EXCEPT ![l.ski] = left]]
BY DEF RetireLease, Bridges, Lease

\* Retiring a lease leaves a bridge a bridge.
LEMMA RetireTypes ==
    ASSUME NEW b \in Bridges, NEW l \in Lease \cup {None}, NEW k \in BOOLEAN
    PROVE  RetireLease(b, l, k) \in Bridges
<1>1. CASE l = None \/ Retired(b, l)
  BY <1>1 DEF RetireLease
<1>2. CASE l # None /\ ~Retired(b, l)
  <2> DEFINE item == b.inventory[l.ski]
             left == IF ~k THEN None
                     ELSE IF item # None /\ item.generation = l.generation
                          THEN [item EXCEPT !.source = "cache"] ELSE item
  <2>1. item \in Item \cup {None}
    BY <1>2 DEF Bridges, Lease
  <2>2. left \in Item \cup {None}
    BY <2>1 DEF Item
  <2> QED BY <1>2, <2>2, RetireFields DEF Bridges, Lease
<1> QED BY <1>1, <1>2

LEMMA RetireEveryTypes ==
    ASSUME NEW b \in Bridges
    PROVE  RetireEvery(b) \in Bridges
<1>1. \A s \in SKIs : RetireLease(b, b.bySKI[s], TRUE) \in Bridges
  BY RetireTypes DEF Bridges
<1>2. \A s \in SKIs :
        RetireLease(b, b.bySKI[s], TRUE).inventory[s] \in Item \cup {None}
  BY <1>1 DEF Bridges
<1> QED BY <1>2 DEF RetireEvery, Bridges

LEMMA CaptureTypes ==
    ASSUME NEW b \in Bridges, NEW l \in Lease
    PROVE  CaptureInventory(b, l) \in Bridges
BY DEF CaptureInventory, Bridges, Lease, Item

LEMMA AdmitTypes ==
    ASSUME NEW b \in Bridges, NEW l \in Lease
    PROVE  AdmitRemote(b, l) \in Bridges
<1> DEFINE one == RetireLease(b, b.bySKI[l.ski], FALSE)
           two == RetireLease(one, one.byAddr[l.address], FALSE)
           three == [two EXCEPT !.highWater[l.ski] = l.generation,
                                !.pending[l.ski] = 0,
                                !.bySKI[l.ski] = l,
                                !.byAddr[l.address] = l]
<1>1. one \in Bridges BY RetireTypes DEF Bridges, Lease
<1>2. two \in Bridges BY <1>1, RetireTypes DEF Bridges, Lease
<1> HIDE DEF two
<1>3. three \in Bridges BY <1>2 DEF Bridges, Lease
<1>4. CaptureInventory(three, l) \in Bridges BY <1>3, CaptureTypes
<1> QED BY <1>4 DEF AdmitRemote, two

-----------------------------------------------------------------------------
(* TypeInv step by step: the peers, the hub's callbacks, the threads, the   *)
(* runtime and the callers.                                                 *)

LEMMA DueTypes ==
    ASSUME due \in Dues, NEW s \in SKIs
    PROVE  /\ [due EXCEPT ![s] = @ \o <<"connected", "ship">>] \in Dues
           /\ [due EXCEPT ![s] = Append(@, "disconnected")] \in Dues
           /\ due[s] # <<>> => [due EXCEPT ![s] = Tail(@)] \in Dues
<1> DEFINE q == due[s]
<1>1. q \in Seq(Callbacks) BY DEF Dues
<1>2. <<"connected", "ship">> \in Seq(Callbacks) BY DEF Callbacks
<1>3. q \o <<"connected", "ship">> \in Seq(Callbacks) BY <1>1, <1>2
<1>4. Append(q, "disconnected") \in Seq(Callbacks) BY <1>1 DEF Callbacks
<1>5. q # <<>> => Tail(q) \in Seq(Callbacks) BY <1>1
<1> QED BY <1>3, <1>4, <1>5 DEF Dues

LEMMA CallbackTypes ==
    ASSUME due \in Dues, NEW s \in SKIs, NEW kind, Callback(s, kind)
    PROVE  due' \in Dues
BY DueTypes DEF Callback

LEMMA ConnectTypes ==
    ASSUME TypeInv, NEW s \in SKIs, Connect(s)
    PROVE  TypeInv'
<1>1. due' \in Dues BY DueTypes DEF TypeInv, Connect
<1>2. ghost.conns + 1 \in 1..MaxConnections
  BY FeatureReadsAssumption DEF TypeInv, Connect, Ghosts
<1>3. [n |-> ghost.conns + 1, up |-> TRUE, address |-> None] \in Connection
  BY <1>2, FeatureReadsAssumption DEF Connection
<1>4. conn' \in Conns BY <1>2, <1>3 DEF TypeInv, Connect, Conns
<1>5. ghost' \in Ghosts
  BY <1>2 DEF TypeInv, Connect, Ghosts
<1> QED BY <1>1, <1>4, <1>5 DEF TypeInv, Connect

LEMMA DiscoverTypes ==
    ASSUME TypeInv, NEW s \in SKIs, NEW a \in Addresses, Discover(s, a)
    PROVE  TypeInv'
BY DEF TypeInv, Discover, Conns, Connection

LEMMA DisconnectTypes ==
    ASSUME TypeInv, NEW s \in SKIs, Disconnect(s)
    PROVE  TypeInv'
<1>1. due' \in Dues BY DueTypes DEF TypeInv, Disconnect
<1> QED BY <1>1 DEF TypeInv, Disconnect, Conns, Connection

\* What the threads start with.
LEMMA RestingTypes ==
    /\ resting \in Thread
    /\ \A s \in SKIs, p \in Places \ {"admit"}, e \in Nat :
         /\ [resting EXCEPT !.at = p, !.ski = s] \in Thread
         /\ [resting EXCEPT !.at = p, !.ski = s, !.epoch = e] \in Thread
BY DEF resting, Thread, Places

LEMMA ThreadTypes ==
    ASSUME thread \in [Threads -> Thread], NEW t \in Threads,
           NEW r \in Thread
    PROVE  [thread EXCEPT ![t] = r] \in [Threads -> Thread]
OBVIOUS

LEMMA SKIConnectedTypes ==
    ASSUME TypeInv, NEW s \in SKIs, RemoteSKIConnected(s)
    PROVE  TypeInv'
<1>1. due' \in Dues BY CallbackTypes DEF TypeInv, RemoteSKIConnected
<1>2. [resting EXCEPT !.at = "allocate", !.ski = s, !.epoch = epoch]
        \in Thread
  BY RestingTypes DEF TypeInv, Places
<1>3. thread' \in [Threads -> Thread]
  BY <1>2 DEF TypeInv, RemoteSKIConnected, Ignored, Threads
<1> QED BY <1>1, <1>3 DEF TypeInv, RemoteSKIConnected, Ignored

LEMMA RecordTypes ==
    ASSUME TypeInv, NEW s \in SKIs, RecordConnected(s)
    PROVE  TypeInv'
<1>1. thread' \in [Threads -> Thread]
  BY RestingTypes DEF TypeInv, RecordConnected, Places, Threads
<1>2. obs' \in [SKIs -> Observation]
  BY DEF TypeInv, RecordConnected, Observation, Thread, Threads
<1> QED BY <1>1, <1>2 DEF TypeInv, RecordConnected, world

LEMMA ShipTypes ==
    ASSUME TypeInv, NEW s \in SKIs, ServiceShipIDUpdate(s)
    PROVE  TypeInv'
<1>1. due' \in Dues BY CallbackTypes DEF TypeInv, ServiceShipIDUpdate
<1>2. thread' \in [Threads -> Thread]
  <2>1. \/ thread' = thread
        \/ thread' = [thread EXCEPT ![s] =
                       [resting EXCEPT !.at = "copy", !.ski = s]]
    BY Zenon DEF ServiceShipIDUpdate, Ignored
  <2>2. [resting EXCEPT !.at = "copy", !.ski = s] \in Thread
    BY RestingTypes DEF Places
  <2> QED BY <2>1, <2>2 DEF TypeInv, Threads
<1>3. [obs[s] EXCEPT !.ship = TRUE] \in Observation
  BY DEF TypeInv, Observation
<1>4. obs' = obs \/ obs' = [obs EXCEPT ![s].ship = TRUE]
  BY Zenon DEF ServiceShipIDUpdate, Ignored
<1>5. obs' \in [SKIs -> Observation]
  BY <1>3, <1>4 DEF TypeInv
<1> QED BY <1>1, <1>2, <1>5 DEF TypeInv, ServiceShipIDUpdate

LEMMA SKIDisconnectedTypes ==
    ASSUME TypeInv, NEW s \in SKIs, RemoteSKIDisconnected(s)
    PROVE  TypeInv'
<1>1. due' \in Dues BY CallbackTypes DEF TypeInv, RemoteSKIDisconnected
<1>2. thread' \in [Threads -> Thread]
  <2>1. \/ thread' = thread
        \/ thread' = [thread EXCEPT ![s] =
                       [resting EXCEPT !.at = "retire", !.ski = s]]
    BY Zenon DEF RemoteSKIDisconnected, Ignored
  <2>2. [resting EXCEPT !.at = "retire", !.ski = s] \in Thread
    BY RestingTypes DEF Places
  <2> QED BY <2>1, <2>2 DEF TypeInv, Threads
<1>3. [obs[s] EXCEPT !.state = "disconnected"] \in Observation
  BY DEF TypeInv, Observation
<1>4. obs' = obs \/ obs' = [obs EXCEPT ![s].state = "disconnected"]
  BY Zenon DEF RemoteSKIDisconnected, Ignored
<1>5. obs' \in [SKIs -> Observation]
  BY <1>3, <1>4 DEF TypeInv
<1> QED BY <1>1, <1>2, <1>5 DEF TypeInv, RemoteSKIDisconnected

LEMMA StateTypes ==
    ASSUME TypeInv, NEW e \in Nat
    PROVE  readState(e) \in Generations
BY DEF TypeInv, readState, Files, Generations, noFile

LEMMA AllocateTypes ==
    ASSUME TypeInv, NEW s \in SKIs, AllocateConnectionGeneration(s)
    PROVE  TypeInv'
<1> DEFINE t == thread[s]
           generation == readState(t.epoch).of[s] + 1
           b == [RetireLease(bridge, bridge.bySKI[s], TRUE)
                 EXCEPT !.pending[s] = 0]
           next == allocateNext(s, t.epoch)
<1>1. t \in Thread /\ t.epoch \in Nat /\ t.at = "allocate" /\ t.ski \in SKIs
  BY DEF TypeInv, Threads, Thread, AllocateConnectionGeneration
<1>2. readState(t.epoch) \in Generations BY <1>1, StateTypes
<1>3. generation \in Nat BY <1>2 DEF Generations
<1>4. next \in Generations BY <1>2 DEF allocateNext, Generations
<1>5. RetireLease(bridge, bridge.bySKI[s], TRUE) \in Bridges
  BY RetireTypes DEF TypeInv, Bridges
<1>6. b \in Bridges /\ [b EXCEPT !.pending[s] = generation] \in Bridges
  BY <1>3, <1>5 DEF Bridges
<1>7. resting \in Thread
      /\ [t EXCEPT !.at = "record", !.index = generation] \in Thread
  BY <1>1, <1>3, RestingTypes DEF Thread, Places
<1> HIDE DEF t, generation, b, next
<1>8. PICK stored \in Stores(s, t.epoch) :
        /\ IF stored.ok THEN UNCHANGED disturbances ELSE disturb("sync")
        /\ file' = stored.file
        /\ \/ /\ stored.ok /\ epoch = t.epoch
              /\ generation > b.highWater[s]
              /\ bridge' = [b EXCEPT !.pending[s] = generation]
              /\ thread' = [thread EXCEPT ![s] =
                   [t EXCEPT !.at = "record", !.index = generation]]
              /\ ghost' = [ghost EXCEPT
                   !.allocated = @ \cup
                     {[ski |-> s, epoch |-> t.epoch, generation |-> generation,
                       nth |-> Cardinality(@) + 1]},
                   !.replaced = @ \cup Replaced(t.epoch, stored.file)]
           \/ /\ \/ ~stored.ok \/ epoch # t.epoch
                 \/ generation <= b.highWater[s]
              /\ bridge' = b
              /\ thread' = [thread EXCEPT ![s] = resting]
              /\ ghost' = [ghost EXCEPT
                   !.replaced = @ \cup Replaced(t.epoch, stored.file)]
  BY DEF AllocateConnectionGeneration, t, generation, b
<1>9. file' \in Files
  BY <1>4, <1>8 DEF Stores, NotOpened, OpenedOnly, next, Files, TypeInv
<1>10. disturbances' \in Disturbances
  BY <1>8 DEF TypeInv, Disturbances, disturb, class
<1>11. thread' \in [Threads -> Thread] BY <1>7, <1>8 DEF TypeInv, Threads
<1>12. bridge' \in Bridges BY <1>6, <1>8
<1>13. Replaced(t.epoch, stored.file) \in SUBSET Nat
  BY DEF Replaced, TypeInv, Files, Generations
<1>14. ghost' \in Ghosts
  <2> DEFINE z == [ski |-> s, epoch |-> t.epoch, generation |-> generation,
                   nth |-> Cardinality(ghost.allocated) + 1]
             all == ghost.allocated \cup {z}
  <2>1. Cardinality(ghost.allocated) \in Nat
    BY FS_CardinalityType DEF TypeInv, Ghosts
  <2>2. z \in Allocation BY <1>1, <1>3, <2>1 DEF Allocation
  <2>3. all \in SUBSET Allocation /\ IsFiniteSet(all)
    BY <2>2, FS_AddElement DEF TypeInv, Ghosts
  <2>4. ghost.replaced \cup Replaced(t.epoch, stored.file) \in SUBSET Nat
    BY <1>13 DEF TypeInv, Ghosts
  <2> HIDE DEF z
  <2>5. CASE ghost' = [ghost EXCEPT
               !.allocated = all,
               !.replaced = @ \cup Replaced(t.epoch, stored.file)]
    BY <2>3, <2>4, <2>5 DEF TypeInv, Ghosts
  <2>6. CASE ghost' = [ghost EXCEPT
               !.replaced = @ \cup Replaced(t.epoch, stored.file)]
    BY <2>4, <2>6 DEF TypeInv, Ghosts
  <2> QED BY <1>8, <2>5, <2>6 DEF z
<1> QED BY <1>9, <1>10, <1>11, <1>12, <1>14
        DEF TypeInv, AllocateConnectionGeneration

LEMMA RetireRemoteTypes ==
    ASSUME TypeInv, NEW s \in SKIs, RetireRemote(s)
    PROVE  TypeInv'
<1>1. bridge.bySKI[s] \in Lease \cup {None} BY DEF TypeInv, Bridges
<1>2. RetireLease(bridge, bridge.bySKI[s], TRUE) \in Bridges
  BY <1>1, RetireTypes DEF TypeInv
<1>3. bridge' \in Bridges BY <1>2, Zenon DEF TypeInv, RetireRemote
<1>4. thread' \in [Threads -> Thread]
  BY RestingTypes DEF TypeInv, RetireRemote, Threads
<1> QED BY <1>3, <1>4 DEF TypeInv, RetireRemote, world

LEMMA CopyTypes ==
    ASSUME TypeInv, NEW t \in Threads, CopyObservation(t)
    PROVE  TypeInv'
<1> DEFINE o == obs[thread[t].ski]
           next == [thread[t] EXCEPT !.at = "refresh", !.index = o.index]
<1>1. thread[t] \in Thread /\ thread[t].at = "copy" /\ thread[t].ski \in SKIs
  BY DEF TypeInv, Thread, CopyObservation
<1>2. o.index \in Nat BY <1>1 DEF TypeInv, Observation
<1>3. next \in Thread BY <1>1, <1>2 DEF Thread, Places
<1>4. thread' = [thread EXCEPT ![t] = next]
      \/ thread' = [thread EXCEPT ![t] = resting]
  BY Zenon DEF CopyObservation
<1>5. thread' \in [Threads -> Thread]
  BY <1>3, <1>4, RestingTypes DEF TypeInv
<1> QED BY <1>5 DEF TypeInv, CopyObservation, world

LEMMA LeaseTypes ==
    ASSUME TypeInv, NEW s \in SKIs, HasRemoteDevice(s), NEW g \in Nat
    PROVE  rawRemoteLease(s, g) \in Lease
<1>1. conn[s] \in Connection /\ conn[s].n # 0 /\ conn[s].address \in Addresses
  BY DEF TypeInv, Conns, Connection, HasRemoteDevice
<1>2. conn[s].n \in Connections BY <1>1 DEF Connection, Connections
<1> QED BY <1>1, <1>2 DEF rawRemoteLease, Lease, TypeInv

LEMMA RefreshTypes ==
    ASSUME TypeInv, NEW t \in Threads, RefreshRemote(t)
    PROVE  TypeInv'
<1> DEFINE s == thread[t].ski
           l == rawRemoteLease(s, thread[t].index)
           held == bridge.bySKI[s]
           next == [thread[t] EXCEPT !.at = "admit", !.index = 0, !.lease = l]
<1>1. /\ thread[t] \in Thread /\ thread[t].at = "refresh"
      /\ s \in SKIs /\ thread[t].index \in Nat
  BY DEF TypeInv, Thread, RefreshRemote
<1>2. held \in Lease \cup {None} BY <1>1 DEF TypeInv, Bridges
<1>3. HasRemoteDevice(s) => l \in Lease BY <1>1, LeaseTypes
<1> HIDE DEF l
<1>4. HasRemoteDevice(s) => next \in Thread
  BY <1>1, <1>3 DEF Thread, Places
<1>5. held # None => CaptureInventory(bridge, held) \in Bridges
  BY <1>2, CaptureTypes DEF TypeInv
<1>6. \/ /\ HasRemoteDevice(s) /\ thread' = [thread EXCEPT ![t] = next]
         /\ bridge' = bridge
      \/ /\ thread' = [thread EXCEPT ![t] = resting]
         /\ \/ bridge' = bridge
            \/ held # None /\ bridge' = CaptureInventory(bridge, held)
  BY Zenon DEF RefreshRemote, l
<1>7. bridge' \in Bridges BY <1>5, <1>6 DEF TypeInv
<1>8. thread' \in [Threads -> Thread]
  BY <1>4, <1>6, RestingTypes DEF TypeInv
<1> QED BY <1>7, <1>8 DEF TypeInv, RefreshRemote, world

LEMMA AdmitStepTypes ==
    ASSUME TypeInv, NEW t \in Threads, AdmitStep(t)
    PROVE  TypeInv'
<1>1. thread[t].lease \in Lease BY DEF TypeInv, Thread, AdmitStep
<1>2. AdmitRemote(bridge, thread[t].lease) \in Bridges
  BY <1>1, AdmitTypes DEF TypeInv
<1>3. bridge' \in Bridges BY <1>2, Zenon DEF TypeInv, AdmitStep
<1>4. thread' \in [Threads -> Thread]
  BY RestingTypes DEF TypeInv, AdmitStep
<1> QED BY <1>3, <1>4 DEF TypeInv, AdmitStep, world

LEMMA DiscoveredTypes ==
    ASSUME TypeInv, NEW s \in SKIs, Discovered(s)
    PROVE  TypeInv'
<1>1. [resting EXCEPT !.at = "copy", !.ski = s] \in Thread
  BY RestingTypes DEF Places
<1>2. thread' \in [Threads -> Thread]
  BY <1>1 DEF TypeInv, Discovered, Threads
<1> QED BY <1>2 DEF TypeInv, Discovered, world

LEMMA DisturbTypes ==
    ASSUME TypeInv, NEW f, disturb(f)
    PROVE  disturbances' \in Disturbances
BY DEF TypeInv, disturb, class, Disturbances

LEMMA RuntimeTypes ==
    ASSUME TypeInv,
           \/ DeactivateSPINEEvents \/ RetireAll \/ Repair
           \/ \E s \in SKIs : Degrade(s) \/ Suppress(s)
    PROVE  TypeInv'
<1>1. CASE DeactivateSPINEEvents
  BY <1>1, DisturbTypes DEF TypeInv, DeactivateSPINEEvents
<1>2. CASE RetireAll
  <2>1. bridge' \in Bridges BY <1>2, RetireEveryTypes DEF TypeInv, RetireAll
  <2> QED BY <1>2, <2>1 DEF TypeInv, RetireAll, world
<1>3. CASE Repair
  BY <1>3, DisturbTypes DEF TypeInv, Repair
<1>4. ASSUME NEW s \in SKIs, Degrade(s) PROVE TypeInv'
  <2>1. obs' \in [SKIs -> Observation]
    BY <1>4 DEF TypeInv, Degrade, Observation
  <2> QED BY <1>4, <2>1, DisturbTypes DEF TypeInv, Degrade
<1>5. ASSUME NEW s \in SKIs, Suppress(s) PROVE TypeInv'
  BY <1>5, DisturbTypes DEF TypeInv, Suppress
<1> QED BY <1>1, <1>2, <1>3, <1>4, <1>5

LEMMA CrashTypes == ASSUME TypeInv, Crash PROVE TypeInv'
<1>1. file' \in Files BY DEF TypeInv, Crash, Files
<1>2. conn' \in Conns
  <2>1. \A s \in SKIs : [conn[s] EXCEPT !.up = FALSE] \in Connection
    BY DEF TypeInv, Conns, Connection
  <2>2. \A s \in SKIs : ~[conn[s] EXCEPT !.up = FALSE].up
    BY DEF TypeInv, Conns, Connection
  <2> QED BY <2>1, <2>2 DEF Crash, Conns
<1>3. due' \in Dues
  <2>1. <<>> \in Seq(Callbacks) OBVIOUS
  <2> QED BY <2>1 DEF Crash, Dues
<1>4. obs' \in [SKIs -> Observation] BY DEF Crash, Observation, unseen
<1>5. newBridge \in Bridges BY DEF newBridge, Bridges
<1>6. thread' \in [Threads -> Thread] BY RestingTypes DEF Crash
<1>7. issuer' \in Issuers
  <2>1. issuer' \in [{} -> Token] BY DEF Crash
  <2> QED BY <2>1 DEF Issuers
<1>8. ready \in Call BY FeatureReadsAssumption DEF ready, Call
<1>9. call' \in [Callers -> Call] BY <1>8 DEF Crash
<1> QED BY <1>1, <1>2, <1>3, <1>4, <1>5, <1>6, <1>7, <1>9, DisturbTypes
        DEF TypeInv, Crash

LEMMA FeaturesGetTypes ==
    ASSUME TypeInv, NEW s \in SKIs, FeaturesGet(s)
    PROVE  TypeInv'
<1>1. bridge.bySKI[s] \in Lease \cup {None}
      /\ bridge.inventory[s] \in Item \cup {None}
  BY DEF TypeInv, Bridges
<1>2. bridge.bySKI[s] # None =>
        CaptureInventory(bridge, bridge.bySKI[s]) \in Bridges
  BY <1>1, CaptureTypes DEF TypeInv
<1>3. bridge.inventory[s] # None =>
        [bridge EXCEPT !.inventory[s].source = "cache"] \in Bridges
  BY <1>1 DEF TypeInv, Bridges, Item
<1>4. bridge' \in Bridges BY <1>2, <1>3 DEF FeaturesGet
<1>5. disturbances' \in Disturbances
  BY DisturbTypes DEF FeaturesGet, TypeInv
<1> QED BY <1>4, <1>5 DEF TypeInv, FeaturesGet, handler

LEMMA ReadyTypes == ready \in Call
BY FeatureReadsAssumption DEF ready, Call

\* A request names a lease that is held (exactReadRequest).
LEMMA RequestTypes ==
    ASSUME TypeInv, NEW c \in Callers, NEW l \in Lease,
           NEW r \in 0..MaxConnections, Request(c, l, r)
    PROVE  call' \in [Callers -> Call]
<1>1. [at |-> "dispatch", lease |-> l, read |-> r] \in Call BY DEF Call
<1> QED BY <1>1 DEF TypeInv, Request

LEMMA RequestableTypes ==
    ASSUME TypeInv, NEW s \in SKIs, Requestable(s)
    PROVE  bridge.bySKI[s] \in Lease
BY DEF TypeInv, Bridges, Requestable

LEMMA TokenTypes ==
    ASSUME TypeInv, NEW i \in DOMAIN issuer
    PROVE  issuer[i] \in Token /\ issuer[i].sender \in 0..MaxConnections
<1>1. issuer[i] \in Token BY DEF TypeInv, Issuers
<1> QED BY <1>1 DEF Token, Connections

LEMMA ReadTargetTypes ==
    ASSUME TypeInv, NEW c \in Callers, NEW s \in SKIs, ReadTarget(c, s)
    PROVE  TypeInv'
<1>1. 0 \in 0..MaxConnections BY FeatureReadsAssumption
<1>2. call' \in [Callers -> Call]
  BY <1>1, RequestTypes, RequestableTypes DEF ReadTarget
<1> QED BY <1>2 DEF TypeInv, ReadTarget, handler

LEMMA FullReadTypes ==
    ASSUME TypeInv, NEW c \in Callers, NEW i, FullReadIfCurrent(c, i)
    PROVE  TypeInv'
<1>1. issuer[i] \in Token /\ issuer[i].sender \in 0..MaxConnections
  BY TokenTypes DEF FullReadIfCurrent
<1>2. issuer[i].ski \in SKIs BY <1>1 DEF Token
<1>3. call' \in [Callers -> Call]
  BY <1>1, <1>2, RequestTypes, RequestableTypes DEF FullReadIfCurrent
<1> QED BY <1>3 DEF TypeInv, FullReadIfCurrent, handler

LEMMA IssuerTypes ==
    ASSUME NEW P \in SUBSET (1..MaxTokens), NEW f \in [P -> Token]
    PROVE  f \in Issuers
BY DEF Issuers

LEMMA RefuseTypes ==
    ASSUME TypeInv, NEW c \in Callers, NEW i, RefuseExpired(c, i)
    PROVE  TypeInv'
<1>1. issuer' \in [DOMAIN issuer \ {i} -> Token]
  BY TokenTypes DEF RefuseExpired
<1>2. DOMAIN issuer \in SUBSET (1..MaxTokens) BY DEF TypeInv, Issuers
<1>3. issuer' \in Issuers BY <1>1, <1>2 DEF Issuers
<1> QED BY <1>3 DEF TypeInv, RefuseExpired, handler

LEMMA UsesTypes ==
    ASSUME NEW u \in [1..MaxTokens -> Nat], NEW j \in 1..MaxTokens
    PROVE  [u EXCEPT ![j] = @ + 1] \in [1..MaxTokens -> Nat]
OBVIOUS

LEMMA FullWriteTypes ==
    ASSUME TypeInv, NEW c \in Callers, NEW i, FullWriteIfCurrent(c, i)
    PROVE  TypeInv'
<1> DEFINE s == issuer[i].ski
<1>1. i \in DOMAIN issuer BY DEF FullWriteIfCurrent
<1>2. issuer[i] \in Token /\ issuer[i].sender \in 0..MaxConnections
  BY <1>1, TokenTypes
<1>3. s \in SKIs BY <1>2 DEF Token
<1>4. DOMAIN issuer \in SUBSET (1..MaxTokens)
      /\ issuer \in [DOMAIN issuer -> Token]
  BY DEF TypeInv, Issuers
<1>5. [issuer[i] EXCEPT !.consumed = TRUE] \in Token BY <1>2 DEF Token
<1>6. issuer' \in [DOMAIN issuer -> Token]
  BY <1>4, <1>5 DEF FullWriteIfCurrent
<1>7. issuer' \in Issuers BY <1>4, <1>6 DEF Issuers
<1>8. i \in 1..MaxTokens BY <1>1, <1>4
<1>9. ghost' \in Ghosts
  <2>0. ghost.uses \in [1..MaxTokens -> Nat] BY DEF TypeInv, Ghosts
  <2>1. [ghost.uses EXCEPT ![i] = @ + 1] \in [1..MaxTokens -> Nat]
    BY <1>8, <2>0, UsesTypes
  <2>2. ghost' = [ghost EXCEPT !.uses = [ghost.uses EXCEPT ![i] = @ + 1]]
    BY DEF FullWriteIfCurrent
  <2> QED BY <2>1, <2>2 DEF TypeInv, Ghosts
<1>10. call' = call \/ (Requestable(s)
                         /\ Request(c, bridge.bySKI[s], issuer[i].sender))
  BY Zenon DEF FullWriteIfCurrent
<1>11. call' \in [Callers -> Call]
  BY <1>2, <1>3, <1>10, RequestTypes, RequestableTypes DEF TypeInv
<1> QED BY <1>7, <1>9, <1>11 DEF TypeInv, FullWriteIfCurrent, handler

LEMMA DispatchTypes ==
    ASSUME TypeInv, NEW c \in Callers, Dispatch(c)
    PROVE  TypeInv'
<1> DEFINE l == bridge.byAddr[call[c].lease.address]
<1>1. call[c] \in Call /\ call[c].lease \in Lease
  BY DEF TypeInv, Call, Dispatch
<1>2. l \in Lease \cup {None} BY <1>1 DEF TypeInv, Bridges, Lease
<1>3. MayDispatch(l, call[c].lease) => l \in Lease BY <1>2 DEF MayDispatch
<1> HIDE DEF l
<1>4. MayDispatch(l, call[c].lease) =>
        [call[c] EXCEPT !.at = "flight", !.lease = l] \in Call
  BY <1>1, <1>3 DEF Call
<1>5. call' \in [Callers -> Call]
  BY <1>4, ReadyTypes DEF Dispatch, TypeInv, l
<1> QED BY <1>5 DEF TypeInv, Dispatch, handler

LEMMA RoundTripTypes ==
    ASSUME TypeInv, NEW c \in Callers, RoundTrip(c)
    PROVE  TypeInv'
<1> DEFINE k == call[c]
<1>1. k \in Call /\ k.lease \in Lease BY DEF TypeInv, Call, RoundTrip
<1>2. [k EXCEPT !.at = "issue"] \in Call BY <1>1 DEF Call
<1>3. \/ call' = [call EXCEPT ![c] = [k EXCEPT !.at = "issue"]]
      \/ call' = [call EXCEPT ![c] = ready]
  BY Zenon DEF RoundTrip
<1>4. call' \in [Callers -> Call] BY <1>2, <1>3, ReadyTypes DEF TypeInv
<1>5. [read |-> k.read, sent |-> k.lease.sender] \in Frame
  BY <1>1 DEF Call, Frame, Lease
<1>6. ghost' \in Ghosts BY <1>5 DEF RoundTrip, TypeInv, Ghosts
<1> QED BY <1>4, <1>6 DEF TypeInv, RoundTrip, handler

LEMMA IssueTypes ==
    ASSUME TypeInv, NEW c \in Callers, Issue(c)
    PROVE  TypeInv'
<1> DEFINE l == call[c].lease
           i == ghost.issued + 1
           new == [ski |-> l.ski, epoch |-> l.epoch,
                   generation |-> l.generation, sender |-> l.sender,
                   consumed |-> FALSE, expired |-> FALSE]
<1>1. l \in Lease BY DEF TypeInv, Call, Issue
<1>2. new \in Token BY <1>1 DEF Lease, Token
<1>3. DOMAIN Purged \in SUBSET (1..MaxTokens)
      /\ \A j \in DOMAIN Purged : Purged[j] \in Token
      /\ Purged \in [DOMAIN Purged -> Token]
  BY TokenTypes DEF Purged, TypeInv, Issuers
<1>4. Purged \in Issuers
  <2> DEFINE P == {j \in DOMAIN issuer : ~issuer[j].expired}
  <2>1. P \in SUBSET (1..MaxTokens) BY DEF TypeInv, Issuers
  <2>2. Purged \in [P -> Token] BY TokenTypes DEF Purged
  <2> HIDE DEF P
  <2> QED BY <2>1, <2>2, IssuerTypes
<1>5. call' \in [Callers -> Call] BY ReadyTypes DEF Issue, TypeInv
<1>6. CASE /\ ghost.issued < MaxTokens
           /\ issuer' = [j \in DOMAIN Purged \cup {i} |->
                          IF j = i THEN new ELSE Purged[j]]
           /\ ghost' = [ghost EXCEPT !.issued = i]
  <2>1. i \in 1..MaxTokens
    BY <1>6, FeatureReadsAssumption DEF TypeInv, Ghosts
  <2>2. issuer' \in [DOMAIN Purged \cup {i} -> Token]
    BY <1>2, <1>3, <1>6
  <2>3. issuer' \in Issuers BY <1>3, <2>1, <2>2 DEF Issuers
  <2>4. i \in 0..MaxTokens BY <2>1
  <2>5. ghost' \in Ghosts BY <1>6, <2>4 DEF TypeInv, Ghosts
  <2> QED BY <1>5, <2>3, <2>5 DEF TypeInv, Issue, handler
<1>7. CASE issuer' = Purged /\ ghost' = ghost
  BY <1>4, <1>5, <1>7 DEF TypeInv, Issue, handler
<1> QED BY <1>6, <1>7 DEF Issue

LEMMA ExpireTypes ==
    ASSUME TypeInv, NEW i, Expire(i)
    PROVE  TypeInv'
<1>1. issuer[i] \in Token BY TokenTypes DEF Expire
<1>2. [issuer[i] EXCEPT !.expired = TRUE] \in Token BY <1>1 DEF Token
<1>3. issuer' \in [DOMAIN issuer -> Token]
  BY <1>2, TokenTypes DEF Expire, TypeInv, Issuers
<1>4. issuer' \in Issuers BY <1>3 DEF TypeInv, Issuers
<1> QED BY <1>4 DEF TypeInv, Expire, handler

LEMMA TypeStep == TypeInv /\ [Next]_vars => TypeInv'
<1> SUFFICES ASSUME TypeInv, [Next]_vars PROVE TypeInv' OBVIOUS
<1>1. ASSUME NEW s \in SKIs, PeerStep(s) PROVE TypeInv'
  BY <1>1, ConnectTypes, DiscoverTypes, DisconnectTypes DEF PeerStep
<1>2. ASSUME NEW t \in Threads, ThreadStep(t) PROVE TypeInv'
  BY <1>2, CopyTypes, RefreshTypes, AdmitStepTypes DEF ThreadStep
<1>3. ASSUME NEW s \in SKIs, HubStep(s) PROVE TypeInv'
  BY <1>2, <1>3, SKIConnectedTypes, AllocateTypes, RecordTypes, ShipTypes,
     SKIDisconnectedTypes, RetireRemoteTypes
     DEF HubStep, Threads
<1>4. CASE WorkerStep
  BY <1>2, <1>4, DiscoveredTypes DEF WorkerStep, Threads
<1>5. ASSUME NEW c \in Callers, CallStep(c) PROVE TypeInv'
  BY <1>5, ReadTargetTypes, DispatchTypes, RoundTripTypes, IssueTypes,
     FullReadTypes, RefuseTypes, FullWriteTypes
     DEF CallStep
<1>6. CASE UNCHANGED vars BY <1>6 DEF TypeInv, vars
<1> QED BY <1>1, <1>3, <1>4, <1>5, <1>6, FeaturesGetTypes, RuntimeTypes,
           ExpireTypes, CrashTypes
        DEF Next

LEMMA TypeStart == Init => TypeInv
<1> SUFFICES ASSUME Init PROVE TypeInv OBVIOUS
<1>1. file \in Files BY DEF Init, Files, Generations, noFile
<1>2. conn \in Conns
  BY FeatureReadsAssumption DEF Init, Conns, Connection
<1>3. due \in Dues
  <2>1. <<>> \in Seq(Callbacks) OBVIOUS
  <2> QED BY <2>1 DEF Init, Dues
<1>4. obs \in [SKIs -> Observation] BY DEF Init, Observation, unseen
<1>5. bridge \in Bridges BY DEF Init, newBridge, Bridges
<1>6. thread \in [Threads -> Thread] BY RestingTypes DEF Init
<1>7. issuer \in Issuers
  <2>1. issuer \in [{} -> Token] BY DEF Init
  <2> QED BY <2>1 DEF Issuers
<1>8. call \in [Callers -> Call] BY ReadyTypes DEF Init
<1>9. ghost \in Ghosts
  <2>1. IsFiniteSet({}) BY FS_EmptySet
  <2>2. MaxTokens \in Nat /\ MaxConnections \in Nat
    BY FeatureReadsAssumption
  <2>3. [i \in 1..MaxTokens |-> 0] \in [1..MaxTokens -> Nat] OBVIOUS
  <2>4. 0 \in 0..MaxTokens /\ 0 \in 0..MaxConnections BY <2>2
  <2> QED BY <2>1, <2>3, <2>4 DEF Init, Ghosts
<1> QED BY <1>1, <1>2, <1>3, <1>4, <1>5, <1>6, <1>7, <1>8, <1>9
        DEF Init, TypeInv, Disturbances

\* Type correctness of the whole model.
THEOREM TypesHold == Spec => []TypeOK
<1>1. Spec => []TypeInv
  BY TypeStart, TypeStep, PTL DEF Spec
<1> QED BY <1>1, TypeInvTypeOK, PTL

-----------------------------------------------------------------------------
(* The lease maps.  LeaseMapsAgree is inductive with the types; it is a     *)
(* fact about a bridge, and every operation on a bridge preserves it.       *)

liveIn(b, s) == b.inventory[s] # None /\ b.inventory[s].source = "live"

MapsAgree(b) ==
    /\ \A s \in SKIs :
         /\ b.bySKI[s] # None =>
              /\ b.bySKI[s].ski = s
              /\ b.byAddr[b.bySKI[s].address] = b.bySKI[s]
         /\ liveIn(b, s) =>
              /\ b.bySKI[s] # None
              /\ b.bySKI[s].generation = b.inventory[s].generation
              /\ b.bySKI[s].epoch = b.inventory[s].epoch
    /\ \A a \in Addresses :
         b.byAddr[a] # None =>
           /\ b.byAddr[a].address = a
           /\ b.bySKI[b.byAddr[a].ski] = b.byAddr[a]

LEMMA LeaseNotNone == \A l \in Lease : l # None
BY FeatureReadsAssumption

LEMMA AgreeIsMapsAgree == LeaseMapsAgree <=> MapsAgree(bridge)
BY DEF LeaseMapsAgree, MapsAgree, live, liveIn

\* Retiring a lease that is held takes it out of both maps, changes nothing
\* else in them, and leaves no inventory of its peer live.
LEMMA RetireHeld ==
    ASSUME NEW b \in Bridges, MapsAgree(b), NEW l \in Lease,
           b.bySKI[l.ski] = l, NEW k \in BOOLEAN
    PROVE  LET r == RetireLease(b, l, k)
           IN  /\ r.bySKI = [b.bySKI EXCEPT ![l.ski] = None]
               /\ r.byAddr = [b.byAddr EXCEPT ![l.address] = None]
               /\ r.highWater = b.highWater /\ r.pending = b.pending
               /\ \A s \in SKIs : s # l.ski => r.inventory[s] = b.inventory[s]
               /\ ~liveIn(r, l.ski)
<1> l # None BY LeaseNotNone
<1> DEFINE r == RetireLease(b, l, k)
<1>1. l.ski \in SKIs /\ l.address \in Addresses BY DEF Lease
<1>2. b.byAddr[l.address] = l BY <1>1 DEF MapsAgree
<1>3. ~Retired(b, l) BY DEF Retired
<1> DEFINE item == b.inventory[l.ski]
           left == IF ~k THEN None
                   ELSE IF item # None /\ item.generation = l.generation
                        THEN [item EXCEPT !.source = "cache"] ELSE item
<1>4. r = [highWater |-> b.highWater, pending |-> b.pending,
           bySKI |-> [b.bySKI EXCEPT ![l.ski] = IF @ = l THEN None ELSE @],
           byAddr |-> [b.byAddr EXCEPT ![l.address] = IF @ = l THEN None ELSE @],
           inventory |-> [b.inventory EXCEPT ![l.ski] = left]]
  BY <1>3, RetireFields
<1>5. item \in Item \cup {None} BY <1>1 DEF Bridges
<1>6. left # None => left.source # "live"
  <2>1. liveIn(b, l.ski) => item.generation = l.generation
    BY <1>1 DEF MapsAgree
  <2> QED BY <1>5, <2>1 DEF liveIn, Item
<1> HIDE DEF left, r
<1>7. r.inventory[l.ski] = left BY <1>1, <1>4 DEF Bridges
<1>8. ~liveIn(r, l.ski) BY <1>6, <1>7 DEF liveIn
<1> QED BY <1>1, <1>2, <1>4, <1>8 DEF r, Bridges

LEMMA RetireAgrees ==
    ASSUME NEW b \in Bridges, MapsAgree(b), NEW l \in Lease \cup {None},
           l = None \/ b.bySKI[l.ski] = l, NEW k \in BOOLEAN
    PROVE  MapsAgree(RetireLease(b, l, k))
<1>1. CASE l = None BY <1>1 DEF RetireLease
<1>2. CASE l # None
  <2> DEFINE r == RetireLease(b, l, k)
  <2>1. /\ r.bySKI = [b.bySKI EXCEPT ![l.ski] = None]
        /\ r.byAddr = [b.byAddr EXCEPT ![l.address] = None]
        /\ \A s \in SKIs : s # l.ski => r.inventory[s] = b.inventory[s]
        /\ ~liveIn(r, l.ski)
    BY <1>2, RetireHeld
  <2>2. l.ski \in SKIs /\ l.address \in Addresses BY <1>2 DEF Lease
  <2>3. \A s \in SKIs : b.bySKI[s] \in Lease \cup {None}
    BY DEF Bridges
  <2>4. \A a \in Addresses : b.byAddr[a] \in Lease \cup {None}
    BY DEF Bridges
  <2>5. b.byAddr[l.address] = l BY <1>2, <2>2 DEF MapsAgree
  <2> HIDE DEF r
  <2>6. ASSUME NEW s \in SKIs
        PROVE  /\ r.bySKI[s] # None =>
                    /\ r.bySKI[s].ski = s
                    /\ r.byAddr[r.bySKI[s].address] = r.bySKI[s]
               /\ liveIn(r, s) =>
                    /\ r.bySKI[s] # None
                    /\ r.bySKI[s].generation = r.inventory[s].generation
                    /\ r.bySKI[s].epoch = r.inventory[s].epoch
    <3>1. CASE s = l.ski BY <2>1, <3>1 DEF Bridges
    <3>2. CASE s # l.ski
      <4>1. r.bySKI[s] = b.bySKI[s] /\ r.inventory[s] = b.inventory[s]
        BY <2>1, <2>2, <3>2 DEF Bridges
      <4>2. liveIn(r, s) = liveIn(b, s) BY <4>1 DEF liveIn
      <4>3. ASSUME b.bySKI[s] # None
            PROVE  /\ b.bySKI[s].ski = s
                   /\ r.byAddr[b.bySKI[s].address] = b.bySKI[s]
        <5>1. /\ b.bySKI[s].ski = s /\ b.bySKI[s].address \in Addresses
              /\ b.byAddr[b.bySKI[s].address] = b.bySKI[s]
          BY <2>3, <4>3 DEF MapsAgree, Lease
        <5>2. b.bySKI[s].address # l.address BY <2>5, <5>1, <3>2
        <5> QED BY <2>1, <5>1, <5>2 DEF Bridges
      <4> QED BY <4>1, <4>2, <4>3 DEF MapsAgree
    <3> QED BY <3>1, <3>2
  <2>7. ASSUME NEW a \in Addresses, r.byAddr[a] # None
        PROVE  r.byAddr[a].address = a /\ r.bySKI[r.byAddr[a].ski] = r.byAddr[a]
    <3>1. a # l.address BY <2>1, <2>2, <2>7 DEF Bridges
    <3>2. r.byAddr[a] = b.byAddr[a] BY <2>1, <3>1 DEF Bridges
    <3>3. b.byAddr[a].address = a /\ b.bySKI[b.byAddr[a].ski] = b.byAddr[a]
      BY <2>7, <3>2 DEF MapsAgree
    <3>4. b.byAddr[a].ski \in SKIs BY <2>4, <2>7, <3>2 DEF Lease
    <3>5. b.byAddr[a].ski # l.ski BY <1>2, <2>5, <3>1, <3>3, <2>2
    <3> QED BY <2>1, <3>2, <3>3, <3>4, <3>5 DEF Bridges
  <2> QED BY <2>6, <2>7 DEF MapsAgree, r
<1> QED BY <1>1, <1>2

\* Only the maps and the inventory matter.
LEMMA AgreeFields ==
    ASSUME NEW b, NEW d, MapsAgree(b), d.bySKI = b.bySKI,
           d.byAddr = b.byAddr, d.inventory = b.inventory
    PROVE  MapsAgree(d)
BY DEF MapsAgree, liveIn

LEMMA CaptureAgrees ==
    ASSUME NEW b \in Bridges, MapsAgree(b), NEW l \in Lease,
           b.bySKI[l.ski] = l
    PROVE  MapsAgree(CaptureInventory(b, l))
<1> l # None BY LeaseNotNone
<1> DEFINE item == [generation |-> l.generation, epoch |-> l.epoch,
                    source |-> "live"]
           r == CaptureInventory(b, l)
<1>1. l.ski \in SKIs BY DEF Lease
<1>2. /\ r.bySKI = b.bySKI /\ r.byAddr = b.byAddr
      /\ r.inventory = [b.inventory EXCEPT ![l.ski] = item]
  BY DEF CaptureInventory, Bridges
<1>3. r.inventory[l.ski] = item
      /\ \A s \in SKIs : s # l.ski => r.inventory[s] = b.inventory[s]
  BY <1>1, <1>2 DEF Bridges
<1> HIDE DEF r
<1>4. \A s \in SKIs : liveIn(r, s) =>
        /\ r.bySKI[s] # None
        /\ r.bySKI[s].generation = r.inventory[s].generation
        /\ r.bySKI[s].epoch = r.inventory[s].epoch
  BY <1>1, <1>2, <1>3 DEF MapsAgree, liveIn
<1> QED BY <1>2, <1>4 DEF MapsAgree, r

\* Inventory that is marked as cached is not live (featuresGet).
LEMMA CachedAgrees ==
    ASSUME NEW b \in Bridges, MapsAgree(b), NEW s \in SKIs,
           b.inventory[s] # None
    PROVE  MapsAgree([b EXCEPT !.inventory[s].source = "cache"])
<1> DEFINE r == [b EXCEPT !.inventory[s].source = "cache"]
<1>1. b.inventory[s] \in Item BY DEF Bridges
<1>2. r.inventory[s].source = "cache" BY <1>1 DEF Bridges, Item
<1>3. /\ r.bySKI = b.bySKI /\ r.byAddr = b.byAddr
      /\ \A u \in SKIs : u # s => r.inventory[u] = b.inventory[u]
  BY DEF Bridges
<1> HIDE DEF r
<1>4. \A u \in SKIs : liveIn(r, u) =>
        u # s /\ liveIn(b, u) /\ r.inventory[u] = b.inventory[u]
  BY <1>2, <1>3 DEF liveIn
<1>5. MapsAgree(r) BY <1>3, <1>4 DEF MapsAgree
<1> QED BY <1>5 DEF r

LEMMA RetireEveryAgrees ==
    ASSUME NEW b \in Bridges, MapsAgree(b)
    PROVE  MapsAgree(RetireEvery(b))
<1> DEFINE r == RetireEvery(b)
<1>1. \A s \in SKIs : r.bySKI[s] = None BY DEF RetireEvery, Bridges
<1>2. \A a \in Addresses : r.byAddr[a] = None
  <2> SUFFICES ASSUME NEW a \in Addresses PROVE r.byAddr[a] = None OBVIOUS
  <2>1. b.byAddr[a] # None => b.bySKI[b.byAddr[a].ski] = b.byAddr[a]
    BY DEF MapsAgree
  <2> QED BY <2>1 DEF RetireEvery, Bridges
<1>3. ASSUME NEW s \in SKIs PROVE ~liveIn(r, s)
  <2> DEFINE l == b.bySKI[s]
  <2>1. l \in Lease \cup {None} BY DEF Bridges
  <2>2. r.inventory[s] = RetireLease(b, l, TRUE).inventory[s]
    BY DEF RetireEvery, Bridges
  <2>3. CASE l = None
    BY <2>2, <2>3 DEF RetireLease, MapsAgree, liveIn
  <2>4. CASE l # None
    <3>1. l \in Lease /\ l.ski = s BY <2>1, <2>4 DEF MapsAgree
    <3>2. ~liveIn(RetireLease(b, l, TRUE), s)
      BY <2>4, <3>1, RetireHeld
    <3> QED BY <2>2, <3>2 DEF liveIn
  <2> QED BY <2>3, <2>4
<1> QED BY <1>1, <1>2, <1>3 DEF MapsAgree

LEMMA PlaceAgrees ==
    ASSUME NEW b \in Bridges, MapsAgree(b), NEW l \in Lease,
           b.bySKI[l.ski] = None, b.byAddr[l.address] = None
    PROVE  MapsAgree([b EXCEPT !.highWater[l.ski] = l.generation,
                               !.pending[l.ski] = 0,
                               !.bySKI[l.ski] = l,
                               !.byAddr[l.address] = l])
<1> l # None BY LeaseNotNone
<1> DEFINE r == [b EXCEPT !.highWater[l.ski] = l.generation,
                          !.pending[l.ski] = 0,
                          !.bySKI[l.ski] = l, !.byAddr[l.address] = l]
<1>1. l.ski \in SKIs /\ l.address \in Addresses BY DEF Lease
<1>2. /\ r.bySKI = [b.bySKI EXCEPT ![l.ski] = l]
      /\ r.byAddr = [b.byAddr EXCEPT ![l.address] = l]
      /\ r.inventory = b.inventory
  BY DEF Bridges
<1> HIDE DEF r
<1>3. ASSUME NEW s \in SKIs
      PROVE  /\ r.bySKI[s] # None =>
                  /\ r.bySKI[s].ski = s
                  /\ r.byAddr[r.bySKI[s].address] = r.bySKI[s]
             /\ liveIn(r, s) =>
                  /\ r.bySKI[s] # None
                  /\ r.bySKI[s].generation = r.inventory[s].generation
                  /\ r.bySKI[s].epoch = r.inventory[s].epoch
  <2>1. liveIn(r, s) = liveIn(b, s) BY <1>2 DEF liveIn
  <2>2. CASE s = l.ski
    <3>1. r.bySKI[s] = l /\ r.byAddr[l.address] = l
      BY <1>1, <1>2, <2>2 DEF Bridges
    <3>2. ~liveIn(b, s) BY <2>2 DEF MapsAgree
    <3> QED BY <2>1, <2>2, <3>1, <3>2
  <2>3. CASE s # l.ski
    <3>1. r.bySKI[s] = b.bySKI[s] BY <1>2, <2>3 DEF Bridges
    <3>2. ASSUME b.bySKI[s] # None
          PROVE  r.byAddr[b.bySKI[s].address] = b.bySKI[s]
      <4>1. b.bySKI[s] \in Lease BY <3>2 DEF Bridges
      <4>2. b.byAddr[b.bySKI[s].address] = b.bySKI[s]
        BY <3>2 DEF MapsAgree
      <4> QED BY <1>2, <3>2, <4>1, <4>2 DEF Bridges, Lease
    <3> QED BY <1>2, <2>1, <3>1, <3>2 DEF MapsAgree
  <2> QED BY <2>2, <2>3
<1>4. ASSUME NEW a \in Addresses, r.byAddr[a] # None
      PROVE  r.byAddr[a].address = a /\ r.bySKI[r.byAddr[a].ski] = r.byAddr[a]
  <2>1. CASE a = l.address BY <1>1, <1>2, <2>1 DEF Bridges
  <2>2. CASE a # l.address
    <3>1. r.byAddr[a] = b.byAddr[a] BY <1>2, <2>2 DEF Bridges
    <3>2. b.byAddr[a] \in Lease BY <1>4, <3>1 DEF Bridges
    <3>3. b.byAddr[a].address = a /\ b.bySKI[b.byAddr[a].ski] = b.byAddr[a]
      BY <1>4, <3>1 DEF MapsAgree
    <3>4. b.byAddr[a].ski # l.ski BY <1>4, <3>1, <3>3
    <3> QED BY <1>2, <3>1, <3>2, <3>3, <3>4 DEF Bridges, Lease
  <2> QED BY <2>1, <2>2
<1>5. MapsAgree(r) BY <1>3, <1>4 DEF MapsAgree
<1> QED BY <1>5 DEF r

LEMMA AdmitAgrees ==
    ASSUME NEW b \in Bridges, MapsAgree(b), NEW l \in Lease
    PROVE  MapsAgree(AdmitRemote(b, l))
<1> DEFINE p == b.bySKI[l.ski]
           one == RetireLease(b, p, FALSE)
           q == one.byAddr[l.address]
           two == RetireLease(one, q, FALSE)
           three == [two EXCEPT !.highWater[l.ski] = l.generation,
                                !.pending[l.ski] = 0,
                                !.bySKI[l.ski] = l,
                                !.byAddr[l.address] = l]
<1>1. l.ski \in SKIs /\ l.address \in Addresses BY DEF Lease
<1>2. p \in Lease \cup {None} /\ (p # None => p.ski = l.ski)
  BY <1>1 DEF Bridges, MapsAgree
<1>3. one \in Bridges /\ MapsAgree(one)
  BY <1>2, RetireTypes, RetireAgrees
<1>4. one.bySKI[l.ski] = None
  <2>1. CASE p = None BY <2>1 DEF RetireLease
  <2>2. CASE p # None
    <3>1. p \in Lease /\ b.bySKI[p.ski] = p BY <1>2, <2>2
    <3>2. one.bySKI = [b.bySKI EXCEPT ![p.ski] = None]
      BY <3>1, RetireHeld
    <3> QED BY <1>1, <1>2, <2>2, <3>2 DEF Bridges
  <2> QED BY <2>1, <2>2
<1> HIDE DEF one
<1>5. q \in Lease \cup {None}
      /\ (q # None => q.address = l.address /\ one.bySKI[q.ski] = q)
  BY <1>1, <1>3 DEF Bridges, MapsAgree
<1>6. two \in Bridges /\ MapsAgree(two)
  BY <1>3, <1>5, RetireTypes, RetireAgrees
<1>7. two.bySKI[l.ski] = None /\ two.byAddr[l.address] = None
  <2>1. CASE q = None BY <1>4, <2>1 DEF RetireLease
  <2>2. CASE q # None
    <3>1. q \in Lease BY <1>5, <2>2
    <3>2. /\ two.bySKI = [one.bySKI EXCEPT ![q.ski] = None]
          /\ two.byAddr = [one.byAddr EXCEPT ![q.address] = None]
      BY <1>3, <1>5, <2>2, <3>1, RetireHeld
    <3> QED BY <1>1, <1>3, <1>4, <1>5, <2>2, <3>2 DEF Bridges
  <2> QED BY <2>1, <2>2
<1> HIDE DEF two
<1>8. three \in Bridges BY <1>1, <1>6 DEF Bridges, Lease
<1>9. MapsAgree(three) BY <1>6, <1>7, PlaceAgrees
<1>10. three.bySKI[l.ski] = l BY <1>1, <1>6 DEF Bridges
<1> HIDE DEF three
<1>11. MapsAgree(CaptureInventory(three, l))
  BY <1>8, <1>9, <1>10, CaptureAgrees
<1> QED BY <1>11 DEF AdmitRemote, three, two, one

\* Every step leaves the maps in agreement.
LEMMA AgreeStep ==
    ASSUME TypeInv, MapsAgree(bridge), [Next]_vars
    PROVE  MapsAgree(bridge')
<1> bridge \in Bridges BY DEF TypeInv
<1>1. CASE bridge' = bridge BY <1>1
<1>2. ASSUME NEW s \in SKIs, AllocateConnectionGeneration(s)
      PROVE  MapsAgree(bridge')
  <2> DEFINE r == RetireLease(bridge, bridge.bySKI[s], TRUE)
  <2>1. bridge.bySKI[s] \in Lease \cup {None}
        /\ (bridge.bySKI[s] # None => bridge.bySKI[s].ski = s)
    BY DEF Bridges, MapsAgree
  <2>2. r \in Bridges /\ MapsAgree(r) BY <2>1, RetireTypes, RetireAgrees
  <2> HIDE DEF r
  <2>3. \/ bridge' = [r EXCEPT !.pending[s] = 0]
        \/ \E g : bridge' = [[r EXCEPT !.pending[s] = 0]
                             EXCEPT !.pending[s] = g]
    BY <1>2 DEF AllocateConnectionGeneration, r
  <2>4. /\ bridge'.bySKI = r.bySKI /\ bridge'.byAddr = r.byAddr
        /\ bridge'.inventory = r.inventory
    BY <2>2, <2>3 DEF Bridges
  <2> QED BY <2>2, <2>4, AgreeFields
<1>3. ASSUME NEW s \in SKIs, RetireRemote(s) PROVE MapsAgree(bridge')
  <2>1. bridge.bySKI[s] \in Lease \cup {None}
        /\ (bridge.bySKI[s] # None => bridge.bySKI[s].ski = s)
    BY DEF Bridges, MapsAgree
  <2>2. MapsAgree(RetireLease(bridge, bridge.bySKI[s], TRUE))
    BY <2>1, RetireAgrees
  <2> QED BY <1>3, <2>2 DEF RetireRemote
<1>4. ASSUME NEW s \in SKIs, bridge.bySKI[s] # None,
             bridge' = CaptureInventory(bridge, bridge.bySKI[s])
      PROVE  MapsAgree(bridge')
  <2>1. bridge.bySKI[s] \in Lease /\ bridge.bySKI[s].ski = s
    BY <1>4 DEF Bridges, MapsAgree
  <2> QED BY <1>4, <2>1, CaptureAgrees
<1>5. ASSUME NEW t \in Threads, RefreshRemote(t) PROVE MapsAgree(bridge')
  <2>1. thread[t].ski \in SKIs
    BY <1>5 DEF TypeInv, Thread, RefreshRemote
  <2> QED BY <1>1, <1>4, <1>5, <2>1 DEF RefreshRemote
<1>6. ASSUME NEW t \in Threads, AdmitStep(t) PROVE MapsAgree(bridge')
  <2>1. thread[t].lease \in Lease
    BY <1>6 DEF TypeInv, Thread, AdmitStep
  <2>2. MapsAgree(AdmitRemote(bridge, thread[t].lease))
    BY <2>1, AdmitAgrees
  <2> QED BY <1>1, <1>6, <2>2 DEF AdmitStep
<1>7. ASSUME NEW s \in SKIs, FeaturesGet(s) PROVE MapsAgree(bridge')
  <2>1. CASE bridge' = [bridge EXCEPT !.inventory[s].source = "cache"]
             /\ bridge.inventory[s] # None
    BY <2>1, CachedAgrees
  <2> QED BY <1>4, <1>7, <2>1 DEF FeaturesGet
<1>8. CASE RetireAll BY <1>8, RetireEveryAgrees DEF RetireAll
<1>9. CASE Crash
  BY <1>9 DEF Crash, newBridge, MapsAgree, liveIn
<1>10. ASSUME NEW s \in SKIs, PeerStep(s) PROVE bridge' = bridge
  BY <1>10 DEF PeerStep, Connect, Disconnect, Discover
<1>11. ASSUME NEW s \in SKIs, HubStep(s) PROVE MapsAgree(bridge')
  BY <1>1, <1>2, <1>3, <1>5, <1>6, <1>11
     DEF HubStep, ThreadStep, RemoteSKIConnected, RecordConnected, Threads,
         ServiceShipIDUpdate, RemoteSKIDisconnected, CopyObservation
<1>12. CASE WorkerStep
  BY <1>1, <1>5, <1>6, <1>12
     DEF WorkerStep, ThreadStep, CopyObservation, Discovered, Threads
<1>13. ASSUME NEW c \in Callers, CallStep(c) PROVE bridge' = bridge
  BY <1>13 DEF CallStep, ReadTarget, Dispatch, RoundTrip, Issue,
               FullReadIfCurrent, RefuseExpired, FullWriteIfCurrent
<1>14. CASE \/ \E s \in SKIs : Degrade(s) \/ Suppress(s)
            \/ \E i \in 1..MaxTokens : Expire(i)
            \/ DeactivateSPINEEvents \/ Repair \/ UNCHANGED vars
  BY <1>1, <1>14 DEF Degrade, Suppress, Expire, DeactivateSPINEEvents,
                     Repair, vars
<1> QED BY <1>1, <1>7, <1>8, <1>9, <1>10, <1>11, <1>12, <1>13, <1>14
        DEF Next

\* The two lease maps hold the same leases, and only inventory of a held
\* lease is live, for any number of peers and addresses (admitRemote,
\* retireLeaseLocked, captureRemoteInventoryLocked).
THEOREM LeaseMapsHold == Spec => []LeaseMapsAgree
<1>1. Init => MapsAgree(bridge)
  BY DEF Init, newBridge, MapsAgree, liveIn
<1>2. TypeInv /\ MapsAgree(bridge) /\ [Next]_vars
      => TypeInv' /\ MapsAgree(bridge)'
  BY TypeStep, AgreeStep
<1>3. Spec => [](TypeInv /\ MapsAgree(bridge))
  BY <1>1, <1>2, TypeStart, PTL DEF Spec
<1> QED BY <1>3, AgreeIsMapsAgree, PTL

-----------------------------------------------------------------------------
(* Tokens and frames.  A lease, the request of a call and a token name a    *)
(* generation; admitRemote takes only generations above highWater, so that  *)
(* in the life of a process a peer's generation stands for one connection.  *)

bindingOf(x) == [ski |-> x.ski, generation |-> x.generation,
                 sender |-> x.sender]

Held(b) ==
    {bindingOf(b.bySKI[s]) : s \in {u \in SKIs : b.bySKI[u] # None}}
Called(k) ==
    {bindingOf(k[c].lease) : c \in {d \in Callers : k[d].at # "idle"}}
Issued(f) == {bindingOf(f[i]) : i \in DOMAIN f}

Bound(b, k, f) == Held(b) \cup Called(k) \cup Issued(f)

\* The bindings in B belong to one connection per peer and generation.
SameSender(B) ==
    \A x, y \in B : x.ski = y.ski /\ x.generation = y.generation => x = y
Below(B, highWater) == \A x \in B : x.generation <= highWater[x.ski]

BoundInv ==
    /\ SameSender(Bound(bridge, call, issuer))
    /\ Below(Bound(bridge, call, issuer), bridge.highWater)

\* Leases are only taken away.
Shrinks(b, r) == r.highWater = b.highWater
                 /\ \A s \in SKIs : r.bySKI[s] \in {b.bySKI[s], None}

LEMMA ShrinksHeld ==
    ASSUME NEW b, NEW r, Shrinks(b, r)
    PROVE  Held(r) \subseteq Held(b)
BY DEF Shrinks, Held

LEMMA RetireShrinks ==
    ASSUME NEW b \in Bridges, NEW l \in Lease \cup {None}, NEW k \in BOOLEAN
    PROVE  Shrinks(b, RetireLease(b, l, k))
<1>1. CASE l = None \/ Retired(b, l)
  BY <1>1 DEF RetireLease, Shrinks
<1>2. CASE l # None /\ ~Retired(b, l)
  <2> DEFINE r == RetireLease(b, l, k)
  <2>0. l \in Lease BY <1>2
  <2>1. r.highWater = b.highWater
        /\ r.bySKI = [b.bySKI EXCEPT ![l.ski] = IF @ = l THEN None ELSE @]
    BY <1>2, <2>0 DEF RetireLease, Bridges
  <2> HIDE DEF r
  <2>2. \A s \in SKIs : r.bySKI[s] \in {b.bySKI[s], None}
    BY <2>1 DEF Bridges
  <2> QED BY <2>1, <2>2 DEF Shrinks, r
<1> QED BY <1>1, <1>2

\* admitRemote adds the lease and moves highWater to its generation.
LEMMA AdmitAdds ==
    ASSUME NEW b \in Bridges, NEW l \in Lease
    PROVE  LET r == AdmitRemote(b, l)
           IN  /\ r.highWater = [b.highWater EXCEPT ![l.ski] = l.generation]
               /\ r.bySKI[l.ski] = l
               /\ \A s \in SKIs :
                    s # l.ski => r.bySKI[s] \in {b.bySKI[s], None}
<1> DEFINE one == RetireLease(b, b.bySKI[l.ski], FALSE)
           two == RetireLease(one, one.byAddr[l.address], FALSE)
           three == [two EXCEPT !.highWater[l.ski] = l.generation,
                                !.pending[l.ski] = 0,
                                !.bySKI[l.ski] = l,
                                !.byAddr[l.address] = l]
           r == AdmitRemote(b, l)
<1>1. l.ski \in SKIs /\ l.address \in Addresses BY DEF Lease
<1>2. one \in Bridges /\ Shrinks(b, one)
  BY <1>1, RetireTypes, RetireShrinks DEF Bridges
<1> HIDE DEF one
<1>3. two \in Bridges /\ Shrinks(one, two)
  BY <1>1, <1>2, RetireTypes, RetireShrinks DEF Bridges
<1> HIDE DEF two
<1>4. two.highWater = b.highWater
      /\ \A s \in SKIs : two.bySKI[s] \in {b.bySKI[s], None}
  BY <1>2, <1>3 DEF Shrinks
<1>5. /\ r.highWater = [two.highWater EXCEPT ![l.ski] = l.generation]
      /\ r.bySKI = [two.bySKI EXCEPT ![l.ski] = l]
  BY <1>3 DEF AdmitRemote, CaptureInventory, Bridges, two, one
<1> HIDE DEF r
<1>6. r.bySKI[l.ski] = l
      /\ \A s \in SKIs : s # l.ski => r.bySKI[s] = two.bySKI[s]
  BY <1>1, <1>3, <1>5 DEF Bridges
<1> QED BY <1>4, <1>5, <1>6 DEF r

\* The steps that change neither calls nor tokens.
LEMMA BridgeSteps ==
    ASSUME TypeInv, Next
    PROVE  \/ Crash
           \/ \E c \in Callers : CallStep(c)
           \/ \E i \in 1..MaxTokens : Expire(i)
           \/ /\ call' = call /\ issuer' = issuer
              /\ ghost'.frames = ghost.frames /\ ghost'.issued = ghost.issued
              /\ ghost'.uses = ghost.uses
              /\ \/ Shrinks(bridge, bridge')
                 \/ \E l \in Lease : /\ MayAdmit(bridge, l)
                                     /\ bridge' = AdmitRemote(bridge, l)
<1> DEFINE Quiet == /\ call' = call /\ issuer' = issuer
                    /\ ghost'.frames = ghost.frames
                    /\ ghost'.issued = ghost.issued
                    /\ ghost'.uses = ghost.uses
           Admits == \E l \in Lease : /\ MayAdmit(bridge, l)
                                     /\ bridge' = AdmitRemote(bridge, l)
           Goal == Quiet /\ (Shrinks(bridge, bridge') \/ Admits)
<1> bridge \in Bridges BY DEF TypeInv
<1>1. ASSUME bridge' = bridge PROVE Shrinks(bridge, bridge')
  BY <1>1 DEF Shrinks
<1>2. ASSUME NEW s \in SKIs, AllocateConnectionGeneration(s) PROVE Goal
  <2> DEFINE r == RetireLease(bridge, bridge.bySKI[s], TRUE)
  <2>1. bridge.bySKI[s] \in Lease \cup {None} BY DEF Bridges
  <2>2. r \in Bridges /\ Shrinks(bridge, r)
    BY <2>1, RetireTypes, RetireShrinks
  <2> HIDE DEF r
  <2>3. \/ bridge' = [r EXCEPT !.pending[s] = 0]
        \/ \E g : bridge' = [[r EXCEPT !.pending[s] = 0]
                             EXCEPT !.pending[s] = g]
    BY <1>2 DEF AllocateConnectionGeneration, r
  <2>4. bridge'.bySKI = r.bySKI /\ bridge'.highWater = r.highWater
    BY <2>2, <2>3 DEF Bridges
  <2>5. Shrinks(bridge, bridge') BY <2>2, <2>4 DEF Shrinks
  <2>6. Quiet BY <1>2 DEF AllocateConnectionGeneration, TypeInv, Ghosts
  <2> QED BY <2>5, <2>6
<1>3. ASSUME NEW s \in SKIs, RetireRemote(s) PROVE Goal
  <2>1. bridge.bySKI[s] \in Lease \cup {None} BY DEF Bridges
  <2>2. Shrinks(bridge, RetireLease(bridge, bridge.bySKI[s], TRUE))
    BY <2>1, RetireShrinks
  <2> QED BY <1>1, <1>3, <2>2 DEF RetireRemote
<1>4. ASSUME NEW l, bridge' = CaptureInventory(bridge, l)
      PROVE  Shrinks(bridge, bridge')
  BY <1>4 DEF CaptureInventory, Shrinks, Bridges
<1>5. ASSUME NEW t \in Threads, RefreshRemote(t) PROVE Goal
  BY <1>1, <1>4, <1>5 DEF RefreshRemote
<1>6. ASSUME NEW t \in Threads, AdmitStep(t) PROVE Goal
  <2>1. thread[t].lease \in Lease BY <1>6 DEF TypeInv, Thread, AdmitStep
  <2> QED BY <1>1, <1>6, <2>1 DEF AdmitStep
<1>7. ASSUME NEW s \in SKIs, FeaturesGet(s) PROVE Goal
  <2>1. CASE bridge' = [bridge EXCEPT !.inventory[s].source = "cache"]
    BY <1>7, <2>1 DEF FeaturesGet, Shrinks, Bridges
  <2> QED BY <1>4, <1>7, <2>1 DEF FeaturesGet
<1>8. CASE RetireAll
  BY <1>8 DEF RetireAll, RetireEvery, Shrinks, Bridges
<1>9. ASSUME NEW s \in SKIs, PeerStep(s) PROVE Goal
  <2>1. bridge' = bridge /\ call' = call /\ issuer' = issuer
    BY <1>9 DEF PeerStep, Connect, Disconnect, Discover
  <2>2. Quiet
    BY <1>9, <2>1 DEF PeerStep, Connect, Disconnect, Discover, TypeInv, Ghosts
  <2> QED BY <1>1, <2>1, <2>2
<1>10. ASSUME NEW s \in SKIs, HubStep(s) PROVE Goal
  BY <1>1, <1>2, <1>3, <1>5, <1>6, <1>10
     DEF HubStep, ThreadStep, RemoteSKIConnected, RecordConnected, Threads,
         ServiceShipIDUpdate, RemoteSKIDisconnected, CopyObservation
<1>11. CASE WorkerStep
  BY <1>1, <1>5, <1>6, <1>11
     DEF WorkerStep, ThreadStep, CopyObservation, Discovered, Threads
<1>12. CASE \/ \E s \in SKIs : Degrade(s) \/ Suppress(s)
            \/ DeactivateSPINEEvents \/ Repair
  BY <1>1, <1>12 DEF Degrade, Suppress, DeactivateSPINEEvents, Repair
<1> QED BY <1>7, <1>8, <1>9, <1>10, <1>11, <1>12 DEF Next

LEMMA SubsetKeeps ==
    ASSUME NEW B, NEW h, SameSender(B), Below(B, h), NEW C, C \subseteq B
    PROVE  SameSender(C) /\ Below(C, h)
BY DEF SameSender, Below

LEMMA AdmitBound ==
    ASSUME TypeInv, BoundInv, NEW l \in Lease, MayAdmit(bridge, l),
           bridge' = AdmitRemote(bridge, l), call' = call, issuer' = issuer
    PROVE  BoundInv'
<1> DEFINE B == Bound(bridge, call, issuer)
           C == Bound(bridge, call, issuer)'
           z == bindingOf(l)
           h == bridge.highWater
<1>1. /\ bridge \in Bridges /\ h \in [SKIs -> Nat]
      /\ l.ski \in SKIs /\ l.generation \in Nat /\ l.generation > h[l.ski]
  BY DEF TypeInv, Bridges, Lease, MayAdmit
<1>2. /\ bridge'.highWater = [h EXCEPT ![l.ski] = l.generation]
      /\ bridge'.bySKI[l.ski] = l
      /\ \A s \in SKIs :
           s # l.ski => bridge'.bySKI[s] \in {bridge.bySKI[s], None}
  BY <1>1, AdmitAdds
<1>3. Held(bridge') \subseteq Held(bridge) \cup {z}
  BY <1>2 DEF Held
<1>4. C \subseteq B \cup {z} BY <1>3 DEF Bound
<1>5. \A x \in B : x.ski \in SKIs /\ x.generation \in Nat
  <2>1. \A x \in Held(bridge) : x.ski \in SKIs /\ x.generation \in Nat
    BY <1>1 DEF Held, bindingOf, Bridges, Lease
  <2>2. \A x \in Called(call) : x.ski \in SKIs /\ x.generation \in Nat
    BY DEF Called, bindingOf, TypeInv, Call, Lease
  <2>3. \A x \in Issued(issuer) : x.ski \in SKIs /\ x.generation \in Nat
    BY TokenTypes DEF Issued, bindingOf, Token
  <2> QED BY <2>1, <2>2, <2>3 DEF Bound
<1>6. z.ski = l.ski /\ z.generation = l.generation BY DEF bindingOf
<1> HIDE DEF B, C, z, h
<1>7. SameSender(B) /\ Below(B, h) BY DEF BoundInv, B, h
<1>8. \A x \in B : x.ski = z.ski => x.generation # z.generation
  BY <1>1, <1>5, <1>6, <1>7 DEF Below
<1>9. SameSender(C) BY <1>4, <1>7, <1>8 DEF SameSender
<1>10. Below(C, bridge'.highWater)
  BY <1>1, <1>2, <1>4, <1>5, <1>6, <1>7 DEF Below
<1> QED BY <1>9, <1>10 DEF BoundInv, C

\* What a request must fit, the frames that were sent, and how often a token
\* was used.
CallsFit ==
    \A c \in Callers :
      call[c].at \in {"dispatch", "flight"} /\ call[c].read # 0
      => call[c].read = call[c].lease.sender
FramesFit == \A f \in ghost.frames : f.sent = f.read
TokensOnce ==
    /\ \A i \in DOMAIN issuer :
         i <= ghost.issued /\ (~issuer[i].consumed => ghost.uses[i] = 0)
    /\ \A i \in 1..MaxTokens :
         ghost.uses[i] <= 1 /\ (i > ghost.issued => ghost.uses[i] = 0)

TokenInv == BoundInv /\ CallsFit /\ FramesFit /\ TokensOnce

\* A call that requests, or drops its request, brings no new binding.
LEMMA RequestBound ==
    ASSUME TypeInv, NEW c \in Callers, NEW k \in Call,
           call' = [call EXCEPT ![c] = k],
           k.at # "idle" => bindingOf(k.lease) \in Bound(bridge, call, issuer)
    PROVE  Called(call') \subseteq Bound(bridge, call, issuer)
<1> SUFFICES ASSUME NEW d \in Callers, call'[d].at # "idle"
             PROVE  bindingOf(call'[d].lease) \in Bound(bridge, call, issuer)
  BY DEF Called
<1>1. CASE d = c BY <1>1 DEF TypeInv
<1>2. CASE d # c
  <2>1. call'[d] = call[d] BY <1>2 DEF TypeInv
  <2>2. bindingOf(call[d].lease) \in Called(call) BY <2>1 DEF Called
  <2> QED BY <2>1, <2>2 DEF Bound
<1> QED BY <1>1, <1>2

LEMMA CalledBound ==
    ASSUME TypeInv, BoundInv, bridge' = bridge,
           Called(call') \subseteq Bound(bridge, call, issuer),
           Issued(issuer') \subseteq Bound(bridge, call, issuer)
    PROVE  BoundInv'
<1>1. Bound(bridge, call, issuer)' \subseteq Bound(bridge, call, issuer)
  BY DEF Bound
<1> QED BY <1>1, SubsetKeeps DEF BoundInv

LEMMA HeldBound ==
    ASSUME NEW s \in SKIs, bridge.bySKI[s] # None
    PROVE  bindingOf(bridge.bySKI[s]) \in Bound(bridge, call, issuer)
BY DEF Held, Bound

LEMMA IssuedBound == Issued(issuer) \subseteq Bound(bridge, call, issuer)
BY DEF Bound

LEMMA ReadTargetTokens ==
    ASSUME TypeInv, TokenInv, NEW c \in Callers, NEW s \in SKIs,
           ReadTarget(c, s)
    PROVE  TokenInv'
<1> DEFINE k == [at |-> "dispatch", lease |-> bridge.bySKI[s], read |-> 0]
<1>1. call' = [call EXCEPT ![c] = k] BY DEF ReadTarget, Request
<1>2. bridge.bySKI[s] \in Lease BY RequestableTypes DEF ReadTarget
<1>3. k \in Call BY <1>2, FeatureReadsAssumption DEF Call
<1>4. Called(call') \subseteq Bound(bridge, call, issuer)
  <2>1. bindingOf(k.lease) \in Bound(bridge, call, issuer)
    BY HeldBound DEF ReadTarget, Requestable
  <2> HIDE DEF k
  <2> QED BY <1>1, <1>3, <2>1, RequestBound
<1>5. BoundInv'
  BY <1>4, CalledBound, IssuedBound DEF TokenInv, ReadTarget
<1>6. CallsFit' BY <1>1 DEF TokenInv, CallsFit, TypeInv
<1> QED BY <1>5, <1>6 DEF TokenInv, ReadTarget, FramesFit, TokensOnce

\* The lease a token is presented with is of the connection it was read on.
LEMMA TokenFits ==
    ASSUME TypeInv, MapsAgree(bridge), BoundInv, NEW i \in DOMAIN issuer,
           Requestable(issuer[i].ski),
           ExpectedBinding(bridge.bySKI[issuer[i].ski], issuer[i])
    PROVE  bridge.bySKI[issuer[i].ski].sender = issuer[i].sender
<1> DEFINE s == issuer[i].ski
           l == bridge.bySKI[s]
<1>1. issuer[i] \in Token /\ s \in SKIs BY TokenTypes DEF Token
<1>2. l \in Lease /\ l # None /\ l.ski = s
  BY <1>1, RequestableTypes DEF Requestable, MapsAgree
<1>3. bindingOf(l) \in Bound(bridge, call, issuer) BY <1>1, <1>2, HeldBound
<1>4. bindingOf(issuer[i]) \in Bound(bridge, call, issuer)
  BY DEF Issued, Bound
<1>5. bindingOf(l) = bindingOf(issuer[i])
  BY <1>2, <1>3, <1>4
     DEF BoundInv, SameSender, ExpectedBinding, bindingOf
<1> QED BY <1>5 DEF bindingOf

\* A request with the binding of a token.
LEMMA RequestTokens ==
    ASSUME TypeInv, MapsAgree(bridge), TokenInv, NEW c \in Callers,
           NEW i \in DOMAIN issuer, Requestable(issuer[i].ski),
           ExpectedBinding(bridge.bySKI[issuer[i].ski], issuer[i]),
           Request(c, bridge.bySKI[issuer[i].ski], issuer[i].sender)
    PROVE  /\ Called(call') \subseteq Bound(bridge, call, issuer)
           /\ CallsFit'
<1> DEFINE l == bridge.bySKI[issuer[i].ski]
           k == [at |-> "dispatch", lease |-> l, read |-> issuer[i].sender]
<1>1. call' = [call EXCEPT ![c] = k] BY DEF Request
<1>2. issuer[i] \in Token /\ issuer[i].sender \in 0..MaxConnections
      /\ issuer[i].ski \in SKIs
  BY TokenTypes DEF Token
<1>3. l \in Lease /\ l # None BY <1>2, RequestableTypes DEF Requestable
<1>4. k \in Call BY <1>2, <1>3 DEF Call
<1>5. l.sender = issuer[i].sender BY TokenFits DEF TokenInv
<1>6. Called(call') \subseteq Bound(bridge, call, issuer)
  <2>1. bindingOf(k.lease) \in Bound(bridge, call, issuer)
    BY <1>2, <1>3, HeldBound
  <2> HIDE DEF k
  <2> QED BY <1>1, <1>4, <2>1, RequestBound
<1>7. CallsFit' BY <1>1, <1>5 DEF TokenInv, CallsFit, TypeInv
<1> QED BY <1>6, <1>7

LEMMA FullReadTokens ==
    ASSUME TypeInv, MapsAgree(bridge), TokenInv, NEW c \in Callers, NEW i,
           FullReadIfCurrent(c, i)
    PROVE  TokenInv'
<1>1. Called(call') \subseteq Bound(bridge, call, issuer) /\ CallsFit'
  BY RequestTokens DEF FullReadIfCurrent
<1>2. BoundInv'
  BY <1>1, CalledBound, IssuedBound DEF TokenInv, FullReadIfCurrent
<1> QED BY <1>1, <1>2 DEF TokenInv, FullReadIfCurrent, FramesFit, TokensOnce

\* ConsumeReadToken: the first use of a token is its last.
LEMMA FullWriteTokens ==
    ASSUME TypeInv, MapsAgree(bridge), TokenInv, NEW c \in Callers, NEW i,
           FullWriteIfCurrent(c, i)
    PROVE  TokenInv'
<1> DEFINE s == issuer[i].ski
<1>1. /\ i \in DOMAIN issuer /\ MayConsume(i) /\ bridge' = bridge
      /\ issuer' = [issuer EXCEPT ![i].consumed = TRUE]
      /\ ghost' = [ghost EXCEPT !.uses[i] = @ + 1]
      /\ \/ call' = call
         \/ /\ Requestable(s) /\ ExpectedBinding(bridge.bySKI[s], issuer[i])
            /\ Request(c, bridge.bySKI[s], issuer[i].sender)
  BY Zenon DEF FullWriteIfCurrent
<1>2. Called(call') \subseteq Bound(bridge, call, issuer) /\ CallsFit'
  <2>1. CASE call' = call
    BY <2>1 DEF Bound, TokenInv, CallsFit
  <2> QED BY <1>1, <2>1, RequestTokens
<1>3. /\ DOMAIN issuer \subseteq 1..MaxTokens
      /\ \A j \in DOMAIN issuer : issuer[j] \in Token
      /\ issuer \in [DOMAIN issuer -> Token]
  BY DEF TypeInv, Issuers
<1>4. /\ DOMAIN issuer' = DOMAIN issuer
      /\ \A j \in DOMAIN issuer : bindingOf(issuer'[j]) = bindingOf(issuer[j])
      /\ \A j \in DOMAIN issuer : j # i => issuer'[j] = issuer[j]
      /\ issuer'[i].consumed
  BY <1>1, <1>3 DEF bindingOf, Token
<1>5. Issued(issuer') \subseteq Bound(bridge, call, issuer)
  BY <1>4 DEF Issued, Bound
<1>6. BoundInv' BY <1>1, <1>2, <1>5, CalledBound DEF TokenInv
<1>7. /\ ghost'.issued = ghost.issued /\ ghost'.frames = ghost.frames
      /\ ghost'.uses = [ghost.uses EXCEPT ![i] = @ + 1]
      /\ ghost.uses \in [1..MaxTokens -> Nat] /\ ghost.issued \in Nat
  BY <1>1 DEF TypeInv, Ghosts
<1>8. ghost.uses[i] = 0 /\ i <= ghost.issued /\ i \in 1..MaxTokens
  BY <1>1, <1>3 DEF TokenInv, TokensOnce, MayConsume
<1>9. ghost'.uses[i] = 1
      /\ \A j \in 1..MaxTokens : j # i => ghost'.uses[j] = ghost.uses[j]
  <2> DEFINE u == ghost.uses
  <2>1. u \in [1..MaxTokens -> Nat] /\ u[i] = 0 BY <1>7, <1>8
  <2>2. ghost'.uses = [u EXCEPT ![i] = u[i] + 1] BY <1>7
  <2> HIDE DEF u
  <2>3. ghost'.uses = [u EXCEPT ![i] = 1] BY <2>1, <2>2
  <2>4. ghost'.uses[i] = 1 BY <1>8, <2>1, <2>3
  <2>5. \A j \in 1..MaxTokens : j # i => ghost'.uses[j] = u[j]
    BY <2>1, <2>3
  <2> QED BY <2>4, <2>5 DEF u
<1>10. TokensOnce'
  <2>1. \A j \in DOMAIN issuer' :
          j <= ghost'.issued /\ (~issuer'[j].consumed => ghost'.uses[j] = 0)
    BY <1>3, <1>4, <1>7, <1>9 DEF TokenInv, TokensOnce
  <2>2. \A j \in 1..MaxTokens :
          ghost'.uses[j] <= 1 /\ (j > ghost'.issued => ghost'.uses[j] = 0)
    BY <1>7, <1>8, <1>9 DEF TokenInv, TokensOnce
  <2> QED BY <2>1, <2>2 DEF TokensOnce
<1>11. FramesFit' BY <1>7 DEF TokenInv, FramesFit
<1> QED BY <1>2, <1>6, <1>10, <1>11 DEF TokenInv

\* RoundTripIfCurrent sends over the lease found by the address, which is the
\* lease the request names.
LEMMA DispatchTokens ==
    ASSUME TypeInv, MapsAgree(bridge), TokenInv, NEW c \in Callers,
           Dispatch(c)
    PROVE  TokenInv'
<1> DEFINE w == call[c].lease
           l == bridge.byAddr[w.address]
           k == [call[c] EXCEPT !.at = "flight", !.lease = l]
<1>1. call[c] \in Call /\ call[c].at = "dispatch" /\ w \in Lease
  BY DEF TypeInv, Call, Dispatch
<1>2. l \in Lease \cup {None} /\ w.address \in Addresses
  BY <1>1 DEF TypeInv, Bridges, Lease
<1>3. CASE ~MayDispatch(l, w)
  <2>1. call' = [call EXCEPT ![c] = ready] BY <1>3 DEF Dispatch
  <2>2. Called(call') \subseteq Bound(bridge, call, issuer)
    BY <2>1, ReadyTypes, RequestBound DEF ready
  <2>3. BoundInv' BY <2>2, CalledBound, IssuedBound DEF TokenInv, Dispatch
  <2>4. CallsFit' BY <2>1 DEF TokenInv, CallsFit, TypeInv, ready
  <2> QED BY <2>3, <2>4 DEF TokenInv, Dispatch, FramesFit, TokensOnce
<1>4. CASE MayDispatch(l, w)
  <2>1. l \in Lease /\ l # None /\ l.ski = w.ski
        /\ l.generation = w.generation
    BY <1>2, <1>4 DEF MayDispatch, SameIdentity
  <2>2. bridge.bySKI[l.ski] = l /\ l.ski \in SKIs
    BY <1>2, <2>1 DEF MapsAgree, Lease
  <2>3. bindingOf(l) \in Bound(bridge, call, issuer)
    BY <2>1, <2>2, HeldBound
  <2>4. bindingOf(w) \in Bound(bridge, call, issuer)
    BY <1>1 DEF Called, Bound
  <2>5. l.sender = w.sender
    <3>1. bindingOf(l) = bindingOf(w)
      BY <2>1, <2>3, <2>4 DEF TokenInv, BoundInv, SameSender, bindingOf
    <3> QED BY <3>1 DEF bindingOf
  <2>6. call' = [call EXCEPT ![c] = k] BY <1>4 DEF Dispatch
  <2>7. k \in Call /\ k.lease = l /\ k.read = call[c].read
    BY <1>1, <2>1 DEF Call
  <2>8. call[c].read # 0 => call[c].read = w.sender
    BY <1>1 DEF TokenInv, CallsFit
  <2> HIDE DEF k, l
  <2>9. Called(call') \subseteq Bound(bridge, call, issuer)
    BY <2>3, <2>6, <2>7, RequestBound
  <2>10. BoundInv' BY <2>9, CalledBound, IssuedBound DEF TokenInv, Dispatch
  <2>11. CallsFit'
    BY <2>5, <2>6, <2>7, <2>8 DEF TokenInv, CallsFit, TypeInv
  <2> QED BY <2>10, <2>11 DEF TokenInv, Dispatch, FramesFit, TokensOnce
<1> QED BY <1>3, <1>4

LEMMA RoundTripTokens ==
    ASSUME TypeInv, TokenInv, NEW c \in Callers, RoundTrip(c)
    PROVE  TokenInv'
<1> DEFINE k == [call[c] EXCEPT !.at = "issue"]
<1>1. call[c] \in Call /\ call[c].at = "flight" /\ call[c].lease \in Lease
  BY DEF TypeInv, Call, RoundTrip
<1>2. k \in Call /\ k.lease = call[c].lease /\ k.at = "issue"
  BY <1>1 DEF Call
<1>3. bindingOf(call[c].lease) \in Bound(bridge, call, issuer)
  BY <1>1 DEF Called, Bound
<1> HIDE DEF k
<1>4. call' = [call EXCEPT ![c] = k] \/ call' = [call EXCEPT ![c] = ready]
  BY Zenon DEF RoundTrip, k
<1>5. Called(call') \subseteq Bound(bridge, call, issuer)
  BY <1>2, <1>3, <1>4, ReadyTypes, RequestBound DEF ready
<1>6. BoundInv' BY <1>5, CalledBound, IssuedBound DEF TokenInv, RoundTrip
<1>7. CallsFit'
  BY <1>2, <1>4 DEF TokenInv, CallsFit, TypeInv, ready
<1>8. /\ ghost'.issued = ghost.issued /\ ghost'.uses = ghost.uses
      /\ ghost'.frames \subseteq ghost.frames \cup
           IF call[c].read = 0 THEN {}
           ELSE {[read |-> call[c].read, sent |-> call[c].lease.sender]}
  BY DEF RoundTrip, TypeInv, Ghosts
<1>9. call[c].read # 0 => call[c].read = call[c].lease.sender
  BY <1>1 DEF TokenInv, CallsFit
<1>10. FramesFit' BY <1>8, <1>9 DEF TokenInv, FramesFit
<1>11. TokensOnce' BY <1>8 DEF TokenInv, TokensOnce, RoundTrip
<1> QED BY <1>6, <1>7, <1>10, <1>11 DEF TokenInv

\* issue: the new token is bound to the lease that was read.
LEMMA IssueTokens ==
    ASSUME TypeInv, TokenInv, NEW c \in Callers, Issue(c)
    PROVE  TokenInv'
<1> DEFINE l == call[c].lease
           i == ghost.issued + 1
           new == [ski |-> l.ski, epoch |-> l.epoch,
                   generation |-> l.generation, sender |-> l.sender,
                   consumed |-> FALSE, expired |-> FALSE]
<1>1. call[c].at = "issue" /\ l \in Lease BY DEF TypeInv, Call, Issue
<1>2. bindingOf(l) \in Bound(bridge, call, issuer)
  BY <1>1 DEF Called, Bound
<1>3. bindingOf(new) = bindingOf(l) BY DEF bindingOf
<1>4. DOMAIN Purged \subseteq DOMAIN issuer
      /\ \A j \in DOMAIN Purged : Purged[j] = issuer[j]
  BY DEF Purged
<1>5. call' = [call EXCEPT ![c] = ready] BY DEF Issue
<1>6. Called(call') \subseteq Bound(bridge, call, issuer)
  BY <1>5, ReadyTypes, RequestBound DEF ready
<1>7. CallsFit' BY <1>5 DEF TokenInv, CallsFit, TypeInv, ready
<1>8. /\ ghost.issued \in Nat /\ ghost.uses \in [1..MaxTokens -> Nat]
      /\ DOMAIN issuer \subseteq 1..MaxTokens
  BY DEF TypeInv, Ghosts, Issuers
<1> HIDE DEF new, l
<1>9. CASE /\ ghost.issued < MaxTokens
           /\ issuer' = [j \in DOMAIN Purged \cup {i} |->
                          IF j = i THEN new ELSE Purged[j]]
           /\ ghost' = [ghost EXCEPT !.issued = i]
  <2>1. /\ ghost'.issued = i /\ ghost'.uses = ghost.uses
        /\ ghost'.frames = ghost.frames
    BY <1>9 DEF TypeInv, Ghosts
  <2>2. /\ DOMAIN issuer' = DOMAIN Purged \cup {i} /\ issuer'[i] = new
        /\ \A j \in DOMAIN Purged : j # i => issuer'[j] = issuer[j]
    BY <1>4, <1>9
  <2>3. Issued(issuer') \subseteq Bound(bridge, call, issuer)
    BY <1>2, <1>3, <1>4, <2>2 DEF Issued, Bound
  <2>4. BoundInv' BY <1>6, <2>3, CalledBound DEF TokenInv, Issue
  <2>5. ghost.uses[i] = 0
    <3>1. i \in 1..MaxTokens /\ i > ghost.issued
      BY <1>8, <1>9, FeatureReadsAssumption
    <3> QED BY <3>1 DEF TokenInv, TokensOnce
  <2>6. \A j \in DOMAIN issuer' :
          j <= ghost'.issued /\ (~issuer'[j].consumed => ghost'.uses[j] = 0)
    BY <1>4, <1>8, <2>1, <2>2, <2>5 DEF TokenInv, TokensOnce
  <2>7. \A j \in 1..MaxTokens :
          ghost'.uses[j] <= 1 /\ (j > ghost'.issued => ghost'.uses[j] = 0)
    BY <1>8, <2>1 DEF TokenInv, TokensOnce
  <2> QED BY <1>7, <2>1, <2>4, <2>6, <2>7
          DEF TokenInv, FramesFit, TokensOnce
<1>10. CASE issuer' = Purged /\ ghost' = ghost
  <2>1. Issued(issuer') \subseteq Bound(bridge, call, issuer)
    BY <1>4, <1>10 DEF Issued, Bound
  <2>2. BoundInv' BY <1>6, <2>1, CalledBound DEF TokenInv, Issue
  <2>3. TokensOnce' BY <1>4, <1>10 DEF TokenInv, TokensOnce
  <2> QED BY <1>7, <1>10, <2>2, <2>3 DEF TokenInv, FramesFit
<1> QED BY <1>9, <1>10 DEF Issue, new, l

\* A token that expires or is refused keeps or loses its binding.
LEMMA ForgetTokens ==
    ASSUME TypeInv, TokenInv, NEW i,
           Expire(i) \/ \E c \in Callers : RefuseExpired(c, i)
    PROVE  TokenInv'
<1>1. /\ bridge' = bridge /\ call' = call /\ ghost' = ghost
      /\ i \in DOMAIN issuer
      /\ \/ issuer' = [issuer EXCEPT ![i].expired = TRUE]
         \/ issuer' = [j \in DOMAIN issuer \ {i} |-> issuer[j]]
  BY DEF Expire, RefuseExpired
<1>2. /\ \A j \in DOMAIN issuer : issuer[j] \in Token
      /\ issuer \in [DOMAIN issuer -> Token]
  BY DEF TypeInv, Issuers
<1>3. /\ DOMAIN issuer' \subseteq DOMAIN issuer
      /\ \A j \in DOMAIN issuer' :
           /\ bindingOf(issuer'[j]) = bindingOf(issuer[j])
           /\ issuer'[j].consumed = issuer[j].consumed
  <2>1. CASE issuer' = [issuer EXCEPT ![i].expired = TRUE]
    BY <1>1, <1>2, <2>1 DEF bindingOf, Token
  <2>2. CASE issuer' = [j \in DOMAIN issuer \ {i} |-> issuer[j]]
    BY <2>2
  <2> QED BY <1>1, <2>1, <2>2
<1>4. Issued(issuer') \subseteq Bound(bridge, call, issuer)
  BY <1>3 DEF Issued, Bound
<1>5. Called(call') \subseteq Bound(bridge, call, issuer)
  BY <1>1 DEF Bound
<1>6. BoundInv' BY <1>1, <1>4, <1>5, CalledBound DEF TokenInv
<1>7. TokensOnce' BY <1>1, <1>3 DEF TokenInv, TokensOnce
<1> QED BY <1>1, <1>6, <1>7 DEF TokenInv, CallsFit, FramesFit

LEMMA TokenStep ==
    ASSUME TypeInv, MapsAgree(bridge), TokenInv, [Next]_vars
    PROVE  TokenInv'
<1>1. CASE UNCHANGED vars
  BY <1>1 DEF vars, TokenInv, BoundInv, CallsFit, FramesFit, TokensOnce
<1>2. CASE Crash
  <2>1. /\ \A s \in SKIs : bridge'.bySKI[s] = None
        /\ \A c \in Callers : call'[c] = ready
        /\ DOMAIN issuer' = {}
    BY <1>2 DEF Crash, newBridge
  <2>2. Bound(bridge, call, issuer)' = {}
    BY <2>1 DEF Bound, Held, Called, Issued, ready
  <2>3. BoundInv' BY <2>2 DEF BoundInv, SameSender, Below
  <2>4. CallsFit' BY <2>1 DEF CallsFit, ready
  <2>5. ghost' = ghost BY <1>2 DEF Crash
  <2> QED BY <2>1, <2>3, <2>4, <2>5
          DEF TokenInv, FramesFit, TokensOnce
<1>3. ASSUME NEW c \in Callers, CallStep(c) PROVE TokenInv'
  BY <1>3, ReadTargetTokens, DispatchTokens, RoundTripTokens, IssueTokens,
     FullReadTokens, FullWriteTokens, ForgetTokens
     DEF CallStep
<1>4. ASSUME NEW i \in 1..MaxTokens, Expire(i) PROVE TokenInv'
  BY <1>4, ForgetTokens
<1>5. CASE /\ call' = call /\ issuer' = issuer
           /\ ghost'.frames = ghost.frames /\ ghost'.issued = ghost.issued
           /\ ghost'.uses = ghost.uses
           /\ \/ Shrinks(bridge, bridge')
              \/ \E l \in Lease : /\ MayAdmit(bridge, l)
                                  /\ bridge' = AdmitRemote(bridge, l)
  <2>1. ASSUME Shrinks(bridge, bridge') PROVE BoundInv'
    <3>1. bridge'.highWater = bridge.highWater BY <2>1 DEF Shrinks
    <3>2. Held(bridge') \subseteq Held(bridge) BY <2>1, ShrinksHeld
    <3>3. Bound(bridge, call, issuer)' \subseteq Bound(bridge, call, issuer)
      BY <1>5, <3>2 DEF Bound
    <3> QED BY <3>1, <3>3, SubsetKeeps DEF BoundInv, TokenInv
  <2>2. BoundInv'
    BY <1>5, <2>1, AdmitBound DEF TokenInv
  <2> QED BY <1>5, <2>2 DEF TokenInv, CallsFit, FramesFit, TokensOnce
<1> QED BY <1>1, <1>2, <1>3, <1>4, <1>5, BridgeSteps

\* Writes and before-image reads reach the connection that was read, and a
\* token admits one write, for any number of peers, callers, tokens and
\* connections (RoundTripIfCurrent, requireExpectedMutationBinding,
\* ConsumeReadToken).
THEOREM WritesReachHold == Spec => []WriteReachesWhatWasRead
<1> DEFINE I == TypeInv /\ MapsAgree(bridge) /\ TokenInv
<1>1. Init => I
  <2> SUFFICES ASSUME Init PROVE I OBVIOUS
  <2>1. TypeInv BY TypeStart
  <2>2. MapsAgree(bridge) BY DEF Init, newBridge, MapsAgree, liveIn
  <2>3. /\ \A s \in SKIs : bridge.bySKI[s] = None
        /\ \A c \in Callers : call[c] = ready
        /\ DOMAIN issuer = {}
    BY DEF Init, newBridge
  <2>4. Bound(bridge, call, issuer) = {}
    BY <2>3 DEF Bound, Held, Called, Issued, ready
  <2>5. BoundInv BY <2>4 DEF BoundInv, SameSender, Below
  <2>6. CallsFit BY <2>3 DEF CallsFit, ready
  <2>7. FramesFit /\ TokensOnce BY <2>3 DEF Init, FramesFit, TokensOnce
  <2> QED BY <2>1, <2>2, <2>5, <2>6, <2>7 DEF TokenInv
<1>2. I /\ [Next]_vars => I'
  BY TypeStep, AgreeStep, TokenStep
<1>3. I => WriteReachesWhatWasRead
  BY DEF TokenInv, FramesFit, TokensOnce, WriteReachesWhatWasRead
<1> QED BY <1>1, <1>2, <1>3, PTL DEF Spec

-----------------------------------------------------------------------------
(* Generations.  What was handed out in the running epoch is counted in the *)
(* file, in the one that is read and in the one that a crash may bring      *)
(* back, unless a write of an earlier epoch replaced that file.             *)

Counted(f) ==
    \A x \in ghost.allocated :
      x.epoch = epoch /\ epoch \notin ghost.replaced =>
        f.epoch = epoch /\ x.generation <= f.of[x.ski]

NumbersKept ==
    /\ Counted(file.seen) /\ Counted(file.safe)
    /\ \A x \in ghost.allocated : x.epoch <= epoch
    /\ \A t \in Threads : thread[t].epoch <= epoch

NumberInv == NumbersKept /\ GenerationNeverReused

\* The steps that neither allocate nor write the file.
LEMMA NumberFrame ==
    ASSUME TypeInv, NumberInv, file' = file, ghost'.allocated = ghost.allocated,
           ghost'.replaced = ghost.replaced, epoch' = epoch,
           \A t \in Threads : thread'[t].epoch <= epoch
    PROVE  NumberInv'
BY DEF NumberInv, NumbersKept, Counted, GenerationNeverReused

LEMMA RepairNumbers == ASSUME TypeInv, NumberInv, Repair PROVE NumberInv'
<1>1. epoch' = epoch + 1 /\ ghost' = ghost /\ thread' = thread
  BY DEF Repair
<1>2. epoch \in Nat /\ \A x \in ghost.allocated : x.epoch \in Nat
  BY DEF TypeInv, Ghosts, Allocation
<1>3. \A x \in ghost'.allocated : x.epoch < epoch'
  BY <1>1, <1>2 DEF NumberInv, NumbersKept
<1>4. \A t \in Threads : thread[t].epoch \in Nat
  BY DEF TypeInv, Thread
<1>5. \A x \in ghost'.allocated : x.epoch # epoch' /\ x.epoch <= epoch'
  BY <1>1, <1>2, <1>3
<1>6. \A t \in Threads : thread'[t].epoch <= epoch'
  BY <1>1, <1>2, <1>4 DEF NumberInv, NumbersKept
<1> QED BY <1>1, <1>5, <1>6
        DEF NumberInv, NumbersKept, Counted, GenerationNeverReused

LEMMA CrashNumbers == ASSUME TypeInv, NumberInv, Crash PROVE NumberInv'
<1>1. /\ epoch' = epoch /\ ghost' = ghost
      /\ \/ file'.seen = file.seen /\ file'.safe = file.seen
         \/ file'.seen = file.safe /\ file'.safe = file.safe
      /\ \A t \in Threads : thread'[t].epoch = 0
  BY DEF Crash, resting
<1>2. epoch \in Nat BY DEF TypeInv
<1> QED BY <1>1, <1>2 DEF NumberInv, NumbersKept, Counted, GenerationNeverReused

\* allocateNext: a number that is handed out is above all of its peer and
\* epoch, and it is on disk before it is handed out.
LEMMA AllocateNumbers ==
    ASSUME TypeInv, NumberInv, NEW s \in SKIs, AllocateConnectionGeneration(s)
    PROVE  NumberInv'
<1> DEFINE e == thread[s].epoch
           g == readState(e).of[s] + 1
           next == allocateNext(s, e)
           z == [ski |-> s, epoch |-> e, generation |-> g,
                 nth |-> Cardinality(ghost.allocated) + 1]
<1>1. e \in Nat /\ epoch \in Nat /\ e <= epoch
  BY DEF TypeInv, Thread, Threads, NumberInv, NumbersKept
<1>2. readState(e) \in Generations BY <1>1, StateTypes
<1>3. /\ next.epoch = readState(e).epoch
      /\ next.of = [readState(e).of EXCEPT ![s] = g]
  BY <1>2 DEF allocateNext, Generations
<1>4. readState(e).epoch = e BY DEF readState, noFile
<1>5. g \in Nat /\ next.epoch = e /\ next.of[s] = g
      /\ \A u \in SKIs : readState(e).of[u] <= next.of[u]
  BY <1>2, <1>3, <1>4 DEF Generations
<1>6. \A x \in ghost.allocated :
        x.ski \in SKIs /\ x.epoch \in Nat /\ x.generation \in Nat
  BY DEF TypeInv, Ghosts, Allocation
<1>7. file \in Files BY DEF TypeInv
<1> HIDE DEF g, next
<1>8. PICK stored \in Stores(s, e) :
        /\ file' = stored.file
        /\ ghost'.replaced = ghost.replaced \cup Replaced(e, stored.file)
        /\ \/ stored.ok /\ epoch = e
              /\ ghost'.allocated = ghost.allocated \cup {z}
           \/ ghost'.allocated = ghost.allocated
  BY DEF AllocateConnectionGeneration, g, TypeInv, Ghosts
<1>9. epoch' = epoch /\ \A t \in Threads : thread'[t].epoch <= epoch
  <2>1. epoch' = epoch BY DEF AllocateConnectionGeneration
  <2>2. \/ thread' = [thread EXCEPT ![s] = resting]
        \/ \E i : thread' = [thread EXCEPT ![s] =
                      [thread[s] EXCEPT !.at = "record", !.index = i]]
    BY DEF AllocateConnectionGeneration
  <2>3. resting.epoch = 0 BY DEF resting
  <2>4. \A i : [thread[s] EXCEPT !.at = "record", !.index = i].epoch = e
    BY DEF TypeInv, Threads, Thread
  <2>5. \A t \in Threads : thread'[t].epoch \in {thread[t].epoch, 0}
    BY <2>2, <2>3, <2>4 DEF TypeInv, Threads
  <2> QED BY <1>1, <2>1, <2>5 DEF NumberInv, NumbersKept
<1>10. \/ file'.seen = next /\ file'.safe \in {next, file.seen}
       \/ file'.seen = file.seen /\ file'.safe \in {file.seen, file.safe}
  BY <1>7, <1>8 DEF Stores, NotOpened, OpenedOnly, Files, next
<1>11. stored.ok => file'.seen = next /\ file'.safe = next
  BY <1>8 DEF Stores, NotOpened, OpenedOnly, next
<1>12. ASSUME NEW x \in ghost.allocated, x.epoch = epoch,
              epoch \notin ghost'.replaced
       PROVE  /\ file.seen.epoch = epoch /\ file.safe.epoch = epoch
              /\ x.generation <= file.seen.of[x.ski]
              /\ x.generation <= file.safe.of[x.ski]
  BY <1>8, <1>12 DEF NumberInv, NumbersKept, Counted
<1>13. ASSUME NEW x \in ghost.allocated, x.epoch = epoch,
              epoch \notin ghost'.replaced, file'.seen = next
       PROVE  next.epoch = epoch /\ x.generation <= next.of[x.ski]
              /\ (x.ski = s => x.generation < g)
  <2>1. file.seen.epoch = epoch BY <1>12, <1>13
  <2>2. CASE e = epoch
    <3>1. readState(e) = file.seen BY <2>1, <2>2 DEF readState
    <3>2. x.generation <= readState(e).of[x.ski] BY <1>12, <1>13, <3>1
    <3>3. x.ski \in SKIs /\ x.generation \in Nat BY <1>6
    <3>4. readState(e).of[x.ski] \in Nat /\ next.of[x.ski] \in Nat
          /\ readState(e).of[s] \in Nat
      BY <1>2, <1>3, <1>5, <3>3 DEF Generations
    <3>5. x.generation <= next.of[x.ski] BY <1>5, <3>2, <3>3, <3>4
    <3>6. x.ski = s => x.generation < g BY <3>2, <3>3, <3>4 DEF g
    <3> QED BY <1>5, <2>2, <3>5, <3>6
  <2>3. CASE e # epoch
    <3>1. e < file.seen.epoch BY <1>1, <2>1, <2>3
    <3>2. next # file.seen BY <1>5, <2>1, <2>3
    <3>3. Replaced(e, stored.file) = {file.seen.epoch}
      BY <1>8, <1>13, <3>1, <3>2 DEF Replaced
    <3> QED BY <1>8, <1>13, <2>1, <3>3
  <2> QED BY <2>2, <2>3
<1>14. CASE ghost'.allocated = ghost.allocated
  <2>1. Counted(file.seen)' /\ Counted(file.safe)'
    BY <1>9, <1>10, <1>12, <1>13, <1>14 DEF Counted
  <2>2. GenerationNeverReused'
    BY <1>8, <1>14 DEF NumberInv, GenerationNeverReused
  <2> QED BY <1>9, <1>14, <2>1, <2>2 DEF NumberInv, NumbersKept
<1>15. CASE stored.ok /\ epoch = e
            /\ ghost'.allocated = ghost.allocated \cup {z}
  <2>1. file'.seen = next /\ file'.safe = next BY <1>11, <1>15
  <2>2. z.ski = s /\ z.epoch = epoch /\ z.generation = g BY <1>15
  <2> HIDE DEF z
  <2>3. Counted(file.seen)' /\ Counted(file.safe)'
    BY <1>5, <1>9, <1>13, <1>15, <2>1, <2>2 DEF Counted
  <2>4. GenerationNeverReused'
    <3>1. \A x \in ghost.allocated :
            x.ski = s /\ x.epoch = epoch /\ epoch \notin ghost'.replaced
            => x.generation # g
      BY <1>5, <1>6, <1>13, <2>1
    <3> QED BY <1>8, <1>15, <2>2, <3>1 DEF NumberInv, GenerationNeverReused
  <2>5. \A x \in ghost'.allocated : x.epoch <= epoch
    BY <1>1, <1>15, <2>2 DEF NumberInv, NumbersKept
  <2> QED BY <1>9, <2>3, <2>4, <2>5 DEF NumberInv, NumbersKept
<1> QED BY <1>8, <1>14, <1>15

LEMMA NumberStep ==
    ASSUME TypeInv, NumberInv, [Next]_vars
    PROVE  NumberInv'
<1> DEFINE Still == /\ file' = file /\ ghost'.allocated = ghost.allocated
                    /\ ghost'.replaced = ghost.replaced /\ epoch' = epoch
           Threaded == \A t \in Threads : thread'[t].epoch <= epoch
<1>1. epoch \in Nat /\ thread \in [Threads -> Thread]
      /\ (\A t \in Threads : thread[t].epoch <= epoch)
  BY DEF TypeInv, NumberInv, NumbersKept
<1>2. ASSUME thread' = thread PROVE Threaded BY <1>1, <1>2
<1>3. ASSUME NEW u \in Threads, NEW r, thread' = [thread EXCEPT ![u] = r],
             r.epoch <= epoch
      PROVE  Threaded
  BY <1>1, <1>3
<1>4. /\ resting.epoch <= epoch
      /\ \A p, s : [resting EXCEPT !.at = p, !.ski = s].epoch <= epoch
      /\ \A p, s : [resting EXCEPT !.at = p, !.ski = s,
                                   !.epoch = epoch].epoch <= epoch
  BY <1>1 DEF resting
<1>5. \A t \in Threads : \A p, i, l :
        /\ [thread[t] EXCEPT !.at = p, !.index = i].epoch <= epoch
        /\ [thread[t] EXCEPT !.at = p, !.index = i, !.lease = l].epoch
             <= epoch
  BY <1>1 DEF Thread
<1>6. ASSUME NEW s \in SKIs, PeerStep(s) PROVE Still /\ Threaded
  BY <1>2, <1>6 DEF PeerStep, Connect, Disconnect, Discover, TypeInv, Ghosts
<1>7. ASSUME NEW t \in Threads, ThreadStep(t) PROVE Still /\ Threaded
  <2>1. Still
    BY <1>7 DEF ThreadStep, CopyObservation, RefreshRemote, AdmitStep, world
  <2>2. \/ thread' = [thread EXCEPT ![t] = resting]
        \/ \E p, i : thread' = [thread EXCEPT ![t] =
                        [thread[t] EXCEPT !.at = p, !.index = i]]
        \/ \E p, i, l : thread' = [thread EXCEPT ![t] =
                        [thread[t] EXCEPT !.at = p, !.index = i, !.lease = l]]
    <3>1. CASE CopyObservation(t) BY <3>1, Zenon DEF CopyObservation
    <3>2. CASE RefreshRemote(t) BY <3>2, Zenon DEF RefreshRemote
    <3>3. CASE AdmitStep(t) BY <3>3, Zenon DEF AdmitStep
    <3> QED BY <1>7, <3>1, <3>2, <3>3 DEF ThreadStep
  <2>3. ASSUME NEW p, NEW i, thread' = [thread EXCEPT ![t] =
                               [thread[t] EXCEPT !.at = p, !.index = i]]
        PROVE  Threaded
    BY <1>3, <1>5, <2>3
  <2>4. ASSUME NEW p, NEW i, NEW l, thread' = [thread EXCEPT ![t] =
                  [thread[t] EXCEPT !.at = p, !.index = i, !.lease = l]]
        PROVE  Threaded
    BY <1>3, <1>5, <2>4
  <2>5. ASSUME thread' = [thread EXCEPT ![t] = resting] PROVE Threaded
    <3>1. resting.epoch <= epoch BY <1>4
    <3> QED BY <1>3, <2>5, <3>1
  <2> HIDE DEF Threaded, Still
  <2> QED BY <2>1, <2>2, <2>3, <2>4, <2>5, Zenon
<1>8. ASSUME NEW s \in SKIs,
             \/ RemoteSKIConnected(s) \/ RecordConnected(s)
             \/ ServiceShipIDUpdate(s) \/ RemoteSKIDisconnected(s)
             \/ RetireRemote(s)
      PROVE  Still /\ Threaded
  <2>1. Still
    BY <1>8 DEF RemoteSKIConnected, RecordConnected, ServiceShipIDUpdate,
                RemoteSKIDisconnected, RetireRemote, world
  <2>2. \/ thread' = thread
        \/ thread' = [thread EXCEPT ![s] = resting]
        \/ \E p : thread' = [thread EXCEPT ![s] =
                     [resting EXCEPT !.at = p, !.ski = s]]
        \/ \E p : thread' = [thread EXCEPT ![s] =
                     [resting EXCEPT !.at = p, !.ski = s, !.epoch = epoch]]
    BY <1>8, Zenon
       DEF RemoteSKIConnected, RecordConnected, ServiceShipIDUpdate,
           RemoteSKIDisconnected, RetireRemote, Ignored
  <2>3. s \in Threads BY DEF Threads
  <2>4. Threaded BY <1>2, <1>3, <1>4, <2>2, <2>3
  <2> QED BY <2>1, <2>4
<1>9. CASE WorkerStep
  <2>1. ASSUME NEW s \in SKIs, Discovered(s) PROVE Still /\ Threaded
    BY <1>3, <1>4, <2>1 DEF Discovered, world, Threads
  <2> QED BY <1>7, <1>9, <2>1, NumberFrame DEF WorkerStep, Threads
<1>10. ASSUME NEW c \in Callers, CallStep(c) PROVE Still /\ Threaded
  BY <1>2, <1>10
     DEF CallStep, ReadTarget, Dispatch, RoundTrip, Issue, handler,
         FullReadIfCurrent, RefuseExpired, FullWriteIfCurrent, TypeInv, Ghosts
<1>11. CASE \/ \E s \in SKIs : Degrade(s) \/ Suppress(s) \/ FeaturesGet(s)
            \/ \E i \in 1..MaxTokens : Expire(i)
            \/ DeactivateSPINEEvents \/ RetireAll \/ UNCHANGED vars
  <2>1. Still /\ Threaded
    BY <1>2, <1>11
       DEF Degrade, Suppress, FeaturesGet, Expire, DeactivateSPINEEvents,
           RetireAll, vars, handler, world
  <2> QED BY <2>1, NumberFrame
<1>12. ASSUME NEW s \in SKIs, HubStep(s) PROVE NumberInv'
  BY <1>7, <1>8, <1>12, AllocateNumbers, NumberFrame DEF HubStep, Threads
<1> QED BY <1>6, <1>9, <1>10, <1>11, <1>12, NumberFrame, RepairNumbers,
           CrashNumbers
        DEF Next

\* A generation is handed out once per peer and epoch, over any number of
\* crashes, repairs and failing writes of the file, as long as no connection
\* that had read an earlier epoch replaced the file (allocateNext).
THEOREM GenerationsHold == Spec => []GenerationNeverReused
<1>1. Init => NumberInv
  BY DEF Init, NumberInv, NumbersKept, Counted, GenerationNeverReused, resting
<1>2. TypeInv /\ NumberInv /\ [Next]_vars => TypeInv' /\ NumberInv'
  BY TypeStep, NumberStep
<1>3. Spec => [](TypeInv /\ NumberInv)
  BY <1>1, <1>2, TypeStart, PTL DEF Spec
<1>4. NumberInv => GenerationNeverReused BY DEF NumberInv
<1> QED BY <1>3, <1>4, PTL
=============================================================================
