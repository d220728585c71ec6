---------------------------- MODULE FeatureReads ----------------------------
(***************************************************************************)
(* Raw feature access.  A connection of a peer gets a generation from a    *)
(* file that survives restarts, and a lease once its SPINE device and SHIP *)
(* ID are known; reads and writes are dispatched only over the lease they  *)
(* were prepared with, and a read leaves a token bound to the runtime      *)
(* epoch and the generation it was made in, which a write must present.    *)
(*                                                                         *)
(* A step is one critical section of handler.mu or bridge.mu.  The hub     *)
(* calls back per peer, in the order of its connections; SPINE's event     *)
(* callback, the refresh worker, the callers and the closing runtime       *)
(* interleave with that.                                                   *)
(***************************************************************************)
EXTENDS Naturals, Sequences, FiniteSets

CONSTANTS
    SKIs, Addresses,
    Callers,          \* concurrent reads, before-image reads and writes
    MaxConnections,   \* bound on connections of all peers together
    MaxTokens,        \* bound on tokens issued
    Capacity,         \* rawReadTokenMaximumEntries
    Faults,           \* which of AllFaults may happen
    MaxDisturbances,  \* bound on faults besides one crash
    None

\* sync: the generation file is not written, or not known to be; crash: the
\* process restarts; repair: the identity is repaired, a new epoch; degrade,
\* suppress: the peer degrades, or is the candidate of a pairing window and
\* its callbacks are ignored; close: the runtime closes; lost: the device no
\* longer has a feature that is asked for.
AllFaults == {"sync", "crash", "repair", "degrade", "suppress", "close", "lost"}

Connections == 1..MaxConnections
Worker == "worker"
Threads == SKIs \cup {Worker}

\* rawRemoteLease; sender: the connection whose sender it holds.
Lease == [ski : SKIs, address : Addresses, generation : Nat, epoch : Nat,
          sender : Connections]

\* eebusraw.FeaturesGetDataV1 of a peer's features.
Item == [generation : Nat, epoch : Nat, source : {"live", "cache"}]

ASSUME FeatureReadsAssumption ==
    /\ {MaxConnections, MaxTokens, Capacity, MaxDisturbances} \subseteq Nat
    /\ Faults \subseteq AllFaults
    /\ None \notin SKIs \cup Addresses \cup Lease \cup Item

\* rawConnectionGenerationState; epoch 0 where there is no file.
Generations == [epoch : Nat, of : [SKIs -> Nat]]

\* rawReadTokenBindingV1, with the connection that was read.
Token == [ski : SKIs, epoch : Nat, generation : Nat, sender : Connections,
          consumed : BOOLEAN, expired : BOOLEAN]

\* A generation handed out, and how many have been handed out by then.
Allocation == [ski : SKIs, epoch : Nat, generation : Nat, nth : Nat]

Callbacks == {"connected", "ship", "disconnected"}
Places == {"idle", "allocate", "record", "copy", "refresh", "admit",
           "retire"}

VARIABLES
    file,       \* the generation file: as read, as a crash leaves it
    epoch,      \* repairSequence + 1
    conn,       \* the peers' connections and SPINE devices
    due,        \* the hub's callbacks not yet made
    obs,        \* of handler.observations what the bridge is told
    bridge,     \* rawFeatureRuntimeBridge
    active,     \* spineEventsActive; closing: retireAll is still to come
    thread,     \* what each thread of the handler is doing
    issuer,     \* rawReadTokenIssuer: bindings and consumed
    call,       \* what each caller is doing
    candidate,  \* the peer whose callbacks are ignored
    ghost,      \* generations handed out, epochs whose file a write of an
                \* earlier epoch replaced, frames sent, uses of tokens
    disturbances

vars == <<file, epoch, conn, due, obs, bridge, active, thread, issuer, call,
          candidate, ghost, disturbances>>
world == <<file, epoch, conn, due, candidate, disturbances>>

Connection == [n : 0..MaxConnections, up : BOOLEAN,
               address : Addresses \cup {None}]
Observation == [index : Nat, ship : BOOLEAN,
                state : {"none", "connected", "disconnected", "degraded"}]

TypeOK ==
    /\ file \in [seen : Generations, safe : Generations]
    /\ epoch \in Nat \ {0}
    /\ conn \in [SKIs -> Connection]
    /\ due \in [SKIs -> Seq(Callbacks)]
    /\ obs \in [SKIs -> Observation]
    /\ bridge \in [highWater : [SKIs -> Nat], pending : [SKIs -> Nat],
                   bySKI : [SKIs -> Lease \cup {None}],
                   byAddr : [Addresses -> Lease \cup {None}],
                   inventory : [SKIs -> Item \cup {None}]]
    /\ active \in {"on", "closing", "off"}
    /\ thread \in [Threads -> [at : Places, ski : SKIs \cup {None},
                               epoch : Nat, index : Nat,
                               lease : Lease \cup {None}]]
    /\ \E present \in SUBSET (1..MaxTokens) : issuer \in [present -> Token]
    /\ call \in [Callers ->
                   [at : {"idle", "dispatch", "flight", "issue"},
                    lease : Lease \cup {None}, read : 0..MaxConnections]]
    /\ candidate \in SKIs \cup {None}
    /\ ghost \in [allocated : SUBSET Allocation, replaced : SUBSET Nat,
                  frames : SUBSET [read : 0..MaxConnections,
                                   sent : Connections],
                  issued : 0..MaxTokens, uses : [1..MaxTokens -> Nat],
                  conns : 0..MaxConnections]
    /\ disturbances \in [{"crash", "other"} -> Nat]

-----------------------------------------------------------------------------
noFile == [epoch |-> 0, of |-> [s \in SKIs |-> 0]]
resting == [at |-> "idle", ski |-> None, epoch |-> 0, index |-> 0,
            lease |-> None]
unseen == [index |-> 0, ship |-> FALSE, state |-> "none"]
ready == [at |-> "idle", lease |-> None, read |-> 0]

\* newRawFeatureRuntimeBridgeWithMutationProfiles
newBridge == [highWater |-> [s \in SKIs |-> 0], pending |-> [s \in SKIs |-> 0],
              bySKI |-> [s \in SKIs |-> None],
              byAddr |-> [a \in Addresses |-> None],
              inventory |-> [s \in SKIs |-> None]]

Init ==
    /\ file = [seen |-> noFile, safe |-> noFile]
    /\ epoch = 1
    /\ conn = [s \in SKIs |-> [n |-> 0, up |-> FALSE, address |-> None]]
    /\ due = [s \in SKIs |-> <<>>]
    /\ obs = [s \in SKIs |-> unseen]
    /\ bridge = newBridge /\ active = "on"
    /\ thread = [t \in Threads |-> resting]
    /\ issuer = <<>> /\ call = [c \in Callers |-> ready]
    /\ candidate = None
    /\ ghost = [allocated |-> {}, replaced |-> {}, frames |-> {}, issued |-> 0,
                uses |-> [i \in 1..MaxTokens |-> 0], conns |-> 0]
    /\ disturbances = [k \in {"crash", "other"} |-> 0]

\* A crash is counted apart from the other faults.
class(fault) == IF fault = "crash" THEN "crash" ELSE "other"
disturb(fault) ==
    LET k == class(fault)
    IN
    /\ fault \in Faults
    /\ disturbances[k] < IF k = "crash" THEN 1 ELSE MaxDisturbances
    /\ disturbances' = [disturbances EXCEPT ![k] = @ + 1]

-----------------------------------------------------------------------------
(* The peers: a connection comes up, its device is discovered, and it goes *)
(* down again.                                                             *)

\* A SHIP connection is set up; the hub will report it and its SHIP ID.
Connect(s) ==
    LET n == ghost.conns + 1
    IN
    /\ ~conn[s].up /\ n <= MaxConnections
    /\ ghost' = [ghost EXCEPT !.conns = n]
    /\ conn' = [conn EXCEPT ![s] = [n |-> n, up |-> TRUE, address |-> None]]
    /\ due' = [due EXCEPT ![s] = @ \o <<"connected", "ship">>]
    /\ UNCHANGED <<file, epoch, candidate, disturbances, obs, bridge, active,
                   thread, issuer, call>>

\* Detailed discovery tells the device's address.
Discover(s, a) ==
    /\ conn[s].up /\ conn[s].address = None
    /\ conn' = [conn EXCEPT ![s].address = a]
    /\ UNCHANGED <<file, epoch, due, candidate, disturbances, obs, bridge,
                   active, thread, issuer, call, ghost>>

\* The connection closes: its sender is closed, its device removed.
Disconnect(s) ==
    /\ conn[s].up
    /\ conn' = [conn EXCEPT ![s].up = FALSE]
    /\ due' = [due EXCEPT ![s] = Append(@, "disconnected")]
    /\ UNCHANGED <<file, epoch, candidate, disturbances, obs, bridge, active,
                   thread, issuer, call, ghost>>

\* service.LocalDevice().RemoteDeviceForSki(ski) has a device with an address.
HasRemoteDevice(s) == conn[s].up /\ conn[s].address # None

-----------------------------------------------------------------------------
(* Leases.                                                                 *)

\* lease.retired
Retired(b, l) == b.bySKI[l.ski] # l /\ b.byAddr[l.address] # l

\* Mutant: the entry under the address is left.
RetireBySKI(b, l, cacheInventory) ==
    IF l = None \/ Retired(b, l) THEN b ELSE
    [b EXCEPT !.bySKI[l.ski] = IF @ = l THEN None ELSE @,
              !.inventory[l.ski] = None]
\* retireLeaseLocked; removeRemoteInventoryLocked
RetireLease(b, l, cacheInventory) ==
    IF l = None \/ Retired(b, l) THEN b ELSE
    [b EXCEPT
       !.bySKI[l.ski] = IF @ = l THEN None ELSE @,
       !.byAddr[l.address] = IF @ = l THEN None ELSE @,
       !.inventory[l.ski] =
          IF ~cacheInventory THEN None
          ELSE IF @ # None /\ @.generation = l.generation
               THEN [@ EXCEPT !.source = "cache"]
               ELSE @]

\* retireAll: the leases held, each of another peer
RetireEvery(b) ==
    [b EXCEPT
       !.bySKI = [s \in SKIs |-> None],
       !.byAddr = [a \in Addresses |->
          LET l == b.byAddr[a]
          IN  IF l # None /\ b.bySKI[l.ski] = l THEN None ELSE l],
       !.inventory = [s \in SKIs |->
          RetireLease(b, b.bySKI[s], TRUE).inventory[s]]]

\* captureRemoteInventoryLocked; inventoryForFeatureLocked
CaptureInventory(b, l) ==
    [b EXCEPT !.inventory[l.ski] = [generation |-> l.generation,
                                    epoch |-> l.epoch, source |-> "live"]]

rawRemoteLease(s, generation) ==
    [ski |-> s, address |-> conn[s].address, generation |-> generation,
     epoch |-> epoch, sender |-> conn[s].n]

\* admitRemote
MayAdmit(b, l) == l.generation > b.highWater[l.ski]
                  /\ b.pending[l.ski] = l.generation
AdmitRemote(b, l) ==
    LET one == RetireLease(b, b.bySKI[l.ski], FALSE)
        two == RetireLease(one, one.byAddr[l.address], FALSE)
    IN  CaptureInventory([two EXCEPT !.highWater[l.ski] = l.generation,
                                     !.pending[l.ski] = 0,
                                     !.bySKI[l.ski] = l,
                                     !.byAddr[l.address] = l], l)

\* What refreshRemote compares with the lease it finds.
SameLease(held, l) == held = l

\* readRawConnectionGenerationState: a file of another epoch counts as none.
readState(e) == IF file.seen.epoch = e THEN file.seen
                ELSE [noFile EXCEPT !.epoch = e]

-----------------------------------------------------------------------------
(* Threads of the handler.                                                 *)

remoteLivenessAllowed(s) == candidate # s

\* The hub's next callback of a peer, handled by its thread.
Callback(s, kind) ==
    /\ thread[s].at = "idle" /\ due[s] # <<>> /\ Head(due[s]) = kind
    /\ due' = [due EXCEPT ![s] = Tail(@)]

Ignored(s) ==
    /\ ~remoteLivenessAllowed(s)
    /\ UNCHANGED <<obs, thread>>

\* RemoteSKIConnected: the epoch is read before bridge.mu is taken.
RemoteSKIConnected(s) ==
    /\ Callback(s, "connected")
    /\ \/ Ignored(s)
       \/ /\ remoteLivenessAllowed(s)
          /\ thread' = [thread EXCEPT ![s] =
               [resting EXCEPT !.at = "allocate", !.ski = s, !.epoch = epoch]]
          /\ UNCHANGED obs
    /\ UNCHANGED <<file, epoch, conn, candidate, disturbances, bridge, active,
                   issuer, call, ghost>>

\* The next number of the peer, next to those of the others.
allocateNext(s, e) == [readState(e) EXCEPT !.of[s] = @ + 1]

\* The directory cannot be opened or locked; or it can, and what an earlier
\* write left unsynchronised is synchronised before anything is read.
NotOpened == [ok |-> FALSE, file |-> file]
OpenedOnly == [ok |-> FALSE, file |-> [file EXCEPT !.safe = file.seen]]

\* Mutant: the directory's synchronisation is not waited for.
StoresUnsynced(s, e) ==
    {[ok |-> TRUE, file |-> [seen |-> allocateNext(s, e), safe |-> file.seen]]}

\* How a write can end: the number is stored; it is not; it is renamed into
\* place and the directory is not known to be synchronised.
Stores(s, e) ==
    LET next == allocateNext(s, e)
    IN  {[ok |-> TRUE, file |-> [seen |-> next, safe |-> next]],
         [ok |-> FALSE, file |-> [seen |-> next, safe |-> file.seen]],
         NotOpened, OpenedOnly}

\* The epoch of the file that a write of an earlier epoch replaces: the
\* epoch was read before bridge.mu was taken, and a repair came in between.
Replaced(e, written) ==
    IF e < file.seen.epoch /\ written.seen # file.seen
    THEN {file.seen.epoch} ELSE {}

\* allocateConnectionGeneration under bridge.mu, the file included.
AllocateConnectionGeneration(s) ==
    LET t == thread[s]
        generation == readState(t.epoch).of[s] + 1
        b == [RetireLease(bridge, bridge.bySKI[s], TRUE)
              EXCEPT !.pending[s] = 0]
    IN
    /\ t.at = "allocate"
    /\ \E stored \in Stores(s, t.epoch) :
         /\ IF stored.ok THEN UNCHANGED disturbances ELSE disturb("sync")
         /\ file' = stored.file
         /\ \/ /\ stored.ok /\ epoch = t.epoch
               /\ generation > b.highWater[s]
               /\ bridge' = [b EXCEPT !.pending[s] = generation]
               /\ thread' = [thread EXCEPT ![s] =
                    [t EXCEPT !.at = "record", !.index = generation]]
               /\ ghost' = [ghost EXCEPT
                    !.allocated = @ \cup
                      {[ski |-> s, epoch |-> t.epoch, generation |-> generation,
                        nth |-> Cardinality(@) + 1]},
                    !.replaced = @ \cup Replaced(t.epoch, stored.file)]
            \/ /\ \/ ~stored.ok \/ epoch # t.epoch
                  \/ generation <= b.highWater[s]
               /\ bridge' = b
               /\ thread' = [thread EXCEPT ![s] = resting]
               /\ ghost' = [ghost EXCEPT
                    !.replaced = @ \cup Replaced(t.epoch, stored.file)]
    /\ UNCHANGED <<epoch, conn, due, candidate, obs, active, issuer, call>>

\* The update of RemoteSKIConnected; then refreshRawFeatureRemote.
RecordConnected(s) ==
    /\ thread[s].at = "record"
    /\ obs' = [obs EXCEPT ![s] =
         [index |-> thread[s].index, ship |-> FALSE, state |-> "connected"]]
    /\ thread' = [thread EXCEPT ![s] =
         [resting EXCEPT !.at = "copy", !.ski = s]]
    /\ UNCHANGED <<world, bridge, active, issuer, call, ghost>>

\* ServiceShipIDUpdate; then refreshRawFeatureRemote.
ServiceShipIDUpdate(s) ==
    /\ Callback(s, "ship")
    /\ \/ Ignored(s)
       \/ /\ remoteLivenessAllowed(s)
          /\ obs' = IF obs[s].state = "none" THEN obs
                    ELSE [obs EXCEPT ![s].ship = TRUE]
          /\ thread' = [thread EXCEPT ![s] =
               [resting EXCEPT !.at = "copy", !.ski = s]]
    /\ UNCHANGED <<file, epoch, conn, candidate, disturbances, bridge, active,
                   issuer, call, ghost>>

\* RemoteSKIDisconnected; then retireRawFeatureRemote.
RemoteSKIDisconnected(s) ==
    /\ Callback(s, "disconnected")
    /\ \/ Ignored(s)
       \/ /\ remoteLivenessAllowed(s)
          /\ obs' = IF obs[s].state = "none" THEN obs
                    ELSE [obs EXCEPT ![s].state = "disconnected"]
          /\ thread' = [thread EXCEPT ![s] =
               [resting EXCEPT !.at = "retire", !.ski = s]]
    /\ UNCHANGED <<file, epoch, conn, candidate, disturbances, bridge, active,
                   issuer, call, ghost>>

\* retireRemote, with the session index only this thread changes
RetireRemote(s) ==
    LET l == bridge.bySKI[s]
    IN
    /\ thread[s].at = "retire"
    /\ bridge' = IF l = None \/ l.generation # obs[s].index THEN bridge
                 ELSE RetireLease(bridge, l, TRUE)
    /\ thread' = [thread EXCEPT ![s] = resting]
    /\ UNCHANGED <<world, obs, active, issuer, call, ghost>>

\* refreshRawFeatureRemote: copies the observation under handler.mu.
CopyObservation(t) ==
    LET o == obs[thread[t].ski]
    IN
    /\ thread[t].at = "copy"
    /\ thread' = [thread EXCEPT ![t] =
         IF active = "on" /\ o.state = "connected" /\ o.ship
         THEN [thread[t] EXCEPT !.at = "refresh", !.index = o.index]
         ELSE resting]
    /\ UNCHANGED <<world, obs, bridge, active, issuer, call, ghost>>

\* Finds the device, and describes its lease to refreshRemote; without a
\* lease to refresh, it is described again and handed to admitRemote.
RefreshRemote(t) ==
    LET s == thread[t].ski
        l == rawRemoteLease(s, thread[t].index)
        held == bridge.bySKI[s]
    IN
    /\ thread[t].at = "refresh"
    /\ \/ /\ HasRemoteDevice(s) /\ held = None
          /\ thread' = [thread EXCEPT ![t] =
               [@ EXCEPT !.at = "admit", !.index = 0, !.lease = l]]
          /\ UNCHANGED bridge
       \/ /\ HasRemoteDevice(s) /\ held # None
          /\ bridge' = IF SameLease(held, l) THEN CaptureInventory(bridge, held)
                       ELSE bridge
          /\ thread' = [thread EXCEPT ![t] = resting]
       \/ /\ ~HasRemoteDevice(s)
          /\ thread' = [thread EXCEPT ![t] = resting]
          /\ UNCHANGED bridge
    /\ UNCHANGED <<world, obs, active, issuer, call, ghost>>

AdmitStep(t) ==
    LET l == thread[t].lease
    IN
    /\ thread[t].at = "admit"
    /\ \/ /\ MayAdmit(bridge, l)
          /\ bridge' = AdmitRemote(bridge, l)
       \/ /\ ~MayAdmit(bridge, l)
          /\ UNCHANGED bridge
    /\ thread' = [thread EXCEPT ![t] = resting]
    /\ UNCHANGED <<world, obs, active, issuer, call, ghost>>

\* The SPINE worker has applied a discovery: refreshRawFeatureRemote.
Discovered(s) ==
    /\ thread[Worker].at = "idle" /\ active = "on"
    /\ obs[s].state = "connected"
    /\ thread' = [thread EXCEPT ![Worker] =
         [resting EXCEPT !.at = "copy", !.ski = s]]
    /\ UNCHANGED <<world, obs, bridge, active, issuer, call, ghost>>

-----------------------------------------------------------------------------
(* What happens to the runtime as a whole.                                 *)

\* deactivateSPINEEvents under handler.mu, then retireAll under bridge.mu
DeactivateSPINEEvents ==
    /\ active = "on" /\ disturb("close")
    /\ active' = "closing"
    /\ UNCHANGED <<file, epoch, conn, due, candidate, obs, bridge, thread,
                   issuer, call, ghost>>

RetireAll ==
    /\ active = "closing"
    /\ active' = "off"
    /\ bridge' = RetireEvery(bridge)
    /\ UNCHANGED <<world, obs, thread, issuer, call, ghost>>

\* ServicePairingDetailUpdate with a denial or an error
Degrade(s) ==
    /\ obs[s].state # "none" /\ disturb("degrade")
    /\ obs' = [obs EXCEPT ![s].state = "degraded"]
    /\ UNCHANGED <<file, epoch, conn, due, candidate, bridge, active, thread,
                   issuer, call, ghost>>

\* trustAdminLivenessAllowed: a pairing window takes a candidate, or ends.
Suppress(s) ==
    /\ \/ candidate = None /\ disturb("suppress") /\ candidate' = s
       \/ candidate = s /\ candidate' = None /\ UNCHANGED disturbances
    /\ UNCHANGED <<file, epoch, conn, due, obs, bridge, active, thread, issuer,
                   call, ghost>>

\* rawRuntimeEpochProvider: a repair was published.
Repair ==
    /\ disturb("repair")
    /\ epoch' = epoch + 1
    /\ UNCHANGED <<file, conn, due, candidate, obs, bridge, active, thread,
                   issuer, call, ghost>>

\* The process ends and starts again; of the file, the last write may be lost.
Crash ==
    /\ disturb("crash")
    /\ \E left \in {file.seen, file.safe} :
         file' = [seen |-> left, safe |-> left]
    /\ conn' = [s \in SKIs |-> [conn[s] EXCEPT !.up = FALSE]]
    /\ due' = [s \in SKIs |-> <<>>]
    /\ obs' = [s \in SKIs |-> unseen]
    /\ bridge' = newBridge /\ active' = "on"
    /\ thread' = [t \in Threads |-> resting]
    /\ issuer' = <<>> /\ call' = [c \in Callers |-> ready]
    /\ candidate' = None
    /\ UNCHANGED <<epoch, ghost>>

-----------------------------------------------------------------------------
(* Callers.                                                                *)

handler == <<file, epoch, conn, due, obs, active, thread, candidate>>

\* featuresGet; a feature that the device no longer has is answered from the
\* cache, and what is answered without a lease is no longer live.
FeaturesGet(s) ==
    LET l == bridge.bySKI[s]
        item == bridge.inventory[s]
    IN
    /\ l # None => epoch = l.epoch
    /\ \/ /\ l # None
          /\ bridge' = CaptureInventory(bridge, l)
          /\ UNCHANGED disturbances
       \/ /\ item # None
          /\ IF l = None THEN UNCHANGED disturbances ELSE disturb("lost")
          /\ bridge' = [bridge EXCEPT !.inventory[s].source = "cache"]
    /\ UNCHANGED <<handler, issuer, call, ghost>>

\* exactReadRequest: the request names the lease.  read: the connection that
\* the presented token was read on, 0 without one.
Request(c, l, read) ==
    call' = [call EXCEPT ![c] = [at |-> "dispatch", lease |-> l, read |-> read]]

\* What exactReadRequest and exactMutationWriteRequest require.
Requestable(s) == bridge.bySKI[s] # None /\ bridge.bySKI[s].epoch = epoch

ReadTarget(c, s) ==
    /\ call[c].at = "idle" /\ Requestable(s)
    /\ Request(c, bridge.bySKI[s], 0)
    /\ UNCHANGED <<handler, disturbances, bridge, issuer, ghost>>

\* Mutant: a token of an earlier connection is accepted.
EpochOnly(l, token) == l.epoch = token.epoch

\* requireExpectedMutationBinding
ExpectedBinding(l, token) ==
    l.epoch = token.epoch /\ l.generation = token.generation

\* VerifyReadToken, and FullReadIfCurrent with what the token is bound to:
\* the reads before and after a write.
FullReadIfCurrent(c, i) ==
    /\ call[c].at = "idle" /\ i \in DOMAIN issuer
    /\ Requestable(issuer[i].ski)
    /\ ExpectedBinding(bridge.bySKI[issuer[i].ski], issuer[i])
    /\ Request(c, bridge.bySKI[issuer[i].ski], issuer[i].sender)
    /\ UNCHANGED <<handler, disturbances, bridge, issuer, ghost>>

\* ConsumeReadToken refuses an expired token and forgets it.
RefuseExpired(c, i) ==
    /\ call[c].at = "idle" /\ i \in DOMAIN issuer /\ issuer[i].expired
    /\ issuer' = [j \in DOMAIN issuer \ {i} |-> issuer[j]]
    /\ UNCHANGED <<handler, disturbances, bridge, call, ghost>>

\* ConsumeReadToken, and FullWriteIfCurrent with what the token is bound to;
\* a write that is refused has used the token up.
MayConsume(i) == ~issuer[i].expired /\ ~issuer[i].consumed
FullWriteIfCurrent(c, i) ==
    LET s == issuer[i].ski
    IN
    /\ call[c].at = "idle" /\ i \in DOMAIN issuer /\ MayConsume(i)
    /\ issuer' = [issuer EXCEPT ![i].consumed = TRUE]
    /\ ghost' = [ghost EXCEPT !.uses[i] = @ + 1]
    /\ IF Requestable(s) /\ ExpectedBinding(bridge.bySKI[s], issuer[i])
       THEN Request(c, bridge.bySKI[s], issuer[i].sender)
       ELSE UNCHANGED call
    /\ UNCHANGED <<handler, disturbances, bridge>>

\* exactRawDispatchIdentity: peer, SHIP ID and epoch, for a feature of theirs
SameIdentity(l, wanted) == l.ski = wanted.ski /\ l.epoch = wanted.epoch

\* The conditions under which RoundTripIfCurrent sends: the lease found by
\* the address is open, of this epoch, and the one the request names.
MayDispatch(l, wanted) ==
    /\ l # None
    /\ l.sender = conn[l.ski].n /\ conn[l.ski].up
    /\ l.epoch = epoch
    /\ SameIdentity(l, wanted)
    /\ l.generation = wanted.generation

\* RoundTripIfCurrent up to the unlock
Dispatch(c) ==
    LET l == bridge.byAddr[call[c].lease.address]
    IN
    /\ call[c].at = "dispatch"
    /\ call' = [call EXCEPT ![c] =
         IF MayDispatch(l, call[c].lease)
         THEN [@ EXCEPT !.at = "flight", !.lease = l] ELSE ready]
    /\ UNCHANGED <<handler, disturbances, bridge, issuer, ghost>>

\* sender.RoundTrip over the sender that was captured, and the rest of
\* RoundTripIfCurrent: an answer counts only while the lease is current, and
\* the answer of a read goes on to a token.  There may be none: a timeout,
\* a closed sender, a retired lease's or a cancelled caller's context.
RoundTrip(c) ==
    LET k == call[c]
        l == k.lease
        current == /\ l.epoch = epoch /\ bridge.bySKI[l.ski] = l
                   /\ bridge.byAddr[l.address] = l
    IN
    /\ k.at = "flight"
    /\ \E answered \in BOOLEAN :
         call' = [call EXCEPT ![c] =
           IF answered /\ current /\ k.read = 0
           THEN [k EXCEPT !.at = "issue"] ELSE ready]
    /\ ghost' = IF k.read = 0 THEN ghost
                ELSE [ghost EXCEPT !.frames = @ \cup
                       {[read |-> k.read, sent |-> l.sender]}]
    /\ UNCHANGED <<handler, disturbances, bridge, issuer>>

\* issue: expired bindings go, and a full table refuses.
Purged == [i \in {j \in DOMAIN issuer : ~issuer[j].expired} |-> issuer[i]]
Issue(c) ==
    LET l == call[c].lease
        i == ghost.issued + 1
    IN
    /\ call[c].at = "issue"
    /\ \/ /\ ghost.issued < MaxTokens
          /\ Cardinality(DOMAIN Purged) < Capacity
          /\ issuer' = [j \in DOMAIN Purged \cup {i} |->
               IF j = i
               THEN [ski |-> l.ski, epoch |-> l.epoch,
                     generation |-> l.generation, sender |-> l.sender,
                     consumed |-> FALSE, expired |-> FALSE]
               ELSE Purged[j]]
          /\ ghost' = [ghost EXCEPT !.issued = i]
       \/ /\ Cardinality(DOMAIN Purged) >= Capacity
          /\ issuer' = Purged
          /\ UNCHANGED ghost
    /\ call' = [call EXCEPT ![c] = ready]
    /\ UNCHANGED <<handler, disturbances, bridge>>

\* A minute passes since a token was issued.
Expire(i) ==
    /\ i \in DOMAIN issuer /\ ~issuer[i].expired
    /\ issuer' = [issuer EXCEPT ![i].expired = TRUE]
    /\ UNCHANGED <<handler, disturbances, bridge, call, ghost>>

-----------------------------------------------------------------------------
ThreadStep(t) ==
    \/ CopyObservation(t) \/ RefreshRemote(t)
    \/ AdmitStep(t)

HubStep(s) ==
    \/ RemoteSKIConnected(s) \/ AllocateConnectionGeneration(s)
    \/ RecordConnected(s) \/ ServiceShipIDUpdate(s)
    \/ RemoteSKIDisconnected(s) \/ RetireRemote(s) \/ ThreadStep(s)

WorkerStep == ThreadStep(Worker) \/ \E s \in SKIs : Discovered(s)

PeerStep(s) ==
    \/ Connect(s) \/ Disconnect(s)
    \/ \E a \in Addresses : Discover(s, a)

CallStep(c) ==
    \/ \E s \in SKIs : ReadTarget(c, s)
    \/ Dispatch(c) \/ RoundTrip(c) \/ Issue(c)
    \/ \E i \in 1..MaxTokens :
         FullReadIfCurrent(c, i) \/ RefuseExpired(c, i)
         \/ FullWriteIfCurrent(c, i)

Next ==
    \/ \E s \in SKIs : PeerStep(s) \/ HubStep(s) \/ FeaturesGet(s)
                       \/ Degrade(s) \/ Suppress(s)
    \/ WorkerStep
    \/ \E c \in Callers : CallStep(c)
    \/ \E i \in 1..MaxTokens : Expire(i)
    \/ DeactivateSPINEEvents \/ RetireAll \/ Repair \/ Crash

Spec == Init /\ [][Next]_vars

-----------------------------------------------------------------------------
\* A generation is handed out once per peer and epoch, whatever becomes of the
\* process or of the last write of the file, unless a connection that had
\* read an earlier epoch replaced the file of this one (allocateNext;
\* readRawConnectionGenerationState takes the file of another epoch for none,
\* so that the numbers of the later epoch start again).
GenerationNeverReused ==
    \A x, y \in ghost.allocated :
      /\ x.ski = y.ski /\ x.epoch = y.epoch /\ x.generation = y.generation
      /\ x.epoch \notin ghost.replaced
      => x = y

\* A before-image read or a write goes to the connection on which the value
\* its token is bound to was read, never to a later one of the peer; and a
\* token admits one write, however consumption, expiry and the purging of the
\* table interleave (RoundTripIfCurrent, requireExpectedMutationBinding,
\* ConsumeReadToken).
WriteReachesWhatWasRead ==
    /\ \A f \in ghost.frames : f.sent = f.read
    /\ \A i \in 1..MaxTokens : ghost.uses[i] <= 1

live(s) == bridge.inventory[s] # None /\ bridge.inventory[s].source = "live"

\* The two lease maps hold the same leases, also when two peers claim one
\* device address, and inventory is called live only while the lease it was
\* taken from is held (admitRemote, retireLeaseLocked,
\* captureRemoteInventoryLocked).
LeaseMapsAgree ==
    /\ \A s \in SKIs : LET l == bridge.bySKI[s] IN
         /\ l # None => l.ski = s /\ bridge.byAddr[l.address] = l
         /\ live(s) => /\ l # None
                       /\ l.generation = bridge.inventory[s].generation
                       /\ l.epoch = bridge.inventory[s].epoch
    /\ \A a \in Addresses : LET l == bridge.byAddr[a] IN
         l # None => l.address = a /\ bridge.bySKI[l.ski] = l
=============================================================================
