-------------------------- MODULE FirstTrustFacade --------------------------
(***************************************************************************)
(* The first-trust facade (internal/eebusfacade/first_trust_facade.go): the *)
(* connections it keeps for the remote peers, and what each of its          *)
(* operations does to them under the facade's mutex.                        *)
(*                                                                          *)
(* Left out: the operator's active action, remote metadata and the          *)
(* withdrawals of a revocation.                                             *)
(***************************************************************************)
EXTENDS Naturals

CONSTANTS SKIs,
          MaxConnections       \* bound on connection generations

NoConnection == [generation |-> 0]

\* shipID is abstracted to whether it is known.
Connection ==
    [generation : 1..MaxConnections, epoch : Nat,
     class : {"none", "pairing_authorized", "reconnect_authorized"},
     ship : BOOLEAN, tls : BOOLEAN, active : BOOLEAN, connected : BOOLEAN,
     admitted : BOOLEAN,       \* retryAdmitted
     outgoing : BOOLEAN,       \* outgoingRetry
     failed : BOOLEAN,         \* failureRecorded
     blocked : BOOLEAN,        \* cancelled and blocked: always set together
     registered : BOOLEAN, transient : BOOLEAN, unregistered : BOOLEAN]

Facade ==
    [connections : [SKIs -> Connection \cup {NoConnection}],
     next : 0..MaxConnections, epoch : Nat,
     registration : BOOLEAN,   \* pairingRegistration
     fault : BOOLEAN]          \* pairingRegistrationFault

Detached ==
    [connections |-> [s \in SKIs |-> NoConnection], next |-> 0, epoch |-> 0,
     registration |-> FALSE, fault |-> FALSE]

known(f, s) == f.connections[s] # NoConnection

\* The connection of s is generation n.
current(f, s, n) == known(f, s) /\ f.connections[s].generation = n

connectionCallbackBlocked(f, s) == known(f, s) /\ f.connections[s].blocked

delete(f, s) == [f EXCEPT !.connections[s] = NoConnection]

fence(f, s) == [f EXCEPT !.connections[s].active = FALSE,
                         !.connections[s].blocked = TRUE,
                         !.connections[s].ship = FALSE]

\* beginAttempt: a connection and its attempt, for an authorized SKI without
\* one.  A new one needs a free generation.
begins(f, s) == known(f, s) \/ f.next < MaxConnections

beginAttempt(f, s, class) ==
    IF known(f, s) THEN f
    ELSE [f EXCEPT !.next = @ + 1,
                   !.connections[s] =
                       [generation |-> f.next + 1, epoch |-> f.epoch,
                        class |-> class, ship |-> FALSE, tls |-> FALSE,
                        active |-> TRUE, connected |-> FALSE,
                        admitted |-> FALSE, outgoing |-> FALSE,
                        failed |-> FALSE, blocked |-> FALSE,
                        registered |-> FALSE, transient |-> FALSE,
                        unregistered |-> FALSE]]

\* ... and its end, when the coordinator has admitted generation n.
attemptBegun(f, s, n, outgoing) ==
    IF current(f, s, n)
    THEN [f EXCEPT !.connections[s].admitted = ~outgoing,
                   !.connections[s].outgoing = outgoing]
    ELSE f

\* bindAttemptTLSUnderCallbackLock, before and after the coordinator's answer.
bindable(f, s, n) ==
    /\ current(f, s, n)
    /\ f.connections[s].class = "pairing_authorized"
    /\ f.connections[s].active /\ ~f.connections[s].blocked

bound(f, s, n) ==
    IF current(f, s, n) /\ f.connections[s].active /\ ~f.connections[s].blocked
    THEN [f EXCEPT !.connections[s].tls = TRUE] ELSE f

\* acknowledgeBlockedDisconnect: the disconnect of a fenced connection.
acknowledgeBlockedDisconnect(f, s) ==
    LET g == [f EXCEPT !.connections[s].connected = FALSE]
    IN  IF ~f.registration \/ f.connections[s].epoch # f.epoch
        THEN delete(g, s) ELSE g

\* RemoteSKIDisconnected for a connection that is not fenced.
RemoteSKIDisconnected(f, s) ==
    LET k == f.connections[s]
    IN  IF \/ k.registered /\ ~k.transient
           \/ k.class = "reconnect_authorized"
        THEN delete(f, s) ELSE fence(f, s)

setWaiting(f, value) ==
    IF value THEN [f EXCEPT !.registration = TRUE, !.epoch = @ + 1]
    ELSE [f EXCEPT !.registration = FALSE,
                   !.connections = [s \in SKIs |->
                       IF /\ known(f, s) /\ f.connections[s].blocked
                          /\ ~f.connections[s].connected
                       THEN NoConnection ELSE f.connections[s]]]

connectionAlive(f, s, n) ==
    /\ ~f.fault /\ current(f, s, n)
    /\ f.connections[s].active /\ ~f.connections[s].blocked

\* registerRemoteSKI and registerTransientRemoteSKI.
registers(f, s, n) == connectionAlive(f, s, n) /\ ~f.connections[s].registered

registerRemoteSKI(f, s) == [f EXCEPT !.connections[s].registered = TRUE]

registerTransientRemoteSKI(f, s) ==
    [f EXCEPT !.connections[s].registered = TRUE,
              !.connections[s].transient = TRUE,
              !.connections[s].unregistered = FALSE,
              !.connections[s].ship = FALSE]

unregisters(f, s, n) == current(f, s, n) /\ ~f.connections[s].unregistered

unregisterTransientRemoteSKI(f, s) ==
    [f EXCEPT !.connections[s].unregistered = TRUE,
              !.connections[s].registered = FALSE,
              !.connections[s].transient = FALSE]

finalizeTransientRemoteSKI(f, s, n) ==
    IF /\ current(f, s, n) /\ ~f.connections[s].unregistered
       /\ f.connections[s].registered
    THEN [f EXCEPT !.connections[s].transient = FALSE] ELSE f

\* A connected peer is fenced until its disconnect, another one is dropped.
cancelGeneration(f, s, n) ==
    IF ~current(f, s, n) \/ f.connections[s].blocked THEN f
    ELSE IF f.connections[s].connected THEN fence(f, s) ELSE delete(f, s)

=============================================================================
