------------------------------ MODULE Pairing ------------------------------
(***************************************************************************)
(* First trust: the coordinator (FirstTrust) and the facade                 *)
(* (FirstTrustFacade) driven by the operators' administration calls, the    *)
(* service's callbacks, the outgoing-attempt bridge and the expiry timer,   *)
(* which run concurrently.                                                  *)
(*                                                                          *)
(* A step is one critical section of the coordinator's mutex or of the      *)
(* facade's.  A thread leaves the coordinator's mutex in two ways:          *)
(*   - in setWaitingLocked, which releases it while the service switches    *)
(*     the pairing registration (pc "ask", then "asked");                   *)
(*   - in Unlock, which moves the pending effects to the queue; the first   *)
(*     thread to find the queue unattended drains it (drainer).             *)
(* The effects themselves are the steps of the thread Drain, on behalf of   *)
(* the draining thread.                                                     *)
(*                                                                          *)
(* The service (eebus-go, ship-go) is external: which peers it has          *)
(* registered and whether it accepts pairing registrations; its callbacks   *)
(* may come at any time and in any order.  The durable publication of       *)
(* msp04c_coordinator.go is its outcome.                                    *)
(***************************************************************************)
EXTENDS FirstTrust, FiniteSets

CONSTANTS Operators,           \* administration connections
          Scenarios,           \* one of which Init picks
          MaxConnections,      \* bound on connection generations
          MaxOpens,            \* bound on opened windows
          MaxGeneration,       \* bound on store generations
          MaxEffects           \* bound on queued effects

\* A registration call fails; an attempt fails; an outgoing attempt is
\* terminated; another publication moves the store; a call's context ends
\* or the candidate queue refuses; the runtime shuts down.
AllDisturbances == {"registration", "failure", "termination", "store",
                    "queue", "shutdown"}

\* Whether peers are paired by selection, whether other sections may run while
\* a registration call is out, what may go wrong, and how many connections
\* there are.
Scenario == [selecting : BOOLEAN, overlap : BOOLEAN,
             disturbances : SUBSET AllDisturbances,
             connections : 1..MaxConnections]

ASSUME PairingAssumption == Scenarios \subseteq Scenario
ASSUME BoundAssumption == MaxConnections \in Nat

F == INSTANCE FirstTrustFacade

VARIABLES c,                   \* the coordinator
          f,                   \* the facade
          service,             \* [advertised, registered]: the service
          queue,               \* effectQueue
          drainer,             \* the thread in drainEffects, or NoThread
          pc,                  \* where each thread is
          ended,               \* an unrecovered panic ended the process
          confirmed,           \* history: the (SKI, connection) confirmed
          durable,             \* history: those published
          opened,              \* history: how many windows were opened
          scenario             \* of this behaviour

vars == <<c, f, service, queue, drainer, pc, ended, confirmed, durable, opened>>
history == <<confirmed, durable, opened>>

Callback == "callback"         \* the holder of callbackMu
Bridge == "bridge"             \* outgoingAttemptTerminated
Runtime == "runtime"           \* the expiry timer, shutdown
Drain == "drain"
NoThread == "none"
ASSUME OperatorsAssumption ==
    Operators \cap {Callback, Bridge, Runtime, Drain} = {}
Threads == Operators \cup {Callback, Bridge, Runtime, Drain}

Ops == {"none", "open", "close", "status", "select", "queued", "confirm",
        "cancel", "authorize", "admit", "bind", "ship", "completed",
        "registered", "closed", "publish", "finish", "settle", "timer",
        "shutdown"}

\* The callback or effect that the thread is in.
Kinds == {"none", "attempt", "connected", "ship", "request", "bound", "failed",
          "terminated", "Register", "TransientRegister"}

\* The answer of the section that the thread has left, of the candidate queue
\* or of the publication.
Results == {"none", "yes", "no", "attempt_denied", "pairing_authorized",
            "reconnect_authorized", "queued", "failed", "durable", "unknown",
            "unchanged", "late"}

Frame ==
    [at : {"idle", "enter", "ask", "asked", "queue", "publishing", "new",
           "begun", "tail", "bound", "discard", "failing", "restore",
           "registering"},
     op : Ops, ski : SKIs \cup {NoSKI}, conn : 0..MaxConnections,
     kind : Kinds, result : Results,
     asked : {"none", "on", "off"},
     body : BOOLEAN,           \* the body is still to run
     err : BOOLEAN,            \* the registration call failed
     flag : BOOLEAN,
     saved : F!Connection \cup {F!NoConnection}]

Idle == [at |-> "idle", op |-> "none", ski |-> NoSKI, conn |-> 0,
         kind |-> "none", result |-> "none", asked |-> "none",
         body |-> FALSE, err |-> FALSE, flag |-> FALSE,
         saved |-> F!NoConnection]

\* A candidate is there only in the phases that have one, and a window in the
\* phases that wait for one.
PhaseOK ==
    /\ c.phase = "OpenEmpty" => c.window # "none" /\ c.cand = NoCandidate
    /\ c.phase = "PairingClosed" => c.window = "none" /\ c.cand = NoCandidate
    /\ c.phase \in {"CandidatePending", "TransientTrusted"} =>
         c.window # "none"
    /\ c.cand # NoCandidate /\ c.attached =>
         c.phase \in {"CandidatePending", "TransientTrusted", "Committing"}

\* Types, and the shape of the phases.
TypeOK ==
    /\ c \in Coordinator /\ c.ask = "none"
    /\ f \in F!Facade
    /\ service \in [advertised : BOOLEAN, registered : SUBSET SKIs]
    /\ queue \in Seq(Effects) /\ drainer \in Threads \cup {NoThread}
    /\ pc \in [Threads -> Frame]
    /\ ended \in BOOLEAN /\ opened \in Nat
    /\ confirmed \subseteq SKIs \X (1..MaxConnections)
    /\ durable \subseteq SKIs \X (1..MaxConnections)
    /\ PhaseOK

Init ==
    /\ scenario \in Scenarios /\ c = Closed(scenario.selecting)
    /\ f = F!Detached
    /\ service = [advertised |-> FALSE, registered |-> {}]
    /\ queue = <<>> /\ drainer = NoThread
    /\ pc = [t \in Threads |-> Idle]
    /\ ended = FALSE /\ confirmed = {} /\ durable = {} /\ opened = 0

-----------------------------------------------------------------------------
(* One critical section of the coordinator.                                 *)

call(op, s, n) == [Idle EXCEPT !.at = "enter", !.op = op, !.ski = s,
                               !.conn = n]

\* The operations that begin with expireLocked.
expires(op) == op \notin {"queued", "publish", "finish", "settle", "shutdown"}

\* What the operation of frame q does to the coordinator.
section(q, d) ==
    LET s == q.ski  n == q.conn IN
    CASE q.op = "open" -> openPairingWindowLocked(d)
      [] q.op = "close" -> closePairingWindow(d)
      [] q.op = "select" /\ selects(d, s) -> selectCandidate(d, s)
      [] q.op = "queued" -> candidateQueued(d, q.result = "queued", q.flag)
      [] q.op = "confirm" /\ confirms(d, s, n) -> confirm(d)
      [] q.op = "cancel" /\ cancels(d, n) -> cancel(d)
      [] q.op = "admit" -> admit(d, s, n)
      [] q.op = "bind" -> remoteSKIConnected(d, s, n)
      [] q.op = "ship" -> serviceShipIDUpdate(d, s, n)
      [] q.op = "completed" -> connectionCompleted(d, s, n)
      [] q.op = "registered" -> completeTransientRegistration(d, s, n)
      [] q.op = "closed" -> connectionClosed(d, s, n)
      [] q.op = "publish" -> publishes(d)
      [] q.op = "finish" /\ d.inflight ->
            finishRecoveryConfirmationLocked(d, s, q.result)
      [] q.op = "settle" /\ d.fault -> failPairingRegistrationLocked(d)
      [] q.op = "shutdown" -> shutdown(d)
      [] OTHER -> d

\* What the thread learns from the section that took d to e.
answered(q, d, e) ==
    LET s == q.ski  n == q.conn
        yes(b) == IF b THEN "yes" ELSE "no"
        starts == e.phase = "Committing" /\ d.phase # "Committing"
    IN
    CASE q.op = "open" -> [q EXCEPT !.result = yes(opens(d))]
      [] q.op = "select" -> [q EXCEPT !.result = yes(selects(d, s))]
      [] q.op \in {"confirm", "ship", "completed", "registered"} ->
            [q EXCEPT !.result = yes(starts)]
      [] q.op = "authorize" ->
            [q EXCEPT !.result = authorizeRuntimeAttempt(d, s)]
      [] q.op = "admit" ->
            [q EXCEPT !.result =
                yes(admitOutcome(d, s, n) \in {"admitted", "CandidatePending",
                                               "Committing"})]
      [] q.op = "bind" -> [q EXCEPT !.result = yes(binds(d, s, n))]
      [] q.op = "closed" ->
            [q EXCEPT !.result = yes(sameCandidate(d, s, n) /\
                                     d.phase = "Committing")]
      [] q.op = "finish" ->
            [q EXCEPT !.flag = d.cand # NoCandidate /\ d.cand.authorized,
                      !.result = IF d.inflight THEN @ ELSE "late"]
      [] OTHER -> q

\* Mutant: the expiry of the window is not scheduled.
unscheduled(q, e) ==
    IF q.op = "finish" /\ q.result # "late"
    THEN AfterConfirmation(e, q.ski, q.conn, q.result, q.flag) ELSE e

\* What follows in the same critical section once the registration is set.
after(q, e) ==
    CASE q.op = "open" /\ q.result = "yes" /\ ~q.err /\ ~e.fault ->
            [e EXCEPT !.timer = "window"]
      [] q.op = "finish" /\ q.result # "late" ->
            AfterConfirmation(e, q.ski, q.conn, q.result, q.flag)
      [] q.op = "shutdown" -> AfterShutdown(e)
      [] OTHER -> e

\* openPairingWindowLocked reads coordinator.window.deadline.
nilWindow(q, e) ==
    q.op = "open" /\ q.result = "yes" /\ ~q.err /\ e.window = "none"

\* Where the thread goes from there.
next(q) ==
    CASE q.op = "select" /\ q.result = "yes" -> [q EXCEPT !.at = "queue"]
      [] /\ q.op \in {"confirm", "ship", "completed", "registered"}
         /\ q.result = "yes" -> [q EXCEPT !.op = "publish"]
      [] q.op = "publish" -> [q EXCEPT !.at = "publishing"]
      [] q.op = "finish" -> [q EXCEPT !.op = "settle"]
      [] q.op = "authorize" /\ q.result # "attempt_denied" ->
            [q EXCEPT !.at = "new"]
      [] q.op = "admit" ->
            [q EXCEPT !.at = IF q.result = "yes" THEN "begun" ELSE "discard"]
      [] q.op = "bind" /\ q.result = "yes" -> [q EXCEPT !.at = "bound"]
      [] q.op = "closed" /\ q.kind = "terminated" -> [q EXCEPT !.at = "restore"]
      [] q.op = "closed" /\ q.kind = "failed" -> [q EXCEPT !.at = "failing"]
      [] OTHER -> Idle

\* firstTrustCoordinatorMutex.Unlock.
Unlock(t, e, q) ==
    /\ c' = [e EXCEPT !.pending = <<>>]
    /\ queue' = queue \o e.pending
    /\ drainer' = IF e.pending # <<>> /\ drainer = NoThread THEN t
                  ELSE drainer
    /\ pc' = [pc EXCEPT ![t] = q]

Leave(t, q, e) ==
    IF nilWindow(q, e)
    THEN ended' = TRUE /\ UNCHANGED <<c, queue, drainer, pc>>
    ELSE Unlock(t, after(q, e), next(q)) /\ UNCHANGED ended

\* setWaitingLocked releases the mutex, not its Unlock: no effect moves.
Ask(t, q, e) ==
    /\ c' = [e EXCEPT !.ask = "none"]
    /\ pc' = [pc EXCEPT ![t] = [q EXCEPT !.at = "ask", !.asked = e.ask]]
    /\ UNCHANGED <<queue, drainer, ended>>

AskOrLeave(t, q, e) == IF e.ask # "none" THEN Ask(t, q, e) ELSE Leave(t, q, e)

Apply(t, q, d, e) ==
    /\ AskOrLeave(t, answered([q EXCEPT !.body = FALSE], d, e), e)
    /\ confirmed' = IF q.op = "confirm" /\ confirms(d, q.ski, q.conn)
                    THEN confirmed \cup {<<q.ski, q.conn>>} ELSE confirmed
    /\ opened' = IF q.op = "open" /\ opens(d) THEN opened + 1 ELSE opened

Run(t, q, d) == Apply(t, q, d, section(q, d))

\* Another thread is in setWaitingLocked.
calling == \E t \in Threads : pc[t].at \in {"ask", "asked"}

\* A thread is held up while it drains the queue.
free(t) ==
    ~ended /\ (t # Drain => drainer # t)

mayEnter(t) == free(t) /\ (scenario.overlap \/ ~calling)

AskOrRun(t, q, d) ==
    IF d.ask # "none"
    THEN Ask(t, [q EXCEPT !.body = TRUE], d) /\ UNCHANGED history
    ELSE Run(t, q, d) /\ UNCHANGED durable

Lock(t, q) ==
    /\ mayEnter(t)
    /\ AskOrRun(t, q, IF expires(q.op) THEN expireLocked(c) ELSE c)

Enter(t) ==
    /\ pc[t].at = "enter"
    /\ Lock(t, pc[t])
    /\ UNCHANGED <<f, service>>

\* effects.setWaiting under pairingEffectMu, ...
SetWaiting(t) ==
    LET on == pc[t].asked = "on" IN
    /\ free(t) /\ pc[t].at = "ask"
    /\ \A u \in Threads : pc[u].at # "asked"
    /\ \/ /\ service' = [service EXCEPT !.advertised = on]
          /\ f' = F!setWaiting(f, on)
          /\ pc' = [pc EXCEPT ![t].at = "asked", ![t].err = FALSE]
       \/ /\ "registration" \in scenario.disturbances
          /\ f' = [f EXCEPT !.fault = TRUE]
          /\ pc' = [pc EXCEPT ![t].at = "asked", ![t].err = TRUE]
          /\ UNCHANGED service
    /\ UNCHANGED <<c, queue, drainer, ended, history>>

\* ... and the rest of the operation, with the mutex taken again.
WaitingSet(t) ==
    LET q == pc[t]
        d == waitingSet(c, q.asked = "on", q.err)
        r == [q EXCEPT !.at = "enter", !.asked = "none"]
    IN
    /\ free(t) /\ q.at = "asked"
    /\ IF q.body THEN Run(t, [r EXCEPT !.err = FALSE], d) /\ UNCHANGED durable
       ELSE Leave(t, r, d) /\ UNCHANGED history
    /\ UNCHANGED <<f, service>>

-----------------------------------------------------------------------------
(* The durable publication, by the thread that started the commit.          *)

\* confirmWithRecoveryLocked may also fail before it publishes.
PrepareFails(t) ==
    /\ pc[t].at = "enter" /\ pc[t].op = "publish"
    /\ Lock(t, [pc[t] EXCEPT !.op = "finish", !.result = "unchanged"])
    /\ UNCHANGED <<f, service>>

\* publishFirstTrustControl; an unknown outcome may be on disk or not.
Publish(t) ==
    LET q == pc[t] IN
    /\ free(t) /\ q.at = "publishing"
    /\ \E outcome \in {"durable", "unknown", "unchanged"} :
         /\ pc' = [pc EXCEPT ![t].at = "enter", ![t].op = "finish",
                             ![t].result = outcome]
         /\ durable' \in {d \in {durable, durable \cup {<<q.ski, q.conn>>}} :
                /\ outcome = "durable" => <<q.ski, q.conn>> \in d
                /\ outcome = "unchanged" => d = durable}
    /\ UNCHANGED <<c, f, service, queue, drainer, ended, confirmed, opened>>

-----------------------------------------------------------------------------
(* Administration calls.                                                    *)

Call(t, q) == pc[t] = Idle /\ Lock(t, q) /\ UNCHANGED <<f, service>>

Open(t) == opened < MaxOpens /\ Call(t, call("open", NoSKI, 0))
Close(t) == Call(t, call("close", NoSKI, 0))
Select(t, s) ==
    /\ c.selecting /\ Len(queue \o c.pending) < MaxEffects
    /\ Call(t, call("select", s, 0))
Confirm(t, s, n) == Call(t, call("confirm", s, n))
Cancel(t, n) == Call(t, call("cancel", NoSKI, n))

\* state() and candidate(), when there is something to expire.
Status(t) == expireLocked(c) # c /\ Call(t, call("status", NoSKI, 0))

\* The service answers callFirstTrustCandidateQueue, and meanwhile the
\* caller's context may have ended.
Queued(t) ==
    /\ free(t) /\ pc[t].at = "queue"
    /\ \E r \in {"queued", "failed"}, cancelled \in BOOLEAN :
         /\ (r = "queued" /\ ~cancelled) \/ "queue" \in scenario.disturbances
         /\ pc' = [pc EXCEPT ![t] = [@ EXCEPT !.at = "enter", !.op = "queued",
                                           !.result = r, !.flag = cancelled]]
    /\ UNCHANGED <<c, f, service, queue, drainer, ended, history>>

-----------------------------------------------------------------------------
(* Callbacks of the service, one at a time under callbackMu.                *)

callbackMuFree == pc[Callback] = Idle /\ free(Callback)

goto(t, q) == pc' = [pc EXCEPT ![t] = q]
quiet == UNCHANGED <<c, service, queue, drainer, ended, history>>

\* A callback, once its attempt is begun, on the connection of q.ski.
onConnection(q) ==
    LET s == q.ski
        k == f.connections[s]
        pairing == k.class = "pairing_authorized"
        enters(op) == [call(op, s, k.generation) EXCEPT !.kind = q.kind]
        goesOn == q.kind # "attempt" /\ F!known(f, s) /\ ~k.blocked
    IN
    /\ quiet
    /\ \/ ~goesOn /\ goto(Callback, Idle) /\ UNCHANGED f
       \/ /\ goesOn /\ q.kind = "connected"
          /\ IF k.connected
             THEN f' = F!fence(f, s) /\ goto(Callback, enters("closed"))
             ELSE /\ f' = [f EXCEPT !.connections[s].connected = TRUE,
                                    !.connections[s].active = TRUE]
                  /\ goto(Callback, IF pairing /\ ~k.tls THEN enters("bind")
                                    ELSE Idle)
       \/ /\ goesOn /\ q.kind = "ship"
          /\ IF k.transient /\ ~(k.active /\ k.connected)
             THEN goto(Callback, Idle) /\ UNCHANGED f
             ELSE /\ f' = [f EXCEPT !.connections[s].ship = TRUE]
                  /\ goto(Callback, enters("ship"))
       \/ /\ goesOn /\ q.kind = "request"
          /\ f' = [f EXCEPT !.connections[s].active = TRUE]
          /\ goto(Callback, IF pairing /\ ~k.tls
                            THEN [enters("bind") EXCEPT !.flag = k.ship]
                            ELSE IF pairing /\ k.ship THEN enters("ship")
                            ELSE Idle)

\* RemoteSKIConnected, ServiceShipIDUpdate, and ServicePairingDetailUpdate
\* with an attempt or a pairing request: all begin an attempt.
Attempt(kind, s) ==
    /\ callbackMuFree
    /\ kind = "connected" \/ ~F!connectionCallbackBlocked(f, s)
    /\ IF F!known(f, s)
       THEN kind # "attempt" /\ onConnection([Idle EXCEPT !.kind = kind, !.ski = s])
       ELSE /\ Lock(Callback, [call("authorize", s, 0) EXCEPT !.kind = kind])
            /\ UNCHANGED <<f, service>>

full(s) == ~F!known(f, s) /\ (~F!begins(f, s) \/ f.next >= scenario.connections)

\* beginAttempt with the coordinator's authorization: a new connection,
\* unless the table is full, whose retry is admitted or is the outgoing
\* attempt's own (which matters only to a failure).
NewConnection ==
    LET q == pc[Callback]
        g == F!beginAttempt(f, q.ski, q.result)
        pairing == q.result = "pairing_authorized"
        begun == [q EXCEPT !.conn = g.connections[q.ski].generation]
    IN
    /\ free(Callback) /\ q.at = "new"
    /\ IF full(q.ski) THEN goto(Callback, Idle) /\ UNCHANGED f
       ELSE /\ f' = g
            /\ \/ \E outgoing \in
                    {FALSE, pairing /\ "failure" \in scenario.disturbances} :
                    goto(Callback, [begun EXCEPT
                                      !.flag = outgoing, !.op = "admit",
                                      !.at = IF pairing THEN "enter"
                                             ELSE "begun"])
               \/ goto(Callback, [begun EXCEPT !.at = "discard"])
    /\ quiet

AttemptBegun ==
    LET q == pc[Callback] IN
    /\ free(Callback) /\ q.at = "begun"
    /\ f' = F!attemptBegun(f, q.ski, q.conn, q.flag)
    /\ goto(Callback, [q EXCEPT !.at = "tail"])
    /\ quiet

ContinueCallback == free(Callback) /\ pc[Callback].at = "tail" /\ onConnection(pc[Callback])

\* discardRetryGeneration.
Discard ==
    LET q == pc[Callback] IN
    /\ free(Callback) /\ q.at = "discard"
    /\ IF F!current(f, q.ski, q.conn)
       THEN /\ f' = F!delete(f, q.ski)
            /\ goto(Callback, call("closed", q.ski, q.conn))
       ELSE UNCHANGED f /\ goto(Callback, Idle)
    /\ quiet

\* outgoingAttemptTLSBound.
OutgoingAttemptTLSBound(s) ==
    /\ callbackMuFree
    /\ F!known(f, s) /\ ~f.connections[s].tls
    /\ F!bindable(f, s, f.connections[s].generation)
    /\ Lock(Callback, [call("bind", s, f.connections[s].generation)
                       EXCEPT !.kind = "bound"])
    /\ UNCHANGED <<f, service>>

\* The end of bindAttemptTLSUnderCallbackLock.
Bound ==
    LET q == pc[Callback]
        g == F!bound(f, q.ski, q.conn)
    IN
    /\ free(Callback) /\ q.at = "bound"
    /\ f' = g
    /\ goto(Callback,
            IF /\ q.kind = "request" /\ q.flag
               /\ F!connectionAlive(g, q.ski, q.conn)
            THEN [call("ship", q.ski, q.conn) EXCEPT !.kind = "request"]
            ELSE Idle)
    /\ quiet

\* handlePairingFailure: the failure is the outgoing attempt's or is
\* recorded; flag: the retry state is durable, and the connection goes.
Failed(s) ==
    LET k == f.connections[s]
        q == [call("closed", s, k.generation) EXCEPT !.kind = "failed"]
    IN
    /\ "failure" \in scenario.disturbances /\ callbackMuFree
    /\ F!known(f, s) /\ ~k.blocked
    /\ k.admitted \/ k.outgoing
    /\ ~k.failed
    /\ f' = [f EXCEPT !.connections[s].failed = TRUE,
                      !.connections[s].admitted = FALSE,
                      !.connections[s].outgoing = FALSE]
    /\ \/ goto(Callback, q)
       \/ ~k.outgoing /\ goto(Callback, [q EXCEPT !.flag = TRUE])
       \/ ~k.outgoing /\ goto(Callback, [q EXCEPT !.at = "failing"])
    /\ quiet

FailureHandled ==
    LET q == pc[Callback] IN
    /\ free(Callback) /\ q.at = "failing"
    /\ f' = IF q.flag THEN F!delete(f, q.ski)
            ELSE F!cancelGeneration(f, q.ski, q.conn)
    /\ goto(Callback, Idle)
    /\ quiet

\* handlePairingSuccess.
Succeeded(s, completed) ==
    LET k == f.connections[s] IN
    /\ callbackMuFree
    /\ F!known(f, s) /\ ~k.blocked
    /\ f' = [f EXCEPT !.connections[s].admitted = FALSE]
    /\ goto(Callback, IF /\ completed /\ k.class = "pairing_authorized"
                         /\ k.active /\ k.connected
                      THEN call("completed", s, k.generation) ELSE Idle)
    /\ quiet

\* RemoteSKIDisconnected; a fenced connection needs no callbackMu.
Disconnected(s) ==
    LET g == F!RemoteSKIDisconnected(f, s) IN
    /\ ~ended /\ F!known(f, s)
    /\ IF f.connections[s].blocked
       THEN f' = F!acknowledgeBlockedDisconnect(f, s) /\ UNCHANGED pc
       ELSE /\ callbackMuFree
            /\ f' = g
            /\ goto(Callback, IF F!known(g, s)
                              THEN call("closed", s, g.connections[s].generation)
                              ELSE Idle)
    /\ quiet

-----------------------------------------------------------------------------
(* outgoingAttemptTerminated: the connection is fenced, and released again  *)
(* when its commit turns out to be in progress.                             *)

Terminated(s) ==
    LET k == f.connections[s]
        g == F!fence(f, s)
    IN
    /\ "termination" \in scenario.disturbances
    /\ pc[Bridge] = Idle /\ free(Bridge) /\ callbackMuFree
    /\ F!known(f, s) /\ k.class = "pairing_authorized"
    /\ ~k.failed /\ ~k.blocked
    /\ f' = [g EXCEPT !.connections[s].failed = TRUE,
                      !.connections[s].admitted = FALSE,
                      !.connections[s].outgoing = FALSE]
    /\ goto(Bridge, [call("closed", s, k.generation)
                     EXCEPT !.kind = "terminated", !.saved = k])
    /\ quiet

Restore ==
    LET q == pc[Bridge]
        k == f.connections[q.ski]
        mine == F!current(f, q.ski, q.conn)
    IN
    /\ free(Bridge) /\ q.at = "restore" /\ callbackMuFree
    /\ f' = CASE q.result = "yes" /\ mine /\ k.connected = q.saved.connected ->
                   [f EXCEPT !.connections[q.ski].active = q.saved.active,
                             !.connections[q.ski].blocked = FALSE,
                             !.connections[q.ski].ship = q.saved.ship]
              [] q.result = "no" /\ mine /\ ~k.connected -> F!delete(f, q.ski)
              [] OTHER -> f
    /\ goto(Bridge, Idle)
    /\ quiet

-----------------------------------------------------------------------------
(* drainEffects, the clock, discovery and the shutdown.                     *)

Effect ==
    LET e == Head(queue)
        alive == F!registers(f, e.ski, e.conn)
    IN
    /\ ~ended /\ drainer # NoThread /\ pc[Drain] = Idle /\ queue # <<>>
    /\ queue' = Tail(queue)
    /\ f' = CASE e.kind = "Cancel" -> F!cancelGeneration(f, e.ski, e.conn)
              [] e.kind = "Register" /\ alive -> F!registerRemoteSKI(f, e.ski)
              [] e.kind = "TransientRegister" /\ alive ->
                    F!registerTransientRemoteSKI(f, e.ski)
              [] /\ e.kind = "TransientUnregister"
                 /\ F!unregisters(f, e.ski, e.conn) ->
                    F!unregisterTransientRemoteSKI(f, e.ski)
              [] e.kind = "TransientFinalize" ->
                    F!finalizeTransientRemoteSKI(f, e.ski, e.conn)
              [] OTHER -> f
    /\ service' =
         CASE e.kind \in {"Register", "TransientRegister"} /\ alive ->
                [service EXCEPT !.registered = @ \cup {e.ski}]
           [] /\ e.kind = "TransientUnregister"
              /\ F!unregisters(f, e.ski, e.conn) ->
                [service EXCEPT !.registered = @ \ {e.ski}]
           [] OTHER -> service
    /\ goto(Drain, IF e.kind \in {"Register", "TransientRegister"} /\ alive
                   THEN [call("registered", e.ski, e.conn)
                         EXCEPT !.at = "registering", !.kind = e.kind]
                   ELSE Idle)
    /\ UNCHANGED <<c, drainer, ended, history>>

\* service.RegisterRemoteSKI returns.
Registered ==
    LET q == pc[Drain] IN
    /\ ~ended /\ q.at = "registering"
    /\ goto(Drain, IF q.kind = "TransientRegister"
                   THEN [q EXCEPT !.at = "enter"] ELSE Idle)
    /\ UNCHANGED <<c, f, service, queue, drainer, ended, history>>

Drained ==
    /\ ~ended /\ drainer # NoThread /\ queue = <<>> /\ pc[Drain] = Idle
    /\ drainer' = NoThread
    /\ UNCHANGED <<c, f, service, queue, pc, ended, history>>

\* A deadline passes.  A candidate's is no later than its window's.
Due ==
    /\ ~ended
    /\ \/ /\ c.cand # NoCandidate /\ ~c.cand.due
          /\ c' = [c EXCEPT !.cand.due = TRUE]
       \/ /\ c.window = "open" /\ (c.cand # NoCandidate => c.cand.due)
          /\ c' = [c EXCEPT !.window = "due"]
    /\ UNCHANGED <<f, service, queue, drainer, pc, ended, history>>

\* The timer of scheduleExpiryLocked, unless it has been replaced.
Timer ==
    /\ pc[Runtime] = Idle
    /\ \/ c.timer = "window" /\ c.window = "due"
       \/ c.timer = "candidate" /\ c.cand # NoCandidate /\ c.cand.due
    /\ Lock(Runtime, call("timer", NoSKI, 0))
    /\ UNCHANGED <<f, service>>

\* failCandidateQueueLocked can leave the timer of the candidate it drops.
\* That timer expires what was due at the candidate's deadline: the window
\* only if it ends with the candidate.
TimerOfLostCandidate ==
    /\ pc[Runtime] = Idle
    /\ c.timer = "candidate" /\ c.cand = NoCandidate /\ c.window = "due"
    /\ \/ Lock(Runtime, call("timer", NoSKI, 0))
       \/ /\ mayEnter(Runtime)
          /\ c' = [c EXCEPT !.timer = "none"]
          /\ UNCHANGED <<queue, drainer, pc, ended, history>>
    /\ UNCHANGED <<f, service>>

\* VisiblePairingCandidatesUpdated, and a snapshot that is refused.
Discovered(seen) ==
    /\ c.selecting /\ pc[Runtime] = Idle /\ mayEnter(Runtime)
    /\ Unlock(Runtime, visiblePairingCandidatesUpdated(c, seen), Idle)
    /\ UNCHANGED <<f, service, ended, history>>

\* Another control publication (retries, outgoing attempts) moves the store.
ControlPublished ==
    /\ "store" \in scenario.disturbances
    /\ ~ended /\ ~c.operation /\ c.generation < MaxGeneration
    /\ c' = [c EXCEPT !.generation = @ + 1]
    /\ UNCHANGED <<f, service, queue, drainer, pc, ended, history>>

Shutdown ==
    /\ "shutdown" \in scenario.disturbances
    /\ c.attached /\ pc[Runtime] = Idle
    /\ Lock(Runtime, call("shutdown", NoSKI, 0))
    /\ UNCHANGED <<f, service>>

-----------------------------------------------------------------------------
OperatorStep(t) ==
    \/ Open(t) \/ Close(t) \/ Status(t) \/ Queued(t)
    \/ \E s \in SKIs : Select(t, s)
    \/ \E s \in SKIs, n \in 1..f.next : Confirm(t, s, n)
    \/ \E n \in 1..f.next : Cancel(t, n)

CallbackStep ==
    \/ \E s \in SKIs :
         \/ \E kind \in {"attempt", "connected", "ship", "request"} :
               Attempt(kind, s)
         \/ OutgoingAttemptTLSBound(s) \/ Failed(s) \/ Disconnected(s)
         \/ \E completed \in BOOLEAN : Succeeded(s, completed)
         \/ Terminated(s)
    \/ NewConnection \/ AttemptBegun \/ ContinueCallback \/ Discard \/ Bound
    \/ FailureHandled \/ Restore

Step ==
    \/ \E t \in Operators : OperatorStep(t)
    \/ \E t \in Threads :
         Enter(t) \/ SetWaiting(t) \/ WaitingSet(t) \/ PrepareFails(t)
         \/ Publish(t)
    \/ CallbackStep
    \/ Effect \/ Registered \/ Drained \/ Due \/ Timer
    \/ TimerOfLostCandidate \/ ControlPublished \/ Shutdown
    \/ \E seen \in SUBSET SKIs : Discovered(seen)

Next == Step /\ UNCHANGED scenario

Spec == Init /\ [][Next]_<<vars, scenario>>

\* Every goroutine that runs goes on: a thread in a call, the callback
\* thread, the bridge, the drain and the timer.  Nobody has to call, and the
\* environment owes nothing but the return of the calls made to it.
Fairness ==
    /\ \A t \in Threads :
         WF_vars(Enter(t) \/ SetWaiting(t) \/ WaitingSet(t) \/ Publish(t)
                 \/ Queued(t))
    /\ WF_vars(NewConnection \/ AttemptBegun \/ ContinueCallback \/ Discard
               \/ Bound \/ FailureHandled)
    /\ WF_vars(Restore)
    /\ WF_vars(Effect \/ Registered \/ Drained)
    /\ WF_vars(Timer \/ TimerOfLostCandidate)

FairSpec == Spec /\ Fairness

-----------------------------------------------------------------------------
(* Properties.                                                              *)

\* Nothing is published, trusted or registered with the service before an
\* operator confirmed that peer on that very connection.
TrustIsConfirmed ==
    /\ durable \subseteq confirmed
    /\ \A s \in c.trusted : \E n \in 1..MaxConnections : <<s, n>> \in durable
    /\ \A s \in service.registered :
         \E n \in 1..MaxConnections : <<s, n>> \in confirmed

publishing(t) == pc[t].at = "publishing" \/ pc[t].op \in {"publish", "finish"}

\* The callback thread and the draining thread can both complete the
\* conditions of a commit: only one of them starts it, and while it is
\* published the coordinator is in no other phase, unless it is being shut down
\* or has failed, or the thread waits in setWaitingLocked.
OneCommit ==
    /\ \A t, u \in Threads : publishing(t) /\ publishing(u) => t = u
    /\ \A t \in Threads : publishing(t) /\ c.attached /\ ~c.fault =>
          c.phase = "Committing" \/ pc[t].at \in {"ask", "asked"}

\* Between two calls the service accepts pairing registrations exactly when
\* the coordinator believes so, and only for an open window or its commit; and
\* at no time does a phase lack its window or its candidate (setWaitingLocked).
RegistrationEnds ==
    /\ PhaseOK
    /\ ~calling /\ ~c.fault =>
         /\ service.advertised = c.enabled
         /\ c.enabled => c.window # "none" \/ c.phase = "Committing"

\* The registration ends with the window, and an open window has one
\* (setWaitingLocked).  A peer is registered by the thread that drains the
\* effects: the service may call back into the facade before RegisterRemoteSKI
\* returns, so that it is never the thread that holds the callbacks' lock
\* (drainEffects).
RegistrationFollowsWindow ==
    /\ RegistrationEnds
    /\ ~calling /\ ~c.fault /\ c.window # "none" => c.enabled
    /\ pc[Drain].at = "registering" => drainer # Callback

\* Once a confirmation is settled, every association that was published is
\* one the coordinator trusts.
DurableIsTrusted ==
    c.recovery = "PAIRED_TRUSTED" /\ ~c.inflight /\ c.attached =>
        \A b \in durable : b[1] \in c.trusted

\* A window whose deadline has passed is closed, whether or not anybody calls.
WindowCloses == c.window = "due" ~> c.window # "due" \/ ended

\* A commit that has begun is settled, and the confirmation answered.
CommitSettles == c.inflight ~> ~c.inflight \/ ended

=============================================================================
