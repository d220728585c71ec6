---------------------------- MODULE OperatorAdmin ----------------------------
(***************************************************************************)
(* Operator administration (AdminV1) over the runtime: the reducer, which  *)
(* runs one call at a time against a numbered state, its bridge to the     *)
(* first-trust coordinator, and the active action that the facade keeps    *)
(* for a connect.                                                          *)
(*                                                                         *)
(* One peer.  The coordinator is reduced to what the bridge shows and      *)
(* changes: other operators, timers and the peer change it between any two *)
(* steps of a call (FirstTrust and Pairing model how).  A handle stands    *)
(* for its random token and a reference for what the bridge bound it to;   *)
(* the expiry of a handle by age alone, which only refuses, is left out.   *)
(* A call reads facts and accepts them in one step: nobody but the call    *)
(* that holds the serial token touches the reducer.                        *)
(***************************************************************************)
EXTENDS Runtime

CONSTANTS
    MaxKeys,     \* bound on idempotency keys, which operators take in order
    MaxReplays   \* operatorAdminV1MaximumReplayEntries

Keys == 1..MaxKeys

Operations == {"open", "close", "select", "connect", "confirm", "cancel",
               "retry", "untrust"}

\* What others do
Others == {"opens", "closes", "sees", "arrives", "completes", "ends",
           "confirms", "revokes", "attempts", "details", "disconnects"}

\* What a scenario lets operators and others do: which operations and moves,
\* and how many moves and effects in a behaviour.
AdminBound == [ops : SUBSET Operations, others : SUBSET Others,
               moves : Nat, effects : Nat]

\* What handles are for: an observation, a selection, or the number of a
\* candidate or partner.
Sighting == [ref : Nat, rev : Nat]
Selected == [n : Nat, ref : Nat]
Handle == [kind : {"observation", "selection", "candidate", "partner"},
           target : Sighting \cup Selected \cup Nat, rev : Nat]

\* firstTrustCandidateSelection
Reservation == [n : Nat, ref : Nat, done : BOOLEAN, aborted : BOOLEAN]

Request == [op : Operations, rev : Nat, handle : Handle \cup {None}]

\* A call of execute, and one of Snapshot that shows an outcome
Execution == [at : {"effect", "reserve", "finish", "commit"}, key : Keys,
              req : Request, ok : BOOLEAN, changed : BOOLEAN,
              made : SUBSET Selected]
Showing == [at : {"observe"}, id : Nat]

ASSUME AdminAssumption ==
    /\ MaxKeys \in Nat /\ MaxReplays \in Nat \ {0}
    /\ \A s \in Scenarios : s.admin # None => s.admin \in AdminBound
    /\ None \notin Execution \cup Showing \cup Request \cup Reservation

\* The kind of handle that an operation takes
kindOf == [select |-> "observation", connect |-> "selection",
           confirm |-> "candidate", cancel |-> "candidate",
           retry |-> "partner", untrust |-> "partner"]

VARIABLES
    adm,     \* operatorAdminV1Reducer: revision, facts, handles, replays
    call,    \* the call that holds the serial token
    client,  \* what the operator was last shown, and the requests it sent
    bridge,  \* selections of operatorAdminV1Bridge
    ft,      \* the coordinator: window, observation, selection, candidate,
             \* association
    fac,     \* the facade: the connection and the active action
    did      \* ghost: moves and effects so far; requests whose effect ran

adminVars == <<adm, call, client, bridge, ft, fac, did>>
allVars == <<vars, adminVars>>

noObservation == [ref |-> 0, rev |-> 0, life |-> "none"]

AdminInit ==
    /\ Init
    /\ adm = [rev |-> 0, facts |-> None, handles |-> {}, replays |-> <<>>]
    /\ call = None
    /\ client = [rev |-> 0, handles |-> {}, sent |-> [k \in Keys |-> None]]
    /\ bridge = {}
    /\ ft = [window |-> 0, windows |-> 0, obs |-> noObservation, seen |-> 0,
             valid |-> TRUE, sel |-> None, sels |-> 0, cand |-> None,
             cands |-> 0, partner |-> 0, partners |-> 0]
    /\ fac = [next |-> 0, epoch |-> 0, conn |-> None, action |-> None,
              actions |-> 0]
    /\ did = [moves |-> 0, effects |-> 0, ran |-> {}, twice |-> FALSE]

-----------------------------------------------------------------------------
(* The coordinator and the facade as the bridge uses them.                 *)

openEmpty == ft.window # 0 /\ ft.cand = None

\* finishCandidateSelectionLocked: a selection that is still being made is
\* only marked.
selectionFinished(sel) ==
    IF sel = None \/ sel.done THEN None ELSE [sel EXCEPT !.aborted = TRUE]

\* cancelGeneration, cancelUnboundRemote
cancelled(conn) == IF conn = None THEN None ELSE [conn EXCEPT !.live = FALSE]

\* closeWindowLocked, and setWaiting(false) of the facade
windowClosed ==
    /\ ft' = [ft EXCEPT !.window = 0, !.cand = None,
                        !.sel = selectionFinished(@)]
    /\ fac' = [fac EXCEPT !.action = None,
         !.conn = IF ft.cand # None \/ ft.sel # None THEN cancelled(@) ELSE @]

\* openPairingWindowLocked; setWaiting(true) begins a pairing epoch.
windowOpened ==
    /\ ft' = [ft EXCEPT !.window = ft.windows + 1, !.windows = @ + 1]
    /\ fac' = [fac EXCEPT !.epoch = @ + 1]

\* The candidate goes and its window stays: cancel.
candidateCancelled ==
    /\ ft' = [ft EXCEPT !.cand = None, !.sel = selectionFinished(@)]
    /\ fac' = [fac EXCEPT !.conn = cancelled(@), !.action = None]

\* The confirmed candidate's commit
committed ==
    /\ ft' = [ft EXCEPT !.window = 0, !.cand = None,
                        !.sel = selectionFinished(@),
                        !.partner = ft.partners + 1, !.partners = @ + 1]
    /\ fac' = [fac EXCEPT !.action = None]

\* reserveOperatorAdminV1Selection
reservable(ref) ==
    /\ openEmpty /\ ft.sel = None /\ ft.valid
    /\ ft.obs.life = "visible" /\ ft.obs.ref = ref

reserved ==
    [ft EXCEPT !.sels = @ + 1, !.obs.life = "reserved",
               !.sel = [n |-> ft.sels + 1, ref |-> ft.obs.ref, done |-> FALSE,
                        aborted |-> FALSE]]

\* armOperatorAdminV1ActiveAction: an attempt of this epoch that is under way,
\* or else the next one
attempting == fac.conn # None /\ fac.conn.live /\ fac.conn.epoch = fac.epoch

armed ==
    [fac EXCEPT !.actions = @ + 1,
       !.action = [id |-> fac.actions + 1, state |-> "pending",
                   gen |-> IF attempting THEN fac.conn.gen ELSE 0,
                   floor |-> IF attempting THEN fac.conn.gen
                             ELSE fac.next + 1,
                   before |-> IF attempting THEN 0 ELSE fac.next]]

reboundToAny(action, gen) ==
    IF action = None THEN None
    ELSE IF action.gen = 0 THEN [action EXCEPT !.gen = gen]
    ELSE IF action.gen # gen /\ action.state # "terminal" THEN None
    ELSE action

\* bindOperatorAdminV1ActiveActionLocked
rebound(action, gen) ==
    IF action = None \/ gen < action.floor THEN action
    ELSE IF action.gen = 0 THEN [action EXCEPT !.gen = gen]
    ELSE IF action.gen # gen /\ action.state # "terminal" THEN None
    ELSE action

\* completeOperatorAdminV1ActiveActionLocked, recordOperatorAdminV1PairingDetail
completed(action, gen) ==
    IF action # None /\ action.gen = gen
    THEN [action EXCEPT !.state = "terminal"] ELSE action

-----------------------------------------------------------------------------
(* The reducer.                                                            *)

\* available(), and the bridge of a backend that runs
available == rt.started /\ rt.backend /\ ~rt.workerErr /\ ~rt.shutdown
bridgeUp == be.publisher /\ be.close = "open"

\* captureRawSnapshot, sanitizeSnapshot
facts ==
    [window |-> ft.window, valid |-> ft.valid,
     observation |-> IF ft.obs.life = "visible"
                     THEN {[ref |-> ft.obs.ref, rev |-> ft.obs.rev]} ELSE {},
     candidate |-> IF ft.cand = None THEN {} ELSE {ft.cand.n},
     state |-> IF ft.cand = None THEN "none" ELSE ft.cand.state,
     partner |-> {ft.partner} \ {0},
     connected |-> fac.conn # None /\ fac.conn.live,
     action |-> IF fac.action = None THEN None
                ELSE [id |-> fac.action.id, state |-> fac.action.state]]

\* pruneSelectionsLocked; operatorAdminV1SelectionCurrent
selectionCurrent(s) ==
    /\ ft.sel # None /\ ft.sel.done /\ ~ft.sel.aborted /\ ft.sel.ref = s.ref
    /\ ft.window # 0
pruned == {s \in bridge : selectionCurrent(s)}

\* advanceRevisionLocked, invalidateHandlesLocked
advanced(a, f) == [a EXCEPT !.rev = @ + 1, !.facts = f, !.handles = {}]

\* acceptFactsLocked
accepts(a, f) == IF a.facts = f THEN a ELSE advanced(a, f)

\* reserveReplaySlotLocked: what may be forgotten
evictable(a) ==
    {i \in 1..Len(a.replays) : a.replays[i].ok /\ a.replays[i].rev < a.rev}

hasSlot(a) == Len(a.replays) < MaxReplays \/ evictable(a) # {}
withSlot(a) ==
    IF Len(a.replays) < MaxReplays THEN a
    ELSE LET i == CHOOSE i \in evictable(a) : \A j \in evictable(a) : i <= j
         IN [a EXCEPT !.replays = SubSeq(@, 1, i - 1) \o
                                  SubSeq(@, i + 1, Len(@))]

\* resolveHandleLocked
resolves(a, req) ==
    req.op \in DOMAIN kindOf
    => /\ req.handle \in a.handles /\ req.handle.rev = a.rev
       /\ req.handle.kind = kindOf[req.op]

revisionIgnored(a, req) == TRUE
\* ExpectedStateRevision
expects(a, req) == req.rev = a.rev

\* issueHandlesLocked
issued(a, kind, targets) ==
    [a EXCEPT !.handles = @ \cup
       {[kind |-> kind, target |-> t, rev |-> a.rev] : t \in targets}]

-----------------------------------------------------------------------------
(* Calls.                                                                  *)

\* Requests that the operator makes from what it was shown.
requests ==
    {[op |-> o, rev |-> client.rev, handle |-> None] :
        o \in bound.admin.ops \ DOMAIN kindOf}
    \cup {[op |-> o, rev |-> client.rev, handle |-> x] :
             o \in bound.admin.ops \cap DOMAIN kindOf, x \in client.handles}

wellFormed(req) ==
    req.rev > 0 /\ (req.op \in DOMAIN kindOf => req.handle.kind = kindOf[req.op])

replayOf(k) == {i \in 1..Len(adm.replays) : adm.replays[i].key = k}

\* execute up to the effect.  A key that is known answers by itself.
Submit(k, req) ==
    LET a == accepts(adm, facts)
    IN
    /\ call = None /\ available /\ bridgeUp /\ wellFormed(req)
    /\ \A j \in 1..(k - 1) : client.sent[j] # None
    /\ \/ replayOf(k) # {} /\ UNCHANGED <<adm, call, client, bridge>>
       \/ /\ replayOf(k) = {} /\ bridge' = pruned
          /\ \/ /\ ~(expects(a, req) /\ resolves(a, req) /\ hasSlot(a))
                /\ adm' = a /\ UNCHANGED <<call, client>>
             \/ /\ expects(a, req) /\ resolves(a, req) /\ hasSlot(a)
                /\ did.effects < bound.admin.effects
                /\ adm' = withSlot(a)
                /\ client' = [client EXCEPT !.sent[k] = req]
                /\ call' = [at |-> "effect", key |-> k, req |-> req,
                            ok |-> FALSE, changed |-> FALSE, made |-> {}]
    /\ UNCHANGED <<ft, fac, did, disturbances>>

target == call.req.handle.target

effectRan ==
    did' = [did EXCEPT !.effects = @ + 1,
                       !.ran = @ \cup {<<call.key, call.req>>},
                       !.twice = @ \/ <<call.key, call.req>> \in did.ran]

\* The effect is over: ok or not, and whether it says that it changed something.
ends(ok, changed) ==
    /\ call' = [call EXCEPT !.at = "commit", !.ok = ok, !.changed = changed]
    /\ effectRan

anyCandidate(n) == ft.cand # None

\* operatorAdminV1CandidateCurrent, and the bindings that the coordinator
\* compares
candidateCurrent(n) == ft.cand # None /\ ft.cand.n = n

\* What the operation of the call finds when the bridge carries it out
applies ==
    CASE call.req.op = "open" -> ft.window = 0
      [] call.req.op = "close" -> TRUE
      [] call.req.op = "select" ->
            reservable(target.ref)
            /\ (call.at = "effect" => ft.obs.rev = target.rev)
      [] call.req.op = "connect" -> target \in bridge /\ selectionCurrent(target)
      [] call.req.op = "confirm" ->
            candidateCurrent(target) /\ ft.cand.state = "complete"
      [] call.req.op = "cancel" -> candidateCurrent(target)
      [] call.req.op \in {"retry", "untrust"} -> ft.partner = target

\* The context of the call may end where it matters.
unless(possible) ==
    IF possible THEN disturb("cancel") ELSE UNCHANGED disturbances

\* The context ends, or the runtime does, before the effect.
EffectWithheld ==
    /\ call # None /\ call.at = "effect" /\ unless(available)
    /\ call' = None
    /\ UNCHANGED <<adm, client, bridge, ft, fac, did>>

\* The backend is closing, the context has ended, or the object is not what it
\* was: the failure is the result.
EffectRefused ==
    /\ call # None /\ call.at \in {"effect", "reserve"}
    /\ unless(bridgeUp /\ applies)
    /\ ends(FALSE, FALSE) /\ UNCHANGED <<adm, client, bridge, ft, fac>>

effect(op) ==
    /\ call # None /\ call.at = "effect" /\ call.req.op = op
    /\ available /\ bridgeUp /\ applies
    /\ UNCHANGED <<adm, client, disturbances>>

\* openOperatorAdminV1; each call has a key of its own for the coordinator.
EffectOpen ==
    /\ effect("open")
    /\ windowOpened /\ ends(TRUE, TRUE) /\ UNCHANGED bridge

EffectClose ==
    /\ effect("close")
    /\ \/ /\ ft.window = 0 /\ ends(TRUE, FALSE)
          /\ fac' = [fac EXCEPT !.action = None] /\ UNCHANGED <<ft, bridge>>
       \/ ft.window # 0 /\ ends(TRUE, TRUE) /\ windowClosed /\ bridge' = {}

\* selectOperatorAdminV1: the observation is current, to its revision ...
EffectSelect ==
    /\ effect("select")
    /\ call' = [call EXCEPT !.at = "reserve"]
    /\ bridge' = pruned /\ UNCHANGED <<ft, fac, did>>

\* ... is reserved, whatever its revision is by now ...
ReserveSelection ==
    /\ call # None /\ call.at = "reserve" /\ applies
    /\ ft' = reserved
    /\ call' = [call EXCEPT !.at = "finish"]
    /\ UNCHANGED <<adm, client, bridge, fac, did, disturbances>>

\* ... and, when the service has selected it or has not, the selection is
\* kept: finishOperatorAdminV1Selection.
FinishSelection ==
    LET made == [n |-> ft.sel.n, ref |-> ft.sel.ref]
    IN
    /\ call # None /\ call.at = "finish"
    /\ \/ /\ ~ft.sel.aborted
          /\ ft' = [ft EXCEPT !.sel.done = TRUE,
               !.obs.life = IF ft.obs.ref = ft.sel.ref THEN "consumed" ELSE @]
          /\ bridge' = bridge \cup {made}
          /\ call' = [call EXCEPT !.at = "commit", !.ok = TRUE,
                                  !.changed = TRUE, !.made = {made}]
       \/ /\ ft' = [ft EXCEPT !.sel = None, !.obs = noObservation,
                              !.valid = FALSE]
          /\ call' = [call EXCEPT !.at = "commit", !.ok = FALSE,
                                  !.changed = TRUE]
          /\ UNCHANGED bridge
    /\ effectRan /\ UNCHANGED <<adm, client, fac, disturbances>>

\* connectOperatorAdminV1: the action is armed before the service is called,
\* which may refuse the reservation.
EffectConnect ==
    /\ effect("connect")
    /\ bridge' = bridge \ {target} /\ UNCHANGED ft
    /\ \/ fac' = armed /\ ends(TRUE, TRUE)
       \/ fac' = [armed EXCEPT !.action = None] /\ ends(FALSE, TRUE)

\* confirmOperatorAdminV1: the candidate is trusted for the time being, or its
\* trust is committed.
EffectConfirm ==
    /\ effect("confirm")
    /\ ends(TRUE, TRUE) /\ UNCHANGED bridge
    /\ \/ ft' = [ft EXCEPT !.cand.state = "transient"] /\ UNCHANGED fac
       \/ committed

EffectCancel ==
    /\ effect("cancel")
    /\ candidateCancelled /\ ends(TRUE, TRUE) /\ bridge' = {}

\* retryTrustedOperatorAdminV1: the service is asked to try again.
EffectRetry ==
    /\ effect("retry")
    /\ ends(TRUE, TRUE) /\ UNCHANGED <<ft, fac, bridge>>

\* untrustOperatorAdminV1, currentRevocationRequest
EffectUntrust ==
    /\ effect("untrust")
    /\ ft' = [ft EXCEPT !.partner = 0] /\ ends(TRUE, TRUE)
    /\ UNCHANGED <<fac, bridge>>

\* execute after the effect: its result is recorded under the key, a failure
\* too, and the operator answered.
Commit ==
    LET a == IF ~bridgeUp THEN IF call.changed THEN advanced(adm, adm.facts)
                               ELSE adm
             ELSE IF call.changed \/ facts # adm.facts
             THEN advanced(adm, facts) ELSE adm
        selected == issued(a, "selection", call.made)
    IN
    /\ call # None /\ call.at = "commit"
    /\ adm' = [selected EXCEPT !.replays =
                 Append(@, [key |-> call.key, req |-> call.req,
                            ok |-> call.ok, rev |-> a.rev])]
    /\ client' = IF ~call.ok THEN client
                 ELSE [client EXCEPT !.rev = a.rev,
                        !.handles = {x \in selected.handles :
                                        x.kind = "selection"}]
    /\ bridge' = IF bridgeUp THEN pruned ELSE bridge
    /\ call' = None
    /\ UNCHANGED <<ft, fac, did, disturbances>>

\* The view that Snapshot was asked for
shown(f, view) ==
    IF view = "observation" THEN f.observation
    ELSE IF view = "candidate" THEN f.candidate ELSE f.partner

\* The views that operators need for what they do
views == {kindOf[o] : o \in bound.admin.ops \cap DOMAIN kindOf} \ {"selection"}

AdminSnapshot(view) ==
    LET a == issued(accepts(adm, facts), view, shown(facts, view))
    IN
    /\ call = None /\ available /\ bridgeUp
    /\ adm' = a /\ bridge' = pruned
    /\ client' = [client EXCEPT !.rev = a.rev,
         !.handles = {x \in @ : x.rev = a.rev} \cup
                     {x \in a.handles : x.kind = view}]
    /\ call' = IF fac.action # None /\ fac.action.state = "terminal"
               THEN [at |-> "observe", id |-> fac.action.id] ELSE None
    /\ UNCHANGED <<ft, fac, did, disturbances>>

\* observeOperatorAdminV1ActiveAction: an outcome is shown once.
ObserveAction ==
    /\ call # None /\ call.at = "observe"
    /\ fac' = IF fac.action # None /\ fac.action.id = call.id /\ bridgeUp
              THEN [fac EXCEPT !.action = None] ELSE fac
    /\ call' = None
    /\ UNCHANGED <<adm, client, bridge, ft, did, disturbances>>

-----------------------------------------------------------------------------
(* Others: another operator, the timers, discovery and the peer.           *)

move(what) ==
    /\ "listener" \in held /\ be.publisher
    /\ what \in bound.admin.others /\ did.moves < bound.admin.moves
    /\ did' = [did EXCEPT !.moves = @ + 1]
    /\ UNCHANGED <<adm, call, client, bridge, disturbances>>

OtherOpens == move("opens") /\ ft.window = 0 /\ windowOpened
WindowEnds == move("closes") /\ ft.window # 0 /\ windowClosed

\* visiblePairingCandidatesUpdated: the peer is seen, again or anew, or gone.
PeerSeen ==
    /\ move("sees") /\ UNCHANGED fac
    /\ \E again \in BOOLEAN :
         LET ref == IF again THEN ft.obs.ref ELSE ft.obs.ref + 1
             life == IF ft.sel # None /\ ft.sel.ref = ref
                     THEN IF ft.sel.done THEN "consumed" ELSE "reserved"
                     ELSE IF again /\ ft.obs.life = "consumed" THEN "consumed"
                     ELSE "visible"
         IN /\ again => ft.obs.ref > 0
            /\ ft' = [ft EXCEPT !.valid = TRUE, !.seen = @ + 1,
                        !.obs = [ref |-> ref, rev |-> ft.seen + 1,
                                 life |-> life]]

CandidateArrives ==
    /\ move("arrives") /\ openEmpty /\ UNCHANGED fac
    /\ ft' = [ft EXCEPT !.cands = @ + 1,
                !.cand = [n |-> ft.cands + 1, state |-> "incomplete"]]

CandidateCompletes ==
    /\ move("completes") /\ ft.cand # None /\ ft.cand.state = "incomplete"
    /\ ft' = [ft EXCEPT !.cand.state = "complete"] /\ UNCHANGED fac

\* It disconnects or expires, or what another operator confirmed is committed.
CandidateEnds == move("ends") /\ ft.cand # None /\ candidateCancelled
OtherConfirms ==
    move("confirms") /\ ft.cand # None /\ ft.cand.state # "incomplete" /\ committed

OtherRevokes ==
    /\ move("revokes") /\ ft.partner # 0
    /\ ft' = [ft EXCEPT !.partner = 0] /\ UNCHANGED fac

\* beginAttempt for a connection of the peer
AttemptBegins ==
    /\ move("attempts") /\ (fac.conn # None => ~fac.conn.live) /\ UNCHANGED ft
    /\ fac' = [fac EXCEPT !.next = @ + 1,
                 !.conn = [gen |-> fac.next + 1, live |-> TRUE,
                           epoch |-> fac.epoch],
                 !.action = rebound(@, fac.next + 1)]

\* ServicePairingDetailUpdate with an outcome; the callback names no
\* generation, so it is taken for the current connection's.
PairingDetail ==
    /\ move("details") /\ fac.conn # None /\ fac.conn.live /\ UNCHANGED ft
    /\ fac' = [fac EXCEPT !.action =
                 completed(rebound(@, fac.conn.gen), fac.conn.gen)]

Disconnected ==
    /\ move("disconnects") /\ fac.conn # None /\ UNCHANGED ft
    /\ fac' = [fac EXCEPT !.conn = None,
                          !.action = completed(@, fac.conn.gen)]

-----------------------------------------------------------------------------
\* closeOperatorAdminV1Bridge waits for the call that has the bridge.
bridgeFree == call # None => call.at \notin {"reserve", "finish"}
bridgeCloses == be.close = "closing" /\ be'.close = "deactivated"

withBridge ==
    IF bridgeCloses
    THEN /\ bridgeFree /\ bridge' = {}
         /\ fac' = [fac EXCEPT !.action = None]
         /\ UNCHANGED <<adm, call, client, ft, did>>
    ELSE UNCHANGED adminVars

CallStep ==
    \/ EffectWithheld \/ EffectRefused \/ EffectOpen \/ EffectClose \/ EffectSelect
    \/ ReserveSelection \/ FinishSelection \/ EffectConnect \/ EffectConfirm
    \/ EffectCancel \/ EffectRetry \/ EffectUntrust \/ Commit \/ ObserveAction

OtherStep ==
    \/ OtherOpens \/ WindowEnds \/ PeerSeen \/ CandidateArrives
    \/ CandidateCompletes \/ CandidateEnds \/ OtherConfirms \/ OtherRevokes
    \/ AttemptBegins \/ PairingDetail \/ Disconnected

\* Where the runtime is not shut down, operators come after its first snapshot.
administering ==
    bound.admin # None /\ (bound.stoppers = {} => runner.at = "select")

AdminNext ==
    \/ Next /\ withBridge
    \/ /\ administering /\ UNCHANGED <<lifecycle, handling, ghost, bound>>
       /\ \/ \E k \in Keys : \/ \E req \in requests : Submit(k, req)
                             \/ client.sent[k] # None /\ Submit(k, client.sent[k])
          \/ \E view \in views : AdminSnapshot(view)
          \/ CallStep \/ OtherStep

AdminSpec == AdminInit /\ [][AdminNext]_allVars

-----------------------------------------------------------------------------
\* No call of Start or of Shutdown is left waiting for something that nobody
\* will do: while one is under way, a step of the runtime or of the operator's
\* call is possible that is neither a fault nor of the peer.  Such steps come
\* to an end, so each call returns once the others are quiet (Start, Shutdown,
\* runBackend, Close, closeOperatorAdminV1Bridge).
NobodyStuck ==
    \/ \E c \in Starters : start[c].at \in {"acquire", "discard", "waiting"}
    \/ \E c \in Stoppers : stop[c].at \in {"attempt", "close", "waiting"}
    => ENABLED (\/ OwnStep /\ UNCHANGED <<disturbances, bound>> /\ withBridge
                \/ CallStep /\ UNCHANGED vars)

\* A request takes effect once, however often it is sent under its key, and
\* also after its answer was evicted (execute, reserveReplaySlotLocked).
OneEffectPerKey == ~did.twice

\* A call changes the object that the operator was shown: the candidate it
\* confirms or cancels, the association it revokes and the peer it selects are
\* those of its handle, whatever others did while it ran.
ActsOnWhatWasSeen ==
    [][call # None /\ call' # call =>
         /\ call.at = "effect" /\ call.req.op \in {"confirm", "cancel"}
            /\ ft' # ft => ft.cand.n = target
         /\ call.at = "effect" /\ call.req.op = "untrust"
            /\ ft' # ft => ft.partner = target
         /\ call.at = "reserve" /\ ft' # ft => ft.obs.ref = target.ref]_allVars

\* The outcome of an action is of the attempt that it started or found under
\* way, never of a connection that had been given up when it was armed
\* (armOperatorAdminV1ActiveAction, bindOperatorAdminV1ActiveActionLocked).
ActionOfItsAttempt ==
    fac.action # None /\ fac.action.state = "terminal"
    => fac.action.gen > fac.action.before
=============================================================================
