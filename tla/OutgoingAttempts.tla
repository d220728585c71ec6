-------------------------- MODULE OutgoingAttempts --------------------------
(***************************************************************************)
(* Admission of outgoing connections.  The SHIP hub asks the bridge before *)
(* it dials: Prepare writes a reservation into the control document,       *)
(* AuthorizeLaunch turns it into a launch and answers with a permit, whose *)
(* context ends with the attempt.  Every reservation ends as a failure,    *)
(* which is charged to the peer's quarantine record, or as a success,      *)
(* which resets it; a lease ends attempts that nobody reports, a restart   *)
(* charges what it finds, a revocation removes its peer's attempts.        *)
(*                                                                         *)
(* A step is one critical section of the coordinator's mutex or one        *)
(* publication, whose steps ControlRecovery models.  A lane serialises the *)
(* operations of a peer; lanes of two peers and the operator interleave.   *)
(* Left to other modules: how a candidate is selected and confirmed, the   *)
(* generation it carries along, and the retries of incoming connections.   *)
(***************************************************************************)
EXTENDS Naturals, FiniteSets

CONSTANTS
    Remotes,          \* peers with an association or a selected candidate
    Operator,         \* the lane of revocation and start, which take none
    MaxAttempts,      \* bound on reservations
    AttemptMaximum,   \* backoffPolicy.attemptMaximum
    Capacity,         \* firstTrustMaximumOutgoingAttempts
    Faults,           \* which of AllFaults may happen
    MaxDisturbances,  \* bound on faults, crashes, shutdowns, revocations and
                      \* publications of further peers, all together
    None

\* prepare: the document is not prepared; store: it is not committed, which is
\* known; unknown: whether it is, is not known; random: no random number.
AllFaults == {"prepare", "store", "unknown", "random"}

Ids == 1..MaxAttempts

Operations == {"prepare", "authorize", "abort", "failure", "success",
               "revoke", "charge", "release"}
Outcomes == {"durable", "unchanged", "prepare_failed", "unknown"}

ASSUME AttemptsAssumption ==
    /\ Operator \notin Remotes
    /\ {MaxAttempts, AttemptMaximum, Capacity, MaxDisturbances} \subseteq Nat
    /\ AttemptMaximum > 0
    /\ Faults \subseteq AllFaults
    /\ None \notin Ids /\ None \notin Operations \cup Outcomes

Lanes == Remotes \cup {Operator}

\* firstTrustOutgoingAttemptRecord; an identity stands for the random number,
\* the control epoch and the cancellation generation drawn with it.
Attempt == [id : Ids, remote : Remotes, before : Nat,
            state : {"ATTEMPT_RESERVED", "ATTEMPT_LAUNCH_AUTHORIZED"}]

\* firstTrustQuarantineRecord; "none" where there is no record.
Quarantine == [state : {"none", "RETRY_READY", "BACKOFF_ACTIVE", "ADMIN_HOLD"},
               count : Nat]

\* What attempts use of the control document.
Document == [epoch : Nat, attempts : SUBSET Attempt,
             quarantine : [Remotes -> Quarantine], revoked : SUBSET Remotes]

\* What they use of the anchor record.
Anchor == [highWater : Nat, pending : BOOLEAN]

\* firstTrustOutgoingAttemptRuntime; due: leaseDeadline has passed.
Runtime == [remote : Remotes, due : BOOLEAN,
            settlement : {"", "success", "durability_unknown"}]

VARIABLES
    disk,        \* the durable document
    provider,    \* the durable anchor record
    view,        \* coordinator.controlView.control
    anchor,      \* coordinator.anchorRecord
    state,       \* the process, coordinator.recovery and recoveryOperation,
                 \* trustedRemotes or the selected candidate
    contexts,    \* coordinator.outgoingAttemptContexts, lease timers armed
    retry,       \* coordinator.retryInflight, retryArms not yet due
    bridge,      \* pendingFailures with their timers, handshakeObserved
    hub,         \* the hub's handles and permits
    call,        \* the operation that holds each lane
    started,     \* reservations a peer has made since its record was reset
    drawn,       \* identities drawn
    disturbances

durable == <<disk, provider>>
memory == <<view, anchor, state>>
counters == <<started, drawn, disturbances>>
vars == <<disk, provider, view, anchor, state, contexts, retry, bridge, hub,
          call, started, drawn, disturbances>>

Places == {"idle", "enter", "begin", "commit", "finish", "after"}

\* The locals of an operation.  by: who asked; failed: the attempt a fallback
\* replaces; removed: the ones a revocation
\* ends; tries: publications of a success so far.
Locals == [at : Places, op : Operations \cup {None}, id : Ids \cup {None},
           by : {"hub", "close", "handshake", "lease", "settle", "shutdown"},
           failed : Ids \cup {None}, removed : SUBSET Ids,
           target : Document, anchor : Anchor,
           outcome : Outcomes \cup {None}, tries : 0..2]

TypeOK ==
    /\ {disk, view} \subseteq Document
    /\ {provider, anchor} \subseteq Anchor
    /\ state \in [run : {"up", "stopping", "unsettled", "down", "starting"},
                  paired : BOOLEAN,
                  recovery : {"open", "REVOKED", "QUARANTINED"},
                  admissible : SUBSET Remotes, operation : BOOLEAN]
    /\ \E live \in SUBSET Ids : contexts \in [live -> Runtime]
    /\ retry \in [inflight : SUBSET Remotes, waiting : SUBSET Remotes]
    /\ bridge \in [pending : [Remotes -> Ids \cup {None}],
                   timers : SUBSET Remotes, observed : SUBSET Ids]
    /\ hub \in [handles : SUBSET Ids, permits : SUBSET Ids]
    /\ call \in [Lanes -> Locals]
    /\ started \in [Remotes -> Nat]
    /\ drawn \in 0..MaxAttempts
    /\ disturbances \in 0..MaxDisturbances

-----------------------------------------------------------------------------
empty == [epoch |-> 1, attempts |-> {}, revoked |-> {},
          quarantine |-> [r \in Remotes |-> [state |-> "none", count |-> 0]]]
clean == [highWater |-> 1, pending |-> FALSE]

unused == [at |-> "idle", op |-> None, id |-> None, by |-> "hub",
           failed |-> None, removed |-> {}, target |-> empty, anchor |-> clean,
           outcome |-> None, tries |-> 0]

quiet == [pending |-> [r \in Remotes |-> None], timers |-> {}, observed |-> {}]
nobody == [handles |-> {}, permits |-> {}]

Init ==
    /\ disk = empty /\ view = empty
    /\ provider = clean /\ anchor = clean
    /\ \E paired \in BOOLEAN :
         state = [run |-> "up", paired |-> paired, recovery |-> "open",
                  admissible |-> IF paired THEN Remotes ELSE {},
                  operation |-> FALSE]
    /\ contexts = <<>>
    /\ retry = [inflight |-> {}, waiting |-> {}]
    /\ bridge = quiet /\ hub = nobody
    /\ call = [l \in Lanes |-> unused]
    /\ started = [r \in Remotes |-> 0]
    /\ drawn = 0 /\ disturbances = 0

-----------------------------------------------------------------------------
(* The control document.                                                   *)

advanced(d) == [d EXCEPT !.epoch = @ + 1]

\* firstTrustOutgoingAttemptMetadataLocked and ...ExactLocked
exact(id) == {a \in view.attempts : a.id = id}
record(id) == CHOOSE a \in view.attempts : a.id = id
reserved(id) == \E a \in exact(id) : a.state = "ATTEMPT_RESERVED"
launched(id) == \E a \in exact(id) : a.state = "ATTEMPT_LAUNCH_AUTHORIZED"
attemptsOf(d, r) == {a \in d.attempts : a.remote = r}

firstTrustNextBackoff(count) == IF count < AttemptMaximum THEN count + 1 ELSE count

\* Removes the attempt and charges its peer.
firstTrustChargeOutgoingAttemptFailure(d, a) ==
    LET count == IF d.quarantine[a.remote].count < a.before
                 THEN a.before ELSE d.quarantine[a.remote].count
        next == firstTrustNextBackoff(count)
    IN  [d EXCEPT !.attempts = @ \ {a},
                  !.quarantine[a.remote] =
                    [count |-> next,
                     state |-> IF next = AttemptMaximum THEN "ADMIN_HOLD"
                               ELSE "BACKOFF_ACTIVE"]]

firstTrustResetOutgoingAttemptRetry(d, r) ==
    IF d.quarantine[r].state = "none" THEN d
    ELSE [d EXCEPT !.quarantine[r] = [state |-> "RETRY_READY", count |-> 0]]

\* outgoingAttemptOwnerCountLocked
owners == DOMAIN contexts \cup {a.id : a \in view.attempts}

\* The peer is trusted, or the selected candidate of an open window.
firstTrustOutgoingAttemptEligible(r) ==
    /\ ~anchor.pending /\ ~state.operation
    /\ state.recovery = "open" /\ r \in state.admissible

firstTrustOutgoingAttemptRecordEligible(r) ==
    view.quarantine[r].state = "RETRY_READY"

\* The timers of armed backoffs; one that is due leaves the set.
firstTrustOutgoingAttemptRetryReady(r) ==
    \/ view.quarantine[r].state \in {"none", "RETRY_READY"}
    \/ view.quarantine[r].state = "BACKOFF_ACTIVE" /\ r \notin retry.waiting

-----------------------------------------------------------------------------
(* A publication.                                                          *)

disturbed ==
    /\ disturbances < MaxDisturbances
    /\ disturbances' = disturbances + 1

fails(fault) == fault \in Faults /\ disturbed
calm == UNCHANGED disturbances

enters(l, op, id, by, tries) ==
    call' = [call EXCEPT ![l] = [unused EXCEPT !.at = "enter", !.op = op,
                                   !.id = id, !.by = by, !.tries = tries]]

ends(l) == call' = [call EXCEPT ![l] = unused]

\* Every operation builds its target from the view ...
builds(l, c, target) ==
    call' = [call EXCEPT ![l] = [c EXCEPT !.at = "begin", !.target = advanced(target)]]

\* ... which publishSelectedOutgoingAttemptControl compares with the view of
\* then.
Begin(l) ==
    /\ call[l].at = "begin"
    /\ call' = [call EXCEPT ![l] =
         IF call[l].target.epoch = view.epoch + 1
         THEN [@ EXCEPT !.at = "commit", !.anchor = anchor]
         ELSE [@ EXCEPT !.at = "after", !.outcome = "unchanged"]]
    /\ UNCHANGED <<durable, memory, contexts, retry, bridge, hub, counters>>

overtaken(c) == disk.epoch + 1 # c.target.epoch \/ provider # c.anchor

overlapped(l) ==
    \E o \in Lanes \ {l} : call[o].at = "commit"

published(l, outcome) ==
    LET c == call[l]
        written == [highWater |-> IF outcome = "durable" THEN c.target.epoch
                                 ELSE c.anchor.highWater,
                   pending |-> outcome = "unknown"]
    IN  call' = [call EXCEPT ![l] = [c EXCEPT !.at = "finish",
                                       !.outcome = outcome, !.anchor = written]]

\* Bookkeeping for Accounted: the reservations a peer has made since its record
\* was last reset, those a revocation removed left out.
counted(l) ==
    LET c == call[l] IN
    [r \in Remotes |->
       CASE c.op = "prepare" /\ r = l /\ c.failed = None -> started[r] + 1
         [] c.op = "success" /\ r = l -> 0
         [] c.op = "release" /\ c.target.quarantine[r] # disk.quarantine[r] -> 0
         [] c.op = "revoke" /\ r \in c.target.revoked \ disk.revoked ->
              disk.quarantine[r].count
         [] OTHER -> started[r]]

\* publishFirstTrustControl: the document and the anchor agree with the copies.
Commit(l) ==
    /\ call[l].at = "commit"
    /\ ~overtaken(call[l]) /\ ~provider.pending
    /\ disk' = call[l].target
    /\ provider' = [highWater |-> call[l].target.epoch, pending |-> FALSE]
    /\ started' = counted(l)
    /\ published(l, "durable")
    /\ UNCHANGED <<memory, contexts, retry, bridge, hub, drawn, disturbances>>

CommitRefused(l) ==
    /\ call[l].at = "commit"
    /\ \/ /\ (overtaken(call[l]) /\ calm) \/ fails("prepare")
          /\ published(l, "prepare_failed")
       \/ /\ \/ /\ overtaken(call[l]) \/ provider.pending \/ overlapped(l)
                /\ calm
             \/ fails("store")
          /\ published(l, "unchanged")
    /\ UNCHANGED <<durable, memory, contexts, retry, bridge, hub, started, drawn>>

CommitUnknown(l) ==
    /\ call[l].at = "commit" /\ fails("unknown")
    /\ ~overtaken(call[l]) /\ ~provider.pending
    /\ provider' = [provider EXCEPT !.pending = TRUE]
    /\ \/ disk' = call[l].target /\ started' = counted(l)
       \/ UNCHANGED <<disk, started>>
    /\ published(l, "unknown")
    /\ UNCHANGED <<memory, contexts, retry, bridge, hub, drawn>>

quarantine == [state EXCEPT !.recovery = "QUARANTINED", !.admissible = {}]

\* The caller's anchor is written back whatever the outcome.
Finish(l) ==
    LET c == call[l] IN
    /\ c.at = "finish" /\ c.op # "revoke"
    /\ anchor' = c.anchor
    /\ view' = IF c.outcome = "durable" THEN c.target ELSE view
    /\ state' = IF c.outcome = "unknown" THEN quarantine ELSE state
    /\ call' = [call EXCEPT ![l].at = "after"]
    /\ UNCHANGED <<durable, contexts, retry, bridge, hub, counters>>

\* The attempt of a further peer, whose own steps are left out, is published.
OtherPublishes ==
    /\ state.run = "up" /\ disturbed
    /\ ~anchor.pending /\ anchor = provider /\ view = disk
    /\ view' = advanced(view) /\ disk' = view'
    /\ anchor' = [anchor EXCEPT !.highWater = view'.epoch] /\ provider' = anchor'
    /\ UNCHANGED <<state, contexts, retry, bridge, hub, call, started, drawn>>

-----------------------------------------------------------------------------
(* Prepare.                                                                *)

free(l) == call[l].at = "idle" /\ state.run \in {"up", "stopping", "unsettled"}

\* The failed attempt that a new path replaces: launched, and its context open.
replaceable(id) == launched(id) /\ id \in DOMAIN contexts

successfulOutgoingAttemptOwner(r) ==
    \E id \in DOMAIN contexts :
      contexts[id].remote = r /\ contexts[id].settlement = "success"

\* The conditions of prepareOutgoingAttemptLocked.
admits(r, failed) ==
    /\ firstTrustOutgoingAttemptEligible(r)
    /\ ~successfulOutgoingAttemptOwner(r)
    /\ IF failed = None THEN attemptsOf(view, r) = {} ELSE replaceable(failed)
    /\ Cardinality(owners \ {failed}) < Capacity
    /\ firstTrustOutgoingAttemptRetryReady(r)
    /\ (r \in retry.inflight) = (failed # None)

\* The document with the reservation, in place of the attempt that failed.
withReservation(r, id, failed) ==
    LET q == view.quarantine[r]
        ready == [q EXCEPT !.state = "RETRY_READY"]
    IN  [view EXCEPT
           !.quarantine[r] = ready,
           !.attempts = (@ \ exact(failed)) \cup
              {[id |-> id, remote |-> r, before |-> q.count,
                state |-> "ATTEMPT_RESERVED"]}]

\* Prepare: a failure that is still pending makes it a fallback.
Prepare(r) ==
    LET failed == bridge.pending[r]
        id == drawn + 1
        c == [unused EXCEPT !.op = "prepare", !.id = id, !.failed = failed]
    IN
    /\ free(r) /\ state.run = "up" /\ drawn < MaxAttempts
    /\ admits(r, failed)
    /\ drawn' = id
    /\ builds(r, c, withReservation(r, id, failed))
    /\ UNCHANGED <<durable, memory, contexts, retry, bridge, hub, started,
                   disturbances>>

without(f, ids) == [i \in DOMAIN f \ ids |-> f[i]]

registered(r, id) ==
    [i \in DOMAIN contexts \cup {id} |->
       IF i = id THEN [remote |-> r, due |-> FALSE, settlement |-> ""]
       ELSE contexts[i]]

\* The reservation is durable: the context of the attempt it replaces ends,
\* its own is registered with a lease, and the bridge forgets the failure.  A
\* revocation may have removed it meanwhile.
PrepareReturns(r) ==
    LET c == call[r]
        kept == without(contexts, {c.failed})
        found == exact(c.id) # {} /\ Cardinality(owners \ {c.failed}) <= Capacity
    IN
    /\ c.at = "after" /\ c.op = "prepare" /\ c.outcome = "durable"
    /\ IF found
       THEN /\ contexts' = without(registered(r, c.id), {c.failed})
            /\ retry' = [retry EXCEPT !.inflight = @ \cup {r}]
            /\ bridge' = [bridge EXCEPT !.pending[r] = None, !.timers = @ \ {r}]
            /\ hub' = [hub EXCEPT !.handles = @ \cup {c.id}]
       ELSE /\ contexts' = kept
            /\ UNCHANGED <<retry, bridge, hub>>
    /\ ends(r)
    /\ UNCHANGED <<durable, memory, counters>>

PrepareDenied(r) ==
    /\ call[r].at = "after" /\ call[r].op = "prepare"
    /\ call[r].outcome # "durable"
    /\ ends(r)
    /\ UNCHANGED <<durable, memory, contexts, retry, bridge, hub, counters>>

-----------------------------------------------------------------------------
(* AuthorizeLaunch and AbortPrepared, with a handle of the hub.            *)

live(id) == id \in DOMAIN contexts /\ ~contexts[id].due

AuthorizeLaunch(r, id) ==
    /\ free(r) /\ id \in hub.handles \ hub.permits
    /\ state.run = "up"
    /\ reserved(id) /\ record(id).remote = r
    /\ \/ /\ live(id) /\ firstTrustOutgoingAttemptEligible(r)
          /\ firstTrustOutgoingAttemptRecordEligible(r)
          /\ builds(r, [unused EXCEPT !.op = "authorize", !.id = id],
               [view EXCEPT !.attempts = (@ \ exact(id)) \cup
                  {[record(id) EXCEPT !.state = "ATTEMPT_LAUNCH_AUTHORIZED"]}])
          /\ calm
       \/ /\ \/ ~live(id) \/ ~firstTrustOutgoingAttemptEligible(r)
             \/ ~firstTrustOutgoingAttemptRecordEligible(r)
          /\ enters(r, "abort", id, "hub", 0) /\ calm
       \/ /\ fails("random")
          /\ enters(r, "abort", id, "hub", 0)
    /\ UNCHANGED <<durable, memory, contexts, retry, bridge, hub, started, drawn>>

\* What authorizeOutgoingAttempt asks once more after the publication.
permissible(r, id) ==
    /\ launched(id) /\ live(id)
    /\ firstTrustOutgoingAttemptEligible(r)
    /\ firstTrustOutgoingAttemptRecordEligible(r)

AuthorizeReturns(r) ==
    LET c == call[r] IN
    /\ c.at = "after" /\ c.op = "authorize"
    /\ IF c.outcome = "durable"
       THEN IF permissible(r, c.id)
            THEN ends(r) /\ hub' = [hub EXCEPT !.permits = @ \cup {c.id}]
            ELSE enters(r, "failure", c.id, "hub", 0) /\ UNCHANGED hub
       ELSE enters(r, "abort", c.id, "hub", 0) /\ UNCHANGED hub
    /\ UNCHANGED <<durable, memory, contexts, retry, bridge, counters>>

AbortPrepared(r, id) ==
    /\ free(r) /\ id \in hub.handles /\ exact(id) # {} /\ record(id).remote = r
    /\ state.run = "up"
    /\ enters(r, "abort", id, "hub", 0)
    /\ UNCHANGED <<durable, memory, contexts, retry, bridge, hub, counters>>

-----------------------------------------------------------------------------
(* The ends of an attempt.                                                 *)

\* updateOutgoingAttemptRetryArmLocked
armed(r) ==
    IF view.quarantine[r].state = "BACKOFF_ACTIVE"
    THEN retry.waiting \cup {r} ELSE retry.waiting \ {r}

\* Faulty variant of settled: the peer stays marked.
SettledMarked(r, outcome) ==
    [retry EXCEPT !.waiting = IF outcome = "durable" THEN armed(r) ELSE @]

\* retryInflight, and the arm if the document changed.
settled(r, outcome) ==
    [inflight |-> retry.inflight \ {r},
     waiting |-> IF outcome = "durable" THEN armed(r) ELSE retry.waiting]

\* clearPendingFailure and clearHandshakeObservation
cleared(r, id) ==
    [pending |-> [bridge.pending EXCEPT ![r] = IF @ = id THEN None ELSE @],
     timers |-> IF bridge.pending[r] = id THEN bridge.timers \ {r}
                ELSE bridge.timers,
     observed |-> bridge.observed \ {id}]

\* Faulty variant of cancelOutgoingAttemptRuntime: the context stays open.
CancelForgotten(id) == UNCHANGED contexts

cancelOutgoingAttemptRuntime(id) == contexts' = without(contexts, {id})

\* A shutdown gives up when an attempt is not settled.
reports(by, ok) ==
    state' = IF by = "shutdown" /\ ~ok THEN [state EXCEPT !.run = "unsettled"]
             ELSE state

\* abortPreparedOutgoingAttemptLocked up to its publication.
EnterAbort(r) ==
    LET c == call[r] IN
    /\ c.at = "enter" /\ c.op = "abort"
    /\ \/ /\ reserved(c.id)
          /\ builds(r, c, firstTrustChargeOutgoingAttemptFailure(view, record(c.id)))
          /\ UNCHANGED <<state, contexts, disturbances>>
       \/ /\ reserved(c.id) /\ fails("random")
          /\ cancelOutgoingAttemptRuntime(c.id)
          /\ reports(c.by, FALSE) /\ ends(r)
       \/ /\ ~reserved(c.id)
          /\ reports(c.by, FALSE) /\ ends(r)
          /\ UNCHANGED <<contexts, disturbances>>
    /\ UNCHANGED <<durable, view, anchor, retry, bridge, hub, started, drawn>>

AbortReturns(r) ==
    LET c == call[r] IN
    /\ c.at = "after" /\ c.op = "abort"
    /\ cancelOutgoingAttemptRuntime(c.id)
    /\ retry' = IF c.outcome = "durable" THEN settled(r, c.outcome) ELSE retry
    /\ reports(c.by, c.outcome = "durable") /\ ends(r)
    /\ UNCHANGED <<durable, view, anchor, bridge, hub, counters>>

open(id) == id \in DOMAIN contexts /\ contexts[id].settlement = ""

\* completeOutgoingAttemptLocked, not succeeded, up to its publication.
EnterFailure(r) ==
    LET c == call[r]
        current == launched(c.id) /\ open(c.id)
    IN
    /\ c.at = "enter" /\ c.op = "failure"
    /\ \/ /\ current
          /\ builds(r, c, firstTrustChargeOutgoingAttemptFailure(view, record(c.id)))
          /\ UNCHANGED <<state, contexts, bridge, disturbances>>
       \/ /\ current /\ fails("random")
          /\ cancelOutgoingAttemptRuntime(c.id)
          /\ reports(c.by, FALSE) /\ ends(r)
          /\ UNCHANGED bridge
       \/ /\ ~current
          /\ bridge' = IF c.by = "settle" THEN cleared(r, c.id) ELSE bridge
          /\ reports(c.by, FALSE) /\ ends(r)
          /\ UNCHANGED <<contexts, disturbances>>
    /\ UNCHANGED <<durable, view, anchor, retry, hub, started, drawn>>

FailureReturns(r) ==
    LET c == call[r] IN
    /\ c.at = "after" /\ c.op = "failure"
    /\ cancelOutgoingAttemptRuntime(c.id)
    /\ retry' = settled(r, c.outcome)
    /\ bridge' = IF c.outcome = "durable" /\ c.by \in {"close", "handshake", "settle"}
                 THEN cleared(r, c.id) ELSE bridge
    /\ reports(c.by, c.outcome = "durable") /\ ends(r)
    /\ UNCHANGED <<durable, view, anchor, hub, counters>>

\* failClosedSuccessfulOutgoingAttempt
failsClosed(r, c) ==
    /\ contexts' = [contexts EXCEPT ![c.id].settlement = "durability_unknown"]
    /\ retry' = [retry EXCEPT !.inflight = @ \ {r}]
    /\ state' = quarantine
    /\ bridge' = IF c.by = "handshake" THEN cleared(r, c.id) ELSE bridge
    /\ ends(r)

maximumPublicationAttempts == 2

\* One round of completeSuccessfulOutgoingAttemptLocked.
EnterSuccess(r) ==
    LET c == call[r]
        current == launched(c.id) /\ open(c.id)
    IN
    /\ c.at = "enter" /\ c.op = "success"
    /\ \/ /\ current
          /\ builds(r, [c EXCEPT !.tries = @ + 1],
               firstTrustResetOutgoingAttemptRetry(
                 [view EXCEPT !.attempts = @ \ exact(c.id)], r))
          /\ UNCHANGED <<state, contexts, retry, bridge, disturbances>>
       \/ /\ current /\ fails("random")
          /\ failsClosed(r, c)
       \/ /\ ~current
          /\ ends(r)
          /\ UNCHANGED <<state, contexts, retry, bridge, disturbances>>
    /\ UNCHANGED <<durable, view, anchor, hub, started, drawn>>

\* markSuccessfulOutgoingAttempt: the context stays, its lease ends; a close
\* consumes it at once.  A revocation may have ended it.
SuccessReturns(r) ==
    LET c == call[r] IN
    /\ c.at = "after" /\ c.op = "success"
    /\ \/ /\ c.outcome = "durable" /\ open(c.id) /\ exact(c.id) = {}
          /\ contexts' = IF c.by = "close" THEN without(contexts, {c.id})
                         ELSE [contexts EXCEPT ![c.id].settlement = "success"]
          /\ retry' = settled(r, "durable")
          /\ bridge' = cleared(r, c.id)
          /\ ends(r)
          /\ UNCHANGED state
       \/ /\ c.outcome = "durable" /\ ~(open(c.id) /\ exact(c.id) = {})
          /\ ends(r)
          /\ UNCHANGED <<state, contexts, retry, bridge>>
       \/ /\ c.outcome = "unchanged" /\ c.tries < maximumPublicationAttempts
          /\ enters(r, "success", c.id, c.by, c.tries)
          /\ UNCHANGED <<state, contexts, retry, bridge>>
       \/ /\ \/ c.outcome \in {"prepare_failed", "unknown"}
             \/ c.outcome = "unchanged" /\ c.tries = maximumPublicationAttempts
          /\ IF open(c.id) THEN failsClosed(r, c)
             ELSE /\ bridge' = IF c.by = "handshake" THEN cleared(r, c.id) ELSE bridge
                  /\ ends(r)
                  /\ UNCHANGED <<state, contexts, retry>>
    /\ UNCHANGED <<durable, view, anchor, hub, counters>>

-----------------------------------------------------------------------------
(* What the hub reports about a permit, late or twice as it may be, and    *)
(* what timers do.                                                         *)

\* outgoingAttemptCallbackExactLocked
callbackExact(id) == launched(id) /\ open(id)

reported(r, id) ==
    /\ free(r) /\ id \in hub.permits /\ state.run = "up"

\* consumeSuccessfulOutgoingAttemptLocked
consumable(r, id) ==
    /\ id \in DOMAIN contexts /\ contexts[id].settlement = "success"
    /\ contexts[id].remote = r
    /\ \A a \in attemptsOf(view, r) : a.id = id

\* OutgoingAttemptConnectionClosed: the end of a success, a failure that a
\* fallback may still replace, or a failure.
ConnectionClosed(r, id, complete) ==
    /\ reported(r, id)
    /\ \/ /\ consumable(r, id)
          /\ contexts' = without(contexts, {id})
          /\ retry' = [retry EXCEPT !.inflight = @ \ {r}]
          /\ bridge' = cleared(r, id)
          /\ UNCHANGED call
       \/ /\ ~consumable(r, id) /\ callbackExact(id) /\ record(id).remote = r
          /\ ~complete /\ id \notin bridge.observed
          /\ bridge' = IF bridge.pending[r] = None
                       THEN [bridge EXCEPT !.pending[r] = id, !.timers = @ \cup {r}]
                       ELSE bridge
          /\ UNCHANGED <<contexts, retry, call>>
       \/ /\ ~consumable(r, id) /\ callbackExact(id) /\ record(id).remote = r
          /\ complete \/ id \in bridge.observed
          /\ enters(r, IF complete THEN "success" ELSE "failure", id, "close", 0)
          /\ UNCHANGED <<contexts, retry, bridge>>
    /\ UNCHANGED <<durable, memory, hub, counters>>

\* OutgoingAttemptHandshakeStateUpdate
HandshakeStateUpdate(r, id, handshake) ==
    /\ reported(r, id) /\ callbackExact(id) /\ record(id).remote = r
    /\ bridge' = [bridge EXCEPT !.observed = @ \cup {id}]
    /\ IF handshake = "in_progress" THEN UNCHANGED call
       ELSE enters(r, IF handshake = "complete" THEN "success" ELSE "failure",
                   id, "handshake", 0)
    /\ UNCHANGED <<durable, memory, contexts, retry, hub, counters>>

\* settlePendingFailure, when its 25 ms have passed.
SettlePendingFailure(r) ==
    LET id == bridge.pending[r] IN
    /\ free(r) /\ r \in bridge.timers
    /\ IF callbackExact(id) /\ record(id).remote = r
       THEN /\ enters(r, "failure", id, "settle", 0)
            /\ bridge' = [bridge EXCEPT !.timers = @ \ {r}]
       ELSE /\ bridge' = cleared(r, id)
            /\ UNCHANGED call
    /\ UNCHANGED <<durable, memory, contexts, retry, hub, counters>>

LeaseLapses(id) ==
    /\ open(id) /\ ~contexts[id].due
    /\ contexts' = [contexts EXCEPT ![id].due = TRUE]
    /\ UNCHANGED <<durable, memory, retry, bridge, hub, call, counters>>

\* Faulty variant of ExpireOutgoingAttemptLease: only reservations expire.
ExpireReservedOnly(r, id) ==
    /\ free(r) /\ open(id) /\ contexts[id].due /\ contexts[id].remote = r
    /\ reserved(id)
    /\ enters(r, "abort", id, "lease", 0)
    /\ UNCHANGED <<durable, memory, contexts, retry, bridge, hub, counters>>

\* expireOutgoingAttemptLease; a timer that fires early is armed again.
ExpireOutgoingAttemptLease(r, id) ==
    /\ free(r) /\ open(id) /\ contexts[id].due /\ contexts[id].remote = r
    /\ exact(id) # {}
    /\ enters(r, IF reserved(id) THEN "abort" ELSE "failure", id, "lease", 0)
    /\ UNCHANGED <<durable, memory, contexts, retry, bridge, hub, counters>>

BackoffElapses(r) ==
    /\ state.run = "up" /\ r \in retry.waiting
    /\ retry' = [retry EXCEPT !.waiting = @ \ {r}]
    /\ UNCHANGED <<durable, memory, contexts, bridge, hub, call, counters>>

-----------------------------------------------------------------------------
(* Selection of a candidate, revocation of an association.                 *)

Select(r) ==
    /\ state.run = "up" /\ ~state.paired /\ state.recovery = "open"
    /\ state.admissible = {}
    /\ state' = [state EXCEPT !.admissible = {r}]
    /\ UNCHANGED <<durable, view, anchor, contexts, retry, bridge, hub, call,
                   counters>>

WindowCloses ==
    /\ state.run = "up" /\ ~state.paired /\ state.admissible # {}
    /\ state' = [state EXCEPT !.admissible = {}]
    /\ UNCHANGED <<durable, view, anchor, contexts, retry, bridge, hub, call,
                   counters>>

contextsOf(r) == {id \in DOMAIN contexts : contexts[id].remote = r}

removeRevokedOutgoingAttempts(r) ==
    {a.id : a \in attemptsOf(view, r)} \cup contextsOf(r)

\* A revocation up to its publication.
Revoke(r) ==
    /\ state.run = "up" /\ state.paired /\ call[Operator].at = "idle" /\ disturbed
    /\ ~anchor.pending /\ ~state.operation /\ r \notin view.revoked
    /\ state' = [state EXCEPT !.operation = TRUE, !.admissible = @ \ {r}]
    /\ call' = [call EXCEPT ![Operator] =
         [unused EXCEPT !.at = "commit", !.op = "revoke", !.anchor = anchor,
            !.removed = removeRevokedOutgoingAttempts(r),
            !.target = advanced([view EXCEPT !.attempts = @ \ attemptsOf(view, r),
                                             !.revoked = @ \cup {r}])]]
    /\ UNCHANGED <<durable, view, anchor, contexts, retry, bridge, hub, started, drawn>>

\* ... and after it.  Withdrawal, which comes next, changes no attempt.  A
\* revocation that was refused leaves the peer without trust.
RevokeReturns ==
    LET c == call[Operator]
        cancelled == c.removed \cap DOMAIN contexts
    IN
    /\ c.at = "finish" /\ c.op = "revoke"
    /\ anchor' = c.anchor
    /\ IF c.outcome = "durable"
       THEN /\ view' = c.target
            /\ contexts' = without(contexts, cancelled)
            /\ retry' = [retry EXCEPT !.inflight =
                           @ \ {contexts[id].remote : id \in cancelled}]
            /\ state' = [state EXCEPT !.recovery = "REVOKED", !.operation = FALSE]
       ELSE /\ state' = [IF c.outcome = "unknown" THEN quarantine ELSE state
                           EXCEPT !.operation = FALSE]
            /\ UNCHANGED <<view, contexts, retry>>
    /\ ends(Operator)
    /\ UNCHANGED <<durable, bridge, hub, counters>>

-----------------------------------------------------------------------------
(* Shutdown, crash, start.                                                 *)

\* bridge.shutdown, after the service has been stopped.
Shutdown ==
    /\ state.run = "up" /\ disturbed
    /\ state' = [state EXCEPT !.run = "stopping"]
    /\ bridge' = quiet
    /\ UNCHANGED <<durable, view, anchor, contexts, retry, hub, call, started, drawn>>

\* settleOutgoingAttemptsForShutdown: the oldest attempt first.
SettleForShutdown(r) ==
    /\ state.run = "stopping" /\ free(r)
    /\ \A l \in Lanes : call[l].by # "shutdown"
    /\ \E a \in attemptsOf(view, r) :
         /\ \A o \in view.attempts : a.id <= o.id
         /\ enters(r, IF a.state = "ATTEMPT_RESERVED" THEN "abort" ELSE "failure",
                   a.id, "shutdown", 0)
    /\ UNCHANGED <<durable, memory, contexts, retry, bridge, hub, counters>>

\* What is left when the process is gone.
processEnds ==
    /\ state' = [state EXCEPT !.run = "down", !.recovery = "QUARANTINED",
                              !.admissible = {}, !.operation = FALSE]
    /\ contexts' = <<>> /\ retry' = [inflight |-> {}, waiting |-> {}]
    /\ bridge' = quiet /\ hub' = nobody
    /\ call' = [l \in Lanes |-> unused]
    /\ view' = disk /\ anchor' = provider
    /\ UNCHANGED <<durable, started, drawn>>

ShutdownEnds ==
    /\ \/ state.run = "unsettled"
       \/ state.run = "stopping" /\ view.attempts = {}
    /\ processEnds /\ calm

Crash ==
    /\ state.run # "down" /\ disturbed
    /\ processEnds

\* External: an operator's reconciliation, or clearKnownUnappliedAttemptOnReopen
\* for a reservation that is not there; ControlRecovery models both.
Reconcile ==
    /\ state.run = "down" /\ provider.pending
    /\ provider' = [highWater |-> disk.epoch, pending |-> FALSE]
    /\ UNCHANGED <<disk, memory, contexts, retry, bridge, hub, call, counters>>

held(d, r) == d.quarantine[r].state \in {"BACKOFF_ACTIVE", "ADMIN_HOLD"}

\* classifyFirstTrustStartupLocked, as far as attempts tell.
classified(d) ==
    IF state.paired /\ d.revoked = Remotes THEN "REVOKED"
    ELSE IF \E r \in Remotes : held(d, r) THEN "QUARANTINED" ELSE "open"

opened(d, recovery) ==
    state' = [state EXCEPT !.run = "up", !.recovery = recovery,
                           !.admissible = IF recovery = "open" /\ state.paired
                                          THEN Remotes \ d.revoked ELSE {}]

\* Faulty variant of charged: the attempts are dropped.
ChargedNone(d) == [d EXCEPT !.attempts = {}]

\* Every attempt found, in any order: each is charged to its own peer.
charged(d) ==
    [d EXCEPT !.attempts = {},
              !.quarantine = [r \in Remotes |->
                 IF attemptsOf(d, r) = {} THEN d.quarantine[r]
                 ELSE firstTrustChargeOutgoingAttemptFailure(
                        d, CHOOSE a \in attemptsOf(d, r) : TRUE).quarantine[r]]]

\* reconcileTrustedRetryQuarantinesLocked
released(d) ==
    [d EXCEPT !.quarantine = [r \in Remotes |->
       IF held(d, r) /\ r \notin d.revoked
       THEN firstTrustResetOutgoingAttemptRetry(d, r).quarantine[r]
       ELSE d.quarantine[r]]]

\* reopenWithRecovery: the attempts found are charged, or the quarantines of
\* trusted peers reset.
Start ==
    LET publishes(op, target) ==
          /\ state' = [state EXCEPT !.run = "starting"]
          /\ call' = [call EXCEPT ![Operator] =
               [unused EXCEPT !.at = "commit", !.op = op, !.anchor = provider,
                              !.target = advanced(target)]]
    IN
    /\ state.run = "down"
    /\ view' = disk /\ anchor' = provider
    /\ \/ /\ provider.pending
          /\ opened(disk, "QUARANTINED") /\ UNCHANGED call
       \/ /\ ~provider.pending /\ disk.attempts # {}
          /\ publishes("charge", charged(disk))
       \/ /\ ~provider.pending /\ disk.attempts = {}
          /\ state.paired /\ released(disk) # disk
          /\ publishes("release", released(disk))
       \/ /\ ~provider.pending /\ disk.attempts = {}
          /\ ~(state.paired /\ released(disk) # disk)
          /\ opened(disk, classified(disk)) /\ UNCHANGED call
    /\ UNCHANGED <<durable, contexts, retry, bridge, hub, counters>>

\* An attempt that could not be charged quarantines everything.
Started ==
    LET c == call[Operator] IN
    /\ state.run = "starting" /\ c.at = "after"
    /\ opened(view, IF c.outcome = "unknown" \/ (c.op = "charge" /\ c.outcome # "durable")
              THEN "QUARANTINED" ELSE classified(view))
    /\ retry' = [retry EXCEPT !.waiting =
                   {r \in Remotes : view.quarantine[r].state = "BACKOFF_ACTIVE"}]
    /\ ends(Operator)
    /\ UNCHANGED <<durable, view, anchor, contexts, bridge, hub, counters>>

-----------------------------------------------------------------------------
Publishing(l) ==
    Begin(l) \/ Commit(l) \/ CommitRefused(l) \/ CommitUnknown(l) \/ Finish(l)

Working(r) ==
    \/ PrepareReturns(r) \/ PrepareDenied(r) \/ AuthorizeReturns(r)
    \/ EnterAbort(r) \/ AbortReturns(r)
    \/ EnterFailure(r) \/ FailureReturns(r)
    \/ EnterSuccess(r) \/ SuccessReturns(r)

Hub(r) ==
    \/ Prepare(r)
    \/ \E id \in Ids :
         \/ AuthorizeLaunch(r, id) \/ AbortPrepared(r, id)
         \/ \E complete \in BOOLEAN : ConnectionClosed(r, id, complete)
         \/ \E h \in {"in_progress", "complete", "error"} :
              HandshakeStateUpdate(r, id, h)

Timers(r) ==
    \/ SettlePendingFailure(r) \/ BackoffElapses(r)
    \/ \E id \in Ids : ExpireOutgoingAttemptLease(r, id)

Time == \E id \in Ids : LeaseLapses(id)

Process ==
    \/ Shutdown \/ ShutdownEnds \/ Crash \/ Reconcile \/ Start \/ Started
    \/ RevokeReturns \/ WindowCloses
    \/ \E r \in Remotes : SettleForShutdown(r) \/ Select(r) \/ Revoke(r)

Next ==
    \/ \E l \in Lanes : Publishing(l)
    \/ \E r \in Remotes : Working(r) \/ Hub(r) \/ Timers(r)
    \/ Time \/ OtherPublishes \/ Process

Spec == Init /\ [][Next]_vars

\* Lanes and publications go on, time passes and timers run.
Fairness ==
    /\ \A l \in Lanes : WF_vars(Publishing(l))
    /\ \A r \in Remotes : WF_vars(Working(r))
    /\ \A id \in Ids :
         /\ WF_vars(LeaseLapses(id))
         /\ \A r \in Remotes : SF_vars(ExpireOutgoingAttemptLease(r, id))

FairSpec == Spec /\ Fairness

-----------------------------------------------------------------------------
(* Properties.                                                             *)

backed(id) ==
    \/ \E a \in disk.attempts : a.id = id /\ a.state = "ATTEMPT_LAUNCH_AUTHORIZED"
    \/ \E l \in Lanes :
         /\ call[l].at \in {"finish", "after"}
         /\ call[l].outcome \in {"durable", "unknown"}
         /\ \A a \in call[l].target.attempts : a.id # id
    \/ provider.pending

\* The hub may dial only while the launch is durable: as long as the context of
\* a permit is open, the document on disk holds its launch, except while the
\* publication that ends it is on its way to the coordinator or its outcome is
\* not known.  Nothing of a revoked peer's attempts is left, not even a
\* reservation that was on its way, or a connection that had succeeded
\* (authorizeOutgoingLaunch, revoke).
PermitBacked ==
    /\ \A id \in hub.permits : open(id) => backed(id)
    /\ \A r \in view.revoked : contextsOf(r) = {} /\ attemptsOf(disk, r) = {}

\* A peer has one attempt and one context at a time and pays once for every
\* reservation: what its record counts and what is still outstanding are
\* together the reservations since the last reset, whatever aborts, leases,
\* fallbacks, crashes and restarts came between.
Accounted ==
    \A r \in Remotes :
      /\ disk.quarantine[r].count + Cardinality(attemptsOf(disk, r)) = started[r]
      /\ Cardinality(attemptsOf(disk, r)) <= 1 /\ Cardinality(contextsOf(r)) <= 1

\* retryInflight does not outlive what it stands for: a peer that may connect
\* is never refused because of a flag that nobody will take back.
RetryFlagOwned ==
    \A r \in retry.inflight \ view.revoked :
      attemptsOf(view, r) # {} \/ call[r].at # "idle"

\* No permit lasts for ever: the lease ends every context that is not settled,
\* whether or not the document can be changed.
LeaseEnds == \A id \in Ids : open(id) ~> ~open(id)

=============================================================================
