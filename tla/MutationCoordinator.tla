------------------------ MODULE MutationCoordinator ------------------------
(***************************************************************************)
(* The raw-mutation coordinator of internal/eebusmutation: concurrent       *)
(* FeaturesDataSet and MutationsRollback calls, probe and recovery timers,  *)
(* Close, the write-ahead journal, and crash and restart.                   *)
(*                                                                          *)
(* Every call, and every timer callback, is a process with a control point  *)
(* "at".  Sections under coordinator.mu are one action.  A transition() is  *)
(* one action too: its journal append, and the publication that follows it  *)
(* under mu, cannot be told apart by another process, because the caller    *)
(* holds the writer lease throughout.  A remote read and the decision taken *)
(* on it are one action; a remote write and what follows it are two.        *)
(*                                                                          *)
(* The journal is abstracted to what restore() takes from it: the last      *)
(* record of every mutation, the identities its records bind, and whether   *)
(* every record so far is one that restore() accepts.  MutationJournal      *)
(* justifies the abstraction.  All mutations address one remote value.      *)
(***************************************************************************)
EXTENDS MutationResolution, FiniteSets

CONSTANTS
    Refs,           \* mutation references; one per Set idempotency key
    RollbackKeys,   \* idempotency keys of MutationsRollback
    CallIds,        \* tells concurrent calls with equal arguments apart
    SetCalls,       \* FeaturesDataSet calls: [id, key, value, mode]
    RollbackCalls,  \* MutationsRollback calls: [id, key, ref]
    MaxGeneration,  \* bound on connection generations
    Faults,         \* what the environment may do, see FaultKinds
    NoRef,          \* no mutation
    NoEntry         \* no entry / no record / no binding

FaultKinds ==
    {"crash",         \* the process dies at any point
     "journal",       \* an append fails, and its repair may fail too
     "lostReply",     \* a frame leaves and no correlated answer comes
     "noSend",        \* the executor reports that no frame left
     "reject",        \* the device answers a write with an error
     "contradiction", \* the device does not do what it answered
     "untrustedRead", \* a readback fails or cannot be trusted
     "foreignWrite",  \* somebody else changes the value
     "reconnect",     \* the connection generation changes
     "close"}         \* the coordinator is closed

ASSUME CoordinatorAssumption ==
    /\ SetCalls \subseteq [id : CallIds, key : Refs, value : Values,
                           mode : Modes]
    /\ RollbackCalls \subseteq [id : CallIds, key : RollbackKeys,
                                ref : Refs]
    /\ MaxGeneration \in Nat \ {0}
    /\ Faults \subseteq FaultKinds
    /\ NoRef \notin Refs

Timers == [kind : {"probe", "recovery"}, ref : Refs]
Processes == SetCalls \cup RollbackCalls \cup Timers

\* HMAC over epoch, principal, tool and key: injective, so the pair itself.
Identities == [tool : {"set", "rollback"}, key : Refs \cup RollbackKeys]

\* A request hash, and the mutation it is bound to.
Bindings == [ref : Refs, value : MaybeValue, mode : Modes \cup {"none"}]

setIdentity(c) == [tool |-> "set", key |-> c.key]
setBinding(c) == [ref |-> c.key, value |-> c.value, mode |-> c.mode]
rollbackIdentity(c) == [tool |-> "rollback", key |-> c.key]
rollbackBinding(c) == [ref |-> c.ref, value |-> NoValue, mode |-> "none"]

\* rawMutationEntry: the working copy, and what its next record will carry.
Entries == [mutation : Mutations, identity : Identities,
            request : Bindings]

\* A missing entry, record or binding is none of them.
ASSUME NoEntryAssumption == NoEntry \notin Entries /\ NoEntry \notin Bindings

VARIABLES
    phase,        \* "down", "running", "closed" or "refused"
    entries,      \* coordinator.entries
    idempotency,  \* coordinator.idempotency
    timers,       \* coordinator.timers that are still pending
    writer,       \* coordinator.writer
    quarantined,  \* coordinator.quarantined
    closed,       \* coordinator.closed
    call,         \* control point and locals of every process
    last,         \* journal: the last record of every mutation
    bound,        \* journal: identity -> binding, over all records
    readable,     \* journal: restore() accepts every record
    tail,         \* journal: a failed append that may still be on disk
    poisoned,     \* journal.poisoned
    device,       \* the remote value (NoValue: an empty full write)
    generation,   \* the current connection generation
    frames        \* history: forward frames handed to the transport, and
                  \* rollback frames since the last rollback_intent

journal == <<last, bound, readable, tail, poisoned>>
memory == <<entries, idempotency, timers, writer, quarantined, closed>>
remote == <<device, generation, frames>>
vars == <<phase, memory, call, journal, remote>>

NoToken == [generation |-> 0, value |-> NoValue]
Idle == [at |-> "idle", ref |-> NoRef, token |-> NoToken, result |-> "none"]

\* Control points of a process that holds the writer lease.
Leased == {"bind", "guard", "prepare", "intent", "dispatch", "written",
           "verifying", "readback", "readUnknown", "recover", "rbStart",
           "rbRead", "rbDispatch", "rbWritten", "rbVerifying",
           "rbReadback", "rbReadUnknown", "unreserve", "release"}
Points == Leased \cup {"idle", "verify", "reserve", "acquire", "retry"}

Results == {"none", "accepted", "rejected", "noReply", "notSent"}

TypeOK ==
    /\ phase \in {"down", "running", "closed", "refused"}
    /\ entries \in [Refs -> Entries \cup {NoEntry}]
    /\ idempotency \in [Identities -> Bindings \cup {NoEntry}]
    /\ timers \subseteq Timers
    /\ writer \in BOOLEAN /\ quarantined \in BOOLEAN /\ closed \in BOOLEAN
    /\ call \in [Processes ->
            [at : Points, ref : Refs \cup {NoRef},
             token : [generation : Nat, value : MaybeValue],
             result : Results]]
    /\ last \in [Refs -> Entries \cup {NoEntry}]
    /\ bound \in [Identities -> Bindings \cup {NoEntry}]
    /\ readable \in BOOLEAN /\ poisoned \in BOOLEAN
    /\ tail \in Entries \cup {NoEntry}
    /\ device \in MaybeValue
    /\ generation \in 1..MaxGeneration
    /\ frames \in [Refs -> [forward : Nat, rollback : Nat]]

-----------------------------------------------------------------------------
(* Predicates on mutations.                                                 *)

rawMutationStateNeedsRecovery(s) ==
    s \in {"dispatch_intent", "reply_observed", "verify_pending",
           "outcome_unknown", "rollback_intent",
           "rollback_dispatch_intent", "rollback_reply_observed",
           "rollback_verify_pending"}

rawMutationStateQuarantinesWrites(m) ==
    \/ m.state = "conflict"
    \/ m.state = "outcome_unknown" /\ m.rollback # NoRollback

durable(r) == last[r] # NoEntry

\* The state other processes see: that of the last published snapshot.
snapshotState(r) ==
    IF durable(r) THEN last[r].mutation.state ELSE Reserved

\* Quarantine over the published snapshots of all entries.
quarantines(records) ==
    \E r \in Refs : /\ records[r] # NoEntry
                    /\ rawMutationStateQuarantinesWrites(records[r].mutation)

working(p) == entries[call[p].ref].mutation

Goto(p, point) == call' = [call EXCEPT ![p].at = point]
Return(p) == call' = [call EXCEPT ![p] = Idle]

newEntry(c) ==
    [mutation |-> [mode |-> c.mode, generation |-> 0, before |-> NoValue,
                   requested |-> c.value, state |-> Reserved,
                   accepted |-> "nil", observed |-> NoValue,
                   applyVerified |-> NoValue, conflict |-> NoValue,
                   noContact |-> FALSE, rejection |-> NoValue,
                   noEffect |-> NoValue, outcome |-> NoOutcome,
                   rollback |-> NoRollback, error |-> "none",
                   audit |-> TRUE],
     identity |-> setIdentity(c), request |-> setBinding(c)]

-----------------------------------------------------------------------------
(* Timers.                                                                  *)

probeTimer(r) == [kind |-> "probe", ref |-> r]

\* scheduleProbeAt / scheduleRecoveryAt: a previous timer of the key stops.
scheduled(t, armed, isQuarantined) ==
    IF closed \/ isQuarantined THEN armed \ {t} ELSE armed \cup {t}

-----------------------------------------------------------------------------
(* The journal and transition().                                            *)

\* restore() refuses a record that is not a canonical document, and one
\* that binds an identity differently from an earlier record.
acceptable(record) ==
    /\ ValidateMutation(record.mutation)
    /\ bound[record.identity] \in {NoEntry, record.request}

recordOf(e, m, s) == [e EXCEPT !.mutation = Audited(m, s)]

appendDurably(r, record) ==
    /\ last' = [last EXCEPT ![r] = record]
    /\ bound' = [bound EXCEPT ![record.identity] = record.request]
    /\ readable' = (readable /\ acceptable(record))

\* transition(): append, then publish under mu.  A failed append leaves the
\* working copy with the caller's assignments and in its old state.
transition(p, outcome, onDone, onError) ==
    LET r == call[p].ref
        record == recordOf(entries[r], outcome.mutation, outcome.next)
    IN
    \/ /\ ~poisoned
       /\ appendDurably(r, record)
       /\ entries' = [entries EXCEPT ![r] = record]
       /\ idempotency' = [idempotency EXCEPT
                            ![record.identity] = record.request]
       /\ quarantined' = quarantines(last')
       /\ timers' = CASE outcome.next = "probe_active" ->
                            scheduled(probeTimer(r), timers, quarantined')
                      [] outcome.next = "rolled_back" ->
                            timers \ {probeTimer(r)}
                      [] OTHER -> timers
       /\ Goto(p, onDone)
       /\ UNCHANGED <<tail, poisoned>>
    \/ /\ poisoned \/ "journal" \in Faults
       /\ entries' = [entries EXCEPT ![r].mutation = outcome.mutation]
       /\ \/ UNCHANGED <<tail, poisoned>>
          \/ ~poisoned /\ poisoned' = TRUE /\ tail' = record
       /\ Goto(p, onError)
       /\ UNCHANGED <<last, bound, readable, idempotency, quarantined,
                      timers>>

\* A persist function: a transition, or an early return without one.
persist(p, outcome, onDone, onError) ==
    \/ /\ outcome.next # Stay
       /\ transition(p, outcome, onDone, onError)
    \/ /\ outcome.next = Stay
       /\ entries' = [entries EXCEPT
                        ![call[p].ref].mutation = outcome.mutation]
       /\ Goto(p, onError)
       /\ UNCHANGED <<idempotency, timers, quarantined, journal>>

\* What readCurrent can return: the remote value, or nothing to trust.
readCurrent ==
    {[trusted |-> TRUE, value |-> device, generation |-> generation]}
    \cup IF "untrustedRead" \in Faults \/ closed
         THEN {[trusted |-> FALSE, value |-> device, generation |-> 0]}
         ELSE {}

-----------------------------------------------------------------------------
(* Reservation: reserveSet, reserveRollback, acquireInternalWriter.         *)

\* reserveSet for a known identity; the same in both of its calls.
reserveKnown(c) ==
    LET known == idempotency[setIdentity(c)]
        r == known.ref
    IN
    /\ known # NoEntry
    /\ \/ /\ \/ closed \/ quarantined           \* disconnected / conflict
             \/ known # setBinding(c)           \* idempotency conflict
             \/ writer                          \* in flight: snapshot
             \/ ~rawMutationStateNeedsRecovery(snapshotState(r))  \* replay
          /\ Return(c)
          /\ UNCHANGED writer
       \/ /\ ~closed /\ ~quarantined /\ ~writer
          /\ known = setBinding(c)
          /\ rawMutationStateNeedsRecovery(snapshotState(r))
          /\ writer' = TRUE
          /\ call' = [call EXCEPT ![c] = [Idle EXCEPT !.at = "recover",
                                                      !.ref = r]]
    /\ UNCHANGED <<entries, idempotency, timers, quarantined, closed>>

\* FeaturesDataSet up to the first reserveSet.
BeginSet(c) ==
    /\ phase = "running"
    /\ call[c] = Idle
    /\ \/ reserveKnown(c)
       \/ /\ idempotency[setIdentity(c)] = NoEntry
          /\ ~closed /\ ~quarantined
          /\ Goto(c, "verify")
          /\ UNCHANGED memory
    /\ UNCHANGED <<phase, journal, remote>>

\* verifyRawMutationReadToken: any token the issuer may have handed out for
\* this value, under this generation or an earlier one; or none at all.
VerifyReadToken(c) ==
    /\ call[c].at = "verify"
    /\ \/ \E g \in 1..generation, v \in Values :
            call' = [call EXCEPT ![c].at = "reserve",
                                 ![c].token = [generation |-> g,
                                               value |-> v]]
       \/ Return(c)
    /\ UNCHANGED <<phase, memory, journal, remote>>

\* Faulty variant of ReserveSet: the quarantine that came while the token was
\* verified is not seen.
ReserveSetQuarantined(c) ==
    /\ call[c].at = "reserve"
    /\ idempotency[setIdentity(c)] = NoEntry /\ ~closed /\ ~writer
    /\ writer' = TRUE
    /\ entries' = [entries EXCEPT ![c.key] = newEntry(c)]
    /\ idempotency' = [idempotency EXCEPT ![setIdentity(c)] = setBinding(c)]
    /\ call' = [call EXCEPT ![c].at = "bind", ![c].ref = c.key]
    /\ UNCHANGED <<phase, timers, quarantined, closed, journal, remote>>

\* The second reserveSet, which may open a new reservation.
ReserveSet(c) ==
    /\ call[c].at = "reserve"
    /\ \/ reserveKnown(c)
       \/ /\ idempotency[setIdentity(c)] = NoEntry
          /\ closed \/ quarantined \/ writer    \* refused, or writer busy
          /\ Return(c)
          /\ UNCHANGED memory
       \/ /\ idempotency[setIdentity(c)] = NoEntry
          /\ ~closed /\ ~quarantined /\ ~writer
          /\ writer' = TRUE
          /\ entries' = [entries EXCEPT ![c.key] = newEntry(c)]
          /\ idempotency' = [idempotency EXCEPT
                                ![setIdentity(c)] = setBinding(c)]
          /\ call' = [call EXCEPT ![c].at = "bind", ![c].ref = c.key]
          /\ UNCHANGED <<timers, quarantined, closed>>
    /\ UNCHANGED <<phase, journal, remote>>

\* reserveRollback, cancelProbe, and the choice between recovery and a new
\* rollback.  A call that takes the lease stamps the entry with its own
\* identity before anything is durable.
BeginRollback(c) ==
    LET id == rollbackIdentity(c)
        known == idempotency[id]
        recovering == rawMutationStateNeedsRecovery(snapshotState(c.ref))
        take(stamped) ==
            /\ writer' = TRUE
            /\ entries' = stamped
            /\ timers' = timers \ {probeTimer(c.ref)}
            /\ call' = [call EXCEPT ![c] =
                    [Idle EXCEPT !.at = IF recovering THEN "recover"
                                                      ELSE "rbStart",
                                 !.ref = c.ref]]
            /\ UNCHANGED <<idempotency, quarantined, closed>>
    IN
    /\ phase = "running"
    /\ call[c] = Idle
    /\ ~closed /\ ~quarantined /\ ~writer   \* every other case only replies
    /\ \/ /\ known = rollbackBinding(c)
          /\ recovering
          /\ take(entries)
       \/ /\ known = NoEntry
          /\ entries[c.ref] # NoEntry
          /\ take([entries EXCEPT ![c.ref].identity = id,
                                  ![c.ref].request = rollbackBinding(c)])
    /\ UNCHANGED <<phase, journal, remote>>

-----------------------------------------------------------------------------
(* FeaturesDataSet under the writer lease.                                  *)

\* Lab profile, current binding, and consumption of the read token.
BindRuntime(c) ==
    /\ call[c].at = "bind"
    /\ \/ call[c].token.generation = generation /\ Goto(c, "guard")
       \/ Goto(c, "unreserve")          \* profile, binding or token refused
    /\ UNCHANGED <<phase, memory, journal, remote>>

\* The guard read, the compare-and-swap guard, and the policy.  A read that
\* fails in the executor is recorded; any other refusal leaves no trace.
GuardRead(c) ==
    LET r == c.key
        prepared(before) ==
            [newEntry(c).mutation EXCEPT
                !.generation = call[c].token.generation, !.before = before]
    IN
    /\ call[c].at = "guard"
    /\ \/ /\ call[c].token = [generation |-> generation, value |-> device]
          /\ entries' = [entries EXCEPT ![r] =
                [newEntry(c) EXCEPT !.mutation = prepared(device)]]
          /\ call' = [call EXCEPT ![c].at = "prepare",
                                  ![c].token = NoToken]
          /\ UNCHANGED <<idempotency, timers, quarantined, journal>>
       \/ /\ Goto(c, "unreserve")
          /\ UNCHANGED <<entries, idempotency, timers, quarantined,
                         journal>>
       \/ /\ call[c].token.generation # generation
             \/ "untrustedRead" \in Faults \/ closed
          /\ transition(c, failedNoContact(prepared(NoValue)),
                        "unreserve", "unreserve")
    /\ UNCHANGED <<phase, writer, closed, remote>>

Prepare(c) ==
    /\ call[c].at = "prepare"
    /\ transition(c, Outcome(working(c), "prepared"), "intent", "unreserve")
    /\ UNCHANGED <<phase, writer, closed, remote>>

\* Faulty variant of DispatchIntent: an append error is ignored.
DispatchIntentUnchecked(c) ==
    /\ call[c].at = "intent"
    /\ transition(c, Outcome(working(c), "dispatch_intent"),
                  "dispatch", "dispatch")
    /\ UNCHANGED <<phase, writer, closed, remote>>

DispatchIntent(c) ==
    /\ call[c].at = "intent"
    /\ transition(c, Outcome(working(c), "dispatch_intent"),
                  "dispatch", "unreserve")
    /\ UNCHANGED <<phase, writer, closed, remote>>

\* What FullWriteIfCurrent(value) under generation g may do to the device,
\* and what it reports.  "notSent" covers an expired lab profile as well.
fullWrite(p, value, g, after) ==
    \/ /\ g # generation \/ "noSend" \in Faults \/ closed
       /\ call' = [call EXCEPT ![p].at = after, ![p].result = "notSent"]
       /\ UNCHANGED device
    \/ /\ g = generation
       /\ \E res \in {"accepted", "rejected", "noReply"} :
            /\ res = "rejected" => "reject" \in Faults
            /\ res = "noReply" => "lostReply" \in Faults \/ closed
            /\ call' = [call EXCEPT ![p].at = after, ![p].result = res]
            /\ \/ res # "rejected" /\ device' = value
               \/ res # "accepted" /\ UNCHANGED device
               \/ "contradiction" \in Faults /\ device' \in {device, value}

Dispatch(c) ==
    LET m == working(c) IN
    /\ call[c].at = "dispatch"
    /\ fullWrite(c, m.requested, m.generation, "written")
    /\ frames' = IF call'[c].result = "notSent" THEN frames
                 ELSE [frames EXCEPT ![c.key].forward = @ + 1]
    /\ UNCHANGED <<phase, memory, journal, generation>>

\* A faulty variant of CompleteOriginalWrite: a frame that got no answer is
\* sent again.
CompleteRetriesBlindly(c) ==
    LET m == working(c)
        res == call[c].result
        accepted == IF res = "accepted" THEN "yes" ELSE "no"
    IN
    /\ call[c].at = "written"
    /\ \/ /\ res \in {"accepted", "rejected"}
          /\ transition(c, Outcome([m EXCEPT !.accepted = accepted],
                                   "reply_observed"),
                        "verifying", "unreserve")
       \/ /\ res \in {"noReply", "notSent"}
          /\ Goto(c, "dispatch")
          /\ UNCHANGED <<memory, journal>>
    /\ UNCHANGED <<phase, writer, closed, remote>>

\* completeOriginalWrite up to its first transition.
CompleteOriginalWrite(c) ==
    LET m == working(c)
        res == call[c].result
        accepted == IF res = "accepted" THEN "yes" ELSE "no"
    IN
    /\ call[c].at = "written"
    /\ \/ /\ res \in {"accepted", "rejected"}
          /\ transition(c, Outcome([m EXCEPT !.accepted = accepted],
                                   "reply_observed"),
                        "verifying", "unreserve")
       \/ /\ res = "noReply"
          /\ transition(c, possibleSend(m), "readUnknown", "unreserve")
       \/ /\ res = "notSent"
          /\ transition(c, failedNoContact(m), "unreserve", "unreserve")
    /\ UNCHANGED <<phase, writer, closed, remote>>

VerifyPending(c) ==
    /\ call[c].at = "verifying"
    /\ transition(c, Outcome(working(c), "verify_pending"),
                  "readback", "unreserve")
    /\ UNCHANGED <<phase, writer, closed, remote>>

\* Readback after a correlated answer.
CorrelatedReadback(c) ==
    /\ call[c].at = "readback"
    /\ \E rd \in readCurrent :
         persist(c, resolveCorrelatedReadback(working(c), rd),
                 "unreserve", "unreserve")
    /\ UNCHANGED <<phase, writer, closed, remote>>

\* Readback after a frame without an answer, in a Set or in a recovery.
PossibleSendReadback(p) ==
    /\ call[p].at = "readUnknown"
    /\ \E rd \in readCurrent :
         persist(p, resolvePossibleSendReadback(working(p), rd),
                 "unreserve", "unreserve")
    /\ UNCHANGED <<phase, writer, closed, remote>>

\* A faulty variant of ReleaseReservation: the identity stays bound to an
\* entry that is gone.
ReleaseKeepsIdentity(p) ==
    LET r == call[p].ref IN
    /\ call[p].at = "unreserve"
    /\ entries' = IF durable(r) THEN entries
                  ELSE [entries EXCEPT ![r] = NoEntry]
    /\ Goto(p, "release")
    /\ UNCHANGED <<phase, idempotency, timers, writer, quarantined, closed,
                   journal, remote>>

\* releaseUndurableReservation: a no-op once the entry is durable.
ReleaseReservation(p) ==
    LET r == call[p].ref
        id == entries[r].identity
    IN
    /\ call[p].at = "unreserve"
    /\ IF entries[r] = NoEntry \/ durable(r)
       THEN UNCHANGED <<entries, idempotency>>
       ELSE /\ entries' = [entries EXCEPT ![r] = NoEntry]
            /\ idempotency' =
                 IF idempotency[id] # NoEntry /\ idempotency[id].ref = r
                 THEN [idempotency EXCEPT ![id] = NoEntry]
                 ELSE idempotency
    /\ Goto(p, "release")
    /\ UNCHANGED <<phase, timers, writer, quarantined, closed, journal,
                   remote>>

\* Faulty variant of ReleaseWriter: the flag is not cleared.
ReleaseForgotten(p) ==
    /\ call[p].at = "release"
    /\ Return(p)
    /\ UNCHANGED <<phase, memory, journal, remote>>

ReleaseWriter(p) ==
    /\ call[p].at = "release"
    /\ writer' = FALSE
    /\ Return(p)
    /\ UNCHANGED <<phase, entries, idempotency, timers, quarantined, closed,
                   journal, remote>>

-----------------------------------------------------------------------------
(* Recovery and rollback, for calls and timer callbacks alike.              *)

\* recoverEntry: what the state calls for.
RecoverEntry(p) ==
    LET m == working(p)
        uncertainRollback == m.outcome.last = "rollback_dispatch_intent"
    IN
    /\ call[p].at = "recover"
    /\ \/ /\ m.state = "dispatch_intent"
          /\ transition(p, possibleSend(m), "readUnknown", "release")
       \/ /\ m.state = "rollback_intent"
          /\ Goto(p, "rbRead")
          /\ UNCHANGED <<entries, idempotency, timers, quarantined, journal>>
       \/ \E rd \in readCurrent :
            \/ /\ m.state = "outcome_unknown" /\ ~uncertainRollback
               /\ persist(p, resolvePossibleSendReadback(m, rd),
                          "release", "release")
            \/ /\ \/ m.state = "outcome_unknown" /\ uncertainRollback
                  \/ m.state = "rollback_dispatch_intent"
               /\ persist(p, resolveUncertainRollbackReadback(m, rd),
                          "release", "release")
            \/ /\ m.state \in {"reply_observed", "verify_pending"}
               /\ persist(p, resolveCorrelatedReadback(m, rd),
                          "release", "release")
            \/ /\ m.state \in {"rollback_reply_observed",
                               "rollback_verify_pending"}
               /\ persist(p, recoverRollbackReply(m, rd),
                          "release", "release")
    /\ UNCHANGED <<phase, writer, closed, remote>>

StartRollback(p) ==
    LET r == call[p].ref IN
    /\ call[p].at = "rbStart"
    /\ transition(p, startRollback(working(p)), "rbRead", "release")
    /\ frames' = IF call'[p].at = "rbRead"
                 THEN [frames EXCEPT ![r].rollback = 0] ELSE frames
    /\ UNCHANGED <<phase, writer, closed, device, generation>>

\* continueRollbackFromIntent up to the frame.
RollbackRead(p) ==
    /\ call[p].at = "rbRead"
    /\ \E rd \in readCurrent :
         LET outcome == continueRollbackFromIntent(working(p), rd) IN
         persist(p, outcome,
                 IF outcome.next = "rollback_dispatch_intent"
                 THEN "rbDispatch" ELSE "release",
                 "release")
    /\ UNCHANGED <<phase, writer, closed, remote>>

RollbackDispatch(p) ==
    LET m == working(p)
        r == call[p].ref
    IN
    /\ call[p].at = "rbDispatch"
    /\ fullWrite(p, m.before, m.generation, "rbWritten")
    /\ frames' = IF call'[p].result = "notSent" THEN frames
                 ELSE [frames EXCEPT ![r].rollback = @ + 1]
    /\ UNCHANGED <<phase, memory, journal, generation>>

\* completeRollbackWrite up to its first transition.
CompleteRollbackWrite(p) ==
    LET m == working(p)
        res == call[p].result
        accepted == IF res = "accepted" THEN "yes" ELSE "no"
    IN
    /\ call[p].at = "rbWritten"
    /\ \/ /\ res \in {"accepted", "rejected"}
          /\ transition(p,
                rollbackStep([m EXCEPT !.rollback.accepted = accepted],
                             "rollback_reply_observed"),
                "rbVerifying", "release")
       \/ /\ res = "noReply"
          /\ transition(p, possibleRollbackSend(m), "rbReadUnknown",
                        "release")
       \/ /\ res = "notSent"
          /\ persist(p, persistRollbackUnknown(m), "release", "release")
    /\ UNCHANGED <<phase, writer, closed, remote>>

RollbackVerifyPending(p) ==
    /\ call[p].at = "rbVerifying"
    /\ transition(p, rollbackStep(working(p), "rollback_verify_pending"),
                  "rbReadback", "release")
    /\ UNCHANGED <<phase, writer, closed, remote>>

RollbackReadback(p) ==
    /\ call[p].at = "rbReadback"
    /\ \E rd \in readCurrent :
         persist(p, resolveRollbackReply(working(p), rd),
                 "release", "release")
    /\ UNCHANGED <<phase, writer, closed, remote>>

UncertainRollbackReadback(p) ==
    /\ call[p].at = "rbReadUnknown"
    /\ \E rd \in readCurrent :
         persist(p, resolveUncertainRollbackReadback(working(p), rd),
                 "release", "release")
    /\ UNCHANGED <<phase, writer, closed, remote>>

-----------------------------------------------------------------------------
(* Timer callbacks.                                                         *)

eligible(t) ==
    IF t.kind = "probe"
    THEN snapshotState(t.ref) = "probe_active"
    ELSE /\ entries[t.ref] # NoEntry
         /\ rawMutationStateNeedsRecovery(snapshotState(t.ref))

Fire(t) ==
    /\ t \in timers
    /\ call[t] = Idle
    /\ timers' = timers \ {t}
    /\ Goto(t, "acquire")
    /\ UNCHANGED <<phase, entries, idempotency, writer, quarantined, closed,
                   journal, remote>>

\* What a callback that has the lease goes on with.
afterAcquire(t) ==
    CASE ~eligible(t) -> "release"
      [] eligible(t) /\ t.kind = "probe" -> "rbStart"
      [] OTHER -> "recover"

\* Faulty variant of AcquireWriter: it does not look at the lease.
AcquireAnyway(t) ==
    /\ call[t].at = "acquire" /\ ~closed /\ ~quarantined
    /\ writer' = TRUE
    /\ call' = [call EXCEPT ![t].ref = t.ref, ![t].at = afterAcquire(t)]
    /\ UNCHANGED <<phase, entries, idempotency, timers, quarantined, closed,
                   journal, remote>>

\* acquireInternalWriter, and on success the eligibility check under mu.
AcquireWriter(t) ==
    /\ call[t].at = "acquire"
    /\ \/ /\ ~closed /\ ~quarantined /\ ~writer
          /\ writer' = TRUE
          /\ call' = [call EXCEPT ![t].ref = t.ref,
                                  ![t].at = afterAcquire(t)]
       \/ /\ closed \/ quarantined
          /\ Goto(t, "retry")
          /\ UNCHANGED writer
    /\ UNCHANGED <<phase, entries, idempotency, timers, quarantined, closed,
                   journal, remote>>

\* The writer was not released before the recovery deadline.
AcquireTimeout(t) ==
    /\ call[t].at = "acquire"
    /\ writer
    /\ Goto(t, "retry")
    /\ UNCHANGED <<phase, memory, journal, remote>>

\* Faulty variant of Reschedule: a failed callback gives up.
RescheduleNever(t) ==
    /\ call[t].at = "retry"
    /\ Return(t)
    /\ UNCHANGED <<phase, memory, journal, remote>>

\* The failed callback reschedules itself, or gives the timer up.
Reschedule(t) ==
    /\ call[t].at = "retry"
    /\ timers' = IF ~closed /\ ~quarantined /\ eligible(t)
                 THEN timers \cup {t} ELSE timers
    /\ Return(t)
    /\ UNCHANGED <<phase, entries, idempotency, writer, quarantined, closed,
                   journal, remote>>

-----------------------------------------------------------------------------
(* Life cycle.                                                              *)

\* newRawMutationCoordinator over an existing journal: restore,
\* rearmProbeTimers, rearmRecovery.
Open ==
    /\ phase = "down"
    /\ IF readable
       THEN /\ phase' = "running"
            /\ entries' = last
            /\ idempotency' = bound
            /\ quarantined' = quarantines(last)
            /\ timers' = IF quarantines(last) THEN {} ELSE
                 {t \in Timers :
                    /\ durable(t.ref)
                    /\ IF t.kind = "probe"
                       THEN snapshotState(t.ref) = "probe_active"
                       ELSE rawMutationStateNeedsRecovery(
                                snapshotState(t.ref))}
       ELSE /\ phase' = "refused"
            /\ UNCHANGED <<entries, idempotency, quarantined, timers>>
    /\ UNCHANGED <<writer, closed, call, journal, remote>>

\* Close under mu: no new work, timers stopped, remote work cancelled.
BeginClose ==
    /\ "close" \in Faults
    /\ phase = "running" /\ ~closed
    /\ closed' = TRUE
    /\ timers' = {}
    /\ UNCHANGED <<phase, entries, idempotency, writer, quarantined, call,
                   journal, remote>>

\* Faulty variant of FinishClose: it does not wait for the writer.
FinishCloseEarly ==
    /\ phase = "running" /\ closed
    /\ phase' = "closed"
    /\ UNCHANGED <<memory, call, journal, remote>>

\* Close after writerDone: the journal file is closed.
FinishClose ==
    /\ phase = "running" /\ closed /\ ~writer
    /\ phase' = "closed"
    /\ UNCHANGED <<memory, call, journal, remote>>

\* Memory of a process that starts afresh; a failed append whose repair
\* failed as well may be found in the file, or not.
forget ==
    /\ phase' = "down"
    /\ entries' = [r \in Refs |-> NoEntry]
    /\ idempotency' = [i \in Identities |-> NoEntry]
    /\ timers' = {} /\ writer' = FALSE
    /\ quarantined' = FALSE /\ closed' = FALSE
    /\ call' = [p \in Processes |-> Idle]
    /\ poisoned' = FALSE /\ tail' = NoEntry
    /\ \/ UNCHANGED <<last, bound, readable, frames>>
       \/ /\ tail # NoEntry
          /\ appendDurably(tail.request.ref, tail)
          /\ frames' = IF tail.mutation.state = "rollback_intent"
                       THEN [frames EXCEPT ![tail.request.ref].rollback = 0]
                       ELSE frames

Crash ==
    /\ "crash" \in Faults
    /\ phase \in {"running", "closed"}
    /\ forget
    /\ UNCHANGED <<device, generation>>

\* A closed coordinator is replaced by a new one.
Reopen ==
    /\ phase = "closed"
    /\ forget
    /\ UNCHANGED <<device, generation>>

-----------------------------------------------------------------------------
(* Environment.                                                             *)

ForeignWrite ==
    /\ "foreignWrite" \in Faults
    /\ \E v \in Values : device' = v
    /\ UNCHANGED <<phase, memory, call, journal, generation, frames>>

Reconnect ==
    /\ "reconnect" \in Faults
    /\ generation < MaxGeneration
    /\ generation' = generation + 1
    /\ UNCHANGED <<phase, memory, call, journal, device, frames>>

-----------------------------------------------------------------------------
Init ==
    /\ phase = "down"
    /\ entries = [r \in Refs |-> NoEntry]
    /\ idempotency = [i \in Identities |-> NoEntry]
    /\ timers = {}
    /\ writer = FALSE /\ quarantined = FALSE /\ closed = FALSE
    /\ call = [p \in Processes |-> Idle]
    /\ last = [r \in Refs |-> NoEntry]
    /\ bound = [i \in Identities |-> NoEntry]
    /\ readable = TRUE /\ poisoned = FALSE
    /\ tail = NoEntry
    /\ device \in Values
    /\ generation = 1
    /\ frames = [r \in Refs |-> [forward |-> 0, rollback |-> 0]]

SetStep(c) ==
    \/ BeginSet(c) \/ VerifyReadToken(c) \/ ReserveSet(c)
    \/ BindRuntime(c) \/ GuardRead(c) \/ Prepare(c) \/ DispatchIntent(c)
    \/ Dispatch(c) \/ CompleteOriginalWrite(c) \/ VerifyPending(c)
    \/ CorrelatedReadback(c)

\* Steps that a Set call, a Rollback call and a timer callback share.
LeasedStep(p) ==
    \/ RecoverEntry(p) \/ PossibleSendReadback(p)
    \/ StartRollback(p) \/ RollbackRead(p) \/ RollbackDispatch(p)
    \/ CompleteRollbackWrite(p) \/ RollbackVerifyPending(p)
    \/ RollbackReadback(p) \/ UncertainRollbackReadback(p)
    \/ ReleaseReservation(p) \/ ReleaseWriter(p)

TimerStep(t) == Fire(t) \/ AcquireWriter(t) \/ AcquireTimeout(t)
                \/ Reschedule(t)

Environment == Crash \/ ForeignWrite \/ Reconnect \/ BeginClose

Next ==
    \/ \E c \in SetCalls : SetStep(c)
    \/ \E c \in RollbackCalls : BeginRollback(c)
    \/ \E p \in Processes : LeasedStep(p)
    \/ \E t \in Timers : TimerStep(t)
    \/ Open \/ FinishClose \/ Reopen
    \/ Environment

Spec == Init /\ [][Next]_vars

\* Go runs every started call and callback to its end; nobody is obliged to
\* call Set or Rollback, and the environment owes nothing.
Fairness ==
    /\ \A c \in SetCalls : WF_vars(SetStep(c) /\ call[c] # Idle)
    /\ \A p \in Processes : WF_vars(LeasedStep(p))
    /\ \A t \in Timers : WF_vars(TimerStep(t))
    /\ WF_vars(Open)

FairSpec == Spec /\ Fairness

-----------------------------------------------------------------------------
(* Properties.                                                              *)

leased(p) == call[p].at \in Leased

\* The writer lease: at most one call or callback works on the device and
\* the journal at a time, and coordinator.writer says whether one does
\* (reserveSet, reserveRollback, acquireInternalWriter, releaseWriter).
WriterExclusive ==
    /\ \A p, q \in Processes : leased(p) /\ leased(q) => p = q
    /\ writer <=> \E p \in Processes : leased(p)

\* A reservation without a durable record belongs to the Set call that holds
\* the lease, so it is gone before anybody else can take the lease, and an
\* identity is never bound to a mutation that does not exist
\* (releaseUndurableReservation runs before releaseWriter).
ReservationOwned ==
    /\ \A r \in Refs : entries[r] # NoEntry /\ ~durable(r) =>
         \E c \in SetCalls :
            call[c].ref = r /\ call[c].at \in {"bind", "guard", "prepare",
                                              "unreserve"}
    /\ \A i \in Identities : idempotency[i] # NoEntry =>
         entries[idempotency[i].ref] # NoEntry

\* No blind retry: over any number of retries, timers, crashes and restarts
\* a mutation puts its forward frame on the wire at most once, and each
\* rollback_intent leads to at most one rollback frame.
AtMostOneFrame ==
    \A r \in Refs : frames[r].forward <= 1 /\ frames[r].rollback <= 1

forwardSent(r) == frames'[r].forward > frames[r].forward
rollbackSent(r) == frames'[r].rollback > frames[r].rollback

\* A frame leaves only while the last durable record of its mutation is the
\* matching dispatch intent (transition() before FullWriteIfCurrent).
WriteAhead ==
    [][\A r \in Refs :
        /\ forwardSent(r) =>
             durable(r) /\ last[r].mutation.state = "dispatch_intent"
        /\ rollbackSent(r) =>
             /\ durable(r)
             /\ last[r].mutation.state = "rollback_dispatch_intent"]_vars

\* What a durable record says about remote contact is true: prepared and
\* failed_no_contact mean that no frame left, a recorded answer that one
\* did, and a rollback failure without possible side effect that no
\* rollback frame left.
ContactEvidenceTrue ==
    \A r \in Refs : durable(r) =>
        LET m == last[r].mutation IN
        /\ m.state \in {"prepared", "failed_no_contact"} =>
             frames[r].forward = 0
        /\ m.accepted # "nil" => frames[r].forward = 1
        /\ m.state = "outcome_unknown" /\ ~m.outcome.possible =>
             frames[r].rollback = 0

\* While a conflict or an unverified rollback is durable, no write frame of
\* any mutation leaves, also after a restart (quarantined).
QuarantineStopsWrites ==
    [][(\E r \in Refs : forwardSent(r) \/ rollbackSent(r)) =>
        ~quarantines(last)]_vars

\* The journal file is closed only after the last writer has returned.
CloseDrains == phase = "closed" => \A p \in Processes : ~leased(p)

\* The transitions from document o to document n that write a record which
\* ValidateMutationV1 refuses.
rollbackOfUnapplied(o, n) ==
    n.state = "rollback_intent" /\ o.state \notin {"applied", "probe_active"}
verdictWithoutVerifyPending(o, n) ==
    /\ o.state = "reply_observed"
    /\ n.state \in {"applied", "probe_active", "rejected", "conflict"}
correlatedUnknownResolved(o, n) ==
    /\ o.state = "outcome_unknown" /\ o.outcome.last = "reply_observed"
    /\ n.state \in {"applied", "probe_active", "no_effect", "conflict"}
conflictKeepsOutcome(o, n) ==
    n.state = "conflict" /\ n.accepted = "yes" /\ n.outcome # NoOutcome
rollbackContradiction(o, n) ==
    /\ n.state = "outcome_unknown" /\ n.rollback # NoRollback
    /\ n.error = "outcome_unknown"

\* As long as appends do not fail, a record that restore() refuses is written
\* in these five situations only: a rollback of a mutation that is not
\* applied, a verdict straight from reply_observed, a correlated unknown
\* outcome resolved by a later readback, a conflict found after an uncertain
\* rollback, and a recovered rollback answer that the readback contradicts.
RefusedRecordsKnown ==
    [][readable /\ ~readable' =>
        \E r \in Refs :
            /\ durable(r) /\ last'[r] # last[r]
            /\ LET o == last[r].mutation  n == last'[r].mutation IN
               \/ rollbackOfUnapplied(o, n)
               \/ verdictWithoutVerifyPending(o, n)
               \/ correlatedUnknownResolved(o, n)
               \/ conflictKeepsOutcome(o, n)
               \/ rollbackContradiction(o, n)]_vars

\* Whoever takes the writer lease gives it back.
LeaseReturned == writer ~> ~writer

\* An active probe does not stay active: its timer starts the rollback, also
\* after a restart, unless writes are quarantined for good, the coordinator
\* is closed, its journal cannot be opened or it crashes over and over
\* (scheduleProbe, rearmProbeTimers, the probe callback).
ProbeExpires ==
    \A r \in Refs :
        (phase = "running" /\ snapshotState(r) = "probe_active") ~>
            \/ snapshotState(r) # "probe_active"
            \/ closed \/ phase = "refused"
            \/ []quarantined \/ []<>(phase = "down")

=============================================================================
