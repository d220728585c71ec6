--------------------------- MODULE ControlRecovery ---------------------------
(***************************************************************************)
(* How the first-trust coordinator changes the control document.  Two      *)
(* files hold the truth: the protected store, and the ANCHOR file of the   *)
(* host witness, which remembers the newest generation and the publication *)
(* under way.  publishFirstTrustControl stages the publication in the      *)
(* anchor, commits it to the store, and finalizes or clears the anchor; a  *)
(* publication whose outcome is unknown stays pending until an operator    *)
(* reconciles it or the process starts again.                              *)
(*                                                                         *)
(* A step is one critical section: of the coordinator's mutex, of the      *)
(* bridge's, or of the provider's.  A call is one operation, used once.    *)
(***************************************************************************)
EXTENDS Naturals

CONSTANTS
    Calls,          \* the operations that may be started
    Kinds,          \* which of AllKinds they may be
    Faults,         \* which of AllFaults may happen
    MaxRestarts,    \* bound on crashes
    None

\* The callers of publishFirstTrustControl.  "retry" stands for admitRetry,
\* recordRetryFailure and checkpointRetry; "attempt" for every publication of
\* an outgoing attempt but its first, which is "attempt_prepare"; "repair" for
\* release_retry_quarantine.  The last two belong to the start.
AllKinds == {"confirm", "revoke", "repair", "reconcile", "retry",
             "attempt_prepare", "attempt", "release", "charge"}

\* prepare: a context that has ended, a document that cannot be encoded, a full
\* table of receipts or no random number;
\* store: a commit that fails before anything is published; unclear: one that
\* reports neither outcome; rootSync: the fsync after the manifest's rename
\* fails; late: the commit outlasts its context; anchorWrite: the ANCHOR file is
\* not replaced or the context has ended; anchorSync: its directory is not
\* synced.
AllFaults == {"prepare", "store", "unclear", "rootSync", "late",
              "anchorWrite", "anchorSync"}

ASSUME ControlAssumption ==
    /\ Kinds \subseteq AllKinds
    /\ Faults \subseteq AllFaults
    /\ MaxRestarts \in Nat

\* A publication is named by its call and, for the receipts that revocations
\* and reconciliations write at the end, by its part.
Identity == Calls \X {1, 2}

\* The association with a tombstone, before and after its receipt is final.
Tombstoned == {"revoking", "revoked"}

\* A generation of the store.  Sequence, manifest epoch and control epoch
\* grow together; the digests make generations with different content differ.
Generation == [number : Nat, by : SUBSET Identity,
               association : {"none", "trusted", "revoking", "revoked"}]

\* firstTrustPendingPublication
Pending == [id : Identity, class : AllKinds, previous : Generation,
            target : Generation]

\* firstTrustAnchorRecord
Anchor == [highWater : Nat, pending : Pending \cup {None}]

Recoveries == {"PAIRED_TRUSTED", "UNPAIRED_LOCKED", "REVOKED", "QUARANTINED"}
Outcomes == {"prepare_failed", "unchanged", "unknown", "durable"}
Results == {"commit_durable", "commit_not_published", "other"}
Places == {"idle", "revoke", "prepare", "stage", "commit", "finalize",
           "clear", "finish", "withdraw", "reconcile", "observe", "receipt",
           "resolved", "ended"}

\* What is not there is none of the values it stands beside.
ASSUME AbsentAssumption ==
    None \notin Calls \cup AllKinds \cup Outcomes \cup Results \cup Pending

VARIABLES
    disk,       \* the store's selected generation: visible, and durable
    witness,    \* the ANCHOR file: visible, and durable
    handle,     \* bridge.opened
    provider,   \* provider.anchor
    view,       \* coordinator.controlView
    anchor,     \* coordinator.anchorRecord
    operation,  \* coordinator.recoveryOperation
    mutex,      \* the call that publishes with the mutex held
    state,      \* the process, coordinator.recovery and trustedRemotes
    call,       \* the calls' local state
    told,       \* the publications that were answered, and how
    restarts

files == <<disk, witness>>
memory == <<view, anchor, operation, state>>
vars == <<disk, witness, handle, provider, view, anchor, operation, mutex,
          state, call, told, restarts>>

\* The locals of a call; job is the goroutine that runs CommitControl.
Locals == [at : Places, kind : AllKinds \cup {None}, part : {1, 2},
           working : Generation, selected : Generation, anchor : Anchor,
           pending : Pending \cup {None}, before : Recoveries,
           outcome : Outcomes \cup {None},
           job : {"none", "queued", "expired"}, result : Results \cup {None}]

TypeOK ==
    /\ disk \in [seen : Generation, safe : Generation]
    /\ witness \in [seen : Anchor, safe : Anchor]
    /\ handle \in [gen : Generation, poisoned : BOOLEAN] \cup {None}
    /\ provider \in Anchor
    /\ view \in Generation
    /\ anchor \in Anchor
    /\ operation \in Calls \cup {None}
    /\ mutex \in Calls \cup {None}
    /\ state \in [run : {"up", "starting", "down"},
                  recovery : Recoveries, trusted : BOOLEAN]
    /\ call \in [Calls -> Locals]
    /\ told \in [applied : SUBSET Identity, refused : SUBSET Identity]
    /\ restarts \in 0..MaxRestarts

-----------------------------------------------------------------------------
\* The store and the anchor as they are after a start.
first(association) == [number |-> 1, by |-> {}, association |-> association]
settled(number) == [highWater |-> number, pending |-> None]

unused == [at |-> "idle", kind |-> None, part |-> 1, working |-> first("none"),
           selected |-> first("none"), anchor |-> settled(1),
           pending |-> None, before |-> "QUARANTINED", outcome |-> None,
           job |-> "none", result |-> None]

\* classifyFirstTrustStartupLocked: what it may answer for this view and this
\* anchor.  Retry holds and attempts that cannot be charged quarantine too.
classify(v, a) ==
    IF a.pending # None \/ v.number # a.highWater THEN {"QUARANTINED"}
    ELSE IF v.association \in Tombstoned THEN {"REVOKED", "QUARANTINED"}
    ELSE IF v.association = "trusted" THEN {"PAIRED_TRUSTED", "QUARANTINED"}
    ELSE {"UNPAIRED_LOCKED", "QUARANTINED"}

Init ==
    \E association \in {"none", "trusted"} :
      LET g == first(association) IN
      /\ disk = [seen |-> g, safe |-> g]
      /\ witness = [seen |-> settled(1), safe |-> settled(1)]
      /\ handle = [gen |-> g, poisoned |-> FALSE]
      /\ provider = settled(1)
      /\ view = g /\ anchor = settled(1)
      /\ operation = None /\ mutex = None
      /\ \E r \in classify(g, settled(1)) :
           state = [run |-> "up", recovery |-> r,
                    trusted |-> r = "PAIRED_TRUSTED"]
      /\ call = [t \in Calls |-> unused]
      /\ told = [applied |-> {}, refused |-> {}]
      /\ restarts = 0

-----------------------------------------------------------------------------
(* The host witness.                                                       *)

\* compareAndStoreAnchor: the file is replaced if it still holds what the
\* provider remembers.
stored(a) ==
    /\ witness.seen = provider
    /\ witness' = [seen |-> a, safe |-> a]
    /\ provider' = a

\* It is refused, or fails: before the rename, or after it.
notStored(a) ==
    /\ \/ /\ witness.seen # provider \/ "anchorWrite" \in Faults
          /\ UNCHANGED witness
       \/ /\ witness.seen = provider /\ "anchorSync" \in Faults
          /\ witness' = [witness EXCEPT !.seen = a]
    /\ UNCHANGED provider

-----------------------------------------------------------------------------
(* publishFirstTrustControl.                                               *)

\* firstTrustAssociationRecord and tombstones, as the target has them.
associationAfter(kind, part, association) ==
    IF kind = "confirm" THEN "trusted"
    ELSE IF kind = "revoke" /\ part = 1 THEN "revoking"
    ELSE IF kind = "revoke" /\ association = "revoking" THEN "revoked"
    ELSE association

\* What PrepareControl makes of the working view.
publication(t, c) ==
    [id |-> <<t, c.part>>, class |-> c.kind, previous |-> c.working,
     target |-> [number |-> c.working.number + 1,
                 by |-> c.working.by \cup {<<t, c.part>>},
                 association |->
                     associationAfter(c.kind, c.part, c.working.association)]]

ends(t, outcome) ==
    call' = [call EXCEPT ![t].at = "finish", ![t].outcome = outcome]

\* The working view must be the one that the store has open, and the prepared
\* publication must start from the selected view.
PrepareControl(t) ==
    /\ call[t].at = "prepare"
    /\ handle.gen = call[t].working
    /\ IF call[t].selected = call[t].working
       THEN call' = [call EXCEPT ![t].at = "stage",
                                 ![t].pending = publication(t, call[t])]
       ELSE ends(t, "unknown")
    /\ UNCHANGED <<files, handle, provider, memory, mutex, told, restarts>>

PrepareFails(t) ==
    /\ call[t].at = "prepare"
    /\ handle.gen # call[t].working \/ "prepare" \in Faults
    /\ ends(t, "prepare_failed")
    /\ UNCHANGED <<files, handle, provider, memory, mutex, told, restarts>>

\* CompareAndStage
stageable(c) == provider.pending = None /\ provider = c.anchor

\* Faulty variant of CompareAndStage: the anchor is not written.
StageForgotten(t) ==
    /\ call[t].at = "stage"
    /\ stageable(call[t])
    /\ call' = [call EXCEPT ![t].at = "commit", ![t].job = "queued",
                            ![t].anchor.pending = call[t].pending]
    /\ UNCHANGED <<files, handle, provider, memory, mutex, told, restarts>>

CompareAndStage(t) ==
    /\ call[t].at = "stage"
    /\ stageable(call[t])
    /\ stored([provider EXCEPT !.pending = call[t].pending])
    /\ call' = [call EXCEPT ![t].at = "commit", ![t].job = "queued",
                            ![t].anchor.pending = call[t].pending]
    /\ UNCHANGED <<disk, handle, memory, mutex, told, restarts>>

StageRefused(t) ==
    /\ call[t].at = "stage"
    /\ IF stageable(call[t])
       THEN notStored([provider EXCEPT !.pending = call[t].pending])
       ELSE UNCHANGED <<witness, provider>>
    /\ ends(t, "unchanged")
    /\ UNCHANGED <<disk, handle, memory, mutex, told, restarts>>

\* The goroutine of a publication runs CommitControl under the bridge's mutex.
commits(t, result) ==
    call' = [call EXCEPT ![t].job = "none", ![t].result = result]

committable(c) ==
    c.job = "queued" /\ handle.gen = c.pending.previous /\ ~handle.poisoned

\* Once the manifest is renamed into place: the store is durable and the handle
\* has the target; or the maintenance fails after that; or the fsync of the root
\* fails, and the handle keeps what it had.  The last two poison the handle.
publications == {"durable"} \cup (Faults \cap {"unclear", "rootSync"})

CommitControl(t) ==
    /\ committable(call[t])
    /\ \E published \in publications :
         LET target == call[t].pending.target IN
         /\ disk' = [seen |-> target,
                     safe |-> IF published = "rootSync" THEN disk.safe ELSE target]
         /\ handle' = [gen |-> IF published = "rootSync" THEN handle.gen ELSE target,
                       poisoned |-> published # "durable"]
         /\ commits(t, IF published = "durable" THEN "commit_durable" ELSE "other")
    /\ UNCHANGED <<witness, provider, memory, mutex, told, restarts>>

CommitFails(t) ==
    /\ call[t].job = "queued"
    /\ \/ /\ ~committable(call[t]) \/ "store" \in Faults
          /\ commits(t, "commit_not_published")
       \/ /\ committable(call[t]) /\ "unclear" \in Faults
          /\ commits(t, "other")
    /\ UNCHANGED <<files, handle, provider, memory, mutex, told, restarts>>

\* The context has ended by the time the goroutine has the bridge's mutex.
CommitExpired(t) ==
    /\ call[t].job = "expired"
    /\ call' = [call EXCEPT ![t].job = "none"]
    /\ UNCHANGED <<files, handle, provider, memory, mutex, told, restarts>>

\* The select on commitContext.Done(), which wins also over a result.
CommitLate(t) ==
    /\ call[t].at = "commit" /\ "late" \in Faults
    /\ call' = [call EXCEPT ![t].at = "finish", ![t].outcome = "unknown",
                            ![t].job = IF @ = "queued" THEN "expired" ELSE @]
    /\ UNCHANGED <<files, handle, provider, memory, mutex, told, restarts>>

CommitResult(t) ==
    /\ call[t].at = "commit" /\ call[t].result # None
    /\ IF call[t].result = "other" THEN ends(t, "unknown")
       ELSE call' = [call EXCEPT ![t].at =
                       IF call[t].result = "commit_durable" THEN "finalize"
                                                           ELSE "clear"]
    /\ UNCHANGED <<files, handle, provider, memory, mutex, told, restarts>>

\* A reconciliation goes on with its receipt.
anchorDurable(t, outcome, a) ==
    call' = [call EXCEPT ![t].at = IF call[t].kind = "reconcile" /\ call[t].part = 1
                                   THEN "receipt" ELSE "finish",
                         ![t].outcome = outcome, ![t].anchor = a]

finalized(p) == [highWater |-> p.target.number, pending |-> None]
cleared(a) == [a EXCEPT !.pending = None]

CompareAndFinalize(t) ==
    /\ call[t].at = "finalize"
    /\ provider.pending = call[t].pending
    /\ stored(finalized(call[t].pending))
    /\ anchorDurable(t, "durable", finalized(call[t].pending))
    /\ told' = [told EXCEPT !.applied = @ \cup {call[t].pending.id}]
    /\ UNCHANGED <<disk, handle, memory, mutex, restarts>>

CompareAndClear(t) ==
    /\ call[t].at = "clear"
    /\ provider.pending = call[t].pending
    /\ stored(cleared(provider))
    /\ anchorDurable(t, "unchanged", cleared(call[t].anchor))
    /\ told' = [told EXCEPT !.refused = @ \cup {call[t].pending.id}]
    /\ UNCHANGED <<disk, handle, memory, mutex, restarts>>

\* Faulty variant of SettleRefused: an anchor that is not written means that
\* nothing was published.
SettleRefusedUnchanged(t) ==
    /\ call[t].at \in {"finalize", "clear"}
    /\ IF provider.pending = call[t].pending
       THEN notStored(IF call[t].at = "finalize"
                      THEN finalized(call[t].pending) ELSE cleared(provider))
       ELSE UNCHANGED <<witness, provider>>
    /\ ends(t, "unchanged")
    /\ UNCHANGED <<disk, handle, memory, mutex, told, restarts>>

SettleRefused(t) ==
    /\ call[t].at \in {"finalize", "clear"}
    /\ IF provider.pending = call[t].pending
       THEN notStored(IF call[t].at = "finalize"
                      THEN finalized(call[t].pending) ELSE cleared(provider))
       ELSE UNCHANGED <<witness, provider>>
    /\ ends(t, "unknown")
    /\ UNCHANGED <<disk, handle, memory, mutex, told, restarts>>

-----------------------------------------------------------------------------
(* The callers, up to the publication.                                     *)

\* A call takes the coordinator's mutex and copies what it will need.
entered(t, kind, at) ==
    call' = [call EXCEPT ![t] =
               [unused EXCEPT !.at = at, !.kind = kind, !.working = view,
                              !.selected = view, !.anchor = anchor,
                              !.before = state.recovery]]

\* A call that has returned; its goroutine may be left.
over(c) == [unused EXCEPT !.at = "ended", !.job = c.job]

free(t, kind) ==
    /\ state.run = "up" /\ mutex = None
    /\ call[t].at = "idle" /\ kind \in Kinds

\* reconciliationRequiredLocked and recoveryOperation
mayMutate == operation = None /\ anchor.pending = None

\* confirmWithRecoveryLocked, for the candidate of an open window.
Confirm(t) ==
    /\ free(t, "confirm") /\ mayMutate
    /\ state.recovery \in {"UNPAIRED_LOCKED", "REVOKED"}
    /\ entered(t, "confirm", "prepare")
    /\ operation' = t
    /\ UNCHANGED <<files, handle, provider, view, anchor, mutex, state, told,
                   restarts>>

\* Faulty variant of Revoke: trust is left for the publication to withdraw.
RevokeLater(t) ==
    /\ free(t, "revoke") /\ mayMutate
    /\ view.association = "trusted"
    /\ \A u \in Calls : call[u].kind = "revoke" => call[u].at = "ended"
    /\ entered(t, "revoke", "revoke")
    /\ UNCHANGED <<files, handle, provider, memory, mutex, told, restarts>>

\* revokeSerialized, one at a time for an association.  Trust is withdrawn
\* first; closing the window may release the mutex.
Revoke(t) ==
    /\ free(t, "revoke") /\ mayMutate
    /\ view.association = "trusted"
    /\ \A u \in Calls : call[u].kind = "revoke" => call[u].at = "ended"
    /\ entered(t, "revoke", "revoke")
    /\ state' = [state EXCEPT !.trusted = FALSE]
    /\ UNCHANGED <<files, handle, provider, view, anchor, operation, mutex,
                   told, restarts>>

\* The request again, whose receipt says revocation_withdrawal_incomplete.
RevokeAgain(t) ==
    /\ free(t, "revoke") /\ operation = None
    /\ view.association = "revoking"
    /\ \A u \in Calls : call[u].kind = "revoke" => call[u].at = "ended"
    /\ entered(t, "revoke", "withdraw")
    /\ operation' = t
    /\ UNCHANGED <<files, handle, provider, view, anchor, mutex, state, told,
                   restarts>>

RevokePublishes(t) ==
    /\ call[t].at = "revoke" /\ mutex = None
    /\ call' = [call EXCEPT ![t].at = "prepare", ![t].selected = view,
                            ![t].anchor = anchor]
    /\ operation' = t
    /\ UNCHANGED <<files, handle, provider, view, anchor, mutex, state, told,
                   restarts>>

\* repair: release_retry_quarantine, of a record in the document.
Repair(t) ==
    /\ free(t, "repair") /\ mayMutate
    /\ entered(t, "repair", "prepare")
    /\ operation' = t
    /\ UNCHANGED <<files, handle, provider, view, anchor, mutex, state, told,
                   restarts>>

\* repair: reconcile_pending_publication.
Reconcile(t) ==
    /\ free(t, "reconcile") /\ operation = None
    /\ entered(t, "reconcile", "reconcile")
    /\ operation' = t
    /\ UNCHANGED <<files, handle, provider, view, anchor, mutex, state, told,
                   restarts>>

\* reconcileFirstTrustPublication reads the anchor record under the mutex again.
ReconcilePending(t) ==
    /\ call[t].at = "reconcile" /\ mutex = None
    /\ IF anchor.pending = None
       THEN call' = [call EXCEPT ![t] = over(@)] /\ operation' = None
       ELSE /\ call' = [call EXCEPT ![t].at = "observe", ![t].anchor = anchor,
                                    ![t].pending = anchor.pending]
            /\ UNCHANGED operation
    /\ UNCHANGED <<files, handle, provider, view, anchor, mutex, state, told,
                   restarts>>

\* ObserveControlPublication asks the open store.
Observe(t) ==
    /\ call[t].at = "observe"
    /\ IF handle.gen = call[t].pending.target
       THEN call' = [call EXCEPT ![t].at = "finalize"]
       ELSE IF handle.gen = call[t].pending.previous
       THEN call' = [call EXCEPT ![t].at = "clear"]
       ELSE ends(t, "unknown")
    /\ UNCHANGED <<files, handle, provider, memory, mutex, told, restarts>>

\* publishFirstTrustRetryLocked, with the mutex held until the end.
Retry(t) ==
    /\ free(t, "retry")
    /\ anchor.pending = None
    /\ entered(t, "retry", "prepare")
    /\ mutex' = t
    /\ UNCHANGED <<files, handle, provider, memory, told, restarts>>

\* firstTrustOutgoingAttemptEligibleLocked and the first publication.  A quarantine
\* for retries does not keep a trusted peer from its next attempt.
AttemptPrepare(t) ==
    /\ free(t, "attempt_prepare") /\ mayMutate
    /\ \/ state.recovery \in {"PAIRED_TRUSTED", "UNPAIRED_LOCKED"}
       \/ state.recovery = "QUARANTINED" /\ view.association = "trusted"
    /\ entered(t, "attempt_prepare", "prepare")
    /\ UNCHANGED <<files, handle, provider, memory, mutex, told, restarts>>

\* publishSelectedOutgoingAttemptControl, for an attempt that is under way.
Attempt(t) ==
    /\ free(t, "attempt")
    /\ entered(t, "attempt", "prepare")
    /\ UNCHANGED <<files, handle, provider, memory, mutex, told, restarts>>

-----------------------------------------------------------------------------
(* The callers, after the publication.                                     *)

after(c) == IF c.outcome = "durable" THEN c.pending.target ELSE view

becomes(recovery, trusted) ==
    state' = [state EXCEPT !.recovery = recovery, !.trusted = trusted]

quarantined == becomes("QUARANTINED", FALSE)

\* Every caller writes back the anchor record it has worked with, and the view
\* if the publication is durable.
writesBack(t, at) ==
    /\ call[t].at = "finish" /\ mutex \in {None, t}
    /\ anchor' = call[t].anchor
    /\ view' = after(call[t])
    /\ call' = [call EXCEPT ![t] = IF at = "ended" THEN over(@)
                                   ELSE [@ EXCEPT !.at = at]]
    /\ told' = IF call[t].outcome \in {"prepare_failed", "unchanged"}
               THEN [told EXCEPT !.refused = @ \cup {<<t, call[t].part>>}]
               ELSE told
    /\ UNCHANGED <<files, handle, provider, restarts>>

\* finishRecoveryConfirmationLocked
ConfirmFinish(t) ==
    /\ call[t].kind = "confirm" /\ writesBack(t, "ended")
    /\ CASE call[t].outcome = "durable" -> becomes("PAIRED_TRUSTED", TRUE)
         [] call[t].outcome = "unknown" -> quarantined
         [] OTHER -> becomes(call[t].before, state.trusted)
    /\ operation' = None
    /\ UNCHANGED mutex

\* revokeSerialized after its publication.
RevokeFinish(t) ==
    /\ call[t].kind = "revoke" /\ call[t].part = 1
    /\ IF call[t].outcome = "durable"
       THEN /\ writesBack(t, "withdraw")
            /\ becomes("REVOKED", state.trusted)
            /\ UNCHANGED operation
       ELSE /\ writesBack(t, "ended")
            /\ IF call[t].outcome = "unknown" THEN quarantined
               ELSE becomes(call[t].before, state.trusted)
            /\ operation' = None
    /\ UNCHANGED mutex

\* finishRevocationWithdrawal: the peer was disconnected and unregistered, and
\* finalizeRevocationReceipt begins a second publication ...
Withdrawn(t) ==
    /\ call[t].at = "withdraw" /\ mutex = None
    /\ call' = [call EXCEPT ![t] =
                  [unused EXCEPT !.at = "prepare", !.kind = "revoke",
                                 !.part = 2, !.working = view,
                                 !.selected = view, !.anchor = anchor,
                                 !.before = state.recovery]]
    /\ UNCHANGED <<files, handle, provider, memory, mutex, told, restarts>>

\* ... or it was not: finishIncompleteRevocation; or the receipt cannot be written.
WithdrawalIncomplete(t) ==
    /\ call[t].at = "withdraw" /\ mutex = None
    /\ call' = [call EXCEPT ![t] = over(@)]
    /\ operation' = None
    /\ \/ becomes("REVOKED", state.trusted)
       \/ "prepare" \in Faults /\ UNCHANGED state
    /\ UNCHANGED <<files, handle, provider, view, anchor, mutex, told,
                   restarts>>

ReceiptFinish(t) ==
    /\ call[t].kind = "revoke" /\ call[t].part = 2
    /\ writesBack(t, "ended")
    /\ IF call[t].outcome = "unknown" THEN quarantined
       ELSE becomes("REVOKED", state.trusted)
    /\ operation' = None
    /\ UNCHANGED mutex

RepairFinish(t) ==
    /\ call[t].kind = "repair" /\ writesBack(t, "ended")
    /\ CASE call[t].outcome = "durable" -> becomes("UNPAIRED_LOCKED", FALSE)
         [] call[t].outcome = "unknown" -> quarantined
         [] OTHER -> UNCHANGED state
    /\ operation' = None
    /\ UNCHANGED mutex

\* recordRetryFailure quarantines also when nothing was published: the hold
\* that it then tries to stage has a reason the store does not accept.
RetryFinish(t) ==
    /\ call[t].kind = "retry" /\ writesBack(t, "ended")
    /\ \/ call[t].outcome \in {"unknown", "unchanged"} /\ quarantined
       \/ call[t].outcome # "unknown" /\ UNCHANGED state
    /\ mutex' = None
    /\ UNCHANGED operation

AttemptFinish(t) ==
    /\ call[t].kind \in {"attempt_prepare", "attempt"} /\ writesBack(t, "ended")
    /\ IF call[t].outcome = "unknown" THEN quarantined ELSE UNCHANGED state
    /\ UNCHANGED <<operation, mutex>>

\* reconcileFirstTrustPublication: the receipt is published from the view the
\* coordinator has, over the anchor as it was just settled; ...
ReconcileReceipt(t) ==
    /\ call[t].at = "receipt" /\ mutex = None
    /\ call' = [call EXCEPT ![t] =
                  [unused EXCEPT !.at = "prepare", !.kind = "reconcile",
                                 !.part = 2, !.working = view,
                                 !.selected = view, !.anchor = call[t].anchor,
                                 !.before = state.recovery]]
    /\ UNCHANGED <<files, handle, provider, memory, mutex, told, restarts>>

\* ... the view is replaced in a critical section of its own.
ReconcileView(t) ==
    /\ call[t].at = "finish" /\ call[t].kind = "reconcile"
    /\ call[t].outcome = "durable" /\ mutex = None
    /\ view' = call[t].pending.target
    /\ call' = [call EXCEPT ![t].at = "resolved"]
    /\ UNCHANGED <<files, handle, provider, anchor, operation, mutex, state,
                   told, restarts>>

ReconcileFinish(t) ==
    /\ call[t].kind = "reconcile" /\ mutex = None
    /\ \/ call[t].at = "resolved" /\ becomes("UNPAIRED_LOCKED", state.trusted)
       \/ /\ call[t].at = "finish" /\ call[t].outcome # "durable"
          /\ becomes("QUARANTINED", state.trusted)
       \/ /\ call[t].at = "receipt" /\ "prepare" \in Faults
          /\ becomes("QUARANTINED", state.trusted)
    /\ anchor' = call[t].anchor
    /\ operation' = None
    /\ call' = [call EXCEPT ![t] = over(@)]
    /\ UNCHANGED <<files, handle, provider, view, mutex, told, restarts>>

-----------------------------------------------------------------------------
(* Crash and start.                                                        *)

\* Calls and goroutines end with the process; what was renamed and not synced
\* may be undone.
Crash ==
    /\ state.run # "down" /\ restarts < MaxRestarts
    /\ \E g \in {disk.seen, disk.safe} : disk' = [seen |-> g, safe |-> g]
    /\ \E a \in {witness.seen, witness.safe} :
         witness' = [seen |-> a, safe |-> a]
    /\ state' = [run |-> "down", recovery |-> "QUARANTINED", trusted |-> FALSE]
    /\ call' = [t \in Calls |->
                  IF call[t].at = "idle" THEN call[t]
                  ELSE [unused EXCEPT !.at = "ended"]]
    /\ operation' = None /\ mutex' = None
    /\ restarts' = restarts + 1
    /\ UNCHANGED <<handle, provider, view, anchor, told>>

\* nativeProtectedIdentityProvider.restoreAnchor, without which the runtime
\* does not start.
restoreAnchor(g, a) ==
    IF a.pending = None THEN g.number = a.highWater
    ELSE g \in {a.pending.previous, a.pending.target}

\* clearKnownUnappliedAttemptOnReopen
unapplied(g, a) ==
    /\ a.pending # None
    /\ a.pending.class = "attempt_prepare" /\ a.pending.previous = g

\* reopenWithRecovery up to the first classification.  Opening the store syncs
\* its directories.
Start ==
    /\ state.run = "down"
    /\ restoreAnchor(disk.seen, witness.seen)
    /\ disk' = [disk EXCEPT !.safe = disk.seen]
    /\ handle' = [gen |-> disk.seen, poisoned |-> FALSE]
    /\ view' = disk.seen
    /\ \/ /\ unapplied(disk.seen, witness.seen)
          /\ anchor' = cleared(witness.seen) /\ provider' = anchor'
          /\ witness' = [seen |-> anchor', safe |-> anchor']
       \/ /\ unapplied(disk.seen, witness.seen) => "anchorWrite" \in Faults
          /\ anchor' = witness.seen /\ provider' = anchor'
          /\ UNCHANGED witness
       \/ /\ unapplied(disk.seen, witness.seen) /\ "anchorSync" \in Faults
          /\ anchor' = witness.seen /\ provider' = anchor'
          /\ witness' = [witness EXCEPT !.seen = cleared(witness.seen)]
    /\ state' = [state EXCEPT !.run = "starting"]
    /\ UNCHANGED <<operation, mutex, call, told, restarts>>

starting == state.run = "starting" /\ \A t \in Calls : call[t].at \in {"idle", "ended"}

\* reconcileTrustedRetryQuarantinesLocked and chargeRestartedOutgoingAttempts,
\* of which at most one publishes.
StartPublishes(t) ==
    /\ starting /\ call[t].at = "idle"
    /\ classify(view, anchor) # {"QUARANTINED"}
    /\ \/ /\ "release" \in Kinds /\ view.association = "trusted"
          /\ entered(t, "release", "prepare")
          /\ operation' = t
       \/ /\ "charge" \in Kinds /\ view.association \notin Tombstoned
          /\ entered(t, "charge", "prepare")
          /\ UNCHANGED operation
    /\ UNCHANGED <<files, handle, provider, view, anchor, mutex, state, told,
                   restarts>>

\* What the classification makes of the state.
classified(v, a) ==
    \E r \in classify(v, a) :
      state' = [run |-> "up", recovery |-> r, trusted |-> r = "PAIRED_TRUSTED"]

Classify ==
    /\ starting
    /\ classified(view, anchor)
    /\ UNCHANGED <<files, handle, provider, view, anchor, operation, mutex,
                   call, told, restarts>>

StartFinish(t) ==
    /\ call[t].kind \in {"release", "charge"} /\ writesBack(t, "ended")
    /\ IF call[t].kind = "charge" /\ call[t].outcome # "durable"
       THEN state' = [run |-> "up", recovery |-> "QUARANTINED", trusted |-> FALSE]
       ELSE classified(view', anchor')
    /\ operation' = None
    /\ UNCHANGED mutex

-----------------------------------------------------------------------------
Publishing(t) ==
    \/ PrepareControl(t) \/ PrepareFails(t) \/ CompareAndStage(t)
    \/ StageRefused(t) \/ CommitControl(t) \/ CommitFails(t)
    \/ CommitExpired(t) \/ CommitLate(t) \/ CommitResult(t)
    \/ CompareAndFinalize(t) \/ CompareAndClear(t) \/ SettleRefused(t)

Entering(t) ==
    \/ Confirm(t) \/ Revoke(t) \/ RevokeAgain(t) \/ RevokePublishes(t)
    \/ Repair(t) \/ Reconcile(t) \/ ReconcilePending(t) \/ Observe(t) \/ Retry(t) \/ AttemptPrepare(t)
    \/ Attempt(t) \/ StartPublishes(t)

Finishing(t) ==
    \/ ConfirmFinish(t) \/ RevokeFinish(t) \/ Withdrawn(t)
    \/ WithdrawalIncomplete(t) \/ ReceiptFinish(t) \/ RepairFinish(t)
    \/ RetryFinish(t) \/ AttemptFinish(t) \/ ReconcileReceipt(t)
    \/ ReconcileView(t) \/ ReconcileFinish(t) \/ StartFinish(t)

Next ==
    \/ \E t \in Calls : Publishing(t) \/ Entering(t) \/ Finishing(t)
    \/ Crash \/ Start \/ Classify

Spec == Init /\ [][Next]_vars

-----------------------------------------------------------------------------
(* Properties.                                                             *)

\* Whatever a crash makes of the two files, the next start accepts them:
\* restoreAnchor finds the generation that the anchor remembers or announces.
\* Every order of staging, committing, finalizing, clearing, reconciling and
\* failing must keep this, or the runtime never starts again.
AnchorRestorable ==
    \A g \in {disk.seen, disk.safe}, a \in {witness.seen, witness.safe} :
      restoreAnchor(g, a)

\* A publication reported durable, by its caller or by a reconciliation, is in
\* the store for good, and one reported unchanged never is: not by a commit
\* that was late, not after a restart, and not because another publication was
\* built from a view that was copied before the mutex was released.
AnswersHold ==
    \A g \in {disk.seen, disk.safe} :
      told.applied \subseteq g.by /\ told.refused \cap g.by = {}

\* The coordinator trusts nobody whose tombstone is durable, whatever
\* confirmations and revocations overlap and wherever the process restarts.
TrustedNotRevoked == state.trusted => disk.safe.association \notin Tombstoned
=============================================================================
