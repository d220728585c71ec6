-------------------------- MODULE MutationContract --------------------------
(***************************************************************************)
(* The canonical raw-mutation document of eebusraw: what a MutationV1 holds *)
(* and which documents ValidateMutationV1 accepts.  The coordinator writes  *)
(* such a document to its journal at every transition and refuses to open a *)
(* journal in which one of them does not validate.                          *)
(*                                                                          *)
(* Abstractions.  A typed value is a member of Values and stands for its    *)
(* own hash.  Timestamps, references and targets are well formed and left   *)
(* out.  An error is its code.  The audit chain is the one bit the          *)
(* validator takes from it: whether its states start at an initial state    *)
(* and follow the transition relation (the last of them is always "state"). *)
(* A nil pointer is the "No..." value of its field.                         *)
(***************************************************************************)
EXTENDS Naturals

CONSTANTS
    Values,     \* the typed values a feature can hold
    NoValue     \* a nil *TypedValueV1 (or the zero TypedValueV1)

ASSUME ValueAssumption == NoValue \notin Values

Modes == {"apply", "probe"}

\* Durable states of a mutation.
MutationStates ==
    {"prepared", "dispatch_intent", "reply_observed", "verify_pending",
     "applied", "probe_active", "rollback_intent",
     "rollback_dispatch_intent", "rollback_reply_observed",
     "rollback_verify_pending", "rolled_back", "outcome_unknown",
     "conflict", "failed_no_contact", "rejected", "no_effect"}

\* A reserved mutation that has no durable record yet has the empty state.
Reserved == "reserved"

Accepted == {"nil", "yes", "no"}

\* Error codes that a mutation or its rollback can carry ("none": nil).
ErrorCodes == {"none", "outcome_unknown", "conflict", "no_effect",
               "remote_error", "rollback_failed", "no_contact"}

MaybeValue == Values \cup {NoValue}

NoOutcome == [last |-> "none", possible |-> FALSE]

\* OutcomeEvidenceV1; BlindRetryForbidden always equals PossibleSideEffect.
OutcomeEvidence == [last : MutationStates \cup {"none"}, possible : BOOLEAN]

NoRollback ==
    [state |-> "none", accepted |-> "nil", observed |-> NoValue,
     error |-> "none", verified |-> NoValue]

\* RollbackV1; its Before is always a copy of the mutation's own.
Rollbacks ==
    [state : MutationStates \cup {"none"}, accepted : Accepted,
     observed : MaybeValue, error : ErrorCodes, verified : MaybeValue]

\* MutationV1.
Mutations ==
    [mode : Modes, generation : Nat, before : MaybeValue,
     requested : Values, state : MutationStates \cup {Reserved},
     accepted : Accepted, observed : MaybeValue,
     applyVerified : MaybeValue, conflict : MaybeValue,
     noContact : BOOLEAN, rejection : MaybeValue, noEffect : MaybeValue,
     outcome : OutcomeEvidence, rollback : Rollbacks,
     error : ErrorCodes, audit : BOOLEAN]

-----------------------------------------------------------------------------
(* The audit chain.                                                         *)

validInitialMutationState == {"prepared", "failed_no_contact"}

\* The states a mutation may enter from each state.
validMutationTransition ==
    [s \in MutationStates |->
        CASE s = "prepared" -> {"dispatch_intent"}
          [] s = "dispatch_intent" ->
                {"reply_observed", "outcome_unknown", "failed_no_contact"}
          [] s = "reply_observed" -> {"verify_pending", "outcome_unknown"}
          [] s = "verify_pending" ->
                {"applied", "probe_active", "rejected", "conflict",
                 "outcome_unknown"}
          [] s \in {"applied", "probe_active"} -> {"rollback_intent"}
          [] s = "rollback_intent" ->
                {"rollback_dispatch_intent", "rolled_back", "conflict",
                 "outcome_unknown"}
          [] s = "rollback_dispatch_intent" ->
                {"rollback_reply_observed", "rolled_back", "conflict",
                 "outcome_unknown"}
          [] s = "rollback_reply_observed" ->
                {"rollback_verify_pending", "rolled_back", "conflict",
                 "outcome_unknown"}
          [] s = "rollback_verify_pending" ->
                {"rolled_back", "conflict", "outcome_unknown"}
          [] s = "outcome_unknown" ->
                {"applied", "probe_active", "no_effect", "conflict",
                 "rolled_back"}
          [] OTHER -> {}]

\* The mutation after transition() has appended state s to its audit chain.
Audited(m, s) ==
    [m EXCEPT !.state = s,
              !.audit = @ /\ IF m.state = Reserved
                             THEN s \in validInitialMutationState
                             ELSE s \in validMutationTransition[m.state]]

-----------------------------------------------------------------------------
(* Evidence validators, one per kind of evidence.                           *)

validateApplyVerification(m) ==
    /\ m.applyVerified = m.requested
    /\ m.observed = m.requested

validateConflictEvidence(m) ==
    /\ m.conflict # NoValue
    /\ m.conflict = m.observed
    /\ m.observed \notin {m.before, m.requested}

validateRejectionVerification(m) ==
    /\ m.rejection = m.before
    /\ m.observed = m.before
    /\ m.observed # NoValue

validateNoEffectVerification(m) ==
    /\ m.noEffect = m.before
    /\ m.observed = m.before
    /\ m.observed # NoValue

validateOutcomeEvidence(outcome, required) ==
    /\ outcome.possible
    /\ outcome.last \in required

acceptedOrRecovered(m) ==
    \/ m.accepted = "yes" /\ m.outcome = NoOutcome
    \/ /\ m.accepted = "nil"
       /\ validateOutcomeEvidence(
            m.outcome, {"dispatch_intent", "rollback_dispatch_intent"})

conflictDisposition(m) ==
    IF m.accepted = "nil"
    THEN validateOutcomeEvidence(
            m.outcome, {"dispatch_intent", "rollback_dispatch_intent"})
    ELSE m.outcome = NoOutcome

validateRollback(m) ==
    LET rb == m.rollback IN
    /\ rb.state = m.state
    /\ rb.error = "none"
    /\ \/ /\ m.state \in {"rollback_intent", "rollback_dispatch_intent"}
          /\ rb.accepted = "nil"
          /\ rb.observed = NoValue
          /\ rb.verified = NoValue
       \/ /\ m.state \in {"rollback_reply_observed",
                          "rollback_verify_pending"}
          /\ rb.accepted # "nil"
          /\ rb.observed = NoValue
          /\ rb.verified = NoValue
       \/ /\ m.state = "rolled_back"
          /\ rb.observed # NoValue
          /\ rb.verified = m.before
          /\ rb.observed = m.before

validateOriginalOutcomeEvidence(m) ==
    /\ m.outcome.possible
    /\ \/ /\ m.outcome.last = "dispatch_intent"
          /\ m.accepted = "nil"
          /\ m.observed = NoValue
       \/ /\ m.outcome.last = "reply_observed"
          /\ m.accepted # "nil"

validateRollbackFailure(m) ==
    LET rb == m.rollback IN
    /\ m.error = "rollback_failed"
    /\ m.accepted # "no"
    /\ validateApplyVerification(m)
    /\ rb.state = m.outcome.last
    /\ rb.observed = NoValue
    /\ rb.verified = NoValue
    /\ rb.error = "rollback_failed"
    /\ \/ /\ rb.state = "rollback_intent"
          /\ ~m.outcome.possible
          /\ rb.accepted = "nil"
       \/ /\ rb.state = "rollback_dispatch_intent"
          /\ m.outcome.possible
          /\ rb.accepted = "nil"
       \/ /\ rb.state \in {"rollback_reply_observed",
                           "rollback_verify_pending"}
          /\ m.outcome.possible
          /\ rb.accepted # "nil"

validateOutcomeUnknown(m) ==
    /\ m.error # "none"
    /\ m.conflict = NoValue
    /\ ~m.noContact
    /\ m.rejection = NoValue
    /\ m.noEffect = NoValue
    /\ IF m.rollback # NoRollback
       THEN validateRollbackFailure(m)
       ELSE /\ m.error = "outcome_unknown"
            /\ m.applyVerified = NoValue
            /\ validateOriginalOutcomeEvidence(m)

-----------------------------------------------------------------------------
(* ValidateMutationV1.                                                      *)

noCommonEvidence(m) ==
    /\ m.rollback = NoRollback
    /\ m.error = "none"
    /\ m.applyVerified = NoValue
    /\ m.conflict = NoValue
    /\ ~m.noContact
    /\ m.rejection = NoValue
    /\ m.noEffect = NoValue
    /\ m.outcome = NoOutcome

validateMutationState(m) ==
    \/ /\ m.state \in {"prepared", "dispatch_intent"}
       /\ m.accepted = "nil"
       /\ m.observed = NoValue
       /\ noCommonEvidence(m)
    \/ /\ m.state \in {"reply_observed", "verify_pending"}
       /\ m.accepted # "nil"
       /\ m.observed = NoValue
       /\ noCommonEvidence(m)
    \/ /\ m.state \in {"applied", "probe_active"}
       /\ validateApplyVerification(m)
       /\ m.rollback = NoRollback
       /\ m.error = "none"
       /\ m.conflict = NoValue
       /\ ~m.noContact
       /\ m.rejection = NoValue
       /\ m.noEffect = NoValue
       /\ acceptedOrRecovered(m)
       /\ m.state = "probe_active" => m.mode = "probe"
    \/ /\ m.state \in {"rollback_intent", "rollback_dispatch_intent",
                       "rollback_reply_observed",
                       "rollback_verify_pending", "rolled_back"}
       /\ acceptedOrRecovered(m)
       /\ validateApplyVerification(m)
       /\ validateRollback(m)
       /\ m.error = "none"
       /\ m.conflict = NoValue
       /\ ~m.noContact
       /\ m.rejection = NoValue
       /\ m.noEffect = NoValue
    \/ /\ m.state = "outcome_unknown"
       /\ validateOutcomeUnknown(m)
    \/ /\ m.state = "conflict"
       /\ m.error = "conflict"
       /\ validateConflictEvidence(m)
       /\ conflictDisposition(m)
       /\ ~m.noContact
       /\ m.rejection = NoValue
       /\ m.noEffect = NoValue
    \/ /\ m.state = "failed_no_contact"
       /\ m.accepted = "nil"
       /\ m.observed = NoValue
       /\ m.error # "none"
       /\ m.noContact
       /\ m.rollback = NoRollback
       /\ m.applyVerified = NoValue
       /\ m.conflict = NoValue
       /\ m.rejection = NoValue
       /\ m.noEffect = NoValue
       /\ m.outcome = NoOutcome
    \/ /\ m.state = "rejected"
       /\ m.accepted = "no"
       /\ m.error = "remote_error"
       /\ validateRejectionVerification(m)
       /\ m.rollback = NoRollback
       /\ m.applyVerified = NoValue
       /\ m.conflict = NoValue
       /\ ~m.noContact
       /\ m.noEffect = NoValue
       /\ m.outcome = NoOutcome
    \/ /\ m.state = "no_effect"
       /\ m.accepted = "nil"
       /\ m.error = "no_effect"
       /\ validateOutcomeEvidence(m.outcome, {"dispatch_intent"})
       /\ validateNoEffectVerification(m)
       /\ m.rollback = NoRollback
       /\ m.applyVerified = NoValue
       /\ m.conflict = NoValue
       /\ ~m.noContact
       /\ m.rejection = NoValue

\* The canonical document check that guards every journal record on restore.
ValidateMutation(m) ==
    /\ m.generation # 0
    /\ m.audit
    /\ validateMutationState(m)

=============================================================================
