------------------------- MODULE MutationResolution -------------------------
(***************************************************************************)
(* How the mutation coordinator turns a readback, or a write result, into  *)
(* the next document of a mutation: the persist and resolve functions of   *)
(* eebusmutation/execution.go and rollback.go.                             *)
(*                                                                         *)
(* Each operator maps the in-memory mutation m to an outcome: the mutation *)
(* after the function's assignments and the state it hands to transition() *)
(* ("stay" when the function returns without a transition).  A readback is *)
(* a record; one with trusted = FALSE stands for a read error, a partial   *)
(* read, an undecodable value and an unknown binding alike.                *)
(***************************************************************************)
EXTENDS MutationContract

Stay == "stay"

Outcome(m, s) == [mutation |-> m, next |-> s]

readbackIsTrustworthy(m, rd, allowGenerationRebind) ==
    /\ rd.trusted
    /\ rd.generation # 0
    /\ ~allowGenerationRebind => rd.generation = m.generation

-----------------------------------------------------------------------------
(* Functions shared by the forward write and the rollback.                  *)

persistCorrelatedContradiction(m, v) ==
    Outcome([m EXCEPT !.observed = v, !.conflict = NoValue,
                      !.applyVerified = NoValue, !.noEffect = NoValue,
                      !.rejection = NoValue,
                      !.outcome = [last |-> "reply_observed",
                                   possible |-> TRUE],
                      !.error = "outcome_unknown"],
            "outcome_unknown")

persistConflict(m, v) ==
    IF v \in {m.before, m.requested}
    THEN persistCorrelatedContradiction(m, v)
    ELSE Outcome([m EXCEPT !.observed = v, !.conflict = v,
                           !.applyVerified = NoValue, !.noEffect = NoValue,
                           !.error = "conflict"],
                 "conflict")

\* Faulty variant of persistApplied: the verification is not recorded.
appliedUnverified(m, v) ==
    Outcome([m EXCEPT !.observed = v, !.error = "none"],
            IF m.mode = "probe" THEN "probe_active" ELSE "applied")

persistApplied(m, v) ==
    Outcome([m EXCEPT !.observed = v, !.applyVerified = v,
                      !.conflict = NoValue, !.noEffect = NoValue,
                      !.error = "none"],
            IF m.mode = "probe" THEN "probe_active" ELSE "applied")

-----------------------------------------------------------------------------
(* The forward write.                                                       *)

persistRejected(m, v) ==
    Outcome([m EXCEPT !.observed = v, !.rejection = m.before,
                      !.error = "remote_error"],
            "rejected")

resolveCorrelatedReadback(m, rd) ==
    IF ~readbackIsTrustworthy(m, rd, FALSE)
    THEN Outcome([m EXCEPT !.outcome = [last |-> "reply_observed",
                                        possible |-> TRUE],
                           !.error = "outcome_unknown"],
                 "outcome_unknown")
    ELSE CASE m.accepted = "no" /\ rd.value = m.before ->
                persistRejected(m, rd.value)
           [] m.accepted = "no" /\ rd.value # m.before ->
                persistConflict(m, rd.value)
           [] m.accepted # "no" /\ rd.value = m.requested ->
                persistApplied(m, rd.value)
           [] OTHER -> persistConflict(m, rd.value)

\* Faulty variant of possibleSend: a missing answer is taken for no contact.
presumedNotSent(m) ==
    Outcome([m EXCEPT !.error = "no_contact", !.noContact = TRUE],
            "failed_no_contact")

\* The document written when a forward frame may have been sent.
possibleSend(m) ==
    Outcome([m EXCEPT !.accepted = "nil",
                      !.outcome = [last |-> "dispatch_intent",
                                   possible |-> TRUE],
                      !.error = "outcome_unknown"],
            "outcome_unknown")

resolvePossibleSendReadback(m, rd) ==
    LET bound == [m EXCEPT !.generation = rd.generation,
                           !.accepted = "nil", !.observed = rd.value]
    IN  CASE ~readbackIsTrustworthy(m, rd, TRUE) ->
                Outcome([m EXCEPT !.error = "outcome_unknown"], Stay)
          [] readbackIsTrustworthy(m, rd, TRUE) /\ rd.value = m.before ->
                Outcome([bound EXCEPT !.noEffect = m.before,
                                      !.applyVerified = NoValue,
                                      !.error = "no_effect"],
                        "no_effect")
          [] /\ readbackIsTrustworthy(m, rd, TRUE)
             /\ rd.value # m.before
             /\ rd.value = m.requested -> persistApplied(bound, rd.value)
          [] OTHER -> persistConflict(bound, rd.value)

\* No frame left the process: the executor said so, or never got the call.
failedNoContact(m) ==
    Outcome([m EXCEPT !.error = "no_contact", !.noContact = TRUE],
            "failed_no_contact")

-----------------------------------------------------------------------------
(* The rollback.                                                            *)

\* The in-memory rollback moves to state s together with the mutation.
rollbackStep(m, s) == Outcome([m EXCEPT !.rollback.state = s], s)

startRollback(m) ==
    Outcome([m EXCEPT !.rollback = [NoRollback EXCEPT
                                        !.state = "rollback_intent"],
                      !.error = "none"],
            "rollback_intent")

persistRolledBack(m, v, accepted) ==
    Outcome([m EXCEPT
                !.rollback = [state |-> "rolled_back",
                              accepted |-> accepted, observed |-> v,
                              error |-> "none", verified |-> v],
                !.outcome = IF m.accepted # "nil" THEN NoOutcome ELSE @,
                !.error = "none"],
            "rolled_back")

prepareRollbackUnknown(m) ==
    LET last == IF m.state = "outcome_unknown" /\ m.outcome # NoOutcome
                THEN m.outcome.last ELSE m.state
    IN  [m EXCEPT !.rollback.error = "rollback_failed",
                  !.outcome = [last |-> last,
                               possible |-> last # "rollback_intent"],
                  !.error = "rollback_failed"]

persistRollbackUnknown(m) ==
    IF m.state = "outcome_unknown"
    THEN Outcome(m, Stay)
    ELSE Outcome(prepareRollbackUnknown(m), "outcome_unknown")

continueRollbackFromIntent(m, rd) ==
    LET bound == [m EXCEPT !.generation = rd.generation]
    IN  CASE ~readbackIsTrustworthy(m, rd, TRUE) ->
                persistRollbackUnknown(m)
          [] readbackIsTrustworthy(m, rd, TRUE) /\ rd.value = m.before ->
                persistRolledBack(bound, rd.value, "nil")
          [] /\ readbackIsTrustworthy(m, rd, TRUE)
             /\ rd.value \notin {m.before, m.requested} ->
                persistConflict(bound, rd.value)
          [] OTHER -> rollbackStep(bound, "rollback_dispatch_intent")

\* Readback after a correlated answer to the rollback frame.
resolveRollbackReply(m, rd) ==
    LET accepted == m.rollback.accepted
    IN  CASE ~readbackIsTrustworthy(m, rd, FALSE) ->
                persistRollbackUnknown(m)
          [] /\ readbackIsTrustworthy(m, rd, FALSE)
             /\ rd.value = m.before
             /\ accepted = "yes" ->
                persistRolledBack(m, rd.value, accepted)
          [] /\ readbackIsTrustworthy(m, rd, FALSE)
             /\ rd.value \notin {m.before, m.requested} ->
                persistConflict(m, rd.value)
          [] OTHER -> persistRollbackUnknown(m)

\* The same readback when a restarted coordinator makes it.
recoverRollbackReply(m, rd) ==
    CASE ~readbackIsTrustworthy(m, rd, TRUE) -> persistRollbackUnknown(m)
      [] readbackIsTrustworthy(m, rd, TRUE) /\ rd.value = m.before ->
            persistRolledBack(m, rd.value, m.rollback.accepted)
      [] /\ readbackIsTrustworthy(m, rd, TRUE)
         /\ rd.value # m.before
         /\ rd.value = m.requested
         /\ m.rollback.accepted = "no" -> persistRollbackUnknown(m)
      [] OTHER -> persistConflict(m, rd.value)

resolveUncertainRollbackReadback(m, rd) ==
    LET bound == [m EXCEPT !.generation = rd.generation]
    IN  CASE ~readbackIsTrustworthy(m, rd, TRUE) ->
                persistRollbackUnknown(m)
          [] readbackIsTrustworthy(m, rd, TRUE) /\ rd.value = m.before ->
                persistRolledBack(bound, rd.value, "nil")
          [] /\ readbackIsTrustworthy(m, rd, TRUE)
             /\ rd.value # m.before
             /\ rd.value = m.requested -> persistRollbackUnknown(bound)
          [] OTHER -> persistConflict(bound, rd.value)

\* A rollback frame may have been sent and no answer came.
possibleRollbackSend(m) ==
    Outcome(prepareRollbackUnknown([m EXCEPT !.rollback.accepted = "nil"]),
            "outcome_unknown")

=============================================================================
