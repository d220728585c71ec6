----------------------------- MODULE FirstTrust -----------------------------
(***************************************************************************)
(* The first-trust coordinator (internal/eebusfacade/first_trust.go and     *)
(* first_trust_candidates.go): its state c and what each of its operations  *)
(* does to c between taking the coordinator's mutex and releasing it.       *)
(* Module Pairing interleaves these sections.                               *)
(*                                                                          *)
(* setWaitingLocked releases the mutex in the middle of an operation.  An   *)
(* operator that reaches it sets c.ask to the value it asks for and stops   *)
(* there; the operator named After... is the rest of the operation.         *)
(*                                                                          *)
(* Time is abstracted to which deadlines have passed: window = "due" and    *)
(* cand.due.  Idempotency keys are left out: every call has a fresh one.    *)
(***************************************************************************)
EXTENDS Naturals, Sequences

CONSTANT SKIs                  \* the remote peers

NoSKI == "no SKI"
ASSUME SKIAssumption == NoSKI \notin SKIs

NoCandidate == [ski |-> NoSKI]
NoSelection == [ski |-> NoSKI]

Phases == {"Disabled", "PairingClosed", "OpenEmpty", "CandidatePending",
           "TransientTrusted", "Committing"}

Candidate ==
    [ski : SKIs, conn : Nat, generation : Nat, due : BOOLEAN,
     ship : BOOLEAN, tls : BOOLEAN, completed : BOOLEAN,
     authorized : BOOLEAN, registered : BOOLEAN, revoked : BOOLEAN]

Selection ==
    [ski : SKIs, completed : BOOLEAN, cancelled : BOOLEAN, aborted : BOOLEAN]

Effects == [kind : {"Cancel", "Register", "CancelUnbound", "TransientRegister",
                    "TransientUnregister", "TransientFinalize"},
            ski : SKIs, conn : Nat]

Coordinator ==
    [selecting : BOOLEAN,      \* candidatec.selecting: the service can
                               \* queue a pairing candidate
     phase : Phases,
     window : {"none", "open", "due"},
     cand : Candidate \cup {NoCandidate},
     sel : Selection \cup {NoSelection},
     lifecycle : [SKIs -> {"absent", "visible", "reserved", "consumed"}],
     trusted : SUBSET SKIs,
     recovery : {"UNPAIRED_LOCKED", "PAIRED_TRUSTED", "QUARANTINED"},
     operation : BOOLEAN,      \* recoveryOperation # nil
     inflight : BOOLEAN,
     generation : Nat,         \* SelectedGeneration
     timer : {"none", "window", "candidate"},
     known : BOOLEAN, enabled : BOOLEAN, fault : BOOLEAN,
     attached : BOOLEAN,       \* effects # nil
     pending : Seq(Effects),
     ask : {"none", "on", "off"}]

\* After reopenWithRecovery found no trusted association, newFirstTrustFacade
\* turned the registration off and the facade was attached.
Closed(selecting) ==
    [selecting |-> selecting, phase |-> "PairingClosed", window |-> "none", cand |-> NoCandidate,
     sel |-> NoSelection,
     lifecycle |-> [s \in SKIs |-> "absent"],
     trusted |-> {}, recovery |-> "UNPAIRED_LOCKED", operation |-> FALSE,
     inflight |-> FALSE, generation |-> 1, timer |-> "none",
     known |-> TRUE, enabled |-> FALSE, fault |-> FALSE, attached |-> TRUE,
     pending |-> <<>>, ask |-> "none"]

-----------------------------------------------------------------------------
(* Helpers.                                                                 *)

sameCandidate(c, s, n) ==
    c.cand # NoCandidate /\ c.cand.ski = s /\ c.cand.conn = n

effect(c, kind, s, n) ==
    IF c.attached
    THEN [c EXCEPT !.pending =
                       Append(@, [kind |-> kind, ski |-> s, conn |-> n])]
    ELSE c

revokeTransientTrustLocked(c) ==
    IF c.cand # NoCandidate /\ c.cand.authorized /\ ~c.cand.revoked
    THEN effect([c EXCEPT !.cand.revoked = TRUE],
                "TransientUnregister", c.cand.ski, c.cand.conn)
    ELSE c

cancelRemoteLocked(c, s, n) == effect(c, "Cancel", s, n)

cancelCandidateSelectionLocked(c) ==
    IF c.sel.cancelled THEN c
    ELSE effect([c EXCEPT !.sel.cancelled = TRUE],
                "CancelUnbound", c.sel.ski, 0)

\* A selection whose queue call is still out is only marked; selectCandidate
\* removes it.
finishCandidateSelectionLocked(c, cancel) ==
    IF c.sel = NoSelection THEN c
    ELSE LET d == IF cancel THEN cancelCandidateSelectionLocked(c) ELSE c
         IN  IF d.sel.completed THEN [d EXCEPT !.sel = NoSelection]
                                ELSE [d EXCEPT !.sel.aborted = TRUE]

selectedCandidateMatchesLocked(c, s) ==
    /\ c.sel # NoSelection /\ ~c.sel.cancelled /\ c.sel.ski = s
    /\ c.phase \in {"OpenEmpty", "CandidatePending", "TransientTrusted",
                    "Committing"}

invalidateCandidateSnapshotLocked(c) ==
    [c EXCEPT !.lifecycle = [s \in SKIs |-> "absent"]]

\* Revoke, cancel and drop the current candidate.
dropCandidate(c, cancel) ==
    LET d == revokeTransientTrustLocked(c)
        e == IF cancel THEN cancelRemoteLocked(d, c.cand.ski, c.cand.conn)
                       ELSE d
    IN  IF c.cand = NoCandidate THEN c ELSE [e EXCEPT !.cand = NoCandidate]

failPairingRegistrationLocked(c) ==
    LET d == finishCandidateSelectionLocked(
                 [dropCandidate(c, TRUE) EXCEPT !.phase = "Disabled",
                                                !.window = "none"], TRUE)
    IN  [d EXCEPT !.fault = TRUE, !.recovery = "QUARANTINED",
                  !.trusted = {}, !.timer = "none"]

\* setWaitingLocked: nothing to do, or the mutex is released for the call.
setWaitingLocked(c, value) ==
    IF c.fault THEN failPairingRegistrationLocked(c)
    ELSE IF ~c.attached \/ (c.known /\ c.enabled = value) THEN c
    ELSE [c EXCEPT !.ask = IF value THEN "on" ELSE "off"]

\* The call came back, with an error or not, and the mutex is held again.
waitingSet(c, value, err) ==
    IF err THEN failPairingRegistrationLocked(c)
    ELSE [c EXCEPT !.known = TRUE, !.enabled = value]

\* Mutant: the registration is not turned off with the window.
closeWindowStaysRegistered(c, cancelCandidate) ==
    LET d == finishCandidateSelectionLocked(
                 dropCandidate(c, cancelCandidate), TRUE)
    IN  [d EXCEPT !.window = "none", !.cand = NoCandidate,
                  !.phase = "PairingClosed", !.timer = "none"]

closeWindowLocked(c, cancelCandidate) ==
    LET d == IF cancelCandidate THEN dropCandidate(c, TRUE) ELSE c
        e == IF cancelCandidate \/ c.cand = NoCandidate
             THEN finishCandidateSelectionLocked(d, TRUE) ELSE d
    IN  setWaitingLocked([e EXCEPT !.window = "none", !.cand = NoCandidate,
                                   !.phase = "PairingClosed",
                                   !.timer = "none"], FALSE)

\* What follows the loss of a candidate: the window goes on, or it closes.
windowWithoutCandidate(c) ==
    IF c.window = "open" THEN [c EXCEPT !.phase = "OpenEmpty",
                                        !.timer = "window"]
    ELSE closeWindowLocked(c, FALSE)

\* finishTransientCandidateLocked, and the same steps in cancel,
\* connectionClosed and expireLocked.
loseCandidate(c, cancel) ==
    windowWithoutCandidate(
        finishCandidateSelectionLocked(dropCandidate(c, cancel), TRUE))

expireLocked(c) ==
    IF /\ c.phase \in {"CandidatePending", "TransientTrusted"}
       /\ c.cand # NoCandidate /\ c.cand.due
    THEN loseCandidate(c, TRUE)
    ELSE IF c.window = "due" /\ c.phase # "Committing"
    THEN closeWindowLocked(c, TRUE)
    ELSE c

-----------------------------------------------------------------------------
(* Operator calls, after expireLocked.                                      *)

openPairingWindowLocked(c) ==
    IF c.operation \/ c.phase # "PairingClosed" \/ c.window # "none" THEN c
    ELSE setWaitingLocked([c EXCEPT !.window = "open",
                                    !.phase = "OpenEmpty"], TRUE)

opens(c) == ~c.operation /\ c.phase = "PairingClosed" /\ c.window = "none"

closePairingWindow(c) ==
    IF c.phase \in {"Committing", "Disabled"} \/ c.window = "none" THEN c
    ELSE closeWindowLocked(c, TRUE)

selects(c, s) ==
    /\ c.sel = NoSelection
    /\ c.phase = "OpenEmpty" /\ c.window # "none"
    /\ c.lifecycle[s] = "visible"

\* selectCandidate until it calls the service to queue the candidate.
selectCandidate(c, s) ==
    [c EXCEPT !.lifecycle[s] = "reserved",
              !.sel = [ski |-> s, completed |-> FALSE, cancelled |-> FALSE,
                       aborted |-> FALSE]]

failCandidateQueueLocked(c) ==
    IF c.cand # NoCandidate /\ c.cand.ski = c.sel.ski
    THEN LET d == dropCandidate(c, TRUE)
         IN  IF d.window = "open"
             THEN [d EXCEPT !.phase = "OpenEmpty", !.timer = "window"] ELSE d
    ELSE cancelCandidateSelectionLocked(c)

\* selectCandidate after the call: queued, or failed, or aborted meanwhile.
\* cancelled: the caller's context ended during the call.
candidateQueued(c, ok, cancelled) ==
    IF ok /\ ~cancelled /\ ~c.sel.aborted
    THEN [c EXCEPT !.sel.completed = TRUE,
                   !.lifecycle[c.sel.ski] = IF @ = "absent" THEN @
                                            ELSE "consumed"]
    ELSE [invalidateCandidateSnapshotLocked(failCandidateQueueLocked(c))
          EXCEPT !.sel = NoSelection]

\* A confirmation is accepted when the SKI and the connection it quotes (and
\* with them nonce, expiry and generation, which a connection has once) are
\* those of the pending candidate.
confirms(c, s, n) ==
    /\ ~c.inflight /\ c.phase = "CandidatePending"
    /\ sameCandidate(c, s, n)
    /\ c.selecting => /\ c.cand.tls
                            /\ selectedCandidateMatchesLocked(c, s)
    /\ c.generation = c.cand.generation
    /\ c.selecting \/ c.cand.ship

startCommit(c) ==
    [c EXCEPT !.phase = "Committing", !.window = "none", !.timer = "none",
              !.inflight = TRUE]

confirm(c) ==
    IF c.selecting
    THEN effect([c EXCEPT !.cand.authorized = TRUE,
                          !.cand.registered = FALSE,
                          !.phase = "TransientTrusted"],
                "TransientRegister", c.cand.ski, c.cand.conn)
    ELSE startCommit(c)

cancels(c, n) ==
    /\ c.phase \in {"CandidatePending", "TransientTrusted"}
    /\ c.cand # NoCandidate /\ c.cand.conn = n

cancel(c) == loseCandidate(c, TRUE)

-----------------------------------------------------------------------------
(* Callbacks, after expireLocked.                                           *)

visiblePairingCandidatesUpdated(c, seen) ==
    LET life(s) == IF c.sel # NoSelection /\ c.sel.ski = s
                   THEN IF c.sel.completed THEN "consumed" ELSE "reserved"
                   ELSE IF c.lifecycle[s] = "consumed" THEN "consumed"
                   ELSE "visible"
    IN  [c EXCEPT !.lifecycle = [s \in SKIs |-> IF s \in seen THEN life(s)
                                                ELSE "absent"]]

authorizeRuntimeAttempt(c, s) ==
    LET pairing == IF c.selecting THEN selectedCandidateMatchesLocked(c, s)
                   ELSE \/ c.phase = "OpenEmpty" /\ c.window # "none"
                        \/ /\ c.cand # NoCandidate /\ c.cand.ski = s
                           /\ c.phase \in {"CandidatePending",
                                           "TransientTrusted", "Committing"}
    IN  IF c.operation \/ c.recovery = "QUARANTINED" THEN "attempt_denied"
        ELSE IF s \in c.trusted
        THEN IF c.recovery = "PAIRED_TRUSTED" THEN "reconnect_authorized"
                                              ELSE "attempt_denied"
        ELSE IF pairing THEN "pairing_authorized" ELSE "attempt_denied"

\* admit: the connection already is the candidate's, or becomes it, or is
\* cancelled.
admits(c, s) ==
    /\ c.phase = "OpenEmpty" /\ c.window # "none"
    /\ s \notin c.trusted

admitOutcome(c, s, n) ==
    IF c.operation \/ (c.selecting /\
                       ~selectedCandidateMatchesLocked(c, s))
    THEN "refused"
    ELSE IF /\ sameCandidate(c, s, n)
            /\ c.phase \in {"CandidatePending", "TransientTrusted",
                            "Committing"}
    THEN c.phase
    ELSE IF admits(c, s) THEN "admitted" ELSE "refused"

admit(c, s, n) ==
    CASE admitOutcome(c, s, n) = "refused" -> cancelRemoteLocked(c, s, n)
      [] admitOutcome(c, s, n) = "admitted" ->
            [c EXCEPT !.phase = "CandidatePending", !.timer = "candidate",
                      !.cand = [ski |-> s, conn |-> n,
                                generation |-> c.generation,
                                due |-> FALSE, ship |-> FALSE, tls |-> FALSE,
                                completed |-> FALSE, authorized |-> FALSE,
                                registered |-> FALSE, revoked |-> FALSE]]
      [] OTHER -> c

binds(c, s, n) ==
    /\ sameCandidate(c, s, n) /\ c.phase = "CandidatePending"
    /\ c.selecting => selectedCandidateMatchesLocked(c, s)

remoteSKIConnected(c, s, n) ==
    IF binds(c, s, n) THEN [c EXCEPT !.cand.tls = TRUE] ELSE c

\* Mutant: the evidence of the connection is taken for the confirmation.
beginUnconfirmedCommit(c) ==
    IF c.cand.ship /\ c.cand.completed THEN startCommit(c) ELSE c

\* beginTransientCommitLocked: start the commit once everything is there.
beginTransientCommitLocked(c) ==
    IF ~(/\ c.phase = "TransientTrusted" /\ c.cand.authorized
         /\ c.cand.registered /\ c.cand.ship /\ c.cand.completed)
    THEN c
    ELSE IF c.generation # c.cand.generation THEN loseCandidate(c, TRUE)
    ELSE startCommit(c)

heard(c, s, n) ==
    /\ c.phase \in {"CandidatePending", "TransientTrusted"}
    /\ sameCandidate(c, s, n)

serviceShipIDUpdate(c, s, n) ==
    IF ~heard(c, s, n) THEN c
    ELSE beginTransientCommitLocked([c EXCEPT !.cand.ship = TRUE])

connectionCompleted(c, s, n) ==
    IF ~heard(c, s, n) THEN c
    ELSE beginTransientCommitLocked([c EXCEPT !.cand.completed = TRUE])

\* The service has registered the transient peer (drainEffects).
completeTransientRegistration(c, s, n) ==
    IF /\ c.phase = "TransientTrusted" /\ sameCandidate(c, s, n)
       /\ c.cand.tls /\ selectedCandidateMatchesLocked(c, s)
    THEN beginTransientCommitLocked([c EXCEPT !.cand.registered = TRUE])
    ELSE c

\* Mutant: a disconnect takes the candidate from under its commit.
connectionClosedAnyPhase(c, s, n) ==
    IF sameCandidate(c, s, n) THEN loseCandidate(c, FALSE) ELSE c

connectionClosed(c, s, n) ==
    IF sameCandidate(c, s, n) /\ c.phase # "Committing"
    THEN loseCandidate(c, FALSE) ELSE c

-----------------------------------------------------------------------------
(* The commit and the shutdown.                                             *)

\* confirmWithRecoveryLocked until the publication.
publishes(c) == [c EXCEPT !.operation = TRUE]

\* Mutant: the association is not entered among the trusted remotes.
publishedOnly(c, s, outcome) ==
    IF outcome = "durable"
    THEN [c EXCEPT !.phase = "PairingClosed", !.recovery = "PAIRED_TRUSTED",
                   !.generation = @ + 1]
    ELSE [c EXCEPT !.phase = "PairingClosed"]

\* What the outcome of the publication makes of the coordinator.
published(c, s, outcome) ==
    CASE outcome = "durable" ->
           [c EXCEPT !.phase = "PairingClosed",
                     !.recovery = "PAIRED_TRUSTED", !.generation = @ + 1,
                     !.trusted = IF c.cand # NoCandidate THEN @ \cup {s}
                                 ELSE @]
      [] outcome = "unknown" ->
           [c EXCEPT !.phase = "Disabled", !.recovery = "QUARANTINED",
                     !.trusted = {}]
      [] OTHER -> [c EXCEPT !.phase = "PairingClosed"]

\* finishRecoveryConfirmationLocked until setWaitingLocked(false).
finishRecoveryConfirmationLocked(c, s, outcome) ==
    LET d == published(c, s, outcome)
        e == IF outcome = "durable" THEN d ELSE revokeTransientTrustLocked(d)
        f == finishCandidateSelectionLocked(
                 [e EXCEPT !.cand = NoCandidate], outcome # "durable")
    IN  setWaitingLocked([f EXCEPT !.window = "none", !.timer = "none"],
                         FALSE)

\* Mutant: the confirmation is never answered.
ConfirmationUnanswered(c, s, n, outcome, transient) ==
    effect(c, IF outcome = "durable" THEN "TransientFinalize" ELSE "Cancel",
           s, n)

\* ... and the rest of it, once the registration is off.
AfterConfirmation(c, s, n, outcome, transient) ==
    [effect(c, IF outcome # "durable" THEN "Cancel"
               ELSE IF transient THEN "TransientFinalize"
               ELSE "Register", s, n)
     EXCEPT !.operation = FALSE, !.inflight = FALSE]

shutdown(c) ==
    LET d == revokeTransientTrustLocked(c)
        e == IF c.cand = NoCandidate THEN c
             ELSE cancelRemoteLocked(d, c.cand.ski, c.cand.conn)
        f == finishCandidateSelectionLocked(e, TRUE)
    IN  setWaitingLocked([f EXCEPT !.timer = "none",
                                   !.lifecycle = [s \in SKIs |-> "absent"]],
                         FALSE)

AfterShutdown(c) ==
    [c EXCEPT !.phase = "Disabled", !.window = "none", !.cand = NoCandidate,
              !.trusted = {}, !.inflight = FALSE, !.operation = FALSE,
              !.attached = FALSE]

=============================================================================
