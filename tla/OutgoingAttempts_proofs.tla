---------------------- MODULE OutgoingAttempts_proofs ----------------------
(***************************************************************************)
(* Proofs about OutgoingAttempts, for every set of peers and every number  *)
(* of attempts, faults, revocations and restarts: every reservation is     *)
(* paid once, a permit whose context is open has its launch on disk, and   *)
(* a retry flag belongs to somebody.                                       *)
(***************************************************************************)
EXTENDS OutgoingAttempts, FiniteSetTheorems, TLAPS

-----------------------------------------------------------------------------
(* Types.                                                                  *)

Runs == {"up", "stopping", "unsettled", "down", "starting"}
State == [run : Runs, paired : BOOLEAN,
          recovery : {"open", "REVOKED", "QUARANTINED"},
          admissible : SUBSET Remotes, operation : BOOLEAN]
Retry == [inflight : SUBSET Remotes, waiting : SUBSET Remotes]
Bridge == [pending : [Remotes -> Ids \cup {None}],
           timers : SUBSET Remotes, observed : SUBSET Ids]
HubState == [handles : SUBSET Ids, permits : SUBSET Ids]

ContextsType ==
    /\ DOMAIN contexts \subseteq Ids
    /\ contexts \in [DOMAIN contexts -> Runtime]

TypeInv ==
    /\ disk \in Document /\ view \in Document
    /\ provider \in Anchor /\ anchor \in Anchor
    /\ state \in State
    /\ ContextsType
    /\ retry \in Retry
    /\ bridge \in Bridge
    /\ hub \in HubState
    /\ call \in [Lanes -> Locals]
    /\ started \in [Remotes -> Nat]
    /\ drawn \in 0..MaxAttempts
    /\ disturbances \in 0..MaxDisturbances

LEMMA TypeInvIsTypeOK == TypeInv => TypeOK
BY DEF TypeInv, TypeOK, ContextsType, State, Runs, Retry, Bridge, HubState

\* Documents.
LEMMA EmptyType == empty \in Document /\ clean \in Anchor /\ unused \in Locals
<1>1. empty \in Document
  BY DEF empty, Document, Quarantine
<1>2. clean \in Anchor
  BY DEF clean, Anchor
<1>3. unused \in Locals
  BY <1>1, <1>2 DEF unused, Locals, Places
<1> QED BY <1>1, <1>2, <1>3

LEMMA AdvancedType ==
    ASSUME NEW d \in Document
    PROVE  /\ advanced(d) \in Document
           /\ advanced(d).epoch = d.epoch + 1
           /\ advanced(d).attempts = d.attempts
           /\ advanced(d).quarantine = d.quarantine
           /\ advanced(d).revoked = d.revoked
BY DEF advanced, Document

LEMMA NextBackoffType ==
    ASSUME NEW n \in Nat
    PROVE  firstTrustNextBackoff(n) \in Nat
BY DEF firstTrustNextBackoff

LEMMA ChargeType ==
    ASSUME NEW d \in Document, NEW a \in Attempt
    PROVE  /\ firstTrustChargeOutgoingAttemptFailure(d, a) \in Document
           /\ firstTrustChargeOutgoingAttemptFailure(d, a).attempts = d.attempts \ {a}
           /\ firstTrustChargeOutgoingAttemptFailure(d, a).revoked = d.revoked
           /\ firstTrustChargeOutgoingAttemptFailure(d, a).epoch = d.epoch
           /\ \A r \in Remotes : r # a.remote =>
                firstTrustChargeOutgoingAttemptFailure(d, a).quarantine[r]
                  = d.quarantine[r]
<1> DEFINE count == IF d.quarantine[a.remote].count < a.before
                    THEN a.before ELSE d.quarantine[a.remote].count
           next == firstTrustNextBackoff(count)
           charge == [count |-> next,
                      state |-> IF next = AttemptMaximum THEN "ADMIN_HOLD"
                                ELSE "BACKOFF_ACTIVE"]
<1>1. a.remote \in Remotes /\ a.before \in Nat
  BY DEF Attempt
<1>2. d.quarantine \in [Remotes -> Quarantine]
  BY DEF Document
<1>3. count \in Nat
  BY <1>1, <1>2 DEF Quarantine
<1>4. next \in Nat
  BY <1>3, NextBackoffType
<1> HIDE DEF next, count
<1>5. charge \in Quarantine
  BY <1>4 DEF Quarantine
<1>6. firstTrustChargeOutgoingAttemptFailure(d, a)
        = [d EXCEPT !.attempts = @ \ {a}, !.quarantine[a.remote] = charge]
  BY DEF firstTrustChargeOutgoingAttemptFailure, count, next
<1> HIDE DEF charge
<1> DEFINE e == firstTrustChargeOutgoingAttemptFailure(d, a)
<1>7. d = [epoch |-> d.epoch, attempts |-> d.attempts,
           quarantine |-> d.quarantine, revoked |-> d.revoked]
  BY DEF Document
<1>8. e = [epoch |-> d.epoch, attempts |-> d.attempts \ {a},
           quarantine |-> [d.quarantine EXCEPT ![a.remote] = charge],
           revoked |-> d.revoked]
  BY <1>6, <1>7
<1>9. [d.quarantine EXCEPT ![a.remote] = charge] \in [Remotes -> Quarantine]
  BY <1>1, <1>2, <1>5
<1>10. d.epoch \in Nat /\ d.attempts \ {a} \in SUBSET Attempt /\ d.revoked \in SUBSET Remotes
  BY DEF Document
<1> HIDE DEF e
<1>11. e \in Document
  BY <1>8, <1>9, <1>10 DEF Document
<1>12. \A r \in Remotes : r # a.remote => e.quarantine[r] = d.quarantine[r]
  BY <1>8, <1>2
<1> QED
  BY <1>8, <1>11, <1>12 DEF e

LEMMA ResetType ==
    ASSUME NEW d \in Document, NEW r \in Remotes
    PROVE  /\ firstTrustResetOutgoingAttemptRetry(d, r) \in Document
           /\ firstTrustResetOutgoingAttemptRetry(d, r).attempts = d.attempts
           /\ firstTrustResetOutgoingAttemptRetry(d, r).revoked = d.revoked
           /\ firstTrustResetOutgoingAttemptRetry(d, r).epoch = d.epoch
           /\ \A q \in Remotes : q # r =>
                firstTrustResetOutgoingAttemptRetry(d, r).quarantine[q]
                  = d.quarantine[q]
           /\ firstTrustResetOutgoingAttemptRetry(d, r).quarantine[r]
                = IF d.quarantine[r].state = "none" THEN d.quarantine[r]
                  ELSE [state |-> "RETRY_READY", count |-> 0]
BY DEF firstTrustResetOutgoingAttemptRetry, Document, Quarantine

LEMMA ReservationType ==
    ASSUME TypeInv, NEW r \in Remotes, NEW id \in Ids, NEW failed
    PROVE  LET e == withReservation(r, id, failed)
               new == [id |-> id, remote |-> r, before |-> view.quarantine[r].count,
                       state |-> "ATTEMPT_RESERVED"]
           IN  /\ e \in Document
               /\ e.epoch = view.epoch
               /\ e.attempts = (view.attempts \ exact(failed)) \cup {new}
               /\ e.revoked = view.revoked
               /\ e.quarantine[r] = [view.quarantine[r] EXCEPT !.state = "RETRY_READY"]
               /\ \A q \in Remotes : q # r => e.quarantine[q] = view.quarantine[q]
<1> DEFINE e == withReservation(r, id, failed)
           new == [id |-> id, remote |-> r, before |-> view.quarantine[r].count,
                   state |-> "ATTEMPT_RESERVED"]
           ready == [view.quarantine[r] EXCEPT !.state = "RETRY_READY"]
           kept == view.attempts \ exact(failed)
<1>1. view \in Document
  BY DEF TypeInv
<1>2. view.quarantine \in [Remotes -> Quarantine]
  BY <1>1 DEF Document
<1>3. ready \in Quarantine /\ view.quarantine[r].count \in Nat
  BY <1>2 DEF Quarantine
<1>4. new \in Attempt
  BY <1>3 DEF Attempt
<1>5. e = [view EXCEPT !.quarantine[r] = ready, !.attempts = kept \cup {new}]
  BY DEF withReservation
<1> HIDE DEF ready, new, kept
<1>6. view = [epoch |-> view.epoch, attempts |-> view.attempts,
              quarantine |-> view.quarantine, revoked |-> view.revoked]
  BY <1>1 DEF Document
<1>7. e = [epoch |-> view.epoch, attempts |-> kept \cup {new},
           quarantine |-> [view.quarantine EXCEPT ![r] = ready],
           revoked |-> view.revoked]
  BY <1>5, <1>6
<1>8. [view.quarantine EXCEPT ![r] = ready] \in [Remotes -> Quarantine]
  BY <1>2, <1>3
<1>9. /\ view.epoch \in Nat /\ view.revoked \in SUBSET Remotes
      /\ kept \cup {new} \in SUBSET Attempt
  BY <1>1, <1>4 DEF Document, kept
<1> HIDE DEF e
<1>10. e \in Document
  BY <1>7, <1>8, <1>9 DEF Document
<1>11. e.quarantine[r] = ready /\ \A q \in Remotes : q # r =>
         e.quarantine[q] = view.quarantine[q]
  BY <1>7, <1>2
<1> QED
  BY <1>7, <1>10, <1>11 DEF e, new, ready, kept

LEMMA ChargedType ==
    ASSUME NEW d \in Document
    PROVE  /\ charged(d) \in Document
           /\ charged(d).epoch = d.epoch /\ charged(d).attempts = {}
           /\ charged(d).revoked = d.revoked
           /\ \A r \in Remotes : charged(d).quarantine[r]
                = IF attemptsOf(d, r) = {} THEN d.quarantine[r]
                  ELSE firstTrustChargeOutgoingAttemptFailure(
                         d, CHOOSE a \in attemptsOf(d, r) : TRUE).quarantine[r]
<1> DEFINE q(r) == IF attemptsOf(d, r) = {} THEN d.quarantine[r]
                   ELSE firstTrustChargeOutgoingAttemptFailure(
                          d, CHOOSE a \in attemptsOf(d, r) : TRUE).quarantine[r]
<1>1. \A r \in Remotes : q(r) \in Quarantine
  <2> TAKE r \in Remotes
  <2>1. d.quarantine \in [Remotes -> Quarantine] /\ attemptsOf(d, r) \subseteq Attempt
    BY DEF Document, attemptsOf
  <2>2. CASE attemptsOf(d, r) = {}
    BY <2>1, <2>2
  <2>3. CASE attemptsOf(d, r) # {}
    <3> DEFINE a == CHOOSE a \in attemptsOf(d, r) : TRUE
    <3>1. a \in Attempt
      BY <2>1, <2>3
    <3> HIDE DEF a
    <3>2. firstTrustChargeOutgoingAttemptFailure(d, a) \in Document
      BY <3>1, ChargeType
    <3>3. firstTrustChargeOutgoingAttemptFailure(d, a).quarantine[r] \in Quarantine
      BY <3>2 DEF Document
    <3> QED BY <2>3, <3>3 DEF a
  <2> QED BY <2>2, <2>3
<1>2. charged(d) = [d EXCEPT !.attempts = {},
                             !.quarantine = [r \in Remotes |-> q(r)]]
  BY DEF charged
<1> HIDE DEF q
<1> DEFINE qs == [r \in Remotes |-> q(r)]
<1>3. qs \in [Remotes -> Quarantine] /\ \A r \in Remotes : qs[r] = q(r)
  BY <1>1
<1> HIDE DEF qs
<1>4. charged(d) = [d EXCEPT !.attempts = {}, !.quarantine = qs]
  BY <1>2 DEF qs
<1>5. /\ charged(d) \in Document
      /\ charged(d).epoch = d.epoch /\ charged(d).attempts = {}
      /\ charged(d).revoked = d.revoked /\ charged(d).quarantine = qs
  BY <1>3, <1>4 DEF Document
<1> QED BY <1>3, <1>5 DEF q

LEMMA ReleasedType ==
    ASSUME NEW d \in Document
    PROVE  /\ released(d) \in Document
           /\ released(d).epoch = d.epoch /\ released(d).attempts = d.attempts
           /\ released(d).revoked = d.revoked
           /\ \A r \in Remotes : released(d).quarantine[r]
                = IF held(d, r) /\ r \notin d.revoked
                  THEN [state |-> "RETRY_READY", count |-> 0]
                  ELSE d.quarantine[r]
<1> DEFINE q(r) == IF held(d, r) /\ r \notin d.revoked
                   THEN firstTrustResetOutgoingAttemptRetry(d, r).quarantine[r]
                   ELSE d.quarantine[r]
           e(r) == IF held(d, r) /\ r \notin d.revoked
                   THEN [state |-> "RETRY_READY", count |-> 0]
                   ELSE d.quarantine[r]
<1>0. d.quarantine \in [Remotes -> Quarantine]
  BY DEF Document
<1>1. \A r \in Remotes : q(r) = e(r) /\ e(r) \in Quarantine
  <2> TAKE r \in Remotes
  <2>1. held(d, r) => d.quarantine[r].state # "none"
    BY DEF held
  <2>2. held(d, r) => firstTrustResetOutgoingAttemptRetry(d, r).quarantine[r]
                        = [state |-> "RETRY_READY", count |-> 0]
    BY <2>1, ResetType
  <2>3. [state |-> "RETRY_READY", count |-> 0] \in Quarantine /\ d.quarantine[r] \in Quarantine
    BY <1>0 DEF Quarantine
  <2> QED BY <2>2, <2>3
<1>2. released(d) = [d EXCEPT !.quarantine = [r \in Remotes |-> q(r)]]
  BY DEF released
<1> HIDE DEF q, e
<1> DEFINE qs == [r \in Remotes |-> q(r)]
<1>3. qs \in [Remotes -> Quarantine] /\ \A r \in Remotes : qs[r] = e(r)
  BY <1>1
<1> HIDE DEF qs
<1>4. released(d) = [d EXCEPT !.quarantine = qs]
  BY <1>2 DEF qs
<1>5. /\ released(d) \in Document
      /\ released(d).epoch = d.epoch /\ released(d).attempts = d.attempts
      /\ released(d).revoked = d.revoked /\ released(d).quarantine = qs
  BY <1>3, <1>4 DEF Document
<1> QED BY <1>3, <1>5 DEF e

-----------------------------------------------------------------------------
(* How a lane changes.                                                     *)

\* Only lane l changes.
AtLane(l) ==
    /\ call' \in [Lanes -> Locals]
    /\ \A m \in Lanes : m # l => call'[m] = call[m]

LEMMA LaneSet ==
    ASSUME TypeInv, NEW l \in Lanes, NEW c \in Locals,
           call' = [call EXCEPT ![l] = c]
    PROVE  AtLane(l) /\ call'[l] = c
BY DEF TypeInv, AtLane

LEMMA Enters ==
    ASSUME TypeInv, NEW l \in Lanes, NEW op \in Operations, NEW id \in Ids,
           NEW by \in {"hub", "close", "handshake", "lease", "settle", "shutdown"},
           NEW tries \in 0..2, enters(l, op, id, by, tries)
    PROVE  /\ AtLane(l)
           /\ call'[l].at = "enter" /\ call'[l].op = op /\ call'[l].id = id
           /\ call'[l].by = by /\ call'[l].tries = tries
           /\ call'[l].failed = None /\ call'[l].removed = {}
           /\ call'[l].target = empty /\ call'[l].outcome = None
<1> DEFINE c == [unused EXCEPT !.at = "enter", !.op = op, !.id = id,
                               !.by = by, !.tries = tries]
<1>1. c \in Locals
  BY EmptyType DEF Locals, Places
<1>2. call' = [call EXCEPT ![l] = c]
  BY DEF enters
<1>3. /\ c.at = "enter" /\ c.op = op /\ c.id = id
      /\ c.by = by /\ c.tries = tries
      /\ c.failed = None /\ c.removed = {}
      /\ c.target = empty /\ c.outcome = None
  BY DEF unused
<1> HIDE DEF c
<1> QED BY <1>1, <1>2, <1>3, LaneSet

LEMMA Ends ==
    ASSUME TypeInv, NEW l \in Lanes, ends(l)
    PROVE  AtLane(l) /\ call'[l] = unused
BY EmptyType, LaneSet DEF ends

LEMMA Builds ==
    ASSUME TypeInv, NEW l \in Lanes, NEW c \in Locals, NEW target \in Document,
           builds(l, c, target)
    PROVE  /\ AtLane(l)
           /\ call'[l].at = "begin" /\ call'[l].target = advanced(target)
           /\ call'[l].op = c.op /\ call'[l].id = c.id
           /\ call'[l].failed = c.failed /\ call'[l].removed = c.removed
           /\ call'[l].outcome = c.outcome /\ call'[l].by = c.by
           /\ call'[l].tries = c.tries
<1> DEFINE e == [c EXCEPT !.at = "begin", !.target = advanced(target)]
<1>1. advanced(target) \in Document
  BY AdvancedType
<1>2. e \in Locals
  BY <1>1 DEF Locals, Places
<1>3. /\ e.at = "begin" /\ e.target = advanced(target)
      /\ e.op = c.op /\ e.id = c.id /\ e.failed = c.failed
      /\ e.removed = c.removed /\ e.outcome = c.outcome /\ e.by = c.by
      /\ e.tries = c.tries
  BY DEF Locals
<1>4. call' = [call EXCEPT ![l] = e]
  BY DEF builds
<1> HIDE DEF e
<1> QED BY <1>2, <1>3, <1>4, LaneSet

LEMMA Published ==
    ASSUME TypeInv, NEW l \in Lanes, NEW outcome \in Outcomes,
           published(l, outcome)
    PROVE  /\ AtLane(l)
           /\ call'[l].at = "finish" /\ call'[l].outcome = outcome
           /\ call'[l].target = call[l].target
           /\ call'[l].op = call[l].op /\ call'[l].id = call[l].id
           /\ call'[l].failed = call[l].failed /\ call'[l].removed = call[l].removed
           /\ call'[l].by = call[l].by /\ call'[l].tries = call[l].tries
<1> DEFINE c == call[l]
           a == [highWater |-> IF outcome = "durable" THEN c.target.epoch
                               ELSE c.anchor.highWater,
                 pending |-> outcome = "unknown"]
           e == [c EXCEPT !.at = "finish", !.outcome = outcome, !.anchor = a]
<1>1. c \in Locals /\ c.anchor \in Anchor /\ c.target.epoch \in Nat
  BY DEF TypeInv, Locals, Document
<1>2. a \in Anchor
  BY <1>1 DEF Anchor
<1>5. call' = [call EXCEPT ![l] = e]
  BY DEF published
<1> HIDE DEF a
<1>6. e \in Locals
  BY <1>1, <1>2 DEF Locals, Places
<1>7. /\ e.at = "finish" /\ e.outcome = outcome /\ e.target = c.target
      /\ e.op = c.op /\ e.id = c.id /\ e.failed = c.failed
      /\ e.removed = c.removed /\ e.by = c.by /\ e.tries = c.tries
  BY <1>1 DEF Locals
<1> HIDE DEF e
<1> QED BY <1>5, <1>6, <1>7, LaneSet

-----------------------------------------------------------------------------
(* How contexts change.                                                    *)

LEMMA Without ==
    ASSUME TypeInv, NEW S, contexts' = without(contexts, S)
    PROVE  /\ ContextsType'
           /\ DOMAIN contexts' = DOMAIN contexts \ S
           /\ \A i \in DOMAIN contexts' : contexts'[i] = contexts[i]
BY DEF TypeInv, ContextsType, without

\* The context of id is settled, nothing else changes.
SettledAs(id, s) ==
    /\ DOMAIN contexts' = DOMAIN contexts
    /\ \A i \in DOMAIN contexts' :
         /\ contexts'[i].remote = contexts[i].remote
         /\ contexts'[i].settlement = IF i = id THEN s ELSE contexts[i].settlement

LEMMA Settles ==
    ASSUME TypeInv, NEW id,
           NEW s \in {"", "success", "durability_unknown"},
           contexts' = [contexts EXCEPT ![id].settlement = s]
    PROVE  ContextsType' /\ SettledAs(id, s)
<1>1. \A i \in DOMAIN contexts : contexts[i] \in Runtime
  BY DEF TypeInv, ContextsType
<1>2. DOMAIN contexts' = DOMAIN contexts
  OBVIOUS
<1>3. \A i \in DOMAIN contexts : contexts'[i] = IF i = id THEN [contexts[i] EXCEPT !.settlement = s]
                                                ELSE contexts[i]
  OBVIOUS
<1>4. \A i \in DOMAIN contexts :
        /\ contexts'[i] \in Runtime
        /\ contexts'[i].remote = contexts[i].remote
        /\ contexts'[i].settlement = IF i = id THEN s ELSE contexts[i].settlement
  BY <1>1, <1>3 DEF Runtime
<1>5. contexts' \in [DOMAIN contexts -> Runtime]
  BY <1>4
<1> QED BY <1>2, <1>4, <1>5 DEF ContextsType, TypeInv, SettledAs

LEMMA Lapses ==
    ASSUME TypeInv, NEW id, contexts' = [contexts EXCEPT ![id].due = TRUE]
    PROVE  /\ ContextsType'
           /\ DOMAIN contexts' = DOMAIN contexts
           /\ \A i \in DOMAIN contexts' :
                /\ contexts'[i].remote = contexts[i].remote
                /\ contexts'[i].settlement = contexts[i].settlement
<1>1. \A i \in DOMAIN contexts : contexts[i] \in Runtime
  BY DEF TypeInv, ContextsType
<1>2. DOMAIN contexts' = DOMAIN contexts
  OBVIOUS
<1>3. \A i \in DOMAIN contexts : contexts'[i] = IF i = id THEN [contexts[i] EXCEPT !.due = TRUE]
                                                ELSE contexts[i]
  OBVIOUS
<1>4. \A i \in DOMAIN contexts :
        /\ contexts'[i] \in Runtime
        /\ contexts'[i].remote = contexts[i].remote
        /\ contexts'[i].settlement = contexts[i].settlement
  BY <1>1, <1>3 DEF Runtime
<1>5. contexts' \in [DOMAIN contexts -> Runtime]
  BY <1>4
<1> QED BY <1>2, <1>4, <1>5 DEF ContextsType, TypeInv

\* A context is registered, and those of S end.
RegisteredAs(r, id, S) ==
    /\ DOMAIN contexts' = (DOMAIN contexts \cup {id}) \ S
    /\ \A i \in DOMAIN contexts' : i # id => contexts'[i] = contexts[i]
    /\ id \in DOMAIN contexts' => contexts'[id].remote = r /\ contexts'[id].settlement = ""

LEMMA Registers ==
    ASSUME TypeInv, NEW r \in Remotes, NEW id \in Ids, NEW S,
           contexts' = without(registered(r, id), S)
    PROVE  ContextsType' /\ RegisteredAs(r, id, S)
<1>1. \A i \in DOMAIN contexts : contexts[i] \in Runtime
  BY DEF TypeInv, ContextsType
<1>2. DOMAIN registered(r, id) = DOMAIN contexts \cup {id}
  BY DEF registered
<1>3. \A i \in DOMAIN contexts \cup {id} : registered(r, id)[i] =
        IF i = id THEN [remote |-> r, due |-> FALSE, settlement |-> ""] ELSE contexts[i]
  BY DEF registered
<1>4. [remote |-> r, due |-> FALSE, settlement |-> ""] \in Runtime
  BY DEF Runtime
<1>5. DOMAIN contexts' = (DOMAIN contexts \cup {id}) \ S
  BY <1>2 DEF without
<1>6. \A i \in DOMAIN contexts' : contexts'[i] = registered(r, id)[i]
  BY <1>2 DEF without
<1>7. \A i \in DOMAIN contexts' : contexts'[i] \in Runtime
  BY <1>1, <1>3, <1>4, <1>5, <1>6
<1>8. contexts' = [i \in DOMAIN contexts' |-> contexts'[i]]
  BY DEF without
<1>9. contexts' \in [DOMAIN contexts' -> Runtime]
  BY <1>7, <1>8
<1>10. ContextsType'
  BY <1>5, <1>9 DEF ContextsType, TypeInv
<1>11. RegisteredAs(r, id, S)
  <2>1. \A i \in DOMAIN contexts' : i # id => contexts'[i] = contexts[i]
    BY <1>3, <1>5, <1>6
  <2> DEFINE new == [remote |-> r, due |-> FALSE, settlement |-> ""]
  <2>2. id \in DOMAIN contexts' => contexts'[id] = new
    BY <1>3, <1>5, <1>6
  <2>3. new.remote = r /\ new.settlement = ""
    OBVIOUS
  <2> HIDE DEF new
  <2>4. id \in DOMAIN contexts' => contexts'[id].remote = r /\ contexts'[id].settlement = ""
    BY <2>2, <2>3, Zenon
  <2> QED BY <1>5, <2>1, <2>4 DEF RegisteredAs
<1> QED BY <1>10, <1>11

LEMMA NoContexts ==
    ASSUME contexts' = <<>>
    PROVE  ContextsType' /\ DOMAIN contexts' = {}
BY DEF ContextsType

-----------------------------------------------------------------------------
(* Type correctness.                                                       *)

LEMMA InitType == Init => TypeInv
<1> SUFFICES ASSUME Init PROVE TypeInv
  OBVIOUS
<1>1. /\ disk \in Document /\ view \in Document
      /\ provider \in Anchor /\ anchor \in Anchor
  BY EmptyType DEF Init
<1>2. state \in State
  BY DEF Init, State, Runs
<1>3. ContextsType
  BY DEF Init, ContextsType
<1>4. retry \in Retry /\ bridge \in Bridge /\ hub \in HubState
  BY DEF Init, Retry, Bridge, HubState, quiet, nobody
<1>5. call \in [Lanes -> Locals]
  BY EmptyType DEF Init
<1> QED
  BY <1>1, <1>2, <1>3, <1>4, <1>5, AttemptsAssumption DEF Init, TypeInv

LEMMA Disturbed ==
    ASSUME TypeInv, disturbed
    PROVE  disturbances' \in 0..MaxDisturbances
BY AttemptsAssumption DEF TypeInv, disturbed

LEMMA LaneTypes ==
    ASSUME TypeInv, NEW l \in Lanes
    PROVE  /\ call[l] \in Locals /\ call[l].target \in Document
           /\ call[l].target.epoch \in Nat /\ call[l].anchor \in Anchor
           /\ call[l].id \in Ids \cup {None} /\ call[l].failed \in Ids \cup {None}
           /\ call[l].removed \subseteq Ids
           /\ call[l].by \in {"hub", "close", "handshake", "lease", "settle", "shutdown"}
           /\ call[l].tries \in 0..2
BY DEF TypeInv, Locals, Document

LEMMA PeerIsLane == \A r \in Remotes : r \in Lanes /\ r # Operator
BY AttemptsAssumption DEF Lanes

LEMMA BeginLane ==
    ASSUME TypeInv, NEW l \in Lanes, Begin(l)
    PROVE  /\ AtLane(l)
           /\ call'[l].target = call[l].target
           /\ call'[l].op = call[l].op /\ call'[l].id = call[l].id
           /\ call'[l].failed = call[l].failed /\ call'[l].removed = call[l].removed
           /\ \/ /\ call[l].target.epoch = view.epoch + 1
                 /\ call'[l].at = "commit" /\ call'[l].outcome = call[l].outcome
              \/ call'[l].at = "after" /\ call'[l].outcome = "unchanged"
<1> DEFINE c == call[l]
           e == IF c.target.epoch = view.epoch + 1
                THEN [c EXCEPT !.at = "commit", !.anchor = anchor]
                ELSE [c EXCEPT !.at = "after", !.outcome = "unchanged"]
<1>1. c \in Locals /\ anchor \in Anchor
  BY DEF TypeInv
<1>2. e \in Locals
  BY <1>1 DEF Locals, Places, Outcomes
<1>3. /\ e.target = c.target /\ e.op = c.op /\ e.id = c.id
      /\ e.failed = c.failed /\ e.removed = c.removed
      /\ \/ /\ c.target.epoch = view.epoch + 1
            /\ e.at = "commit" /\ e.outcome = c.outcome
         \/ e.at = "after" /\ e.outcome = "unchanged"
  BY <1>1 DEF Locals
<1>4. call' = [call EXCEPT ![l] = e]
  BY DEF Begin
<1> HIDE DEF e
<1> QED BY <1>2, <1>3, <1>4, LaneSet

LEMMA FinishLane ==
    ASSUME TypeInv, NEW l \in Lanes, Finish(l)
    PROVE  /\ AtLane(l)
           /\ call'[l].at = "after" /\ call'[l].outcome = call[l].outcome
           /\ call'[l].target = call[l].target
           /\ call'[l].op = call[l].op /\ call'[l].id = call[l].id
           /\ call'[l].failed = call[l].failed /\ call'[l].removed = call[l].removed
<1> DEFINE e == [call[l] EXCEPT !.at = "after"]
<1>1. call[l] \in Locals
  BY DEF TypeInv
<1>2. e \in Locals
  BY <1>1 DEF Locals, Places
<1>3. /\ e.at = "after" /\ e.outcome = call[l].outcome
      /\ e.target = call[l].target /\ e.op = call[l].op /\ e.id = call[l].id
      /\ e.failed = call[l].failed /\ e.removed = call[l].removed
  BY <1>1 DEF Locals
<1>4. call' = [call EXCEPT ![l] = e]
  BY DEF Finish, TypeInv
<1> HIDE DEF e
<1> QED BY <1>2, <1>3, <1>4, LaneSet

LEMMA CountedType ==
    ASSUME TypeInv, NEW l \in Lanes
    PROVE  counted(l) \in [Remotes -> Nat]
<1> DEFINE v(r) == CASE call[l].op = "prepare" /\ r = l /\ call[l].failed = None -> started[r] + 1
         [] call[l].op = "success" /\ r = l -> 0
         [] call[l].op = "release" /\ call[l].target.quarantine[r] # disk.quarantine[r] -> 0
         [] call[l].op = "revoke" /\ r \in call[l].target.revoked \ disk.revoked ->
              disk.quarantine[r].count
         [] OTHER -> started[r]
<1>1. \A r \in Remotes : v(r) \in Nat
  BY DEF TypeInv, Document, Quarantine
<1>2. counted(l) = [r \in Remotes |-> v(r)]
  BY DEF counted
<1> HIDE DEF v
<1> QED BY <1>1, <1>2

LEMMA PublishingType ==
    ASSUME TypeInv, NEW l \in Lanes, Publishing(l)
    PROVE  TypeInv'
<1>1. CASE Begin(l)
  BY <1>1, BeginLane DEF Begin, TypeInv, AtLane, ContextsType, durable, memory, counters
<1>2. CASE Commit(l)
  <2>1. AtLane(l)
    BY <1>2, Published DEF Commit, Outcomes
  <2>2. started' \in [Remotes -> Nat] /\ disk' \in Document
    BY <1>2, CountedType, LaneTypes DEF Commit
  <2>3. provider' \in Anchor
    BY <1>2, LaneTypes DEF Commit, Anchor
  <2> QED BY <1>2, <2>1, <2>2, <2>3 DEF Commit, TypeInv, AtLane, ContextsType, memory
<1>3. CASE CommitRefused(l)
  <2>1. AtLane(l)
    BY <1>3, Published DEF CommitRefused, Outcomes
  <2>2. disturbances' \in 0..MaxDisturbances
    BY <1>3, Disturbed DEF CommitRefused, fails, calm, TypeInv
  <2> QED BY <1>3, <2>1, <2>2 DEF CommitRefused, TypeInv, AtLane, ContextsType, memory, durable
<1>4. CASE CommitUnknown(l)
  <2>1. AtLane(l)
    BY <1>4, Published DEF CommitUnknown, Outcomes
  <2>2. disturbances' \in 0..MaxDisturbances
    BY <1>4, Disturbed DEF CommitUnknown, fails, TypeInv
  <2>3. started' \in [Remotes -> Nat] /\ disk' \in Document
    BY <1>4, CountedType, LaneTypes DEF CommitUnknown, TypeInv
  <2>4. provider' \in Anchor
    BY <1>4 DEF CommitUnknown, Anchor, TypeInv
  <2> QED BY <1>4, <2>1, <2>2, <2>3, <2>4 DEF CommitUnknown, TypeInv, AtLane, ContextsType, memory
<1>5. CASE Finish(l)
  <2>1. AtLane(l)
    BY <1>5, FinishLane
  <2>2. view' \in Document /\ anchor' \in Anchor
    BY <1>5, LaneTypes DEF Finish, TypeInv
  <2>3. state' \in State
    BY <1>5 DEF Finish, TypeInv, quarantine, State
  <2> QED BY <1>5, <2>1, <2>2, <2>3 DEF Finish, TypeInv, AtLane, ContextsType, durable, counters
<1> QED BY <1>1, <1>2, <1>3, <1>4, <1>5 DEF Publishing

\* A busy lane of a peer works on an attempt.
LaneOps == {"prepare", "authorize", "abort", "failure", "success"}
Busy ==
    \A r \in Remotes : call[r].at # "idle" =>
      /\ call[r].op \in LaneOps /\ call[r].id \in Ids
      /\ call[r].at = "enter" => call[r].tries < 2

LEMMA RecordIs ==
    ASSUME TypeInv, NEW id, exact(id) # {}
    PROVE  /\ record(id) \in view.attempts /\ record(id).id = id
           /\ record(id) \in Attempt /\ record(id).remote \in Remotes
BY DEF exact, record, TypeInv, Document, Attempt

LEMMA LaunchedIs ==
    /\ \A id : launched(id) => exact(id) # {}
    /\ \A id : reserved(id) => exact(id) # {}
BY DEF launched, reserved

LEMMA SettledType ==
    ASSUME TypeInv, NEW r \in Remotes, NEW o
    PROVE  settled(r, o) \in Retry /\ settled(r, o).inflight = retry.inflight \ {r}
BY DEF TypeInv, settled, armed, Retry

LEMMA ClearedType ==
    ASSUME TypeInv, NEW r \in Remotes, NEW id
    PROVE  /\ cleared(r, id) \in Bridge
           /\ \A q \in Remotes :
                cleared(r, id).pending[q] \in {None, bridge.pending[q]}
<1> DEFINE p == [bridge.pending EXCEPT ![r] = IF @ = id THEN None ELSE @]
           t == IF bridge.pending[r] = id THEN bridge.timers \ {r} ELSE bridge.timers
           o == bridge.observed \ {id}
<1>1. /\ bridge.pending \in [Remotes -> Ids \cup {None}]
      /\ bridge.timers \subseteq Remotes /\ bridge.observed \subseteq Ids
      /\ bridge = [pending |-> bridge.pending, timers |-> bridge.timers,
                   observed |-> bridge.observed]
  BY DEF TypeInv, Bridge
<1>2. /\ p \in [Remotes -> Ids \cup {None}] /\ t \subseteq Remotes /\ o \subseteq Ids
      /\ \A q \in Remotes : p[q] \in {None, bridge.pending[q]}
  BY <1>1
<1>3. cleared(r, id) = [pending |-> p, timers |-> t, observed |-> o]
  BY DEF cleared
<1> HIDE DEF p, t, o
<1> QED BY <1>2, <1>3 DEF Bridge

LEMMA ReportsType ==
    ASSUME TypeInv, NEW by, NEW ok, reports(by, ok)
    PROVE  /\ state' \in State
           /\ state'.paired = state.paired /\ state'.recovery = state.recovery
           /\ state'.admissible = state.admissible
           /\ state'.run \in {state.run, "unsettled"}
           /\ state'.run # state.run => by = "shutdown"
BY DEF TypeInv, reports, State, Runs

LEMMA QuarantineType ==
    ASSUME TypeInv
    PROVE  /\ quarantine \in State
           /\ quarantine.paired = state.paired /\ quarantine.run = state.run
           /\ quarantine.admissible = {} /\ quarantine.recovery = "QUARANTINED"
           /\ quarantine.operation = state.operation
BY DEF TypeInv, quarantine, State

LEMMA PendingType ==
    ASSUME TypeInv, NEW r \in Remotes, NEW id \in Ids \cup {None},
           NEW T \in SUBSET Remotes
    PROVE  LET b == [bridge EXCEPT !.pending[r] = id, !.timers = T]
           IN  /\ b \in Bridge
               /\ \A q \in Remotes :
                    b.pending[q] = IF q = r THEN id ELSE bridge.pending[q]
<1> DEFINE p == [bridge.pending EXCEPT ![r] = id]
           b == [bridge EXCEPT !.pending[r] = id, !.timers = T]
<1>1. bridge \in Bridge /\ bridge.pending \in [Remotes -> Ids \cup {None}]
  BY DEF TypeInv, Bridge
<1>2. /\ p \in [Remotes -> Ids \cup {None}]
      /\ \A q \in Remotes : p[q] = IF q = r THEN id ELSE bridge.pending[q]
  BY <1>1
<1>3. b = [[bridge EXCEPT !.pending = p] EXCEPT !.timers = T]
  OBVIOUS
<1> HIDE DEF p
<1>4. b \in Bridge /\ b.pending = p
  BY <1>1, <1>2, <1>3 DEF Bridge
<1> QED BY <1>2, <1>4

LEMMA PrepareReturnsType ==
    ASSUME TypeInv, Busy, NEW r \in Remotes, PrepareReturns(r)
    PROVE  TypeInv'
<1>1. AtLane(r)
  BY PeerIsLane, Ends DEF PrepareReturns
<1>2. call[r].id \in Ids
  BY DEF PrepareReturns, Busy
<1>3. ContextsType'
  BY <1>2, Registers, Without DEF PrepareReturns
<1>4. retry' \in Retry
  BY DEF PrepareReturns, Retry, TypeInv
<1>5. bridge' \in Bridge
  <2>1. CASE bridge' = [bridge EXCEPT !.pending[r] = None, !.timers = @ \ {r}]
    BY <2>1, PendingType DEF TypeInv, Bridge
  <2>2. CASE bridge' = bridge
    BY <2>2 DEF TypeInv
  <2> QED BY <2>1, <2>2 DEF PrepareReturns
<1>6. hub' \in HubState
  BY <1>2 DEF PrepareReturns, HubState, TypeInv
<1> QED
  BY <1>1, <1>3, <1>4, <1>5, <1>6
  DEF PrepareReturns, TypeInv, AtLane, durable, memory, counters

LEMMA AuthorizeReturnsType ==
    ASSUME TypeInv, Busy, NEW r \in Remotes, AuthorizeReturns(r)
    PROVE  TypeInv'
<1>1. call[r].id \in Ids
  BY DEF AuthorizeReturns, Busy
<1>2. AtLane(r)
  BY <1>1, PeerIsLane, Ends, Enters DEF AuthorizeReturns, Operations
<1>3. hub' \in HubState
  BY <1>1 DEF AuthorizeReturns, HubState, TypeInv
<1> QED
  BY <1>2, <1>3
  DEF AuthorizeReturns, TypeInv, AtLane, ContextsType, durable, memory, counters

LEMMA EnterAbortType ==
    ASSUME TypeInv, NEW r \in Remotes, EnterAbort(r)
    PROVE  TypeInv'
<1>1. AtLane(r)
  <2>1. CASE ends(r)
    BY <2>1, PeerIsLane, Ends
  <2>2. CASE /\ reserved(call[r].id)
             /\ builds(r, call[r], firstTrustChargeOutgoingAttemptFailure(view, record(call[r].id)))
    BY <2>2, PeerIsLane, Builds, ChargeType, RecordIs, LaunchedIs, LaneTypes DEF TypeInv
  <2> QED BY <2>1, <2>2 DEF EnterAbort
<1>2. ContextsType'
  BY Without DEF EnterAbort, cancelOutgoingAttemptRuntime, TypeInv, ContextsType
<1>3. state' \in State
  BY ReportsType DEF EnterAbort, TypeInv
<1>4. disturbances' \in 0..MaxDisturbances
  BY Disturbed DEF EnterAbort, fails, TypeInv
<1> QED
  BY <1>1, <1>2, <1>3, <1>4 DEF EnterAbort, TypeInv, AtLane, durable

LEMMA AbortReturnsType ==
    ASSUME TypeInv, NEW r \in Remotes, AbortReturns(r)
    PROVE  TypeInv'
<1>1. AtLane(r)
  BY PeerIsLane, Ends DEF AbortReturns
<1>2. ContextsType'
  BY Without DEF AbortReturns, cancelOutgoingAttemptRuntime
<1>3. state' \in State
  BY ReportsType DEF AbortReturns
<1>4. retry' \in Retry
  BY SettledType DEF AbortReturns, TypeInv
<1> QED
  BY <1>1, <1>2, <1>3, <1>4 DEF AbortReturns, TypeInv, AtLane, durable, counters

LEMMA EnterFailureType ==
    ASSUME TypeInv, NEW r \in Remotes, EnterFailure(r)
    PROVE  TypeInv'
<1>1. AtLane(r)
  <2>1. CASE ends(r)
    BY <2>1, PeerIsLane, Ends
  <2>2. CASE /\ launched(call[r].id)
             /\ builds(r, call[r], firstTrustChargeOutgoingAttemptFailure(view, record(call[r].id)))
    BY <2>2, PeerIsLane, Builds, ChargeType, RecordIs, LaunchedIs, LaneTypes DEF TypeInv
  <2> QED BY <2>1, <2>2 DEF EnterFailure
<1>2. ContextsType'
  BY Without DEF EnterFailure, cancelOutgoingAttemptRuntime, TypeInv, ContextsType
<1>3. state' \in State
  BY ReportsType DEF EnterFailure, TypeInv
<1>4. disturbances' \in 0..MaxDisturbances
  BY Disturbed DEF EnterFailure, fails, TypeInv
<1>5. bridge' \in Bridge
  BY ClearedType DEF EnterFailure, TypeInv
<1> QED
  BY <1>1, <1>2, <1>3, <1>4, <1>5 DEF EnterFailure, TypeInv, AtLane, durable

LEMMA FailureReturnsType ==
    ASSUME TypeInv, NEW r \in Remotes, FailureReturns(r)
    PROVE  TypeInv'
<1>1. AtLane(r)
  BY PeerIsLane, Ends DEF FailureReturns
<1>2. ContextsType'
  BY Without DEF FailureReturns, cancelOutgoingAttemptRuntime
<1>3. state' \in State
  BY ReportsType DEF FailureReturns
<1>4. retry' \in Retry
  BY SettledType DEF FailureReturns, TypeInv
<1>5. bridge' \in Bridge
  BY ClearedType DEF FailureReturns, TypeInv
<1> QED
  BY <1>1, <1>2, <1>3, <1>4, <1>5 DEF FailureReturns, TypeInv, AtLane, durable, counters

LEMMA SuccessTarget ==
    ASSUME TypeInv, NEW r \in Remotes, NEW id
    PROVE  LET e == firstTrustResetOutgoingAttemptRetry(
                      [view EXCEPT !.attempts = @ \ exact(id)], r)
           IN  /\ e \in Document
               /\ e.epoch = view.epoch /\ e.attempts = view.attempts \ exact(id)
               /\ e.revoked = view.revoked
               /\ \A q \in Remotes : q # r => e.quarantine[q] = view.quarantine[q]
               /\ e.quarantine[r] = IF view.quarantine[r].state = "none"
                                    THEN view.quarantine[r]
                                    ELSE [state |-> "RETRY_READY", count |-> 0]
<1> DEFINE d == [view EXCEPT !.attempts = @ \ exact(id)]
<1>1. /\ d \in Document /\ d.epoch = view.epoch /\ d.revoked = view.revoked
      /\ d.attempts = view.attempts \ exact(id) /\ d.quarantine = view.quarantine
  BY DEF TypeInv, Document
<1> HIDE DEF d
<1> SUFFICES LET e == firstTrustResetOutgoingAttemptRetry(d, r)
             IN  /\ e \in Document
                 /\ e.epoch = view.epoch /\ e.attempts = view.attempts \ exact(id)
                 /\ e.revoked = view.revoked
                 /\ \A q \in Remotes : q # r => e.quarantine[q] = view.quarantine[q]
                 /\ e.quarantine[r] = IF view.quarantine[r].state = "none"
                                      THEN view.quarantine[r]
                                      ELSE [state |-> "RETRY_READY", count |-> 0]
  BY DEF d
<1> QED BY <1>1, ResetType

LEMMA SuccessLane ==
    ASSUME TypeInv, Busy, NEW r \in Remotes, EnterSuccess(r),
           builds(r, [call[r] EXCEPT !.tries = @ + 1],
                  firstTrustResetOutgoingAttemptRetry(
                    [view EXCEPT !.attempts = @ \ exact(call[r].id)], r))
    PROVE  /\ AtLane(r)
           /\ call'[r].at = "begin"
           /\ call'[r].target = advanced(firstTrustResetOutgoingAttemptRetry(
                    [view EXCEPT !.attempts = @ \ exact(call[r].id)], r))
           /\ call'[r].op = call[r].op /\ call'[r].id = call[r].id
           /\ call'[r].failed = call[r].failed /\ call'[r].removed = call[r].removed
           /\ call'[r].outcome = call[r].outcome
<1> DEFINE c == [call[r] EXCEPT !.tries = @ + 1]
           e == firstTrustResetOutgoingAttemptRetry(
                  [view EXCEPT !.attempts = @ \ exact(call[r].id)], r)
<1>1. call[r].at = "enter" /\ call[r].tries \in 0..2 /\ call[r].tries < 2
  BY PeerIsLane, LaneTypes DEF EnterSuccess, Busy
<1>2. call[r] \in Locals
  BY PeerIsLane, LaneTypes
<1>3. c \in Locals
  BY <1>1, <1>2 DEF Locals
<1>4. /\ c.op = call[r].op /\ c.id = call[r].id /\ c.failed = call[r].failed
      /\ c.removed = call[r].removed /\ c.outcome = call[r].outcome
  BY <1>2 DEF Locals
<1>5. e \in Document
  BY SuccessTarget
<1>6. builds(r, c, e)
  OBVIOUS
<1> HIDE DEF c, e
<1>7. /\ AtLane(r)
      /\ call'[r].at = "begin" /\ call'[r].target = advanced(e)
      /\ call'[r].op = c.op /\ call'[r].id = c.id
      /\ call'[r].failed = c.failed /\ call'[r].removed = c.removed
      /\ call'[r].outcome = c.outcome
  BY <1>3, <1>5, <1>6, PeerIsLane, Builds
<1> QED BY <1>4, <1>7 DEF e

LEMMA FailsClosedType ==
    ASSUME TypeInv, NEW r \in Remotes, failsClosed(r, call[r])
    PROVE  /\ AtLane(r) /\ ContextsType'
           /\ retry' \in Retry /\ state' \in State /\ bridge' \in Bridge
<1>1. AtLane(r)
  BY PeerIsLane, Ends DEF failsClosed
<1>2. ContextsType'
  BY Settles DEF failsClosed
<1>3. retry' \in Retry
  BY DEF failsClosed, Retry, TypeInv
<1>4. state' \in State
  BY QuarantineType DEF failsClosed
<1>5. bridge' \in Bridge
  BY ClearedType DEF failsClosed, TypeInv
<1> QED BY <1>1, <1>2, <1>3, <1>4, <1>5

LEMMA EnterSuccessType ==
    ASSUME TypeInv, Busy, NEW r \in Remotes, EnterSuccess(r)
    PROVE  TypeInv'
<1>1. /\ disturbances' \in 0..MaxDisturbances
      /\ AtLane(r) /\ ContextsType'
      /\ retry' \in Retry /\ state' \in State /\ bridge' \in Bridge
  <2>1. CASE failsClosed(r, call[r]) /\ fails("random")
    BY <2>1, FailsClosedType, Disturbed DEF fails
  <2>2. CASE UNCHANGED <<state, contexts, retry, bridge, disturbances>> /\ ends(r)
    BY <2>2, PeerIsLane, Ends DEF TypeInv, ContextsType
  <2>3. CASE /\ UNCHANGED <<state, contexts, retry, bridge, disturbances>>
             /\ builds(r, [call[r] EXCEPT !.tries = @ + 1],
                  firstTrustResetOutgoingAttemptRetry(
                    [view EXCEPT !.attempts = @ \ exact(call[r].id)], r))
    BY <2>3, SuccessLane DEF TypeInv, ContextsType
  <2> QED BY <2>1, <2>2, <2>3 DEF EnterSuccess
<1> QED
  BY <1>1 DEF EnterSuccess, TypeInv, AtLane, durable

LEMMA SuccessReturnsType ==
    ASSUME TypeInv, Busy, NEW r \in Remotes, SuccessReturns(r)
    PROVE  TypeInv'
<1>0. call[r].id \in Ids
  BY DEF SuccessReturns, Busy
<1>1. /\ AtLane(r) /\ ContextsType'
      /\ retry' \in Retry /\ state' \in State /\ bridge' \in Bridge
  <2>1. CASE failsClosed(r, call[r])
    BY <2>1, FailsClosedType
  <2>2. CASE UNCHANGED <<state, contexts, retry>> /\ ends(r)
               /\ bridge' \in {bridge, cleared(r, call[r].id)}
    BY <2>2, PeerIsLane, Ends, ClearedType DEF TypeInv, ContextsType
  <2>3. CASE UNCHANGED <<state, contexts, retry, bridge>>
               /\ enters(r, "success", call[r].id, call[r].by, call[r].tries)
    BY <2>3, <1>0, PeerIsLane, LaneTypes, Enters DEF TypeInv, ContextsType, Operations
  <2>4. CASE /\ contexts' = IF call[r].by = "close" THEN without(contexts, {call[r].id})
                         ELSE [contexts EXCEPT ![call[r].id].settlement = "success"]
             /\ retry' = settled(r, "durable")
             /\ bridge' = cleared(r, call[r].id)
             /\ ends(r)
             /\ UNCHANGED state
    <3>1. ContextsType'
      BY <2>4, Without, Settles
    <3> QED BY <2>4, <3>1, PeerIsLane, Ends, ClearedType, SettledType DEF TypeInv
  <2> QED
    BY <2>1, <2>2, <2>3, <2>4 DEF SuccessReturns
<1> QED
  BY <1>1 DEF SuccessReturns, TypeInv, AtLane, durable, counters

LEMMA PrepareLane ==
    ASSUME TypeInv, NEW r \in Remotes, Prepare(r)
    PROVE  /\ AtLane(r) /\ drawn + 1 \in Ids /\ drawn' = drawn + 1
           /\ call'[r].at = "begin" /\ call'[r].op = "prepare"
           /\ call'[r].id = drawn + 1 /\ call'[r].failed = bridge.pending[r]
           /\ call'[r].target
                = advanced(withReservation(r, drawn + 1, bridge.pending[r]))
           /\ call'[r].removed = {} /\ call'[r].outcome = None
<1> DEFINE failed == bridge.pending[r]
           c == [unused EXCEPT !.op = "prepare", !.id = drawn + 1, !.failed = failed]
           e == withReservation(r, drawn + 1, failed)
<1>1. drawn + 1 \in Ids /\ failed \in Ids \cup {None}
  BY AttemptsAssumption DEF TypeInv, Prepare, Ids, Bridge
<1>2. c \in Locals
  BY <1>1, EmptyType DEF Locals, Operations
<1>3. e \in Document
  BY <1>1, ReservationType
<1>4. builds(r, c, e) /\ drawn' = drawn + 1
  BY DEF Prepare
<1>5. /\ c.op = "prepare" /\ c.id = drawn + 1 /\ c.failed = failed
      /\ c.removed = {} /\ c.outcome = None
  BY DEF unused
<1> HIDE DEF c, e
<1>6. /\ AtLane(r)
      /\ call'[r].at = "begin" /\ call'[r].target = advanced(e)
      /\ call'[r].op = c.op /\ call'[r].id = c.id
      /\ call'[r].failed = c.failed /\ call'[r].removed = c.removed
      /\ call'[r].outcome = c.outcome
  BY <1>2, <1>3, <1>4, PeerIsLane, Builds
<1> QED BY <1>1, <1>4, <1>5, <1>6 DEF e

LEMMA PrepareType ==
    ASSUME TypeInv, NEW r \in Remotes, Prepare(r)
    PROVE  TypeInv'
<1>1. AtLane(r) /\ drawn' \in 0..MaxAttempts
  BY PrepareLane, AttemptsAssumption DEF Ids, TypeInv
<1>2. UNCHANGED <<disk, provider, view, anchor, state, contexts, retry, bridge, hub,
                  started, disturbances>>
  BY DEF Prepare, durable, memory
<1> QED BY <1>1, <1>2 DEF TypeInv, AtLane, ContextsType

LEMMA LaunchTarget ==
    ASSUME TypeInv, NEW id, exact(id) # {}
    PROVE  LET new == [record(id) EXCEPT !.state = "ATTEMPT_LAUNCH_AUTHORIZED"]
               e == [view EXCEPT !.attempts = (@ \ exact(id)) \cup {new}]
           IN  /\ e \in Document
               /\ e.epoch = view.epoch /\ e.quarantine = view.quarantine
               /\ e.revoked = view.revoked
               /\ e.attempts = (view.attempts \ exact(id)) \cup {new}
               /\ new.id = id /\ new.remote = record(id).remote
               /\ new.before = record(id).before
               /\ new.state = "ATTEMPT_LAUNCH_AUTHORIZED"
<1> DEFINE new == [record(id) EXCEPT !.state = "ATTEMPT_LAUNCH_AUTHORIZED"]
<1>1. record(id) \in Attempt /\ record(id).id = id
  BY RecordIs
<1>2. /\ new \in Attempt /\ new.id = id /\ new.remote = record(id).remote
      /\ new.before = record(id).before
      /\ new.state = "ATTEMPT_LAUNCH_AUTHORIZED"
  BY <1>1 DEF Attempt
<1> HIDE DEF new
<1> DEFINE e == [view EXCEPT !.attempts = (@ \ exact(id)) \cup {new}]
<1>3. /\ e \in Document
      /\ e.epoch = view.epoch /\ e.quarantine = view.quarantine
      /\ e.revoked = view.revoked
      /\ e.attempts = (view.attempts \ exact(id)) \cup {new}
  BY <1>2 DEF TypeInv, Document
<1> QED BY <1>2, <1>3 DEF new

LEMMA LaunchLane ==
    ASSUME TypeInv, NEW r \in Remotes, NEW id \in Ids, exact(id) # {},
           builds(r, [unused EXCEPT !.op = "authorize", !.id = id],
               [view EXCEPT !.attempts = (@ \ exact(id)) \cup
                  {[record(id) EXCEPT !.state = "ATTEMPT_LAUNCH_AUTHORIZED"]}])
    PROVE  /\ AtLane(r)
           /\ call'[r].at = "begin" /\ call'[r].op = "authorize"
           /\ call'[r].id = id /\ call'[r].failed = None
           /\ call'[r].removed = {} /\ call'[r].outcome = None
           /\ call'[r].target = advanced([view EXCEPT !.attempts = (@ \ exact(id)) \cup
                  {[record(id) EXCEPT !.state = "ATTEMPT_LAUNCH_AUTHORIZED"]}])
<1> DEFINE c == [unused EXCEPT !.op = "authorize", !.id = id]
           e == [view EXCEPT !.attempts = (@ \ exact(id)) \cup
                  {[record(id) EXCEPT !.state = "ATTEMPT_LAUNCH_AUTHORIZED"]}]
<1>1. c \in Locals
  BY EmptyType DEF Locals, Operations
<1>2. e \in Document
  BY LaunchTarget
<1>3. builds(r, c, e)
  OBVIOUS
<1>4. /\ c.op = "authorize" /\ c.id = id /\ c.failed = None
      /\ c.removed = {} /\ c.outcome = None
  BY DEF unused
<1> HIDE DEF c, e
<1>5. /\ AtLane(r)
      /\ call'[r].at = "begin" /\ call'[r].target = advanced(e)
      /\ call'[r].op = c.op /\ call'[r].id = c.id
      /\ call'[r].failed = c.failed /\ call'[r].removed = c.removed
      /\ call'[r].outcome = c.outcome
  BY <1>1, <1>2, <1>3, PeerIsLane, Builds
<1> QED BY <1>4, <1>5 DEF e

LEMMA AuthorizeLaunchType ==
    ASSUME TypeInv, NEW r \in Remotes, NEW id \in Ids, AuthorizeLaunch(r, id)
    PROVE  TypeInv'
<1>1. AtLane(r)
  <2>0. exact(id) # {}
    BY LaunchedIs DEF AuthorizeLaunch
  <2>1. CASE enters(r, "abort", id, "hub", 0)
    BY <2>1, PeerIsLane, Enters DEF Operations
  <2>2. CASE builds(r, [unused EXCEPT !.op = "authorize", !.id = id],
               [view EXCEPT !.attempts = (@ \ exact(id)) \cup
                  {[record(id) EXCEPT !.state = "ATTEMPT_LAUNCH_AUTHORIZED"]}])
    BY <2>0, <2>2, LaunchLane
  <2> QED BY <2>1, <2>2 DEF AuthorizeLaunch
<1>2. disturbances' \in 0..MaxDisturbances
  BY Disturbed DEF AuthorizeLaunch, fails, calm, TypeInv
<1> QED
  BY <1>1, <1>2 DEF AuthorizeLaunch, TypeInv, AtLane, ContextsType, durable, memory

LEMMA HubType ==
    ASSUME TypeInv, NEW r \in Remotes, NEW id \in Ids
    PROVE  /\ AbortPrepared(r, id) => TypeInv'
           /\ \A complete \in BOOLEAN : ConnectionClosed(r, id, complete) => TypeInv'
           /\ \A h \in {"in_progress", "complete", "error"} :
                HandshakeStateUpdate(r, id, h) => TypeInv'
           /\ ExpireOutgoingAttemptLease(r, id) => TypeInv'
           /\ LeaseLapses(id) => TypeInv'
<1>1. ASSUME AbortPrepared(r, id) PROVE TypeInv'
  BY <1>1, PeerIsLane, Enters
  DEF AbortPrepared, TypeInv, AtLane, ContextsType, durable, memory, counters, Operations
<1>2. ASSUME NEW complete \in BOOLEAN, ConnectionClosed(r, id, complete) PROVE TypeInv'
  <2>1. /\ AtLane(r) \/ call' = call
        /\ ContextsType' /\ retry' \in Retry /\ bridge' \in Bridge
    <3>1. CASE /\ contexts' = without(contexts, {id})
               /\ retry' = [retry EXCEPT !.inflight = @ \ {r}]
               /\ bridge' = cleared(r, id)
               /\ UNCHANGED call
      BY <3>1, Without, ClearedType DEF TypeInv, Retry
    <3>2. CASE /\ bridge' = IF bridge.pending[r] = None
                       THEN [bridge EXCEPT !.pending[r] = id, !.timers = @ \cup {r}]
                       ELSE bridge
               /\ UNCHANGED <<contexts, retry, call>>
      <4>1. CASE bridge' = bridge
        BY <3>2, <4>1 DEF TypeInv, ContextsType
      <4>2. CASE bridge' = [bridge EXCEPT !.pending[r] = id, !.timers = @ \cup {r}]
        <5>1. bridge.timers \cup {r} \in SUBSET Remotes
          BY DEF TypeInv, Bridge
        <5>2. bridge' \in Bridge
          BY <4>2, <5>1, PendingType
        <5> QED BY <3>2, <5>2 DEF TypeInv, ContextsType
      <4> QED BY <3>2, <4>1, <4>2
    <3>3. CASE /\ enters(r, IF complete THEN "success" ELSE "failure", id, "close", 0)
               /\ UNCHANGED <<contexts, retry, bridge>>
      BY <3>3, PeerIsLane, Enters DEF TypeInv, ContextsType, Operations
    <3> QED BY <1>2, <3>1, <3>2, <3>3 DEF ConnectionClosed
  <2> QED BY <1>2, <2>1 DEF ConnectionClosed, TypeInv, AtLane, durable, memory, counters
<1>3. ASSUME NEW h \in {"in_progress", "complete", "error"},
             HandshakeStateUpdate(r, id, h)
      PROVE  TypeInv'
  <2>1. AtLane(r) \/ call' = call
    BY <1>3, PeerIsLane, Enters DEF HandshakeStateUpdate, Operations
  <2>2. bridge' \in Bridge
    BY <1>3 DEF HandshakeStateUpdate, TypeInv, Bridge
  <2> QED BY <1>3, <2>1, <2>2
    DEF HandshakeStateUpdate, TypeInv, AtLane, ContextsType, durable, memory, counters
<1>4. ASSUME ExpireOutgoingAttemptLease(r, id) PROVE TypeInv'
  BY <1>4, PeerIsLane, Enters
  DEF ExpireOutgoingAttemptLease, TypeInv, AtLane, ContextsType, durable, memory, counters, Operations
<1>5. ASSUME LeaseLapses(id) PROVE TypeInv'
  BY <1>5, Lapses DEF LeaseLapses, TypeInv, durable, memory, counters
<1> QED BY <1>1, <1>2, <1>3, <1>4, <1>5

LEMMA TimerType ==
    ASSUME TypeInv, NEW r \in Remotes
    PROVE  /\ SettlePendingFailure(r) => TypeInv'
           /\ BackoffElapses(r) => TypeInv'
<1>1. ASSUME SettlePendingFailure(r) PROVE TypeInv'
  <2> DEFINE i == bridge.pending[r]
  <2>1. AtLane(r) \/ call' = call
    <3>1. CASE enters(r, "failure", i, "settle", 0) /\ callbackExact(i)
      <4>1. record(i) \in Attempt /\ record(i).id = i
        BY <3>1, RecordIs, LaunchedIs DEF callbackExact
      <4>2. i \in Ids
        BY <4>1 DEF Attempt
      <4> QED BY <3>1, <4>2, PeerIsLane, Enters DEF Operations
    <3> QED BY <1>1, <3>1 DEF SettlePendingFailure
  <2>2. bridge' \in Bridge
    BY <1>1, ClearedType DEF SettlePendingFailure, TypeInv, Bridge
  <2> QED BY <1>1, <2>1, <2>2
    DEF SettlePendingFailure, TypeInv, AtLane, ContextsType, durable, memory, counters
<1>2. ASSUME BackoffElapses(r) PROVE TypeInv'
  BY <1>2 DEF BackoffElapses, TypeInv, ContextsType, durable, memory, counters, Retry
<1> QED BY <1>1, <1>2

LEMMA RevokeLane ==
    ASSUME TypeInv, NEW r \in Remotes, Revoke(r)
    PROVE  LET t == call'[Operator].target IN
           /\ AtLane(Operator)
           /\ call'[Operator].at = "commit" /\ call'[Operator].op = "revoke"
           /\ call'[Operator].removed = removeRevokedOutgoingAttempts(r)
           /\ call'[Operator].outcome = None
           /\ call'[Operator].id = None /\ call'[Operator].failed = None
           /\ t \in Document /\ t.epoch = view.epoch + 1
           /\ t.attempts = view.attempts \ attemptsOf(view, r)
           /\ t.revoked = view.revoked \cup {r}
           /\ t.quarantine = view.quarantine
<1> DEFINE d == [view EXCEPT !.attempts = @ \ attemptsOf(view, r),
                             !.revoked = @ \cup {r}]
           c == [unused EXCEPT !.at = "commit", !.op = "revoke", !.anchor = anchor,
                   !.removed = removeRevokedOutgoingAttempts(r),
                   !.target = advanced(d)]
<1>1. /\ d \in Document /\ d.epoch = view.epoch /\ d.quarantine = view.quarantine
      /\ d.attempts = view.attempts \ attemptsOf(view, r)
      /\ d.revoked = view.revoked \cup {r}
  BY DEF TypeInv, Document
<1>2. call' = [call EXCEPT ![Operator] = c]
  BY DEF Revoke
<1> HIDE DEF d
<1>3. removeRevokedOutgoingAttempts(r) \subseteq Ids
  BY DEF removeRevokedOutgoingAttempts, attemptsOf, contextsOf, TypeInv,
         ContextsType, Document, Attempt
<1>4. /\ advanced(d) \in Document /\ advanced(d).epoch = view.epoch + 1
      /\ advanced(d).attempts = d.attempts /\ advanced(d).revoked = d.revoked
      /\ advanced(d).quarantine = d.quarantine
  BY <1>1, AdvancedType
<1> HIDE DEF removeRevokedOutgoingAttempts
<1>5. c \in Locals
  BY <1>3, <1>4, EmptyType DEF Locals, Places, Operations, TypeInv
<1>6. /\ c.at = "commit" /\ c.op = "revoke" /\ c.outcome = None
      /\ c.id = None /\ c.failed = None
      /\ c.removed = removeRevokedOutgoingAttempts(r)
      /\ c.target = advanced(d)
  BY DEF unused
<1>7. Operator \in Lanes
  BY DEF Lanes
<1> HIDE DEF c
<1>8. AtLane(Operator) /\ call'[Operator] = c
  BY <1>2, <1>5, <1>7, LaneSet
<1> QED BY <1>1, <1>4, <1>6, <1>8

LEMMA RevokeReturnsType ==
    ASSUME TypeInv, RevokeReturns
    PROVE  TypeInv'
<1>0. Operator \in Lanes
  BY DEF Lanes
<1>1. AtLane(Operator)
  BY <1>0, Ends DEF RevokeReturns
<1>2. /\ view' \in Document /\ anchor' \in Anchor
  BY <1>0, LaneTypes DEF RevokeReturns, TypeInv
<1>3. ContextsType'
  BY Without DEF RevokeReturns, TypeInv, ContextsType
<1>4. retry' \in Retry
  BY DEF RevokeReturns, TypeInv, Retry
<1>5. state' \in State
  BY QuarantineType DEF RevokeReturns, TypeInv, State
<1> QED BY <1>1, <1>2, <1>3, <1>4, <1>5
  DEF RevokeReturns, TypeInv, AtLane, durable, counters

LEMMA ProcessEnds ==
    ASSUME TypeInv, processEnds
    PROVE  /\ view' \in Document /\ anchor' \in Anchor /\ state' \in State
           /\ ContextsType' /\ DOMAIN contexts' = {}
           /\ retry' \in Retry /\ retry'.inflight = {}
           /\ bridge' \in Bridge /\ hub' \in HubState /\ hub'.permits = {}
           /\ \A r \in Remotes : bridge'.pending[r] = None
           /\ call' \in [Lanes -> Locals]
           /\ \A l \in Lanes : call'[l] = unused
           /\ state'.run = "down" /\ state'.admissible = {}
           /\ state'.paired = state.paired /\ state'.recovery = "QUARANTINED"
           /\ disk' = disk /\ provider' = provider /\ started' = started
           /\ drawn' = drawn /\ view' = disk
<1>1. state' \in State /\ state'.run = "down" /\ state'.admissible = {}
      /\ state'.paired = state.paired /\ state'.recovery = "QUARANTINED"
  BY DEF processEnds, TypeInv, State, Runs
<1>2. ContextsType' /\ DOMAIN contexts' = {}
  BY NoContexts DEF processEnds
<1>3. /\ retry' \in Retry /\ retry'.inflight = {}
      /\ bridge' \in Bridge /\ hub' \in HubState /\ hub'.permits = {}
      /\ \A r \in Remotes : bridge'.pending[r] = None
  BY DEF processEnds, Retry, Bridge, HubState, quiet, nobody
<1>4. call' \in [Lanes -> Locals] /\ \A l \in Lanes : call'[l] = unused
  BY EmptyType DEF processEnds
<1> QED BY <1>1, <1>2, <1>3, <1>4 DEF processEnds, durable, TypeInv

LEMMA StartLane ==
    ASSUME TypeInv, NEW op \in Operations, NEW target \in Document,
           call' = [call EXCEPT ![Operator] =
               [unused EXCEPT !.at = "commit", !.op = op, !.anchor = provider,
                              !.target = advanced(target)]]
    PROVE  /\ AtLane(Operator)
           /\ call'[Operator].at = "commit" /\ call'[Operator].op = op
           /\ call'[Operator].removed = {} /\ call'[Operator].outcome = None
           /\ call'[Operator].id = None /\ call'[Operator].failed = None
           /\ call'[Operator].target = advanced(target)
<1> DEFINE c == [unused EXCEPT !.at = "commit", !.op = op, !.anchor = provider,
                               !.target = advanced(target)]
<1>1. advanced(target) \in Document
  BY AdvancedType
<1>2. c \in Locals
  BY <1>1, EmptyType DEF Locals, Places, TypeInv
<1>3. /\ c.at = "commit" /\ c.op = op /\ c.removed = {} /\ c.outcome = None
      /\ c.id = None /\ c.failed = None /\ c.target = advanced(target)
  BY DEF unused
<1>4. Operator \in Lanes
  BY DEF Lanes
<1> HIDE DEF c
<1>5. AtLane(Operator) /\ call'[Operator] = c
  BY <1>2, <1>4, LaneSet DEF c
<1> QED BY <1>3, <1>5

LEMMA OpenedType ==
    ASSUME TypeInv, NEW d \in Document,
           NEW rec \in {"open", "REVOKED", "QUARANTINED"}, opened(d, rec)
    PROVE  /\ state' \in State /\ state'.run = "up" /\ state'.recovery = rec
           /\ state'.paired = state.paired
           /\ state'.admissible \cap d.revoked = {}
BY DEF TypeInv, State, Runs, opened

LEMMA StartType ==
    ASSUME TypeInv, Start
    PROVE  TypeInv'
<1>1. disk \in Document /\ charged(disk) \in Document /\ released(disk) \in Document
  BY ChargedType, ReleasedType DEF TypeInv
<1>2. AtLane(Operator) \/ call' = call
  BY <1>1, StartLane DEF Start, Operations
<1>3. classified(disk) \in {"open", "REVOKED", "QUARANTINED"}
  BY DEF classified
<1>4. state' \in State
  <2>1. CASE opened(disk, "QUARANTINED") \/ opened(disk, classified(disk))
    BY <1>1, <1>3, <2>1, OpenedType
  <2>2. CASE state' = [state EXCEPT !.run = "starting"]
    BY <2>2 DEF TypeInv, State, Runs
  <2> QED BY <2>1, <2>2 DEF Start
<1> QED BY <1>2, <1>4 DEF Start, TypeInv, AtLane, ContextsType, durable, counters

LEMMA StartedType ==
    ASSUME TypeInv, Started
    PROVE  TypeInv'
<1>1. AtLane(Operator)
  BY Ends DEF Started, Lanes
<1>2. classified(view) \in {"open", "REVOKED", "QUARANTINED"}
  BY DEF classified
<1>3. state' \in State
  BY <1>2, OpenedType DEF Started, TypeInv
<1>4. retry' \in Retry
  BY DEF Started, TypeInv, Retry
<1> QED BY <1>1, <1>3, <1>4 DEF Started, TypeInv, AtLane, ContextsType, durable, counters

LEMMA ProcessType ==
    ASSUME TypeInv, Process
    PROVE  TypeInv'
<1>1. CASE Shutdown
  <2>1. state' \in State
    BY <1>1 DEF Shutdown, TypeInv, State, Runs
  <2>2. bridge' \in Bridge
    BY <1>1 DEF Shutdown, Bridge, quiet
  <2> QED BY <1>1, <2>1, <2>2, Disturbed DEF Shutdown, TypeInv, ContextsType, durable
<1>2. CASE ShutdownEnds \/ Crash
  <2>1. processEnds /\ disturbances' \in 0..MaxDisturbances
    BY <1>2, Disturbed DEF ShutdownEnds, Crash, calm, TypeInv
  <2> QED BY <2>1, ProcessEnds DEF TypeInv
<1>3. CASE Reconcile
  <2>1. provider' \in Anchor
    BY <1>3 DEF Reconcile, TypeInv, Document, Anchor
  <2> QED BY <1>3, <2>1 DEF Reconcile, TypeInv, ContextsType, memory, counters
<1>4. CASE Start
  BY <1>4, StartType
<1>5. CASE Started
  BY <1>5, StartedType
<1>6. CASE RevokeReturns
  BY <1>6, RevokeReturnsType
<1>7. CASE WindowCloses
  BY <1>7 DEF WindowCloses, TypeInv, ContextsType, durable, counters, State
<1>8. ASSUME NEW r \in Remotes, SettleForShutdown(r)
      PROVE  TypeInv'
  <2>1. PICK a \in attemptsOf(view, r) :
          enters(r, IF a.state = "ATTEMPT_RESERVED" THEN "abort" ELSE "failure",
                 a.id, "shutdown", 0)
    BY <1>8 DEF SettleForShutdown
  <2>2. a.id \in Ids
    BY DEF attemptsOf, TypeInv, Document, Attempt
  <2>3. AtLane(r)
    BY <2>1, <2>2, PeerIsLane, Enters DEF Operations
  <2> QED BY <1>8, <2>3
    DEF SettleForShutdown, TypeInv, AtLane, ContextsType, durable, memory, counters
<1>9. ASSUME NEW r \in Remotes, Select(r)
      PROVE  TypeInv'
  BY <1>9 DEF Select, TypeInv, ContextsType, durable, counters, State
<1>10. ASSUME NEW r \in Remotes, Revoke(r)
       PROVE  TypeInv'
  <2>1. AtLane(Operator)
    BY <1>10, RevokeLane
  <2>2. state' \in State
    BY <1>10 DEF Revoke, TypeInv, State
  <2> QED BY <1>10, <2>1, <2>2, Disturbed DEF Revoke, TypeInv, AtLane, ContextsType, durable
<1> QED
  BY <1>1, <1>2, <1>3, <1>4, <1>5, <1>6, <1>7, <1>8, <1>9, <1>10 DEF Process

LEMMA NextType ==
    ASSUME TypeInv, Busy, [Next]_vars
    PROVE  TypeInv'
<1>1. ASSUME NEW l \in Lanes, Publishing(l) PROVE TypeInv'
  BY <1>1, PublishingType
<1>2. ASSUME NEW r \in Remotes, Working(r) PROVE TypeInv'
  <2>1. CASE PrepareDenied(r)
    BY <2>1, PeerIsLane, Ends
    DEF PrepareDenied, TypeInv, AtLane, ContextsType, durable, memory, counters
  <2> QED
    BY <1>2, <2>1, PrepareReturnsType, AuthorizeReturnsType, EnterAbortType,
       AbortReturnsType, EnterFailureType, FailureReturnsType, EnterSuccessType,
       SuccessReturnsType DEF Working
<1>3. ASSUME NEW r \in Remotes, Hub(r) PROVE TypeInv'
  BY <1>3, PrepareType, AuthorizeLaunchType, HubType DEF Hub
<1>4. ASSUME NEW r \in Remotes, Timers(r) PROVE TypeInv'
  BY <1>4, HubType, TimerType DEF Timers
<1>5. CASE Time
  <2>1. PICK id \in Ids : LeaseLapses(id)
    BY <1>5 DEF Time
  <2> QED BY <2>1, Lapses DEF LeaseLapses, TypeInv, durable, memory, counters
<1>6. CASE OtherPublishes
  <2>1. view' \in Document
    BY <1>6, AdvancedType DEF OtherPublishes, TypeInv
  <2>2. anchor' \in Anchor
    BY <1>6, <2>1 DEF OtherPublishes, TypeInv, Anchor, Document
  <2> QED BY <1>6, <2>1, <2>2, Disturbed DEF OtherPublishes, TypeInv, ContextsType
<1>7. CASE Process
  BY <1>7, ProcessType
<1>8. CASE UNCHANGED vars
  BY <1>8 DEF vars, TypeInv, ContextsType
<1> QED BY <1>1, <1>2, <1>3, <1>4, <1>5, <1>6, <1>7, <1>8 DEF Next

-----------------------------------------------------------------------------
(* Documents that follow one another.                                      *)

\* A document by itself: one attempt of a peer at a time, none of a revoked
\* one, and each made at the count its peer still has.
CountOK(q) ==
    /\ q.state = "none" => q.count = 0
    /\ q.state # "ADMIN_HOLD" => q.count < AttemptMaximum

DocOK(d) ==
    /\ \A r \in Remotes : CountOK(d.quarantine[r])
    /\ \A a \in d.attempts :
         /\ a.remote \notin d.revoked
         /\ a.before = d.quarantine[a.remote].count
         /\ d.quarantine[a.remote].count < AttemptMaximum
    /\ \A a, b \in d.attempts : a.remote = b.remote => a = b

\* What a peer has paid and still owes.
debt(d, r) == d.quarantine[r].count + Cardinality(attemptsOf(d, r))

\* What that becomes when the target is published.
owes(c, l, d, r) ==
    CASE c.op = "prepare" /\ r = l /\ c.failed = None -> debt(d, r) + 1
      [] c.op = "success" /\ r = l -> 0
      [] c.op = "release" /\ c.target.quarantine[r] # d.quarantine[r] -> 0
      [] c.op = "revoke" /\ r \in c.target.revoked \ d.revoked ->
           d.quarantine[r].count
      [] OTHER -> debt(d, r)

\* The attempts of the peer whose lane publishes.
Own(c, l, d) ==
    /\ c.op = "prepare" =>
         /\ \A a \in attemptsOf(d, l) : a.id = c.failed
         /\ \A a \in d.attempts : a.id # c.id
         /\ attemptsOf(c.target, l) # {}
         /\ \A a \in attemptsOf(c.target, l) : a.id = c.id
    /\ c.op = "authorize" =>
         /\ \A a \in attemptsOf(d, l) : a.id = c.id
         /\ attemptsOf(c.target, l) # {}
         /\ \A a \in attemptsOf(c.target, l) :
              a.id = c.id /\ a.state = "ATTEMPT_LAUNCH_AUTHORIZED"
    /\ c.op \in {"abort", "failure", "success"} =>
         /\ \A a \in attemptsOf(d, l) : a.id = c.id
         /\ attemptsOf(c.target, l) = {}

\* A target follows the document it was built from.
Follows(c, l, d) ==
    /\ DocOK(c.target)
    /\ IF c.op = "revoke" THEN d.revoked \subseteq c.target.revoked
       ELSE c.target.revoked = d.revoked
    /\ \A r \in Remotes : debt(c.target, r) = owes(c, l, d, r)
    /\ c.op # "charge" =>
         \A r \in Remotes \ {l} : r \notin c.target.revoked =>
           attemptsOf(c.target, r) = attemptsOf(d, r)
    /\ l \in Remotes => Own(c, l, d)

LEMMA DebtIs ==
    ASSUME NEW d \in Document, NEW r \in Remotes, DocOK(d)
    PROVE  /\ debt(d, r) = d.quarantine[r].count + (IF attemptsOf(d, r) = {} THEN 0 ELSE 1)
           /\ d.quarantine[r].count \in Nat
           /\ Cardinality(attemptsOf(d, r)) <= 1
<1>1. d.quarantine[r].count \in Nat
  BY DEF Document, Quarantine
<1>2. CASE attemptsOf(d, r) = {}
  BY <1>1, <1>2, FS_EmptySet DEF debt
<1>3. CASE attemptsOf(d, r) # {}
  <2>1. PICK a : a \in attemptsOf(d, r)
    BY <1>3
  <2>2. attemptsOf(d, r) = {a}
    BY <2>1 DEF attemptsOf, DocOK
  <2>3. Cardinality(attemptsOf(d, r)) = 1
    BY <2>2, FS_Singleton
  <2> QED BY <1>1, <1>3, <2>3 DEF debt
<1> QED BY <1>2, <1>3

\* advanced changes nothing but the epoch.
LEMMA AdvancedOK ==
    ASSUME NEW d \in Document
    PROVE  /\ DocOK(advanced(d)) <=> DocOK(d)
           /\ \A r \in Remotes : attemptsOf(advanced(d), r) = attemptsOf(d, r)
           /\ \A r \in Remotes : debt(advanced(d), r) = debt(d, r)
BY AdvancedType DEF DocOK, attemptsOf, debt

LEMMA PrepareFollows ==
    ASSUME TypeInv, DocOK(view), NEW r \in Remotes, Prepare(r),
           r \notin view.revoked,
           \A a \in view.attempts : a.id \in 1..drawn,
           \A a \in view.attempts : a.id = bridge.pending[r] => a.remote = r
    PROVE  Follows(call'[r], r, view)
<1> DEFINE failed == bridge.pending[r]
           c == call'[r]
           e == withReservation(r, drawn + 1, failed)
           new == [id |-> drawn + 1, remote |-> r,
                   before |-> view.quarantine[r].count, state |-> "ATTEMPT_RESERVED"]
<1>1. /\ drawn + 1 \in Ids /\ c.op = "prepare" /\ c.id = drawn + 1
      /\ c.failed = failed /\ c.target = advanced(e)
  BY PrepareLane
<1>2. /\ e \in Document
      /\ e.attempts = (view.attempts \ exact(failed)) \cup {new}
      /\ e.revoked = view.revoked
      /\ e.quarantine[r] = [view.quarantine[r] EXCEPT !.state = "RETRY_READY"]
      /\ \A q \in Remotes : q # r => e.quarantine[q] = view.quarantine[q]
  BY <1>1, ReservationType
<1>3. new.id = drawn + 1 /\ new.remote = r /\ new.before = view.quarantine[r].count
  OBVIOUS
<1>4. view \in Document /\ view.quarantine[r] \in Quarantine
  BY DEF TypeInv, Document
<1>5. e.quarantine[r].count = view.quarantine[r].count
      /\ e.quarantine[r].state = "RETRY_READY"
  BY <1>2, <1>4 DEF Quarantine
<1>6. view.quarantine[r].count < AttemptMaximum
  BY DEF Prepare, admits, firstTrustOutgoingAttemptRetryReady, DocOK, CountOK
<1>7. \A a \in view.attempts : a.remote = r => a \in exact(failed)
  <2>1. CASE failed = None
    BY <2>1 DEF Prepare, admits, attemptsOf
  <2>2. CASE failed # None
    <3>1. exact(failed) # {}
      BY <2>2, LaunchedIs DEF Prepare, admits, replaceable
    <3> QED BY <3>1 DEF exact, DocOK
  <2> QED BY <2>1, <2>2
<1>8. \A a \in exact(failed) : a \in view.attempts /\ a.remote = r /\ a.id = failed
  BY DEF exact
<1>9. failed = None => exact(failed) = {}
  BY AttemptsAssumption DEF exact, TypeInv, Document, Attempt
<1>10. failed # None => exact(failed) # {}
  BY LaunchedIs DEF Prepare, admits, replaceable
<1> HIDE DEF new, e, failed, c
<1>11. attemptsOf(e, r) = {new}
  BY <1>2, <1>3, <1>7 DEF attemptsOf
<1>12. \A q \in Remotes \ {r} : attemptsOf(e, q) = attemptsOf(view, q)
  BY <1>2, <1>3, <1>8 DEF attemptsOf
<1>13. DocOK(e)
  <2>1. \A q \in Remotes : CountOK(e.quarantine[q])
    BY <1>2, <1>5, <1>6 DEF DocOK, CountOK
  <2>2. ASSUME NEW a \in e.attempts
        PROVE  /\ a.remote \notin e.revoked
               /\ a.before = e.quarantine[a.remote].count
               /\ e.quarantine[a.remote].count < AttemptMaximum
    <3>1. CASE a = new
      BY <3>1, <1>2, <1>3, <1>5, <1>6
    <3>2. CASE a # new
      <4>1. a \in view.attempts /\ a.remote # r /\ a.remote \in Remotes
        BY <3>2, <1>2, <1>7, <1>4 DEF Document, Attempt
      <4> QED BY <4>1, <1>2 DEF DocOK
    <3> QED BY <3>1, <3>2
  <2>3. ASSUME NEW a \in e.attempts, NEW b \in e.attempts, a.remote = b.remote
        PROVE  a = b
    BY <2>3, <1>2, <1>3, <1>7 DEF DocOK
  <2> QED BY <2>1, <2>2, <2>3 DEF DocOK
<1>14. \A q \in Remotes : debt(e, q) = owes(c, r, view, q)
  <2> TAKE q \in Remotes
  <2>1. /\ debt(e, q) = e.quarantine[q].count + (IF attemptsOf(e, q) = {} THEN 0 ELSE 1)
        /\ debt(view, q) = view.quarantine[q].count
                           + (IF attemptsOf(view, q) = {} THEN 0 ELSE 1)
        /\ view.quarantine[q].count \in Nat
    BY <1>2, <1>4, <1>13, DebtIs
  <2>2. CASE q # r
    <3>1. owes(c, r, view, q) = debt(view, q)
      BY <1>1, <2>2 DEF owes
    <3> QED BY <1>2, <1>12, <2>1, <2>2, <3>1
  <2>3. CASE q = r /\ failed = None
    <3>1. owes(c, r, view, q) = debt(view, q) + 1
      BY <1>1, <2>3 DEF owes
    <3>2. attemptsOf(view, q) = {}
      BY <1>7, <1>9, <2>3 DEF attemptsOf
    <3> QED BY <1>5, <1>11, <2>1, <2>3, <3>1, <3>2
  <2>4. CASE q = r /\ failed # None
    <3>1. owes(c, r, view, q) = debt(view, q)
      BY <1>1, <2>4 DEF owes
    <3>2. attemptsOf(view, q) # {}
      BY <1>8, <1>10, <2>4 DEF attemptsOf
    <3> QED BY <1>5, <1>11, <2>1, <2>4, <3>1, <3>2
  <2> QED BY <2>2, <2>3, <2>4
<1>15. /\ \A a \in attemptsOf(view, r) : a.id = failed
       /\ \A a \in view.attempts : a.id # drawn + 1
  BY <1>7, <1>8 DEF attemptsOf, TypeInv
<1>16. /\ DocOK(c.target)
       /\ \A q \in Remotes : attemptsOf(c.target, q) = attemptsOf(e, q)
       /\ \A q \in Remotes : debt(c.target, q) = debt(e, q)
       /\ c.target.revoked = view.revoked
  BY <1>1, <1>2, <1>13, AdvancedOK, AdvancedType
<1>17. Own(c, r, view)
  BY <1>1, <1>3, <1>11, <1>15, <1>16 DEF Own
<1> QED
  BY <1>1, <1>12, <1>14, <1>16, <1>17 DEF Follows, c

LEMMA LaunchFollows ==
    ASSUME TypeInv, DocOK(view), NEW r \in Remotes, NEW id \in Ids,
           exact(id) # {}, record(id).remote = r,
           builds(r, [unused EXCEPT !.op = "authorize", !.id = id],
               [view EXCEPT !.attempts = (@ \ exact(id)) \cup
                  {[record(id) EXCEPT !.state = "ATTEMPT_LAUNCH_AUTHORIZED"]}]),
           \A a \in view.attempts : a.id = id => a.remote = r
    PROVE  Follows(call'[r], r, view)
<1> DEFINE c == call'[r]
           new == [record(id) EXCEPT !.state = "ATTEMPT_LAUNCH_AUTHORIZED"]
           e == [view EXCEPT !.attempts = (@ \ exact(id)) \cup {new}]
<1>1. /\ c.op = "authorize" /\ c.id = id /\ c.target = advanced(e)
  BY LaunchLane
<1>2. /\ e \in Document
      /\ e.quarantine = view.quarantine /\ e.revoked = view.revoked
      /\ e.attempts = (view.attempts \ exact(id)) \cup {new}
      /\ new.id = id /\ new.remote = r /\ new.before = record(id).before
      /\ new.state = "ATTEMPT_LAUNCH_AUTHORIZED"
  BY LaunchTarget
<1>3. view \in Document
  BY DEF TypeInv
<1>4. record(id) \in view.attempts /\ record(id) \in exact(id)
  BY RecordIs DEF exact
<1>5. \A a \in view.attempts : a.remote = r <=> a \in exact(id)
  BY <1>4 DEF DocOK, exact
<1> HIDE DEF new, e, c
<1>6. attemptsOf(e, r) = {new} /\ attemptsOf(view, r) = exact(id)
  BY <1>2, <1>5 DEF attemptsOf, exact
<1>7. \A q \in Remotes \ {r} : attemptsOf(e, q) = attemptsOf(view, q)
  BY <1>2, <1>5 DEF attemptsOf
<1>8. DocOK(e)
  BY <1>2, <1>4, <1>5 DEF DocOK
<1>9. \A q \in Remotes : debt(e, q) = owes(c, r, view, q)
  <2> TAKE q \in Remotes
  <2>1. owes(c, r, view, q) = debt(view, q)
    BY <1>1 DEF owes
  <2>2. /\ debt(e, q) = e.quarantine[q].count + (IF attemptsOf(e, q) = {} THEN 0 ELSE 1)
        /\ debt(view, q) = view.quarantine[q].count
                           + (IF attemptsOf(view, q) = {} THEN 0 ELSE 1)
    BY <1>2, <1>3, <1>8, DebtIs
  <2> QED BY <1>2, <1>6, <1>7, <2>1, <2>2
<1>10. /\ DocOK(c.target)
       /\ \A q \in Remotes : attemptsOf(c.target, q) = attemptsOf(e, q)
       /\ \A q \in Remotes : debt(c.target, q) = debt(e, q)
       /\ c.target.revoked = view.revoked
  BY <1>1, <1>2, <1>8, AdvancedOK, AdvancedType
<1>11. Own(c, r, view)
  BY <1>1, <1>2, <1>6, <1>10 DEF Own, exact
<1> QED
  BY <1>1, <1>7, <1>9, <1>10, <1>11 DEF Follows, c

\* An attempt that is charged, with the count its peer had.
LEMMA ChargeCounts ==
    ASSUME NEW d \in Document, DocOK(d), NEW a \in d.attempts
    PROVE  LET q == firstTrustChargeOutgoingAttemptFailure(d, a).quarantine[a.remote]
           IN  q.count = d.quarantine[a.remote].count + 1 /\ CountOK(q)
<1> DEFINE n == d.quarantine[a.remote].count
<1>1. a \in Attempt /\ a.remote \in Remotes /\ d.quarantine \in [Remotes -> Quarantine]
  BY DEF Document, Attempt
<1>2. n \in Nat /\ n < AttemptMaximum /\ a.before = n
  BY <1>1 DEF DocOK, Quarantine
<1>3. firstTrustNextBackoff(n) = n + 1
  BY <1>2 DEF firstTrustNextBackoff
<1>4. (IF d.quarantine[a.remote].count < a.before
       THEN a.before ELSE d.quarantine[a.remote].count) = n
  BY <1>2
<1> DEFINE charge == [count |-> n + 1,
                      state |-> IF n + 1 = AttemptMaximum THEN "ADMIN_HOLD"
                                ELSE "BACKOFF_ACTIVE"]
<1>5. firstTrustChargeOutgoingAttemptFailure(d, a)
        = [d EXCEPT !.attempts = @ \ {a}, !.quarantine[a.remote] = charge]
  BY <1>3, <1>4 DEF firstTrustChargeOutgoingAttemptFailure
<1>6. charge.count = n + 1 /\ CountOK(charge)
  BY <1>2, AttemptsAssumption DEF CountOK
<1> HIDE DEF charge, n
<1>7. d = [epoch |-> d.epoch, attempts |-> d.attempts,
           quarantine |-> d.quarantine, revoked |-> d.revoked]
  BY DEF Document
<1>8. firstTrustChargeOutgoingAttemptFailure(d, a).quarantine
        = [d.quarantine EXCEPT ![a.remote] = charge]
  BY <1>5, <1>7
<1>9. firstTrustChargeOutgoingAttemptFailure(d, a).quarantine[a.remote] = charge
  BY <1>1, <1>8
<1> QED BY <1>6, <1>9 DEF n

LEMMA ChargeFollows ==
    ASSUME TypeInv, DocOK(view), NEW r \in Remotes,
           call[r].op \in {"abort", "failure"},
           exact(call[r].id) # {},
           builds(r, call[r], firstTrustChargeOutgoingAttemptFailure(view, record(call[r].id))),
           \A a \in view.attempts : a.id = call[r].id => a.remote = r
    PROVE  Follows(call'[r], r, view)
<1> DEFINE c == call'[r]
           a == record(call[r].id)
           e == firstTrustChargeOutgoingAttemptFailure(view, a)
<1>1. view \in Document
  BY DEF TypeInv
<1>2. a \in view.attempts /\ a.id = call[r].id /\ a \in Attempt /\ a.remote = r
  BY RecordIs
<1>3. /\ e \in Document
      /\ e.attempts = view.attempts \ {a}
      /\ e.revoked = view.revoked
      /\ \A q \in Remotes : q # r => e.quarantine[q] = view.quarantine[q]
  BY <1>1, <1>2, ChargeType
<1>4. c.op = call[r].op /\ c.id = call[r].id /\ c.target = advanced(e)
  BY <1>3, PeerIsLane, Builds, LaneTypes
<1>5. e.quarantine[r].count = view.quarantine[r].count + 1 /\ CountOK(e.quarantine[r])
  BY <1>1, <1>2, ChargeCounts
<1> HIDE DEF a, e, c
<1>6. \A b \in view.attempts : b.remote = r => b = a
  BY <1>2 DEF DocOK
<1>7. attemptsOf(e, r) = {} /\ attemptsOf(view, r) = {a}
  BY <1>2, <1>3, <1>6 DEF attemptsOf
<1>8. \A q \in Remotes \ {r} : attemptsOf(e, q) = attemptsOf(view, q)
  BY <1>2, <1>3 DEF attemptsOf
<1>9. DocOK(e)
  <2>1. \A q \in Remotes : CountOK(e.quarantine[q])
    BY <1>3, <1>5 DEF DocOK
  <2>2. \A b \in e.attempts : b \in view.attempts /\ b.remote # r /\ b.remote \in Remotes
    BY <1>1, <1>3, <1>6 DEF Document, Attempt
  <2> QED BY <1>3, <2>1, <2>2 DEF DocOK
<1>10. \A q \in Remotes : debt(e, q) = owes(c, r, view, q)
  <2> TAKE q \in Remotes
  <2>1. owes(c, r, view, q) = debt(view, q)
    BY <1>4 DEF owes
  <2>2. /\ debt(e, q) = e.quarantine[q].count + (IF attemptsOf(e, q) = {} THEN 0 ELSE 1)
        /\ debt(view, q) = view.quarantine[q].count
                           + (IF attemptsOf(view, q) = {} THEN 0 ELSE 1)
        /\ view.quarantine[q].count \in Nat
    BY <1>1, <1>3, <1>9, DebtIs
  <2>3. CASE q = r
    <3>1. attemptsOf(e, q) = {} /\ attemptsOf(view, q) # {}
      BY <1>7, <2>3
    <3>2. e.quarantine[q].count = view.quarantine[q].count + 1
      BY <1>5, <2>3
    <3> QED BY <2>1, <2>2, <3>1, <3>2
  <2>4. CASE q # r
    BY <1>3, <1>8, <2>1, <2>2, <2>4
  <2> QED BY <2>3, <2>4
<1>11. /\ DocOK(c.target)
       /\ \A q \in Remotes : attemptsOf(c.target, q) = attemptsOf(e, q)
       /\ \A q \in Remotes : debt(c.target, q) = debt(e, q)
       /\ c.target.revoked = view.revoked
  BY <1>3, <1>4, <1>9, AdvancedOK, AdvancedType
<1>12. Own(c, r, view)
  BY <1>2, <1>4, <1>7, <1>11 DEF Own
<1> QED
  BY <1>4, <1>8, <1>10, <1>11, <1>12 DEF Follows, c

LEMMA SuccessFollows ==
    ASSUME TypeInv, Busy, DocOK(view), NEW r \in Remotes, EnterSuccess(r),
           exact(call[r].id) # {},
           builds(r, [call[r] EXCEPT !.tries = @ + 1],
                  firstTrustResetOutgoingAttemptRetry(
                    [view EXCEPT !.attempts = @ \ exact(call[r].id)], r)),
           \A a \in view.attempts : a.id = call[r].id => a.remote = r
    PROVE  Follows(call'[r], r, view)
<1> DEFINE c == call'[r]
           id == call[r].id
           e == firstTrustResetOutgoingAttemptRetry(
                  [view EXCEPT !.attempts = @ \ exact(id)], r)
<1>1. view \in Document
  BY DEF TypeInv
<1>2. c.op = "success" /\ c.id = id /\ c.target = advanced(e)
  BY SuccessLane DEF EnterSuccess
<1>3. /\ e \in Document /\ e.attempts = view.attempts \ exact(id)
      /\ e.revoked = view.revoked
      /\ \A q \in Remotes : q # r => e.quarantine[q] = view.quarantine[q]
      /\ e.quarantine[r] = IF view.quarantine[r].state = "none"
                           THEN view.quarantine[r]
                           ELSE [state |-> "RETRY_READY", count |-> 0]
  BY SuccessTarget
<1>4. \A a \in view.attempts : a.remote = r <=> a \in exact(id)
  BY DEF DocOK, exact
<1> HIDE DEF e, c
<1>5. e.quarantine[r].count = 0 /\ CountOK(e.quarantine[r])
  BY <1>3, AttemptsAssumption DEF DocOK, CountOK
<1>6. attemptsOf(e, r) = {} /\ attemptsOf(view, r) = exact(id)
  BY <1>3, <1>4 DEF attemptsOf, exact
<1>7. \A q \in Remotes \ {r} : attemptsOf(e, q) = attemptsOf(view, q)
  BY <1>3, <1>4 DEF attemptsOf
<1>8. DocOK(e)
  <2>1. \A q \in Remotes : CountOK(e.quarantine[q])
    BY <1>3, <1>5 DEF DocOK
  <2>2. \A b \in e.attempts : b \in view.attempts /\ b.remote # r /\ b.remote \in Remotes
    BY <1>1, <1>3, <1>4 DEF Document, Attempt
  <2> QED BY <1>3, <2>1, <2>2 DEF DocOK
<1>9. \A q \in Remotes : debt(e, q) = owes(c, r, view, q)
  <2> TAKE q \in Remotes
  <2>1. owes(c, r, view, q) = IF q = r THEN 0 ELSE debt(view, q)
    BY <1>2 DEF owes
  <2>2. /\ debt(e, q) = e.quarantine[q].count + (IF attemptsOf(e, q) = {} THEN 0 ELSE 1)
        /\ debt(view, q) = view.quarantine[q].count
                           + (IF attemptsOf(view, q) = {} THEN 0 ELSE 1)
        /\ view.quarantine[q].count \in Nat
    BY <1>1, <1>3, <1>8, DebtIs
  <2>3. CASE q = r
    BY <1>5, <1>6, <2>1, <2>2, <2>3
  <2>4. CASE q # r
    BY <1>3, <1>7, <2>1, <2>2, <2>4
  <2> QED BY <2>3, <2>4
<1>10. /\ DocOK(c.target)
       /\ \A q \in Remotes : attemptsOf(c.target, q) = attemptsOf(e, q)
       /\ \A q \in Remotes : debt(c.target, q) = debt(e, q)
       /\ c.target.revoked = view.revoked
  BY <1>2, <1>3, <1>8, AdvancedOK, AdvancedType
<1>11. Own(c, r, view)
  BY <1>2, <1>6, <1>10 DEF Own, exact
<1> QED
  BY <1>2, <1>7, <1>9, <1>10, <1>11 DEF Follows, c

LEMMA RevokeFollows ==
    ASSUME TypeInv, DocOK(view), NEW r \in Remotes, Revoke(r)
    PROVE  Follows(call'[Operator], Operator, view)
<1> DEFINE c == call'[Operator]
           t == c.target
<1>1. /\ c.op = "revoke" /\ t \in Document
      /\ t.attempts = view.attempts \ attemptsOf(view, r)
      /\ t.revoked = view.revoked \cup {r}
      /\ t.quarantine = view.quarantine
  BY RevokeLane
<1>2. view \in Document /\ r \notin view.revoked
  BY DEF TypeInv, Revoke
<1>3. Operator \notin Remotes
  BY AttemptsAssumption
<1> HIDE DEF c
<1>4. DocOK(t)
  BY <1>1 DEF DocOK, attemptsOf
<1>5. \A q \in Remotes : q # r => attemptsOf(t, q) = attemptsOf(view, q)
  BY <1>1 DEF attemptsOf
<1>6. attemptsOf(t, r) = {}
  BY <1>1 DEF attemptsOf
<1>7. \A q \in view.revoked : attemptsOf(view, q) = {}
  BY DEF DocOK, attemptsOf
<1>8. \A q \in Remotes : debt(t, q) = owes(c, Operator, view, q)
  <2> TAKE q \in Remotes
  <2>1. owes(c, Operator, view, q) = IF q = r THEN view.quarantine[q].count
                                     ELSE debt(view, q)
    BY <1>1, <1>2 DEF owes
  <2>2. /\ debt(t, q) = t.quarantine[q].count + (IF attemptsOf(t, q) = {} THEN 0 ELSE 1)
        /\ debt(view, q) = view.quarantine[q].count
                           + (IF attemptsOf(view, q) = {} THEN 0 ELSE 1)
        /\ view.quarantine[q].count \in Nat
    BY <1>1, <1>2, <1>4, DebtIs
  <2>3. CASE q = r
    BY <1>1, <1>6, <2>1, <2>2, <2>3
  <2>4. CASE q # r
    BY <1>1, <1>5, <2>1, <2>2, <2>4
  <2> QED BY <2>3, <2>4
<1> QED
  BY <1>1, <1>3, <1>4, <1>5, <1>8 DEF Follows, c

LEMMA ChargedFollows ==
    ASSUME NEW d \in Document, DocOK(d), NEW c, c.op = "charge",
           c.target = advanced(charged(d))
    PROVE  Follows(c, Operator, d)
<1> DEFINE e == charged(d)
<1>1. /\ e \in Document /\ e.attempts = {} /\ e.revoked = d.revoked
      /\ \A r \in Remotes : e.quarantine[r]
           = IF attemptsOf(d, r) = {} THEN d.quarantine[r]
             ELSE firstTrustChargeOutgoingAttemptFailure(
                    d, CHOOSE a \in attemptsOf(d, r) : TRUE).quarantine[r]
  BY ChargedType
<1>2. ASSUME NEW r \in Remotes, attemptsOf(d, r) # {}
      PROVE  e.quarantine[r].count = d.quarantine[r].count + 1 /\ CountOK(e.quarantine[r])
  <2> DEFINE a == CHOOSE a \in attemptsOf(d, r) : TRUE
  <2>1. a \in attemptsOf(d, r)
    BY <1>2
  <2>2. a \in d.attempts /\ a.remote = r
    BY <2>1 DEF attemptsOf
  <2>3. e.quarantine[r] = firstTrustChargeOutgoingAttemptFailure(d, a).quarantine[r]
    BY <1>1, <1>2
  <2> HIDE DEF a, e
  <2> QED BY <2>2, <2>3, ChargeCounts
<1> HIDE DEF e
<1>3. DocOK(e)
  BY <1>1, <1>2 DEF DocOK
<1>4. Operator \notin Remotes
  BY AttemptsAssumption
<1>5. \A q \in Remotes : debt(e, q) = owes(c, Operator, d, q)
  <2> TAKE q \in Remotes
  <2>1. owes(c, Operator, d, q) = debt(d, q)
    BY DEF owes
  <2>2. /\ debt(e, q) = e.quarantine[q].count + (IF attemptsOf(e, q) = {} THEN 0 ELSE 1)
        /\ debt(d, q) = d.quarantine[q].count
                        + (IF attemptsOf(d, q) = {} THEN 0 ELSE 1)
        /\ d.quarantine[q].count \in Nat
    BY <1>1, <1>3, DebtIs
  <2>3. attemptsOf(e, q) = {}
    BY <1>1 DEF attemptsOf
  <2>4. CASE attemptsOf(d, q) = {}
    BY <1>1, <2>1, <2>2, <2>3, <2>4
  <2>5. CASE attemptsOf(d, q) # {}
    BY <1>2, <2>1, <2>2, <2>3, <2>5
  <2> QED BY <2>4, <2>5
<1>6. /\ DocOK(c.target) /\ c.target.revoked = d.revoked
      /\ \A q \in Remotes : debt(c.target, q) = debt(e, q)
  BY <1>1, <1>3, AdvancedOK, AdvancedType DEF e
<1> QED BY <1>4, <1>5, <1>6 DEF Follows

LEMMA ReleasedFollows ==
    ASSUME NEW d \in Document, DocOK(d), d.attempts = {}, NEW c, c.op = "release",
           c.target = advanced(released(d))
    PROVE  Follows(c, Operator, d)
<1> DEFINE e == released(d)
<1>1. /\ e \in Document /\ e.attempts = {} /\ e.revoked = d.revoked
      /\ \A r \in Remotes : e.quarantine[r]
           = IF held(d, r) /\ r \notin d.revoked
             THEN [state |-> "RETRY_READY", count |-> 0]
             ELSE d.quarantine[r]
  BY ReleasedType
<1> HIDE DEF e
<1>2. DocOK(e)
  BY <1>1, AttemptsAssumption DEF DocOK, CountOK
<1>3. Operator \notin Remotes
  BY AttemptsAssumption
<1>4. \A q \in Remotes : attemptsOf(e, q) = {} /\ attemptsOf(d, q) = {}
  BY <1>1 DEF attemptsOf
<1>5. /\ DocOK(c.target) /\ c.target.revoked = d.revoked
      /\ c.target.quarantine = e.quarantine
      /\ \A q \in Remotes : attemptsOf(c.target, q) = attemptsOf(e, q)
      /\ \A q \in Remotes : debt(c.target, q) = debt(e, q)
  BY <1>1, <1>2, AdvancedOK, AdvancedType DEF e
<1>6. \A q \in Remotes : debt(e, q) = owes(c, Operator, d, q)
  <2> TAKE q \in Remotes
  <2>1. owes(c, Operator, d, q) = IF e.quarantine[q] # d.quarantine[q] THEN 0
                                  ELSE debt(d, q)
    BY <1>5 DEF owes
  <2>2. /\ debt(e, q) = e.quarantine[q].count
        /\ debt(d, q) = d.quarantine[q].count
    <3>1. /\ debt(e, q) = e.quarantine[q].count + (IF attemptsOf(e, q) = {} THEN 0 ELSE 1)
          /\ debt(d, q) = d.quarantine[q].count
                          + (IF attemptsOf(d, q) = {} THEN 0 ELSE 1)
          /\ d.quarantine[q].count \in Nat /\ e.quarantine[q].count \in Nat
      BY <1>1, <1>2, DebtIs
    <3> QED BY <1>4, <3>1
  <2>3. e.quarantine[q] # d.quarantine[q] => e.quarantine[q].count = 0
    BY <1>1
  <2> QED BY <2>1, <2>2, <2>3
<1> QED BY <1>3, <1>4, <1>5, <1>6 DEF Follows

-----------------------------------------------------------------------------
(* The document on disk is the one in memory, or its successor, which a    *)
(* lane is about to install.  A target was built from the document in      *)
(* memory, or can no longer be published.                                  *)

arriving(c) == c.at = "finish" /\ c.outcome = "durable"
publishing(c) == c.at \in {"begin", "commit"} \/ arriving(c)

VersionInv ==
    /\ view.epoch <= disk.epoch
    /\ view.epoch = disk.epoch => view = disk
    /\ ~provider.pending => view = disk \/ \E l \in Lanes : arriving(call[l])
    /\ state.run = "down" => view = disk
    /\ view.revoked \subseteq disk.revoked

ArrivingInv ==
    /\ \A l \in Lanes : arriving(call[l]) =>
         /\ ~provider.pending /\ disk = call[l].target
         /\ disk.epoch = view.epoch + 1
    /\ \A l, m \in Lanes : arriving(call[l]) /\ arriving(call[m]) => l = m

TargetInv ==
    \A l \in Lanes : publishing(call[l]) =>
      /\ call[l].target.epoch <= view.epoch + 1
      /\ call[l].target.epoch = view.epoch + 1 => Follows(call[l], l, view)

\* What was paid and is owed is what was started.
PaidInv ==
    /\ DocOK(disk) /\ DocOK(view)
    /\ \A r \in Remotes : debt(disk, r) = started[r]

DocsInv == VersionInv /\ ArrivingInv /\ TargetInv /\ PaidInv

\* Steps that publish nothing.
QuietLane(l) ==
    \/ call'[l] = call[l]
    \/ ~arriving(call[l]) /\ ~publishing(call'[l])
    \/ /\ ~arriving(call[l]) /\ call'[l].at \in {"begin", "commit"}
       /\ call'[l].target.epoch = view.epoch + 1
       /\ Follows(call'[l], l, view)

QuietStep ==
    /\ UNCHANGED <<disk, provider, view, started>>
    /\ state'.run = "down" => state.run = "down"
    /\ \A l \in Lanes : QuietLane(l)

LEMMA QuietDocs ==
    ASSUME TypeInv, DocsInv, QuietStep
    PROVE  DocsInv'
<1>1. \A l \in Lanes : arriving(call[l])' => call'[l] = call[l]
  BY DEF QuietStep, QuietLane, arriving, publishing
<1>2. \A l \in Lanes : arriving(call[l]) => call'[l] = call[l]
  BY DEF QuietStep, QuietLane
<1>3. VersionInv'
  BY <1>2 DEF QuietStep, DocsInv, VersionInv, arriving
<1>4. ArrivingInv'
  BY <1>1 DEF QuietStep, DocsInv, ArrivingInv, arriving
<1>5. TargetInv'
  <2> SUFFICES ASSUME NEW l \in Lanes, publishing(call[l])'
               PROVE  /\ call'[l].target.epoch <= view.epoch + 1
                      /\ call'[l].target.epoch = view.epoch + 1
                           => Follows(call'[l], l, view)
    BY DEF TargetInv, QuietStep
  <2>1. view.epoch \in Nat
    BY DEF TypeInv, Document
  <2>2. CASE call'[l] = call[l]
    BY <2>2 DEF DocsInv, TargetInv, publishing, arriving
  <2>3. CASE call'[l] # call[l]
    BY <2>1, <2>3 DEF QuietStep, QuietLane, publishing
  <2> QED BY <2>2, <2>3
<1>6. PaidInv'
  BY DEF QuietStep, DocsInv, PaidInv, DocOK, CountOK, debt, attemptsOf
<1> QED BY <1>3, <1>4, <1>5, <1>6 DEF DocsInv

LEMMA QuietAt ==
    ASSUME NEW l \in Lanes, AtLane(l), QuietLane(l)
    PROVE  \A m \in Lanes : QuietLane(m)
BY DEF AtLane, QuietLane

LEMMA FollowsSame ==
    ASSUME NEW c, NEW e, NEW l, NEW d, Follows(c, l, d), e.op = c.op,
           e.id = c.id, e.failed = c.failed, e.target = c.target
    PROVE  Follows(e, l, d)
<1>1. \A r \in Remotes : owes(e, l, d, r) = owes(c, l, d, r)
  BY DEF owes
<1>2. Own(c, l, d) => Own(e, l, d)
  BY DEF Own
<1> QED BY <1>1, <1>2 DEF Follows

\* A publication that is not overtaken was built from the document on disk.
LEMMA Current ==
    ASSUME TypeInv, DocsInv, NEW l \in Lanes, call[l].at = "commit",
           ~overtaken(call[l])
    PROVE  /\ view = disk /\ call[l].target.epoch = view.epoch + 1
           /\ Follows(call[l], l, view)
           /\ \A m \in Lanes : ~arriving(call[m])
           /\ \A r \in Remotes : debt(call[l].target, r) = counted(l)[r]
<1>1. /\ view.epoch \in Nat /\ disk.epoch \in Nat /\ call[l].target.epoch \in Nat
  BY LaneTypes DEF TypeInv, Document
<1>2. call[l].target.epoch = disk.epoch + 1
  BY <1>1 DEF overtaken
<1>3. publishing(call[l])
  BY DEF publishing
<1>4. view.epoch = disk.epoch
  BY <1>1, <1>2, <1>3 DEF DocsInv, TargetInv, VersionInv
<1>5. view = disk
  BY <1>4 DEF DocsInv, VersionInv
<1>6. Follows(call[l], l, view)
  BY <1>2, <1>3, <1>5 DEF DocsInv, TargetInv
<1>7. \A m \in Lanes : ~arriving(call[m])
  BY <1>1, <1>4 DEF DocsInv, ArrivingInv
<1>8. ASSUME NEW r \in Remotes
      PROVE  debt(call[l].target, r) = counted(l)[r]
  <2>1. debt(call[l].target, r) = owes(call[l], l, disk, r)
    BY <1>5, <1>6 DEF Follows
  <2>2. debt(disk, r) = started[r]
    BY DEF DocsInv, PaidInv
  <2>3. counted(l)[r] = owes(call[l], l, disk, r)
    BY <2>2 DEF counted, owes
  <2> QED BY <2>1, <2>3
<1> QED BY <1>2, <1>5, <1>6, <1>7, <1>8

\* While the process is down nothing runs.
DownInv == state.run = "down" => \A l \in Lanes : call[l].at = "idle"

LEMMA CommitDocs ==
    ASSUME TypeInv, DocsInv, DownInv, NEW l \in Lanes, Commit(l)
    PROVE  DocsInv'
<1>1. call[l].at = "commit" /\ ~overtaken(call[l])
  BY DEF Commit
<1>2. /\ view = disk /\ call[l].target.epoch = view.epoch + 1
      /\ Follows(call[l], l, view)
      /\ \A m \in Lanes : ~arriving(call[m])
      /\ \A r \in Remotes : debt(call[l].target, r) = counted(l)[r]
  BY <1>1, Current
<1>3. /\ AtLane(l)
      /\ call'[l].at = "finish" /\ call'[l].outcome = "durable"
      /\ call'[l].target = call[l].target /\ call'[l].op = call[l].op
      /\ call'[l].id = call[l].id /\ call'[l].failed = call[l].failed
  BY Published DEF Commit, Outcomes
<1>4. /\ disk' = call[l].target /\ view' = view /\ ~provider'.pending
      /\ started' = counted(l) /\ state' = state
  BY DEF Commit, memory
<1>5. view.epoch \in Nat
  BY DEF TypeInv, Document
<1>6. \A m \in Lanes : arriving(call'[m]) <=> m = l
  BY <1>2, <1>3 DEF AtLane, arriving
<1>7. VersionInv'
  <2>1. view.revoked \subseteq call[l].target.revoked
    BY <1>2 DEF Follows
  <2> QED BY <1>1, <1>2, <1>4, <1>5, <1>6, <2>1 DEF VersionInv, DownInv
<1>8. ArrivingInv'
  BY <1>2, <1>3, <1>4, <1>6 DEF ArrivingInv
<1>9. TargetInv'
  <2> SUFFICES ASSUME NEW m \in Lanes, publishing(call'[m])
               PROVE  /\ call'[m].target.epoch <= view.epoch + 1
                      /\ call'[m].target.epoch = view.epoch + 1
                           => Follows(call'[m], m, view)
    BY <1>4 DEF TargetInv
  <2>1. CASE m = l
    BY <1>2, <1>3, <1>5, <2>1, FollowsSame
  <2>2. CASE m # l
    BY <1>3, <2>2 DEF AtLane, DocsInv, TargetInv
  <2> QED BY <2>1, <2>2
<1>10. PaidInv'
  BY <1>2, <1>4 DEF DocsInv, PaidInv, Follows
<1> QED BY <1>7, <1>8, <1>9, <1>10 DEF DocsInv

LEMMA CommitUnknownDocs ==
    ASSUME TypeInv, DocsInv, DownInv, NEW l \in Lanes, CommitUnknown(l)
    PROVE  DocsInv'
<1>1. call[l].at = "commit" /\ ~overtaken(call[l])
  BY DEF CommitUnknown
<1>2. /\ view = disk /\ call[l].target.epoch = view.epoch + 1
      /\ Follows(call[l], l, view)
      /\ \A m \in Lanes : ~arriving(call[m])
      /\ \A r \in Remotes : debt(call[l].target, r) = counted(l)[r]
  BY <1>1, Current
<1>3. /\ AtLane(l)
      /\ call'[l].at = "finish" /\ call'[l].outcome = "unknown"
  BY Published DEF CommitUnknown, Outcomes
<1>4. /\ \/ disk' = call[l].target /\ started' = counted(l)
         \/ disk' = disk /\ started' = started
      /\ view' = view /\ state' = state
  BY DEF CommitUnknown, memory
<1>5. provider'.pending
  BY DEF CommitUnknown, TypeInv, Anchor
<1>6. view.epoch \in Nat
  BY DEF TypeInv, Document
<1>7. \A m \in Lanes : ~arriving(call'[m]) /\ (publishing(call'[m]) => m # l)
  BY <1>2, <1>3 DEF AtLane, arriving, publishing
<1>8. VersionInv'
  <2>1. view.revoked \subseteq call[l].target.revoked
    BY <1>2 DEF Follows
  <2> QED BY <1>1, <1>2, <1>4, <1>5, <1>6, <2>1 DEF VersionInv, DownInv
<1>9. ArrivingInv'
  BY <1>7 DEF ArrivingInv
<1>10. TargetInv'
  BY <1>3, <1>4, <1>7 DEF AtLane, DocsInv, TargetInv
<1>11. PaidInv'
  BY <1>2, <1>4 DEF DocsInv, PaidInv, Follows
<1> QED BY <1>8, <1>9, <1>10, <1>11 DEF DocsInv

\* A lane installs the successor, or ends without one.
LEMMA InstallDocs ==
    ASSUME TypeInv, DocsInv, NEW l \in Lanes, AtLane(l),
           call[l].at = "finish", ~publishing(call'[l]),
           view' = IF call[l].outcome = "durable" THEN call[l].target ELSE view,
           UNCHANGED <<disk, provider, started>>,
           state'.run # "down"
    PROVE  DocsInv'
<1>1. CASE call[l].outcome # "durable"
  <2>1. QuietLane(l)
    BY <1>1 DEF QuietLane, arriving
  <2>2. QuietStep
    BY <1>1, <2>1, QuietAt DEF QuietStep
  <2> QED BY <2>2, QuietDocs
<1>2. CASE call[l].outcome = "durable"
  <2>1. arriving(call[l])
    BY <1>2 DEF arriving
  <2>2. /\ view' = disk /\ disk.epoch = view.epoch + 1
        /\ \A m \in Lanes : arriving(call[m]) => m = l
    BY <1>2, <2>1 DEF DocsInv, ArrivingInv
  <2>3. view.epoch \in Nat
    BY DEF TypeInv, Document
  <2>4. \A m \in Lanes : ~arriving(call'[m])
    BY <2>2 DEF AtLane, publishing
  <2>5. VersionInv'
    BY <2>2, <2>3 DEF VersionInv
  <2>6. ArrivingInv'
    BY <2>4 DEF ArrivingInv
  <2>7. TargetInv'
    <3> SUFFICES ASSUME NEW m \in Lanes, publishing(call'[m])
                 PROVE  call'[m].target.epoch <= view'.epoch
      BY <2>2, <2>3, LaneTypes DEF TargetInv, AtLane, Locals, Document
    <3>1. m # l /\ call'[m] = call[m]
      BY DEF AtLane
    <3>2. call[m].target.epoch <= view.epoch + 1
      BY <3>1 DEF DocsInv, TargetInv
    <3> QED BY <2>2, <3>1, <3>2
  <2>8. PaidInv'
    BY <2>2 DEF DocsInv, PaidInv
  <2> QED BY <2>5, <2>6, <2>7, <2>8 DEF DocsInv
<1> QED BY <1>1, <1>2

LEMMA OtherDocs ==
    ASSUME TypeInv, DocsInv, OtherPublishes
    PROVE  DocsInv'
<1>1. view = disk /\ view' = advanced(view) /\ disk' = view' /\ call' = call
      /\ started' = started /\ state' = state /\ state.run = "up"
  BY DEF OtherPublishes
<1>2. view \in Document /\ view.epoch \in Nat
  BY DEF TypeInv, Document
<1>3. view'.epoch = view.epoch + 1
  BY <1>1, <1>2, AdvancedType
<1>4. \A l \in Lanes : ~arriving(call[l])
  BY <1>1, <1>2 DEF DocsInv, ArrivingInv
<1>5. VersionInv' /\ ArrivingInv'
  BY <1>1, <1>2, <1>3, <1>4 DEF VersionInv, ArrivingInv
<1>6. TargetInv'
  <2> SUFFICES ASSUME NEW l \in Lanes, publishing(call[l])
               PROVE  call[l].target.epoch <= view'.epoch
    BY <1>1, <1>2, <1>3, LaneTypes DEF TargetInv
  <2> QED BY <1>3 DEF DocsInv, TargetInv
<1>7. PaidInv'
  BY <1>1, <1>2, AdvancedOK DEF DocsInv, PaidInv
<1> QED BY <1>5, <1>6, <1>7 DEF DocsInv

LEMMA EndDocs ==
    ASSUME TypeInv, DocsInv, processEnds
    PROVE  DocsInv'
<1>1. /\ view' = disk /\ disk' = disk /\ provider' = provider /\ started' = started
      /\ \A l \in Lanes : call'[l] = unused
  BY ProcessEnds
<1>2. \A l \in Lanes : ~publishing(call'[l]) /\ ~arriving(call'[l])
  BY <1>1 DEF publishing, arriving, unused
<1>3. VersionInv' /\ ArrivingInv' /\ TargetInv'
  BY <1>1, <1>2 DEF VersionInv, ArrivingInv, TargetInv, TypeInv, Document
<1>4. PaidInv'
  BY <1>1 DEF DocsInv, PaidInv
<1> QED BY <1>3, <1>4 DEF DocsInv

LEMMA ReconcileDocs ==
    ASSUME TypeInv, DocsInv, Reconcile
    PROVE  DocsInv'
<1>1. /\ state.run = "down" /\ provider.pending /\ ~provider'.pending
      /\ UNCHANGED <<disk, view, call, started, state>>
  BY DEF Reconcile, memory, counters
<1>2. view = disk /\ \A l \in Lanes : ~arriving(call[l])
  BY <1>1 DEF DocsInv, VersionInv, ArrivingInv
<1>3. VersionInv' /\ ArrivingInv'
  BY <1>1, <1>2 DEF VersionInv, ArrivingInv, DocsInv
<1>4. TargetInv' /\ PaidInv'
  BY <1>1 DEF DocsInv, TargetInv, PaidInv
<1> QED BY <1>3, <1>4 DEF DocsInv

-----------------------------------------------------------------------------
(* An identity belongs to one peer, in every document, context and call.   *)

Of(o, n, id, r) == id \in 1..n /\ o[id] = r

OwnDoc(o, n, d) == \A a \in d.attempts : Of(o, n, a.id, a.remote)

OwnCall(o, n, c, l) ==
    /\ OwnDoc(o, n, c.target)
    /\ c.id # None => Of(o, n, c.id, l)
    /\ c.failed # None => Of(o, n, c.failed, l)
    /\ \A id \in c.removed : id \in 1..n /\ o[id] \in c.target.revoked

OwnRest(o, n) ==
    /\ \A id \in DOMAIN contexts : Of(o, n, id, contexts[id].remote)
    /\ \A r \in Remotes : bridge.pending[r] # None => Of(o, n, bridge.pending[r], r)
    /\ hub.permits \subseteq 1..n

Owner(o, n) ==
    /\ OwnDoc(o, n, disk) /\ OwnDoc(o, n, view)
    /\ \A l \in Lanes : OwnCall(o, n, call[l], l)
    /\ OwnRest(o, n)

OwnerInv == \E o \in [1..drawn -> Remotes] : Owner(o, drawn)

LEMMA OwnUnused ==
    ASSUME NEW o, NEW n, NEW l
    PROVE  OwnCall(o, n, unused, l)
BY DEF OwnCall, OwnDoc, unused, empty

\* A lane enters or ends an operation.
LEMMA OwnEnters ==
    ASSUME TypeInv, NEW o, NEW n, NEW l \in Lanes, NEW id \in Ids, Of(o, n, id, l),
           call'[l].target = empty, call'[l].id = id, call'[l].failed = None,
           call'[l].removed = {}
    PROVE  OwnCall(o, n, call'[l], l)
BY DEF OwnCall, OwnDoc, empty

\* One lane changes, the documents do not.
LEMMA OwnerLane ==
    ASSUME NEW o \in [1..drawn -> Remotes], Owner(o, drawn), NEW l \in Lanes,
           AtLane(l) \/ call' = call, OwnCall(o, drawn, call'[l], l),
           UNCHANGED <<disk, view, drawn>>, OwnRest(o, drawn)'
    PROVE  OwnerInv'
<1>1. \A m \in Lanes : OwnCall(o, drawn, call'[m], m)
  BY DEF Owner, AtLane
<1>2. Owner(o, drawn)'
  BY <1>1 DEF Owner
<1> QED BY <1>2 DEF OwnerInv

LEMMA OwnRestKept ==
    ASSUME NEW o, OwnRest(o, drawn), drawn' = drawn,
           \A id \in DOMAIN contexts' :
             id \in DOMAIN contexts /\ contexts'[id].remote = contexts[id].remote,
           \A r \in Remotes : bridge'.pending[r] \in {None, bridge.pending[r]},
           hub'.permits \subseteq hub.permits
    PROVE  OwnRest(o, drawn)'
BY DEF OwnRest, Of

\* The attempts of an identity that belongs to a peer.
LEMMA OwnedAttempts ==
    ASSUME NEW o, NEW n, OwnDoc(o, n, view), NEW id, NEW r, Of(o, n, id, r)
    PROVE  \A a \in view.attempts : a.id = id => a.remote = r
BY DEF OwnDoc, Of

-----------------------------------------------------------------------------
(* What is true of a peer.                                                 *)

Ending == {"abort", "failure", "success"}
has(r, id) == \E a \in attemptsOf(view, r) : a.id = id
there(r, id) == r \in view.revoked \/ has(r, id)
ended(c) == c.at = "after" /\ c.outcome = "durable"
removes(c, id) ==
    /\ ended(c)
    /\ \/ c.op \in Ending /\ c.id = id
       \/ c.op = "prepare" /\ c.failed = id

\* The operation of a lane by itself.
CallInv(r) ==
    LET c == call[r] IN c.at # "idle" =>
      /\ c.op \in LaneOps /\ c.id \in Ids /\ c.removed = {}
      /\ c.at = "enter" => c.tries < 2 /\ c.op \in Ending
      /\ c.op \in Ending /\ c.at # "enter" => \A a \in c.target.attempts : a.id # c.id
      /\ c.op = "prepare" =>
           c.id \notin hub.permits /\ \A a \in c.target.attempts : a.id # c.failed

\* The attempt an operation is about is there until it is ended.
LaneInv(r) ==
    LET c == call[r] IN c.at # "idle" =>
      /\ c.op = "prepare" =>
           /\ ended(c) => there(r, c.id)
           /\ ~ended(c) /\ c.failed # None => there(r, c.failed)
           /\ contextsOf(r) \subseteq {c.failed}
           /\ c.failed = None => r \notin retry.inflight
      /\ c.op = "authorize" => there(r, c.id)
      /\ c.op \in Ending => IF ended(c) THEN ~has(r, c.id) ELSE there(r, c.id)
      /\ c.op = "success" /\ c.at # "enter" => r \in view.revoked \/ open(c.id)

\* A context has an attempt, or has succeeded, or everything is quarantined.
ContextInv(r) ==
    /\ \A id \in contextsOf(r) :
         \/ has(r, id)
         \/ contexts[id].settlement = "success"
         \/ contexts[id].settlement = "durability_unknown" /\ state.recovery # "open"
         \/ removes(call[r], id)
    /\ \A i, j \in contextsOf(r) : i = j
    /\ r \in view.revoked => contextsOf(r) = {}

\* An open context with a permit has its launch in memory.
LaunchInv(r) ==
    \A id \in contextsOf(r) \cap hub.permits : contexts[id].settlement = "" =>
      \/ \E a \in attemptsOf(view, r) :
           a.id = id /\ a.state = "ATTEMPT_LAUNCH_AUTHORIZED"
      \/ removes(call[r], id)

FlagInv(r) ==
    r \in retry.inflight =>
      r \in view.revoked \/ attemptsOf(view, r) # {} \/ call[r].at # "idle"

PeerInv(r) == CallInv(r) /\ LaneInv(r) /\ ContextInv(r) /\ LaunchInv(r) /\ FlagInv(r)

\* The operator's lane, and the process while it is down or starts.
OperatorInv ==
    LET c == call[Operator] IN
    /\ c.at \in {"idle", "commit", "finish", "after"}
    /\ c.at = "idle" => c.op = None
    /\ c.at # "idle" => c.op \in {"revoke", "charge", "release"}
    /\ c.op \in {"charge", "release"} => state.run = "starting"
    /\ c.op = "revoke" => c.at # "after" /\ state.paired

RestInv ==
    state.run \in {"down", "starting"} =>
      /\ \A r \in Remotes : call[r].at = "idle"
      /\ DOMAIN contexts = {} /\ retry.inflight = {} /\ hub.permits = {}

RevokeInv ==
    LET c == call[Operator] IN
    /\ state.admissible \cap view.revoked = {}
    /\ ~state.paired => view.revoked = {} /\ disk.revoked = {}
    /\ c.op = "revoke" =>
         /\ c.target.revoked \cap state.admissible = {}
         /\ publishing(c) /\ c.target.epoch = view.epoch + 1 =>
              \A r \in c.target.revoked \ view.revoked :
                contextsOf(r) \cup {a.id : a \in attemptsOf(view, r)} \subseteq c.removed

AttemptsInv ==
    /\ TypeInv /\ DocsInv /\ DownInv /\ OwnerInv
    /\ \A r \in Remotes : PeerInv(r)
    /\ OperatorInv /\ RestInv /\ RevokeInv

-----------------------------------------------------------------------------
(* A step that does not disturb a peer.                                    *)

Undisturbed(q) ==
    /\ call'[q] = call[q]
    /\ q \in view.revoked => q \in view'.revoked
    /\ q \in view'.revoked \/ attemptsOf(view', q) = attemptsOf(view, q)
    /\ q \in view'.revoked => contextsOf(q)' = {} /\ attemptsOf(view', q) = {}
    /\ \A id \in contextsOf(q)' :
         id \in contextsOf(q) /\ contexts'[id].settlement = contexts[id].settlement
    /\ \A id \in contextsOf(q) : q \notin view'.revoked =>
         id \in contextsOf(q)' /\ contexts'[id].settlement = contexts[id].settlement
    /\ q \in retry'.inflight => q \in retry.inflight
    /\ \A id \in hub'.permits : id \notin hub.permits =>
         id \notin contextsOf(q) /\ id # call[q].id
    /\ state'.recovery = "open" => state.recovery = "open"

LEMMA UndisturbedPeer ==
    ASSUME TypeInv, OwnerInv, NEW q \in Remotes, PeerInv(q), Undisturbed(q)
    PROVE  PeerInv(q)'
<1>1. \A id : there(q, id) => there(q, id)'
  BY DEF Undisturbed, there, has
<1>2. \A id : has(q, id)' => has(q, id)
  BY DEF Undisturbed, has
<1>3. ASSUME NEW id, call[q].id = id, call[q].at # "idle", open(id), q \notin view'.revoked
      PROVE  open(id)'
  <2>1. PICK o \in [1..drawn -> Remotes] : Owner(o, drawn)
    BY DEF OwnerInv
  <2>2. contexts[id].remote = o[id] /\ id \in DOMAIN contexts /\ contexts[id].settlement = ""
    BY <1>3, <2>1 DEF Owner, OwnRest, Of, open
  <2>3. id # None
    BY <2>2, AttemptsAssumption DEF TypeInv, ContextsType
  <2>4. o[id] = q
    <3>1. q \in Lanes
      BY PeerIsLane
    <3>2. OwnCall(o, drawn, call[q], q)
      BY <2>1, <3>1 DEF Owner
    <3> QED BY <1>3, <2>3, <3>2 DEF OwnCall, Of
  <2>5. id \in contextsOf(q)
    BY <2>2, <2>4 DEF contextsOf
  <2> QED BY <1>3, <2>2, <2>5 DEF Undisturbed, contextsOf, open
<1>4. CallInv(q)'
  BY DEF PeerInv, CallInv, Undisturbed
<1>5. LaneInv(q)'
  <2> SUFFICES ASSUME call[q].at # "idle"
               PROVE  LaneInv(q)'
    BY DEF LaneInv, Undisturbed
  <2>1. call[q].op = "prepare" =>
          /\ ended(call[q]) => there(q, call[q].id)'
          /\ ~ended(call[q]) /\ call[q].failed # None => there(q, call[q].failed)'
          /\ contextsOf(q)' \subseteq {call[q].failed}
          /\ call[q].failed = None => q \notin retry'.inflight
    BY <1>1 DEF PeerInv, LaneInv, Undisturbed
  <2>2. call[q].op = "authorize" => there(q, call[q].id)'
    BY <1>1 DEF PeerInv, LaneInv, Undisturbed
  <2>3. call[q].op \in Ending => IF ended(call[q]) THEN ~has(q, call[q].id)'
                                 ELSE there(q, call[q].id)'
    BY <1>1, <1>2 DEF PeerInv, LaneInv, Undisturbed
  <2>4. call[q].op = "success" /\ call[q].at # "enter" =>
          q \in view'.revoked \/ open(call[q].id)'
    BY <1>3 DEF PeerInv, LaneInv, Undisturbed
  <2>5. call'[q] = call[q]
    BY DEF Undisturbed
  <2> QED BY <2>1, <2>2, <2>3, <2>4, <2>5 DEF LaneInv, ended, there, has, open
<1>6. ContextInv(q)'
  <2>1. ASSUME NEW id \in contextsOf(q)'
        PROVE  \/ has(q, id)'
               \/ contexts'[id].settlement = "success"
               \/ contexts'[id].settlement = "durability_unknown" /\ state'.recovery # "open"
               \/ removes(call'[q], id)
    <3>1. /\ id \in contextsOf(q) /\ contexts'[id].settlement = contexts[id].settlement
          /\ q \notin view'.revoked
      BY <2>1 DEF Undisturbed
    <3>2. has(q, id) => has(q, id)'
      BY <3>1, <1>1 DEF there, Undisturbed
    <3>3. removes(call[q], id) => removes(call'[q], id)
      BY DEF Undisturbed
    <3> QED BY <3>1, <3>2, <3>3 DEF PeerInv, ContextInv, Undisturbed
  <2>2. \A i, j \in contextsOf(q)' : i = j
    BY DEF Undisturbed, PeerInv, ContextInv
  <2>3. q \in view'.revoked => contextsOf(q)' = {}
    BY DEF Undisturbed
  <2> QED BY <2>1, <2>2, <2>3 DEF ContextInv
<1>7. LaunchInv(q)'
  <2> SUFFICES ASSUME NEW id \in contextsOf(q)', id \in hub'.permits,
                      contexts'[id].settlement = ""
               PROVE  \/ \E a \in attemptsOf(view', q) :
                           a.id = id /\ a.state = "ATTEMPT_LAUNCH_AUTHORIZED"
                      \/ removes(call'[q], id)
    BY DEF LaunchInv
  <2>1. /\ id \in contextsOf(q) /\ contexts[id].settlement = ""
        /\ attemptsOf(view', q) = attemptsOf(view, q) /\ id \in hub.permits
        /\ call'[q] = call[q]
    BY DEF Undisturbed
  <2> QED BY <2>1 DEF PeerInv, LaunchInv
<1>8. FlagInv(q)'
  BY DEF FlagInv, PeerInv, Undisturbed
<1> QED BY <1>4, <1>5, <1>6, <1>7, <1>8 DEF PeerInv

\* A peer without operation and context.
LEMMA RestingPeer ==
    ASSUME NEW q \in Remotes, call[q].at = "idle", contextsOf(q) = {},
           q \notin retry.inflight
    PROVE  PeerInv(q)
BY DEF PeerInv, CallInv, LaneInv, ContextInv, LaunchInv, FlagInv

\* A step of a peer's lane, which leaves the documents alone.
PeerStep(r) ==
    /\ UNCHANGED <<disk, provider, view, started>>
    /\ AtLane(r) \/ call' = call
    /\ \A id \in DOMAIN contexts' : contexts'[id].remote # r =>
         /\ id \in DOMAIN contexts /\ contexts[id].remote = contexts'[id].remote
         /\ contexts[id].settlement = contexts'[id].settlement
    /\ \A id \in DOMAIN contexts : contexts[id].remote # r =>
         /\ id \in DOMAIN contexts' /\ contexts'[id].remote = contexts[id].remote
         /\ contexts'[id].settlement = contexts[id].settlement
    /\ \A id \in contextsOf(r)' : id \in contextsOf(r) \/ has(r, id)
    /\ retry'.inflight \subseteq retry.inflight \cup {r}
    /\ \A id \in hub'.permits :
         id \in hub.permits \/ (call[r].at # "idle" /\ id = call[r].id)
    /\ state'.recovery = "open" => state.recovery = "open"
    /\ state'.paired = state.paired /\ state'.admissible \subseteq state.admissible
    /\ state.run \notin {"down", "starting"} /\ state'.run \notin {"down", "starting"}

LEMMA PeerStepOthers ==
    ASSUME AttemptsInv, NEW r \in Remotes, PeerStep(r), NEW q \in Remotes, q # r
    PROVE  Undisturbed(q)
<1>1. call'[q] = call[q] /\ view' = view /\ (q \in retry'.inflight => q \in retry.inflight)
      /\ (state'.recovery = "open" => state.recovery = "open")
  BY PeerIsLane DEF PeerStep, AtLane
<1>2. /\ \A id \in contextsOf(q)' :
           id \in contextsOf(q) /\ contexts'[id].settlement = contexts[id].settlement
      /\ \A id \in contextsOf(q) :
           id \in contextsOf(q)' /\ contexts'[id].settlement = contexts[id].settlement
  BY DEF PeerStep, contextsOf
<1>3. q \in view.revoked => contextsOf(q) = {} /\ attemptsOf(view, q) = {}
  BY DEF AttemptsInv, PeerInv, ContextInv, DocsInv, PaidInv, DocOK, attemptsOf
<1>4. ASSUME NEW id \in hub'.permits, id \notin hub.permits
      PROVE  id \notin contextsOf(q) /\ id # call[q].id
  <2>1. id = call[r].id /\ id \in Ids
    BY <1>4 DEF PeerStep, AttemptsInv, PeerInv, CallInv
  <2>2. PICK o \in [1..drawn -> Remotes] : Owner(o, drawn)
    BY DEF AttemptsInv, OwnerInv
  <2>3. OwnCall(o, drawn, call[q], q) /\ OwnCall(o, drawn, call[r], r)
    BY <2>2, PeerIsLane DEF Owner
  <2>4. id # None
    BY <2>1, AttemptsAssumption
  <2>5. o[id] = r
    BY <2>1, <2>3, <2>4 DEF OwnCall, Of
  <2>6. call[q].id # None => o[call[q].id] = q
    BY <2>3 DEF OwnCall, Of
  <2>7. \A i \in contextsOf(q) : o[i] = q
    BY <2>2 DEF Owner, OwnRest, Of, contextsOf
  <2> QED BY <2>4, <2>5, <2>6, <2>7
<1> QED BY <1>1, <1>2, <1>3, <1>4 DEF Undisturbed

LEMMA PeerStepKeeps ==
    ASSUME AttemptsInv, NEW r \in Remotes, PeerStep(r), TypeInv', OwnerInv',
           QuietLane(r), PeerInv(r)'
    PROVE  AttemptsInv'
<1>1. \A q \in Remotes : PeerInv(q)'
  BY PeerStepOthers, UndisturbedPeer DEF AttemptsInv
<1>2. \A l \in Lanes : QuietLane(l)
  BY PeerIsLane, QuietAt DEF PeerStep, QuietLane
<1>3. DocsInv'
  BY <1>2, QuietDocs DEF AttemptsInv, PeerStep, QuietStep
<1>4. call'[Operator] = call[Operator]
  BY PeerIsLane DEF PeerStep, AtLane, Lanes
<1>5. DownInv' /\ RestInv'
  BY DEF PeerStep, DownInv, RestInv
<1>6. OperatorInv'
  BY <1>4 DEF AttemptsInv, OperatorInv, PeerStep
<1>7. RevokeInv'
  <2>1. \A q \in Remotes :
          contextsOf(q)' \subseteq contextsOf(q) \cup {a.id : a \in attemptsOf(view, q)}
    <3> TAKE q \in Remotes
    <3>1. CASE q = r
      BY <3>1 DEF PeerStep, has
    <3>2. CASE q # r
      BY <3>2 DEF PeerStep, contextsOf
    <3> QED BY <3>1, <3>2
  <2>2. /\ view' = view /\ disk' = disk /\ state'.admissible \subseteq state.admissible
        /\ state'.paired = state.paired
    BY DEF PeerStep
  <2>3. call[Operator].target.revoked \subseteq Remotes
    BY LaneTypes DEF AttemptsInv, Lanes, Document
  <2> QED BY <1>4, <2>1, <2>2, <2>3 DEF AttemptsInv, RevokeInv
<1> QED BY <1>1, <1>3, <1>5, <1>6, <1>7 DEF AttemptsInv

-----------------------------------------------------------------------------
(* Operations of a lane that begin.                                        *)

LEMMA SameContexts ==
    ASSUME contexts' = contexts
    PROVE  /\ \A r : contextsOf(r)' = contextsOf(r)
           /\ \A id : open(id)' <=> open(id)
BY DEF contextsOf, open

LEMMA SamePeerStep ==
    ASSUME NEW r \in Remotes, AtLane(r) \/ call' = call,
           UNCHANGED <<disk, provider, view, started, contexts, retry, hub, state>>,
           state.run \notin {"down", "starting"}
    PROVE  PeerStep(r)
<1>1. contextsOf(r)' = contextsOf(r)
  BY SameContexts
<1>2. \A id \in contextsOf(r)' : id \in contextsOf(r) \/ has(r, id)
  BY <1>1
<1>3. /\ disk' = disk /\ provider' = provider /\ view' = view /\ started' = started
      /\ contexts' = contexts /\ retry' = retry /\ hub' = hub /\ state' = state
  OBVIOUS
<1>4. /\ retry'.inflight \subseteq retry.inflight \cup {r}
      /\ state'.admissible \subseteq state.admissible
  BY <1>3
<1>5. /\ \A id \in DOMAIN contexts' : contexts'[id].remote # r =>
           /\ id \in DOMAIN contexts /\ contexts[id].remote = contexts'[id].remote
           /\ contexts[id].settlement = contexts'[id].settlement
      /\ \A id \in DOMAIN contexts : contexts[id].remote # r =>
           /\ id \in DOMAIN contexts' /\ contexts'[id].remote = contexts[id].remote
           /\ contexts'[id].settlement = contexts[id].settlement
  BY <1>3, Zenon
<1>6. \A id \in hub'.permits : id \in hub.permits
  BY <1>3, Zenon
<1>7. /\ state'.recovery = "open" => state.recovery = "open"
      /\ state'.paired = state.paired /\ state'.run = state.run
  BY <1>3, Zenon
<1> QED BY <1>2, <1>3, <1>4, <1>5, <1>6, <1>7 DEF PeerStep

LEMMA SamePeer ==
    ASSUME AttemptsInv, NEW r \in Remotes, call' = call,
           UNCHANGED <<view, contexts, retry, hub, state>>
    PROVE  PeerInv(r)'
<1>1. contextsOf(r)' = contextsOf(r)
  BY SameContexts
<1>2. r \in view.revoked => contextsOf(r) = {} /\ attemptsOf(view, r) = {}
  BY DEF AttemptsInv, PeerInv, ContextInv, DocsInv, PaidInv, DocOK, attemptsOf
<1>3. Undisturbed(r)
  BY <1>1, <1>2 DEF Undisturbed
<1> QED BY <1>3, UndisturbedPeer DEF AttemptsInv

LEMMA EntersKeeps ==
    ASSUME AttemptsInv, TypeInv', NEW r \in Remotes, NEW id \in Ids,
           NEW op \in Ending, NEW tries \in 0..1,
           NEW by \in {"hub", "close", "handshake", "lease", "settle", "shutdown"},
           enters(r, op, id, by, tries), there(r, id),
           has(r, id) \/ call[r].id = id,
           call[r].at \in {"idle", "after"}, \A i : ~removes(call[r], i),
           UNCHANGED <<disk, provider, view, started, drawn, contexts, retry, hub, state>>,
           \A q \in Remotes : bridge'.pending[q] \in {None, bridge.pending[q]},
           state.run \notin {"down", "starting"}
    PROVE  AttemptsInv'
<1>1. r \in Lanes /\ op \in Operations /\ tries \in 0..2
  BY PeerIsLane DEF Ending, Operations
<1>2. /\ AtLane(r)
      /\ call'[r].at = "enter" /\ call'[r].op = op /\ call'[r].id = id
      /\ call'[r].tries = tries /\ call'[r].failed = None
      /\ call'[r].removed = {} /\ call'[r].target = empty
  BY <1>1, Enters DEF AttemptsInv
<1>3. QuietLane(r)
  BY <1>2 DEF QuietLane, arriving, publishing
<1>4. PeerStep(r)
  BY <1>2, SamePeerStep
<1>5. OwnerInv'
  <2>1. PICK o \in [1..drawn -> Remotes] : Owner(o, drawn)
    BY DEF AttemptsInv, OwnerInv
  <2>2. Of(o, drawn, id, r)
    <3>1. CASE has(r, id)
      BY <2>1, <3>1 DEF has, attemptsOf, Owner, OwnDoc
    <3>2. CASE call[r].id = id
      <4>1. OwnCall(o, drawn, call[r], r) /\ id # None
        BY <1>1, <2>1, AttemptsAssumption DEF Owner
      <4> QED BY <3>2, <4>1 DEF OwnCall
    <3> QED BY <3>1, <3>2
  <2>3. OwnCall(o, drawn, call'[r], r)
    BY <1>1, <1>2, <2>2, OwnEnters DEF AttemptsInv
  <2>4. OwnRest(o, drawn)'
    BY <2>1, OwnRestKept DEF Owner
  <2> QED BY <1>1, <1>2, <2>1, <2>3, <2>4, OwnerLane
<1>6. PeerInv(r)'
  <2>1. CallInv(r)'
    BY <1>2 DEF CallInv, LaneOps, Ending
  <2>2. LaneInv(r)'
    BY <1>2 DEF LaneInv, Ending, ended, there, has
  <2>3. ContextInv(r)'
    BY DEF AttemptsInv, PeerInv, ContextInv, contextsOf, has
  <2>4. LaunchInv(r)'
    <3>1. contextsOf(r)' = contextsOf(r)
      BY SameContexts
    <3>2. LaunchInv(r)
      BY DEF AttemptsInv, PeerInv
    <3> QED BY <3>1, <3>2 DEF LaunchInv
  <2>5. FlagInv(r)'
    BY <1>2 DEF FlagInv
  <2> QED BY <2>1, <2>2, <2>3, <2>4, <2>5 DEF PeerInv
<1> QED BY <1>3, <1>4, <1>5, <1>6, PeerStepKeeps

\* The lane of a peer that is free, and an attempt with its record.
LEMMA FreeLane ==
    ASSUME AttemptsInv, NEW r \in Remotes, free(r)
    PROVE  /\ call[r].at = "idle" /\ \A i : ~removes(call[r], i)
           /\ state.run \notin {"down", "starting"}
BY DEF free, removes, ended

LEMMA Recorded ==
    ASSUME AttemptsInv, NEW r \in Remotes, NEW id, exact(id) # {}, record(id).remote = r
    PROVE  has(r, id) /\ there(r, id) /\ id \in Ids
<1>1. /\ record(id) \in view.attempts /\ record(id).id = id /\ record(id) \in Attempt
  BY RecordIs DEF AttemptsInv
<1> QED BY <1>1 DEF has, there, attemptsOf, Attempt

\* Only the bridge's memory of failures changes.
LEMMA BridgeKeeps ==
    ASSUME AttemptsInv, TypeInv', NEW r \in Remotes, call' = call,
           UNCHANGED <<disk, provider, view, started, drawn, contexts, retry, hub, state>>,
           \A q \in Remotes : \/ bridge'.pending[q] \in {None, bridge.pending[q]}
                             \/ has(q, bridge'.pending[q]),
           state.run \notin {"down", "starting"}
    PROVE  AttemptsInv'
<1>1. PeerStep(r) /\ QuietLane(r)
  BY SamePeerStep DEF QuietLane
<1>2. OwnerInv'
  <2>1. PICK o \in [1..drawn -> Remotes] : Owner(o, drawn)
    BY DEF AttemptsInv, OwnerInv
  <2>2. \A q \in Remotes : bridge'.pending[q] # None => Of(o, drawn, bridge'.pending[q], q)
    <3> TAKE q \in Remotes
    <3>1. CASE has(q, bridge'.pending[q])
      BY <2>1, <3>1 DEF has, attemptsOf, Owner, OwnDoc
    <3>2. CASE bridge'.pending[q] \in {None, bridge.pending[q]}
      BY <2>1, <3>2 DEF Owner, OwnRest
    <3> QED BY <3>1, <3>2
  <2>3. OwnRest(o, drawn)'
    BY <2>1, <2>2 DEF Owner, OwnRest
  <2>4. OwnCall(o, drawn, call'[r], r)
    BY <2>1, PeerIsLane DEF Owner
  <2> QED BY <2>1, <2>3, <2>4, PeerIsLane, OwnerLane
<1>3. PeerInv(r)'
  BY SamePeer
<1> QED BY <1>1, <1>2, <1>3, PeerStepKeeps

LEMMA AbortPreparedKeeps ==
    ASSUME AttemptsInv, TypeInv', NEW r \in Remotes, NEW id \in Ids, AbortPrepared(r, id)
    PROVE  AttemptsInv'
<1>1. has(r, id) /\ there(r, id)
  BY Recorded DEF AbortPrepared
<1>2. /\ call[r].at = "idle" /\ \A i : ~removes(call[r], i)
      /\ state.run \notin {"down", "starting"}
  BY FreeLane DEF AbortPrepared
<1>3. /\ enters(r, "abort", id, "hub", 0)
      /\ UNCHANGED <<disk, provider, view, started, drawn, contexts, retry, hub, state, bridge>>
  BY DEF AbortPrepared, durable, memory, counters
<1> QED BY <1>1, <1>2, <1>3, EntersKeeps DEF Ending

LEMMA HandshakeKeeps ==
    ASSUME AttemptsInv, TypeInv', NEW r \in Remotes, NEW id \in Ids,
           NEW h \in {"in_progress", "complete", "error"},
           HandshakeStateUpdate(r, id, h)
    PROVE  AttemptsInv'
<1>1. has(r, id) /\ there(r, id)
  BY Recorded, LaunchedIs DEF HandshakeStateUpdate, callbackExact
<1>2. /\ call[r].at = "idle" /\ \A i : ~removes(call[r], i)
      /\ state.run \notin {"down", "starting"}
  BY FreeLane DEF HandshakeStateUpdate, reported
<1>3. UNCHANGED <<disk, provider, view, started, drawn, contexts, retry, hub, state>>
  BY DEF HandshakeStateUpdate, durable, memory, counters
<1>4. \A q \in Remotes : bridge'.pending[q] \in {None, bridge.pending[q]}
  BY DEF HandshakeStateUpdate, AttemptsInv, TypeInv, Bridge
<1>5. CASE h # "in_progress"
  <2>1. enters(r, IF h = "complete" THEN "success" ELSE "failure", id, "handshake", 0)
    BY <1>5 DEF HandshakeStateUpdate
  <2> QED BY <1>1, <1>2, <1>3, <1>4, <2>1, EntersKeeps DEF Ending
<1>6. CASE h = "in_progress"
  BY <1>2, <1>3, <1>4, <1>6, BridgeKeeps DEF HandshakeStateUpdate
<1> QED BY <1>5, <1>6

LEMMA SettlePendingKeeps ==
    ASSUME AttemptsInv, TypeInv', NEW r \in Remotes, SettlePendingFailure(r)
    PROVE  AttemptsInv'
<1> DEFINE id == bridge.pending[r]
<1>1. /\ call[r].at = "idle" /\ \A i : ~removes(call[r], i)
      /\ state.run \notin {"down", "starting"}
  BY FreeLane DEF SettlePendingFailure
<1>2. UNCHANGED <<disk, provider, view, started, drawn, contexts, retry, hub, state>>
  BY DEF SettlePendingFailure, durable, memory, counters
<1>3. \A q \in Remotes : bridge'.pending[q] \in {None, bridge.pending[q]}
  <2>1. CASE bridge' = cleared(r, id)
    BY <2>1, ClearedType DEF AttemptsInv
  <2>2. CASE bridge' = [bridge EXCEPT !.timers = @ \ {r}]
    BY <2>2 DEF AttemptsInv, TypeInv, Bridge
  <2> QED BY <2>1, <2>2 DEF SettlePendingFailure
<1>4. CASE callbackExact(id) /\ record(id).remote = r
  <2>1. has(r, id) /\ there(r, id) /\ id \in Ids
    BY <1>4, Recorded, LaunchedIs DEF callbackExact
  <2>2. enters(r, "failure", id, "settle", 0)
    BY <1>4 DEF SettlePendingFailure
  <2> QED BY <1>1, <1>2, <1>3, <2>1, <2>2, EntersKeeps DEF Ending
<1>5. CASE ~(callbackExact(id) /\ record(id).remote = r)
  <2>1. call' = call
    BY <1>5 DEF SettlePendingFailure
  <2> QED BY <1>1, <1>2, <1>3, <2>1, BridgeKeeps
<1> QED BY <1>4, <1>5

LEMMA OwnedContext ==
    ASSUME AttemptsInv, NEW id \in DOMAIN contexts
    PROVE  \A a \in view.attempts : a.id = id => a.remote = contexts[id].remote
<1>1. PICK o \in [1..drawn -> Remotes] : Owner(o, drawn)
  BY DEF AttemptsInv, OwnerInv
<1> QED BY <1>1 DEF Owner, OwnRest, OwnDoc, Of

LEMMA ExpireKeeps ==
    ASSUME AttemptsInv, TypeInv', NEW r \in Remotes, NEW id \in Ids,
           ExpireOutgoingAttemptLease(r, id)
    PROVE  AttemptsInv'
<1>1. record(id).remote = r
  BY RecordIs, OwnedContext DEF ExpireOutgoingAttemptLease, open, AttemptsInv
<1>2. has(r, id) /\ there(r, id)
  BY <1>1, Recorded DEF ExpireOutgoingAttemptLease
<1>3. /\ call[r].at = "idle" /\ \A i : ~removes(call[r], i)
      /\ state.run \notin {"down", "starting"}
  BY FreeLane DEF ExpireOutgoingAttemptLease
<1>4. /\ enters(r, IF reserved(id) THEN "abort" ELSE "failure", id, "lease", 0)
      /\ UNCHANGED <<disk, provider, view, started, drawn, contexts, retry, hub, state, bridge>>
  BY DEF ExpireOutgoingAttemptLease, durable, memory, counters
<1> QED BY <1>2, <1>3, <1>4, EntersKeeps DEF Ending

LEMMA SettleForShutdownKeeps ==
    ASSUME AttemptsInv, TypeInv', NEW r \in Remotes, SettleForShutdown(r)
    PROVE  AttemptsInv'
<1>1. PICK a \in attemptsOf(view, r) :
        enters(r, IF a.state = "ATTEMPT_RESERVED" THEN "abort" ELSE "failure",
               a.id, "shutdown", 0)
  BY DEF SettleForShutdown
<1>2. a.id \in Ids /\ has(r, a.id) /\ there(r, a.id)
  BY DEF attemptsOf, has, there, AttemptsInv, TypeInv, Document, Attempt
<1>3. /\ call[r].at = "idle" /\ \A i : ~removes(call[r], i)
      /\ state.run \notin {"down", "starting"}
  BY FreeLane DEF SettleForShutdown
<1>4. UNCHANGED <<disk, provider, view, started, drawn, contexts, retry, hub, state, bridge>>
  BY DEF SettleForShutdown, durable, memory, counters
<1> QED BY <1>1, <1>2, <1>3, <1>4, EntersKeeps DEF Ending

-----------------------------------------------------------------------------
(* Operations of a lane that end.                                          *)

StateKept ==
    /\ state'.recovery = "open" => state.recovery = "open"
    /\ state'.paired = state.paired /\ state'.admissible \subseteq state.admissible
    /\ state.run \notin {"down", "starting"} /\ state'.run \notin {"down", "starting"}

LEMMA BusyRuns ==
    ASSUME AttemptsInv, NEW r \in Remotes, call[r].at # "idle"
    PROVE  state.run \notin {"down", "starting"}
BY DEF AttemptsInv, RestInv

LEMMA StateSame ==
    ASSUME state' = state, state.run \notin {"down", "starting"}
    PROVE  StateKept
<1>1. /\ state'.recovery = state.recovery /\ state'.paired = state.paired
      /\ state'.admissible = state.admissible /\ state'.run = state.run
  OBVIOUS
<1> QED BY <1>1 DEF StateKept

LEMMA StateReports ==
    ASSUME TypeInv, NEW by, NEW ok, reports(by, ok),
           state.run \notin {"down", "starting"}
    PROVE  StateKept
<1>1. CASE state' = state
  BY <1>1, StateSame
<1>2. CASE state' = [state EXCEPT !.run = "unsettled"]
  BY <1>2 DEF StateKept, TypeInv, State
<1> QED BY <1>1, <1>2 DEF reports

LEMMA StateQuarantined ==
    ASSUME TypeInv, state' = quarantine, state.run \notin {"down", "starting"}
    PROVE  StateKept /\ state'.recovery # "open"
BY DEF StateKept, TypeInv, State, quarantine

\* The peer's lane is idle afterwards.
LEMMA EndsKeeps ==
    ASSUME AttemptsInv, TypeInv', OwnerInv', NEW r \in Remotes, PeerStep(r),
           call'[r].at = "idle", call[r].at # "finish",
           \A i \in contextsOf(r)' :
             \/ has(r, i) \/ contexts'[i].settlement = "success"
             \/ contexts'[i].settlement = "durability_unknown" /\ state'.recovery # "open",
           \A i \in contextsOf(r)' : i \in hub'.permits /\ contexts'[i].settlement = "" =>
             \E a \in attemptsOf(view, r) :
               a.id = i /\ a.state = "ATTEMPT_LAUNCH_AUTHORIZED",
           \A i, j \in contextsOf(r)' : i = j,
           r \in view.revoked => contextsOf(r)' = {},
           r \in retry'.inflight => r \in view.revoked \/ attemptsOf(view, r) # {}
    PROVE  AttemptsInv'
<1>1. view' = view
  BY DEF PeerStep
<1>2. QuietLane(r)
  BY DEF QuietLane, arriving, publishing
<1>3. CallInv(r)' /\ LaneInv(r)'
  BY DEF CallInv, LaneInv
<1>4. ContextInv(r)'
  BY <1>1 DEF ContextInv, has
<1>5. LaunchInv(r)'
  BY <1>1 DEF LaunchInv
<1>6. FlagInv(r)'
  BY <1>1 DEF FlagInv
<1> QED BY <1>2, <1>3, <1>4, <1>5, <1>6, PeerStepKeeps DEF PeerInv

LEMMA LaneContext ==
    ASSUME AttemptsInv, NEW r \in Remotes, NEW i \in DOMAIN contexts,
           i = call[r].id \/ i = call[r].failed
    PROVE  contexts[i].remote = r
<1>1. PICK o \in [1..drawn -> Remotes] : Owner(o, drawn)
  BY DEF AttemptsInv, OwnerInv
<1>2. OwnCall(o, drawn, call[r], r)
  BY <1>1, PeerIsLane DEF Owner
<1>3. i # None
  BY AttemptsAssumption DEF AttemptsInv, TypeInv, ContextsType
<1>4. o[i] = r
  BY <1>2, <1>3 DEF OwnCall, Of
<1> QED BY <1>1, <1>4 DEF Owner, OwnRest, Of

\* The attempt of a lane in the document in memory.
LEMMA LaneExact ==
    ASSUME AttemptsInv, NEW r \in Remotes, call[r].id \in Ids
    PROVE  /\ \A a \in view.attempts : a.id = call[r].id => a.remote = r
           /\ exact(call[r].id) # {} => has(r, call[r].id)
<1>1. PICK o \in [1..drawn -> Remotes] : Owner(o, drawn)
  BY DEF AttemptsInv, OwnerInv
<1>2. OwnCall(o, drawn, call[r], r) /\ OwnDoc(o, drawn, view)
  BY <1>1, PeerIsLane DEF Owner
<1>3. Of(o, drawn, call[r].id, r)
  BY <1>2, AttemptsAssumption DEF OwnCall
<1> QED BY <1>2, <1>3, OwnedAttempts DEF exact, has, attemptsOf

\* The lane ends, and with it at most the context of its own attempt.
LEMMA CancelKeeps ==
    ASSUME AttemptsInv, TypeInv', NEW r \in Remotes, NEW x,
           \/ ends(r) /\ call[r].at \in {"enter", "after"}
           \/ call' = call /\ call[r].at = "idle",
           contexts' = contexts \/ contexts' = without(contexts, {x}),
           \A i \in DOMAIN contexts : i = x => contexts[i].remote = r,
           \A i \in contextsOf(r)' : ~removes(call[r], i),
           UNCHANGED <<disk, provider, view, started, drawn, hub>>,
           \A q \in Remotes : bridge'.pending[q] \in {None, bridge.pending[q]},
           retry'.inflight \subseteq retry.inflight,
           r \in retry'.inflight => r \in view.revoked \/ attemptsOf(view, r) # {},
           StateKept
    PROVE  AttemptsInv'
<1>1. r \in Lanes
  BY PeerIsLane
<1>2. /\ AtLane(r) \/ call' = call
      /\ call'[r] = unused \/ call' = call
      /\ call'[r].at = "idle" /\ call[r].at # "finish"
  <2>1. CASE ends(r) /\ call[r].at \in {"enter", "after"}
    <3>1. AtLane(r) /\ call'[r] = unused
      BY <1>1, <2>1, Ends DEF AttemptsInv
    <3> QED BY <2>1, <3>1 DEF unused
  <2>2. CASE call' = call /\ call[r].at = "idle"
    BY <2>2
  <2> QED BY <2>1, <2>2
<1>4. /\ \A i \in DOMAIN contexts' : i \in DOMAIN contexts /\ contexts'[i] = contexts[i]
      /\ \A i \in DOMAIN contexts : i # x => i \in DOMAIN contexts'
  <2>1. CASE contexts' = contexts
    BY <2>1, Zenon
  <2>2. CASE contexts' = without(contexts, {x})
    <3>1. TypeInv
      BY DEF AttemptsInv
    <3>2. /\ DOMAIN contexts' = DOMAIN contexts \ {x}
          /\ \A i \in DOMAIN contexts' : contexts'[i] = contexts[i]
      BY <2>2, <3>1, Without
    <3> QED BY <3>2
  <2> QED BY <2>1, <2>2
<1>5. \A i \in contextsOf(r)' : i \in contextsOf(r)
  BY <1>4 DEF contextsOf
<1>6. PeerStep(r)
  BY <1>2, <1>4, <1>5 DEF PeerStep, StateKept
<1>7. OwnerInv'
  <2>1. PICK o \in [1..drawn -> Remotes] : Owner(o, drawn)
    BY DEF AttemptsInv, OwnerInv
  <2>2. OwnCall(o, drawn, call'[r], r)
    BY <1>1, <1>2, <2>1, OwnUnused DEF Owner
  <2>3. OwnRest(o, drawn)'
    BY <1>4, <2>1, OwnRestKept DEF Owner
  <2> QED BY <1>1, <1>2, <2>1, <2>2, <2>3, OwnerLane
<1>8. \A i \in contextsOf(r)' : contexts'[i] = contexts[i]
  BY <1>4 DEF contextsOf
<1>9. ContextInv(r) /\ LaunchInv(r)
  BY DEF AttemptsInv, PeerInv
<1>10. ASSUME NEW i \in contextsOf(r)'
       PROVE  \/ has(r, i) \/ contexts'[i].settlement = "success"
              \/ contexts'[i].settlement = "durability_unknown" /\ state'.recovery # "open"
  BY <1>5, <1>8, <1>9 DEF ContextInv, StateKept
<1>11. ASSUME NEW i \in contextsOf(r)', i \in hub'.permits, contexts'[i].settlement = ""
       PROVE  \E a \in attemptsOf(view, r) :
                a.id = i /\ a.state = "ATTEMPT_LAUNCH_AUTHORIZED"
  BY <1>5, <1>8, <1>9, <1>11 DEF LaunchInv
<1>12. /\ \A i, j \in contextsOf(r)' : i = j
       /\ r \in view.revoked => contextsOf(r)' = {}
  BY <1>5, <1>9 DEF ContextInv
<1> QED BY <1>2, <1>6, <1>7, <1>10, <1>11, <1>12, EndsKeeps

LEMMA Flagged ==
    ASSUME NEW r, NEW id, there(r, id)
    PROVE  r \in view.revoked \/ attemptsOf(view, r) # {}
BY DEF there, has

LEMMA EnteredLane ==
    ASSUME AttemptsInv, NEW r \in Remotes, call[r].at = "enter", call[r].op \in Ending
    PROVE  /\ there(r, call[r].id) /\ call[r].id \in Ids
           /\ \A i : ~removes(call[r], i)
           /\ state.run \notin {"down", "starting"}
<1>1. CallInv(r) /\ LaneInv(r)
  BY DEF AttemptsInv, PeerInv
<1> QED BY <1>1, BusyRuns DEF CallInv, LaneInv, ended, removes

\* An operation of the peer ends before it publishes.
LEMMA GivesUpKeeps ==
    ASSUME AttemptsInv, TypeInv', NEW r \in Remotes, ends(r),
           call[r].at = "enter", call[r].op \in Ending,
           contexts' = contexts \/ contexts' = without(contexts, {call[r].id}),
           UNCHANGED <<disk, provider, view, started, drawn, hub, retry>>,
           \A q \in Remotes : bridge'.pending[q] \in {None, bridge.pending[q]},
           StateKept
    PROVE  AttemptsInv'
<1>1. there(r, call[r].id) /\ \A i : ~removes(call[r], i)
  BY EnteredLane
<1>2. r \in view.revoked \/ attemptsOf(view, r) # {}
  BY <1>1, Flagged
<1>3. \A i \in DOMAIN contexts : i = call[r].id => contexts[i].remote = r
  BY LaneContext
<1> QED BY <1>1, <1>2, <1>3, CancelKeeps

\* An operation of the peer builds its target, which ends its attempt.
LEMMA BuildsKeeps ==
    ASSUME AttemptsInv, TypeInv', NEW r \in Remotes, call[r].at = "enter",
           call[r].op \in Ending, AtLane(r), call'[r].at = "begin",
           call'[r].op = call[r].op, call'[r].id = call[r].id,
           call'[r].failed = call[r].failed, call'[r].removed = call[r].removed,
           call'[r].target.epoch = view.epoch + 1,
           call'[r].target.attempts = view.attempts \ exact(call[r].id),
           Follows(call'[r], r, view), call[r].op = "success" => open(call[r].id),
           UNCHANGED <<disk, provider, view, started, drawn, contexts, retry, hub, state, bridge>>
    PROVE  AttemptsInv'
<1>1. /\ there(r, call[r].id) /\ call[r].id \in Ids /\ \A i : ~removes(call[r], i)
      /\ state.run \notin {"down", "starting"}
  BY EnteredLane
<1>2. QuietLane(r)
  BY DEF QuietLane, arriving
<1>3. PeerStep(r)
  BY <1>1, SamePeerStep
<1>4. OwnerInv'
  <2>1. PICK o \in [1..drawn -> Remotes] : Owner(o, drawn)
    BY DEF AttemptsInv, OwnerInv
  <2>2. OwnCall(o, drawn, call[r], r) /\ OwnDoc(o, drawn, view)
    BY <2>1, PeerIsLane DEF Owner
  <2>3. call[r].removed = {}
    BY DEF AttemptsInv, PeerInv, CallInv
  <2>4. OwnCall(o, drawn, call'[r], r)
    BY <2>2, <2>3 DEF OwnCall, OwnDoc
  <2>5. OwnRest(o, drawn)'
    BY <2>1, OwnRestKept DEF Owner
  <2> QED BY <2>1, <2>4, <2>5, PeerIsLane, OwnerLane
<1>5. PeerInv(r)'
  <2>1. CallInv(r)'
    <3>1. CallInv(r)
      BY DEF AttemptsInv, PeerInv
    <3>2. call'[r].op \in Ending /\ call'[r].op # "prepare" /\ call'[r].at = "begin"
      BY DEF Ending
    <3>3. \A a \in call'[r].target.attempts : a.id # call'[r].id
      BY DEF exact
    <3> QED BY <3>1, <3>2, <3>3 DEF CallInv
  <2>2. LaneInv(r)'
    <3>1. there(r, call[r].id)'
      BY <1>1 DEF there, has
    <3>2. call'[r].op \in Ending /\ call'[r].op \notin {"prepare", "authorize"}
          /\ ~ended(call'[r])
      BY DEF Ending, ended
    <3>3. call'[r].op = "success" => open(call[r].id)'
      BY SameContexts
    <3>4. call'[r].id = call[r].id
      OBVIOUS
    <3> QED BY <3>1, <3>2, <3>3, <3>4 DEF LaneInv
  <2>3. ContextInv(r)'
    BY <1>1 DEF AttemptsInv, PeerInv, ContextInv, contextsOf, has
  <2>4. LaunchInv(r)'
    <3>1. contextsOf(r)' = contextsOf(r)
      BY SameContexts
    <3>2. LaunchInv(r)
      BY DEF AttemptsInv, PeerInv
    <3> QED BY <1>1, <3>1, <3>2 DEF LaunchInv
  <2>5. FlagInv(r)'
    BY DEF FlagInv
  <2> QED BY <2>1, <2>2, <2>3, <2>4, <2>5 DEF PeerInv
<1> QED BY <1>2, <1>3, <1>4, <1>5, PeerStepKeeps

LEMMA LaneRecord ==
    ASSUME AttemptsInv, NEW r \in Remotes, call[r].id \in Ids, exact(call[r].id) # {}
    PROVE  /\ exact(call[r].id) = {record(call[r].id)}
           /\ record(call[r].id) \in Attempt /\ record(call[r].id).remote = r
<1>1. /\ record(call[r].id) \in view.attempts /\ record(call[r].id).id = call[r].id
      /\ record(call[r].id) \in Attempt
  BY RecordIs DEF AttemptsInv
<1>2. \A a \in view.attempts : a.id = call[r].id => a.remote = r
  BY LaneExact
<1>3. \A a, b \in view.attempts : a.remote = b.remote => a = b
  BY DEF AttemptsInv, DocsInv, PaidInv, DocOK
<1> QED BY <1>1, <1>2, <1>3 DEF exact

LEMMA ChargeKeeps ==
    ASSUME AttemptsInv, TypeInv', NEW r \in Remotes, call[r].at = "enter",
           call[r].op \in {"abort", "failure"}, exact(call[r].id) # {},
           builds(r, call[r], firstTrustChargeOutgoingAttemptFailure(view, record(call[r].id))),
           UNCHANGED <<disk, provider, view, started, drawn, contexts, retry, hub, state, bridge>>
    PROVE  AttemptsInv'
<1> DEFINE e == firstTrustChargeOutgoingAttemptFailure(view, record(call[r].id))
<1>1. TypeInv /\ DocOK(view) /\ r \in Lanes /\ call[r].id \in Ids /\ call[r].op \in Ending
  BY PeerIsLane DEF AttemptsInv, DocsInv, PaidInv, PeerInv, CallInv, Ending
<1>2. view \in Document /\ call[r] \in Locals
  BY <1>1, LaneTypes DEF TypeInv
<1>3. exact(call[r].id) = {record(call[r].id)} /\ record(call[r].id) \in Attempt
  BY <1>1, LaneRecord
<1>4. e \in Document /\ e.attempts = view.attempts \ exact(call[r].id)
      /\ e.epoch = view.epoch
  BY <1>2, <1>3, ChargeType
<1>5. \A a \in view.attempts : a.id = call[r].id => a.remote = r
  BY <1>1, LaneExact
<1>6. Follows(call'[r], r, view)
  BY <1>1, <1>5, ChargeFollows
<1>7. builds(r, call[r], e)
  OBVIOUS
<1> HIDE DEF e
<1>8. /\ AtLane(r)
      /\ call'[r].at = "begin" /\ call'[r].target = advanced(e)
      /\ call'[r].op = call[r].op /\ call'[r].id = call[r].id
      /\ call'[r].failed = call[r].failed /\ call'[r].removed = call[r].removed
  BY <1>1, <1>2, <1>4, <1>7, Builds
<1>9. /\ call'[r].target.epoch = view.epoch + 1
      /\ call'[r].target.attempts = view.attempts \ exact(call[r].id)
  BY <1>4, <1>8, AdvancedType
<1>10. call[r].op # "success"
  OBVIOUS
<1> QED BY <1>1, <1>6, <1>8, <1>9, <1>10, BuildsKeeps

LEMMA EnterAbortKeeps ==
    ASSUME AttemptsInv, TypeInv', NEW r \in Remotes, EnterAbort(r)
    PROVE  AttemptsInv'
<1>1. /\ call[r].at = "enter" /\ call[r].op = "abort" /\ call[r].op \in Ending
      /\ UNCHANGED <<disk, provider, view, retry, bridge, hub, started, drawn>>
  BY DEF EnterAbort, durable, Ending
<1>2. state.run \notin {"down", "starting"} /\ TypeInv
  BY <1>1, BusyRuns DEF AttemptsInv
<1>3. CASE /\ reserved(call[r].id)
           /\ builds(r, call[r], firstTrustChargeOutgoingAttemptFailure(view, record(call[r].id)))
           /\ UNCHANGED <<state, contexts, disturbances>>
  BY <1>1, <1>3, LaunchedIs, ChargeKeeps
<1>4. CASE ends(r)
  <2>1. reports(call[r].by, FALSE) \/ state' = state
    BY <1>4 DEF EnterAbort
  <2>2. StateKept
    BY <1>2, <2>1, StateReports, StateSame
  <2>3. contexts' = contexts \/ contexts' = without(contexts, {call[r].id})
    BY DEF EnterAbort, cancelOutgoingAttemptRuntime
  <2> QED BY <1>1, <1>4, <2>2, <2>3, GivesUpKeeps
<1> QED BY <1>3, <1>4 DEF EnterAbort

LEMMA EnterFailureKeeps ==
    ASSUME AttemptsInv, TypeInv', NEW r \in Remotes, EnterFailure(r)
    PROVE  AttemptsInv'
<1>1. /\ call[r].at = "enter" /\ call[r].op = "failure" /\ call[r].op \in Ending
      /\ UNCHANGED <<disk, provider, view, retry, hub, started, drawn>>
  BY DEF EnterFailure, durable, Ending
<1>2. state.run \notin {"down", "starting"} /\ TypeInv
  BY <1>1, BusyRuns DEF AttemptsInv
<1>3. CASE /\ launched(call[r].id)
           /\ builds(r, call[r], firstTrustChargeOutgoingAttemptFailure(view, record(call[r].id)))
           /\ UNCHANGED <<state, contexts, bridge, disturbances>>
  BY <1>1, <1>3, LaunchedIs, ChargeKeeps
<1>4. CASE ends(r)
  <2>1. reports(call[r].by, FALSE) \/ state' = state
    BY <1>4 DEF EnterFailure
  <2>2. StateKept
    BY <1>2, <2>1, StateReports, StateSame
  <2>3. contexts' = contexts \/ contexts' = without(contexts, {call[r].id})
    BY DEF EnterFailure, cancelOutgoingAttemptRuntime
  <2>4. bridge' = bridge \/ bridge' = cleared(r, call[r].id)
    BY DEF EnterFailure
  <2>5. \A q \in Remotes : bridge'.pending[q] \in {None, bridge.pending[q]}
    BY <1>2, <2>4, ClearedType
  <2> QED BY <1>1, <1>4, <2>2, <2>3, <2>5, GivesUpKeeps
<1> QED BY <1>3, <1>4 DEF EnterFailure

\* What LaneInv says of an operation that ends an attempt and returns.
LEMMA ReturnedLane ==
    ASSUME AttemptsInv, NEW r \in Remotes, call[r].at = "after", call[r].op \in Ending
    PROVE  /\ call[r].outcome # "durable" => there(r, call[r].id)
           /\ call[r].outcome = "durable" => ~has(r, call[r].id)
           /\ \A i : removes(call[r], i) <=> call[r].outcome = "durable" /\ i = call[r].id
           /\ state.run \notin {"down", "starting"} /\ call[r].id \in Ids
<1>1. CallInv(r) /\ LaneInv(r)
  BY DEF AttemptsInv, PeerInv
<1> QED BY <1>1, BusyRuns DEF CallInv, LaneInv, ended, removes, Ending

LEMMA AbortReturnsKeeps ==
    ASSUME AttemptsInv, TypeInv', NEW r \in Remotes,
           AbortReturns(r) \/ FailureReturns(r)
    PROVE  AttemptsInv'
<1>1. /\ call[r].at = "after" /\ call[r].op \in Ending /\ ends(r)
      /\ contexts' = without(contexts, {call[r].id})
      /\ UNCHANGED <<disk, provider, view, hub, started, drawn>>
  BY DEF AbortReturns, FailureReturns, durable, Ending, cancelOutgoingAttemptRuntime, counters
<1>2. /\ call[r].outcome # "durable" => there(r, call[r].id)
      /\ \A i : removes(call[r], i) => i = call[r].id
      /\ state.run \notin {"down", "starting"} /\ TypeInv
  BY <1>1, ReturnedLane DEF AttemptsInv
<1>3. StateKept
  BY <1>2, StateReports DEF AbortReturns, FailureReturns
<1>4. bridge' = bridge \/ bridge' = cleared(r, call[r].id)
  BY DEF AbortReturns, FailureReturns
<1>5. \A q \in Remotes : bridge'.pending[q] \in {None, bridge.pending[q]}
  BY <1>2, <1>4, ClearedType
<1>6. \/ retry' = settled(r, call[r].outcome)
      \/ retry' = retry /\ call[r].outcome # "durable"
  BY DEF AbortReturns, FailureReturns
<1>7. /\ retry'.inflight \subseteq retry.inflight
      /\ r \in retry'.inflight => call[r].outcome # "durable"
  BY <1>2, <1>6, SettledType
<1>8. r \in retry'.inflight => r \in view.revoked \/ attemptsOf(view, r) # {}
  BY <1>2, <1>7, Flagged
<1>9. \A i \in DOMAIN contexts : i = call[r].id => contexts[i].remote = r
  BY LaneContext
<1>10. \A i \in contextsOf(r)' : i # call[r].id
  BY <1>1, <1>2, Without DEF contextsOf
<1> QED BY <1>1, <1>2, <1>3, <1>5, <1>7, <1>8, <1>9, <1>10, CancelKeeps

\* A context of the peer is settled and its lane ends.
LEMMA SettleKeeps ==
    ASSUME AttemptsInv, TypeInv', NEW r \in Remotes, ends(r),
           call[r].at \in {"enter", "after"}, call[r].id \in Ids,
           NEW s \in {"success", "durability_unknown"},
           contexts' = [contexts EXCEPT ![call[r].id].settlement = s],
           s = "durability_unknown" => state'.recovery # "open",
           \A i : removes(call[r], i) => i = call[r].id,
           UNCHANGED <<disk, provider, view, started, drawn, hub>>,
           \A q \in Remotes : bridge'.pending[q] \in {None, bridge.pending[q]},
           retry'.inflight = retry.inflight \ {r}, StateKept
    PROVE  AttemptsInv'
<1> DEFINE x == call[r].id
<1>1. r \in Lanes /\ TypeInv
  BY PeerIsLane DEF AttemptsInv
<1>2. AtLane(r) /\ call'[r] = unused /\ call'[r].at = "idle" /\ call[r].at # "finish"
  BY <1>1, Ends DEF unused
<1>3. /\ DOMAIN contexts' = DOMAIN contexts
      /\ \A i \in DOMAIN contexts' :
           /\ contexts'[i].remote = contexts[i].remote
           /\ contexts'[i].settlement = IF i = x THEN s ELSE contexts[i].settlement
  <2>1. SettledAs(x, s)
    BY <1>1, Settles
  <2> QED BY <2>1 DEF SettledAs
<1>4. \A i \in DOMAIN contexts : i = x => contexts[i].remote = r
  BY LaneContext
<1> HIDE DEF x
<1>5. contextsOf(r)' = contextsOf(r)
  BY <1>3 DEF contextsOf
<1>6. PeerStep(r)
  BY <1>2, <1>3, <1>4, <1>5 DEF PeerStep, StateKept
<1>7. OwnerInv'
  <2>1. PICK o \in [1..drawn -> Remotes] : Owner(o, drawn)
    BY DEF AttemptsInv, OwnerInv
  <2>2. OwnCall(o, drawn, call'[r], r)
    BY <1>2, OwnUnused
  <2>3. OwnRest(o, drawn)'
    BY <1>3, <2>1, OwnRestKept DEF Owner
  <2> QED BY <1>1, <1>2, <2>1, <2>2, <2>3, OwnerLane
<1>8. ContextInv(r) /\ LaunchInv(r)
  BY DEF AttemptsInv, PeerInv
<1>9. \A i \in contextsOf(r) :
        contexts'[i].settlement = IF i = x THEN s ELSE contexts[i].settlement
  BY <1>3 DEF contextsOf
<1>10. \A i : removes(call[r], i) => i = x
  BY DEF x
<1>11. ASSUME NEW i \in contextsOf(r)'
       PROVE  \/ has(r, i) \/ contexts'[i].settlement = "success"
              \/ contexts'[i].settlement = "durability_unknown" /\ state'.recovery # "open"
  BY <1>5, <1>8, <1>9, <1>10 DEF ContextInv, StateKept
<1>12. ASSUME NEW i \in contextsOf(r)', i \in hub'.permits, contexts'[i].settlement = ""
       PROVE  \E a \in attemptsOf(view, r) :
                a.id = i /\ a.state = "ATTEMPT_LAUNCH_AUTHORIZED"
  <2>1. i \in contextsOf(r) \cap hub.permits
    BY <1>5, <1>12
  <2>2. i # x
    BY <1>9, <1>12, <2>1
  <2>3. ~removes(call[r], i) /\ contexts[i].settlement = ""
    BY <1>9, <1>10, <1>12, <2>1, <2>2
  <2> QED BY <1>8, <2>1, <2>3 DEF LaunchInv
<1>13. /\ \A i, j \in contextsOf(r)' : i = j
       /\ r \in view.revoked => contextsOf(r)' = {}
  BY <1>5, <1>8 DEF ContextInv
<1>14. r \notin retry'.inflight
  OBVIOUS
<1> QED BY <1>2, <1>6, <1>7, <1>11, <1>12, <1>13, <1>14, EndsKeeps

LEMMA FailsClosedKeeps ==
    ASSUME AttemptsInv, TypeInv', NEW r \in Remotes, failsClosed(r, call[r]),
           call[r].at \in {"enter", "after"}, call[r].id \in Ids,
           \A i : ~removes(call[r], i),
           UNCHANGED <<disk, provider, view, started, drawn, hub>>
    PROVE  AttemptsInv'
<1>1. state.run \notin {"down", "starting"} /\ TypeInv
  BY BusyRuns DEF AttemptsInv
<1>2. StateKept /\ state'.recovery # "open"
  BY <1>1, StateQuarantined DEF failsClosed
<1>3. bridge' = bridge \/ bridge' = cleared(r, call[r].id)
  BY DEF failsClosed
<1>4. \A q \in Remotes : bridge'.pending[q] \in {None, bridge.pending[q]}
  BY <1>1, <1>3, ClearedType
<1>5. retry'.inflight = retry.inflight \ {r}
  BY <1>1 DEF failsClosed, TypeInv, Retry
<1>6. contexts' = [contexts EXCEPT ![call[r].id].settlement = "durability_unknown"] /\ ends(r)
  BY DEF failsClosed
<1> QED BY <1>2, <1>4, <1>5, <1>6, SettleKeeps

LEMMA BusyLanes == AttemptsInv => Busy
BY DEF AttemptsInv, PeerInv, CallInv, Busy

LEMMA EnterSuccessKeeps ==
    ASSUME AttemptsInv, TypeInv', NEW r \in Remotes, EnterSuccess(r)
    PROVE  AttemptsInv'
<1>1. /\ call[r].at = "enter" /\ call[r].op = "success" /\ call[r].op \in Ending
      /\ UNCHANGED <<disk, provider, view, hub, started, drawn>>
  BY DEF EnterSuccess, durable, Ending
<1>2. /\ state.run \notin {"down", "starting"} /\ TypeInv /\ call[r].id \in Ids
      /\ \A i : ~removes(call[r], i)
  BY <1>1, EnteredLane DEF AttemptsInv
<1>3. CASE /\ launched(call[r].id) /\ open(call[r].id)
           /\ builds(r, [call[r] EXCEPT !.tries = @ + 1],
               firstTrustResetOutgoingAttemptRetry(
                 [view EXCEPT !.attempts = @ \ exact(call[r].id)], r))
           /\ UNCHANGED <<state, contexts, retry, bridge, disturbances>>
  <2> DEFINE e == firstTrustResetOutgoingAttemptRetry(
                    [view EXCEPT !.attempts = @ \ exact(call[r].id)], r)
  <2>1. /\ AtLane(r)
        /\ call'[r].at = "begin" /\ call'[r].target = advanced(e)
        /\ call'[r].op = call[r].op /\ call'[r].id = call[r].id
        /\ call'[r].failed = call[r].failed /\ call'[r].removed = call[r].removed
    BY <1>2, <1>3, BusyLanes, SuccessLane
  <2>2. \A a \in view.attempts : a.id = call[r].id => a.remote = r
    BY <1>2, LaneExact
  <2>3. exact(call[r].id) # {} /\ DocOK(view)
    BY <1>3, LaunchedIs DEF AttemptsInv, DocsInv, PaidInv
  <2>4. Follows(call'[r], r, view)
    BY <1>2, <1>3, <2>2, <2>3, BusyLanes, SuccessFollows
  <2>5. e \in Document /\ e.epoch = view.epoch /\ e.attempts = view.attempts \ exact(call[r].id)
    BY <1>2, SuccessTarget
  <2> HIDE DEF e
  <2>6. /\ call'[r].target.epoch = view.epoch + 1
        /\ call'[r].target.attempts = view.attempts \ exact(call[r].id)
    BY <2>1, <2>5, AdvancedType
  <2> QED BY <1>1, <1>3, <2>1, <2>4, <2>6, BuildsKeeps
<1>4. CASE failsClosed(r, call[r])
  BY <1>1, <1>2, <1>4, FailsClosedKeeps
<1>5. CASE ends(r) /\ UNCHANGED <<state, contexts, retry, bridge>>
  BY <1>1, <1>2, <1>5, StateSame, GivesUpKeeps
<1> QED BY <1>3, <1>4, <1>5 DEF EnterSuccess

LEMMA SuccessReturnsKeeps ==
    ASSUME AttemptsInv, TypeInv', NEW r \in Remotes, SuccessReturns(r)
    PROVE  AttemptsInv'
<1> DEFINE c == call[r]
<1>1. /\ c.at = "after" /\ c.op = "success" /\ c.op \in Ending
      /\ UNCHANGED <<disk, provider, view, hub, started, drawn>>
  BY DEF SuccessReturns, durable, Ending, counters
<1>2. /\ c.outcome # "durable" => there(r, c.id)
      /\ c.outcome = "durable" => ~has(r, c.id)
      /\ \A i : removes(c, i) <=> c.outcome = "durable" /\ i = c.id
      /\ state.run \notin {"down", "starting"} /\ TypeInv /\ c.id \in Ids
  BY <1>1, ReturnedLane DEF AttemptsInv
<1>3. r \in view.revoked \/ open(c.id)
  BY <1>1 DEF AttemptsInv, PeerInv, LaneInv
<1>4. r \in view.revoked => contextsOf(r) = {}
  BY DEF AttemptsInv, PeerInv, ContextInv
<1>5. \A i \in DOMAIN contexts : i = c.id => contexts[i].remote = r
  BY LaneContext
<1>6. CASE /\ c.outcome = "durable"
           /\ contexts' = IF c.by = "close" THEN without(contexts, {c.id})
                          ELSE [contexts EXCEPT ![c.id].settlement = "success"]
           /\ retry' = settled(r, "durable") /\ bridge' = cleared(r, c.id)
           /\ ends(r) /\ UNCHANGED state
  <2>1. retry'.inflight = retry.inflight \ {r}
    BY <1>2, <1>6, SettledType
  <2>2. \A q \in Remotes : bridge'.pending[q] \in {None, bridge.pending[q]}
    BY <1>2, <1>6, ClearedType
  <2>3. StateKept
    BY <1>2, <1>6, StateSame
  <2>4. CASE contexts' = without(contexts, {c.id})
    <3>1. \A i \in contextsOf(r)' : i # c.id
      BY <1>2, <2>4, Without DEF contextsOf
    <3> QED BY <1>1, <1>2, <1>5, <1>6, <2>1, <2>2, <2>3, <2>4, <3>1, CancelKeeps
  <2>5. CASE contexts' = [contexts EXCEPT ![c.id].settlement = "success"]
    BY <1>1, <1>2, <1>6, <2>1, <2>2, <2>3, <2>5, SettleKeeps
  <2> QED BY <1>6, <2>4, <2>5
<1>7. CASE /\ c.outcome = "durable" /\ ~(open(c.id) /\ exact(c.id) = {})
           /\ ends(r) /\ UNCHANGED <<state, contexts, retry, bridge>>
  <2>1. exact(c.id) = {}
    BY <1>2, <1>7, LaneExact
  <2>2. r \in view.revoked /\ contextsOf(r)' = {}
    BY <1>3, <1>4, <1>7, <2>1, SameContexts
  <2> QED BY <1>1, <1>2, <1>5, <1>7, <2>2, StateSame, CancelKeeps
<1>8. CASE /\ c.outcome = "unchanged" /\ c.tries < maximumPublicationAttempts
           /\ enters(r, "success", c.id, c.by, c.tries)
           /\ UNCHANGED <<state, contexts, retry, bridge>>
  <2>1. c.tries \in 0..1
    BY <1>2, <1>8, PeerIsLane, LaneTypes DEF maximumPublicationAttempts
  <2>2. c.by \in {"hub", "close", "handshake", "lease", "settle", "shutdown"}
    BY <1>2, PeerIsLane, LaneTypes DEF Locals
  <2>3. "success" \in Ending
    BY DEF Ending
  <2> QED BY <1>1, <1>2, <1>8, <2>1, <2>2, <2>3, EntersKeeps
<1>9. CASE c.outcome # "durable" /\ failsClosed(r, c)
  BY <1>1, <1>2, <1>9, FailsClosedKeeps
<1>10. CASE /\ c.outcome # "durable" /\ ends(r)
            /\ bridge' = IF c.by = "handshake" THEN cleared(r, c.id) ELSE bridge
            /\ UNCHANGED <<state, contexts, retry>>
  <2>1. \A q \in Remotes : bridge'.pending[q] \in {None, bridge.pending[q]}
    BY <1>2, <1>10, ClearedType
  <2>2. r \in view.revoked \/ attemptsOf(view, r) # {}
    BY <1>2, <1>10, Flagged
  <2>3. \A i \in contextsOf(r)' : ~removes(c, i)
    BY <1>2, <1>10
  <2> QED BY <1>1, <1>2, <1>5, <1>10, <2>1, <2>2, <2>3, StateSame, CancelKeeps
<1> QED BY <1>6, <1>7, <1>8, <1>9, <1>10 DEF SuccessReturns

LEMMA PrepareDeniedKeeps ==
    ASSUME AttemptsInv, TypeInv', NEW r \in Remotes, PrepareDenied(r)
    PROVE  AttemptsInv'
<1> DEFINE c == call[r]
<1>1. /\ c.at = "after" /\ c.op = "prepare" /\ c.outcome # "durable" /\ ends(r)
      /\ UNCHANGED <<disk, provider, view, started, drawn, contexts, retry, bridge, hub, state>>
  BY DEF PrepareDenied, durable, memory, counters
<1>2. /\ c.failed # None => there(r, c.failed)
      /\ c.failed = None => r \notin retry.inflight
  BY <1>1 DEF AttemptsInv, PeerInv, LaneInv, ended
<1>3. r \in retry.inflight => r \in view.revoked \/ attemptsOf(view, r) # {}
  BY <1>2, Flagged
<1>4. \A i : ~removes(c, i)
  BY <1>1 DEF removes, ended
<1>5. StateKept
  BY <1>1, BusyRuns, StateSame
<1>6. \A i \in DOMAIN contexts : i = c.id => contexts[i].remote = r
  BY LaneContext
<1> QED BY <1>1, <1>3, <1>4, <1>5, <1>6, CancelKeeps

\* The reservation is durable: what PrepareReturns finds.
LEMMA ReturnedPrepare ==
    ASSUME AttemptsInv, NEW r \in Remotes, call[r].at = "after",
           call[r].op = "prepare", call[r].outcome = "durable"
    PROVE  /\ there(r, call[r].id) /\ contextsOf(r) \subseteq {call[r].failed}
           /\ call[r].id \in Ids /\ call[r].id \notin hub.permits
           /\ state.run \notin {"down", "starting"}
<1>1. CallInv(r) /\ LaneInv(r)
  BY DEF AttemptsInv, PeerInv
<1> QED BY <1>1, BusyRuns DEF CallInv, LaneInv, ended

LEMMA PrepareReturnsKeeps ==
    ASSUME AttemptsInv, TypeInv', NEW r \in Remotes, PrepareReturns(r)
    PROVE  AttemptsInv'
<1> DEFINE c == call[r]
<1>1. /\ c.at = "after" /\ c.op = "prepare" /\ c.outcome = "durable" /\ ends(r)
      /\ UNCHANGED <<disk, provider, view, started, drawn, state>>
  BY DEF PrepareReturns, durable, memory, counters
<1>2. /\ there(r, c.id) /\ contextsOf(r) \subseteq {c.failed}
      /\ c.id \in Ids /\ c.id \notin hub.permits
      /\ state.run \notin {"down", "starting"} /\ TypeInv /\ r \in Lanes
  BY <1>1, ReturnedPrepare, PeerIsLane DEF AttemptsInv
<1>3. StateKept
  BY <1>1, <1>2, StateSame
<1>4. \A i \in DOMAIN contexts : i = c.id \/ i = c.failed => contexts[i].remote = r
  BY LaneContext
<1>5. CASE contexts' = without(contexts, {c.failed}) /\ UNCHANGED <<retry, bridge, hub>>
  <2>1. \A i \in contextsOf(r)' : FALSE
    BY <1>2, <1>5, Without DEF contextsOf
  <2>2. r \in view.revoked \/ attemptsOf(view, r) # {}
    BY <1>2, Flagged
  <2> QED BY <1>1, <1>3, <1>4, <1>5, <2>1, <2>2, CancelKeeps
<1>6. CASE /\ exact(c.id) # {}
           /\ contexts' = without(registered(r, c.id), {c.failed})
           /\ retry' = [retry EXCEPT !.inflight = @ \cup {r}]
           /\ bridge' = [bridge EXCEPT !.pending[r] = None, !.timers = @ \ {r}]
           /\ hub' = [hub EXCEPT !.handles = @ \cup {c.id}]
  <2>1. has(r, c.id)
    BY <1>2, <1>6, LaneExact
  <2>2. /\ DOMAIN contexts' = (DOMAIN contexts \cup {c.id}) \ {c.failed}
        /\ \A i \in DOMAIN contexts' : i # c.id => contexts'[i] = contexts[i]
        /\ c.id \in DOMAIN contexts' => contexts'[c.id].remote = r
    <3>1. RegisteredAs(r, c.id, {c.failed})
      BY <1>2, <1>6, Registers
    <3> QED BY <3>1 DEF RegisteredAs
  <2>3. /\ hub'.permits = hub.permits /\ retry'.inflight = retry.inflight \cup {r}
        /\ \A q \in Remotes : bridge'.pending[q] \in {None, bridge.pending[q]}
    BY <1>2, <1>6 DEF TypeInv, HubState, Retry, Bridge
  <2>4. AtLane(r) /\ call'[r] = unused /\ call'[r].at = "idle"
    BY <1>1, <1>2, Ends DEF unused
  <2> HIDE DEF c
  <2>5. \A i \in contextsOf(r)' : i = c.id
    <3> SUFFICES ASSUME NEW i \in contextsOf(r)', i # c.id
                 PROVE  FALSE
      OBVIOUS
    <3>1. i \in DOMAIN contexts' /\ contexts'[i].remote = r
      BY DEF contextsOf
    <3>2. i \in DOMAIN contexts /\ i # c.failed /\ contexts'[i] = contexts[i]
      BY <2>2, <3>1
    <3>3. i \in contextsOf(r)
      BY <3>1, <3>2 DEF contextsOf
    <3> QED BY <1>2, <3>2, <3>3
  <2>6. /\ \A i \in DOMAIN contexts' : contexts'[i].remote # r =>
             i \in DOMAIN contexts /\ contexts'[i] = contexts[i]
        /\ \A i \in DOMAIN contexts : contexts[i].remote # r =>
             i \in DOMAIN contexts' /\ contexts'[i] = contexts[i]
    BY <1>4, <2>2
  <2>7. \A i \in contextsOf(r)' : i \in contextsOf(r) \/ has(r, i)
    BY <2>1, <2>5
  <2>8. PeerStep(r)
    BY <1>1, <1>3, <2>3, <2>4, <2>6, <2>7 DEF PeerStep, StateKept
  <2>9. OwnerInv'
    <3>1. PICK o \in [1..drawn -> Remotes] : Owner(o, drawn)
      BY DEF AttemptsInv, OwnerInv
    <3>2. Of(o, drawn, c.id, r)
      BY <2>1, <3>1 DEF has, attemptsOf, Owner, OwnDoc
    <3>3. \A i \in DOMAIN contexts' : Of(o, drawn, i, contexts'[i].remote)
      <4> TAKE i \in DOMAIN contexts'
      <4>1. CASE i = c.id
        BY <2>2, <3>2, <4>1
      <4>2. CASE i # c.id
        BY <2>2, <3>1, <4>2 DEF Owner, OwnRest
      <4> QED BY <4>1, <4>2
    <3>4. OwnRest(o, drawn)'
      BY <1>1, <2>3, <3>1, <3>3 DEF Owner, OwnRest
    <3>5. OwnCall(o, drawn, call'[r], r)
      BY <2>4, OwnUnused
    <3> QED BY <1>1, <1>2, <2>4, <3>1, <3>4, <3>5, OwnerLane
  <2>10. r \notin view.revoked /\ attemptsOf(view, r) # {}
    BY <2>1 DEF has, attemptsOf, AttemptsInv, DocsInv, PaidInv, DocOK
  <2>11. call[r].at # "finish"
    BY <1>1 DEF c
  <2>12. \A i \in contextsOf(r)' : has(r, i) /\ i \notin hub'.permits
    BY <1>2, <2>1, <2>3, <2>5
  <2> QED BY <2>4, <2>5, <2>8, <2>9, <2>10, <2>11, <2>12, EndsKeeps
<1> QED BY <1>5, <1>6 DEF PrepareReturns

LEMMA ConnectionClosedKeeps ==
    ASSUME AttemptsInv, TypeInv', NEW r \in Remotes, NEW id \in Ids,
           NEW complete \in BOOLEAN, ConnectionClosed(r, id, complete)
    PROVE  AttemptsInv'
<1>1. /\ call[r].at = "idle" /\ \A i : ~removes(call[r], i)
      /\ state.run \notin {"down", "starting"} /\ TypeInv
  BY FreeLane DEF ConnectionClosed, reported, AttemptsInv
<1>2. UNCHANGED <<disk, provider, view, started, drawn, hub, state>>
  BY DEF ConnectionClosed, durable, memory, counters
<1>3. CASE /\ consumable(r, id)
           /\ contexts' = without(contexts, {id})
           /\ retry' = [retry EXCEPT !.inflight = @ \ {r}]
           /\ bridge' = cleared(r, id)
           /\ UNCHANGED call
  <2>1. \A q \in Remotes : bridge'.pending[q] \in {None, bridge.pending[q]}
    BY <1>1, <1>3, ClearedType
  <2>2. retry'.inflight = retry.inflight \ {r}
    BY <1>1, <1>3 DEF TypeInv, Retry
  <2>3. \A i \in DOMAIN contexts : i = id => contexts[i].remote = r
    BY <1>3 DEF consumable
  <2> QED BY <1>1, <1>2, <1>3, <2>1, <2>2, <2>3, StateSame, CancelKeeps
<1>4. CASE /\ callbackExact(id) /\ record(id).remote = r
           /\ bridge' = IF bridge.pending[r] = None
                        THEN [bridge EXCEPT !.pending[r] = id, !.timers = @ \cup {r}]
                        ELSE bridge
           /\ UNCHANGED <<contexts, retry, call>>
  <2>1. has(r, id)
    BY <1>4, Recorded, LaunchedIs DEF callbackExact
  <2>2. \A q \in Remotes : \/ bridge'.pending[q] \in {None, bridge.pending[q]}
                          \/ has(q, bridge'.pending[q])
    BY <1>1, <1>4, <2>1 DEF TypeInv, Bridge
  <2> QED BY <1>1, <1>2, <1>4, <2>2, BridgeKeeps
<1>5. CASE /\ callbackExact(id) /\ record(id).remote = r
           /\ enters(r, IF complete THEN "success" ELSE "failure", id, "close", 0)
           /\ UNCHANGED <<contexts, retry, bridge>>
  <2>1. has(r, id) /\ there(r, id)
    BY <1>5, Recorded, LaunchedIs DEF callbackExact
  <2> QED BY <1>1, <1>2, <1>5, <2>1, EntersKeeps DEF Ending
<1> QED BY <1>3, <1>4, <1>5 DEF ConnectionClosed

\* Time passes.
LEMMA TimeKeeps ==
    ASSUME AttemptsInv, TypeInv', NEW r \in Remotes,
           UNCHANGED <<disk, provider, view, started, drawn, hub, state, bridge, call>>,
           DOMAIN contexts' = DOMAIN contexts,
           \A i \in DOMAIN contexts' :
             /\ contexts'[i].remote = contexts[i].remote
             /\ contexts'[i].settlement = contexts[i].settlement,
           retry'.inflight = retry.inflight,
           state.run \notin {"down", "starting"}
    PROVE  AttemptsInv'
<1>1. contextsOf(r)' = contextsOf(r)
  BY DEF contextsOf
<1>2. /\ \A i \in contextsOf(r) : contexts'[i].settlement = contexts[i].settlement
      /\ r \in view.revoked => contextsOf(r) = {} /\ attemptsOf(view, r) = {}
  BY DEF contextsOf, AttemptsInv, PeerInv, ContextInv, DocsInv, PaidInv, DocOK, attemptsOf
<1>3. Undisturbed(r)
  BY <1>1, <1>2 DEF Undisturbed
<1>4. PeerInv(r)'
  BY <1>3, UndisturbedPeer DEF AttemptsInv
<1>5. PeerStep(r) /\ QuietLane(r)
  BY <1>1 DEF PeerStep, QuietLane
<1>6. OwnerInv'
  <2>1. PICK o \in [1..drawn -> Remotes] : Owner(o, drawn)
    BY DEF AttemptsInv, OwnerInv
  <2>2. OwnRest(o, drawn)'
    BY <2>1, OwnRestKept DEF Owner
  <2>3. OwnCall(o, drawn, call'[r], r)
    BY <2>1, PeerIsLane DEF Owner
  <2> QED BY <2>1, <2>2, <2>3, PeerIsLane, OwnerLane
<1> QED BY <1>4, <1>5, <1>6, PeerStepKeeps

LEMMA LeaseLapsesKeeps ==
    ASSUME AttemptsInv, TypeInv', NEW id \in Ids, LeaseLapses(id)
    PROVE  AttemptsInv'
<1>1. /\ id \in DOMAIN contexts /\ contexts' = [contexts EXCEPT ![id].due = TRUE]
      /\ UNCHANGED <<disk, provider, view, started, drawn, hub, state, bridge, call, retry>>
  BY DEF LeaseLapses, open, durable, memory, counters
<1>2. contexts[id].remote \in Remotes /\ state.run \notin {"down", "starting"}
  BY <1>1 DEF AttemptsInv, TypeInv, ContextsType, Runtime, RestInv
<1>3. /\ DOMAIN contexts' = DOMAIN contexts
      /\ \A i \in DOMAIN contexts' :
           /\ contexts'[i].remote = contexts[i].remote
           /\ contexts'[i].settlement = contexts[i].settlement
  BY <1>1, Lapses DEF AttemptsInv
<1> QED BY <1>1, <1>2, <1>3, TimeKeeps

LEMMA BackoffElapsesKeeps ==
    ASSUME AttemptsInv, TypeInv', NEW r \in Remotes, BackoffElapses(r)
    PROVE  AttemptsInv'
<1>1. /\ state.run \notin {"down", "starting"}
      /\ UNCHANGED <<disk, provider, view, started, drawn, hub, state, bridge, call, contexts>>
  BY DEF BackoffElapses, durable, memory, counters
<1>2. retry'.inflight = retry.inflight
  BY DEF BackoffElapses, AttemptsInv, TypeInv, Retry
<1>3. /\ DOMAIN contexts' = DOMAIN contexts
      /\ \A i \in DOMAIN contexts' :
           /\ contexts'[i].remote = contexts[i].remote
           /\ contexts'[i].settlement = contexts[i].settlement
  BY <1>1, Zenon
<1> QED BY <1>1, <1>2, <1>3, TimeKeeps

-----------------------------------------------------------------------------
(* Reservation and launch.                                                 *)

\* A lane that was idle has built a target.
LEMMA BeginsKeeps ==
    ASSUME AttemptsInv, TypeInv', OwnerInv', NEW r \in Remotes, AtLane(r),
           call[r].at = "idle", call'[r].at = "begin",
           call'[r].target.epoch = view.epoch + 1, Follows(call'[r], r, view),
           CallInv(r)', LaneInv(r)',
           UNCHANGED <<disk, provider, view, started, contexts, retry, hub, state>>,
           state.run \notin {"down", "starting"}
    PROVE  AttemptsInv'
<1>1. QuietLane(r)
  BY DEF QuietLane, arriving
<1>2. PeerStep(r)
  BY SamePeerStep
<1>3. \A i : ~removes(call[r], i)
  BY DEF removes, ended
<1>4. contextsOf(r)' = contextsOf(r)
  BY SameContexts
<1>5. ContextInv(r)'
  BY <1>3, <1>4 DEF AttemptsInv, PeerInv, ContextInv, has
<1>6. LaunchInv(r)'
  <2>1. LaunchInv(r)
    BY DEF AttemptsInv, PeerInv
  <2> QED BY <1>3, <1>4, <2>1 DEF LaunchInv
<1>7. FlagInv(r)'
  BY DEF FlagInv
<1> QED BY <1>1, <1>2, <1>5, <1>6, <1>7, PeerStepKeeps DEF PeerInv

LEMMA AuthorizeLaunchKeeps ==
    ASSUME AttemptsInv, TypeInv', NEW r \in Remotes, NEW id \in Ids,
           AuthorizeLaunch(r, id)
    PROVE  AttemptsInv'
<1>1. /\ call[r].at = "idle" /\ \A i : ~removes(call[r], i)
      /\ state.run \notin {"down", "starting"} /\ TypeInv /\ r \in Lanes
  BY FreeLane, PeerIsLane DEF AuthorizeLaunch, AttemptsInv
<1>2. /\ exact(id) # {} /\ record(id).remote = r
      /\ UNCHANGED <<disk, provider, view, started, drawn, contexts, retry, hub, state, bridge>>
  BY LaunchedIs DEF AuthorizeLaunch, durable, memory
<1>3. has(r, id) /\ there(r, id)
  BY <1>2, Recorded
<1>4. CASE enters(r, "abort", id, "hub", 0)
  BY <1>1, <1>2, <1>3, <1>4, EntersKeeps DEF Ending
<1>5. CASE builds(r, [unused EXCEPT !.op = "authorize", !.id = id],
               [view EXCEPT !.attempts = (@ \ exact(id)) \cup
                  {[record(id) EXCEPT !.state = "ATTEMPT_LAUNCH_AUTHORIZED"]}])
  <2> DEFINE new == [record(id) EXCEPT !.state = "ATTEMPT_LAUNCH_AUTHORIZED"]
             e == [view EXCEPT !.attempts = (@ \ exact(id)) \cup {new}]
  <2>1. PICK o \in [1..drawn -> Remotes] : Owner(o, drawn)
    BY DEF AttemptsInv, OwnerInv
  <2>2. Of(o, drawn, id, r) /\ OwnDoc(o, drawn, view)
    BY <1>3, <2>1 DEF has, attemptsOf, Owner, OwnDoc
  <2>3. \A a \in view.attempts : a.id = id => a.remote = r
    BY <2>2, OwnedAttempts
  <2>4. Follows(call'[r], r, view)
    BY <1>1, <1>2, <1>5, <2>3, LaunchFollows DEF AttemptsInv, DocsInv, PaidInv
  <2>5. /\ AtLane(r)
        /\ call'[r].at = "begin" /\ call'[r].op = "authorize"
        /\ call'[r].id = id /\ call'[r].failed = None
        /\ call'[r].removed = {} /\ call'[r].target = advanced(e)
    BY <1>1, <1>2, <1>5, LaunchLane
  <2>6. /\ e \in Document /\ e.epoch = view.epoch
        /\ e.attempts = (view.attempts \ exact(id)) \cup {new}
        /\ new.id = id /\ new.remote = r
    BY <1>1, <1>2, LaunchTarget
  <2> HIDE DEF e, new
  <2>7. /\ call'[r].target.epoch = view.epoch + 1
        /\ call'[r].target.attempts = (view.attempts \ exact(id)) \cup {new}
    BY <2>5, <2>6, AdvancedType
  <2>8. OwnerInv'
    <3>1. OwnDoc(o, drawn, call'[r].target)
      BY <2>2, <2>6, <2>7 DEF OwnDoc
    <3>2. OwnCall(o, drawn, call'[r], r)
      BY <2>2, <2>5, <3>1 DEF OwnCall
    <3>3. OwnRest(o, drawn)'
      BY <1>2, <2>1, OwnRestKept DEF Owner
    <3> QED BY <1>1, <1>2, <2>1, <2>5, <3>2, <3>3, OwnerLane
  <2>9. CallInv(r)'
    BY <2>5 DEF CallInv, LaneOps, Ending
  <2>10. LaneInv(r)'
    <3>1. there(r, id)'
      BY <1>2, <1>3 DEF there, has
    <3> QED BY <2>5, <3>1 DEF LaneInv, Ending
  <2> QED BY <1>1, <1>2, <2>4, <2>5, <2>7, <2>8, <2>9, <2>10, BeginsKeeps
<1> QED BY <1>4, <1>5 DEF AuthorizeLaunch

LEMMA AuthorizeReturnsKeeps ==
    ASSUME AttemptsInv, TypeInv', NEW r \in Remotes, AuthorizeReturns(r)
    PROVE  AttemptsInv'
<1> DEFINE c == call[r]
<1>1. /\ c.at = "after" /\ c.op = "authorize"
      /\ UNCHANGED <<disk, provider, view, started, drawn, contexts, retry, bridge, state>>
  BY DEF AuthorizeReturns, durable, memory, counters
<1>2. /\ there(r, c.id) /\ c.id \in Ids /\ state.run \notin {"down", "starting"}
      /\ TypeInv /\ r \in Lanes
  BY <1>1, BusyRuns, PeerIsLane DEF AttemptsInv, PeerInv, CallInv, LaneInv
<1>3. \A i : ~removes(c, i)
  BY <1>1 DEF removes, Ending
<1>4. CASE /\ UNCHANGED hub
           /\ \/ enters(r, "failure", c.id, "hub", 0)
              \/ enters(r, "abort", c.id, "hub", 0)
  BY <1>1, <1>2, <1>3, <1>4, EntersKeeps DEF Ending
<1>5. CASE permissible(r, c.id) /\ ends(r) /\ hub' = [hub EXCEPT !.permits = @ \cup {c.id}]
  <2>1. AtLane(r) /\ call'[r] = unused /\ call'[r].at = "idle" /\ c.at # "finish"
    BY <1>1, <1>2, <1>5, Ends DEF unused
  <2>2. hub'.permits = hub.permits \cup {c.id}
    BY <1>2, <1>5 DEF TypeInv, HubState
  <2>3. contextsOf(r)' = contextsOf(r)
    BY <1>1, SameContexts
  <2>4. PeerStep(r)
    <3>1. StateKept
      BY <1>1, <1>2, StateSame
    <3>2. \A i \in hub'.permits : i \in hub.permits \/ (call[r].at # "idle" /\ i = call[r].id)
      BY <1>1, <2>2
    <3>3. contexts' = contexts /\ retry' = retry
      BY <1>1
    <3>4. /\ disk' = disk /\ provider' = provider /\ view' = view /\ started' = started
      BY <1>1
    <3>5. retry'.inflight \subseteq retry.inflight \cup {r}
      BY <3>3
    <3>6. /\ \A i \in DOMAIN contexts' : contexts'[i].remote # r =>
               /\ i \in DOMAIN contexts /\ contexts[i].remote = contexts'[i].remote
               /\ contexts[i].settlement = contexts'[i].settlement
          /\ \A i \in DOMAIN contexts : contexts[i].remote # r =>
               /\ i \in DOMAIN contexts' /\ contexts'[i].remote = contexts[i].remote
               /\ contexts'[i].settlement = contexts[i].settlement
      BY <3>3, Zenon
    <3> QED BY <2>1, <2>3, <3>1, <3>2, <3>4, <3>5, <3>6 DEF PeerStep, StateKept
  <2>5. OwnerInv'
    <3>1. PICK o \in [1..drawn -> Remotes] : Owner(o, drawn)
      BY DEF AttemptsInv, OwnerInv
    <3>2. OwnCall(o, drawn, call[r], r) /\ c.id # None
      BY <1>2, <3>1, AttemptsAssumption DEF Owner
    <3>3. c.id \in 1..drawn
      BY <3>2 DEF OwnCall, Of
    <3>4. OwnRest(o, drawn)'
      BY <1>1, <2>2, <3>1, <3>3 DEF Owner, OwnRest
    <3>5. OwnCall(o, drawn, call'[r], r)
      BY <2>1, OwnUnused
    <3> QED BY <1>1, <1>2, <2>1, <3>1, <3>4, <3>5, OwnerLane
  <2>6. ContextInv(r) /\ LaunchInv(r) /\ FlagInv(r)
    BY DEF AttemptsInv, PeerInv
  <2>7. contexts' = contexts /\ state' = state /\ retry' = retry
    BY <1>1
  <2>8. \E a \in attemptsOf(view, r) : a.id = c.id /\ a.state = "ATTEMPT_LAUNCH_AUTHORIZED"
    <3>1. PICK a \in exact(c.id) : a.state = "ATTEMPT_LAUNCH_AUTHORIZED"
      BY <1>5 DEF permissible, launched
    <3> QED BY <1>2, <3>1, LaneExact DEF exact, attemptsOf
  <2>9. ASSUME NEW i \in contextsOf(r)', i \in hub'.permits, contexts'[i].settlement = ""
        PROVE  \E a \in attemptsOf(view, r) :
                 a.id = i /\ a.state = "ATTEMPT_LAUNCH_AUTHORIZED"
    BY <1>3, <2>2, <2>3, <2>6, <2>7, <2>8, <2>9 DEF LaunchInv
  <2>10. ASSUME NEW i \in contextsOf(r)'
         PROVE  \/ has(r, i) \/ contexts'[i].settlement = "success"
                \/ contexts'[i].settlement = "durability_unknown" /\ state'.recovery # "open"
    BY <1>3, <2>3, <2>6, <2>7 DEF ContextInv
  <2>11. /\ \A i, j \in contextsOf(r)' : i = j
         /\ r \in view.revoked => contextsOf(r)' = {}
    BY <2>3, <2>6 DEF ContextInv
  <2>12. r \in view.revoked \/ attemptsOf(view, r) # {}
    BY <1>2, Flagged
  <2> QED BY <2>1, <2>4, <2>5, <2>9, <2>10, <2>11, <2>12, EndsKeeps
<1> QED BY <1>4, <1>5 DEF AuthorizeReturns

\* A new identity belongs to the peer that draws it.
LEMMA OwnerExtends ==
    ASSUME NEW n \in Nat, NEW o \in [1..n -> Remotes], NEW r \in Remotes
    PROVE  \E p \in [1..(n + 1) -> Remotes] :
             /\ Of(p, n + 1, n + 1, r)
             /\ \A i, q : Of(o, n, i, q) => Of(p, n + 1, i, q)
             /\ \A i \in 1..n : p[i] = o[i] /\ i \in 1..(n + 1)
<1> DEFINE p == [i \in 1..(n + 1) |-> IF i = n + 1 THEN r ELSE o[i]]
<1>1. p \in [1..(n + 1) -> Remotes]
  OBVIOUS
<1>2. p[n + 1] = r /\ n + 1 \in 1..(n + 1)
  OBVIOUS
<1>3. \A i \in 1..n : p[i] = o[i] /\ i \in 1..(n + 1)
  OBVIOUS
<1> HIDE DEF p
<1>4. Of(p, n + 1, n + 1, r)
  BY <1>2 DEF Of
<1>5. \A i, q : Of(o, n, i, q) => Of(p, n + 1, i, q)
  BY <1>3 DEF Of
<1> QED BY <1>1, <1>3, <1>4, <1>5

\* What Prepare finds: the only context is the one of the failure.
LEMMA PrepareFinds ==
    ASSUME AttemptsInv, NEW r \in Remotes, Prepare(r)
    PROVE  /\ r \notin view.revoked
           /\ \A a \in view.attempts : a.id = bridge.pending[r] => a.remote = r
           /\ \A a \in view.attempts : a.id \in 1..drawn
           /\ bridge.pending[r] # None =>
                has(r, bridge.pending[r]) /\ bridge.pending[r] \in 1..drawn
           /\ contextsOf(r) \subseteq {bridge.pending[r]}
           /\ bridge.pending[r] = None => r \notin retry.inflight
<1> DEFINE failed == bridge.pending[r]
<1>1. PICK o \in [1..drawn -> Remotes] : Owner(o, drawn)
  BY DEF AttemptsInv, OwnerInv
<1>2. admits(r, failed) /\ call[r].at = "idle" /\ firstTrustOutgoingAttemptEligible(r)
  BY DEF Prepare, free, admits
<1>3. r \notin view.revoked
  BY <1>2 DEF firstTrustOutgoingAttemptEligible, AttemptsInv, RevokeInv
<1>4. failed # None => Of(o, drawn, failed, r)
  BY <1>1 DEF Owner, OwnRest
<1>5. \A a \in view.attempts : a.id \in 1..drawn /\ a.id \in Ids
  BY <1>1 DEF Owner, OwnDoc, Of, AttemptsInv, TypeInv, Document, Attempt
<1>6. \A a \in view.attempts : a.id = failed => a.remote = r
  <2> SUFFICES ASSUME NEW a \in view.attempts, a.id = failed
               PROVE  a.remote = r
    OBVIOUS
  <2>1. failed # None
    BY <1>5, AttemptsAssumption
  <2>2. OwnDoc(o, drawn, view)
    BY <1>1 DEF Owner
  <2> QED BY <1>4, <2>1, <2>2, OwnedAttempts
<1>7. failed # None => has(r, failed) /\ failed \in 1..drawn
  <2> SUFFICES ASSUME failed # None
               PROVE  has(r, failed) /\ failed \in 1..drawn
    OBVIOUS
  <2>1. exact(failed) # {}
    BY <1>2, LaunchedIs DEF admits, replaceable
  <2>2. PICK a \in view.attempts : a.id = failed
    BY <2>1 DEF exact
  <2> QED BY <1>5, <1>6, <2>2 DEF has, attemptsOf
<1>8. contextsOf(r) \subseteq {failed}
  <2> SUFFICES ASSUME NEW i \in contextsOf(r)
               PROVE  i = failed
    OBVIOUS
  <2>1. contexts[i].settlement # "success"
    BY <1>2 DEF admits, successfulOutgoingAttemptOwner, contextsOf
  <2>2. state.recovery = "open"
    BY <1>2 DEF firstTrustOutgoingAttemptEligible
  <2>3. ~removes(call[r], i)
    BY <1>2 DEF removes, ended
  <2>4. has(r, i)
    BY <2>1, <2>2, <2>3 DEF AttemptsInv, PeerInv, ContextInv
  <2>5. failed # None
    BY <1>2, <2>4 DEF admits, has
  <2>6. has(r, failed)
    BY <1>7, <2>5
  <2>7. \A a, b \in view.attempts : a.remote = b.remote => a = b
    BY DEF AttemptsInv, DocsInv, PaidInv, DocOK
  <2> QED BY <2>4, <2>6, <2>7 DEF has, attemptsOf
<1>9. failed = None => r \notin retry.inflight
  BY <1>2 DEF admits
<1> QED BY <1>3, <1>5, <1>6, <1>7, <1>8, <1>9

LEMMA PrepareKeeps ==
    ASSUME AttemptsInv, TypeInv', NEW r \in Remotes, Prepare(r)
    PROVE  AttemptsInv'
<1> DEFINE failed == bridge.pending[r]
           e == withReservation(r, drawn + 1, failed)
           new == [id |-> drawn + 1, remote |-> r, before |-> view.quarantine[r].count,
                   state |-> "ATTEMPT_RESERVED"]
<1>1. /\ r \notin view.revoked
      /\ \A a \in view.attempts : a.id = failed => a.remote = r
      /\ \A a \in view.attempts : a.id \in 1..drawn
      /\ failed # None => has(r, failed) /\ failed \in 1..drawn
      /\ contextsOf(r) \subseteq {failed}
      /\ failed = None => r \notin retry.inflight
  BY PrepareFinds
<1>2. /\ call[r].at = "idle" /\ state.run \notin {"down", "starting"}
      /\ UNCHANGED <<disk, provider, view, started, contexts, retry, hub, state, bridge>>
      /\ TypeInv /\ r \in Lanes /\ DocOK(view) /\ drawn \in Nat
  BY FreeLane, PeerIsLane
  DEF Prepare, durable, memory, AttemptsInv, DocsInv, PaidInv, TypeInv
<1>3. /\ AtLane(r) /\ drawn + 1 \in Ids /\ drawn' = drawn + 1
      /\ call'[r].at = "begin" /\ call'[r].op = "prepare"
      /\ call'[r].id = drawn + 1 /\ call'[r].failed = failed
      /\ call'[r].target = advanced(e) /\ call'[r].removed = {}
  BY <1>2, PrepareLane
<1>4. Follows(call'[r], r, view)
  BY <1>1, <1>2, PrepareFollows
<1>5. /\ e \in Document /\ e.epoch = view.epoch
      /\ e.attempts = (view.attempts \ exact(failed)) \cup {new}
  BY <1>2, <1>3, ReservationType
<1>6. new.id = drawn + 1 /\ new.remote = r
  OBVIOUS
<1> HIDE DEF e, new
<1>7. /\ call'[r].target.epoch = view.epoch + 1
      /\ call'[r].target.attempts = (view.attempts \ exact(failed)) \cup {new}
  BY <1>3, <1>5, AdvancedType
<1>8. PICK o \in [1..drawn -> Remotes] : Owner(o, drawn)
  BY DEF AttemptsInv, OwnerInv
<1>9. OwnerInv'
  <2>1. PICK p \in [1..(drawn + 1) -> Remotes] :
          /\ Of(p, drawn + 1, drawn + 1, r)
          /\ \A i, q : Of(o, drawn, i, q) => Of(p, drawn + 1, i, q)
          /\ \A i \in 1..drawn : p[i] = o[i] /\ i \in 1..(drawn + 1)
    BY <1>2, <1>8, OwnerExtends
  <2>2. \A d : OwnDoc(o, drawn, d) => OwnDoc(p, drawn + 1, d)
    BY <2>1 DEF OwnDoc
  <2>3. \A c, l : OwnCall(o, drawn, c, l) => OwnCall(p, drawn + 1, c, l)
    BY <2>1, <2>2 DEF OwnCall
  <2>4. OwnDoc(p, drawn + 1, call'[r].target)
    BY <1>6, <1>7, <1>8, <2>1 DEF OwnDoc, Owner
  <2>5. failed # None => Of(p, drawn + 1, failed, r)
    BY <1>8, <2>1 DEF Owner, OwnRest
  <2>6. OwnCall(p, drawn + 1, call'[r], r)
    BY <1>3, <2>1, <2>4, <2>5 DEF OwnCall
  <2>7. \A l \in Lanes : OwnCall(p, drawn + 1, call'[l], l)
    BY <1>3, <1>8, <2>3, <2>6 DEF AtLane, Owner
  <2>8. OwnDoc(p, drawn + 1, disk) /\ OwnDoc(p, drawn + 1, view)
    BY <1>8, <2>2 DEF Owner
  <2>9. OwnRest(p, drawn + 1)
    BY <1>8, <2>1 DEF Owner, OwnRest
  <2>10. OwnRest(p, drawn)'
    BY <1>2, <1>3, <2>9 DEF OwnRest
  <2>11. Owner(p, drawn)'
    BY <1>2, <1>3, <2>7, <2>8, <2>10 DEF Owner
  <2> QED BY <1>3, <2>1, <2>11 DEF OwnerInv
<1>10. CallInv(r)'
  <2>1. drawn + 1 \notin hub'.permits
    BY <1>2, <1>8 DEF Owner, OwnRest
  <2>2. drawn + 1 # failed
    BY <1>1, <1>2, <1>3, AttemptsAssumption
  <2>3. \A a \in call'[r].target.attempts : a.id # failed
    BY <1>6, <1>7, <2>2 DEF exact
  <2> QED BY <1>3, <2>1, <2>3 DEF CallInv, LaneOps, Ending
<1>11. LaneInv(r)'
  <2>1. call'[r].failed # None => there(r, call[r].failed)'
    BY <1>1, <1>2, <1>3 DEF there, has
  <2>2. contextsOf(r)' \subseteq {call'[r].failed}
    BY <1>1, <1>2, <1>3, SameContexts
  <2>3. call'[r].failed = None => r \notin retry'.inflight
    BY <1>1, <1>2, <1>3
  <2>4. ~ended(call'[r]) /\ call'[r].op = "prepare"
    BY <1>3 DEF ended
  <2> QED BY <2>1, <2>2, <2>3, <2>4 DEF LaneInv, Ending
<1> QED BY <1>2, <1>3, <1>4, <1>7, <1>9, <1>10, <1>11, BeginsKeeps

-----------------------------------------------------------------------------
(* Publications.                                                           *)

\* Everything that no publication changes before it returns.
LEMMA PublishKeeps ==
    ASSUME AttemptsInv, TypeInv', DocsInv', NEW l \in Lanes, AtLane(l),
           call[l].at \in {"begin", "commit"}, call'[l].at \in {"commit", "finish", "after"},
           l = Operator => call'[l].at # "after",
           call'[l].at = "after" => call'[l].outcome # "durable",
           publishing(call'[l]) => publishing(call[l]),
           call'[l].op = call[l].op, call'[l].id = call[l].id,
           call'[l].failed = call[l].failed, call'[l].removed = call[l].removed,
           call'[l].target = call[l].target,
           disk' = disk \/ disk' = call[l].target,
           ~state.paired => disk'.revoked = {},
           UNCHANGED <<view, state, contexts, retry, bridge, hub, drawn>>
    PROVE  AttemptsInv'
<1>1. state.run # "down"
  BY DEF AttemptsInv, DownInv
<1>2. /\ view' = view /\ state' = state /\ contexts' = contexts /\ retry' = retry
      /\ hub' = hub /\ bridge' = bridge /\ drawn' = drawn
  OBVIOUS
<1>3. \A r \in Remotes : /\ contextsOf(r)' = contextsOf(r)
                         /\ r \in view.revoked => contextsOf(r) = {} /\ attemptsOf(view, r) = {}
  BY <1>2, SameContexts
  DEF AttemptsInv, PeerInv, ContextInv, DocsInv, PaidInv, DocOK, attemptsOf
<1>4. OwnerInv'
  <2>1. PICK o \in [1..drawn -> Remotes] : Owner(o, drawn)
    BY DEF AttemptsInv, OwnerInv
  <2>2. OwnCall(o, drawn, call[l], l)
    BY <2>1 DEF Owner
  <2>3. OwnCall(o, drawn, call'[l], l)
    BY <2>2 DEF OwnCall
  <2>4. \A m \in Lanes : OwnCall(o, drawn, call'[m], m)
    BY <2>1, <2>3 DEF AtLane, Owner
  <2>5. OwnDoc(o, drawn, disk')
    BY <2>1, <2>2 DEF Owner, OwnCall
  <2>6. OwnRest(o, drawn)'
    BY <1>2, <2>1 DEF Owner, OwnRest
  <2>7. Owner(o, drawn)'
    BY <1>2, <2>1, <2>4, <2>5, <2>6 DEF Owner
  <2> QED BY <1>2, <2>7 DEF OwnerInv
<1>5. ASSUME NEW r \in Remotes
      PROVE  PeerInv(r)'
  <2>1. CASE r # l
    <3>1. call'[r] = call[r]
      BY <2>1, PeerIsLane DEF AtLane
    <3>2. Undisturbed(r)
      BY <1>2, <1>3, <3>1 DEF Undisturbed
    <3> QED BY <3>2, UndisturbedPeer DEF AttemptsInv
  <2>2. CASE r = l
    <3>1. CallInv(r) /\ LaneInv(r) /\ ContextInv(r) /\ LaunchInv(r)
      BY DEF AttemptsInv, PeerInv
    <3>2. /\ ~ended(call[r]) /\ ~ended(call'[r])
          /\ \A i : ~removes(call[r], i)
      BY <2>2 DEF ended, removes
    <3>3. /\ call[r].at \in {"begin", "commit"} /\ call'[r].at \in {"commit", "finish", "after"}
          /\ call'[r].op = call[r].op /\ call'[r].id = call[r].id
          /\ call'[r].failed = call[r].failed /\ call'[r].removed = call[r].removed
          /\ call'[r].target = call[r].target
      BY <2>2
    <3>4. CallInv(r)'
      BY <1>2, <3>1, <3>3 DEF CallInv
    <3>5. LaneInv(r)'
      <4>1. \A i : /\ there(r, i) => there(r, i)'
                   /\ open(i) => open(i)'
        BY <1>2, SameContexts DEF there, has
      <4>2. call[r].op = "prepare" =>
              /\ call[r].failed # None => there(r, call[r].failed)
              /\ contextsOf(r) \subseteq {call[r].failed}
              /\ call[r].failed = None => r \notin retry.inflight
        BY <3>1, <3>2, <3>3 DEF LaneInv
      <4>3. call'[r].op = "prepare" =>
              /\ call'[r].failed # None => there(r, call[r].failed)'
              /\ contextsOf(r)' \subseteq {call'[r].failed}
              /\ call'[r].failed = None => r \notin retry'.inflight
        BY <1>2, <1>3, <3>3, <4>1, <4>2
      <4>4. call'[r].op = "authorize" => there(r, call[r].id)'
        BY <3>1, <3>3, <4>1 DEF LaneInv
      <4>5. call'[r].op \in Ending => there(r, call[r].id)'
        BY <3>1, <3>2, <3>3, <4>1 DEF LaneInv
      <4>6. call'[r].op = "success" => r \in view'.revoked \/ open(call[r].id)'
        BY <1>2, <3>1, <3>3, <4>1 DEF LaneInv
      <4> QED BY <3>2, <4>3, <4>4, <4>5, <4>6 DEF LaneInv
    <3>6. ContextInv(r)'
      BY <1>2, <1>3, <3>1, <3>2 DEF ContextInv, has
    <3>7. LaunchInv(r)'
      <4>1. attemptsOf(view, r)' = attemptsOf(view, r)
        BY <1>2
      <4>2. \A i \in contextsOf(r) \cap hub.permits : contexts[i].settlement = "" =>
              \E a \in attemptsOf(view, r) :
                a.id = i /\ a.state = "ATTEMPT_LAUNCH_AUTHORIZED"
        BY <3>1, <3>2 DEF LaunchInv
      <4>3. \A i \in contextsOf(r)' \cap hub'.permits : contexts'[i].settlement = "" =>
              \E a \in attemptsOf(view, r)' :
                a.id = i /\ a.state = "ATTEMPT_LAUNCH_AUTHORIZED"
        <5> TAKE i \in contextsOf(r)' \cap hub'.permits
        <5>1. /\ i \in contextsOf(r) \cap hub.permits
              /\ contexts'[i].settlement = contexts[i].settlement
          BY <1>2, <1>3
        <5> QED BY <4>1, <4>2, <5>1
      <4> QED BY <4>3 DEF LaunchInv
    <3>8. FlagInv(r)'
      BY <3>3 DEF FlagInv
    <3> QED BY <3>4, <3>5, <3>6, <3>7, <3>8 DEF PeerInv
  <2> QED BY <2>1, <2>2
<1>6. DownInv'
  BY <1>1, <1>2 DEF DownInv
<1>7. Operator \in Lanes
  BY DEF Lanes
<1>8. OperatorInv'
  <2>1. CASE l = Operator
    BY <1>2, <2>1 DEF AttemptsInv, OperatorInv
  <2>2. CASE l # Operator
    BY <1>2, <1>7, <2>2 DEF AttemptsInv, OperatorInv, AtLane
  <2> QED BY <2>1, <2>2
<1>9. RestInv'
  <2>1. CASE l \in Remotes
    BY <1>2, <2>1, BusyRuns DEF RestInv
  <2>2. CASE l \notin Remotes
    <3>1. \A r \in Remotes : call'[r] = call[r]
      BY <2>2, PeerIsLane DEF AtLane
    <3> QED BY <1>2, <3>1 DEF AttemptsInv, RestInv
  <2> QED BY <2>1, <2>2
<1>10. RevokeInv'
  <2>1. /\ call'[Operator].op = call[Operator].op
        /\ call'[Operator].target = call[Operator].target
        /\ call'[Operator].removed = call[Operator].removed
        /\ publishing(call'[Operator]) => publishing(call[Operator])
    BY <1>7 DEF AtLane
  <2>2. call[Operator].target.revoked \subseteq Remotes
    BY <1>7, LaneTypes DEF AttemptsInv, Document
  <2> QED BY <1>2, <1>3, <2>1, <2>2 DEF AttemptsInv, RevokeInv
<1> QED BY <1>4, <1>5, <1>6, <1>8, <1>9, <1>10 DEF AttemptsInv

\* A target leaves revocations alone, unless it makes one.
LEMMA TargetRevoked ==
    ASSUME AttemptsInv, NEW l \in Lanes, Follows(call[l], l, view), call[l].at # "idle"
    PROVE  ~state.paired => call[l].target.revoked = {}
<1>1. call[l].op = "revoke" => state.paired
  <2>1. CASE l = Operator
    BY <2>1 DEF AttemptsInv, OperatorInv
  <2>2. CASE l # Operator
    BY <2>2 DEF Lanes, AttemptsInv, PeerInv, CallInv, LaneOps
  <2> QED BY <2>1, <2>2
<1> QED BY <1>1 DEF Follows, AttemptsInv, RevokeInv

LEMMA BeginKeeps ==
    ASSUME AttemptsInv, TypeInv', NEW l \in Lanes, Begin(l)
    PROVE  AttemptsInv'
<1>1. /\ call[l].at = "begin" /\ l # Operator
      /\ UNCHANGED <<disk, provider, view, state, contexts, retry, bridge, hub, drawn, started>>
  BY DEF Begin, durable, memory, counters, AttemptsInv, OperatorInv
<1>2. /\ AtLane(l)
      /\ call'[l].op = call[l].op /\ call'[l].id = call[l].id
      /\ call'[l].failed = call[l].failed /\ call'[l].removed = call[l].removed
      /\ call'[l].target = call[l].target
      /\ \/ call'[l].at = "commit" /\ call[l].target.epoch = view.epoch + 1
         \/ call'[l].at = "after" /\ call'[l].outcome = "unchanged"
  BY BeginLane DEF AttemptsInv
<1>3. publishing(call[l])
  BY <1>1 DEF publishing
<1>4. QuietLane(l)
  <2>1. CASE call'[l].at = "after"
    BY <1>1, <2>1 DEF QuietLane, arriving, publishing
  <2>2. CASE call'[l].at = "commit" /\ call[l].target.epoch = view.epoch + 1
    <3>1. Follows(call[l], l, view)
      BY <1>3, <2>2 DEF AttemptsInv, DocsInv, TargetInv
    <3>2. Follows(call'[l], l, view)
      BY <1>2, <3>1, FollowsSame
    <3> QED BY <1>1, <1>2, <2>2, <3>2 DEF QuietLane, arriving
  <2> QED BY <1>2, <2>1, <2>2
<1>5. DocsInv'
  BY <1>1, <1>2, <1>4, QuietAt, QuietDocs DEF QuietStep, AttemptsInv
<1>6. ~state.paired => disk'.revoked = {}
  BY <1>1 DEF AttemptsInv, RevokeInv
<1> QED BY <1>1, <1>2, <1>3, <1>5, <1>6, PublishKeeps

LEMMA CommitKeeps ==
    ASSUME AttemptsInv, TypeInv', NEW l \in Lanes, Commit(l)
    PROVE  AttemptsInv'
<1>1. /\ call[l].at = "commit" /\ ~overtaken(call[l]) /\ disk' = call[l].target
      /\ UNCHANGED <<view, state, contexts, retry, bridge, hub, drawn>>
  BY DEF Commit, memory
<1>2. /\ AtLane(l)
      /\ call'[l].at = "finish"
      /\ call'[l].op = call[l].op /\ call'[l].id = call[l].id
      /\ call'[l].failed = call[l].failed /\ call'[l].removed = call[l].removed
      /\ call'[l].target = call[l].target
  BY Published DEF Commit, Outcomes, AttemptsInv
<1>3. publishing(call[l])
  BY <1>1 DEF publishing
<1>4. DocsInv'
  BY CommitDocs DEF AttemptsInv
<1>5. ~state.paired => disk'.revoked = {}
  BY <1>1, Current, TargetRevoked DEF AttemptsInv
<1> QED BY <1>1, <1>2, <1>3, <1>4, <1>5, PublishKeeps

LEMMA CommitRefusedKeeps ==
    ASSUME AttemptsInv, TypeInv', NEW l \in Lanes, CommitRefused(l)
    PROVE  AttemptsInv'
<1>1. /\ call[l].at = "commit"
      /\ UNCHANGED <<disk, provider, view, state, contexts, retry, bridge, hub, drawn, started>>
  BY DEF CommitRefused, durable, memory
<1>2. PICK outcome \in {"prepare_failed", "unchanged"} : published(l, outcome)
  BY DEF CommitRefused
<1>3. /\ AtLane(l)
      /\ call'[l].at = "finish" /\ call'[l].outcome = outcome
      /\ call'[l].op = call[l].op /\ call'[l].id = call[l].id
      /\ call'[l].failed = call[l].failed /\ call'[l].removed = call[l].removed
      /\ call'[l].target = call[l].target
  BY <1>2, Published DEF Outcomes, AttemptsInv
<1>4. publishing(call[l]) /\ QuietLane(l)
  BY <1>1, <1>3 DEF publishing, QuietLane, arriving
<1>5. DocsInv'
  BY <1>1, <1>3, <1>4, QuietAt, QuietDocs DEF QuietStep, AttemptsInv
<1>6. ~state.paired => disk'.revoked = {}
  BY <1>1 DEF AttemptsInv, RevokeInv
<1> QED BY <1>1, <1>3, <1>4, <1>5, <1>6, PublishKeeps

LEMMA CommitUnknownKeeps ==
    ASSUME AttemptsInv, TypeInv', NEW l \in Lanes, CommitUnknown(l)
    PROVE  AttemptsInv'
<1>1. /\ call[l].at = "commit" /\ ~overtaken(call[l])
      /\ disk' = call[l].target \/ disk' = disk
      /\ UNCHANGED <<view, state, contexts, retry, bridge, hub, drawn>>
  BY DEF CommitUnknown, memory
<1>2. /\ AtLane(l)
      /\ call'[l].at = "finish" /\ call'[l].outcome = "unknown"
      /\ call'[l].op = call[l].op /\ call'[l].id = call[l].id
      /\ call'[l].failed = call[l].failed /\ call'[l].removed = call[l].removed
      /\ call'[l].target = call[l].target
  BY Published DEF CommitUnknown, Outcomes, AttemptsInv
<1>3. publishing(call[l])
  BY <1>1 DEF publishing
<1>4. DocsInv'
  BY CommitUnknownDocs DEF AttemptsInv
<1>5. ~state.paired => call[l].target.revoked = {}
  BY <1>1, Current, TargetRevoked DEF AttemptsInv
<1>6. ~state.paired => disk'.revoked = {}
  BY <1>1, <1>5 DEF AttemptsInv, RevokeInv
<1> QED BY <1>1, <1>2, <1>3, <1>4, <1>6, PublishKeeps

\* The document of a publication that arrives is installed.
LEMMA OwnerInstalls ==
    ASSUME AttemptsInv, NEW l \in Lanes, AtLane(l),
           \A o \in [1..drawn -> Remotes] :
             OwnCall(o, drawn, call[l], l) => OwnCall(o, drawn, call'[l], l),
           view' = view \/ view' = call[l].target,
           UNCHANGED <<disk, bridge, hub, drawn>>,
           \A i \in DOMAIN contexts' : i \in DOMAIN contexts /\ contexts'[i] = contexts[i]
    PROVE  OwnerInv'
<1>1. PICK o \in [1..drawn -> Remotes] : Owner(o, drawn)
  BY DEF AttemptsInv, OwnerInv
<1>2. OwnCall(o, drawn, call[l], l)
  BY <1>1 DEF Owner
<1>3. \A m \in Lanes : OwnCall(o, drawn, call'[m], m)
  BY <1>1, <1>2 DEF AtLane, Owner
<1>4. OwnDoc(o, drawn, view')
  BY <1>1, <1>2 DEF Owner, OwnCall
<1>5. OwnRest(o, drawn)'
  BY <1>1 DEF Owner, OwnRest
<1>6. Owner(o, drawn)'
  BY <1>1, <1>3, <1>4, <1>5 DEF Owner
<1> QED BY <1>6 DEF OwnerInv

LEMMA ArrivesFollows ==
    ASSUME AttemptsInv, NEW l \in Lanes, call[l].at = "finish", call[l].outcome = "durable"
    PROVE  /\ call[l].target = disk /\ disk.epoch = view.epoch + 1
           /\ Follows(call[l], l, view) /\ DocOK(call[l].target)
<1>1. arriving(call[l]) /\ publishing(call[l])
  BY DEF arriving, publishing
<1> QED BY <1>1 DEF AttemptsInv, DocsInv, ArrivingInv, TargetInv, PaidInv

\* What Finish changes and keeps.
LEMMA FinishStep ==
    ASSUME AttemptsInv, TypeInv', NEW l \in Lanes, Finish(l)
    PROVE  /\ AtLane(l) /\ call[l].at = "finish" /\ call'[l].at = "after"
           /\ call'[l].outcome = call[l].outcome /\ call'[l].target = call[l].target
           /\ call'[l].op = call[l].op /\ call'[l].id = call[l].id
           /\ call'[l].failed = call[l].failed /\ call'[l].removed = call[l].removed
           /\ view' = IF call[l].outcome = "durable" THEN call[l].target ELSE view
           /\ UNCHANGED <<disk, provider, started, contexts, retry, bridge, hub, drawn>>
           /\ state'.run = state.run /\ state.run # "down"
           /\ state'.paired = state.paired /\ state'.admissible \subseteq state.admissible
           /\ state'.recovery = "open" => state.recovery = "open"
           /\ call[l].op # "revoke" /\ view'.revoked = view.revoked
           /\ DocsInv' /\ OwnerInv'
<1>1. /\ AtLane(l)
      /\ call'[l].at = "after" /\ call'[l].outcome = call[l].outcome
      /\ call'[l].target = call[l].target
      /\ call'[l].op = call[l].op /\ call'[l].id = call[l].id
      /\ call'[l].failed = call[l].failed /\ call'[l].removed = call[l].removed
  BY FinishLane DEF AttemptsInv
<1>2. /\ call[l].at = "finish" /\ call[l].op # "revoke"
      /\ view' = IF call[l].outcome = "durable" THEN call[l].target ELSE view
      /\ UNCHANGED <<disk, provider, started, contexts, retry, bridge, hub, drawn>>
      /\ state' = state \/ state' = quarantine
  BY DEF Finish, durable, counters
<1>3. state.run # "down"
  BY <1>2 DEF AttemptsInv, DownInv
<1>4. /\ state'.run = state.run /\ state'.paired = state.paired
      /\ state'.admissible \subseteq state.admissible
      /\ state'.recovery = "open" => state.recovery = "open"
  <2>1. CASE state' = state
    BY <2>1
  <2>2. CASE state' = quarantine
    BY <2>2, QuarantineType DEF AttemptsInv
  <2> QED BY <1>2, <2>1, <2>2
<1>5. ~publishing(call'[l])
  BY <1>1 DEF publishing, arriving
<1>6. DocsInv'
  BY <1>1, <1>2, <1>3, <1>4, <1>5, InstallDocs DEF AttemptsInv
<1>7. view'.revoked = view.revoked
  <2>1. CASE call[l].outcome = "durable"
    <3>1. Follows(call[l], l, view)
      BY <1>2, <2>1, ArrivesFollows
    <3> QED BY <1>2, <2>1, <3>1 DEF Follows
  <2>2. CASE call[l].outcome # "durable"
    BY <1>2, <2>2
  <2> QED BY <2>1, <2>2
<1>8. \A o \in [1..drawn -> Remotes] :
        OwnCall(o, drawn, call[l], l) => OwnCall(o, drawn, call'[l], l)
  BY <1>1 DEF OwnCall
<1>9. \A i \in DOMAIN contexts' : i \in DOMAIN contexts /\ contexts'[i] = contexts[i]
  BY <1>2, Zenon
<1>10. OwnerInv'
  BY <1>1, <1>2, <1>8, <1>9, OwnerInstalls
<1> QED BY <1>1, <1>2, <1>3, <1>4, <1>6, <1>7, <1>10

\* The lane whose publication returns.
LEMMA FinishOwn ==
    ASSUME AttemptsInv, TypeInv', NEW l \in Remotes, Finish(l)
    PROVE  PeerInv(l)'
<1> DEFINE c == call[l]
<1>0. l \in Lanes
  BY PeerIsLane
<1>1. /\ c.at = "finish" /\ call'[l].at = "after" /\ call'[l].outcome = c.outcome
      /\ call'[l].target = c.target /\ call'[l].op = c.op /\ call'[l].id = c.id
      /\ call'[l].failed = c.failed /\ call'[l].removed = c.removed
  BY <1>0, FinishStep
<1>2. /\ view' = IF c.outcome = "durable" THEN c.target ELSE view
      /\ contexts' = contexts /\ retry' = retry /\ hub' = hub
      /\ state'.recovery = "open" => state.recovery = "open"
      /\ view'.revoked = view.revoked
  BY <1>0, FinishStep
<1>3. CallInv(l) /\ LaneInv(l) /\ ContextInv(l) /\ LaunchInv(l)
  BY DEF AttemptsInv, PeerInv
<1>4. c.op \in LaneOps /\ c.id \in Ids
  BY <1>1, <1>3 DEF CallInv
<1>5. /\ \A i : ~removes(c, i) /\ ~ended(c)
      /\ ended(call'[l]) <=> c.outcome = "durable"
  BY <1>1 DEF removes, ended
<1>6. \A i : removes(call'[l], i) <=>
        /\ c.outcome = "durable"
        /\ \/ c.op \in Ending /\ c.id = i
           \/ c.op = "prepare" /\ c.failed = i
  BY <1>1 DEF removes, ended
<1>7. c.outcome = "durable" => Own(c, l, view) /\ view' = c.target
  BY <1>0, <1>1, <1>2, ArrivesFollows DEF Follows
<1>8. CallInv(l)'
  BY <1>1, <1>2, <1>3 DEF CallInv
<1>9. contextsOf(l)' = contextsOf(l) /\ \A i : open(i)' <=> open(i)
  BY <1>2, SameContexts
<1>10. LaneInv(l)'
  <2>1. CASE c.outcome = "durable"
    <3>1. c.op = "prepare" => there(l, call[l].id)'
      BY <1>1, <1>7, <2>1 DEF Own, there, has
    <3>2. c.op = "prepare" => /\ contextsOf(l)' \subseteq {c.failed}
                              /\ c.failed = None => l \notin retry'.inflight
      BY <1>1, <1>2, <1>3, <1>9 DEF LaneInv
    <3>3. c.op = "authorize" => there(l, call[l].id)'
      BY <1>1, <1>7, <2>1 DEF Own, there, has
    <3>4. c.op \in Ending => ~has(l, call[l].id)'
      BY <1>1, <1>7, <2>1 DEF Own, has, Ending
    <3>5. c.op = "success" => l \in view'.revoked \/ open(call[l].id)'
      <4>1. c.op = "success" => l \in view'.revoked \/ open(c.id)
        BY <1>1, <1>2, <1>3 DEF LaneInv
      <4> QED BY <1>1, <1>9, <4>1 DEF open
    <3> QED BY <1>1, <1>5, <2>1, <3>1, <3>2, <3>3, <3>4, <3>5 DEF LaneInv
  <2>2. CASE c.outcome # "durable"
    <3>1. view' = view /\ ~ended(call'[l])
      BY <1>2, <1>5, <2>2
    <3>2. \A i : there(l, i) => there(l, i)'
      BY <3>1 DEF there, has
    <3>3. c.op = "prepare" => /\ c.failed # None => there(l, c.failed)
                              /\ contextsOf(l) \subseteq {c.failed}
                              /\ c.failed = None => l \notin retry.inflight
      BY <1>1, <1>3, <1>5 DEF LaneInv
    <3>4. c.op = "prepare" => /\ c.failed # None => there(l, call[l].failed)'
                              /\ contextsOf(l)' \subseteq {c.failed}
                              /\ c.failed = None => l \notin retry'.inflight
      BY <1>1, <1>2, <1>9, <3>2, <3>3
    <3>5. c.op \in Ending \cup {"authorize"} => there(l, call[l].id)'
      <4>1. c.op \in Ending \cup {"authorize"} => there(l, c.id)
        BY <1>1, <1>3, <1>5 DEF LaneInv
      <4> QED BY <1>1, <3>2, <4>1
    <3>6. c.op = "success" => l \in view'.revoked \/ open(call[l].id)'
      <4>1. c.op = "success" => l \in view'.revoked \/ open(c.id)
        BY <1>1, <1>2, <1>3 DEF LaneInv
      <4> QED BY <1>1, <1>9, <4>1 DEF open
    <3> QED BY <1>1, <3>1, <3>4, <3>5, <3>6 DEF LaneInv
  <2> QED BY <2>1, <2>2
<1>11. ASSUME NEW i \in contextsOf(l), has(l, i)
       PROVE  has(l, i)' \/ removes(call'[l], i)
  <2>1. CASE c.outcome # "durable"
    BY <1>2, <1>11, <2>1 DEF has
  <2>2. CASE c.outcome = "durable"
    <3>1. PICK a \in attemptsOf(view, l) : a.id = i
      BY <1>11 DEF has
    <3>2. CASE c.op = "authorize"
      BY <1>7, <2>2, <3>1, <3>2 DEF Own, has
    <3>3. CASE c.op # "authorize"
      BY <1>4, <1>6, <1>7, <2>2, <3>1, <3>3 DEF Own, LaneOps, Ending
    <3> QED BY <3>2, <3>3
  <2> QED BY <2>1, <2>2
<1>12. ContextInv(l)'
  BY <1>2, <1>3, <1>5, <1>9, <1>11 DEF ContextInv
<1>13. LaunchInv(l)'
  <2> SUFFICES ASSUME NEW i \in contextsOf(l)', i \in hub'.permits,
                      contexts'[i].settlement = ""
               PROVE  \/ \E a \in attemptsOf(view', l) :
                           a.id = i /\ a.state = "ATTEMPT_LAUNCH_AUTHORIZED"
                      \/ removes(call'[l], i)
    BY DEF LaunchInv
  <2>1. i \in contextsOf(l) /\ i \in hub.permits /\ contexts[i].settlement = ""
    BY <1>2, <1>9
  <2>2. PICK a \in attemptsOf(view, l) : a.id = i /\ a.state = "ATTEMPT_LAUNCH_AUTHORIZED"
    BY <1>3, <1>5, <2>1 DEF LaunchInv
  <2>3. CASE c.outcome # "durable"
    BY <1>2, <2>2, <2>3
  <2>4. CASE c.outcome = "durable"
    <3>1. CASE c.op = "authorize"
      BY <1>7, <2>2, <2>4, <3>1 DEF Own
    <3>2. CASE c.op # "authorize"
      BY <1>4, <1>6, <1>7, <2>2, <2>4, <3>2 DEF Own, LaneOps, Ending
    <3> QED BY <3>1, <3>2
  <2> QED BY <2>3, <2>4
<1>14. FlagInv(l)'
  BY <1>1 DEF FlagInv
<1> QED BY <1>8, <1>10, <1>12, <1>13, <1>14 DEF PeerInv

LEMMA FinishKeeps ==
    ASSUME AttemptsInv, TypeInv', NEW l \in Lanes, Finish(l)
    PROVE  AttemptsInv'
<1>1. /\ AtLane(l) /\ call[l].at = "finish" /\ call'[l].at = "after"
      /\ call'[l].op = call[l].op /\ call[l].op # "revoke"
      /\ view' = IF call[l].outcome = "durable" THEN call[l].target ELSE view
      /\ disk' = disk /\ contexts' = contexts /\ retry' = retry /\ hub' = hub
      /\ state'.run = state.run /\ state.run # "down"
      /\ state'.paired = state.paired /\ state'.admissible \subseteq state.admissible
      /\ state'.recovery = "open" => state.recovery = "open"
      /\ view'.revoked = view.revoked
      /\ DocsInv' /\ OwnerInv'
  BY FinishStep
<1>2. \A r : contextsOf(r)' = contextsOf(r)
  BY <1>1, SameContexts
<1>3. Operator \in Lanes
  BY DEF Lanes
<1>4. ASSUME NEW q \in Remotes
      PROVE  PeerInv(q)'
  <2>1. CASE q = l
    BY <2>1, FinishOwn
  <2>2. CASE q # l /\ l \in Remotes
    <3>1. call'[q] = call[q]
      BY <1>1, <2>2, PeerIsLane DEF AtLane
    <3>2. attemptsOf(view', q) = attemptsOf(view, q) \/ q \in view'.revoked
      <4>1. CASE call[l].outcome = "durable"
        <5>1. Follows(call[l], l, view) /\ call[l].op # "charge"
          BY <1>1, <2>2, <4>1, ArrivesFollows
          DEF AttemptsInv, PeerInv, CallInv, LaneOps
        <5> QED BY <1>1, <2>2, <4>1, <5>1 DEF Follows
      <4>2. CASE call[l].outcome # "durable"
        BY <1>1, <4>2
      <4> QED BY <4>1, <4>2
    <3>3. q \in view'.revoked => contextsOf(q) = {} /\ attemptsOf(view', q) = {}
      BY <1>1 DEF AttemptsInv, PeerInv, ContextInv, DocsInv, PaidInv, DocOK, attemptsOf
    <3>4. Undisturbed(q)
      BY <1>1, <1>2, <3>1, <3>2, <3>3 DEF Undisturbed
    <3> QED BY <3>4, UndisturbedPeer DEF AttemptsInv
  <2>3. CASE l \notin Remotes
    <3>1. l = Operator /\ call'[q] = call[q]
      BY <1>1, <2>3, PeerIsLane DEF Lanes, AtLane
    <3>2. state.run = "starting"
      BY <1>1, <3>1 DEF AttemptsInv, OperatorInv
    <3>3. call[q].at = "idle" /\ DOMAIN contexts = {} /\ retry.inflight = {}
      BY <3>2 DEF AttemptsInv, RestInv
    <3>4. call'[q].at = "idle" /\ contextsOf(q)' = {} /\ q \notin retry'.inflight
      BY <1>1, <1>2, <3>1, <3>3 DEF contextsOf
    <3> QED BY <3>4 DEF PeerInv, CallInv, LaneInv, ContextInv, LaunchInv, FlagInv
  <2> QED BY <2>1, <2>2, <2>3
<1>5. DownInv'
  BY <1>1 DEF DownInv
<1>6. OperatorInv'
  <2>1. CASE l = Operator
    BY <1>1, <2>1 DEF AttemptsInv, OperatorInv
  <2>2. CASE l # Operator
    BY <1>1, <1>3, <2>2 DEF AttemptsInv, OperatorInv, AtLane
  <2> QED BY <2>1, <2>2
<1>7. RestInv'
  <2>1. CASE l \in Remotes
    BY <1>1, <2>1, BusyRuns DEF RestInv
  <2>2. CASE l \notin Remotes
    <3>1. \A r \in Remotes : call'[r] = call[r]
      BY <1>1, <2>2, PeerIsLane DEF AtLane
    <3> QED BY <1>1, <3>1 DEF AttemptsInv, RestInv
  <2> QED BY <2>1, <2>2
<1>8. RevokeInv'
  <2> DEFINE c == call[Operator]
  <2>1. CASE c.op # "revoke"
    <3>1. call'[Operator].op # "revoke"
      BY <1>1, <1>3, <2>1 DEF AtLane
    <3> QED BY <1>1, <3>1 DEF AttemptsInv, RevokeInv
  <2>2. CASE c.op = "revoke"
    <3>1. call'[Operator] = c
      BY <1>1, <1>3, <2>2 DEF AtLane
    <3>2. view.epoch \in Nat /\ c.target.revoked \subseteq Remotes
      BY <1>3, LaneTypes DEF AttemptsInv, TypeInv, Document
    <3>3. publishing(c) /\ c.target.epoch = view'.epoch + 1 => view' = view
      <4>1. CASE call[l].outcome = "durable"
        <5>1. view'.epoch = view.epoch + 1
          BY <1>1, <4>1, ArrivesFollows
        <5>2. publishing(c) => c.target.epoch <= view.epoch + 1
          BY <1>3 DEF AttemptsInv, DocsInv, TargetInv
        <5> QED BY <3>2, <5>1, <5>2
      <4>2. CASE call[l].outcome # "durable"
        BY <1>1, <4>2
      <4> QED BY <4>1, <4>2
    <3>4. c.target.revoked \cap state'.admissible = {}
      BY <1>1, <2>2 DEF AttemptsInv, RevokeInv
    <3>5. publishing(c) /\ c.target.epoch = view'.epoch + 1 =>
            \A r \in c.target.revoked \ view'.revoked :
              contextsOf(r)' \cup {a.id : a \in attemptsOf(view', r)} \subseteq c.removed
      BY <1>2, <2>2, <3>2, <3>3 DEF AttemptsInv, RevokeInv
    <3>6. /\ state'.admissible \cap view'.revoked = {}
          /\ ~state'.paired => view'.revoked = {} /\ disk'.revoked = {}
      BY <1>1 DEF AttemptsInv, RevokeInv
    <3> QED BY <3>1, <3>4, <3>5, <3>6 DEF RevokeInv
  <2> QED BY <2>1, <2>2
<1> QED BY <1>1, <1>4, <1>5, <1>6, <1>7, <1>8 DEF AttemptsInv

LEMMA OtherPublishesKeeps ==
    ASSUME AttemptsInv, TypeInv', OtherPublishes
    PROVE  AttemptsInv'
<1>1. /\ view' = advanced(view) /\ disk' = view' /\ state' = state /\ contexts' = contexts
      /\ retry' = retry /\ bridge' = bridge /\ hub' = hub /\ call' = call /\ drawn' = drawn
      /\ state.run = "up"
  BY DEF OtherPublishes
<1>2. /\ view'.attempts = view.attempts /\ view'.revoked = view.revoked
      /\ view'.epoch = view.epoch + 1 /\ view.epoch \in Nat
      /\ \A r \in Remotes : attemptsOf(view', r) = attemptsOf(view, r)
  BY <1>1, AdvancedType, AdvancedOK DEF AttemptsInv, TypeInv, Document
<1>3. \A r : contextsOf(r)' = contextsOf(r)
  BY <1>1, SameContexts
<1>4. DocsInv'
  BY OtherDocs DEF AttemptsInv
<1>5. OwnerInv'
  <2>1. PICK o \in [1..drawn -> Remotes] : Owner(o, drawn)
    BY DEF AttemptsInv, OwnerInv
  <2>2. OwnDoc(o, drawn, view')
    BY <1>2, <2>1 DEF Owner, OwnDoc
  <2>3. OwnRest(o, drawn)'
    BY <1>1, <2>1 DEF Owner, OwnRest
  <2>4. Owner(o, drawn)'
    BY <1>1, <2>1, <2>2, <2>3 DEF Owner
  <2> QED BY <1>1, <2>4 DEF OwnerInv
<1>6. ASSUME NEW q \in Remotes
      PROVE  PeerInv(q)'
  <2>1. q \in view.revoked => contextsOf(q) = {} /\ attemptsOf(view, q) = {}
    BY DEF AttemptsInv, PeerInv, ContextInv, DocsInv, PaidInv, DocOK, attemptsOf
  <2>2. Undisturbed(q)
    BY <1>1, <1>2, <1>3, <2>1 DEF Undisturbed
  <2> QED BY <2>2, UndisturbedPeer DEF AttemptsInv
<1>7. DownInv' /\ OperatorInv' /\ RestInv'
  BY <1>1 DEF AttemptsInv, DownInv, OperatorInv, RestInv
<1>8. RevokeInv'
  <2>1. Operator \in Lanes
    BY DEF Lanes
  <2>2. publishing(call[Operator]) => call[Operator].target.epoch <= view.epoch + 1
    BY <2>1 DEF AttemptsInv, DocsInv, TargetInv
  <2>3. ~(publishing(call'[Operator]) /\ call'[Operator].target.epoch = view'.epoch + 1)
    BY <1>1, <1>2, <2>2
  <2> QED BY <1>1, <1>2, <2>3 DEF AttemptsInv, RevokeInv
<1> QED BY <1>4, <1>5, <1>6, <1>7, <1>8 DEF AttemptsInv

-----------------------------------------------------------------------------
(* The operator and the process.                                           *)

\* Only the operator's lane and the state change.
LEMMA OperatorKeeps ==
    ASSUME AttemptsInv, TypeInv', AtLane(Operator) \/ call' = call, QuietLane(Operator),
           UNCHANGED <<disk, provider, view, started, contexts, retry, hub, drawn>>,
           \A r \in Remotes : bridge'.pending[r] \in {None, bridge.pending[r]},
           \A o \in [1..drawn -> Remotes] :
             Owner(o, drawn) => OwnCall(o, drawn, call'[Operator], Operator),
           state'.recovery = "open" => state.recovery = "open",
           state.run = "up", state'.run \notin {"down", "starting"},
           OperatorInv', RevokeInv'
    PROVE  AttemptsInv'
<1>1. Operator \in Lanes /\ \A r \in Remotes : call'[r] = call[r]
  BY PeerIsLane DEF Lanes, AtLane
<1>2. DocsInv'
  <2>1. \A l \in Lanes : QuietLane(l)
    BY <1>1, QuietAt DEF QuietLane
  <2> QED BY <2>1, QuietDocs DEF AttemptsInv, QuietStep
<1>3. OwnerInv'
  <2>1. PICK o \in [1..drawn -> Remotes] : Owner(o, drawn)
    BY DEF AttemptsInv, OwnerInv
  <2>2. OwnRest(o, drawn)'
    <3>1. /\ \A i \in DOMAIN contexts' :
               i \in DOMAIN contexts /\ contexts'[i].remote = contexts[i].remote
          /\ hub'.permits \subseteq hub.permits
      OBVIOUS
    <3> QED BY <2>1, <3>1, OwnRestKept DEF Owner
  <2> QED BY <1>1, <2>1, <2>2, OwnerLane
<1>4. ASSUME NEW q \in Remotes
      PROVE  PeerInv(q)'
  <2>1. q \in view.revoked => contextsOf(q) = {} /\ attemptsOf(view, q) = {}
    BY DEF AttemptsInv, PeerInv, ContextInv, DocsInv, PaidInv, DocOK, attemptsOf
  <2>2. contextsOf(q)' = contextsOf(q)
    BY SameContexts
  <2>3. /\ call'[q] = call[q] /\ view' = view /\ contexts' = contexts /\ retry' = retry
        /\ hub' = hub
    BY <1>1
  <2>4. Undisturbed(q)
    BY <2>1, <2>2, <2>3 DEF Undisturbed
  <2> QED BY <2>4, UndisturbedPeer DEF AttemptsInv
<1>5. DownInv' /\ RestInv'
  BY DEF DownInv, RestInv
<1> QED BY <1>2, <1>3, <1>4, <1>5 DEF AttemptsInv

LEMMA RevokeKeeps ==
    ASSUME AttemptsInv, TypeInv', NEW r \in Remotes, Revoke(r)
    PROVE  AttemptsInv'
<1> DEFINE c == call'[Operator]
<1>1. /\ state.run = "up" /\ state.paired /\ call[Operator].at = "idle"
      /\ UNCHANGED <<disk, provider, view, started, contexts, retry, hub, drawn, bridge>>
      /\ state' = [state EXCEPT !.operation = TRUE, !.admissible = @ \ {r}]
  BY DEF Revoke, durable
<1>2. /\ state'.run = "up" /\ state'.paired /\ state'.recovery = state.recovery
      /\ state'.admissible = state.admissible \ {r}
  BY <1>1 DEF AttemptsInv, TypeInv, State
<1>3. /\ AtLane(Operator)
      /\ c.at = "commit" /\ c.op = "revoke" /\ c.id = None /\ c.failed = None
      /\ c.removed = removeRevokedOutgoingAttempts(r)
      /\ c.target.epoch = view.epoch + 1
      /\ c.target.attempts = view.attempts \ attemptsOf(view, r)
      /\ c.target.revoked = view.revoked \cup {r}
  BY RevokeLane DEF AttemptsInv
<1>4. Follows(c, Operator, view)
  BY RevokeFollows DEF AttemptsInv, DocsInv, PaidInv
<1>5. QuietLane(Operator)
  BY <1>1, <1>3, <1>4 DEF QuietLane, arriving
<1>6. ASSUME NEW o \in [1..drawn -> Remotes], Owner(o, drawn)
      PROVE  OwnCall(o, drawn, c, Operator)
  <2>1. OwnDoc(o, drawn, c.target)
    BY <1>3, <1>6 DEF Owner, OwnDoc
  <2>2. \A id \in c.removed : Of(o, drawn, id, r)
    BY <1>3, <1>6 DEF removeRevokedOutgoingAttempts, contextsOf, attemptsOf, Owner,
                      OwnDoc, OwnRest
  <2> QED BY <1>3, <2>1, <2>2 DEF OwnCall, Of
<1>7. OperatorInv'
  BY <1>2, <1>3 DEF OperatorInv
<1>8. RevokeInv'
  <2>1. c.target.revoked \cap state'.admissible = {}
    BY <1>2, <1>3 DEF AttemptsInv, RevokeInv
  <2>2. \A q \in c.target.revoked \ view.revoked : q = r
    BY <1>3
  <2>3. contextsOf(r)' = contextsOf(r) /\ view' = view /\ disk' = disk
    BY <1>1, SameContexts
  <2>4. contextsOf(r)' \cup {a.id : a \in attemptsOf(view', r)} \subseteq c.removed
    BY <1>3, <2>3 DEF removeRevokedOutgoingAttempts
  <2>5. \A q \in c.target.revoked \ view'.revoked :
          contextsOf(q)' \cup {a.id : a \in attemptsOf(view', q)} \subseteq c.removed
    BY <2>2, <2>3, <2>4
  <2>6. state'.admissible \cap view'.revoked = {}
    BY <1>3, <2>1, <2>3
  <2> QED BY <1>2, <2>1, <2>5, <2>6 DEF RevokeInv
<1>9. \A q \in Remotes : bridge'.pending[q] \in {None, bridge.pending[q]}
  BY <1>1
<1> QED BY <1>1, <1>2, <1>3, <1>5, <1>6, <1>7, <1>8, <1>9, OperatorKeeps

\* A candidate is selected, or its window closes, or a shutdown begins.
LEMMA StateKeeps ==
    ASSUME AttemptsInv, TypeInv',
           \/ \E r \in Remotes : Select(r)
           \/ WindowCloses
           \/ Shutdown
    PROVE  AttemptsInv'
<1>1. /\ state.run = "up" /\ call' = call
      /\ UNCHANGED <<disk, provider, view, started, contexts, retry, hub, drawn>>
      /\ bridge' = bridge \/ bridge' = quiet
  BY DEF Select, WindowCloses, Shutdown, durable, counters
<1>2. /\ state'.run \in {"up", "stopping"} /\ state'.recovery = state.recovery
      /\ state'.paired = state.paired
      /\ \/ state'.admissible \subseteq state.admissible
         \/ ~state.paired
  BY DEF Select, WindowCloses, Shutdown, AttemptsInv, TypeInv, State
<1>3. \A q \in Remotes : bridge'.pending[q] \in {None, bridge.pending[q]}
  BY <1>1 DEF quiet
<1>4. OperatorInv'
  BY <1>1, <1>2 DEF AttemptsInv, OperatorInv
<1>5. RevokeInv'
  <2>1. state'.admissible \cap view.revoked = {}
    BY <1>2 DEF AttemptsInv, RevokeInv
  <2>2. call[Operator].op = "revoke" => state.paired
    BY DEF AttemptsInv, OperatorInv
  <2>3. \A q : contextsOf(q)' = contextsOf(q)
    BY <1>1, SameContexts
  <2>4. view' = view /\ disk' = disk
    BY <1>1
  <2> QED BY <1>1, <1>2, <2>1, <2>2, <2>3, <2>4 DEF AttemptsInv, RevokeInv
<1>6. \A o \in [1..drawn -> Remotes] :
        Owner(o, drawn) => OwnCall(o, drawn, call'[Operator], Operator)
  BY <1>1 DEF Owner, Lanes
<1>7. QuietLane(Operator)
  BY <1>1 DEF QuietLane
<1> QED BY <1>1, <1>2, <1>3, <1>4, <1>5, <1>6, <1>7, OperatorKeeps

\* What a revocation that is durable removes.
LEMMA RevokedPeer ==
    ASSUME AttemptsInv, RevokeReturns, call[Operator].outcome = "durable", NEW q \in Remotes
    PROVE  Undisturbed(q)
<1> DEFINE c == call[Operator]
           cancelled == c.removed \cap DOMAIN contexts
<1>1. Operator \in Lanes /\ c.at = "finish" /\ c.op = "revoke"
  BY DEF Lanes, RevokeReturns
<1>2. /\ view' = c.target /\ contexts' = without(contexts, cancelled) /\ hub' = hub
      /\ retry' = [retry EXCEPT !.inflight = @ \ {contexts[id].remote : id \in cancelled}]
      /\ state' = [state EXCEPT !.recovery = "REVOKED", !.operation = FALSE]
      /\ ends(Operator)
  BY DEF RevokeReturns
<1>3. TypeInv
  BY DEF AttemptsInv
<1>4. /\ DOMAIN contexts' = DOMAIN contexts \ c.removed
      /\ \A i \in DOMAIN contexts' : contexts'[i] = contexts[i]
  <2> HIDE DEF cancelled
  <2>1. /\ DOMAIN contexts' = DOMAIN contexts \ cancelled
        /\ \A i \in DOMAIN contexts' : contexts'[i] = contexts[i]
    BY <1>2, <1>3, Without
  <2>2. DOMAIN contexts \ cancelled = DOMAIN contexts \ c.removed
    BY DEF cancelled
  <2> QED BY <2>1, <2>2
<1>5. retry'.inflight \subseteq retry.inflight /\ state'.recovery # "open"
  BY <1>2, <1>3 DEF TypeInv, Retry, State
<1>6. call'[q] = call[q]
  BY <1>1, <1>2, <1>3, Ends, PeerIsLane DEF AtLane
<1>7. Follows(c, Operator, view) /\ c.target.epoch = view.epoch + 1 /\ DocOK(view')
  BY <1>1, <1>2, ArrivesFollows
<1>8. view.revoked \subseteq view'.revoked
  BY <1>1, <1>2, <1>7 DEF Follows
<1>9. q \notin view'.revoked => attemptsOf(view', q) = attemptsOf(view, q)
  BY <1>1, <1>2, <1>7, PeerIsLane DEF Follows
<1>10. q \in view'.revoked => attemptsOf(view', q) = {}
  BY <1>7 DEF DocOK, attemptsOf
<1>11. \A i \in contextsOf(q)' :
         i \in contextsOf(q) /\ contexts'[i].settlement = contexts[i].settlement
  BY <1>4 DEF contextsOf
<1>12. q \in view'.revoked => contextsOf(q)' = {}
  <2>1. CASE q \in view.revoked
    BY <1>11, <2>1 DEF AttemptsInv, PeerInv, ContextInv
  <2>2. CASE q \in view'.revoked \ view.revoked
    <3>1. publishing(c)
      BY <1>1 DEF publishing, arriving
    <3>2. contextsOf(q) \subseteq c.removed
      BY <1>1, <1>2, <1>7, <2>2, <3>1 DEF AttemptsInv, RevokeInv
    <3> QED BY <1>4, <1>11, <3>2 DEF contextsOf
  <2> QED BY <2>1, <2>2
<1>13. ASSUME NEW i \in contextsOf(q), q \notin view'.revoked
       PROVE  i \in contextsOf(q)' /\ contexts'[i].settlement = contexts[i].settlement
  <2>1. PICK o \in [1..drawn -> Remotes] : Owner(o, drawn)
    BY DEF AttemptsInv, OwnerInv
  <2>2. i \in DOMAIN contexts /\ contexts[i].remote = q /\ o[i] = q
    BY <2>1 DEF contextsOf, Owner, OwnRest, Of
  <2>3. i \notin c.removed
    BY <1>1, <1>2, <1>13, <2>1, <2>2 DEF Owner, OwnCall
  <2> QED BY <1>4, <2>2, <2>3 DEF contextsOf
<1> QED BY <1>2, <1>5, <1>6, <1>8, <1>9, <1>10, <1>11, <1>12, <1>13 DEF Undisturbed

LEMMA RevokeReturnsKeeps ==
    ASSUME AttemptsInv, TypeInv', RevokeReturns
    PROVE  AttemptsInv'
<1> DEFINE c == call[Operator]
<1>1. /\ Operator \in Lanes /\ c.at = "finish" /\ c.op = "revoke" /\ ends(Operator)
      /\ UNCHANGED <<disk, provider, started, bridge, hub, drawn>>
      /\ view' = IF c.outcome = "durable" THEN c.target ELSE view
  BY DEF Lanes, RevokeReturns, durable, counters
<1>2. /\ TypeInv /\ state.run # "down" /\ state.paired
  BY <1>1 DEF AttemptsInv, DownInv, OperatorInv
<1>3. /\ AtLane(Operator) /\ call'[Operator] = unused
      /\ call'[Operator].at = "idle" /\ call'[Operator].op = None
  BY <1>1, <1>2, Ends DEF unused
<1>4. /\ state'.run = state.run /\ state'.paired = state.paired
      /\ state'.admissible \subseteq state.admissible
      /\ state'.recovery = "open" => state.recovery = "open"
  BY <1>2 DEF RevokeReturns, quarantine, TypeInv, State
<1>5. /\ \A i \in DOMAIN contexts' : i \in DOMAIN contexts /\ contexts'[i] = contexts[i]
      /\ retry'.inflight \subseteq retry.inflight
  <2>1. CASE c.outcome = "durable"
    <3>1. contexts' = without(contexts, c.removed \cap DOMAIN contexts)
      BY <2>1 DEF RevokeReturns
    <3>2. \A i \in DOMAIN contexts' : i \in DOMAIN contexts /\ contexts'[i] = contexts[i]
      BY <1>2, <3>1, Without
    <3>3. retry' = [retry EXCEPT !.inflight =
                      @ \ {contexts[id].remote : id \in c.removed \cap DOMAIN contexts}]
      BY <2>1 DEF RevokeReturns
    <3> QED BY <1>2, <3>2, <3>3 DEF TypeInv, Retry
  <2>2. CASE c.outcome # "durable"
    <3>1. contexts' = contexts /\ retry' = retry
      BY <2>2 DEF RevokeReturns
    <3> QED BY <3>1
  <2> QED BY <2>1, <2>2
<1>6. ~publishing(call'[Operator])
  BY <1>3 DEF publishing, arriving
<1>7. DocsInv'
  BY <1>1, <1>2, <1>3, <1>4, <1>6, InstallDocs DEF AttemptsInv
<1>8. OwnerInv'
  <2>1. \A o \in [1..drawn -> Remotes] : OwnCall(o, drawn, call'[Operator], Operator)
    BY <1>3, OwnUnused
  <2> QED BY <1>1, <1>3, <1>5, <2>1, OwnerInstalls
<1>9. ASSUME NEW q \in Remotes
      PROVE  PeerInv(q)'
  <2>1. CASE c.outcome = "durable"
    BY <2>1, RevokedPeer, UndisturbedPeer DEF AttemptsInv
  <2>2. CASE c.outcome # "durable"
    <3>1. /\ view' = view /\ contexts' = contexts /\ retry' = retry /\ hub' = hub
          /\ call'[q] = call[q]
      BY <1>1, <1>3, <2>2, PeerIsLane DEF RevokeReturns, AtLane
    <3>2. contextsOf(q)' = contextsOf(q)
      BY <3>1, SameContexts
    <3>3. q \in view.revoked => contextsOf(q) = {} /\ attemptsOf(view, q) = {}
      BY DEF AttemptsInv, PeerInv, ContextInv, DocsInv, PaidInv, DocOK, attemptsOf
    <3>4. Undisturbed(q)
      BY <1>4, <3>1, <3>2, <3>3 DEF Undisturbed
    <3> QED BY <3>4, UndisturbedPeer DEF AttemptsInv
  <2> QED BY <2>1, <2>2
<1>10. DownInv'
  BY <1>2, <1>4 DEF DownInv
<1>11. \A r \in Remotes : call'[r] = call[r]
  BY <1>3, PeerIsLane DEF AtLane
<1>12. RestInv'
  BY <1>1, <1>4, <1>5, <1>11 DEF AttemptsInv, RestInv
<1>13. None \notin {"revoke", "charge", "release"}
  BY AttemptsAssumption DEF Operations
<1>14. OperatorInv'
  BY <1>3, <1>13 DEF OperatorInv
<1>15. RevokeInv'
  <2>1. state'.admissible \cap view'.revoked = {}
    BY <1>1, <1>4 DEF AttemptsInv, RevokeInv
  <2> QED BY <1>2, <1>3, <1>4, <1>13, <2>1 DEF RevokeInv
<1> QED BY <1>7, <1>8, <1>9, <1>10, <1>12, <1>14, <1>15 DEF AttemptsInv

\* A step after which every peer rests.
LEMMA RestingKeeps ==
    ASSUME AttemptsInv, TypeInv', DocsInv', OperatorInv', RevokeInv',
           \A r \in Remotes : call'[r].at = "idle" /\ call'[r] \in {unused, call[r]},
           DOMAIN contexts' = {}, retry'.inflight = {}, hub'.permits = {},
           \A r \in Remotes : bridge'.pending[r] \in {None, bridge.pending[r]},
           view' = disk, disk' = disk, drawn' = drawn,
           \A o \in [1..drawn -> Remotes] : OwnCall(o, drawn, call'[Operator], Operator),
           state'.run = "down" => call'[Operator].at = "idle"
    PROVE  AttemptsInv'
<1>1. ASSUME NEW q \in Remotes
      PROVE  PeerInv(q)'
  <2>1. contextsOf(q)' = {} /\ call'[q].at = "idle" /\ q \notin retry'.inflight
    BY DEF contextsOf
  <2> QED BY <2>1 DEF PeerInv, CallInv, LaneInv, ContextInv, LaunchInv, FlagInv
<1>2. OwnerInv'
  <2>1. PICK o \in [1..drawn -> Remotes] : Owner(o, drawn)
    BY DEF AttemptsInv, OwnerInv
  <2>2. \A l \in Lanes : OwnCall(o, drawn, call'[l], l)
    <3>1. ASSUME NEW r \in Remotes
          PROVE  OwnCall(o, drawn, call'[r], r)
      <4>1. OwnCall(o, drawn, call[r], r) /\ OwnCall(o, drawn, unused, r)
        BY <2>1, OwnUnused, PeerIsLane DEF Owner
      <4> QED BY <4>1
    <3> QED BY <3>1 DEF Lanes
  <2>3. OwnRest(o, drawn)'
    BY <2>1, OwnRestKept DEF Owner
  <2>4. Owner(o, drawn)'
    BY <2>1, <2>2, <2>3 DEF Owner
  <2> QED BY <2>4 DEF OwnerInv
<1>3. DownInv' /\ RestInv'
  BY DEF DownInv, RestInv, Lanes
<1> QED BY <1>1, <1>2, <1>3 DEF AttemptsInv

LEMMA ProcessEndsKeeps ==
    ASSUME AttemptsInv, TypeInv', processEnds
    PROVE  AttemptsInv'
<1>1. TypeInv /\ DocsInv /\ Operator \in Lanes
  BY DEF AttemptsInv, Lanes
<1>2. DocsInv'
  BY <1>1, EndDocs
<1>3. /\ DOMAIN contexts' = {} /\ retry'.inflight = {} /\ hub'.permits = {}
      /\ \A r \in Remotes : bridge'.pending[r] = None
      /\ \A l \in Lanes : call'[l] = unused
      /\ view' = disk /\ disk' = disk /\ drawn' = drawn
      /\ state'.admissible = {} /\ state'.paired = state.paired
  BY <1>1, ProcessEnds
<1>4. unused.at = "idle" /\ unused.op = None
  BY DEF unused
<1>5. None \notin {"revoke", "charge", "release"}
  BY AttemptsAssumption DEF Operations
<1>6. OperatorInv'
  BY <1>1, <1>3, <1>4, <1>5 DEF OperatorInv
<1>7. RevokeInv'
  BY <1>1, <1>3, <1>4, <1>5 DEF AttemptsInv, RevokeInv
<1>8. \A r \in Remotes : call'[r].at = "idle" /\ call'[r] \in {unused, call[r]}
  BY <1>3, <1>4, PeerIsLane
<1>9. /\ \A o \in [1..drawn -> Remotes] : OwnCall(o, drawn, call'[Operator], Operator)
      /\ call'[Operator].at = "idle"
  BY <1>1, <1>3, <1>4, OwnUnused
<1> QED BY <1>2, <1>3, <1>6, <1>7, <1>8, <1>9, RestingKeeps

LEMMA ReconcileKeeps ==
    ASSUME AttemptsInv, TypeInv', Reconcile
    PROVE  AttemptsInv'
<1>1. /\ state.run = "down"
      /\ UNCHANGED <<disk, view, state, contexts, retry, bridge, hub, call, drawn>>
  BY DEF Reconcile, memory, counters
<1>2. TypeInv /\ DocsInv /\ Operator \in Lanes
  BY DEF AttemptsInv, Lanes
<1>3. DocsInv'
  BY <1>2, ReconcileDocs
<1>4. view = disk
  BY <1>1, <1>2 DEF DocsInv, VersionInv
<1>5. /\ \A r \in Remotes : call[r].at = "idle"
      /\ DOMAIN contexts = {} /\ retry.inflight = {} /\ hub.permits = {}
      /\ call[Operator].at = "idle"
  BY <1>1, <1>2 DEF AttemptsInv, RestInv, DownInv
<1>6. PICK o \in [1..drawn -> Remotes] : Owner(o, drawn)
  BY DEF AttemptsInv, OwnerInv
<1>7. OwnerInv'
  <2>1. OwnRest(o, drawn)'
    BY <1>1, <1>6 DEF Owner, OwnRest
  <2>2. Owner(o, drawn)'
    BY <1>1, <1>6, <2>1 DEF Owner
  <2> QED BY <1>1, <2>2 DEF OwnerInv
<1>8. ASSUME NEW q \in Remotes
      PROVE  PeerInv(q)'
  <2>1. contextsOf(q)' = {} /\ call'[q].at = "idle" /\ q \notin retry'.inflight
    BY <1>1, <1>5 DEF contextsOf
  <2> QED BY <2>1 DEF PeerInv, CallInv, LaneInv, ContextInv, LaunchInv, FlagInv
<1>9. DownInv' /\ RestInv' /\ OperatorInv'
  BY <1>1 DEF AttemptsInv, DownInv, RestInv, OperatorInv
<1>10. RevokeInv'
  <2>1. \A q : contextsOf(q)' = contextsOf(q)
    BY <1>1, SameContexts
  <2> QED BY <1>1, <2>1 DEF AttemptsInv, RevokeInv
<1> QED BY <1>3, <1>7, <1>8, <1>9, <1>10 DEF AttemptsInv

\* The process starts: the operator's lane charges, releases, or rests.
LEMMA StartDocs ==
    ASSUME AttemptsInv, Start
    PROVE  DocsInv' /\ OperatorInv'
<1>1. /\ TypeInv /\ DocsInv /\ Operator \in Lanes /\ state.run = "down"
      /\ view' = disk /\ disk' = disk /\ provider' = provider /\ started' = started
  BY DEF AttemptsInv, Lanes, Start, durable, counters
<1>2. view = disk /\ disk \in Document /\ DocOK(disk)
  BY <1>1 DEF DocsInv, VersionInv, PaidInv, TypeInv
<1>3. /\ call[Operator].at = "idle" /\ call[Operator].op = None
      /\ ~arriving(call[Operator]) /\ ~publishing(call[Operator])
  BY <1>1 DEF AttemptsInv, DownInv, OperatorInv, arriving, publishing
<1>4. None \notin {"revoke", "charge", "release"}
  BY AttemptsAssumption DEF Operations
<1>5. CASE /\ opened(disk, "QUARANTINED") \/ opened(disk, classified(disk))
           /\ call' = call
  <2>1. classified(disk) \in {"open", "REVOKED", "QUARANTINED"}
    BY DEF classified
  <2>2. state'.run = "up"
    BY <1>1, <1>2, <1>5, <2>1, OpenedType
  <2>3. QuietStep
    BY <1>1, <1>2, <1>5, <2>2 DEF QuietStep, QuietLane
  <2>4. OperatorInv'
    BY <1>3, <1>4, <1>5 DEF OperatorInv
  <2> QED BY <1>1, <2>3, <2>4, QuietDocs
<1>6. ASSUME NEW op \in {"charge", "release"}, NEW target \in Document,
             target.epoch = disk.epoch,
             \A c : c.op = op /\ c.target = advanced(target) => Follows(c, Operator, disk),
             state' = [state EXCEPT !.run = "starting"],
             call' = [call EXCEPT ![Operator] =
               [unused EXCEPT !.at = "commit", !.op = op, !.anchor = provider,
                              !.target = advanced(target)]]
      PROVE  DocsInv' /\ OperatorInv'
  <2>1. /\ AtLane(Operator)
        /\ call'[Operator].at = "commit" /\ call'[Operator].op = op
        /\ call'[Operator].target = advanced(target)
    BY <1>1, <1>6, StartLane DEF Operations
  <2>2. state'.run = "starting"
    BY <1>1, <1>6 DEF TypeInv, State
  <2>3. call'[Operator].target.epoch = view.epoch + 1
    BY <1>2, <1>6, <2>1, AdvancedType
  <2>4. Follows(call'[Operator], Operator, view)
    BY <1>2, <1>6, <2>1
  <2>5. QuietLane(Operator)
    BY <1>3, <2>1, <2>3, <2>4 DEF QuietLane
  <2>6. QuietStep
    BY <1>1, <1>2, <2>1, <2>2, <2>5, QuietAt DEF QuietStep
  <2>7. OperatorInv'
    BY <2>1, <2>2 DEF OperatorInv
  <2> QED BY <1>1, <2>6, <2>7, QuietDocs
<1>7. CASE /\ disk.attempts # {}
           /\ state' = [state EXCEPT !.run = "starting"]
           /\ call' = [call EXCEPT ![Operator] =
               [unused EXCEPT !.at = "commit", !.op = "charge", !.anchor = provider,
                              !.target = advanced(charged(disk))]]
  <2>1. charged(disk) \in Document /\ charged(disk).epoch = disk.epoch
    BY <1>2, ChargedType
  <2>2. \A c : c.op = "charge" /\ c.target = advanced(charged(disk))
                 => Follows(c, Operator, disk)
    BY <1>2, ChargedFollows
  <2> QED BY <1>6, <1>7, <2>1, <2>2
<1>8. CASE /\ disk.attempts = {}
           /\ state' = [state EXCEPT !.run = "starting"]
           /\ call' = [call EXCEPT ![Operator] =
               [unused EXCEPT !.at = "commit", !.op = "release", !.anchor = provider,
                              !.target = advanced(released(disk))]]
  <2>1. released(disk) \in Document /\ released(disk).epoch = disk.epoch
    BY <1>2, ReleasedType
  <2>2. \A c : c.op = "release" /\ c.target = advanced(released(disk))
                 => Follows(c, Operator, disk)
    BY <1>2, <1>8, ReleasedFollows
  <2> QED BY <1>6, <1>8, <2>1, <2>2
<1> QED BY <1>5, <1>7, <1>8 DEF Start

LEMMA StartKeeps ==
    ASSUME AttemptsInv, TypeInv', Start
    PROVE  AttemptsInv'
<1>1. /\ TypeInv /\ DocsInv /\ Operator \in Lanes /\ state.run = "down"
      /\ view' = disk /\ disk' = disk /\ drawn' = drawn
      /\ contexts' = contexts /\ retry' = retry /\ bridge' = bridge /\ hub' = hub
  BY DEF AttemptsInv, Lanes, Start, durable, counters
<1>2. disk \in Document /\ view = disk
  BY <1>1 DEF TypeInv, DocsInv, VersionInv
<1>3. DocsInv' /\ OperatorInv'
  BY StartDocs
<1>4. /\ \A r \in Remotes : call[r].at = "idle"
      /\ call[Operator].at = "idle" /\ call[Operator].op = None
      /\ DOMAIN contexts = {} /\ retry.inflight = {} /\ hub.permits = {}
  BY <1>1 DEF AttemptsInv, RestInv, DownInv, OperatorInv
<1>5. None \notin {"revoke", "charge", "release"}
  BY AttemptsAssumption DEF Operations
<1>6. charged(disk) \in Document /\ released(disk) \in Document
  BY <1>2, ChargedType, ReleasedType
<1>7. /\ AtLane(Operator) \/ call' = call
      /\ \/ call'[Operator] = call[Operator]
         \/ /\ call'[Operator].op \in {"charge", "release"}
            /\ call'[Operator].removed = {} /\ call'[Operator].id = None
            /\ call'[Operator].failed = None
            /\ call'[Operator].target.attempts = {}
  <2>1. CASE call' = call
    BY <2>1
  <2>2. CASE call' = [call EXCEPT ![Operator] =
               [unused EXCEPT !.at = "commit", !.op = "charge", !.anchor = provider,
                              !.target = advanced(charged(disk))]]
    <3>1. /\ AtLane(Operator) /\ call'[Operator].op = "charge"
          /\ call'[Operator].removed = {} /\ call'[Operator].id = None
          /\ call'[Operator].failed = None
          /\ call'[Operator].target = advanced(charged(disk))
      BY <1>1, <1>6, <2>2, StartLane DEF Operations
    <3>2. advanced(charged(disk)).attempts = {}
      BY <1>2, <1>6, AdvancedType, ChargedType
    <3> QED BY <3>1, <3>2
  <2>3. CASE /\ disk.attempts = {}
             /\ call' = [call EXCEPT ![Operator] =
               [unused EXCEPT !.at = "commit", !.op = "release", !.anchor = provider,
                              !.target = advanced(released(disk))]]
    <3>1. /\ AtLane(Operator) /\ call'[Operator].op = "release"
          /\ call'[Operator].removed = {} /\ call'[Operator].id = None
          /\ call'[Operator].failed = None
          /\ call'[Operator].target = advanced(released(disk))
      BY <1>1, <1>6, <2>3, StartLane DEF Operations
    <3>2. advanced(released(disk)).attempts = {}
      BY <1>2, <1>6, <2>3, AdvancedType, ReleasedType
    <3> QED BY <3>1, <3>2
  <2> QED BY <2>1, <2>2, <2>3 DEF Start
<1>8. /\ state'.paired = state.paired /\ state'.run # "down"
      /\ state'.admissible \cap disk.revoked = {}
  <2>1. classified(disk) \in {"open", "REVOKED", "QUARANTINED"}
    BY DEF classified
  <2>2. CASE opened(disk, "QUARANTINED") \/ opened(disk, classified(disk))
    BY <1>1, <1>2, <2>1, <2>2, OpenedType
  <2>3. CASE state' = [state EXCEPT !.run = "starting"]
    <3>1. state.admissible \cap disk.revoked = {}
      BY <1>2 DEF AttemptsInv, RevokeInv
    <3> QED BY <1>1, <2>3, <3>1 DEF TypeInv, State
  <2> QED BY <2>2, <2>3 DEF Start
<1>9. call'[Operator].op # "revoke"
  BY <1>4, <1>5, <1>7
<1>10. RevokeInv'
  BY <1>1, <1>2, <1>8, <1>9 DEF AttemptsInv, RevokeInv
<1>11. \A r \in Remotes : call'[r] = call[r]
  BY <1>7, PeerIsLane DEF AtLane
<1>12. PICK o \in [1..drawn -> Remotes] : Owner(o, drawn)
  BY DEF AttemptsInv, OwnerInv
<1>13. \A l \in Lanes : OwnCall(o, drawn, call'[l], l)
  <2>1. OwnCall(o, drawn, call[Operator], Operator)
    BY <1>1, <1>12 DEF Owner
  <2>2. OwnCall(o, drawn, call'[Operator], Operator)
    BY <1>7, <2>1 DEF OwnCall, OwnDoc
  <2> QED BY <1>11, <1>12, <2>2, PeerIsLane DEF Owner, Lanes
<1>14. OwnerInv'
  <2>1. OwnRest(o, drawn)'
    BY <1>1, <1>12 DEF Owner, OwnRest
  <2>2. Owner(o, drawn)'
    BY <1>1, <1>12, <1>13, <2>1 DEF Owner
  <2> QED BY <1>1, <2>2 DEF OwnerInv
<1>15. ASSUME NEW q \in Remotes
       PROVE  PeerInv(q)'
  <2>1. contextsOf(q)' = {} /\ call'[q].at = "idle" /\ q \notin retry'.inflight
    BY <1>1, <1>4, <1>11 DEF contextsOf
  <2> QED BY <2>1 DEF PeerInv, CallInv, LaneInv, ContextInv, LaunchInv, FlagInv
<1>16. DownInv' /\ RestInv'
  BY <1>1, <1>4, <1>8, <1>11 DEF DownInv, RestInv
<1> QED BY <1>3, <1>10, <1>14, <1>15, <1>16 DEF AttemptsInv

LEMMA StartedKeeps ==
    ASSUME AttemptsInv, TypeInv', Started
    PROVE  AttemptsInv'
<1> DEFINE c == call[Operator]
<1>1. /\ TypeInv /\ DocsInv /\ Operator \in Lanes /\ state.run = "starting"
      /\ c.at = "after" /\ ends(Operator)
      /\ UNCHANGED <<disk, provider, view, started, contexts, bridge, hub, drawn>>
  BY DEF AttemptsInv, Lanes, Started, durable, counters
<1>2. /\ AtLane(Operator) /\ call'[Operator] = unused
      /\ call'[Operator].at = "idle" /\ call'[Operator].op = None
  BY <1>1, Ends DEF unused
<1>3. /\ state'.run = "up" /\ state'.paired = state.paired
      /\ state'.admissible \cap view.revoked = {}
  <2>1. classified(view) \in {"open", "REVOKED", "QUARANTINED"}
    BY DEF classified
  <2>2. view \in Document
    BY <1>1 DEF TypeInv
  <2>3. \E rec \in {"open", "REVOKED", "QUARANTINED"} : opened(view, rec)
    BY <2>1 DEF Started
  <2> QED BY <1>1, <2>2, <2>3, OpenedType
<1>4. /\ \A r \in Remotes : call[r].at = "idle"
      /\ DOMAIN contexts = {} /\ retry.inflight = {} /\ hub.permits = {}
  BY <1>1 DEF AttemptsInv, RestInv
<1>5. retry'.inflight = {}
  BY <1>1, <1>4 DEF Started, TypeInv, Retry
<1>6. \A r \in Remotes : call'[r] = call[r]
  BY <1>2, PeerIsLane DEF AtLane
<1>7. DocsInv'
  <2>1. QuietLane(Operator)
    BY <1>1, <1>2 DEF QuietLane, arriving, publishing
  <2>2. QuietStep
    BY <1>1, <1>2, <1>3, <2>1, QuietAt DEF QuietStep
  <2> QED BY <1>1, <2>2, QuietDocs
<1>8. None \notin {"revoke", "charge", "release"}
  BY AttemptsAssumption DEF Operations
<1>9. OperatorInv'
  BY <1>2, <1>8 DEF OperatorInv
<1>10. RevokeInv'
  BY <1>1, <1>2, <1>3, <1>8 DEF AttemptsInv, RevokeInv
<1>11. OwnerInv'
  <2>1. PICK o \in [1..drawn -> Remotes] : Owner(o, drawn)
    BY DEF AttemptsInv, OwnerInv
  <2>2. OwnCall(o, drawn, call'[Operator], Operator)
    BY <1>2, OwnUnused
  <2>3. OwnRest(o, drawn)'
    BY <1>1, <2>1 DEF Owner, OwnRest
  <2> QED BY <1>1, <1>2, <2>1, <2>2, <2>3, OwnerLane
<1>12. ASSUME NEW q \in Remotes
       PROVE  PeerInv(q)'
  <2>1. contextsOf(q)' = {} /\ call'[q].at = "idle" /\ q \notin retry'.inflight
    BY <1>1, <1>4, <1>5, <1>6 DEF contextsOf
  <2> QED BY <2>1 DEF PeerInv, CallInv, LaneInv, ContextInv, LaunchInv, FlagInv
<1>13. DownInv' /\ RestInv'
  BY <1>3 DEF DownInv, RestInv
<1> QED BY <1>7, <1>9, <1>10, <1>11, <1>12, <1>13 DEF AttemptsInv

-----------------------------------------------------------------------------
(* The inductive invariant.                                                *)

LEMMA InitAttempts == Init => AttemptsInv
<1> SUFFICES ASSUME Init PROVE AttemptsInv
  OBVIOUS
<1>1. TypeInv
  BY InitType
<1>2. /\ disk = empty /\ view = empty /\ DOMAIN contexts = {} /\ drawn = 0
      /\ retry.inflight = {} /\ hub.permits = {}
      /\ \A r \in Remotes : bridge.pending[r] = None /\ started[r] = 0
      /\ \A l \in Lanes : call[l] = unused
      /\ state.run = "up"
  BY DEF Init, quiet, nobody
<1>3. /\ empty.attempts = {} /\ empty.revoked = {} /\ empty.epoch = 1
      /\ \A r \in Remotes : /\ empty.quarantine[r].state = "none"
                            /\ empty.quarantine[r].count = 0
                            /\ attemptsOf(empty, r) = {}
  BY DEF empty, attemptsOf
<1>4. /\ unused.at = "idle" /\ unused.op = None
      /\ ~arriving(unused) /\ ~publishing(unused)
  BY DEF unused, arriving, publishing
<1>5. VersionInv /\ ArrivingInv /\ TargetInv
  BY <1>2, <1>3, <1>4 DEF VersionInv, ArrivingInv, TargetInv
<1>6. DocOK(empty)
  BY <1>3, AttemptsAssumption DEF DocOK, CountOK
<1>7. \A r \in Remotes : debt(empty, r) = 0
  BY <1>3, FS_EmptySet DEF debt
<1>8. DocsInv
  BY <1>2, <1>5, <1>6, <1>7 DEF DocsInv, PaidInv
<1>9. OwnerInv
  <2> DEFINE o == [i \in 1..0 |-> CHOOSE r \in Remotes : TRUE]
  <2>1. o \in [1..drawn -> Remotes]
    BY <1>2
  <2> HIDE DEF o
  <2>2. OwnDoc(o, drawn, disk) /\ OwnDoc(o, drawn, view)
    BY <1>2, <1>3 DEF OwnDoc
  <2>3. \A l \in Lanes : OwnCall(o, drawn, call[l], l)
    BY <1>2, OwnUnused
  <2>4. OwnRest(o, drawn)
    BY <1>2 DEF OwnRest
  <2> QED BY <2>1, <2>2, <2>3, <2>4 DEF OwnerInv, Owner
<1>10. ASSUME NEW q \in Remotes
       PROVE  PeerInv(q)
  <2>1. contextsOf(q) = {} /\ call[q].at = "idle" /\ q \notin retry.inflight
    BY <1>2, <1>4, PeerIsLane DEF contextsOf
  <2> QED BY <2>1, RestingPeer
<1>11. DownInv /\ RestInv
  BY <1>2 DEF DownInv, RestInv
<1>12. call[Operator] = unused
  BY <1>2 DEF Lanes
<1>13. None \notin {"revoke", "charge", "release"}
  BY AttemptsAssumption DEF Operations
<1>14. OperatorInv /\ RevokeInv
  BY <1>2, <1>3, <1>4, <1>12, <1>13 DEF OperatorInv, RevokeInv
<1> QED BY <1>1, <1>8, <1>9, <1>10, <1>11, <1>14 DEF AttemptsInv

LEMMA SameKeeps ==
    ASSUME AttemptsInv, UNCHANGED vars
    PROVE  AttemptsInv'
<1> USE DEF vars
<1>1. \A q : contextsOf(q)' = contextsOf(q)
  BY SameContexts
<1>2. TypeInv'
  BY DEF AttemptsInv, TypeInv, ContextsType
<1>3. DocsInv'
  BY DEF AttemptsInv, DocsInv, VersionInv, ArrivingInv, TargetInv, PaidInv
<1>4. OwnerInv'
  BY DEF AttemptsInv, OwnerInv, Owner, OwnRest
<1>5. ASSUME NEW q \in Remotes
      PROVE  PeerInv(q)'
  <2>1. q \in view.revoked => contextsOf(q) = {} /\ attemptsOf(view, q) = {}
    BY DEF AttemptsInv, PeerInv, ContextInv, DocsInv, PaidInv, DocOK, attemptsOf
  <2>2. Undisturbed(q)
    BY <1>1, <2>1 DEF Undisturbed
  <2> QED BY <2>2, UndisturbedPeer DEF AttemptsInv
<1>6. DownInv' /\ OperatorInv' /\ RestInv'
  BY DEF AttemptsInv, DownInv, OperatorInv, RestInv
<1>7. RevokeInv'
  BY <1>1 DEF AttemptsInv, RevokeInv
<1> QED BY <1>2, <1>3, <1>4, <1>5, <1>6, <1>7 DEF AttemptsInv

LEMMA NextAttempts ==
    ASSUME AttemptsInv, [Next]_vars
    PROVE  AttemptsInv'
<1>1. TypeInv'
  BY NextType, BusyLanes DEF AttemptsInv
<1>2. ASSUME NEW l \in Lanes, Publishing(l) PROVE AttemptsInv'
  BY <1>1, <1>2, BeginKeeps, CommitKeeps, CommitRefusedKeeps, CommitUnknownKeeps,
     FinishKeeps DEF Publishing
<1>3. ASSUME NEW r \in Remotes, Working(r) PROVE AttemptsInv'
  BY <1>1, <1>3, PrepareReturnsKeeps, PrepareDeniedKeeps, AuthorizeReturnsKeeps,
     EnterAbortKeeps, AbortReturnsKeeps, EnterFailureKeeps, EnterSuccessKeeps,
     SuccessReturnsKeeps DEF Working
<1>4. ASSUME NEW r \in Remotes, Hub(r) PROVE AttemptsInv'
  BY <1>1, <1>4, PrepareKeeps, AuthorizeLaunchKeeps, AbortPreparedKeeps,
     ConnectionClosedKeeps, HandshakeKeeps DEF Hub
<1>5. ASSUME NEW r \in Remotes, Timers(r) PROVE AttemptsInv'
  BY <1>1, <1>5, SettlePendingKeeps, BackoffElapsesKeeps, ExpireKeeps DEF Timers
<1>6. CASE Time
  BY <1>1, <1>6, LeaseLapsesKeeps DEF Time
<1>7. CASE OtherPublishes
  BY <1>1, <1>7, OtherPublishesKeeps
<1>8. CASE Process
  <2>1. CASE ShutdownEnds \/ Crash
    BY <1>1, <2>1, ProcessEndsKeeps DEF ShutdownEnds, Crash
  <2>2. ASSUME NEW r \in Remotes, SettleForShutdown(r) \/ Select(r) \/ Revoke(r)
        PROVE  AttemptsInv'
    BY <1>1, <2>2, SettleForShutdownKeeps, StateKeeps, RevokeKeeps
  <2> QED BY <1>1, <1>8, <2>1, <2>2, StateKeeps, ReconcileKeeps, StartKeeps,
             StartedKeeps, RevokeReturnsKeeps DEF Process
<1>9. CASE UNCHANGED vars
  BY <1>9, SameKeeps
<1> QED BY <1>2, <1>3, <1>4, <1>5, <1>6, <1>7, <1>8, <1>9 DEF Next

\* The invariant holds in every state of every behaviour: the lanes of the
\* peers, the operator and the process, in whatever order they run.
THEOREM AttemptsHold == Spec => []AttemptsInv
<1>1. Init => AttemptsInv
  BY InitAttempts
<1>2. AttemptsInv /\ [Next]_vars => AttemptsInv'
  BY NextAttempts
<1> QED BY <1>1, <1>2, PTL DEF Spec

-----------------------------------------------------------------------------
(* The properties of the runs.                                             *)

LEMMA InvAccounted == AttemptsInv => Accounted
<1> SUFFICES ASSUME AttemptsInv, NEW r \in Remotes
             PROVE  /\ disk.quarantine[r].count + Cardinality(attemptsOf(disk, r))
                         = started[r]
                    /\ Cardinality(attemptsOf(disk, r)) <= 1
                    /\ Cardinality(contextsOf(r)) <= 1
  BY DEF Accounted
<1>1. disk \in Document /\ DocOK(disk) /\ debt(disk, r) = started[r]
  BY DEF AttemptsInv, TypeInv, DocsInv, PaidInv
<1>2. Cardinality(attemptsOf(disk, r)) <= 1
  BY <1>1, DebtIs
<1>3. Cardinality(contextsOf(r)) <= 1
  <2>1. \A i, j \in contextsOf(r) : i = j
    BY DEF AttemptsInv, PeerInv, ContextInv
  <2>2. CASE contextsOf(r) = {}
    BY <2>2, FS_EmptySet
  <2>3. CASE contextsOf(r) # {}
    <3>1. PICK i : contextsOf(r) = {i}
      BY <2>1, <2>3
    <3> QED BY <3>1, FS_Singleton
  <2> QED BY <2>2, <2>3
<1> QED BY <1>1, <1>2, <1>3 DEF debt

\* The launch of an open context that the document in memory holds.
LEMMA LaunchOnDisk ==
    ASSUME AttemptsInv, NEW id \in hub.permits, NEW a \in view.attempts, a.id = id,
           a.state = "ATTEMPT_LAUNCH_AUTHORIZED", ~provider.pending
    PROVE  backed(id)
<1> DEFINE r == a.remote
<1>1. r \in Remotes
  BY DEF AttemptsInv, TypeInv, Document, Attempt
<1>2. CASE view = disk
  BY <1>2 DEF backed
<1>3. ASSUME NEW l \in Lanes, arriving(call[l])
      PROVE  backed(id)
  <2> DEFINE c == call[l]
  <2>1. disk = c.target /\ disk.epoch = view.epoch + 1 /\ publishing(c)
    BY <1>3 DEF AttemptsInv, DocsInv, ArrivingInv, publishing
  <2>2. Follows(c, l, view)
    BY <2>1 DEF AttemptsInv, DocsInv, TargetInv
  <2>3. CASE \A b \in c.target.attempts : b.id # id
    BY <1>3, <2>3 DEF backed, arriving
  <2>4. ASSUME NEW b \in c.target.attempts, b.id = id
        PROVE  backed(id)
    <3>1. b.remote = r
      <4>1. PICK o \in [1..drawn -> Remotes] : Owner(o, drawn)
        BY DEF AttemptsInv, OwnerInv
      <4>2. Of(o, drawn, id, a.remote) /\ Of(o, drawn, id, b.remote)
        BY <2>1, <2>4, <4>1 DEF Owner, OwnDoc
      <4> QED BY <4>2 DEF Of
    <3>2. r \notin c.target.revoked
      BY <2>2, <2>4, <3>1 DEF Follows, DocOK
    <3>3. CASE l = r
      <4>1. CallInv(r) /\ c.at # "idle"
        BY <1>1, <1>3 DEF AttemptsInv, PeerInv, arriving
      <4>2. c.op \in LaneOps
        BY <3>3, <4>1 DEF CallInv
      <4>3. Own(c, r, view) /\ b \in attemptsOf(c.target, r)
        BY <1>1, <2>2, <2>4, <3>1, <3>3 DEF Follows, attemptsOf
      <4>4. c.op # "prepare"
        BY <2>4, <3>3, <4>1, <4>3 DEF CallInv, Own
      <4>5. c.op \notin {"abort", "failure", "success"}
        BY <4>3 DEF Own
      <4>6. b.state = "ATTEMPT_LAUNCH_AUTHORIZED"
        BY <4>2, <4>3, <4>4, <4>5 DEF LaneOps, Own
      <4> QED BY <2>1, <2>4, <4>6 DEF backed
    <3>4. CASE l # r
      <4>1. c.op # "charge"
        <5>1. CASE l = Operator
          BY <5>1 DEF AttemptsInv, OperatorInv, RestInv
        <5>2. CASE l \in Remotes
          BY <1>3, <5>2 DEF AttemptsInv, PeerInv, CallInv, LaneOps, arriving
        <5> QED BY <5>1, <5>2 DEF Lanes
      <4>2. attemptsOf(c.target, r) = attemptsOf(view, r)
        BY <1>1, <2>2, <3>2, <3>4, <4>1 DEF Follows
      <4>3. a \in disk.attempts
        BY <2>1, <4>2 DEF attemptsOf
      <4> QED BY <4>3 DEF backed
    <3> QED BY <3>3, <3>4
  <2> QED BY <2>3, <2>4
<1> QED BY <1>2, <1>3 DEF AttemptsInv, DocsInv, VersionInv

LEMMA InvPermitBacked == AttemptsInv => PermitBacked
<1> SUFFICES ASSUME AttemptsInv PROVE PermitBacked
  OBVIOUS
<1>1. ASSUME NEW id \in hub.permits, open(id)
      PROVE  backed(id)
  <2> DEFINE r == contexts[id].remote
  <2>1. id \in DOMAIN contexts /\ contexts[id].settlement = ""
    BY <1>1 DEF open
  <2>2. r \in Remotes /\ id \in contextsOf(r)
    BY <2>1 DEF AttemptsInv, TypeInv, ContextsType, Runtime, contextsOf
  <2>3. \/ \E a \in attemptsOf(view, r) :
             a.id = id /\ a.state = "ATTEMPT_LAUNCH_AUTHORIZED"
        \/ removes(call[r], id)
    BY <2>1, <2>2 DEF AttemptsInv, PeerInv, LaunchInv
  <2>4. CASE removes(call[r], id)
    <3>1. call[r].at = "after" /\ call[r].outcome = "durable"
      BY <2>4 DEF removes, ended
    <3>2. \A a \in call[r].target.attempts : a.id # id
      BY <2>2, <2>4, <3>1 DEF removes, AttemptsInv, PeerInv, CallInv
    <3>3. r \in Lanes
      BY <2>2, PeerIsLane
    <3> QED BY <3>1, <3>2, <3>3 DEF backed
  <2>5. CASE provider.pending
    BY <2>5 DEF backed
  <2>6. CASE /\ ~provider.pending
             /\ \E a \in attemptsOf(view, r) :
                  a.id = id /\ a.state = "ATTEMPT_LAUNCH_AUTHORIZED"
    BY <2>6, LaunchOnDisk DEF attemptsOf
  <2> QED BY <2>3, <2>4, <2>5, <2>6
<1>2. ASSUME NEW r \in view.revoked
      PROVE  contextsOf(r) = {} /\ attemptsOf(disk, r) = {}
  <2>1. r \in Remotes
    BY DEF AttemptsInv, TypeInv, Document
  <2>2. contextsOf(r) = {}
    BY <2>1 DEF AttemptsInv, PeerInv, ContextInv
  <2>3. r \in disk.revoked /\ DocOK(disk)
    BY DEF AttemptsInv, DocsInv, VersionInv, PaidInv
  <2>4. attemptsOf(disk, r) = {}
    BY <2>3 DEF DocOK, attemptsOf
  <2> QED BY <2>2, <2>4
<1> QED BY <1>1, <1>2 DEF PermitBacked

\* Every variable keeps the type its declaration gives it.
THEOREM AttemptTypes == Spec => []TypeOK
<1>1. AttemptsInv => TypeOK
  BY TypeInvIsTypeOK DEF AttemptsInv
<1> QED BY <1>1, AttemptsHold, PTL

\* Every reservation of every peer is paid once: charged when it fails, is
\* aborted, lapses or is found at a restart, forgiven when it succeeds or its
\* peer is revoked; and a peer has at most one attempt and one context.
THEOREM PaidOnce == Spec => []Accounted
BY AttemptsHold, InvAccounted, PTL

\* The hub dials only with a launch that is on disk, or that is about to end;
\* nothing of a revoked peer is left (authorizeOutgoingLaunch, revoke).
THEOREM PermitsBacked == Spec => []PermitBacked
BY AttemptsHold, InvPermitBacked, PTL

\* A retry flag belongs to an attempt or to an operation that will take it back
\* (retryInflight).
THEOREM FlagsOwned == Spec => []RetryFlagOwned
<1>1. AttemptsInv => RetryFlagOwned
  BY DEF AttemptsInv, PeerInv, FlagInv, RetryFlagOwned, TypeInv, Retry
<1> QED BY <1>1, AttemptsHold, PTL
=============================================================================
