-------------------- MODULE MutationCoordinator_proofs --------------------
(***************************************************************************)
(* The mutation coordinator, for every number of mutations, callers,        *)
(* values and connection generations and under every fault.                 *)
(*                                                                          *)
(* First its writer lease: it is exclusive, and the journal is closed only  *)
(* when nobody holds it.  Then what its durable records, reservations and   *)
(* write frames have to do with each other: a frame follows its durable     *)
(* intent, is sent once, and is not sent in quarantine; what a record says  *)
(* of remote contact is true; a reservation without a record has an owner.  *)
(***************************************************************************)
EXTENDS MutationCoordinator, TLAPS

Locals == [at : Points, ref : Refs \cup {NoRef},
           token : [generation : Nat, value : MaybeValue],
           result : Results]

CallTypes == call \in [Processes -> Locals]

\* A closed journal is never used again: Close has set "closed" before, and
\* from then on the lease is not given to anybody.
ClosedInv == phase = "closed" => closed /\ ~writer

\* The inductive invariant.
LeaseInv == CallTypes /\ WriterExclusive /\ ClosedInv

-----------------------------------------------------------------------------
(* The five ways in which a step can touch the lease.                       *)

Others(p) == \A q \in Processes \ {p} : call'[q] = call[q]

\* p works under the lease.
Holds(p) ==
    /\ leased(p) /\ call'[p].at \in Leased /\ Others(p)
    /\ UNCHANGED <<phase, writer, closed>>

\* p takes the lease.
Takes(p) ==
    /\ ~writer /\ ~closed /\ writer'
    /\ call'[p].at \in Leased /\ Others(p)
    /\ UNCHANGED <<phase, closed>>

\* p gives the lease back.
Gives(p) ==
    /\ leased(p) /\ ~writer' /\ call'[p].at \notin Leased /\ Others(p)
    /\ UNCHANGED <<phase, closed>>

\* p has not got the lease.
Waits(p) ==
    /\ ~leased(p) /\ call'[p].at \notin Leased /\ Others(p)
    /\ UNCHANGED <<phase, writer, closed>>

\* No process moves, and the journal is closed only without a writer.
Manages ==
    /\ UNCHANGED <<call, writer>>
    /\ phase' = "closed" => closed' /\ ~writer

\* Whoever takes such a step preserves the invariant.
LEMMA LeasePreserved ==
    ASSUME LeaseInv, CallTypes',
           \/ \E p \in Processes : Holds(p) \/ Takes(p) \/ Gives(p) \/ Waits(p)
           \/ Manages
    PROVE  LeaseInv'
<1> USE DEF LeaseInv, ClosedInv, WriterExclusive, leased
<1>1. CASE Manages
  BY <1>1 DEF Manages
<1>2. ASSUME NEW p \in Processes, Holds(p)
      PROVE  LeaseInv'
  BY <1>2 DEF Holds, Others
<1>3. ASSUME NEW p \in Processes, Takes(p)
      PROVE  LeaseInv'
  BY <1>3 DEF Takes, Others
<1>4. ASSUME NEW p \in Processes, Gives(p)
      PROVE  LeaseInv'
  BY <1>4 DEF Gives, Others
<1>5. ASSUME NEW p \in Processes, Waits(p)
      PROVE  LeaseInv'
  BY <1>5 DEF Waits, Others
<1> QED BY <1>1, <1>2, <1>3, <1>4, <1>5

-----------------------------------------------------------------------------
(* Goto, Return, and the operators that end in one of them.                 *)

LEMMA GotoMoves ==
    ASSUME CallTypes, NEW p \in Processes, NEW x \in Points, Goto(p, x)
    PROVE  CallTypes' /\ call'[p].at = x /\ Others(p)
<1> QED BY DEF CallTypes, Locals, Goto, Others

\* Goto with a new token.
LEMMA TokenMoves ==
    ASSUME CallTypes, NEW p \in Processes, NEW x \in Points,
           NEW t \in [generation : Nat, value : MaybeValue],
           call' = [call EXCEPT ![p].at = x, ![p].token = t]
    PROVE  CallTypes' /\ call'[p].at = x /\ Others(p)
<1> QED BY DEF CallTypes, Locals, Others

LEMMA ReturnMoves ==
    ASSUME CallTypes, NEW p \in Processes, Return(p)
    PROVE  CallTypes' /\ call'[p].at \notin Leased /\ Others(p)
<1>1. Idle \in Locals /\ Idle.at \notin Leased
  BY DEF Idle, Locals, Points, Leased, NoToken, MaybeValue, Results
<1> QED BY <1>1 DEF CallTypes, Return, Others

\* The outcome does not matter, only where the caller goes on.
LEMMA TransitionMoves ==
    ASSUME CallTypes, NEW p \in Processes, NEW o,
           NEW a \in Leased, NEW b \in Leased, transition(p, o, a, b)
    PROVE  CallTypes' /\ call'[p].at \in Leased /\ Others(p)
<1>1. Goto(p, a) \/ Goto(p, b)
  BY DEF transition
<1>2. a \in Points /\ b \in Points
  BY DEF Points
<1> QED BY <1>1, <1>2, GotoMoves

LEMMA PersistMoves ==
    ASSUME CallTypes, NEW p \in Processes, NEW o,
           NEW a \in Leased, NEW b \in Leased, persist(p, o, a, b)
    PROVE  CallTypes' /\ call'[p].at \in Leased /\ Others(p)
<1>1. transition(p, o, a, b) \/ Goto(p, b)
  BY DEF persist
<1>2. b \in Points
  BY DEF Points
<1> QED BY <1>1, <1>2, GotoMoves, TransitionMoves

LEMMA FullWriteMoves ==
    ASSUME CallTypes, NEW p \in Processes, NEW v, NEW g, NEW a \in Leased,
           fullWrite(p, v, g, a)
    PROVE  CallTypes' /\ call'[p].at \in Leased /\ Others(p)
<1>1. PICK res \in Results :
        call' = [call EXCEPT ![p].at = a, ![p].result = res]
  BY DEF fullWrite, Results
<1> QED BY <1>1 DEF CallTypes, Locals, Points, Others

-----------------------------------------------------------------------------
(* Every action is one of the five kinds of step.                           *)

\* reserveSet for a known identity takes the lease or only replies.
LEMMA ReserveKnownMoves ==
    ASSUME CallTypes, NEW c \in SetCalls, reserveKnown(c),
           ~leased(c), UNCHANGED phase
    PROVE  CallTypes' /\ (Takes(c) \/ Waits(c))
<1>1. c \in Processes
  BY DEF Processes
<1>2. CASE Return(c) /\ UNCHANGED writer
  BY <1>1, <1>2, ReturnMoves DEF reserveKnown, Waits
<1>3. CASE /\ ~closed /\ ~writer /\ writer'
           /\ idempotency[setIdentity(c)] = setBinding(c)
           /\ call' = [call EXCEPT ![c] = [Idle EXCEPT !.at = "recover",
                            !.ref = idempotency[setIdentity(c)].ref]]
  <2>1. setBinding(c).ref \in Refs
    BY CoordinatorAssumption DEF setBinding
  <2>2. [Idle EXCEPT !.at = "recover", !.ref = setBinding(c).ref] \in Locals
    BY <2>1 DEF Idle, Locals, Points, Leased, NoToken, MaybeValue, Results
  <2>3. CallTypes' /\ Others(c) /\ call'[c].at = "recover"
    BY <1>1, <1>3, <2>2 DEF CallTypes, Others, Idle
  <2> QED BY <1>3, <2>3 DEF Takes, Leased, reserveKnown
<1> QED BY <1>2, <1>3 DEF reserveKnown

LEMMA SetStepMoves ==
    ASSUME LeaseInv, NEW c \in SetCalls, SetStep(c)
    PROVE  CallTypes' /\ \E p \in Processes :
                            Holds(p) \/ Takes(p) \/ Gives(p) \/ Waits(p)
<1> USE DEF LeaseInv, leased
<1>1. c \in Processes /\ Leased \subseteq Points
  BY DEF Processes, Points
<1>2. CASE BeginSet(c)
  <2>1. ~leased(c)
    BY <1>2 DEF BeginSet, Idle, Leased
  <2>2. CASE reserveKnown(c)
    BY <1>1, <1>2, <2>1, <2>2, ReserveKnownMoves DEF BeginSet
  <2>3. CASE Goto(c, "verify") /\ UNCHANGED memory
    <3>1. "verify" \in Points /\ "verify" \notin Leased
      BY DEF Points, Leased
    <3> QED BY <1>1, <1>2, <2>1, <2>3, <3>1, GotoMoves
            DEF BeginSet, Waits, memory
  <2> QED BY <1>2, <2>2, <2>3 DEF BeginSet
<1>3. CASE VerifyReadToken(c)
  <2>1. ~leased(c) /\ UNCHANGED <<phase, writer, closed>>
    BY <1>3 DEF VerifyReadToken, memory, Leased
  <2>2. CASE Return(c)
    BY <1>1, <2>1, <2>2, ReturnMoves DEF Waits
  <2>3. CASE \E g \in 1..generation, v \in Values :
               call' = [call EXCEPT ![c].at = "reserve",
                            ![c].token = [generation |-> g, value |-> v]]
    <3>1. PICK g \in 1..generation, v \in Values :
               call' = [call EXCEPT ![c].at = "reserve",
                            ![c].token = [generation |-> g, value |-> v]]
      BY <2>3
    <3>2. [generation |-> g, value |-> v] \in
             [generation : Nat, value : MaybeValue]
      BY <3>1 DEF MaybeValue
    <3>3. "reserve" \in Points
      BY DEF Points
    <3>4. CallTypes' /\ Others(c) /\ call'[c].at = "reserve"
      BY <1>1, <3>1, <3>2, <3>3, TokenMoves
    <3> QED BY <1>1, <2>1, <3>4 DEF Waits, Leased
  <2> QED BY <1>3, <2>2, <2>3 DEF VerifyReadToken
<1>4. CASE ReserveSet(c)
  <2>1. ~leased(c)
    BY <1>4 DEF ReserveSet, Leased
  <2>2. CASE reserveKnown(c)
    BY <1>1, <1>4, <2>1, <2>2, ReserveKnownMoves DEF ReserveSet
  <2>3. CASE Return(c) /\ UNCHANGED memory
    BY <1>1, <1>4, <2>1, <2>3, ReturnMoves DEF ReserveSet, Waits, memory
  <2>4. CASE /\ ~closed /\ ~writer /\ writer' /\ UNCHANGED closed
             /\ call' = [call EXCEPT ![c].at = "bind", ![c].ref = c.key]
    <3>1. c.key \in Refs /\ "bind" \in Points
      BY CoordinatorAssumption DEF Points, Leased
    <3>2. CallTypes' /\ Others(c) /\ call'[c].at = "bind"
      BY <1>1, <2>4, <3>1 DEF CallTypes, Locals, Others
    <3> QED BY <1>1, <1>4, <2>4, <3>2 DEF ReserveSet, Takes, Leased
  <2> QED BY <1>4, <2>2, <2>3, <2>4 DEF ReserveSet
<1>5. CASE BindRuntime(c)
  <2>1. leased(c) /\ (Goto(c, "guard") \/ Goto(c, "unreserve"))
    BY <1>5 DEF BindRuntime, Leased
  <2>2. {"guard", "unreserve"} \subseteq Leased
    BY DEF Leased
  <2> QED BY <1>1, <1>5, <2>1, <2>2, GotoMoves DEF BindRuntime, Holds, memory
<1>6. CASE GuardRead(c)
  <2>1. leased(c) /\ {"prepare", "unreserve"} \subseteq Leased
    BY <1>6 DEF GuardRead, Leased
  <2>2. CASE call' = [call EXCEPT ![c].at = "prepare", ![c].token = NoToken]
    <3>1. NoToken \in [generation : Nat, value : MaybeValue]
      BY DEF NoToken, MaybeValue
    <3>2. CallTypes' /\ Others(c) /\ call'[c].at = "prepare"
      BY <1>1, <2>1, <2>2, <3>1, TokenMoves
    <3> QED BY <1>1, <1>6, <2>1, <3>2 DEF GuardRead, Holds
  <2>3. CASE Goto(c, "unreserve")
    BY <1>1, <1>6, <2>1, <2>3, GotoMoves DEF GuardRead, Holds
  <2>4. CASE \E o : transition(c, o, "unreserve", "unreserve")
    BY <1>1, <1>6, <2>1, <2>4, TransitionMoves DEF GuardRead, Holds
  <2> QED BY <1>6, <2>2, <2>3, <2>4 DEF GuardRead
<1>7. CASE \/ Prepare(c) \/ DispatchIntent(c)
           \/ CompleteOriginalWrite(c) \/ VerifyPending(c)
  <2>1. /\ leased(c) /\ UNCHANGED <<phase, writer, closed>>
        /\ \E o, a, b : /\ a \in Leased /\ b \in Leased
                        /\ transition(c, o, a, b)
    BY <1>7 DEF Prepare, DispatchIntent, CompleteOriginalWrite,
                VerifyPending, Leased
  <2> QED BY <1>1, <2>1, TransitionMoves DEF Holds
<1>8. CASE Dispatch(c)
  <2>1. /\ leased(c) /\ "written" \in Leased
        /\ \E v, g : fullWrite(c, v, g, "written")
    BY <1>8 DEF Dispatch, Leased
  <2> QED BY <1>1, <1>8, <2>1, FullWriteMoves DEF Dispatch, Holds, memory
<1>9. CASE CorrelatedReadback(c)
  <2>1. /\ leased(c) /\ "unreserve" \in Leased
        /\ \E o : persist(c, o, "unreserve", "unreserve")
    BY <1>9 DEF CorrelatedReadback, Leased
  <2> QED BY <1>1, <1>9, <2>1, PersistMoves DEF CorrelatedReadback, Holds
<1> QED BY <1>2, <1>3, <1>4, <1>5, <1>6, <1>7, <1>8, <1>9, SetStep(c)
        DEF SetStep

LEMMA LeasedStepMoves ==
    ASSUME LeaseInv, NEW p \in Processes, LeasedStep(p)
    PROVE  CallTypes' /\ (Holds(p) \/ Gives(p))
<1> USE DEF LeaseInv, leased
<1>1. Leased \subseteq Points
  BY DEF Points
<1>2. CASE RecoverEntry(p)
  <2>1. /\ leased(p) /\ {"readUnknown", "rbRead", "release"} \subseteq Leased
        /\ UNCHANGED <<phase, writer, closed>>
    BY <1>2 DEF RecoverEntry, Leased
  <2>2. \/ \E o : transition(p, o, "readUnknown", "release")
        \/ Goto(p, "rbRead")
        \/ \E o : persist(p, o, "release", "release")
    BY <1>2 DEF RecoverEntry
  <2> QED BY <1>1, <2>1, <2>2, GotoMoves, TransitionMoves, PersistMoves
          DEF Holds
<1>3. CASE \/ PossibleSendReadback(p) \/ RollbackReadback(p)
           \/ UncertainRollbackReadback(p)
  <2>1. /\ leased(p) /\ UNCHANGED <<phase, writer, closed>>
        /\ \E o, a : a \in Leased /\ persist(p, o, a, a)
    BY <1>3 DEF PossibleSendReadback, RollbackReadback,
                UncertainRollbackReadback, Leased
  <2> QED BY <2>1, PersistMoves DEF Holds
<1>4. CASE StartRollback(p) \/ RollbackVerifyPending(p)
  <2>1. /\ leased(p) /\ UNCHANGED <<phase, writer, closed>>
        /\ \E o, a, b : /\ a \in Leased /\ b \in Leased
                        /\ transition(p, o, a, b)
    BY <1>4 DEF StartRollback, RollbackVerifyPending, Leased
  <2> QED BY <2>1, TransitionMoves DEF Holds
<1>5. CASE RollbackRead(p)
  <2>1. /\ leased(p) /\ UNCHANGED <<phase, writer, closed>>
        /\ {"rbDispatch", "release"} \subseteq Leased
    BY <1>5 DEF RollbackRead, Leased
  <2>2. \E o, a : a \in {"rbDispatch", "release"}
                 /\ persist(p, o, a, "release")
    BY <1>5 DEF RollbackRead
  <2> QED BY <2>1, <2>2, PersistMoves DEF Holds
<1>6. CASE RollbackDispatch(p)
  <2>1. /\ leased(p) /\ "rbWritten" \in Leased
        /\ UNCHANGED <<phase, writer, closed>>
        /\ \E v, g : fullWrite(p, v, g, "rbWritten")
    BY <1>6 DEF RollbackDispatch, Leased, memory
  <2> QED BY <2>1, FullWriteMoves DEF Holds
<1>7. CASE CompleteRollbackWrite(p)
  <2>1. /\ leased(p) /\ UNCHANGED <<phase, writer, closed>>
        /\ {"rbVerifying", "rbReadUnknown", "release"} \subseteq Leased
    BY <1>7 DEF CompleteRollbackWrite, Leased
  <2>2. \/ \E o : transition(p, o, "rbVerifying", "release")
        \/ \E o : transition(p, o, "rbReadUnknown", "release")
        \/ \E o : persist(p, o, "release", "release")
    BY <1>7 DEF CompleteRollbackWrite
  <2> QED BY <2>1, <2>2, TransitionMoves, PersistMoves DEF Holds
<1>8. CASE ReleaseReservation(p)
  <2>1. /\ leased(p) /\ UNCHANGED <<phase, writer, closed>>
        /\ Goto(p, "release") /\ "release" \in Leased
    BY <1>8 DEF ReleaseReservation, Leased
  <2> QED BY <1>1, <2>1, GotoMoves DEF Holds
<1>9. CASE ReleaseWriter(p)
  <2>1. leased(p) /\ ~writer' /\ UNCHANGED <<phase, closed>> /\ Return(p)
    BY <1>9 DEF ReleaseWriter, Leased
  <2> QED BY <2>1, ReturnMoves DEF Gives
<1> QED BY <1>2, <1>3, <1>4, <1>5, <1>6, <1>7, <1>8, <1>9, LeasedStep(p)
        DEF LeasedStep

LEMMA TimerStepMoves ==
    ASSUME LeaseInv, NEW t \in Timers, TimerStep(t)
    PROVE  CallTypes' /\ (Takes(t) \/ Waits(t))
<1> USE DEF LeaseInv, leased
<1>1. /\ t \in Processes
      /\ {"acquire", "retry"} \subseteq Points
      /\ "acquire" \notin Leased /\ "retry" \notin Leased
      /\ {"release", "rbStart", "recover"} \subseteq Leased
      /\ {"release", "rbStart", "recover"} \subseteq Points
  BY DEF Processes, Points, Leased
<1>2. CASE Fire(t)
  <2>1. ~leased(t)
    BY <1>2 DEF Fire, Idle, Leased
  <2> QED BY <1>1, <1>2, <2>1, GotoMoves DEF Fire, Waits
<1>3. CASE AcquireWriter(t)
  <2>1. ~leased(t) /\ UNCHANGED <<phase, closed>>
    BY <1>1, <1>3 DEF AcquireWriter
  <2>2. CASE Goto(t, "retry") /\ UNCHANGED writer
    BY <1>1, <2>1, <2>2, GotoMoves DEF Waits
  <2>3. CASE /\ ~closed /\ ~writer /\ writer'
             /\ \E a \in {"release", "rbStart", "recover"} :
                  call' = [call EXCEPT ![t].ref = t.ref, ![t].at = a]
    <3>1. PICK a \in {"release", "rbStart", "recover"} :
            call' = [call EXCEPT ![t].ref = t.ref, ![t].at = a]
      BY <2>3
    <3>2. t.ref \in Refs /\ a \in Points /\ a \in Leased
      BY <1>1, <3>1 DEF Timers
    <3>3. CallTypes' /\ Others(t) /\ call'[t].at = a
      BY <1>1, <3>1, <3>2 DEF CallTypes, Locals, Others
    <3> QED BY <2>1, <2>3, <3>2, <3>3 DEF Takes
  <2> QED BY <1>3, <2>2, <2>3 DEF AcquireWriter, afterAcquire
<1>4. CASE AcquireTimeout(t)
  BY <1>1, <1>4, GotoMoves DEF AcquireTimeout, Waits, memory
<1>5. CASE Reschedule(t)
  BY <1>1, <1>5, ReturnMoves DEF Reschedule, Waits
<1> QED BY <1>2, <1>3, <1>4, <1>5, TimerStep(t) DEF TimerStep

LEMMA BeginRollbackMoves ==
    ASSUME LeaseInv, NEW c \in RollbackCalls, BeginRollback(c)
    PROVE  CallTypes' /\ Takes(c)
<1>1. c \in Processes /\ c.ref \in Refs
  BY CoordinatorAssumption DEF Processes
<1>2. PICK a \in {"recover", "rbStart"} :
        call' = [call EXCEPT ![c] = [Idle EXCEPT !.at = a, !.ref = c.ref]]
  BY DEF BeginRollback
<1>3. ~writer /\ ~closed /\ writer' /\ UNCHANGED <<phase, closed>>
  BY DEF BeginRollback
<1>4. a \in Leased /\ a \in Points
  BY <1>2 DEF Leased, Points
<1>5. [Idle EXCEPT !.at = a, !.ref = c.ref] \in Locals
  BY <1>1, <1>4 DEF Idle, Locals, NoToken, MaybeValue, Results
<1>6. CallTypes' /\ Others(c) /\ call'[c].at = a
  BY <1>1, <1>2, <1>5 DEF LeaseInv, CallTypes, Others, Idle
<1> QED BY <1>3, <1>4, <1>6 DEF Takes

-----------------------------------------------------------------------------
(* The theorems.                                                            *)

LEMMA InitLeaseInv == Init => LeaseInv
<1>1. Idle \in Locals /\ Idle.at \notin Leased
  BY DEF Idle, Locals, Points, Leased, NoToken, MaybeValue, Results
<1> QED BY <1>1 DEF Init, LeaseInv, CallTypes, WriterExclusive, leased,
                    ClosedInv

\* A process that starts afresh holds nothing.
LEMMA ForgetLeaseInv == forget => LeaseInv'
<1>1. Idle \in Locals /\ Idle.at \notin Leased
  BY DEF Idle, Locals, Points, Leased, NoToken, MaybeValue, Results
<1> QED BY <1>1 DEF forget, LeaseInv, CallTypes, WriterExclusive, leased,
                    ClosedInv

LEMMA NextLeaseInv == LeaseInv /\ [Next]_vars => LeaseInv'
<1> SUFFICES ASSUME LeaseInv, [Next]_vars PROVE LeaseInv'
  OBVIOUS
<1>0. SetCalls \subseteq Processes /\ RollbackCalls \subseteq Processes
      /\ Timers \subseteq Processes
  BY DEF Processes
<1>1. CASE \E c \in SetCalls : SetStep(c)
  BY <1>1, SetStepMoves, LeasePreserved
<1>2. CASE \E c \in RollbackCalls : BeginRollback(c)
  BY <1>0, <1>2, BeginRollbackMoves, LeasePreserved
<1>3. CASE \E p \in Processes : LeasedStep(p)
  BY <1>3, LeasedStepMoves, LeasePreserved
<1>4. CASE \E t \in Timers : TimerStep(t)
  BY <1>0, <1>4, TimerStepMoves, LeasePreserved
<1>5. CASE Crash \/ Reopen
  BY <1>5, ForgetLeaseInv DEF Crash, Reopen
<1>6. CASE \/ Open \/ FinishClose \/ ForeignWrite \/ Reconnect
           \/ BeginClose \/ UNCHANGED vars
  <2>1. CallTypes' /\ Manages
    BY <1>6 DEF Open, FinishClose, ForeignWrite, Reconnect, BeginClose, vars,
                memory, remote, Manages, LeaseInv, CallTypes, ClosedInv
  <2> QED BY <2>1, LeasePreserved
<1> QED BY <1>1, <1>2, <1>3, <1>4, <1>5, <1>6 DEF Next, Environment

LEMMA AlwaysLeaseInv == Spec => []LeaseInv
<1> QED BY InitLeaseInv, NextLeaseInv, PTL DEF Spec

\* At most one Set, Rollback or timer callback works on the device and the
\* journal at a time, through any reservation, timer, Close, crash and
\* restart, and coordinator.writer says whether one does.
THEOREM LeaseIsExclusive == Spec => []WriterExclusive
<1>1. LeaseInv => WriterExclusive
  BY DEF LeaseInv
<1> QED BY <1>1, AlwaysLeaseInv, PTL

\* Close closes the journal only after the last holder of the lease has
\* returned, and nobody takes the lease afterwards.
THEOREM CloseWaitsForWriter == Spec => []CloseDrains
<1>1. LeaseInv => CloseDrains
  BY DEF LeaseInv, WriterExclusive, ClosedInv, CloseDrains
<1> QED BY <1>1, AlwaysLeaseInv, PTL

-----------------------------------------------------------------------------
(* Records, reservations and frames.                                        *)

\* The identity of the Set call that created mutation r.
setIdentityOf(r) == [tool |-> "set", key |-> r]

Frames == [forward : Nat, rollback : Nat]

\* What record m says about the frames f of its mutation (three clauses of
\* ContactEvidenceTrue).
Evidence(m, f) ==
    /\ m.state \in {"prepared", "failed_no_contact"} => f.forward = 0
    /\ m.accepted # "nil" => f.forward = 1
    /\ m.state = "outcome_unknown" /\ ~m.outcome.possible => f.rollback = 0

\* A record of mutation r that was appended, or may have been.
RecordOf(r, e, f) ==
    /\ e.request.ref = r
    /\ e.mutation.state \in MutationStates
    /\ Evidence(e.mutation, f)

JournalInv ==
    /\ \A r \in Refs : durable(r) =>
         /\ RecordOf(r, last[r], frames[r])
         /\ last[r].mutation.state = "rollback_intent" =>
              frames[r].rollback = 0
         /\ bound[setIdentityOf(r)] # NoEntry
    /\ \A r \in Refs : ~durable(r) => frames[r].forward = 0
    /\ \A i \in Identities : bound[i] # NoEntry => durable(bound[i].ref)

\* A failed append whose repair failed as well stops the journal.
TailInv ==
    tail # NoEntry =>
        LET r == tail.request.ref IN
        /\ poisoned
        /\ RecordOf(r, tail, frames[r])
        /\ ~durable(r) => tail.identity = setIdentityOf(r)

\* Memory over the journal.  A working copy may be ahead of its record in
\* everything but its state; an entry without a record has an owner.
EntriesInv ==
    \A r \in Refs : entries[r] # NoEntry =>
        /\ entries[r].request.ref = r
        /\ entries[r].mutation.accepted # "nil" => frames[r].forward = 1
        /\ durable(r) =>
             entries[r].mutation.state = last[r].mutation.state
        /\ ~durable(r) => /\ entries[r].mutation.state = Reserved
                          /\ entries[r].identity = setIdentityOf(r)

IdempotencyInv ==
    \A i \in Identities : idempotency[i] # NoEntry =>
        /\ entries[idempotency[i].ref] # NoEntry
        /\ ~durable(idempotency[i].ref) =>
             i = setIdentityOf(idempotency[i].ref)

\* A running coordinator knows what its journal holds; one that is not
\* running holds nothing.
PublishedInv ==
    phase \in {"running", "closed"} =>
        /\ quarantined = quarantines(last)
        /\ \A r \in Refs : durable(r) =>
             entries[r] # NoEntry /\ idempotency[setIdentityOf(r)] # NoEntry

DownInv ==
    phase \in {"down", "refused"} =>
        /\ ~writer /\ timers = {}
        /\ call = [p \in Processes |-> Idle]
        /\ entries = [r \in Refs |-> NoEntry]
        /\ idempotency = [i \in Identities |-> NoEntry]

-----------------------------------------------------------------------------
(* The control points.                                                      *)

\* A Set call works on the mutation of its own key here ...
SetPoints == {"bind", "guard", "prepare", "intent", "dispatch", "written",
              "verifying", "readback"}
\* ... which has no record yet here.
UndurablePoints == {"bind", "guard", "prepare"}
DurablePoints == Leased \ (UndurablePoints \cup {"unreserve", "release"})

\* From here a frame may leave without another look at the quarantine.
FramePoints == {"bind", "guard", "prepare", "intent", "dispatch", "recover",
                "rbStart", "rbRead", "rbDispatch"}

\* The last record rec and the frames f of a mutation whose process is at
\* point "at", with the result of its write.
PointFits(at, result, rec, f) ==
    /\ at \in UndurablePoints => rec = NoEntry
    /\ at \in DurablePoints => rec # NoEntry
    /\ at = "intent" => rec.mutation.state = "prepared"
    /\ at = "dispatch" => /\ rec.mutation.state = "dispatch_intent"
                          /\ f.forward = 0
    /\ at = "written" =>
         /\ rec.mutation.state = "dispatch_intent"
         /\ f.forward = IF result = "notSent" THEN 0 ELSE 1
    /\ at = "rbRead" => rec.mutation.state = "rollback_intent"
    /\ at = "rbDispatch" =>
         /\ rec.mutation.state = "rollback_dispatch_intent"
         /\ f.rollback = 0
    /\ at = "rbWritten" =>
         rec.mutation.state = "rollback_dispatch_intent"

ProcessFits(p) ==
    leased(p) =>
        LET at == call[p].at  r == call[p].ref IN
        /\ r \in Refs
        /\ at # "release" => entries[r] # NoEntry
        /\ at \in SetPoints => p \in SetCalls /\ r = p.key
        /\ at = "unreserve" /\ ~durable(r) => p \in SetCalls
        /\ at = "release" /\ ~durable(r) => entries[r] = NoEntry
        /\ at \in FramePoints => ~quarantined
        /\ at \in {"dispatch", "rbDispatch"} => ~poisoned
        /\ PointFits(at, call[p].result, last[r], frames[r])

PointsInv == \A p \in Processes : ProcessFits(p)

Owned ==
    \A r \in Refs : entries[r] # NoEntry /\ ~durable(r) =>
        \E c \in SetCalls :
            call[c].ref = r /\ call[c].at \in {"bind", "guard", "prepare",
                                              "unreserve"}

\* The inductive invariant.
RecordsInv ==
    /\ TypeOK /\ LeaseInv
    /\ JournalInv /\ TailInv /\ EntriesInv /\ IdempotencyInv
    /\ PublishedInv /\ DownInv /\ PointsInv /\ Owned /\ AtMostOneFrame

-----------------------------------------------------------------------------
(* The resolution operators.                                                *)

Readings == [trusted : BOOLEAN, value : MaybeValue, generation : Nat]

\* Outcome o of mutation m: a document that keeps the state, invents no
\* answer, and whose unknown outcome excludes a side effect only when
\* nothing but the rollback intent was durable.
Verdict(m, o) ==
    /\ o.mutation \in Mutations
    /\ o.mutation.state = m.state
    /\ o.mutation.accepted # "nil" => m.accepted # "nil"
    /\ o.next \in (MutationStates \cup {Stay}) \
                    {"prepared", "dispatch_intent", "failed_no_contact",
                     "rollback_intent"}
    /\ o.next = "outcome_unknown" =>
         o.mutation.outcome.possible \/ m.state = "rollback_intent"

LEMMA ConflictVerdict ==
    ASSUME NEW m \in Mutations, NEW v \in MaybeValue
    PROVE  Verdict(m, persistConflict(m, v))
<1>1. CASE v \in {m.before, m.requested}
  <2>1. persistConflict(m, v) = persistCorrelatedContradiction(m, v)
    BY <1>1 DEF persistConflict
  <2> DEFINE u == [last |-> "reply_observed", possible |-> TRUE]
  <2>2. u \in OutcomeEvidence /\ u.possible
    BY DEF OutcomeEvidence, MutationStates
  <2> HIDE DEF u
  <2> DEFINE n0 == [m EXCEPT !.observed = v, !.conflict = NoValue,
                             !.applyVerified = NoValue]
             n1 == [n0 EXCEPT !.noEffect = NoValue, !.rejection = NoValue]
             n == [n1 EXCEPT !.outcome = u, !.error = "outcome_unknown"]
  <2>3. n0 \in Mutations /\ n0.state = m.state /\ n0.accepted = m.accepted
    BY DEF Mutations, MaybeValue
  <2>4. persistConflict(m, v) = [mutation |-> n, next |-> "outcome_unknown"]
    BY <2>1 DEF persistCorrelatedContradiction, Outcome, u
  <2> HIDE DEF n0
  <2>5. n1 \in Mutations /\ n1.state = m.state /\ n1.accepted = m.accepted
    BY <2>3 DEF Mutations, MaybeValue
  <2> HIDE DEF n1
  <2>6. /\ n \in Mutations /\ n.state = m.state
        /\ n.accepted = m.accepted /\ n.outcome = u
    BY <2>2, <2>5 DEF Mutations, ErrorCodes
  <2> HIDE DEF n
  <2> QED BY <2>2, <2>4, <2>6 DEF Verdict, MutationStates
<1>2. CASE v \notin {m.before, m.requested}
  BY <1>2 DEF persistConflict, Verdict, Outcome, Mutations, MutationStates,
              ErrorCodes, MaybeValue, Stay
<1> QED BY <1>1, <1>2

LEMMA AppliedVerdict ==
    ASSUME NEW m \in Mutations, NEW v \in MaybeValue
    PROVE  Verdict(m, persistApplied(m, v))
<1> QED BY DEF persistApplied, Verdict, Outcome, Mutations, MutationStates,
               ErrorCodes, MaybeValue, Stay

LEMMA CorrelatedVerdict ==
    ASSUME NEW m \in Mutations, NEW rd \in Readings
    PROVE  Verdict(m, resolveCorrelatedReadback(m, rd))
<1>0. rd.value \in MaybeValue
  BY DEF Readings
<1>1. CASE ~readbackIsTrustworthy(m, rd, FALSE)
  BY <1>1 DEF resolveCorrelatedReadback, Verdict, Outcome, Mutations,
              MutationStates, OutcomeEvidence, ErrorCodes, Stay
<1>2. CASE readbackIsTrustworthy(m, rd, FALSE)
  <2>1. Verdict(m, persistRejected(m, rd.value))
    BY <1>0 DEF persistRejected, Verdict, Outcome, Mutations,
                MutationStates, ErrorCodes, MaybeValue, Stay
  <2>2. resolveCorrelatedReadback(m, rd) \in
          {persistRejected(m, rd.value), persistConflict(m, rd.value),
           persistApplied(m, rd.value)}
    BY <1>2 DEF resolveCorrelatedReadback
  <2> QED BY <1>0, <2>1, <2>2, ConflictVerdict, AppliedVerdict
<1> QED BY <1>1, <1>2

LEMMA PossibleSendVerdict ==
    ASSUME NEW m \in Mutations, NEW rd \in Readings
    PROVE  Verdict(m, resolvePossibleSendReadback(m, rd))
<1> DEFINE b == [m EXCEPT !.generation = rd.generation, !.accepted = "nil",
                          !.observed = rd.value]
<1>0. rd.value \in MaybeValue /\ rd.generation \in Nat
  BY DEF Readings
<1>1. b \in Mutations /\ b.state = m.state /\ b.accepted = "nil"
      /\ b.before = m.before
  BY <1>0 DEF Mutations, Accepted
<1>2. CASE ~readbackIsTrustworthy(m, rd, TRUE)
  BY <1>2 DEF resolvePossibleSendReadback, Verdict, Outcome, Mutations,
              ErrorCodes, Stay
<1>3. CASE readbackIsTrustworthy(m, rd, TRUE)
  <2> DEFINE n == Outcome([b EXCEPT !.noEffect = m.before,
                                    !.applyVerified = NoValue,
                                    !.error = "no_effect"], "no_effect")
  <2> HIDE DEF b
  <2>1. Verdict(b, n)
    BY <1>1 DEF Verdict, Outcome, Mutations, MutationStates, ErrorCodes,
                MaybeValue, Stay
  <2>2. resolvePossibleSendReadback(m, rd) \in
          {n, persistApplied(b, rd.value), persistConflict(b, rd.value)}
    BY <1>3, Zenon DEF resolvePossibleSendReadback, b
  <2>3. Verdict(b, resolvePossibleSendReadback(m, rd))
    BY <1>0, <1>1, <2>1, <2>2, ConflictVerdict, AppliedVerdict
  <2> QED BY <1>1, <2>3 DEF Verdict
<1> QED BY <1>2, <1>3

LEMMA RolledBackVerdict ==
    ASSUME NEW m \in Mutations, NEW v \in MaybeValue, NEW a \in Accepted
    PROVE  Verdict(m, persistRolledBack(m, v, a))
<1> DEFINE k == [state |-> "rolled_back", accepted |-> a, observed |-> v,
                 error |-> "none", verified |-> v]
           u == IF m.accepted # "nil" THEN NoOutcome ELSE m.outcome
<1>1. k \in Rollbacks
  BY DEF Rollbacks, MutationStates, ErrorCodes
<1>2. u \in OutcomeEvidence
  BY DEF Mutations, NoOutcome, OutcomeEvidence
<1> HIDE DEF k
<1>3. persistRolledBack(m, v, a) =
        Outcome([m EXCEPT !.rollback = k, !.outcome = u, !.error = "none"],
                "rolled_back")
  BY DEF persistRolledBack, k, Mutations
<1> DEFINE n == [m EXCEPT !.rollback = k, !.outcome = u, !.error = "none"]
<1> HIDE DEF u
<1>4. n \in Mutations /\ n.state = m.state /\ n.accepted = m.accepted
  BY <1>1, <1>2 DEF Mutations, ErrorCodes
<1> HIDE DEF n
<1>5. persistRolledBack(m, v, a) = [mutation |-> n, next |-> "rolled_back"]
  BY <1>3 DEF Outcome, n
<1> QED BY <1>4, <1>5 DEF Verdict, MutationStates

LEMMA RollbackUnknownVerdict ==
    ASSUME NEW m \in Mutations, m.state # Reserved
    PROVE  Verdict(m, persistRollbackUnknown(m))
<1>1. CASE m.state = "outcome_unknown"
  BY <1>1 DEF persistRollbackUnknown, Verdict, Outcome, Stay
<1>2. CASE m.state # "outcome_unknown"
  <2> DEFINE k == [m.rollback EXCEPT !.error = "rollback_failed"]
             u == [last |-> m.state, possible |-> m.state # "rollback_intent"]
  <2>1. k \in Rollbacks
    BY DEF Rollbacks, Mutations, ErrorCodes
  <2>2. u \in OutcomeEvidence /\ (u.possible \/ m.state = "rollback_intent")
    BY DEF OutcomeEvidence, Mutations
  <2>3. persistRollbackUnknown(m) =
          Outcome([m EXCEPT !.rollback = k, !.outcome = u,
                            !.error = "rollback_failed"], "outcome_unknown")
    BY <1>2 DEF persistRollbackUnknown, prepareRollbackUnknown, Mutations
  <2> HIDE DEF k, u
  <2> DEFINE n == [m EXCEPT !.rollback = k, !.outcome = u,
                            !.error = "rollback_failed"]
  <2>4. /\ n \in Mutations /\ n.state = m.state
        /\ n.accepted = m.accepted /\ n.outcome = u
    BY <2>1, <2>2 DEF Mutations, ErrorCodes
  <2>5. persistRollbackUnknown(m) = [mutation |-> n,
                                     next |-> "outcome_unknown"]
    BY <2>3 DEF Outcome
  <2> HIDE DEF n
  <2> QED BY <2>2, <2>4, <2>5 DEF Verdict, MutationStates
<1> QED BY <1>1, <1>2

\* A readback may rebind the mutation to the current generation.
LEMMA Rebound ==
    ASSUME NEW m \in Mutations, NEW rd \in Readings
    PROVE  LET b == [m EXCEPT !.generation = rd.generation] IN
           /\ b \in Mutations /\ b.state = m.state
           /\ b.accepted = m.accepted
           /\ \A o : Verdict(b, o) => Verdict(m, o)
<1> DEFINE b == [m EXCEPT !.generation = rd.generation]
<1>1. b \in Mutations /\ b.state = m.state /\ b.accepted = m.accepted
  BY DEF Mutations, Readings
<1> QED BY <1>1 DEF Verdict

LEMMA RollbackStepVerdict ==
    ASSUME NEW m \in Mutations,
           NEW s \in {"rollback_dispatch_intent", "rollback_reply_observed",
                      "rollback_verify_pending"}
    PROVE  Verdict(m, rollbackStep(m, s))
<1> DEFINE k == [m.rollback EXCEPT !.state = s]
           n == [m EXCEPT !.rollback = k]
<1>1. k \in Rollbacks
  BY DEF Rollbacks, Mutations, MutationStates
<1>2. rollbackStep(m, s) = [mutation |-> n, next |-> s]
  BY DEF rollbackStep, Outcome
<1> HIDE DEF k
<1>3. n \in Mutations /\ n.state = m.state /\ n.accepted = m.accepted
  BY <1>1 DEF Mutations
<1> HIDE DEF n
<1> QED BY <1>2, <1>3 DEF Verdict, MutationStates

LEMMA ContinueRollbackVerdict ==
    ASSUME NEW m \in Mutations, m.state # Reserved, NEW rd \in Readings
    PROVE  Verdict(m, continueRollbackFromIntent(m, rd))
<1> DEFINE b == [m EXCEPT !.generation = rd.generation]
<1>0. rd.value \in MaybeValue /\ "nil" \in Accepted
  BY DEF Readings, Accepted
<1>1. b \in Mutations /\ \A o : Verdict(b, o) => Verdict(m, o)
  BY Rebound
<1> HIDE DEF b
<1>2. continueRollbackFromIntent(m, rd) \in
        {persistRollbackUnknown(m), persistRolledBack(b, rd.value, "nil"),
         persistConflict(b, rd.value),
         rollbackStep(b, "rollback_dispatch_intent")}
  BY Zenon DEF continueRollbackFromIntent, b
<1>3. Verdict(b, persistRolledBack(b, rd.value, "nil"))
  BY <1>0, <1>1, RolledBackVerdict
<1>4. Verdict(b, persistConflict(b, rd.value))
  BY <1>0, <1>1, ConflictVerdict
<1>5. Verdict(b, rollbackStep(b, "rollback_dispatch_intent"))
  BY <1>1, RollbackStepVerdict
<1> QED BY <1>1, <1>2, <1>3, <1>4, <1>5, RollbackUnknownVerdict

LEMMA RollbackReplyVerdict ==
    ASSUME NEW m \in Mutations, m.state # Reserved, NEW rd \in Readings
    PROVE  /\ Verdict(m, resolveRollbackReply(m, rd))
           /\ Verdict(m, recoverRollbackReply(m, rd))
<1> DEFINE a == m.rollback.accepted
<1>0. rd.value \in MaybeValue /\ a \in Accepted
  BY DEF Readings, Mutations, Rollbacks
<1> DEFINE os == {persistRollbackUnknown(m),
                  persistRolledBack(m, rd.value, a),
                  persistConflict(m, rd.value)}
<1>1. resolveRollbackReply(m, rd) \in os
  BY Zenon DEF resolveRollbackReply
<1>2. recoverRollbackReply(m, rd) \in os
  BY Zenon DEF recoverRollbackReply
<1>3. Verdict(m, persistRolledBack(m, rd.value, a))
  BY <1>0, RolledBackVerdict
<1> QED BY <1>0, <1>1, <1>2, <1>3, ConflictVerdict, RollbackUnknownVerdict

LEMMA UncertainRollbackVerdict ==
    ASSUME NEW m \in Mutations, m.state # Reserved, NEW rd \in Readings
    PROVE  Verdict(m, resolveUncertainRollbackReadback(m, rd))
<1> DEFINE b == [m EXCEPT !.generation = rd.generation]
<1>0. rd.value \in MaybeValue /\ "nil" \in Accepted
  BY DEF Readings, Accepted
<1>1. /\ b \in Mutations /\ b.state = m.state
      /\ \A o : Verdict(b, o) => Verdict(m, o)
  BY Rebound
<1> HIDE DEF b
<1>2. resolveUncertainRollbackReadback(m, rd) \in
        {persistRollbackUnknown(m), persistRolledBack(b, rd.value, "nil"),
         persistConflict(b, rd.value), persistRollbackUnknown(b)}
  BY Zenon DEF resolveUncertainRollbackReadback, b
<1>3. Verdict(b, persistRolledBack(b, rd.value, "nil"))
  BY <1>0, <1>1, RolledBackVerdict
<1>4. Verdict(b, persistConflict(b, rd.value))
  BY <1>0, <1>1, ConflictVerdict
<1>5. Verdict(b, persistRollbackUnknown(b))
  BY <1>1, RollbackUnknownVerdict
<1> QED BY <1>1, <1>2, <1>3, <1>4, <1>5, RollbackUnknownVerdict

LEMMA PossibleRollbackSendVerdict ==
    ASSUME NEW m \in Mutations, m.state = "rollback_dispatch_intent"
    PROVE  Verdict(m, possibleRollbackSend(m))
<1> DEFINE k == [m.rollback EXCEPT !.accepted = "nil"]
           n == [m EXCEPT !.rollback = k]
<1>1. k \in Rollbacks
  BY DEF Rollbacks, Mutations, Accepted
<1> HIDE DEF k
<1>2. n \in Mutations /\ n.state = m.state /\ n.accepted = m.accepted
  BY <1>1 DEF Mutations
<1>3. possibleRollbackSend(m) = Outcome(prepareRollbackUnknown(n),
                                        "outcome_unknown")
  BY DEF possibleRollbackSend, k
<1> HIDE DEF n
<1>4. possibleRollbackSend(m) = persistRollbackUnknown(n)
  BY <1>2, <1>3 DEF persistRollbackUnknown
<1>5. Verdict(n, persistRollbackUnknown(n))
  BY <1>2, RollbackUnknownVerdict DEF Reserved
<1> QED BY <1>2, <1>4, <1>5 DEF Verdict

LEMMA PossibleSendIsVerdict ==
    ASSUME NEW m \in Mutations
    PROVE  Verdict(m, possibleSend(m))
<1> DEFINE u == [last |-> "dispatch_intent", possible |-> TRUE]
           n == [m EXCEPT !.accepted = "nil", !.outcome = u,
                          !.error = "outcome_unknown"]
<1>1. u \in OutcomeEvidence /\ u.possible
  BY DEF OutcomeEvidence, MutationStates
<1>2. possibleSend(m) = [mutation |-> n, next |-> "outcome_unknown"]
  BY DEF possibleSend, Outcome
<1> HIDE DEF u
<1>3. /\ n \in Mutations /\ n.state = m.state
      /\ n.accepted = "nil" /\ n.outcome = u
  BY <1>1 DEF Mutations, ErrorCodes, Accepted
<1> HIDE DEF n
<1> QED BY <1>1, <1>2, <1>3 DEF Verdict, MutationStates

-----------------------------------------------------------------------------
(* Facts about a process that holds the lease.                              *)

\* Reservations of other mutations are durable: their owner would hold the
\* lease as well.
LEMMA OthersDurable ==
    ASSUME RecordsInv, NEW p \in Processes, leased(p),
           NEW r \in Refs, r # call[p].ref, entries[r] # NoEntry
    PROVE  durable(r)
<1> SUFFICES ASSUME ~durable(r) PROVE FALSE
  OBVIOUS
<1>1. PICK c \in SetCalls :
        call[c].ref = r /\ call[c].at \in {"bind", "guard", "prepare",
                                          "unreserve"}
  BY DEF RecordsInv, Owned
<1>2. c \in Processes /\ leased(c)
  BY <1>1 DEF Processes, leased, Leased
<1> QED BY <1>1, <1>2 DEF RecordsInv, LeaseInv, WriterExclusive

\* Whoever holds the lease does so in a running coordinator.
LEMMA HolderRuns ==
    ASSUME RecordsInv, NEW p \in Processes, leased(p)
    PROVE  phase \in {"running", "closed"}
<1>1. writer
  BY DEF RecordsInv, LeaseInv, WriterExclusive
<1> QED BY <1>1 DEF RecordsInv, DownInv, TypeOK

\* The other processes need not be looked at.
LEMMA OthersFit ==
    ASSUME LeaseInv, NEW p \in Processes, leased(p) \/ ~writer,
           Others(p), ProcessFits(p)'
    PROVE  PointsInv'
<1> SUFFICES ASSUME NEW q \in Processes, q # p PROVE ProcessFits(q)'
  BY DEF PointsInv
<1>1. ~leased(q)
  BY DEF LeaseInv, WriterExclusive
<1>2. ~leased(q)'
  BY <1>1 DEF Others, leased
<1> QED BY <1>2 DEF ProcessFits

LEMMA GotoKeeps ==
    ASSUME CallTypes, NEW p \in Processes, NEW x, Goto(p, x)
    PROVE  /\ call'[p].ref = call[p].ref
           /\ call'[p].token = call[p].token
           /\ call'[p].result = call[p].result
<1> QED BY DEF CallTypes, Locals, Goto

\* The record that transition() appends.
LEMMA RecordFields ==
    ASSUME NEW e \in Entries, NEW m \in Mutations, NEW s \in MutationStates
    PROVE  LET x == recordOf(e, m, s) IN
           /\ x \in Entries
           /\ x.identity = e.identity /\ x.request = e.request
           /\ x.mutation.state = s /\ x.mutation.accepted = m.accepted
           /\ x.mutation.outcome = m.outcome
           /\ x.mutation.rollback = m.rollback
<1> DEFINE n == Audited(m, s)
<1>1. PICK a \in BOOLEAN : n = [m EXCEPT !.state = s, !.audit = a]
  <2>1. n = [m EXCEPT !.state = s,
               !.audit = m.audit /\ IF m.state = Reserved
                             THEN s \in validInitialMutationState
                             ELSE s \in validMutationTransition[m.state]]
    BY DEF Audited
  <2> QED BY <2>1, Zenon
<1> HIDE DEF n
<1>2. /\ n \in Mutations /\ n.state = s /\ n.accepted = m.accepted
      /\ n.outcome = m.outcome /\ n.rollback = m.rollback
  BY <1>1 DEF Mutations
<1>3. recordOf(e, m, s) = [e EXCEPT !.mutation = n]
  BY DEF recordOf, n
<1> QED BY <1>2, <1>3 DEF Entries

\* A working copy with another document.
LEMMA EntryFields ==
    ASSUME NEW e \in Entries, NEW m \in Mutations
    PROVE  LET x == [e EXCEPT !.mutation = m] IN
           /\ x \in Entries /\ x.mutation = m
           /\ x.identity = e.identity /\ x.request = e.request
<1> QED BY DEF Entries

\* What the caller of transition() has assigned to the document of the
\* mutation with frames f whose working copy is e.
Assigned(e, m, f) ==
    /\ m \in Mutations
    /\ m.state = e.mutation.state
    /\ m.accepted # "nil" => f.forward = 1

\* The record that transition() is to append says the truth.
Truthful(m, s, f) ==
    /\ s \in MutationStates
    /\ s \in {"prepared", "failed_no_contact"} => f.forward = 0
    /\ s = "outcome_unknown" /\ ~m.outcome.possible => f.rollback = 0

\* Where the holder of the lease may go when nothing was appended.
MayLeave(p, b) ==
    /\ b \in {"unreserve", "release"}
    /\ durable(call[p].ref) \/ (b = "unreserve" /\ p \in SetCalls)

\* An append failed, or none was tried: only the working copy has changed,
\* and the failed record may be found after a restart.
LEMMA NothingAppended ==
    ASSUME RecordsInv, LeaseInv', NEW p \in Processes, leased(p),
           entries[call[p].ref] # NoEntry, call[p].ref \in Refs,
           NEW m, Assigned(entries[call[p].ref], m, frames[call[p].ref]),
           entries' = [entries EXCEPT ![call[p].ref].mutation = m],
           \/ UNCHANGED <<tail, poisoned>>
           \/ \E s : /\ Truthful(m, s, frames[call[p].ref])
                     /\ tail' = recordOf(entries[call[p].ref], m, s)
                     /\ poisoned' = TRUE,
           NEW b, MayLeave(p, b), Goto(p, b),
           UNCHANGED <<phase, last, bound, readable, idempotency,
                       quarantined, timers, writer, closed, remote>>
    PROVE  RecordsInv'
<1> DEFINE r == call[p].ref
           e == entries[r]
           x == [e EXCEPT !.mutation = m]
<1>1. e \in Entries /\ m \in Mutations
  BY DEF RecordsInv, TypeOK, Assigned
<1>2. /\ x \in Entries /\ x.mutation = m
      /\ x.identity = e.identity /\ x.request = e.request
  BY <1>1, EntryFields
<1>3. entries' = [entries EXCEPT ![r] = x]
  BY DEF RecordsInv, TypeOK
<1>4. /\ entries'[r] = x
      /\ \A r2 \in Refs \ {r} : entries'[r2] = entries[r2]
      /\ entries' \in [Refs -> Entries \cup {NoEntry}]
  BY <1>2, <1>3 DEF RecordsInv, TypeOK
<1>5. x # NoEntry /\ UNCHANGED <<frames, device, generation>>
  BY <1>2, NoEntryAssumption DEF remote
<1>6. b \in Points /\ b \in Leased
  BY DEF MayLeave, Points, Leased
<1>7. /\ call'[p].at = b /\ call'[p].ref = r /\ Others(p)
      /\ call'[p].result = call[p].result /\ CallTypes'
  <2>1. CallTypes
    BY DEF RecordsInv, LeaseInv
  <2> QED BY <1>6, <2>1, GotoMoves, GotoKeeps
<1> HIDE DEF x
<1>8. TailInv' /\ poisoned' \in BOOLEAN /\ tail' \in Entries \cup {NoEntry}
  <2>1. CASE UNCHANGED <<tail, poisoned>>
    BY <1>5, <2>1 DEF RecordsInv, TypeOK, TailInv, durable
  <2>2. ASSUME NEW s, Truthful(m, s, frames[r]),
               tail' = recordOf(e, m, s), poisoned' = TRUE
        PROVE  TailInv' /\ poisoned' \in BOOLEAN
               /\ tail' \in Entries \cup {NoEntry}
    <3>1. s \in MutationStates
      BY <2>2 DEF Truthful
    <3>2. /\ tail' \in Entries
          /\ tail'.identity = e.identity /\ tail'.request = e.request
          /\ tail'.mutation.state = s /\ tail'.mutation.accepted = m.accepted
          /\ tail'.mutation.outcome = m.outcome
      BY <1>1, <2>2, <3>1, RecordFields
    <3>3. /\ e.request.ref = r
          /\ ~durable(r) => e.identity = setIdentityOf(r)
      BY DEF RecordsInv, EntriesInv
    <3>4. Evidence(tail'.mutation, frames[r])
      BY <2>2, <3>2 DEF Evidence, Truthful, Assigned
    <3> QED BY <1>5, <2>2, <3>1, <3>2, <3>3, <3>4
            DEF TailInv, RecordOf, durable
  <2> QED BY <2>1, <2>2
<1>9. TypeOK'
  BY <1>4, <1>5, <1>7, <1>8 DEF RecordsInv, TypeOK, CallTypes, Locals
<1>10. JournalInv' /\ AtMostOneFrame'
  BY <1>5 DEF RecordsInv, JournalInv, durable, AtMostOneFrame
<1>11. EntriesInv'
  <2>1. /\ x.request.ref = r
        /\ x.mutation.accepted # "nil" => frames[r].forward = 1
        /\ durable(r) => x.mutation.state = last[r].mutation.state
        /\ ~durable(r) => /\ x.mutation.state = Reserved
                          /\ x.identity = setIdentityOf(r)
    BY <1>2 DEF RecordsInv, EntriesInv, Assigned
  <2> QED BY <1>4, <1>5, <2>1 DEF RecordsInv, EntriesInv, durable
<1>12. IdempotencyInv'
  BY <1>4, <1>5 DEF RecordsInv, IdempotencyInv, durable, TypeOK, Bindings
<1>13. PublishedInv' /\ DownInv'
  <2>1. phase \in {"running", "closed"}
    BY HolderRuns
  <2>2. quarantines(last)' = quarantines(last)
    BY DEF quarantines
  <2> QED BY <1>4, <1>5, <2>1, <2>2 DEF RecordsInv, PublishedInv, DownInv, durable
<1>14. PointsInv'
  <2>1. ProcessFits(p)'
    BY <1>4, <1>5, <1>6, <1>7 DEF ProcessFits, PointFits, MayLeave, SetPoints,
         UndurablePoints, DurablePoints, FramePoints, durable
  <2> QED BY <1>7, <2>1, OthersFit DEF RecordsInv
<1>15. Owned'
  <2> SUFFICES ASSUME NEW r2 \in Refs, entries'[r2] # NoEntry, ~durable(r2)'
               PROVE  \E c \in SetCalls :
                        /\ call'[c].ref = r2
                        /\ call'[c].at \in {"bind", "guard", "prepare",
                                            "unreserve"}
    BY DEF Owned
  <2>1. r2 = r
    BY <1>4, OthersDurable DEF durable
  <2> QED BY <1>7, <2>1 DEF MayLeave, durable
<1> QED BY <1>8, <1>9, <1>10, <1>11, <1>12, <1>13, <1>14, <1>15 DEF RecordsInv

\* What the point a asks of the record (of state s) that was just appended.
MayGoOn(p, a, s, f) ==
    /\ a \in DurablePoints \cup {"unreserve", "release"}
    /\ a \notin {"written", "rbWritten"}
    /\ a \in SetPoints => p \in SetCalls /\ call[p].ref = p.key
    /\ a \in FramePoints => ~quarantined /\ s \notin {"conflict",
                                                     "outcome_unknown"}
    /\ a = "intent" => s = "prepared"
    /\ a = "dispatch" => s = "dispatch_intent" /\ f.forward = 0
    /\ a = "rbRead" => s = "rollback_intent"
    /\ a = "rbDispatch" => s = "rollback_dispatch_intent" /\ f.rollback = 0

\* The record is durable and published.  A rollback_intent starts the count
\* of rollback frames.
LEMMA Appended ==
    ASSUME RecordsInv, LeaseInv', NEW p \in Processes, leased(p),
           entries[call[p].ref] # NoEntry, call[p].ref \in Refs,
           NEW m, Assigned(entries[call[p].ref], m, frames[call[p].ref]),
           NEW s, Truthful(m, s, frames[call[p].ref]),
           ~poisoned, UNCHANGED <<tail, poisoned>>,
           appendDurably(call[p].ref, recordOf(entries[call[p].ref], m, s)),
           entries' = [entries EXCEPT ![call[p].ref] =
                            recordOf(entries[call[p].ref], m, s)],
           idempotency' = [idempotency EXCEPT
                ![recordOf(entries[call[p].ref], m, s).identity] =
                    recordOf(entries[call[p].ref], m, s).request],
           quarantined' = quarantines(last'), timers' \subseteq Timers,
           NEW a, MayGoOn(p, a, s, frames[call[p].ref]), Goto(p, a),
           frames' \in {frames, [frames EXCEPT ![call[p].ref].rollback = 0]},
           s = "rollback_intent" => frames'[call[p].ref].rollback = 0,
           UNCHANGED <<phase, writer, closed, device, generation>>
    PROVE  RecordsInv'
<1> DEFINE r == call[p].ref
           e == entries[r]
           x == recordOf(e, m, s)
<1>1. e \in Entries /\ m \in Mutations /\ s \in MutationStates
  BY DEF RecordsInv, TypeOK, Assigned, Truthful
<1>2. /\ x \in Entries
      /\ x.identity = e.identity /\ x.request = e.request
      /\ x.mutation.state = s /\ x.mutation.accepted = m.accepted
      /\ x.mutation.outcome = m.outcome
  BY <1>1, RecordFields
<1> HIDE DEF x
<1>3. x # NoEntry /\ x.request # NoEntry
      /\ x.identity \in Identities /\ x.request \in Bindings
  BY <1>2, NoEntryAssumption DEF Entries
<1>4. /\ e.request.ref = r
      /\ ~durable(r) => e.identity = setIdentityOf(r)
  BY DEF RecordsInv, EntriesInv
<1>5. /\ entries'[r] = x
      /\ \A r2 \in Refs \ {r} : entries'[r2] = entries[r2]
      /\ entries' \in [Refs -> Entries \cup {NoEntry}]
  BY <1>2 DEF RecordsInv, TypeOK, x
<1>6. /\ last'[r] = x
      /\ \A r2 \in Refs \ {r} : last'[r2] = last[r2]
      /\ last' \in [Refs -> Entries \cup {NoEntry}]
  BY <1>2 DEF RecordsInv, TypeOK, x, appendDurably
<1>7. /\ bound'[x.identity] = x.request
      /\ \A i \in Identities \ {x.identity} : bound'[i] = bound[i]
      /\ bound' \in [Identities -> Bindings \cup {NoEntry}]
  BY <1>2, <1>3 DEF RecordsInv, TypeOK, x, appendDurably
<1>8. /\ idempotency'[x.identity] = x.request
      /\ \A i \in Identities \ {x.identity} :
            idempotency'[i] = idempotency[i]
      /\ idempotency' \in [Identities -> Bindings \cup {NoEntry}]
  BY <1>2, <1>3 DEF RecordsInv, TypeOK, x
<1>9. /\ frames'[r].forward = frames[r].forward
      /\ frames'[r].rollback \in {0, frames[r].rollback}
      /\ \A r2 \in Refs \ {r} : frames'[r2] = frames[r2]
      /\ frames' \in [Refs -> Frames]
  <2>1. frames \in [Refs -> Frames] /\ frames[r] \in Frames
    BY DEF RecordsInv, TypeOK, Frames
  <2>2. CASE frames' = frames
    BY <2>1, <2>2
  <2>3. CASE frames' = [frames EXCEPT ![r].rollback = 0]
    <3>1. [frames[r] EXCEPT !.rollback = 0] \in Frames
          /\ [frames[r] EXCEPT !.rollback = 0].forward = frames[r].forward
          /\ [frames[r] EXCEPT !.rollback = 0].rollback = 0
      BY <2>1 DEF Frames
    <3> QED BY <2>1, <2>3, <3>1
  <2> QED BY <2>2, <2>3
<1>10. a \in Points /\ a \in Leased
  BY DEF MayGoOn, Points, Leased, DurablePoints
<1>11. /\ call'[p].at = a /\ call'[p].ref = r /\ Others(p)
       /\ call'[p].result = call[p].result /\ CallTypes'
  <2>1. CallTypes
    BY DEF RecordsInv, LeaseInv
  <2> QED BY <1>10, <2>1, GotoMoves, GotoKeeps
<1>12. TypeOK'
  <2>1. readable' \in BOOLEAN /\ quarantined' \in BOOLEAN
    BY Zenon DEF appendDurably, quarantines
  <2> QED BY <1>5, <1>6, <1>7, <1>8, <1>9, <1>11, <2>1
          DEF RecordsInv, TypeOK, CallTypes, Locals, Frames
<1>13. \A r2 \in Refs : last'[r2] # NoEntry <=> r2 = r \/ durable(r2)
  BY <1>3, <1>6 DEF durable
<1>14. JournalInv'
  <2>1. RecordOf(r, last'[r], frames'[r])
    BY <1>1, <1>2, <1>4, <1>6, <1>9 DEF RecordOf, Evidence, Truthful, Assigned
  <2>2. bound'[setIdentityOf(r)] # NoEntry
    <3>1. CASE durable(r)
      BY <1>3, <1>7, <3>1 DEF RecordsInv, JournalInv, setIdentityOf, Identities
    <3>2. CASE ~durable(r)
      BY <1>2, <1>3, <1>4, <1>7, <3>2
    <3> QED BY <3>1, <3>2
  <2>3. \A r2 \in Refs \ {r} : bound'[setIdentityOf(r2)] # NoEntry
                               \/ ~durable(r2)
    BY <1>3, <1>7 DEF RecordsInv, JournalInv, setIdentityOf, Identities
  <2>4. \A r2 \in Refs : last'[r2] # NoEntry =>
         /\ RecordOf(r2, last'[r2], frames'[r2])
         /\ last'[r2].mutation.state = "rollback_intent" =>
              frames'[r2].rollback = 0
         /\ bound'[setIdentityOf(r2)] # NoEntry
    BY <1>2, <1>6, <1>9, <1>13, <2>1, <2>2, <2>3 DEF RecordsInv, JournalInv
  <2>5. \A r2 \in Refs : last'[r2] = NoEntry => frames'[r2].forward = 0
    BY <1>9, <1>13 DEF RecordsInv, JournalInv
  <2>6. \A i \in Identities : bound'[i] # NoEntry =>
                               last'[bound'[i].ref] # NoEntry
    BY <1>2, <1>3, <1>4, <1>6, <1>7 DEF RecordsInv, JournalInv, durable,
         TypeOK, Bindings
  <2> QED BY <2>4, <2>5, <2>6 DEF JournalInv, durable
<1>15. TailInv'
  <2>1. tail' = NoEntry
    BY DEF RecordsInv, TailInv
  <2> QED BY <2>1 DEF TailInv
<1>16. EntriesInv'
  <2>1. /\ x.request.ref = r
        /\ x.mutation.accepted # "nil" => frames'[r].forward = 1
        /\ x.mutation.state = last'[r].mutation.state
    BY <1>2, <1>4, <1>6, <1>9 DEF Assigned
  <2>2. ASSUME NEW r2 \in Refs, r2 # r, entries'[r2] # NoEntry
        PROVE  /\ entries'[r2] = entries[r2] /\ last'[r2] = last[r2]
               /\ frames'[r2] = frames[r2]
    BY <1>5, <1>6, <1>9, <2>2
  <2> QED BY <1>5, <1>13, <2>1, <2>2 DEF RecordsInv, EntriesInv, durable
<1>17. IdempotencyInv'
  <2> SUFFICES ASSUME NEW i \in Identities, idempotency'[i] # NoEntry
               PROVE  /\ entries'[idempotency'[i].ref] # NoEntry
                      /\ last'[idempotency'[i].ref] = NoEntry =>
                           i = setIdentityOf(idempotency'[i].ref)
    BY DEF IdempotencyInv, durable
  <2>1. CASE i = x.identity
    <3>1. idempotency'[i].ref = r
      BY <1>2, <1>4, <1>8, <2>1
    <3> QED BY <1>3, <1>5, <1>6, <3>1
  <2>2. CASE i # x.identity
    <3>1. idempotency'[i] = idempotency[i] /\ idempotency[i].ref \in Refs
      BY <1>8, <2>2 DEF RecordsInv, TypeOK, Bindings
    <3> QED BY <1>3, <1>5, <1>13, <3>1 DEF RecordsInv, IdempotencyInv
  <2> QED BY <2>1, <2>2
<1>18. PublishedInv' /\ DownInv'
  <2>1. phase \in {"running", "closed"}
    BY HolderRuns
  <2>2. quarantined' = quarantines(last)'
    BY DEF quarantines
  <2>3. \A r2 \in Refs : last'[r2] # NoEntry => entries'[r2] # NoEntry
    BY <1>3, <1>5, <1>13, <2>1 DEF RecordsInv, PublishedInv
  <2>4. idempotency'[setIdentityOf(r)] # NoEntry
    <3>1. CASE durable(r)
      BY <1>3, <1>8, <2>1, <3>1 DEF RecordsInv, PublishedInv, setIdentityOf,
         Identities
    <3>2. CASE ~durable(r)
      BY <1>2, <1>3, <1>4, <1>8, <3>2
    <3> QED BY <3>1, <3>2
  <2>5. \A r2 \in Refs \ {r} : durable(r2) =>
                               idempotency'[setIdentityOf(r2)] # NoEntry
    BY <1>3, <1>8, <2>1 DEF RecordsInv, PublishedInv, setIdentityOf,
         Identities
  <2> QED BY <1>13, <2>1, <2>2, <2>3, <2>4, <2>5 DEF PublishedInv, DownInv,
         durable
<1>19. PointsInv'
  <2>1. a \in FramePoints => ~quarantined'
    <3> SUFFICES ASSUME a \in FramePoints, quarantined' PROVE FALSE
      OBVIOUS
    <3>1. PICK r2 \in Refs : /\ last'[r2] # NoEntry
                /\ rawMutationStateQuarantinesWrites(last'[r2].mutation)
      BY DEF quarantines
    <3>2. r2 # r
      BY <1>2, <1>6, <3>1 DEF MayGoOn, rawMutationStateQuarantinesWrites
    <3>3. quarantines(last)
      BY <1>6, <3>1, <3>2 DEF quarantines
    <3> QED BY <3>3, HolderRuns DEF RecordsInv, PublishedInv, MayGoOn
  <2>2. PointFits(a, call[p].result, x, frames'[r])
    BY <1>2, <1>3, <1>9 DEF PointFits, MayGoOn, UndurablePoints,
         DurablePoints
  <2>3. ProcessFits(p)'
    BY <1>3, <1>5, <1>6, <1>10, <1>11, <2>1, <2>2 DEF ProcessFits, MayGoOn,
         durable
  <2> QED BY <1>11, <2>3, OthersFit DEF RecordsInv
<1>20. Owned' /\ AtMostOneFrame'
  <2>1. Owned'
    BY <1>5, <1>13, OthersDurable DEF Owned, durable
  <2> QED BY <1>9, <2>1 DEF RecordsInv, AtMostOneFrame
<1> QED BY <1>12, <1>14, <1>15, <1>16, <1>17, <1>18, <1>19, <1>20
        DEF RecordsInv

-----------------------------------------------------------------------------
(* transition() and the persist functions.                                  *)

LEMMA TransitionPreserves ==
    ASSUME RecordsInv, LeaseInv', NEW p \in Processes, leased(p),
           entries[call[p].ref] # NoEntry, call[p].ref \in Refs,
           NEW o, NEW a, NEW b, a # b \/ o.next # "rollback_intent",
           transition(p, o, a, b),
           Assigned(entries[call[p].ref], o.mutation, frames[call[p].ref]),
           Truthful(o.mutation, o.next, frames[call[p].ref]),
           MayGoOn(p, a, o.next, frames[call[p].ref]), MayLeave(p, b),
           frames' = IF o.next = "rollback_intent" /\ call'[p].at = a
                     THEN [frames EXCEPT ![call[p].ref].rollback = 0]
                     ELSE frames,
           UNCHANGED <<phase, writer, closed, device, generation>>
    PROVE  RecordsInv'
<1> DEFINE r == call[p].ref
           x == recordOf(entries[r], o.mutation, o.next)
<1>0. /\ CallTypes /\ a \in Points /\ b \in Points
      /\ frames[r] \in Frames /\ frames \in [Refs -> Frames]
  BY DEF RecordsInv, LeaseInv, MayGoOn, MayLeave, Points, Leased,
         DurablePoints, TypeOK, Frames
<1>1. CASE /\ ~poisoned /\ appendDurably(r, x)
           /\ entries' = [entries EXCEPT ![r] = x]
           /\ idempotency' = [idempotency EXCEPT ![x.identity] = x.request]
           /\ quarantined' = quarantines(last')
           /\ timers' = CASE o.next = "probe_active" ->
                            scheduled(probeTimer(r), timers, quarantined')
                      [] o.next = "rolled_back" ->
                            timers \ {probeTimer(r)}
                      [] OTHER -> timers
           /\ Goto(p, a)
           /\ UNCHANGED <<tail, poisoned>>
  <2>1. timers' \subseteq Timers
    <3>1. probeTimer(r) \in Timers /\ timers \subseteq Timers
      BY DEF probeTimer, Timers, RecordsInv, TypeOK
    <3> QED BY <1>1, <3>1 DEF scheduled
  <2>2. call'[p].at = a
    BY <1>0, <1>1, GotoMoves
  <2>3. /\ frames' \in {frames, [frames EXCEPT ![r].rollback = 0]}
        /\ o.next = "rollback_intent" => frames'[r].rollback = 0
    BY <1>0, <2>2 DEF Frames
  <2> QED BY <1>1, <2>1, <2>3, Appended
<1>2. CASE /\ entries' = [entries EXCEPT ![r].mutation = o.mutation]
           /\ \/ UNCHANGED <<tail, poisoned>>
              \/ ~poisoned /\ poisoned' = TRUE /\ tail' = x
           /\ Goto(p, b)
           /\ UNCHANGED <<last, bound, readable, idempotency, quarantined,
                          timers>>
  <2>1. call'[p].at = b
    BY <1>0, <1>2, GotoMoves
  <2>2. UNCHANGED remote
    BY <2>1 DEF remote
  <2> QED BY <1>2, <2>2, NothingAppended
<1> QED BY <1>1, <1>2 DEF transition

\* A readback never makes a forward frame, or a new rollback, out of nothing.
LEMMA PersistPreserves ==
    ASSUME RecordsInv, LeaseInv', NEW p \in Processes, leased(p),
           entries[call[p].ref] # NoEntry, durable(call[p].ref),
           call[p].ref \in Refs,
           NEW o, NEW a, NEW b, persist(p, o, a, b),
           Verdict(entries[call[p].ref].mutation, o),
           o.next # Stay => MayGoOn(p, a, o.next, frames[call[p].ref]),
           b \in {"unreserve", "release"},
           UNCHANGED <<phase, writer, closed, remote>>
    PROVE  RecordsInv'
<1> DEFINE r == call[p].ref
           m == entries[r].mutation
<1>1. /\ m.state = last[r].mutation.state
      /\ m.accepted # "nil" => frames[r].forward = 1
      /\ last[r].mutation.state = "rollback_intent" =>
            frames[r].rollback = 0
  BY DEF RecordsInv, EntriesInv, JournalInv
<1>2. Assigned(entries[r], o.mutation, frames[r])
  BY <1>1 DEF Verdict, Assigned
<1>3. o.next # Stay => Truthful(o.mutation, o.next, frames[r])
                       /\ o.next # "rollback_intent"
  BY <1>1 DEF Verdict, Truthful
<1>4. MayLeave(p, b) /\ UNCHANGED <<frames, device, generation>>
  BY DEF MayLeave, remote
<1>5. CASE o.next # Stay /\ transition(p, o, a, b)
  BY <1>2, <1>3, <1>4, <1>5, TransitionPreserves
<1>6. CASE /\ entries' = [entries EXCEPT ![r].mutation = o.mutation]
           /\ Goto(p, b)
           /\ UNCHANGED <<idempotency, timers, quarantined, journal>>
  BY <1>2, <1>4, <1>6, NothingAppended DEF journal
<1> QED BY <1>5, <1>6 DEF persist

-----------------------------------------------------------------------------
(* The steps that leave the journal alone.                                  *)

OwnerPoints == {"bind", "guard", "prepare", "unreserve"}

\* Only the position of p, the timers and the lease change.
LEMMA PositionPreserves ==
    ASSUME RecordsInv, LeaseInv', NEW p \in Processes,
           Others(p), ProcessFits(p)',
           leased(p) \/ ~writer \/ ~leased(p)',
           \A r \in Refs : entries[r] # NoEntry /\ ~durable(r)
                          /\ call[p].ref = r /\ call[p].at \in OwnerPoints =>
                call'[p].ref = r /\ call'[p].at \in OwnerPoints,
           phase \in {"running", "closed"}, timers' \subseteq Timers,
           writer' \in BOOLEAN,
           UNCHANGED <<phase, entries, idempotency, quarantined, closed,
                       journal, remote>>
    PROVE  RecordsInv'
<1>1. UNCHANGED <<last, bound, readable, tail, poisoned, frames, device,
                  generation>>
  BY DEF journal, remote
<1>2. TypeOK'
  BY <1>1 DEF RecordsInv, TypeOK, LeaseInv, CallTypes, Locals
<1>3. JournalInv' /\ TailInv' /\ AtMostOneFrame'
  BY <1>1 DEF RecordsInv, JournalInv, TailInv, AtMostOneFrame, durable
<1>4. EntriesInv' /\ IdempotencyInv'
  BY <1>1 DEF RecordsInv, EntriesInv, IdempotencyInv, durable
<1>5. PublishedInv' /\ DownInv'
  BY <1>1 DEF RecordsInv, PublishedInv, DownInv, durable, quarantines
<1>6. PointsInv'
  <2> SUFFICES ASSUME NEW q \in Processes PROVE ProcessFits(q)'
    BY DEF PointsInv
  <2>1. CASE q = p
    BY <2>1
  <2>2. CASE q # p
    <3>1. call'[q] = call[q] /\ ProcessFits(q)
      BY <2>2 DEF Others, RecordsInv, PointsInv
    <3> QED BY <1>1, <3>1 DEF ProcessFits, leased, durable
  <2> QED BY <2>1, <2>2
<1>7. Owned'
  <2> SUFFICES ASSUME NEW r \in Refs, entries[r] # NoEntry, ~durable(r)
               PROVE  \E c \in SetCalls : call'[c].ref = r
                                          /\ call'[c].at \in OwnerPoints
    BY <1>1 DEF Owned, durable, OwnerPoints
  <2>1. PICK c \in SetCalls : call[c].ref = r /\ call[c].at \in OwnerPoints
    BY DEF RecordsInv, Owned, OwnerPoints
  <2>2. c \in Processes
    BY DEF Processes
  <2> QED BY <2>1, <2>2 DEF Others
<1> QED BY <1>2, <1>3, <1>4, <1>5, <1>6, <1>7 DEF RecordsInv

\* p does not hold the lease after the step.
LEMMA WaitingPreserves ==
    ASSUME RecordsInv, LeaseInv', NEW p \in Processes, Others(p),
           ~leased(p)', ~leased(p) \/ call[p].at = "release",
           phase \in {"running", "closed"}, timers' \subseteq Timers,
           writer' \in BOOLEAN,
           UNCHANGED <<phase, entries, idempotency, quarantined, closed,
                       journal, remote>>
    PROVE  RecordsInv'
<1>1. ProcessFits(p)'
  BY DEF ProcessFits
<1>2. call[p].at \notin OwnerPoints
  BY DEF OwnerPoints, leased, Leased
<1> QED BY <1>1, <1>2, PositionPreserves

\* Nobody moves.
LEMMA StillPreserves ==
    ASSUME RecordsInv, LeaseInv', TypeOK',
           \/ UNCHANGED phase
           \/ phase = "running" /\ phase' = "closed",
           timers' \subseteq timers,
           UNCHANGED <<call, entries, idempotency, quarantined, writer,
                       journal, frames>>
    PROVE  RecordsInv'
<1>1. UNCHANGED <<last, bound, readable, tail, poisoned>>
  BY DEF journal
<1>3. JournalInv' /\ TailInv' /\ AtMostOneFrame'
  BY <1>1 DEF RecordsInv, JournalInv, TailInv, AtMostOneFrame, durable
<1>4. EntriesInv' /\ IdempotencyInv'
  BY <1>1 DEF RecordsInv, EntriesInv, IdempotencyInv, durable
<1>5. PublishedInv' /\ DownInv'
  BY <1>1 DEF RecordsInv, PublishedInv, DownInv, durable, quarantines
<1>6. PointsInv' /\ Owned'
  BY <1>1 DEF RecordsInv, PointsInv, ProcessFits, leased, durable, Owned
<1> QED BY <1>3, <1>4, <1>5, <1>6 DEF RecordsInv

\* p takes the lease for a mutation that is durable, or for nothing.
LEMMA TakingPreserves ==
    ASSUME RecordsInv, LeaseInv', NEW p \in Processes, Others(p),
           ~writer, writer' = TRUE, ~quarantined,
           call'[p].ref \in Refs,
           \/ /\ call'[p].at \in {"recover", "rbStart"}
              /\ durable(call'[p].ref)
           \/ call'[p].at = "release",
           phase \in {"running", "closed"}, timers' \subseteq Timers,
           UNCHANGED <<phase, entries, idempotency, quarantined, closed,
                       journal, remote>>
    PROVE  RecordsInv'
<1> DEFINE r == call'[p].ref
<1>1. UNCHANGED <<last, frames>>
  BY DEF journal, remote
<1>2. ~leased(p)
  BY DEF RecordsInv, LeaseInv, WriterExclusive
<1>3. durable(r) => entries[r] # NoEntry
  BY DEF RecordsInv, PublishedInv
<1>4. ~durable(r) => entries[r] = NoEntry
  <2> SUFFICES ASSUME ~durable(r), entries[r] # NoEntry PROVE FALSE
    OBVIOUS
  <2>1. PICK c \in SetCalls : call[c].at \in OwnerPoints
    BY DEF RecordsInv, Owned, OwnerPoints
  <2>2. c \in Processes /\ leased(c)
    BY <2>1 DEF Processes, leased, Leased, OwnerPoints
  <2> QED BY <2>2 DEF RecordsInv, LeaseInv, WriterExclusive
<1>5. PointFits(call'[p].at, call'[p].result, last[r], frames[r])
  BY DEF PointFits, UndurablePoints, DurablePoints, durable
<1>6. ProcessFits(p)'
  BY <1>1, <1>3, <1>4, <1>5 DEF ProcessFits, SetPoints, FramePoints, durable
<1>7. call[p].at \notin OwnerPoints
  BY <1>2 DEF OwnerPoints, leased, Leased
<1> QED BY <1>6, <1>7, PositionPreserves

LEMMA ReserveKnownPreserves ==
    ASSUME RecordsInv, LeaseInv', NEW c \in SetCalls, ~leased(c),
           reserveKnown(c), phase \in {"running", "closed"},
           UNCHANGED <<phase, journal, remote>>
    PROVE  RecordsInv'
<1>1. c \in Processes /\ CallTypes /\ timers \subseteq Timers
      /\ writer \in BOOLEAN
  BY DEF Processes, RecordsInv, LeaseInv, TypeOK
<1>2. UNCHANGED <<entries, idempotency, timers, quarantined, closed>>
  BY DEF reserveKnown
<1>3. CASE Return(c) /\ UNCHANGED writer
  <2>1. Others(c) /\ ~leased(c)'
    BY <1>1, <1>3, ReturnMoves DEF leased
  <2> QED BY <1>1, <1>2, <1>3, <2>1, WaitingPreserves
<1>4. CASE /\ ~closed /\ ~quarantined /\ ~writer
           /\ idempotency[setIdentity(c)] = setBinding(c)
           /\ rawMutationStateNeedsRecovery(
                    snapshotState(idempotency[setIdentity(c)].ref))
           /\ writer' = TRUE
           /\ call' = [call EXCEPT ![c] = [Idle EXCEPT !.at = "recover",
                            !.ref = idempotency[setIdentity(c)].ref]]
  <2> DEFINE r == idempotency[setIdentity(c)].ref
  <2>1. r \in Refs
    BY <1>4, CoordinatorAssumption DEF setBinding
  <2>2. durable(r)
    BY <1>4 DEF snapshotState, rawMutationStateNeedsRecovery, Reserved
  <2>3. Others(c) /\ call'[c].at = "recover" /\ call'[c].ref = r
    BY <1>1, <1>4 DEF CallTypes, Others, Idle
  <2> QED BY <1>1, <1>2, <1>4, <2>1, <2>2, <2>3, TakingPreserves
<1> QED BY <1>3, <1>4 DEF reserveKnown

\* FeaturesDataSet before it has a reservation.
LEMMA UnreservedPreserves ==
    ASSUME RecordsInv, LeaseInv', NEW c \in SetCalls,
           BeginSet(c) \/ VerifyReadToken(c)
    PROVE  RecordsInv'
<1>1. c \in Processes /\ CallTypes /\ timers \subseteq Timers
      /\ writer \in BOOLEAN
  BY DEF Processes, RecordsInv, LeaseInv, TypeOK
<1>2. CASE BeginSet(c)
  <2>1. ~leased(c) /\ phase = "running" /\ UNCHANGED <<phase, journal, remote>>
    BY <1>2 DEF BeginSet, leased, Idle, Leased
  <2>2. CASE reserveKnown(c)
    BY <2>1, <2>2, ReserveKnownPreserves
  <2>3. CASE Goto(c, "verify") /\ UNCHANGED memory
    <3>1. Others(c) /\ ~leased(c)'
      BY <1>1, <2>3, GotoMoves DEF leased, Points, Leased
    <3> QED BY <1>1, <2>1, <2>3, <3>1, WaitingPreserves DEF memory
  <2> QED BY <1>2, <2>2, <2>3 DEF BeginSet
<1>3. CASE VerifyReadToken(c)
  <2>1. ~leased(c) /\ call[c] # Idle /\ UNCHANGED <<phase, memory, journal, remote>>
    BY <1>3 DEF VerifyReadToken, leased, Idle, Leased
  <2>2. phase \in {"running", "closed"}
    BY <1>1, <2>1 DEF RecordsInv, DownInv, TypeOK
  <2>3. Others(c) /\ ~leased(c)'
    <3>1. CASE Return(c)
      BY <1>1, <3>1, ReturnMoves DEF leased
    <3>2. ASSUME NEW t, call' = [call EXCEPT ![c].at = "reserve", ![c].token = t]
          PROVE  Others(c) /\ ~leased(c)'
      BY <1>1, <3>2 DEF Others, leased, CallTypes, Locals, Leased
    <3> QED BY <1>3, <3>1, <3>2 DEF VerifyReadToken
  <2> QED BY <1>1, <2>1, <2>2, <2>3, WaitingPreserves DEF memory
<1> QED BY <1>2, <1>3

LEMMA NewEntryFields ==
    ASSUME NEW c \in SetCalls
    PROVE  /\ newEntry(c) \in Entries /\ newEntry(c) # NoEntry
           /\ newEntry(c).request = setBinding(c)
           /\ newEntry(c).request.ref = c.key
           /\ newEntry(c).identity = setIdentityOf(c.key)
           /\ newEntry(c).mutation.state = Reserved
           /\ newEntry(c).mutation.accepted = "nil"
           /\ newEntry(c).mutation \in Mutations
           /\ setIdentity(c) = setIdentityOf(c.key)
           /\ setIdentity(c) \in Identities /\ setBinding(c) \in Bindings
           /\ setBinding(c) # NoEntry /\ setBinding(c).ref = c.key
           /\ c.key \in Refs
<1>1. c \in [id : CallIds, key : Refs, value : Values, mode : Modes]
  BY CoordinatorAssumption
<1>2. /\ setIdentity(c) = setIdentityOf(c.key)
      /\ setIdentity(c) \in Identities /\ setBinding(c) \in Bindings
      /\ setBinding(c).ref = c.key
  BY <1>1 DEF setIdentity, setIdentityOf, Identities, setBinding, Bindings,
              MaybeValue
<1> DEFINE m == newEntry(c).mutation
<1>3. NoOutcome \in OutcomeEvidence
  BY DEF NoOutcome, OutcomeEvidence
<1>4. NoRollback \in Rollbacks
  BY DEF NoRollback, Rollbacks, Accepted, ErrorCodes, MaybeValue
<1>5. m \in Mutations /\ m.state = Reserved /\ m.accepted = "nil"
  BY <1>1, <1>3, <1>4 DEF newEntry, Mutations, MaybeValue, Accepted,
                          ErrorCodes
<1>6. newEntry(c) = [mutation |-> m, identity |-> setIdentity(c),
                     request |-> setBinding(c)]
  BY DEF newEntry
<1> HIDE DEF m
<1> QED BY <1>1, <1>2, <1>5, <1>6, NoEntryAssumption DEF Entries

LEMMA NewReservationPreserves ==
    ASSUME RecordsInv, LeaseInv', NEW c \in SetCalls,
           phase \in {"running", "closed"},
           idempotency[setIdentity(c)] = NoEntry,
           ~quarantined, ~writer, writer' = TRUE,
           entries' = [entries EXCEPT ![c.key] = newEntry(c)],
           idempotency' = [idempotency EXCEPT ![setIdentity(c)] =
                                setBinding(c)],
           call' = [call EXCEPT ![c].at = "bind", ![c].ref = c.key],
           UNCHANGED <<phase, timers, quarantined, closed, journal, remote>>
    PROVE  RecordsInv'
<1> DEFINE r == c.key
           x == newEntry(c)
           i0 == setIdentity(c)
           n0 == setBinding(c)
<1>1. /\ x \in Entries /\ x # NoEntry /\ x.request.ref = r
      /\ x.identity = setIdentityOf(r) /\ x.mutation.state = Reserved
      /\ x.mutation.accepted = "nil"
      /\ i0 = setIdentityOf(r) /\ i0 \in Identities
      /\ n0 \in Bindings /\ n0 # NoEntry /\ n0.ref = r /\ r \in Refs
  BY NewEntryFields
<1> HIDE DEF x, i0, n0
<1>2. ~durable(r)
  BY <1>1 DEF RecordsInv, PublishedInv, i0
<1>3. UNCHANGED <<last, bound, readable, tail, poisoned, frames, device,
                  generation>>
  BY DEF journal, remote
<1>4. c \in Processes /\ CallTypes
  BY DEF Processes, RecordsInv, LeaseInv
<1>5. call'[c].at = "bind" /\ call'[c].ref = r /\ Others(c)
  BY <1>4 DEF CallTypes, Locals, Others
<1>6. /\ entries'[r] = x
      /\ \A r2 \in Refs \ {r} : entries'[r2] = entries[r2]
      /\ entries' \in [Refs -> Entries \cup {NoEntry}]
  BY <1>1 DEF RecordsInv, TypeOK, x
<1>7. /\ idempotency'[i0] = n0
      /\ \A i \in Identities \ {i0} : idempotency'[i] = idempotency[i]
      /\ idempotency' \in [Identities -> Bindings \cup {NoEntry}]
  BY <1>1 DEF RecordsInv, TypeOK, i0, n0
<1>8. \A q \in Processes : ~leased(q)
  BY DEF RecordsInv, LeaseInv, WriterExclusive
<1>9. TypeOK'
  BY <1>3, <1>6, <1>7 DEF RecordsInv, TypeOK, LeaseInv, CallTypes, Locals
<1>10. JournalInv' /\ TailInv' /\ AtMostOneFrame'
  BY <1>3 DEF RecordsInv, JournalInv, TailInv, AtMostOneFrame, durable
<1>11. EntriesInv'
  BY <1>1, <1>2, <1>3, <1>6 DEF RecordsInv, EntriesInv, durable
<1>12. IdempotencyInv'
  <2> SUFFICES ASSUME NEW i \in Identities, idempotency'[i] # NoEntry
               PROVE  /\ entries'[idempotency'[i].ref] # NoEntry
                      /\ last[idempotency'[i].ref] = NoEntry =>
                           i = setIdentityOf(idempotency'[i].ref)
    BY <1>3 DEF IdempotencyInv, durable
  <2>1. CASE i = i0
    BY <1>1, <1>6, <1>7, <2>1
  <2>2. CASE i # i0
    <3>1. idempotency'[i] = idempotency[i] /\ idempotency[i].ref \in Refs
      BY <1>7, <2>2 DEF RecordsInv, TypeOK, Bindings
    <3> QED BY <1>1, <1>6, <3>1 DEF RecordsInv, IdempotencyInv, durable
  <2> QED BY <2>1, <2>2
<1>13. PublishedInv' /\ DownInv'
  <2>1. \A r2 \in Refs : durable(r2) => entries'[r2] # NoEntry
            /\ idempotency'[setIdentityOf(r2)] # NoEntry
    BY <1>1, <1>2, <1>6, <1>7 DEF RecordsInv, PublishedInv, setIdentityOf,
       Identities
  <2> QED BY <1>3, <2>1 DEF RecordsInv, PublishedInv, DownInv, durable,
             quarantines
<1>14. PointsInv'
  <2>1. PointFits("bind", call'[c].result, last[r], frames[r])
    BY <1>2 DEF PointFits, UndurablePoints, DurablePoints, durable
  <2>2. ProcessFits(c)'
    BY <1>1, <1>3, <1>5, <1>6, <2>1 DEF ProcessFits, durable
  <2> QED BY <1>4, <1>5, <2>2, OthersFit DEF RecordsInv
<1>15. Owned'
  <2>1. \A r2 \in Refs \ {r} : entries[r2] # NoEntry => durable(r2)
    BY <1>8 DEF RecordsInv, Owned, Processes, leased, Leased
  <2> QED BY <1>3, <1>5, <1>6, <2>1 DEF Owned, durable
<1> QED BY <1>9, <1>10, <1>11, <1>12, <1>13, <1>14, <1>15 DEF RecordsInv

LEMMA ReserveSetPreserves ==
    ASSUME RecordsInv, LeaseInv', NEW c \in SetCalls, ReserveSet(c)
    PROVE  RecordsInv'
<1>1. c \in Processes /\ CallTypes /\ timers \subseteq Timers
      /\ writer \in BOOLEAN
  BY DEF Processes, RecordsInv, LeaseInv, TypeOK
<1>2. ~leased(c) /\ call[c] # Idle /\ UNCHANGED <<phase, journal, remote>>
  BY DEF ReserveSet, leased, Idle, Leased
<1>3. phase \in {"running", "closed"}
  BY <1>1, <1>2 DEF RecordsInv, DownInv, TypeOK
<1>4. CASE reserveKnown(c)
  BY <1>2, <1>3, <1>4, ReserveKnownPreserves
<1>5. CASE Return(c) /\ UNCHANGED memory
  <2>1. Others(c) /\ ~leased(c)'
    BY <1>1, <1>5, ReturnMoves DEF leased
  <2> QED BY <1>1, <1>2, <1>3, <1>5, <2>1, WaitingPreserves DEF memory
<1>6. CASE /\ idempotency[setIdentity(c)] = NoEntry
           /\ ~closed /\ ~quarantined /\ ~writer
           /\ writer' = TRUE
           /\ entries' = [entries EXCEPT ![c.key] = newEntry(c)]
           /\ idempotency' = [idempotency EXCEPT
                                ![setIdentity(c)] = setBinding(c)]
           /\ call' = [call EXCEPT ![c].at = "bind", ![c].ref = c.key]
           /\ UNCHANGED <<timers, quarantined, closed>>
  BY <1>2, <1>3, <1>6, NewReservationPreserves
<1> QED BY <1>4, <1>5, <1>6 DEF ReserveSet

-----------------------------------------------------------------------------
(* FeaturesDataSet under the lease.                                         *)

\* What is known of a Set call at one of its own points.
LEMMA SetHolder ==
    ASSUME RecordsInv, NEW c \in SetCalls, call[c].at \in SetPoints
    PROVE  /\ c \in Processes /\ CallTypes /\ leased(c)
           /\ call[c].ref = c.key /\ c.key \in Refs
           /\ entries[c.key] # NoEntry /\ entries[c.key] \in Entries
           /\ working(c) = entries[c.key].mutation
           /\ working(c) \in Mutations
           /\ frames[c.key] \in Frames
           /\ PointFits(call[c].at, call[c].result, last[c.key],
                        frames[c.key])
           /\ call[c].at \in FramePoints => ~quarantined
           /\ working(c).accepted # "nil" => frames[c.key].forward = 1
           /\ ~durable(c.key) => /\ working(c).state = Reserved
                                 /\ frames[c.key].forward = 0
           /\ phase \in {"running", "closed"}
<1>1. c \in Processes /\ leased(c) /\ CallTypes
  BY DEF Processes, SetPoints, Leased, leased, RecordsInv, LeaseInv
<1>2. ProcessFits(c)
  BY <1>1 DEF RecordsInv, PointsInv
<1>3. /\ call[c].ref = c.key /\ c.key \in Refs /\ entries[c.key] # NoEntry
      /\ PointFits(call[c].at, call[c].result, last[c.key], frames[c.key])
      /\ call[c].at \in FramePoints => ~quarantined
  BY <1>1, <1>2 DEF ProcessFits, SetPoints
<1>4. entries[c.key] \in Entries /\ frames[c.key] \in Frames
  BY <1>3 DEF RecordsInv, TypeOK, Frames
<1>5. working(c) = entries[c.key].mutation /\ working(c) \in Mutations
  BY <1>3, <1>4 DEF working, Entries
<1>6. /\ working(c).accepted # "nil" => frames[c.key].forward = 1
      /\ ~durable(c.key) => /\ working(c).state = Reserved
                            /\ frames[c.key].forward = 0
  BY <1>3, <1>5 DEF RecordsInv, EntriesInv, JournalInv
<1> QED BY <1>1, <1>3, <1>4, <1>5, <1>6, HolderRuns

LEMMA BindPreserves ==
    ASSUME RecordsInv, LeaseInv', NEW c \in SetCalls, BindRuntime(c)
    PROVE  RecordsInv'
<1>1. call[c].at = "bind" /\ call[c].at \in SetPoints
  BY DEF BindRuntime, SetPoints
<1>2. PICK x \in {"guard", "unreserve"} : Goto(c, x)
  BY DEF BindRuntime
<1>3. x \in Points /\ x \in OwnerPoints
  BY <1>2 DEF Points, Leased, OwnerPoints
<1>4. /\ c \in Processes /\ leased(c) /\ Others(c) /\ call'[c].at = x
      /\ call'[c].ref = c.key /\ call'[c].result = call[c].result
  BY <1>1, <1>2, <1>3, SetHolder, GotoMoves, GotoKeeps
<1>5. UNCHANGED <<phase, memory, journal, remote, last, frames, poisoned,
                  entries, quarantined, timers, writer, idempotency, closed>>
  BY DEF BindRuntime, memory, journal, remote
<1>6. last[c.key] = NoEntry
  BY <1>1, SetHolder DEF PointFits, UndurablePoints
<1>7. PointFits(x, call[c].result, last[c.key], frames[c.key])
  BY <1>2, <1>6 DEF PointFits, UndurablePoints, DurablePoints
<1>8. ProcessFits(c)'
  BY <1>1, <1>2, <1>4, <1>5, <1>7, SetHolder
     DEF ProcessFits, FramePoints, SetPoints
<1>9. timers' \subseteq Timers /\ writer' \in BOOLEAN
  BY <1>5 DEF RecordsInv, TypeOK
<1> QED BY <1>1, <1>3, <1>4, <1>5, <1>8, <1>9, SetHolder, PositionPreserves

\* The guard read puts a fresh document into the reservation.
LEMMA GuardedPreserves ==
    ASSUME RecordsInv, LeaseInv', NEW c \in SetCalls,
           call[c].at = "guard", NEW m \in Mutations,
           m.state = Reserved, m.accepted = "nil",
           entries' = [entries EXCEPT ![c.key] =
                            [newEntry(c) EXCEPT !.mutation = m]],
           call' = [call EXCEPT ![c].at = "prepare", ![c].token = NoToken],
           UNCHANGED <<phase, idempotency, timers, quarantined, journal,
                       writer, closed, remote>>
    PROVE  RecordsInv'
<1> DEFINE r == c.key
           x == [newEntry(c) EXCEPT !.mutation = m]
<1>1. /\ x \in Entries /\ x.request.ref = r /\ x.mutation = m
      /\ x.identity = setIdentityOf(r) /\ x # NoEntry
  BY NewEntryFields, EntryFields, NoEntryAssumption
<1> HIDE DEF x
<1>2. call[c].at \in SetPoints
  BY DEF SetPoints
<1>3. /\ c \in Processes /\ CallTypes /\ leased(c) /\ call[c].ref = r
      /\ r \in Refs /\ ~durable(r) /\ phase \in {"running", "closed"}
      /\ ~quarantined
  BY <1>2, SetHolder DEF PointFits, UndurablePoints, durable, FramePoints
<1>4. UNCHANGED <<last, bound, readable, tail, poisoned, frames, device,
                  generation>>
  BY DEF journal, remote
<1>5. call'[c].at = "prepare" /\ call'[c].ref = r /\ Others(c)
  BY <1>3 DEF CallTypes, Locals, Others
<1>6. /\ entries'[r] = x
      /\ \A r2 \in Refs \ {r} : entries'[r2] = entries[r2]
      /\ entries' \in [Refs -> Entries \cup {NoEntry}]
  BY <1>1, <1>3 DEF RecordsInv, TypeOK, x
<1>7. TypeOK'
  BY <1>4, <1>6 DEF RecordsInv, TypeOK, LeaseInv, CallTypes, Locals
<1>8. JournalInv' /\ TailInv' /\ AtMostOneFrame'
  BY <1>4 DEF RecordsInv, JournalInv, TailInv, AtMostOneFrame, durable
<1>9. EntriesInv'
  BY <1>1, <1>3, <1>4, <1>6 DEF RecordsInv, EntriesInv, durable
<1>10. IdempotencyInv' /\ PublishedInv' /\ DownInv'
  BY <1>1, <1>3, <1>4, <1>6 DEF RecordsInv, IdempotencyInv, PublishedInv,
     DownInv, durable, TypeOK, Bindings, quarantines
<1>11. PointsInv'
  <2>1. PointFits("prepare", call'[c].result, last[r], frames[r])
    BY <1>3 DEF PointFits, UndurablePoints, DurablePoints, durable
  <2>2. ProcessFits(c)'
    BY <1>1, <1>3, <1>4, <1>5, <1>6, <2>1 DEF ProcessFits, durable
  <2> QED BY <1>3, <1>5, <2>2, OthersFit DEF RecordsInv
<1>12. Owned'
  BY <1>3, <1>4, <1>5, <1>6, OthersDurable DEF Owned, durable
<1> QED BY <1>7, <1>8, <1>9, <1>10, <1>11, <1>12 DEF RecordsInv

LEMMA GuardReadPreserves ==
    ASSUME RecordsInv, LeaseInv', NEW c \in SetCalls, GuardRead(c)
    PROVE  RecordsInv'
<1> DEFINE r == c.key
           fresh(before) == [newEntry(c).mutation EXCEPT
                !.generation = call[c].token.generation, !.before = before]
<1>1. call[c].at = "guard" /\ call[c].at \in SetPoints
  BY DEF GuardRead, SetPoints
<1>2. /\ c \in Processes /\ CallTypes /\ leased(c) /\ call[c].ref = r
      /\ r \in Refs /\ entries[r] # NoEntry /\ ~durable(r)
      /\ entries[r].mutation.state = Reserved /\ frames[r].forward = 0
      /\ phase \in {"running", "closed"}
  BY <1>1, SetHolder DEF PointFits, UndurablePoints, durable
<1>3. ASSUME NEW v \in MaybeValue
      PROVE  /\ fresh(v) \in Mutations /\ fresh(v).state = Reserved
             /\ fresh(v).accepted = "nil"
  <2>1. call[c].token.generation \in Nat
    BY <1>2 DEF CallTypes, Locals
  <2> QED BY <2>1, NewEntryFields DEF Mutations
<1>4. UNCHANGED <<phase, writer, closed, remote, device, generation, frames>>
  BY DEF GuardRead, remote
<1>5. device \in MaybeValue /\ NoValue \in MaybeValue
  BY DEF RecordsInv, TypeOK, MaybeValue
<1> HIDE DEF fresh
<1>6. CASE /\ entries' = [entries EXCEPT ![r] =
                [newEntry(c) EXCEPT !.mutation = fresh(device)]]
           /\ call' = [call EXCEPT ![c].at = "prepare",
                                   ![c].token = NoToken]
           /\ UNCHANGED <<idempotency, timers, quarantined, journal>>
  BY <1>1, <1>3, <1>4, <1>5, <1>6, GuardedPreserves
<1>7. CASE /\ Goto(c, "unreserve")
           /\ UNCHANGED <<entries, idempotency, timers, quarantined,
                          journal>>
  <2>1. "unreserve" \in Points /\ "unreserve" \in OwnerPoints
    BY DEF Points, Leased, OwnerPoints
  <2>2. /\ Others(c) /\ call'[c].at = "unreserve"
        /\ call'[c].ref = c.key /\ call'[c].result = call[c].result
    BY <1>2, <1>7, <2>1, GotoMoves, GotoKeeps
  <2>3. PointFits("unreserve", call[c].result, last[r], frames[r])
    BY DEF PointFits, UndurablePoints, DurablePoints
  <2>4. UNCHANGED <<last, poisoned>>
    BY <1>7 DEF journal
  <2>5. ProcessFits(c)'
    BY <1>2, <1>4, <1>7, <2>2, <2>3, <2>4
       DEF ProcessFits, FramePoints, SetPoints
  <2>6. timers' \subseteq Timers /\ writer' \in BOOLEAN
    BY <1>4, <1>7 DEF RecordsInv, TypeOK
  <2> QED BY <1>2, <1>4, <1>7, <2>1, <2>2, <2>5, <2>6, PositionPreserves
<1>8. CASE transition(c, failedNoContact(fresh(NoValue)),
                      "unreserve", "unreserve")
  <2> DEFINE o == failedNoContact(fresh(NoValue))
  <2>1. /\ o.mutation \in Mutations /\ o.mutation.state = Reserved
        /\ o.mutation.accepted = "nil" /\ o.next = "failed_no_contact"
    BY <1>3, <1>5 DEF failedNoContact, Outcome, Mutations, ErrorCodes
  <2> HIDE DEF o
  <2>2. Assigned(entries[call[c].ref], o.mutation, frames[call[c].ref])
    BY <1>2, <2>1 DEF Assigned
  <2>3. Truthful(o.mutation, o.next, frames[call[c].ref])
    BY <1>2, <2>1 DEF Truthful, MutationStates
  <2>4. MayGoOn(c, "unreserve", o.next, frames[call[c].ref])
    BY DEF MayGoOn, SetPoints, FramePoints
  <2>5. MayLeave(c, "unreserve")
    BY DEF MayLeave
  <2> QED BY <1>2, <1>4, <1>8, <2>1, <2>2, <2>3, <2>4, <2>5,
             TransitionPreserves DEF o
<1> QED BY <1>6, <1>7, <1>8 DEF GuardRead, fresh

LEMMA ForwardTransitionPreserves ==
    ASSUME RecordsInv, LeaseInv', NEW c \in SetCalls,
           call[c].at \in SetPoints,
           NEW m, NEW s, NEW a, transition(c, Outcome(m, s), a, "unreserve"),
           m \in Mutations, m.state = working(c).state,
           m.accepted # "nil" => frames[c.key].forward = 1,
           Truthful(m, s, frames[c.key]), s # "rollback_intent",
           MayGoOn(c, a, s, frames[c.key]),
           UNCHANGED <<phase, writer, closed, remote>>
    PROVE  RecordsInv'
<1> DEFINE o == Outcome(m, s)
<1>1. o.mutation = m /\ o.next = s
  BY DEF Outcome
<1> HIDE DEF o
<1>2. /\ c \in Processes /\ leased(c) /\ call[c].ref = c.key
      /\ c.key \in Refs /\ entries[c.key] # NoEntry
      /\ working(c) = entries[c.key].mutation
  BY SetHolder
<1>3. Assigned(entries[c.key], m, frames[c.key])
  BY <1>2 DEF Assigned
<1>4. MayLeave(c, "unreserve") /\ UNCHANGED <<frames, device, generation>>
  BY DEF MayLeave, remote
<1> QED BY <1>1, <1>2, <1>3, <1>4, TransitionPreserves DEF o

LEMMA ForwardPreserves ==
    ASSUME RecordsInv, LeaseInv', NEW c \in SetCalls,
           Prepare(c) \/ DispatchIntent(c) \/ VerifyPending(c)
    PROVE  RecordsInv'
<1> DEFINE m == working(c)
<1>1. call[c].at \in SetPoints /\ UNCHANGED <<phase, writer, closed, remote>>
  BY DEF Prepare, DispatchIntent, VerifyPending, SetPoints
<1>2. /\ m \in Mutations /\ call[c].ref = c.key
      /\ m.accepted # "nil" => frames[c.key].forward = 1
      /\ PointFits(call[c].at, call[c].result, last[c.key], frames[c.key])
      /\ call[c].at \in FramePoints => ~quarantined
      /\ ~durable(c.key) => frames[c.key].forward = 0
  BY <1>1, SetHolder
<1> HIDE DEF m
<1>3. CASE Prepare(c)
  <2>1. ~quarantined /\ frames[c.key].forward = 0
    BY <1>2, <1>3 DEF Prepare, PointFits, UndurablePoints, durable,
                      FramePoints
  <2>2. /\ Truthful(m, "prepared", frames[c.key])
        /\ MayGoOn(c, "intent", "prepared", frames[c.key])
    BY <1>2, <2>1 DEF Truthful, MutationStates, MayGoOn, DurablePoints,
       Leased, UndurablePoints
  <2> QED BY <1>1, <1>2, <1>3, <2>2, ForwardTransitionPreserves
          DEF Prepare, m
<1>4. CASE DispatchIntent(c)
  <2>1. ~quarantined /\ frames[c.key].forward = 0
    <3>1. last[c.key].mutation.state = "prepared" /\ durable(c.key)
      BY <1>2, <1>4 DEF DispatchIntent, PointFits, DurablePoints, Leased,
                        UndurablePoints, durable
    <3>2. c.key \in Refs
      BY <1>1, SetHolder
    <3> QED BY <1>2, <1>4, <3>1, <3>2 DEF DispatchIntent, FramePoints,
               RecordsInv, JournalInv, RecordOf, Evidence
  <2>2. /\ Truthful(m, "dispatch_intent", frames[c.key])
        /\ MayGoOn(c, "dispatch", "dispatch_intent", frames[c.key])
    BY <1>2, <2>1 DEF Truthful, MutationStates, MayGoOn, DurablePoints,
       Leased, UndurablePoints
  <2> QED BY <1>1, <1>2, <1>4, <2>2, ForwardTransitionPreserves
          DEF DispatchIntent, m
<1>5. CASE VerifyPending(c)
  <2>1. /\ Truthful(m, "verify_pending", frames[c.key])
        /\ MayGoOn(c, "readback", "verify_pending", frames[c.key])
    BY <1>2 DEF Truthful, MutationStates, MayGoOn, DurablePoints,
       Leased, UndurablePoints, FramePoints
  <2> QED BY <1>1, <1>2, <1>5, <2>1, ForwardTransitionPreserves
          DEF VerifyPending, m
<1> QED BY <1>3, <1>4, <1>5

LEMMA CompleteOriginalWritePreserves ==
    ASSUME RecordsInv, LeaseInv', NEW c \in SetCalls,
           CompleteOriginalWrite(c)
    PROVE  RecordsInv'
<1> DEFINE m == working(c)
           res == call[c].result
           f == frames[c.key]
<1>1. /\ call[c].at = "written" /\ call[c].at \in SetPoints
      /\ UNCHANGED <<phase, writer, closed, remote>>
  BY DEF CompleteOriginalWrite, SetPoints
<1>2. /\ m \in Mutations /\ call[c].ref = c.key
      /\ m.accepted # "nil" => f.forward = 1
      /\ f.forward = IF res = "notSent" THEN 0 ELSE 1
  BY <1>1, SetHolder DEF PointFits
<1> HIDE DEF m
<1>3. ASSUME res \in {"accepted", "rejected"}, NEW x \in {"yes", "no"},
             transition(c, Outcome([m EXCEPT !.accepted = x],
                                   "reply_observed"),
                        "verifying", "unreserve")
      PROVE  RecordsInv'
  <2>2. /\ [m EXCEPT !.accepted = x] \in Mutations
        /\ [m EXCEPT !.accepted = x].state = m.state
    BY <1>2, <1>3 DEF Mutations, Accepted
  <2>3. f.forward = 1
    BY <1>2, <1>3
  <2>4. /\ Truthful([m EXCEPT !.accepted = x], "reply_observed", f)
        /\ MayGoOn(c, "verifying", "reply_observed", f)
    BY <1>2 DEF Truthful, MutationStates, MayGoOn, DurablePoints,
       Leased, UndurablePoints, FramePoints
  <2> QED BY <1>1, <1>3, <2>2, <2>3, <2>4, ForwardTransitionPreserves DEF m
<1>4. CASE transition(c, possibleSend(m), "readUnknown", "unreserve")
  <2> DEFINE o == possibleSend(m)
  <2>1. Verdict(m, o) /\ o = Outcome(o.mutation, "outcome_unknown")
    BY <1>2, PossibleSendIsVerdict DEF possibleSend, Outcome
  <2>2. o.mutation.outcome.possible /\ o.next = "outcome_unknown"
    BY <1>2 DEF possibleSend, Outcome, Mutations
  <2> HIDE DEF o
  <2>3. /\ Truthful(o.mutation, "outcome_unknown", f)
        /\ MayGoOn(c, "readUnknown", "outcome_unknown", f)
    BY <2>2 DEF Truthful, MutationStates, MayGoOn, DurablePoints,
       Leased, UndurablePoints, FramePoints, SetPoints
  <2>4. /\ o.mutation \in Mutations /\ o.mutation.state = m.state
        /\ o.mutation.accepted # "nil" => f.forward = 1
    BY <1>2, <2>1 DEF Verdict
  <2>5. transition(c, Outcome(o.mutation, "outcome_unknown"),
                   "readUnknown", "unreserve")
    BY <1>4, <2>1 DEF o
  <2> QED BY <1>1, <2>3, <2>4, <2>5, ForwardTransitionPreserves DEF m
<1>5. CASE res = "notSent" /\ transition(c, failedNoContact(m),
                                         "unreserve", "unreserve")
  <2> DEFINE n == [m EXCEPT !.error = "no_contact", !.noContact = TRUE]
  <2>1. /\ n \in Mutations /\ n.state = m.state
        /\ n.accepted = m.accepted
    BY <1>2 DEF Mutations, ErrorCodes
  <2>2. failedNoContact(m) = Outcome(n, "failed_no_contact")
    BY DEF failedNoContact
  <2> HIDE DEF n
  <2>3. f.forward = 0
    BY <1>2, <1>5
  <2>4. /\ Truthful(n, "failed_no_contact", f)
        /\ MayGoOn(c, "unreserve", "failed_no_contact", f)
    BY <2>3 DEF Truthful, MutationStates, MayGoOn, SetPoints, FramePoints
  <2> QED BY <1>1, <1>2, <1>5, <2>1, <2>2, <2>4, ForwardTransitionPreserves
          DEF m
<1> DEFINE y == IF res = "accepted" THEN "yes" ELSE "no"
<1>6. \/ /\ res \in {"accepted", "rejected"}
         /\ transition(c, Outcome([m EXCEPT !.accepted = y],
                                  "reply_observed"),
                       "verifying", "unreserve")
      \/ transition(c, possibleSend(m), "readUnknown", "unreserve")
      \/ res = "notSent" /\ transition(c, failedNoContact(m),
                                       "unreserve", "unreserve")
  BY Zenon DEF CompleteOriginalWrite, m
<1>7. y \in {"yes", "no"}
  OBVIOUS
<1> HIDE DEF y
<1> QED BY <1>3, <1>4, <1>5, <1>6, <1>7

-----------------------------------------------------------------------------
(* Steps that every kind of process takes under the lease.                  *)

LEMMA ReadingTypes ==
    ASSUME RecordsInv, NEW rd \in readCurrent
    PROVE  rd \in Readings
<1>1. device \in MaybeValue /\ generation \in Nat
  BY CoordinatorAssumption DEF RecordsInv, TypeOK
<1>2. \/ rd = [trusted |-> TRUE, value |-> device, generation |-> generation]
      \/ rd = [trusted |-> FALSE, value |-> device, generation |-> 0]
  BY Zenon DEF readCurrent
<1>3. TRUE \in BOOLEAN /\ FALSE \in BOOLEAN /\ 0 \in Nat
  OBVIOUS
<1>4. \A t \in BOOLEAN, v \in MaybeValue, g \in Nat :
        [trusted |-> t, value |-> v, generation |-> g] \in Readings
  BY DEF Readings
<1> QED BY <1>1, <1>2, <1>3, <1>4, Zenon

\* What is known of a process that works on a durable mutation.
LEMMA DurableHolder ==
    ASSUME RecordsInv, NEW p \in Processes, call[p].at \in DurablePoints
    PROVE  /\ leased(p) /\ CallTypes /\ call[p].ref \in Refs
           /\ entries[call[p].ref] # NoEntry /\ durable(call[p].ref)
           /\ entries[call[p].ref] \in Entries
           /\ working(p) = entries[call[p].ref].mutation
           /\ working(p) \in Mutations /\ working(p).state # Reserved
           /\ working(p).state = last[call[p].ref].mutation.state
           /\ working(p).accepted # "nil" => frames[call[p].ref].forward = 1
           /\ working(p).state = "rollback_intent" =>
                 frames[call[p].ref].rollback = 0
           /\ PointFits(call[p].at, call[p].result, last[call[p].ref],
                        frames[call[p].ref])
           /\ call[p].at \in FramePoints => ~quarantined
           /\ frames[call[p].ref] \in Frames
           /\ phase \in {"running", "closed"}
<1> DEFINE r == call[p].ref
<1>1. leased(p) /\ CallTypes
  BY DEF DurablePoints, leased, RecordsInv, LeaseInv
<1>2. ProcessFits(p)
  BY DEF RecordsInv, PointsInv
<1>3. /\ r \in Refs /\ entries[r] # NoEntry /\ durable(r)
      /\ PointFits(call[p].at, call[p].result, last[r], frames[r])
      /\ call[p].at \in FramePoints => ~quarantined
  BY <1>1, <1>2 DEF ProcessFits, PointFits, durable, DurablePoints
<1>4. entries[r] \in Entries /\ frames[r] \in Frames
  BY <1>3 DEF RecordsInv, TypeOK, Frames
<1>5. working(p) = entries[r].mutation /\ working(p) \in Mutations
  BY <1>4 DEF working, Entries
<1>6. /\ working(p).state = last[r].mutation.state
      /\ working(p).accepted # "nil" => frames[r].forward = 1
      /\ last[r].mutation.state \in MutationStates
      /\ working(p).state = "rollback_intent" => frames[r].rollback = 0
  BY <1>3, <1>5 DEF RecordsInv, EntriesInv, JournalInv, RecordOf
<1>7. working(p).state # Reserved
  BY <1>6 DEF MutationStates, Reserved
<1> QED BY <1>1, <1>3, <1>4, <1>5, <1>6, <1>7, HolderRuns

\* A verdict after which the process only has to give the lease back.
LEMMA VerdictPreserves ==
    ASSUME RecordsInv, LeaseInv', NEW p \in Processes,
           call[p].at \in DurablePoints, NEW o, Verdict(working(p), o),
           NEW a \in {"unreserve", "release"}, persist(p, o, a, a),
           UNCHANGED <<phase, writer, closed, remote>>
    PROVE  RecordsInv'
<1>1. MayGoOn(p, a, o.next, frames[call[p].ref])
  BY DEF MayGoOn, SetPoints, FramePoints
<1> QED BY <1>1, DurableHolder, PersistPreserves

\* The readbacks.
LEMMA ReadbackPreserves ==
    ASSUME RecordsInv, LeaseInv', NEW p \in Processes,
           \/ CorrelatedReadback(p) \/ PossibleSendReadback(p)
           \/ RollbackReadback(p) \/ UncertainRollbackReadback(p)
    PROVE  RecordsInv'
<1> DEFINE m == working(p)
<1>1. /\ call[p].at \in DurablePoints
      /\ UNCHANGED <<phase, writer, closed, remote>>
  BY DEF CorrelatedReadback, PossibleSendReadback, RollbackReadback,
         UncertainRollbackReadback, DurablePoints, Leased, UndurablePoints
<1>2. m \in Mutations /\ m.state # Reserved
  BY <1>1, DurableHolder
<1> HIDE DEF m
<1>3. ASSUME NEW rd \in readCurrent, NEW a \in {"unreserve", "release"},
             NEW o \in {resolveCorrelatedReadback(m, rd),
                        resolvePossibleSendReadback(m, rd),
                        resolveRollbackReply(m, rd),
                        resolveUncertainRollbackReadback(m, rd)},
             persist(p, o, a, a)
      PROVE  RecordsInv'
  <2>1. rd \in Readings
    BY ReadingTypes
  <2>2. Verdict(m, o)
    BY <1>2, <2>1, CorrelatedVerdict, PossibleSendVerdict,
       RollbackReplyVerdict, UncertainRollbackVerdict
  <2> QED BY <1>1, <1>3, <2>2, VerdictPreserves DEF m
<1>4. \E rd \in readCurrent :
         \/ persist(p, resolveCorrelatedReadback(m, rd),
                    "unreserve", "unreserve")
         \/ persist(p, resolvePossibleSendReadback(m, rd),
                    "unreserve", "unreserve")
         \/ persist(p, resolveRollbackReply(m, rd), "release", "release")
         \/ persist(p, resolveUncertainRollbackReadback(m, rd),
                    "release", "release")
  BY Zenon DEF CorrelatedReadback, PossibleSendReadback, RollbackReadback,
         UncertainRollbackReadback, m
<1> QED BY <1>3, <1>4

LEMMA RecoverEntryPreserves ==
    ASSUME RecordsInv, LeaseInv', NEW p \in Processes, RecoverEntry(p)
    PROVE  RecordsInv'
<1> DEFINE m == working(p)
           r == call[p].ref
<1>1. /\ call[p].at = "recover" /\ call[p].at \in DurablePoints
      /\ UNCHANGED <<phase, writer, closed, remote>>
  BY DEF RecoverEntry, DurablePoints, Leased, UndurablePoints
<1>2. /\ m \in Mutations /\ m.state # Reserved /\ ~quarantined
      /\ leased(p) /\ CallTypes /\ r \in Refs /\ durable(r)
      /\ entries[r] # NoEntry /\ entries[r].mutation = m
      /\ m.state = last[r].mutation.state
      /\ m.accepted # "nil" => frames[r].forward = 1
      /\ phase \in {"running", "closed"}
  BY <1>1, DurableHolder DEF FramePoints
<1> HIDE DEF m
<1>3. CASE transition(p, possibleSend(m), "readUnknown", "release")
  <2> DEFINE o == possibleSend(m)
  <2>1. Verdict(m, o)
    BY <1>2, PossibleSendIsVerdict
  <2>2. o.mutation.outcome.possible /\ o.next = "outcome_unknown"
    BY <1>2 DEF possibleSend, Outcome, Mutations
  <2> HIDE DEF o
  <2>3. /\ Truthful(o.mutation, o.next, frames[r])
        /\ MayGoOn(p, "readUnknown", o.next, frames[r])
        /\ MayLeave(p, "release")
    BY <1>2, <2>2 DEF Truthful, MutationStates, MayGoOn, DurablePoints,
       Leased, UndurablePoints, FramePoints, SetPoints, MayLeave
  <2>4. Assigned(entries[r], o.mutation, frames[r])
    BY <1>2, <2>1 DEF Verdict, Assigned
  <2>5. UNCHANGED <<frames, device, generation>>
    BY <1>1 DEF remote
  <2> QED BY <1>1, <1>2, <1>3, <2>2, <2>3, <2>4, <2>5, TransitionPreserves
          DEF o
<1>4. CASE /\ m.state = "rollback_intent" /\ Goto(p, "rbRead")
           /\ UNCHANGED <<entries, idempotency, timers, quarantined, journal>>
  <2>1. "rbRead" \in Points /\ call[p].at \notin OwnerPoints
    BY <1>1 DEF Points, Leased, OwnerPoints
  <2>2. /\ Others(p) /\ call'[p].at = "rbRead" /\ call'[p].ref = r
        /\ call'[p].result = call[p].result
    BY <1>2, <1>4, <2>1, GotoMoves, GotoKeeps
  <2>3. PointFits("rbRead", call[p].result, last[r], frames[r])
    BY <1>2, <1>4 DEF PointFits, UndurablePoints, DurablePoints, durable
  <2>4. UNCHANGED <<last, poisoned, frames>>
    BY <1>1, <1>4 DEF journal, remote
  <2>5. ProcessFits(p)'
    BY <1>2, <1>4, <2>2, <2>3, <2>4 DEF ProcessFits, FramePoints, SetPoints
  <2>6. timers' \subseteq Timers /\ writer' \in BOOLEAN
    BY <1>1, <1>4 DEF RecordsInv, TypeOK
  <2> QED BY <1>1, <1>2, <1>4, <2>1, <2>2, <2>5, <2>6, PositionPreserves
<1>5. ASSUME NEW rd \in readCurrent,
             NEW o \in {resolveCorrelatedReadback(m, rd),
                        resolvePossibleSendReadback(m, rd),
                        recoverRollbackReply(m, rd),
                        resolveUncertainRollbackReadback(m, rd)},
             persist(p, o, "release", "release")
      PROVE  RecordsInv'
  <2>1. rd \in Readings
    BY ReadingTypes
  <2>2. Verdict(m, o)
    BY <1>2, <2>1, CorrelatedVerdict, PossibleSendVerdict,
       RollbackReplyVerdict, UncertainRollbackVerdict
  <2> QED BY <1>1, <1>5, <2>2, VerdictPreserves DEF m
<1>6. \/ transition(p, possibleSend(m), "readUnknown", "release")
      \/ /\ m.state = "rollback_intent" /\ Goto(p, "rbRead")
         /\ UNCHANGED <<entries, idempotency, timers, quarantined, journal>>
      \/ \E rd \in readCurrent :
           \/ persist(p, resolvePossibleSendReadback(m, rd), "release", "release")
           \/ persist(p, resolveUncertainRollbackReadback(m, rd),
                      "release", "release")
           \/ persist(p, resolveCorrelatedReadback(m, rd), "release", "release")
           \/ persist(p, recoverRollbackReply(m, rd), "release", "release")
  BY Zenon DEF RecoverEntry, m
<1> QED BY <1>3, <1>4, <1>5, <1>6

LEMMA StartRollbackPreserves ==
    ASSUME RecordsInv, LeaseInv', NEW p \in Processes, StartRollback(p)
    PROVE  RecordsInv'
<1> DEFINE m == working(p)
           r == call[p].ref
           o == startRollback(m)
<1>1. /\ call[p].at = "rbStart" /\ call[p].at \in DurablePoints
      /\ UNCHANGED <<phase, writer, closed, device, generation>>
      /\ transition(p, o, "rbRead", "release")
      /\ frames' = IF call'[p].at = "rbRead"
                   THEN [frames EXCEPT ![r].rollback = 0] ELSE frames
  BY DEF StartRollback, DurablePoints, Leased, UndurablePoints
<1>2. /\ m \in Mutations /\ ~quarantined /\ leased(p)
      /\ r \in Refs /\ durable(r) /\ entries[r] # NoEntry
      /\ entries[r].mutation = m
      /\ m.accepted # "nil" => frames[r].forward = 1
  BY <1>1, DurableHolder DEF FramePoints
<1> HIDE DEF m
<1>3. /\ o.mutation \in Mutations /\ o.mutation.state = m.state
      /\ o.mutation.accepted = m.accepted /\ o.next = "rollback_intent"
  <2> DEFINE k == [NoRollback EXCEPT !.state = "rollback_intent"]
  <2>1. k \in Rollbacks
    BY DEF NoRollback, Rollbacks, Accepted, ErrorCodes, MaybeValue,
           MutationStates
  <2>2. o = [mutation |-> [m EXCEPT !.rollback = k, !.error = "none"],
             next |-> "rollback_intent"]
    BY DEF startRollback, Outcome
  <2> HIDE DEF k, o
  <2> QED BY <1>2, <2>1, <2>2 DEF Mutations, ErrorCodes
<1> HIDE DEF o
<1>4. /\ Assigned(entries[r], o.mutation, frames[r])
      /\ Truthful(o.mutation, o.next, frames[r])
      /\ MayGoOn(p, "rbRead", o.next, frames[r])
      /\ MayLeave(p, "release")
  BY <1>2, <1>3 DEF Assigned, Truthful, MutationStates, MayGoOn,
     DurablePoints, Leased, UndurablePoints, FramePoints, SetPoints, MayLeave
<1> QED BY <1>1, <1>2, <1>3, <1>4, TransitionPreserves

LEMMA RollbackReadPreserves ==
    ASSUME RecordsInv, LeaseInv', NEW p \in Processes, RollbackRead(p)
    PROVE  RecordsInv'
<1> DEFINE m == working(p)
           r == call[p].ref
<1>1. /\ call[p].at = "rbRead" /\ call[p].at \in DurablePoints
      /\ UNCHANGED <<phase, writer, closed, remote>>
  BY DEF RollbackRead, DurablePoints, Leased, UndurablePoints
<1>2. /\ m \in Mutations /\ m.state # Reserved /\ ~quarantined /\ leased(p)
      /\ r \in Refs /\ durable(r) /\ entries[r] # NoEntry
      /\ entries[r].mutation = m /\ frames[r].rollback = 0
  BY <1>1, DurableHolder DEF FramePoints, PointFits
<1> HIDE DEF m
<1>3. PICK rd \in readCurrent :
        persist(p, continueRollbackFromIntent(m, rd),
                IF continueRollbackFromIntent(m, rd).next =
                        "rollback_dispatch_intent"
                THEN "rbDispatch" ELSE "release", "release")
  BY DEF RollbackRead, m
<1> DEFINE o == continueRollbackFromIntent(m, rd)
           a == IF o.next = "rollback_dispatch_intent"
                THEN "rbDispatch" ELSE "release"
<1>4. Verdict(m, o)
  BY <1>2, ReadingTypes, ContinueRollbackVerdict
<1> HIDE DEF o
<1>5. MayGoOn(p, a, o.next, frames[r])
  BY <1>2 DEF MayGoOn, DurablePoints, Leased, UndurablePoints, FramePoints,
              SetPoints
<1> QED BY <1>1, <1>2, <1>3, <1>4, <1>5, PersistPreserves DEF o

LEMMA CompleteRollbackWritePreserves ==
    ASSUME RecordsInv, LeaseInv', NEW p \in Processes,
           CompleteRollbackWrite(p) \/ RollbackVerifyPending(p)
    PROVE  RecordsInv'
<1> DEFINE m == working(p)
           r == call[p].ref
<1>1. /\ call[p].at \in DurablePoints
      /\ UNCHANGED <<phase, writer, closed, remote, frames, device,
                     generation>>
  BY DEF CompleteRollbackWrite, RollbackVerifyPending, DurablePoints, Leased,
         UndurablePoints, remote
<1>2. /\ m \in Mutations /\ m.state # Reserved /\ leased(p)
      /\ r \in Refs /\ durable(r) /\ entries[r] # NoEntry
      /\ entries[r].mutation = m
      /\ m.accepted # "nil" => frames[r].forward = 1
      /\ m.state = "rollback_intent" => frames[r].rollback = 0
      /\ CompleteRollbackWrite(p) => m.state = "rollback_dispatch_intent"
  BY <1>1, DurableHolder DEF PointFits, CompleteRollbackWrite
<1> HIDE DEF m
<1>3. ASSUME NEW o, Verdict(m, o), o.next # Stay,
             NEW a \in {"rbVerifying", "rbReadUnknown", "rbReadback"},
             transition(p, o, a, "release")
      PROVE  RecordsInv'
  <2>1. /\ Assigned(entries[r], o.mutation, frames[r])
        /\ Truthful(o.mutation, o.next, frames[r])
        /\ MayGoOn(p, a, o.next, frames[r])
        /\ MayLeave(p, "release")
        /\ o.next # "rollback_intent"
    BY <1>2, <1>3 DEF Verdict, Assigned, Truthful, MayGoOn,
       DurablePoints, Leased, UndurablePoints, FramePoints, SetPoints,
       MayLeave
  <2> QED BY <1>1, <1>2, <1>3, <2>1, TransitionPreserves
<1>4. CASE RollbackVerifyPending(p)
  <2>1. /\ Verdict(m, rollbackStep(m, "rollback_verify_pending"))
        /\ rollbackStep(m, "rollback_verify_pending").next # Stay
    BY <1>2, RollbackStepVerdict DEF rollbackStep, Outcome, Stay
  <2> QED BY <1>3, <1>4, <2>1 DEF RollbackVerifyPending, m
<1>5. CASE CompleteRollbackWrite(p)
  <2> DEFINE y == IF call[p].result = "accepted" THEN "yes" ELSE "no"
             n == [m EXCEPT !.rollback.accepted = y]
             s == "rollback_reply_observed"
  <2>1. \/ transition(p, rollbackStep(n, s), "rbVerifying", "release")
        \/ transition(p, possibleRollbackSend(m), "rbReadUnknown", "release")
        \/ persist(p, persistRollbackUnknown(m), "release", "release")
    BY <1>5, Zenon DEF CompleteRollbackWrite, m
  <2>2. /\ Verdict(m, rollbackStep(n, s))
        /\ rollbackStep(n, s).next # Stay
    <3> DEFINE k == [m.rollback EXCEPT !.accepted = y]
    <3>1. k \in Rollbacks
      BY <1>2 DEF Mutations, Rollbacks, Accepted
    <3>2. n = [m EXCEPT !.rollback = k]
      BY DEF Mutations
    <3> HIDE DEF k, y, n
    <3>3. n \in Mutations /\ n.state = m.state /\ n.accepted = m.accepted
      BY <1>2, <3>1, <3>2 DEF Mutations
    <3>4. Verdict(n, rollbackStep(n, s))
      BY <3>3, RollbackStepVerdict
    <3> QED BY <3>3, <3>4 DEF Verdict, rollbackStep, Outcome, Stay
  <2>3. /\ Verdict(m, possibleRollbackSend(m))
        /\ possibleRollbackSend(m).next # Stay
    BY <1>2, <1>5, PossibleRollbackSendVerdict
       DEF possibleRollbackSend, Outcome, Stay
  <2>4. Verdict(m, persistRollbackUnknown(m))
    BY <1>2, RollbackUnknownVerdict
  <2> HIDE DEF y, n
  <2>5. CASE transition(p, rollbackStep(n, s), "rbVerifying", "release")
    BY <1>3, <2>2, <2>5
  <2>6. CASE transition(p, possibleRollbackSend(m), "rbReadUnknown",
                        "release")
    BY <1>3, <2>3, <2>6
  <2>7. CASE persist(p, persistRollbackUnknown(m), "release", "release")
    BY <1>1, <2>4, <2>7, VerdictPreserves DEF m
  <2> QED BY <2>1, <2>5, <2>6, <2>7
<1> QED BY <1>4, <1>5

-----------------------------------------------------------------------------
(* The write frames.                                                        *)

\* What FullWriteIfCurrent leaves behind.
LEMMA FullWriteResult ==
    ASSUME CallTypes, NEW p \in Processes, NEW v \in MaybeValue,
           device \in MaybeValue, NEW g, NEW a, fullWrite(p, v, g, a)
    PROVE  /\ device' \in MaybeValue
           /\ call'[p].at = a /\ call'[p].ref = call[p].ref /\ Others(p)
<1>1. PICK res : call' = [call EXCEPT ![p].at = a, ![p].result = res]
  BY DEF fullWrite
<1>2. device' \in {device, v}
  BY DEF fullWrite
<1> QED BY <1>1, <1>2 DEF CallTypes, Locals, Others

\* A process that has written: no frame left, or one more.
LEMMA WrittenPreserves ==
    ASSUME RecordsInv, LeaseInv', NEW p \in Processes,
           NEW x \in {"dispatch", "rbDispatch"}, call[p].at = x,
           call'[p].at = IF x = "dispatch" THEN "written" ELSE "rbWritten",
           call'[p].ref = call[p].ref, Others(p), device' \in MaybeValue,
           frames' = IF call'[p].result = "notSent" THEN frames
                     ELSE IF x = "dispatch"
                     THEN [frames EXCEPT ![call[p].ref].forward = @ + 1]
                     ELSE [frames EXCEPT ![call[p].ref].rollback = @ + 1],
           UNCHANGED <<phase, memory, journal, generation>>
    PROVE  RecordsInv'
<1> DEFINE r == call[p].ref
           f == frames'[r]
<1>1. call[p].at \in DurablePoints
  BY DEF DurablePoints, Leased, UndurablePoints
<1>2. /\ leased(p) /\ r \in Refs /\ entries[r] # NoEntry /\ durable(r)
      /\ entries[r].mutation.state = last[r].mutation.state
      /\ entries[r].mutation.accepted # "nil" => frames[r].forward = 1
      /\ PointFits(x, call[p].result, last[r], frames[r])
      /\ frames[r] \in Frames /\ phase \in {"running", "closed"}
  BY <1>1, DurableHolder
<1>3. /\ ProcessFits(p) /\ ~poisoned /\ tail = NoEntry
      /\ x = "dispatch" => p \in SetCalls /\ r = p.key
      /\ RecordOf(r, last[r], frames[r])
  <2>1. ProcessFits(p)
    BY DEF RecordsInv, PointsInv
  <2> QED BY <1>2, <2>1 DEF ProcessFits, RecordsInv, TailInv, SetPoints,
             JournalInv
<1>4. UNCHANGED <<entries, idempotency, timers, writer, quarantined, closed,
                  last, bound, readable, tail, poisoned>>
  BY DEF memory, journal
<1>5. frames \in [Refs -> Frames]
  BY DEF RecordsInv, TypeOK, Frames
<1>6. /\ \A r2 \in Refs \ {r} : frames'[r2] = frames[r2]
      /\ frames' \in [Refs -> Frames]
      /\ f.forward = IF x = "dispatch" /\ call'[p].result # "notSent"
                     THEN frames[r].forward + 1 ELSE frames[r].forward
      /\ f.rollback = IF x = "rbDispatch" /\ call'[p].result # "notSent"
                      THEN frames[r].rollback + 1 ELSE frames[r].rollback
  <2> DEFINE up == [frames[r] EXCEPT !.forward = @ + 1]
             back == [frames[r] EXCEPT !.rollback = @ + 1]
  <2>1. /\ up \in Frames /\ up.forward = frames[r].forward + 1
        /\ up.rollback = frames[r].rollback
        /\ back \in Frames /\ back.rollback = frames[r].rollback + 1
        /\ back.forward = frames[r].forward
    BY <1>2 DEF Frames
  <2>2. frames' = IF call'[p].result = "notSent" THEN frames
                  ELSE [frames EXCEPT ![r] = IF x = "dispatch" THEN up
                                                               ELSE back]
    BY <1>2, <1>5
  <2> HIDE DEF up, back
  <2> QED BY <1>2, <1>5, <2>1, <2>2
<1>7. /\ x = "dispatch" => /\ frames[r].forward = 0
                           /\ last[r].mutation.state = "dispatch_intent"
      /\ x = "rbDispatch" =>
            /\ frames[r].rollback = 0
            /\ last[r].mutation.state = "rollback_dispatch_intent"
      /\ frames[r].forward \in {0, 1} /\ frames[r].rollback \in {0, 1}
  <2>1. frames[r].forward <= 1 /\ frames[r].rollback <= 1
    BY <1>2 DEF RecordsInv, AtMostOneFrame
  <2> QED BY <1>2, <2>1 DEF PointFits, Frames
<1>8. f.forward \in {0, 1} /\ f.rollback \in {0, 1}
  BY <1>6, <1>7
<1>9. TypeOK'
  BY <1>4, <1>6 DEF RecordsInv, TypeOK, LeaseInv, CallTypes, Locals, Frames
<1>10. AtMostOneFrame'
  BY <1>6, <1>8 DEF RecordsInv, AtMostOneFrame
<1>11. JournalInv'
  <2>1. RecordOf(r, last[r], f)
    BY <1>2, <1>3, <1>6, <1>7, <1>8 DEF RecordOf, Evidence
  <2>2. \A r2 \in Refs : durable(r2) =>
         /\ RecordOf(r2, last[r2], frames'[r2])
         /\ last[r2].mutation.state = "rollback_intent" =>
              frames'[r2].rollback = 0
         /\ bound[setIdentityOf(r2)] # NoEntry
    BY <1>6, <1>7, <2>1 DEF RecordsInv, JournalInv
  <2>3. \A r2 \in Refs : ~durable(r2) => frames'[r2].forward = 0
    BY <1>2, <1>6 DEF RecordsInv, JournalInv
  <2> QED BY <1>4, <2>2, <2>3 DEF RecordsInv, JournalInv, durable
<1>12. EntriesInv'
  <2>1. entries[r].mutation.accepted # "nil" => f.forward = 1
    BY <1>2, <1>6, <1>7
  <2> QED BY <1>4, <1>6, <2>1 DEF RecordsInv, EntriesInv, durable
<1>13. TailInv' /\ IdempotencyInv' /\ PublishedInv' /\ DownInv'
  BY <1>2, <1>3, <1>4 DEF RecordsInv, TailInv, IdempotencyInv, PublishedInv,
     DownInv, durable, quarantines
<1>14. PointsInv'
  <2>1. PointFits(call'[p].at, call'[p].result, last[r], f)
    BY <1>2, <1>6, <1>7 DEF PointFits, UndurablePoints, DurablePoints, durable
  <2>2. ProcessFits(p)'
    BY <1>2, <1>3, <1>4, <2>1 DEF ProcessFits, SetPoints, FramePoints
  <2> QED BY <1>2, <2>2, OthersFit DEF RecordsInv
<1>15. Owned'
  BY <1>2, <1>4, OthersDurable DEF Owned, durable
<1> QED BY <1>9, <1>10, <1>11, <1>12, <1>13, <1>14, <1>15 DEF RecordsInv

LEMMA DispatchPreserves ==
    ASSUME RecordsInv, LeaseInv', NEW c \in SetCalls, Dispatch(c)
    PROVE  RecordsInv'
<1> DEFINE m == working(c)
<1>1. /\ call[c].at = "dispatch" /\ call[c].at \in SetPoints
      /\ fullWrite(c, m.requested, m.generation, "written")
      /\ UNCHANGED <<phase, memory, journal, generation>>
      /\ frames' = IF call'[c].result = "notSent" THEN frames
                   ELSE [frames EXCEPT ![c.key].forward = @ + 1]
  BY DEF Dispatch, SetPoints
<1>2. /\ c \in Processes /\ CallTypes /\ call[c].ref = c.key
      /\ m.requested \in MaybeValue /\ device \in MaybeValue
  BY <1>1, SetHolder DEF Mutations, MaybeValue, RecordsInv, TypeOK
<1> HIDE DEF m
<1>3. /\ device' \in MaybeValue
      /\ call'[c].at = "written" /\ call'[c].ref = call[c].ref /\ Others(c)
  BY <1>1, <1>2, FullWriteResult
<1> QED BY <1>1, <1>2, <1>3, WrittenPreserves

LEMMA RollbackDispatchPreserves ==
    ASSUME RecordsInv, LeaseInv', NEW p \in Processes, RollbackDispatch(p)
    PROVE  RecordsInv'
<1> DEFINE m == working(p)
<1>1. /\ call[p].at = "rbDispatch" /\ call[p].at \in DurablePoints
      /\ fullWrite(p, m.before, m.generation, "rbWritten")
      /\ UNCHANGED <<phase, memory, journal, generation>>
      /\ frames' = IF call'[p].result = "notSent" THEN frames
                   ELSE [frames EXCEPT ![call[p].ref].rollback = @ + 1]
  BY DEF RollbackDispatch, DurablePoints, Leased, UndurablePoints
<1>2. CallTypes /\ m.before \in MaybeValue /\ device \in MaybeValue
  BY <1>1, DurableHolder DEF Mutations, RecordsInv, TypeOK
<1> HIDE DEF m
<1>3. /\ device' \in MaybeValue
      /\ call'[p].at = "rbWritten" /\ call'[p].ref = call[p].ref /\ Others(p)
  BY <1>1, <1>2, FullWriteResult
<1> QED BY <1>1, <1>2, <1>3, WrittenPreserves

-----------------------------------------------------------------------------
(* Giving back the reservation and the lease; MutationsRollback.            *)

LEMMA ReleaseReservationPreserves ==
    ASSUME RecordsInv, LeaseInv', NEW p \in Processes, ReleaseReservation(p)
    PROVE  RecordsInv'
<1> DEFINE r == call[p].ref
           e == entries[r]
           id == e.identity
<1>1. call[p].at = "unreserve" /\ Goto(p, "release") /\ "release" \in Points
  BY DEF ReleaseReservation, Points, Leased
<1>2. leased(p) /\ CallTypes /\ ProcessFits(p)
  BY <1>1 DEF leased, Leased, RecordsInv, LeaseInv, PointsInv
<1>3. r \in Refs /\ e # NoEntry /\ e \in Entries /\ id \in Identities
  BY <1>1, <1>2 DEF ProcessFits, RecordsInv, TypeOK, Entries
<1>4. /\ call'[p].at = "release" /\ call'[p].ref = r /\ Others(p)
      /\ call'[p].result = call[p].result
  BY <1>1, <1>2, GotoMoves, GotoKeeps
<1>5. UNCHANGED <<phase, timers, writer, quarantined, closed, last, bound,
                  readable, tail, poisoned, device, generation, frames,
                  journal, remote>>
  BY DEF ReleaseReservation, journal, remote
<1>6. phase \in {"running", "closed"}
  BY <1>2, HolderRuns
<1>7. PointFits("release", call[p].result, last[r], frames[r])
  BY DEF PointFits, UndurablePoints, DurablePoints
<1>8. CASE durable(r)
  <2>1. UNCHANGED <<entries, idempotency>>
    BY <1>8 DEF ReleaseReservation
  <2>2. ProcessFits(p)'
    BY <1>3, <1>4, <1>5, <1>7, <1>8, <2>1
       DEF ProcessFits, SetPoints, FramePoints, durable
  <2>3. timers' \subseteq Timers /\ writer' \in BOOLEAN
    BY <1>5 DEF RecordsInv, TypeOK
  <2> QED BY <1>2, <1>4, <1>5, <1>6, <1>8, <2>1, <2>2, <2>3, PositionPreserves
<1>9. CASE ~durable(r)
  <2>1. /\ entries' = [entries EXCEPT ![r] = NoEntry]
        /\ idempotency' = IF idempotency[id] # NoEntry
                             /\ idempotency[id].ref = r
                          THEN [idempotency EXCEPT ![id] = NoEntry]
                          ELSE idempotency
    BY <1>3, <1>9 DEF ReleaseReservation
  <2>2. id = setIdentityOf(r)
    BY <1>3, <1>9 DEF RecordsInv, EntriesInv
  <2> HIDE DEF id
  <2>3. /\ entries'[r] = NoEntry
        /\ \A r2 \in Refs \ {r} : entries'[r2] = entries[r2]
        /\ entries' \in [Refs -> Entries \cup {NoEntry}]
    BY <1>3, <2>1 DEF RecordsInv, TypeOK
  <2>4. /\ idempotency' \in [Identities -> Bindings \cup {NoEntry}]
        /\ \A i \in Identities \ {id} : idempotency'[i] = idempotency[i]
        /\ idempotency'[id] = NoEntry
              \/ (idempotency'[id] = idempotency[id]
                  /\ idempotency[id].ref # r)
    BY <1>3, <2>1 DEF RecordsInv, TypeOK
  <2>5. TypeOK'
    BY <1>5, <2>3, <2>4 DEF RecordsInv, TypeOK, LeaseInv, CallTypes, Locals
  <2>6. JournalInv' /\ TailInv' /\ AtMostOneFrame'
    BY <1>5 DEF RecordsInv, JournalInv, TailInv, AtMostOneFrame, durable
  <2>7. EntriesInv'
    BY <1>5, <2>3 DEF RecordsInv, EntriesInv, durable
  <2>8. IdempotencyInv'
    <3> SUFFICES ASSUME NEW i \in Identities, idempotency'[i] # NoEntry
                 PROVE  /\ entries'[idempotency'[i].ref] # NoEntry
                        /\ last[idempotency'[i].ref] = NoEntry =>
                             i = setIdentityOf(idempotency'[i].ref)
      BY <1>5 DEF IdempotencyInv, durable
    <3>1. idempotency'[i] = idempotency[i] /\ idempotency[i].ref \in Refs
      BY <2>4 DEF RecordsInv, TypeOK, Bindings
    <3>2. idempotency[i].ref # r
      BY <1>9, <2>2, <2>4, <3>1 DEF RecordsInv, IdempotencyInv
    <3> QED BY <2>3, <3>1, <3>2 DEF RecordsInv, IdempotencyInv, durable
  <2>9. PublishedInv' /\ DownInv'
    <3>1. \A r2 \in Refs : durable(r2) =>
            r2 # r /\ setIdentityOf(r2) # id /\ setIdentityOf(r2) \in Identities
      BY <1>9, <2>2 DEF setIdentityOf, Identities
    <3>2. \A r2 \in Refs : durable(r2) => entries'[r2] # NoEntry
              /\ idempotency'[setIdentityOf(r2)] # NoEntry
      BY <1>6, <2>3, <2>4, <3>1 DEF RecordsInv, PublishedInv
    <3> QED BY <1>5, <1>6, <3>2 DEF RecordsInv, PublishedInv, DownInv,
               durable, quarantines
  <2>10. PointsInv'
    <3>1. ProcessFits(p)'
      BY <1>3, <1>4, <1>5, <1>7, <2>3
         DEF ProcessFits, SetPoints, FramePoints, durable
    <3> QED BY <1>2, <1>4, <3>1, OthersFit DEF RecordsInv
  <2>11. Owned'
    BY <1>2, <1>5, <2>3, OthersDurable DEF Owned, durable
  <2> QED BY <2>5, <2>6, <2>7, <2>8, <2>9, <2>10, <2>11 DEF RecordsInv
<1> QED BY <1>8, <1>9

LEMMA ReleaseWriterPreserves ==
    ASSUME RecordsInv, LeaseInv', NEW p \in Processes, ReleaseWriter(p)
    PROVE  RecordsInv'
<1>1. /\ call[p].at = "release" /\ Return(p) /\ writer' = FALSE
      /\ UNCHANGED <<phase, entries, idempotency, timers, quarantined, closed,
                     journal, remote>>
  BY DEF ReleaseWriter
<1>2. leased(p) /\ CallTypes
  BY <1>1 DEF leased, Leased, RecordsInv, LeaseInv
<1>3. Others(p) /\ ~leased(p)'
  BY <1>1, <1>2, ReturnMoves DEF leased
<1>4. timers' \subseteq Timers
  BY <1>1 DEF RecordsInv, TypeOK
<1> QED BY <1>1, <1>2, <1>3, <1>4, HolderRuns, WaitingPreserves

\* The working copy of a durable mutation gets another identity.
LEMMA StampPreserves ==
    ASSUME RecordsInv, LeaseInv', NEW p \in Processes, Others(p),
           ~writer, writer' = TRUE, ~quarantined,
           NEW r \in Refs, call'[p].ref = r, durable(r), entries[r] # NoEntry,
           call'[p].at \in {"recover", "rbStart"},
           NEW id \in Identities, NEW req \in Bindings, req.ref = r,
           entries' = [entries EXCEPT ![r].identity = id, ![r].request = req],
           phase = "running", timers' \subseteq Timers,
           UNCHANGED <<phase, idempotency, quarantined, closed, journal,
                       remote>>
    PROVE  RecordsInv'
<1> DEFINE e == entries[r]
           x == [e EXCEPT !.identity = id, !.request = req]
<1>1. e \in Entries
  BY DEF RecordsInv, TypeOK
<1>2. /\ x \in Entries /\ x.mutation = e.mutation
      /\ x.request = req /\ x # NoEntry
  BY <1>1, NoEntryAssumption DEF Entries
<1>3. /\ entries'[r] = x
      /\ \A r2 \in Refs \ {r} : entries'[r2] = entries[r2]
      /\ entries' \in [Refs -> Entries \cup {NoEntry}]
  <2>1. entries' = [entries EXCEPT ![r] = x]
    BY DEF RecordsInv, TypeOK
  <2>2. entries \in [Refs -> Entries \cup {NoEntry}] /\ r \in Refs
    BY DEF RecordsInv, TypeOK
  <2>3. x \in Entries \cup {NoEntry}
    BY <1>2
  <2> HIDE DEF x
  <2> QED BY ONLY <2>1, <2>2, <2>3
<1> HIDE DEF x
<1>4. UNCHANGED <<last, bound, readable, tail, poisoned, device, generation,
                  frames>>
  BY DEF journal, remote
<1>5. TypeOK'
  BY <1>3, <1>4 DEF RecordsInv, TypeOK, LeaseInv, CallTypes, Locals
<1>6. JournalInv' /\ TailInv' /\ AtMostOneFrame'
  BY <1>4 DEF RecordsInv, JournalInv, TailInv, AtMostOneFrame, durable
<1>7. EntriesInv'
  BY <1>2, <1>3, <1>4 DEF RecordsInv, EntriesInv, durable
<1>8. IdempotencyInv' /\ PublishedInv' /\ DownInv'
  BY <1>2, <1>3, <1>4 DEF RecordsInv, IdempotencyInv, PublishedInv,
     DownInv, durable, TypeOK, Bindings, quarantines
<1>9. PointsInv'
  <2>1. PointFits(call'[p].at, call'[p].result, last[r], frames[r])
    BY DEF PointFits, UndurablePoints, DurablePoints, durable
  <2>2. ProcessFits(p)'
    BY <1>2, <1>3, <1>4, <2>1 DEF ProcessFits, SetPoints, FramePoints
  <2> QED BY <2>2, OthersFit DEF RecordsInv
<1>10. Owned'
  <2>1. \A c \in SetCalls : call[c].at \notin OwnerPoints
    BY DEF RecordsInv, LeaseInv, WriterExclusive, leased, Leased,
           OwnerPoints, Processes
  <2> QED BY <1>2, <1>3, <1>4, <2>1 DEF RecordsInv, Owned, OwnerPoints,
             durable
<1> QED BY <1>5, <1>6, <1>7, <1>8, <1>9, <1>10 DEF RecordsInv

LEMMA BeginRollbackPreserves ==
    ASSUME RecordsInv, LeaseInv', NEW c \in RollbackCalls, BeginRollback(c)
    PROVE  RecordsInv'
<1> DEFINE r == c.ref
           id == rollbackIdentity(c)
           req == rollbackBinding(c)
           recovering == rawMutationStateNeedsRecovery(snapshotState(r))
<1>1. c \in Processes /\ CallTypes /\ r \in Refs /\ phase = "running"
      /\ ~quarantined /\ ~writer /\ writer' = TRUE
      /\ UNCHANGED <<phase, idempotency, quarantined, closed, journal, remote>>
  BY CoordinatorAssumption
     DEF BeginRollback, Processes, RecordsInv, LeaseInv
<1>2. id \in Identities /\ req \in Bindings /\ req.ref = r
  <2>1. c \in [id : CallIds, key : RollbackKeys, ref : Refs]
    BY CoordinatorAssumption
  <2> QED BY <2>1 DEF rollbackIdentity, rollbackBinding, Identities, Bindings,
             MaybeValue
<1>3. PICK a \in {"recover", "rbStart"} :
        call' = [call EXCEPT ![c] = [Idle EXCEPT !.at = a, !.ref = r]]
  BY DEF BeginRollback
<1>4. Others(c) /\ call'[c].at = a /\ call'[c].ref = r
  BY <1>1, <1>3 DEF CallTypes, Others, Idle
<1>5. timers' \subseteq Timers
  BY DEF BeginRollback, RecordsInv, TypeOK
<1>6. recovering => durable(r)
  BY DEF snapshotState, rawMutationStateNeedsRecovery, Reserved
<1>7. CASE recovering /\ entries' = entries
  BY <1>1, <1>3, <1>4, <1>5, <1>6, <1>7, TakingPreserves
<1>8. CASE /\ entries[r] # NoEntry
           /\ entries' = [entries EXCEPT ![r].identity = id,
                                         ![r].request = req]
  <2>1. durable(r)
    <3>1. \A d \in SetCalls : call[d].at \notin OwnerPoints
      BY <1>1 DEF RecordsInv, LeaseInv, WriterExclusive, leased, Leased,
           OwnerPoints, Processes
    <3> QED BY <1>1, <1>8, <3>1 DEF RecordsInv, Owned, OwnerPoints
  <2>2. a \in {"recover", "rbStart"}
    BY <1>3
  <2> HIDE DEF id, req
  <2>3. /\ c \in Processes /\ Others(c) /\ ~writer /\ writer' = TRUE
        /\ ~quarantined /\ r \in Refs /\ call'[c].ref = r
        /\ call'[c].at \in {"recover", "rbStart"} /\ phase = "running"
    BY <1>1, <1>4, <2>2
  <2> HIDE DEF r
  <2> QED BY <1>1, <1>2, <1>5, <1>8, <2>1, <2>3, StampPreserves
<1> QED BY <1>7, <1>8 DEF BeginRollback

-----------------------------------------------------------------------------
(* Timers and the life cycle.                                               *)

LEMMA TimerStepPreserves ==
    ASSUME RecordsInv, LeaseInv', NEW t \in Timers, TimerStep(t)
    PROVE  RecordsInv'
<1>1. /\ t \in Processes /\ CallTypes /\ timers \subseteq Timers
      /\ writer \in BOOLEAN /\ t.ref \in Refs
  BY DEF Processes, RecordsInv, LeaseInv, TypeOK, Timers
<1>2. {"acquire", "retry"} \subseteq Points \ Leased
  BY DEF Points, Leased
<1>3. phase \in {"running", "closed"}
  <2>1. CASE Fire(t)
    BY <2>1 DEF Fire, RecordsInv, DownInv, TypeOK
  <2>2. CASE AcquireWriter(t) \/ AcquireTimeout(t) \/ Reschedule(t)
    <3>1. call[t] # Idle
      BY <2>2 DEF AcquireWriter, AcquireTimeout, Reschedule, Idle
    <3> QED BY <1>1, <3>1 DEF RecordsInv, DownInv, TypeOK
  <2> QED BY <2>1, <2>2 DEF TimerStep
<1>4. UNCHANGED <<phase, entries, idempotency, quarantined, closed, journal,
                  remote>>
  BY DEF TimerStep, Fire, AcquireWriter, AcquireTimeout, Reschedule, memory
<1>5. timers' \subseteq Timers
  BY <1>1 DEF TimerStep, Fire, AcquireWriter, AcquireTimeout, Reschedule,
              memory
<1>6. ~leased(t)
  BY <1>2 DEF TimerStep, Fire, AcquireWriter, AcquireTimeout, Reschedule,
              leased, Idle, Leased
<1>7. CASE UNCHANGED writer /\ (Return(t) \/ Goto(t, "acquire")
                                \/ Goto(t, "retry"))
  <2>1. Others(t) /\ ~leased(t)'
    BY <1>1, <1>2, <1>7, ReturnMoves, GotoMoves DEF leased
  <2> QED BY <1>1, <1>3, <1>4, <1>5, <1>6, <1>7, <2>1, WaitingPreserves
<1>8. CASE /\ ~quarantined /\ ~writer /\ writer' = TRUE
           /\ call' = [call EXCEPT ![t].ref = t.ref,
                                   ![t].at = afterAcquire(t)]
  <2>1. /\ Others(t) /\ call'[t].ref = t.ref
        /\ call'[t].at = afterAcquire(t)
    BY <1>1, <1>8 DEF CallTypes, Locals, Others
  <2>2. \/ afterAcquire(t) = "release"
        \/ afterAcquire(t) \in {"rbStart", "recover"} /\ durable(t.ref)
    <3>1. eligible(t) => durable(t.ref)
      BY DEF eligible, snapshotState, rawMutationStateNeedsRecovery, Reserved
    <3> QED BY <3>1 DEF afterAcquire
  <2> QED BY <1>1, <1>3, <1>4, <1>5, <1>8, <2>1, <2>2, TakingPreserves
<1> QED BY <1>7, <1>8 DEF TimerStep, Fire, AcquireWriter, AcquireTimeout,
           Reschedule, memory

\* restore() over the records that are there.
LEMMA OpenPreserves ==
    ASSUME RecordsInv, LeaseInv', Open
    PROVE  RecordsInv'
<1>1. /\ phase = "down" /\ UNCHANGED <<writer, closed, call, last, bound,
            readable, tail, poisoned, device, generation, frames>>
  BY DEF Open, journal, remote
<1>2. /\ \A p \in Processes : ~leased(p)'
      /\ \A p \in Processes : call[p] = Idle
  BY <1>1 DEF RecordsInv, DownInv, leased, Leased, Idle
<1>3. PointsInv'
  BY <1>2 DEF PointsInv, ProcessFits
<1>4. CASE readable
  <2>1. /\ phase' = "running" /\ entries' = last /\ idempotency' = bound
        /\ quarantined' = quarantines(last) /\ timers' \subseteq Timers
    BY <1>4 DEF Open
  <2>2. quarantined' \in BOOLEAN /\ quarantines(last)' = quarantines(last)
    BY <1>1, <2>1, Zenon DEF quarantines
  <2>3. TypeOK'
    BY <1>1, <2>1, <2>2 DEF RecordsInv, TypeOK
  <2>4. JournalInv' /\ TailInv' /\ AtMostOneFrame'
    BY <1>1 DEF RecordsInv, JournalInv, TailInv, AtMostOneFrame, durable
  <2>5. EntriesInv'
    BY <1>1, <2>1 DEF RecordsInv, EntriesInv, JournalInv, RecordOf, Evidence,
       durable
  <2>6. IdempotencyInv' /\ PublishedInv' /\ DownInv' /\ Owned'
    BY <1>1, <2>1, <2>2 DEF RecordsInv, JournalInv, IdempotencyInv,
       PublishedInv, DownInv, Owned, durable
  <2> QED BY <1>3, <2>3, <2>4, <2>5, <2>6 DEF RecordsInv
<1>5. CASE ~readable
  <2>1. /\ phase' = "refused"
        /\ UNCHANGED <<entries, idempotency, quarantined, timers>>
    BY <1>5 DEF Open
  <2>2. TypeOK'
    BY <1>1, <2>1 DEF RecordsInv, TypeOK
  <2>3. JournalInv' /\ TailInv' /\ AtMostOneFrame'
    BY <1>1 DEF RecordsInv, JournalInv, TailInv, AtMostOneFrame, durable
  <2>4. EntriesInv' /\ IdempotencyInv' /\ PublishedInv' /\ DownInv' /\ Owned'
    BY <1>1, <2>1 DEF RecordsInv, EntriesInv, IdempotencyInv, PublishedInv,
       DownInv, Owned, durable
  <2> QED BY <1>3, <2>2, <2>3, <2>4 DEF RecordsInv
<1> QED BY <1>4, <1>5

\* A crash or a new coordinator: memory is empty, and a failed append may
\* have reached the disk.
LEMMA ForgetPreserves ==
    ASSUME RecordsInv, LeaseInv', forget, UNCHANGED <<device, generation>>
    PROVE  RecordsInv'
<1>1. /\ phase' = "down" /\ timers' = {} /\ writer' = FALSE
      /\ quarantined' = FALSE /\ closed' = FALSE
      /\ entries' = [r \in Refs |-> NoEntry]
      /\ idempotency' = [i \in Identities |-> NoEntry]
      /\ call' = [p \in Processes |-> Idle]
      /\ poisoned' = FALSE /\ tail' = NoEntry
  BY DEF forget
<1>2. /\ EntriesInv' /\ IdempotencyInv' /\ PublishedInv' /\ DownInv'
      /\ Owned' /\ TailInv'
  BY <1>1 DEF EntriesInv, IdempotencyInv, PublishedInv, DownInv, Owned,
     TailInv, RecordsInv, TypeOK, JournalInv, Identities, Bindings
<1>3. PointsInv'
  BY <1>1 DEF PointsInv, ProcessFits, leased, Leased, Idle
<1>4. /\ JournalInv' /\ AtMostOneFrame' /\ readable' \in BOOLEAN
      /\ last' \in [Refs -> Entries \cup {NoEntry}]
      /\ bound' \in [Identities -> Bindings \cup {NoEntry}]
      /\ frames' \in [Refs -> Frames]
  <2>0. frames \in [Refs -> Frames]
    BY DEF RecordsInv, TypeOK, Frames
  <2>1. CASE UNCHANGED <<last, bound, readable, frames>>
    BY <2>0, <2>1 DEF RecordsInv, TypeOK, JournalInv, AtMostOneFrame, durable
  <2>2. CASE /\ tail # NoEntry
             /\ appendDurably(tail.request.ref, tail)
             /\ frames' = IF tail.mutation.state = "rollback_intent"
                          THEN [frames EXCEPT ![tail.request.ref].rollback = 0]
                          ELSE frames
    <3> DEFINE r == tail.request.ref
               id == tail.identity
               req == tail.request
    <3>1. /\ tail \in Entries /\ r \in Refs /\ id \in Identities
          /\ req \in Bindings /\ req # NoEntry
      BY <2>2, NoEntryAssumption DEF RecordsInv, TypeOK, Entries, Bindings
    <3>2. /\ RecordOf(r, tail, frames[r])
          /\ ~durable(r) => id = setIdentityOf(r)
      BY <2>2 DEF RecordsInv, TailInv
    <3>3. /\ last'[r] = tail
          /\ \A r2 \in Refs \ {r} : last'[r2] = last[r2]
          /\ last' \in [Refs -> Entries \cup {NoEntry}]
      BY <2>2, <3>1 DEF appendDurably, RecordsInv, TypeOK
    <3>4. /\ bound'[id] = req
          /\ \A i \in Identities \ {id} : bound'[i] = bound[i]
          /\ bound' \in [Identities -> Bindings \cup {NoEntry}]
      BY <2>2, <3>1 DEF appendDurably, RecordsInv, TypeOK
    <3>5. /\ frames'[r].forward = frames[r].forward
          /\ frames'[r].rollback \in {0, frames[r].rollback}
          /\ tail.mutation.state = "rollback_intent" =>
                frames'[r].rollback = 0
          /\ \A r2 \in Refs \ {r} : frames'[r2] = frames[r2]
          /\ frames' \in [Refs -> Frames]
      <4> DEFINE z == [frames[r] EXCEPT !.rollback = 0]
      <4>1. z \in Frames /\ z.forward = frames[r].forward /\ z.rollback = 0
        BY <2>0, <3>1 DEF Frames
      <4>2. frames' = IF tail.mutation.state = "rollback_intent"
                      THEN [frames EXCEPT ![r] = z] ELSE frames
        BY <2>2
      <4> HIDE DEF z
      <4> QED BY <2>0, <3>1, <4>1, <4>2
    <3>6. readable' \in BOOLEAN
      BY <2>2, Zenon DEF appendDurably
    <3>7. AtMostOneFrame'
      BY <3>5 DEF RecordsInv, AtMostOneFrame
    <3>8. RecordOf(r, last'[r], frames'[r])
      BY <3>2, <3>3, <3>5 DEF RecordOf, Evidence
    <3>9. \A r2 \in Refs : last'[r2] # NoEntry => durable(r2) \/ r2 = r
      BY <3>3 DEF durable
    <3>10. \A r2 \in Refs : last'[r2] # NoEntry =>
             bound'[setIdentityOf(r2)] # NoEntry
      <4> SUFFICES ASSUME NEW r2 \in Refs, last'[r2] # NoEntry
                   PROVE  bound'[setIdentityOf(r2)] # NoEntry
        OBVIOUS
      <4>1. setIdentityOf(r2) \in Identities
        BY DEF setIdentityOf, Identities
      <4>2. CASE durable(r2)
        BY <3>1, <3>4, <4>1, <4>2 DEF RecordsInv, JournalInv
      <4>3. CASE ~durable(r2)
        BY <3>1, <3>2, <3>4, <3>9, <4>3
      <4> QED BY <4>2, <4>3
    <3>11. \A i \in Identities : bound'[i] # NoEntry =>
             last'[bound'[i].ref] # NoEntry
      <4> SUFFICES ASSUME NEW i \in Identities, bound'[i] # NoEntry
                   PROVE  last'[bound'[i].ref] # NoEntry
        OBVIOUS
      <4>1. CASE i = id
        BY <2>2, <3>3, <3>4, <4>1
      <4>2. CASE i # id
        <5>1. bound'[i] = bound[i] /\ bound[i].ref \in Refs
          BY <3>4, <4>2 DEF RecordsInv, TypeOK, Bindings
        <5> QED BY <2>2, <3>3, <5>1 DEF RecordsInv, JournalInv, durable
      <4> QED BY <4>1, <4>2
    <3>12. \A r2 \in Refs : last'[r2] # NoEntry =>
             /\ RecordOf(r2, last'[r2], frames'[r2])
             /\ last'[r2].mutation.state = "rollback_intent" =>
                  frames'[r2].rollback = 0
      BY <3>3, <3>5, <3>8 DEF RecordsInv, JournalInv, durable
    <3>13. \A r2 \in Refs : last'[r2] = NoEntry => frames'[r2].forward = 0
      BY <2>2, <3>3, <3>5 DEF RecordsInv, JournalInv, durable
    <3>14. JournalInv'
      BY <3>10, <3>11, <3>12, <3>13 DEF JournalInv, durable
    <3> QED BY <3>3, <3>4, <3>5, <3>6, <3>7, <3>14
  <2> QED BY <2>1, <2>2 DEF forget
<1>5. TypeOK'
  <2>1. Idle \in Locals
    BY DEF Idle, Locals, Points, NoToken, MaybeValue, Results
  <2> QED BY <1>1, <1>4, <2>1 DEF RecordsInv, TypeOK, Locals, Frames
<1> QED BY <1>2, <1>3, <1>4, <1>5 DEF RecordsInv

-----------------------------------------------------------------------------
(* The theorems.                                                            *)

LEMMA InitRecordsInv == Init => RecordsInv
<1> SUFFICES ASSUME Init PROVE RecordsInv
  OBVIOUS
<1>1. LeaseInv
  BY InitLeaseInv
<1>2. /\ entries = [r \in Refs |-> NoEntry]
      /\ idempotency = [i \in Identities |-> NoEntry]
      /\ last = [r \in Refs |-> NoEntry]
      /\ bound = [i \in Identities |-> NoEntry]
      /\ frames = [r \in Refs |-> [forward |-> 0, rollback |-> 0]]
      /\ phase = "down" /\ timers = {} /\ ~writer /\ tail = NoEntry
      /\ call = [p \in Processes |-> Idle]
  BY DEF Init
<1>3. TypeOK
  <2>1. Idle \in Locals
    BY DEF Idle, Locals, Points, NoToken, MaybeValue, Results
  <2>2. generation \in 1..MaxGeneration
    BY CoordinatorAssumption DEF Init
  <2>3. /\ call \in [Processes -> Locals]
        /\ frames \in [Refs -> Frames]
    BY <1>2, <2>1 DEF Frames
  <2>4. /\ writer \in BOOLEAN /\ quarantined \in BOOLEAN
        /\ closed \in BOOLEAN /\ readable \in BOOLEAN
        /\ poisoned \in BOOLEAN /\ device \in MaybeValue
    BY DEF Init, MaybeValue
  <2>5. /\ entries \in [Refs -> Entries \cup {NoEntry}]
        /\ last \in [Refs -> Entries \cup {NoEntry}]
        /\ idempotency \in [Identities -> Bindings \cup {NoEntry}]
        /\ bound \in [Identities -> Bindings \cup {NoEntry}]
    BY <1>2
  <2> QED BY <1>2, <2>2, <2>3, <2>4, <2>5 DEF TypeOK, Locals, Frames
<1>4. /\ JournalInv /\ TailInv /\ EntriesInv /\ IdempotencyInv
      /\ PublishedInv /\ DownInv /\ Owned /\ AtMostOneFrame
  BY <1>2 DEF JournalInv, TailInv, EntriesInv, IdempotencyInv, PublishedInv,
     DownInv, Owned, AtMostOneFrame, durable
<1>5. PointsInv
  BY <1>2 DEF PointsInv, ProcessFits, leased, Leased, Idle
<1> QED BY <1>1, <1>3, <1>4, <1>5 DEF RecordsInv

LEMMA NextRecordsInv == RecordsInv /\ [Next]_vars => RecordsInv'
<1> SUFFICES ASSUME RecordsInv, [Next]_vars PROVE RecordsInv'
  OBVIOUS
<1>0. LeaseInv'
  BY NextLeaseInv DEF RecordsInv
<1>1. ASSUME NEW c \in SetCalls, SetStep(c) PROVE RecordsInv'
  <2>1. c \in Processes
    BY DEF Processes
  <2> QED BY <1>0, <1>1, <2>1, UnreservedPreserves, ReserveSetPreserves,
             BindPreserves, GuardReadPreserves, ForwardPreserves,
             DispatchPreserves, CompleteOriginalWritePreserves,
             ReadbackPreserves DEF SetStep
<1>2. ASSUME NEW p \in Processes, LeasedStep(p) PROVE RecordsInv'
  BY <1>0, <1>2, RecoverEntryPreserves, ReadbackPreserves,
     StartRollbackPreserves, RollbackReadPreserves,
     RollbackDispatchPreserves, CompleteRollbackWritePreserves,
     ReleaseReservationPreserves, ReleaseWriterPreserves DEF LeasedStep
<1>3. CASE \E c \in RollbackCalls : BeginRollback(c)
  BY <1>0, <1>3, BeginRollbackPreserves
<1>4. CASE \E t \in Timers : TimerStep(t)
  BY <1>0, <1>4, TimerStepPreserves
<1>5. CASE Crash \/ Reopen
  BY <1>0, <1>5, ForgetPreserves DEF Crash, Reopen
<1>6. CASE Open
  BY <1>0, <1>6, OpenPreserves
<1>7. CASE \/ FinishClose \/ ForeignWrite \/ Reconnect \/ BeginClose
           \/ UNCHANGED vars
  <2>1. /\ UNCHANGED <<call, entries, idempotency, quarantined, writer,
                       journal, frames>>
        /\ timers' \subseteq timers
        /\ UNCHANGED phase \/ (phase = "running" /\ phase' = "closed")
    BY <1>7 DEF FinishClose, ForeignWrite, Reconnect, BeginClose, vars,
                memory, remote
  <2>2. /\ closed' \in BOOLEAN /\ device' \in MaybeValue
        /\ generation' \in 1..MaxGeneration
    <3>1. /\ closed \in BOOLEAN /\ device \in MaybeValue
          /\ generation \in 1..MaxGeneration /\ MaxGeneration \in Nat
      BY CoordinatorAssumption DEF RecordsInv, TypeOK
    <3>2. closed' = closed \/ closed' = TRUE
      BY <1>7 DEF FinishClose, ForeignWrite, Reconnect, BeginClose, vars,
                  memory, remote
    <3>3. device' = device \/ device' \in Values
      BY <1>7 DEF FinishClose, ForeignWrite, Reconnect, BeginClose, vars,
                  memory, remote
    <3>4. \/ generation' = generation
          \/ generation < MaxGeneration /\ generation' = generation + 1
      BY <1>7 DEF FinishClose, ForeignWrite, Reconnect, BeginClose, vars,
                  memory, remote
    <3>5. closed' \in BOOLEAN /\ device' \in MaybeValue
      BY <3>1, <3>2, <3>3 DEF MaybeValue
    <3>6. generation' \in 1..MaxGeneration
      BY <3>1, <3>4
    <3> QED BY <3>5, <3>6
  <2>3. TypeOK'
    BY <2>1, <2>2 DEF RecordsInv, TypeOK, journal
  <2> QED BY <1>0, <2>1, <2>3, StillPreserves
<1> QED BY <1>1, <1>2, <1>3, <1>4, <1>5, <1>6, <1>7 DEF Next, Environment

LEMMA AlwaysRecordsInv == Spec => []RecordsInv
<1> QED BY InitRecordsInv, NextRecordsInv, PTL DEF Spec

\* Every variable of the coordinator, its journal included, keeps its type.
THEOREM CoordinatorTypes == Spec => []TypeOK
<1>1. RecordsInv => TypeOK
  BY DEF RecordsInv
<1> QED BY <1>1, AlwaysRecordsInv, PTL

\* An undurable reservation has an owner under the lease, and no identity is
\* bound to a mutation that does not exist (releaseUndurableReservation
\* before releaseWriter).
THEOREM ReservationsOwned == Spec => []ReservationOwned
<1>1. RecordsInv => ReservationOwned
  BY DEF RecordsInv, Owned, IdempotencyInv, ReservationOwned
<1> QED BY <1>1, AlwaysRecordsInv, PTL

\* No blind retry, through any failed append, crash, restart, timer and
\* repeated call.
THEOREM FramesOnce == Spec => []AtMostOneFrame
<1>1. RecordsInv => AtMostOneFrame
  BY DEF RecordsInv
<1> QED BY <1>1, AlwaysRecordsInv, PTL

\* What the journal says about remote contact is what happened, also when a
\* failed append turns up after a restart.
THEOREM EvidenceHolds == Spec => []ContactEvidenceTrue
<1>1. RecordsInv => ContactEvidenceTrue
  BY DEF RecordsInv, JournalInv, RecordOf, Evidence, ContactEvidenceTrue
<1> QED BY <1>1, AlwaysRecordsInv, PTL

-----------------------------------------------------------------------------
(* The steps on which a frame leaves.                                       *)

Silent == \A r \in Refs : ~forwardSent(r) /\ ~rollbackSent(r)

\* The count of rollback frames may start again, no count may grow.
LEMMA RestartIsSilent ==
    ASSUME frames \in [Refs -> Frames], NEW r \in Refs,
           frames' \in {frames, [frames EXCEPT ![r].rollback = 0]}
    PROVE  Silent
<1> DEFINE z == [frames[r] EXCEPT !.rollback = 0]
<1>1. /\ z \in Frames /\ z.forward = frames[r].forward /\ z.rollback = 0
      /\ \A r2 \in Refs : /\ frames[r2] \in Frames
                           /\ frames[r2].forward \in Nat
                           /\ frames[r2].rollback \in Nat
  BY DEF Frames
<1>2. frames' = frames \/ frames' = [frames EXCEPT ![r] = z]
  OBVIOUS
<1> HIDE DEF z
<1>3. \A r2 \in Refs : frames'[r2] = frames[r2]
                       \/ (r2 = r /\ frames'[r2] = z)
  BY <1>2
<1> SUFFICES ASSUME NEW r2 \in Refs
             PROVE  /\ ~(frames'[r2].forward > frames[r2].forward)
                    /\ ~(frames'[r2].rollback > frames[r2].rollback)
  BY DEF Silent, forwardSent, rollbackSent
<1> QED BY <1>1, <1>3

LEMMA StillIsSilent ==
    ASSUME RecordsInv, UNCHANGED frames
    PROVE  Silent
<1>1. \A r \in Refs : frames[r].forward \in Nat /\ frames[r].rollback \in Nat
  BY DEF RecordsInv, TypeOK
<1> QED BY <1>1 DEF Silent, forwardSent, rollbackSent

\* Frames leave in Dispatch and RollbackDispatch only.
LEMMA OnlyDispatchSends ==
    ASSUME RecordsInv, [Next]_vars, ~Silent
    PROVE  \/ \E c \in SetCalls : Dispatch(c)
           \/ \E p \in Processes : RollbackDispatch(p)
<1>0. frames \in [Refs -> Frames]
  BY DEF RecordsInv, TypeOK, Frames
<1>1. CASE \E p \in Processes : StartRollback(p)
  <2>1. PICK p \in Processes : StartRollback(p)
    BY <1>1
  <2>2. call[p].ref \in Refs
    BY <2>1, DurableHolder DEF StartRollback, DurablePoints, Leased,
       UndurablePoints
  <2>3. frames' \in {frames, [frames EXCEPT ![call[p].ref].rollback = 0]}
    BY <2>1 DEF StartRollback
  <2> QED BY <1>0, <2>2, <2>3, RestartIsSilent
<1>2. CASE Crash \/ Reopen
  <2>1. forget
    BY <1>2 DEF Crash, Reopen
  <2>2. CASE UNCHANGED frames
    BY <2>2, StillIsSilent
  <2>3. CASE /\ tail # NoEntry
             /\ frames' \in {frames,
                    [frames EXCEPT ![tail.request.ref].rollback = 0]}
    <3>1. tail.request.ref \in Refs
      BY <2>3 DEF RecordsInv, TypeOK, Entries, Bindings
    <3> QED BY <1>0, <2>3, <3>1, RestartIsSilent
  <2> QED BY <2>1, <2>2, <2>3 DEF forget
<1>3. CASE UNCHANGED frames
  BY <1>3, StillIsSilent
<1>4. ASSUME NEW c \in SetCalls, SetStep(c)
      PROVE  UNCHANGED frames \/ Dispatch(c)
  BY <1>4 DEF SetStep, BeginSet, VerifyReadToken, ReserveSet, BindRuntime,
     GuardRead, Prepare, DispatchIntent, CompleteOriginalWrite,
     VerifyPending, CorrelatedReadback, remote
<1>5. ASSUME NEW p \in Processes, LeasedStep(p)
      PROVE  UNCHANGED frames \/ RollbackDispatch(p) \/ StartRollback(p)
  BY <1>5 DEF LeasedStep, RecoverEntry, PossibleSendReadback, RollbackRead,
     CompleteRollbackWrite, RollbackVerifyPending, RollbackReadback,
     UncertainRollbackReadback, ReleaseReservation, ReleaseWriter, remote
<1>6. ASSUME \/ \E c \in RollbackCalls : BeginRollback(c)
             \/ \E t \in Timers : TimerStep(t)
             \/ Open \/ FinishClose \/ ForeignWrite \/ Reconnect
             \/ BeginClose \/ UNCHANGED vars
      PROVE  UNCHANGED frames
  BY <1>6 DEF BeginRollback, TimerStep, Fire, AcquireWriter, AcquireTimeout,
     Reschedule, Open, FinishClose, ForeignWrite, Reconnect, BeginClose,
     vars, remote
<1> QED BY <1>1, <1>2, <1>3, <1>4, <1>5, <1>6 DEF Next, Environment

\* What is so when a frame of mutation r leaves.
LEMMA SendingStep ==
    ASSUME RecordsInv, [Next]_vars, NEW r \in Refs,
           forwardSent(r) \/ rollbackSent(r)
    PROVE  /\ durable(r) /\ ~quarantines(last)
           /\ forwardSent(r) => last[r].mutation.state = "dispatch_intent"
           /\ rollbackSent(r) =>
                last[r].mutation.state = "rollback_dispatch_intent"
<1>0. frames \in [Refs -> Frames]
  BY DEF RecordsInv, TypeOK, Frames
<1>1. \A r2 \in Refs : /\ frames[r2] \in Frames
                       /\ frames[r2].forward \in Nat
                       /\ frames[r2].rollback \in Nat
  BY <1>0 DEF Frames
<1>2. CASE \E c \in SetCalls : Dispatch(c)
  <2>1. PICK c \in SetCalls : Dispatch(c)
    BY <1>2
  <2>2. call[c].at = "dispatch" /\ call[c].at \in SetPoints
    BY <2>1 DEF Dispatch, SetPoints
  <2>3. /\ c.key \in Refs /\ ~quarantined
        /\ last[c.key] # NoEntry
        /\ last[c.key].mutation.state = "dispatch_intent"
        /\ phase \in {"running", "closed"}
    BY <2>2, SetHolder DEF PointFits, FramePoints, DurablePoints, Leased,
                           UndurablePoints
  <2> DEFINE up == [frames[c.key] EXCEPT !.forward = @ + 1]
  <2>4. up.rollback = frames[c.key].rollback
    BY <1>1, <2>3 DEF Frames
  <2>5. frames' = frames \/ frames' = [frames EXCEPT ![c.key] = up]
    BY <2>1 DEF Dispatch
  <2> HIDE DEF up
  <2>6. r = c.key /\ ~rollbackSent(r)
    BY <1>0, <1>1, <2>3, <2>4, <2>5 DEF forwardSent, rollbackSent
  <2> QED BY <2>3, <2>6 DEF durable, RecordsInv, PublishedInv
<1>3. CASE \E p \in Processes : RollbackDispatch(p)
  <2>1. PICK p \in Processes : RollbackDispatch(p)
    BY <1>3
  <2> DEFINE r0 == call[p].ref
  <2>2. call[p].at = "rbDispatch" /\ call[p].at \in DurablePoints
    BY <2>1 DEF RollbackDispatch, DurablePoints, Leased, UndurablePoints
  <2>3. /\ r0 \in Refs /\ ~quarantined /\ last[r0] # NoEntry
        /\ last[r0].mutation.state = "rollback_dispatch_intent"
        /\ phase \in {"running", "closed"}
    BY <2>2, DurableHolder DEF PointFits, FramePoints, durable
  <2> DEFINE back == [frames[r0] EXCEPT !.rollback = @ + 1]
  <2>4. back.forward = frames[r0].forward
    BY <1>1, <2>3 DEF Frames
  <2>5. frames' = frames \/ frames' = [frames EXCEPT ![r0] = back]
    BY <2>1 DEF RollbackDispatch
  <2> HIDE DEF back, r0
  <2>6. r = r0 /\ ~forwardSent(r)
    BY <1>0, <1>1, <2>3, <2>4, <2>5 DEF forwardSent, rollbackSent
  <2> QED BY <2>3, <2>6 DEF durable, RecordsInv, PublishedInv
<1> QED BY <1>2, <1>3, OnlyDispatchSends DEF Silent

\* A frame leaves only after its intent is durable: a crash at any point
\* finds in the journal what may have been sent.
THEOREM IntentBeforeFrame == Spec => WriteAhead
<1>1. RecordsInv /\ [Next]_vars =>
        [\A r \in Refs :
            /\ forwardSent(r) =>
                 durable(r) /\ last[r].mutation.state = "dispatch_intent"
            /\ rollbackSent(r) =>
                 /\ durable(r)
                 /\ last[r].mutation.state = "rollback_dispatch_intent"]_vars
  BY SendingStep
<1> QED BY <1>1, AlwaysRecordsInv, PTL DEF Spec, WriteAhead

\* While a conflict or an unverified rollback is durable, no frame of any
\* mutation leaves, whoever asked for it and whenever it was asked.
THEOREM NoFrameInQuarantine == Spec => QuarantineStopsWrites
<1>1. RecordsInv /\ [Next]_vars =>
        [(\E r \in Refs : forwardSent(r) \/ rollbackSent(r)) =>
            ~quarantines(last)]_vars
  BY SendingStep
<1> QED BY <1>1, AlwaysRecordsInv, PTL DEF Spec, QuarantineStopsWrites

=============================================================================
