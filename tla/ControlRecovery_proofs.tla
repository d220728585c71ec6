----------------------- MODULE ControlRecovery_proofs -----------------------
(***************************************************************************)
(* Proofs about ControlRecovery, for every number of calls and restarts.   *)
(*                                                                         *)
(* The pending publication of the anchor works as a lock: while it is      *)
(* there nobody else stages, and only the goroutine that its owner started *)
(* changes the store.  A caller whose copies of the view and of the anchor *)
(* are no longer the newest is stopped by PrepareControl or by             *)
(* CompareAndStage.                                                        *)
(***************************************************************************)
EXTENDS ControlRecovery, TLAPS

\* Section 5 of the README: with both, an observation of a handle that missed
\* its own publication reports a generation absent that is on disk.
ObservationSound == "rootSync" \notin Faults \/ "reconcile" \notin Kinds

quiet == {"idle", "ended"}
early == {"revoke", "prepare", "stage"}

\* A reconciliation settles the publication of another call first.
settling(t) == call[t].kind = "reconcile" /\ call[t].part = 1

\* The t's publication of part k has not been staged yet.
notYet(t, k) ==
    \/ call[t].at = "idle"
    \/ call[t].at # "ended" /\ call[t].part < k
    \/ call[t].at \in early /\ call[t].part = k

names(a, i) == a.pending # None /\ a.pending.id = i

\* A publication as PrepareControl makes it.
formed(p) ==
    /\ p.target.number = p.previous.number + 1
    /\ p.target.by = p.previous.by \cup {p.id}
    /\ p.id \notin p.previous.by

anchorFormed(a) ==
    a.pending # None =>
        formed(a.pending) /\ a.highWater = a.pending.previous.number

\* A copy of a generation is older than what the store has open, or the same.
past(g, now) == g.number < now.number \/ g = now

-----------------------------------------------------------------------------
\* The locals of a call follow from where it is.
LocalsInv ==
    \A t \in Calls :
        /\ call[t].at \in quiet <=> call[t].kind = None
        /\ call[t].at \in {"revoke", "withdraw"} => call[t].kind = "revoke"
        /\ call[t].at = "withdraw" => call[t].part = 1
        /\ call[t].at \in {"reconcile", "observe", "receipt", "resolved"}
             => call[t].kind = "reconcile"
        /\ call[t].at \in {"reconcile", "observe", "receipt", "revoke"}
             => call[t].part = 1
        /\ call[t].kind = "reconcile" => "reconcile" \in Kinds
        /\ settling(t) => call[t].at \notin {"prepare", "stage", "commit"}
        /\ settling(t) /\ call[t].at = "finish" => call[t].outcome = "unknown"
        /\ call[t].at \in early => call[t].result = None /\ call[t].job = "none"
        /\ call[t].result # None => call[t].job = "none"
        /\ call[t].job = "queued" => call[t].at = "commit"
        /\ call[t].at \in {"stage", "commit", "finalize", "clear"}
           \/ (call[t].at = "finish" /\ call[t].outcome = "durable")
             => settling(t) \/ call[t].pending = publication(t, call[t])
        /\ call[t].at \in {"observe", "finalize", "clear"}
             => call[t].pending # None

\* Down: one image of each file, and nobody is there.
DownInv ==
    state.run = "down" =>
        /\ disk.seen = disk.safe /\ witness.seen = witness.safe
        /\ \A t \in Calls : call[t].at \in quiet

\* What the anchor and the store say of each other while the process runs.
FilesInv ==
    /\ anchorFormed(witness.seen) /\ anchorFormed(witness.safe)
    /\ state.run # "down" =>
         /\ handle \in [gen : Generation, poisoned : BOOLEAN]
         /\ handle.gen = disk.safe
         /\ witness.safe = provider
         /\ provider.pending = None => disk.seen = disk.safe
    /\ "rootSync" \notin Faults => disk.seen = disk.safe

CopiesInv ==
    state.run # "down" =>
        /\ past(view, handle.gen)
        /\ anchor.highWater <= handle.gen.number
        /\ \A t \in Calls :
             /\ call[t].at \in early \/ call[t].job = "queued"
                  => past(call[t].working, handle.gen)
             /\ call[t].at \notin quiet
                  => call[t].anchor.highWater <= handle.gen.number
             /\ call[t].at = "stage" => call[t].anchor.highWater
                                          <= call[t].working.number

\* Names of publications that were not staged are nowhere.
FreshInv ==
    \A t \in Calls, k \in {1, 2} : notYet(t, k) =>
        /\ <<t, k>> \notin disk.seen.by \cup disk.safe.by
        /\ <<t, k>> \notin told.refused
        /\ \A a \in {witness.seen, witness.safe, provider, anchor} :
             ~names(a, <<t, k>>)
        /\ \A u \in Calls :
             /\ ~names(call[u].anchor, <<t, k>>)
             /\ u = t \/ ~names(call[u], <<t, k>>)

\* While a goroutine may commit, its publication is the one that is staged,
\* it is not yet in the store, and nobody else knows it.
QueuedInv ==
    \A t \in Calls : call[t].job = "queued" =>
        /\ provider.pending = call[t].pending
        /\ witness.seen = provider
        /\ disk.seen = disk.safe /\ disk.safe = call[t].pending.previous
        /\ <<t, call[t].part>> \notin told.refused
        /\ anchor.pending # call[t].pending
        /\ \A u \in Calls : u = t \/ /\ call[u].anchor.pending # call[t].pending
                                     /\ call[u].pending # call[t].pending

\* What a call is about to report to the anchor is what the store has.
SettleInv ==
    \A t \in Calls : provider.pending = call[t].pending =>
        /\ call[t].at = "finalize"
           \/ (call[t].at = "commit" /\ call[t].result = "commit_durable") =>
             disk.seen = call[t].pending.target /\ disk.safe = disk.seen
        /\ call[t].at = "clear"
           \/ (call[t].at = "commit" /\ call[t].result = "commit_not_published") =>
             disk.seen = call[t].pending.previous /\ disk.safe = disk.seen

\* What was not published is not in the store.
FinishInv ==
    \A t \in Calls :
        /\ call[t].at = "finish" /\ call[t].kind # "reconcile"
        /\ call[t].outcome \in {"prepare_failed", "unchanged"}
        => <<t, call[t].part>> \notin disk.seen.by \cup disk.safe.by

\* The call has published and has not replaced the view yet.
ahead(t) ==
    /\ ~settling(t)
    /\ \/ call[t].at = "commit" /\ call[t].result = "commit_durable"
       \/ call[t].at = "finalize"
       \/ call[t].at = "finish" /\ call[t].outcome = "durable"

\* Until then nobody can build on what it has published.
AheadInv ==
    \A t \in Calls : ahead(t) =>
        /\ handle.gen = call[t].pending.target
        /\ view.number < handle.gen.number
        /\ \A u \in Calls :
             /\ ahead(u) => u = t
             /\ call[u].at \in early \/ call[u].job = "queued"
                  => call[u].working.number < handle.gen.number

\* A start is alone.
StartingInv ==
    /\ \A t \in Calls :
         call[t].kind \in {"release", "charge"} => state.run = "starting"
    /\ state.run = "starting" =>
         /\ view.association = disk.safe.association
         /\ \A t \in Calls :
              call[t].at \notin quiet =>
                /\ call[t].kind \in {"release", "charge"}
                /\ \A u \in Calls : u = t \/ call[u].at \in quiet

\* A revocation that can still be published has withdrawn trust.
RevokingInv ==
    \A t \in Calls :
        /\ call[t].kind = "revoke" /\ call[t].part = 1
        /\ call[t].at \in early \/ call[t].job = "queued"
        /\ call[t].working = handle.gen
        => ~state.trusted

ControlInv ==
    /\ TypeOK /\ LocalsInv /\ DownInv /\ FilesInv /\ CopiesInv /\ FreshInv
    /\ QueuedInv /\ SettleInv /\ FinishInv /\ AheadInv /\ StartingInv
    /\ RevokingInv
    /\ AnchorRestorable /\ AnswersHold /\ TrustedNotRevoked


-----------------------------------------------------------------------------
(* Types.                                                                  *)

LEMMA UnusedType == unused \in Locals /\ first("none") \in Generation
                    /\ settled(1) \in Anchor
  BY DEF unused, Locals, first, settled, Places, Recoveries, Generation, Anchor

LEMMA PublicationType ==
    ASSUME TypeOK, NEW t \in Calls, call[t].kind \in AllKinds
    PROVE  publication(t, call[t]) \in Pending
<1>1. /\ call[t].working \in Generation /\ call[t].part \in {1, 2}
      /\ call[t].kind \in AllKinds
  BY DEF TypeOK, Locals
<1>2. /\ call[t].working.number \in Nat
      /\ call[t].working.by \in SUBSET Identity
      /\ call[t].working.association \in {"none", "trusted", "revoking", "revoked"}
  BY <1>1 DEF Generation
<1>3. <<t, call[t].part>> \in Identity
  BY <1>1 DEF Identity
<1>4. associationAfter(call[t].kind, call[t].part, call[t].working.association)
        \in {"none", "trusted", "revoking", "revoked"}
  BY <1>2 DEF associationAfter
<1>5. [number |-> call[t].working.number + 1,
       by |-> call[t].working.by \cup {<<t, call[t].part>>},
       association |-> associationAfter(call[t].kind, call[t].part,
                                        call[t].working.association)]
        \in Generation
  BY <1>2, <1>3, <1>4 DEF Generation
<1> QED BY <1>1, <1>3, <1>5 DEF publication, Pending

LEMMA OverType ==
    ASSUME TypeOK, NEW t \in Calls
    PROVE  over(call[t]) \in Locals
  BY UnusedType DEF over, TypeOK, Locals, Places

\* One field at a time.
LEMMA LocalsSet ==
    ASSUME NEW c \in Locals
    PROVE  /\ \A p \in Places : [c EXCEPT !.at = p] \in Locals
           /\ \A o \in Outcomes : [c EXCEPT !.outcome = o] \in Locals
           /\ \A j \in {"none", "queued", "expired"} :
                [c EXCEPT !.job = j] \in Locals
           /\ \A r \in Results : [c EXCEPT !.result = r] \in Locals
           /\ \A a \in Anchor : [c EXCEPT !.anchor = a] \in Locals
           /\ \A p \in Pending : [c EXCEPT !.pending = p] \in Locals
           /\ \A g \in Generation : [c EXCEPT !.selected = g] \in Locals
  BY DEF Locals

LEMMA CallType ==
    ASSUME TypeOK, NEW t \in Calls, NEW c \in Locals,
           call' = [call EXCEPT ![t] = c]
    PROVE  call' \in [Calls -> Locals]
  BY DEF TypeOK

LEMMA OwnType == ASSUME TypeOK, NEW t \in Calls PROVE call[t] \in Locals
  BY DEF TypeOK

LEMMA EndsType ==
    ASSUME TypeOK, NEW t \in Calls, NEW o \in Outcomes, ends(t, o)
    PROVE  call' \in [Calls -> Locals]
<1>1. "finish" \in Places
  BY DEF Places
<1>2. [[call[t] EXCEPT !.at = "finish"] EXCEPT !.outcome = o] \in Locals
  BY <1>1, LocalsSet, OwnType
<1>3. call' = [call EXCEPT ![t] =
                 [[call[t] EXCEPT !.at = "finish"] EXCEPT !.outcome = o]]
  BY DEF ends
<1> QED BY <1>2, <1>3, CallType

LEMMA EnteredType ==
    ASSUME TypeOK, NEW t \in Calls, NEW kind \in AllKinds, NEW at \in Places,
           NEW k \in {1, 2}, NEW a \in Anchor,
           call' = [call EXCEPT ![t] =
               [unused EXCEPT !.at = at, !.kind = kind, !.part = k,
                              !.working = view, !.selected = view,
                              !.anchor = a, !.before = state.recovery]]
    PROVE  call' \in [Calls -> Locals]
<1>1. view \in Generation /\ state.recovery \in Recoveries
  BY DEF TypeOK
<1>2. [unused EXCEPT !.at = at, !.kind = kind, !.part = k, !.working = view,
                     !.selected = view, !.anchor = a,
                     !.before = state.recovery] \in Locals
  BY <1>1, UnusedType DEF Locals
<1> QED BY <1>2, CallType

LEMMA EntersType ==
    ASSUME TypeOK, NEW t \in Calls, NEW kind \in AllKinds, NEW at \in Places,
           entered(t, kind, at)
    PROVE  call' \in [Calls -> Locals]
<1>1. view \in Generation /\ state.recovery \in Recoveries /\ anchor \in Anchor
  BY DEF TypeOK
<1>2. [unused EXCEPT !.at = at, !.kind = kind, !.working = view,
                     !.selected = view, !.anchor = anchor,
                     !.before = state.recovery] \in Locals
  BY <1>1, UnusedType DEF Locals
<1> QED BY <1>2, CallType DEF entered

LEMMA PendingFields ==
    ASSUME NEW p \in Pending
    PROVE  /\ p.id \in Identity /\ p.class \in AllKinds
           /\ p.previous \in Generation /\ p.target \in Generation
           /\ p.previous.number \in Nat /\ p.target.number \in Nat
           /\ p # None
  BY AbsentAssumption DEF Pending, Generation

LEMMA AnchorFields ==
    ASSUME NEW a \in Anchor
    PROVE  /\ a.highWater \in Nat /\ a.pending \in Pending \cup {None}
           /\ \A p \in Pending \cup {None} : [a EXCEPT !.pending = p] \in Anchor
  BY DEF Anchor

LEMMA SettledTypes ==
    /\ \A p \in Pending : finalized(p) \in Anchor
    /\ \A a \in Anchor : cleared(a) \in Anchor
<1>1. ASSUME NEW p \in Pending PROVE finalized(p) \in Anchor
  BY PendingFields DEF finalized, Anchor
<1>2. ASSUME NEW a \in Anchor PROVE cleared(a) \in Anchor
  BY AnchorFields DEF cleared
<1> QED BY <1>1, <1>2

\* The publication of a call between staging and settling.
LEMMA StagedType ==
    ASSUME TypeOK, LocalsInv, NEW t \in Calls,
           call[t].at \in {"stage", "commit", "finalize", "clear"}
    PROVE  call[t].pending \in Pending
<1>1. call[t].pending \in Pending \cup {None}
  BY DEF TypeOK, Locals
<1>2. CASE call[t].pending = publication(t, call[t])
  <2>2. call[t].kind \in AllKinds
    BY DEF LocalsInv, TypeOK, Locals, quiet
  <2> QED BY <1>2, <2>2, PublicationType
<1>3. CASE settling(t)
  BY <1>1, <1>3 DEF LocalsInv
<1> QED BY <1>2, <1>3 DEF LocalsInv

LEMMA WitnessTypes ==
    ASSUME TypeOK, NEW a \in Anchor, stored(a) \/ notStored(a)
    PROVE  /\ witness' \in [seen : Anchor, safe : Anchor]
           /\ provider' \in Anchor
  BY DEF TypeOK, stored, notStored

LEMMA WritesBackTypes ==
    ASSUME TypeOK, LocalsInv, NEW t \in Calls, NEW at \in {"ended", "withdraw"},
           writesBack(t, at)
    PROVE  /\ call' \in [Calls -> Locals] /\ view' \in Generation
           /\ anchor' \in Anchor
           /\ told' \in [applied : SUBSET Identity, refused : SUBSET Identity]
           /\ UNCHANGED <<disk, witness, handle, provider, restarts>>
<1>1. call[t] \in Locals /\ call[t].anchor \in Anchor /\ call[t].part \in {1, 2}
  BY DEF TypeOK, Locals
<1>2. view' \in Generation
  <2>1. CASE call[t].outcome = "durable"
    <3>1. ~settling(t)
      BY <2>1 DEF LocalsInv, writesBack
    <3>2. call[t].pending = publication(t, call[t])
      BY <2>1, <3>1 DEF LocalsInv, writesBack
    <3>3. call[t].kind \in AllKinds
      BY DEF LocalsInv, writesBack, TypeOK, Locals, quiet
    <3> QED BY <2>1, <3>2, <3>3, PublicationType, PendingFields
            DEF writesBack, after
  <2>2. CASE call[t].outcome # "durable"
    BY <2>2 DEF writesBack, after, TypeOK
  <2> QED BY <2>1, <2>2
<1>3. call' \in [Calls -> Locals]
  <2>1. CASE at = "ended"
    BY <2>1, OverType, CallType DEF writesBack
  <2>2. CASE at = "withdraw"
    <3>1. [call[t] EXCEPT !.at = at] \in Locals
      BY <1>1, <2>2, LocalsSet DEF Places
    <3> QED BY <2>2, <3>1, CallType DEF writesBack
  <2> QED BY <2>1, <2>2
<1>4. told' \in [applied : SUBSET Identity, refused : SUBSET Identity]
  <2>1. <<t, call[t].part>> \in Identity
    BY <1>1 DEF Identity
  <2> QED BY <2>1 DEF writesBack, TypeOK
<1> QED BY <1>1, <1>2, <1>3, <1>4 DEF writesBack, files

LEMMA ClassifiedType ==
    ASSUME NEW v, NEW a, classified(v, a)
    PROVE  state' \in [run : {"up", "starting", "down"}, recovery : Recoveries,
                       trusted : BOOLEAN]
<1>1. PICK r \in classify(v, a) :
        state' = [run |-> "up", recovery |-> r, trusted |-> r = "PAIRED_TRUSTED"]
  BY DEF classified
<1>2. r \in Recoveries
  BY DEF classify, Recoveries
<1> QED BY <1>1, <1>2
-----------------------------------------------------------------------------
(* What each step makes of the locals of its call.                         *)

LEMMA PrepareControlFields ==
    ASSUME TypeOK, LocalsInv, NEW t \in Calls, PrepareControl(t)
    PROVE  /\ \A u \in Calls : u # t => call'[u] = call[u]
           /\ call'[t].kind = call[t].kind
           /\ call'[t].part = call[t].part
           /\ call'[t].working = call[t].working
           /\ call'[t].selected = call[t].selected
           /\ call'[t].anchor = call[t].anchor
           /\ call'[t].job = call[t].job
           /\ call'[t].result = call[t].result
           /\ \/ /\ call'[t].at = "stage" /\ call[t].selected = call[t].working
                 /\ call'[t].pending = publication(t, call[t])
                 /\ call'[t].outcome = call[t].outcome
              \/ /\ call'[t].at = "finish" /\ call'[t].pending = call[t].pending
                 /\ call'[t].outcome = "unknown"
  BY DEF PrepareControl, ends, TypeOK, Locals

LEMMA PrepareFailsFields ==
    ASSUME TypeOK, LocalsInv, NEW t \in Calls, PrepareFails(t)
    PROVE  /\ \A u \in Calls : u # t => call'[u] = call[u]
           /\ call'[t].at = "finish"
           /\ call'[t].kind = call[t].kind
           /\ call'[t].part = call[t].part
           /\ call'[t].working = call[t].working
           /\ call'[t].selected = call[t].selected
           /\ call'[t].anchor = call[t].anchor
           /\ call'[t].pending = call[t].pending
           /\ call'[t].outcome = "prepare_failed"
           /\ call'[t].job = call[t].job
           /\ call'[t].result = call[t].result
  BY DEF PrepareFails, ends, TypeOK, Locals

LEMMA CompareAndStageFields ==
    ASSUME TypeOK, LocalsInv, NEW t \in Calls, CompareAndStage(t)
    PROVE  /\ \A u \in Calls : u # t => call'[u] = call[u]
           /\ call'[t].at = "commit"
           /\ call'[t].kind = call[t].kind
           /\ call'[t].part = call[t].part
           /\ call'[t].working = call[t].working
           /\ call'[t].selected = call[t].selected
           /\ call'[t].pending = call[t].pending
           /\ call'[t].outcome = call[t].outcome
           /\ call'[t].job = "queued"
           /\ call'[t].result = call[t].result
           /\ call'[t].anchor.highWater = call[t].anchor.highWater
           /\ call'[t].anchor.pending = call[t].pending
  BY DEF CompareAndStage, stored, TypeOK, Locals

LEMMA StageRefusedFields ==
    ASSUME TypeOK, LocalsInv, NEW t \in Calls, StageRefused(t)
    PROVE  /\ \A u \in Calls : u # t => call'[u] = call[u]
           /\ call'[t].at = "finish"
           /\ call'[t].kind = call[t].kind
           /\ call'[t].part = call[t].part
           /\ call'[t].working = call[t].working
           /\ call'[t].selected = call[t].selected
           /\ call'[t].anchor = call[t].anchor
           /\ call'[t].pending = call[t].pending
           /\ call'[t].outcome = "unchanged"
           /\ call'[t].job = call[t].job
           /\ call'[t].result = call[t].result
  BY DEF StageRefused, ends, TypeOK, Locals

LEMMA CommitControlFields ==
    ASSUME TypeOK, LocalsInv, NEW t \in Calls, CommitControl(t)
    PROVE  /\ \A u \in Calls : u # t => call'[u] = call[u]
           /\ call'[t].at = call[t].at
           /\ call'[t].kind = call[t].kind
           /\ call'[t].part = call[t].part
           /\ call'[t].working = call[t].working
           /\ call'[t].selected = call[t].selected
           /\ call'[t].anchor = call[t].anchor
           /\ call'[t].pending = call[t].pending
           /\ call'[t].outcome = call[t].outcome
           /\ call'[t].job = "none"
           /\ call'[t].result \in {"commit_durable", "other"}
  BY DEF CommitControl, commits, TypeOK, Locals

LEMMA CommitFailsFields ==
    ASSUME TypeOK, LocalsInv, NEW t \in Calls, CommitFails(t)
    PROVE  /\ \A u \in Calls : u # t => call'[u] = call[u]
           /\ call'[t].at = call[t].at
           /\ call'[t].kind = call[t].kind
           /\ call'[t].part = call[t].part
           /\ call'[t].working = call[t].working
           /\ call'[t].selected = call[t].selected
           /\ call'[t].anchor = call[t].anchor
           /\ call'[t].pending = call[t].pending
           /\ call'[t].outcome = call[t].outcome
           /\ call'[t].job = "none"
           /\ call'[t].result \in {"commit_not_published", "other"}
  BY DEF CommitFails, commits, TypeOK, Locals

LEMMA CommitExpiredFields ==
    ASSUME TypeOK, LocalsInv, NEW t \in Calls, CommitExpired(t)
    PROVE  /\ \A u \in Calls : u # t => call'[u] = call[u]
           /\ call'[t].at = call[t].at
           /\ call'[t].kind = call[t].kind
           /\ call'[t].part = call[t].part
           /\ call'[t].working = call[t].working
           /\ call'[t].selected = call[t].selected
           /\ call'[t].anchor = call[t].anchor
           /\ call'[t].pending = call[t].pending
           /\ call'[t].outcome = call[t].outcome
           /\ call'[t].job = "none"
           /\ call'[t].result = call[t].result
  BY DEF CommitExpired, TypeOK, Locals

LEMMA CommitLateFields ==
    ASSUME TypeOK, LocalsInv, NEW t \in Calls, CommitLate(t)
    PROVE  /\ \A u \in Calls : u # t => call'[u] = call[u]
           /\ call'[t].at = "finish"
           /\ call'[t].kind = call[t].kind
           /\ call'[t].part = call[t].part
           /\ call'[t].working = call[t].working
           /\ call'[t].selected = call[t].selected
           /\ call'[t].anchor = call[t].anchor
           /\ call'[t].pending = call[t].pending
           /\ call'[t].outcome = "unknown"
           /\ call'[t].job = IF call[t].job = "queued" THEN "expired"
                                  ELSE call[t].job
           /\ call'[t].result = call[t].result
  BY DEF CommitLate, TypeOK, Locals

LEMMA CommitResultFields ==
    ASSUME TypeOK, LocalsInv, NEW t \in Calls, CommitResult(t)
    PROVE  /\ \A u \in Calls : u # t => call'[u] = call[u]
           /\ call'[t].kind = call[t].kind
           /\ call'[t].part = call[t].part
           /\ call'[t].working = call[t].working
           /\ call'[t].selected = call[t].selected
           /\ call'[t].anchor = call[t].anchor
           /\ call'[t].pending = call[t].pending
           /\ call'[t].job = call[t].job
           /\ call'[t].result = call[t].result
           /\ \/ /\ call[t].result = "other" /\ call'[t].at = "finish"
                 /\ call'[t].outcome = "unknown"
              \/ /\ call[t].result = "commit_durable" /\ call'[t].at = "finalize"
                 /\ call'[t].outcome = call[t].outcome
              \/ /\ call[t].result = "commit_not_published" /\ call'[t].at = "clear"
                 /\ call'[t].outcome = call[t].outcome
<1>1. call[t].result \in Results
  BY DEF CommitResult, TypeOK, Locals
<1>2. CASE call[t].result = "other"
  BY <1>2 DEF CommitResult, ends, TypeOK, Locals
<1>3. CASE call[t].result = "commit_durable"
  BY <1>3 DEF CommitResult, TypeOK, Locals
<1>4. CASE call[t].result = "commit_not_published"
  BY <1>4 DEF CommitResult, TypeOK, Locals
<1> QED BY <1>1, <1>2, <1>3, <1>4 DEF Results

LEMMA CompareAndFinalizeFields ==
    ASSUME TypeOK, LocalsInv, NEW t \in Calls, CompareAndFinalize(t)
    PROVE  /\ \A u \in Calls : u # t => call'[u] = call[u]
           /\ call'[t].at = IF call[t].kind = "reconcile" /\ call[t].part = 1
                                   THEN "receipt" ELSE "finish"
           /\ call'[t].kind = call[t].kind
           /\ call'[t].part = call[t].part
           /\ call'[t].working = call[t].working
           /\ call'[t].selected = call[t].selected
           /\ call'[t].pending = call[t].pending
           /\ call'[t].outcome = "durable"
           /\ call'[t].job = call[t].job
           /\ call'[t].result = call[t].result
           /\ call'[t].anchor.highWater = call[t].pending.target.number
           /\ call'[t].anchor.pending = None
  BY DEF CompareAndFinalize, anchorDurable, stored, finalized, TypeOK, Locals

LEMMA CompareAndClearFields ==
    ASSUME TypeOK, LocalsInv, NEW t \in Calls, CompareAndClear(t)
    PROVE  /\ \A u \in Calls : u # t => call'[u] = call[u]
           /\ call'[t].at = IF call[t].kind = "reconcile" /\ call[t].part = 1
                                   THEN "receipt" ELSE "finish"
           /\ call'[t].kind = call[t].kind
           /\ call'[t].part = call[t].part
           /\ call'[t].working = call[t].working
           /\ call'[t].selected = call[t].selected
           /\ call'[t].pending = call[t].pending
           /\ call'[t].outcome = "unchanged"
           /\ call'[t].job = call[t].job
           /\ call'[t].result = call[t].result
           /\ call'[t].anchor.highWater = call[t].anchor.highWater
           /\ call'[t].anchor.pending = None
  BY DEF CompareAndClear, anchorDurable, cleared, TypeOK, Locals

LEMMA SettleRefusedFields ==
    ASSUME TypeOK, LocalsInv, NEW t \in Calls, SettleRefused(t)
    PROVE  /\ \A u \in Calls : u # t => call'[u] = call[u]
           /\ call'[t].at = "finish"
           /\ call'[t].kind = call[t].kind
           /\ call'[t].part = call[t].part
           /\ call'[t].working = call[t].working
           /\ call'[t].selected = call[t].selected
           /\ call'[t].anchor = call[t].anchor
           /\ call'[t].pending = call[t].pending
           /\ call'[t].outcome = "unknown"
           /\ call'[t].job = call[t].job
           /\ call'[t].result = call[t].result
  BY DEF SettleRefused, ends, TypeOK, Locals

LEMMA ConfirmFields ==
    ASSUME TypeOK, LocalsInv, NEW t \in Calls, Confirm(t)
    PROVE  /\ \A u \in Calls : u # t => call'[u] = call[u]
           /\ call'[t].at = "prepare"
           /\ call'[t].kind = "confirm"
           /\ call'[t].part = 1
           /\ call'[t].working = view
           /\ call'[t].selected = view
           /\ call'[t].anchor = anchor
           /\ call'[t].pending = None
           /\ call'[t].outcome = None
           /\ call'[t].job = "none"
           /\ call'[t].result = None
  BY DEF Confirm, entered, unused, TypeOK, Locals

LEMMA RevokeFields ==
    ASSUME TypeOK, LocalsInv, NEW t \in Calls, Revoke(t)
    PROVE  /\ \A u \in Calls : u # t => call'[u] = call[u]
           /\ call'[t].at = "revoke"
           /\ call'[t].kind = "revoke"
           /\ call'[t].part = 1
           /\ call'[t].working = view
           /\ call'[t].selected = view
           /\ call'[t].anchor = anchor
           /\ call'[t].pending = None
           /\ call'[t].outcome = None
           /\ call'[t].job = "none"
           /\ call'[t].result = None
  BY DEF Revoke, entered, unused, TypeOK, Locals

LEMMA RevokeAgainFields ==
    ASSUME TypeOK, LocalsInv, NEW t \in Calls, RevokeAgain(t)
    PROVE  /\ \A u \in Calls : u # t => call'[u] = call[u]
           /\ call'[t].at = "withdraw"
           /\ call'[t].kind = "revoke"
           /\ call'[t].part = 1
           /\ call'[t].working = view
           /\ call'[t].selected = view
           /\ call'[t].anchor = anchor
           /\ call'[t].pending = None
           /\ call'[t].outcome = None
           /\ call'[t].job = "none"
           /\ call'[t].result = None
  BY DEF RevokeAgain, entered, unused, TypeOK, Locals

LEMMA RevokePublishesFields ==
    ASSUME TypeOK, LocalsInv, NEW t \in Calls, RevokePublishes(t)
    PROVE  /\ \A u \in Calls : u # t => call'[u] = call[u]
           /\ call'[t].at = "prepare"
           /\ call'[t].kind = call[t].kind
           /\ call'[t].part = call[t].part
           /\ call'[t].working = call[t].working
           /\ call'[t].selected = view
           /\ call'[t].anchor = anchor
           /\ call'[t].pending = call[t].pending
           /\ call'[t].outcome = call[t].outcome
           /\ call'[t].job = call[t].job
           /\ call'[t].result = call[t].result
  BY DEF RevokePublishes, TypeOK, Locals

LEMMA RepairFields ==
    ASSUME TypeOK, LocalsInv, NEW t \in Calls, Repair(t)
    PROVE  /\ \A u \in Calls : u # t => call'[u] = call[u]
           /\ call'[t].at = "prepare"
           /\ call'[t].kind = "repair"
           /\ call'[t].part = 1
           /\ call'[t].working = view
           /\ call'[t].selected = view
           /\ call'[t].anchor = anchor
           /\ call'[t].pending = None
           /\ call'[t].outcome = None
           /\ call'[t].job = "none"
           /\ call'[t].result = None
  BY DEF Repair, entered, unused, TypeOK, Locals

LEMMA ReconcileFields ==
    ASSUME TypeOK, LocalsInv, NEW t \in Calls, Reconcile(t)
    PROVE  /\ \A u \in Calls : u # t => call'[u] = call[u]
           /\ call'[t].at = "reconcile"
           /\ call'[t].kind = "reconcile"
           /\ call'[t].part = 1
           /\ call'[t].working = view
           /\ call'[t].selected = view
           /\ call'[t].anchor = anchor
           /\ call'[t].pending = None
           /\ call'[t].outcome = None
           /\ call'[t].job = "none"
           /\ call'[t].result = None
  BY DEF Reconcile, entered, unused, TypeOK, Locals

LEMMA ReconcilePendingFields ==
    ASSUME TypeOK, LocalsInv, NEW t \in Calls, ReconcilePending(t)
    PROVE  /\ \A u \in Calls : u # t => call'[u] = call[u]
           /\ \/ call'[t] = over(call[t])
              \/ /\ anchor.pending # None
                 /\ call'[t].at = "observe" /\ call'[t].anchor = anchor
                 /\ call'[t].pending = anchor.pending
                 /\ call'[t].kind = call[t].kind /\ call'[t].part = call[t].part
                 /\ call'[t].working = call[t].working /\ call'[t].job = call[t].job
                 /\ call'[t].selected = call[t].selected
                 /\ call'[t].outcome = call[t].outcome /\ call'[t].result = call[t].result
  BY DEF ReconcilePending, TypeOK, Locals

LEMMA ObserveFields ==
    ASSUME TypeOK, LocalsInv, NEW t \in Calls, Observe(t)
    PROVE  /\ \A u \in Calls : u # t => call'[u] = call[u]
           /\ call'[t].kind = call[t].kind
           /\ call'[t].part = call[t].part
           /\ call'[t].working = call[t].working
           /\ call'[t].selected = call[t].selected
           /\ call'[t].anchor = call[t].anchor
           /\ call'[t].pending = call[t].pending
           /\ call'[t].job = call[t].job
           /\ call'[t].result = call[t].result
           /\ \/ /\ handle.gen = call[t].pending.target /\ call'[t].at = "finalize"
              \/ /\ handle.gen = call[t].pending.previous /\ call'[t].at = "clear"
              \/ call'[t].at = "finish" /\ call'[t].outcome = "unknown"
  BY DEF Observe, ends, TypeOK, Locals

LEMMA RetryFields ==
    ASSUME TypeOK, LocalsInv, NEW t \in Calls, Retry(t)
    PROVE  /\ \A u \in Calls : u # t => call'[u] = call[u]
           /\ call'[t].at = "prepare"
           /\ call'[t].kind = "retry"
           /\ call'[t].part = 1
           /\ call'[t].working = view
           /\ call'[t].selected = view
           /\ call'[t].anchor = anchor
           /\ call'[t].pending = None
           /\ call'[t].outcome = None
           /\ call'[t].job = "none"
           /\ call'[t].result = None
  BY DEF Retry, entered, unused, TypeOK, Locals

LEMMA AttemptPrepareFields ==
    ASSUME TypeOK, LocalsInv, NEW t \in Calls, AttemptPrepare(t)
    PROVE  /\ \A u \in Calls : u # t => call'[u] = call[u]
           /\ call'[t].at = "prepare"
           /\ call'[t].kind = "attempt_prepare"
           /\ call'[t].part = 1
           /\ call'[t].working = view
           /\ call'[t].selected = view
           /\ call'[t].anchor = anchor
           /\ call'[t].pending = None
           /\ call'[t].outcome = None
           /\ call'[t].job = "none"
           /\ call'[t].result = None
  BY DEF AttemptPrepare, entered, unused, TypeOK, Locals

LEMMA AttemptFields ==
    ASSUME TypeOK, LocalsInv, NEW t \in Calls, Attempt(t)
    PROVE  /\ \A u \in Calls : u # t => call'[u] = call[u]
           /\ call'[t].at = "prepare"
           /\ call'[t].kind = "attempt"
           /\ call'[t].part = 1
           /\ call'[t].working = view
           /\ call'[t].selected = view
           /\ call'[t].anchor = anchor
           /\ call'[t].pending = None
           /\ call'[t].outcome = None
           /\ call'[t].job = "none"
           /\ call'[t].result = None
  BY DEF Attempt, entered, unused, TypeOK, Locals

LEMMA StartPublishesFields ==
    ASSUME TypeOK, LocalsInv, NEW t \in Calls, StartPublishes(t)
    PROVE  /\ \A u \in Calls : u # t => call'[u] = call[u]
           /\ call'[t].at = "prepare"
           /\ call'[t].kind \in {"release", "charge"}
           /\ call'[t].part = 1
           /\ call'[t].working = view
           /\ call'[t].selected = view
           /\ call'[t].anchor = anchor
           /\ call'[t].pending = None
           /\ call'[t].outcome = None
           /\ call'[t].job = "none"
           /\ call'[t].result = None
<1>1. CASE entered(t, "release", "prepare")
  BY <1>1 DEF entered, unused, TypeOK, Locals
<1>2. CASE entered(t, "charge", "prepare")
  BY <1>2 DEF entered, unused, TypeOK, Locals
<1> QED BY <1>1, <1>2 DEF StartPublishes

LEMMA ConfirmFinishFields ==
    ASSUME TypeOK, LocalsInv, NEW t \in Calls, ConfirmFinish(t)
    PROVE  /\ \A u \in Calls : u # t => call'[u] = call[u]
           /\ call'[t] = over(call[t])
  BY DEF ConfirmFinish, writesBack, TypeOK, Locals

LEMMA ReceiptFinishFields ==
    ASSUME TypeOK, LocalsInv, NEW t \in Calls, ReceiptFinish(t)
    PROVE  /\ \A u \in Calls : u # t => call'[u] = call[u]
           /\ call'[t] = over(call[t])
  BY DEF ReceiptFinish, writesBack, TypeOK, Locals

LEMMA RepairFinishFields ==
    ASSUME TypeOK, LocalsInv, NEW t \in Calls, RepairFinish(t)
    PROVE  /\ \A u \in Calls : u # t => call'[u] = call[u]
           /\ call'[t] = over(call[t])
  BY DEF RepairFinish, writesBack, TypeOK, Locals

LEMMA RetryFinishFields ==
    ASSUME TypeOK, LocalsInv, NEW t \in Calls, RetryFinish(t)
    PROVE  /\ \A u \in Calls : u # t => call'[u] = call[u]
           /\ call'[t] = over(call[t])
  BY DEF RetryFinish, writesBack, TypeOK, Locals

LEMMA AttemptFinishFields ==
    ASSUME TypeOK, LocalsInv, NEW t \in Calls, AttemptFinish(t)
    PROVE  /\ \A u \in Calls : u # t => call'[u] = call[u]
           /\ call'[t] = over(call[t])
  BY DEF AttemptFinish, writesBack, TypeOK, Locals

LEMMA StartFinishFields ==
    ASSUME TypeOK, LocalsInv, NEW t \in Calls, StartFinish(t)
    PROVE  /\ \A u \in Calls : u # t => call'[u] = call[u]
           /\ call'[t] = over(call[t])
  BY DEF StartFinish, writesBack, TypeOK, Locals

LEMMA RevokeFinishFields ==
    ASSUME TypeOK, LocalsInv, NEW t \in Calls, RevokeFinish(t)
    PROVE  /\ \A u \in Calls : u # t => call'[u] = call[u]
           /\ \/ call'[t] = over(call[t]) /\ call[t].outcome # "durable"
              \/ /\ call'[t].at = "withdraw" /\ call[t].outcome = "durable"
                 /\ call'[t].anchor = call[t].anchor /\ call'[t].pending = call[t].pending
                 /\ call'[t].kind = call[t].kind /\ call'[t].part = call[t].part
                 /\ call'[t].working = call[t].working /\ call'[t].job = call[t].job
                 /\ call'[t].selected = call[t].selected
                 /\ call'[t].outcome = call[t].outcome /\ call'[t].result = call[t].result
  BY DEF RevokeFinish, writesBack, TypeOK, Locals

LEMMA WithdrawnFields ==
    ASSUME TypeOK, LocalsInv, NEW t \in Calls, Withdrawn(t)
    PROVE  /\ \A u \in Calls : u # t => call'[u] = call[u]
           /\ call'[t].at = "prepare"
           /\ call'[t].kind = "revoke"
           /\ call'[t].part = 2
           /\ call'[t].working = view
           /\ call'[t].selected = view
           /\ call'[t].anchor = anchor
           /\ call'[t].pending = None
           /\ call'[t].outcome = None
           /\ call'[t].job = "none"
           /\ call'[t].result = None
  BY DEF Withdrawn, unused, TypeOK, Locals

LEMMA WithdrawalIncompleteFields ==
    ASSUME TypeOK, LocalsInv, NEW t \in Calls, WithdrawalIncomplete(t)
    PROVE  /\ \A u \in Calls : u # t => call'[u] = call[u]
           /\ call'[t] = over(call[t])
  BY DEF WithdrawalIncomplete, becomes, TypeOK, Locals

LEMMA ReconcileReceiptFields ==
    ASSUME TypeOK, LocalsInv, NEW t \in Calls, ReconcileReceipt(t)
    PROVE  /\ \A u \in Calls : u # t => call'[u] = call[u]
           /\ call'[t].at = "prepare"
           /\ call'[t].kind = "reconcile"
           /\ call'[t].part = 2
           /\ call'[t].working = view
           /\ call'[t].selected = view
           /\ call'[t].anchor = call[t].anchor
           /\ call'[t].pending = None
           /\ call'[t].outcome = None
           /\ call'[t].job = "none"
           /\ call'[t].result = None
  BY DEF ReconcileReceipt, unused, TypeOK, Locals

LEMMA ReconcileViewFields ==
    ASSUME TypeOK, LocalsInv, NEW t \in Calls, ReconcileView(t)
    PROVE  /\ \A u \in Calls : u # t => call'[u] = call[u]
           /\ call'[t].at = "resolved"
           /\ call'[t].kind = call[t].kind
           /\ call'[t].part = call[t].part
           /\ call'[t].working = call[t].working
           /\ call'[t].selected = call[t].selected
           /\ call'[t].anchor = call[t].anchor
           /\ call'[t].pending = call[t].pending
           /\ call'[t].outcome = call[t].outcome
           /\ call'[t].job = call[t].job
           /\ call'[t].result = call[t].result
  BY DEF ReconcileView, TypeOK, Locals

LEMMA ReconcileFinishFields ==
    ASSUME TypeOK, LocalsInv, NEW t \in Calls, ReconcileFinish(t)
    PROVE  /\ \A u \in Calls : u # t => call'[u] = call[u]
           /\ call'[t] = over(call[t])
  BY DEF ReconcileFinish, becomes, TypeOK, Locals

LEMMA PrepareControlTypes ==
    ASSUME TypeOK, LocalsInv, DownInv, FilesInv, NEW t \in Calls, PrepareControl(t)
    PROVE  TypeOK'
<1>1. call' \in [Calls -> Locals]
  BY PublicationType DEF PrepareControl, ends, TypeOK, Locals, Places,
         Outcomes
<1> QED BY <1>1 DEF PrepareControl, ends, TypeOK, files, memory

LEMMA PrepareFailsTypes ==
    ASSUME TypeOK, LocalsInv, DownInv, FilesInv, NEW t \in Calls, PrepareFails(t)
    PROVE  TypeOK'
<1>1. call' \in [Calls -> Locals]
  BY EndsType DEF PrepareFails, Outcomes
<1> QED BY <1>1 DEF PrepareFails, ends, TypeOK, files, memory

LEMMA CompareAndStageTypes ==
    ASSUME TypeOK, LocalsInv, DownInv, FilesInv, NEW t \in Calls, CompareAndStage(t)
    PROVE  TypeOK'
<1>1. call' \in [Calls -> Locals]
  <2>1. call[t].pending \in Pending /\ call[t].anchor \in Anchor
        /\ call[t] \in Locals
    BY StagedType DEF CompareAndStage, TypeOK, Locals
  <2>2. "commit" \in Places
    BY DEF Places
  <2> DEFINE a == [call[t].anchor EXCEPT !.pending = call[t].pending]
             c == [[[call[t] EXCEPT !.at = "commit"] EXCEPT !.job = "queued"]
                      EXCEPT !.anchor = a]
  <2>3. c \in Locals
    BY <2>1, <2>2, LocalsSet, AnchorFields
  <2>4. call' = [call EXCEPT ![t] = c]
    BY <2>1 DEF CompareAndStage, Locals
  <2> QED BY <2>3, <2>4, CallType
<1>2. call[t].pending \in Pending
  BY StagedType DEF CompareAndStage
<1>3. [provider EXCEPT !.pending = call[t].pending] \in Anchor
  BY <1>2, AnchorFields DEF TypeOK
<1>4. witness' \in [seen : Anchor, safe : Anchor] /\ provider' \in Anchor
  BY <1>3, WitnessTypes DEF CompareAndStage
<1> QED BY <1>1, <1>4 DEF CompareAndStage, TypeOK, memory

LEMMA StageRefusedTypes ==
    ASSUME TypeOK, LocalsInv, DownInv, FilesInv, NEW t \in Calls, StageRefused(t)
    PROVE  TypeOK'
<1>1. call' \in [Calls -> Locals]
  BY EndsType DEF StageRefused, Outcomes
<1>2. call[t].pending \in Pending
  BY StagedType DEF StageRefused
<1>3. [provider EXCEPT !.pending = call[t].pending] \in Anchor
  BY <1>2, AnchorFields DEF TypeOK
<1>4. witness' \in [seen : Anchor, safe : Anchor] /\ provider' \in Anchor
  BY <1>3, WitnessTypes DEF StageRefused, TypeOK
<1> QED BY <1>1, <1>4 DEF StageRefused, TypeOK, memory

LEMMA CommitControlTypes ==
    ASSUME TypeOK, LocalsInv, DownInv, FilesInv, NEW t \in Calls, CommitControl(t)
    PROVE  TypeOK'
<1>1. call' \in [Calls -> Locals]
  <2>1. PICK r \in Results : commits(t, r)
    BY DEF CommitControl, Results
  <2>2. [[call[t] EXCEPT !.job = "none"] EXCEPT !.result = r] \in Locals
    BY LocalsSet, OwnType
  <2>3. call' = [call EXCEPT ![t] =
                   [[call[t] EXCEPT !.job = "none"] EXCEPT !.result = r]]
    BY <2>1 DEF commits
  <2> QED BY <2>2, <2>3, CallType
<1>2. call[t].pending \in Pending /\ handle \in [gen : Generation, poisoned : BOOLEAN]
  <2>1. call[t].at = "commit" /\ state.run # "down"
    BY DEF CommitControl, committable, LocalsInv, DownInv, quiet
  <2> QED BY <2>1, StagedType DEF FilesInv
<1>3. call[t].pending.target \in Generation
  BY <1>2, PendingFields
<1>4. disk' \in [seen : Generation, safe : Generation]
  BY <1>3 DEF CommitControl, TypeOK
<1>5. handle' \in [gen : Generation, poisoned : BOOLEAN]
  BY <1>2, <1>3 DEF CommitControl, TypeOK
<1> QED BY <1>1, <1>4, <1>5 DEF CommitControl, TypeOK, memory

LEMMA CommitFailsTypes ==
    ASSUME TypeOK, LocalsInv, DownInv, FilesInv, NEW t \in Calls, CommitFails(t)
    PROVE  TypeOK'
<1>1. call' \in [Calls -> Locals]
  <2>1. PICK r \in Results : commits(t, r)
    BY DEF CommitFails, Results
  <2>2. [[call[t] EXCEPT !.job = "none"] EXCEPT !.result = r] \in Locals
    BY LocalsSet, OwnType
  <2>3. call' = [call EXCEPT ![t] =
                   [[call[t] EXCEPT !.job = "none"] EXCEPT !.result = r]]
    BY <2>1 DEF commits
  <2> QED BY <2>2, <2>3, CallType
<1> QED BY <1>1 DEF CommitFails, commits, TypeOK, files, memory

LEMMA CommitExpiredTypes ==
    ASSUME TypeOK, LocalsInv, DownInv, FilesInv, NEW t \in Calls, CommitExpired(t)
    PROVE  TypeOK'
<1>1. call' \in [Calls -> Locals]
  BY DEF CommitExpired, TypeOK, Locals, Places, Outcomes
<1> QED BY <1>1 DEF CommitExpired, TypeOK, files, memory

LEMMA CommitLateTypes ==
    ASSUME TypeOK, LocalsInv, DownInv, FilesInv, NEW t \in Calls, CommitLate(t)
    PROVE  TypeOK'
<1>1. call' \in [Calls -> Locals]
  <2>1. PICK j \in {"none", "queued", "expired"} :
          call' = [call EXCEPT ![t].at = "finish", ![t].outcome = "unknown",
                               ![t].job = j]
    BY DEF CommitLate, TypeOK, Locals
  <2> DEFINE c == [[[call[t] EXCEPT !.at = "finish"]
                      EXCEPT !.outcome = "unknown"] EXCEPT !.job = j]
  <2>2. c \in Locals
    BY LocalsSet, OwnType DEF Places, Outcomes
  <2>3. call' = [call EXCEPT ![t] = c]
    BY <2>1
  <2> QED BY <2>2, <2>3, CallType
<1> QED BY <1>1 DEF CommitLate, TypeOK, files, memory

LEMMA CommitResultTypes ==
    ASSUME TypeOK, LocalsInv, DownInv, FilesInv, NEW t \in Calls, CommitResult(t)
    PROVE  TypeOK'
<1>1. call' \in [Calls -> Locals]
  BY DEF CommitResult, ends, TypeOK, Locals, Places, Outcomes
<1> QED BY <1>1 DEF CommitResult, ends, TypeOK, files, memory

LEMMA CompareAndFinalizeTypes ==
    ASSUME TypeOK, LocalsInv, DownInv, FilesInv, NEW t \in Calls, CompareAndFinalize(t)
    PROVE  TypeOK'
<1>1. call' \in [Calls -> Locals]
  <2>1. call[t].pending \in Pending /\ call[t].anchor \in Anchor
        /\ call[t] \in Locals
    BY StagedType DEF CompareAndFinalize, TypeOK, Locals
  <2> DEFINE a == finalized(call[t].pending)
             at == IF call[t].kind = "reconcile" /\ call[t].part = 1
                   THEN "receipt" ELSE "finish"
             c == [[[call[t] EXCEPT !.at = at] EXCEPT !.outcome = "durable"]
                      EXCEPT !.anchor = a]
  <2>2. a \in Anchor /\ at \in Places /\ "durable" \in Outcomes
    BY <2>1, SettledTypes DEF Places, Outcomes
  <2>3. c \in Locals
    <3> HIDE DEF a, at
    <3> QED BY <2>1, <2>2, LocalsSet
  <2>4. call' = [call EXCEPT ![t] = c]
    BY <2>1 DEF CompareAndFinalize, anchorDurable, Locals
  <2> QED BY <2>3, <2>4, CallType
<1>2. call[t].pending \in Pending
  BY StagedType DEF CompareAndFinalize
<1>3. finalized(call[t].pending) \in Anchor /\ cleared(provider) \in Anchor
  BY <1>2, SettledTypes DEF TypeOK
<1>4. witness' \in [seen : Anchor, safe : Anchor] /\ provider' \in Anchor
  BY <1>3, WitnessTypes DEF CompareAndFinalize
<1>5. told' \in [applied : SUBSET Identity, refused : SUBSET Identity]
  BY <1>2, PendingFields DEF CompareAndFinalize, TypeOK
<1> QED BY <1>1, <1>4, <1>5 DEF CompareAndFinalize, TypeOK, memory

LEMMA CompareAndClearTypes ==
    ASSUME TypeOK, LocalsInv, DownInv, FilesInv, NEW t \in Calls, CompareAndClear(t)
    PROVE  TypeOK'
<1>1. call' \in [Calls -> Locals]
  <2>1. call[t].pending \in Pending /\ call[t].anchor \in Anchor
        /\ call[t] \in Locals
    BY StagedType DEF CompareAndClear, TypeOK, Locals
  <2> DEFINE a == cleared(call[t].anchor)
             at == IF call[t].kind = "reconcile" /\ call[t].part = 1
                   THEN "receipt" ELSE "finish"
             c == [[[call[t] EXCEPT !.at = at] EXCEPT !.outcome = "unchanged"]
                      EXCEPT !.anchor = a]
  <2>2. a \in Anchor /\ at \in Places /\ "unchanged" \in Outcomes
    BY <2>1, SettledTypes DEF Places, Outcomes
  <2>3. c \in Locals
    <3> HIDE DEF a, at
    <3> QED BY <2>1, <2>2, LocalsSet
  <2>4. call' = [call EXCEPT ![t] = c]
    BY <2>1 DEF CompareAndClear, anchorDurable, Locals
  <2> QED BY <2>3, <2>4, CallType
<1>2. call[t].pending \in Pending
  BY StagedType DEF CompareAndClear
<1>3. finalized(call[t].pending) \in Anchor /\ cleared(provider) \in Anchor
  BY <1>2, SettledTypes DEF TypeOK
<1>4. witness' \in [seen : Anchor, safe : Anchor] /\ provider' \in Anchor
  BY <1>3, WitnessTypes DEF CompareAndClear
<1>5. told' \in [applied : SUBSET Identity, refused : SUBSET Identity]
  BY <1>2, PendingFields DEF CompareAndClear, TypeOK
<1> QED BY <1>1, <1>4, <1>5 DEF CompareAndClear, TypeOK, memory

LEMMA SettleRefusedTypes ==
    ASSUME TypeOK, LocalsInv, DownInv, FilesInv, NEW t \in Calls, SettleRefused(t)
    PROVE  TypeOK'
<1>1. call' \in [Calls -> Locals]
  BY EndsType DEF SettleRefused, Outcomes
<1>2. call[t].pending \in Pending
  BY StagedType DEF SettleRefused
<1>3. finalized(call[t].pending) \in Anchor /\ cleared(provider) \in Anchor
  BY <1>2, SettledTypes DEF TypeOK
<1>4. witness' \in [seen : Anchor, safe : Anchor] /\ provider' \in Anchor
  BY <1>3, WitnessTypes DEF SettleRefused, TypeOK
<1> QED BY <1>1, <1>4 DEF SettleRefused, TypeOK, memory

LEMMA ConfirmTypes ==
    ASSUME TypeOK, LocalsInv, DownInv, FilesInv, NEW t \in Calls, Confirm(t)
    PROVE  TypeOK'
<1>1. call' \in [Calls -> Locals]
  BY EntersType DEF Confirm, AllKinds, Places
<1> QED BY <1>1 DEF Confirm, entered, unused, TypeOK, files, memory

LEMMA RevokeTypes ==
    ASSUME TypeOK, LocalsInv, DownInv, FilesInv, NEW t \in Calls, Revoke(t)
    PROVE  TypeOK'
<1>1. call' \in [Calls -> Locals]
  BY EntersType DEF Revoke, AllKinds, Places
<1> QED BY <1>1 DEF Revoke, entered, unused, TypeOK, files, memory

LEMMA RevokeAgainTypes ==
    ASSUME TypeOK, LocalsInv, DownInv, FilesInv, NEW t \in Calls, RevokeAgain(t)
    PROVE  TypeOK'
<1>1. call' \in [Calls -> Locals]
  BY EntersType DEF RevokeAgain, AllKinds, Places
<1> QED BY <1>1 DEF RevokeAgain, entered, unused, TypeOK, files, memory

LEMMA RevokePublishesTypes ==
    ASSUME TypeOK, LocalsInv, DownInv, FilesInv, NEW t \in Calls, RevokePublishes(t)
    PROVE  TypeOK'
<1>1. call' \in [Calls -> Locals]
  <2> DEFINE c == [[[call[t] EXCEPT !.at = "prepare"] EXCEPT !.selected = view]
                      EXCEPT !.anchor = anchor]
  <2>1. c \in Locals
    BY LocalsSet, OwnType DEF TypeOK, Places
  <2>2. call' = [call EXCEPT ![t] = c]
    BY DEF RevokePublishes
  <2> QED BY <2>1, <2>2, CallType
<1> QED BY <1>1 DEF RevokePublishes, TypeOK, files, memory

LEMMA RepairTypes ==
    ASSUME TypeOK, LocalsInv, DownInv, FilesInv, NEW t \in Calls, Repair(t)
    PROVE  TypeOK'
<1>1. call' \in [Calls -> Locals]
  BY EntersType DEF Repair, AllKinds, Places
<1> QED BY <1>1 DEF Repair, entered, unused, TypeOK, files, memory

LEMMA ReconcileTypes ==
    ASSUME TypeOK, LocalsInv, DownInv, FilesInv, NEW t \in Calls, Reconcile(t)
    PROVE  TypeOK'
<1>1. call' \in [Calls -> Locals]
  BY EntersType DEF Reconcile, AllKinds, Places
<1> QED BY <1>1 DEF Reconcile, entered, unused, TypeOK, files, memory

LEMMA ReconcilePendingTypes ==
    ASSUME TypeOK, LocalsInv, DownInv, FilesInv, NEW t \in Calls, ReconcilePending(t)
    PROVE  TypeOK'
<1>1. call' \in [Calls -> Locals]
  <2>1. CASE anchor.pending = None
    BY <2>1, OverType, CallType DEF ReconcilePending
  <2>2. CASE anchor.pending # None
    <3> DEFINE c == [[[call[t] EXCEPT !.at = "observe"]
                        EXCEPT !.anchor = anchor]
                        EXCEPT !.pending = anchor.pending]
    <3>1. anchor \in Anchor /\ anchor.pending \in Pending
      BY <2>2, AnchorFields DEF TypeOK
    <3>2. c \in Locals
      BY <3>1, LocalsSet, OwnType DEF Places
    <3>3. call' = [call EXCEPT ![t] = c]
      BY <2>2 DEF ReconcilePending
    <3> QED BY <3>2, <3>3, CallType
  <2> QED BY <2>1, <2>2
<1> QED BY <1>1 DEF ReconcilePending, TypeOK, files, memory

LEMMA ObserveTypes ==
    ASSUME TypeOK, LocalsInv, DownInv, FilesInv, NEW t \in Calls, Observe(t)
    PROVE  TypeOK'
<1>1. call' \in [Calls -> Locals]
  BY DEF Observe, ends, TypeOK, Locals, Places, Outcomes
<1> QED BY <1>1 DEF Observe, ends, TypeOK, files, memory

LEMMA RetryTypes ==
    ASSUME TypeOK, LocalsInv, DownInv, FilesInv, NEW t \in Calls, Retry(t)
    PROVE  TypeOK'
<1>1. call' \in [Calls -> Locals]
  BY EntersType DEF Retry, AllKinds, Places
<1> QED BY <1>1 DEF Retry, entered, unused, TypeOK, files, memory

LEMMA AttemptPrepareTypes ==
    ASSUME TypeOK, LocalsInv, DownInv, FilesInv, NEW t \in Calls, AttemptPrepare(t)
    PROVE  TypeOK'
<1>1. call' \in [Calls -> Locals]
  BY EntersType DEF AttemptPrepare, AllKinds, Places
<1> QED BY <1>1 DEF AttemptPrepare, entered, unused, TypeOK, files, memory

LEMMA AttemptTypes ==
    ASSUME TypeOK, LocalsInv, DownInv, FilesInv, NEW t \in Calls, Attempt(t)
    PROVE  TypeOK'
<1>1. call' \in [Calls -> Locals]
  BY EntersType DEF Attempt, AllKinds, Places
<1> QED BY <1>1 DEF Attempt, entered, unused, TypeOK, files, memory

LEMMA StartPublishesTypes ==
    ASSUME TypeOK, LocalsInv, DownInv, FilesInv, NEW t \in Calls, StartPublishes(t)
    PROVE  TypeOK'
<1>1. call' \in [Calls -> Locals]
  BY EntersType DEF StartPublishes, AllKinds, Places
<1> QED BY <1>1 DEF StartPublishes, entered, unused, TypeOK, files, memory

LEMMA ConfirmFinishTypes ==
    ASSUME TypeOK, LocalsInv, DownInv, FilesInv, NEW t \in Calls, ConfirmFinish(t)
    PROVE  TypeOK'
<1>1. call' \in [Calls -> Locals]
  BY WritesBackTypes DEF ConfirmFinish
<1>2. /\ view' \in Generation /\ anchor' \in Anchor
      /\ told' \in [applied : SUBSET Identity, refused : SUBSET Identity]
      /\ UNCHANGED <<disk, witness, handle, provider, restarts>>
  BY WritesBackTypes DEF ConfirmFinish
<1>3. state' \in [run : {"up", "starting", "down"}, recovery : Recoveries,
                  trusted : BOOLEAN]
  <2>1. /\ state \in [run : {"up", "starting", "down"}, recovery : Recoveries,
                      trusted : BOOLEAN]
        /\ state.trusted \in BOOLEAN /\ call[t].before \in Recoveries
    BY DEF TypeOK, Locals
  <2>2. \A r \in Recoveries, b \in BOOLEAN : becomes(r, b) =>
          state' \in [run : {"up", "starting", "down"}, recovery : Recoveries,
                      trusted : BOOLEAN]
    BY <2>1 DEF becomes
  <2> QED BY <2>1, <2>2 DEF ConfirmFinish, quarantined, Recoveries
<1>4. operation' \in Calls \cup {None} /\ mutex' \in Calls \cup {None}
  BY DEF ConfirmFinish, TypeOK
<1> QED BY <1>1, <1>2, <1>3, <1>4 DEF TypeOK

LEMMA ReceiptFinishTypes ==
    ASSUME TypeOK, LocalsInv, DownInv, FilesInv, NEW t \in Calls, ReceiptFinish(t)
    PROVE  TypeOK'
<1>1. call' \in [Calls -> Locals]
  BY WritesBackTypes DEF ReceiptFinish
<1>2. /\ view' \in Generation /\ anchor' \in Anchor
      /\ told' \in [applied : SUBSET Identity, refused : SUBSET Identity]
      /\ UNCHANGED <<disk, witness, handle, provider, restarts>>
  BY WritesBackTypes DEF ReceiptFinish
<1>3. state' \in [run : {"up", "starting", "down"}, recovery : Recoveries,
                  trusted : BOOLEAN]
  <2>1. /\ state \in [run : {"up", "starting", "down"}, recovery : Recoveries,
                      trusted : BOOLEAN]
        /\ state.trusted \in BOOLEAN /\ call[t].before \in Recoveries
    BY DEF TypeOK, Locals
  <2>2. \A r \in Recoveries, b \in BOOLEAN : becomes(r, b) =>
          state' \in [run : {"up", "starting", "down"}, recovery : Recoveries,
                      trusted : BOOLEAN]
    BY <2>1 DEF becomes
  <2> QED BY <2>1, <2>2 DEF ReceiptFinish, quarantined, Recoveries
<1>4. operation' \in Calls \cup {None} /\ mutex' \in Calls \cup {None}
  BY DEF ReceiptFinish, TypeOK
<1> QED BY <1>1, <1>2, <1>3, <1>4 DEF TypeOK

LEMMA RepairFinishTypes ==
    ASSUME TypeOK, LocalsInv, DownInv, FilesInv, NEW t \in Calls, RepairFinish(t)
    PROVE  TypeOK'
<1>1. call' \in [Calls -> Locals]
  BY WritesBackTypes DEF RepairFinish
<1>2. /\ view' \in Generation /\ anchor' \in Anchor
      /\ told' \in [applied : SUBSET Identity, refused : SUBSET Identity]
      /\ UNCHANGED <<disk, witness, handle, provider, restarts>>
  BY WritesBackTypes DEF RepairFinish
<1>3. state' \in [run : {"up", "starting", "down"}, recovery : Recoveries,
                  trusted : BOOLEAN]
  <2>1. /\ state \in [run : {"up", "starting", "down"}, recovery : Recoveries,
                      trusted : BOOLEAN]
        /\ state.trusted \in BOOLEAN /\ call[t].before \in Recoveries
    BY DEF TypeOK, Locals
  <2>2. \A r \in Recoveries, b \in BOOLEAN : becomes(r, b) =>
          state' \in [run : {"up", "starting", "down"}, recovery : Recoveries,
                      trusted : BOOLEAN]
    BY <2>1 DEF becomes
  <2> QED BY <2>1, <2>2 DEF RepairFinish, quarantined, Recoveries
<1>4. operation' \in Calls \cup {None} /\ mutex' \in Calls \cup {None}
  BY DEF RepairFinish, TypeOK
<1> QED BY <1>1, <1>2, <1>3, <1>4 DEF TypeOK

LEMMA RetryFinishTypes ==
    ASSUME TypeOK, LocalsInv, DownInv, FilesInv, NEW t \in Calls, RetryFinish(t)
    PROVE  TypeOK'
<1>1. call' \in [Calls -> Locals]
  BY WritesBackTypes DEF RetryFinish
<1>2. /\ view' \in Generation /\ anchor' \in Anchor
      /\ told' \in [applied : SUBSET Identity, refused : SUBSET Identity]
      /\ UNCHANGED <<disk, witness, handle, provider, restarts>>
  BY WritesBackTypes DEF RetryFinish
<1>3. state' \in [run : {"up", "starting", "down"}, recovery : Recoveries,
                  trusted : BOOLEAN]
  <2>1. /\ state \in [run : {"up", "starting", "down"}, recovery : Recoveries,
                      trusted : BOOLEAN]
        /\ state.trusted \in BOOLEAN /\ call[t].before \in Recoveries
    BY DEF TypeOK, Locals
  <2>2. \A r \in Recoveries, b \in BOOLEAN : becomes(r, b) =>
          state' \in [run : {"up", "starting", "down"}, recovery : Recoveries,
                      trusted : BOOLEAN]
    BY <2>1 DEF becomes
  <2> QED BY <2>1, <2>2 DEF RetryFinish, quarantined, Recoveries
<1>4. operation' \in Calls \cup {None} /\ mutex' \in Calls \cup {None}
  BY DEF RetryFinish, TypeOK
<1> QED BY <1>1, <1>2, <1>3, <1>4 DEF TypeOK

LEMMA AttemptFinishTypes ==
    ASSUME TypeOK, LocalsInv, DownInv, FilesInv, NEW t \in Calls, AttemptFinish(t)
    PROVE  TypeOK'
<1>1. call' \in [Calls -> Locals]
  BY WritesBackTypes DEF AttemptFinish
<1>2. /\ view' \in Generation /\ anchor' \in Anchor
      /\ told' \in [applied : SUBSET Identity, refused : SUBSET Identity]
      /\ UNCHANGED <<disk, witness, handle, provider, restarts>>
  BY WritesBackTypes DEF AttemptFinish
<1>3. state' \in [run : {"up", "starting", "down"}, recovery : Recoveries,
                  trusted : BOOLEAN]
  <2>1. /\ state \in [run : {"up", "starting", "down"}, recovery : Recoveries,
                      trusted : BOOLEAN]
        /\ state.trusted \in BOOLEAN /\ call[t].before \in Recoveries
    BY DEF TypeOK, Locals
  <2>2. \A r \in Recoveries, b \in BOOLEAN : becomes(r, b) =>
          state' \in [run : {"up", "starting", "down"}, recovery : Recoveries,
                      trusted : BOOLEAN]
    BY <2>1 DEF becomes
  <2> QED BY <2>1, <2>2 DEF AttemptFinish, quarantined, Recoveries
<1>4. operation' \in Calls \cup {None} /\ mutex' \in Calls \cup {None}
  BY DEF AttemptFinish, TypeOK
<1> QED BY <1>1, <1>2, <1>3, <1>4 DEF TypeOK

LEMMA StartFinishTypes ==
    ASSUME TypeOK, LocalsInv, DownInv, FilesInv, NEW t \in Calls, StartFinish(t)
    PROVE  TypeOK'
<1>1. call' \in [Calls -> Locals]
  BY WritesBackTypes DEF StartFinish
<1>2. /\ view' \in Generation /\ anchor' \in Anchor
      /\ told' \in [applied : SUBSET Identity, refused : SUBSET Identity]
      /\ UNCHANGED <<disk, witness, handle, provider, restarts>>
  BY WritesBackTypes DEF StartFinish
<1>3. state' \in [run : {"up", "starting", "down"}, recovery : Recoveries,
                  trusted : BOOLEAN]
  <2>1. CASE state' = [run |-> "up", recovery |-> "QUARANTINED",
                       trusted |-> FALSE]
    BY <2>1 DEF Recoveries
  <2>2. CASE classified(view', anchor')
    BY <2>2, ClassifiedType
  <2> QED BY <2>1, <2>2 DEF StartFinish
<1> QED BY <1>1, <1>2, <1>3 DEF StartFinish, TypeOK

LEMMA RevokeFinishTypes ==
    ASSUME TypeOK, LocalsInv, DownInv, FilesInv, NEW t \in Calls, RevokeFinish(t)
    PROVE  TypeOK'
<1>1. call' \in [Calls -> Locals]
  BY WritesBackTypes DEF RevokeFinish
<1>2. /\ view' \in Generation /\ anchor' \in Anchor
      /\ told' \in [applied : SUBSET Identity, refused : SUBSET Identity]
      /\ UNCHANGED <<disk, witness, handle, provider, restarts>>
  BY WritesBackTypes DEF RevokeFinish
<1>3. state' \in [run : {"up", "starting", "down"}, recovery : Recoveries,
                  trusted : BOOLEAN]
  <2>1. /\ state \in [run : {"up", "starting", "down"}, recovery : Recoveries,
                      trusted : BOOLEAN]
        /\ state.trusted \in BOOLEAN /\ call[t].before \in Recoveries
    BY DEF TypeOK, Locals
  <2>2. \A r \in Recoveries, b \in BOOLEAN : becomes(r, b) =>
          state' \in [run : {"up", "starting", "down"}, recovery : Recoveries,
                      trusted : BOOLEAN]
    BY <2>1 DEF becomes
  <2> QED BY <2>1, <2>2 DEF RevokeFinish, quarantined, Recoveries
<1>4. operation' \in Calls \cup {None} /\ mutex' \in Calls \cup {None}
  BY DEF RevokeFinish, TypeOK
<1> QED BY <1>1, <1>2, <1>3, <1>4 DEF TypeOK

LEMMA WithdrawnTypes ==
    ASSUME TypeOK, LocalsInv, DownInv, FilesInv, NEW t \in Calls, Withdrawn(t)
    PROVE  TypeOK'
<1>1. call' \in [Calls -> Locals]
  <2>1. call[t].anchor \in Anchor /\ anchor \in Anchor
    BY DEF TypeOK, Locals
  <2> QED BY <2>1, EnteredType DEF Withdrawn, AllKinds, Places
<1> QED BY <1>1 DEF Withdrawn, unused, TypeOK, files, memory

LEMMA WithdrawalIncompleteTypes ==
    ASSUME TypeOK, LocalsInv, DownInv, FilesInv, NEW t \in Calls, WithdrawalIncomplete(t)
    PROVE  TypeOK'
<1>1. call' \in [Calls -> Locals]
  BY UnusedType, OverType DEF WithdrawalIncomplete, becomes, TypeOK, Locals,
         Places
<1>3. state' \in [run : {"up", "starting", "down"}, recovery : Recoveries,
                  trusted : BOOLEAN]
  <2>1. /\ state \in [run : {"up", "starting", "down"}, recovery : Recoveries,
                      trusted : BOOLEAN]
        /\ state.trusted \in BOOLEAN /\ call[t].before \in Recoveries
    BY DEF TypeOK, Locals
  <2>2. \A r \in Recoveries, b \in BOOLEAN : becomes(r, b) =>
          state' \in [run : {"up", "starting", "down"}, recovery : Recoveries,
                      trusted : BOOLEAN]
    BY <2>1 DEF becomes
  <2> QED BY <2>1, <2>2 DEF WithdrawalIncomplete, quarantined, Recoveries
<1> QED BY <1>1, <1>3 DEF WithdrawalIncomplete, TypeOK, files

LEMMA ReconcileReceiptTypes ==
    ASSUME TypeOK, LocalsInv, DownInv, FilesInv, NEW t \in Calls, ReconcileReceipt(t)
    PROVE  TypeOK'
<1>1. call' \in [Calls -> Locals]
  <2>1. call[t].anchor \in Anchor /\ "reconcile" \in AllKinds
        /\ "prepare" \in Places
    BY DEF TypeOK, Locals, AllKinds, Places
  <2>2. call' = [call EXCEPT ![t] =
                  [unused EXCEPT !.at = "prepare", !.kind = "reconcile",
                                 !.part = 2, !.working = view,
                                 !.selected = view, !.anchor = call[t].anchor,
                                 !.before = state.recovery]]
    BY DEF ReconcileReceipt
  <2> QED BY <2>1, <2>2, EnteredType
<1> QED BY <1>1 DEF ReconcileReceipt, unused, TypeOK, files, memory

LEMMA ReconcileViewTypes ==
    ASSUME TypeOK, LocalsInv, DownInv, FilesInv, NEW t \in Calls, ReconcileView(t)
    PROVE  TypeOK'
<1>1. call' \in [Calls -> Locals]
  <2>1. [call[t] EXCEPT !.at = "resolved"] \in Locals
    BY LocalsSet, OwnType DEF Places
  <2>2. call' = [call EXCEPT ![t] = [call[t] EXCEPT !.at = "resolved"]]
    BY DEF ReconcileView
  <2> QED BY <2>1, <2>2, CallType
<1>2. call[t].pending.target \in Generation
  <2>1. ~settling(t)
    BY DEF LocalsInv, ReconcileView
  <2>2. call[t].pending = publication(t, call[t]) /\ call[t].kind \in AllKinds
    BY <2>1 DEF LocalsInv, ReconcileView, AllKinds
  <2> QED BY <2>2, PublicationType, PendingFields
<1> QED BY <1>1, <1>2 DEF ReconcileView, TypeOK, files

LEMMA ReconcileFinishTypes ==
    ASSUME TypeOK, LocalsInv, DownInv, FilesInv, NEW t \in Calls, ReconcileFinish(t)
    PROVE  TypeOK'
<1>1. call' \in [Calls -> Locals]
  BY UnusedType, OverType DEF ReconcileFinish, becomes, TypeOK, Locals, Places
<1>3. state' \in [run : {"up", "starting", "down"}, recovery : Recoveries,
                  trusted : BOOLEAN]
  <2>1. /\ state \in [run : {"up", "starting", "down"}, recovery : Recoveries,
                      trusted : BOOLEAN]
        /\ state.trusted \in BOOLEAN /\ call[t].before \in Recoveries
    BY DEF TypeOK, Locals
  <2>2. \A r \in Recoveries, b \in BOOLEAN : becomes(r, b) =>
          state' \in [run : {"up", "starting", "down"}, recovery : Recoveries,
                      trusted : BOOLEAN]
    BY <2>1 DEF becomes
  <2> QED BY <2>1, <2>2 DEF ReconcileFinish, quarantined, Recoveries
<1>4. anchor' \in Anchor
  BY DEF ReconcileFinish, TypeOK, Locals
<1> QED BY <1>1, <1>3, <1>4 DEF ReconcileFinish, TypeOK, files

-----------------------------------------------------------------------------
(* Every step of a call keeps the invariant.                               *)

\* What is left of a call that has returned.
overFields(c, d) ==
    /\ c.at = "ended" /\ c.kind = None /\ c.part = 1 /\ c.pending = None
    /\ c.anchor.pending = None /\ c.job = d.job /\ c.outcome = None
    /\ c.result = None

LEMMA OverFields == ASSUME NEW c PROVE overFields(over(c), c)
  BY DEF overFields, over, unused, settled

LEMMA Present ==
    /\ "confirm" # None /\ "revoke" # None /\ "repair" # None
    /\ "reconcile" # None /\ "retry" # None /\ "attempt_prepare" # None
    /\ "attempt" # None /\ "release" # None /\ "charge" # None
    /\ "durable" # None /\ "unchanged" # None /\ "unknown" # None
    /\ "prepare_failed" # None /\ "other" # None
    /\ "commit_durable" # None /\ "commit_not_published" # None
  BY AbsentAssumption DEF AllKinds, Outcomes, Results

\* Names stay fresh when a call only copies what was already somewhere.
LEMMA FreshKept ==
    ASSUME FreshInv, NEW t \in Calls,
           \A u \in Calls : u # t => call'[u] = call[u],
           \A k \in {1, 2} : notYet(t, k)' => notYet(t, k),
           UNCHANGED <<disk, witness, provider>>,
           \A v \in Calls, k \in {1, 2} :
             notYet(v, k)' /\ <<v, k>> \in told'.refused
               => <<v, k>> \in told.refused,
           anchor' = anchor \/ anchor' = call[t].anchor,
           call'[t].anchor.pending
             \in {None, anchor.pending, call[t].anchor.pending},
           \/ call'[t].pending \in {None, anchor.pending, call[t].pending}
           \/ call'[t].pending.id = <<t, call[t].part>>
    PROVE  FreshInv'
<1> SUFFICES ASSUME NEW v \in Calls, NEW k \in {1, 2}, notYet(v, k)'
             PROVE  /\ <<v, k>> \notin disk'.seen.by \cup disk'.safe.by
                    /\ <<v, k>> \notin told'.refused
                    /\ ~names(witness'.seen, <<v, k>>)
                    /\ ~names(witness'.safe, <<v, k>>)
                    /\ ~names(provider', <<v, k>>)
                    /\ ~names(anchor', <<v, k>>)
                    /\ \A u \in Calls :
                         /\ ~names(call'[u].anchor, <<v, k>>)
                         /\ u = v \/ ~names(call'[u], <<v, k>>)
  BY DEF FreshInv, names
<1>1. notYet(v, k)
  BY DEF notYet
<1>2. /\ <<v, k>> \notin disk.seen.by \cup disk.safe.by
      /\ <<v, k>> \notin told.refused
      /\ ~names(witness.seen, <<v, k>>) /\ ~names(witness.safe, <<v, k>>)
      /\ ~names(provider, <<v, k>>) /\ ~names(anchor, <<v, k>>)
      /\ \A u \in Calls : /\ ~names(call[u].anchor, <<v, k>>)
                          /\ u = v \/ ~names(call[u], <<v, k>>)
  BY <1>1 DEF FreshInv
<1>3. /\ ~names(call'[t].anchor, <<v, k>>)
      /\ t = v \/ ~names(call'[t], <<v, k>>)
  BY <1>2 DEF names
<1> QED BY <1>2, <1>3

\* The facts about a call that may still be published.
LEMMA QueuedPending ==
    ASSUME TypeOK, LocalsInv, NEW u \in Calls, call[u].job = "queued"
    PROVE  /\ call[u].at = "commit" /\ ~settling(u)
           /\ call[u].pending = publication(u, call[u])
           /\ call[u].pending \in Pending /\ call[u].pending # None
           /\ call[u].pending.id = <<u, call[u].part>>
<1>1. call[u].at = "commit"
  BY DEF LocalsInv
<1>2. ~settling(u) /\ call[u].pending = publication(u, call[u])
  BY <1>1 DEF LocalsInv
<1>3. call[u].pending \in Pending /\ call[u].pending # None
  BY <1>1, StagedType, PendingFields
<1>4. publication(u, call[u]).id = <<u, call[u].part>>
  BY DEF publication
<1> QED BY <1>1, <1>2, <1>3, <1>4

LEMMA Running ==
    ASSUME DownInv, NEW t \in Calls, call[t].at \notin quiet
    PROVE  state.run # "down"
  BY DEF DownInv

LEMMA OwnPublication ==
    ASSUME TypeOK, NEW t \in Calls, call[t].kind \in AllKinds
    PROVE  LET p == publication(t, call[t]) IN
           /\ p \in Pending /\ p # None /\ p.id = <<t, call[t].part>>
           /\ p.previous = call[t].working
           /\ p.target.number = call[t].working.number + 1
           /\ p.target.by = call[t].working.by \cup {<<t, call[t].part>>}
           /\ p.target.association = associationAfter(call[t].kind,
                call[t].part, call[t].working.association)
  BY PublicationType, PendingFields DEF publication

LEMMA Numbers ==
    ASSUME TypeOK
    PROVE  /\ disk.safe.number \in Nat /\ disk.seen.number \in Nat
           /\ view.number \in Nat
           /\ provider.highWater \in Nat /\ anchor.highWater \in Nat
           /\ \A u \in Calls : /\ call[u].working.number \in Nat
                               /\ call[u].anchor.highWater \in Nat
                               /\ call[u].part \in {1, 2}
<1>1. ASSUME NEW u \in Calls
      PROVE  /\ call[u].working.number \in Nat
             /\ call[u].anchor.highWater \in Nat /\ call[u].part \in {1, 2}
  BY DEF TypeOK, Locals, Generation, Anchor
<1>2. /\ disk.safe \in Generation /\ disk.seen \in Generation
      /\ view \in Generation /\ provider \in Anchor /\ anchor \in Anchor
  BY DEF TypeOK
<1> QED BY <1>1, <1>2 DEF Generation, Anchor

\* Who can stage works on what the store has open, and its name is new.
LEMMA StagePoint ==
    ASSUME ControlInv, NEW t \in Calls, call[t].at = "stage",
           provider.pending = None, provider = call[t].anchor,
           witness.seen = provider
    PROVE  /\ call[t].pending \in Pending /\ call[t].pending # None
           /\ call[t].pending.id = <<t, call[t].part>>
           /\ formed(call[t].pending) /\ ~settling(t)
           /\ call[t].pending.previous = disk.safe /\ disk.seen = disk.safe
           /\ handle.gen = disk.safe /\ call[t].working = disk.safe
           /\ provider.highWater = disk.safe.number
           /\ state.run # "down" /\ notYet(t, call[t].part)
<1>0. /\ TypeOK /\ LocalsInv /\ DownInv /\ FilesInv /\ CopiesInv /\ FreshInv
      /\ AnchorRestorable
  BY DEF ControlInv
<1>1. state.run # "down" /\ call[t].kind \in AllKinds
  BY <1>0, Running DEF quiet, LocalsInv, TypeOK, Locals
<1>2. ~settling(t) /\ call[t].pending = publication(t, call[t])
  BY <1>0 DEF LocalsInv
<1>3. disk.seen = disk.safe /\ handle.gen = disk.safe
  BY <1>0, <1>1 DEF FilesInv
<1>4. provider.highWater = disk.safe.number
  BY <1>0, <1>3 DEF AnchorRestorable, restoreAnchor
<1>5. call[t].working = disk.safe
  <2>1. past(call[t].working, disk.safe)
        /\ provider.highWater <= call[t].working.number
    BY <1>0, <1>1, <1>3 DEF CopiesInv, early
  <2> QED BY <1>0, <1>4, <2>1, Numbers DEF past
<1>6. notYet(t, call[t].part) /\ call[t].part \in {1, 2}
  BY <1>0, Numbers DEF notYet, early
<1>7. <<t, call[t].part>> \notin disk.safe.by
  BY <1>0, <1>6 DEF FreshInv
<1>8. /\ call[t].pending \in Pending /\ call[t].pending # None
      /\ call[t].pending.id = <<t, call[t].part>>
      /\ call[t].pending.previous = disk.safe
      /\ call[t].pending.target.number = disk.safe.number + 1
      /\ call[t].pending.target.by = disk.safe.by \cup {<<t, call[t].part>>}
  BY <1>0, <1>1, <1>2, <1>5, OwnPublication
<1>9. formed(call[t].pending)
  BY <1>7, <1>8 DEF formed
<1> QED BY <1>1, <1>2, <1>3, <1>4, <1>5, <1>6, <1>8, <1>9

\* While a goroutine is about to commit.
LEMMA CommitPoint ==
    ASSUME ControlInv, NEW t \in Calls, call[t].job = "queued"
    PROVE  /\ call[t].at = "commit" /\ ~settling(t) /\ call[t].result = None
           /\ call[t].pending \in Pending /\ call[t].pending # None
           /\ call[t].pending = publication(t, call[t])
           /\ call[t].pending.id = <<t, call[t].part>>
           /\ formed(call[t].pending) /\ state.run # "down"
           /\ call[t].pending.previous = call[t].working
           /\ call[t].working = disk.safe
           /\ disk.seen = disk.safe /\ handle.gen = disk.safe
           /\ provider.pending = call[t].pending
           /\ witness.seen = provider /\ witness.safe = provider
           /\ call[t].pending.target.number = disk.safe.number + 1
           /\ call[t].pending.target.by
                = disk.safe.by \cup {<<t, call[t].part>>}
           /\ call[t].pending.target.association
                = associationAfter(call[t].kind, call[t].part,
                                   disk.safe.association)
           /\ call[t].pending.target \in Generation
           /\ \A u \in Calls :
                u # t => call[u].pending # call[t].pending
                         /\ call[u].job # "queued"
           /\ \A u \in Calls : ~ahead(u)
<1>0. /\ TypeOK /\ LocalsInv /\ DownInv /\ FilesInv /\ CopiesInv /\ FreshInv
      /\ QueuedInv /\ AheadInv
  BY DEF ControlInv
<1>1. /\ call[t].at = "commit" /\ ~settling(t)
      /\ call[t].pending = publication(t, call[t])
      /\ call[t].pending \in Pending /\ call[t].pending # None
      /\ call[t].pending.id = <<t, call[t].part>>
  BY <1>0, QueuedPending
<1>2. state.run # "down" /\ call[t].kind \in AllKinds /\ call[t].result = None
  BY <1>0, <1>1, Running DEF quiet, LocalsInv, TypeOK, Locals
<1>3. /\ provider.pending = call[t].pending /\ witness.seen = provider
      /\ disk.seen = disk.safe /\ disk.safe = call[t].pending.previous
      /\ \A u \in Calls : u # t => call[u].pending # call[t].pending
  BY <1>0 DEF QueuedInv
<1>4. handle.gen = disk.safe /\ witness.safe = provider
  BY <1>0, <1>2 DEF FilesInv
<1>5. formed(call[t].pending)
  BY <1>0, <1>1, <1>3 DEF FilesInv, anchorFormed
<1>6. \A u \in Calls : u # t => call[u].job # "queued"
  BY <1>0, <1>3 DEF QueuedInv
<1>7. /\ call[t].pending.previous = call[t].working
      /\ call[t].pending.target.number = call[t].working.number + 1
      /\ call[t].pending.target.by
           = call[t].working.by \cup {<<t, call[t].part>>}
      /\ call[t].pending.target.association
           = associationAfter(call[t].kind, call[t].part,
                              call[t].working.association)
      /\ call[t].pending.target \in Generation
  BY <1>0, <1>1, <1>2, OwnPublication, PendingFields
<1>8. \A u \in Calls : ~ahead(u)
  <2>1. ASSUME NEW u \in Calls, ahead(u)
        PROVE  FALSE
    <3>1. call[t].working.number < handle.gen.number
      BY <1>0, <2>1 DEF AheadInv
    <3>2. call[t].working = handle.gen /\ call[t].working.number \in Nat
      BY <1>0, <1>3, <1>4, <1>7, Numbers
    <3> QED BY <3>1, <3>2
  <2> QED BY <2>1
<1> QED BY <1>1, <1>2, <1>3, <1>4, <1>5, <1>6, <1>7, <1>8

\* While a call is about to settle the publication of the anchor.
LEMMA SettlePoint ==
    ASSUME ControlInv, NEW t \in Calls, call[t].at \in {"finalize", "clear"},
           provider.pending = call[t].pending, witness.seen = provider
    PROVE  /\ call[t].pending \in Pending /\ call[t].pending # None
           /\ formed(call[t].pending) /\ state.run # "down"
           /\ disk.seen = disk.safe /\ handle.gen = disk.safe
           /\ witness.safe = provider
           /\ provider.highWater = call[t].pending.previous.number
           /\ call[t].at = "finalize" => disk.safe = call[t].pending.target
           /\ call[t].at = "clear" => disk.safe = call[t].pending.previous
           /\ \A u \in Calls : call[u].job # "queued"
           /\ ~settling(t) => call[t].pending.id = <<t, call[t].part>>
<1>0. /\ TypeOK /\ LocalsInv /\ DownInv /\ FilesInv /\ QueuedInv /\ SettleInv
  BY DEF ControlInv
<1>1. /\ state.run # "down" /\ call[t].kind \in AllKinds
      /\ call[t].job # "queued"
  BY <1>0, Running DEF quiet, LocalsInv, TypeOK, Locals
<1>2. call[t].pending \in Pending /\ call[t].pending # None
  BY <1>0, StagedType, PendingFields
<1>3. formed(call[t].pending)
      /\ provider.highWater = call[t].pending.previous.number
  BY <1>0, <1>2 DEF FilesInv, anchorFormed
<1>4. /\ disk.seen = disk.safe
      /\ call[t].at = "finalize" => disk.safe = call[t].pending.target
      /\ call[t].at = "clear" => disk.safe = call[t].pending.previous
  BY <1>0 DEF SettleInv
<1>5. handle.gen = disk.safe /\ witness.safe = provider
  BY <1>0, <1>1 DEF FilesInv
<1>6. \A u \in Calls : call[u].job # "queued"
  BY <1>0, <1>1 DEF QueuedInv
<1>7. ~settling(t) => call[t].pending.id = <<t, call[t].part>>
  BY <1>0, <1>1, OwnPublication DEF LocalsInv
<1> QED BY <1>1, <1>2, <1>3, <1>4, <1>5, <1>6, <1>7

\* A call whose publication is durable, before it replaces the view.
LEMMA FinishPoint ==
    ASSUME TypeOK, LocalsInv, AheadInv, NEW t \in Calls,
           call[t].at = "finish", call[t].outcome = "durable"
    PROVE  /\ handle.gen = call[t].pending.target
           /\ call[t].pending = publication(t, call[t])
           /\ call[t].kind \in AllKinds
           /\ \A u \in Calls : ahead(u) => u = t
           /\ \A u \in Calls : call[u].at \in early \/ call[u].job = "queued"
                => call[u].working.number < handle.gen.number
<1>1. ~settling(t) /\ call[t].kind \in AllKinds
  BY Present DEF LocalsInv, TypeOK, Locals, quiet
<1>2. ahead(t) /\ call[t].pending = publication(t, call[t])
  BY <1>1 DEF ahead, LocalsInv
<1> QED BY <1>1, <1>2 DEF AheadInv

LEMMA PrepareControlKeeps ==
    ASSUME ObservationSound, ControlInv, NEW t \in Calls, PrepareControl(t)
    PROVE  ControlInv'
<1>0. /\ TypeOK /\ LocalsInv /\ DownInv /\ FilesInv /\ CopiesInv
      /\ FreshInv /\ QueuedInv /\ SettleInv /\ FinishInv /\ AheadInv
      /\ StartingInv /\ RevokingInv
      /\ AnchorRestorable /\ AnswersHold /\ TrustedNotRevoked
  BY DEF ControlInv
<1>1. UNCHANGED <<disk, witness, handle, provider, view, anchor, state, told>>
  BY DEF PrepareControl, ends, files, memory
<1>2. /\ call[t].at = "prepare"
      /\ handle.gen = call[t].working
  BY <1>0 DEF PrepareControl, ends
<1>3. TypeOK'
  BY <1>0, PrepareControlTypes
<1>4. /\ \A u \in Calls : u # t => call'[u] = call[u]
      /\ call'[t].kind = call[t].kind
      /\ call'[t].part = call[t].part
      /\ call'[t].working = call[t].working
      /\ call'[t].selected = call[t].selected
      /\ call'[t].anchor = call[t].anchor
      /\ call'[t].job = call[t].job
      /\ call'[t].result = call[t].result
      /\ \/ /\ call'[t].at = "stage" /\ call[t].selected = call[t].working
            /\ call'[t].pending = publication(t, call[t])
            /\ call'[t].outcome = call[t].outcome
         \/ /\ call'[t].at = "finish" /\ call'[t].pending = call[t].pending
            /\ call'[t].outcome = "unknown"
  BY <1>0, PrepareControlFields
<1>5. publication(t, call'[t]) = publication(t, call[t])
  BY <1>4 DEF publication
<1>6. \A u \in Calls : call[u].job = "queued" =>
        /\ call[u].pending # None /\ call[u].at = "commit"
        /\ call[u].pending.id = <<u, call[u].part>>
  BY <1>0, QueuedPending
<1>20. LocalsInv'
  BY <1>0, <1>1, <1>2, <1>3, <1>4, <1>5 DEF LocalsInv, quiet, early, settling
<1>21. DownInv'
  BY <1>0, <1>1, <1>2, <1>3, <1>4 DEF DownInv, quiet
<1>22. FilesInv'
  BY <1>0, <1>1, <1>2, <1>3, <1>4 DEF FilesInv
<1>23. CopiesInv'
  BY <1>0, <1>1, <1>2, <1>3, <1>4 DEF CopiesInv, quiet, early
<1>24. FreshInv'
  <2>1. ASSUME NEW k \in {1, 2}, notYet(t, k)'
        PROVE  notYet(t, k)
    BY <1>0, <1>2, <1>4, <2>1 DEF notYet, early
  <2>2. /\ call'[t].anchor.pending \in {None, anchor.pending, call[t].anchor.pending}
        /\ \/ call'[t].pending \in {None, anchor.pending, call[t].pending}
           \/ call'[t].pending.id = <<t, call[t].part>>
    BY <1>4 DEF publication
  <2> QED BY <1>0, <1>1, <1>2, <1>4, <2>1, <2>2, FreshKept
<1>25. QueuedInv'
  BY <1>0, <1>1, <1>2, <1>3, <1>4, <1>6, Present DEF QueuedInv, publication
<1>26. SettleInv'
  BY <1>0, <1>1, <1>2, <1>3, <1>4 DEF SettleInv
<1>27. FinishInv'
  BY <1>0, <1>1, <1>2, <1>3, <1>4 DEF FinishInv
<1>28. AheadInv'
  BY <1>0, <1>1, <1>2, <1>3, <1>4 DEF AheadInv, ahead, settling, early
<1>29. StartingInv'
  BY <1>0, <1>1, <1>2, <1>3, <1>4 DEF StartingInv, quiet
<1>30. RevokingInv'
  BY <1>0, <1>1, <1>2, <1>3, <1>4 DEF RevokingInv, early
<1>31. AnchorRestorable'
  BY <1>0, <1>1, <1>2, <1>3, <1>4 DEF AnchorRestorable
<1>32. AnswersHold'
  BY <1>0, <1>1, <1>2, <1>3, <1>4 DEF AnswersHold
<1>33. TrustedNotRevoked'
  BY <1>0, <1>1, <1>2, <1>3, <1>4 DEF TrustedNotRevoked
<1> QED BY <1>3, <1>20, <1>21, <1>22, <1>23, <1>24, <1>25, <1>26, <1>27,
           <1>28, <1>29, <1>30, <1>31, <1>32, <1>33
           DEF ControlInv

LEMMA PrepareFailsKeeps ==
    ASSUME ObservationSound, ControlInv, NEW t \in Calls, PrepareFails(t)
    PROVE  ControlInv'
<1>0. /\ TypeOK /\ LocalsInv /\ DownInv /\ FilesInv /\ CopiesInv
      /\ FreshInv /\ QueuedInv /\ SettleInv /\ FinishInv /\ AheadInv
      /\ StartingInv /\ RevokingInv
      /\ AnchorRestorable /\ AnswersHold /\ TrustedNotRevoked
  BY DEF ControlInv
<1>1. UNCHANGED <<disk, witness, handle, provider, view, anchor, state, told>>
  BY DEF PrepareFails, ends, files, memory
<1>2. /\ call[t].at = "prepare"
  BY <1>0 DEF PrepareFails, ends
<1>3. TypeOK'
  BY <1>0, PrepareFailsTypes
<1>4. /\ \A u \in Calls : u # t => call'[u] = call[u]
      /\ call'[t].at = "finish"
      /\ call'[t].kind = call[t].kind
      /\ call'[t].part = call[t].part
      /\ call'[t].working = call[t].working
      /\ call'[t].selected = call[t].selected
      /\ call'[t].anchor = call[t].anchor
      /\ call'[t].pending = call[t].pending
      /\ call'[t].outcome = "prepare_failed"
      /\ call'[t].job = call[t].job
      /\ call'[t].result = call[t].result
  BY <1>0, PrepareFailsFields
<1>5. publication(t, call'[t]) = publication(t, call[t])
  BY <1>4 DEF publication
<1>20. LocalsInv'
  BY <1>0, <1>1, <1>2, <1>3, <1>4, <1>5 DEF LocalsInv, quiet, early, settling
<1>21. DownInv'
  BY <1>0, <1>1, <1>2, <1>3, <1>4 DEF DownInv, quiet
<1>22. FilesInv'
  BY <1>0, <1>1, <1>2, <1>3, <1>4 DEF FilesInv
<1>23. CopiesInv'
  BY <1>0, <1>1, <1>2, <1>3, <1>4 DEF CopiesInv, quiet, early
<1>24. FreshInv'
  <2>1. ASSUME NEW k \in {1, 2}, notYet(t, k)'
        PROVE  notYet(t, k)
    BY <1>0, <1>2, <1>4, <2>1 DEF notYet, early
  <2>2. /\ call'[t].anchor.pending \in {None, anchor.pending, call[t].anchor.pending}
        /\ \/ call'[t].pending \in {None, anchor.pending, call[t].pending}
           \/ call'[t].pending.id = <<t, call[t].part>>
    BY <1>4 DEF publication
  <2> QED BY <1>0, <1>1, <1>2, <1>4, <2>1, <2>2, FreshKept
<1>25. QueuedInv'
  BY <1>0, <1>1, <1>2, <1>3, <1>4 DEF QueuedInv
<1>26. SettleInv'
  BY <1>0, <1>1, <1>2, <1>3, <1>4 DEF SettleInv
<1>27. FinishInv'
  <2>1. notYet(t, call[t].part) /\ call[t].part \in {1, 2}
    BY <1>0, <1>2, Numbers DEF notYet, early
  <2>2. <<t, call[t].part>> \notin disk.seen.by \cup disk.safe.by
    BY <1>0, <2>1 DEF FreshInv
  <2> QED BY <1>0, <1>1, <1>4, <2>2 DEF FinishInv
<1>28. AheadInv'
  BY <1>0, <1>1, <1>2, <1>3, <1>4 DEF AheadInv, ahead, settling, early
<1>29. StartingInv'
  BY <1>0, <1>1, <1>2, <1>3, <1>4 DEF StartingInv, quiet
<1>30. RevokingInv'
  BY <1>0, <1>1, <1>2, <1>3, <1>4 DEF RevokingInv, early
<1>31. AnchorRestorable'
  BY <1>0, <1>1, <1>2, <1>3, <1>4 DEF AnchorRestorable
<1>32. AnswersHold'
  BY <1>0, <1>1, <1>2, <1>3, <1>4 DEF AnswersHold
<1>33. TrustedNotRevoked'
  BY <1>0, <1>1, <1>2, <1>3, <1>4 DEF TrustedNotRevoked
<1> QED BY <1>3, <1>20, <1>21, <1>22, <1>23, <1>24, <1>25, <1>26, <1>27,
           <1>28, <1>29, <1>30, <1>31, <1>32, <1>33
           DEF ControlInv

LEMMA CompareAndStageKeeps ==
    ASSUME ObservationSound, ControlInv, NEW t \in Calls, CompareAndStage(t)
    PROVE  ControlInv'
<1>0. /\ TypeOK /\ LocalsInv /\ DownInv /\ FilesInv /\ CopiesInv
      /\ FreshInv /\ QueuedInv /\ SettleInv /\ FinishInv /\ AheadInv
      /\ StartingInv /\ RevokingInv
      /\ AnchorRestorable /\ AnswersHold /\ TrustedNotRevoked
  BY DEF ControlInv
<1>1. UNCHANGED <<disk, handle, view, anchor, state, told>>
  BY DEF CompareAndStage, stored, files, memory
<1>2. /\ call[t].at = "stage"
      /\ provider.pending = None
      /\ provider = call[t].anchor
      /\ witness.seen = provider
      /\ witness'.seen = provider'
      /\ witness'.safe = provider'
      /\ provider'.pending = call[t].pending
      /\ provider'.highWater = provider.highWater
  BY <1>0 DEF CompareAndStage, stored, stageable, TypeOK, Anchor
<1>3. TypeOK'
  BY <1>0, CompareAndStageTypes
<1>4. /\ \A u \in Calls : u # t => call'[u] = call[u]
      /\ call'[t].at = "commit"
      /\ call'[t].kind = call[t].kind
      /\ call'[t].part = call[t].part
      /\ call'[t].working = call[t].working
      /\ call'[t].selected = call[t].selected
      /\ call'[t].pending = call[t].pending
      /\ call'[t].outcome = call[t].outcome
      /\ call'[t].job = "queued"
      /\ call'[t].result = call[t].result
      /\ call'[t].anchor.highWater = call[t].anchor.highWater
      /\ call'[t].anchor.pending = call[t].pending
  BY <1>0, CompareAndStageFields
<1>5. publication(t, call'[t]) = publication(t, call[t])
  BY <1>4 DEF publication
<1>6. /\ call[t].pending \in Pending /\ call[t].pending # None
      /\ call[t].pending.id = <<t, call[t].part>>
      /\ formed(call[t].pending) /\ ~settling(t)
      /\ call[t].pending.previous = disk.safe /\ disk.seen = disk.safe
      /\ handle.gen = disk.safe /\ call[t].working = disk.safe
      /\ provider.highWater = disk.safe.number
      /\ state.run # "down" /\ notYet(t, call[t].part)
      /\ call[t].part \in {1, 2}
  BY <1>0, <1>2, StagePoint, Numbers
<1>7. \A u \in Calls : call[u].job # "queued"
  BY <1>0, <1>2, QueuedPending DEF QueuedInv
<1>20. LocalsInv'
  BY <1>0, <1>1, <1>2, <1>3, <1>4, <1>5 DEF LocalsInv, quiet, early, settling
<1>21. DownInv'
  BY <1>0, <1>1, <1>2, <1>3, <1>4 DEF DownInv, quiet
<1>22. FilesInv'
  BY <1>0, <1>1, <1>2, <1>3, <1>6 DEF FilesInv, anchorFormed
<1>23. CopiesInv'
  BY <1>0, <1>1, <1>2, <1>3, <1>4 DEF CopiesInv, quiet, early
<1>24. FreshInv'
  <2> SUFFICES ASSUME NEW v \in Calls, NEW k \in {1, 2}, notYet(v, k)'
               PROVE  /\ <<v, k>> \notin disk'.seen.by \cup disk'.safe.by
                      /\ <<v, k>> \notin told'.refused
                      /\ ~names(witness'.seen, <<v, k>>)
                      /\ ~names(witness'.safe, <<v, k>>)
                      /\ ~names(provider', <<v, k>>)
                      /\ ~names(anchor', <<v, k>>)
                      /\ \A u \in Calls :
                           /\ ~names(call'[u].anchor, <<v, k>>)
                           /\ u = v \/ ~names(call'[u], <<v, k>>)
    BY DEF FreshInv, names
  <2>1. notYet(v, k) /\ <<v, k>> # <<t, call[t].part>>
    BY <1>2, <1>4, <1>6 DEF notYet, early
  <2>2. /\ <<v, k>> \notin disk.seen.by \cup disk.safe.by
        /\ <<v, k>> \notin told.refused
        /\ ~names(witness.seen, <<v, k>>) /\ ~names(witness.safe, <<v, k>>)
        /\ ~names(provider, <<v, k>>) /\ ~names(anchor, <<v, k>>)
        /\ \A u \in Calls : /\ ~names(call[u].anchor, <<v, k>>)
                            /\ u = v \/ ~names(call[u], <<v, k>>)
    BY <1>0, <2>1 DEF FreshInv
  <2>3. call'[t].anchor.pending = call[t].pending
        /\ call'[t].pending = call[t].pending
    BY <1>4
  <2> QED BY <1>1, <1>2, <1>4, <1>6, <2>1, <2>2, <2>3 DEF names
<1>25. QueuedInv'
  <2>1. /\ <<t, call[t].part>> \notin told.refused
        /\ anchor.pending # call[t].pending
        /\ \A u \in Calls : u = t \/ /\ call[u].anchor.pending # call[t].pending
                                     /\ call[u].pending # call[t].pending
    BY <1>0, <1>6 DEF FreshInv, names
  <2> QED BY <1>1, <1>2, <1>4, <1>6, <1>7, <2>1 DEF QueuedInv
<1>26. SettleInv'
  <2>1. \A u \in Calls : u = t \/ call[u].pending # call[t].pending
    BY <1>0, <1>6 DEF FreshInv, names
  <2>2. call[t].result = None
    BY <1>0, <1>2 DEF LocalsInv, early
  <2> QED BY <1>2, <1>4, <2>1, <2>2, Present DEF SettleInv
<1>27. FinishInv'
  BY <1>0, <1>1, <1>2, <1>3, <1>4 DEF FinishInv
<1>28. AheadInv'
  <2>1. call[t].result = None
    BY <1>0, <1>2 DEF LocalsInv, early
  <2>2. ASSUME NEW u \in Calls, ahead(u)' PROVE u # t /\ ahead(u)
    BY <1>4, <2>1, <2>2, Present DEF ahead, settling
  <2>3. ASSUME NEW u \in Calls,
               call'[u].at \in early \/ call'[u].job = "queued"
        PROVE  /\ call'[u].working = call[u].working
               /\ call[u].at \in early \/ call[u].job = "queued"
    BY <1>2, <1>4, <2>3 DEF early
  <2> QED BY <1>0, <1>1, <1>4, <2>2, <2>3 DEF AheadInv
<1>29. StartingInv'
  BY <1>0, <1>1, <1>2, <1>3, <1>4 DEF StartingInv, quiet
<1>30. RevokingInv'
  BY <1>0, <1>1, <1>2, <1>3, <1>4 DEF RevokingInv, early
<1>31. AnchorRestorable'
  BY <1>0, <1>1, <1>2, <1>6 DEF AnchorRestorable, restoreAnchor
<1>32. AnswersHold'
  BY <1>0, <1>1, <1>2, <1>3, <1>4 DEF AnswersHold
<1>33. TrustedNotRevoked'
  BY <1>0, <1>1, <1>2, <1>3, <1>4 DEF TrustedNotRevoked
<1> QED BY <1>3, <1>20, <1>21, <1>22, <1>23, <1>24, <1>25, <1>26, <1>27,
           <1>28, <1>29, <1>30, <1>31, <1>32, <1>33
           DEF ControlInv

LEMMA StageRefusedKeeps ==
    ASSUME ObservationSound, ControlInv, NEW t \in Calls, StageRefused(t)
    PROVE  ControlInv'
<1>0. /\ TypeOK /\ LocalsInv /\ DownInv /\ FilesInv /\ CopiesInv
      /\ FreshInv /\ QueuedInv /\ SettleInv /\ FinishInv /\ AheadInv
      /\ StartingInv /\ RevokingInv
      /\ AnchorRestorable /\ AnswersHold /\ TrustedNotRevoked
  BY DEF ControlInv
<1>1. UNCHANGED <<disk, handle, view, anchor, state, told>>
  BY DEF StageRefused, ends, files, memory
<1>2. /\ call[t].at = "stage"
      /\ provider' = provider
      /\ witness'.safe = witness.safe
      /\ \/ witness'.seen = witness.seen
         \/ /\ provider.pending = None /\ provider = call[t].anchor
            /\ witness.seen = provider
            /\ witness'.seen.pending = call[t].pending
            /\ witness'.seen.highWater = provider.highWater
  BY <1>0 DEF StageRefused, ends, stageable, notStored, TypeOK, Anchor
<1>3. TypeOK'
  BY <1>0, StageRefusedTypes
<1>4. /\ \A u \in Calls : u # t => call'[u] = call[u]
      /\ call'[t].at = "finish"
      /\ call'[t].kind = call[t].kind
      /\ call'[t].part = call[t].part
      /\ call'[t].working = call[t].working
      /\ call'[t].selected = call[t].selected
      /\ call'[t].anchor = call[t].anchor
      /\ call'[t].pending = call[t].pending
      /\ call'[t].outcome = "unchanged"
      /\ call'[t].job = call[t].job
      /\ call'[t].result = call[t].result
  BY <1>0, StageRefusedFields
<1>5. publication(t, call'[t]) = publication(t, call[t])
  BY <1>4 DEF publication
<1>20. LocalsInv'
  BY <1>0, <1>1, <1>2, <1>3, <1>4, <1>5 DEF LocalsInv, quiet, early, settling
<1>21. DownInv'
  BY <1>0, <1>1, <1>2, <1>3, <1>4 DEF DownInv, quiet
<1>22. FilesInv'
  <2>1. anchorFormed(witness'.seen)
    <3>1. CASE witness'.seen = witness.seen
      BY <1>0, <3>1 DEF FilesInv
    <3>2. CASE witness'.seen # witness.seen
      BY <1>2, <3>2, StagePoint DEF anchorFormed
    <3> QED BY <3>1, <3>2
  <2> QED BY <1>0, <1>1, <1>2, <2>1 DEF FilesInv
<1>23. CopiesInv'
  BY <1>0, <1>1, <1>2, <1>3, <1>4 DEF CopiesInv, quiet, early
<1>24. FreshInv'
  <2> SUFFICES ASSUME NEW v \in Calls, NEW k \in {1, 2}, notYet(v, k)'
               PROVE  /\ <<v, k>> \notin disk'.seen.by \cup disk'.safe.by
                      /\ <<v, k>> \notin told'.refused
                      /\ ~names(witness'.seen, <<v, k>>)
                      /\ ~names(witness'.safe, <<v, k>>)
                      /\ ~names(provider', <<v, k>>)
                      /\ ~names(anchor', <<v, k>>)
                      /\ \A u \in Calls :
                           /\ ~names(call'[u].anchor, <<v, k>>)
                           /\ u = v \/ ~names(call'[u], <<v, k>>)
    BY DEF FreshInv, names
  <2>1. notYet(v, k) /\ <<v, k>> # <<t, call[t].part>>
    BY <1>2, <1>4, <1>0, Numbers DEF notYet, early
  <2>2. /\ <<v, k>> \notin disk.seen.by \cup disk.safe.by
        /\ <<v, k>> \notin told.refused
        /\ ~names(witness.seen, <<v, k>>) /\ ~names(witness.safe, <<v, k>>)
        /\ ~names(provider, <<v, k>>) /\ ~names(anchor, <<v, k>>)
        /\ \A u \in Calls : /\ ~names(call[u].anchor, <<v, k>>)
                            /\ u = v \/ ~names(call[u], <<v, k>>)
    BY <1>0, <2>1 DEF FreshInv
  <2>3. CASE witness'.seen = witness.seen
    BY <1>1, <1>2, <1>4, <2>2, <2>3 DEF names
  <2>4. CASE witness'.seen # witness.seen
    <3>1. witness'.seen.pending.id = <<t, call[t].part>>
      BY <1>2, <2>4, StagePoint
    <3> QED BY <1>1, <1>2, <1>4, <2>1, <2>2, <3>1 DEF names
  <2> QED BY <2>3, <2>4
<1>25. QueuedInv'
  <2>1. ASSUME NEW u \in Calls, call[u].job = "queued"
        PROVE  witness'.seen = witness.seen /\ u # t
    BY <1>0, <1>2, <2>1, QueuedPending DEF QueuedInv
  <2> QED BY <1>0, <1>1, <1>2, <1>4, <2>1 DEF QueuedInv
<1>26. SettleInv'
  BY <1>0, <1>1, <1>2, <1>3, <1>4 DEF SettleInv
<1>27. FinishInv'
  <2>1. notYet(t, call[t].part) /\ call[t].part \in {1, 2}
    BY <1>0, <1>2, Numbers DEF notYet, early
  <2>2. <<t, call[t].part>> \notin disk.seen.by \cup disk.safe.by
    BY <1>0, <2>1 DEF FreshInv
  <2> QED BY <1>0, <1>1, <1>4, <2>2 DEF FinishInv
<1>28. AheadInv'
  BY <1>0, <1>1, <1>2, <1>3, <1>4 DEF AheadInv, ahead, settling, early
<1>29. StartingInv'
  BY <1>0, <1>1, <1>2, <1>3, <1>4 DEF StartingInv, quiet
<1>30. RevokingInv'
  BY <1>0, <1>1, <1>2, <1>3, <1>4 DEF RevokingInv, early
<1>31. AnchorRestorable'
  <2>1. CASE witness'.seen = witness.seen
    BY <1>0, <1>1, <1>2, <2>1 DEF AnchorRestorable
  <2>2. CASE witness'.seen # witness.seen
    BY <1>0, <1>1, <1>2, <2>2, StagePoint DEF AnchorRestorable, restoreAnchor
  <2> QED BY <2>1, <2>2
<1>32. AnswersHold'
  BY <1>0, <1>1, <1>2, <1>3, <1>4 DEF AnswersHold
<1>33. TrustedNotRevoked'
  BY <1>0, <1>1, <1>2, <1>3, <1>4 DEF TrustedNotRevoked
<1> QED BY <1>3, <1>20, <1>21, <1>22, <1>23, <1>24, <1>25, <1>26, <1>27,
           <1>28, <1>29, <1>30, <1>31, <1>32, <1>33
           DEF ControlInv

LEMMA CommitControlKeeps ==
    ASSUME ObservationSound, ControlInv, NEW t \in Calls, CommitControl(t)
    PROVE  ControlInv'
<1>0. /\ TypeOK /\ LocalsInv /\ DownInv /\ FilesInv /\ CopiesInv
      /\ FreshInv /\ QueuedInv /\ SettleInv /\ FinishInv /\ AheadInv
      /\ StartingInv /\ RevokingInv
      /\ AnchorRestorable /\ AnswersHold /\ TrustedNotRevoked
  BY DEF ControlInv
<1>1. UNCHANGED <<witness, provider, view, anchor, state, told>>
  BY DEF CommitControl, commits, files, memory
<1>2. /\ call[t].job = "queued"
      /\ handle.gen = call[t].pending.previous
      /\ disk'.seen = call[t].pending.target
      /\ \/ /\ "rootSync" \in Faults /\ disk'.safe = disk.safe
            /\ handle'.gen = handle.gen /\ call'[t].result = "other"
         \/ /\ disk'.safe = call[t].pending.target
            /\ handle'.gen = call[t].pending.target
  BY <1>0 DEF CommitControl, commits, committable, publications, TypeOK,
         Locals
<1>3. TypeOK'
  BY <1>0, CommitControlTypes
<1>4. /\ \A u \in Calls : u # t => call'[u] = call[u]
      /\ call'[t].at = call[t].at
      /\ call'[t].kind = call[t].kind
      /\ call'[t].part = call[t].part
      /\ call'[t].working = call[t].working
      /\ call'[t].selected = call[t].selected
      /\ call'[t].anchor = call[t].anchor
      /\ call'[t].pending = call[t].pending
      /\ call'[t].outcome = call[t].outcome
      /\ call'[t].job = "none"
      /\ call'[t].result \in {"commit_durable", "other"}
  BY <1>0, CommitControlFields
<1>5. publication(t, call'[t]) = publication(t, call[t])
  BY <1>4 DEF publication
<1>6. /\ call[t].at = "commit" /\ ~settling(t) /\ call[t].result = None
      /\ call[t].pending \in Pending /\ call[t].pending # None
      /\ call[t].pending.id = <<t, call[t].part>>
      /\ formed(call[t].pending) /\ state.run # "down"
      /\ call[t].pending.previous = call[t].working
      /\ call[t].working = disk.safe
      /\ disk.seen = disk.safe /\ handle.gen = disk.safe
      /\ provider.pending = call[t].pending
      /\ witness.seen = provider /\ witness.safe = provider
      /\ call[t].pending.target.number = disk.safe.number + 1
      /\ call[t].pending.target.by = disk.safe.by \cup {<<t, call[t].part>>}
      /\ call[t].pending.target.association
           = associationAfter(call[t].kind, call[t].part,
                              disk.safe.association)
  BY <1>2, CommitPoint
<1>7. /\ \A u \in Calls : u # t => /\ call[u].pending # call[t].pending
                                   /\ call[u].job # "queued"
      /\ \A u \in Calls : ~ahead(u)
  BY <1>2, CommitPoint
<1>8. handle' \in [gen : Generation, poisoned : BOOLEAN]
  <2>1. /\ call[t].pending.target \in Generation
        /\ handle \in [gen : Generation, poisoned : BOOLEAN]
    BY <1>0, <1>2, <1>6, CommitPoint DEF FilesInv
  <2> QED BY <2>1 DEF CommitControl
<1>9. \A g : past(g, disk.safe) /\ g.number \in Nat
               => past(g, handle'.gen) /\ g.number < call[t].pending.target.number
  BY <1>0, <1>2, <1>6, Numbers DEF past
<1>20. LocalsInv'
  BY <1>0, <1>1, <1>2, <1>3, <1>4, <1>5 DEF LocalsInv, quiet, early, settling
<1>21. DownInv'
  BY <1>1, <1>6 DEF DownInv
<1>22. FilesInv'
  BY <1>0, <1>1, <1>2, <1>6, <1>8 DEF FilesInv
<1>23. CopiesInv'
  <2>1. anchor.highWater <= handle'.gen.number
        /\ \A u \in Calls : call[u].anchor.highWater <= handle.gen.number
             => call[u].anchor.highWater <= handle'.gen.number
    BY <1>0, <1>2, <1>6, Numbers DEF CopiesInv
  <2>2. past(view', handle'.gen)
    BY <1>0, <1>1, <1>6, <1>9, Numbers DEF CopiesInv
  <2>3. ASSUME NEW u \in Calls, call'[u].at \in early \/ call'[u].job = "queued"
        PROVE  past(call'[u].working, handle'.gen)
    BY <1>0, <1>4, <1>6, <1>9, <2>3, Numbers DEF CopiesInv
  <2> QED BY <1>0, <1>1, <1>4, <1>6, <2>1, <2>2, <2>3 DEF CopiesInv, quiet
<1>24. FreshInv'
  <2> SUFFICES ASSUME NEW v \in Calls, NEW k \in {1, 2}, notYet(v, k)'
               PROVE  /\ <<v, k>> \notin disk'.seen.by \cup disk'.safe.by
                      /\ <<v, k>> \notin told'.refused
                      /\ ~names(witness'.seen, <<v, k>>)
                      /\ ~names(witness'.safe, <<v, k>>)
                      /\ ~names(provider', <<v, k>>)
                      /\ ~names(anchor', <<v, k>>)
                      /\ \A u \in Calls :
                           /\ ~names(call'[u].anchor, <<v, k>>)
                           /\ u = v \/ ~names(call'[u], <<v, k>>)
    BY DEF FreshInv, names
  <2>1. notYet(v, k) /\ <<v, k>> # <<t, call[t].part>>
    BY <1>2, <1>4, <1>0, <1>6, Numbers DEF notYet, early
  <2>2. /\ <<v, k>> \notin disk.seen.by \cup disk.safe.by
        /\ <<v, k>> \notin told.refused
        /\ ~names(witness.seen, <<v, k>>) /\ ~names(witness.safe, <<v, k>>)
        /\ ~names(provider, <<v, k>>) /\ ~names(anchor, <<v, k>>)
        /\ \A u \in Calls : /\ ~names(call[u].anchor, <<v, k>>)
                            /\ u = v \/ ~names(call[u], <<v, k>>)
    BY <1>0, <2>1 DEF FreshInv
  <2>3. /\ <<v, k>> \notin disk'.seen.by
        /\ <<v, k>> \notin disk'.safe.by
    BY <1>2, <1>6, <2>1, <2>2
  <2>4. ASSUME NEW u \in Calls
        PROVE  call'[u].anchor = call[u].anchor /\ call'[u].pending = call[u].pending
    BY <1>4
  <2> QED BY <1>1, <2>2, <2>3, <2>4 DEF names
<1>25. QueuedInv'
  BY <1>4, <1>7 DEF QueuedInv
<1>26. SettleInv'
  BY <1>1, <1>2, <1>4, <1>6, <1>7, Present DEF SettleInv
<1>27. FinishInv'
  BY <1>0, <1>2, <1>4, <1>6 DEF FinishInv
<1>28. AheadInv'
  <2>1. ASSUME NEW u \in Calls, ahead(u)'
        PROVE  u = t /\ handle'.gen = call[t].pending.target
    BY <1>2, <1>4, <1>6, <1>7, <2>1, Present DEF ahead, settling
  <2>2. view.number < call[t].pending.target.number
    BY <1>0, <1>6, <1>9, Numbers DEF CopiesInv
  <2>3. ASSUME NEW u \in Calls, call'[u].at \in early \/ call'[u].job = "queued"
        PROVE  call'[u].working.number < call[t].pending.target.number
    BY <1>0, <1>4, <1>6, <1>9, <2>3, Numbers DEF CopiesInv
  <2> QED BY <1>1, <1>4, <2>1, <2>2, <2>3 DEF AheadInv
<1>29. StartingInv'
  <2>1. ASSUME state.run = "starting"
        PROVE  disk'.safe.association = disk.safe.association
    <3>1. call[t].kind \in {"release", "charge"}
      BY <1>0, <1>6, <2>1 DEF StartingInv, quiet
    <3> QED BY <1>2, <1>6, <3>1 DEF associationAfter
  <2> QED BY <1>0, <1>1, <1>4, <2>1 DEF StartingInv
<1>30. RevokingInv'
  <2>1. ASSUME NEW u \in Calls, call'[u].at \in early \/ call'[u].job = "queued",
               call'[u].working = handle'.gen
        PROVE  u # t /\ call[u].working = handle.gen
    BY <1>0, <1>2, <1>4, <1>6, <1>9, <2>1, Numbers DEF CopiesInv, early
  <2> QED BY <1>0, <1>1, <1>4, <2>1 DEF RevokingInv
<1>31. AnchorRestorable'
  BY <1>1, <1>2, <1>6 DEF AnchorRestorable, restoreAnchor
<1>32. AnswersHold'
  <2>1. <<t, call[t].part>> \notin told.refused
    BY <1>0, <1>2 DEF QueuedInv
  <2> QED BY <1>0, <1>1, <1>2, <1>6, <2>1 DEF AnswersHold
<1>33. TrustedNotRevoked'
  <2>1. ASSUME state.trusted, disk'.safe = call[t].pending.target
        PROVE  disk'.safe.association \notin Tombstoned
    <3>1. disk.safe.association \notin Tombstoned
      BY <1>0, <2>1 DEF TrustedNotRevoked
    <3>2. ~(call[t].kind = "revoke" /\ call[t].part = 1)
      BY <1>0, <1>2, <1>6, <2>1 DEF RevokingInv
    <3> QED BY <1>6, <2>1, <3>1, <3>2 DEF associationAfter, Tombstoned
  <2> QED BY <1>0, <1>1, <1>2, <2>1 DEF TrustedNotRevoked
<1> QED BY <1>3, <1>20, <1>21, <1>22, <1>23, <1>24, <1>25, <1>26, <1>27,
           <1>28, <1>29, <1>30, <1>31, <1>32, <1>33
           DEF ControlInv

LEMMA CommitFailsKeeps ==
    ASSUME ObservationSound, ControlInv, NEW t \in Calls, CommitFails(t)
    PROVE  ControlInv'
<1>0. /\ TypeOK /\ LocalsInv /\ DownInv /\ FilesInv /\ CopiesInv
      /\ FreshInv /\ QueuedInv /\ SettleInv /\ FinishInv /\ AheadInv
      /\ StartingInv /\ RevokingInv
      /\ AnchorRestorable /\ AnswersHold /\ TrustedNotRevoked
  BY DEF ControlInv
<1>1. UNCHANGED <<disk, witness, handle, provider, view, anchor, state, told>>
  BY DEF CommitFails, commits, files, memory
<1>2. /\ call[t].job = "queued"
  BY <1>0 DEF CommitFails, commits
<1>3. TypeOK'
  BY <1>0, CommitFailsTypes
<1>4. /\ \A u \in Calls : u # t => call'[u] = call[u]
      /\ call'[t].at = call[t].at
      /\ call'[t].kind = call[t].kind
      /\ call'[t].part = call[t].part
      /\ call'[t].working = call[t].working
      /\ call'[t].selected = call[t].selected
      /\ call'[t].anchor = call[t].anchor
      /\ call'[t].pending = call[t].pending
      /\ call'[t].outcome = call[t].outcome
      /\ call'[t].job = "none"
      /\ call'[t].result \in {"commit_not_published", "other"}
  BY <1>0, CommitFailsFields
<1>5. publication(t, call'[t]) = publication(t, call[t])
  BY <1>4 DEF publication
<1>20. LocalsInv'
  BY <1>0, <1>1, <1>2, <1>3, <1>4, <1>5 DEF LocalsInv, quiet, early, settling
<1>21. DownInv'
  BY <1>0, <1>1, <1>2, <1>3, <1>4 DEF DownInv, quiet
<1>22. FilesInv'
  BY <1>0, <1>1, <1>2, <1>3, <1>4 DEF FilesInv
<1>23. CopiesInv'
  BY <1>0, <1>1, <1>2, <1>3, <1>4 DEF CopiesInv, quiet, early
<1>24. FreshInv'
  <2>1. ASSUME NEW k \in {1, 2}, notYet(t, k)'
        PROVE  notYet(t, k)
    BY <1>0, <1>2, <1>4, <2>1 DEF notYet, early
  <2>2. /\ call'[t].anchor.pending \in {None, anchor.pending, call[t].anchor.pending}
        /\ \/ call'[t].pending \in {None, anchor.pending, call[t].pending}
           \/ call'[t].pending.id = <<t, call[t].part>>
    BY <1>4 DEF publication
  <2> QED BY <1>0, <1>1, <1>2, <1>4, <2>1, <2>2, FreshKept
<1>25. QueuedInv'
  BY <1>0, <1>1, <1>2, <1>3, <1>4 DEF QueuedInv
<1>26. SettleInv'
  <2>1. /\ disk.seen = call[t].pending.previous /\ disk.safe = disk.seen
        /\ call[t].at = "commit"
    BY <1>0, <1>2, QueuedPending DEF QueuedInv
  <2> QED BY <1>0, <1>1, <1>4, <2>1 DEF SettleInv
<1>27. FinishInv'
  BY <1>0, <1>1, <1>2, <1>3, <1>4 DEF FinishInv
<1>28. AheadInv'
  BY <1>0, <1>1, <1>2, <1>3, <1>4 DEF AheadInv, ahead, settling, early
<1>29. StartingInv'
  BY <1>0, <1>1, <1>2, <1>3, <1>4 DEF StartingInv, quiet
<1>30. RevokingInv'
  BY <1>0, <1>1, <1>2, <1>3, <1>4 DEF RevokingInv, early
<1>31. AnchorRestorable'
  BY <1>0, <1>1, <1>2, <1>3, <1>4 DEF AnchorRestorable
<1>32. AnswersHold'
  BY <1>0, <1>1, <1>2, <1>3, <1>4 DEF AnswersHold
<1>33. TrustedNotRevoked'
  BY <1>0, <1>1, <1>2, <1>3, <1>4 DEF TrustedNotRevoked
<1> QED BY <1>3, <1>20, <1>21, <1>22, <1>23, <1>24, <1>25, <1>26, <1>27,
           <1>28, <1>29, <1>30, <1>31, <1>32, <1>33
           DEF ControlInv

LEMMA CommitExpiredKeeps ==
    ASSUME ObservationSound, ControlInv, NEW t \in Calls, CommitExpired(t)
    PROVE  ControlInv'
<1>0. /\ TypeOK /\ LocalsInv /\ DownInv /\ FilesInv /\ CopiesInv
      /\ FreshInv /\ QueuedInv /\ SettleInv /\ FinishInv /\ AheadInv
      /\ StartingInv /\ RevokingInv
      /\ AnchorRestorable /\ AnswersHold /\ TrustedNotRevoked
  BY DEF ControlInv
<1>1. UNCHANGED <<disk, witness, handle, provider, view, anchor, state, told>>
  BY DEF CommitExpired, files, memory
<1>2. /\ call[t].job = "expired"
  BY <1>0 DEF CommitExpired
<1>3. TypeOK'
  BY <1>0, CommitExpiredTypes
<1>4. /\ \A u \in Calls : u # t => call'[u] = call[u]
      /\ call'[t].at = call[t].at
      /\ call'[t].kind = call[t].kind
      /\ call'[t].part = call[t].part
      /\ call'[t].working = call[t].working
      /\ call'[t].selected = call[t].selected
      /\ call'[t].anchor = call[t].anchor
      /\ call'[t].pending = call[t].pending
      /\ call'[t].outcome = call[t].outcome
      /\ call'[t].job = "none"
      /\ call'[t].result = call[t].result
  BY <1>0, CommitExpiredFields
<1>5. publication(t, call'[t]) = publication(t, call[t])
  BY <1>4 DEF publication
<1>20. LocalsInv'
  BY <1>0, <1>1, <1>2, <1>3, <1>4, <1>5 DEF LocalsInv, quiet, early, settling
<1>21. DownInv'
  BY <1>0, <1>1, <1>2, <1>3, <1>4 DEF DownInv, quiet
<1>22. FilesInv'
  BY <1>0, <1>1, <1>2, <1>3, <1>4 DEF FilesInv
<1>23. CopiesInv'
  BY <1>0, <1>1, <1>2, <1>3, <1>4 DEF CopiesInv, quiet, early
<1>24. FreshInv'
  <2>1. ASSUME NEW k \in {1, 2}, notYet(t, k)'
        PROVE  notYet(t, k)
    BY <1>0, <1>2, <1>4, <2>1 DEF notYet, early
  <2>2. /\ call'[t].anchor.pending \in {None, anchor.pending, call[t].anchor.pending}
        /\ \/ call'[t].pending \in {None, anchor.pending, call[t].pending}
           \/ call'[t].pending.id = <<t, call[t].part>>
    BY <1>4 DEF publication
  <2> QED BY <1>0, <1>1, <1>2, <1>4, <2>1, <2>2, FreshKept
<1>25. QueuedInv'
  BY <1>0, <1>1, <1>2, <1>3, <1>4 DEF QueuedInv
<1>26. SettleInv'
  BY <1>0, <1>1, <1>2, <1>3, <1>4 DEF SettleInv
<1>27. FinishInv'
  BY <1>0, <1>1, <1>2, <1>3, <1>4 DEF FinishInv
<1>28. AheadInv'
  BY <1>0, <1>1, <1>2, <1>3, <1>4 DEF AheadInv, ahead, settling, early
<1>29. StartingInv'
  BY <1>0, <1>1, <1>2, <1>3, <1>4 DEF StartingInv, quiet
<1>30. RevokingInv'
  BY <1>0, <1>1, <1>2, <1>3, <1>4 DEF RevokingInv, early
<1>31. AnchorRestorable'
  BY <1>0, <1>1, <1>2, <1>3, <1>4 DEF AnchorRestorable
<1>32. AnswersHold'
  BY <1>0, <1>1, <1>2, <1>3, <1>4 DEF AnswersHold
<1>33. TrustedNotRevoked'
  BY <1>0, <1>1, <1>2, <1>3, <1>4 DEF TrustedNotRevoked
<1> QED BY <1>3, <1>20, <1>21, <1>22, <1>23, <1>24, <1>25, <1>26, <1>27,
           <1>28, <1>29, <1>30, <1>31, <1>32, <1>33
           DEF ControlInv

LEMMA CommitLateKeeps ==
    ASSUME ObservationSound, ControlInv, NEW t \in Calls, CommitLate(t)
    PROVE  ControlInv'
<1>0. /\ TypeOK /\ LocalsInv /\ DownInv /\ FilesInv /\ CopiesInv
      /\ FreshInv /\ QueuedInv /\ SettleInv /\ FinishInv /\ AheadInv
      /\ StartingInv /\ RevokingInv
      /\ AnchorRestorable /\ AnswersHold /\ TrustedNotRevoked
  BY DEF ControlInv
<1>1. UNCHANGED <<disk, witness, handle, provider, view, anchor, state, told>>
  BY DEF CommitLate, files, memory
<1>2. /\ call[t].at = "commit"
  BY <1>0 DEF CommitLate
<1>3. TypeOK'
  BY <1>0, CommitLateTypes
<1>4. /\ \A u \in Calls : u # t => call'[u] = call[u]
      /\ call'[t].at = "finish"
      /\ call'[t].kind = call[t].kind
      /\ call'[t].part = call[t].part
      /\ call'[t].working = call[t].working
      /\ call'[t].selected = call[t].selected
      /\ call'[t].anchor = call[t].anchor
      /\ call'[t].pending = call[t].pending
      /\ call'[t].outcome = "unknown"
      /\ call'[t].job = IF call[t].job = "queued" THEN "expired"
                             ELSE call[t].job
      /\ call'[t].result = call[t].result
  BY <1>0, CommitLateFields
<1>5. publication(t, call'[t]) = publication(t, call[t])
  BY <1>4 DEF publication
<1>20. LocalsInv'
  <2>1. ASSUME NEW u \in Calls, u # t
        PROVE  call'[u] = call[u] /\ settling(u)' = settling(u)
    BY <1>4, <2>1 DEF settling
  <2>5. /\ ~settling(t) /\ call[t].kind # None
        /\ call[t].result # None => call[t].job = "none"
    BY <1>0, <1>2 DEF LocalsInv, quiet
  <2>6. call'[t].kind = call[t].kind /\ call'[t].part = call[t].part
        /\ call'[t].result = call[t].result
    BY <1>4
  <2>7. call'[t].job = IF call[t].job = "queued" THEN "expired" ELSE call[t].job
    BY <1>4
  <2>2. /\ ~settling(t) /\ ~settling(t)' /\ call'[t].kind # None
        /\ call'[t].job # "queued"
        /\ call'[t].result # None => call'[t].job = "none"
    BY <2>5, <2>6, <2>7 DEF settling
  <2>3. call'[t].kind = "reconcile" => "reconcile" \in Kinds
    BY <1>0, <1>4 DEF LocalsInv
  <2>4. call'[t].at = "finish" /\ call'[t].outcome = "unknown"
    BY <1>4
  <2> QED BY <1>0, <2>1, <2>2, <2>3, <2>4 DEF LocalsInv, quiet, early
<1>21. DownInv'
  BY <1>0, <1>1, <1>2, <1>3, <1>4 DEF DownInv, quiet
<1>22. FilesInv'
  BY <1>0, <1>1, <1>2, <1>3, <1>4 DEF FilesInv
<1>23. CopiesInv'
  BY <1>0, <1>1, <1>2, <1>3, <1>4 DEF CopiesInv, quiet, early
<1>24. FreshInv'
  <2>1. ASSUME NEW k \in {1, 2}, notYet(t, k)'
        PROVE  notYet(t, k)
    BY <1>0, <1>2, <1>4, <2>1 DEF notYet, early
  <2>2. /\ call'[t].anchor.pending \in {None, anchor.pending, call[t].anchor.pending}
        /\ \/ call'[t].pending \in {None, anchor.pending, call[t].pending}
           \/ call'[t].pending.id = <<t, call[t].part>>
    BY <1>4 DEF publication
  <2> QED BY <1>0, <1>1, <1>2, <1>4, <2>1, <2>2, FreshKept
<1>25. QueuedInv'
  BY <1>0, <1>1, <1>2, <1>3, <1>4 DEF QueuedInv
<1>26. SettleInv'
  BY <1>0, <1>1, <1>2, <1>3, <1>4 DEF SettleInv
<1>27. FinishInv'
  BY <1>0, <1>1, <1>2, <1>3, <1>4 DEF FinishInv
<1>28. AheadInv'
  BY <1>0, <1>1, <1>2, <1>3, <1>4 DEF AheadInv, ahead, settling, early
<1>29. StartingInv'
  BY <1>0, <1>1, <1>2, <1>3, <1>4 DEF StartingInv, quiet
<1>30. RevokingInv'
  BY <1>0, <1>1, <1>2, <1>3, <1>4 DEF RevokingInv, early
<1>31. AnchorRestorable'
  BY <1>0, <1>1, <1>2, <1>3, <1>4 DEF AnchorRestorable
<1>32. AnswersHold'
  BY <1>0, <1>1, <1>2, <1>3, <1>4 DEF AnswersHold
<1>33. TrustedNotRevoked'
  BY <1>0, <1>1, <1>2, <1>3, <1>4 DEF TrustedNotRevoked
<1> QED BY <1>3, <1>20, <1>21, <1>22, <1>23, <1>24, <1>25, <1>26, <1>27,
           <1>28, <1>29, <1>30, <1>31, <1>32, <1>33
           DEF ControlInv

LEMMA CommitResultKeeps ==
    ASSUME ObservationSound, ControlInv, NEW t \in Calls, CommitResult(t)
    PROVE  ControlInv'
<1>0. /\ TypeOK /\ LocalsInv /\ DownInv /\ FilesInv /\ CopiesInv
      /\ FreshInv /\ QueuedInv /\ SettleInv /\ FinishInv /\ AheadInv
      /\ StartingInv /\ RevokingInv
      /\ AnchorRestorable /\ AnswersHold /\ TrustedNotRevoked
  BY DEF ControlInv
<1>1. UNCHANGED <<disk, witness, handle, provider, view, anchor, state, told>>
  BY DEF CommitResult, ends, files, memory
<1>2. /\ call[t].at = "commit"
      /\ call[t].result # None
  BY <1>0 DEF CommitResult, ends
<1>3. TypeOK'
  BY <1>0, CommitResultTypes
<1>4. /\ \A u \in Calls : u # t => call'[u] = call[u]
      /\ call'[t].kind = call[t].kind
      /\ call'[t].part = call[t].part
      /\ call'[t].working = call[t].working
      /\ call'[t].selected = call[t].selected
      /\ call'[t].anchor = call[t].anchor
      /\ call'[t].pending = call[t].pending
      /\ call'[t].job = call[t].job
      /\ call'[t].result = call[t].result
      /\ \/ /\ call[t].result = "other" /\ call'[t].at = "finish"
            /\ call'[t].outcome = "unknown"
         \/ /\ call[t].result = "commit_durable" /\ call'[t].at = "finalize"
            /\ call'[t].outcome = call[t].outcome
         \/ /\ call[t].result = "commit_not_published" /\ call'[t].at = "clear"
            /\ call'[t].outcome = call[t].outcome
  BY <1>0, CommitResultFields
<1>5. publication(t, call'[t]) = publication(t, call[t])
  BY <1>4 DEF publication
<1>20. LocalsInv'
  <2>1. call[t].pending # None
    BY <1>0, <1>2, StagedType, PendingFields
  <2> QED BY <1>0, <1>2, <1>4, <1>5, <2>1 DEF LocalsInv, quiet, early, settling
<1>21. DownInv'
  BY <1>0, <1>1, <1>2, <1>3, <1>4 DEF DownInv, quiet
<1>22. FilesInv'
  BY <1>0, <1>1, <1>2, <1>3, <1>4 DEF FilesInv
<1>23. CopiesInv'
  BY <1>0, <1>1, <1>2, <1>3, <1>4 DEF CopiesInv, quiet, early
<1>24. FreshInv'
  <2>1. ASSUME NEW k \in {1, 2}, notYet(t, k)'
        PROVE  notYet(t, k)
    BY <1>0, <1>2, <1>4, <2>1 DEF notYet, early
  <2>2. /\ call'[t].anchor.pending \in {None, anchor.pending, call[t].anchor.pending}
        /\ \/ call'[t].pending \in {None, anchor.pending, call[t].pending}
           \/ call'[t].pending.id = <<t, call[t].part>>
    BY <1>4 DEF publication
  <2> QED BY <1>0, <1>1, <1>2, <1>4, <2>1, <2>2, FreshKept
<1>25. QueuedInv'
  BY <1>0, <1>1, <1>2, <1>3, <1>4 DEF QueuedInv
<1>26. SettleInv'
  BY <1>0, <1>1, <1>2, <1>3, <1>4 DEF SettleInv
<1>27. FinishInv'
  BY <1>0, <1>1, <1>2, <1>3, <1>4 DEF FinishInv
<1>28. AheadInv'
  BY <1>0, <1>1, <1>2, <1>3, <1>4 DEF AheadInv, ahead, settling, early
<1>29. StartingInv'
  BY <1>0, <1>1, <1>2, <1>3, <1>4 DEF StartingInv, quiet
<1>30. RevokingInv'
  BY <1>0, <1>1, <1>2, <1>3, <1>4 DEF RevokingInv, early
<1>31. AnchorRestorable'
  BY <1>0, <1>1, <1>2, <1>3, <1>4 DEF AnchorRestorable
<1>32. AnswersHold'
  BY <1>0, <1>1, <1>2, <1>3, <1>4 DEF AnswersHold
<1>33. TrustedNotRevoked'
  BY <1>0, <1>1, <1>2, <1>3, <1>4 DEF TrustedNotRevoked
<1> QED BY <1>3, <1>20, <1>21, <1>22, <1>23, <1>24, <1>25, <1>26, <1>27,
           <1>28, <1>29, <1>30, <1>31, <1>32, <1>33
           DEF ControlInv

LEMMA CompareAndFinalizeKeeps ==
    ASSUME ObservationSound, ControlInv, NEW t \in Calls, CompareAndFinalize(t)
    PROVE  ControlInv'
<1>0. /\ TypeOK /\ LocalsInv /\ DownInv /\ FilesInv /\ CopiesInv
      /\ FreshInv /\ QueuedInv /\ SettleInv /\ FinishInv /\ AheadInv
      /\ StartingInv /\ RevokingInv
      /\ AnchorRestorable /\ AnswersHold /\ TrustedNotRevoked
  BY DEF ControlInv
<1>1. UNCHANGED <<disk, handle, view, anchor, state>>
  BY DEF CompareAndFinalize, anchorDurable, stored, finalized, files, memory
<1>2. /\ call[t].at = "finalize"
      /\ provider.pending = call[t].pending
      /\ witness.seen = provider
      /\ witness'.seen = provider'
      /\ witness'.safe = provider'
      /\ provider'.pending = None
      /\ provider'.highWater = call[t].pending.target.number
      /\ told'.applied = told.applied \cup {call[t].pending.id}
      /\ told'.refused = told.refused
  BY <1>0 DEF CompareAndFinalize, anchorDurable, stored, finalized, TypeOK
<1>3. TypeOK'
  BY <1>0, CompareAndFinalizeTypes
<1>4. /\ \A u \in Calls : u # t => call'[u] = call[u]
      /\ call'[t].at = IF call[t].kind = "reconcile" /\ call[t].part = 1
                              THEN "receipt" ELSE "finish"
      /\ call'[t].kind = call[t].kind
      /\ call'[t].part = call[t].part
      /\ call'[t].working = call[t].working
      /\ call'[t].selected = call[t].selected
      /\ call'[t].pending = call[t].pending
      /\ call'[t].outcome = "durable"
      /\ call'[t].job = call[t].job
      /\ call'[t].result = call[t].result
      /\ call'[t].anchor.highWater = call[t].pending.target.number
      /\ call'[t].anchor.pending = None
  BY <1>0, CompareAndFinalizeFields
<1>5. publication(t, call'[t]) = publication(t, call[t])
  BY <1>4 DEF publication
<1>6. /\ call[t].pending \in Pending /\ call[t].pending # None
      /\ formed(call[t].pending) /\ state.run # "down"
      /\ disk.seen = disk.safe /\ handle.gen = disk.safe
      /\ provider.highWater = call[t].pending.previous.number
      /\ call[t].at = "finalize" => disk.safe = call[t].pending.target
      /\ call[t].at = "clear" => disk.safe = call[t].pending.previous
      /\ \A u \in Calls : call[u].job # "queued"
      /\ ~settling(t) => call[t].pending.id = <<t, call[t].part>>
  BY <1>2, SettlePoint
<1>20. LocalsInv'
  BY <1>0, <1>1, <1>2, <1>3, <1>4, <1>5 DEF LocalsInv, quiet, early, settling
<1>21. DownInv'
  BY <1>0, <1>1, <1>2, <1>3, <1>4 DEF DownInv, quiet
<1>22. FilesInv'
  BY <1>0, <1>1, <1>2, <1>3, <1>6 DEF FilesInv, anchorFormed
<1>23. CopiesInv'
  <2>1. call'[t].anchor.highWater <= handle.gen.number
    BY <1>0, <1>2, <1>4, <1>6, Numbers
  <2> QED BY <1>0, <1>1, <1>2, <1>4, <2>1 DEF CopiesInv, quiet, early
<1>24. FreshInv'
  <2> SUFFICES ASSUME NEW v \in Calls, NEW k \in {1, 2}, notYet(v, k)'
               PROVE  /\ <<v, k>> \notin disk'.seen.by \cup disk'.safe.by
                      /\ <<v, k>> \notin told'.refused
                      /\ ~names(witness'.seen, <<v, k>>)
                      /\ ~names(witness'.safe, <<v, k>>)
                      /\ ~names(provider', <<v, k>>)
                      /\ ~names(anchor', <<v, k>>)
                      /\ \A u \in Calls :
                           /\ ~names(call'[u].anchor, <<v, k>>)
                           /\ u = v \/ ~names(call'[u], <<v, k>>)
    BY DEF FreshInv, names
  <2>1. notYet(v, k)
    BY <1>2, <1>4 DEF notYet, early
  <2>2. /\ <<v, k>> \notin disk.seen.by \cup disk.safe.by
        /\ <<v, k>> \notin told.refused
        /\ ~names(witness.seen, <<v, k>>) /\ ~names(witness.safe, <<v, k>>)
        /\ ~names(provider, <<v, k>>) /\ ~names(anchor, <<v, k>>)
        /\ \A u \in Calls : /\ ~names(call[u].anchor, <<v, k>>)
                            /\ u = v \/ ~names(call[u], <<v, k>>)
    BY <1>0, <2>1 DEF FreshInv
  <2>3. /\ names(provider', <<v, k>>) = FALSE
        /\ call'[t].anchor.pending = None /\ call'[t].pending = call[t].pending
    BY <1>2, <1>4 DEF names
  <2>4. <<v, k>> \notin told'.refused
    BY <1>2, <1>6, <2>2 DEF names
  <2> QED BY <1>1, <1>2, <1>4, <2>2, <2>3, <2>4 DEF names
<1>25. QueuedInv'
  BY <1>4, <1>6 DEF QueuedInv
<1>26. SettleInv'
  <2>1. ASSUME NEW u \in Calls, call'[u].at \in {"commit", "finalize", "clear"}
        PROVE  call'[u].pending # None
    BY <1>0, <1>4, <2>1, StagedType, PendingFields
  <2> QED BY <1>2, <2>1 DEF SettleInv
<1>27. FinishInv'
  BY <1>0, <1>1, <1>2, <1>3, <1>4 DEF FinishInv
<1>28. AheadInv'
  BY <1>0, <1>1, <1>2, <1>3, <1>4 DEF AheadInv, ahead, settling, early
<1>29. StartingInv'
  BY <1>0, <1>1, <1>2, <1>3, <1>4 DEF StartingInv, quiet
<1>30. RevokingInv'
  BY <1>0, <1>1, <1>2, <1>3, <1>4 DEF RevokingInv, early
<1>31. AnchorRestorable'
  BY <1>1, <1>2, <1>6 DEF AnchorRestorable, restoreAnchor
<1>32. AnswersHold'
  BY <1>0, <1>1, <1>2, <1>6 DEF AnswersHold, formed
<1>33. TrustedNotRevoked'
  BY <1>0, <1>1, <1>2, <1>3, <1>4 DEF TrustedNotRevoked
<1> QED BY <1>3, <1>20, <1>21, <1>22, <1>23, <1>24, <1>25, <1>26, <1>27,
           <1>28, <1>29, <1>30, <1>31, <1>32, <1>33
           DEF ControlInv

LEMMA CompareAndClearKeeps ==
    ASSUME ObservationSound, ControlInv, NEW t \in Calls, CompareAndClear(t)
    PROVE  ControlInv'
<1>0. /\ TypeOK /\ LocalsInv /\ DownInv /\ FilesInv /\ CopiesInv
      /\ FreshInv /\ QueuedInv /\ SettleInv /\ FinishInv /\ AheadInv
      /\ StartingInv /\ RevokingInv
      /\ AnchorRestorable /\ AnswersHold /\ TrustedNotRevoked
  BY DEF ControlInv
<1>1. UNCHANGED <<disk, handle, view, anchor, state>>
  BY DEF CompareAndClear, anchorDurable, cleared, files, memory
<1>2. /\ call[t].at = "clear"
      /\ provider.pending = call[t].pending
      /\ witness.seen = provider
      /\ witness'.seen = provider'
      /\ witness'.safe = provider'
      /\ provider'.pending = None
      /\ provider'.highWater = provider.highWater
      /\ told'.refused = told.refused \cup {call[t].pending.id}
      /\ told'.applied = told.applied
  BY <1>0 DEF CompareAndClear, anchorDurable, cleared, stored, TypeOK, Anchor
<1>3. TypeOK'
  BY <1>0, CompareAndClearTypes
<1>4. /\ \A u \in Calls : u # t => call'[u] = call[u]
      /\ call'[t].at = IF call[t].kind = "reconcile" /\ call[t].part = 1
                              THEN "receipt" ELSE "finish"
      /\ call'[t].kind = call[t].kind
      /\ call'[t].part = call[t].part
      /\ call'[t].working = call[t].working
      /\ call'[t].selected = call[t].selected
      /\ call'[t].pending = call[t].pending
      /\ call'[t].outcome = "unchanged"
      /\ call'[t].job = call[t].job
      /\ call'[t].result = call[t].result
      /\ call'[t].anchor.highWater = call[t].anchor.highWater
      /\ call'[t].anchor.pending = None
  BY <1>0, CompareAndClearFields
<1>5. publication(t, call'[t]) = publication(t, call[t])
  BY <1>4 DEF publication
<1>6. /\ call[t].pending \in Pending /\ call[t].pending # None
      /\ formed(call[t].pending) /\ state.run # "down"
      /\ disk.seen = disk.safe /\ handle.gen = disk.safe
      /\ provider.highWater = call[t].pending.previous.number
      /\ call[t].at = "finalize" => disk.safe = call[t].pending.target
      /\ call[t].at = "clear" => disk.safe = call[t].pending.previous
      /\ \A u \in Calls : call[u].job # "queued"
      /\ ~settling(t) => call[t].pending.id = <<t, call[t].part>>
  BY <1>2, SettlePoint
<1>20. LocalsInv'
  BY <1>0, <1>1, <1>2, <1>3, <1>4, <1>5 DEF LocalsInv, quiet, early, settling
<1>21. DownInv'
  BY <1>0, <1>1, <1>2, <1>3, <1>4 DEF DownInv, quiet
<1>22. FilesInv'
  BY <1>0, <1>1, <1>2, <1>3, <1>6 DEF FilesInv, anchorFormed
<1>23. CopiesInv'
  BY <1>0, <1>1, <1>2, <1>3, <1>4 DEF CopiesInv, quiet, early
<1>24. FreshInv'
  <2> SUFFICES ASSUME NEW v \in Calls, NEW k \in {1, 2}, notYet(v, k)'
               PROVE  /\ <<v, k>> \notin disk'.seen.by \cup disk'.safe.by
                      /\ <<v, k>> \notin told'.refused
                      /\ ~names(witness'.seen, <<v, k>>)
                      /\ ~names(witness'.safe, <<v, k>>)
                      /\ ~names(provider', <<v, k>>)
                      /\ ~names(anchor', <<v, k>>)
                      /\ \A u \in Calls :
                           /\ ~names(call'[u].anchor, <<v, k>>)
                           /\ u = v \/ ~names(call'[u], <<v, k>>)
    BY DEF FreshInv, names
  <2>1. notYet(v, k)
    BY <1>2, <1>4 DEF notYet, early
  <2>2. /\ <<v, k>> \notin disk.seen.by \cup disk.safe.by
        /\ <<v, k>> \notin told.refused
        /\ ~names(witness.seen, <<v, k>>) /\ ~names(witness.safe, <<v, k>>)
        /\ ~names(provider, <<v, k>>) /\ ~names(anchor, <<v, k>>)
        /\ \A u \in Calls : /\ ~names(call[u].anchor, <<v, k>>)
                            /\ u = v \/ ~names(call[u], <<v, k>>)
    BY <1>0, <2>1 DEF FreshInv
  <2>3. /\ names(provider', <<v, k>>) = FALSE
        /\ call'[t].anchor.pending = None /\ call'[t].pending = call[t].pending
    BY <1>2, <1>4 DEF names
  <2>4. <<v, k>> \notin told'.refused
    BY <1>2, <1>6, <2>2 DEF names
  <2> QED BY <1>1, <1>2, <1>4, <2>2, <2>3, <2>4 DEF names
<1>25. QueuedInv'
  BY <1>4, <1>6 DEF QueuedInv
<1>26. SettleInv'
  <2>1. ASSUME NEW u \in Calls, call'[u].at \in {"commit", "finalize", "clear"}
        PROVE  call'[u].pending # None
    BY <1>0, <1>4, <2>1, StagedType, PendingFields
  <2> QED BY <1>2, <2>1 DEF SettleInv
<1>27. FinishInv'
  <2>1. ~settling(t) => <<t, call[t].part>> \notin disk.seen.by \cup disk.safe.by
    BY <1>2, <1>6 DEF formed
  <2> QED BY <1>0, <1>1, <1>2, <1>4, <2>1 DEF FinishInv, settling
<1>28. AheadInv'
  BY <1>0, <1>1, <1>2, <1>3, <1>4 DEF AheadInv, ahead, settling, early
<1>29. StartingInv'
  BY <1>0, <1>1, <1>2, <1>3, <1>4 DEF StartingInv, quiet
<1>30. RevokingInv'
  BY <1>0, <1>1, <1>2, <1>3, <1>4 DEF RevokingInv, early
<1>31. AnchorRestorable'
  BY <1>1, <1>2, <1>6 DEF AnchorRestorable, restoreAnchor
<1>32. AnswersHold'
  BY <1>0, <1>1, <1>2, <1>6 DEF AnswersHold, formed
<1>33. TrustedNotRevoked'
  BY <1>0, <1>1, <1>2, <1>3, <1>4 DEF TrustedNotRevoked
<1> QED BY <1>3, <1>20, <1>21, <1>22, <1>23, <1>24, <1>25, <1>26, <1>27,
           <1>28, <1>29, <1>30, <1>31, <1>32, <1>33
           DEF ControlInv

LEMMA SettleRefusedKeeps ==
    ASSUME ObservationSound, ControlInv, NEW t \in Calls, SettleRefused(t)
    PROVE  ControlInv'
<1>0. /\ TypeOK /\ LocalsInv /\ DownInv /\ FilesInv /\ CopiesInv
      /\ FreshInv /\ QueuedInv /\ SettleInv /\ FinishInv /\ AheadInv
      /\ StartingInv /\ RevokingInv
      /\ AnchorRestorable /\ AnswersHold /\ TrustedNotRevoked
  BY DEF ControlInv
<1>1. UNCHANGED <<disk, handle, view, anchor, state, told>>
  BY DEF SettleRefused, ends, files, memory
<1>2. /\ call[t].at \in {"finalize", "clear"}
      /\ provider' = provider
      /\ witness'.safe = witness.safe
      /\ \/ witness'.seen = witness.seen
         \/ /\ provider.pending = call[t].pending /\ witness.seen = provider
            /\ witness'.seen.pending = None
            /\ \/ /\ call[t].at = "finalize"
                  /\ witness'.seen.highWater = call[t].pending.target.number
               \/ /\ call[t].at = "clear"
                  /\ witness'.seen.highWater = provider.highWater
  BY <1>0 DEF SettleRefused, ends, notStored, finalized, cleared, TypeOK,
         Anchor
<1>3. TypeOK'
  BY <1>0, SettleRefusedTypes
<1>4. /\ \A u \in Calls : u # t => call'[u] = call[u]
      /\ call'[t].at = "finish"
      /\ call'[t].kind = call[t].kind
      /\ call'[t].part = call[t].part
      /\ call'[t].working = call[t].working
      /\ call'[t].selected = call[t].selected
      /\ call'[t].anchor = call[t].anchor
      /\ call'[t].pending = call[t].pending
      /\ call'[t].outcome = "unknown"
      /\ call'[t].job = call[t].job
      /\ call'[t].result = call[t].result
  BY <1>0, SettleRefusedFields
<1>5. publication(t, call'[t]) = publication(t, call[t])
  BY <1>4 DEF publication
<1>20. LocalsInv'
  BY <1>0, <1>1, <1>2, <1>3, <1>4, <1>5 DEF LocalsInv, quiet, early, settling
<1>21. DownInv'
  BY <1>0, <1>1, <1>2, <1>3, <1>4 DEF DownInv, quiet
<1>22. FilesInv'
  <2>1. anchorFormed(witness'.seen)
    <3>1. CASE witness'.seen = witness.seen
      BY <1>0, <3>1 DEF FilesInv
    <3>2. CASE witness'.seen # witness.seen
      BY <1>2, <3>2 DEF anchorFormed
    <3> QED BY <3>1, <3>2
  <2> QED BY <1>0, <1>1, <1>2, <2>1 DEF FilesInv
<1>23. CopiesInv'
  BY <1>0, <1>1, <1>2, <1>3, <1>4 DEF CopiesInv, quiet, early
<1>24. FreshInv'
  <2> SUFFICES ASSUME NEW v \in Calls, NEW k \in {1, 2}, notYet(v, k)'
               PROVE  /\ <<v, k>> \notin disk'.seen.by \cup disk'.safe.by
                      /\ <<v, k>> \notin told'.refused
                      /\ ~names(witness'.seen, <<v, k>>)
                      /\ ~names(witness'.safe, <<v, k>>)
                      /\ ~names(provider', <<v, k>>)
                      /\ ~names(anchor', <<v, k>>)
                      /\ \A u \in Calls :
                           /\ ~names(call'[u].anchor, <<v, k>>)
                           /\ u = v \/ ~names(call'[u], <<v, k>>)
    BY DEF FreshInv, names
  <2>1. notYet(v, k)
    BY <1>2, <1>4 DEF notYet, early
  <2>2. /\ <<v, k>> \notin disk.seen.by \cup disk.safe.by
        /\ <<v, k>> \notin told.refused
        /\ ~names(witness.seen, <<v, k>>) /\ ~names(witness.safe, <<v, k>>)
        /\ ~names(provider, <<v, k>>) /\ ~names(anchor, <<v, k>>)
        /\ \A u \in Calls : /\ ~names(call[u].anchor, <<v, k>>)
                            /\ u = v \/ ~names(call[u], <<v, k>>)
    BY <1>0, <2>1 DEF FreshInv
  <2>3. ~names(witness'.seen, <<v, k>>)
    BY <1>2, <2>2 DEF names
  <2> QED BY <1>1, <1>2, <1>4, <2>2, <2>3 DEF names
<1>25. QueuedInv'
  <2>1. ASSUME NEW u \in Calls, call[u].job = "queued"
        PROVE  witness'.seen = witness.seen /\ u # t
    BY <1>0, <1>2, <2>1, SettlePoint DEF LocalsInv
  <2> QED BY <1>0, <1>1, <1>2, <1>4, <2>1 DEF QueuedInv
<1>26. SettleInv'
  BY <1>0, <1>1, <1>2, <1>3, <1>4 DEF SettleInv
<1>27. FinishInv'
  BY <1>0, <1>1, <1>2, <1>3, <1>4 DEF FinishInv
<1>28. AheadInv'
  BY <1>0, <1>1, <1>2, <1>3, <1>4 DEF AheadInv, ahead, settling, early
<1>29. StartingInv'
  BY <1>0, <1>1, <1>2, <1>3, <1>4 DEF StartingInv, quiet
<1>30. RevokingInv'
  BY <1>0, <1>1, <1>2, <1>3, <1>4 DEF RevokingInv, early
<1>31. AnchorRestorable'
  <2>1. CASE witness'.seen = witness.seen
    BY <1>0, <1>1, <1>2, <2>1 DEF AnchorRestorable
  <2>2. CASE witness'.seen # witness.seen
    BY <1>0, <1>1, <1>2, <2>2, SettlePoint DEF AnchorRestorable, restoreAnchor
  <2> QED BY <2>1, <2>2
<1>32. AnswersHold'
  BY <1>0, <1>1, <1>2, <1>3, <1>4 DEF AnswersHold
<1>33. TrustedNotRevoked'
  BY <1>0, <1>1, <1>2, <1>3, <1>4 DEF TrustedNotRevoked
<1> QED BY <1>3, <1>20, <1>21, <1>22, <1>23, <1>24, <1>25, <1>26, <1>27,
           <1>28, <1>29, <1>30, <1>31, <1>32, <1>33
           DEF ControlInv

LEMMA ConfirmKeeps ==
    ASSUME ObservationSound, ControlInv, NEW t \in Calls, Confirm(t)
    PROVE  ControlInv'
<1>0. /\ TypeOK /\ LocalsInv /\ DownInv /\ FilesInv /\ CopiesInv
      /\ FreshInv /\ QueuedInv /\ SettleInv /\ FinishInv /\ AheadInv
      /\ StartingInv /\ RevokingInv
      /\ AnchorRestorable /\ AnswersHold /\ TrustedNotRevoked
  BY DEF ControlInv
<1>1. UNCHANGED <<disk, witness, handle, provider, view, anchor, state, told>>
  BY DEF Confirm, entered, unused, files, memory
<1>2. /\ state.run = "up"
      /\ call[t].at = "idle"
      /\ "confirm" \in Kinds
      /\ anchor.pending = None
  BY <1>0 DEF Confirm, entered, unused, free, mayMutate
<1>3. TypeOK'
  BY <1>0, ConfirmTypes
<1>4. /\ \A u \in Calls : u # t => call'[u] = call[u]
      /\ call'[t].at = "prepare"
      /\ call'[t].kind = "confirm"
      /\ call'[t].part = 1
      /\ call'[t].working = view
      /\ call'[t].selected = view
      /\ call'[t].anchor = anchor
      /\ call'[t].pending = None
      /\ call'[t].outcome = None
      /\ call'[t].job = "none"
      /\ call'[t].result = None
  BY <1>0, ConfirmFields
<1>20. LocalsInv'
  BY <1>0, <1>1, <1>2, <1>3, <1>4, Present DEF LocalsInv, quiet, early,
         settling
<1>21. DownInv'
  BY <1>0, <1>1, <1>2, <1>3, <1>4 DEF DownInv, quiet
<1>22. FilesInv'
  BY <1>0, <1>1, <1>2, <1>3, <1>4 DEF FilesInv
<1>23. CopiesInv'
  BY <1>0, <1>1, <1>2, <1>3, <1>4 DEF CopiesInv, quiet, early
<1>24. FreshInv'
  <2>1. ASSUME NEW k \in {1, 2}, notYet(t, k)'
        PROVE  notYet(t, k)
    BY <1>0, <1>2, <1>4, <2>1 DEF notYet, early
  <2>2. /\ call'[t].anchor.pending \in {None, anchor.pending, call[t].anchor.pending}
        /\ \/ call'[t].pending \in {None, anchor.pending, call[t].pending}
           \/ call'[t].pending.id = <<t, call[t].part>>
    BY <1>4 DEF publication
  <2> QED BY <1>0, <1>1, <1>2, <1>4, <2>1, <2>2, FreshKept
<1>25. QueuedInv'
  BY <1>0, <1>1, <1>2, <1>3, <1>4 DEF QueuedInv
<1>26. SettleInv'
  BY <1>0, <1>1, <1>2, <1>3, <1>4 DEF SettleInv
<1>27. FinishInv'
  BY <1>0, <1>1, <1>2, <1>3, <1>4 DEF FinishInv
<1>28. AheadInv'
  BY <1>0, <1>1, <1>2, <1>3, <1>4 DEF AheadInv, ahead, settling, early
<1>29. StartingInv'
  BY <1>0, <1>1, <1>2, <1>3, <1>4 DEF StartingInv, quiet
<1>30. RevokingInv'
  BY <1>0, <1>1, <1>2, <1>3, <1>4 DEF RevokingInv, early
<1>31. AnchorRestorable'
  BY <1>0, <1>1, <1>2, <1>3, <1>4 DEF AnchorRestorable
<1>32. AnswersHold'
  BY <1>0, <1>1, <1>2, <1>3, <1>4 DEF AnswersHold
<1>33. TrustedNotRevoked'
  BY <1>0, <1>1, <1>2, <1>3, <1>4 DEF TrustedNotRevoked
<1> QED BY <1>3, <1>20, <1>21, <1>22, <1>23, <1>24, <1>25, <1>26, <1>27,
           <1>28, <1>29, <1>30, <1>31, <1>32, <1>33
           DEF ControlInv

LEMMA RevokeKeeps ==
    ASSUME ObservationSound, ControlInv, NEW t \in Calls, Revoke(t)
    PROVE  ControlInv'
<1>0. /\ TypeOK /\ LocalsInv /\ DownInv /\ FilesInv /\ CopiesInv
      /\ FreshInv /\ QueuedInv /\ SettleInv /\ FinishInv /\ AheadInv
      /\ StartingInv /\ RevokingInv
      /\ AnchorRestorable /\ AnswersHold /\ TrustedNotRevoked
  BY DEF ControlInv
<1>1. UNCHANGED <<disk, witness, handle, provider, view, anchor, told>>
  BY DEF Revoke, entered, unused, files, memory
<1>2. /\ state.run = "up"
      /\ call[t].at = "idle"
      /\ "revoke" \in Kinds
      /\ anchor.pending = None
      /\ view.association = "trusted"
      /\ state'.run = state.run
      /\ state'.trusted = FALSE
  BY <1>0 DEF Revoke, entered, unused, free, mayMutate, TypeOK
<1>3. TypeOK'
  BY <1>0, RevokeTypes
<1>4. /\ \A u \in Calls : u # t => call'[u] = call[u]
      /\ call'[t].at = "revoke"
      /\ call'[t].kind = "revoke"
      /\ call'[t].part = 1
      /\ call'[t].working = view
      /\ call'[t].selected = view
      /\ call'[t].anchor = anchor
      /\ call'[t].pending = None
      /\ call'[t].outcome = None
      /\ call'[t].job = "none"
      /\ call'[t].result = None
  BY <1>0, RevokeFields
<1>20. LocalsInv'
  BY <1>0, <1>1, <1>2, <1>3, <1>4, Present DEF LocalsInv, quiet, early,
         settling
<1>21. DownInv'
  BY <1>0, <1>1, <1>2, <1>3, <1>4 DEF DownInv, quiet
<1>22. FilesInv'
  BY <1>0, <1>1, <1>2, <1>3, <1>4 DEF FilesInv
<1>23. CopiesInv'
  BY <1>0, <1>1, <1>2, <1>3, <1>4 DEF CopiesInv, quiet, early
<1>24. FreshInv'
  <2>1. ASSUME NEW k \in {1, 2}, notYet(t, k)'
        PROVE  notYet(t, k)
    BY <1>0, <1>2, <1>4, <2>1 DEF notYet, early
  <2>2. /\ call'[t].anchor.pending \in {None, anchor.pending, call[t].anchor.pending}
        /\ \/ call'[t].pending \in {None, anchor.pending, call[t].pending}
           \/ call'[t].pending.id = <<t, call[t].part>>
    BY <1>4 DEF publication
  <2> QED BY <1>0, <1>1, <1>2, <1>4, <2>1, <2>2, FreshKept
<1>25. QueuedInv'
  BY <1>0, <1>1, <1>2, <1>3, <1>4 DEF QueuedInv
<1>26. SettleInv'
  BY <1>0, <1>1, <1>2, <1>3, <1>4 DEF SettleInv
<1>27. FinishInv'
  BY <1>0, <1>1, <1>2, <1>3, <1>4 DEF FinishInv
<1>28. AheadInv'
  BY <1>0, <1>1, <1>2, <1>3, <1>4 DEF AheadInv, ahead, settling, early
<1>29. StartingInv'
  BY <1>0, <1>1, <1>2, <1>3, <1>4 DEF StartingInv, quiet
<1>30. RevokingInv'
  BY <1>0, <1>1, <1>2, <1>3, <1>4 DEF RevokingInv, early
<1>31. AnchorRestorable'
  BY <1>0, <1>1, <1>2, <1>3, <1>4 DEF AnchorRestorable
<1>32. AnswersHold'
  BY <1>0, <1>1, <1>2, <1>3, <1>4 DEF AnswersHold
<1>33. TrustedNotRevoked'
  BY <1>0, <1>1, <1>2, <1>3, <1>4 DEF TrustedNotRevoked
<1> QED BY <1>3, <1>20, <1>21, <1>22, <1>23, <1>24, <1>25, <1>26, <1>27,
           <1>28, <1>29, <1>30, <1>31, <1>32, <1>33
           DEF ControlInv

LEMMA RevokeAgainKeeps ==
    ASSUME ObservationSound, ControlInv, NEW t \in Calls, RevokeAgain(t)
    PROVE  ControlInv'
<1>0. /\ TypeOK /\ LocalsInv /\ DownInv /\ FilesInv /\ CopiesInv
      /\ FreshInv /\ QueuedInv /\ SettleInv /\ FinishInv /\ AheadInv
      /\ StartingInv /\ RevokingInv
      /\ AnchorRestorable /\ AnswersHold /\ TrustedNotRevoked
  BY DEF ControlInv
<1>1. UNCHANGED <<disk, witness, handle, provider, view, anchor, state, told>>
  BY DEF RevokeAgain, entered, unused, files, memory
<1>2. /\ state.run = "up"
      /\ call[t].at = "idle"
      /\ "revoke" \in Kinds
      /\ view.association = "revoking"
  BY <1>0 DEF RevokeAgain, entered, unused, free
<1>3. TypeOK'
  BY <1>0, RevokeAgainTypes
<1>4. /\ \A u \in Calls : u # t => call'[u] = call[u]
      /\ call'[t].at = "withdraw"
      /\ call'[t].kind = "revoke"
      /\ call'[t].part = 1
      /\ call'[t].working = view
      /\ call'[t].selected = view
      /\ call'[t].anchor = anchor
      /\ call'[t].pending = None
      /\ call'[t].outcome = None
      /\ call'[t].job = "none"
      /\ call'[t].result = None
  BY <1>0, RevokeAgainFields
<1>6. \A u \in Calls : call[u].job = "queued" =>
        /\ call[u].pending # None /\ call[u].at = "commit"
        /\ call[u].pending.id = <<u, call[u].part>>
  BY <1>0, QueuedPending
<1>20. LocalsInv'
  BY <1>0, <1>1, <1>2, <1>3, <1>4, Present DEF LocalsInv, quiet, early,
         settling
<1>21. DownInv'
  BY <1>0, <1>1, <1>2, <1>3, <1>4 DEF DownInv, quiet
<1>22. FilesInv'
  BY <1>0, <1>1, <1>2, <1>3, <1>4 DEF FilesInv
<1>23. CopiesInv'
  BY <1>0, <1>1, <1>2, <1>3, <1>4 DEF CopiesInv, quiet, early
<1>24. FreshInv'
  <2>1. ASSUME NEW k \in {1, 2}, notYet(t, k)'
        PROVE  notYet(t, k)
    BY <1>0, <1>2, <1>4, <2>1 DEF notYet, early
  <2>2. /\ call'[t].anchor.pending \in {None, anchor.pending, call[t].anchor.pending}
        /\ \/ call'[t].pending \in {None, anchor.pending, call[t].pending}
           \/ call'[t].pending.id = <<t, call[t].part>>
    BY <1>4 DEF publication
  <2> QED BY <1>0, <1>1, <1>2, <1>4, <2>1, <2>2, FreshKept
<1>25. QueuedInv'
  BY <1>0, <1>1, <1>2, <1>3, <1>4, <1>6, Present DEF QueuedInv
<1>26. SettleInv'
  BY <1>0, <1>1, <1>2, <1>3, <1>4 DEF SettleInv
<1>27. FinishInv'
  BY <1>0, <1>1, <1>2, <1>3, <1>4 DEF FinishInv
<1>28. AheadInv'
  BY <1>0, <1>1, <1>2, <1>3, <1>4 DEF AheadInv, ahead, settling, early
<1>29. StartingInv'
  BY <1>0, <1>1, <1>2, <1>3, <1>4 DEF StartingInv, quiet
<1>30. RevokingInv'
  BY <1>0, <1>1, <1>2, <1>3, <1>4 DEF RevokingInv, early
<1>31. AnchorRestorable'
  BY <1>0, <1>1, <1>2, <1>3, <1>4 DEF AnchorRestorable
<1>32. AnswersHold'
  BY <1>0, <1>1, <1>2, <1>3, <1>4 DEF AnswersHold
<1>33. TrustedNotRevoked'
  BY <1>0, <1>1, <1>2, <1>3, <1>4 DEF TrustedNotRevoked
<1> QED BY <1>3, <1>20, <1>21, <1>22, <1>23, <1>24, <1>25, <1>26, <1>27,
           <1>28, <1>29, <1>30, <1>31, <1>32, <1>33
           DEF ControlInv

LEMMA RevokePublishesKeeps ==
    ASSUME ObservationSound, ControlInv, NEW t \in Calls, RevokePublishes(t)
    PROVE  ControlInv'
<1>0. /\ TypeOK /\ LocalsInv /\ DownInv /\ FilesInv /\ CopiesInv
      /\ FreshInv /\ QueuedInv /\ SettleInv /\ FinishInv /\ AheadInv
      /\ StartingInv /\ RevokingInv
      /\ AnchorRestorable /\ AnswersHold /\ TrustedNotRevoked
  BY DEF ControlInv
<1>1. UNCHANGED <<disk, witness, handle, provider, view, anchor, state, told>>
  BY DEF RevokePublishes, files, memory
<1>2. /\ call[t].at = "revoke"
  BY <1>0 DEF RevokePublishes
<1>3. TypeOK'
  BY <1>0, RevokePublishesTypes
<1>4. /\ \A u \in Calls : u # t => call'[u] = call[u]
      /\ call'[t].at = "prepare"
      /\ call'[t].kind = call[t].kind
      /\ call'[t].part = call[t].part
      /\ call'[t].working = call[t].working
      /\ call'[t].selected = view
      /\ call'[t].anchor = anchor
      /\ call'[t].pending = call[t].pending
      /\ call'[t].outcome = call[t].outcome
      /\ call'[t].job = call[t].job
      /\ call'[t].result = call[t].result
  BY <1>0, RevokePublishesFields
<1>5. publication(t, call'[t]) = publication(t, call[t])
  BY <1>4 DEF publication
<1>20. LocalsInv'
  BY <1>0, <1>1, <1>2, <1>3, <1>4, <1>5 DEF LocalsInv, quiet, early, settling
<1>21. DownInv'
  BY <1>0, <1>1, <1>2, <1>3, <1>4 DEF DownInv, quiet
<1>22. FilesInv'
  BY <1>0, <1>1, <1>2, <1>3, <1>4 DEF FilesInv
<1>23. CopiesInv'
  BY <1>0, <1>1, <1>2, <1>3, <1>4 DEF CopiesInv, quiet, early
<1>24. FreshInv'
  <2>1. ASSUME NEW k \in {1, 2}, notYet(t, k)'
        PROVE  notYet(t, k)
    BY <1>0, <1>2, <1>4, <2>1 DEF notYet, early
  <2>2. /\ call'[t].anchor.pending \in {None, anchor.pending, call[t].anchor.pending}
        /\ \/ call'[t].pending \in {None, anchor.pending, call[t].pending}
           \/ call'[t].pending.id = <<t, call[t].part>>
    BY <1>4 DEF publication
  <2> QED BY <1>0, <1>1, <1>2, <1>4, <2>1, <2>2, FreshKept
<1>25. QueuedInv'
  BY <1>0, <1>1, <1>2, <1>3, <1>4 DEF QueuedInv
<1>26. SettleInv'
  BY <1>0, <1>1, <1>2, <1>3, <1>4 DEF SettleInv
<1>27. FinishInv'
  BY <1>0, <1>1, <1>2, <1>3, <1>4 DEF FinishInv
<1>28. AheadInv'
  BY <1>0, <1>1, <1>2, <1>3, <1>4 DEF AheadInv, ahead, settling, early
<1>29. StartingInv'
  BY <1>0, <1>1, <1>2, <1>3, <1>4 DEF StartingInv, quiet
<1>30. RevokingInv'
  BY <1>0, <1>1, <1>2, <1>3, <1>4 DEF RevokingInv, early
<1>31. AnchorRestorable'
  BY <1>0, <1>1, <1>2, <1>3, <1>4 DEF AnchorRestorable
<1>32. AnswersHold'
  BY <1>0, <1>1, <1>2, <1>3, <1>4 DEF AnswersHold
<1>33. TrustedNotRevoked'
  BY <1>0, <1>1, <1>2, <1>3, <1>4 DEF TrustedNotRevoked
<1> QED BY <1>3, <1>20, <1>21, <1>22, <1>23, <1>24, <1>25, <1>26, <1>27,
           <1>28, <1>29, <1>30, <1>31, <1>32, <1>33
           DEF ControlInv

LEMMA RepairKeeps ==
    ASSUME ObservationSound, ControlInv, NEW t \in Calls, Repair(t)
    PROVE  ControlInv'
<1>0. /\ TypeOK /\ LocalsInv /\ DownInv /\ FilesInv /\ CopiesInv
      /\ FreshInv /\ QueuedInv /\ SettleInv /\ FinishInv /\ AheadInv
      /\ StartingInv /\ RevokingInv
      /\ AnchorRestorable /\ AnswersHold /\ TrustedNotRevoked
  BY DEF ControlInv
<1>1. UNCHANGED <<disk, witness, handle, provider, view, anchor, state, told>>
  BY DEF Repair, entered, unused, files, memory
<1>2. /\ state.run = "up"
      /\ call[t].at = "idle"
      /\ "repair" \in Kinds
      /\ anchor.pending = None
  BY <1>0 DEF Repair, entered, unused, free, mayMutate
<1>3. TypeOK'
  BY <1>0, RepairTypes
<1>4. /\ \A u \in Calls : u # t => call'[u] = call[u]
      /\ call'[t].at = "prepare"
      /\ call'[t].kind = "repair"
      /\ call'[t].part = 1
      /\ call'[t].working = view
      /\ call'[t].selected = view
      /\ call'[t].anchor = anchor
      /\ call'[t].pending = None
      /\ call'[t].outcome = None
      /\ call'[t].job = "none"
      /\ call'[t].result = None
  BY <1>0, RepairFields
<1>20. LocalsInv'
  BY <1>0, <1>1, <1>2, <1>3, <1>4, Present DEF LocalsInv, quiet, early,
         settling
<1>21. DownInv'
  BY <1>0, <1>1, <1>2, <1>3, <1>4 DEF DownInv, quiet
<1>22. FilesInv'
  BY <1>0, <1>1, <1>2, <1>3, <1>4 DEF FilesInv
<1>23. CopiesInv'
  BY <1>0, <1>1, <1>2, <1>3, <1>4 DEF CopiesInv, quiet, early
<1>24. FreshInv'
  <2>1. ASSUME NEW k \in {1, 2}, notYet(t, k)'
        PROVE  notYet(t, k)
    BY <1>0, <1>2, <1>4, <2>1 DEF notYet, early
  <2>2. /\ call'[t].anchor.pending \in {None, anchor.pending, call[t].anchor.pending}
        /\ \/ call'[t].pending \in {None, anchor.pending, call[t].pending}
           \/ call'[t].pending.id = <<t, call[t].part>>
    BY <1>4 DEF publication
  <2> QED BY <1>0, <1>1, <1>2, <1>4, <2>1, <2>2, FreshKept
<1>25. QueuedInv'
  BY <1>0, <1>1, <1>2, <1>3, <1>4 DEF QueuedInv
<1>26. SettleInv'
  BY <1>0, <1>1, <1>2, <1>3, <1>4 DEF SettleInv
<1>27. FinishInv'
  BY <1>0, <1>1, <1>2, <1>3, <1>4 DEF FinishInv
<1>28. AheadInv'
  BY <1>0, <1>1, <1>2, <1>3, <1>4 DEF AheadInv, ahead, settling, early
<1>29. StartingInv'
  BY <1>0, <1>1, <1>2, <1>3, <1>4 DEF StartingInv, quiet
<1>30. RevokingInv'
  BY <1>0, <1>1, <1>2, <1>3, <1>4 DEF RevokingInv, early
<1>31. AnchorRestorable'
  BY <1>0, <1>1, <1>2, <1>3, <1>4 DEF AnchorRestorable
<1>32. AnswersHold'
  BY <1>0, <1>1, <1>2, <1>3, <1>4 DEF AnswersHold
<1>33. TrustedNotRevoked'
  BY <1>0, <1>1, <1>2, <1>3, <1>4 DEF TrustedNotRevoked
<1> QED BY <1>3, <1>20, <1>21, <1>22, <1>23, <1>24, <1>25, <1>26, <1>27,
           <1>28, <1>29, <1>30, <1>31, <1>32, <1>33
           DEF ControlInv

LEMMA ReconcileKeeps ==
    ASSUME ObservationSound, ControlInv, NEW t \in Calls, Reconcile(t)
    PROVE  ControlInv'
<1>0. /\ TypeOK /\ LocalsInv /\ DownInv /\ FilesInv /\ CopiesInv
      /\ FreshInv /\ QueuedInv /\ SettleInv /\ FinishInv /\ AheadInv
      /\ StartingInv /\ RevokingInv
      /\ AnchorRestorable /\ AnswersHold /\ TrustedNotRevoked
  BY DEF ControlInv
<1>1. UNCHANGED <<disk, witness, handle, provider, view, anchor, state, told>>
  BY DEF Reconcile, entered, unused, files, memory
<1>2. /\ state.run = "up"
      /\ call[t].at = "idle"
      /\ "reconcile" \in Kinds
  BY <1>0 DEF Reconcile, entered, unused, free
<1>3. TypeOK'
  BY <1>0, ReconcileTypes
<1>4. /\ \A u \in Calls : u # t => call'[u] = call[u]
      /\ call'[t].at = "reconcile"
      /\ call'[t].kind = "reconcile"
      /\ call'[t].part = 1
      /\ call'[t].working = view
      /\ call'[t].selected = view
      /\ call'[t].anchor = anchor
      /\ call'[t].pending = None
      /\ call'[t].outcome = None
      /\ call'[t].job = "none"
      /\ call'[t].result = None
  BY <1>0, ReconcileFields
<1>6. \A u \in Calls : call[u].job = "queued" =>
        /\ call[u].pending # None /\ call[u].at = "commit"
        /\ call[u].pending.id = <<u, call[u].part>>
  BY <1>0, QueuedPending
<1>20. LocalsInv'
  BY <1>0, <1>1, <1>2, <1>3, <1>4, Present DEF LocalsInv, quiet, early,
         settling
<1>21. DownInv'
  BY <1>0, <1>1, <1>2, <1>3, <1>4 DEF DownInv, quiet
<1>22. FilesInv'
  BY <1>0, <1>1, <1>2, <1>3, <1>4 DEF FilesInv
<1>23. CopiesInv'
  BY <1>0, <1>1, <1>2, <1>3, <1>4 DEF CopiesInv, quiet, early
<1>24. FreshInv'
  <2>1. ASSUME NEW k \in {1, 2}, notYet(t, k)'
        PROVE  notYet(t, k)
    BY <1>0, <1>2, <1>4, <2>1 DEF notYet, early
  <2>2. /\ call'[t].anchor.pending \in {None, anchor.pending, call[t].anchor.pending}
        /\ \/ call'[t].pending \in {None, anchor.pending, call[t].pending}
           \/ call'[t].pending.id = <<t, call[t].part>>
    BY <1>4 DEF publication
  <2> QED BY <1>0, <1>1, <1>2, <1>4, <2>1, <2>2, FreshKept
<1>25. QueuedInv'
  BY <1>0, <1>1, <1>2, <1>3, <1>4, <1>6, Present DEF QueuedInv
<1>26. SettleInv'
  BY <1>0, <1>1, <1>2, <1>3, <1>4 DEF SettleInv
<1>27. FinishInv'
  BY <1>0, <1>1, <1>2, <1>3, <1>4 DEF FinishInv
<1>28. AheadInv'
  BY <1>0, <1>1, <1>2, <1>3, <1>4 DEF AheadInv, ahead, settling, early
<1>29. StartingInv'
  BY <1>0, <1>1, <1>2, <1>3, <1>4 DEF StartingInv, quiet
<1>30. RevokingInv'
  BY <1>0, <1>1, <1>2, <1>3, <1>4 DEF RevokingInv, early
<1>31. AnchorRestorable'
  BY <1>0, <1>1, <1>2, <1>3, <1>4 DEF AnchorRestorable
<1>32. AnswersHold'
  BY <1>0, <1>1, <1>2, <1>3, <1>4 DEF AnswersHold
<1>33. TrustedNotRevoked'
  BY <1>0, <1>1, <1>2, <1>3, <1>4 DEF TrustedNotRevoked
<1> QED BY <1>3, <1>20, <1>21, <1>22, <1>23, <1>24, <1>25, <1>26, <1>27,
           <1>28, <1>29, <1>30, <1>31, <1>32, <1>33
           DEF ControlInv

LEMMA ReconcilePendingKeeps ==
    ASSUME ObservationSound, ControlInv, NEW t \in Calls, ReconcilePending(t)
    PROVE  ControlInv'
<1>0. /\ TypeOK /\ LocalsInv /\ DownInv /\ FilesInv /\ CopiesInv
      /\ FreshInv /\ QueuedInv /\ SettleInv /\ FinishInv /\ AheadInv
      /\ StartingInv /\ RevokingInv
      /\ AnchorRestorable /\ AnswersHold /\ TrustedNotRevoked
  BY DEF ControlInv
<1>1. UNCHANGED <<disk, witness, handle, provider, view, anchor, state, told>>
  BY DEF ReconcilePending, files, memory
<1>2. /\ call[t].at = "reconcile"
  BY <1>0 DEF ReconcilePending
<1>3. TypeOK'
  BY <1>0, ReconcilePendingTypes
<1>4. /\ \A u \in Calls : u # t => call'[u] = call[u]
      /\ \/ overFields(call'[t], call[t])
         \/ /\ anchor.pending # None
            /\ call'[t].at = "observe" /\ call'[t].anchor = anchor
            /\ call'[t].pending = anchor.pending
            /\ call'[t].kind = call[t].kind /\ call'[t].part = call[t].part
            /\ call'[t].working = call[t].working /\ call'[t].job = call[t].job
            /\ call'[t].selected = call[t].selected
            /\ call'[t].outcome = call[t].outcome /\ call'[t].result = call[t].result
  BY <1>0, ReconcilePendingFields, OverFields
<1>6. \A u \in Calls : call[u].job = "queued" =>
        /\ call[u].pending # None /\ call[u].at = "commit"
        /\ call[u].pending.id = <<u, call[u].part>>
  BY <1>0, QueuedPending
<1>20. LocalsInv'
  BY <1>0, <1>1, <1>2, <1>3, <1>4, Present DEF LocalsInv, quiet, early,
         settling, overFields
<1>21. DownInv'
  BY <1>0, <1>1, <1>2, <1>3, <1>4, Present DEF DownInv, quiet, LocalsInv,
         overFields
<1>22. FilesInv'
  BY <1>0, <1>1, <1>2, <1>3, <1>4, Present DEF FilesInv, overFields
<1>23. CopiesInv'
  BY <1>0, <1>1, <1>2, <1>3, <1>4, Present, Numbers DEF CopiesInv, quiet,
         early, LocalsInv, overFields
<1>24. FreshInv'
  <2>1. ASSUME NEW k \in {1, 2}, notYet(t, k)'
        PROVE  notYet(t, k)
    BY <1>0, <1>2, <1>4, <2>1 DEF notYet, early, overFields
  <2>2. /\ call'[t].anchor.pending \in {None, anchor.pending, call[t].anchor.pending}
        /\ \/ call'[t].pending \in {None, anchor.pending, call[t].pending}
           \/ call'[t].pending.id = <<t, call[t].part>>
    BY <1>4 DEF publication, overFields
  <2> QED BY <1>0, <1>1, <1>2, <1>4, <2>1, <2>2, FreshKept
<1>25. QueuedInv'
  BY <1>0, <1>1, <1>2, <1>3, <1>4, <1>6, Present DEF QueuedInv, overFields
<1>26. SettleInv'
  BY <1>0, <1>1, <1>2, <1>3, <1>4, Present DEF SettleInv, overFields
<1>27. FinishInv'
  BY <1>0, <1>1, <1>2, <1>3, <1>4, Present DEF FinishInv, overFields
<1>28. AheadInv'
  <2>1. ASSUME NEW u \in Calls, ahead(u)' PROVE u # t /\ ahead(u)
    BY <1>0, <1>2, <1>4, <2>1, Present DEF ahead, settling, LocalsInv, overFields
  <2>2. ASSUME NEW u \in Calls,
               call'[u].at \in early \/ call'[u].job = "queued"
        PROVE  /\ call'[u].working = call[u].working
               /\ call[u].at \in early \/ call[u].job = "queued"
    BY <1>0, <1>2, <1>4, <2>2 DEF early, LocalsInv, overFields
  <2> QED BY <1>0, <1>1, <1>2, <1>4, <2>1, <2>2 DEF AheadInv
<1>29. StartingInv'
  BY <1>0, <1>1, <1>2, <1>3, <1>4, Present DEF StartingInv, quiet, LocalsInv,
         overFields
<1>30. RevokingInv'
  BY <1>0, <1>1, <1>2, <1>3, <1>4, Present DEF RevokingInv, early, overFields
<1>31. AnchorRestorable'
  BY <1>0, <1>1, <1>2, <1>3, <1>4, Present DEF AnchorRestorable, overFields
<1>32. AnswersHold'
  BY <1>0, <1>1, <1>2, <1>3, <1>4, Present DEF AnswersHold, overFields
<1>33. TrustedNotRevoked'
  BY <1>0, <1>1, <1>2, <1>3, <1>4, Present DEF TrustedNotRevoked, overFields
<1> QED BY <1>3, <1>20, <1>21, <1>22, <1>23, <1>24, <1>25, <1>26, <1>27,
           <1>28, <1>29, <1>30, <1>31, <1>32, <1>33
           DEF ControlInv

LEMMA ObserveKeeps ==
    ASSUME ObservationSound, ControlInv, NEW t \in Calls, Observe(t)
    PROVE  ControlInv'
<1>0. /\ TypeOK /\ LocalsInv /\ DownInv /\ FilesInv /\ CopiesInv
      /\ FreshInv /\ QueuedInv /\ SettleInv /\ FinishInv /\ AheadInv
      /\ StartingInv /\ RevokingInv
      /\ AnchorRestorable /\ AnswersHold /\ TrustedNotRevoked
  BY DEF ControlInv
<1>1. UNCHANGED <<disk, witness, handle, provider, view, anchor, state, told>>
  BY DEF Observe, ends, files, memory
<1>2. /\ call[t].at = "observe"
  BY <1>0 DEF Observe, ends
<1>3. TypeOK'
  BY <1>0, ObserveTypes
<1>4. /\ \A u \in Calls : u # t => call'[u] = call[u]
      /\ call'[t].kind = call[t].kind
      /\ call'[t].part = call[t].part
      /\ call'[t].working = call[t].working
      /\ call'[t].selected = call[t].selected
      /\ call'[t].anchor = call[t].anchor
      /\ call'[t].pending = call[t].pending
      /\ call'[t].job = call[t].job
      /\ call'[t].result = call[t].result
      /\ \/ /\ handle.gen = call[t].pending.target /\ call'[t].at = "finalize"
         \/ /\ handle.gen = call[t].pending.previous /\ call'[t].at = "clear"
         \/ call'[t].at = "finish" /\ call'[t].outcome = "unknown"
  BY <1>0, ObserveFields
<1>5. publication(t, call'[t]) = publication(t, call[t])
  BY <1>4 DEF publication
<1>20. LocalsInv'
  BY <1>0, <1>1, <1>2, <1>3, <1>4, <1>5 DEF LocalsInv, quiet, early, settling
<1>21. DownInv'
  BY <1>0, <1>1, <1>2, <1>3, <1>4 DEF DownInv, quiet
<1>22. FilesInv'
  BY <1>0, <1>1, <1>2, <1>3, <1>4 DEF FilesInv
<1>23. CopiesInv'
  BY <1>0, <1>1, <1>2, <1>3, <1>4 DEF CopiesInv, quiet, early
<1>24. FreshInv'
  <2>1. ASSUME NEW k \in {1, 2}, notYet(t, k)'
        PROVE  notYet(t, k)
    BY <1>0, <1>2, <1>4, <2>1 DEF notYet, early
  <2>2. /\ call'[t].anchor.pending \in {None, anchor.pending, call[t].anchor.pending}
        /\ \/ call'[t].pending \in {None, anchor.pending, call[t].pending}
           \/ call'[t].pending.id = <<t, call[t].part>>
    BY <1>4 DEF publication
  <2> QED BY <1>0, <1>1, <1>2, <1>4, <2>1, <2>2, FreshKept
<1>25. QueuedInv'
  BY <1>0, <1>1, <1>2, <1>3, <1>4 DEF QueuedInv
<1>26. SettleInv'
  <2>1. "rootSync" \notin Faults /\ state.run # "down"
    BY <1>0, <1>2, Running DEF LocalsInv, ObservationSound, quiet
  <2>2. disk.seen = disk.safe /\ handle.gen = disk.safe
    BY <1>0, <2>1 DEF FilesInv
  <2> QED BY <1>0, <1>1, <1>2, <1>4, <2>2 DEF SettleInv
<1>27. FinishInv'
  BY <1>0, <1>1, <1>2, <1>3, <1>4 DEF FinishInv
<1>28. AheadInv'
  BY <1>0, <1>1, <1>2, <1>3, <1>4 DEF AheadInv, ahead, settling, early,
         LocalsInv
<1>29. StartingInv'
  BY <1>0, <1>1, <1>2, <1>3, <1>4 DEF StartingInv, quiet
<1>30. RevokingInv'
  BY <1>0, <1>1, <1>2, <1>3, <1>4 DEF RevokingInv, early
<1>31. AnchorRestorable'
  BY <1>0, <1>1, <1>2, <1>3, <1>4 DEF AnchorRestorable
<1>32. AnswersHold'
  BY <1>0, <1>1, <1>2, <1>3, <1>4 DEF AnswersHold
<1>33. TrustedNotRevoked'
  BY <1>0, <1>1, <1>2, <1>3, <1>4 DEF TrustedNotRevoked
<1> QED BY <1>3, <1>20, <1>21, <1>22, <1>23, <1>24, <1>25, <1>26, <1>27,
           <1>28, <1>29, <1>30, <1>31, <1>32, <1>33
           DEF ControlInv

LEMMA RetryKeeps ==
    ASSUME ObservationSound, ControlInv, NEW t \in Calls, Retry(t)
    PROVE  ControlInv'
<1>0. /\ TypeOK /\ LocalsInv /\ DownInv /\ FilesInv /\ CopiesInv
      /\ FreshInv /\ QueuedInv /\ SettleInv /\ FinishInv /\ AheadInv
      /\ StartingInv /\ RevokingInv
      /\ AnchorRestorable /\ AnswersHold /\ TrustedNotRevoked
  BY DEF ControlInv
<1>1. UNCHANGED <<disk, witness, handle, provider, view, anchor, state, told>>
  BY DEF Retry, entered, unused, files, memory
<1>2. /\ state.run = "up"
      /\ call[t].at = "idle"
      /\ "retry" \in Kinds
      /\ anchor.pending = None
  BY <1>0 DEF Retry, entered, unused, free
<1>3. TypeOK'
  BY <1>0, RetryTypes
<1>4. /\ \A u \in Calls : u # t => call'[u] = call[u]
      /\ call'[t].at = "prepare"
      /\ call'[t].kind = "retry"
      /\ call'[t].part = 1
      /\ call'[t].working = view
      /\ call'[t].selected = view
      /\ call'[t].anchor = anchor
      /\ call'[t].pending = None
      /\ call'[t].outcome = None
      /\ call'[t].job = "none"
      /\ call'[t].result = None
  BY <1>0, RetryFields
<1>20. LocalsInv'
  BY <1>0, <1>1, <1>2, <1>3, <1>4, Present DEF LocalsInv, quiet, early,
         settling
<1>21. DownInv'
  BY <1>0, <1>1, <1>2, <1>3, <1>4 DEF DownInv, quiet
<1>22. FilesInv'
  BY <1>0, <1>1, <1>2, <1>3, <1>4 DEF FilesInv
<1>23. CopiesInv'
  BY <1>0, <1>1, <1>2, <1>3, <1>4 DEF CopiesInv, quiet, early
<1>24. FreshInv'
  <2>1. ASSUME NEW k \in {1, 2}, notYet(t, k)'
        PROVE  notYet(t, k)
    BY <1>0, <1>2, <1>4, <2>1 DEF notYet, early
  <2>2. /\ call'[t].anchor.pending \in {None, anchor.pending, call[t].anchor.pending}
        /\ \/ call'[t].pending \in {None, anchor.pending, call[t].pending}
           \/ call'[t].pending.id = <<t, call[t].part>>
    BY <1>4 DEF publication
  <2> QED BY <1>0, <1>1, <1>2, <1>4, <2>1, <2>2, FreshKept
<1>25. QueuedInv'
  BY <1>0, <1>1, <1>2, <1>3, <1>4 DEF QueuedInv
<1>26. SettleInv'
  BY <1>0, <1>1, <1>2, <1>3, <1>4 DEF SettleInv
<1>27. FinishInv'
  BY <1>0, <1>1, <1>2, <1>3, <1>4 DEF FinishInv
<1>28. AheadInv'
  BY <1>0, <1>1, <1>2, <1>3, <1>4 DEF AheadInv, ahead, settling, early
<1>29. StartingInv'
  BY <1>0, <1>1, <1>2, <1>3, <1>4 DEF StartingInv, quiet
<1>30. RevokingInv'
  BY <1>0, <1>1, <1>2, <1>3, <1>4 DEF RevokingInv, early
<1>31. AnchorRestorable'
  BY <1>0, <1>1, <1>2, <1>3, <1>4 DEF AnchorRestorable
<1>32. AnswersHold'
  BY <1>0, <1>1, <1>2, <1>3, <1>4 DEF AnswersHold
<1>33. TrustedNotRevoked'
  BY <1>0, <1>1, <1>2, <1>3, <1>4 DEF TrustedNotRevoked
<1> QED BY <1>3, <1>20, <1>21, <1>22, <1>23, <1>24, <1>25, <1>26, <1>27,
           <1>28, <1>29, <1>30, <1>31, <1>32, <1>33
           DEF ControlInv

LEMMA AttemptPrepareKeeps ==
    ASSUME ObservationSound, ControlInv, NEW t \in Calls, AttemptPrepare(t)
    PROVE  ControlInv'
<1>0. /\ TypeOK /\ LocalsInv /\ DownInv /\ FilesInv /\ CopiesInv
      /\ FreshInv /\ QueuedInv /\ SettleInv /\ FinishInv /\ AheadInv
      /\ StartingInv /\ RevokingInv
      /\ AnchorRestorable /\ AnswersHold /\ TrustedNotRevoked
  BY DEF ControlInv
<1>1. UNCHANGED <<disk, witness, handle, provider, view, anchor, state, told>>
  BY DEF AttemptPrepare, entered, unused, files, memory
<1>2. /\ state.run = "up"
      /\ call[t].at = "idle"
      /\ "attempt_prepare" \in Kinds
      /\ anchor.pending = None
  BY <1>0 DEF AttemptPrepare, entered, unused, free, mayMutate
<1>3. TypeOK'
  BY <1>0, AttemptPrepareTypes
<1>4. /\ \A u \in Calls : u # t => call'[u] = call[u]
      /\ call'[t].at = "prepare"
      /\ call'[t].kind = "attempt_prepare"
      /\ call'[t].part = 1
      /\ call'[t].working = view
      /\ call'[t].selected = view
      /\ call'[t].anchor = anchor
      /\ call'[t].pending = None
      /\ call'[t].outcome = None
      /\ call'[t].job = "none"
      /\ call'[t].result = None
  BY <1>0, AttemptPrepareFields
<1>20. LocalsInv'
  BY <1>0, <1>1, <1>2, <1>3, <1>4, Present DEF LocalsInv, quiet, early,
         settling
<1>21. DownInv'
  BY <1>0, <1>1, <1>2, <1>3, <1>4 DEF DownInv, quiet
<1>22. FilesInv'
  BY <1>0, <1>1, <1>2, <1>3, <1>4 DEF FilesInv
<1>23. CopiesInv'
  BY <1>0, <1>1, <1>2, <1>3, <1>4 DEF CopiesInv, quiet, early
<1>24. FreshInv'
  <2>1. ASSUME NEW k \in {1, 2}, notYet(t, k)'
        PROVE  notYet(t, k)
    BY <1>0, <1>2, <1>4, <2>1 DEF notYet, early
  <2>2. /\ call'[t].anchor.pending \in {None, anchor.pending, call[t].anchor.pending}
        /\ \/ call'[t].pending \in {None, anchor.pending, call[t].pending}
           \/ call'[t].pending.id = <<t, call[t].part>>
    BY <1>4 DEF publication
  <2> QED BY <1>0, <1>1, <1>2, <1>4, <2>1, <2>2, FreshKept
<1>25. QueuedInv'
  BY <1>0, <1>1, <1>2, <1>3, <1>4 DEF QueuedInv
<1>26. SettleInv'
  BY <1>0, <1>1, <1>2, <1>3, <1>4 DEF SettleInv
<1>27. FinishInv'
  BY <1>0, <1>1, <1>2, <1>3, <1>4 DEF FinishInv
<1>28. AheadInv'
  BY <1>0, <1>1, <1>2, <1>3, <1>4 DEF AheadInv, ahead, settling, early
<1>29. StartingInv'
  BY <1>0, <1>1, <1>2, <1>3, <1>4 DEF StartingInv, quiet
<1>30. RevokingInv'
  BY <1>0, <1>1, <1>2, <1>3, <1>4 DEF RevokingInv, early
<1>31. AnchorRestorable'
  BY <1>0, <1>1, <1>2, <1>3, <1>4 DEF AnchorRestorable
<1>32. AnswersHold'
  BY <1>0, <1>1, <1>2, <1>3, <1>4 DEF AnswersHold
<1>33. TrustedNotRevoked'
  BY <1>0, <1>1, <1>2, <1>3, <1>4 DEF TrustedNotRevoked
<1> QED BY <1>3, <1>20, <1>21, <1>22, <1>23, <1>24, <1>25, <1>26, <1>27,
           <1>28, <1>29, <1>30, <1>31, <1>32, <1>33
           DEF ControlInv

LEMMA AttemptKeeps ==
    ASSUME ObservationSound, ControlInv, NEW t \in Calls, Attempt(t)
    PROVE  ControlInv'
<1>0. /\ TypeOK /\ LocalsInv /\ DownInv /\ FilesInv /\ CopiesInv
      /\ FreshInv /\ QueuedInv /\ SettleInv /\ FinishInv /\ AheadInv
      /\ StartingInv /\ RevokingInv
      /\ AnchorRestorable /\ AnswersHold /\ TrustedNotRevoked
  BY DEF ControlInv
<1>1. UNCHANGED <<disk, witness, handle, provider, view, anchor, state, told>>
  BY DEF Attempt, entered, unused, files, memory
<1>2. /\ state.run = "up"
      /\ call[t].at = "idle"
      /\ "attempt" \in Kinds
  BY <1>0 DEF Attempt, entered, unused, free
<1>3. TypeOK'
  BY <1>0, AttemptTypes
<1>4. /\ \A u \in Calls : u # t => call'[u] = call[u]
      /\ call'[t].at = "prepare"
      /\ call'[t].kind = "attempt"
      /\ call'[t].part = 1
      /\ call'[t].working = view
      /\ call'[t].selected = view
      /\ call'[t].anchor = anchor
      /\ call'[t].pending = None
      /\ call'[t].outcome = None
      /\ call'[t].job = "none"
      /\ call'[t].result = None
  BY <1>0, AttemptFields
<1>6. \A u \in Calls : call[u].job = "queued" =>
        /\ call[u].pending # None /\ call[u].at = "commit"
        /\ call[u].pending.id = <<u, call[u].part>>
  BY <1>0, QueuedPending
<1>20. LocalsInv'
  BY <1>0, <1>1, <1>2, <1>3, <1>4, Present DEF LocalsInv, quiet, early,
         settling
<1>21. DownInv'
  BY <1>0, <1>1, <1>2, <1>3, <1>4 DEF DownInv, quiet
<1>22. FilesInv'
  BY <1>0, <1>1, <1>2, <1>3, <1>4 DEF FilesInv
<1>23. CopiesInv'
  BY <1>0, <1>1, <1>2, <1>3, <1>4 DEF CopiesInv, quiet, early
<1>24. FreshInv'
  <2>1. ASSUME NEW k \in {1, 2}, notYet(t, k)'
        PROVE  notYet(t, k)
    BY <1>0, <1>2, <1>4, <2>1 DEF notYet, early
  <2>2. /\ call'[t].anchor.pending \in {None, anchor.pending, call[t].anchor.pending}
        /\ \/ call'[t].pending \in {None, anchor.pending, call[t].pending}
           \/ call'[t].pending.id = <<t, call[t].part>>
    BY <1>4 DEF publication
  <2> QED BY <1>0, <1>1, <1>2, <1>4, <2>1, <2>2, FreshKept
<1>25. QueuedInv'
  BY <1>0, <1>1, <1>2, <1>3, <1>4, <1>6, Present DEF QueuedInv
<1>26. SettleInv'
  BY <1>0, <1>1, <1>2, <1>3, <1>4 DEF SettleInv
<1>27. FinishInv'
  BY <1>0, <1>1, <1>2, <1>3, <1>4 DEF FinishInv
<1>28. AheadInv'
  BY <1>0, <1>1, <1>2, <1>3, <1>4 DEF AheadInv, ahead, settling, early
<1>29. StartingInv'
  BY <1>0, <1>1, <1>2, <1>3, <1>4 DEF StartingInv, quiet
<1>30. RevokingInv'
  BY <1>0, <1>1, <1>2, <1>3, <1>4 DEF RevokingInv, early
<1>31. AnchorRestorable'
  BY <1>0, <1>1, <1>2, <1>3, <1>4 DEF AnchorRestorable
<1>32. AnswersHold'
  BY <1>0, <1>1, <1>2, <1>3, <1>4 DEF AnswersHold
<1>33. TrustedNotRevoked'
  BY <1>0, <1>1, <1>2, <1>3, <1>4 DEF TrustedNotRevoked
<1> QED BY <1>3, <1>20, <1>21, <1>22, <1>23, <1>24, <1>25, <1>26, <1>27,
           <1>28, <1>29, <1>30, <1>31, <1>32, <1>33
           DEF ControlInv

LEMMA StartPublishesKeeps ==
    ASSUME ObservationSound, ControlInv, NEW t \in Calls, StartPublishes(t)
    PROVE  ControlInv'
<1>0. /\ TypeOK /\ LocalsInv /\ DownInv /\ FilesInv /\ CopiesInv
      /\ FreshInv /\ QueuedInv /\ SettleInv /\ FinishInv /\ AheadInv
      /\ StartingInv /\ RevokingInv
      /\ AnchorRestorable /\ AnswersHold /\ TrustedNotRevoked
  BY DEF ControlInv
<1>1. UNCHANGED <<disk, witness, handle, provider, view, anchor, state, told>>
  BY DEF StartPublishes, entered, unused, files, memory
<1>2. /\ state.run = "starting"
      /\ \A u \in Calls : call[u].at \in quiet
      /\ call[t].at = "idle"
  BY <1>0 DEF StartPublishes, entered, unused, starting, quiet
<1>3. TypeOK'
  BY <1>0, StartPublishesTypes
<1>4. /\ \A u \in Calls : u # t => call'[u] = call[u]
      /\ call'[t].at = "prepare"
      /\ call'[t].kind \in {"release", "charge"}
      /\ call'[t].part = 1
      /\ call'[t].working = view
      /\ call'[t].selected = view
      /\ call'[t].anchor = anchor
      /\ call'[t].pending = None
      /\ call'[t].outcome = None
      /\ call'[t].job = "none"
      /\ call'[t].result = None
  BY <1>0, StartPublishesFields
<1>6. \A u \in Calls : call[u].job = "queued" =>
        /\ call[u].pending # None /\ call[u].at = "commit"
        /\ call[u].pending.id = <<u, call[u].part>>
  BY <1>0, QueuedPending
<1>20. LocalsInv'
  BY <1>0, <1>1, <1>2, <1>3, <1>4, Present DEF LocalsInv, quiet, early,
         settling
<1>21. DownInv'
  BY <1>0, <1>1, <1>2, <1>3, <1>4 DEF DownInv, quiet
<1>22. FilesInv'
  BY <1>0, <1>1, <1>2, <1>3, <1>4 DEF FilesInv
<1>23. CopiesInv'
  BY <1>0, <1>1, <1>2, <1>3, <1>4 DEF CopiesInv, quiet, early
<1>24. FreshInv'
  <2>1. ASSUME NEW k \in {1, 2}, notYet(t, k)'
        PROVE  notYet(t, k)
    BY <1>0, <1>2, <1>4, <2>1 DEF notYet, early
  <2>2. /\ call'[t].anchor.pending \in {None, anchor.pending, call[t].anchor.pending}
        /\ \/ call'[t].pending \in {None, anchor.pending, call[t].pending}
           \/ call'[t].pending.id = <<t, call[t].part>>
    BY <1>4 DEF publication
  <2> QED BY <1>0, <1>1, <1>2, <1>4, <2>1, <2>2, FreshKept
<1>25. QueuedInv'
  BY <1>0, <1>1, <1>2, <1>3, <1>4, <1>6, Present DEF QueuedInv
<1>26. SettleInv'
  BY <1>0, <1>1, <1>2, <1>3, <1>4 DEF SettleInv
<1>27. FinishInv'
  BY <1>0, <1>1, <1>2, <1>3, <1>4 DEF FinishInv
<1>28. AheadInv'
  BY <1>0, <1>1, <1>2, <1>3, <1>4 DEF AheadInv, ahead, settling, early
<1>29. StartingInv'
  BY <1>0, <1>1, <1>2, <1>3, <1>4 DEF StartingInv, quiet
<1>30. RevokingInv'
  BY <1>0, <1>1, <1>2, <1>3, <1>4 DEF RevokingInv, early
<1>31. AnchorRestorable'
  BY <1>0, <1>1, <1>2, <1>3, <1>4 DEF AnchorRestorable
<1>32. AnswersHold'
  BY <1>0, <1>1, <1>2, <1>3, <1>4 DEF AnswersHold
<1>33. TrustedNotRevoked'
  BY <1>0, <1>1, <1>2, <1>3, <1>4 DEF TrustedNotRevoked
<1> QED BY <1>3, <1>20, <1>21, <1>22, <1>23, <1>24, <1>25, <1>26, <1>27,
           <1>28, <1>29, <1>30, <1>31, <1>32, <1>33
           DEF ControlInv

LEMMA ConfirmFinishKeeps ==
    ASSUME ObservationSound, ControlInv, NEW t \in Calls, ConfirmFinish(t)
    PROVE  ControlInv'
<1>0. /\ TypeOK /\ LocalsInv /\ DownInv /\ FilesInv /\ CopiesInv
      /\ FreshInv /\ QueuedInv /\ SettleInv /\ FinishInv /\ AheadInv
      /\ StartingInv /\ RevokingInv
      /\ AnchorRestorable /\ AnswersHold /\ TrustedNotRevoked
  BY DEF ControlInv
<1>1. UNCHANGED <<disk, witness, handle, provider>>
  BY DEF ConfirmFinish, writesBack, files, memory
<1>2. /\ call[t].kind = "confirm"
      /\ call[t].at = "finish"
      /\ anchor' = call[t].anchor
      /\ \/ call[t].outcome = "durable" /\ view' = call[t].pending.target
         \/ call[t].outcome # "durable" /\ view' = view
      /\ told'.applied = told.applied
      /\ \/ told'.refused = told.refused
         \/ /\ call[t].outcome \in {"prepare_failed", "unchanged"}
            /\ told'.refused = told.refused \cup {<<t, call[t].part>>}
      /\ state'.run = state.run
      /\ state'.trusted = FALSE \/ state'.trusted = state.trusted
         \/ call[t].outcome = "durable"
  BY <1>0 DEF ConfirmFinish, writesBack, writesBack, after, becomes,
         quarantined, TypeOK
<1>3. TypeOK'
  BY <1>0, ConfirmFinishTypes
<1>4. /\ \A u \in Calls : u # t => call'[u] = call[u]
      /\ call'[t].at = "ended"
      /\ call'[t].kind = None
      /\ call'[t].part = 1
      /\ call'[t].pending = None
      /\ call'[t].anchor.pending = None
      /\ call'[t].job = call[t].job
      /\ call'[t].outcome = None
      /\ call'[t].result = None
  BY <1>0, ConfirmFinishFields, OverFields DEF overFields
<1>6. \A u \in Calls : call[u].job = "queued" =>
        /\ call[u].pending # None /\ call[u].at = "commit"
        /\ call[u].pending.id = <<u, call[u].part>>
  BY <1>0, QueuedPending
<1>7. call[t].outcome = "durable" =>
        /\ handle.gen = call[t].pending.target
        /\ \A u \in Calls : ahead(u) => u = t
        /\ \A u \in Calls : call[u].at \in early \/ call[u].job = "queued"
             => call[u].working.number < handle.gen.number
  BY <1>0, <1>2, FinishPoint
<1>20. LocalsInv'
  BY <1>0, <1>1, <1>2, <1>3, <1>4, Present DEF LocalsInv, quiet, early,
         settling
<1>21. DownInv'
  BY <1>0, <1>1, <1>2, <1>3, <1>4, Present DEF DownInv, quiet, LocalsInv
<1>22. FilesInv'
  BY <1>0, <1>1, <1>2, <1>3, <1>4, Present DEF FilesInv
<1>23. CopiesInv'
  <2>1. state.run # "down" => past(view', handle.gen)
    BY <1>0, <1>1, <1>2, <1>7 DEF CopiesInv, past
  <2>2. anchor'.highWater <= handle.gen.number
    BY <1>0, <1>1, <1>2, Running DEF CopiesInv, quiet
  <2>3. ASSUME NEW u \in Calls, call'[u].at \in early \/ call'[u].job = "queued"
        PROVE  call[u].at \in early \/ call[u].job = "queued"
    BY <1>0, <1>2, <1>4, <2>3 DEF early, LocalsInv
  <2>4. ASSUME NEW u \in Calls, state.run # "down"
        PROVE  /\ call'[u].at \in early \/ call'[u].job = "queued"
                    => past(call'[u].working, handle.gen)
               /\ call'[u].at \notin quiet
                    => call'[u].anchor.highWater <= handle.gen.number
               /\ call'[u].at = "stage" => call'[u].anchor.highWater
                                             <= call'[u].working.number
    <3>1. CASE u = t
      BY <1>0, <1>2, <1>4, <2>4, <3>1 DEF CopiesInv, quiet, early, LocalsInv
    <3>2. CASE u # t
      BY <1>0, <1>4, <2>4, <3>2 DEF CopiesInv
    <3> QED BY <3>1, <3>2
  <2> QED BY <1>1, <1>2, <2>1, <2>2, <2>4, <1>0, Running DEF CopiesInv, quiet
<1>24. FreshInv'
  <2>1. ASSUME NEW k \in {1, 2}, notYet(t, k)'
        PROVE  notYet(t, k)
    BY <1>0, <1>2, <1>4, <2>1 DEF notYet, early
  <2>2. /\ call'[t].anchor.pending \in {None, anchor.pending, call[t].anchor.pending}
        /\ \/ call'[t].pending \in {None, anchor.pending, call[t].pending}
           \/ call'[t].pending.id = <<t, call[t].part>>
    BY <1>4 DEF publication
  <2> QED BY <1>0, <1>1, <1>2, <1>4, <2>1, <2>2, FreshKept DEF notYet, early
<1>25. QueuedInv'
  BY <1>0, <1>1, <1>2, <1>3, <1>4, <1>6, Present DEF QueuedInv
<1>26. SettleInv'
  BY <1>0, <1>1, <1>2, <1>3, <1>4, Present DEF SettleInv
<1>27. FinishInv'
  BY <1>0, <1>1, <1>2, <1>3, <1>4, Present DEF FinishInv
<1>28. AheadInv'
  <2>1. ASSUME NEW u \in Calls, ahead(u)' PROVE u # t /\ ahead(u)
    BY <1>0, <1>2, <1>4, <2>1, Present DEF ahead, settling, LocalsInv
  <2>2. ASSUME NEW u \in Calls,
               call'[u].at \in early \/ call'[u].job = "queued"
        PROVE  /\ call'[u].working = call[u].working
               /\ call[u].at \in early \/ call[u].job = "queued"
    BY <1>0, <1>2, <1>4, <2>2 DEF early, LocalsInv
  <2> QED BY <1>0, <1>1, <1>2, <1>4, <1>7, <2>1, <2>2 DEF AheadInv
<1>29. StartingInv'
  BY <1>0, <1>1, <1>2, <1>3, <1>4, Present DEF StartingInv, quiet, LocalsInv
<1>30. RevokingInv'
  <2>1. ASSUME NEW u \in Calls, call'[u].kind = "revoke"
        PROVE  u # t
    BY <1>4, <2>1, Present
  <2>2. CASE call[t].outcome = "durable"
    BY <1>0, <1>1, <1>4, <1>7, <2>1, <2>2, Numbers DEF RevokingInv
  <2>3. CASE call[t].outcome # "durable"
    BY <1>0, <1>1, <1>2, <1>4, <2>1, <2>3 DEF RevokingInv
  <2> QED BY <2>2, <2>3
<1>31. AnchorRestorable'
  BY <1>0, <1>1, <1>2, <1>3, <1>4, Present DEF AnchorRestorable
<1>32. AnswersHold'
  <2>1. \/ told'.refused = told.refused
        \/ /\ told'.refused = told.refused \cup {<<t, call[t].part>>}
           /\ <<t, call[t].part>> \notin disk.seen.by \cup disk.safe.by
    BY <1>0, <1>2 DEF FinishInv
  <2> QED BY <1>0, <1>1, <1>2, <2>1 DEF AnswersHold
<1>33. TrustedNotRevoked'
  <2>1. CASE call[t].outcome = "durable"
    <3>1. /\ handle.gen = publication(t, call[t]).target
          /\ call[t].kind \in AllKinds /\ handle.gen = disk.safe
      BY <1>0, <1>2, <2>1, FinishPoint, Running DEF FilesInv, quiet
    <3>2. handle.gen.association = "trusted"
      BY <1>0, <1>2, <3>1, OwnPublication DEF associationAfter
    <3> QED BY <1>1, <3>1, <3>2 DEF TrustedNotRevoked, Tombstoned
  <2>2. CASE call[t].outcome # "durable"
    BY <1>0, <1>1, <1>2, <2>2 DEF TrustedNotRevoked
  <2> QED BY <2>1, <2>2
<1> QED BY <1>3, <1>20, <1>21, <1>22, <1>23, <1>24, <1>25, <1>26, <1>27,
           <1>28, <1>29, <1>30, <1>31, <1>32, <1>33
           DEF ControlInv

LEMMA ReceiptFinishKeeps ==
    ASSUME ObservationSound, ControlInv, NEW t \in Calls, ReceiptFinish(t)
    PROVE  ControlInv'
<1>0. /\ TypeOK /\ LocalsInv /\ DownInv /\ FilesInv /\ CopiesInv
      /\ FreshInv /\ QueuedInv /\ SettleInv /\ FinishInv /\ AheadInv
      /\ StartingInv /\ RevokingInv
      /\ AnchorRestorable /\ AnswersHold /\ TrustedNotRevoked
  BY DEF ControlInv
<1>1. UNCHANGED <<disk, witness, handle, provider>>
  BY DEF ReceiptFinish, writesBack, files, memory
<1>2. /\ call[t].kind = "revoke"
      /\ call[t].part = 2
      /\ call[t].at = "finish"
      /\ anchor' = call[t].anchor
      /\ \/ call[t].outcome = "durable" /\ view' = call[t].pending.target
         \/ call[t].outcome # "durable" /\ view' = view
      /\ told'.applied = told.applied
      /\ \/ told'.refused = told.refused
         \/ /\ call[t].outcome \in {"prepare_failed", "unchanged"}
            /\ told'.refused = told.refused \cup {<<t, call[t].part>>}
      /\ state'.run = state.run
      /\ state'.trusted = FALSE \/ state'.trusted = state.trusted
  BY <1>0 DEF ReceiptFinish, writesBack, writesBack, after, becomes,
         quarantined, TypeOK
<1>3. TypeOK'
  BY <1>0, ReceiptFinishTypes
<1>4. /\ \A u \in Calls : u # t => call'[u] = call[u]
      /\ call'[t].at = "ended"
      /\ call'[t].kind = None
      /\ call'[t].part = 1
      /\ call'[t].pending = None
      /\ call'[t].anchor.pending = None
      /\ call'[t].job = call[t].job
      /\ call'[t].outcome = None
      /\ call'[t].result = None
  BY <1>0, ReceiptFinishFields, OverFields DEF overFields
<1>6. \A u \in Calls : call[u].job = "queued" =>
        /\ call[u].pending # None /\ call[u].at = "commit"
        /\ call[u].pending.id = <<u, call[u].part>>
  BY <1>0, QueuedPending
<1>7. call[t].outcome = "durable" =>
        /\ handle.gen = call[t].pending.target
        /\ \A u \in Calls : ahead(u) => u = t
        /\ \A u \in Calls : call[u].at \in early \/ call[u].job = "queued"
             => call[u].working.number < handle.gen.number
  BY <1>0, <1>2, FinishPoint
<1>20. LocalsInv'
  BY <1>0, <1>1, <1>2, <1>3, <1>4, Present DEF LocalsInv, quiet, early,
         settling
<1>21. DownInv'
  BY <1>0, <1>1, <1>2, <1>3, <1>4, Present DEF DownInv, quiet, LocalsInv
<1>22. FilesInv'
  BY <1>0, <1>1, <1>2, <1>3, <1>4, Present DEF FilesInv
<1>23. CopiesInv'
  <2>1. state.run # "down" => past(view', handle.gen)
    BY <1>0, <1>1, <1>2, <1>7 DEF CopiesInv, past
  <2>2. anchor'.highWater <= handle.gen.number
    BY <1>0, <1>1, <1>2, Running DEF CopiesInv, quiet
  <2>3. ASSUME NEW u \in Calls, call'[u].at \in early \/ call'[u].job = "queued"
        PROVE  call[u].at \in early \/ call[u].job = "queued"
    BY <1>0, <1>2, <1>4, <2>3 DEF early, LocalsInv
  <2>4. ASSUME NEW u \in Calls, state.run # "down"
        PROVE  /\ call'[u].at \in early \/ call'[u].job = "queued"
                    => past(call'[u].working, handle.gen)
               /\ call'[u].at \notin quiet
                    => call'[u].anchor.highWater <= handle.gen.number
               /\ call'[u].at = "stage" => call'[u].anchor.highWater
                                             <= call'[u].working.number
    <3>1. CASE u = t
      BY <1>0, <1>2, <1>4, <2>4, <3>1 DEF CopiesInv, quiet, early, LocalsInv
    <3>2. CASE u # t
      BY <1>0, <1>4, <2>4, <3>2 DEF CopiesInv
    <3> QED BY <3>1, <3>2
  <2> QED BY <1>1, <1>2, <2>1, <2>2, <2>4, <1>0, Running DEF CopiesInv, quiet
<1>24. FreshInv'
  <2>1. ASSUME NEW k \in {1, 2}, notYet(t, k)'
        PROVE  notYet(t, k)
    BY <1>0, <1>2, <1>4, <2>1 DEF notYet, early
  <2>2. /\ call'[t].anchor.pending \in {None, anchor.pending, call[t].anchor.pending}
        /\ \/ call'[t].pending \in {None, anchor.pending, call[t].pending}
           \/ call'[t].pending.id = <<t, call[t].part>>
    BY <1>4 DEF publication
  <2> QED BY <1>0, <1>1, <1>2, <1>4, <2>1, <2>2, FreshKept DEF notYet, early
<1>25. QueuedInv'
  BY <1>0, <1>1, <1>2, <1>3, <1>4, <1>6, Present DEF QueuedInv
<1>26. SettleInv'
  BY <1>0, <1>1, <1>2, <1>3, <1>4, Present DEF SettleInv
<1>27. FinishInv'
  BY <1>0, <1>1, <1>2, <1>3, <1>4, Present DEF FinishInv
<1>28. AheadInv'
  <2>1. ASSUME NEW u \in Calls, ahead(u)' PROVE u # t /\ ahead(u)
    BY <1>0, <1>2, <1>4, <2>1, Present DEF ahead, settling, LocalsInv
  <2>2. ASSUME NEW u \in Calls,
               call'[u].at \in early \/ call'[u].job = "queued"
        PROVE  /\ call'[u].working = call[u].working
               /\ call[u].at \in early \/ call[u].job = "queued"
    BY <1>0, <1>2, <1>4, <2>2 DEF early, LocalsInv
  <2> QED BY <1>0, <1>1, <1>2, <1>4, <1>7, <2>1, <2>2 DEF AheadInv
<1>29. StartingInv'
  BY <1>0, <1>1, <1>2, <1>3, <1>4, Present DEF StartingInv, quiet, LocalsInv
<1>30. RevokingInv'
  BY <1>0, <1>1, <1>2, <1>3, <1>4, Present DEF RevokingInv, early
<1>31. AnchorRestorable'
  BY <1>0, <1>1, <1>2, <1>3, <1>4, Present DEF AnchorRestorable
<1>32. AnswersHold'
  <2>1. \/ told'.refused = told.refused
        \/ /\ told'.refused = told.refused \cup {<<t, call[t].part>>}
           /\ <<t, call[t].part>> \notin disk.seen.by \cup disk.safe.by
    BY <1>0, <1>2 DEF FinishInv
  <2> QED BY <1>0, <1>1, <1>2, <2>1 DEF AnswersHold
<1>33. TrustedNotRevoked'
  BY <1>0, <1>1, <1>2, <1>3, <1>4, Present DEF TrustedNotRevoked
<1> QED BY <1>3, <1>20, <1>21, <1>22, <1>23, <1>24, <1>25, <1>26, <1>27,
           <1>28, <1>29, <1>30, <1>31, <1>32, <1>33
           DEF ControlInv

LEMMA RepairFinishKeeps ==
    ASSUME ObservationSound, ControlInv, NEW t \in Calls, RepairFinish(t)
    PROVE  ControlInv'
<1>0. /\ TypeOK /\ LocalsInv /\ DownInv /\ FilesInv /\ CopiesInv
      /\ FreshInv /\ QueuedInv /\ SettleInv /\ FinishInv /\ AheadInv
      /\ StartingInv /\ RevokingInv
      /\ AnchorRestorable /\ AnswersHold /\ TrustedNotRevoked
  BY DEF ControlInv
<1>1. UNCHANGED <<disk, witness, handle, provider>>
  BY DEF RepairFinish, writesBack, files, memory
<1>2. /\ call[t].kind = "repair"
      /\ call[t].at = "finish"
      /\ anchor' = call[t].anchor
      /\ \/ call[t].outcome = "durable" /\ view' = call[t].pending.target
         \/ call[t].outcome # "durable" /\ view' = view
      /\ told'.applied = told.applied
      /\ \/ told'.refused = told.refused
         \/ /\ call[t].outcome \in {"prepare_failed", "unchanged"}
            /\ told'.refused = told.refused \cup {<<t, call[t].part>>}
      /\ state'.run = state.run
      /\ state'.trusted = FALSE \/ state'.trusted = state.trusted
  BY <1>0 DEF RepairFinish, writesBack, writesBack, after, becomes,
         quarantined, TypeOK
<1>3. TypeOK'
  BY <1>0, RepairFinishTypes
<1>4. /\ \A u \in Calls : u # t => call'[u] = call[u]
      /\ call'[t].at = "ended"
      /\ call'[t].kind = None
      /\ call'[t].part = 1
      /\ call'[t].pending = None
      /\ call'[t].anchor.pending = None
      /\ call'[t].job = call[t].job
      /\ call'[t].outcome = None
      /\ call'[t].result = None
  BY <1>0, RepairFinishFields, OverFields DEF overFields
<1>6. \A u \in Calls : call[u].job = "queued" =>
        /\ call[u].pending # None /\ call[u].at = "commit"
        /\ call[u].pending.id = <<u, call[u].part>>
  BY <1>0, QueuedPending
<1>7. call[t].outcome = "durable" =>
        /\ handle.gen = call[t].pending.target
        /\ \A u \in Calls : ahead(u) => u = t
        /\ \A u \in Calls : call[u].at \in early \/ call[u].job = "queued"
             => call[u].working.number < handle.gen.number
  BY <1>0, <1>2, FinishPoint
<1>20. LocalsInv'
  BY <1>0, <1>1, <1>2, <1>3, <1>4, Present DEF LocalsInv, quiet, early,
         settling
<1>21. DownInv'
  BY <1>0, <1>1, <1>2, <1>3, <1>4, Present DEF DownInv, quiet, LocalsInv
<1>22. FilesInv'
  BY <1>0, <1>1, <1>2, <1>3, <1>4, Present DEF FilesInv
<1>23. CopiesInv'
  <2>1. state.run # "down" => past(view', handle.gen)
    BY <1>0, <1>1, <1>2, <1>7 DEF CopiesInv, past
  <2>2. anchor'.highWater <= handle.gen.number
    BY <1>0, <1>1, <1>2, Running DEF CopiesInv, quiet
  <2>3. ASSUME NEW u \in Calls, call'[u].at \in early \/ call'[u].job = "queued"
        PROVE  call[u].at \in early \/ call[u].job = "queued"
    BY <1>0, <1>2, <1>4, <2>3 DEF early, LocalsInv
  <2>4. ASSUME NEW u \in Calls, state.run # "down"
        PROVE  /\ call'[u].at \in early \/ call'[u].job = "queued"
                    => past(call'[u].working, handle.gen)
               /\ call'[u].at \notin quiet
                    => call'[u].anchor.highWater <= handle.gen.number
               /\ call'[u].at = "stage" => call'[u].anchor.highWater
                                             <= call'[u].working.number
    <3>1. CASE u = t
      BY <1>0, <1>2, <1>4, <2>4, <3>1 DEF CopiesInv, quiet, early, LocalsInv
    <3>2. CASE u # t
      BY <1>0, <1>4, <2>4, <3>2 DEF CopiesInv
    <3> QED BY <3>1, <3>2
  <2> QED BY <1>1, <1>2, <2>1, <2>2, <2>4, <1>0, Running DEF CopiesInv, quiet
<1>24. FreshInv'
  <2>1. ASSUME NEW k \in {1, 2}, notYet(t, k)'
        PROVE  notYet(t, k)
    BY <1>0, <1>2, <1>4, <2>1 DEF notYet, early
  <2>2. /\ call'[t].anchor.pending \in {None, anchor.pending, call[t].anchor.pending}
        /\ \/ call'[t].pending \in {None, anchor.pending, call[t].pending}
           \/ call'[t].pending.id = <<t, call[t].part>>
    BY <1>4 DEF publication
  <2> QED BY <1>0, <1>1, <1>2, <1>4, <2>1, <2>2, FreshKept DEF notYet, early
<1>25. QueuedInv'
  BY <1>0, <1>1, <1>2, <1>3, <1>4, <1>6, Present DEF QueuedInv
<1>26. SettleInv'
  BY <1>0, <1>1, <1>2, <1>3, <1>4, Present DEF SettleInv
<1>27. FinishInv'
  BY <1>0, <1>1, <1>2, <1>3, <1>4, Present DEF FinishInv
<1>28. AheadInv'
  <2>1. ASSUME NEW u \in Calls, ahead(u)' PROVE u # t /\ ahead(u)
    BY <1>0, <1>2, <1>4, <2>1, Present DEF ahead, settling, LocalsInv
  <2>2. ASSUME NEW u \in Calls,
               call'[u].at \in early \/ call'[u].job = "queued"
        PROVE  /\ call'[u].working = call[u].working
               /\ call[u].at \in early \/ call[u].job = "queued"
    BY <1>0, <1>2, <1>4, <2>2 DEF early, LocalsInv
  <2> QED BY <1>0, <1>1, <1>2, <1>4, <1>7, <2>1, <2>2 DEF AheadInv
<1>29. StartingInv'
  BY <1>0, <1>1, <1>2, <1>3, <1>4, Present DEF StartingInv, quiet, LocalsInv
<1>30. RevokingInv'
  BY <1>0, <1>1, <1>2, <1>3, <1>4, Present DEF RevokingInv, early
<1>31. AnchorRestorable'
  BY <1>0, <1>1, <1>2, <1>3, <1>4, Present DEF AnchorRestorable
<1>32. AnswersHold'
  <2>1. \/ told'.refused = told.refused
        \/ /\ told'.refused = told.refused \cup {<<t, call[t].part>>}
           /\ <<t, call[t].part>> \notin disk.seen.by \cup disk.safe.by
    BY <1>0, <1>2 DEF FinishInv
  <2> QED BY <1>0, <1>1, <1>2, <2>1 DEF AnswersHold
<1>33. TrustedNotRevoked'
  BY <1>0, <1>1, <1>2, <1>3, <1>4, Present DEF TrustedNotRevoked
<1> QED BY <1>3, <1>20, <1>21, <1>22, <1>23, <1>24, <1>25, <1>26, <1>27,
           <1>28, <1>29, <1>30, <1>31, <1>32, <1>33
           DEF ControlInv

LEMMA RetryFinishKeeps ==
    ASSUME ObservationSound, ControlInv, NEW t \in Calls, RetryFinish(t)
    PROVE  ControlInv'
<1>0. /\ TypeOK /\ LocalsInv /\ DownInv /\ FilesInv /\ CopiesInv
      /\ FreshInv /\ QueuedInv /\ SettleInv /\ FinishInv /\ AheadInv
      /\ StartingInv /\ RevokingInv
      /\ AnchorRestorable /\ AnswersHold /\ TrustedNotRevoked
  BY DEF ControlInv
<1>1. UNCHANGED <<disk, witness, handle, provider>>
  BY DEF RetryFinish, writesBack, files, memory
<1>2. /\ call[t].kind = "retry"
      /\ call[t].at = "finish"
      /\ anchor' = call[t].anchor
      /\ \/ call[t].outcome = "durable" /\ view' = call[t].pending.target
         \/ call[t].outcome # "durable" /\ view' = view
      /\ told'.applied = told.applied
      /\ \/ told'.refused = told.refused
         \/ /\ call[t].outcome \in {"prepare_failed", "unchanged"}
            /\ told'.refused = told.refused \cup {<<t, call[t].part>>}
      /\ state'.run = state.run
      /\ state'.trusted = FALSE \/ state'.trusted = state.trusted
  BY <1>0 DEF RetryFinish, writesBack, writesBack, after, becomes,
         quarantined, TypeOK
<1>3. TypeOK'
  BY <1>0, RetryFinishTypes
<1>4. /\ \A u \in Calls : u # t => call'[u] = call[u]
      /\ call'[t].at = "ended"
      /\ call'[t].kind = None
      /\ call'[t].part = 1
      /\ call'[t].pending = None
      /\ call'[t].anchor.pending = None
      /\ call'[t].job = call[t].job
      /\ call'[t].outcome = None
      /\ call'[t].result = None
  BY <1>0, RetryFinishFields, OverFields DEF overFields
<1>6. \A u \in Calls : call[u].job = "queued" =>
        /\ call[u].pending # None /\ call[u].at = "commit"
        /\ call[u].pending.id = <<u, call[u].part>>
  BY <1>0, QueuedPending
<1>7. call[t].outcome = "durable" =>
        /\ handle.gen = call[t].pending.target
        /\ \A u \in Calls : ahead(u) => u = t
        /\ \A u \in Calls : call[u].at \in early \/ call[u].job = "queued"
             => call[u].working.number < handle.gen.number
  BY <1>0, <1>2, FinishPoint
<1>20. LocalsInv'
  BY <1>0, <1>1, <1>2, <1>3, <1>4, Present DEF LocalsInv, quiet, early,
         settling
<1>21. DownInv'
  BY <1>0, <1>1, <1>2, <1>3, <1>4, Present DEF DownInv, quiet, LocalsInv
<1>22. FilesInv'
  BY <1>0, <1>1, <1>2, <1>3, <1>4, Present DEF FilesInv
<1>23. CopiesInv'
  <2>1. state.run # "down" => past(view', handle.gen)
    BY <1>0, <1>1, <1>2, <1>7 DEF CopiesInv, past
  <2>2. anchor'.highWater <= handle.gen.number
    BY <1>0, <1>1, <1>2, Running DEF CopiesInv, quiet
  <2>3. ASSUME NEW u \in Calls, call'[u].at \in early \/ call'[u].job = "queued"
        PROVE  call[u].at \in early \/ call[u].job = "queued"
    BY <1>0, <1>2, <1>4, <2>3 DEF early, LocalsInv
  <2>4. ASSUME NEW u \in Calls, state.run # "down"
        PROVE  /\ call'[u].at \in early \/ call'[u].job = "queued"
                    => past(call'[u].working, handle.gen)
               /\ call'[u].at \notin quiet
                    => call'[u].anchor.highWater <= handle.gen.number
               /\ call'[u].at = "stage" => call'[u].anchor.highWater
                                             <= call'[u].working.number
    <3>1. CASE u = t
      BY <1>0, <1>2, <1>4, <2>4, <3>1 DEF CopiesInv, quiet, early, LocalsInv
    <3>2. CASE u # t
      BY <1>0, <1>4, <2>4, <3>2 DEF CopiesInv
    <3> QED BY <3>1, <3>2
  <2> QED BY <1>1, <1>2, <2>1, <2>2, <2>4, <1>0, Running DEF CopiesInv, quiet
<1>24. FreshInv'
  <2>1. ASSUME NEW k \in {1, 2}, notYet(t, k)'
        PROVE  notYet(t, k)
    BY <1>0, <1>2, <1>4, <2>1 DEF notYet, early
  <2>2. /\ call'[t].anchor.pending \in {None, anchor.pending, call[t].anchor.pending}
        /\ \/ call'[t].pending \in {None, anchor.pending, call[t].pending}
           \/ call'[t].pending.id = <<t, call[t].part>>
    BY <1>4 DEF publication
  <2> QED BY <1>0, <1>1, <1>2, <1>4, <2>1, <2>2, FreshKept DEF notYet, early
<1>25. QueuedInv'
  BY <1>0, <1>1, <1>2, <1>3, <1>4, <1>6, Present DEF QueuedInv
<1>26. SettleInv'
  BY <1>0, <1>1, <1>2, <1>3, <1>4, Present DEF SettleInv
<1>27. FinishInv'
  BY <1>0, <1>1, <1>2, <1>3, <1>4, Present DEF FinishInv
<1>28. AheadInv'
  <2>1. ASSUME NEW u \in Calls, ahead(u)' PROVE u # t /\ ahead(u)
    BY <1>0, <1>2, <1>4, <2>1, Present DEF ahead, settling, LocalsInv
  <2>2. ASSUME NEW u \in Calls,
               call'[u].at \in early \/ call'[u].job = "queued"
        PROVE  /\ call'[u].working = call[u].working
               /\ call[u].at \in early \/ call[u].job = "queued"
    BY <1>0, <1>2, <1>4, <2>2 DEF early, LocalsInv
  <2> QED BY <1>0, <1>1, <1>2, <1>4, <1>7, <2>1, <2>2 DEF AheadInv
<1>29. StartingInv'
  BY <1>0, <1>1, <1>2, <1>3, <1>4, Present DEF StartingInv, quiet, LocalsInv
<1>30. RevokingInv'
  BY <1>0, <1>1, <1>2, <1>3, <1>4, Present DEF RevokingInv, early
<1>31. AnchorRestorable'
  BY <1>0, <1>1, <1>2, <1>3, <1>4, Present DEF AnchorRestorable
<1>32. AnswersHold'
  <2>1. \/ told'.refused = told.refused
        \/ /\ told'.refused = told.refused \cup {<<t, call[t].part>>}
           /\ <<t, call[t].part>> \notin disk.seen.by \cup disk.safe.by
    BY <1>0, <1>2 DEF FinishInv
  <2> QED BY <1>0, <1>1, <1>2, <2>1 DEF AnswersHold
<1>33. TrustedNotRevoked'
  BY <1>0, <1>1, <1>2, <1>3, <1>4, Present DEF TrustedNotRevoked
<1> QED BY <1>3, <1>20, <1>21, <1>22, <1>23, <1>24, <1>25, <1>26, <1>27,
           <1>28, <1>29, <1>30, <1>31, <1>32, <1>33
           DEF ControlInv

LEMMA AttemptFinishKeeps ==
    ASSUME ObservationSound, ControlInv, NEW t \in Calls, AttemptFinish(t)
    PROVE  ControlInv'
<1>0. /\ TypeOK /\ LocalsInv /\ DownInv /\ FilesInv /\ CopiesInv
      /\ FreshInv /\ QueuedInv /\ SettleInv /\ FinishInv /\ AheadInv
      /\ StartingInv /\ RevokingInv
      /\ AnchorRestorable /\ AnswersHold /\ TrustedNotRevoked
  BY DEF ControlInv
<1>1. UNCHANGED <<disk, witness, handle, provider>>
  BY DEF AttemptFinish, writesBack, files, memory
<1>2. /\ call[t].kind \in {"attempt_prepare", "attempt"}
      /\ call[t].at = "finish"
      /\ anchor' = call[t].anchor
      /\ \/ call[t].outcome = "durable" /\ view' = call[t].pending.target
         \/ call[t].outcome # "durable" /\ view' = view
      /\ told'.applied = told.applied
      /\ \/ told'.refused = told.refused
         \/ /\ call[t].outcome \in {"prepare_failed", "unchanged"}
            /\ told'.refused = told.refused \cup {<<t, call[t].part>>}
      /\ state'.run = state.run
      /\ state'.trusted = FALSE \/ state'.trusted = state.trusted
  BY <1>0 DEF AttemptFinish, writesBack, writesBack, after, becomes,
         quarantined, TypeOK
<1>3. TypeOK'
  BY <1>0, AttemptFinishTypes
<1>4. /\ \A u \in Calls : u # t => call'[u] = call[u]
      /\ call'[t].at = "ended"
      /\ call'[t].kind = None
      /\ call'[t].part = 1
      /\ call'[t].pending = None
      /\ call'[t].anchor.pending = None
      /\ call'[t].job = call[t].job
      /\ call'[t].outcome = None
      /\ call'[t].result = None
  BY <1>0, AttemptFinishFields, OverFields DEF overFields
<1>6. \A u \in Calls : call[u].job = "queued" =>
        /\ call[u].pending # None /\ call[u].at = "commit"
        /\ call[u].pending.id = <<u, call[u].part>>
  BY <1>0, QueuedPending
<1>7. call[t].outcome = "durable" =>
        /\ handle.gen = call[t].pending.target
        /\ \A u \in Calls : ahead(u) => u = t
        /\ \A u \in Calls : call[u].at \in early \/ call[u].job = "queued"
             => call[u].working.number < handle.gen.number
  BY <1>0, <1>2, FinishPoint
<1>20. LocalsInv'
  BY <1>0, <1>1, <1>2, <1>3, <1>4, Present DEF LocalsInv, quiet, early,
         settling
<1>21. DownInv'
  BY <1>0, <1>1, <1>2, <1>3, <1>4, Present DEF DownInv, quiet, LocalsInv
<1>22. FilesInv'
  BY <1>0, <1>1, <1>2, <1>3, <1>4, Present DEF FilesInv
<1>23. CopiesInv'
  <2>1. state.run # "down" => past(view', handle.gen)
    BY <1>0, <1>1, <1>2, <1>7 DEF CopiesInv, past
  <2>2. anchor'.highWater <= handle.gen.number
    BY <1>0, <1>1, <1>2, Running DEF CopiesInv, quiet
  <2>3. ASSUME NEW u \in Calls, call'[u].at \in early \/ call'[u].job = "queued"
        PROVE  call[u].at \in early \/ call[u].job = "queued"
    BY <1>0, <1>2, <1>4, <2>3 DEF early, LocalsInv
  <2>4. ASSUME NEW u \in Calls, state.run # "down"
        PROVE  /\ call'[u].at \in early \/ call'[u].job = "queued"
                    => past(call'[u].working, handle.gen)
               /\ call'[u].at \notin quiet
                    => call'[u].anchor.highWater <= handle.gen.number
               /\ call'[u].at = "stage" => call'[u].anchor.highWater
                                             <= call'[u].working.number
    <3>1. CASE u = t
      BY <1>0, <1>2, <1>4, <2>4, <3>1 DEF CopiesInv, quiet, early, LocalsInv
    <3>2. CASE u # t
      BY <1>0, <1>4, <2>4, <3>2 DEF CopiesInv
    <3> QED BY <3>1, <3>2
  <2> QED BY <1>1, <1>2, <2>1, <2>2, <2>4, <1>0, Running DEF CopiesInv, quiet
<1>24. FreshInv'
  <2>1. ASSUME NEW k \in {1, 2}, notYet(t, k)'
        PROVE  notYet(t, k)
    BY <1>0, <1>2, <1>4, <2>1 DEF notYet, early
  <2>2. /\ call'[t].anchor.pending \in {None, anchor.pending, call[t].anchor.pending}
        /\ \/ call'[t].pending \in {None, anchor.pending, call[t].pending}
           \/ call'[t].pending.id = <<t, call[t].part>>
    BY <1>4 DEF publication
  <2> QED BY <1>0, <1>1, <1>2, <1>4, <2>1, <2>2, FreshKept DEF notYet, early
<1>25. QueuedInv'
  BY <1>0, <1>1, <1>2, <1>3, <1>4, <1>6, Present DEF QueuedInv
<1>26. SettleInv'
  BY <1>0, <1>1, <1>2, <1>3, <1>4, Present DEF SettleInv
<1>27. FinishInv'
  BY <1>0, <1>1, <1>2, <1>3, <1>4, Present DEF FinishInv
<1>28. AheadInv'
  <2>1. ASSUME NEW u \in Calls, ahead(u)' PROVE u # t /\ ahead(u)
    BY <1>0, <1>2, <1>4, <2>1, Present DEF ahead, settling, LocalsInv
  <2>2. ASSUME NEW u \in Calls,
               call'[u].at \in early \/ call'[u].job = "queued"
        PROVE  /\ call'[u].working = call[u].working
               /\ call[u].at \in early \/ call[u].job = "queued"
    BY <1>0, <1>2, <1>4, <2>2 DEF early, LocalsInv
  <2> QED BY <1>0, <1>1, <1>2, <1>4, <1>7, <2>1, <2>2 DEF AheadInv
<1>29. StartingInv'
  BY <1>0, <1>1, <1>2, <1>3, <1>4, Present DEF StartingInv, quiet, LocalsInv
<1>30. RevokingInv'
  BY <1>0, <1>1, <1>2, <1>3, <1>4, Present DEF RevokingInv, early
<1>31. AnchorRestorable'
  BY <1>0, <1>1, <1>2, <1>3, <1>4, Present DEF AnchorRestorable
<1>32. AnswersHold'
  <2>1. \/ told'.refused = told.refused
        \/ /\ told'.refused = told.refused \cup {<<t, call[t].part>>}
           /\ <<t, call[t].part>> \notin disk.seen.by \cup disk.safe.by
    BY <1>0, <1>2 DEF FinishInv
  <2> QED BY <1>0, <1>1, <1>2, <2>1 DEF AnswersHold
<1>33. TrustedNotRevoked'
  BY <1>0, <1>1, <1>2, <1>3, <1>4, Present DEF TrustedNotRevoked
<1> QED BY <1>3, <1>20, <1>21, <1>22, <1>23, <1>24, <1>25, <1>26, <1>27,
           <1>28, <1>29, <1>30, <1>31, <1>32, <1>33
           DEF ControlInv

LEMMA StartFinishKeeps ==
    ASSUME ObservationSound, ControlInv, NEW t \in Calls, StartFinish(t)
    PROVE  ControlInv'
<1>0. /\ TypeOK /\ LocalsInv /\ DownInv /\ FilesInv /\ CopiesInv
      /\ FreshInv /\ QueuedInv /\ SettleInv /\ FinishInv /\ AheadInv
      /\ StartingInv /\ RevokingInv
      /\ AnchorRestorable /\ AnswersHold /\ TrustedNotRevoked
  BY DEF ControlInv
<1>1. UNCHANGED <<disk, witness, handle, provider>>
  BY DEF StartFinish, writesBack, files, memory
<1>2. /\ call[t].kind \in {"release", "charge"}
      /\ call[t].at = "finish"
      /\ anchor' = call[t].anchor
      /\ \/ call[t].outcome = "durable" /\ view' = call[t].pending.target
         \/ call[t].outcome # "durable" /\ view' = view
      /\ told'.applied = told.applied
      /\ \/ told'.refused = told.refused
         \/ /\ call[t].outcome \in {"prepare_failed", "unchanged"}
            /\ told'.refused = told.refused \cup {<<t, call[t].part>>}
      /\ state'.run = "up"
      /\ state'.trusted => view'.association = "trusted"
  <2>1. /\ call[t].kind \in {"release", "charge"} /\ call[t].at = "finish"
        /\ anchor' = call[t].anchor
        /\ \/ call[t].outcome = "durable" /\ view' = call[t].pending.target
           \/ call[t].outcome # "durable" /\ view' = view
        /\ told'.applied = told.applied
        /\ \/ told'.refused = told.refused
           \/ /\ call[t].outcome \in {"prepare_failed", "unchanged"}
              /\ told'.refused = told.refused \cup {<<t, call[t].part>>}
    BY <1>0 DEF StartFinish, writesBack, after, TypeOK
  <2>2. CASE classified(view', anchor')
    <3>1. PICK r \in classify(view', anchor') :
            state' = [run |-> "up", recovery |-> r,
                      trusted |-> r = "PAIRED_TRUSTED"]
      BY <2>2 DEF classified
    <3>2. state'.run = "up" /\ state'.trusted = (r = "PAIRED_TRUSTED")
      BY <3>1
    <3>3. r = "PAIRED_TRUSTED" => view'.association = "trusted"
      BY <3>1 DEF classify
    <3> QED BY <2>1, <3>2, <3>3
  <2>3. CASE state' = [run |-> "up", recovery |-> "QUARANTINED",
                       trusted |-> FALSE]
    BY <2>1, <2>3
  <2> QED BY <2>2, <2>3 DEF StartFinish
<1>3. TypeOK'
  BY <1>0, StartFinishTypes
<1>4. /\ \A u \in Calls : u # t => call'[u] = call[u]
      /\ call'[t].at = "ended"
      /\ call'[t].kind = None
      /\ call'[t].part = 1
      /\ call'[t].pending = None
      /\ call'[t].anchor.pending = None
      /\ call'[t].job = call[t].job
      /\ call'[t].outcome = None
      /\ call'[t].result = None
  BY <1>0, StartFinishFields, OverFields DEF overFields
<1>6. \A u \in Calls : call[u].job = "queued" =>
        /\ call[u].pending # None /\ call[u].at = "commit"
        /\ call[u].pending.id = <<u, call[u].part>>
  BY <1>0, QueuedPending
<1>7. call[t].outcome = "durable" =>
        /\ handle.gen = call[t].pending.target
        /\ \A u \in Calls : ahead(u) => u = t
        /\ \A u \in Calls : call[u].at \in early \/ call[u].job = "queued"
             => call[u].working.number < handle.gen.number
  BY <1>0, <1>2, FinishPoint
<1>8. /\ state.run = "starting" /\ handle.gen = disk.safe
      /\ view'.association = disk.safe.association
      /\ \A u \in Calls : u # t => call[u].at \in quiet
  <2>1. /\ state.run = "starting" /\ view.association = disk.safe.association
        /\ \A u \in Calls : u # t => call[u].at \in quiet
    BY <1>0, <1>2 DEF StartingInv, quiet
  <2>2. handle.gen = disk.safe
    BY <1>0, <2>1 DEF FilesInv
  <2> QED BY <1>2, <1>7, <2>1, <2>2
<1>20. LocalsInv'
  BY <1>0, <1>1, <1>2, <1>3, <1>4, Present DEF LocalsInv, quiet, early,
         settling
<1>21. DownInv'
  BY <1>0, <1>1, <1>2, <1>3, <1>4, Present DEF DownInv, quiet, LocalsInv
<1>22. FilesInv'
  BY <1>0, <1>1, <1>2, <1>8 DEF FilesInv
<1>23. CopiesInv'
  <2>1. state.run # "down" => past(view', handle.gen)
    BY <1>0, <1>1, <1>2, <1>7 DEF CopiesInv, past
  <2>2. anchor'.highWater <= handle.gen.number
    BY <1>0, <1>1, <1>2, Running DEF CopiesInv, quiet
  <2>3. ASSUME NEW u \in Calls, call'[u].at \in early \/ call'[u].job = "queued"
        PROVE  call[u].at \in early \/ call[u].job = "queued"
    BY <1>0, <1>2, <1>4, <2>3 DEF early, LocalsInv
  <2>4. ASSUME NEW u \in Calls, state.run # "down"
        PROVE  /\ call'[u].at \in early \/ call'[u].job = "queued"
                    => past(call'[u].working, handle.gen)
               /\ call'[u].at \notin quiet
                    => call'[u].anchor.highWater <= handle.gen.number
               /\ call'[u].at = "stage" => call'[u].anchor.highWater
                                             <= call'[u].working.number
    <3>1. CASE u = t
      BY <1>0, <1>2, <1>4, <2>4, <3>1 DEF CopiesInv, quiet, early, LocalsInv
    <3>2. CASE u # t
      BY <1>0, <1>4, <2>4, <3>2 DEF CopiesInv
    <3> QED BY <3>1, <3>2
  <2> QED BY <1>1, <1>2, <2>1, <2>2, <2>4, <1>0, Running DEF CopiesInv, quiet
<1>24. FreshInv'
  <2>1. ASSUME NEW k \in {1, 2}, notYet(t, k)'
        PROVE  notYet(t, k)
    BY <1>0, <1>2, <1>4, <2>1 DEF notYet, early
  <2>2. /\ call'[t].anchor.pending \in {None, anchor.pending, call[t].anchor.pending}
        /\ \/ call'[t].pending \in {None, anchor.pending, call[t].pending}
           \/ call'[t].pending.id = <<t, call[t].part>>
    BY <1>4 DEF publication
  <2> QED BY <1>0, <1>1, <1>2, <1>4, <2>1, <2>2, FreshKept DEF notYet, early
<1>25. QueuedInv'
  BY <1>0, <1>1, <1>2, <1>3, <1>4, <1>6, Present DEF QueuedInv
<1>26. SettleInv'
  BY <1>0, <1>1, <1>2, <1>3, <1>4, Present DEF SettleInv
<1>27. FinishInv'
  BY <1>0, <1>1, <1>2, <1>3, <1>4, Present DEF FinishInv
<1>28. AheadInv'
  <2>1. ASSUME NEW u \in Calls, ahead(u)' PROVE u # t /\ ahead(u)
    BY <1>0, <1>2, <1>4, <2>1, Present DEF ahead, settling, LocalsInv
  <2>2. ASSUME NEW u \in Calls,
               call'[u].at \in early \/ call'[u].job = "queued"
        PROVE  /\ call'[u].working = call[u].working
               /\ call[u].at \in early \/ call[u].job = "queued"
    BY <1>0, <1>2, <1>4, <2>2 DEF early, LocalsInv
  <2> QED BY <1>0, <1>1, <1>2, <1>4, <1>7, <2>1, <2>2 DEF AheadInv
<1>29. StartingInv'
  BY <1>0, <1>1, <1>2, <1>3, <1>4, Present DEF StartingInv, quiet, LocalsInv
<1>30. RevokingInv'
  <2>1. \A u \in Calls : call'[u].at \in quiet /\ call'[u].kind # "revoke"
    BY <1>0, <1>2, <1>4, <1>8, Present DEF LocalsInv, quiet
  <2> QED BY <2>1 DEF RevokingInv
<1>31. AnchorRestorable'
  BY <1>0, <1>1, <1>2, <1>3, <1>4, Present DEF AnchorRestorable
<1>32. AnswersHold'
  <2>1. \/ told'.refused = told.refused
        \/ /\ told'.refused = told.refused \cup {<<t, call[t].part>>}
           /\ <<t, call[t].part>> \notin disk.seen.by \cup disk.safe.by
    BY <1>0, <1>2 DEF FinishInv
  <2> QED BY <1>0, <1>1, <1>2, <2>1 DEF AnswersHold
<1>33. TrustedNotRevoked'
  BY <1>1, <1>2, <1>8 DEF TrustedNotRevoked, Tombstoned
<1> QED BY <1>3, <1>20, <1>21, <1>22, <1>23, <1>24, <1>25, <1>26, <1>27,
           <1>28, <1>29, <1>30, <1>31, <1>32, <1>33
           DEF ControlInv

LEMMA RevokeFinishKeeps ==
    ASSUME ObservationSound, ControlInv, NEW t \in Calls, RevokeFinish(t)
    PROVE  ControlInv'
<1>0. /\ TypeOK /\ LocalsInv /\ DownInv /\ FilesInv /\ CopiesInv
      /\ FreshInv /\ QueuedInv /\ SettleInv /\ FinishInv /\ AheadInv
      /\ StartingInv /\ RevokingInv
      /\ AnchorRestorable /\ AnswersHold /\ TrustedNotRevoked
  BY DEF ControlInv
<1>1. UNCHANGED <<disk, witness, handle, provider>>
  BY DEF RevokeFinish, writesBack, files, memory
<1>2. /\ call[t].kind = "revoke"
      /\ call[t].part = 1
      /\ call[t].at = "finish"
      /\ anchor' = call[t].anchor
      /\ \/ call[t].outcome = "durable" /\ view' = call[t].pending.target
         \/ call[t].outcome # "durable" /\ view' = view
      /\ told'.applied = told.applied
      /\ \/ told'.refused = told.refused
         \/ /\ call[t].outcome \in {"prepare_failed", "unchanged"}
            /\ told'.refused = told.refused \cup {<<t, call[t].part>>}
      /\ state'.run = state.run
      /\ state'.trusted = FALSE \/ state'.trusted = state.trusted
  BY <1>0 DEF RevokeFinish, writesBack, writesBack, after, becomes,
         quarantined, TypeOK
<1>3. TypeOK'
  BY <1>0, RevokeFinishTypes
<1>4. /\ \A u \in Calls : u # t => call'[u] = call[u]
      /\ \/ overFields(call'[t], call[t]) /\ call[t].outcome # "durable"
         \/ /\ call'[t].at = "withdraw" /\ call[t].outcome = "durable"
            /\ call'[t].anchor = call[t].anchor /\ call'[t].pending = call[t].pending
            /\ call'[t].kind = call[t].kind /\ call'[t].part = call[t].part
            /\ call'[t].working = call[t].working /\ call'[t].job = call[t].job
            /\ call'[t].selected = call[t].selected
            /\ call'[t].outcome = call[t].outcome /\ call'[t].result = call[t].result
  BY <1>0, RevokeFinishFields, OverFields
<1>5. publication(t, call'[t]) = publication(t, call[t]) \/ call'[t].at = "ended"
  BY <1>4 DEF publication, overFields
<1>6. \A u \in Calls : call[u].job = "queued" =>
        /\ call[u].pending # None /\ call[u].at = "commit"
        /\ call[u].pending.id = <<u, call[u].part>>
  BY <1>0, QueuedPending
<1>7. call[t].outcome = "durable" =>
        /\ handle.gen = call[t].pending.target
        /\ \A u \in Calls : ahead(u) => u = t
        /\ \A u \in Calls : call[u].at \in early \/ call[u].job = "queued"
             => call[u].working.number < handle.gen.number
  BY <1>0, <1>2, FinishPoint
<1>20. LocalsInv'
  BY <1>0, <1>1, <1>2, <1>3, <1>4, <1>5, Present DEF LocalsInv, quiet, early,
         settling, overFields
<1>21. DownInv'
  BY <1>0, <1>1, <1>2, <1>3, <1>4, Present DEF DownInv, quiet, LocalsInv,
         overFields
<1>22. FilesInv'
  BY <1>0, <1>1, <1>2, <1>3, <1>4, Present DEF FilesInv, overFields
<1>23. CopiesInv'
  <2>1. state.run # "down" => past(view', handle.gen)
    BY <1>0, <1>1, <1>2, <1>7 DEF CopiesInv, past
  <2>2. anchor'.highWater <= handle.gen.number
    BY <1>0, <1>1, <1>2, Running DEF CopiesInv, quiet
  <2>3. ASSUME NEW u \in Calls, call'[u].at \in early \/ call'[u].job = "queued"
        PROVE  call[u].at \in early \/ call[u].job = "queued"
    BY <1>0, <1>2, <1>4, <2>3 DEF early, LocalsInv, overFields
  <2>4. ASSUME NEW u \in Calls, state.run # "down"
        PROVE  /\ call'[u].at \in early \/ call'[u].job = "queued"
                    => past(call'[u].working, handle.gen)
               /\ call'[u].at \notin quiet
                    => call'[u].anchor.highWater <= handle.gen.number
               /\ call'[u].at = "stage" => call'[u].anchor.highWater
                                             <= call'[u].working.number
    <3>1. CASE u = t
      BY <1>0, <1>2, <1>4, <2>4, <3>1 DEF CopiesInv, quiet, early, LocalsInv, overFields
    <3>2. CASE u # t
      BY <1>0, <1>4, <2>4, <3>2 DEF CopiesInv
    <3> QED BY <3>1, <3>2
  <2> QED BY <1>1, <1>2, <2>1, <2>2, <2>4, <1>0, Running DEF CopiesInv, quiet
<1>24. FreshInv'
  <2>1. ASSUME NEW k \in {1, 2}, notYet(t, k)'
        PROVE  notYet(t, k)
    BY <1>0, <1>2, <1>4, <2>1 DEF notYet, early, overFields
  <2>2. /\ call'[t].anchor.pending \in {None, anchor.pending, call[t].anchor.pending}
        /\ \/ call'[t].pending \in {None, anchor.pending, call[t].pending}
           \/ call'[t].pending.id = <<t, call[t].part>>
    BY <1>4 DEF publication, overFields
  <2> QED BY <1>0, <1>1, <1>2, <1>4, <2>1, <2>2, FreshKept DEF notYet, early
<1>25. QueuedInv'
  BY <1>0, <1>1, <1>2, <1>3, <1>4, <1>6, Present DEF QueuedInv, overFields
<1>26. SettleInv'
  BY <1>0, <1>1, <1>2, <1>3, <1>4, Present DEF SettleInv, overFields
<1>27. FinishInv'
  BY <1>0, <1>1, <1>2, <1>3, <1>4, Present DEF FinishInv, overFields
<1>28. AheadInv'
  <2>1. ASSUME NEW u \in Calls, ahead(u)' PROVE u # t /\ ahead(u)
    BY <1>0, <1>2, <1>4, <2>1, Present DEF ahead, settling, LocalsInv, overFields
  <2>2. ASSUME NEW u \in Calls,
               call'[u].at \in early \/ call'[u].job = "queued"
        PROVE  /\ call'[u].working = call[u].working
               /\ call[u].at \in early \/ call[u].job = "queued"
    BY <1>0, <1>2, <1>4, <2>2 DEF early, LocalsInv, overFields
  <2> QED BY <1>0, <1>1, <1>2, <1>4, <1>7, <2>1, <2>2 DEF AheadInv
<1>29. StartingInv'
  BY <1>0, <1>1, <1>2, <1>3, <1>4, Present DEF StartingInv, quiet, LocalsInv,
         overFields
<1>30. RevokingInv'
  BY <1>0, <1>1, <1>2, <1>3, <1>4, Present DEF RevokingInv, early, overFields
<1>31. AnchorRestorable'
  BY <1>0, <1>1, <1>2, <1>3, <1>4, Present DEF AnchorRestorable, overFields
<1>32. AnswersHold'
  <2>1. \/ told'.refused = told.refused
        \/ /\ told'.refused = told.refused \cup {<<t, call[t].part>>}
           /\ <<t, call[t].part>> \notin disk.seen.by \cup disk.safe.by
    BY <1>0, <1>2 DEF FinishInv
  <2> QED BY <1>0, <1>1, <1>2, <2>1 DEF AnswersHold
<1>33. TrustedNotRevoked'
  BY <1>0, <1>1, <1>2, <1>3, <1>4, Present DEF TrustedNotRevoked, overFields
<1> QED BY <1>3, <1>20, <1>21, <1>22, <1>23, <1>24, <1>25, <1>26, <1>27,
           <1>28, <1>29, <1>30, <1>31, <1>32, <1>33
           DEF ControlInv

LEMMA WithdrawnKeeps ==
    ASSUME ObservationSound, ControlInv, NEW t \in Calls, Withdrawn(t)
    PROVE  ControlInv'
<1>0. /\ TypeOK /\ LocalsInv /\ DownInv /\ FilesInv /\ CopiesInv
      /\ FreshInv /\ QueuedInv /\ SettleInv /\ FinishInv /\ AheadInv
      /\ StartingInv /\ RevokingInv
      /\ AnchorRestorable /\ AnswersHold /\ TrustedNotRevoked
  BY DEF ControlInv
<1>1. UNCHANGED <<disk, witness, handle, provider, view, anchor, state, told>>
  BY DEF Withdrawn, unused, files, memory
<1>2. /\ call[t].at = "withdraw"
  BY <1>0 DEF Withdrawn, unused
<1>3. TypeOK'
  BY <1>0, WithdrawnTypes
<1>4. /\ \A u \in Calls : u # t => call'[u] = call[u]
      /\ call'[t].at = "prepare"
      /\ call'[t].kind = "revoke"
      /\ call'[t].part = 2
      /\ call'[t].working = view
      /\ call'[t].selected = view
      /\ call'[t].anchor = anchor
      /\ call'[t].pending = None
      /\ call'[t].outcome = None
      /\ call'[t].job = "none"
      /\ call'[t].result = None
  BY <1>0, WithdrawnFields
<1>6. \A u \in Calls : call[u].job = "queued" =>
        /\ call[u].pending # None /\ call[u].at = "commit"
        /\ call[u].pending.id = <<u, call[u].part>>
  BY <1>0, QueuedPending
<1>20. LocalsInv'
  BY <1>0, <1>1, <1>2, <1>3, <1>4, Present DEF LocalsInv, quiet, early,
         settling
<1>21. DownInv'
  BY <1>0, <1>1, <1>2, <1>3, <1>4 DEF DownInv, quiet
<1>22. FilesInv'
  BY <1>0, <1>1, <1>2, <1>3, <1>4 DEF FilesInv
<1>23. CopiesInv'
  BY <1>0, <1>1, <1>2, <1>3, <1>4 DEF CopiesInv, quiet, early
<1>24. FreshInv'
  <2>1. ASSUME NEW k \in {1, 2}, notYet(t, k)'
        PROVE  notYet(t, k)
    BY <1>0, <1>2, <1>4, <2>1 DEF notYet, early, LocalsInv
  <2>2. /\ call'[t].anchor.pending \in {None, anchor.pending, call[t].anchor.pending}
        /\ \/ call'[t].pending \in {None, anchor.pending, call[t].pending}
           \/ call'[t].pending.id = <<t, call[t].part>>
    BY <1>4 DEF publication
  <2> QED BY <1>0, <1>1, <1>2, <1>4, <2>1, <2>2, FreshKept
<1>25. QueuedInv'
  BY <1>0, <1>1, <1>2, <1>3, <1>4, <1>6, Present DEF QueuedInv
<1>26. SettleInv'
  BY <1>0, <1>1, <1>2, <1>3, <1>4 DEF SettleInv
<1>27. FinishInv'
  BY <1>0, <1>1, <1>2, <1>3, <1>4 DEF FinishInv
<1>28. AheadInv'
  BY <1>0, <1>1, <1>2, <1>3, <1>4 DEF AheadInv, ahead, settling, early
<1>29. StartingInv'
  BY <1>0, <1>1, <1>2, <1>3, <1>4 DEF StartingInv, quiet, LocalsInv
<1>30. RevokingInv'
  BY <1>0, <1>1, <1>2, <1>3, <1>4 DEF RevokingInv, early
<1>31. AnchorRestorable'
  BY <1>0, <1>1, <1>2, <1>3, <1>4 DEF AnchorRestorable
<1>32. AnswersHold'
  BY <1>0, <1>1, <1>2, <1>3, <1>4 DEF AnswersHold
<1>33. TrustedNotRevoked'
  BY <1>0, <1>1, <1>2, <1>3, <1>4 DEF TrustedNotRevoked
<1> QED BY <1>3, <1>20, <1>21, <1>22, <1>23, <1>24, <1>25, <1>26, <1>27,
           <1>28, <1>29, <1>30, <1>31, <1>32, <1>33
           DEF ControlInv

LEMMA WithdrawalIncompleteKeeps ==
    ASSUME ObservationSound, ControlInv, NEW t \in Calls, WithdrawalIncomplete(t)
    PROVE  ControlInv'
<1>0. /\ TypeOK /\ LocalsInv /\ DownInv /\ FilesInv /\ CopiesInv
      /\ FreshInv /\ QueuedInv /\ SettleInv /\ FinishInv /\ AheadInv
      /\ StartingInv /\ RevokingInv
      /\ AnchorRestorable /\ AnswersHold /\ TrustedNotRevoked
  BY DEF ControlInv
<1>1. UNCHANGED <<disk, witness, handle, provider, view, anchor, told>>
  BY DEF WithdrawalIncomplete, becomes, files, memory
<1>2. /\ call[t].at = "withdraw"
      /\ state'.run = state.run
      /\ state'.trusted = state.trusted
  BY <1>0 DEF WithdrawalIncomplete, becomes, becomes, TypeOK
<1>3. TypeOK'
  BY <1>0, WithdrawalIncompleteTypes
<1>4. /\ \A u \in Calls : u # t => call'[u] = call[u]
      /\ call'[t].at = "ended"
      /\ call'[t].kind = None
      /\ call'[t].part = 1
      /\ call'[t].pending = None
      /\ call'[t].anchor.pending = None
      /\ call'[t].job = call[t].job
      /\ call'[t].outcome = None
      /\ call'[t].result = None
  BY <1>0, WithdrawalIncompleteFields, OverFields DEF overFields
<1>6. \A u \in Calls : call[u].job = "queued" =>
        /\ call[u].pending # None /\ call[u].at = "commit"
        /\ call[u].pending.id = <<u, call[u].part>>
  BY <1>0, QueuedPending
<1>20. LocalsInv'
  BY <1>0, <1>1, <1>2, <1>3, <1>4, Present DEF LocalsInv, quiet, early,
         settling
<1>21. DownInv'
  BY <1>0, <1>1, <1>2, <1>3, <1>4, Present DEF DownInv, quiet, LocalsInv
<1>22. FilesInv'
  BY <1>0, <1>1, <1>2, <1>3, <1>4, Present DEF FilesInv
<1>23. CopiesInv'
  BY <1>0, <1>1, <1>2, <1>3, <1>4, Present, Numbers DEF CopiesInv, quiet,
         early, LocalsInv
<1>24. FreshInv'
  <2>1. ASSUME NEW k \in {1, 2}, notYet(t, k)'
        PROVE  notYet(t, k)
    BY <1>0, <1>2, <1>4, <2>1 DEF notYet, early
  <2>2. /\ call'[t].anchor.pending \in {None, anchor.pending, call[t].anchor.pending}
        /\ \/ call'[t].pending \in {None, anchor.pending, call[t].pending}
           \/ call'[t].pending.id = <<t, call[t].part>>
    BY <1>4 DEF publication
  <2> QED BY <1>0, <1>1, <1>2, <1>4, <2>1, <2>2, FreshKept
<1>25. QueuedInv'
  BY <1>0, <1>1, <1>2, <1>3, <1>4, <1>6, Present DEF QueuedInv
<1>26. SettleInv'
  BY <1>0, <1>1, <1>2, <1>3, <1>4, Present DEF SettleInv
<1>27. FinishInv'
  BY <1>0, <1>1, <1>2, <1>3, <1>4, Present DEF FinishInv
<1>28. AheadInv'
  <2>1. ASSUME NEW u \in Calls, ahead(u)' PROVE u # t /\ ahead(u)
    BY <1>0, <1>2, <1>4, <2>1, Present DEF ahead, settling, LocalsInv
  <2>2. ASSUME NEW u \in Calls,
               call'[u].at \in early \/ call'[u].job = "queued"
        PROVE  /\ call'[u].working = call[u].working
               /\ call[u].at \in early \/ call[u].job = "queued"
    BY <1>0, <1>2, <1>4, <2>2 DEF early, LocalsInv
  <2> QED BY <1>0, <1>1, <1>2, <1>4, <2>1, <2>2 DEF AheadInv
<1>29. StartingInv'
  BY <1>0, <1>1, <1>2, <1>3, <1>4, Present DEF StartingInv, quiet, LocalsInv
<1>30. RevokingInv'
  BY <1>0, <1>1, <1>2, <1>3, <1>4, Present DEF RevokingInv, early
<1>31. AnchorRestorable'
  BY <1>0, <1>1, <1>2, <1>3, <1>4, Present DEF AnchorRestorable
<1>32. AnswersHold'
  BY <1>0, <1>1, <1>2, <1>3, <1>4, Present DEF AnswersHold
<1>33. TrustedNotRevoked'
  BY <1>0, <1>1, <1>2, <1>3, <1>4, Present DEF TrustedNotRevoked
<1> QED BY <1>3, <1>20, <1>21, <1>22, <1>23, <1>24, <1>25, <1>26, <1>27,
           <1>28, <1>29, <1>30, <1>31, <1>32, <1>33
           DEF ControlInv

LEMMA ReconcileReceiptKeeps ==
    ASSUME ObservationSound, ControlInv, NEW t \in Calls, ReconcileReceipt(t)
    PROVE  ControlInv'
<1>0. /\ TypeOK /\ LocalsInv /\ DownInv /\ FilesInv /\ CopiesInv
      /\ FreshInv /\ QueuedInv /\ SettleInv /\ FinishInv /\ AheadInv
      /\ StartingInv /\ RevokingInv
      /\ AnchorRestorable /\ AnswersHold /\ TrustedNotRevoked
  BY DEF ControlInv
<1>1. UNCHANGED <<disk, witness, handle, provider, view, anchor, state, told>>
  BY DEF ReconcileReceipt, unused, files, memory
<1>2. /\ call[t].at = "receipt"
  BY <1>0 DEF ReconcileReceipt, unused
<1>3. TypeOK'
  BY <1>0, ReconcileReceiptTypes
<1>4. /\ \A u \in Calls : u # t => call'[u] = call[u]
      /\ call'[t].at = "prepare"
      /\ call'[t].kind = "reconcile"
      /\ call'[t].part = 2
      /\ call'[t].working = view
      /\ call'[t].selected = view
      /\ call'[t].anchor = call[t].anchor
      /\ call'[t].pending = None
      /\ call'[t].outcome = None
      /\ call'[t].job = "none"
      /\ call'[t].result = None
  BY <1>0, ReconcileReceiptFields
<1>6. \A u \in Calls : call[u].job = "queued" =>
        /\ call[u].pending # None /\ call[u].at = "commit"
        /\ call[u].pending.id = <<u, call[u].part>>
  BY <1>0, QueuedPending
<1>20. LocalsInv'
  BY <1>0, <1>1, <1>2, <1>3, <1>4, Present DEF LocalsInv, quiet, early,
         settling
<1>21. DownInv'
  BY <1>0, <1>1, <1>2, <1>3, <1>4 DEF DownInv, quiet
<1>22. FilesInv'
  BY <1>0, <1>1, <1>2, <1>3, <1>4 DEF FilesInv
<1>23. CopiesInv'
  BY <1>0, <1>1, <1>2, <1>3, <1>4 DEF CopiesInv, quiet, early
<1>24. FreshInv'
  <2>1. ASSUME NEW k \in {1, 2}, notYet(t, k)'
        PROVE  notYet(t, k)
    BY <1>0, <1>2, <1>4, <2>1 DEF notYet, early, LocalsInv
  <2>2. /\ call'[t].anchor.pending \in {None, anchor.pending, call[t].anchor.pending}
        /\ \/ call'[t].pending \in {None, anchor.pending, call[t].pending}
           \/ call'[t].pending.id = <<t, call[t].part>>
    BY <1>4 DEF publication
  <2> QED BY <1>0, <1>1, <1>2, <1>4, <2>1, <2>2, FreshKept
<1>25. QueuedInv'
  BY <1>0, <1>1, <1>2, <1>3, <1>4, <1>6, Present DEF QueuedInv
<1>26. SettleInv'
  BY <1>0, <1>1, <1>2, <1>3, <1>4 DEF SettleInv
<1>27. FinishInv'
  BY <1>0, <1>1, <1>2, <1>3, <1>4 DEF FinishInv
<1>28. AheadInv'
  BY <1>0, <1>1, <1>2, <1>3, <1>4 DEF AheadInv, ahead, settling, early
<1>29. StartingInv'
  BY <1>0, <1>1, <1>2, <1>3, <1>4 DEF StartingInv, quiet, LocalsInv
<1>30. RevokingInv'
  BY <1>0, <1>1, <1>2, <1>3, <1>4 DEF RevokingInv, early
<1>31. AnchorRestorable'
  BY <1>0, <1>1, <1>2, <1>3, <1>4 DEF AnchorRestorable
<1>32. AnswersHold'
  BY <1>0, <1>1, <1>2, <1>3, <1>4 DEF AnswersHold
<1>33. TrustedNotRevoked'
  BY <1>0, <1>1, <1>2, <1>3, <1>4 DEF TrustedNotRevoked
<1> QED BY <1>3, <1>20, <1>21, <1>22, <1>23, <1>24, <1>25, <1>26, <1>27,
           <1>28, <1>29, <1>30, <1>31, <1>32, <1>33
           DEF ControlInv

LEMMA ReconcileViewKeeps ==
    ASSUME ObservationSound, ControlInv, NEW t \in Calls, ReconcileView(t)
    PROVE  ControlInv'
<1>0. /\ TypeOK /\ LocalsInv /\ DownInv /\ FilesInv /\ CopiesInv
      /\ FreshInv /\ QueuedInv /\ SettleInv /\ FinishInv /\ AheadInv
      /\ StartingInv /\ RevokingInv
      /\ AnchorRestorable /\ AnswersHold /\ TrustedNotRevoked
  BY DEF ControlInv
<1>1. UNCHANGED <<disk, witness, handle, provider, anchor, state, told>>
  BY DEF ReconcileView, files, memory
<1>2. /\ call[t].at = "finish"
      /\ call[t].kind = "reconcile"
      /\ call[t].outcome = "durable"
      /\ view' = call[t].pending.target
  BY <1>0 DEF ReconcileView
<1>3. TypeOK'
  BY <1>0, ReconcileViewTypes
<1>4. /\ \A u \in Calls : u # t => call'[u] = call[u]
      /\ call'[t].at = "resolved"
      /\ call'[t].kind = call[t].kind
      /\ call'[t].part = call[t].part
      /\ call'[t].working = call[t].working
      /\ call'[t].selected = call[t].selected
      /\ call'[t].anchor = call[t].anchor
      /\ call'[t].pending = call[t].pending
      /\ call'[t].outcome = call[t].outcome
      /\ call'[t].job = call[t].job
      /\ call'[t].result = call[t].result
  BY <1>0, ReconcileViewFields
<1>5. publication(t, call'[t]) = publication(t, call[t])
  BY <1>4 DEF publication
<1>7. call[t].outcome = "durable" =>
        /\ handle.gen = call[t].pending.target
        /\ \A u \in Calls : ahead(u) => u = t
        /\ \A u \in Calls : call[u].at \in early \/ call[u].job = "queued"
             => call[u].working.number < handle.gen.number
  BY <1>0, <1>2, FinishPoint
<1>20. LocalsInv'
  BY <1>0, <1>1, <1>2, <1>3, <1>4, <1>5 DEF LocalsInv, quiet, early, settling
<1>21. DownInv'
  BY <1>0, <1>1, <1>2, <1>3, <1>4 DEF DownInv, quiet
<1>22. FilesInv'
  BY <1>0, <1>1, <1>2, <1>3, <1>4 DEF FilesInv
<1>23. CopiesInv'
  <2>1. state.run # "down" => past(view', handle.gen)
    BY <1>0, <1>1, <1>2, <1>7 DEF CopiesInv, past
  <2>2. anchor'.highWater <= handle.gen.number \/ UNCHANGED anchor
    BY <1>0, <1>1, <1>2, Running DEF CopiesInv, quiet
  <2>3. ASSUME NEW u \in Calls, call'[u].at \in early \/ call'[u].job = "queued"
        PROVE  call[u].at \in early \/ call[u].job = "queued"
    BY <1>0, <1>2, <1>4, <2>3 DEF early, LocalsInv
  <2>4. ASSUME NEW u \in Calls, state.run # "down"
        PROVE  /\ call'[u].at \in early \/ call'[u].job = "queued"
                    => past(call'[u].working, handle.gen)
               /\ call'[u].at \notin quiet
                    => call'[u].anchor.highWater <= handle.gen.number
               /\ call'[u].at = "stage" => call'[u].anchor.highWater
                                             <= call'[u].working.number
    <3>1. CASE u = t
      BY <1>0, <1>2, <1>4, <2>4, <3>1 DEF CopiesInv, quiet, early, LocalsInv
    <3>2. CASE u # t
      BY <1>0, <1>4, <2>4, <3>2 DEF CopiesInv
    <3> QED BY <3>1, <3>2
  <2> QED BY <1>1, <1>2, <2>1, <2>2, <2>4, <1>0, Running DEF CopiesInv, quiet
<1>24. FreshInv'
  <2>1. ASSUME NEW k \in {1, 2}, notYet(t, k)'
        PROVE  notYet(t, k)
    BY <1>0, <1>2, <1>4, <2>1 DEF notYet, early
  <2>2. /\ call'[t].anchor.pending \in {None, anchor.pending, call[t].anchor.pending}
        /\ \/ call'[t].pending \in {None, anchor.pending, call[t].pending}
           \/ call'[t].pending.id = <<t, call[t].part>>
    BY <1>4 DEF publication
  <2> QED BY <1>0, <1>1, <1>2, <1>4, <2>1, <2>2, FreshKept
<1>25. QueuedInv'
  BY <1>0, <1>1, <1>2, <1>3, <1>4 DEF QueuedInv
<1>26. SettleInv'
  BY <1>0, <1>1, <1>2, <1>3, <1>4 DEF SettleInv
<1>27. FinishInv'
  BY <1>0, <1>1, <1>2, <1>3, <1>4 DEF FinishInv
<1>28. AheadInv'
  <2>1. ASSUME NEW u \in Calls, ahead(u)' PROVE u # t /\ ahead(u)
    BY <1>0, <1>2, <1>4, <2>1, Present DEF ahead, settling, LocalsInv
  <2>2. ASSUME NEW u \in Calls,
               call'[u].at \in early \/ call'[u].job = "queued"
        PROVE  /\ call'[u].working = call[u].working
               /\ call[u].at \in early \/ call[u].job = "queued"
    BY <1>0, <1>2, <1>4, <2>2 DEF early, LocalsInv
  <2> QED BY <1>0, <1>1, <1>2, <1>4, <1>7, <2>1, <2>2 DEF AheadInv
<1>29. StartingInv'
  BY <1>0, <1>1, <1>2, <1>3, <1>4 DEF StartingInv, quiet
<1>30. RevokingInv'
  BY <1>0, <1>1, <1>2, <1>3, <1>4 DEF RevokingInv, early
<1>31. AnchorRestorable'
  BY <1>0, <1>1, <1>2, <1>3, <1>4 DEF AnchorRestorable
<1>32. AnswersHold'
  BY <1>0, <1>1, <1>2, <1>3, <1>4 DEF AnswersHold
<1>33. TrustedNotRevoked'
  BY <1>0, <1>1, <1>2, <1>3, <1>4 DEF TrustedNotRevoked
<1> QED BY <1>3, <1>20, <1>21, <1>22, <1>23, <1>24, <1>25, <1>26, <1>27,
           <1>28, <1>29, <1>30, <1>31, <1>32, <1>33
           DEF ControlInv

LEMMA ReconcileFinishKeeps ==
    ASSUME ObservationSound, ControlInv, NEW t \in Calls, ReconcileFinish(t)
    PROVE  ControlInv'
<1>0. /\ TypeOK /\ LocalsInv /\ DownInv /\ FilesInv /\ CopiesInv
      /\ FreshInv /\ QueuedInv /\ SettleInv /\ FinishInv /\ AheadInv
      /\ StartingInv /\ RevokingInv
      /\ AnchorRestorable /\ AnswersHold /\ TrustedNotRevoked
  BY DEF ControlInv
<1>1. UNCHANGED <<disk, witness, handle, provider, view, told>>
  BY DEF ReconcileFinish, becomes, files, memory
<1>2. /\ call[t].kind = "reconcile"
      /\ \/ call[t].at \in {"resolved", "receipt"}
         \/ call[t].at = "finish" /\ call[t].outcome # "durable"
      /\ anchor' = call[t].anchor
      /\ state'.run = state.run
      /\ state'.trusted = state.trusted
  BY <1>0 DEF ReconcileFinish, becomes, becomes, TypeOK
<1>3. TypeOK'
  BY <1>0, ReconcileFinishTypes
<1>4. /\ \A u \in Calls : u # t => call'[u] = call[u]
      /\ call'[t].at = "ended"
      /\ call'[t].kind = None
      /\ call'[t].part = 1
      /\ call'[t].pending = None
      /\ call'[t].anchor.pending = None
      /\ call'[t].job = call[t].job
      /\ call'[t].outcome = None
      /\ call'[t].result = None
  BY <1>0, ReconcileFinishFields, OverFields DEF overFields
<1>6. \A u \in Calls : call[u].job = "queued" =>
        /\ call[u].pending # None /\ call[u].at = "commit"
        /\ call[u].pending.id = <<u, call[u].part>>
  BY <1>0, QueuedPending
<1>20. LocalsInv'
  BY <1>0, <1>1, <1>2, <1>3, <1>4, Present DEF LocalsInv, quiet, early,
         settling
<1>21. DownInv'
  BY <1>0, <1>1, <1>2, <1>3, <1>4, Present DEF DownInv, quiet, LocalsInv
<1>22. FilesInv'
  BY <1>0, <1>1, <1>2, <1>3, <1>4, Present DEF FilesInv
<1>23. CopiesInv'
  BY <1>0, <1>1, <1>2, <1>3, <1>4, Present, Numbers DEF CopiesInv, quiet,
         early, LocalsInv
<1>24. FreshInv'
  <2>1. ASSUME NEW k \in {1, 2}, notYet(t, k)'
        PROVE  notYet(t, k)
    BY <1>0, <1>2, <1>4, <2>1 DEF notYet, early
  <2>2. /\ call'[t].anchor.pending \in {None, anchor.pending, call[t].anchor.pending}
        /\ \/ call'[t].pending \in {None, anchor.pending, call[t].pending}
           \/ call'[t].pending.id = <<t, call[t].part>>
    BY <1>4 DEF publication
  <2> QED BY <1>0, <1>1, <1>2, <1>4, <2>1, <2>2, FreshKept
<1>25. QueuedInv'
  BY <1>0, <1>1, <1>2, <1>3, <1>4, <1>6, Present DEF QueuedInv
<1>26. SettleInv'
  BY <1>0, <1>1, <1>2, <1>3, <1>4, Present DEF SettleInv
<1>27. FinishInv'
  BY <1>0, <1>1, <1>2, <1>3, <1>4, Present DEF FinishInv
<1>28. AheadInv'
  <2>1. ASSUME NEW u \in Calls, ahead(u)' PROVE u # t /\ ahead(u)
    BY <1>0, <1>2, <1>4, <2>1, Present DEF ahead, settling, LocalsInv
  <2>2. ASSUME NEW u \in Calls,
               call'[u].at \in early \/ call'[u].job = "queued"
        PROVE  /\ call'[u].working = call[u].working
               /\ call[u].at \in early \/ call[u].job = "queued"
    BY <1>0, <1>2, <1>4, <2>2 DEF early, LocalsInv
  <2> QED BY <1>0, <1>1, <1>2, <1>4, <2>1, <2>2 DEF AheadInv
<1>29. StartingInv'
  BY <1>0, <1>1, <1>2, <1>3, <1>4, Present DEF StartingInv, quiet, LocalsInv
<1>30. RevokingInv'
  BY <1>0, <1>1, <1>2, <1>3, <1>4, Present DEF RevokingInv, early
<1>31. AnchorRestorable'
  BY <1>0, <1>1, <1>2, <1>3, <1>4, Present DEF AnchorRestorable
<1>32. AnswersHold'
  BY <1>0, <1>1, <1>2, <1>3, <1>4, Present DEF AnswersHold
<1>33. TrustedNotRevoked'
  BY <1>0, <1>1, <1>2, <1>3, <1>4, Present DEF TrustedNotRevoked
<1> QED BY <1>3, <1>20, <1>21, <1>22, <1>23, <1>24, <1>25, <1>26, <1>27,
           <1>28, <1>29, <1>30, <1>31, <1>32, <1>33
           DEF ControlInv

LEMMA CrashKeeps ==
    ASSUME ControlInv, Crash
    PROVE  ControlInv'
<1>0. /\ TypeOK /\ LocalsInv /\ DownInv /\ FilesInv /\ CopiesInv
      /\ FreshInv /\ QueuedInv /\ SettleInv /\ FinishInv /\ AheadInv
      /\ StartingInv /\ RevokingInv
      /\ AnchorRestorable /\ AnswersHold /\ TrustedNotRevoked
  BY DEF ControlInv
<1>1. /\ disk'.seen = disk'.safe /\ disk'.safe \in {disk.seen, disk.safe}
      /\ witness'.seen = witness'.safe
      /\ witness'.safe \in {witness.seen, witness.safe}
      /\ state'.run = "down" /\ state'.trusted = FALSE
      /\ UNCHANGED <<handle, provider, view, anchor, told>>
      /\ \A u \in Calls :
           \/ call[u].at = "idle" /\ call'[u] = call[u]
           \/ /\ call'[u].at = "ended" /\ call'[u].kind = None
              /\ call'[u].part = 1 /\ call'[u].job = "none"
              /\ call'[u].pending = None /\ call'[u].anchor.pending = None
              /\ call'[u].result = None
  BY <1>0 DEF Crash, TypeOK, unused, settled
<1>3. TypeOK'
  <2>1. call' \in [Calls -> Locals]
    BY <1>0, UnusedType DEF Crash, TypeOK, Locals, Places
  <2>2. restarts' \in 0..MaxRestarts
    BY <1>0, ControlAssumption DEF Crash, TypeOK
  <2>3. /\ disk' \in [seen : Generation, safe : Generation]
        /\ witness' \in [seen : Anchor, safe : Anchor]
    BY <1>0 DEF Crash, TypeOK
  <2>4. state' \in [run : {"up", "starting", "down"}, recovery : Recoveries,
                    trusted : BOOLEAN]
    BY DEF Crash, Recoveries
  <2> QED BY <1>0, <2>1, <2>2, <2>3, <2>4 DEF Crash, TypeOK
<1>4. \A u \in Calls : /\ call'[u].at \in quiet /\ call'[u].kind = None
                       /\ call'[u].job # "queued"
  BY <1>0, <1>1 DEF LocalsInv, quiet
<1>20. LocalsInv'
  BY <1>0, <1>1, <1>4, Present DEF LocalsInv, quiet, early, settling
<1>21. DownInv'
  BY <1>1, <1>4 DEF DownInv
<1>22. FilesInv'
  BY <1>0, <1>1, <1>3 DEF FilesInv
<1>23. CopiesInv'
  BY <1>0, <1>1, <1>3 DEF CopiesInv, quiet, early
<1>24. FreshInv'
  <2> SUFFICES ASSUME NEW v \in Calls, NEW k \in {1, 2}, notYet(v, k)'
               PROVE  /\ <<v, k>> \notin disk'.seen.by \cup disk'.safe.by
                      /\ <<v, k>> \notin told'.refused
                      /\ ~names(witness'.seen, <<v, k>>)
                      /\ ~names(witness'.safe, <<v, k>>)
                      /\ ~names(provider', <<v, k>>)
                      /\ ~names(anchor', <<v, k>>)
                      /\ \A u \in Calls :
                           /\ ~names(call'[u].anchor, <<v, k>>)
                           /\ u = v \/ ~names(call'[u], <<v, k>>)
    BY DEF FreshInv, names
  <2>1. notYet(v, k)
    BY <1>1 DEF notYet, early
  <2>2. /\ <<v, k>> \notin disk.seen.by \cup disk.safe.by
        /\ <<v, k>> \notin told.refused
        /\ ~names(witness.seen, <<v, k>>) /\ ~names(witness.safe, <<v, k>>)
        /\ ~names(provider, <<v, k>>) /\ ~names(anchor, <<v, k>>)
        /\ \A u \in Calls : /\ ~names(call[u].anchor, <<v, k>>)
                            /\ u = v \/ ~names(call[u], <<v, k>>)
    BY <1>0, <2>1 DEF FreshInv
  <2> QED BY <1>1, <2>2 DEF names
<1>25. QueuedInv'
  BY <1>4 DEF QueuedInv
<1>26. SettleInv'
  BY <1>4 DEF SettleInv, quiet
<1>27. FinishInv'
  BY <1>4 DEF FinishInv, quiet
<1>28. AheadInv'
  BY <1>4 DEF AheadInv, ahead, quiet
<1>29. StartingInv'
  BY <1>1, <1>4, Present DEF StartingInv
<1>30. RevokingInv'
  BY <1>4, Present DEF RevokingInv
<1>31. AnchorRestorable'
  BY <1>0, <1>1, <1>3 DEF AnchorRestorable
<1>32. AnswersHold'
  BY <1>0, <1>1, <1>3 DEF AnswersHold
<1>33. TrustedNotRevoked'
  BY <1>0, <1>1, <1>3 DEF TrustedNotRevoked
<1> QED BY <1>3, <1>20, <1>21, <1>22, <1>23, <1>24, <1>25, <1>26, <1>27,
           <1>28, <1>29, <1>30, <1>31, <1>32, <1>33
           DEF ControlInv

LEMMA StartKeeps ==
    ASSUME ControlInv, Start
    PROVE  ControlInv'
<1>0. /\ TypeOK /\ LocalsInv /\ DownInv /\ FilesInv /\ CopiesInv
      /\ FreshInv /\ QueuedInv /\ SettleInv /\ FinishInv /\ AheadInv
      /\ StartingInv /\ RevokingInv
      /\ AnchorRestorable /\ AnswersHold /\ TrustedNotRevoked
  BY DEF ControlInv
<1>1. /\ state.run = "down" /\ restoreAnchor(disk.seen, witness.seen)
      /\ disk'.seen = disk.seen /\ disk'.safe = disk.seen
      /\ disk.seen = disk.safe /\ witness.seen = witness.safe
      /\ handle' = [gen |-> disk.seen, poisoned |-> FALSE]
      /\ handle'.gen = disk.seen /\ view' = disk.seen
      /\ anchor'.highWater = witness.seen.highWater /\ provider' = anchor'
      /\ witness'.safe = provider'
      /\ \/ witness'.seen = witness.seen /\ anchor' = witness.seen
         \/ /\ unapplied(disk.seen, witness.seen)
            /\ witness'.seen.pending = None
            /\ witness'.seen.highWater = witness.seen.highWater
            /\ anchor'.pending = None \/ anchor' = witness.seen
      /\ state'.run = "starting" /\ state'.trusted = state.trusted
      /\ UNCHANGED <<call, told>>
  <2>1. disk.seen = disk.safe /\ witness.seen = witness.safe
    BY <1>0 DEF Start, DownInv
  <2>2. /\ cleared(witness.seen).pending = None
        /\ cleared(witness.seen).highWater = witness.seen.highWater
    BY <1>0 DEF cleared, TypeOK, Anchor
  <2>3. /\ state' = [state EXCEPT !.run = "starting"]
        /\ disk' = [disk EXCEPT !.safe = disk.seen]
        /\ handle' = [gen |-> disk.seen, poisoned |-> FALSE]
        /\ state.run = "down" /\ restoreAnchor(disk.seen, witness.seen)
        /\ view' = disk.seen /\ provider' = anchor' /\ UNCHANGED <<call, told>>
    BY DEF Start
  <2>4. /\ state'.run = "starting" /\ state'.trusted = state.trusted
        /\ disk'.seen = disk.seen /\ disk'.safe = disk.seen
        /\ handle'.gen = disk.seen
    BY <1>0, <2>3 DEF TypeOK
  <2>5. \/ /\ unapplied(disk.seen, witness.seen)
           /\ anchor' = cleared(witness.seen)
           /\ witness'.seen = anchor' /\ witness'.safe = anchor'
        \/ /\ anchor' = witness.seen /\ witness' = witness
        \/ /\ unapplied(disk.seen, witness.seen) /\ anchor' = witness.seen
           /\ witness'.seen = cleared(witness.seen)
           /\ witness'.safe = witness.safe
    BY <1>0 DEF Start, TypeOK
  <2> QED BY <2>1, <2>2, <2>3, <2>4, <2>5
<1>3. TypeOK'
  <2>1. witness.seen \in Anchor /\ cleared(witness.seen) \in Anchor
    BY <1>0, SettledTypes DEF TypeOK
  <2>2. /\ witness' \in [seen : Anchor, safe : Anchor] /\ anchor' \in Anchor
        /\ provider' \in Anchor
    BY <1>0, <2>1 DEF Start, TypeOK
  <2> QED BY <1>0, <2>2 DEF Start, TypeOK
<1>4. \A u \in Calls : /\ call'[u].at \in quiet /\ call'[u].kind = None
                       /\ call'[u].job # "queued"
  BY <1>0, <1>1 DEF LocalsInv, DownInv, quiet
<1>20. LocalsInv'
  <2>1. ASSUME NEW u \in Calls
        PROVE  call'[u] = call[u] /\ settling(u)' = settling(u)
    BY <1>1 DEF settling
  <2> QED BY <1>0, <2>1 DEF LocalsInv
<1>21. DownInv'
  BY <1>1 DEF DownInv
<1>22. FilesInv'
  <2>1. handle' \in [gen : Generation, poisoned : BOOLEAN]
    BY <1>0, <1>1 DEF TypeOK
  <2>2. anchorFormed(witness'.seen) /\ anchorFormed(witness'.safe)
    BY <1>0, <1>1 DEF FilesInv, anchorFormed
  <2> QED BY <1>1, <2>1, <2>2 DEF FilesInv
<1>23. CopiesInv'
  <2>1. anchor'.highWater <= handle'.gen.number
    <3>1. restoreAnchor(disk.seen, witness.seen) /\ anchorFormed(witness.seen)
      BY <1>0, <1>1 DEF FilesInv
    <3>2. witness.seen.highWater <= disk.seen.number
      <4>1. CASE witness.seen.pending = None
        BY <1>0, <3>1, <4>1, Numbers DEF restoreAnchor
      <4>2. CASE witness.seen.pending # None
        <5>1. /\ witness.seen.pending.target.number
                   = witness.seen.pending.previous.number + 1
              /\ witness.seen.highWater = witness.seen.pending.previous.number
              /\ disk.seen \in {witness.seen.pending.previous,
                                witness.seen.pending.target}
          BY <3>1, <4>2 DEF anchorFormed, formed, restoreAnchor
        <5>2. witness.seen.pending.previous.number \in Nat
          BY <1>0, <4>2, PendingFields DEF TypeOK, Anchor
        <5> QED BY <5>1, <5>2
      <4> QED BY <4>1, <4>2
    <3> QED BY <1>1, <3>2
  <2> QED BY <1>1, <1>4, <2>1 DEF CopiesInv, past, quiet, early
<1>24. FreshInv'
  <2> SUFFICES ASSUME NEW v \in Calls, NEW k \in {1, 2}, notYet(v, k)'
               PROVE  /\ <<v, k>> \notin disk'.seen.by \cup disk'.safe.by
                      /\ <<v, k>> \notin told'.refused
                      /\ ~names(witness'.seen, <<v, k>>)
                      /\ ~names(witness'.safe, <<v, k>>)
                      /\ ~names(provider', <<v, k>>)
                      /\ ~names(anchor', <<v, k>>)
                      /\ \A u \in Calls :
                           /\ ~names(call'[u].anchor, <<v, k>>)
                           /\ u = v \/ ~names(call'[u], <<v, k>>)
    BY DEF FreshInv, names
  <2>1. notYet(v, k)
    BY <1>1 DEF notYet, early
  <2>2. /\ <<v, k>> \notin disk.seen.by \cup disk.safe.by
        /\ <<v, k>> \notin told.refused
        /\ ~names(witness.seen, <<v, k>>) /\ ~names(witness.safe, <<v, k>>)
        /\ ~names(provider, <<v, k>>) /\ ~names(anchor, <<v, k>>)
        /\ \A u \in Calls : /\ ~names(call[u].anchor, <<v, k>>)
                            /\ u = v \/ ~names(call[u], <<v, k>>)
    BY <1>0, <2>1 DEF FreshInv
  <2> QED BY <1>1, <2>2 DEF names
<1>25. QueuedInv'
  BY <1>4 DEF QueuedInv
<1>26. SettleInv'
  BY <1>4 DEF SettleInv, quiet
<1>27. FinishInv'
  BY <1>4 DEF FinishInv, quiet
<1>28. AheadInv'
  BY <1>4 DEF AheadInv, ahead, quiet
<1>29. StartingInv'
  BY <1>1, <1>4, Present DEF StartingInv
<1>30. RevokingInv'
  BY <1>4, Present DEF RevokingInv
<1>31. AnchorRestorable'
  <2>1. restoreAnchor(disk.seen, witness.seen) /\ anchorFormed(witness.seen)
    BY <1>0, <1>1 DEF FilesInv
  <2>2. unapplied(disk.seen, witness.seen) =>
          \A a : a.pending = None /\ a.highWater = witness.seen.highWater
                   => restoreAnchor(disk.seen, a)
    BY <2>1 DEF unapplied, restoreAnchor, anchorFormed
  <2> QED BY <1>1, <2>1, <2>2 DEF AnchorRestorable
<1>32. AnswersHold'
  BY <1>0, <1>1 DEF AnswersHold
<1>33. TrustedNotRevoked'
  BY <1>0, <1>1 DEF TrustedNotRevoked, DownInv
<1> QED BY <1>3, <1>20, <1>21, <1>22, <1>23, <1>24, <1>25, <1>26, <1>27,
           <1>28, <1>29, <1>30, <1>31, <1>32, <1>33
           DEF ControlInv

LEMMA ClassifyKeeps ==
    ASSUME ControlInv, Classify
    PROVE  ControlInv'
<1>0. /\ TypeOK /\ LocalsInv /\ DownInv /\ FilesInv /\ CopiesInv
      /\ FreshInv /\ QueuedInv /\ SettleInv /\ FinishInv /\ AheadInv
      /\ StartingInv /\ RevokingInv
      /\ AnchorRestorable /\ AnswersHold /\ TrustedNotRevoked
  BY DEF ControlInv
<1>1. /\ state.run = "starting"
      /\ \A u \in Calls : call[u].at \in quiet
      /\ UNCHANGED <<disk, witness, handle, provider, view, anchor, call, told>>
      /\ state'.run = "up" /\ (state'.trusted => view.association = "trusted")
  <2>1. PICK r \in classify(view, anchor) :
          state' = [run |-> "up", recovery |-> r,
                    trusted |-> r = "PAIRED_TRUSTED"]
    BY DEF Classify, classified
  <2>2. state'.run = "up" /\ state'.trusted = (r = "PAIRED_TRUSTED")
    BY <2>1
  <2>3. r = "PAIRED_TRUSTED" => view.association = "trusted"
    BY <2>1 DEF classify
  <2>4. /\ state.run = "starting" /\ \A u \in Calls : call[u].at \in quiet
        /\ UNCHANGED <<disk, witness, handle, provider, view, anchor, call, told>>
    BY DEF Classify, starting, files, quiet
  <2> QED BY <2>2, <2>3, <2>4
<1>3. TypeOK'
  BY <1>0, ClassifiedType DEF Classify, TypeOK, files
<1>4. \A u \in Calls : /\ call'[u].at \in quiet /\ call'[u].kind = None
                       /\ call'[u].job # "queued"
  BY <1>0, <1>1 DEF LocalsInv, quiet
<1>20. LocalsInv'
  <2>1. ASSUME NEW u \in Calls
        PROVE  call'[u] = call[u] /\ settling(u)' = settling(u)
    BY <1>1 DEF settling
  <2> QED BY <1>0, <2>1 DEF LocalsInv
<1>21. DownInv'
  BY <1>1 DEF DownInv
<1>22. FilesInv'
  BY <1>0, <1>1, <1>3 DEF FilesInv
<1>23. CopiesInv'
  BY <1>0, <1>1 DEF CopiesInv
<1>24. FreshInv'
  <2> SUFFICES ASSUME NEW v \in Calls, NEW k \in {1, 2}, notYet(v, k)'
               PROVE  /\ <<v, k>> \notin disk'.seen.by \cup disk'.safe.by
                      /\ <<v, k>> \notin told'.refused
                      /\ ~names(witness'.seen, <<v, k>>)
                      /\ ~names(witness'.safe, <<v, k>>)
                      /\ ~names(provider', <<v, k>>)
                      /\ ~names(anchor', <<v, k>>)
                      /\ \A u \in Calls :
                           /\ ~names(call'[u].anchor, <<v, k>>)
                           /\ u = v \/ ~names(call'[u], <<v, k>>)
    BY DEF FreshInv, names
  <2>1. notYet(v, k)
    BY <1>1 DEF notYet, early
  <2>2. /\ <<v, k>> \notin disk.seen.by \cup disk.safe.by
        /\ <<v, k>> \notin told.refused
        /\ ~names(witness.seen, <<v, k>>) /\ ~names(witness.safe, <<v, k>>)
        /\ ~names(provider, <<v, k>>) /\ ~names(anchor, <<v, k>>)
        /\ \A u \in Calls : /\ ~names(call[u].anchor, <<v, k>>)
                            /\ u = v \/ ~names(call[u], <<v, k>>)
    BY <1>0, <2>1 DEF FreshInv
  <2> QED BY <1>1, <2>2 DEF names
<1>25. QueuedInv'
  BY <1>4 DEF QueuedInv
<1>26. SettleInv'
  BY <1>4 DEF SettleInv, quiet
<1>27. FinishInv'
  BY <1>4 DEF FinishInv, quiet
<1>28. AheadInv'
  BY <1>4 DEF AheadInv, ahead, quiet
<1>29. StartingInv'
  BY <1>1, <1>4, Present DEF StartingInv
<1>30. RevokingInv'
  BY <1>4, Present DEF RevokingInv
<1>31. AnchorRestorable'
  BY <1>0, <1>1, <1>3 DEF AnchorRestorable
<1>32. AnswersHold'
  BY <1>0, <1>1, <1>3 DEF AnswersHold
<1>33. TrustedNotRevoked'
  BY <1>0, <1>1 DEF TrustedNotRevoked, StartingInv, Tombstoned
<1> QED BY <1>3, <1>20, <1>21, <1>22, <1>23, <1>24, <1>25, <1>26, <1>27,
           <1>28, <1>29, <1>30, <1>31, <1>32, <1>33
           DEF ControlInv

LEMMA StutterKeeps ==
    ASSUME ControlInv, UNCHANGED vars
    PROVE  ControlInv'
<1>0. /\ TypeOK /\ LocalsInv /\ DownInv /\ FilesInv /\ CopiesInv
      /\ FreshInv /\ QueuedInv /\ SettleInv /\ FinishInv /\ AheadInv
      /\ StartingInv /\ RevokingInv
      /\ AnchorRestorable /\ AnswersHold /\ TrustedNotRevoked
  BY DEF ControlInv
<1>1. /\ UNCHANGED <<disk, witness, handle, provider, view, anchor>>
      /\ UNCHANGED <<operation, mutex, state, call, told, restarts>>
  BY DEF vars
<1>3. TypeOK'
  BY <1>0, <1>1 DEF TypeOK
<1>20. LocalsInv'
  <2>1. ASSUME NEW u \in Calls
        PROVE  call'[u] = call[u] /\ settling(u)' = settling(u)
    BY <1>1 DEF settling
  <2> QED BY <1>0, <2>1 DEF LocalsInv
<1>21. DownInv'
  BY <1>0, <1>1 DEF DownInv, quiet
<1>22. FilesInv'
  BY <1>0, <1>1 DEF FilesInv
<1>23. CopiesInv'
  BY <1>0, <1>1 DEF CopiesInv, quiet, early
<1>24. FreshInv'
  <2> SUFFICES ASSUME NEW v \in Calls, NEW k \in {1, 2}, notYet(v, k)'
               PROVE  /\ <<v, k>> \notin disk'.seen.by \cup disk'.safe.by
                      /\ <<v, k>> \notin told'.refused
                      /\ ~names(witness'.seen, <<v, k>>)
                      /\ ~names(witness'.safe, <<v, k>>)
                      /\ ~names(provider', <<v, k>>)
                      /\ ~names(anchor', <<v, k>>)
                      /\ \A u \in Calls :
                           /\ ~names(call'[u].anchor, <<v, k>>)
                           /\ u = v \/ ~names(call'[u], <<v, k>>)
    BY DEF FreshInv, names
  <2>1. notYet(v, k)
    BY <1>1 DEF notYet, early
  <2>2. /\ <<v, k>> \notin disk.seen.by \cup disk.safe.by
        /\ <<v, k>> \notin told.refused
        /\ ~names(witness.seen, <<v, k>>) /\ ~names(witness.safe, <<v, k>>)
        /\ ~names(provider, <<v, k>>) /\ ~names(anchor, <<v, k>>)
        /\ \A u \in Calls : /\ ~names(call[u].anchor, <<v, k>>)
                            /\ u = v \/ ~names(call[u], <<v, k>>)
    BY <1>0, <2>1 DEF FreshInv
  <2> QED BY <1>1, <2>2 DEF names
<1>25. QueuedInv'
  BY <1>0, <1>1 DEF QueuedInv
<1>26. SettleInv'
  BY <1>0, <1>1 DEF SettleInv
<1>27. FinishInv'
  BY <1>0, <1>1 DEF FinishInv
<1>28. AheadInv'
  BY <1>0, <1>1 DEF AheadInv, ahead, settling, early
<1>29. StartingInv'
  BY <1>0, <1>1 DEF StartingInv, quiet
<1>30. RevokingInv'
  BY <1>0, <1>1 DEF RevokingInv, early
<1>31. AnchorRestorable'
  BY <1>0, <1>1 DEF AnchorRestorable
<1>32. AnswersHold'
  BY <1>0, <1>1 DEF AnswersHold
<1>33. TrustedNotRevoked'
  BY <1>0, <1>1 DEF TrustedNotRevoked
<1> QED BY <1>3, <1>20, <1>21, <1>22, <1>23, <1>24, <1>25, <1>26, <1>27,
           <1>28, <1>29, <1>30, <1>31, <1>32, <1>33
           DEF ControlInv

-----------------------------------------------------------------------------
LEMMA InitControl == ASSUME Init PROVE ControlInv
<1>1. PICK association \in {"none", "trusted"} :
        LET g == first(association) IN
        /\ disk = [seen |-> g, safe |-> g]
        /\ witness = [seen |-> settled(1), safe |-> settled(1)]
        /\ handle = [gen |-> g, poisoned |-> FALSE]
        /\ provider = settled(1) /\ view = g /\ anchor = settled(1)
        /\ operation = None /\ mutex = None
        /\ \E r \in classify(g, settled(1)) :
             state = [run |-> "up", recovery |-> r,
                      trusted |-> r = "PAIRED_TRUSTED"]
        /\ call = [t \in Calls |-> unused]
        /\ told = [applied |-> {}, refused |-> {}] /\ restarts = 0
  BY DEF Init
<1> DEFINE g == first(association)
<1>2. /\ g \in Generation /\ g.number = 1 /\ g.by = {}
      /\ g.association \notin Tombstoned
  BY DEF first, Generation, Tombstoned
<1>3. /\ settled(1) \in Anchor /\ settled(1).pending = None
      /\ settled(1).highWater = 1
  BY UnusedType DEF settled
<1> HIDE DEF g
<1>4. /\ disk.seen = g /\ disk.safe = g /\ witness.seen = settled(1)
      /\ witness.safe = settled(1) /\ handle = [gen |-> g, poisoned |-> FALSE]
      /\ handle.gen = g /\ provider = settled(1) /\ view = g
      /\ anchor = settled(1) /\ told.applied = {} /\ told.refused = {}
      /\ state.run = "up"
  BY <1>1 DEF g
<1>5. \A u \in Calls :
        /\ call[u].at = "idle" /\ call[u].kind = None /\ call[u].part = 1
        /\ call[u].pending = None /\ call[u].anchor = settled(1)
        /\ call[u].job = "none" /\ call[u].result = None
  BY <1>1 DEF unused
<1>6. TypeOK
  <2>1. state \in [run : {"up", "starting", "down"}, recovery : Recoveries,
                   trusted : BOOLEAN]
    <3>1. PICK r \in classify(g, settled(1)) :
            state = [run |-> "up", recovery |-> r,
                     trusted |-> r = "PAIRED_TRUSTED"]
      BY <1>1 DEF g
    <3>2. r \in Recoveries
      BY DEF classify, Recoveries
    <3> QED BY <3>1, <3>2
  <2>2. call \in [Calls -> Locals]
    BY <1>1, UnusedType
  <2>3. restarts \in 0..MaxRestarts
    BY <1>1, ControlAssumption
  <2>4. /\ disk \in [seen : Generation, safe : Generation]
        /\ witness \in [seen : Anchor, safe : Anchor]
        /\ handle \in [gen : Generation, poisoned : BOOLEAN]
        /\ view \in Generation /\ provider \in Anchor /\ anchor \in Anchor
    BY <1>1, <1>2, <1>3 DEF g
  <2>5. told \in [applied : SUBSET Identity, refused : SUBSET Identity]
    BY <1>1
  <2> QED BY <1>1, <2>1, <2>2, <2>3, <2>4, <2>5 DEF TypeOK
<1>7. LocalsInv
  BY <1>5, Present DEF LocalsInv, quiet, early, settling
<1>8. DownInv /\ StartingInv /\ RevokingInv
  BY <1>4, <1>5, Present DEF DownInv, StartingInv, RevokingInv
<1>9. FilesInv
  BY <1>2, <1>3, <1>4 DEF FilesInv, anchorFormed
<1>10. CopiesInv
  BY <1>2, <1>3, <1>4, <1>5 DEF CopiesInv, past, early, quiet
<1>11. FreshInv
  BY <1>2, <1>3, <1>4, <1>5 DEF FreshInv, names
<1>12. QueuedInv /\ SettleInv /\ FinishInv
  BY <1>5 DEF QueuedInv, SettleInv, FinishInv
<1>13. AheadInv
  BY <1>5 DEF AheadInv, ahead
<1>14. AnchorRestorable /\ AnswersHold /\ TrustedNotRevoked
  BY <1>2, <1>3, <1>4
     DEF AnchorRestorable, restoreAnchor, AnswersHold, TrustedNotRevoked
<1> QED BY <1>6, <1>7, <1>8, <1>9, <1>10, <1>11, <1>12, <1>13, <1>14
        DEF ControlInv

LEMMA PublishingKeeps ==
    ASSUME ObservationSound, ControlInv, NEW t \in Calls, Publishing(t)
    PROVE  ControlInv'
  BY PrepareControlKeeps, PrepareFailsKeeps, CompareAndStageKeeps,
     StageRefusedKeeps, CommitControlKeeps, CommitFailsKeeps,
     CommitExpiredKeeps, CommitLateKeeps, CommitResultKeeps,
     CompareAndFinalizeKeeps, CompareAndClearKeeps, SettleRefusedKeeps
     DEF Publishing

LEMMA EnteringKeeps ==
    ASSUME ObservationSound, ControlInv, NEW t \in Calls, Entering(t)
    PROVE  ControlInv'
  BY ConfirmKeeps, RevokeKeeps, RevokeAgainKeeps, RevokePublishesKeeps,
     RepairKeeps, ReconcileKeeps, ReconcilePendingKeeps, ObserveKeeps,
     RetryKeeps, AttemptPrepareKeeps, AttemptKeeps, StartPublishesKeeps
     DEF Entering

LEMMA FinishingKeeps ==
    ASSUME ObservationSound, ControlInv, NEW t \in Calls, Finishing(t)
    PROVE  ControlInv'
  BY ConfirmFinishKeeps, ReceiptFinishKeeps, RepairFinishKeeps,
     RetryFinishKeeps, AttemptFinishKeeps, StartFinishKeeps,
     RevokeFinishKeeps, WithdrawnKeeps, WithdrawalIncompleteKeeps,
     ReconcileReceiptKeeps, ReconcileViewKeeps, ReconcileFinishKeeps
     DEF Finishing


\* The invariant that carries the four theorems below.
LEMMA ControlInvariant == ASSUME ObservationSound PROVE Spec => []ControlInv
<1>1. Init => ControlInv
  BY InitControl
<1>2. ControlInv /\ [Next]_vars => ControlInv'
  BY PublishingKeeps, EnteringKeeps, FinishingKeeps, CrashKeeps, StartKeeps,
     ClassifyKeeps, StutterKeeps DEF Next
<1> QED BY <1>1, <1>2, PTL DEF Spec

\* The files, the coordinator and every call keep their types.
THEOREM ControlTypes == ASSUME ObservationSound PROVE Spec => []TypeOK
<1>1. ControlInv => TypeOK
  BY DEF ControlInv
<1> QED BY <1>1, ControlInvariant, PTL

\* However many operations overlap, fail, expire and are cut off by crashes,
\* restoreAnchor accepts every pair of a store and an ANCHOR file that a crash
\* can leave: the runtime starts again.
THEOREM AnchorAlwaysRestorable ==
    ASSUME ObservationSound PROVE Spec => []AnchorRestorable
<1>1. ControlInv => AnchorRestorable
  BY DEF ControlInv
<1> QED BY <1>1, ControlInvariant, PTL

\* What a caller or a reconciliation was told of a publication stays true: a
\* durable one is in every later generation of the store and an unchanged one
\* in none, not even when its goroutine runs after the answer.
THEOREM AnswersStayTrue == ASSUME ObservationSound PROVE Spec => []AnswersHold
<1>1. ControlInv => AnswersHold
  BY DEF ControlInv
<1> QED BY <1>1, ControlInvariant, PTL

\* The coordinator never trusts a peer whose tombstone is durable.
THEOREM TrustYieldsToTombstone ==
    ASSUME ObservationSound PROVE Spec => []TrustedNotRevoked
<1>1. ControlInv => TrustedNotRevoked
  BY DEF ControlInv
<1> QED BY <1>1, ControlInvariant, PTL
=============================================================================
