--------------------------- MODULE Pairing_proofs ---------------------------
(***************************************************************************)
(* Pairing, for every number of peers, operators, windows and connections  *)
(* and for every scenario: what is trusted was confirmed, and a commit is  *)
(* alone; the service accepts registrations only for a window or its       *)
(* commit; with one operator, what is published is trusted.                *)
(*                                                                         *)
(* First what the coordinator's operators do (Sound: what its fields say   *)
(* of each other and of the confirmations; Ordinary: what a section leaves *)
(* alone).  Then what a critical section does to the threads, once for all *)
(* of them, and the steps outside the coordinator's mutex.                 *)
(***************************************************************************)
EXTENDS Pairing, TLAPS

registering == {"Register", "TransientRegister"}

\* Every registration in the sequence is of a confirmed connection.
backed(effects, K) ==
    \A i \in DOMAIN effects :
        effects[i].kind \in registering =>
            <<effects[i].ski, effects[i].conn>> \in K

commitOps == {"confirm", "ship", "completed", "registered"}
commits == {"publish", "finish"}
waiting == {"ask", "asked"}

-----------------------------------------------------------------------------
(* The inductive invariant.                                                 *)

\* What the fields of the coordinator say of each other.
PhasesOf(d) ==
    /\ d.phase = "OpenEmpty" => d.window # "none" /\ d.cand = NoCandidate
    /\ d.phase = "PairingClosed" => d.window = "none" /\ d.cand = NoCandidate
    /\ d.phase \in {"CandidatePending", "TransientTrusted"} =>
         d.window # "none"
    /\ d.cand # NoCandidate /\ d.attached =>
         d.phase \in {"CandidatePending", "TransientTrusted", "Committing"}
    /\ d.phase = "Committing" => d.window = "none" /\ d.inflight
    /\ d.phase = "TransientTrusted" => ~d.inflight
    /\ d.phase = "Disabled" => d.window = "none" /\ d.cand = NoCandidate
    /\ ~d.attached => d.phase = "Disabled" /\ ~d.inflight
    /\ d.fault => d.phase = "Disabled" /\ d.recovery = "QUARANTINED"
    /\ d.recovery = "QUARANTINED" => d.phase = "Disabled"

\* Only what was confirmed (K) is authorized or about to be registered.
Typed(d, K) ==
    /\ d \in Coordinator
    /\ d.cand # NoCandidate /\ d.cand.authorized
         => <<d.cand.ski, d.cand.conn>> \in K
    /\ backed(d.pending, K)

Sound(d, K) == Typed(d, K) /\ PhasesOf(d)

\* The operations, and the places outside the mutex, that are about a peer.
withPeer == {"select", "queued", "confirm", "authorize", "admit", "bind",
             "ship", "completed", "registered", "closed", "publish", "finish",
             "settle"}
onPeer == {"queue", "publishing", "new", "begun", "tail", "bound", "discard",
           "failing", "restore", "registering"}

classes == {"pairing_authorized", "reconnect_authorized"}

\* The locals of thread t follow from where it is.
FrameOf(t, q) ==
    /\ q \in Frame
    /\ q.op = "publish" => q.at \in {"enter", "publishing"}
    /\ q.at = "publishing" => q.op = "publish"
    /\ q.op = "finish" => q.at \in {"enter"} \cup waiting
    /\ q.op = "queued" => q.at = "enter"
    /\ q.at = "queue" => q.op = "select"
    /\ q.op \in {"select", "queued", "confirm"} => t \in Operators
    /\ q.at \in waiting /\ q.body => expires(q.op)
    /\ q.at \in waiting /\ ~q.body => q.op # "authorize"
    /\ q.at \in waiting /\ ~q.body /\ q.op \in commitOps \cup {"select"}
         => q.result # "yes"
    /\ q.at = "new" => q.result \in classes
    /\ q.at \in onPeer => q.op \in withPeer
    /\ q.op \in withPeer => q.ski \in SKIs
    /\ q.op = "confirm" => q.conn \in 1..MaxConnections
    /\ q.op = "closed" /\ q.kind = "terminated" => q.saved \in F!Connection
    /\ q.at = "restore" => q.saved \in F!Connection

FramesInv == \A t \in Threads : FrameOf(t, pc[t])

\* The thread publishes; it waits for the candidate queue of the service.
commitsIn(q) == q.at = "publishing" \/ q.op \in commits
queuesIn(q) == q.at = "queue" \/ q.op = "queued"

\* What a thread that publishes knows: its confirmation, and that the
\* coordinator waits for it.
CommitOf(q, d, K, D) ==
    /\ <<q.ski, q.conn>> \in K
    /\ d.attached => d.inflight
    /\ d.attached /\ ~d.fault => d.phase = "Committing" \/ q.at \in waiting
    /\ q.at \in waiting => d.phase \notin {"Committing", "TransientTrusted"}
    /\ q.op = "finish" =>
         /\ q.result # "late"
         /\ q.result = "durable" => <<q.ski, q.conn>> \in D

CommitInv ==
    /\ \A t, u \in Threads : commitsIn(pc[t]) /\ commitsIn(pc[u]) => t = u
    /\ \A t \in Threads :
         commitsIn(pc[t]) => CommitOf(pc[t], c, confirmed, durable)

\* One queue call at a time, and its selection is there.
queueing(d) == d.sel # NoSelection /\ ~d.sel.completed

QueueInv ==
    /\ \A t, u \in Threads : queuesIn(pc[t]) /\ queuesIn(pc[u]) => t = u
    /\ \A t \in Threads : queuesIn(pc[t]) => queueing(c)

PairingInv ==
    /\ TypeOK /\ scenario \in Scenario
    /\ Sound(c, confirmed) /\ backed(queue, confirmed)
    /\ FramesInv /\ CommitInv /\ QueueInv
    /\ TrustIsConfirmed

-----------------------------------------------------------------------------
OneOperator == \A t, u \in Operators : t = u

busy == {"TransientTrusted", "Committing"}

\* The thread is about to settle the publication of b.
settles(q, b) ==
    /\ q.op = "finish" /\ q.at = "enter"
    /\ q.result \in {"durable", "unknown"} /\ b = <<q.ski, q.conn>>

\* With one operator no queue call is out during a commit, so that nothing
\* takes the candidate away.
SoleInv ==
    /\ \A t \in Threads : queuesIn(pc[t]) => c.phase \notin busy
    /\ c.phase = "Committing" => c.cand # NoCandidate
    /\ c.attached /\ c.recovery # "QUARANTINED" =>
         \A b \in durable : \/ b[1] \in c.trusted
                            \/ \E t \in Threads : settles(pc[t], b)


-----------------------------------------------------------------------------
\* There is something to accept pairing registrations for.
shown(d) == d.window # "none" \/ d.phase = "Committing"

\* The thread is turning the pairing registration off.
turnsOff(q) == q.at \in waiting /\ q.asked = "off"

\* The service and the coordinator agree between two calls; the registration
\* is on for a window or its commit, or somebody is turning it off; and only
\* the opening of a window turns it on.
WatchInv ==
    /\ c.known
    /\ \A t, u \in Threads :
         pc[t].at = "asked" /\ pc[u].at = "asked" => t = u
    /\ (\A t \in Threads : pc[t].at # "asked") /\ ~c.fault =>
         service.advertised = c.enabled
    /\ \A t \in Threads : pc[t].at = "asked" /\ ~pc[t].err =>
         service.advertised = (pc[t].asked = "on")
    /\ c.enabled /\ ~c.fault => shown(c) \/ \E t \in Threads : turnsOff(pc[t])
    /\ \A t \in Threads : pc[t].at \in waiting /\ pc[t].asked = "on" =>
         pc[t].op = "open" /\ ~pc[t].body /\ pc[t].result = "yes"

-----------------------------------------------------------------------------
(* Sequences of effects.                                                    *)

LEMMA Absent ==
    /\ \A k \in Candidate : k # NoCandidate
    /\ \A k \in Selection : k # NoSelection
  BY SKIAssumption DEF Candidate, Selection, NoCandidate, NoSelection

LEMMA BackedAppend ==
    ASSUME NEW K, NEW p \in Seq(Effects), NEW e \in Effects, backed(p, K),
           e.kind \in registering => <<e.ski, e.conn>> \in K
    PROVE  Append(p, e) \in Seq(Effects) /\ backed(Append(p, e), K)
  BY DEF backed

LEMMA BackedConcat ==
    ASSUME NEW K, NEW p \in Seq(Effects), NEW q \in Seq(Effects),
           backed(p, K), backed(q, K)
    PROVE  p \o q \in Seq(Effects) /\ backed(p \o q, K)
<1>1. /\ p \o q \in Seq(Effects) /\ Len(p \o q) = Len(p) + Len(q)
      /\ Len(p) \in Nat /\ Len(q) \in Nat
      /\ DOMAIN p = 1..Len(p) /\ DOMAIN q = 1..Len(q)
      /\ DOMAIN (p \o q) = 1..(Len(p) + Len(q))
  OBVIOUS
<1>2. ASSUME NEW i \in DOMAIN (p \o q)
      PROVE  (p \o q)[i].kind \in registering =>
                 <<(p \o q)[i].ski, (p \o q)[i].conn>> \in K
  <2>0. i \in Nat /\ Len(p) \in Nat
    BY <1>1, <1>2
  <2>1. CASE i <= Len(p)
    <3>1. i \in DOMAIN p /\ (p \o q)[i] = p[i]
      BY <1>1, <1>2, <2>1
    <3> QED BY <3>1 DEF backed
  <2>2. CASE i > Len(p)
    <3>1. (i - Len(p)) \in DOMAIN q /\ (p \o q)[i] = q[i - Len(p)]
      BY <1>1, <1>2, <2>2
    <3> QED BY <3>1 DEF backed
  <2>3. i <= Len(p) \/ i > Len(p)
    BY <2>0
  <2> QED BY <2>1, <2>2, <2>3, Zenon
<1> QED BY <1>1, <1>2 DEF backed

LEMMA BackedTail ==
    ASSUME NEW K, NEW p \in Seq(Effects), p # <<>>, backed(p, K)
    PROVE  /\ Tail(p) \in Seq(Effects) /\ backed(Tail(p), K)
           /\ Head(p) \in Effects
           /\ Head(p).kind \in registering =>
                <<Head(p).ski, Head(p).conn>> \in K
<1>1. /\ Tail(p) \in Seq(Effects) /\ Head(p) \in Effects
      /\ Head(p) = p[1] /\ 1 \in DOMAIN p
      /\ \A i \in DOMAIN Tail(p) : (i + 1) \in DOMAIN p /\ Tail(p)[i] = p[i + 1]
  OBVIOUS
<1> QED BY <1>1 DEF backed

LEMMA BackedMore ==
    ASSUME NEW K, NEW L, K \subseteq L, NEW p, backed(p, K)
    PROVE  backed(p, L)
  BY DEF backed

LEMMA NothingBacked ==
    ASSUME NEW K
    PROVE  <<>> \in Seq(Effects) /\ backed(<<>>, K)
  BY DEF backed

-----------------------------------------------------------------------------
(* What the coordinator's helpers leave alone.                              *)

\* Candidate, selection and pending effects apart, nothing changes, and a
\* selection whose queue call is out stays.
SelKept(d, e) == queueing(d) => queueing(e)

Quiet(d, e) ==
    /\ e.selecting = d.selecting /\ e.phase = d.phase /\ e.window = d.window
    /\ e.lifecycle = d.lifecycle /\ e.trusted = d.trusted
    /\ e.recovery = d.recovery /\ e.operation = d.operation
    /\ e.inflight = d.inflight /\ e.generation = d.generation
    /\ e.timer = d.timer /\ e.known = d.known /\ e.enabled = d.enabled
    /\ e.fault = d.fault /\ e.attached = d.attached /\ e.ask = d.ask
    /\ SelKept(d, e)

LEMMA QuietTrans ==
    ASSUME NEW d, NEW e, NEW g, Quiet(d, e), Quiet(e, g)
    PROVE  Quiet(d, g)
  BY DEF Quiet, SelKept

LEMMA QuietPhases ==
    ASSUME NEW d, NEW e, Quiet(d, e), PhasesOf(d),
           e.cand # NoCandidate => d.cand # NoCandidate
    PROVE  PhasesOf(e)
  BY DEF Quiet, PhasesOf

effectKinds == {"Cancel", "Register", "CancelUnbound", "TransientRegister",
                "TransientUnregister", "TransientFinalize"}

LEMMA EffectKeeps ==
    ASSUME NEW K, NEW d, Typed(d, K), NEW s \in SKIs, NEW n \in Nat,
           NEW kind \in effectKinds,
           kind \in registering => <<s, n>> \in K
    PROVE  LET e == effect(d, kind, s, n) IN
           /\ Typed(e, K) /\ Quiet(d, e)
           /\ e.cand = d.cand /\ e.sel = d.sel
<1> DEFINE x == [kind |-> kind, ski |-> s, conn |-> n]
           e == effect(d, kind, s, n)
<1>1. CASE ~d.attached
  BY <1>1 DEF effect, Quiet, SelKept
<1>2. CASE d.attached
  <2>0. x \in Effects /\ x.kind = kind /\ x.ski = s /\ x.conn = n
    BY DEF Effects, effectKinds
  <2>1. /\ Append(d.pending, x) \in Seq(Effects)
        /\ backed(Append(d.pending, x), K)
    BY <2>0, BackedAppend DEF Typed, Coordinator
  <2>2. e = [d EXCEPT !.pending = Append(d.pending, x)]
    BY <1>2 DEF effect
  <2>3. d \in Coordinator
    BY DEF Typed
  <2> HIDE DEF x, e
  <2>4. /\ e \in Coordinator /\ e.pending = Append(d.pending, x)
        /\ e.cand = d.cand /\ e.sel = d.sel
    BY <2>1, <2>2, <2>3 DEF Coordinator
  <2>5. Quiet(d, e)
    BY <2>2, <2>3 DEF Coordinator, Quiet, SelKept, queueing
  <2> QED BY <2>1, <2>4, <2>5 DEF Typed, e
<1> QED BY <1>1, <1>2 DEF Typed, Coordinator

LEMMA RevokeKeeps ==
    ASSUME NEW K, NEW d, Typed(d, K)
    PROVE  LET e == revokeTransientTrustLocked(d) IN
           /\ Typed(e, K) /\ Quiet(d, e) /\ e.sel = d.sel
           /\ e.cand = NoCandidate <=> d.cand = NoCandidate
           /\ d.cand # NoCandidate =>
                e.cand.ski = d.cand.ski /\ e.cand.conn = d.cand.conn
<1> DEFINE e == revokeTransientTrustLocked(d)
           g == [d EXCEPT !.cand.revoked = TRUE]
<1>0. d \in Coordinator
  BY DEF Typed
<1>1. CASE ~(d.cand # NoCandidate /\ d.cand.authorized /\ ~d.cand.revoked)
  <2>1. e = d
    BY <1>1 DEF revokeTransientTrustLocked
  <2> QED BY <2>1 DEF Quiet, SelKept
<1>2. CASE d.cand # NoCandidate /\ d.cand.authorized /\ ~d.cand.revoked
  <2>1. d.cand \in Candidate
    BY <1>0, <1>2 DEF Coordinator
  <2>2. /\ g.cand \in Candidate /\ g.cand.ski = d.cand.ski
        /\ g.cand.conn = d.cand.conn /\ g.cand.authorized
        /\ d.cand.ski \in SKIs /\ d.cand.conn \in Nat
    BY <1>0, <1>2, <2>1 DEF Coordinator, Candidate
  <2>3. g \in Coordinator /\ g.pending = d.pending /\ g.sel = d.sel
    BY <1>0, <2>2 DEF Coordinator
  <2>4. Quiet(d, g)
    BY <1>0, <2>2 DEF Coordinator, Quiet, SelKept, queueing
  <2>5. Typed(g, K)
    BY <1>2, <2>2, <2>3 DEF Typed
  <2>6. "TransientUnregister" \in effectKinds \ registering
    BY DEF effectKinds, registering
  <2>7. e = effect(g, "TransientUnregister", d.cand.ski, d.cand.conn)
    BY <1>2 DEF revokeTransientTrustLocked
  <2>8. Typed(e, K) /\ Quiet(g, e) /\ e.cand = g.cand /\ e.sel = g.sel
    <3> HIDE DEF g, e
    <3> DEFINE s == d.cand.ski
               n == d.cand.conn
    <3>1. s \in SKIs /\ n \in Nat
      BY <2>2
    <3>2. e = effect(g, "TransientUnregister", s, n)
      BY <2>7
    <3> HIDE DEF s, n
    <3> QED BY <2>5, <2>6, <3>1, <3>2, EffectKeeps
  <2>9. Quiet(d, e)
    BY <2>4, <2>8, QuietTrans
  <2>10. g.cand # NoCandidate
    BY <2>2, Absent
  <2> QED BY <1>2, <2>2, <2>3, <2>8, <2>9, <2>10
<1> QED BY <1>1, <1>2

LEMMA CancelRemoteKeeps ==
    ASSUME NEW K, NEW d, Typed(d, K), NEW s \in SKIs, NEW n \in Nat
    PROVE  LET e == cancelRemoteLocked(d, s, n) IN
           /\ Typed(e, K) /\ Quiet(d, e)
           /\ e.cand = d.cand /\ e.sel = d.sel
<1>1. "Cancel" \in effectKinds \ registering
  BY DEF effectKinds, registering
<1> QED BY <1>1, EffectKeeps DEF cancelRemoteLocked

LEMMA CancelSelectionKeeps ==
    ASSUME NEW K, NEW d, Typed(d, K), d.sel # NoSelection
    PROVE  LET e == cancelCandidateSelectionLocked(d) IN
           /\ Typed(e, K) /\ Quiet(d, e) /\ e.cand = d.cand
           /\ e.sel \in Selection /\ e.sel.completed = d.sel.completed
<1> DEFINE e == cancelCandidateSelectionLocked(d)
           g == [d EXCEPT !.sel.cancelled = TRUE]
<1>0. d \in Coordinator /\ d.sel \in Selection
  BY DEF Typed, Coordinator
<1>1. CASE d.sel.cancelled
  BY <1>0, <1>1 DEF cancelCandidateSelectionLocked, Quiet, SelKept
<1>2. CASE ~d.sel.cancelled
  <2>1. /\ g.sel \in Selection /\ g.sel.completed = d.sel.completed
        /\ d.sel.ski \in SKIs
    BY <1>0 DEF Selection, Coordinator
  <2>2. g \in Coordinator /\ g.pending = d.pending /\ g.cand = d.cand
    BY <1>0, <2>1 DEF Coordinator
  <2>3. SelKept(d, g)
    BY <2>1, Absent DEF SelKept, queueing
  <2>4. Quiet(d, g)
    BY <1>0, <2>3 DEF Coordinator, Quiet
  <2>5. Typed(g, K)
    BY <2>2 DEF Typed
  <2>6. "CancelUnbound" \in effectKinds \ registering /\ 0 \in Nat
    BY DEF effectKinds, registering
  <2>7. e = effect(g, "CancelUnbound", d.sel.ski, 0)
    BY <1>2 DEF cancelCandidateSelectionLocked
  <2>8. Typed(e, K) /\ Quiet(g, e) /\ e.cand = g.cand /\ e.sel = g.sel
    <3> HIDE DEF g, e
    <3> QED BY <2>1, <2>5, <2>6, <2>7, EffectKeeps
  <2> QED BY <2>1, <2>2, <2>4, <2>8, QuietTrans
<1> QED BY <1>1, <1>2

LEMMA FinishSelectionKeeps ==
    ASSUME NEW K, NEW d, Typed(d, K), NEW b \in BOOLEAN
    PROVE  LET e == finishCandidateSelectionLocked(d, b) IN
           Typed(e, K) /\ Quiet(d, e) /\ e.cand = d.cand
<1> DEFINE e == finishCandidateSelectionLocked(d, b)
           g == IF b THEN cancelCandidateSelectionLocked(d) ELSE d
<1>1. CASE d.sel = NoSelection
  BY <1>1 DEF finishCandidateSelectionLocked, Quiet, SelKept
<1>2. CASE d.sel # NoSelection
  <2>1. /\ Typed(g, K) /\ Quiet(d, g) /\ g.cand = d.cand
        /\ g.sel \in Selection /\ g.sel.completed = d.sel.completed
    <3>1. CASE b
      BY <1>2, <3>1, CancelSelectionKeeps
    <3>2. CASE ~b
      BY <1>2, <3>2 DEF Typed, Coordinator, Quiet, SelKept
    <3> QED BY <3>1, <3>2
  <2>2. e = IF g.sel.completed THEN [g EXCEPT !.sel = NoSelection]
                               ELSE [g EXCEPT !.sel.aborted = TRUE]
    BY <1>2 DEF finishCandidateSelectionLocked
  <2>3. g \in Coordinator
    BY <2>1 DEF Typed
  <2>4. CASE g.sel.completed
    <3>1. /\ e \in Coordinator /\ e.cand = g.cand /\ e.pending = g.pending
          /\ e.sel = NoSelection
      BY <2>2, <2>3, <2>4 DEF Coordinator
    <3>2. SelKept(d, e)
      BY <2>1, <2>4 DEF SelKept, queueing
    <3>3. Quiet(d, e)
      BY <2>1, <2>2, <2>3, <2>4, <3>2 DEF Coordinator, Quiet
    <3> QED BY <2>1, <3>1, <3>3 DEF Typed
  <2>5. CASE ~g.sel.completed
    <3>1. e = [g EXCEPT !.sel.aborted = TRUE]
      BY <2>2, <2>5
    <3> HIDE DEF g, e
    <3>2. e.sel \in Selection /\ ~e.sel.completed
      BY <2>1, <2>3, <2>5, <3>1 DEF Coordinator, Selection
    <3>3. /\ e \in Coordinator /\ e.cand = g.cand /\ e.pending = g.pending
      BY <2>3, <3>1, <3>2 DEF Coordinator
    <3>4. SelKept(d, e)
      BY <3>2, Absent DEF SelKept, queueing
    <3>5. Quiet(d, e)
      BY <2>1, <2>3, <3>1, <3>4 DEF Coordinator, Quiet
    <3> QED BY <2>1, <3>3, <3>5 DEF Typed, e
  <2> QED BY <2>4, <2>5
<1> QED BY <1>1, <1>2

LEMMA DropKeeps ==
    ASSUME NEW K, NEW d, Typed(d, K), NEW b \in BOOLEAN
    PROVE  LET e == dropCandidate(d, b) IN
           Typed(e, K) /\ Quiet(d, e) /\ e.cand = NoCandidate /\ e.sel = d.sel
<1> DEFINE e == dropCandidate(d, b)
           g == revokeTransientTrustLocked(d)
           h == IF b
                THEN cancelRemoteLocked(g, d.cand.ski, d.cand.conn) ELSE g
<1>1. CASE d.cand = NoCandidate
  BY <1>1 DEF dropCandidate, Quiet, SelKept
<1>2. CASE d.cand # NoCandidate
  <2>1. Typed(g, K) /\ Quiet(d, g) /\ g.sel = d.sel
    BY RevokeKeeps
  <2>2. d.cand.ski \in SKIs /\ d.cand.conn \in Nat
    BY <1>2 DEF Typed, Coordinator, Candidate
  <2>3. Typed(h, K) /\ Quiet(g, h) /\ h.sel = g.sel
    <3>1. CASE b
      BY <2>1, <2>2, <3>1, CancelRemoteKeeps
    <3>2. CASE ~b
      BY <2>1, <3>2 DEF Quiet, SelKept
    <3> QED BY <3>1, <3>2
  <2>4. e = [h EXCEPT !.cand = NoCandidate]
    BY <1>2 DEF dropCandidate
  <2>5. h \in Coordinator
    BY <2>3 DEF Typed
  <2>6. /\ e \in Coordinator /\ e.cand = NoCandidate /\ e.pending = h.pending
        /\ e.sel = h.sel
    BY <2>4, <2>5 DEF Coordinator
  <2>7. Quiet(h, e)
    BY <2>4, <2>5 DEF Coordinator, Quiet, SelKept, queueing
  <2> QED BY <2>1, <2>3, <2>6, <2>7, QuietTrans DEF Typed
<1> QED BY <1>1, <1>2

-----------------------------------------------------------------------------
(* What a section may do that neither starts nor settles a commit.          *)

Orderly(d, e) ==
    /\ e.attached = d.attached /\ e.inflight = d.inflight
    /\ d.fault => e.fault
    /\ e.phase \in {"Committing", "TransientTrusted"} => e.phase = d.phase
    /\ d.phase = "Committing" => e.phase = "Committing" \/ e.fault
    /\ \/ e.recovery = d.recovery /\ e.trusted = d.trusted
       \/ e.recovery = "QUARANTINED" /\ e.trusted = {}

Ordinary(d, e) ==
    /\ Orderly(d, e) /\ SelKept(d, e)
    /\ e.phase = "Committing" /\ d.cand # NoCandidate => e.cand # NoCandidate

LEMMA OrderlyTrans ==
    ASSUME NEW d, NEW e, NEW g, Orderly(d, e), Orderly(e, g)
    PROVE  Orderly(d, g)
  BY DEF Orderly

LEMMA OrdinaryTrans ==
    ASSUME NEW d, NEW e, NEW g, Ordinary(d, e), Ordinary(e, g)
    PROVE  Ordinary(d, g)
  BY OrderlyTrans DEF Ordinary, Orderly, SelKept

LEMMA OrdinarySelf ==
    ASSUME NEW d
    PROVE  Ordinary(d, d)
  BY DEF Ordinary, Orderly, SelKept

LEMMA QuietOrdinary ==
    ASSUME NEW d, NEW e, Quiet(d, e),
           d.cand # NoCandidate => e.cand # NoCandidate
    PROVE  Ordinary(d, e)
  BY DEF Quiet, Ordinary, Orderly

LEMMA FailKeeps ==
    ASSUME NEW K, NEW d, Typed(d, K), ~d.attached => ~d.inflight
    PROVE  LET e == failPairingRegistrationLocked(d) IN
           /\ Sound(e, K) /\ Ordinary(d, e) /\ e.ask = d.ask
           /\ e.fault /\ e.phase = "Disabled"
<1> DEFINE g == dropCandidate(d, TRUE)
           h == [g EXCEPT !.phase = "Disabled", !.window = "none"]
           k == finishCandidateSelectionLocked(h, TRUE)
           e == failPairingRegistrationLocked(d)
<1>1. Typed(g, K) /\ Quiet(d, g) /\ g.cand = NoCandidate
  BY DropKeeps
<1>2. e = [k EXCEPT !.fault = TRUE, !.recovery = "QUARANTINED",
                    !.trusted = {}, !.timer = "none"]
  BY DEF failPairingRegistrationLocked
<1>3. /\ h \in Coordinator /\ h.phase = "Disabled" /\ h.window = "none"
      /\ h.cand = g.cand /\ h.pending = g.pending /\ h.sel = g.sel
      /\ h.attached = g.attached /\ h.inflight = g.inflight
      /\ h.ask = g.ask
  <2> HIDE DEF g
  <2> QED BY <1>1 DEF Typed, Coordinator, Phases
<1> HIDE DEF g, h
<1>4. Typed(h, K)
  BY <1>1, <1>3 DEF Typed
<1>5. Typed(k, K) /\ Quiet(h, k) /\ k.cand = h.cand
  BY <1>4, FinishSelectionKeeps
<1> HIDE DEF k, e
<1>6. /\ e \in Coordinator /\ e.phase = k.phase /\ e.window = k.window
      /\ e.cand = k.cand /\ e.pending = k.pending /\ e.sel = k.sel
      /\ e.attached = k.attached /\ e.inflight = k.inflight
      /\ e.ask = k.ask /\ e.fault /\ e.recovery = "QUARANTINED"
      /\ e.trusted = {}
  BY <1>2, <1>5 DEF Typed, Coordinator
<1>7. Typed(e, K)
  BY <1>5, <1>6 DEF Typed
<1>8. /\ e.attached = d.attached /\ e.inflight = d.inflight /\ e.ask = d.ask
      /\ e.phase = "Disabled" /\ e.window = "none" /\ e.cand = NoCandidate
  BY <1>1, <1>3, <1>5, <1>6 DEF Quiet
<1>9. PhasesOf(e)
  BY <1>6, <1>8 DEF PhasesOf
<1>10. SelKept(d, e)
  BY <1>1, <1>3, <1>5, <1>6 DEF Quiet, SelKept, queueing
<1>11. Ordinary(d, e)
  BY <1>6, <1>8, <1>10 DEF Ordinary, Orderly
<1> QED BY <1>6, <1>7, <1>8, <1>9, <1>11 DEF Sound, e

LEMMA SetWaitingKeeps ==
    ASSUME NEW K, NEW d, Typed(d, K), NEW value \in BOOLEAN,
           d.fault => (~d.attached => ~d.inflight),
           ~d.fault => PhasesOf(d)
    PROVE  LET e == setWaitingLocked(d, value) IN
           /\ Sound(e, K) /\ Ordinary(d, e)
           /\ e.phase # d.phase => e.phase = "Disabled"
<1> DEFINE e == setWaitingLocked(d, value)
<1>1. CASE d.fault
  <2>1. e = failPairingRegistrationLocked(d)
    BY <1>1 DEF setWaitingLocked
  <2> QED BY <1>1, <2>1, FailKeeps
<1>2. CASE ~d.fault
  <2>1. CASE e = d
    BY <1>2, <2>1, OrdinarySelf DEF Sound
  <2>2. CASE e # d
    <3>1. e = [d EXCEPT !.ask = IF value THEN "on" ELSE "off"]
      BY <1>2, <2>2 DEF setWaitingLocked
    <3> HIDE DEF e
    <3>2. /\ e \in Coordinator /\ e.cand = d.cand /\ e.pending = d.pending
          /\ e.sel = d.sel /\ e.phase = d.phase /\ e.window = d.window
          /\ e.attached = d.attached /\ e.inflight = d.inflight
          /\ e.fault = d.fault /\ e.recovery = d.recovery
          /\ e.trusted = d.trusted
      BY <3>1 DEF Typed, Coordinator
    <3>3. Typed(e, K)
      BY <3>2 DEF Typed
    <3>4. PhasesOf(e)
      BY <1>2, <3>2 DEF PhasesOf
    <3>5. Ordinary(d, e)
      BY <3>2 DEF Ordinary, Orderly, SelKept, queueing
    <3> QED BY <3>2, <3>3, <3>4, <3>5 DEF Sound, e
  <2> QED BY <2>1, <2>2
<1> QED BY <1>1, <1>2

LEMMA WaitingSetKeeps ==
    ASSUME NEW K, NEW d, Sound(d, K), NEW value \in BOOLEAN,
           NEW err \in BOOLEAN
    PROVE  LET e == waitingSet(d, value, err) IN
           /\ Sound(e, K) /\ Ordinary(d, e) /\ e.ask = d.ask
<1> DEFINE e == waitingSet(d, value, err)
<1>1. CASE err
  <2>1. e = failPairingRegistrationLocked(d)
    BY <1>1 DEF waitingSet
  <2>2. Typed(d, K) /\ (~d.attached => ~d.inflight)
    BY DEF Sound, PhasesOf
  <2> QED BY <2>1, <2>2, FailKeeps
<1>2. CASE ~err
  <2>1. e = [d EXCEPT !.known = TRUE, !.enabled = value]
    BY <1>2 DEF waitingSet
  <2> HIDE DEF e
  <2>2. /\ e \in Coordinator /\ e.cand = d.cand /\ e.pending = d.pending
        /\ e.sel = d.sel /\ e.phase = d.phase /\ e.window = d.window
        /\ e.attached = d.attached /\ e.inflight = d.inflight
        /\ e.fault = d.fault /\ e.recovery = d.recovery
        /\ e.trusted = d.trusted /\ e.ask = d.ask
    BY <2>1 DEF Sound, Typed, Coordinator
  <2>3. Typed(e, K)
    BY <2>2 DEF Typed, Sound
  <2>4. PhasesOf(e)
    BY <2>2 DEF PhasesOf, Sound
  <2>5. Ordinary(d, e)
    BY <2>2 DEF Ordinary, Orderly, SelKept, queueing
  <2> QED BY <2>2, <2>3, <2>4, <2>5 DEF Sound, e
<1> QED BY <1>1, <1>2

LEMMA CloseWindowKeeps ==
    ASSUME NEW K, NEW d, Sound(d, K), NEW b \in BOOLEAN,
           d.phase \notin {"Disabled", "Committing"}
    PROVE  LET e == closeWindowLocked(d, b) IN
           Sound(e, K) /\ Ordinary(d, e)
<1> DEFINE g == IF b THEN dropCandidate(d, TRUE) ELSE d
           h == IF b \/ d.cand = NoCandidate
                THEN finishCandidateSelectionLocked(g, TRUE) ELSE g
           k == [h EXCEPT !.window = "none", !.cand = NoCandidate,
                          !.phase = "PairingClosed", !.timer = "none"]
<1>0. Typed(d, K) /\ Quiet(d, d)
  BY DEF Sound, Quiet, SelKept
<1>1. Typed(g, K) /\ Quiet(d, g)
  <2>1. CASE b
    BY <1>0, <2>1, DropKeeps
  <2>2. CASE ~b
    BY <1>0, <2>2
  <2> QED BY <2>1, <2>2
<1> HIDE DEF g
<1>2. Typed(h, K) /\ Quiet(g, h)
  <2>1. CASE b \/ d.cand = NoCandidate
    BY <1>1, <2>1, FinishSelectionKeeps
  <2>2. CASE ~(b \/ d.cand = NoCandidate)
    BY <1>1, <2>2 DEF Quiet, SelKept
  <2> QED BY <2>1, <2>2
<1>3. closeWindowLocked(d, b) = setWaitingLocked(k, FALSE)
  BY DEF closeWindowLocked, g
<1>4. ~d.fault /\ d.attached /\ d.recovery # "QUARANTINED"
  BY DEF Sound, PhasesOf
<1>5. Quiet(d, h)
  BY <1>1, <1>2, QuietTrans
<1>6. h \in Coordinator
  BY <1>2 DEF Typed
<1> HIDE DEF h
<1>7. /\ k \in Coordinator /\ k.window = "none" /\ k.cand = NoCandidate
      /\ k.phase = "PairingClosed" /\ k.pending = h.pending
      /\ k.sel = h.sel /\ k.attached = h.attached /\ k.fault = h.fault
      /\ k.recovery = h.recovery /\ k.inflight = h.inflight
      /\ k.trusted = h.trusted
  BY <1>6 DEF Coordinator, Phases
<1> HIDE DEF k
<1>8. Typed(k, K)
  BY <1>2, <1>7 DEF Typed
<1>9. PhasesOf(k) /\ ~k.fault
  BY <1>4, <1>5, <1>7 DEF PhasesOf, Quiet
<1>10. Ordinary(d, k)
  BY <1>4, <1>5, <1>7 DEF Ordinary, Orderly, Quiet, SelKept, queueing
<1>11. Sound(setWaitingLocked(k, FALSE), K) /\ Ordinary(k, setWaitingLocked(k, FALSE))
  BY <1>8, <1>9, SetWaitingKeeps
<1> QED BY <1>3, <1>10, <1>11, OrdinaryTrans

LEMMA LoseCandidateKeeps ==
    ASSUME NEW K, NEW d, Sound(d, K), NEW b \in BOOLEAN,
           d.phase \notin {"Disabled", "Committing"}
    PROVE  LET e == loseCandidate(d, b) IN
           Sound(e, K) /\ Ordinary(d, e)
<1> DEFINE g == dropCandidate(d, b)
           h == finishCandidateSelectionLocked(g, TRUE)
           e == loseCandidate(d, b)
<1>1. Typed(g, K) /\ Quiet(d, g) /\ g.cand = NoCandidate
  BY DropKeeps DEF Sound
<1> HIDE DEF g
<1>2. Typed(h, K) /\ Quiet(g, h) /\ h.cand = NoCandidate
  BY <1>1, FinishSelectionKeeps
<1>3. e = windowWithoutCandidate(h)
  BY DEF loseCandidate, g
<1> HIDE DEF h, e
<1>4. Quiet(d, h)
  BY <1>1, <1>2, QuietTrans
<1>5. PhasesOf(h) /\ Sound(h, K)
  BY <1>2, <1>4, QuietPhases DEF Sound
<1>6. Ordinary(d, h)
  BY <1>4 DEF Quiet, Ordinary, Orderly
<1>7. CASE h.window = "open"
  <2>1. e = [h EXCEPT !.phase = "OpenEmpty", !.timer = "window"]
    BY <1>3, <1>7 DEF windowWithoutCandidate
  <2>2. /\ e \in Coordinator /\ e.phase = "OpenEmpty" /\ e.window = h.window
        /\ e.cand = h.cand /\ e.pending = h.pending /\ e.sel = h.sel
        /\ e.attached = h.attached /\ e.inflight = h.inflight
        /\ e.fault = h.fault /\ e.recovery = h.recovery
        /\ e.trusted = h.trusted
    BY <1>2, <2>1 DEF Typed, Coordinator, Phases
  <2>3. Typed(e, K)
    BY <1>2, <2>2 DEF Typed
  <2>4. h.phase \notin {"Disabled", "Committing"}
    BY <1>4 DEF Quiet
  <2>5. PhasesOf(e)
    BY <1>2, <1>5, <1>7, <2>2, <2>4 DEF PhasesOf
  <2>6. Ordinary(h, e)
    BY <2>2, <2>4 DEF Ordinary, Orderly, SelKept, queueing
  <2> QED BY <1>6, <2>3, <2>5, <2>6, OrdinaryTrans DEF Sound, e
<1>8. CASE h.window # "open"
  <2>1. e = closeWindowLocked(h, FALSE)
    BY <1>3, <1>8 DEF windowWithoutCandidate
  <2>2. h.phase \notin {"Disabled", "Committing"}
    BY <1>4 DEF Quiet
  <2>3. Sound(e, K) /\ Ordinary(h, e)
    BY <1>5, <2>1, <2>2, CloseWindowKeeps
  <2> QED BY <1>6, <2>3, OrdinaryTrans DEF e
<1> QED BY <1>7, <1>8

LEMMA ExpireKeeps ==
    ASSUME NEW K, NEW d, Sound(d, K)
    PROVE  LET e == expireLocked(d) IN
           Sound(e, K) /\ Ordinary(d, e)
<1> DEFINE e == expireLocked(d)
<1>1. CASE /\ d.phase \in {"CandidatePending", "TransientTrusted"}
           /\ d.cand # NoCandidate /\ d.cand.due
  <2>1. e = loseCandidate(d, TRUE)
    BY <1>1 DEF expireLocked
  <2>2. d.phase \notin {"Disabled", "Committing"}
    BY <1>1
  <2> QED BY <2>1, <2>2, LoseCandidateKeeps
<1>2. CASE /\ ~(/\ d.phase \in {"CandidatePending", "TransientTrusted"}
                /\ d.cand # NoCandidate /\ d.cand.due)
           /\ d.window = "due" /\ d.phase # "Committing"
  <2>1. e = closeWindowLocked(d, TRUE)
    BY <1>2 DEF expireLocked
  <2>2. d.phase \notin {"Disabled", "Committing"}
    BY <1>2 DEF Sound, PhasesOf
  <2> QED BY <2>1, <2>2, CloseWindowKeeps
<1>3. CASE /\ ~(/\ d.phase \in {"CandidatePending", "TransientTrusted"}
                /\ d.cand # NoCandidate /\ d.cand.due)
           /\ ~(d.window = "due" /\ d.phase # "Committing")
  <2>1. e = d
    BY <1>3 DEF expireLocked
  <2> QED BY <2>1, OrdinarySelf
<1> QED BY <1>1, <1>2, <1>3

-----------------------------------------------------------------------------
(* The operations.                                                          *)

LEMMA OpenKeeps ==
    ASSUME NEW K, NEW d, Sound(d, K)
    PROVE  LET e == openPairingWindowLocked(d) IN
           Sound(e, K) /\ Ordinary(d, e)
<1> DEFINE e == openPairingWindowLocked(d)
           g == [d EXCEPT !.window = "open", !.phase = "OpenEmpty"]
<1>1. CASE d.operation \/ d.phase # "PairingClosed" \/ d.window # "none"
  <2>1. e = d
    BY <1>1 DEF openPairingWindowLocked
  <2> QED BY <2>1, OrdinarySelf
<1>2. CASE ~(d.operation \/ d.phase # "PairingClosed" \/ d.window # "none")
  <2>1. e = setWaitingLocked(g, TRUE)
    BY <1>2 DEF openPairingWindowLocked
  <2>2. /\ g \in Coordinator /\ g.phase = "OpenEmpty" /\ g.window = "open"
        /\ g.cand = d.cand /\ g.pending = d.pending /\ g.sel = d.sel
        /\ g.attached = d.attached /\ g.inflight = d.inflight
        /\ g.fault = d.fault /\ g.recovery = d.recovery
        /\ g.trusted = d.trusted
    BY DEF Sound, Typed, Coordinator, Phases
  <2> HIDE DEF g
  <2>3. /\ ~d.fault /\ d.attached /\ d.recovery # "QUARANTINED"
        /\ d.cand = NoCandidate
    BY <1>2 DEF Sound, PhasesOf
  <2>4. Typed(g, K)
    BY <2>2 DEF Sound, Typed
  <2>5. PhasesOf(g) /\ ~g.fault
    BY <2>2, <2>3 DEF PhasesOf
  <2>6. Ordinary(d, g)
    BY <1>2, <2>2 DEF Ordinary, Orderly, SelKept, queueing
  <2>7. Sound(e, K) /\ Ordinary(g, e)
    BY <2>1, <2>4, <2>5, SetWaitingKeeps
  <2> QED BY <2>6, <2>7, OrdinaryTrans
<1> QED BY <1>1, <1>2

LEMMA CloseKeeps ==
    ASSUME NEW K, NEW d, Sound(d, K)
    PROVE  LET e == closePairingWindow(d) IN
           Sound(e, K) /\ Ordinary(d, e)
<1> DEFINE e == closePairingWindow(d)
<1>1. CASE d.phase \in {"Committing", "Disabled"} \/ d.window = "none"
  <2>1. e = d
    BY <1>1 DEF closePairingWindow
  <2> QED BY <2>1, OrdinarySelf
<1>2. CASE ~(d.phase \in {"Committing", "Disabled"} \/ d.window = "none")
  <2>1. e = closeWindowLocked(d, TRUE)
    BY <1>2 DEF closePairingWindow
  <2> QED BY <1>2, <2>1, CloseWindowKeeps
<1> QED BY <1>1, <1>2

LEMMA SelectKeeps ==
    ASSUME NEW K, NEW d, Sound(d, K), NEW s \in SKIs, selects(d, s)
    PROVE  LET e == selectCandidate(d, s) IN
           /\ Sound(e, K) /\ Ordinary(d, e) /\ queueing(e) /\ ~queueing(d)
           /\ e.ask = d.ask /\ e.phase = d.phase
<1> DEFINE x == [ski |-> s, completed |-> FALSE, cancelled |-> FALSE,
                 aborted |-> FALSE]
           e == selectCandidate(d, s)
           w == [d.lifecycle EXCEPT ![s] = "reserved"]
<1>1. x \in Selection /\ x # NoSelection /\ ~x.completed
  BY Absent DEF Selection
<1> HIDE DEF x
<1>2. w \in [SKIs -> {"absent", "visible", "reserved", "consumed"}]
  BY DEF Sound, Typed, Coordinator
<1>3. e = [d EXCEPT !.lifecycle = w, !.sel = x]
  BY DEF selectCandidate, x, Sound, Typed, Coordinator
<1> HIDE DEF e, w
<1>4. /\ e \in Coordinator /\ e.phase = d.phase /\ e.window = d.window
      /\ e.cand = d.cand /\ e.pending = d.pending /\ e.sel = x
      /\ e.attached = d.attached /\ e.inflight = d.inflight
      /\ e.fault = d.fault /\ e.recovery = d.recovery
      /\ e.trusted = d.trusted /\ e.ask = d.ask
  BY <1>1, <1>2, <1>3 DEF Sound, Typed, Coordinator
<1>5. Typed(e, K) /\ PhasesOf(e)
  BY <1>4 DEF Sound, Typed, PhasesOf
<1>6. queueing(e) /\ ~queueing(d)
  BY <1>1, <1>4 DEF queueing, selects
<1>7. Ordinary(d, e)
  BY <1>4, <1>6 DEF Ordinary, Orderly, SelKept
<1> QED BY <1>4, <1>5, <1>6, <1>7 DEF Sound, e

LEMMA FailQueueKeeps ==
    ASSUME NEW K, NEW d, Sound(d, K), d.sel # NoSelection
    PROVE  LET e == failCandidateQueueLocked(d) IN
           Sound(e, K) /\ Orderly(d, e) /\ e.ask = d.ask
<1> DEFINE e == failCandidateQueueLocked(d)
           g == dropCandidate(d, TRUE)
<1>0. Typed(d, K)
  BY DEF Sound
<1>1. CASE ~(d.cand # NoCandidate /\ d.cand.ski = d.sel.ski)
  <2>1. e = cancelCandidateSelectionLocked(d)
    BY <1>1 DEF failCandidateQueueLocked
  <2>2. Typed(e, K) /\ Quiet(d, e) /\ e.cand = d.cand
    BY <1>0, <2>1, CancelSelectionKeeps
  <2>3. PhasesOf(e)
    BY <2>2, QuietPhases DEF Sound
  <2> QED BY <2>2, <2>3 DEF Sound, Quiet, Orderly
<1>2. CASE d.cand # NoCandidate /\ d.cand.ski = d.sel.ski
  <2>1. Typed(g, K) /\ Quiet(d, g) /\ g.cand = NoCandidate
    BY <1>0, DropKeeps
  <2>2. e = IF g.window = "open"
            THEN [g EXCEPT !.phase = "OpenEmpty", !.timer = "window"] ELSE g
    BY <1>2 DEF failCandidateQueueLocked
  <2> HIDE DEF g, e
  <2>3. Sound(g, K) /\ Orderly(d, g) /\ g.ask = d.ask
    BY <2>1, QuietPhases DEF Sound, Quiet, Orderly
  <2>4. CASE g.window # "open"
    BY <2>2, <2>3, <2>4 DEF e
  <2>5. CASE g.window = "open"
    <3>1. /\ e \in Coordinator /\ e.phase = "OpenEmpty"
          /\ e.window = g.window
          /\ e.cand = g.cand /\ e.pending = g.pending /\ e.sel = g.sel
          /\ e.attached = g.attached /\ e.inflight = g.inflight
          /\ e.fault = g.fault /\ e.recovery = g.recovery
          /\ e.trusted = g.trusted /\ e.ask = g.ask
      BY <2>1, <2>2, <2>5 DEF Typed, Coordinator, Phases
    <3>2. g.phase \notin {"Disabled", "Committing"}
      BY <2>3, <2>5 DEF Sound, PhasesOf
    <3>3. Typed(e, K)
      BY <2>1, <3>1 DEF Typed
    <3>4. PhasesOf(e)
      BY <2>1, <2>3, <2>5, <3>1, <3>2 DEF Sound, PhasesOf
    <3>5. Orderly(g, e)
      BY <3>1, <3>2 DEF Orderly
    <3> QED BY <2>3, <3>1, <3>3, <3>4, <3>5, OrderlyTrans DEF Sound, e
  <2> QED BY <2>4, <2>5
<1> QED BY <1>1, <1>2

LEMMA QueuedKeeps ==
    ASSUME NEW K, NEW d, Sound(d, K), d.sel # NoSelection,
           NEW ok \in BOOLEAN, NEW b \in BOOLEAN
    PROVE  LET e == candidateQueued(d, ok, b) IN
           Sound(e, K) /\ Orderly(d, e) /\ e.ask = d.ask
<1> DEFINE e == candidateQueued(d, ok, b)
           g == failCandidateQueueLocked(d)
           w == [d.lifecycle EXCEPT ![d.sel.ski] =
                    IF @ = "absent" THEN @ ELSE "consumed"]
           x == [d.sel EXCEPT !.completed = TRUE]
<1>1. CASE ok /\ ~b /\ ~d.sel.aborted
  <2>1. d.sel \in Selection
    BY DEF Sound, Typed, Coordinator
  <2>2. x \in Selection
    BY <2>1 DEF Selection
  <2>3. w \in [SKIs -> {"absent", "visible", "reserved", "consumed"}]
    BY <2>1 DEF Sound, Typed, Coordinator, Selection
  <2>4. e = [d EXCEPT !.sel = x, !.lifecycle = w]
    BY <1>1, <2>1 DEF candidateQueued, Sound, Typed, Coordinator
  <2> HIDE DEF e, w, x
  <2>5. /\ e \in Coordinator /\ e.phase = d.phase /\ e.window = d.window
        /\ e.cand = d.cand /\ e.pending = d.pending
        /\ e.attached = d.attached /\ e.inflight = d.inflight
        /\ e.fault = d.fault /\ e.recovery = d.recovery
        /\ e.trusted = d.trusted /\ e.ask = d.ask
    BY <2>2, <2>3, <2>4 DEF Sound, Typed, Coordinator
  <2>6. Typed(e, K) /\ PhasesOf(e)
    BY <2>5 DEF Sound, Typed, PhasesOf
  <2> QED BY <2>5, <2>6 DEF Sound, Orderly, e
<1>2. CASE ~(ok /\ ~b /\ ~d.sel.aborted)
  <2>1. Sound(g, K) /\ Orderly(d, g) /\ g.ask = d.ask
    BY FailQueueKeeps
  <2>2. e = [g EXCEPT !.lifecycle = [s \in SKIs |-> "absent"],
                      !.sel = NoSelection]
    BY <1>2, <2>1
    DEF candidateQueued, invalidateCandidateSnapshotLocked, Sound, Typed,
        Coordinator
  <2> HIDE DEF e, g
  <2>3. /\ e \in Coordinator /\ e.phase = g.phase /\ e.window = g.window
        /\ e.cand = g.cand /\ e.pending = g.pending
        /\ e.attached = g.attached /\ e.inflight = g.inflight
        /\ e.fault = g.fault /\ e.recovery = g.recovery
        /\ e.trusted = g.trusted /\ e.ask = g.ask
    BY <2>1, <2>2 DEF Sound, Typed, Coordinator
  <2>4. Typed(e, K) /\ PhasesOf(e)
    BY <2>1, <2>3 DEF Sound, Typed, PhasesOf
  <2>5. Orderly(g, e)
    BY <2>3 DEF Orderly
  <2> QED BY <2>1, <2>3, <2>4, <2>5, OrderlyTrans DEF Sound, e
<1> QED BY <1>1, <1>2

\* A section that starts the commit of a candidate.
Starts(d, e) ==
    /\ d.phase \in {"CandidatePending", "TransientTrusted"} /\ ~d.inflight
    /\ e.phase = "Committing" /\ e.inflight /\ e.cand # NoCandidate
    /\ e.attached = d.attached /\ e.fault = d.fault /\ e.ask = d.ask
    /\ e.recovery = d.recovery /\ e.trusted = d.trusted
    /\ SelKept(d, e)

LEMMA StartCommitKeeps ==
    ASSUME NEW K, NEW d, Sound(d, K), ~d.inflight, d.cand # NoCandidate,
           d.phase \in {"CandidatePending", "TransientTrusted"}
    PROVE  LET e == startCommit(d) IN
           Sound(e, K) /\ Starts(d, e) /\ e.cand = d.cand
<1> DEFINE e == startCommit(d)
<1>1. e = [d EXCEPT !.phase = "Committing", !.window = "none",
                    !.timer = "none", !.inflight = TRUE]
  BY DEF startCommit
<1> HIDE DEF e
<1>2. /\ e \in Coordinator /\ e.phase = "Committing" /\ e.window = "none"
      /\ e.cand = d.cand /\ e.pending = d.pending /\ e.sel = d.sel
      /\ e.attached = d.attached /\ e.inflight
      /\ e.fault = d.fault /\ e.recovery = d.recovery
      /\ e.trusted = d.trusted /\ e.ask = d.ask
  BY <1>1 DEF Sound, Typed, Coordinator, Phases
<1>3. Typed(e, K)
  BY <1>2 DEF Sound, Typed
<1>4. ~d.fault /\ d.attached /\ d.recovery # "QUARANTINED"
  BY DEF Sound, PhasesOf
<1>5. PhasesOf(e)
  BY <1>2, <1>4 DEF PhasesOf
<1> QED BY <1>2, <1>3, <1>5 DEF Sound, Starts, SelKept, queueing, e

\* A confirmation that waits for the evidence of the connection.
Awaits(d, e) ==
    /\ d.phase = "CandidatePending" /\ ~d.inflight
    /\ e.phase = "TransientTrusted" /\ ~e.inflight /\ e.cand # NoCandidate
    /\ e.attached = d.attached /\ e.fault = d.fault /\ e.ask = d.ask
    /\ e.recovery = d.recovery /\ e.trusted = d.trusted
    /\ SelKept(d, e)

LEMMA SoundMore ==
    ASSUME NEW K, NEW L, K \subseteq L, NEW d, Sound(d, K)
    PROVE  Sound(d, L)
  BY BackedMore DEF Sound, Typed

LEMMA ConfirmKeeps ==
    ASSUME NEW K, NEW d, Sound(d, K), NEW s \in SKIs, NEW n \in Nat,
           confirms(d, s, n)
    PROVE  LET e == confirm(d) IN
           Sound(e, K \cup {<<s, n>>}) /\ (Starts(d, e) \/ Awaits(d, e))
<1> DEFINE L == K \cup {<<s, n>>}
           e == confirm(d)
           g == [d EXCEPT !.cand = [d.cand EXCEPT !.authorized = TRUE,
                                                  !.registered = FALSE],
                          !.phase = "TransientTrusted"]
<1>1. Sound(d, L) /\ <<s, n>> \in L
  BY SoundMore
<1>2. /\ d.cand # NoCandidate /\ d.cand.ski = s /\ d.cand.conn = n
      /\ ~d.inflight /\ d.phase = "CandidatePending"
  BY DEF confirms, sameCandidate
<1> HIDE DEF L
<1>3. CASE ~d.selecting
  <2>1. e = startCommit(d)
    BY <1>3 DEF confirm
  <2> QED BY <1>1, <1>2, <2>1, StartCommitKeeps DEF L
<1>4. CASE d.selecting
  <2>1. d \in Coordinator /\ d.cand \in Candidate
    BY <1>2 DEF Sound, Typed, Coordinator
  <2>2. e = effect(g, "TransientRegister", s, n)
    BY <1>2, <1>4, <2>1 DEF confirm, Coordinator
  <2>3. /\ g.cand \in Candidate /\ g.cand.ski = s /\ g.cand.conn = n
    BY <1>2, <2>1 DEF Coordinator, Candidate
  <2>4. /\ g \in Coordinator /\ g.phase = "TransientTrusted"
        /\ g.window = d.window /\ g.pending = d.pending /\ g.sel = d.sel
        /\ g.attached = d.attached /\ g.inflight = d.inflight
        /\ g.fault = d.fault /\ g.recovery = d.recovery
        /\ g.trusted = d.trusted /\ g.ask = d.ask
    BY <2>1, <2>3 DEF Coordinator, Phases
  <2> HIDE DEF g, e
  <2>5. Typed(g, L)
    BY <1>1, <2>3, <2>4 DEF Sound, Typed
  <2>6. g.cand # NoCandidate
    BY <2>3, Absent
  <2>7. PhasesOf(g)
    BY <1>1, <1>2, <2>4 DEF Sound, PhasesOf
  <2>8. "TransientRegister" \in effectKinds
    BY DEF effectKinds
  <2>9. Typed(e, L) /\ Quiet(g, e) /\ e.cand = g.cand
    BY <1>1, <2>2, <2>5, <2>8, EffectKeeps
  <2>10. PhasesOf(e)
    BY <2>7, <2>9, QuietPhases
  <2>11. SelKept(d, e)
    BY <2>4, <2>9 DEF Quiet, SelKept, queueing
  <2>12. Awaits(d, e)
    BY <1>2, <2>4, <2>6, <2>9, <2>11 DEF Quiet, Awaits
  <2> QED BY <2>9, <2>10, <2>12 DEF Sound, L, e
<1> QED BY <1>3, <1>4

LEMMA CancelKeeps ==
    ASSUME NEW K, NEW d, Sound(d, K), NEW n, cancels(d, n)
    PROVE  LET e == cancel(d) IN Sound(e, K) /\ Ordinary(d, e)
<1>1. d.phase \notin {"Disabled", "Committing"}
  BY DEF cancels
<1> QED BY <1>1, LoseCandidateKeeps DEF cancel

LEMMA AdmitKeeps ==
    ASSUME NEW K, NEW d, Sound(d, K), NEW s \in SKIs, NEW n \in Nat
    PROVE  LET e == admit(d, s, n) IN Sound(e, K) /\ Ordinary(d, e)
<1> DEFINE e == admit(d, s, n)
           x == [ski |-> s, conn |-> n, generation |-> d.generation,
                 due |-> FALSE, ship |-> FALSE, tls |-> FALSE,
                 completed |-> FALSE, authorized |-> FALSE,
                 registered |-> FALSE, revoked |-> FALSE]
<1>0. Typed(d, K)
  BY DEF Sound
<1>1. CASE admitOutcome(d, s, n) = "refused"
  <2>1. e = cancelRemoteLocked(d, s, n)
    BY <1>1 DEF admit
  <2>2. Typed(e, K) /\ Quiet(d, e) /\ e.cand = d.cand
    BY <1>0, <2>1, CancelRemoteKeeps
  <2> QED BY <2>2, QuietPhases, QuietOrdinary DEF Sound
<1>2. CASE admitOutcome(d, s, n) = "admitted"
  <2>1. e = [d EXCEPT !.phase = "CandidatePending", !.timer = "candidate",
                      !.cand = x]
    BY <1>2 DEF admit
  <2>2. d.phase = "OpenEmpty"
    BY <1>2 DEF admitOutcome, admits
  <2>3. x \in Candidate /\ ~x.authorized
    BY <1>0 DEF Typed, Coordinator, Candidate
  <2> HIDE DEF x, e
  <2>4. /\ e \in Coordinator /\ e.phase = "CandidatePending"
        /\ e.window = d.window /\ e.pending = d.pending /\ e.sel = d.sel
        /\ e.attached = d.attached /\ e.inflight = d.inflight
        /\ e.fault = d.fault /\ e.recovery = d.recovery
        /\ e.trusted = d.trusted /\ e.ask = d.ask /\ e.cand = x
    BY <1>0, <2>1, <2>3 DEF Typed, Coordinator, Phases
  <2>5. Typed(e, K)
    BY <1>0, <2>3, <2>4 DEF Typed
  <2>6. PhasesOf(e)
    BY <2>2, <2>4 DEF Sound, PhasesOf
  <2>7. Ordinary(d, e)
    BY <2>2, <2>4 DEF Ordinary, Orderly, SelKept, queueing
  <2> QED BY <2>5, <2>6, <2>7 DEF Sound, e
<1>3. CASE admitOutcome(d, s, n) \notin {"refused", "admitted"}
  <2>1. e = d
    BY <1>3 DEF admit
  <2> QED BY <2>1, OrdinarySelf
<1> QED BY <1>1, <1>2, <1>3

\* Evidence of the connection is noted with the candidate.
Noted(d, g) ==
    /\ Quiet(d, g) /\ g.sel = d.sel /\ g.pending = d.pending
    /\ g \in Coordinator /\ g.cand \in Candidate
    /\ g.cand.ski = d.cand.ski /\ g.cand.conn = d.cand.conn
    /\ g.cand.authorized = d.cand.authorized

LEMMA NotedSound ==
    ASSUME NEW K, NEW d, NEW g, Sound(d, K), d.cand # NoCandidate,
           Noted(d, g)
    PROVE  Sound(g, K) /\ Ordinary(d, g) /\ g.cand # NoCandidate
<1>1. g.cand # NoCandidate
  BY Absent DEF Noted
<1>2. Typed(g, K)
  BY DEF Sound, Typed, Noted
<1>3. PhasesOf(g)
  BY QuietPhases DEF Sound, Noted
<1> QED BY <1>1, <1>2, <1>3, QuietOrdinary DEF Sound, Noted

LEMMA Notes ==
    ASSUME NEW K, NEW d, Sound(d, K), d.cand # NoCandidate
    PROVE  /\ Noted(d, [d EXCEPT !.cand.tls = TRUE])
           /\ Noted(d, [d EXCEPT !.cand.ship = TRUE])
           /\ Noted(d, [d EXCEPT !.cand.completed = TRUE])
           /\ Noted(d, [d EXCEPT !.cand.registered = TRUE])
<1>1. d \in Coordinator /\ d.cand \in Candidate
  BY DEF Sound, Typed, Coordinator
<1>2. Noted(d, [d EXCEPT !.cand.tls = TRUE])
  BY <1>1 DEF Noted, Quiet, SelKept, queueing, Coordinator, Candidate
<1>3. Noted(d, [d EXCEPT !.cand.ship = TRUE])
  BY <1>1 DEF Noted, Quiet, SelKept, queueing, Coordinator, Candidate
<1>4. Noted(d, [d EXCEPT !.cand.completed = TRUE])
  BY <1>1 DEF Noted, Quiet, SelKept, queueing, Coordinator, Candidate
<1>5. Noted(d, [d EXCEPT !.cand.registered = TRUE])
  BY <1>1 DEF Noted, Quiet, SelKept, queueing, Coordinator, Candidate
<1> QED BY <1>2, <1>3, <1>4, <1>5

LEMMA BindKeeps ==
    ASSUME NEW K, NEW d, Sound(d, K), NEW s, NEW n
    PROVE  LET e == remoteSKIConnected(d, s, n) IN
           Sound(e, K) /\ Ordinary(d, e)
<1>1. CASE ~binds(d, s, n)
  BY <1>1, OrdinarySelf DEF remoteSKIConnected
<1>2. CASE binds(d, s, n)
  <2>1. d.cand # NoCandidate
    BY <1>2 DEF binds, sameCandidate
  <2>2. remoteSKIConnected(d, s, n) = [d EXCEPT !.cand.tls = TRUE]
    BY <1>2 DEF remoteSKIConnected
  <2>3. Noted(d, remoteSKIConnected(d, s, n))
    BY <2>1, <2>2, Notes
  <2> QED BY <2>1, <2>3, NotedSound
<1> QED BY <1>1, <1>2

\* A commit starts for the confirmed candidate (s, n), or nothing special
\* happens.
StartsFor(d, e, K, s, n) ==
    Starts(d, e) /\ <<s, n>> \in K /\ d.phase = "TransientTrusted"

LEMMA BeginCommitKeeps ==
    ASSUME NEW K, NEW d, Sound(d, K), d.cand # NoCandidate,
           d.phase \in {"CandidatePending", "TransientTrusted"}
    PROVE  LET e == beginTransientCommitLocked(d) IN
           /\ Sound(e, K)
           /\ \/ Ordinary(d, e)
              \/ StartsFor(d, e, K, d.cand.ski, d.cand.conn)
<1> DEFINE e == beginTransientCommitLocked(d)
           ready == /\ d.phase = "TransientTrusted" /\ d.cand.authorized
                    /\ d.cand.registered /\ d.cand.ship /\ d.cand.completed
<1>1. CASE ~ready
  <2>1. e = d
    BY <1>1 DEF beginTransientCommitLocked
  <2> QED BY <2>1, OrdinarySelf
<1>2. CASE ready /\ d.generation # d.cand.generation
  <2>1. e = loseCandidate(d, TRUE)
    BY <1>2 DEF beginTransientCommitLocked
  <2>2. d.phase \notin {"Disabled", "Committing"}
    OBVIOUS
  <2> QED BY <2>1, <2>2, LoseCandidateKeeps
<1>3. CASE ready /\ d.generation = d.cand.generation
  <2>1. e = startCommit(d)
    BY <1>3 DEF beginTransientCommitLocked
  <2>2. ~d.inflight /\ <<d.cand.ski, d.cand.conn>> \in K
    BY <1>3 DEF Sound, Typed, PhasesOf
  <2> QED BY <1>3, <2>1, <2>2, StartCommitKeeps DEF StartsFor
<1> QED BY <1>1, <1>2, <1>3

\* ... after the evidence was noted.
LEMMA NotedCommit ==
    ASSUME NEW K, NEW d, NEW g, Sound(d, K), Noted(d, g),
           d.cand # NoCandidate,
           d.phase \in {"CandidatePending", "TransientTrusted"}
    PROVE  LET e == beginTransientCommitLocked(g) IN
           /\ Sound(e, K)
           /\ \/ Ordinary(d, e)
              \/ StartsFor(d, e, K, d.cand.ski, d.cand.conn)
<1> DEFINE e == beginTransientCommitLocked(g)
<1>1. Sound(g, K) /\ Ordinary(d, g) /\ g.cand # NoCandidate
  BY NotedSound
<1>2. /\ g.phase = d.phase /\ g.cand.ski = d.cand.ski
      /\ g.cand.conn = d.cand.conn
  BY DEF Noted, Quiet
<1>3. /\ Sound(e, K)
      /\ Ordinary(g, e) \/ StartsFor(g, e, K, g.cand.ski, g.cand.conn)
  BY <1>1, <1>2, BeginCommitKeeps
<1>4. CASE Ordinary(g, e)
  BY <1>1, <1>3, <1>4, OrdinaryTrans
<1>5. CASE StartsFor(g, e, K, g.cand.ski, g.cand.conn)
  BY <1>2, <1>3, <1>5 DEF StartsFor, Starts, Noted, Quiet, SelKept, queueing
<1> QED BY <1>3, <1>4, <1>5

LEMMA EvidenceKeeps ==
    ASSUME NEW K, NEW d, Sound(d, K), NEW s, NEW n,
           NEW e \in {serviceShipIDUpdate(d, s, n),
                      connectionCompleted(d, s, n),
                      completeTransientRegistration(d, s, n)}
    PROVE  Sound(e, K) /\ (Ordinary(d, e) \/ StartsFor(d, e, K, s, n))
<1>1. CASE e = d
  BY <1>1, OrdinarySelf
<1>2. CASE e # d
  <2>1. /\ d.cand # NoCandidate /\ d.cand.ski = s /\ d.cand.conn = n
        /\ d.phase \in {"CandidatePending", "TransientTrusted"}
    BY <1>2 DEF serviceShipIDUpdate, connectionCompleted, heard,
                completeTransientRegistration, sameCandidate
  <2>2. \E g : Noted(d, g) /\ e = beginTransientCommitLocked(g)
    <3>1. CASE e = serviceShipIDUpdate(d, s, n)
      BY <1>2, <2>1, <3>1, Notes DEF serviceShipIDUpdate
    <3>2. CASE e = connectionCompleted(d, s, n)
      BY <1>2, <2>1, <3>2, Notes DEF connectionCompleted
    <3>3. CASE e = completeTransientRegistration(d, s, n)
      BY <1>2, <2>1, <3>3, Notes DEF completeTransientRegistration
    <3> QED BY <3>1, <3>2, <3>3
  <2>3. PICK g : Noted(d, g) /\ e = beginTransientCommitLocked(g)
    BY <2>2
  <2> QED BY <2>1, <2>3, NotedCommit
<1> QED BY <1>1, <1>2

LEMMA ClosedKeeps ==
    ASSUME NEW K, NEW d, Sound(d, K), NEW s, NEW n
    PROVE  LET e == connectionClosed(d, s, n) IN
           Sound(e, K) /\ Ordinary(d, e)
<1>1. CASE ~(sameCandidate(d, s, n) /\ d.phase # "Committing")
  BY <1>1, OrdinarySelf DEF connectionClosed
<1>2. CASE sameCandidate(d, s, n) /\ d.phase # "Committing"
  <2>1. connectionClosed(d, s, n) = loseCandidate(d, FALSE)
    BY <1>2 DEF connectionClosed
  <2>2. d.phase \notin {"Disabled", "Committing"}
    BY <1>2 DEF sameCandidate, Sound, PhasesOf
  <2> QED BY <2>1, <2>2, LoseCandidateKeeps
<1> QED BY <1>1, <1>2

\* Only fields that nothing here depends on have changed.
Minor(d, e) ==
    /\ e \in Coordinator /\ e.phase = d.phase /\ e.window = d.window
    /\ e.cand = d.cand /\ e.pending = d.pending /\ e.sel = d.sel
    /\ e.attached = d.attached /\ e.inflight = d.inflight
    /\ e.fault = d.fault /\ e.recovery = d.recovery
    /\ e.trusted = d.trusted /\ e.ask = d.ask
    /\ e.known = d.known /\ e.enabled = d.enabled

LEMMA MinorKeeps ==
    ASSUME NEW K, NEW d, NEW e, Sound(d, K), Minor(d, e)
    PROVE  Sound(e, K) /\ Ordinary(d, e)
<1>1. Typed(e, K) /\ PhasesOf(e)
  BY DEF Sound, Typed, PhasesOf, Minor
<1>2. Ordinary(d, e)
  BY DEF Ordinary, Orderly, SelKept, queueing, Minor
<1> QED BY <1>1, <1>2 DEF Sound

LEMMA MinorChanges ==
    ASSUME NEW d \in Coordinator, NEW seen \in SUBSET SKIs
    PROVE  /\ Minor(d, publishes(d))
           /\ Minor(d, [d EXCEPT !.timer = "window"])
           /\ Minor(d, [d EXCEPT !.timer = "none"])
           /\ Minor(d, [d EXCEPT !.generation = @ + 1])
           /\ Minor(d, visiblePairingCandidatesUpdated(d, seen))
<1>1. Minor(d, publishes(d))
  BY DEF publishes, Minor, Coordinator
<1>2. Minor(d, [d EXCEPT !.timer = "window"])
  BY DEF Minor, Coordinator
<1>3. Minor(d, [d EXCEPT !.timer = "none"])
  BY DEF Minor, Coordinator
<1>4. Minor(d, [d EXCEPT !.generation = @ + 1])
  <2> DEFINE m == d.generation + 1
  <2>1. m \in Nat
    BY DEF Coordinator
  <2>2. [d EXCEPT !.generation = @ + 1] = [d EXCEPT !.generation = m]
    BY DEF Coordinator
  <2> HIDE DEF m
  <2> QED BY <2>1, <2>2 DEF Minor, Coordinator
<1>5. Minor(d, visiblePairingCandidatesUpdated(d, seen))
  <2> DEFINE life(s) == IF d.sel # NoSelection /\ d.sel.ski = s
                        THEN IF d.sel.completed THEN "consumed" ELSE "reserved"
                        ELSE IF d.lifecycle[s] = "consumed" THEN "consumed"
                        ELSE "visible"
             w == [s \in SKIs |-> IF s \in seen THEN life(s) ELSE "absent"]
  <2>1. w \in [SKIs -> {"absent", "visible", "reserved", "consumed"}]
    OBVIOUS
  <2>2. visiblePairingCandidatesUpdated(d, seen) = [d EXCEPT !.lifecycle = w]
    BY DEF visiblePairingCandidatesUpdated
  <2> HIDE DEF w
  <2> QED BY <2>1, <2>2 DEF Minor, Coordinator
<1> QED BY <1>1, <1>2, <1>3, <1>4, <1>5

\* The outcome of a publication: who is trusted afterwards.
Outcome(d, e, s, outcome) ==
    \/ e.recovery = "QUARANTINED" /\ e.trusted = {}
    \/ /\ outcome = "durable" /\ e.recovery = "PAIRED_TRUSTED"
       /\ e.trusted = IF d.cand # NoCandidate THEN d.trusted \cup {s}
                                              ELSE d.trusted
    \/ /\ outcome \notin {"durable", "unknown"}
       /\ e.recovery = d.recovery /\ e.trusted = d.trusted

LEMMA FinishKeeps ==
    ASSUME NEW K, NEW d, Sound(d, K), NEW s \in SKIs, NEW outcome,
           d.inflight, d.fault \/ d.phase = "Committing"
    PROVE  LET e == finishRecoveryConfirmationLocked(d, s, outcome) IN
           /\ Sound(e, K) /\ SelKept(d, e) /\ Outcome(d, e, s, outcome)
           /\ e.attached = d.attached /\ e.inflight = d.inflight
           /\ d.fault => e.fault
           /\ e.phase \in {"PairingClosed", "Disabled"}
<1> DEFINE g == published(d, s, outcome)
           h == IF outcome = "durable" THEN g
                ELSE revokeTransientTrustLocked(g)
           i == [h EXCEPT !.cand = NoCandidate]
           j == finishCandidateSelectionLocked(i, outcome # "durable")
           k == [j EXCEPT !.window = "none", !.timer = "none"]
           e == finishRecoveryConfirmationLocked(d, s, outcome)
<1>0. d \in Coordinator /\ d.attached
  BY DEF Sound, Typed, PhasesOf
<1>1. /\ g \in Coordinator /\ g.cand = d.cand /\ g.pending = d.pending
      /\ g.sel = d.sel /\ g.attached = d.attached
      /\ g.inflight = d.inflight /\ g.fault = d.fault
      /\ g.phase \in {"PairingClosed", "Disabled"}
      /\ \/ g.phase = "Disabled" \/ g.recovery # "QUARANTINED"
         \/ d.recovery = "QUARANTINED"
  <2>1. CASE outcome = "durable"
    <3> DEFINE m == d.generation + 1
               t == IF d.cand # NoCandidate THEN d.trusted \cup {s}
                    ELSE d.trusted
    <3>1. m \in Nat /\ t \in SUBSET SKIs
      BY <1>0 DEF Coordinator
    <3>2. g = [d EXCEPT !.phase = "PairingClosed",
                        !.recovery = "PAIRED_TRUSTED", !.generation = m,
                        !.trusted = t]
      BY <1>0, <2>1 DEF published, Coordinator
    <3> HIDE DEF m, t, g
    <3> QED BY <1>0, <3>1, <3>2 DEF Coordinator, Phases
  <2>2. CASE outcome = "unknown"
    BY <1>0, <2>2 DEF published, Coordinator, Phases
  <2>3. CASE outcome \notin {"durable", "unknown"}
    BY <1>0, <2>3 DEF published, Coordinator, Phases
  <2> QED BY <2>1, <2>2, <2>3
<1>2. Outcome(d, g, s, outcome)
  <2>1. CASE outcome = "durable"
    BY <1>0, <2>1 DEF published, Coordinator, Outcome
  <2>2. CASE outcome = "unknown"
    BY <1>0, <2>2 DEF published, Coordinator, Outcome
  <2>3. CASE outcome \notin {"durable", "unknown"}
    BY <1>0, <2>3 DEF published, Coordinator, Outcome
  <2> QED BY <2>1, <2>2, <2>3
<1> HIDE DEF g
<1>3. Typed(g, K)
  BY <1>1 DEF Typed, Sound
<1>4. Typed(h, K) /\ Quiet(g, h)
  <2>1. CASE outcome = "durable"
    BY <1>3, <2>1 DEF Quiet, SelKept
  <2>2. CASE outcome # "durable"
    BY <1>3, <2>2, RevokeKeeps
  <2> QED BY <2>1, <2>2
<1>5. e = setWaitingLocked(k, FALSE)
  BY DEF finishRecoveryConfirmationLocked, g
<1> HIDE DEF h
<1>6. /\ i \in Coordinator /\ i.cand = NoCandidate /\ i.pending = h.pending
      /\ i.sel = h.sel /\ i.attached = h.attached /\ i.inflight = h.inflight
      /\ i.fault = h.fault /\ i.phase = h.phase /\ i.recovery = h.recovery
      /\ i.trusted = h.trusted
  BY <1>4 DEF Typed, Coordinator
<1> HIDE DEF i
<1>7. Typed(i, K)
  BY <1>4, <1>6 DEF Typed
<1>8. Typed(j, K) /\ Quiet(i, j) /\ j.cand = NoCandidate
  BY <1>6, <1>7, FinishSelectionKeeps
<1> HIDE DEF j
<1>9. /\ k \in Coordinator /\ k.cand = NoCandidate /\ k.pending = j.pending
      /\ k.sel = j.sel /\ k.attached = j.attached /\ k.inflight = j.inflight
      /\ k.fault = j.fault /\ k.phase = j.phase /\ k.recovery = j.recovery
      /\ k.trusted = j.trusted /\ k.window = "none"
  BY <1>8 DEF Typed, Coordinator
<1> HIDE DEF k, e
<1>10. Typed(k, K)
  BY <1>8, <1>9 DEF Typed
<1>11. /\ k.attached /\ k.inflight = d.inflight /\ k.fault = d.fault
       /\ k.phase = g.phase /\ k.recovery = g.recovery
       /\ k.trusted = g.trusted
  BY <1>0, <1>1, <1>4, <1>6, <1>8, <1>9 DEF Quiet
<1>12. ~k.fault => PhasesOf(k)
  <2>1. d.fault \/ d.recovery # "QUARANTINED"
    BY DEF Sound, PhasesOf
  <2> QED BY <1>1, <1>9, <1>11, <2>1 DEF PhasesOf
<1>13. /\ Sound(e, K) /\ Ordinary(k, e)
       /\ e.phase # k.phase => e.phase = "Disabled"
  BY <1>5, <1>10, <1>11, <1>12, SetWaitingKeeps
<1>14. SelKept(d, e)
  BY <1>1, <1>4, <1>6, <1>8, <1>9, <1>13
  DEF Quiet, SelKept, Ordinary, queueing
<1>15. Outcome(d, e, s, outcome)
  BY <1>2, <1>11, <1>13 DEF Ordinary, Orderly, Outcome
<1> QED BY <1>0, <1>1, <1>11, <1>13, <1>14, <1>15 DEF Ordinary, Orderly, e

LEMMA AfterConfirmationKeeps ==
    ASSUME NEW K, NEW d, Sound(d, K), NEW s \in SKIs, NEW n \in Nat,
           NEW outcome, NEW b \in BOOLEAN, <<s, n>> \in K,
           d.phase \notin {"Committing", "TransientTrusted"}
    PROVE  LET e == AfterConfirmation(d, s, n, outcome, b) IN
           /\ Sound(e, K) /\ SelKept(d, e)
           /\ e.phase = d.phase /\ e.attached = d.attached
           /\ e.fault = d.fault /\ e.ask = d.ask /\ ~e.inflight
           /\ e.recovery = d.recovery /\ e.trusted = d.trusted
           /\ e.window = d.window
           /\ e.known = d.known /\ e.enabled = d.enabled
<1> DEFINE kind == IF outcome # "durable" THEN "Cancel"
                   ELSE IF b THEN "TransientFinalize" ELSE "Register"
           g == effect(d, kind, s, n)
           e == AfterConfirmation(d, s, n, outcome, b)
<1>1. e = [g EXCEPT !.operation = FALSE, !.inflight = FALSE]
  BY DEF AfterConfirmation
<1>2. kind \in effectKinds
  BY DEF effectKinds
<1> HIDE DEF kind
<1>3. Typed(g, K) /\ Quiet(d, g) /\ g.cand = d.cand /\ g.sel = d.sel
  BY <1>2, EffectKeeps DEF Sound
<1> HIDE DEF g, e
<1>4. /\ e \in Coordinator /\ e.cand = g.cand /\ e.pending = g.pending
      /\ e.sel = g.sel /\ e.attached = g.attached /\ ~e.inflight
      /\ e.fault = g.fault /\ e.phase = g.phase /\ e.window = g.window
      /\ e.recovery = g.recovery /\ e.trusted = g.trusted /\ e.ask = g.ask
      /\ e.known = g.known /\ e.enabled = g.enabled
  BY <1>1, <1>3 DEF Typed, Coordinator
<1>5. Typed(e, K)
  BY <1>3, <1>4 DEF Typed
<1>6. PhasesOf(e)
  BY <1>3, <1>4 DEF PhasesOf, Quiet, Sound
<1>7. SelKept(d, e)
  BY <1>3, <1>4 DEF SelKept, queueing
<1> QED BY <1>3, <1>4, <1>5, <1>6, <1>7 DEF Sound, Quiet, e

LEMMA ShutdownKeeps ==
    ASSUME NEW K, NEW d, Sound(d, K)
    PROVE  LET e == shutdown(d) IN Sound(e, K) /\ Ordinary(d, e)
<1> DEFINE g == revokeTransientTrustLocked(d)
           h == IF d.cand = NoCandidate THEN d
                ELSE cancelRemoteLocked(g, d.cand.ski, d.cand.conn)
           j == finishCandidateSelectionLocked(h, TRUE)
           k == [j EXCEPT !.timer = "none",
                          !.lifecycle = [s \in SKIs |-> "absent"]]
           e == shutdown(d)
<1>0. Typed(d, K)
  BY DEF Sound
<1>1. /\ Typed(g, K) /\ Quiet(d, g)
      /\ g.cand = NoCandidate <=> d.cand = NoCandidate
  BY <1>0, RevokeKeeps
<1>2. e = setWaitingLocked(k, FALSE)
  BY DEF shutdown
<1>3. /\ Typed(h, K) /\ Quiet(d, h)
      /\ h.cand = NoCandidate <=> d.cand = NoCandidate
  <2> HIDE DEF g
  <2>1. CASE d.cand = NoCandidate
    BY <1>0, <2>1 DEF Quiet, SelKept
  <2>2. CASE d.cand # NoCandidate
    <3>1. d.cand.ski \in SKIs /\ d.cand.conn \in Nat
      BY <1>0, <2>2 DEF Typed, Coordinator, Candidate
    <3>2. Typed(h, K) /\ Quiet(g, h) /\ h.cand = g.cand
      BY <1>1, <2>2, <3>1, CancelRemoteKeeps
    <3> QED BY <1>1, <3>2, QuietTrans
  <2> QED BY <2>1, <2>2
<1> HIDE DEF g, h
<1>4. /\ Typed(j, K) /\ Quiet(h, j) /\ j.cand = h.cand
  BY <1>3, FinishSelectionKeeps
<1>5. Quiet(d, j) /\ (j.cand = NoCandidate <=> d.cand = NoCandidate)
  BY <1>3, <1>4, QuietTrans
<1>6. Sound(j, K) /\ Ordinary(d, j)
  BY <1>4, <1>5, QuietPhases, QuietOrdinary DEF Sound
<1> HIDE DEF j
<1>7. Minor(j, k)
  BY <1>4 DEF Typed, Coordinator, Minor
<1> HIDE DEF k
<1>8. Sound(k, K) /\ Ordinary(j, k)
  BY <1>6, <1>7, MinorKeeps
<1>9. Sound(e, K) /\ Ordinary(k, e)
  <2>1. Typed(k, K) /\ PhasesOf(k) /\ (~k.attached => ~k.inflight)
    BY <1>8 DEF Sound, PhasesOf
  <2> QED BY <1>2, <2>1, SetWaitingKeeps
<1> QED BY <1>6, <1>8, <1>9, OrdinaryTrans

LEMMA AfterShutdownKeeps ==
    ASSUME NEW K, NEW d, Sound(d, K)
    PROVE  LET e == AfterShutdown(d) IN
           /\ Sound(e, K) /\ SelKept(d, e) /\ e.phase = "Disabled"
           /\ ~e.attached /\ e.trusted = {} /\ e.ask = d.ask
           /\ e.fault = d.fault /\ e.known = d.known
           /\ e.enabled = d.enabled
<1> DEFINE e == AfterShutdown(d)
<1>1. e = [d EXCEPT !.phase = "Disabled", !.window = "none",
                    !.cand = NoCandidate, !.trusted = {},
                    !.inflight = FALSE, !.operation = FALSE,
                    !.attached = FALSE]
  BY DEF AfterShutdown
<1> HIDE DEF e
<1>2. /\ e \in Coordinator /\ e.cand = NoCandidate /\ e.pending = d.pending
      /\ e.sel = d.sel /\ ~e.attached /\ ~e.inflight
      /\ e.fault = d.fault /\ e.phase = "Disabled" /\ e.window = "none"
      /\ e.recovery = d.recovery /\ e.trusted = {} /\ e.ask = d.ask
      /\ e.known = d.known /\ e.enabled = d.enabled
  BY <1>1 DEF Sound, Typed, Coordinator, Phases
<1>3. Typed(e, K)
  BY <1>2 DEF Typed, Sound
<1>4. PhasesOf(e)
  BY <1>2 DEF Sound, PhasesOf
<1> QED BY <1>2, <1>3, <1>4 DEF Sound, SelKept, queueing, e

-----------------------------------------------------------------------------
(* The threads.                                                             *)

\* Thread t leaves the coordinator in e, by Unlock or by setWaitingLocked, and
\* is at r.
Released(e) ==
    \/ /\ c' = [e EXCEPT !.pending = <<>>] /\ queue' = queue \o e.pending
       /\ e.ask = "none"
    \/ /\ c' = [e EXCEPT !.ask = "none"] /\ queue' = queue

Settled(t, e, r) ==
    /\ Released(e) /\ pc' = [pc EXCEPT ![t] = r]
    /\ drainer' \in Threads \cup {NoThread} /\ ended' = ended

LEMMA ReleasedKeeps ==
    ASSUME NEW K, NEW e, Sound(e, K), queue \in Seq(Effects),
           backed(queue, K), Released(e)
    PROVE  /\ Sound(c', K) /\ c'.ask = "none"
           /\ queue' \in Seq(Effects) /\ backed(queue', K)
           /\ c'.phase = e.phase /\ c'.attached = e.attached
           /\ c'.inflight = e.inflight /\ c'.fault = e.fault
           /\ c'.recovery = e.recovery /\ c'.trusted = e.trusted
           /\ c'.sel = e.sel /\ c'.cand = e.cand /\ c'.window = e.window
           /\ c'.known = e.known /\ c'.enabled = e.enabled
<1> DEFINE d == c'
<1>0. e \in Coordinator /\ e.pending \in Seq(Effects) /\ backed(e.pending, K)
  BY DEF Sound, Typed, Coordinator
<1>1. CASE /\ d = [e EXCEPT !.pending = <<>>] /\ queue' = queue \o e.pending
           /\ e.ask = "none"
  <2>1. queue' \in Seq(Effects) /\ backed(queue', K)
    BY <1>0, <1>1, BackedConcat
  <2>2. /\ d.phase = e.phase /\ d.window = e.window /\ d.attached = e.attached
        /\ d.inflight = e.inflight /\ d.fault = e.fault
        /\ d.recovery = e.recovery /\ d.trusted = e.trusted
        /\ d.sel = e.sel /\ d.cand = e.cand /\ d.ask = "none"
        /\ d.known = e.known /\ d.enabled = e.enabled
        /\ d.pending = <<>> /\ d \in Coordinator
    BY <1>0, <1>1, NothingBacked DEF Coordinator
  <2> HIDE DEF d
  <2>3. Typed(d, K)
    BY <2>2, NothingBacked DEF Sound, Typed
  <2>4. PhasesOf(d)
    BY <2>2 DEF Sound, PhasesOf
  <2> QED BY <2>1, <2>2, <2>3, <2>4 DEF Sound, d
<1>2. CASE d = [e EXCEPT !.ask = "none"] /\ queue' = queue
  <2>2. /\ d.phase = e.phase /\ d.window = e.window /\ d.attached = e.attached
        /\ d.inflight = e.inflight /\ d.fault = e.fault
        /\ d.recovery = e.recovery /\ d.trusted = e.trusted
        /\ d.sel = e.sel /\ d.cand = e.cand /\ d.ask = "none"
        /\ d.known = e.known /\ d.enabled = e.enabled
        /\ d.pending = e.pending /\ d \in Coordinator
    BY <1>0, <1>2 DEF Coordinator
  <2> HIDE DEF d
  <2>3. Typed(d, K)
    BY <1>0, <2>2 DEF Sound, Typed
  <2>4. PhasesOf(d)
    BY <2>2 DEF Sound, PhasesOf
  <2> QED BY <1>2, <2>2, <2>3, <2>4 DEF Sound, d
<1> QED BY <1>1, <1>2 DEF Released

\* What is published, trusted or registered: the parts of TrustIsConfirmed.
Trusted(S, D) == \A s \in S : \E n \in 1..MaxConnections : <<s, n>> \in D

LEMMA TrustSplit ==
    TrustIsConfirmed <=>
        /\ durable \subseteq confirmed
        /\ Trusted(c.trusted, durable)
        /\ Trusted(service.registered, confirmed)
  BY DEF TrustIsConfirmed, Trusted

Associations == SKIs \X (1..MaxConnections)

\* What a step of thread t owes the others, with r the place it goes to and e
\* what it leaves of the coordinator.
Owes(t, r, e, K, D) ==
    /\ FrameOf(t, r)
    /\ \A u \in Threads \ {t} : commitsIn(pc[u]) =>
         ~commitsIn(r) /\ CommitOf(pc[u], e, K, D)
    /\ commitsIn(r) => CommitOf(r, e, K, D)
    /\ \A u \in Threads \ {t} : queuesIn(pc[u]) => ~queuesIn(r) /\ queueing(e)
    /\ queuesIn(r) => queueing(e)

LEMMA ThreadsKeep ==
    ASSUME PairingInv, NEW t \in Threads, NEW r, NEW e,
           Owes(t, r, e, confirmed', durable'), pc' = [pc EXCEPT ![t] = r],
           c'.phase = e.phase, c'.attached = e.attached,
           c'.inflight = e.inflight, c'.fault = e.fault, c'.sel = e.sel
    PROVE  /\ FramesInv' /\ CommitInv' /\ QueueInv'
           /\ pc' \in [Threads -> Frame]
<1>0. /\ pc \in [Threads -> Frame] /\ r \in Frame
      /\ pc' \in [Threads -> Frame] /\ pc'[t] = r
      /\ \A u \in Threads \ {t} : pc'[u] = pc[u]
  BY DEF PairingInv, TypeOK, Owes, FrameOf
<1>1. FramesInv'
  BY <1>0 DEF PairingInv, FramesInv, Owes
<1>2. \A q, K, D : CommitOf(q, e, K, D) => CommitOf(q, c', K, D)
  BY DEF CommitOf
<1>3. queueing(e) => queueing(c')
  BY DEF queueing
<1>4. CommitInv'
  <2>1. ASSUME NEW u \in Threads, NEW v \in Threads,
               commitsIn(pc'[u]), commitsIn(pc'[v])
        PROVE  u = v
    <3>1. CASE u = t /\ v = t
      BY <3>1
    <3>2. CASE u = t /\ v # t
      BY <1>0, <2>1, <3>2 DEF Owes
    <3>3. CASE u # t /\ v = t
      BY <1>0, <2>1, <3>3 DEF Owes
    <3>4. CASE u # t /\ v # t
      BY <1>0, <2>1, <3>4 DEF PairingInv, CommitInv
    <3> QED BY <3>1, <3>2, <3>3, <3>4
  <2>2. ASSUME NEW u \in Threads, commitsIn(pc'[u])
        PROVE  CommitOf(pc'[u], c', confirmed', durable')
    <3>1. CASE u = t
      BY <1>0, <1>2, <2>2, <3>1 DEF Owes
    <3>2. CASE u # t
      BY <1>0, <1>2, <2>2, <3>2 DEF Owes
    <3> QED BY <3>1, <3>2
  <2> QED BY <2>1, <2>2 DEF CommitInv
<1>5. QueueInv'
  <2>1. ASSUME NEW u \in Threads, NEW v \in Threads,
               queuesIn(pc'[u]), queuesIn(pc'[v])
        PROVE  u = v
    <3>1. CASE u = t /\ v = t
      BY <3>1
    <3>2. CASE u = t /\ v # t
      BY <1>0, <2>1, <3>2 DEF Owes
    <3>3. CASE u # t /\ v = t
      BY <1>0, <2>1, <3>3 DEF Owes
    <3>4. CASE u # t /\ v # t
      BY <1>0, <2>1, <3>4 DEF PairingInv, QueueInv
    <3> QED BY <3>1, <3>2, <3>3, <3>4
  <2>2. ASSUME NEW u \in Threads, queuesIn(pc'[u])
        PROVE  queueing(c')
    <3>1. CASE u = t
      BY <1>0, <1>3, <2>2, <3>1 DEF Owes
    <3>2. CASE u # t
      BY <1>0, <1>3, <2>2, <3>2 DEF Owes
    <3> QED BY <3>1, <3>2
  <2> QED BY <2>1, <2>2 DEF QueueInv
<1> QED BY <1>0, <1>1, <1>4, <1>5

LEMMA SettledKeeps ==
    ASSUME PairingInv, NEW t \in Threads, NEW r, NEW e, Settled(t, e, r),
           Sound(e, confirmed'), Owes(t, r, e, confirmed', durable'),
           confirmed \subseteq confirmed', confirmed' \subseteq Associations,
           durable' = durable, opened' \in Nat,
           UNCHANGED <<f, service, scenario>>,
           Trusted(e.trusted, durable)
    PROVE  PairingInv'
<1>1. queue \in Seq(Effects) /\ backed(queue, confirmed')
  BY BackedMore DEF PairingInv, TypeOK
<1>2. /\ Sound(c', confirmed') /\ c'.ask = "none"
      /\ queue' \in Seq(Effects) /\ backed(queue', confirmed')
      /\ c'.phase = e.phase /\ c'.attached = e.attached
      /\ c'.inflight = e.inflight /\ c'.fault = e.fault
      /\ c'.trusted = e.trusted /\ c'.sel = e.sel
  BY <1>1, ReleasedKeeps DEF Settled
<1>3. /\ FramesInv' /\ CommitInv' /\ QueueInv'
      /\ pc' \in [Threads -> Frame]
  BY <1>2, ThreadsKeep DEF Settled
<1>4. PhaseOK'
  BY <1>2 DEF Sound, PhasesOf, PhaseOK
<1>5. TypeOK'
  BY <1>2, <1>3, <1>4
  DEF PairingInv, TypeOK, Settled, Sound, Typed, Associations
<1>6. TrustIsConfirmed'
  <2>1. /\ durable \subseteq confirmed
        /\ Trusted(service.registered, confirmed)
    BY TrustSplit DEF PairingInv
  <2>2. Trusted(service.registered, confirmed')
    BY <2>1 DEF Trusted
  <2> QED BY <1>2, <2>1, <2>2 DEF TrustIsConfirmed, Trusted
<1> QED BY <1>2, <1>3, <1>5, <1>6 DEF PairingInv

-----------------------------------------------------------------------------
(* What a thread learns from its section, and where it goes.                *)

SameCall(q, a) ==
    /\ a \in Frame /\ a.at = q.at /\ a.op = q.op /\ a.ski = q.ski
    /\ a.conn = q.conn /\ a.kind = q.kind /\ a.asked = q.asked
    /\ a.body = q.body /\ a.err = q.err /\ a.saved = q.saved

LEMMA ResultType ==
    ASSUME NEW d, NEW s
    PROVE  authorizeRuntimeAttempt(d, s) \in classes \cup {"attempt_denied"}
  BY DEF authorizeRuntimeAttempt, classes

\* A frame with another answer.
LEMMA Answers ==
    ASSUME NEW q \in Frame, NEW x \in Results, NEW b \in BOOLEAN
    PROVE  /\ SameCall(q, [q EXCEPT !.result = x])
           /\ [q EXCEPT !.result = x].result = x
           /\ SameCall(q, [q EXCEPT !.flag = b, !.result = x])
           /\ [q EXCEPT !.flag = b, !.result = x].result = x
  BY DEF Frame, SameCall

LEMMA AnsweredSame ==
    ASSUME NEW q \in Frame, NEW d \in Coordinator, NEW e
    PROVE  LET a == answered(q, d, e) IN
           /\ SameCall(q, a)
           /\ q.op \in commitOps => (a.result = "yes" <=>
                (e.phase = "Committing" /\ d.phase # "Committing"))
           /\ q.op = "select" => (a.result = "yes" <=> selects(d, q.ski))
           /\ q.op = "finish" =>
                a.result = IF d.inflight THEN q.result ELSE "late"
           /\ q.op = "authorize" => a.result \in classes \cup {"attempt_denied"}
<1> DEFINE a == answered(q, d, e)
           yes(b) == IF b THEN "yes" ELSE "no"
           starts == e.phase = "Committing" /\ d.phase # "Committing"
<1>0. \A b \in BOOLEAN : yes(b) \in Results /\ (yes(b) = "yes" <=> b)
  BY DEF Results
<1>1. CASE q.op = "open"
  <2>1. a = [q EXCEPT !.result = yes(opens(d))]
    BY <1>1 DEF answered
  <2>2. yes(opens(d)) \in Results
    BY DEF Results
  <2> HIDE DEF yes
  <2> QED BY <1>1, <2>1, <2>2, Answers DEF commitOps
<1>2. CASE q.op = "select"
  <2>1. a = [q EXCEPT !.result = yes(selects(d, q.ski))]
    BY <1>2 DEF answered
  <2>2. /\ yes(selects(d, q.ski)) \in Results
        /\ yes(selects(d, q.ski)) = "yes" <=> selects(d, q.ski)
    BY DEF Results
  <2> DEFINE x == yes(selects(d, q.ski))
  <2>3. a = [q EXCEPT !.result = x] /\ x \in Results
    BY <2>1, <2>2
  <2> HIDE DEF x, a
  <2>4. SameCall(q, a) /\ a.result = x
    BY <2>3, Answers
  <2> QED BY <1>2, <2>2, <2>4 DEF commitOps, x, a
<1>3. CASE q.op \in commitOps
  <2>1. a = [q EXCEPT !.result = yes(starts)]
    BY <1>3 DEF answered, commitOps
  <2>2. yes(starts) \in Results /\ (yes(starts) = "yes" <=> starts)
    BY DEF Results
  <2>3. q.op \notin {"select", "finish", "authorize"}
    BY <1>3 DEF commitOps
  <2> DEFINE x == yes(starts)
  <2>4. a = [q EXCEPT !.result = x] /\ x \in Results
    BY <2>1, <2>2
  <2> HIDE DEF x, a
  <2>5. SameCall(q, a) /\ a.result = x
    BY <2>4, Answers
  <2> QED BY <1>3, <2>2, <2>3, <2>5 DEF x, a
<1>4. CASE q.op = "authorize"
  <2>1. a = [q EXCEPT !.result = authorizeRuntimeAttempt(d, q.ski)]
    BY <1>4 DEF answered
  <2>2. authorizeRuntimeAttempt(d, q.ski) \in Results
    BY ResultType DEF classes, Results
  <2> DEFINE x == authorizeRuntimeAttempt(d, q.ski)
  <2>3. a = [q EXCEPT !.result = x] /\ x \in Results
    BY <2>1, <2>2
  <2>4. x \in classes \cup {"attempt_denied"}
    BY ResultType
  <2> HIDE DEF x, a
  <2>5. SameCall(q, a) /\ a.result = x
    BY <2>3, Answers
  <2> QED BY <1>4, <2>4, <2>5 DEF commitOps, a
<1>5. CASE q.op = "admit"
  <2>1. PICK b \in BOOLEAN : a = [q EXCEPT !.result = yes(b)]
    BY <1>5 DEF answered
  <2> HIDE DEF yes
  <2> QED BY <1>0, <1>5, <2>1, Answers DEF commitOps
<1>6. CASE q.op = "bind"
  <2>1. a = [q EXCEPT !.result = yes(binds(d, q.ski, q.conn))]
    BY <1>6 DEF answered
  <2>2. yes(binds(d, q.ski, q.conn)) \in Results
    BY DEF Results
  <2> HIDE DEF yes
  <2> QED BY <1>6, <2>1, <2>2, Answers DEF commitOps
<1>7. CASE q.op = "closed"
  <2>1. a = [q EXCEPT !.result = yes(sameCandidate(d, q.ski, q.conn) /\
                                     d.phase = "Committing")]
    BY <1>7 DEF answered
  <2>2. yes(sameCandidate(d, q.ski, q.conn) /\ d.phase = "Committing")
          \in Results
    BY DEF Results
  <2> DEFINE x == yes(sameCandidate(d, q.ski, q.conn) /\
                      d.phase = "Committing")
  <2>3. a = [q EXCEPT !.result = x] /\ x \in Results
    BY <2>1, <2>2
  <2> HIDE DEF x, a
  <2>4. SameCall(q, a)
    BY <2>3, Answers
  <2> QED BY <1>7, <2>4 DEF commitOps, a
<1>8. CASE q.op = "finish"
  <2> DEFINE x == IF d.inflight THEN q.result ELSE "late"
             b == d.cand # NoCandidate /\ d.cand.authorized
  <2>1. a = [q EXCEPT !.flag = b, !.result = x]
    BY <1>8 DEF answered, Frame
  <2>2. x \in Results /\ b \in BOOLEAN
    <3>1. x \in Results
      BY DEF Frame, Results
    <3>2. b \in BOOLEAN
      OBVIOUS
    <3> QED BY <3>1, <3>2
  <2> HIDE DEF b, a, x
  <2>3. SameCall(q, a) /\ a.result = x
    BY <2>1, <2>2, Answers
  <2> QED BY <1>8, <2>3 DEF commitOps, a, x
<1>9. CASE q.op \notin {"open", "select", "authorize", "admit", "bind",
                        "closed", "finish"} \cup commitOps
  <2>1. a = q
    BY <1>9 DEF answered, commitOps
  <2> QED BY <1>9, <2>1 DEF SameCall
<1> QED BY <1>1, <1>2, <1>3, <1>4, <1>5, <1>6, <1>7, <1>8, <1>9

LEMMA IdleFrame ==
    /\ Idle \in Frame /\ Idle.at = "idle" /\ Idle.op = "none"
    /\ ~commitsIn(Idle) /\ ~queuesIn(Idle)
    /\ \A t : FrameOf(t, Idle)
<1>1. Idle \in Frame /\ Idle.at = "idle" /\ Idle.op = "none"
  BY BoundAssumption DEF Idle, Frame, Ops, Kinds, Results
<1>2. ~commitsIn(Idle) /\ ~queuesIn(Idle)
  BY <1>1 DEF commitsIn, queuesIn, commits
<1> QED BY <1>1, <1>2 DEF FrameOf, waiting, onPeer, withPeer

\* Where a thread stands whose section is over.
LEMMA NextPlace ==
    ASSUME NEW t \in Threads, NEW a, FrameOf(t, a), a.at = "enter",
           a.op = "authorize" => a.result \in classes \cup {"attempt_denied"}
    PROVE  LET r == next(a) IN
           /\ FrameOf(t, r)
           /\ commitsIn(r) =>
                /\ \/ a.op = "publish"
                   \/ a.op \in commitOps /\ a.result = "yes"
                /\ r.ski = a.ski /\ r.conn = a.conn /\ r.op = "publish"
                /\ r.at \notin waiting
           /\ queuesIn(r) => a.op = "select" /\ a.result = "yes"
<1> DEFINE r == next(a)
<1>0. a \in Frame
  BY DEF FrameOf
<1>1. CASE a.op = "select" /\ a.result = "yes"
  <2>1. r = [a EXCEPT !.at = "queue"]
    BY <1>1 DEF next
  <2> HIDE DEF r
  <2>2. /\ r \in Frame /\ r.at = "queue" /\ r.op = a.op /\ r.ski = a.ski
        /\ r.kind = a.kind /\ r.saved = a.saved
    BY <1>0, <2>1 DEF Frame
  <2> QED BY <1>1, <2>2
      DEF FrameOf, commitsIn, queuesIn, commits, waiting, onPeer, withPeer, r
<1>2. CASE a.op \in commitOps /\ a.result = "yes"
  <2>1. r = [a EXCEPT !.op = "publish"]
    BY <1>2 DEF next, commitOps
  <2> HIDE DEF r
  <2>2. /\ r \in Frame /\ r.at = "enter" /\ r.op = "publish" /\ r.ski = a.ski
        /\ r.conn = a.conn
    BY <1>0, <2>1 DEF Frame, Ops
  <2>3. a.ski \in SKIs
    BY <1>2 DEF FrameOf, commitOps, withPeer
  <2> QED BY <1>2, <2>2, <2>3
      DEF FrameOf, commitsIn, queuesIn, commits, waiting, onPeer, withPeer, r
<1>3. CASE a.op = "publish"
  <2>1. r = [a EXCEPT !.at = "publishing"]
    BY <1>3 DEF next
  <2> HIDE DEF r
  <2>2. /\ r \in Frame /\ r.at = "publishing" /\ r.op = "publish"
        /\ r.ski = a.ski /\ r.conn = a.conn
    BY <1>0, <1>3, <2>1 DEF Frame
  <2>3. a.ski \in SKIs
    BY <1>3 DEF FrameOf, withPeer
  <2> QED BY <1>3, <2>2, <2>3
      DEF FrameOf, commitsIn, queuesIn, commits, waiting, onPeer, withPeer, r
<1>4. CASE a.op = "finish"
  <2>1. r = [a EXCEPT !.op = "settle"]
    BY <1>4 DEF next
  <2> HIDE DEF r
  <2>2. /\ r \in Frame /\ r.at = "enter" /\ r.op = "settle"
        /\ r.ski = a.ski
    BY <1>0, <2>1 DEF Frame, Ops
  <2>3. a.ski \in SKIs
    BY <1>4 DEF FrameOf, withPeer
  <2> QED BY <2>2, <2>3
      DEF FrameOf, commitsIn, queuesIn, commits, waiting, onPeer, withPeer, r
<1>5. ASSUME NEW at \in {"new", "begun", "discard", "bound", "restore",
                         "failing"},
             r = [a EXCEPT !.at = at],
             a.op \in {"authorize", "admit", "bind", "closed"},
             at = "new" => a.result \in classes,
             at = "restore" => a.op = "closed" /\ a.kind = "terminated"
      PROVE  FrameOf(t, r) /\ ~commitsIn(r) /\ ~queuesIn(r)
  <2> HIDE DEF r
  <2>1. /\ r \in Frame /\ r.at = at /\ r.op = a.op /\ r.ski = a.ski
        /\ r.kind = a.kind /\ r.saved = a.saved /\ r.result = a.result
    BY <1>0, <1>5 DEF Frame
  <2>2. a.ski \in SKIs /\ a.op \in withPeer
    BY <1>5 DEF FrameOf, withPeer
  <2>3. ~commitsIn(r) /\ ~queuesIn(r)
    BY <1>5, <2>1 DEF commitsIn, queuesIn, commits
  <2>4. at \notin waiting \cup {"publishing", "queue"}
    BY <1>5 DEF waiting
  <2>5. /\ at = "restore" => r.saved \in F!Connection
        /\ r.op = "closed" /\ r.kind = "terminated" => r.saved \in F!Connection
    BY <1>5, <2>1 DEF FrameOf
  <2>6. r.op \notin {"publish", "finish", "queued", "select", "confirm"}
    BY <1>5, <2>1
  <2> QED BY <1>5, <2>1, <2>2, <2>3, <2>4, <2>5, <2>6 DEF FrameOf
<1>6. CASE r = Idle
  BY <1>6, IdleFrame
<1>7. CASE a.op = "authorize"
  <2>1. \/ r = Idle
        \/ r = [a EXCEPT !.at = "new"] /\ a.result # "attempt_denied"
    BY <1>7 DEF next
  <2>2. r # Idle => a.result \in classes
    BY <1>7, <2>1
  <2> QED BY <1>5, <1>6, <1>7, <2>1, <2>2
<1>8. CASE a.op = "admit"
  <2>1. r = [a EXCEPT !.at = "begun"] \/ r = [a EXCEPT !.at = "discard"]
    BY <1>8 DEF next
  <2> QED BY <1>5, <1>8, <2>1
<1>9. CASE a.op = "bind"
  <2>1. r = Idle \/ r = [a EXCEPT !.at = "bound"]
    BY <1>9 DEF next
  <2> QED BY <1>5, <1>6, <1>9, <2>1
<1>10. CASE a.op = "closed"
  <2>1. \/ r = Idle \/ r = [a EXCEPT !.at = "failing"]
        \/ r = [a EXCEPT !.at = "restore"] /\ a.kind = "terminated"
    BY <1>10 DEF next
  <2> QED BY <1>5, <1>6, <1>10, <2>1
<1>11. CASE /\ a.op \notin {"publish", "finish", "authorize", "admit", "bind",
                            "closed"}
            /\ ~(a.op \in commitOps \cup {"select"} /\ a.result = "yes")
  <2>1. r = Idle
    BY <1>11 DEF next, commitOps
  <2> QED BY <1>6, <2>1
<1> QED BY <1>1, <1>2, <1>3, <1>4, <1>7, <1>8, <1>9, <1>10, <1>11

-----------------------------------------------------------------------------
(* A critical section, from the mutex to where the thread goes.             *)

\* Thread t is about to run the section of q on d.
Running(t, q, d) ==
    /\ FrameOf(t, q) /\ q.at = "enter"
    /\ Sound(d, confirmed) /\ Ordinary(c, d) /\ d.ask = "none"
    /\ commitsIn(q) => commitsIn(pc[t]) /\ CommitOf(q, c, confirmed, durable)
    /\ queuesIn(q) => queuesIn(pc[t])

begins(a) == a.op \in commitOps /\ a.result = "yes"
selected(a) == a.op = "select" /\ a.result = "yes"

\* The section of thread t has left the coordinator in e and the thread with
\* the answer a; L has been confirmed.
Ready(t, a, e, L) ==
    /\ FrameOf(t, a) /\ a.at = "enter" /\ ~a.body
    /\ Sound(e, L) /\ Trusted(e.trusted, durable)
    /\ \A u \in Threads \ {t} : commitsIn(pc[u]) =>
         /\ CommitOf(pc[u], e, L, durable)
         /\ a.op \notin commits /\ ~begins(a)
    /\ begins(a) \/ a.op = "publish" =>
         CommitOf(a, e, L, durable) /\ e.ask = "none"
    /\ a.op = "finish" =>
         /\ <<a.ski, a.conn>> \in L
         /\ a.result = "durable" => <<a.ski, a.conn>> \in durable
         /\ a.result # "late" =>
              /\ e.phase \notin {"Committing", "TransientTrusted"}
              /\ e.attached => e.inflight
         /\ a.result = "late" => e.ask = "none"
    /\ \A u \in Threads \ {t} : queuesIn(pc[u]) => queueing(e) /\ ~selected(a)
    /\ selected(a) => queueing(e) /\ e.ask = "none"
    /\ a.op \in {"queued", "authorize"} => e.ask = "none"
    /\ a.op = "authorize" => a.result \in classes \cup {"attempt_denied"}

LEMMA OrderlyCommit ==
    ASSUME NEW q, NEW d, NEW e, NEW K, NEW L, NEW D,
           CommitOf(q, d, K, D), Orderly(d, e), K \subseteq L
    PROVE  CommitOf(q, e, L, D)
  BY DEF CommitOf, Orderly

LEMMA OrdinaryTrusted ==
    ASSUME NEW d, NEW e, NEW D, Orderly(d, e), Trusted(d.trusted, D)
    PROVE  Trusted(e.trusted, D)
  BY DEF Orderly, Trusted

LEMMA AskKeeps ==
    ASSUME PairingInv, NEW t \in Threads, NEW a, NEW e, Ask(t, a, e),
           Ready(t, a, e, confirmed'), e.ask # "none",
           confirmed \subseteq confirmed', confirmed' \subseteq Associations,
           durable' = durable, opened' \in Nat,
           UNCHANGED <<f, service, scenario>>
    PROVE  PairingInv'
<1> DEFINE r == [a EXCEPT !.at = "ask", !.asked = e.ask]
           L == confirmed'
<1>0. a \in Frame /\ e \in Coordinator
  BY DEF Ready, FrameOf, Sound, Typed
<1>1. /\ r \in Frame /\ r.at = "ask" /\ r.op = a.op /\ r.ski = a.ski
      /\ r.conn = a.conn /\ r.kind = a.kind /\ r.result = a.result
      /\ r.body = a.body /\ r.saved = a.saved
  BY <1>0 DEF Frame, Coordinator
<1>2. Settled(t, e, r)
  BY DEF Ask, Settled, Released, PairingInv, TypeOK
<1> HIDE DEF r
<1>3. a.op \notin {"publish", "queued", "authorize"} /\ ~begins(a) /\ ~selected(a)
  BY DEF Ready
<1>4. FrameOf(t, r)
  BY <1>1, <1>3 DEF Ready, FrameOf, begins, selected, waiting, onPeer
<1>5. commitsIn(r) => a.op = "finish" /\ a.result # "late"
  BY <1>1, <1>3 DEF commitsIn, commits, Ready
<1>6. ~queuesIn(r)
  BY <1>1, <1>3 DEF queuesIn
<1>7. commitsIn(r) => CommitOf(r, e, L, durable)
  BY <1>1, <1>5 DEF CommitOf, Ready, waiting
<1>8. Owes(t, r, e, L, durable)
  BY <1>4, <1>5, <1>6, <1>7 DEF Owes, Ready, commits
<1> QED BY <1>2, <1>8, SettledKeeps DEF Ready

LEMMA AfterKeeps ==
    ASSUME NEW t \in Threads, NEW a, NEW e, NEW L, Ready(t, a, e, L),
           e.ask = "none"
    PROVE  LET g == after(a, e) IN
           /\ Sound(g, L) /\ Trusted(g.trusted, durable) /\ g.ask = "none"
           /\ SelKept(e, g)
           /\ \A u \in Threads \ {t} : commitsIn(pc[u]) =>
                CommitOf(pc[u], g, L, durable)
           /\ begins(a) \/ a.op = "publish" => CommitOf(a, g, L, durable)
<1> DEFINE g == after(a, e)
<1>0. /\ Sound(e, L) /\ Trusted(e.trusted, durable) /\ SelKept(e, e)
      /\ \A u \in Threads \ {t} : commitsIn(pc[u]) =>
                CommitOf(pc[u], e, L, durable)
      /\ begins(a) \/ a.op = "publish" => CommitOf(a, e, L, durable)
      /\ a \in Frame /\ e \in Coordinator
  BY DEF Ready, SelKept, FrameOf, Sound, Typed
<1>1. CASE a.op = "open" /\ a.result = "yes" /\ ~a.err /\ ~e.fault
  <2>1. g = [e EXCEPT !.timer = "window"]
    BY <1>1 DEF after
  <2>2. Minor(e, g)
    BY <1>0, <2>1, MinorChanges
  <2>3. Sound(g, L) /\ Ordinary(e, g)
    BY <1>0, <2>2, MinorKeeps
  <2>4. ~begins(a)
    BY <1>1 DEF begins, commitOps
  <2> QED BY <1>0, <1>1, <2>2, <2>3, <2>4, OrderlyCommit, OrdinaryTrusted
          DEF Ordinary, Minor
<1>2. CASE a.op = "finish" /\ a.result # "late"
  <2>1. g = AfterConfirmation(e, a.ski, a.conn, a.result, a.flag)
    BY <1>2 DEF after
  <2>2. /\ a.ski \in SKIs /\ a.conn \in Nat /\ a.flag \in BOOLEAN
        /\ <<a.ski, a.conn>> \in L
        /\ e.phase \notin {"Committing", "TransientTrusted"}
    BY <1>0, <1>2, BoundAssumption DEF Ready, FrameOf, withPeer, Frame
  <2>3. /\ Sound(g, L) /\ SelKept(e, g) /\ g.ask = e.ask
        /\ g.trusted = e.trusted
    BY <1>0, <2>1, <2>2, AfterConfirmationKeeps
  <2>4. \A u \in Threads \ {t} : ~commitsIn(pc[u])
    BY <1>2 DEF Ready, commits
  <2>5. ~begins(a)
    BY <1>2 DEF begins, commitOps
  <2> QED BY <1>0, <1>2, <2>3, <2>4, <2>5
<1>3. CASE a.op = "shutdown"
  <2>1. g = AfterShutdown(e)
    BY <1>3 DEF after
  <2>2. /\ Sound(g, L) /\ SelKept(e, g) /\ g.phase = "Disabled"
        /\ ~g.attached /\ g.trusted = {} /\ g.ask = e.ask
    BY <1>0, <2>1, AfterShutdownKeeps
  <2>3. \A u \in Threads \ {t} : commitsIn(pc[u]) =>
                CommitOf(pc[u], g, L, durable)
    BY <1>0, <2>2 DEF CommitOf
  <2>4. ~begins(a)
    BY <1>3 DEF begins, commitOps
  <2> QED BY <1>3, <2>2, <2>3, <2>4 DEF Trusted
<1>4. CASE /\ ~(a.op = "open" /\ a.result = "yes" /\ ~a.err /\ ~e.fault)
           /\ ~(a.op = "finish" /\ a.result # "late")
           /\ a.op # "shutdown"
  <2>1. g = e
    BY <1>4 DEF after
  <2> QED BY <1>0, <2>1
<1> QED BY <1>1, <1>2, <1>3, <1>4

LEMMA UnlockKeeps ==
    ASSUME PairingInv, NEW t \in Threads, NEW a, NEW e,
           Unlock(t, after(a, e), next(a)), ended' = ended,
           Ready(t, a, e, confirmed'), e.ask = "none",
           confirmed \subseteq confirmed', confirmed' \subseteq Associations,
           durable' = durable, opened' \in Nat,
           UNCHANGED <<f, service, scenario>>
    PROVE  PairingInv'
<1> DEFINE g == after(a, e)
           r == next(a)
           L == confirmed'
<1>1. /\ Sound(g, L) /\ Trusted(g.trusted, durable) /\ g.ask = "none"
      /\ SelKept(e, g)
      /\ \A u \in Threads \ {t} : commitsIn(pc[u]) =>
           CommitOf(pc[u], g, L, durable)
      /\ begins(a) \/ a.op = "publish" => CommitOf(a, g, L, durable)
  BY AfterKeeps
<1>2. /\ FrameOf(t, r)
      /\ commitsIn(r) =>
           /\ begins(a) \/ a.op = "publish"
           /\ r.ski = a.ski /\ r.conn = a.conn /\ r.op = "publish"
           /\ r.at \notin waiting
      /\ queuesIn(r) => selected(a)
  BY NextPlace DEF Ready, begins, selected
<1>3. Settled(t, g, r)
  BY <1>1 DEF Unlock, Settled, Released, PairingInv, TypeOK
<1> HIDE DEF g, r
<1>4. commitsIn(r) => CommitOf(r, g, L, durable)
  BY <1>1, <1>2 DEF CommitOf, Ready, waiting
<1>5. \A u \in Threads \ {t} : commitsIn(pc[u]) => ~commitsIn(r)
  BY <1>2 DEF Ready, commits
<1>6. /\ \A u \in Threads \ {t} : queuesIn(pc[u]) => ~queuesIn(r) /\ queueing(g)
      /\ queuesIn(r) => queueing(g)
  BY <1>1, <1>2 DEF Ready, SelKept
<1>7. Owes(t, r, g, L, durable)
  BY <1>1, <1>2, <1>4, <1>5, <1>6 DEF Owes
<1> QED BY <1>1, <1>3, <1>7, SettledKeeps

\* The process ends in the middle of a section.
LEMMA EndedKeeps ==
    ASSUME PairingInv, UNCHANGED <<c, f, service, queue, drainer, pc, durable,
                                   confirmed, scenario>>,
           ended' \in BOOLEAN, opened' \in Nat
    PROVE  PairingInv'
<1>1. TypeOK'
  BY DEF PairingInv, TypeOK, PhaseOK
<1>2. FramesInv' /\ CommitInv' /\ QueueInv'
  BY DEF PairingInv, FramesInv, CommitInv, QueueInv
<1> QED BY <1>1, <1>2 DEF PairingInv, TrustIsConfirmed

LEMMA LeaveKeeps ==
    ASSUME PairingInv, NEW t \in Threads, NEW a, NEW e, Leave(t, a, e),
           Ready(t, a, e, confirmed'), e.ask = "none",
           confirmed \subseteq confirmed', confirmed' \subseteq Associations,
           a.op = "open" => confirmed' = confirmed,
           durable' = durable, opened' \in Nat,
           UNCHANGED <<f, service, scenario>>
    PROVE  PairingInv'
<1>1. CASE nilWindow(a, e)
  <2>1. UNCHANGED <<c, queue, drainer, pc>> /\ ended' = TRUE
    BY <1>1 DEF Leave
  <2>2. a.op = "open"
    BY <1>1 DEF nilWindow
  <2> QED BY <2>1, <2>2, EndedKeeps
<1>2. CASE ~nilWindow(a, e)
  <2>1. Unlock(t, after(a, e), next(a)) /\ ended' = ended
    BY <1>2 DEF Leave
  <2> QED BY <2>1, UnlockKeeps
<1> QED BY <1>1, <1>2

-----------------------------------------------------------------------------
(* The sections.                                                            *)

plain == Ops \ (commitOps \cup {"queued", "finish"})

LEMMA PlainSection ==
    ASSUME NEW t, NEW q, NEW d, NEW K, FrameOf(t, q), q.op \in plain,
           Sound(d, K)
    PROVE  LET e == section(q, d) IN
           /\ Sound(e, K) /\ Ordinary(d, e)
           /\ q.op \in {"publish", "authorize"} => e.ask = d.ask
           /\ q.op = "select" /\ selects(d, q.ski) =>
                queueing(e) /\ ~queueing(d) /\ e.ask = d.ask
<1> DEFINE e == section(q, d)
<1>0. /\ q \in Frame /\ q.conn \in Nat /\ d \in Coordinator
      /\ Sound(d, K) /\ Ordinary(d, d)
      /\ q.op \in withPeer => q.ski \in SKIs
  BY BoundAssumption, OrdinarySelf DEF FrameOf, Frame, Sound, Typed
<1>1. CASE q.op = "open"
  <2>1. e = openPairingWindowLocked(d)
    BY <1>1 DEF section
  <2> QED BY <1>1, <2>1, OpenKeeps
<1>2. CASE q.op = "close"
  <2>1. e = closePairingWindow(d)
    BY <1>2 DEF section
  <2> QED BY <1>2, <2>1, CloseKeeps
<1>3. CASE q.op = "select" /\ selects(d, q.ski)
  <2>1. e = selectCandidate(d, q.ski) /\ q.ski \in SKIs
    BY <1>0, <1>3 DEF section, withPeer
  <2> HIDE DEF e
  <2>2. /\ Sound(e, K) /\ Ordinary(d, e) /\ queueing(e) /\ ~queueing(d)
        /\ e.ask = d.ask
    BY <2>1, <1>3, SelectKeeps
  <2> QED BY <1>3, <2>2 DEF e
<1>4. CASE q.op = "cancel" /\ cancels(d, q.conn)
  <2>1. e = cancel(d)
    BY <1>4 DEF section
  <2> QED BY <1>4, <2>1, CancelKeeps
<1>5. CASE q.op = "admit"
  <2>1. e = admit(d, q.ski, q.conn) /\ q.ski \in SKIs
    BY <1>0, <1>5 DEF section, withPeer
  <2> QED BY <1>0, <1>5, <2>1, AdmitKeeps
<1>6. CASE q.op = "bind"
  <2>1. e = remoteSKIConnected(d, q.ski, q.conn)
    BY <1>6 DEF section
  <2> QED BY <1>6, <2>1, BindKeeps
<1>7. CASE q.op = "closed"
  <2>1. e = connectionClosed(d, q.ski, q.conn)
    BY <1>7 DEF section
  <2> QED BY <1>7, <2>1, ClosedKeeps
<1>8. CASE q.op = "publish"
  <2>1. e = publishes(d)
    BY <1>8 DEF section
  <2>2. Minor(d, e)
    BY <1>0, <2>1, MinorChanges
  <2>3. Sound(e, K) /\ Ordinary(d, e) /\ e.ask = d.ask
    BY <2>2, MinorKeeps DEF Minor
  <2> QED BY <1>8, <2>3
<1>9. CASE q.op = "settle" /\ d.fault
  <2>1. e = failPairingRegistrationLocked(d)
    BY <1>9 DEF section
  <2>2. Typed(d, K) /\ (~d.attached => ~d.inflight)
    BY DEF Sound, PhasesOf
  <2>3. Sound(e, K) /\ Ordinary(d, e)
    BY <2>1, <2>2, FailKeeps
  <2> QED BY <1>9, <2>3
<1>10. CASE q.op = "shutdown"
  <2>1. e = shutdown(d)
    BY <1>10 DEF section
  <2> QED BY <1>10, <2>1, ShutdownKeeps
<1>11. CASE /\ q.op \notin {"open", "close", "admit", "bind", "closed",
                            "publish", "shutdown"}
            /\ ~(q.op = "select" /\ selects(d, q.ski))
            /\ ~(q.op = "cancel" /\ cancels(d, q.conn))
            /\ ~(q.op = "settle" /\ d.fault)
  <2>1. e = d
    BY <1>11 DEF section, plain, commitOps
  <2> QED BY <1>0, <1>11, <2>1
<1> QED BY <1>1, <1>2, <1>3, <1>4, <1>5, <1>6, <1>7, <1>8, <1>9, <1>10, <1>11

\* The section may complete the conditions of a commit.
LEMMA CommitSection ==
    ASSUME NEW t, NEW q, NEW d, NEW K, NEW L, FrameOf(t, q),
           q.op \in commitOps, Sound(d, K), K \subseteq L,
           q.op = "confirm" /\ confirms(d, q.ski, q.conn) =>
               <<q.ski, q.conn>> \in L
    PROVE  LET e == section(q, d) IN
           /\ Sound(e, L)
           /\ \/ Ordinary(d, e)
              \/ Awaits(d, e) /\ q.op = "confirm"
              \/ /\ Starts(d, e) /\ <<q.ski, q.conn>> \in L
                 /\ q.op = "confirm" \/ d.phase = "TransientTrusted"
<1> DEFINE e == section(q, d)
<1>0. /\ q \in Frame /\ q.conn \in Nat /\ q.ski \in SKIs
  BY BoundAssumption DEF FrameOf, Frame, commitOps, withPeer
<1>1. CASE q.op = "confirm" /\ confirms(d, q.ski, q.conn)
  <2> DEFINE M == K \cup {<<q.ski, q.conn>>}
  <2>1. e = confirm(d)
    BY <1>1 DEF section
  <2>2. Sound(e, M) /\ (Starts(d, e) \/ Awaits(d, e))
    BY <1>0, <1>1, <2>1, ConfirmKeeps
  <2>3. M \subseteq L
    BY <1>1
  <2> QED BY <1>1, <2>2, <2>3, SoundMore
<1>2. CASE q.op = "confirm" /\ ~confirms(d, q.ski, q.conn)
  <2>1. e = d
    BY <1>2 DEF section
  <2> QED BY <2>1, SoundMore, OrdinarySelf
<1>3. CASE q.op # "confirm"
  <2>1. e \in {serviceShipIDUpdate(d, q.ski, q.conn),
               connectionCompleted(d, q.ski, q.conn),
               completeTransientRegistration(d, q.ski, q.conn)}
    BY <1>3 DEF section, commitOps
  <2> HIDE DEF e
  <2>2. Sound(e, K) /\ (Ordinary(d, e) \/ StartsFor(d, e, K, q.ski, q.conn))
    BY <2>1, EvidenceKeeps
  <2> QED BY <2>2, SoundMore DEF StartsFor, e
<1> QED BY <1>1, <1>2, <1>3

\* Whoever publishes, nobody else can start a commit.
LEMMA NoOtherCommit ==
    ASSUME PairingInv, NEW t \in Threads, NEW d, Ordinary(c, d),
           Sound(d, confirmed), ~d.inflight, d.phase # "Disabled"
    PROVE  ~commitsIn(pc[t])
  BY DEF PairingInv, CommitInv, CommitOf, Ordinary, Orderly, Sound, PhasesOf

\* The part of Ready that holds whatever the section was.
LEMMA ReadyFrame ==
    ASSUME NEW t \in Threads, NEW q, NEW d, NEW e, FrameOf(t, q),
           q.at = "enter", d \in Coordinator
    PROVE  LET a == answered([q EXCEPT !.body = FALSE], d, e) IN
           /\ FrameOf(t, a) /\ a.at = "enter" /\ ~a.body
           /\ a.op = q.op /\ a.ski = q.ski /\ a.conn = q.conn
           /\ begins(a) <=> /\ q.op \in commitOps
                            /\ e.phase = "Committing" /\ d.phase # "Committing"
           /\ selected(a) <=> q.op = "select" /\ selects(d, q.ski)
           /\ q.op = "finish" =>
                a.result = IF d.inflight THEN q.result ELSE "late"
           /\ q.op = "authorize" => a.result \in classes \cup {"attempt_denied"}
<1> DEFINE p == [q EXCEPT !.body = FALSE]
           a == answered(p, d, e)
<1>0. q \in Frame
  BY DEF FrameOf
<1>1. /\ p \in Frame /\ p.at = "enter" /\ p.op = q.op /\ p.ski = q.ski
      /\ p.conn = q.conn /\ p.kind = q.kind /\ p.saved = q.saved
      /\ ~p.body /\ p.result = q.result
  BY <1>0 DEF Frame
<1> HIDE DEF p
<1>2. /\ SameCall(p, a)
      /\ p.op \in commitOps => (a.result = "yes" <=>
                (e.phase = "Committing" /\ d.phase # "Committing"))
      /\ p.op = "select" => (a.result = "yes" <=> selects(d, p.ski))
      /\ p.op = "finish" =>
                a.result = IF d.inflight THEN p.result ELSE "late"
      /\ p.op = "authorize" => a.result \in classes \cup {"attempt_denied"}
  BY <1>1, AnsweredSame
<1> HIDE DEF a
<1>3. FrameOf(t, a) /\ a.at = "enter" /\ ~a.body
  BY <1>1, <1>2 DEF SameCall, FrameOf, waiting, onPeer
<1>4. a.op = q.op /\ a.ski = q.ski /\ a.conn = q.conn
  BY <1>1, <1>2 DEF SameCall
<1>5. begins(a) <=> /\ q.op \in commitOps
                    /\ e.phase = "Committing" /\ d.phase # "Committing"
  BY <1>1, <1>2, <1>4 DEF begins
<1>6. selected(a) <=> q.op = "select" /\ selects(d, q.ski)
  BY <1>1, <1>2, <1>4 DEF selected
<1> QED BY <1>1, <1>2, <1>3, <1>4, <1>5, <1>6 DEF a, p

\* What the other threads keep through a section that takes c to e.
LEMMA OthersKeep ==
    ASSUME PairingInv, NEW L, confirmed \subseteq L, NEW e, Orderly(c, e)
    PROVE  /\ \A u \in Threads : commitsIn(pc[u]) =>
                CommitOf(pc[u], e, L, durable)
           /\ Trusted(e.trusted, durable)
<1>1. Trusted(c.trusted, durable)
  BY TrustSplit DEF PairingInv
<1>2. \A u \in Threads : commitsIn(pc[u]) =>
        CommitOf(pc[u], c, confirmed, durable)
  BY DEF PairingInv, CommitInv
<1> QED BY <1>1, <1>2, OrderlyCommit, OrdinaryTrusted

LEMMA RunReady ==
    ASSUME PairingInv, NEW t \in Threads, NEW q, NEW d, Running(t, q, d),
           NEW L, confirmed \subseteq L,
           q.op = "confirm" /\ confirms(d, q.ski, q.conn) =>
               <<q.ski, q.conn>> \in L
    PROVE  LET e == section(q, d)
               a == answered([q EXCEPT !.body = FALSE], d, e)
           IN  Ready(t, a, e, L) /\ a.op = q.op
<1> DEFINE e == section(q, d)
           a == answered([q EXCEPT !.body = FALSE], d, e)
<1>0. /\ FrameOf(t, q) /\ q.at = "enter" /\ q \in Frame /\ q.op \in Ops
      /\ Sound(d, confirmed) /\ Ordinary(c, d) /\ d.ask = "none"
      /\ d \in Coordinator
  BY DEF Running, FrameOf, Frame, Sound, Typed
<1>1. /\ FrameOf(t, a) /\ a.at = "enter" /\ ~a.body
      /\ a.op = q.op /\ a.ski = q.ski /\ a.conn = q.conn
      /\ begins(a) <=> /\ q.op \in commitOps
                       /\ e.phase = "Committing" /\ d.phase # "Committing"
      /\ selected(a) <=> q.op = "select" /\ selects(d, q.ski)
      /\ q.op = "finish" =>
           a.result = IF d.inflight THEN q.result ELSE "late"
      /\ q.op = "authorize" => a.result \in classes \cup {"attempt_denied"}
  BY <1>0, ReadyFrame
<1> HIDE DEF a
<1>2. q.op \in commits => \A u \in Threads \ {t} : ~commitsIn(pc[u])
  BY DEF Running, PairingInv, CommitInv, commitsIn
<1>3. \A u \in Threads : queuesIn(pc[u]) => queueing(c) /\ queueing(d)
  BY <1>0 DEF PairingInv, QueueInv, Ordinary, SelKept
<1>4. Sound(d, L) /\ Orderly(c, d)
  BY <1>0, SoundMore DEF Ordinary
<1>5. CASE q.op \in plain
  <2>1. /\ Sound(e, confirmed) /\ Ordinary(d, e)
        /\ q.op \in {"publish", "authorize"} => e.ask = d.ask
        /\ q.op = "select" /\ selects(d, q.ski) =>
             queueing(e) /\ ~queueing(d) /\ e.ask = d.ask
    BY <1>0, <1>5, PlainSection
  <2> HIDE DEF e
  <2>2. Sound(e, L) /\ Orderly(c, e)
    BY <1>4, <2>1, SoundMore, OrderlyTrans DEF Ordinary
  <2>3. /\ \A u \in Threads : commitsIn(pc[u]) => CommitOf(pc[u], e, L, durable)
        /\ Trusted(e.trusted, durable)
    BY <2>2, OthersKeep
  <2>4. ~begins(a) /\ a.op \notin {"finish", "queued"}
    BY <1>1, <1>5 DEF plain
  <2>5. a.op \in commits => a.op = "publish"
    BY <2>4 DEF commits
  <2>6. a.op = "publish" => CommitOf(a, e, L, durable) /\ e.ask = "none"
    <3>1. a.op = "publish" => CommitOf(q, c, confirmed, durable)
      BY <1>1 DEF Running, commitsIn, commits
    <3>2. a.op = "publish" => CommitOf(q, e, L, durable)
      BY <2>2, <3>1, OrderlyCommit
    <3> QED BY <1>0, <1>1, <2>1, <3>2 DEF CommitOf
  <2>7. \A u \in Threads : queuesIn(pc[u]) => queueing(e) /\ ~selected(a)
    BY <1>1, <1>3, <2>1 DEF Ordinary, SelKept
  <2>8. selected(a) => queueing(e) /\ e.ask = "none"
    BY <1>0, <1>1, <2>1
  <2>9. a.op \in {"queued", "authorize"} => e.ask = "none"
    BY <1>0, <1>1, <2>1, <2>4
  <2> QED BY <1>1, <1>2, <2>2, <2>3, <2>4, <2>5, <2>6, <2>7, <2>8, <2>9
          DEF Ready, a, e
<1>6. CASE q.op = "queued"
  <2>1. queuesIn(pc[t]) /\ \A u \in Threads \ {t} : ~queuesIn(pc[u])
    BY <1>6 DEF Running, queuesIn, PairingInv, QueueInv
  <2>2. d.sel # NoSelection
    BY <1>3, <2>1 DEF queueing
  <2>3. e = candidateQueued(d, q.result = "queued", q.flag)
    BY <1>6 DEF section
  <2>4. q.flag \in BOOLEAN
    BY <1>0 DEF Frame
  <2>5. Sound(e, confirmed) /\ Orderly(d, e) /\ e.ask = d.ask
    BY <1>0, <2>2, <2>3, <2>4, QueuedKeeps
  <2> HIDE DEF e
  <2>6. Sound(e, L) /\ Orderly(c, e)
    BY <1>4, <2>5, SoundMore, OrderlyTrans
  <2>7. /\ \A u \in Threads : commitsIn(pc[u]) => CommitOf(pc[u], e, L, durable)
        /\ Trusted(e.trusted, durable)
    BY <2>6, OthersKeep
  <2>8. ~begins(a) /\ ~selected(a) /\ a.op \notin commits
    BY <1>1, <1>6 DEF commits, commitOps
  <2> QED BY <1>0, <1>1, <1>6, <2>1, <2>5, <2>6, <2>7, <2>8
          DEF Ready, commits, a, e
<1>7. CASE q.op = "finish"
  <2>1. CommitOf(q, c, confirmed, durable)
    BY <1>7 DEF Running, commitsIn, commits
  <2>2. CommitOf(q, d, L, durable)
    BY <1>4, <2>1, OrderlyCommit
  <2>3. ~begins(a) /\ ~selected(a) /\ a.op = "finish"
    BY <1>1, <1>7 DEF commitOps
  <2>4. \A u \in Threads \ {t} : ~commitsIn(pc[u])
    BY <1>2, <1>7 DEF commits
  <2>5. CASE ~d.inflight
    <3>1. e = d
      BY <1>7, <2>5 DEF section
    <3>2. a.result = "late"
      BY <1>1, <1>7, <2>5
    <3>3. Trusted(d.trusted, durable)
      BY <1>4, OthersKeep
    <3>4. <<a.ski, a.conn>> \in L
      BY <1>1, <2>2 DEF CommitOf
    <3> QED BY <1>0, <1>1, <1>3, <1>4, <2>3, <2>4, <3>1, <3>2, <3>3, <3>4
            DEF Ready, a, e
  <2>6. CASE d.inflight
    <3>1. e = finishRecoveryConfirmationLocked(d, q.ski, q.result)
      BY <1>7, <2>6 DEF section
    <3>2. q.ski \in SKIs
      BY <1>0, <1>7 DEF FrameOf, withPeer
    <3>3. d.attached
      BY <1>0, <2>6 DEF Sound, PhasesOf
    <3>4. d.fault \/ d.phase = "Committing"
      BY <1>0, <2>2, <3>3 DEF CommitOf, waiting
    <3> HIDE DEF e
    <3>5. /\ Sound(e, L) /\ SelKept(d, e) /\ Outcome(d, e, q.ski, q.result)
          /\ e.attached = d.attached /\ e.inflight = d.inflight
          /\ e.phase \in {"PairingClosed", "Disabled"}
      BY <1>4, <2>6, <3>1, <3>2, <3>4, FinishKeeps
    <3>6. a.result = q.result
      BY <1>1, <1>7, <2>6
    <3>7. <<a.ski, a.conn>> \in L /\ a.ski = q.ski
      BY <1>1, <2>2 DEF CommitOf
    <3>8. a.result = "durable" => <<a.ski, a.conn>> \in durable
      BY <1>1, <1>7, <2>1, <3>6 DEF CommitOf
    <3>9. Trusted(e.trusted, durable)
      <4>1. Trusted(d.trusted, durable)
        BY <1>4, OthersKeep
      <4>2. q.result = "durable" =>
              \E n \in 1..MaxConnections : <<q.ski, n>> \in durable
        <5>1. <<q.ski, q.conn>> \in durable =>
                q.conn \in 1..MaxConnections
          BY DEF PairingInv, TypeOK
        <5> QED BY <1>1, <3>6, <3>8, <5>1
      <4> QED BY <3>5, <4>1, <4>2 DEF Outcome, Trusted
    <3>10. \A u \in Threads : queuesIn(pc[u]) => queueing(e)
      BY <1>3, <3>5 DEF SelKept
    <3>11. a.op \notin {"queued", "authorize", "publish"}
      BY <2>3
    <3>12. /\ e.phase \notin {"Committing", "TransientTrusted"}
           /\ e.attached => e.inflight
      BY <2>6, <3>5
    <3>13. a.result # "late"
      BY <1>7, <2>1, <3>6 DEF CommitOf
    <3> QED BY <1>1, <2>3, <2>4, <3>5, <3>7, <3>8, <3>9, <3>10, <3>11, <3>12,
               <3>13 DEF Ready, a, e
  <2> QED BY <2>5, <2>6
<1>8. CASE q.op \in commitOps
  <2>1. /\ Sound(e, L)
        /\ \/ Ordinary(d, e) \/ Awaits(d, e)
           \/ Starts(d, e) /\ <<q.ski, q.conn>> \in L
    BY <1>0, <1>8, CommitSection
  <2> HIDE DEF e
  <2>2. /\ a.op \notin commits \cup {"queued", "authorize", "select"}
        /\ ~selected(a)
    BY <1>1, <1>8 DEF commits, commitOps, selected
  <2>3. CASE Ordinary(d, e)
    <3>1. Orderly(c, e) /\ ~begins(a)
      BY <1>1, <1>4, <2>3, OrderlyTrans DEF Ordinary, Orderly
    <3>2. /\ \A u \in Threads : commitsIn(pc[u]) => CommitOf(pc[u], e, L, durable)
          /\ Trusted(e.trusted, durable)
      BY <3>1, OthersKeep
    <3>3. \A u \in Threads : queuesIn(pc[u]) => queueing(e)
      BY <1>3, <2>3 DEF Ordinary, SelKept
    <3> QED BY <1>1, <2>1, <2>2, <3>1, <3>2, <3>3 DEF Ready, commits, a, e
  <2>4. CASE \/ Awaits(d, e)
             \/ Starts(d, e) /\ <<q.ski, q.conn>> \in L
    <3>1. \A u \in Threads : ~commitsIn(pc[u])
      BY <1>0, <2>4, NoOtherCommit DEF Awaits, Starts
    <3>2. e.trusted = d.trusted /\ e.ask = "none" /\ SelKept(d, e)
      BY <1>0, <2>4 DEF Awaits, Starts
    <3>3. Trusted(e.trusted, durable)
      BY <1>4, <3>2, OthersKeep
    <3>4. \A u \in Threads : queuesIn(pc[u]) => queueing(e)
      BY <1>3, <3>2 DEF SelKept
    <3>5. begins(a) => CommitOf(a, e, L, durable)
      BY <1>1, <2>2, <2>4
      DEF Awaits, Starts, CommitOf, waiting, commits
    <3> QED BY <1>1, <2>1, <2>2, <3>1, <3>2, <3>3, <3>4, <3>5
            DEF Ready, commits, a, e
  <2> QED BY <2>1, <2>3, <2>4
<1> QED BY <1>0, <1>1, <1>5, <1>6, <1>7, <1>8 DEF plain, a

LEMMA RunKeeps ==
    ASSUME PairingInv, NEW t \in Threads, NEW q, NEW d, Running(t, q, d),
           Run(t, q, d), durable' = durable, UNCHANGED <<f, service, scenario>>
    PROVE  PairingInv'
<1> DEFINE e == section(q, d)
           a == answered([q EXCEPT !.body = FALSE], d, e)
<1>1. /\ AskOrLeave(t, a, e)
      /\ confirmed' = IF q.op = "confirm" /\ confirms(d, q.ski, q.conn)
                      THEN confirmed \cup {<<q.ski, q.conn>>} ELSE confirmed
      /\ opened' = IF q.op = "open" /\ opens(d) THEN opened + 1 ELSE opened
  BY DEF Run, Apply
<1>2. opened' \in Nat
  BY <1>1 DEF PairingInv, TypeOK
<1>3. confirmed \subseteq confirmed' /\ confirmed' \subseteq Associations
  <2>1. q.op = "confirm" => <<q.ski, q.conn>> \in Associations
    BY DEF Running, FrameOf, withPeer, Associations
  <2>2. confirmed \subseteq Associations
    BY DEF PairingInv, TypeOK, Associations
  <2> QED BY <1>1, <2>1, <2>2
<1>4. q.op = "confirm" /\ confirms(d, q.ski, q.conn) =>
        <<q.ski, q.conn>> \in confirmed'
  BY <1>1
<1>5. Ready(t, a, e, confirmed') /\ a.op = q.op
  BY <1>3, <1>4, RunReady
<1>6. a.op = "open" => confirmed' = confirmed
  BY <1>1, <1>5
<1> HIDE DEF a, e
<1>7. CASE e.ask # "none"
  <2>1. Ask(t, a, e)
    BY <1>1, <1>7 DEF AskOrLeave
  <2> QED BY <1>2, <1>3, <1>5, <1>7, <2>1, AskKeeps
<1>8. CASE e.ask = "none"
  <2>1. Leave(t, a, e)
    BY <1>1, <1>8 DEF AskOrLeave
  <2> QED BY <1>2, <1>3, <1>5, <1>6, <1>8, <2>1, LeaveKeeps
<1> QED BY <1>7, <1>8

\* The section begins with expireLocked, which may have to turn the
\* registration off first.
LEMMA LockKeeps ==
    ASSUME PairingInv, NEW t \in Threads, NEW q, FrameOf(t, q),
           q.at = "enter",
           commitsIn(q) => commitsIn(pc[t]) /\ CommitOf(q, c, confirmed, durable),
           queuesIn(q) => queuesIn(pc[t]),
           Lock(t, q), UNCHANGED <<f, service, scenario>>
    PROVE  PairingInv'
<1> DEFINE d == IF expires(q.op) THEN expireLocked(c) ELSE c
<1>0. /\ Sound(c, confirmed) /\ c.ask = "none" /\ q \in Frame
      /\ confirmed \subseteq Associations /\ opened \in Nat
  BY DEF PairingInv, TypeOK, FrameOf, Associations
<1>1. Sound(d, confirmed) /\ Ordinary(c, d)
  BY <1>0, ExpireKeeps, OrdinarySelf
<1>2. ~expires(q.op) => d.ask = "none"
  BY <1>0
<1>3. AskOrRun(t, q, d)
  BY DEF Lock
<1> HIDE DEF d
<1>4. CASE d.ask = "none"
  <2>1. Run(t, q, d) /\ durable' = durable
    BY <1>3, <1>4 DEF AskOrRun
  <2>2. Running(t, q, d)
    BY <1>1, <1>4 DEF Running
  <2> QED BY <2>1, <2>2, RunKeeps
<1>5. CASE d.ask # "none"
  <2> DEFINE p == [q EXCEPT !.body = TRUE]
             r == [p EXCEPT !.at = "ask", !.asked = d.ask]
  <2>1. Ask(t, p, d) /\ UNCHANGED history
    BY <1>3, <1>5 DEF AskOrRun
  <2>2. Settled(t, d, r)
    BY <2>1 DEF Ask, Settled, Released, PairingInv, TypeOK
  <2>3. d.ask \in {"none", "on", "off"}
    BY <1>1 DEF Sound, Typed, Coordinator
  <2>4. /\ p \in Frame /\ p.op = q.op /\ p.ski = q.ski /\ p.conn = q.conn
        /\ p.kind = q.kind /\ p.saved = q.saved /\ p.body
    BY <1>0 DEF Frame
  <2> HIDE DEF p
  <2>5. /\ r \in Frame /\ r.at = "ask" /\ r.op = q.op /\ r.ski = q.ski
        /\ r.conn = q.conn /\ r.kind = q.kind /\ r.saved = q.saved /\ r.body
    BY <2>3, <2>4 DEF Frame
  <2> HIDE DEF r
  <2>6. expires(r.op) /\ r.op \notin {"queued", "publish", "finish"}
    BY <1>2, <1>5, <2>5 DEF expires
  <2>7. FrameOf(t, r)
    BY <2>5, <2>6 DEF FrameOf, waiting, onPeer
  <2>8. ~commitsIn(r) /\ ~queuesIn(r)
    BY <2>5, <2>6 DEF commitsIn, queuesIn, commits
  <2>9. /\ \A u \in Threads : commitsIn(pc[u]) =>
             CommitOf(pc[u], d, confirmed, durable)
        /\ Trusted(d.trusted, durable)
    BY <1>1, OthersKeep DEF Ordinary
  <2>10. \A u \in Threads : queuesIn(pc[u]) => queueing(d)
    BY <1>1 DEF PairingInv, QueueInv, Ordinary, SelKept
  <2>11. UNCHANGED <<confirmed, durable, opened>>
    BY <2>1 DEF history
  <2>12. Owes(t, r, d, confirmed', durable')
    BY <2>7, <2>8, <2>9, <2>10, <2>11 DEF Owes
  <2> QED BY <1>0, <1>1, <2>2, <2>9, <2>11, <2>12, SettledKeeps
<1> QED BY <1>4, <1>5

-----------------------------------------------------------------------------
(* The steps that enter the coordinator.                                    *)

LEMMA FrameAt ==
    ASSUME PairingInv, NEW t \in Threads
    PROVE  /\ pc[t] \in Frame /\ FrameOf(t, pc[t])
           /\ commitsIn(pc[t]) => CommitOf(pc[t], c, confirmed, durable)
  BY DEF PairingInv, FramesInv, CommitInv, FrameOf

LEMMA EnterKeeps ==
    ASSUME PairingInv, NEW t \in Threads, Enter(t), scenario' = scenario
    PROVE  PairingInv'
  BY FrameAt, LockKeeps DEF Enter

LEMMA PrepareFailsKeeps ==
    ASSUME PairingInv, NEW t \in Threads, PrepareFails(t),
           scenario' = scenario
    PROVE  PairingInv'
<1> DEFINE q == [pc[t] EXCEPT !.op = "finish", !.result = "unchanged"]
<1>0. /\ pc[t] \in Frame /\ FrameOf(t, pc[t]) /\ pc[t].at = "enter"
      /\ pc[t].op = "publish" /\ Lock(t, q) /\ UNCHANGED <<f, service>>
  BY FrameAt DEF PrepareFails
<1>1. commitsIn(pc[t]) /\ CommitOf(pc[t], c, confirmed, durable)
  BY <1>0, FrameAt DEF commitsIn, commits
<1>2. /\ q \in Frame /\ q.at = "enter" /\ q.op = "finish"
      /\ q.ski = pc[t].ski /\ q.conn = pc[t].conn /\ q.result = "unchanged"
  BY <1>0 DEF Frame, Ops, Results
<1> HIDE DEF q
<1>3. q.ski \in SKIs
  BY <1>0, <1>2 DEF FrameOf, withPeer
<1>4. FrameOf(t, q)
  BY <1>2, <1>3 DEF FrameOf, waiting, onPeer
<1>5. CommitOf(q, c, confirmed, durable)
  BY <1>0, <1>1, <1>2 DEF CommitOf, waiting
<1>6. ~queuesIn(q)
  BY <1>2 DEF queuesIn
<1> QED BY <1>0, <1>1, <1>2, <1>4, <1>5, <1>6, LockKeeps

\* setWaitingLocked was the last thing of the section.
LEMMA WaitingReady ==
    ASSUME PairingInv, NEW t \in Threads, pc[t].at = "asked", ~pc[t].body
    PROVE  LET d == waitingSet(c, pc[t].asked = "on", pc[t].err)
               r == [pc[t] EXCEPT !.at = "enter", !.asked = "none"]
           IN  /\ Ready(t, r, d, confirmed) /\ Ordinary(c, d)
               /\ d.ask = "none" /\ ~selected(r) /\ r.op = pc[t].op
<1> DEFINE q == pc[t]
           d == waitingSet(c, q.asked = "on", q.err)
           r == [q EXCEPT !.at = "enter", !.asked = "none"]
<1>0. /\ q \in Frame /\ FrameOf(t, q) /\ q.at = "asked" /\ ~q.body
      /\ Sound(c, confirmed) /\ c.ask = "none"
  BY FrameAt DEF PairingInv, TypeOK
<1>1. Sound(d, confirmed) /\ Ordinary(c, d) /\ d.ask = "none"
  <2>1. q.err \in BOOLEAN /\ (q.asked = "on") \in BOOLEAN
    BY <1>0 DEF Frame
  <2> QED BY <1>0, <2>1, WaitingSetKeeps
<1>2. /\ r \in Frame /\ r.at = "enter" /\ r.op = q.op /\ r.ski = q.ski
      /\ r.conn = q.conn /\ r.kind = q.kind /\ r.saved = q.saved
      /\ r.result = q.result /\ r.body = q.body
  BY <1>0 DEF Frame
<1> HIDE DEF d, r
<1>3. /\ r.op \notin {"publish", "queued", "authorize"}
      /\ ~begins(r) /\ ~selected(r)
  BY <1>0, <1>2 DEF FrameOf, waiting, begins, selected
<1>4. FrameOf(t, r)
  BY <1>0, <1>2, <1>3 DEF FrameOf, waiting, onPeer
<1>5. /\ \A u \in Threads : commitsIn(pc[u]) =>
           CommitOf(pc[u], d, confirmed, durable)
      /\ Trusted(d.trusted, durable)
  BY <1>1, OthersKeep DEF Ordinary
<1>6. \A u \in Threads : queuesIn(pc[u]) => queueing(d)
  BY <1>1 DEF PairingInv, QueueInv, Ordinary, SelKept
<1>7. r.op = "finish" =>
        /\ <<r.ski, r.conn>> \in confirmed
        /\ r.result = "durable" => <<r.ski, r.conn>> \in durable
        /\ d.phase \notin {"Committing", "TransientTrusted"}
        /\ d.attached => d.inflight
        /\ \A u \in Threads \ {t} : ~commitsIn(pc[u])
  <2>1. r.op = "finish" => commitsIn(q) /\ CommitOf(q, c, confirmed, durable)
    BY <1>2, FrameAt DEF commitsIn, commits
  <2>2. r.op = "finish" => CommitOf(q, d, confirmed, durable)
    BY <1>1, <2>1, OrderlyCommit DEF Ordinary
  <2>3. r.op = "finish" => \A u \in Threads \ {t} : ~commitsIn(pc[u])
    BY <2>1 DEF PairingInv, CommitInv
  <2> QED BY <1>0, <1>2, <2>1, <2>2, <2>3 DEF CommitOf, waiting
<1>8. Ready(t, r, d, confirmed)
  BY <1>0, <1>1, <1>2, <1>3, <1>4, <1>5, <1>6, <1>7 DEF Ready, commits
<1> QED BY <1>1, <1>2, <1>3, <1>8 DEF d, r

LEMMA WaitingSetStepKeeps ==
    ASSUME PairingInv, NEW t \in Threads, WaitingSet(t), scenario' = scenario
    PROVE  PairingInv'
<1> DEFINE q == pc[t]
           d == waitingSet(c, q.asked = "on", q.err)
           r == [q EXCEPT !.at = "enter", !.asked = "none"]
           p == [r EXCEPT !.err = FALSE]
<1>0. /\ q \in Frame /\ FrameOf(t, q) /\ q.at = "asked"
      /\ Sound(c, confirmed) /\ c.ask = "none"
      /\ UNCHANGED <<f, service>>
      /\ confirmed \subseteq Associations /\ opened \in Nat
  BY FrameAt DEF WaitingSet, PairingInv, TypeOK, Associations
<1>1. Sound(d, confirmed) /\ Ordinary(c, d) /\ d.ask = "none"
  <2>1. q.err \in BOOLEAN /\ (q.asked = "on") \in BOOLEAN
    BY <1>0 DEF Frame
  <2> QED BY <1>0, <2>1, WaitingSetKeeps
<1>2. /\ q.body => Run(t, p, d) /\ durable' = durable
      /\ ~q.body => Leave(t, r, d) /\ UNCHANGED history
  BY DEF WaitingSet
<1>3. /\ r \in Frame /\ r.at = "enter" /\ r.op = q.op /\ r.ski = q.ski
      /\ r.conn = q.conn /\ r.kind = q.kind /\ r.saved = q.saved
  BY <1>0 DEF Frame
<1> HIDE DEF d, r
<1>4. /\ p \in Frame /\ p.at = "enter" /\ p.op = q.op /\ p.ski = q.ski
      /\ p.conn = q.conn /\ p.kind = q.kind /\ p.saved = q.saved
  BY <1>3 DEF Frame
<1> HIDE DEF p
<1>5. FrameOf(t, p)
  <2>1. q.op \notin {"publish", "queued"}
    BY <1>0 DEF FrameOf
  <2> QED BY <1>0, <1>3, <1>4, <2>1 DEF FrameOf, waiting, onPeer
<1>6. CASE q.body
  <2>1. expires(p.op)
    BY <1>0, <1>4, <1>6 DEF FrameOf, waiting
  <2>2. ~commitsIn(p) /\ ~queuesIn(p)
    BY <1>4, <2>1 DEF expires, commitsIn, queuesIn, commits
  <2>3. Running(t, p, d)
    BY <1>1, <1>4, <1>5, <2>2 DEF Running
  <2> QED BY <1>0, <1>2, <1>6, <2>3, RunKeeps
<1>7. CASE ~q.body
  <2>1. Leave(t, r, d) /\ UNCHANGED <<confirmed, durable, opened>>
    BY <1>2, <1>7 DEF history
  <2>2. Ready(t, r, d, confirmed')
    BY <1>0, <1>7, <2>1, WaitingReady DEF d, r
  <2> QED BY <1>0, <1>1, <2>1, <2>2, LeaveKeeps
<1> QED BY <1>6, <1>7

-----------------------------------------------------------------------------
(* The facade.                                                              *)

LEMMA Replaced ==
    ASSUME NEW g \in F!Facade, NEW s \in SKIs,
           NEW k \in F!Connection \cup {F!NoConnection}
    PROVE  [g EXCEPT !.connections[s] = k] \in F!Facade
<1> DEFINE w == [g.connections EXCEPT ![s] = k]
<1>1. w \in [SKIs -> F!Connection \cup {F!NoConnection}]
  BY DEF F!Facade
<1>2. [g EXCEPT !.connections[s] = k] = [g EXCEPT !.connections = w]
  BY DEF F!Facade
<1> HIDE DEF w
<1> QED BY <1>1, <1>2 DEF F!Facade

LEMMA Deletes ==
    ASSUME NEW g \in F!Facade, NEW s \in SKIs
    PROVE  F!delete(g, s) \in F!Facade
  BY Replaced DEF F!delete

LEMMA KnownType ==
    ASSUME NEW g \in F!Facade, NEW s \in SKIs, F!known(g, s)
    PROVE  /\ g.connections[s] \in F!Connection
           /\ g.connections[s].generation \in 1..MaxConnections
  BY DEF F!known, F!Facade, F!Connection

LEMMA Fences ==
    ASSUME NEW g \in F!Facade, NEW s \in SKIs, F!known(g, s)
    PROVE  /\ F!fence(g, s) \in F!Facade /\ F!known(F!fence(g, s), s)
           /\ F!fence(g, s).connections[s].generation =
                g.connections[s].generation
<1> DEFINE k == g.connections[s]
           j == [k EXCEPT !.active = FALSE, !.blocked = TRUE, !.ship = FALSE]
<1>1. k \in F!Connection
  BY KnownType
<1>2. F!fence(g, s) = [g EXCEPT !.connections[s] = j]
  BY <1>1 DEF F!fence, F!Facade, F!Connection
<1>3. j \in F!Connection /\ j.generation = k.generation
  BY <1>1 DEF F!Connection
<1>4. j # F!NoConnection
  BY <1>3, BoundAssumption DEF F!Connection, F!NoConnection
<1> HIDE DEF j
<1>5. F!fence(g, s) \in F!Facade
  BY <1>2, <1>3, Replaced
<1>6. F!fence(g, s).connections[s] = j
  BY <1>2 DEF F!Facade
<1> QED BY <1>3, <1>4, <1>5, <1>6 DEF F!known

LEMMA Cancels ==
    ASSUME NEW g \in F!Facade, NEW s \in SKIs, NEW n
    PROVE  F!cancelGeneration(g, s, n) \in F!Facade
  BY Fences, Deletes DEF F!cancelGeneration, F!current

LEMMA SetsWaiting ==
    ASSUME NEW g \in F!Facade, NEW b \in BOOLEAN
    PROVE  F!setWaiting(g, b) \in F!Facade
<1>1. CASE b
  <2> DEFINE m == g.epoch + 1
  <2>1. m \in Nat
    BY DEF F!Facade
  <2>2. F!setWaiting(g, b) = [g EXCEPT !.registration = TRUE, !.epoch = m]
    BY <1>1 DEF F!setWaiting, F!Facade
  <2> HIDE DEF m
  <2> QED BY <2>1, <2>2 DEF F!Facade
<1>2. CASE ~b
  <2> DEFINE w == [s \in SKIs |->
                     IF /\ F!known(g, s) /\ g.connections[s].blocked
                        /\ ~g.connections[s].connected
                     THEN F!NoConnection ELSE g.connections[s]]
  <2>1. w \in [SKIs -> F!Connection \cup {F!NoConnection}]
    BY DEF F!Facade
  <2>2. F!setWaiting(g, b) = [g EXCEPT !.registration = FALSE,
                                       !.connections = w]
    BY <1>2 DEF F!setWaiting
  <2> HIDE DEF w
  <2> QED BY <2>1, <2>2 DEF F!Facade
<1> QED BY <1>1, <1>2

\* The marks that the steps below set on a connection.
LEMMA Marks ==
    ASSUME NEW g \in F!Facade, NEW s \in SKIs, F!known(g, s),
           NEW b \in BOOLEAN, NEW b2 \in BOOLEAN
    PROVE  /\ [g EXCEPT !.connections[s].connected = TRUE,
                        !.connections[s].active = TRUE] \in F!Facade
           /\ [g EXCEPT !.connections[s].ship = TRUE] \in F!Facade
           /\ [g EXCEPT !.connections[s].active = TRUE] \in F!Facade
           /\ [g EXCEPT !.connections[s].tls = TRUE] \in F!Facade
           /\ [g EXCEPT !.connections[s].admitted = FALSE] \in F!Facade
           /\ [g EXCEPT !.connections[s].admitted = ~b,
                        !.connections[s].outgoing = b] \in F!Facade
           /\ [g EXCEPT !.connections[s].failed = TRUE,
                        !.connections[s].admitted = FALSE,
                        !.connections[s].outgoing = FALSE] \in F!Facade
           /\ [g EXCEPT !.connections[s].connected = FALSE] \in F!Facade
           /\ [g EXCEPT !.connections[s].active = b,
                        !.connections[s].blocked = FALSE,
                        !.connections[s].ship = b2] \in F!Facade
           /\ F!registerRemoteSKI(g, s) \in F!Facade
           /\ F!registerTransientRemoteSKI(g, s) \in F!Facade
           /\ F!unregisterTransientRemoteSKI(g, s) \in F!Facade
           /\ [g EXCEPT !.connections[s].transient = FALSE] \in F!Facade
<1> DEFINE k == g.connections[s]
<1>0. k \in F!Connection /\ g \in F!Facade
  BY KnownType
<1>1. \A j \in F!Connection : [g EXCEPT !.connections[s] = j] \in F!Facade
  BY Replaced
<1>2. [g EXCEPT !.connections[s].connected = TRUE,
                !.connections[s].active = TRUE] \in F!Facade
  <2> DEFINE j == [k EXCEPT !.connected = TRUE, !.active = TRUE]
  <2>1. j \in F!Connection
    BY <1>0 DEF F!Connection
  <2>2. [g EXCEPT !.connections[s].connected = TRUE,
                  !.connections[s].active = TRUE]
          = [g EXCEPT !.connections[s] = j]
    BY <1>0 DEF F!Facade, F!Connection
  <2> QED BY <1>1, <2>1, <2>2
<1>3. [g EXCEPT !.connections[s].ship = TRUE] \in F!Facade
  <2>1. [k EXCEPT !.ship = TRUE] \in F!Connection
    BY <1>0 DEF F!Connection
  <2> QED BY <1>1, <2>1
<1>4. [g EXCEPT !.connections[s].active = TRUE] \in F!Facade
  <2>1. [k EXCEPT !.active = TRUE] \in F!Connection
    BY <1>0 DEF F!Connection
  <2> QED BY <1>1, <2>1
<1>5. [g EXCEPT !.connections[s].tls = TRUE] \in F!Facade
  <2>1. [k EXCEPT !.tls = TRUE] \in F!Connection
    BY <1>0 DEF F!Connection
  <2> QED BY <1>1, <2>1
<1>6. [g EXCEPT !.connections[s].admitted = FALSE] \in F!Facade
  <2>1. [k EXCEPT !.admitted = FALSE] \in F!Connection
    BY <1>0 DEF F!Connection
  <2> QED BY <1>1, <2>1
<1>7. [g EXCEPT !.connections[s].admitted = ~b,
                !.connections[s].outgoing = b] \in F!Facade
  <2> DEFINE j == [k EXCEPT !.admitted = ~b, !.outgoing = b]
  <2>1. j \in F!Connection
    BY <1>0 DEF F!Connection
  <2>2. [g EXCEPT !.connections[s].admitted = ~b,
                  !.connections[s].outgoing = b]
          = [g EXCEPT !.connections[s] = j]
    BY <1>0 DEF F!Facade, F!Connection
  <2> QED BY <1>1, <2>1, <2>2
<1>8. [g EXCEPT !.connections[s].failed = TRUE,
                !.connections[s].admitted = FALSE,
                !.connections[s].outgoing = FALSE] \in F!Facade
  <2> DEFINE j == [k EXCEPT !.failed = TRUE, !.admitted = FALSE,
                            !.outgoing = FALSE]
  <2>1. j \in F!Connection
    BY <1>0 DEF F!Connection
  <2>2. [g EXCEPT !.connections[s].failed = TRUE,
                  !.connections[s].admitted = FALSE,
                  !.connections[s].outgoing = FALSE]
          = [g EXCEPT !.connections[s] = j]
    BY <1>0 DEF F!Facade, F!Connection
  <2> QED BY <1>1, <2>1, <2>2
<1>9. [g EXCEPT !.connections[s].connected = FALSE] \in F!Facade
  <2>1. [k EXCEPT !.connected = FALSE] \in F!Connection
    BY <1>0 DEF F!Connection
  <2> QED BY <1>1, <2>1
<1>10. [g EXCEPT !.connections[s].active = b,
                 !.connections[s].blocked = FALSE,
                 !.connections[s].ship = b2] \in F!Facade
  <2> DEFINE j == [k EXCEPT !.active = b, !.blocked = FALSE, !.ship = b2]
  <2>1. j \in F!Connection
    BY <1>0 DEF F!Connection
  <2>2. [g EXCEPT !.connections[s].active = b,
                  !.connections[s].blocked = FALSE,
                  !.connections[s].ship = b2]
          = [g EXCEPT !.connections[s] = j]
    BY <1>0 DEF F!Facade, F!Connection
  <2> QED BY <1>1, <2>1, <2>2
<1>11. F!registerRemoteSKI(g, s) \in F!Facade
  <2>1. [k EXCEPT !.registered = TRUE] \in F!Connection
    BY <1>0 DEF F!Connection
  <2> QED BY <1>1, <2>1 DEF F!registerRemoteSKI
<1>12. F!registerTransientRemoteSKI(g, s) \in F!Facade
  <2> DEFINE j == [k EXCEPT !.registered = TRUE, !.transient = TRUE,
                            !.unregistered = FALSE, !.ship = FALSE]
  <2>1. j \in F!Connection
    BY <1>0 DEF F!Connection
  <2>2. F!registerTransientRemoteSKI(g, s) = [g EXCEPT !.connections[s] = j]
    BY <1>0 DEF F!Facade, F!Connection, F!registerTransientRemoteSKI
  <2> QED BY <1>1, <2>1, <2>2
<1>13. F!unregisterTransientRemoteSKI(g, s) \in F!Facade
  <2> DEFINE j == [k EXCEPT !.unregistered = TRUE, !.registered = FALSE,
                            !.transient = FALSE]
  <2>1. j \in F!Connection
    BY <1>0 DEF F!Connection
  <2>2. F!unregisterTransientRemoteSKI(g, s) = [g EXCEPT !.connections[s] = j]
    BY <1>0 DEF F!Facade, F!Connection, F!unregisterTransientRemoteSKI
  <2> QED BY <1>1, <2>1, <2>2
<1>14. [g EXCEPT !.connections[s].transient = FALSE] \in F!Facade
  <2>1. [k EXCEPT !.transient = FALSE] \in F!Connection
    BY <1>0 DEF F!Connection
  <2> QED BY <1>1, <2>1
<1> QED BY <1>2, <1>3, <1>4, <1>5, <1>6, <1>7, <1>8, <1>9, <1>10, <1>11,
           <1>12, <1>13, <1>14

LEMMA Begun ==
    ASSUME NEW g \in F!Facade, NEW s \in SKIs, NEW class \in classes,
           F!known(g, s) \/ g.next < MaxConnections
    PROVE  LET h == F!beginAttempt(g, s, class) IN
           /\ h \in F!Facade
           /\ h.connections[s].generation \in 1..MaxConnections
<1> DEFINE h == F!beginAttempt(g, s, class)
           x == [generation |-> g.next + 1, epoch |-> g.epoch,
                 class |-> class, ship |-> FALSE, tls |-> FALSE,
                 active |-> TRUE, connected |-> FALSE,
                 admitted |-> FALSE, outgoing |-> FALSE,
                 failed |-> FALSE, blocked |-> FALSE,
                 registered |-> FALSE, transient |-> FALSE,
                 unregistered |-> FALSE]
           m == g.next + 1
           w == [g.connections EXCEPT ![s] = x]
<1>1. CASE F!known(g, s)
  BY <1>1, KnownType DEF F!beginAttempt
<1>2. CASE ~F!known(g, s)
  <2>1. g.next \in 0..MaxConnections /\ g.epoch \in Nat
    BY DEF F!Facade
  <2>2. m \in 1..MaxConnections /\ m \in 0..MaxConnections
    BY <1>2, <2>1, BoundAssumption
  <2>3. x \in F!Connection /\ x.generation = m
    BY <2>1, <2>2 DEF F!Connection, classes
  <2> HIDE DEF x
  <2>4. h = [g EXCEPT !.next = m, !.connections = w]
    BY <1>2 DEF F!beginAttempt, F!Facade, x
  <2>5. w \in [SKIs -> F!Connection \cup {F!NoConnection}] /\ w[s] = x
    BY <2>3 DEF F!Facade
  <2> HIDE DEF w, m, h
  <2>6. h \in F!Facade /\ h.connections = w
    BY <2>2, <2>4, <2>5 DEF F!Facade
  <2> QED BY <2>2, <2>3, <2>5, <2>6 DEF h
<1> QED BY <1>1, <1>2

-----------------------------------------------------------------------------
(* The steps outside the coordinator.                                       *)

\* A place from which a thread neither publishes nor queues.
Place(t, r) == FrameOf(t, r) /\ ~commitsIn(r) /\ ~queuesIn(r)

LEMMA IdlePlace ==
    ASSUME NEW t
    PROVE  Place(t, Idle)
  BY IdleFrame DEF Place

LEMMA PeerPlace ==
    ASSUME NEW t, NEW r \in Frame,
           r.at \in {"enter", "begun", "tail", "bound", "discard", "failing",
                     "registering"},
           r.op \in withPeer \ {"publish", "finish", "queued", "select",
                                "confirm"},
           r.ski \in SKIs, r.kind # "terminated" \/ r.saved \in F!Connection
    PROVE  Place(t, r)
<1>1. r.op \in withPeer /\ r.op \notin {"publish", "finish", "queued", "select",
                                        "confirm"}
  OBVIOUS
<1>2. r.at \notin waiting \cup {"publishing", "queue", "new", "restore"}
  BY DEF waiting
<1> QED BY <1>1, <1>2 DEF Place, FrameOf, commitsIn, queuesIn, commits

LEMMA CallFields ==
    ASSUME NEW op \in Ops, NEW s \in SKIs \cup {NoSKI},
           NEW n \in 0..MaxConnections
    PROVE  LET q == call(op, s, n) IN
           /\ q \in Frame /\ q.at = "enter" /\ q.op = op /\ q.ski = s
           /\ q.conn = n /\ q.kind = "none"
<1>1. Idle \in Frame
  BY IdleFrame
<1>2. Idle.kind = "none"
  BY DEF Idle
<1> QED BY <1>1, <1>2 DEF call, Frame

\* A call of the coordinator for a peer and a connection.
LEMMA KindPlace ==
    ASSUME NEW t, NEW s \in SKIs, NEW n \in 0..MaxConnections,
           NEW op \in withPeer \ {"publish", "finish", "queued", "select",
                                  "confirm"},
           NEW kind \in Kinds \ {"terminated"}
    PROVE  /\ Place(t, [call(op, s, n) EXCEPT !.kind = kind])
           /\ [call(op, s, n) EXCEPT !.kind = kind].at = "enter"
           /\ Place(t, call(op, s, n))
<1> DEFINE q == call(op, s, n)
           p == [q EXCEPT !.kind = kind]
<1>0. op \in Ops /\ op \in withPeer
  BY DEF withPeer, Ops
<1>1. /\ q \in Frame /\ q.at = "enter" /\ q.op = op /\ q.ski = s
      /\ q.conn = n /\ q.kind = "none"
  BY <1>0, CallFields
<1> HIDE DEF q
<1>2. p \in Frame /\ p.at = "enter" /\ p.op = op /\ p.ski = s /\ p.kind = kind
  BY <1>1 DEF Frame
<1> HIDE DEF p
<1>3. Place(t, q) /\ Place(t, p)
  BY <1>1, <1>2, PeerPlace
<1> QED BY <1>2, <1>3 DEF q, p

\* ... with a mark, or made later.
LEMMA CallPlace ==
    ASSUME NEW t, NEW s \in SKIs, NEW n \in 0..MaxConnections,
           NEW op \in withPeer \ {"publish", "finish", "queued", "select",
                                  "confirm"},
           NEW kind \in Kinds \ {"terminated"}, NEW b \in BOOLEAN,
           NEW at \in {"enter", "failing", "registering"}
    PROVE  /\ Place(t, [[call(op, s, n) EXCEPT !.kind = kind]
                        EXCEPT !.flag = b])
           /\ Place(t, [[call(op, s, n) EXCEPT !.kind = kind]
                        EXCEPT !.at = at])
           /\ Place(t, [call(op, s, n) EXCEPT !.at = at, !.kind = kind])
<1> DEFINE q == call(op, s, n)
           p == [q EXCEPT !.kind = kind]
           r == [p EXCEPT !.flag = b]
           v == [p EXCEPT !.at = at]
           w == [q EXCEPT !.at = at, !.kind = kind]
<1>0. op \in Ops /\ op \in withPeer
  BY DEF withPeer, Ops
<1>1. /\ q \in Frame /\ q.at = "enter" /\ q.op = op /\ q.ski = s
      /\ q.conn = n /\ q.kind = "none"
  BY <1>0, CallFields
<1> HIDE DEF q
<1>2. p \in Frame /\ p.at = "enter" /\ p.op = op /\ p.ski = s /\ p.kind = kind
  BY <1>1 DEF Frame
<1>3. w \in Frame /\ w.at = at /\ w.op = op /\ w.ski = s /\ w.kind = kind
  BY <1>1 DEF Frame
<1> HIDE DEF p, w
<1>4. r \in Frame /\ r.at = "enter" /\ r.op = op /\ r.ski = s /\ r.kind = kind
  BY <1>2 DEF Frame
<1>5. v \in Frame /\ v.at = at /\ v.op = op /\ v.ski = s /\ v.kind = kind
  BY <1>2 DEF Frame
<1> HIDE DEF r, v
<1>6. Place(t, r) /\ Place(t, v) /\ Place(t, w)
  BY <1>3, <1>4, <1>5, PeerPlace
<1> QED BY <1>6 DEF q, p, r, v, w

LEMMA StepKeeps ==
    ASSUME PairingInv, NEW t \in Threads, NEW r,
           Owes(t, r, c, confirmed', durable'), pc' = [pc EXCEPT ![t] = r],
           UNCHANGED <<c, ended, confirmed, opened, scenario>>,
           drainer' \in Threads \cup {NoThread}, f' \in F!Facade,
           service' \in [advertised : BOOLEAN, registered : SUBSET SKIs],
           Trusted(service'.registered, confirmed),
           queue' \in Seq(Effects), backed(queue', confirmed),
           durable \subseteq durable', durable' \subseteq confirmed
    PROVE  PairingInv'
<1>1. /\ FramesInv' /\ CommitInv' /\ QueueInv'
      /\ pc' \in [Threads -> Frame]
  BY ThreadsKeep
<1>2. TypeOK'
  BY <1>1 DEF PairingInv, TypeOK, PhaseOK
<1>3. TrustIsConfirmed'
  <2>1. Trusted(c.trusted, durable')
    BY TrustSplit DEF PairingInv, Trusted
  <2> QED BY <2>1 DEF Trusted, TrustIsConfirmed
<1> QED BY <1>1, <1>2, <1>3 DEF PairingInv

LEMMA PlaceOwes ==
    ASSUME PairingInv, NEW t, NEW r, Place(t, r),
           confirmed' = confirmed, durable' = durable
    PROVE  Owes(t, r, c, confirmed', durable')
  BY DEF PairingInv, CommitInv, QueueInv, Place, Owes

\* The thread goes to a place, with something done to the facade.
LEMMA GotoKeeps ==
    ASSUME PairingInv, NEW t \in Threads, NEW r, Place(t, r), goto(t, r),
           quiet, f' \in F!Facade, scenario' = scenario
    PROVE  PairingInv'
<1>1. UNCHANGED <<c, service, queue, drainer, ended, confirmed, durable, opened>>
  BY DEF quiet, history
<1>2. Owes(t, r, c, confirmed', durable')
  BY <1>1, PlaceOwes
<1>3. /\ drainer \in Threads \cup {NoThread}
      /\ service \in [advertised : BOOLEAN, registered : SUBSET SKIs]
      /\ queue \in Seq(Effects) /\ backed(queue, confirmed)
      /\ durable \subseteq confirmed
      /\ Trusted(service.registered, confirmed)
  BY TrustSplit DEF PairingInv, TypeOK
<1> QED BY <1>1, <1>2, <1>3, StepKeeps DEF goto

LEMMA SetWaitingStepKeeps ==
    ASSUME PairingInv, NEW t \in Threads, SetWaiting(t), scenario' = scenario
    PROVE  PairingInv'
<1> DEFINE q == pc[t]
<1>0. /\ q \in Frame /\ FrameOf(t, q) /\ q.at = "ask" /\ f \in F!Facade
      /\ service \in [advertised : BOOLEAN, registered : SUBSET SKIs]
      /\ Trusted(service.registered, confirmed)
      /\ drainer \in Threads \cup {NoThread}
      /\ queue \in Seq(Effects) /\ backed(queue, confirmed)
      /\ durable \subseteq confirmed
      /\ pc \in [Threads -> Frame]
  BY FrameAt, TrustSplit DEF SetWaiting, PairingInv, TypeOK
<1>1. UNCHANGED <<c, queue, drainer, ended, confirmed, durable, opened>>
  BY DEF SetWaiting, history
<1>2. PICK b \in BOOLEAN :
        pc' = [pc EXCEPT ![t] = [q EXCEPT !.at = "asked", !.err = b]]
  <2>1. \/ pc' = [pc EXCEPT ![t].at = "asked", ![t].err = FALSE]
        \/ pc' = [pc EXCEPT ![t].at = "asked", ![t].err = TRUE]
    BY DEF SetWaiting
  <2>2. ASSUME NEW b \in BOOLEAN
        PROVE  [pc EXCEPT ![t].at = "asked", ![t].err = b]
                 = [pc EXCEPT ![t] = [q EXCEPT !.at = "asked", !.err = b]]
    BY <1>0 DEF Frame
  <2> QED BY <2>1, <2>2
<1>3. f' \in F!Facade
  <2>1. [f EXCEPT !.fault = TRUE] \in F!Facade
    BY <1>0 DEF F!Facade
  <2> QED BY <1>0, <2>1, SetsWaiting DEF SetWaiting
<1>4. /\ service' \in [advertised : BOOLEAN, registered : SUBSET SKIs]
      /\ service'.registered = service.registered
  BY <1>0 DEF SetWaiting
<1> DEFINE r == [q EXCEPT !.at = "asked", !.err = b]
<1>5. /\ r \in Frame /\ r.at = "asked" /\ r.op = q.op /\ r.ski = q.ski
      /\ r.conn = q.conn /\ r.kind = q.kind /\ r.result = q.result
      /\ r.body = q.body /\ r.saved = q.saved
  BY <1>0 DEF Frame
<1> HIDE DEF r
<1>6. FrameOf(t, r)
  BY <1>0, <1>5 DEF FrameOf, waiting, onPeer
<1>7. /\ commitsIn(r) <=> commitsIn(q)
      /\ queuesIn(r) <=> queuesIn(q)
  BY <1>0, <1>5 DEF commitsIn, queuesIn
<1>8. commitsIn(r) => CommitOf(r, c, confirmed, durable)
  BY <1>0, <1>5, <1>7, FrameAt DEF CommitOf, waiting
<1>9. Owes(t, r, c, confirmed', durable')
  BY <1>1, <1>6, <1>7, <1>8 DEF Owes, PairingInv, CommitInv, QueueInv
<1> QED BY <1>0, <1>1, <1>2, <1>3, <1>4, <1>9, StepKeeps DEF r

LEMMA PublishKeeps ==
    ASSUME PairingInv, NEW t \in Threads, Publish(t), scenario' = scenario
    PROVE  PairingInv'
<1> DEFINE q == pc[t]
<1>0. /\ q \in Frame /\ FrameOf(t, q) /\ q.at = "publishing"
      /\ q.op = "publish" /\ q.ski \in SKIs
      /\ commitsIn(q) /\ CommitOf(q, c, confirmed, durable)
      /\ Trusted(service.registered, confirmed)
      /\ durable \subseteq confirmed /\ pc \in [Threads -> Frame]
  BY FrameAt, TrustSplit
  DEF Publish, PairingInv, TypeOK, FrameOf, withPeer, commitsIn
<1>1. UNCHANGED <<c, f, service, queue, drainer, ended, confirmed, opened>>
  BY DEF Publish
<1>2. PICK outcome \in {"durable", "unknown", "unchanged"} :
        /\ pc' = [pc EXCEPT ![t].at = "enter", ![t].op = "finish",
                            ![t].result = outcome]
        /\ durable' \in {d \in {durable, durable \cup {<<q.ski, q.conn>>}} :
                /\ outcome = "durable" => <<q.ski, q.conn>> \in d
                /\ outcome = "unchanged" => d = durable}
  BY DEF Publish
<1> DEFINE r == [q EXCEPT !.at = "enter", !.op = "finish", !.result = outcome]
<1>3. pc' = [pc EXCEPT ![t] = r]
  BY <1>0, <1>2 DEF Frame
<1>4. /\ r \in Frame /\ r.at = "enter" /\ r.op = "finish" /\ r.ski = q.ski
      /\ r.conn = q.conn /\ r.result = outcome
  BY <1>0 DEF Frame, Ops, Results
<1> HIDE DEF r
<1>5. /\ durable \subseteq durable' /\ durable' \subseteq confirmed
      /\ outcome = "durable" => <<q.ski, q.conn>> \in durable'
  BY <1>0, <1>2 DEF CommitOf
<1>6. FrameOf(t, r) /\ ~queuesIn(r)
  BY <1>0, <1>4 DEF FrameOf, waiting, onPeer, queuesIn
<1>7. CommitOf(r, c, confirmed, durable')
  BY <1>0, <1>4, <1>5 DEF CommitOf, waiting
<1>8. \A u \in Threads \ {t} : ~commitsIn(pc[u])
  BY <1>0 DEF PairingInv, CommitInv
<1>9. Owes(t, r, c, confirmed', durable')
  BY <1>1, <1>6, <1>7, <1>8 DEF Owes, PairingInv, QueueInv
<1>10. /\ drainer' \in Threads \cup {NoThread} /\ f' \in F!Facade
       /\ service' \in [advertised : BOOLEAN, registered : SUBSET SKIs]
       /\ queue' \in Seq(Effects) /\ backed(queue', confirmed)
  BY <1>1 DEF PairingInv, TypeOK
<1> QED BY <1>0, <1>1, <1>3, <1>5, <1>9, <1>10, StepKeeps

LEMMA QueuedStepKeeps ==
    ASSUME PairingInv, NEW t \in Operators, Queued(t), scenario' = scenario
    PROVE  PairingInv'
<1> DEFINE q == pc[t]
<1>t. t \in Threads
  BY DEF Threads
<1>0. /\ q \in Frame /\ FrameOf(t, q) /\ q.at = "queue"
      /\ q.op = "select" /\ q.ski \in SKIs /\ queuesIn(q)
  BY <1>t, FrameAt DEF Queued, FrameOf, withPeer, queuesIn
<1>1. /\ UNCHANGED <<c, f, service, queue, drainer, ended>>
      /\ UNCHANGED <<confirmed, durable, opened>>
  BY DEF Queued, history
<1>2. PICK x \in {"queued", "failed"}, b \in BOOLEAN :
        pc' = [pc EXCEPT ![t] = [@ EXCEPT !.at = "enter", !.op = "queued",
                                          !.result = x, !.flag = b]]
  BY DEF Queued
<1> DEFINE r == [q EXCEPT !.at = "enter", !.op = "queued", !.result = x,
                          !.flag = b]
<1>3. pc' = [pc EXCEPT ![t] = r]
  BY <1>2
<1>4. r \in Frame /\ r.at = "enter" /\ r.op = "queued" /\ r.ski = q.ski
  BY <1>0 DEF Frame, Ops, Results
<1> HIDE DEF r
<1>5. FrameOf(t, r) /\ ~commitsIn(r)
  BY <1>0, <1>4 DEF FrameOf, waiting, onPeer, commitsIn, commits
<1>6. queueing(c) /\ \A u \in Threads \ {t} : ~queuesIn(pc[u])
  BY <1>t, <1>0 DEF PairingInv, QueueInv
<1>7. Owes(t, r, c, confirmed', durable')
  BY <1>1, <1>5, <1>6 DEF Owes, PairingInv, CommitInv
<1>8. /\ drainer' \in Threads \cup {NoThread} /\ f' \in F!Facade
      /\ service' \in [advertised : BOOLEAN, registered : SUBSET SKIs]
      /\ queue' \in Seq(Effects) /\ backed(queue', confirmed)
      /\ Trusted(service'.registered, confirmed)
      /\ durable' \subseteq confirmed
  BY <1>1, TrustSplit DEF PairingInv, TypeOK
<1> QED BY <1>t, <1>1, <1>3, <1>7, <1>8, StepKeeps

LEMMA CallKeeps ==
    ASSUME PairingInv, NEW t \in Threads, NEW q, Place(t, q), q.at = "enter",
           Lock(t, q), UNCHANGED <<f, service, scenario>>
    PROVE  PairingInv'
  BY LockKeeps DEF Place

LEMMA AdminPlace ==
    ASSUME NEW t, NEW n \in 0..MaxConnections,
           NEW op \in {"open", "close", "cancel", "status", "timer",
                       "shutdown"}
    PROVE  Place(t, call(op, NoSKI, n)) /\ call(op, NoSKI, n).at = "enter"
<1> DEFINE q == call(op, NoSKI, n)
<1>1. op \in Ops /\ op \notin withPeer \cup commits
  BY DEF Ops, withPeer, commits
<1>2. q \in Frame /\ q.at = "enter" /\ q.op = op
  BY <1>1, CallFields
<1> HIDE DEF q
<1>3. op \notin {"publish", "finish", "queued", "select", "confirm", "closed"}
  OBVIOUS
<1>4. FrameOf(t, q)
  BY <1>1, <1>2, <1>3 DEF FrameOf, waiting, onPeer
<1> QED BY <1>1, <1>2, <1>3, <1>4 DEF Place, commitsIn, queuesIn, q

LEMMA OperatorPlace ==
    ASSUME NEW t \in Operators, NEW s \in SKIs, NEW n \in 0..MaxConnections,
           NEW op \in {"select", "confirm"},
           op = "confirm" => n \in 1..MaxConnections
    PROVE  Place(t, call(op, s, n)) /\ call(op, s, n).at = "enter"
<1> DEFINE q == call(op, s, n)
<1>1. op \in Ops
  BY DEF Ops
<1>2. q \in Frame /\ q.at = "enter" /\ q.op = op /\ q.ski = s /\ q.conn = n
  BY <1>1, CallFields
<1> HIDE DEF q
<1>3. FrameOf(t, q)
  BY <1>2 DEF FrameOf, waiting, onPeer
<1> QED BY <1>2, <1>3 DEF Place, commitsIn, queuesIn, commits, q

LEMMA OperatorKeeps ==
    ASSUME PairingInv, NEW t \in Operators, OperatorStep(t),
           scenario' = scenario
    PROVE  PairingInv'
<1>0. t \in Threads /\ 0 \in 0..MaxConnections
  BY BoundAssumption DEF Threads
<1>1. ASSUME NEW n \in 1..f.next
      PROVE  n \in 1..MaxConnections /\ n \in 0..MaxConnections
  BY BoundAssumption DEF PairingInv, TypeOK, F!Facade
<1>2. CASE Open(t)
  BY <1>0, <1>2, AdminPlace, CallKeeps DEF Open, Call
<1>3. CASE Close(t)
  BY <1>0, <1>3, AdminPlace, CallKeeps DEF Close, Call
<1>4. CASE Status(t)
  BY <1>0, <1>4, AdminPlace, CallKeeps DEF Status, Call
<1>5. CASE Queued(t)
  BY <1>5, QueuedStepKeeps
<1>6. ASSUME NEW s \in SKIs, Select(t, s)
      PROVE  PairingInv'
  BY <1>0, <1>6, OperatorPlace, CallKeeps DEF Select, Call
<1>7. ASSUME NEW s \in SKIs, NEW n \in 1..f.next, Confirm(t, s, n)
      PROVE  PairingInv'
  BY <1>0, <1>1, <1>7, OperatorPlace, CallKeeps DEF Confirm, Call
<1>8. ASSUME NEW n \in 1..f.next, Cancel(t, n)
      PROVE  PairingInv'
  BY <1>0, <1>1, <1>8, AdminPlace, CallKeeps DEF Cancel, Call
<1> QED BY <1>2, <1>3, <1>4, <1>5, <1>6, <1>7, <1>8 DEF OperatorStep

callbackKinds == {"attempt", "connected", "ship", "request"}

LEMMA OnConnectionKeeps ==
    ASSUME PairingInv, NEW q, q.ski \in SKIs, onConnection(q),
           scenario' = scenario
    PROVE  PairingInv'
<1> DEFINE s == q.ski
           k == f.connections[s]
           pairing == k.class = "pairing_authorized"
           enters(op) == [call(op, s, k.generation) EXCEPT !.kind = q.kind]
           goesOn == q.kind # "attempt" /\ F!known(f, s) /\ ~k.blocked
<1>0. Callback \in Threads /\ f \in F!Facade /\ quiet /\ Place(Callback, Idle)
  BY IdlePlace DEF onConnection, Threads, PairingInv, TypeOK
<1>1. CASE ~goesOn /\ goto(Callback, Idle) /\ UNCHANGED f
  BY <1>0, <1>1, GotoKeeps
<1>2. F!known(f, s) => /\ k \in F!Connection
                       /\ k.generation \in 0..MaxConnections
                       /\ k.ship \in BOOLEAN
  BY <1>0, KnownType DEF F!Connection
<1>3. ASSUME F!known(f, s), q.kind \in callbackKinds,
             NEW op \in {"closed", "bind", "ship"}
      PROVE  /\ Place(Callback, enters(op))
             /\ Place(Callback, [enters(op) EXCEPT !.flag = k.ship])
  <2>1. op \in withPeer \ {"publish", "finish", "queued", "select", "confirm"}
    BY DEF withPeer
  <2>2. q.kind \in Kinds \ {"terminated"}
    BY <1>3 DEF callbackKinds, Kinds
  <2>3. Place(Callback, enters(op))
    BY <1>2, <1>3, <2>1, <2>2, KindPlace
  <2> DEFINE at == "enter"
  <2>4. at \in {"enter", "failing", "registering"}
    OBVIOUS
  <2> HIDE DEF at
  <2>5. Place(Callback, [enters(op) EXCEPT !.flag = k.ship])
    BY <1>2, <1>3, <2>1, <2>2, <2>4, CallPlace
  <2> QED BY <2>3, <2>5
<1>4. CASE /\ goesOn /\ q.kind = "connected"
           /\ IF k.connected
              THEN f' = F!fence(f, s) /\ goto(Callback, enters("closed"))
              ELSE /\ f' = [f EXCEPT !.connections[s].connected = TRUE,
                                     !.connections[s].active = TRUE]
                   /\ goto(Callback, IF pairing /\ ~k.tls THEN enters("bind")
                                     ELSE Idle)
  <2>1. F!known(f, s) /\ q.kind \in callbackKinds
    BY <1>4 DEF callbackKinds
  <2>2. f' \in F!Facade
    BY <1>0, <1>4, <2>1, Fences, Marks
  <2>3. Place(Callback, enters("closed")) /\ Place(Callback, enters("bind"))
    BY <1>3, <2>1
  <2> HIDE DEF enters
  <2> QED BY <1>0, <1>4, <2>2, <2>3, GotoKeeps
<1>5. CASE /\ goesOn /\ q.kind = "ship"
           /\ IF k.transient /\ ~(k.active /\ k.connected)
              THEN goto(Callback, Idle) /\ UNCHANGED f
              ELSE /\ f' = [f EXCEPT !.connections[s].ship = TRUE]
                   /\ goto(Callback, enters("ship"))
  <2>1. F!known(f, s) /\ q.kind \in callbackKinds
    BY <1>5 DEF callbackKinds
  <2>2. f' \in F!Facade
    BY <1>0, <1>5, <2>1, Marks
  <2>3. Place(Callback, enters("ship"))
    BY <1>3, <2>1
  <2> HIDE DEF enters
  <2> QED BY <1>0, <1>5, <2>2, <2>3, GotoKeeps
<1>6. CASE /\ goesOn /\ q.kind = "request"
           /\ f' = [f EXCEPT !.connections[s].active = TRUE]
           /\ goto(Callback, IF pairing /\ ~k.tls
                             THEN [enters("bind") EXCEPT !.flag = k.ship]
                             ELSE IF pairing /\ k.ship THEN enters("ship")
                             ELSE Idle)
  <2>1. F!known(f, s) /\ q.kind \in callbackKinds
    BY <1>6 DEF callbackKinds
  <2>2. f' \in F!Facade
    BY <1>0, <1>6, <2>1, Marks
  <2> DEFINE p == [enters("bind") EXCEPT !.flag = k.ship]
  <2>3. Place(Callback, p) /\ Place(Callback, enters("ship"))
    BY <1>3, <2>1
  <2>4. goto(Callback, p) \/ goto(Callback, enters("ship"))
        \/ goto(Callback, Idle)
    BY <1>6
  <2> HIDE DEF enters, p
  <2> QED BY <1>0, <2>2, <2>3, <2>4, GotoKeeps
<1> QED BY <1>1, <1>4, <1>5, <1>6 DEF onConnection

LEMMA AttemptKeeps ==
    ASSUME PairingInv, NEW s \in SKIs, NEW kind \in callbackKinds,
           Attempt(kind, s), scenario' = scenario
    PROVE  PairingInv'
<1>0. Callback \in Threads /\ 0 \in 0..MaxConnections
  BY BoundAssumption DEF Threads
<1>1. CASE F!known(f, s)
  <2> DEFINE q == [Idle EXCEPT !.kind = kind, !.ski = s]
  <2>1. onConnection(q) /\ q.ski = s
    BY <1>1 DEF Attempt, Idle
  <2> HIDE DEF q
  <2> QED BY <2>1, OnConnectionKeeps
<1>2. CASE ~F!known(f, s)
  <2> DEFINE op == "authorize"
             n == 0
             q == [call(op, s, n) EXCEPT !.kind = kind]
  <2>1. Lock(Callback, q) /\ UNCHANGED <<f, service>>
    BY <1>2 DEF Attempt
  <2>2. /\ op \in withPeer \ {"publish", "finish", "queued", "select", "confirm"}
        /\ n \in 0..MaxConnections
    BY <1>0 DEF withPeer
  <2>3. kind \in Kinds \ {"terminated"}
    BY DEF callbackKinds, Kinds
  <2> HIDE DEF op, n
  <2>4. Place(Callback, q) /\ q.at = "enter"
    BY <2>2, <2>3, KindPlace
  <2> QED BY <1>0, <2>1, <2>4, CallKeeps
<1> QED BY <1>1, <1>2

\* The callback thread is at one of its own places.
LEMMA CallbackAt ==
    ASSUME PairingInv, NEW t \in Threads, pc[t].at \in onPeer,
           pc[t].at \notin {"queue", "publishing"}
    PROVE  /\ pc[t] \in Frame /\ FrameOf(t, pc[t]) /\ pc[t].ski \in SKIs
           /\ pc[t].op \in withPeer \ {"publish", "finish", "queued"}
           /\ f \in F!Facade
<1>1. pc[t] \in Frame /\ FrameOf(t, pc[t])
  BY FrameAt
<1>2. pc[t].op \in withPeer /\ pc[t].ski \in SKIs
  BY <1>1 DEF FrameOf
<1>3. pc[t].op \notin {"publish", "finish", "queued"}
  BY <1>1 DEF FrameOf, onPeer, waiting
<1> QED BY <1>1, <1>2, <1>3 DEF PairingInv, TypeOK

\* It moves on, with the same peer.
LEMMA MovePlace ==
    ASSUME NEW t, NEW q, FrameOf(t, q), NEW r \in Frame,
           q.op \in withPeer \ {"publish", "finish", "queued"},
           r.op = q.op, r.ski = q.ski, r.kind = q.kind, r.saved = q.saved,
           r.conn = q.conn \/ r.conn \in 1..MaxConnections,
           r.at \in {"tail", "discard"}
    PROVE  Place(t, r)
<1>1. r.op \in withPeer /\ r.op \notin {"publish", "finish", "queued"}
  OBVIOUS
<1>2. r.at \notin waiting \cup {"publishing", "queue", "new", "restore", "enter"}
  BY DEF waiting
<1>3. FrameOf(t, r)
  BY <1>1, <1>2 DEF FrameOf
<1> QED BY <1>1, <1>2, <1>3 DEF Place, commitsIn, queuesIn, commits

LEMMA NewConnectionKeeps ==
    ASSUME PairingInv, NewConnection, scenario' = scenario
    PROVE  PairingInv'
<1> DEFINE q == pc[Callback]
           g == F!beginAttempt(f, q.ski, q.result)
           pairing == q.result = "pairing_authorized"
           n == g.connections[q.ski].generation
           begun == [q EXCEPT !.conn = n]
<1>0. Callback \in Threads /\ q.at = "new" /\ quiet
  BY DEF Threads, NewConnection
<1>1. /\ q \in Frame /\ FrameOf(Callback, q) /\ q.ski \in SKIs
      /\ q.op \in withPeer \ {"publish", "finish", "queued"}
      /\ f \in F!Facade
  BY <1>0, CallbackAt DEF onPeer
<1>2. q.result \in classes
  BY <1>0, <1>1 DEF FrameOf
<1>3. CASE full(q.ski)
  <2>1. goto(Callback, Idle) /\ UNCHANGED f
    BY <1>3 DEF NewConnection
  <2> QED BY <1>0, <1>1, <2>1, IdlePlace, GotoKeeps
<1>4. CASE ~full(q.ski)
  <2>1. F!known(f, q.ski) \/ f.next < MaxConnections
    BY <1>4 DEF full, F!begins
  <2>2. g \in F!Facade /\ n \in 1..MaxConnections
    BY <1>1, <1>2, <2>1, Begun
  <2>3. f' = g
    BY <1>4 DEF NewConnection
  <2> HIDE DEF n
  <2>4. /\ begun \in Frame /\ begun.op = q.op /\ begun.ski = q.ski
        /\ begun.kind = q.kind /\ begun.saved = q.saved /\ begun.conn = n
    BY <1>1, <2>2, BoundAssumption DEF Frame
  <2>5. \/ \E b \in BOOLEAN :
             goto(Callback, [begun EXCEPT !.flag = b, !.op = "admit",
                                          !.at = IF pairing THEN "enter"
                                                 ELSE "begun"])
        \/ goto(Callback, [begun EXCEPT !.at = "discard"])
    BY <1>4 DEF NewConnection, n
  <2> HIDE DEF begun
  <2>6. CASE goto(Callback, [begun EXCEPT !.at = "discard"])
    <3> DEFINE r == [begun EXCEPT !.at = "discard"]
    <3>1. /\ r \in Frame /\ r.op = q.op /\ r.ski = q.ski /\ r.kind = q.kind
          /\ r.saved = q.saved /\ r.conn = n /\ r.at = "discard"
      BY <2>4 DEF Frame
    <3> HIDE DEF r
    <3>2. Place(Callback, r)
      BY <1>1, <2>2, <3>1, MovePlace
    <3>3. goto(Callback, r)
      BY <2>6 DEF r
    <3> QED BY <1>0, <2>2, <2>3, <3>2, <3>3, GotoKeeps
  <2>7. ASSUME NEW b \in BOOLEAN,
               goto(Callback, [begun EXCEPT !.flag = b, !.op = "admit",
                                            !.at = IF pairing THEN "enter"
                                                   ELSE "begun"])
        PROVE  PairingInv'
    <3> DEFINE at == IF pairing THEN "enter" ELSE "begun"
               r == [begun EXCEPT !.flag = b, !.op = "admit", !.at = at]
    <3>0. at \in {"enter", "begun"}
      OBVIOUS
    <3>1. goto(Callback, r)
      BY <2>7
    <3> HIDE DEF at
    <3>2. /\ r \in Frame /\ r.op = "admit" /\ r.ski = q.ski
          /\ r.at = at /\ r.kind = q.kind /\ r.saved = q.saved
      BY <2>4, <3>0 DEF Frame, Ops
    <3> HIDE DEF r
    <3>3. r.op \in withPeer /\ r.op \notin {"publish", "finish", "queued",
                                            "select", "confirm", "closed"}
      BY <3>2 DEF withPeer
    <3>4. Place(Callback, r)
      BY <1>1, <3>0, <3>2, <3>3
      DEF Place, FrameOf, commitsIn, queuesIn, commits, waiting
    <3> QED BY <1>0, <2>2, <2>3, <3>1, <3>4, GotoKeeps
  <2> QED BY <2>5, <2>6, <2>7
<1> QED BY <1>3, <1>4

LEMMA AttemptBegunKeeps ==
    ASSUME PairingInv, AttemptBegun, scenario' = scenario
    PROVE  PairingInv'
<1> DEFINE q == pc[Callback]
           r == [q EXCEPT !.at = "tail"]
<1>0. /\ Callback \in Threads /\ q.at = "begun" /\ quiet /\ goto(Callback, r)
      /\ f' = F!attemptBegun(f, q.ski, q.conn, q.flag)
  BY DEF Threads, AttemptBegun
<1>1. /\ q \in Frame /\ FrameOf(Callback, q) /\ q.ski \in SKIs
      /\ q.op \in withPeer \ {"publish", "finish", "queued"}
      /\ f \in F!Facade
  BY <1>0, CallbackAt DEF onPeer
<1>2. /\ r \in Frame /\ r.op = q.op /\ r.ski = q.ski /\ r.kind = q.kind
      /\ r.saved = q.saved /\ r.conn = q.conn /\ r.at = "tail"
  BY <1>1 DEF Frame
<1> HIDE DEF r
<1>3. Place(Callback, r)
  BY <1>1, <1>2, MovePlace
<1>4. f' \in F!Facade
  <2>1. q.flag \in BOOLEAN
    BY <1>1 DEF Frame
  <2> QED BY <1>0, <1>1, <2>1, Marks DEF F!attemptBegun, F!current
<1> QED BY <1>0, <1>3, <1>4, GotoKeeps

LEMMA ContinueCallbackKeeps ==
    ASSUME PairingInv, ContinueCallback, scenario' = scenario
    PROVE  PairingInv'
<1>1. Callback \in Threads /\ pc[Callback].at = "tail"
  BY DEF Threads, ContinueCallback
<1>2. pc[Callback].ski \in SKIs
  BY <1>1, CallbackAt DEF onPeer
<1> QED BY <1>2, OnConnectionKeeps DEF ContinueCallback

LEMMA DiscardKeeps ==
    ASSUME PairingInv, Discard, scenario' = scenario
    PROVE  PairingInv'
<1> DEFINE q == pc[Callback]
           op == "closed"
<1>0. /\ Callback \in Threads /\ q.at = "discard" /\ quiet
      /\ \/ f' = F!delete(f, q.ski) /\ goto(Callback, call(op, q.ski, q.conn))
         \/ f' = f /\ goto(Callback, Idle)
  BY DEF Threads, Discard
<1>1. /\ q \in Frame /\ q.ski \in SKIs /\ f \in F!Facade
      /\ q.conn \in 0..MaxConnections
  BY <1>0, CallbackAt DEF onPeer, Frame
<1>2. op \in withPeer \ {"publish", "finish", "queued", "select", "confirm"}
  BY DEF withPeer
<1>3. "none" \in Kinds \ {"terminated"}
  BY DEF Kinds
<1> HIDE DEF op
<1>4. Place(Callback, call(op, q.ski, q.conn))
  BY <1>1, <1>2, <1>3, KindPlace
<1> QED BY <1>0, <1>1, <1>4, IdlePlace, Deletes, GotoKeeps

LEMMA OutgoingBoundKeeps ==
    ASSUME PairingInv, NEW s \in SKIs, OutgoingAttemptTLSBound(s),
           scenario' = scenario
    PROVE  PairingInv'
<1> DEFINE n == f.connections[s].generation
           op == "bind"
           kind == "bound"
           q == [call(op, s, n) EXCEPT !.kind = kind]
<1>0. /\ Callback \in Threads /\ F!known(f, s) /\ Lock(Callback, q)
      /\ UNCHANGED <<f, service>> /\ f \in F!Facade
  BY DEF Threads, OutgoingAttemptTLSBound, PairingInv, TypeOK
<1>1. n \in 0..MaxConnections
  BY <1>0, KnownType
<1>2. /\ op \in withPeer \ {"publish", "finish", "queued", "select", "confirm"}
      /\ kind \in Kinds \ {"terminated"}
  BY DEF withPeer, Kinds
<1> HIDE DEF op, n, kind
<1>3. Place(Callback, q)
  BY <1>1, <1>2, KindPlace
<1>4. q.at = "enter"
  <2> DEFINE p == call(op, s, n)
  <2>1. op \in Ops
    BY <1>2 DEF withPeer, Ops
  <2>2. p \in Frame /\ p.at = "enter"
    BY <1>1, <2>1, CallFields
  <2> HIDE DEF p
  <2>3. [p EXCEPT !.kind = kind].at = "enter"
    BY <2>2 DEF Frame
  <2> QED BY <2>3 DEF p
<1> HIDE DEF q
<1> QED BY <1>0, <1>3, <1>4, CallKeeps

LEMMA BoundKeeps ==
    ASSUME PairingInv, Bound, scenario' = scenario
    PROVE  PairingInv'
<1> DEFINE q == pc[Callback]
           op == "ship"
           kind == "request"
           r == [call(op, q.ski, q.conn) EXCEPT !.kind = kind]
<1>0. /\ Callback \in Threads /\ q.at = "bound" /\ quiet
      /\ f' = F!bound(f, q.ski, q.conn)
      /\ goto(Callback, r) \/ goto(Callback, Idle)
  BY DEF Threads, Bound
<1>1. /\ q \in Frame /\ q.ski \in SKIs /\ f \in F!Facade
      /\ q.conn \in 0..MaxConnections
  BY <1>0, CallbackAt DEF onPeer, Frame
<1>2. /\ op \in withPeer \ {"publish", "finish", "queued", "select", "confirm"}
      /\ kind \in Kinds \ {"terminated"}
  BY DEF withPeer, Kinds
<1> HIDE DEF op, kind
<1>3. Place(Callback, r)
  BY <1>1, <1>2, KindPlace
<1>4. f' \in F!Facade
  BY <1>0, <1>1, Marks DEF F!bound, F!current
<1> HIDE DEF r
<1> QED BY <1>0, <1>3, <1>4, IdlePlace, GotoKeeps

LEMMA FailedKeeps ==
    ASSUME PairingInv, NEW s \in SKIs, Failed(s), scenario' = scenario
    PROVE  PairingInv'
<1> DEFINE n == f.connections[s].generation
           op == "closed"
           kind == "failed"
           at == "failing"
           q == [call(op, s, n) EXCEPT !.kind = kind]
           r == [q EXCEPT !.flag = TRUE]
           p == [q EXCEPT !.at = at]
<1>0. /\ Callback \in Threads /\ F!known(f, s) /\ quiet /\ f \in F!Facade
      /\ f' = [f EXCEPT !.connections[s].failed = TRUE,
                        !.connections[s].admitted = FALSE,
                        !.connections[s].outgoing = FALSE]
      /\ goto(Callback, q) \/ goto(Callback, r) \/ goto(Callback, p)
  BY DEF Threads, Failed, PairingInv, TypeOK
<1>1. n \in 0..MaxConnections
  BY <1>0, KnownType
<1>2. /\ op \in withPeer \ {"publish", "finish", "queued", "select", "confirm"}
      /\ kind \in Kinds \ {"terminated"}
      /\ at \in {"enter", "failing", "registering"}
  BY DEF withPeer, Kinds
<1> HIDE DEF op, n, kind, at
<1>3. Place(Callback, q)
  BY <1>1, <1>2, KindPlace
<1>4. Place(Callback, r) /\ Place(Callback, p)
  BY <1>1, <1>2, CallPlace
<1>5. f' \in F!Facade
  BY <1>0, Marks
<1> HIDE DEF q, r, p
<1> QED BY <1>0, <1>3, <1>4, <1>5, GotoKeeps

LEMMA FailureHandledKeeps ==
    ASSUME PairingInv, FailureHandled, scenario' = scenario
    PROVE  PairingInv'
<1> DEFINE q == pc[Callback]
<1>0. /\ Callback \in Threads /\ q.at = "failing" /\ quiet
      /\ goto(Callback, Idle)
      /\ \/ f' = F!delete(f, q.ski)
         \/ f' = F!cancelGeneration(f, q.ski, q.conn)
  BY DEF Threads, FailureHandled
<1>1. q.ski \in SKIs /\ f \in F!Facade
  BY <1>0, CallbackAt DEF onPeer
<1> QED BY <1>0, <1>1, IdlePlace, Deletes, Cancels, GotoKeeps

LEMMA SucceededKeeps ==
    ASSUME PairingInv, NEW s \in SKIs, NEW completed, Succeeded(s, completed),
           scenario' = scenario
    PROVE  PairingInv'
<1> DEFINE n == f.connections[s].generation
           op == "completed"
<1>0. /\ Callback \in Threads /\ F!known(f, s) /\ quiet /\ f \in F!Facade
      /\ f' = [f EXCEPT !.connections[s].admitted = FALSE]
      /\ goto(Callback, call(op, s, n)) \/ goto(Callback, Idle)
  BY DEF Threads, Succeeded, PairingInv, TypeOK
<1>1. n \in 0..MaxConnections
  BY <1>0, KnownType
<1>2. /\ op \in withPeer \ {"publish", "finish", "queued", "select", "confirm"}
      /\ "none" \in Kinds \ {"terminated"}
  BY DEF withPeer, Kinds
<1> HIDE DEF op, n
<1>3. Place(Callback, call(op, s, n))
  BY <1>1, <1>2, KindPlace
<1>4. f' \in F!Facade
  BY <1>0, Marks
<1> QED BY <1>0, <1>3, <1>4, IdlePlace, GotoKeeps

LEMMA DisconnectedKeeps ==
    ASSUME PairingInv, NEW s \in SKIs, Disconnected(s), scenario' = scenario
    PROVE  PairingInv'
<1> DEFINE g == F!RemoteSKIDisconnected(f, s)
           n == g.connections[s].generation
           op == "closed"
<1>0. Callback \in Threads /\ F!known(f, s) /\ quiet /\ f \in F!Facade
  BY DEF Threads, Disconnected, PairingInv, TypeOK
<1>1. CASE f.connections[s].blocked
  <2>1. f' = F!acknowledgeBlockedDisconnect(f, s) /\ pc' = pc
    BY <1>1 DEF Disconnected
  <2>2. f' \in F!Facade
    BY <1>0, <2>1, Marks, Deletes DEF F!acknowledgeBlockedDisconnect
  <2>3. /\ UNCHANGED <<c, service, queue, drainer, ended, pc, confirmed,
                       durable, opened>>
    BY <1>0, <2>1 DEF quiet, history
  <2>4. TypeOK'
    BY <2>2, <2>3 DEF PairingInv, TypeOK, PhaseOK
  <2>5. FramesInv' /\ CommitInv' /\ QueueInv' /\ TrustIsConfirmed'
    BY <2>3 DEF PairingInv, FramesInv, CommitInv, QueueInv, TrustIsConfirmed
  <2> QED BY <2>3, <2>4, <2>5 DEF PairingInv
<1>2. CASE ~f.connections[s].blocked
  <2>1. /\ f' = g
        /\ \/ goto(Callback, Idle)
           \/ F!known(g, s) /\ goto(Callback, call(op, s, n))
    BY <1>2 DEF Disconnected
  <2>2. g \in F!Facade
    BY <1>0, Deletes, Fences DEF F!RemoteSKIDisconnected
  <2>3. F!known(g, s) => n \in 0..MaxConnections
    BY <2>2, KnownType
  <2>4. /\ op \in withPeer \ {"publish", "finish", "queued", "select", "confirm"}
        /\ "none" \in Kinds \ {"terminated"}
    BY DEF withPeer, Kinds
  <2> HIDE DEF op, n, g
  <2>5. F!known(g, s) => Place(Callback, call(op, s, n))
    BY <2>3, <2>4, KindPlace
  <2> QED BY <1>0, <2>1, <2>2, <2>5, IdlePlace, GotoKeeps
<1> QED BY <1>1, <1>2

LEMMA TerminatedKeeps ==
    ASSUME PairingInv, NEW s \in SKIs, Terminated(s), scenario' = scenario
    PROVE  PairingInv'
<1> DEFINE k == f.connections[s]
           n == k.generation
           g == F!fence(f, s)
           q == call("closed", s, n)
           r == [q EXCEPT !.kind = "terminated", !.saved = k]
<1>0. /\ Bridge \in Threads /\ F!known(f, s) /\ quiet /\ f \in F!Facade
      /\ f' = [g EXCEPT !.connections[s].failed = TRUE,
                        !.connections[s].admitted = FALSE,
                        !.connections[s].outgoing = FALSE]
      /\ goto(Bridge, r)
  BY DEF Threads, Terminated, PairingInv, TypeOK
<1>1. k \in F!Connection /\ n \in 0..MaxConnections
  BY <1>0, KnownType
<1>2. f' \in F!Facade
  <2>1. g \in F!Facade /\ F!known(g, s)
    BY <1>0, Fences
  <2> HIDE DEF g
  <2> QED BY <1>0, <2>1, Marks
<1>3. "closed" \in Ops
  BY DEF Ops
<1> HIDE DEF n, k
<1>4. q \in Frame /\ q.at = "enter" /\ q.op = "closed" /\ q.ski = s
  BY <1>1, <1>3, CallFields
<1> HIDE DEF q
<1>5. /\ r \in Frame /\ r.at = "enter" /\ r.op = "closed" /\ r.ski = s
      /\ r.kind = "terminated" /\ r.saved = k
  BY <1>1, <1>4 DEF Frame, Kinds
<1> HIDE DEF r
<1>6. r.op \in withPeer \ {"publish", "finish", "queued", "select", "confirm"}
  BY <1>5 DEF withPeer
<1>7. Place(Bridge, r)
  BY <1>1, <1>5, <1>6, PeerPlace
<1> QED BY <1>0, <1>2, <1>7, GotoKeeps

LEMMA RestoreKeeps ==
    ASSUME PairingInv, Restore, scenario' = scenario
    PROVE  PairingInv'
<1> DEFINE q == pc[Bridge]
           s == q.ski
           b == q.saved.active
           b2 == q.saved.ship
<1>0. Bridge \in Threads /\ q.at = "restore" /\ quiet /\ goto(Bridge, Idle)
  BY DEF Threads, Restore
<1>1. FrameOf(Bridge, q) /\ s \in SKIs /\ f \in F!Facade
  BY <1>0, CallbackAt DEF onPeer
<1>2. b \in BOOLEAN /\ b2 \in BOOLEAN
  BY <1>0, <1>1 DEF FrameOf, F!Connection
<1>3. \/ /\ F!known(f, s)
         /\ f' = [f EXCEPT !.connections[s].active = b,
                           !.connections[s].blocked = FALSE,
                           !.connections[s].ship = b2]
      \/ f' = F!delete(f, s)
      \/ f' = f
  BY DEF Restore, F!current
<1>4. f' \in F!Facade
  <2> HIDE DEF s, b, b2
  <2>1. F!known(f, s) =>
          [f EXCEPT !.connections[s].active = b,
                    !.connections[s].blocked = FALSE,
                    !.connections[s].ship = b2] \in F!Facade
    BY <1>1, <1>2, Marks
  <2> QED BY <1>1, <1>3, <2>1, Deletes
<1> QED BY <1>0, <1>4, IdlePlace, GotoKeeps

LEMMA EffectStepKeeps ==
    ASSUME PairingInv, Effect, scenario' = scenario
    PROVE  PairingInv'
<1> DEFINE e == Head(queue)
           alive == F!registers(f, e.ski, e.conn)
           at == "registering"
           op == "registered"
           kind == e.kind
           r == [call(op, e.ski, e.conn) EXCEPT !.at = at, !.kind = kind]
<1>0. /\ Drain \in Threads /\ queue \in Seq(Effects) /\ queue # <<>>
      /\ backed(queue, confirmed) /\ f \in F!Facade
      /\ service \in [advertised : BOOLEAN, registered : SUBSET SKIs]
      /\ queue' = Tail(queue)
      /\ UNCHANGED <<c, drainer, ended, confirmed, durable, opened>>
      /\ durable \subseteq confirmed
      /\ Trusted(service.registered, confirmed)
      /\ confirmed \subseteq Associations
      /\ drainer \in Threads \cup {NoThread}
  BY TrustSplit DEF Effect, Threads, PairingInv, TypeOK, history, Associations
<1>1. /\ e \in Effects /\ queue' \in Seq(Effects) /\ backed(queue', confirmed)
      /\ e.kind \in registering => <<e.ski, e.conn>> \in confirmed
  BY <1>0, BackedTail
<1>2. e.ski \in SKIs
  BY <1>1 DEF Effects
<1>3. f' \in F!Facade
  <2>1. \/ f' = F!cancelGeneration(f, e.ski, e.conn)
        \/ alive /\ f' = F!registerRemoteSKI(f, e.ski)
        \/ alive /\ f' = F!registerTransientRemoteSKI(f, e.ski)
        \/ /\ F!unregisters(f, e.ski, e.conn)
           /\ f' = F!unregisterTransientRemoteSKI(f, e.ski)
        \/ f' = F!finalizeTransientRemoteSKI(f, e.ski, e.conn)
        \/ f' = f
    BY DEF Effect
  <2>2. /\ alive => F!known(f, e.ski)
        /\ F!unregisters(f, e.ski, e.conn) => F!known(f, e.ski)
    BY DEF F!registers, F!connectionAlive, F!unregisters, F!current
  <2> HIDE DEF alive, e
  <2>3. F!known(f, e.ski) => /\ F!registerRemoteSKI(f, e.ski) \in F!Facade
                             /\ F!registerTransientRemoteSKI(f, e.ski) \in F!Facade
                             /\ F!unregisterTransientRemoteSKI(f, e.ski) \in F!Facade
    BY <1>0, <1>2, Marks
  <2>4. F!finalizeTransientRemoteSKI(f, e.ski, e.conn) \in F!Facade
    BY <1>0, <1>2, Marks DEF F!finalizeTransientRemoteSKI, F!current
  <2> QED BY <1>0, <1>2, <2>1, <2>2, <2>3, <2>4, Cancels
<1>4. /\ service' \in [advertised : BOOLEAN, registered : SUBSET SKIs]
      /\ Trusted(service'.registered, confirmed)
  <2>1. \/ /\ e.kind \in registering
           /\ service' = [service EXCEPT !.registered = @ \cup {e.ski}]
        \/ service' = [service EXCEPT !.registered = @ \ {e.ski}]
        \/ service' = service
    BY DEF Effect, registering
  <2> HIDE DEF e
  <2>2. CASE /\ e.kind \in registering
             /\ service' = [service EXCEPT !.registered = @ \cup {e.ski}]
    <3>1. service'.registered = service.registered \cup {e.ski}
      BY <1>0, <2>2
    <3>2. \E n \in 1..MaxConnections : <<e.ski, n>> \in confirmed
      BY <1>0, <1>1, <2>2 DEF Associations
    <3>3. service' \in [advertised : BOOLEAN, registered : SUBSET SKIs]
      BY <1>0, <1>2, <2>2
    <3> QED BY <1>0, <3>1, <3>2, <3>3 DEF Trusted
  <2>3. CASE service' = [service EXCEPT !.registered = @ \ {e.ski}]
    <3>1. service'.registered = service.registered \ {e.ski}
      BY <1>0, <2>3
    <3>2. service' \in [advertised : BOOLEAN, registered : SUBSET SKIs]
      BY <1>0, <2>3
    <3> QED BY <1>0, <3>1, <3>2 DEF Trusted
  <2> QED BY <1>0, <2>1, <2>2, <2>3
<1>5. \/ pc' = [pc EXCEPT ![Drain] = Idle]
      \/ /\ alive /\ kind \in registering
         /\ pc' = [pc EXCEPT ![Drain] = r]
  BY DEF Effect, goto, registering
<1>6. alive /\ kind \in registering => Place(Drain, r)
  <2>1. alive => e.conn \in 0..MaxConnections
    <3>1. alive => F!known(f, e.ski)
                   /\ f.connections[e.ski].generation = e.conn
      BY DEF F!registers, F!connectionAlive, F!current
    <3> HIDE DEF alive, e
    <3> QED BY <1>0, <1>2, <3>1, KnownType
  <2>2. /\ op \in withPeer \ {"publish", "finish", "queued", "select", "confirm"}
        /\ kind \in registering => kind \in Kinds \ {"terminated"}
        /\ at \in {"enter", "failing", "registering"}
    BY DEF withPeer, Kinds, registering
  <2> DEFINE b == FALSE
  <2>3. b \in BOOLEAN
    OBVIOUS
  <2> HIDE DEF op, kind, at, alive, e, b
  <2> QED BY <1>2, <2>1, <2>2, <2>3, CallPlace
<1> HIDE DEF r, alive, kind
<1>7. PICK p : Place(Drain, p) /\ pc' = [pc EXCEPT ![Drain] = p]
  BY <1>5, <1>6, IdlePlace
<1>8. Owes(Drain, p, c, confirmed', durable')
  BY <1>0, <1>7, PlaceOwes
<1> QED BY <1>0, <1>1, <1>3, <1>4, <1>7, <1>8, StepKeeps

LEMMA RegisteredKeeps ==
    ASSUME PairingInv, Registered, scenario' = scenario
    PROVE  PairingInv'
<1> DEFINE q == pc[Drain]
           r == [q EXCEPT !.at = "enter"]
<1>0. /\ Drain \in Threads /\ q.at = "registering" /\ quiet /\ f' = f
      /\ goto(Drain, r) \/ goto(Drain, Idle)
  BY DEF Threads, Registered, quiet
<1>1. /\ q \in Frame /\ FrameOf(Drain, q) /\ q.ski \in SKIs
      /\ q.op \in withPeer \ {"publish", "finish", "queued"}
      /\ f \in F!Facade
  BY <1>0, CallbackAt DEF onPeer
<1>2. /\ r \in Frame /\ r.at = "enter" /\ r.op = q.op /\ r.ski = q.ski
      /\ r.kind = q.kind /\ r.saved = q.saved /\ r.conn = q.conn
  BY <1>1 DEF Frame
<1> HIDE DEF r
<1>3. r.op \in withPeer /\ r.op \notin {"publish", "finish", "queued"}
  BY <1>1, <1>2
<1>4. FrameOf(Drain, r)
  BY <1>1, <1>2, <1>3 DEF FrameOf, waiting
<1>5. Place(Drain, r)
  BY <1>2, <1>3, <1>4 DEF Place, commitsIn, queuesIn, commits
<1> QED BY <1>0, <1>1, <1>5, IdlePlace, GotoKeeps

\* Nothing but the draining thread or the coordinator changes.
LEMMA DrainedKeeps ==
    ASSUME PairingInv, Drained, scenario' = scenario
    PROVE  PairingInv'
<1>1. /\ UNCHANGED <<c, f, service, queue, pc, ended>>
      /\ UNCHANGED <<confirmed, durable, opened>> /\ drainer' = NoThread
  BY DEF Drained, history
<1>2. TypeOK'
  BY <1>1 DEF PairingInv, TypeOK, PhaseOK
<1>3. FramesInv' /\ CommitInv' /\ QueueInv' /\ TrustIsConfirmed'
  BY <1>1 DEF PairingInv, FramesInv, CommitInv, QueueInv, TrustIsConfirmed
<1> QED BY <1>1, <1>2, <1>3 DEF PairingInv

LEMMA AloneKeeps ==
    ASSUME PairingInv, UNCHANGED <<f, service, queue, drainer, pc, ended,
                                   confirmed, durable, opened, scenario>>,
           Sound(c', confirmed), Ordinary(c, c'), c'.ask = "none"
    PROVE  PairingInv'
<1>1. PhaseOK' /\ TypeOK'
  BY DEF PairingInv, TypeOK, Sound, Typed, PhasesOf, PhaseOK
<1>2. /\ \A u \in Threads : commitsIn(pc[u]) =>
           CommitOf(pc[u], c', confirmed, durable)
      /\ Trusted(c'.trusted, durable)
  BY OthersKeep DEF Ordinary
<1>3. FramesInv' /\ CommitInv' /\ QueueInv'
  BY <1>2 DEF PairingInv, FramesInv, CommitInv, QueueInv, Ordinary, SelKept
<1>4. TrustIsConfirmed'
  BY <1>2 DEF PairingInv, TrustIsConfirmed, Trusted
<1> QED BY <1>1, <1>3, <1>4 DEF PairingInv

LEMMA DueKeeps ==
    ASSUME PairingInv, Due, scenario' = scenario
    PROVE  PairingInv'
<1>0. /\ c \in Coordinator /\ c.ask = "none" /\ Sound(c, confirmed)
      /\ UNCHANGED <<f, service, queue, drainer, pc, ended>>
      /\ UNCHANGED <<confirmed, durable, opened>>
  BY DEF PairingInv, TypeOK, Due, history
<1>1. CASE c.cand # NoCandidate /\ c' = [c EXCEPT !.cand.due = TRUE]
  <2>1. c.cand \in Candidate
    BY <1>0, <1>1 DEF Coordinator
  <2>2. Noted(c, c') /\ c'.ask = c.ask
    BY <1>0, <1>1, <2>1
    DEF Noted, Quiet, SelKept, queueing, Coordinator, Candidate
  <2> QED BY <1>0, <1>1, <2>2, NotedSound, AloneKeeps
<1>2. CASE c.window = "open" /\ c' = [c EXCEPT !.window = "due"]
  <2> DEFINE e == c'
  <2>1. /\ e \in Coordinator /\ e.phase = c.phase /\ e.window = "due"
        /\ e.cand = c.cand /\ e.pending = c.pending /\ e.sel = c.sel
        /\ e.attached = c.attached /\ e.inflight = c.inflight
        /\ e.fault = c.fault /\ e.recovery = c.recovery
        /\ e.trusted = c.trusted /\ e.ask = c.ask
    BY <1>0, <1>2 DEF Coordinator
  <2> HIDE DEF e
  <2>2. Typed(e, confirmed)
    BY <1>0, <2>1 DEF Sound, Typed
  <2>3. PhasesOf(e)
    BY <1>0, <1>2, <2>1 DEF Sound, PhasesOf
  <2>4. Ordinary(c, e)
    BY <2>1 DEF Ordinary, Orderly, SelKept, queueing
  <2> QED BY <1>0, <2>1, <2>2, <2>3, <2>4, AloneKeeps DEF Sound, e
<1> QED BY <1>1, <1>2 DEF Due

LEMMA MinorStep ==
    ASSUME PairingInv, Minor(c, c'),
           UNCHANGED <<f, service, queue, drainer, pc, ended, scenario>>,
           UNCHANGED <<confirmed, durable, opened>>
    PROVE  PairingInv'
<1>1. Sound(c, confirmed) /\ c.ask = "none"
  BY DEF PairingInv, TypeOK
<1>2. Sound(c', confirmed) /\ Ordinary(c, c') /\ c'.ask = "none"
  BY <1>1, MinorKeeps DEF Minor
<1> QED BY <1>2, AloneKeeps

LEMMA ControlPublishedKeeps ==
    ASSUME PairingInv, ControlPublished, scenario' = scenario
    PROVE  PairingInv'
<1>1. Minor(c, c')
  BY MinorChanges DEF ControlPublished, PairingInv, TypeOK
<1> QED BY <1>1, MinorStep DEF ControlPublished, history

LEMMA TimersKeep ==
    ASSUME PairingInv, Timer \/ TimerOfLostCandidate \/ Shutdown,
           scenario' = scenario
    PROVE  PairingInv'
<1>0. Runtime \in Threads /\ 0 \in 0..MaxConnections
  BY BoundAssumption DEF Threads
<1>1. /\ Place(Runtime, call("timer", NoSKI, 0))
      /\ call("timer", NoSKI, 0).at = "enter"
      /\ Place(Runtime, call("shutdown", NoSKI, 0))
      /\ call("shutdown", NoSKI, 0).at = "enter"
  BY <1>0, AdminPlace
<1>2. CASE Lock(Runtime, call("timer", NoSKI, 0)) /\ UNCHANGED <<f, service>>
  BY <1>0, <1>1, <1>2, CallKeeps
<1>3. CASE Lock(Runtime, call("shutdown", NoSKI, 0)) /\ UNCHANGED <<f, service>>
  BY <1>0, <1>1, <1>3, CallKeeps
<1>4. CASE /\ c' = [c EXCEPT !.timer = "none"]
           /\ UNCHANGED <<queue, drainer, pc, ended, history, f, service>>
  <2>1. Minor(c, c')
    BY <1>4, MinorChanges DEF PairingInv, TypeOK
  <2> QED BY <1>4, <2>1, MinorStep DEF history
<1> QED BY <1>2, <1>3, <1>4 DEF Timer, TimerOfLostCandidate, Shutdown

LEMMA DiscoveredKeeps ==
    ASSUME PairingInv, NEW seen \in SUBSET SKIs, Discovered(seen),
           scenario' = scenario
    PROVE  PairingInv'
<1> DEFINE e == visiblePairingCandidatesUpdated(c, seen)
<1>0. /\ Runtime \in Threads /\ Unlock(Runtime, e, Idle)
      /\ UNCHANGED <<f, service, ended, confirmed, durable, opened>>
      /\ Sound(c, confirmed) /\ c.ask = "none" /\ c \in Coordinator
      /\ opened \in Nat /\ confirmed \subseteq Associations
  BY DEF Threads, Discovered, history, PairingInv, TypeOK, Associations
<1>1. Minor(c, e)
  BY <1>0, MinorChanges
<1> HIDE DEF e
<1>2. Sound(e, confirmed) /\ Ordinary(c, e) /\ e.ask = "none"
  BY <1>0, <1>1, MinorKeeps DEF Minor
<1>3. Settled(Runtime, e, Idle)
  BY <1>0, <1>2 DEF Unlock, Settled, Released, PairingInv, TypeOK
<1>4. /\ \A u \in Threads : commitsIn(pc[u]) =>
           CommitOf(pc[u], e, confirmed, durable)
      /\ Trusted(e.trusted, durable)
  BY <1>2, OthersKeep DEF Ordinary
<1>5. \A u \in Threads : queuesIn(pc[u]) => queueing(e)
  BY <1>2 DEF PairingInv, QueueInv, Ordinary, SelKept
<1>6. Owes(Runtime, Idle, e, confirmed', durable')
  BY <1>0, <1>4, <1>5, IdleFrame DEF Owes
<1> QED BY <1>0, <1>2, <1>3, <1>4, <1>6, SettledKeeps

-----------------------------------------------------------------------------
(* The theorems.                                                            *)

LEMMA InitKeeps ==
    ASSUME Init
    PROVE  PairingInv
<1>0. /\ scenario \in Scenarios /\ c = Closed(scenario.selecting)
      /\ f = F!Detached /\ service = [advertised |-> FALSE, registered |-> {}]
      /\ queue = <<>> /\ drainer = NoThread
      /\ pc = [t \in Threads |-> Idle]
      /\ ended = FALSE /\ confirmed = {} /\ durable = {} /\ opened = 0
  BY DEF Init
<1>1. scenario \in Scenario
  BY <1>0, PairingAssumption
<1>2. scenario.selecting \in BOOLEAN
  BY <1>1 DEF Scenario
<1>3. /\ c \in Coordinator /\ c.ask = "none" /\ c.phase = "PairingClosed"
      /\ c.window = "none" /\ c.cand = NoCandidate /\ c.trusted = {}
      /\ c.pending = <<>> /\ c.attached /\ ~c.fault /\ ~c.inflight
      /\ c.recovery = "UNPAIRED_LOCKED"
  BY <1>0, <1>2 DEF Closed, Coordinator, Phases
<1>4. f \in F!Facade
  BY <1>0, BoundAssumption DEF F!Detached, F!Facade
<1>5. Sound(c, confirmed)
  <2>1. Typed(c, confirmed)
    BY <1>3, NothingBacked DEF Typed
  <2>2. PhasesOf(c)
    BY <1>3 DEF PhasesOf
  <2> QED BY <2>1, <2>2 DEF Sound
<1>6. pc \in [Threads -> Frame] /\ \A t \in Threads : pc[t] = Idle
  BY <1>0, IdleFrame
<1>7. FramesInv /\ CommitInv /\ QueueInv
  BY <1>6, IdleFrame DEF FramesInv, CommitInv, QueueInv
<1>8. PhaseOK
  BY <1>3 DEF PhaseOK
<1>9. queue \in Seq(Effects) /\ backed(queue, confirmed)
  BY <1>0, NothingBacked
<1>10. TypeOK
  BY <1>0, <1>3, <1>4, <1>6, <1>8, <1>9 DEF TypeOK
<1>11. TrustIsConfirmed
  BY <1>0, <1>3 DEF TrustIsConfirmed
<1> QED BY <1>1, <1>5, <1>7, <1>9, <1>10, <1>11 DEF PairingInv

LEMMA CallbackStepKeeps ==
    ASSUME PairingInv, CallbackStep, scenario' = scenario
    PROVE  PairingInv'
<1>1. ASSUME NEW s \in SKIs,
             NEW kind \in {"attempt", "connected", "ship", "request"},
             Attempt(kind, s)
      PROVE  PairingInv'
  BY <1>1, AttemptKeeps DEF callbackKinds
<1>2. ASSUME NEW s \in SKIs, OutgoingAttemptTLSBound(s)
      PROVE  PairingInv'
  BY <1>2, OutgoingBoundKeeps
<1>3. ASSUME NEW s \in SKIs, Failed(s)
      PROVE  PairingInv'
  BY <1>3, FailedKeeps
<1>4. ASSUME NEW s \in SKIs, Disconnected(s)
      PROVE  PairingInv'
  BY <1>4, DisconnectedKeeps
<1>5. ASSUME NEW s \in SKIs, NEW completed \in BOOLEAN,
             Succeeded(s, completed)
      PROVE  PairingInv'
  BY <1>5, SucceededKeeps
<1>6. ASSUME NEW s \in SKIs, Terminated(s)
      PROVE  PairingInv'
  BY <1>6, TerminatedKeeps
<1>7. CASE NewConnection \/ AttemptBegun \/ ContinueCallback \/ Discard
  BY <1>7, NewConnectionKeeps, AttemptBegunKeeps, ContinueCallbackKeeps,
     DiscardKeeps
<1>8. CASE Bound \/ FailureHandled \/ Restore
  BY <1>8, BoundKeeps, FailureHandledKeeps, RestoreKeeps
<1> QED BY <1>1, <1>2, <1>3, <1>4, <1>5, <1>6, <1>7, <1>8 DEF CallbackStep

LEMMA NextKeeps ==
    ASSUME PairingInv, Next
    PROVE  PairingInv'
<1>0. Step /\ scenario' = scenario
  BY DEF Next
<1>1. ASSUME NEW t \in Operators, OperatorStep(t)
      PROVE  PairingInv'
  BY <1>0, <1>1, OperatorKeeps
<1>2. ASSUME NEW t \in Threads,
             \/ Enter(t) \/ SetWaiting(t) \/ WaitingSet(t) \/ PrepareFails(t)
             \/ Publish(t)
      PROVE  PairingInv'
  BY <1>0, <1>2, EnterKeeps, SetWaitingStepKeeps, WaitingSetStepKeeps,
     PrepareFailsKeeps, PublishKeeps
<1>3. CASE CallbackStep
  BY <1>0, <1>3, CallbackStepKeeps
<1>4. CASE Effect \/ Registered \/ Drained \/ Due \/ ControlPublished
  BY <1>0, <1>4, EffectStepKeeps, RegisteredKeeps, DrainedKeeps, DueKeeps,
     ControlPublishedKeeps
<1>5. CASE Timer \/ TimerOfLostCandidate \/ Shutdown
  BY <1>0, <1>5, TimersKeep
<1>6. ASSUME NEW seen \in SUBSET SKIs, Discovered(seen)
      PROVE  PairingInv'
  BY <1>0, <1>6, DiscoveredKeeps
<1> QED BY <1>0, <1>1, <1>2, <1>3, <1>4, <1>5, <1>6 DEF Step

LEMMA StutterKeeps ==
    ASSUME PairingInv, UNCHANGED <<vars, scenario>>
    PROVE  PairingInv'
<1>1. /\ UNCHANGED <<c, f, service, queue, drainer, pc, ended, confirmed>>
      /\ UNCHANGED <<durable, opened, scenario>>
  BY DEF vars
<1>2. ended' \in BOOLEAN /\ opened' \in Nat
  BY <1>1 DEF PairingInv, TypeOK
<1> QED BY <1>1, <1>2, EndedKeeps

\* PairingInv is an invariant of the coordinator, the facade and the service
\* with their threads, whatever goes wrong.
LEMMA PairingInvariant == Spec => []PairingInv
<1>1. Init => PairingInv
  BY InitKeeps
<1>2. PairingInv /\ [Next]_<<vars, scenario>> => PairingInv'
  BY NextKeeps, StutterKeeps
<1> QED BY <1>1, <1>2, PTL DEF Spec

\* Every variable keeps its type, and every phase of the coordinator its
\* window and its candidate, also while setWaitingLocked has released the
\* mutex (first_trust.go).
THEOREM PairingTypes == Spec => []TypeOK
<1>1. PairingInv => TypeOK
  BY DEF PairingInv
<1> QED BY <1>1, PairingInvariant, PTL

\* No peer is published, trusted or registered with the service before an
\* operator confirmed that peer on that very connection, for every number of
\* operators, peers, windows and connections and whatever goes wrong.
THEOREM TrustNeedsConfirmation == Spec => []TrustIsConfirmed
<1>1. PairingInv => TrustIsConfirmed
  BY DEF PairingInv
<1> QED BY <1>1, PairingInvariant, PTL

\* The threads that can complete the conditions of a commit start one between
\* them: no two publications overlap, and the coordinator does not leave the
\* phase of the commit under the thread that publishes.
THEOREM CommitIsAlone == Spec => []OneCommit
<1>1. PairingInv => OneCommit
  BY DEF PairingInv, CommitInv, CommitOf, OneCommit, publishing, commitsIn,
         commits, waiting
<1> QED BY <1>1, PairingInvariant, PTL

-----------------------------------------------------------------------------
(* With one operator, what is published is trusted.                         *)

\* What the coordinator owes the threads other than t, and every publication.
SoleState(t, e) ==
    /\ \A u \in Threads \ {t} : queuesIn(pc[u]) => e.phase \notin busy
    /\ e.phase = "Committing" => e.cand # NoCandidate
    /\ e.attached /\ e.recovery # "QUARANTINED" =>
         \A b \in durable : \/ b[1] \in e.trusted
                            \/ \E u \in Threads \ {t} : settles(pc[u], b)

LEMMA SoleStep ==
    ASSUME PairingInv, NEW t \in Threads, NEW r, NEW e, SoleState(t, e),
           queuesIn(r) => e.phase \notin busy,
           pc' = [pc EXCEPT ![t] = r], durable' = durable,
           c'.phase = e.phase, c'.cand = e.cand, c'.attached = e.attached,
           c'.recovery = e.recovery, c'.trusted = e.trusted
    PROVE  SoleInv'
<1>0. /\ pc'[t] = r /\ \A u \in Threads \ {t} : pc'[u] = pc[u]
  BY DEF PairingInv, TypeOK
<1>1. \A u \in Threads : queuesIn(pc'[u]) => e.phase \notin busy
  BY <1>0 DEF SoleState
<1>2. ASSUME e.attached, e.recovery # "QUARANTINED", NEW b \in durable
      PROVE  \/ b[1] \in e.trusted
             \/ \E u \in Threads : settles(pc'[u], b)
  BY <1>0, <1>2 DEF SoleState
<1> QED BY <1>1, <1>2 DEF SoleInv, SoleState

\* A section that does nothing special.
LEMMA SoleOrderly ==
    ASSUME SoleInv, NEW t \in Threads, NEW e, Orderly(c, e),
           e.phase = "Committing" /\ c.cand # NoCandidate =>
               e.cand # NoCandidate,
           \A b : ~settles(pc[t], b)
    PROVE  SoleState(t, e)
<1>1. \A u \in Threads \ {t} : queuesIn(pc[u]) => e.phase \notin busy
  BY DEF SoleInv, Orderly, busy
<1>2. e.phase = "Committing" => e.cand # NoCandidate
  BY DEF SoleInv, Orderly
<1>3. ASSUME e.attached, e.recovery # "QUARANTINED", NEW b \in durable
      PROVE  \/ b[1] \in e.trusted
             \/ \E u \in Threads \ {t} : settles(pc[u], b)
  BY <1>3 DEF SoleInv, Orderly
<1> QED BY <1>1, <1>2, <1>3 DEF SoleState

\* Only an operator waits for the candidate queue.
LEMMA QueuesOperator ==
    ASSUME PairingInv, NEW t \in Threads, queuesIn(pc[t])
    PROVE  t \in Operators
  BY FrameAt DEF queuesIn, FrameOf

LEMMA SoleSection ==
    ASSUME OneOperator, PairingInv, SoleInv, NEW t \in Threads, NEW q, NEW d,
           Running(t, q, d), NEW L, confirmed \subseteq L,
           q.op = "confirm" /\ confirms(d, q.ski, q.conn) =>
               <<q.ski, q.conn>> \in L,
           q.op = "finish" \/ \A b : ~settles(pc[t], b),
           q.op = "finish" => \A b : settles(pc[t], b) => settles(q, b)
    PROVE  LET e == section(q, d) IN
           /\ SoleState(t, e)
           /\ q.op = "select" /\ selects(d, q.ski) => e.phase \notin busy
<1> DEFINE e == section(q, d)
<1>0. /\ FrameOf(t, q) /\ q.at = "enter" /\ q \in Frame /\ q.op \in Ops
      /\ Sound(d, confirmed) /\ Ordinary(c, d)
  BY DEF Running, FrameOf, Frame
<1>1. q.op # "finish" => SoleState(t, d)
  BY <1>0, SoleOrderly DEF Ordinary
<1>2. CASE q.op \in plain
  <2>1. Sound(e, confirmed) /\ Ordinary(d, e)
    BY <1>0, <1>2, PlainSection
  <2> HIDE DEF e
  <2>2. Ordinary(c, e)
    BY <1>0, <2>1, OrdinaryTrans
  <2>3. q.op # "finish"
    BY <1>2 DEF plain
  <2>4. SoleState(t, e)
    BY <2>2, <2>3, SoleOrderly DEF Ordinary
  <2>5. selects(d, q.ski) => e.phase \notin busy
    BY <2>1 DEF selects, Ordinary, Orderly, busy
  <2> QED BY <2>4, <2>5 DEF e
<1>3. CASE q.op = "queued"
  <2>1. queuesIn(pc[t])
    BY <1>3 DEF Running, queuesIn
  <2>2. c.phase \notin busy /\ queueing(d)
    BY <1>0, <2>1 DEF SoleInv, PairingInv, QueueInv, Ordinary, SelKept
  <2>3. d.sel # NoSelection
    BY <2>2 DEF queueing
  <2>4. e = candidateQueued(d, q.result = "queued", q.flag)
    BY <1>3 DEF section
  <2>5. q.flag \in BOOLEAN
    BY <1>0 DEF Frame
  <2> HIDE DEF e
  <2>6. Orderly(d, e)
    BY <1>0, <2>3, <2>4, <2>5, QueuedKeeps
  <2>7. Orderly(c, e)
    BY <1>0, <2>6, OrderlyTrans DEF Ordinary
  <2>8. e.phase \notin busy
    BY <2>2, <2>7 DEF Orderly, busy
  <2>9. SoleState(t, e)
    BY <1>3, <2>7, <2>8, SoleOrderly DEF busy
  <2> QED BY <1>3, <2>9 DEF e
<1>4. CASE q.op = "finish"
  <2>0. CommitOf(q, c, confirmed, durable) /\ commitsIn(pc[t])
    BY <1>4 DEF Running, commitsIn, commits
  <2>1. CommitOf(q, d, confirmed, durable)
    BY <1>0, <2>0, OrderlyCommit DEF Ordinary
  <2>2. \A u \in Threads \ {t} : ~commitsIn(pc[u])
    BY <2>0 DEF PairingInv, CommitInv
  <2>3. \A b : \A u \in Threads \ {t} : ~settles(pc[u], b)
    BY <2>2 DEF settles, commitsIn, commits
  <2>4. CASE ~d.inflight
    <3>1. e = d
      BY <1>4, <2>4 DEF section
    <3>2. ~d.attached
      BY <2>1, <2>4 DEF CommitOf
    <3>3. d.phase = "Disabled"
      BY <1>0, <3>2 DEF Sound, PhasesOf
    <3> QED BY <1>4, <3>1, <3>2, <3>3 DEF SoleState, busy
  <2>5. CASE d.inflight
    <3>1. e = finishRecoveryConfirmationLocked(d, q.ski, q.result)
      BY <1>4, <2>5 DEF section
    <3>2. q.ski \in SKIs
      BY <1>0, <1>4 DEF FrameOf, withPeer
    <3>3. d.attached
      BY <1>0, <2>5 DEF Sound, PhasesOf
    <3>4. d.fault \/ d.phase = "Committing"
      BY <1>0, <2>1, <3>3 DEF CommitOf, waiting
    <3> HIDE DEF e
    <3>5. /\ Sound(e, confirmed) /\ Outcome(d, e, q.ski, q.result)
          /\ d.fault => e.fault
          /\ e.phase \in {"PairingClosed", "Disabled"}
      BY <1>0, <2>5, <3>1, <3>2, <3>4, FinishKeeps
    <3>6. ASSUME e.recovery # "QUARANTINED", NEW b \in durable
          PROVE  b[1] \in e.trusted
      <4>1. ~d.fault
        BY <3>5, <3>6 DEF Sound, PhasesOf
      <4>2. d.phase = "Committing" /\ d.recovery # "QUARANTINED"
        BY <1>0, <3>4, <4>1 DEF Sound, PhasesOf
      <4>3. c.phase = "Committing" /\ c.attached
            /\ c.recovery = d.recovery /\ c.trusted = d.trusted
        BY <1>0, <3>3, <4>2 DEF Ordinary, Orderly
      <4>4. d.cand # NoCandidate
        BY <1>0, <4>2, <4>3 DEF SoleInv, Ordinary
      <4>5. b[1] \in d.trusted \/ settles(q, b)
        BY <1>4, <2>3, <3>6, <4>2, <4>3 DEF SoleInv
      <4>6. \/ /\ q.result = "durable" /\ e.trusted = d.trusted \cup {q.ski}
            \/ /\ q.result \notin {"durable", "unknown"}
               /\ e.trusted = d.trusted
        BY <3>5, <3>6, <4>4 DEF Outcome
      <4>7. settles(q, b) => b[1] = q.ski /\ q.result \in {"durable", "unknown"}
        BY DEF settles
      <4> QED BY <4>5, <4>6, <4>7
    <3>7. e.phase \notin busy
      BY <3>5 DEF busy
    <3>8. SoleState(t, e)
      BY <3>6, <3>7 DEF SoleState, busy
    <3> QED BY <1>4, <3>8 DEF e
  <2> QED BY <2>4, <2>5
<1>5. CASE q.op \in commitOps
  <2>0. q.op \notin {"finish", "select"}
    BY <1>5 DEF commitOps
  <2>1. \/ Ordinary(d, e)
        \/ Awaits(d, e) /\ q.op = "confirm"
        \/ /\ Starts(d, e)
           /\ q.op = "confirm" \/ d.phase = "TransientTrusted"
    <3>1. FrameOf(t, q) /\ Sound(d, confirmed)
      BY <1>0
    <3> QED BY <1>5, <3>1, CommitSection
  <2> HIDE DEF e
  <2>2. CASE Ordinary(d, e)
    <3>1. Ordinary(c, e)
      BY <1>0, <2>2, OrdinaryTrans
    <3> QED BY <2>0, <3>1, SoleOrderly DEF Ordinary, e
  <2>3. CASE \/ Awaits(d, e) /\ q.op = "confirm"
             \/ /\ Starts(d, e)
                /\ q.op = "confirm" \/ d.phase = "TransientTrusted"
    <3>1. \A u \in Threads \ {t} : ~queuesIn(pc[u])
      <4>1. CASE q.op = "confirm"
        BY <1>0, <4>1, QueuesOperator DEF OneOperator, FrameOf
      <4>2. CASE d.phase = "TransientTrusted"
        BY <1>0, <4>2 DEF SoleInv, Ordinary, Orderly, busy
      <4> QED BY <2>3, <4>1, <4>2
    <3>2. /\ e.cand # NoCandidate /\ e.attached = d.attached
          /\ e.recovery = d.recovery /\ e.trusted = d.trusted
      BY <2>3 DEF Awaits, Starts
    <3> QED BY <1>1, <2>0, <3>1, <3>2 DEF SoleState, e
  <2> QED BY <2>1, <2>2, <2>3
<1> QED BY <1>0, <1>2, <1>3, <1>4, <1>5 DEF plain

-----------------------------------------------------------------------------

LEMMA SoleAfter ==
    ASSUME NEW t \in Threads, NEW a, NEW e, NEW L, Ready(t, a, e, L),
           SoleState(t, e)
    PROVE  LET g == after(a, e) IN
           SoleState(t, g) /\ (selected(a) => g.phase = e.phase)
<1> DEFINE g == after(a, e)
<1>0. Sound(e, L) /\ e \in Coordinator /\ FrameOf(t, a) /\ a \in Frame
  BY DEF Ready, Sound, Typed, FrameOf
<1>1. CASE a.op = "open" /\ a.result = "yes" /\ ~a.err /\ ~e.fault
  <2>1. g = [e EXCEPT !.timer = "window"]
    BY <1>1 DEF after
  <2>2. Minor(e, g)
    BY <1>0, <2>1, MinorChanges
  <2> HIDE DEF g
  <2> QED BY <2>2 DEF Minor, SoleState, g
<1>2. CASE a.op = "finish" /\ a.result # "late"
  <2>1. g = AfterConfirmation(e, a.ski, a.conn, a.result, a.flag)
    BY <1>2 DEF after
  <2>2. /\ a.ski \in SKIs /\ a.conn \in Nat /\ a.flag \in BOOLEAN
        /\ <<a.ski, a.conn>> \in L
        /\ e.phase \notin {"Committing", "TransientTrusted"}
    BY <1>0, <1>2, BoundAssumption DEF Ready, FrameOf, withPeer, Frame
  <2> HIDE DEF g
  <2>3. /\ g.phase = e.phase /\ g.attached = e.attached
        /\ g.recovery = e.recovery /\ g.trusted = e.trusted
    BY <1>0, <2>1, <2>2, AfterConfirmationKeeps
  <2>4. SoleState(t, g)
    BY <2>2, <2>3 DEF SoleState
  <2> QED BY <2>3, <2>4 DEF g
<1>3. CASE a.op = "shutdown"
  <2>1. g = AfterShutdown(e)
    BY <1>3 DEF after
  <2> HIDE DEF g
  <2>2. g.phase = "Disabled" /\ ~g.attached
    BY <1>0, <2>1, AfterShutdownKeeps
  <2>3. SoleState(t, g)
    BY <2>2 DEF SoleState, busy
  <2>4. ~selected(a)
    BY <1>3 DEF selected
  <2> QED BY <2>3, <2>4 DEF g
<1>4. CASE /\ ~(a.op = "open" /\ a.result = "yes" /\ ~a.err /\ ~e.fault)
           /\ ~(a.op = "finish" /\ a.result # "late")
           /\ a.op # "shutdown"
  <2>1. g = e
    BY <1>4 DEF after
  <2> QED BY <2>1
<1> QED BY <1>1, <1>2, <1>3, <1>4

\* Where c and the publications are left alone, and the thread does not
\* settle one.
LEMMA SoleMove ==
    ASSUME SoleInv, NEW t \in Threads, c' = c, durable' = durable,
           \A u \in Threads \ {t} : pc'[u] = pc[u],
           queuesIn(pc'[t]) => queuesIn(pc[t]), pc[t].at # "enter"
    PROVE  SoleInv'
<1>1. \A u \in Threads : queuesIn(pc'[u]) => queuesIn(pc[u])
  OBVIOUS
<1>2. \A b : \A u \in Threads : settles(pc[u], b) => settles(pc'[u], b)
  BY DEF settles
<1> QED BY <1>1, <1>2 DEF SoleInv

LEMMA SoleAlone ==
    ASSUME SoleInv, Ordinary(c, c'), pc' = pc, durable' = durable
    PROVE  SoleInv'
  BY DEF SoleInv, Ordinary, Orderly, busy

LEMMA SoleReleased ==
    ASSUME PairingInv, NEW t \in Threads, NEW r, NEW e,
           Sound(e, confirmed'), confirmed \subseteq confirmed', Released(e),
           SoleState(t, e), queuesIn(r) => e.phase \notin busy,
           pc' = [pc EXCEPT ![t] = r], durable' = durable
    PROVE  SoleInv'
<1>1. queue \in Seq(Effects) /\ backed(queue, confirmed')
  BY BackedMore DEF PairingInv, TypeOK
<1>2. /\ c'.phase = e.phase /\ c'.attached = e.attached
      /\ c'.recovery = e.recovery /\ c'.trusted = e.trusted
      /\ c'.cand = e.cand
  BY <1>1, ReleasedKeeps
<1> QED BY <1>2, SoleStep

LEMMA SoleLeave ==
    ASSUME PairingInv, SoleInv, NEW t \in Threads, NEW a, NEW e,
           Ready(t, a, e, confirmed'), confirmed \subseteq confirmed',
           AskOrLeave(t, a, e), SoleState(t, e),
           selected(a) => e.phase \notin busy, durable' = durable
    PROVE  SoleInv'
<1>0. FrameOf(t, a) /\ a.at = "enter" /\ a \in Frame /\ Sound(e, confirmed')
  BY DEF Ready, FrameOf
<1>1. CASE e.ask # "none"
  <2> DEFINE r == [a EXCEPT !.at = "ask", !.asked = e.ask]
  <2>1. Ask(t, a, e)
    BY <1>1 DEF AskOrLeave
  <2>2. Released(e) /\ pc' = [pc EXCEPT ![t] = r]
    BY <2>1 DEF Ask, Released
  <2>3. r.at = "ask" /\ r.op = a.op
    BY <1>0 DEF Frame
  <2>4. a.op # "queued"
    BY <1>1 DEF Ready
  <2> HIDE DEF r
  <2>5. ~queuesIn(r)
    BY <2>3, <2>4 DEF queuesIn
  <2> QED BY <1>0, <2>2, <2>5, SoleReleased
<1>2. CASE e.ask = "none" /\ nilWindow(a, e)
  <2>1. c' = c /\ pc' = pc
    BY <1>2 DEF AskOrLeave, Leave
  <2> QED BY <2>1 DEF SoleInv
<1>3. CASE e.ask = "none" /\ ~nilWindow(a, e)
  <2> DEFINE g == after(a, e)
             r == next(a)
  <2>1. Unlock(t, g, r)
    BY <1>3 DEF AskOrLeave, Leave
  <2>2. Sound(g, confirmed') /\ g.ask = "none"
    BY <1>3, AfterKeeps
  <2>3. SoleState(t, g) /\ (selected(a) => g.phase = e.phase)
    BY SoleAfter
  <2>4. queuesIn(r) => selected(a)
    BY <1>0, NextPlace DEF Ready, selected
  <2> HIDE DEF g, r
  <2>5. Released(g) /\ pc' = [pc EXCEPT ![t] = r]
    BY <2>1, <2>2 DEF Unlock, Released
  <2> QED BY <2>2, <2>3, <2>4, <2>5, SoleReleased
<1> QED BY <1>1, <1>2, <1>3

LEMMA SoleRun ==
    ASSUME OneOperator, PairingInv, SoleInv, NEW t \in Threads, NEW q, NEW d,
           Running(t, q, d), Run(t, q, d), durable' = durable,
           q.op = "finish" \/ \A b : ~settles(pc[t], b),
           q.op = "finish" => \A b : settles(pc[t], b) => settles(q, b)
    PROVE  SoleInv'
<1> DEFINE e == section(q, d)
           a == answered([q EXCEPT !.body = FALSE], d, e)
<1>1. /\ AskOrLeave(t, a, e)
      /\ confirmed' = IF q.op = "confirm" /\ confirms(d, q.ski, q.conn)
                      THEN confirmed \cup {<<q.ski, q.conn>>} ELSE confirmed
  BY DEF Run, Apply
<1>2. /\ confirmed \subseteq confirmed'
      /\ q.op = "confirm" /\ confirms(d, q.ski, q.conn) =>
           <<q.ski, q.conn>> \in confirmed'
  BY <1>1
<1>3. Ready(t, a, e, confirmed')
  BY <1>2, RunReady
<1>4. /\ SoleState(t, e)
      /\ q.op = "select" /\ selects(d, q.ski) => e.phase \notin busy
  BY <1>2, SoleSection
<1>5. selected(a) => q.op = "select" /\ selects(d, q.ski)
  BY ReadyFrame DEF Running, Sound, Typed
<1> HIDE DEF a, e
<1> QED BY <1>1, <1>2, <1>3, <1>4, <1>5, SoleLeave

LEMMA SoleLock ==
    ASSUME OneOperator, PairingInv, SoleInv, NEW t \in Threads, NEW q,
           FrameOf(t, q), q.at = "enter",
           commitsIn(q) => commitsIn(pc[t]) /\ CommitOf(q, c, confirmed, durable),
           queuesIn(q) => queuesIn(pc[t]), Lock(t, q),
           q.op = "finish" \/ \A b : ~settles(pc[t], b),
           q.op = "finish" => \A b : settles(pc[t], b) => settles(q, b)
    PROVE  SoleInv'
<1> DEFINE d == IF expires(q.op) THEN expireLocked(c) ELSE c
<1>0. Sound(c, confirmed) /\ c.ask = "none" /\ q \in Frame
  BY DEF PairingInv, TypeOK, FrameOf
<1>1. Sound(d, confirmed) /\ Ordinary(c, d)
  BY <1>0, ExpireKeeps, OrdinarySelf
<1>2. ~expires(q.op) => d.ask = "none"
  BY <1>0
<1>3. AskOrRun(t, q, d)
  BY DEF Lock
<1> HIDE DEF d
<1>4. CASE d.ask = "none"
  <2>1. Run(t, q, d) /\ durable' = durable
    BY <1>3, <1>4 DEF AskOrRun
  <2>2. Running(t, q, d)
    BY <1>1, <1>4 DEF Running
  <2> QED BY <2>1, <2>2, SoleRun
<1>5. CASE d.ask # "none"
  <2> DEFINE p == [q EXCEPT !.body = TRUE]
             r == [p EXCEPT !.at = "ask", !.asked = d.ask]
  <2>1. Ask(t, p, d) /\ UNCHANGED <<confirmed, durable>>
    BY <1>3, <1>5 DEF AskOrRun, history
  <2>2. Released(d) /\ pc' = [pc EXCEPT ![t] = r]
    BY <2>1 DEF Ask, Released
  <2>3. r.at = "ask" /\ r.op = q.op
    BY <1>0 DEF Frame
  <2> HIDE DEF p, r
  <2>4. r.op \notin {"queued", "finish"}
    BY <1>2, <1>5, <2>3 DEF expires
  <2>5. ~queuesIn(r)
    BY <2>3, <2>4 DEF queuesIn
  <2>6. SoleState(t, d)
    BY <1>1, <2>3, <2>4, SoleOrderly DEF Ordinary
  <2> QED BY <1>1, <2>1, <2>2, <2>5, <2>6, SoleReleased
<1> QED BY <1>4, <1>5

\* A call, a callback or the timer of a thread that does nothing yet.
LEMMA SoleCall ==
    ASSUME OneOperator, PairingInv, SoleInv, NEW t \in Threads, NEW q,
           pc[t] = Idle, Place(t, q), q.at = "enter", Lock(t, q)
    PROVE  SoleInv'
<1>1. \A b : ~settles(pc[t], b)
  BY IdleFrame DEF settles
<1>2. FrameOf(t, q) /\ ~commitsIn(q) /\ ~queuesIn(q) /\ q.op # "finish"
  BY DEF Place, commitsIn, commits
<1> QED BY <1>1, <1>2, SoleLock

LEMMA SoleThread ==
    ASSUME OneOperator, PairingInv, SoleInv, NEW t \in Threads,
           Enter(t) \/ SetWaiting(t) \/ WaitingSet(t) \/ PrepareFails(t)
    PROVE  SoleInv'
<1>0. pc[t] \in Frame /\ FrameOf(t, pc[t]) /\ pc \in [Threads -> Frame]
  BY FrameAt DEF PairingInv, TypeOK
<1>1. CASE Enter(t)
  <2>1. /\ Lock(t, pc[t]) /\ pc[t].at = "enter"
        /\ pc[t].op = "finish" \/ \A b : ~settles(pc[t], b)
    BY <1>1 DEF Enter, settles
  <2> QED BY <1>0, <2>1, FrameAt, SoleLock
<1>2. CASE SetWaiting(t)
  <2>1. /\ pc[t].at = "ask" /\ c' = c /\ durable' = durable
        /\ \A u \in Threads \ {t} : pc'[u] = pc[u]
    BY <1>0, <1>2 DEF SetWaiting, history
  <2>2. pc'[t].at = "asked" /\ pc'[t].op = pc[t].op
    <3>1. ASSUME NEW b, pc' = [pc EXCEPT ![t].at = "asked", ![t].err = b]
          PROVE  pc'[t].at = "asked" /\ pc'[t].op = pc[t].op
      BY <1>0, <3>1 DEF Frame
    <3> QED BY <1>2, <3>1 DEF SetWaiting
  <2> QED BY <2>1, <2>2, SoleMove DEF queuesIn
<1>3. CASE WaitingSet(t)
  <2> DEFINE q == pc[t]
             d == waitingSet(c, q.asked = "on", q.err)
             r == [q EXCEPT !.at = "enter", !.asked = "none"]
             p == [r EXCEPT !.err = FALSE]
  <2>0. /\ q.at = "asked" /\ \A b : ~settles(q, b)
        /\ q.body => Run(t, p, d) /\ durable' = durable
        /\ ~q.body => /\ Leave(t, r, d)
                      /\ confirmed' = confirmed /\ durable' = durable
    BY <1>3 DEF WaitingSet, history, settles
  <2>1. Sound(d, confirmed) /\ Ordinary(c, d) /\ d.ask = "none"
    <3>1. q.err \in BOOLEAN /\ (q.asked = "on") \in BOOLEAN
      BY <1>0 DEF Frame
    <3>2. Sound(c, confirmed) /\ c.ask = "none"
      BY DEF PairingInv, TypeOK
    <3> QED BY <3>1, <3>2, WaitingSetKeeps
  <2>2. /\ p \in Frame /\ p.at = "enter" /\ p.op = q.op /\ p.ski = q.ski
        /\ p.conn = q.conn /\ p.kind = q.kind /\ p.saved = q.saved
    BY <1>0 DEF Frame
  <2>3. CASE q.body
    <3> HIDE DEF d, p
    <3>1. expires(p.op)
      BY <1>0, <2>0, <2>2, <2>3 DEF FrameOf, waiting
    <3>2. ~commitsIn(p) /\ ~queuesIn(p) /\ p.op # "finish"
      BY <2>2, <3>1 DEF expires, commitsIn, queuesIn, commits
    <3>3. FrameOf(t, p)
      <4>1. q.op \notin {"publish", "queued"}
        BY <1>0, <2>0 DEF FrameOf
      <4> QED BY <1>0, <2>2, <4>1 DEF FrameOf, waiting, onPeer
    <3>4. Running(t, p, d)
      BY <2>1, <2>2, <3>2, <3>3 DEF Running
    <3> QED BY <2>0, <2>3, <3>2, <3>4, SoleRun
  <2>4. CASE ~q.body
    <3>1. Ready(t, r, d, confirmed) /\ ~selected(r)
      BY <2>0, <2>4, WaitingReady
    <3> HIDE DEF d, r
    <3>2. SoleState(t, d)
      BY <2>0, <2>1, SoleOrderly DEF Ordinary
    <3>3. AskOrLeave(t, r, d) /\ confirmed' = confirmed /\ durable' = durable
      BY <2>0, <2>1, <2>4 DEF AskOrLeave
    <3> QED BY <3>1, <3>2, <3>3, SoleLeave
  <2> QED BY <2>3, <2>4
<1>4. CASE PrepareFails(t)
  <2> DEFINE q == [pc[t] EXCEPT !.op = "finish", !.result = "unchanged"]
  <2>0. pc[t].at = "enter" /\ pc[t].op = "publish" /\ Lock(t, q)
    BY <1>4 DEF PrepareFails
  <2>1. /\ commitsIn(pc[t]) /\ CommitOf(pc[t], c, confirmed, durable)
        /\ \A b : ~settles(pc[t], b)
    BY <2>0, FrameAt DEF commitsIn, commits, settles
  <2>2. /\ q \in Frame /\ q.at = "enter" /\ q.op = "finish"
        /\ q.ski = pc[t].ski /\ q.conn = pc[t].conn /\ q.result = "unchanged"
    BY <1>0, <2>0 DEF Frame, Ops, Results
  <2> HIDE DEF q
  <2>3. q.ski \in SKIs
    BY <1>0, <2>0, <2>2 DEF FrameOf, withPeer
  <2>4. FrameOf(t, q) /\ ~queuesIn(q)
    BY <2>2, <2>3 DEF FrameOf, waiting, onPeer, queuesIn
  <2>5. CommitOf(q, c, confirmed, durable)
    BY <2>0, <2>1, <2>2 DEF CommitOf, waiting
  <2> QED BY <2>0, <2>1, <2>2, <2>4, <2>5, SoleLock
<1> QED BY <1>1, <1>2, <1>3, <1>4

\* What is published is trusted once its own thread has settled it.
LEMMA SolePublish ==
    ASSUME PairingInv, SoleInv, NEW t \in Threads, Publish(t)
    PROVE  SoleInv'
<1> DEFINE q == pc[t]
           k == <<q.ski, q.conn>>
<1>0. /\ q \in Frame /\ pc \in [Threads -> Frame] /\ q.at = "publishing"
      /\ c' = c /\ q.op = "publish"
  BY FrameAt DEF Publish, PairingInv, TypeOK, FrameOf
<1>1. PICK outcome \in {"durable", "unknown", "unchanged"} :
        /\ pc' = [pc EXCEPT ![t].at = "enter", ![t].op = "finish",
                            ![t].result = outcome]
        /\ durable' \in {durable, durable \cup {k}}
        /\ outcome = "unchanged" => durable' = durable
  BY DEF Publish
<1>2. /\ pc'[t].at = "enter" /\ pc'[t].op = "finish"
      /\ pc'[t].result = outcome /\ <<pc'[t].ski, pc'[t].conn>> = k
  BY <1>0, <1>1 DEF Frame
<1>3. \A u \in Threads \ {t} : pc'[u] = pc[u]
  BY <1>0, <1>1
<1>4. \A u \in Threads : queuesIn(pc'[u]) => queuesIn(pc[u])
  BY <1>2, <1>3 DEF queuesIn
<1>5. \A b : \A u \in Threads : settles(pc[u], b) => settles(pc'[u], b)
  BY <1>0, <1>3 DEF settles
<1>6. ASSUME NEW b \in durable', b \notin durable
      PROVE  settles(pc'[t], b)
  BY <1>1, <1>2, <1>6 DEF settles
<1> QED BY <1>0, <1>4, <1>5, <1>6 DEF SoleInv

\* A step of one of the service's threads outside the mutex.
Elsewhere(t) ==
    /\ c' = c /\ durable' = durable
    /\ \A u \in Threads \ {t} : pc'[u] = pc[u]
    /\ pc[t].at # "enter"

LEMMA SoleElsewhere ==
    ASSUME SoleInv, PairingInv', NEW t \in {Callback, Bridge, Drain},
           Elsewhere(t)
    PROVE  SoleInv'
<1>1. t \in Threads /\ t \notin Operators
  BY OperatorsAssumption DEF Threads
<1>2. ~queuesIn(pc'[t])
  BY <1>1 DEF PairingInv, FramesInv, FrameOf, queuesIn
<1> QED BY <1>1, <1>2, SoleMove DEF Elsewhere

LEMMA GoesElsewhere ==
    ASSUME PairingInv, NEW t \in {Callback, Bridge, Drain}, NEW r, goto(t, r),
           c' = c, durable' = durable, pc[t].at # "enter"
    PROVE  Elsewhere(t)
  BY DEF Elsewhere, goto, PairingInv, TypeOK

LEMMA OnConnectionElsewhere ==
    ASSUME PairingInv, NEW q, onConnection(q), pc[Callback].at # "enter"
    PROVE  Elsewhere(Callback)
<1>1. c' = c /\ durable' = durable /\ \E r : goto(Callback, r)
  BY DEF onConnection, quiet, history
<1> QED BY <1>1, GoesElsewhere

LEMMA CallbackElsewhere ==
    ASSUME PairingInv,
           \/ NewConnection \/ AttemptBegun \/ ContinueCallback \/ Discard
           \/ Bound \/ FailureHandled
    PROVE  Elsewhere(Callback)
<1>1. CASE ContinueCallback
  BY <1>1, OnConnectionElsewhere DEF ContinueCallback
<1>2. CASE NewConnection
  <2>1. /\ pc[Callback].at = "new" /\ quiet
        /\ \E r : goto(Callback, r)
    BY <1>2 DEF NewConnection
  <2> QED BY <2>1, GoesElsewhere DEF quiet, history
<1>3. CASE AttemptBegun
  <2>1. pc[Callback].at = "begun" /\ quiet /\ \E r : goto(Callback, r)
    BY <1>3 DEF AttemptBegun
  <2> QED BY <2>1, GoesElsewhere DEF quiet, history
<1>4. CASE Discard
  <2>1. pc[Callback].at = "discard" /\ quiet /\ \E r : goto(Callback, r)
    BY <1>4 DEF Discard
  <2> QED BY <2>1, GoesElsewhere DEF quiet, history
<1>5. CASE Bound
  <2>1. pc[Callback].at = "bound" /\ quiet /\ \E r : goto(Callback, r)
    BY <1>5 DEF Bound
  <2> QED BY <2>1, GoesElsewhere DEF quiet, history
<1>6. CASE FailureHandled
  <2>1. pc[Callback].at = "failing" /\ quiet /\ \E r : goto(Callback, r)
    BY <1>6 DEF FailureHandled
  <2> QED BY <2>1, GoesElsewhere DEF quiet, history
<1> QED BY <1>1, <1>2, <1>3, <1>4, <1>5, <1>6

LEMMA FreeElsewhere ==
    ASSUME PairingInv, NEW s \in SKIs,
           \/ Failed(s) \/ Disconnected(s) \/ Terminated(s)
           \/ \E completed \in BOOLEAN : Succeeded(s, completed)
    PROVE  \/ Elsewhere(Callback) \/ Elsewhere(Bridge)
           \/ c' = c /\ durable' = durable /\ pc' = pc
<1>0. Idle.at = "idle"
  BY IdleFrame
<1>1. CASE Failed(s)
  <2>1. pc[Callback] = Idle /\ quiet /\ \E r : goto(Callback, r)
    BY <1>1 DEF Failed, callbackMuFree
  <2> QED BY <1>0, <2>1, GoesElsewhere DEF quiet, history
<1>2. CASE Disconnected(s)
  <2>1. /\ quiet
        /\ \/ pc' = pc
           \/ pc[Callback] = Idle /\ \E r : goto(Callback, r)
    BY <1>2 DEF Disconnected, callbackMuFree
  <2> QED BY <1>0, <2>1, GoesElsewhere DEF quiet, history
<1>3. CASE Terminated(s)
  <2>1. pc[Bridge] = Idle /\ quiet /\ \E r : goto(Bridge, r)
    BY <1>3 DEF Terminated
  <2> QED BY <1>0, <2>1, GoesElsewhere DEF quiet, history
<1>4. ASSUME NEW completed \in BOOLEAN, Succeeded(s, completed)
      PROVE  Elsewhere(Callback)
  <2>1. pc[Callback] = Idle /\ quiet /\ \E r : goto(Callback, r)
    BY <1>4 DEF Succeeded, callbackMuFree
  <2> QED BY <1>0, <2>1, GoesElsewhere DEF quiet, history
<1> QED BY <1>1, <1>2, <1>3, <1>4

LEMMA SoleCallback ==
    ASSUME OneOperator, PairingInv, SoleInv, PairingInv', CallbackStep
    PROVE  SoleInv'
<1>0. Callback \in Threads /\ f \in F!Facade /\ 0 \in 0..MaxConnections
  BY BoundAssumption DEF PairingInv, TypeOK, Threads
<1>1. ASSUME NEW s \in SKIs, NEW kind \in callbackKinds, Attempt(kind, s)
      PROVE  SoleInv'
  <2>1. pc[Callback] = Idle /\ Idle.at = "idle"
    BY <1>1, IdleFrame DEF Attempt, callbackMuFree
  <2>2. CASE F!known(f, s)
    <3>1. onConnection([Idle EXCEPT !.kind = kind, !.ski = s])
      BY <1>1, <2>2 DEF Attempt
    <3> QED BY <2>1, <3>1, OnConnectionElsewhere, SoleElsewhere
  <2>3. CASE ~F!known(f, s)
    <3> DEFINE op == "authorize"
               n == 0
               q == [call(op, s, n) EXCEPT !.kind = kind]
    <3>1. /\ op \in withPeer \ {"publish", "finish", "queued", "select",
                                "confirm"}
          /\ kind \in Kinds \ {"terminated"} /\ n \in 0..MaxConnections
      BY <1>0 DEF withPeer, callbackKinds, Kinds
    <3>2. Lock(Callback, q)
      BY <1>1, <2>3 DEF Attempt
    <3> HIDE DEF op, n
    <3>3. Place(Callback, q) /\ q.at = "enter"
      BY <3>1, KindPlace
    <3> HIDE DEF q
    <3> QED BY <1>0, <2>1, <3>2, <3>3, SoleCall
  <2> QED BY <2>2, <2>3
<1>2. ASSUME NEW s \in SKIs, OutgoingAttemptTLSBound(s)
      PROVE  SoleInv'
  <2> DEFINE op == "bind"
             kind == "bound"
             n == f.connections[s].generation
             q == [call(op, s, n) EXCEPT !.kind = kind]
  <2>1. pc[Callback] = Idle /\ Lock(Callback, q) /\ F!known(f, s)
    BY <1>2 DEF OutgoingAttemptTLSBound, callbackMuFree
  <2>2. /\ op \in withPeer \ {"publish", "finish", "queued", "select",
                              "confirm"}
        /\ kind \in Kinds \ {"terminated"}
    BY DEF withPeer, Kinds
  <2>3. n \in 0..MaxConnections
    BY <1>0, <2>1, KnownType, BoundAssumption
  <2> HIDE DEF op, kind, n
  <2>4. Place(Callback, q)
    BY <2>2, <2>3, KindPlace
  <2>5. q.at = "enter"
    <3> DEFINE p == call(op, s, n)
    <3>1. op \in Ops
      BY <2>2 DEF withPeer, Ops
    <3>2. p \in Frame /\ p.at = "enter"
      BY <2>3, <3>1, CallFields
    <3> HIDE DEF p
    <3>3. [p EXCEPT !.kind = kind].at = "enter"
      BY <3>2 DEF Frame
    <3> QED BY <3>3 DEF p
  <2> HIDE DEF q
  <2> QED BY <1>0, <2>1, <2>4, <2>5, SoleCall
<1>3. ASSUME NEW s \in SKIs,
             \/ Failed(s) \/ Disconnected(s) \/ Terminated(s)
             \/ \E completed \in BOOLEAN : Succeeded(s, completed)
      PROVE  SoleInv'
  <2>1. CASE c' = c /\ durable' = durable /\ pc' = pc
    BY <2>1 DEF SoleInv
  <2> QED BY <1>3, <2>1, FreeElsewhere, SoleElsewhere
<1>4. CASE \/ NewConnection \/ AttemptBegun \/ ContinueCallback \/ Discard
           \/ Bound \/ FailureHandled
  BY <1>4, CallbackElsewhere, SoleElsewhere
<1>5. CASE Restore
  <2>1. pc[Bridge].at = "restore" /\ quiet /\ \E r : goto(Bridge, r)
    BY <1>5 DEF Restore
  <2>2. Elsewhere(Bridge)
    BY <2>1, GoesElsewhere DEF quiet, history
  <2> QED BY <2>2, SoleElsewhere
<1> QED BY <1>1, <1>2, <1>3, <1>4, <1>5 DEF CallbackStep, callbackKinds

LEMMA SoleOperator ==
    ASSUME OneOperator, PairingInv, SoleInv, NEW t \in Operators,
           OperatorStep(t)
    PROVE  SoleInv'
<1>0. t \in Threads /\ 0 \in 0..MaxConnections /\ pc \in [Threads -> Frame]
  BY BoundAssumption DEF Threads, PairingInv, TypeOK
<1>1. ASSUME NEW n \in 1..f.next
      PROVE  n \in 1..MaxConnections /\ n \in 0..MaxConnections
  BY BoundAssumption DEF PairingInv, TypeOK, F!Facade
<1>2. CASE Open(t)
  BY <1>0, <1>2, AdminPlace, SoleCall DEF Open, Call
<1>3. CASE Close(t)
  BY <1>0, <1>3, AdminPlace, SoleCall DEF Close, Call
<1>4. CASE Status(t)
  BY <1>0, <1>4, AdminPlace, SoleCall DEF Status, Call
<1>5. CASE Queued(t)
  <2>1. /\ pc[t].at = "queue" /\ c' = c /\ durable' = durable
        /\ \A u \in Threads \ {t} : pc'[u] = pc[u]
    BY <1>0, <1>5 DEF Queued, history
  <2> QED BY <1>0, <2>1, SoleMove DEF queuesIn
<1>6. ASSUME NEW s \in SKIs, Select(t, s)
      PROVE  SoleInv'
  BY <1>0, <1>6, OperatorPlace, SoleCall DEF Select, Call
<1>7. ASSUME NEW s \in SKIs, NEW n \in 1..f.next, Confirm(t, s, n)
      PROVE  SoleInv'
  BY <1>0, <1>1, <1>7, OperatorPlace, SoleCall DEF Confirm, Call
<1>8. ASSUME NEW n \in 1..f.next, Cancel(t, n)
      PROVE  SoleInv'
  BY <1>0, <1>1, <1>8, AdminPlace, SoleCall DEF Cancel, Call
<1> QED BY <1>2, <1>3, <1>4, <1>5, <1>6, <1>7, <1>8 DEF OperatorStep

LEMMA SoleEffects ==
    ASSUME PairingInv, SoleInv, PairingInv', Effect \/ Registered \/ Drained
    PROVE  SoleInv'
<1>1. CASE Effect
  <2>1. /\ pc[Drain] = Idle /\ c' = c /\ durable' = durable
        /\ \E r : goto(Drain, r)
    BY <1>1 DEF Effect, history
  <2>2. Elsewhere(Drain)
    BY <2>1, IdleFrame, GoesElsewhere
  <2> QED BY <2>2, SoleElsewhere
<1>2. CASE Registered
  <2>1. /\ pc[Drain].at = "registering" /\ c' = c /\ durable' = durable
        /\ \E r : goto(Drain, r)
    BY <1>2 DEF Registered, history
  <2>2. Elsewhere(Drain)
    BY <2>1, GoesElsewhere
  <2> QED BY <2>2, SoleElsewhere
<1>3. CASE Drained
  BY <1>3 DEF Drained, history, SoleInv
<1> QED BY <1>1, <1>2, <1>3

LEMMA SoleClock ==
    ASSUME PairingInv, SoleInv, Due \/ ControlPublished
    PROVE  SoleInv'
<1>0. c \in Coordinator /\ Sound(c, confirmed)
  BY DEF PairingInv, TypeOK
<1>1. pc' = pc /\ durable' = durable
  BY DEF Due, ControlPublished, history
<1>2. CASE c.cand # NoCandidate /\ c' = [c EXCEPT !.cand.due = TRUE]
  <2>1. c.cand \in Candidate
    BY <1>0, <1>2 DEF Coordinator
  <2>2. Noted(c, c')
    BY <1>0, <1>2, <2>1
    DEF Noted, Quiet, SelKept, queueing, Coordinator, Candidate
  <2> QED BY <1>0, <1>1, <1>2, <2>2, NotedSound, SoleAlone
<1>3. CASE c' = [c EXCEPT !.window = "due"]
  <2>1. Ordinary(c, c')
    BY <1>0, <1>3 DEF Ordinary, Orderly, SelKept, queueing, Coordinator
  <2> QED BY <1>1, <2>1, SoleAlone
<1>4. CASE ControlPublished
  <2>1. Minor(c, c')
    BY <1>0, <1>4, MinorChanges DEF ControlPublished
  <2> QED BY <1>0, <1>1, <2>1, MinorKeeps, SoleAlone
<1> QED BY <1>2, <1>3, <1>4 DEF Due

LEMMA SoleRuntime ==
    ASSUME OneOperator, PairingInv, SoleInv,
           Timer \/ TimerOfLostCandidate \/ Shutdown
    PROVE  SoleInv'
<1>0. /\ Runtime \in Threads /\ 0 \in 0..MaxConnections /\ pc[Runtime] = Idle
      /\ c \in Coordinator /\ Sound(c, confirmed)
  BY BoundAssumption
  DEF Threads, Timer, TimerOfLostCandidate, Shutdown, PairingInv, TypeOK
<1>1. /\ Place(Runtime, call("timer", NoSKI, 0))
      /\ call("timer", NoSKI, 0).at = "enter"
      /\ Place(Runtime, call("shutdown", NoSKI, 0))
      /\ call("shutdown", NoSKI, 0).at = "enter"
  BY <1>0, AdminPlace
<1>2. CASE \/ Lock(Runtime, call("timer", NoSKI, 0))
           \/ Lock(Runtime, call("shutdown", NoSKI, 0))
  BY <1>0, <1>1, <1>2, SoleCall
<1>3. CASE c' = [c EXCEPT !.timer = "none"] /\ pc' = pc /\ durable' = durable
  <2>1. Minor(c, c')
    BY <1>0, <1>3, MinorChanges
  <2> QED BY <1>0, <1>3, <2>1, MinorKeeps, SoleAlone
<1> QED BY <1>2, <1>3 DEF Timer, TimerOfLostCandidate, Shutdown, history

LEMMA SoleDiscovered ==
    ASSUME PairingInv, SoleInv, NEW seen \in SUBSET SKIs, Discovered(seen)
    PROVE  SoleInv'
<1> DEFINE e == visiblePairingCandidatesUpdated(c, seen)
<1>0. /\ Runtime \in Threads /\ Unlock(Runtime, e, Idle)
      /\ confirmed' = confirmed /\ durable' = durable /\ pc[Runtime] = Idle
      /\ Sound(c, confirmed) /\ c.ask = "none" /\ c \in Coordinator
  BY DEF Threads, Discovered, history, PairingInv, TypeOK
<1>1. Minor(c, e)
  BY <1>0, MinorChanges
<1> HIDE DEF e
<1>2. Sound(e, confirmed) /\ Ordinary(c, e) /\ e.ask = "none"
  BY <1>0, <1>1, MinorKeeps DEF Minor
<1>3. Released(e) /\ pc' = [pc EXCEPT ![Runtime] = Idle]
  BY <1>0, <1>2 DEF Unlock, Released
<1>4. ~queuesIn(Idle) /\ \A b : ~settles(pc[Runtime], b)
  BY <1>0, IdleFrame DEF settles
<1>5. SoleState(Runtime, e)
  BY <1>0, <1>2, <1>4, SoleOrderly DEF Ordinary
<1> QED BY <1>0, <1>2, <1>3, <1>4, <1>5, SoleReleased

LEMMA SoleNext ==
    ASSUME OneOperator, PairingInv, SoleInv, PairingInv', Next
    PROVE  SoleInv'
<1>0. Step
  BY DEF Next
<1>1. ASSUME NEW t \in Operators, OperatorStep(t)
      PROVE  SoleInv'
  BY <1>1, SoleOperator
<1>2. ASSUME NEW t \in Threads,
             \/ Enter(t) \/ SetWaiting(t) \/ WaitingSet(t) \/ PrepareFails(t)
             \/ Publish(t)
      PROVE  SoleInv'
  BY <1>2, SoleThread, SolePublish
<1>3. CASE CallbackStep
  BY <1>3, SoleCallback
<1>4. CASE \/ Effect \/ Registered \/ Drained \/ Due \/ ControlPublished
           \/ Timer \/ TimerOfLostCandidate \/ Shutdown
  BY <1>4, SoleEffects, SoleClock, SoleRuntime
<1>5. ASSUME NEW seen \in SUBSET SKIs, Discovered(seen)
      PROVE  SoleInv'
  BY <1>5, SoleDiscovered
<1> QED BY <1>0, <1>1, <1>2, <1>3, <1>4, <1>5 DEF Step

LEMMA SoleInit ==
    ASSUME Init
    PROVE  SoleInv
<1>1. pc = [t \in Threads |-> Idle] /\ durable = {}
  BY DEF Init
<1>2. c.phase = "PairingClosed"
  BY DEF Init, Closed
<1> QED BY <1>1, <1>2 DEF SoleInv, busy

\* With one operator, every association that was published is one the
\* coordinator trusts once its confirmation is settled, also when the commit
\* was completed by a callback or by the draining thread, and whatever the
\* selection and the queue calls of that operator did before it.  A second
\* operator's queue call may drop the candidate of the commit
\* (failCandidateQueueLocked), and then the peer is on disk and not trusted.
THEOREM PublishedIsTrusted ==
    ASSUME OneOperator
    PROVE  Spec => []DurableIsTrusted
<1> DEFINE IInv == PairingInv /\ SoleInv
<1>1. Init => IInv
  BY InitKeeps, SoleInit
<1>2. IInv /\ [Next]_<<vars, scenario>> => IInv'
  <2>1. ASSUME IInv, Next
        PROVE  IInv'
    BY <2>1, NextKeeps, SoleNext
  <2>2. ASSUME IInv, UNCHANGED <<vars, scenario>>
        PROVE  IInv'
    BY <2>2, StutterKeeps DEF vars, SoleInv
  <2> QED BY <2>1, <2>2
<1>3. IInv => DurableIsTrusted
  <2> SUFFICES ASSUME PairingInv, SoleInv, c.recovery = "PAIRED_TRUSTED",
                      ~c.inflight, c.attached, NEW b \in durable
               PROVE  b[1] \in c.trusted
    BY DEF DurableIsTrusted
  <2>1. \A t \in Threads : ~commitsIn(pc[t])
    BY DEF PairingInv, CommitInv, CommitOf
  <2>2. \A t \in Threads : ~settles(pc[t], b)
    BY <2>1 DEF settles, commitsIn, commits
  <2> QED BY <2>2 DEF SoleInv
<1> QED BY <1>1, <1>2, <1>3, PTL DEF Spec

-----------------------------------------------------------------------------
(* The pairing registration.  What the operations do to it.                 *)

\* The section leaves the coordinator's belief alone, and when it takes away
\* what the registration is for, it asks for it to be turned off.
Watched(d, e) ==
    /\ e.enabled = d.enabled /\ e.known = d.known /\ (d.fault => e.fault)
    /\ e.ask \in {d.ask, "off"}
    /\ e.enabled /\ ~e.fault /\ shown(d) => shown(e) \/ e.ask = "off"

\* The section turns the registration off, unless it is off.
TurnsOff(d, e) ==
    /\ e.enabled = d.enabled /\ e.known = d.known /\ (d.fault => e.fault)
    /\ e.ask \in {d.ask, "off"}
    /\ d.attached => e.fault \/ ~e.enabled \/ e.ask = "off"
    /\ ~d.attached => e.fault \/ shown(e) = shown(d)

LEMMA WatchedTrans ==
    ASSUME NEW d, NEW e, NEW g, Watched(d, e), Watched(e, g)
    PROVE  Watched(d, g)
  BY DEF Watched

LEMMA WatchedSelf ==
    ASSUME NEW d
    PROVE  Watched(d, d)
  BY DEF Watched

LEMMA QuietWatched ==
    ASSUME NEW d, NEW e, Quiet(d, e)
    PROVE  Watched(d, e)
  BY DEF Quiet, Watched, shown

LEMMA TurnsOffWatched ==
    ASSUME NEW d, NEW e, TurnsOff(d, e)
    PROVE  Watched(d, e)
  BY DEF TurnsOff, Watched

LEMMA FailWatched ==
    ASSUME NEW K, NEW d, Typed(d, K)
    PROVE  LET e == failPairingRegistrationLocked(d) IN
           /\ e.enabled = d.enabled /\ e.known = d.known
           /\ e.fault /\ e.ask = d.ask
<1> DEFINE g == dropCandidate(d, TRUE)
           h == [g EXCEPT !.phase = "Disabled", !.window = "none"]
           k == finishCandidateSelectionLocked(h, TRUE)
           e == failPairingRegistrationLocked(d)
<1>1. Typed(g, K) /\ Quiet(d, g)
  BY DropKeeps
<1>2. e = [k EXCEPT !.fault = TRUE, !.recovery = "QUARANTINED",
                    !.trusted = {}, !.timer = "none"]
  BY DEF failPairingRegistrationLocked
<1>3. /\ h \in Coordinator /\ h.cand = g.cand /\ h.pending = g.pending
      /\ h.enabled = g.enabled /\ h.known = g.known /\ h.ask = g.ask
  <2>0. g \in Coordinator
    BY <1>1 DEF Typed
  <2> HIDE DEF g
  <2>1. h.cand = g.cand /\ h.pending = g.pending
    BY <2>0 DEF Coordinator
  <2>2. h.enabled = g.enabled /\ h.known = g.known /\ h.ask = g.ask
    BY <2>0 DEF Coordinator
  <2>3. h \in Coordinator
    BY <2>0 DEF Coordinator, Phases
  <2> QED BY <2>1, <2>2, <2>3
<1> HIDE DEF g, h
<1>4. Typed(h, K)
  BY <1>1, <1>3 DEF Typed
<1>5. Typed(k, K) /\ Quiet(h, k)
  BY <1>4, FinishSelectionKeeps
<1> HIDE DEF k, e
<1>6. e.enabled = k.enabled /\ e.known = k.known /\ e.ask = k.ask /\ e.fault
  BY <1>2, <1>5 DEF Typed, Coordinator
<1> QED BY <1>1, <1>3, <1>5, <1>6 DEF Quiet, e

LEMMA SetWaitingWatched ==
    ASSUME NEW K, NEW d, Typed(d, K), d.known, NEW value \in BOOLEAN
    PROVE  LET e == setWaitingLocked(d, value) IN
           /\ e.enabled = d.enabled /\ e.known = d.known
           /\ d.fault => e.fault
           /\ ~e.fault => shown(e) = shown(d) /\ e.attached = d.attached
           /\ value => e.ask \in {d.ask, "on"}
           /\ ~value => TurnsOff(d, e)
<1> DEFINE e == setWaitingLocked(d, value)
<1>0. d \in Coordinator /\ d.enabled \in BOOLEAN
  BY DEF Typed, Coordinator
<1>1. CASE d.fault
  <2>1. e = failPairingRegistrationLocked(d)
    BY <1>1 DEF setWaitingLocked
  <2>2. e.enabled = d.enabled /\ e.known = d.known /\ e.fault /\ e.ask = d.ask
    BY <2>1, FailWatched
  <2> HIDE DEF e
  <2> QED BY <1>1, <2>2 DEF TurnsOff, e
<1>2. CASE ~d.fault /\ (~d.attached \/ d.enabled = value)
  <2>1. e = d
    BY <1>2 DEF setWaitingLocked
  <2> QED BY <1>2, <2>1 DEF TurnsOff
<1>3. CASE ~d.fault /\ d.attached /\ d.enabled # value
  <2>1. e = [d EXCEPT !.ask = IF value THEN "on" ELSE "off"]
    BY <1>3 DEF setWaitingLocked
  <2> HIDE DEF e
  <2>2. /\ e.enabled = d.enabled /\ e.known = d.known /\ e.fault = d.fault
        /\ e.ask = IF value THEN "on" ELSE "off"
        /\ e.phase = d.phase /\ e.window = d.window
        /\ e.attached = d.attached
    BY <1>0, <2>1 DEF Coordinator
  <2> QED BY <1>3, <2>2 DEF TurnsOff, shown, e
<1> QED BY <1>1, <1>2, <1>3

LEMMA CloseWindowWatched ==
    ASSUME NEW K, NEW d, Sound(d, K), d.known, NEW b \in BOOLEAN,
           d.phase \notin {"Disabled", "Committing"}
    PROVE  Watched(d, closeWindowLocked(d, b))
<1> DEFINE g == IF b THEN dropCandidate(d, TRUE) ELSE d
           h == IF b \/ d.cand = NoCandidate
                THEN finishCandidateSelectionLocked(g, TRUE) ELSE g
           k == [h EXCEPT !.window = "none", !.cand = NoCandidate,
                          !.phase = "PairingClosed", !.timer = "none"]
           e == setWaitingLocked(k, FALSE)
<1>0. Typed(d, K) /\ Quiet(d, d) /\ d.attached
  BY DEF Sound, Quiet, SelKept, PhasesOf
<1>1. Typed(g, K) /\ Quiet(d, g)
  <2>1. CASE b
    BY <1>0, <2>1, DropKeeps
  <2>2. CASE ~b
    BY <1>0, <2>2
  <2> QED BY <2>1, <2>2
<1> HIDE DEF g
<1>2. Typed(h, K) /\ Quiet(g, h)
  <2>1. CASE b \/ d.cand = NoCandidate
    BY <1>1, <2>1, FinishSelectionKeeps
  <2>2. CASE ~(b \/ d.cand = NoCandidate)
    BY <1>1, <2>2 DEF Quiet, SelKept
  <2> QED BY <2>1, <2>2
<1>3. closeWindowLocked(d, b) = e
  BY DEF closeWindowLocked, g
<1>4. h \in Coordinator
  BY <1>2 DEF Typed
<1> HIDE DEF h
<1>5. /\ k \in Coordinator /\ k.cand = NoCandidate /\ k.pending = h.pending
      /\ k.attached = h.attached /\ k.fault = h.fault
      /\ k.enabled = h.enabled /\ k.known = h.known /\ k.ask = h.ask
  BY <1>4 DEF Coordinator, Phases
<1> HIDE DEF k
<1>6. Typed(k, K)
  BY <1>2, <1>5 DEF Typed
<1>7. /\ k.enabled = d.enabled /\ k.known = d.known /\ k.ask = d.ask
      /\ k.fault = d.fault /\ k.attached
  BY <1>0, <1>1, <1>2, <1>5 DEF Quiet
<1>8. TurnsOff(k, e)
  BY <1>6, <1>7, SetWaitingWatched
<1> HIDE DEF e
<1>9. Watched(d, e)
  BY <1>7, <1>8 DEF Watched, TurnsOff
<1> QED BY <1>3, <1>9

LEMMA LoseCandidateWatched ==
    ASSUME NEW K, NEW d, Sound(d, K), d.known, NEW b \in BOOLEAN,
           d.phase \notin {"Disabled", "Committing"}
    PROVE  Watched(d, loseCandidate(d, b))
<1> DEFINE g == dropCandidate(d, b)
           h == finishCandidateSelectionLocked(g, TRUE)
           e == loseCandidate(d, b)
<1>1. Typed(g, K) /\ Quiet(d, g) /\ g.cand = NoCandidate
  BY DropKeeps DEF Sound
<1> HIDE DEF g
<1>2. Typed(h, K) /\ Quiet(g, h) /\ h.cand = NoCandidate
  BY <1>1, FinishSelectionKeeps
<1>3. e = windowWithoutCandidate(h)
  BY DEF loseCandidate, g
<1> HIDE DEF h, e
<1>4. Quiet(d, h) /\ h \in Coordinator
  BY <1>1, <1>2, QuietTrans DEF Typed
<1>5. Sound(h, K) /\ h.known /\ h.phase \notin {"Disabled", "Committing"}
  BY <1>2, <1>4, QuietPhases DEF Sound, Quiet
<1>6. Watched(d, h)
  BY <1>4, QuietWatched
<1>7. CASE h.window = "open"
  <2>1. e = [h EXCEPT !.phase = "OpenEmpty", !.timer = "window"]
    BY <1>3, <1>7 DEF windowWithoutCandidate
  <2>2. /\ e.window = "open" /\ e.enabled = h.enabled /\ e.known = h.known
        /\ e.fault = h.fault /\ e.ask = h.ask
    BY <1>4, <1>7, <2>1 DEF Coordinator
  <2>3. Watched(h, e)
    BY <2>2 DEF Watched, shown
  <2> QED BY <1>6, <2>3, WatchedTrans DEF e
<1>8. CASE h.window # "open"
  <2>1. e = closeWindowLocked(h, FALSE)
    BY <1>3, <1>8 DEF windowWithoutCandidate
  <2>2. Watched(h, e)
    BY <1>5, <2>1, CloseWindowWatched
  <2> QED BY <1>6, <2>2, WatchedTrans DEF e
<1> QED BY <1>7, <1>8

LEMMA ExpireWatched ==
    ASSUME NEW K, NEW d, Sound(d, K), d.known
    PROVE  Watched(d, expireLocked(d))
<1> DEFINE e == expireLocked(d)
<1>1. CASE /\ d.phase \in {"CandidatePending", "TransientTrusted"}
           /\ d.cand # NoCandidate /\ d.cand.due
  <2>1. e = loseCandidate(d, TRUE)
    BY <1>1 DEF expireLocked
  <2>2. d.phase \notin {"Disabled", "Committing"}
    BY <1>1
  <2> QED BY <2>1, <2>2, LoseCandidateWatched
<1>2. CASE /\ ~(/\ d.phase \in {"CandidatePending", "TransientTrusted"}
                /\ d.cand # NoCandidate /\ d.cand.due)
           /\ d.window = "due" /\ d.phase # "Committing"
  <2>1. e = closeWindowLocked(d, TRUE)
    BY <1>2 DEF expireLocked
  <2>2. d.phase \notin {"Disabled", "Committing"}
    BY <1>2 DEF Sound, PhasesOf
  <2> QED BY <2>1, <2>2, CloseWindowWatched
<1>3. CASE /\ ~(/\ d.phase \in {"CandidatePending", "TransientTrusted"}
                /\ d.cand # NoCandidate /\ d.cand.due)
           /\ ~(d.window = "due" /\ d.phase # "Committing")
  <2>1. e = d
    BY <1>3 DEF expireLocked
  <2> QED BY <2>1, WatchedSelf
<1> QED BY <1>1, <1>2, <1>3

LEMMA NotedWatched ==
    ASSUME NEW d, NEW g, Noted(d, g)
    PROVE  Watched(d, g)
  BY QuietWatched DEF Noted

LEMMA BeginCommitWatched ==
    ASSUME NEW K, NEW d, Sound(d, K), d.known
    PROVE  Watched(d, beginTransientCommitLocked(d))
<1> DEFINE e == beginTransientCommitLocked(d)
<1>0. d \in Coordinator
  BY DEF Sound, Typed
<1>1. CASE ~(/\ d.phase = "TransientTrusted" /\ d.cand.authorized
             /\ d.cand.registered /\ d.cand.ship /\ d.cand.completed)
  <2>1. e = d
    BY <1>1 DEF beginTransientCommitLocked
  <2> QED BY <2>1, WatchedSelf
<1>2. CASE /\ d.phase = "TransientTrusted" /\ d.cand.authorized
           /\ d.cand.registered /\ d.cand.ship /\ d.cand.completed
  <2>1. CASE d.generation # d.cand.generation
    <3>1. e = loseCandidate(d, TRUE)
      BY <1>2, <2>1 DEF beginTransientCommitLocked
    <3>2. d.phase \notin {"Disabled", "Committing"}
      BY <1>2
    <3> QED BY <3>1, <3>2, LoseCandidateWatched
  <2>2. CASE d.generation = d.cand.generation
    <3>1. e = startCommit(d)
      BY <1>2, <2>2 DEF beginTransientCommitLocked
    <3> HIDE DEF e
    <3>2. /\ e.phase = "Committing" /\ e.enabled = d.enabled
          /\ e.known = d.known /\ e.fault = d.fault /\ e.ask = d.ask
      BY <1>0, <3>1 DEF startCommit, Coordinator
    <3> QED BY <3>2 DEF Watched, shown, e
  <2> QED BY <2>1, <2>2
<1> QED BY <1>1, <1>2

LEMMA EvidenceWatched ==
    ASSUME NEW K, NEW d, Sound(d, K), d.known, NEW s, NEW n,
           NEW e \in {remoteSKIConnected(d, s, n),
                      serviceShipIDUpdate(d, s, n),
                      connectionCompleted(d, s, n),
                      completeTransientRegistration(d, s, n)}
    PROVE  Watched(d, e)
<1>0. ASSUME NEW g, Noted(d, g), d.cand # NoCandidate
      PROVE  /\ Watched(d, g)
             /\ Watched(d, beginTransientCommitLocked(g))
  <2>1. Watched(d, g) /\ Sound(g, K)
    BY <1>0, NotedWatched, NotedSound
  <2>2. g.known
    BY <2>1 DEF Watched
  <2> QED BY <2>1, <2>2, BeginCommitWatched, WatchedTrans
<1>1. CASE e = d
  BY <1>1, WatchedSelf
<1>2. CASE e # d
  <2>1. d.cand # NoCandidate
    BY <1>2 DEF remoteSKIConnected, serviceShipIDUpdate, connectionCompleted,
                completeTransientRegistration, binds, heard, sameCandidate
  <2>2. /\ Noted(d, [d EXCEPT !.cand.tls = TRUE])
        /\ Noted(d, [d EXCEPT !.cand.ship = TRUE])
        /\ Noted(d, [d EXCEPT !.cand.completed = TRUE])
        /\ Noted(d, [d EXCEPT !.cand.registered = TRUE])
    BY <2>1, Notes
  <2>3. \/ e = [d EXCEPT !.cand.tls = TRUE]
        \/ e = beginTransientCommitLocked([d EXCEPT !.cand.ship = TRUE])
        \/ e = beginTransientCommitLocked([d EXCEPT !.cand.completed = TRUE])
        \/ e = beginTransientCommitLocked([d EXCEPT !.cand.registered = TRUE])
    BY <1>2 DEF remoteSKIConnected, serviceShipIDUpdate, connectionCompleted,
                completeTransientRegistration
  <2> QED BY <1>0, <2>1, <2>2, <2>3
<1> QED BY <1>1, <1>2

LEMMA ConfirmWatched ==
    ASSUME NEW K, NEW d, Sound(d, K), NEW s \in SKIs, NEW n \in Nat,
           confirms(d, s, n)
    PROVE  Watched(d, confirm(d))
<1> DEFINE e == confirm(d)
           g == [d EXCEPT !.cand.authorized = TRUE,
                          !.cand.registered = FALSE,
                          !.phase = "TransientTrusted"]
           L == K \cup {<<s, n>>}
<1>0. d \in Coordinator /\ d.window # "none" /\ d.cand \in Candidate
  BY DEF confirms, Sound, PhasesOf, Typed, Coordinator, sameCandidate
<1>1. CASE ~d.selecting
  <2>1. e = startCommit(d)
    BY <1>1 DEF confirm
  <2> HIDE DEF e
  <2>2. /\ e.phase = "Committing" /\ e.enabled = d.enabled
        /\ e.known = d.known /\ e.fault = d.fault /\ e.ask = d.ask
    BY <1>0, <2>1 DEF startCommit, Coordinator
  <2> QED BY <2>2 DEF Watched, shown, e
<1>2. CASE d.selecting
  <2>1. /\ e = g \/ \E p : e = [g EXCEPT !.pending = p]
    BY <1>2 DEF confirm, effect
  <2>2. /\ g.enabled = d.enabled /\ g.known = d.known /\ g.fault = d.fault
        /\ g.ask = d.ask /\ g.window = d.window
    BY <1>0 DEF Coordinator
  <2>3. /\ e.enabled = g.enabled /\ e.known = g.known /\ e.fault = g.fault
        /\ e.ask = g.ask /\ e.window = g.window
    <3> HIDE DEF e
    <3> QED BY <1>0, <2>1 DEF Coordinator
  <2> HIDE DEF e, g
  <2> QED BY <1>0, <2>2, <2>3 DEF Watched, shown, e
<1> QED BY <1>1, <1>2

LEMMA QueuedWatched ==
    ASSUME NEW K, NEW d, Sound(d, K), d.sel # NoSelection, NEW ok, NEW b
    PROVE  Watched(d, candidateQueued(d, ok, b))
<1> DEFINE e == candidateQueued(d, ok, b)
           g == failCandidateQueueLocked(d)
           h == dropCandidate(d, TRUE)
<1>0. Typed(d, K) /\ d \in Coordinator
  BY DEF Sound, Typed
<1>1. CASE ok /\ ~b /\ ~d.sel.aborted
  <2>1. e = [d EXCEPT !.sel.completed = TRUE,
                      !.lifecycle[d.sel.ski] = IF @ = "absent" THEN @
                                               ELSE "consumed"]
    BY <1>1 DEF candidateQueued
  <2>2. /\ e.enabled = d.enabled /\ e.known = d.known /\ e.fault = d.fault
        /\ e.ask = d.ask /\ e.window = d.window /\ e.phase = d.phase
    <3> HIDE DEF e
    <3> QED BY <1>0, <2>1 DEF Coordinator
  <2> QED BY <2>2 DEF Watched, shown
<1>2. CASE ~(ok /\ ~b /\ ~d.sel.aborted)
  <2>1. g \in Coordinator
    BY FailQueueKeeps DEF Sound, Typed
  <2>2. e = [g EXCEPT !.lifecycle = [s \in SKIs |-> "absent"],
                      !.sel = NoSelection]
    BY <1>2, <2>1
    DEF candidateQueued, invalidateCandidateSnapshotLocked, Coordinator
  <2>3. /\ e.enabled = g.enabled /\ e.known = g.known /\ e.fault = g.fault
        /\ e.ask = g.ask /\ e.window = g.window /\ e.phase = g.phase
    <3> HIDE DEF e, g
    <3> QED BY <2>1, <2>2 DEF Coordinator
  <2>4. Watched(g, e)
    BY <2>3 DEF Watched, shown
  <2>5. Typed(h, K) /\ Quiet(d, h)
    BY <1>0, DropKeeps
  <2>6. Watched(d, g)
    <3>1. CASE ~(d.cand # NoCandidate /\ d.cand.ski = d.sel.ski)
      <4>1. g = cancelCandidateSelectionLocked(d)
        BY <3>1 DEF failCandidateQueueLocked
      <4>2. Quiet(d, g)
        BY <1>0, <4>1, CancelSelectionKeeps
      <4> QED BY <4>2, QuietWatched
    <3>2. CASE d.cand # NoCandidate /\ d.cand.ski = d.sel.ski
      <4>1. g = IF h.window = "open"
                THEN [h EXCEPT !.phase = "OpenEmpty", !.timer = "window"]
                ELSE h
        BY <3>2 DEF failCandidateQueueLocked
      <4> HIDE DEF g, h
      <4>2. h \in Coordinator /\ Watched(d, h)
        BY <2>5, QuietWatched DEF Typed
      <4>3. CASE h.window # "open"
        BY <4>1, <4>2, <4>3
      <4>4. CASE h.window = "open"
        <5>1. /\ g.window = "open" /\ g.enabled = h.enabled
              /\ g.known = h.known /\ g.fault = h.fault /\ g.ask = h.ask
          BY <4>1, <4>2, <4>4 DEF Coordinator
        <5>2. Watched(h, g)
          BY <5>1 DEF Watched, shown
        <5> QED BY <4>2, <5>2, WatchedTrans
      <4> QED BY <4>3, <4>4
    <3> QED BY <3>1, <3>2
  <2> HIDE DEF e, g
  <2> QED BY <2>4, <2>6, WatchedTrans DEF e
<1> QED BY <1>1, <1>2

LEMMA FinishWatched ==
    ASSUME NEW K, NEW d, Sound(d, K), d.known, d.attached, NEW s \in SKIs,
           NEW outcome
    PROVE  Watched(d, finishRecoveryConfirmationLocked(d, s, outcome))
<1> DEFINE g == published(d, s, outcome)
           h == IF outcome = "durable" THEN g ELSE revokeTransientTrustLocked(g)
           i == [h EXCEPT !.cand = NoCandidate]
           j == finishCandidateSelectionLocked(i, outcome # "durable")
           k == [j EXCEPT !.window = "none", !.timer = "none"]
           e == setWaitingLocked(k, FALSE)
           same(x) == /\ Typed(x, K) /\ x.enabled = d.enabled
                      /\ x.known = d.known /\ x.fault = d.fault
                      /\ x.ask = d.ask /\ x.attached
<1>0. d \in Coordinator /\ Typed(d, K)
  BY DEF Sound, Typed
<1>1. same(g)
  <2>1. CASE outcome = "durable"
    <3> DEFINE m == d.generation + 1
               w == IF d.cand # NoCandidate THEN d.trusted \cup {s}
                    ELSE d.trusted
    <3>1. m \in Nat /\ w \in SUBSET SKIs
      BY <1>0 DEF Coordinator
    <3>2. g = [d EXCEPT !.phase = "PairingClosed",
                        !.recovery = "PAIRED_TRUSTED", !.generation = m,
                        !.trusted = w]
      BY <1>0, <2>1 DEF published, Coordinator
    <3> HIDE DEF m, w, g
    <3>3. /\ g \in Coordinator /\ g.cand = d.cand /\ g.pending = d.pending
          /\ g.enabled = d.enabled /\ g.known = d.known
          /\ g.fault = d.fault /\ g.ask = d.ask /\ g.attached = d.attached
      BY <1>0, <3>1, <3>2 DEF Coordinator, Phases
    <3> QED BY <1>0, <3>3 DEF Typed
  <2>2. CASE outcome = "unknown"
    <3>1. g = [d EXCEPT !.phase = "Disabled", !.recovery = "QUARANTINED",
                        !.trusted = {}]
      BY <2>2 DEF published
    <3> HIDE DEF g
    <3>2. /\ g \in Coordinator /\ g.cand = d.cand /\ g.pending = d.pending
          /\ g.enabled = d.enabled /\ g.known = d.known
          /\ g.fault = d.fault /\ g.ask = d.ask /\ g.attached = d.attached
      BY <1>0, <3>1 DEF Coordinator, Phases
    <3> QED BY <1>0, <3>2 DEF Typed
  <2>3. CASE outcome \notin {"durable", "unknown"}
    <3>1. g = [d EXCEPT !.phase = "PairingClosed"]
      BY <2>3 DEF published
    <3> HIDE DEF g
    <3>2. /\ g \in Coordinator /\ g.cand = d.cand /\ g.pending = d.pending
          /\ g.enabled = d.enabled /\ g.known = d.known
          /\ g.fault = d.fault /\ g.ask = d.ask /\ g.attached = d.attached
      BY <1>0, <3>1 DEF Coordinator, Phases
    <3> QED BY <1>0, <3>2 DEF Typed
  <2> QED BY <2>1, <2>2, <2>3
<1> HIDE DEF g
<1>2. same(h)
  <2>1. CASE outcome = "durable"
    BY <1>1, <2>1
  <2>2. CASE outcome # "durable"
    <3>1. Typed(h, K) /\ Quiet(g, h)
      BY <1>1, <2>2, RevokeKeeps
    <3> QED BY <1>1, <3>1 DEF Quiet
  <2> QED BY <2>1, <2>2
<1> HIDE DEF h
<1>3. same(i)
  <2>1. h \in Coordinator
    BY <1>2 DEF Typed
  <2>2. /\ i \in Coordinator /\ i.cand = NoCandidate /\ i.pending = h.pending
        /\ i.enabled = h.enabled /\ i.known = h.known
        /\ i.fault = h.fault /\ i.ask = h.ask /\ i.attached = h.attached
    BY <2>1 DEF Coordinator
  <2> HIDE DEF i
  <2> QED BY <1>2, <2>2 DEF Typed
<1> HIDE DEF i
<1>4. same(j)
  <2>1. Typed(j, K) /\ Quiet(i, j)
    BY <1>3, FinishSelectionKeeps
  <2> QED BY <1>3, <2>1 DEF Quiet
<1> HIDE DEF j
<1>5. same(k)
  <2>1. j \in Coordinator
    BY <1>4 DEF Typed
  <2>2. /\ k \in Coordinator /\ k.cand = j.cand /\ k.pending = j.pending
        /\ k.enabled = j.enabled /\ k.known = j.known
        /\ k.fault = j.fault /\ k.ask = j.ask /\ k.attached = j.attached
    BY <2>1 DEF Coordinator
  <2> HIDE DEF k
  <2> QED BY <1>4, <2>2 DEF Typed
<1> HIDE DEF k
<1>6. TurnsOff(k, e)
  BY <1>5, SetWaitingWatched
<1>7. finishRecoveryConfirmationLocked(d, s, outcome) = e
  BY DEF finishRecoveryConfirmationLocked, g, h, i, j, k
<1> HIDE DEF e
<1>8. Watched(d, e)
  BY <1>5, <1>6 DEF Watched, TurnsOff
<1> QED BY <1>7, <1>8

LEMMA ShutdownWatched ==
    ASSUME NEW K, NEW d, Sound(d, K), d.known
    PROVE  TurnsOff(d, shutdown(d))
<1> DEFINE g == revokeTransientTrustLocked(d)
           h == IF d.cand = NoCandidate THEN d
                ELSE cancelRemoteLocked(g, d.cand.ski, d.cand.conn)
           j == finishCandidateSelectionLocked(h, TRUE)
           w == [s \in SKIs |-> "absent"]
           k == [j EXCEPT !.timer = "none", !.lifecycle = w]
           e == setWaitingLocked(k, FALSE)
<1>0. Typed(d, K) /\ Quiet(d, d)
  BY DEF Sound, Quiet, SelKept
<1>1. Typed(g, K) /\ Quiet(d, g)
  BY <1>0, RevokeKeeps
<1> HIDE DEF g
<1>2. Typed(h, K) /\ Quiet(d, h)
  <2>1. CASE d.cand = NoCandidate
    BY <1>0, <2>1
  <2>2. CASE d.cand # NoCandidate
    <3>1. d.cand.ski \in SKIs /\ d.cand.conn \in Nat
      BY <1>0, <2>2 DEF Typed, Coordinator, Candidate
    <3>2. Typed(h, K) /\ Quiet(g, h)
      BY <1>1, <2>2, <3>1, CancelRemoteKeeps
    <3> QED BY <1>1, <3>2, QuietTrans
  <2> QED BY <2>1, <2>2
<1> HIDE DEF h
<1>3. Typed(j, K) /\ Quiet(h, j)
  BY <1>2, FinishSelectionKeeps
<1>4. Quiet(d, j) /\ j \in Coordinator
  BY <1>2, <1>3, QuietTrans DEF Typed
<1> HIDE DEF j
<1>5. w \in [SKIs -> {"absent", "visible", "reserved", "consumed"}]
  OBVIOUS
<1> HIDE DEF w
<1>6. /\ k \in Coordinator /\ k.cand = j.cand /\ k.pending = j.pending
      /\ k.enabled = j.enabled /\ k.known = j.known /\ k.phase = j.phase
      /\ k.fault = j.fault /\ k.ask = j.ask /\ k.attached = j.attached
      /\ k.window = j.window
  BY <1>4, <1>5 DEF Coordinator
<1> HIDE DEF k
<1>7. Typed(k, K)
  BY <1>3, <1>6 DEF Typed
<1>8. /\ k.enabled = d.enabled /\ k.known = d.known /\ k.fault = d.fault
      /\ k.ask = d.ask /\ k.attached = d.attached /\ shown(k) = shown(d)
  BY <1>4, <1>6 DEF Quiet, shown
<1>9. TurnsOff(k, e)
  BY <1>7, <1>8, SetWaitingWatched
<1>10. shutdown(d) = e
  BY DEF shutdown, g, h, j, k, w
<1> HIDE DEF e
<1>11. TurnsOff(d, e)
  BY <1>8, <1>9 DEF TurnsOff
<1> QED BY <1>10, <1>11

LEMMA OpenWatched ==
    ASSUME NEW K, NEW d, Sound(d, K), d.known, d.ask = "none"
    PROVE  LET e == openPairingWindowLocked(d) IN
           /\ e.enabled = d.enabled /\ e.known = d.known /\ (d.fault => e.fault)
           /\ e.ask \in {"none", "on"}
           /\ e.ask = "on" => opens(d)
           /\ e.fault \/ shown(e) \/ e = d
<1> DEFINE e == openPairingWindowLocked(d)
           g == [d EXCEPT !.window = "open", !.phase = "OpenEmpty"]
<1>0. d \in Coordinator
  BY DEF Sound, Typed
<1>1. CASE ~opens(d)
  <2>1. e = d
    BY <1>1 DEF openPairingWindowLocked, opens
  <2> QED BY <2>1
<1>2. CASE opens(d)
  <2>1. e = setWaitingLocked(g, TRUE)
    BY <1>2 DEF openPairingWindowLocked, opens
  <2>2. /\ g \in Coordinator /\ g.cand = d.cand /\ g.pending = d.pending
        /\ g.window = "open" /\ g.known = d.known /\ g.enabled = d.enabled
        /\ g.fault = d.fault /\ g.ask = d.ask
    BY <1>0 DEF Coordinator, Phases
  <2> HIDE DEF g
  <2>3. Typed(g, K) /\ g.known /\ shown(g)
    BY <2>2 DEF Sound, Typed, shown
  <2>4. /\ e.enabled = g.enabled /\ e.known = g.known /\ (g.fault => e.fault)
        /\ ~e.fault => shown(e) = shown(g)
        /\ e.ask \in {g.ask, "on"}
    BY <2>1, <2>3, SetWaitingWatched
  <2> HIDE DEF e
  <2> QED BY <1>2, <2>2, <2>3, <2>4 DEF e
<1> QED BY <1>1, <1>2

LEMMA AdmitWatched ==
    ASSUME NEW K, NEW d, Sound(d, K), NEW s \in SKIs, NEW n \in Nat
    PROVE  Watched(d, admit(d, s, n))
<1> DEFINE e == admit(d, s, n)
<1>0. Typed(d, K) /\ d \in Coordinator
  BY DEF Sound, Typed
<1>1. CASE admitOutcome(d, s, n) = "refused"
  <2>1. e = cancelRemoteLocked(d, s, n)
    BY <1>1 DEF admit
  <2>2. Quiet(d, e)
    BY <1>0, <2>1, CancelRemoteKeeps
  <2> QED BY <2>2, QuietWatched
<1>2. CASE admitOutcome(d, s, n) = "admitted"
  <2>1. PICK x : e = [d EXCEPT !.phase = "CandidatePending",
                               !.timer = "candidate", !.cand = x]
    BY <1>2 DEF admit
  <2>2. d.window # "none"
    BY <1>2 DEF admitOutcome, admits
  <2> HIDE DEF e
  <2>3. /\ e.window = d.window /\ e.enabled = d.enabled /\ e.known = d.known
        /\ e.fault = d.fault /\ e.ask = d.ask
    BY <1>0, <2>1 DEF Coordinator
  <2> QED BY <2>2, <2>3 DEF Watched, shown, e
<1>3. CASE admitOutcome(d, s, n) \notin {"refused", "admitted"}
  <2>1. e = d
    BY <1>3 DEF admit
  <2> QED BY <2>1, WatchedSelf
<1> QED BY <1>1, <1>2, <1>3

LEMMA MinorWatched ==
    ASSUME NEW d, NEW e, Minor(d, e)
    PROVE  Watched(d, e)
  BY DEF Minor, Watched, shown

\* Every section but the opening of a window.
LEMMA SectionWatched ==
    ASSUME PairingInv, NEW t \in Threads, NEW q, NEW d, Running(t, q, d),
           d.known, q.op # "open"
    PROVE  LET e == section(q, d) IN
           Watched(d, e) /\ (q.op = "shutdown" => TurnsOff(d, e))
<1> DEFINE e == section(q, d)
           K == confirmed
<1>0. /\ FrameOf(t, q) /\ q \in Frame /\ q.op \in Ops /\ q.conn \in Nat
      /\ Sound(d, K) /\ d \in Coordinator /\ Typed(d, K)
      /\ q.op \in withPeer => q.ski \in SKIs
  BY BoundAssumption DEF Running, FrameOf, Frame, Sound, Typed
<1>1. CASE q.op = "shutdown"
  <2>1. e = shutdown(d)
    BY <1>1 DEF section
  <2> QED BY <1>0, <1>1, <2>1, ShutdownWatched, TurnsOffWatched
<1>2. CASE q.op = "close"
  <2>1. e = closePairingWindow(d)
    BY <1>2 DEF section
  <2>2. e = d \/ (e = closeWindowLocked(d, TRUE)
                  /\ d.phase \notin {"Disabled", "Committing"})
    BY <2>1 DEF closePairingWindow
  <2> QED BY <1>0, <1>2, <2>2, CloseWindowWatched, WatchedSelf
<1>3. CASE q.op = "select" /\ selects(d, q.ski)
  <2>1. e = selectCandidate(d, q.ski)
    BY <1>3 DEF section
  <2> HIDE DEF e
  <2>2. /\ e.window = d.window /\ e.enabled = d.enabled /\ e.known = d.known
        /\ e.fault = d.fault /\ e.ask = d.ask /\ e.phase = d.phase
    BY <1>0, <2>1 DEF Coordinator, selectCandidate
  <2> QED BY <1>3, <2>2 DEF Watched, shown, e
<1>4. CASE q.op = "queued"
  <2>1. e = candidateQueued(d, q.result = "queued", q.flag)
    BY <1>4 DEF section
  <2>2. queuesIn(pc[t])
    BY <1>4 DEF Running, queuesIn
  <2>3. d.sel # NoSelection
    BY <2>2 DEF Running, PairingInv, QueueInv, Ordinary, SelKept, queueing
  <2> QED BY <1>0, <1>4, <2>1, <2>3, QueuedWatched
<1>5. CASE q.op = "confirm" /\ confirms(d, q.ski, q.conn)
  <2>1. e = confirm(d) /\ q.ski \in SKIs
    BY <1>0, <1>5 DEF section, withPeer
  <2> QED BY <1>0, <1>5, <2>1, ConfirmWatched
<1>6. CASE q.op = "cancel" /\ cancels(d, q.conn)
  <2>1. e = loseCandidate(d, TRUE)
    BY <1>6 DEF section, cancel
  <2>2. d.phase \notin {"Disabled", "Committing"}
    BY <1>6 DEF cancels
  <2> QED BY <1>0, <1>6, <2>1, <2>2, LoseCandidateWatched
<1>7. CASE q.op = "admit"
  <2>1. e = admit(d, q.ski, q.conn) /\ q.ski \in SKIs
    BY <1>0, <1>7 DEF section, withPeer
  <2> QED BY <1>0, <1>7, <2>1, AdmitWatched
<1>8. CASE q.op \in {"bind", "ship", "completed", "registered"}
  <2>1. e \in {remoteSKIConnected(d, q.ski, q.conn),
               serviceShipIDUpdate(d, q.ski, q.conn),
               connectionCompleted(d, q.ski, q.conn),
               completeTransientRegistration(d, q.ski, q.conn)}
    BY <1>8 DEF section
  <2> HIDE DEF e
  <2>2. Watched(d, e)
    BY <1>0, <2>1, EvidenceWatched
  <2> QED BY <1>8, <2>2 DEF e
<1>9. CASE q.op = "closed"
  <2>1. e = connectionClosed(d, q.ski, q.conn)
    BY <1>9 DEF section
  <2>2. e = d \/ (e = loseCandidate(d, FALSE)
                  /\ sameCandidate(d, q.ski, q.conn)
                  /\ d.phase # "Committing")
    BY <2>1 DEF connectionClosed
  <2>3. sameCandidate(d, q.ski, q.conn) => d.phase # "Disabled"
    BY <1>0 DEF sameCandidate, Sound, PhasesOf
  <2> QED BY <1>0, <1>9, <2>2, <2>3, LoseCandidateWatched, WatchedSelf
<1>10. CASE q.op = "publish"
  <2>1. e = publishes(d)
    BY <1>10 DEF section
  <2> QED BY <1>0, <1>10, <2>1, MinorChanges, MinorWatched
<1>11. CASE q.op = "finish" /\ d.inflight
  <2>1. e = finishRecoveryConfirmationLocked(d, q.ski, q.result)
    BY <1>11 DEF section
  <2>2. d.attached /\ q.ski \in SKIs
    BY <1>0, <1>11 DEF Sound, PhasesOf, withPeer
  <2> QED BY <1>0, <1>11, <2>1, <2>2, FinishWatched
<1>12. CASE q.op = "settle" /\ d.fault
  <2>1. e = failPairingRegistrationLocked(d)
    BY <1>12 DEF section
  <2>2. e.enabled = d.enabled /\ e.known = d.known /\ e.fault /\ e.ask = d.ask
    BY <1>0, <2>1, FailWatched
  <2> HIDE DEF e
  <2> QED BY <1>12, <2>2 DEF Watched, e
<1>13. CASE /\ q.op \notin {"shutdown", "close", "queued", "admit", "bind",
                            "ship", "completed", "registered", "closed",
                            "publish"}
            /\ ~(q.op = "select" /\ selects(d, q.ski))
            /\ ~(q.op = "confirm" /\ confirms(d, q.ski, q.conn))
            /\ ~(q.op = "cancel" /\ cancels(d, q.conn))
            /\ ~(q.op = "finish" /\ d.inflight)
            /\ ~(q.op = "settle" /\ d.fault)
  <2>1. e = d
    BY <1>13 DEF section
  <2> QED BY <1>13, <2>1, WatchedSelf
<1> QED BY <1>1, <1>2, <1>3, <1>4, <1>5, <1>6, <1>7, <1>8, <1>9, <1>10, <1>11,
           <1>12, <1>13

-----------------------------------------------------------------------------

\* What thread t, with the coordinator in e, owes the registration.
WatchState(t, e) ==
    /\ e.known
    /\ (\A u \in Threads \ {t} : pc[u].at # "asked") /\ ~e.fault =>
         service.advertised = e.enabled
    /\ e.enabled /\ ~e.fault =>
         \/ shown(e) \/ e.ask = "off"
         \/ \E u \in Threads \ {t} : turnsOff(pc[u])

\* A frame that may wait for the registration to be turned on.
TurnsOn(a) == a.op = "open" /\ ~a.body /\ a.result = "yes"

LEMMA WatchedState ==
    ASSUME NEW t, NEW d, NEW e, WatchState(t, d), Watched(d, e),
           d.ask = "none"
    PROVE  WatchState(t, e)
<1>1. /\ e.known /\ e.enabled = d.enabled /\ (d.fault => e.fault)
  BY DEF WatchState, Watched
<1>2. ASSUME e.enabled, ~e.fault
      PROVE  \/ shown(e) \/ e.ask = "off"
             \/ \E u \in Threads \ {t} : turnsOff(pc[u])
  <2>1. \/ shown(d) \/ \E u \in Threads \ {t} : turnsOff(pc[u])
    BY <1>1, <1>2 DEF WatchState
  <2> QED BY <1>2, <2>1 DEF Watched
<1> QED BY <1>1, <1>2 DEF WatchState

\* A thread that does not wait owes nothing of its own.
LEMMA WatchStart ==
    ASSUME WatchInv, NEW t \in Threads, pc[t].at \notin waiting
    PROVE  WatchState(t, c)
<1>1. \A u \in Threads : turnsOff(pc[u]) => u # t
  BY DEF turnsOff
<1>2. pc[t].at # "asked"
  BY DEF waiting
<1> QED BY <1>1, <1>2 DEF WatchInv, WatchState

LEMMA WatchStep ==
    ASSUME PairingInv, WatchInv, NEW t \in Threads, NEW r, NEW e,
           WatchState(t, e), r.at # "asked",
           e.ask = "off" => turnsOff(r),
           r.at \in waiting /\ r.asked = "on" => TurnsOn(r),
           pc' = [pc EXCEPT ![t] = r], service' = service,
           c'.phase = e.phase, c'.window = e.window, c'.known = e.known,
           c'.enabled = e.enabled, c'.fault = e.fault
    PROVE  WatchInv'
<1>0. pc'[t] = r /\ \A u \in Threads \ {t} : pc'[u] = pc[u]
  BY DEF PairingInv, TypeOK
<1>1. \A u \in Threads : pc'[u].at = "asked" => u # t /\ pc'[u] = pc[u]
  BY <1>0
<1>2. c'.known
  BY DEF WatchState
<1>3. \A u, v \in Threads : pc'[u].at = "asked" /\ pc'[v].at = "asked" => u = v
  BY <1>1 DEF WatchInv
<1>4. ASSUME \A u \in Threads : pc'[u].at # "asked", ~e.fault
      PROVE  service.advertised = e.enabled
  <2>1. \A u \in Threads \ {t} : pc[u].at # "asked"
    BY <1>0, <1>4
  <2> QED BY <1>4, <2>1 DEF WatchState
<1>5. \A u \in Threads : pc'[u].at = "asked" /\ ~pc'[u].err =>
         service.advertised = (pc'[u].asked = "on")
  BY <1>1 DEF WatchInv
<1>6. ASSUME e.enabled, ~e.fault
      PROVE  shown(e) \/ \E u \in Threads : turnsOff(pc'[u])
  <2>1. CASE e.ask = "off"
    BY <1>0, <2>1
  <2>2. CASE e.ask # "off"
    BY <1>0, <1>6, <2>2 DEF WatchState
  <2> QED BY <2>1, <2>2
<1>7. \A u \in Threads : pc'[u].at \in waiting /\ pc'[u].asked = "on" =>
         TurnsOn(pc'[u])
  BY <1>0 DEF WatchInv, TurnsOn
<1>8. (shown(c))' = shown(e)
  BY DEF shown
<1> QED BY <1>2, <1>3, <1>4, <1>5, <1>6, <1>7, <1>8 DEF WatchInv, TurnsOn

LEMMA WatchReleased ==
    ASSUME PairingInv, WatchInv, NEW t \in Threads, NEW r, NEW e,
           Sound(e, confirmed'), confirmed \subseteq confirmed', Released(e),
           WatchState(t, e), r.at # "asked", e.ask = "off" => turnsOff(r),
           r.at \in waiting /\ r.asked = "on" => TurnsOn(r),
           pc' = [pc EXCEPT ![t] = r], service' = service
    PROVE  WatchInv'
<1>1. queue \in Seq(Effects) /\ backed(queue, confirmed')
  BY BackedMore DEF PairingInv, TypeOK
<1>2. /\ c'.phase = e.phase /\ c'.window = e.window /\ c'.known = e.known
      /\ c'.enabled = e.enabled /\ c'.fault = e.fault
  BY <1>1, ReleasedKeeps
<1> QED BY <1>2, WatchStep

\* The shutdown has turned the registration off.
Withdrawn(t, e) ==
    \/ e.fault \/ ~e.enabled \/ e.ask = "off"
    \/ \E u \in Threads \ {t} : turnsOff(pc[u])

LEMMA WatchAfter ==
    ASSUME NEW t \in Threads, NEW a, NEW e, NEW L, Ready(t, a, e, L),
           WatchState(t, e), e.ask = "none",
           a.op = "shutdown" => Withdrawn(t, e)
    PROVE  WatchState(t, after(a, e))
<1> DEFINE g == after(a, e)
<1>0. Sound(e, L) /\ e \in Coordinator /\ FrameOf(t, a) /\ a \in Frame
  BY DEF Ready, Sound, Typed, FrameOf
<1>1. CASE a.op = "open" /\ a.result = "yes" /\ ~a.err /\ ~e.fault
  <2>1. g = [e EXCEPT !.timer = "window"]
    BY <1>1 DEF after
  <2>2. Minor(e, g)
    BY <1>0, <2>1, MinorChanges
  <2> HIDE DEF g
  <2>3. WatchState(t, g)
    BY <2>2, MinorWatched, WatchedState
  <2> QED BY <2>3 DEF g
<1>2. CASE a.op = "finish" /\ a.result # "late"
  <2>1. g = AfterConfirmation(e, a.ski, a.conn, a.result, a.flag)
    BY <1>2 DEF after
  <2>2. /\ a.ski \in SKIs /\ a.conn \in Nat /\ a.flag \in BOOLEAN
        /\ <<a.ski, a.conn>> \in L
        /\ e.phase \notin {"Committing", "TransientTrusted"}
    BY <1>0, <1>2, BoundAssumption DEF Ready, FrameOf, withPeer, Frame
  <2> HIDE DEF g
  <2>3. /\ g.phase = e.phase /\ g.window = e.window /\ g.fault = e.fault
        /\ g.known = e.known /\ g.enabled = e.enabled /\ g.ask = e.ask
    BY <1>0, <2>1, <2>2, AfterConfirmationKeeps
  <2>4. WatchState(t, g)
    BY <2>3 DEF WatchState, shown
  <2> QED BY <2>4 DEF g
<1>3. CASE a.op = "shutdown"
  <2>1. g = AfterShutdown(e)
    BY <1>3 DEF after
  <2> HIDE DEF g
  <2>2. /\ g.fault = e.fault /\ g.known = e.known /\ g.enabled = e.enabled
        /\ g.ask = e.ask
    BY <1>0, <2>1, AfterShutdownKeeps
  <2>3. WatchState(t, g)
    BY <1>3, <2>2 DEF WatchState, Withdrawn
  <2> QED BY <2>3 DEF g
<1>4. CASE /\ ~(a.op = "open" /\ a.result = "yes" /\ ~a.err /\ ~e.fault)
           /\ ~(a.op = "finish" /\ a.result # "late")
           /\ a.op # "shutdown"
  <2>1. g = e
    BY <1>4 DEF after
  <2> QED BY <2>1
<1> QED BY <1>1, <1>2, <1>3, <1>4

LEMMA NextNotWaiting ==
    ASSUME NEW a \in Frame, a.at = "enter"
    PROVE  next(a).at \notin waiting
<1> DEFINE r == next(a)
<1>1. CASE r = Idle
  BY <1>1, IdleFrame DEF waiting
<1>2. CASE r # Idle
  <2>1. \/ \E x \in {"queue", "publishing", "new", "begun", "discard", "bound",
                     "restore", "failing"} : r = [a EXCEPT !.at = x]
        \/ \E x \in {"publish", "settle"} : r = [a EXCEPT !.op = x]
    BY <1>2 DEF next
  <2> HIDE DEF r
  <2> QED BY <2>1 DEF Frame, waiting, r
<1> QED BY <1>1, <1>2

LEMMA WatchLeave ==
    ASSUME PairingInv, WatchInv, NEW t \in Threads, NEW a, NEW e,
           Ready(t, a, e, confirmed'), confirmed \subseteq confirmed',
           AskOrLeave(t, a, e), service' = service,
           nilWindow(a, e) \/ WatchState(t, e),
           e.ask = "on" => TurnsOn(a) /\ WatchState(t, e),
           e.ask = "off" => WatchState(t, e),
           a.op = "shutdown" => Withdrawn(t, e)
    PROVE  WatchInv'
<1>0. /\ FrameOf(t, a) /\ a.at = "enter" /\ a \in Frame /\ Sound(e, confirmed')
      /\ e.ask \in {"none", "on", "off"}
  BY DEF Ready, FrameOf, Sound, Typed, Coordinator
<1>1. CASE e.ask # "none"
  <2> DEFINE r == [a EXCEPT !.at = "ask", !.asked = e.ask]
  <2>1. Ask(t, a, e)
    BY <1>1 DEF AskOrLeave
  <2>2. Released(e) /\ pc' = [pc EXCEPT ![t] = r]
    BY <2>1 DEF Ask, Released
  <2>3. /\ r.at = "ask" /\ r.op = a.op /\ r.asked = e.ask /\ r.body = a.body
        /\ r.result = a.result
    BY <1>0 DEF Frame
  <2> HIDE DEF r
  <2>4. WatchState(t, e) /\ (e.ask = "off" => turnsOff(r))
    BY <1>0, <1>1, <2>3 DEF turnsOff, waiting
  <2>5. r.asked = "on" => TurnsOn(r)
    BY <2>3 DEF TurnsOn
  <2> QED BY <1>0, <2>2, <2>3, <2>4, <2>5, WatchReleased
<1>2. CASE e.ask = "none" /\ nilWindow(a, e)
  <2>1. c' = c /\ pc' = pc
    BY <1>2 DEF AskOrLeave, Leave
  <2> QED BY <2>1 DEF WatchInv
<1>3. CASE e.ask = "none" /\ ~nilWindow(a, e)
  <2> DEFINE g == after(a, e)
             r == next(a)
  <2>1. Unlock(t, g, r)
    BY <1>3 DEF AskOrLeave, Leave
  <2>2. Sound(g, confirmed') /\ g.ask = "none"
    BY <1>3, AfterKeeps
  <2>3. WatchState(t, g)
    BY <1>3, WatchAfter
  <2>4. r.at \notin waiting
    BY <1>0, NextNotWaiting
  <2> HIDE DEF g, r
  <2>5. Released(g) /\ pc' = [pc EXCEPT ![t] = r]
    BY <2>1, <2>2 DEF Unlock, Released
  <2>6. r.at # "asked"
    BY <2>4 DEF waiting
  <2> QED BY <2>2, <2>3, <2>4, <2>5, <2>6, WatchReleased
<1> QED BY <1>1, <1>2, <1>3

LEMMA OpenAnswer ==
    ASSUME NEW q \in Frame, NEW d, NEW e, q.op = "open", opens(d)
    PROVE  answered(q, d, e).result = "yes"
<1> DEFINE x == "yes"
<1>1. answered(q, d, e) = [q EXCEPT !.result = x]
  BY DEF answered
<1> HIDE DEF x
<1>2. answered(q, d, e).result = x
  BY <1>1 DEF Frame
<1> QED BY <1>2 DEF x

LEMMA WatchRun ==
    ASSUME PairingInv, WatchInv, NEW t \in Threads, NEW q, NEW d,
           Running(t, q, d), WatchState(t, d), Run(t, q, d),
           service' = service
    PROVE  WatchInv'
<1> DEFINE e == section(q, d)
           p == [q EXCEPT !.body = FALSE]
           a == answered(p, d, e)
<1>0. /\ FrameOf(t, q) /\ q \in Frame /\ q.at = "enter" /\ d.ask = "none"
      /\ d.known /\ Sound(d, confirmed) /\ d \in Coordinator
  BY DEF Running, FrameOf, WatchState, Sound, Typed
<1>1. /\ AskOrLeave(t, a, e)
      /\ confirmed' = IF q.op = "confirm" /\ confirms(d, q.ski, q.conn)
                      THEN confirmed \cup {<<q.ski, q.conn>>} ELSE confirmed
  BY DEF Run, Apply
<1>2. /\ confirmed \subseteq confirmed'
      /\ q.op = "confirm" /\ confirms(d, q.ski, q.conn) =>
           <<q.ski, q.conn>> \in confirmed'
  BY <1>1
<1>3. Ready(t, a, e, confirmed') /\ a.op = q.op
  BY <1>2, RunReady
<1>4. p \in Frame /\ p.op = q.op
  BY <1>0 DEF Frame
<1>5. CASE q.op # "open"
  <2>1. Watched(d, e) /\ (q.op = "shutdown" => TurnsOff(d, e))
    BY <1>0, <1>5, SectionWatched
  <2> HIDE DEF e, a, p
  <2>2. WatchState(t, e)
    BY <1>0, <2>1, WatchedState
  <2>3. e.ask # "on"
    BY <1>0, <2>1 DEF Watched
  <2>4. ASSUME q.op = "shutdown"
        PROVE  Withdrawn(t, e)
    <3>1. CASE d.attached
      BY <2>1, <2>4, <3>1 DEF TurnsOff, Withdrawn
    <3>2. CASE ~d.attached
      <4>1. ~shown(d)
        BY <1>0, <3>2 DEF Sound, PhasesOf, shown
      <4> QED BY <2>1, <2>2, <2>4, <3>2, <4>1
              DEF TurnsOff, Withdrawn, WatchState
    <3> QED BY <3>1, <3>2
  <2> QED BY <1>1, <1>2, <1>3, <2>2, <2>3, <2>4, WatchLeave
<1>6. CASE q.op = "open"
  <2>1. e = openPairingWindowLocked(d)
    BY <1>6 DEF section
  <2>2. opens(d) => a.result = "yes"
    BY <1>4, <1>6, OpenAnswer
  <2> HIDE DEF e, a, p
  <2>3. /\ e.enabled = d.enabled /\ e.known = d.known /\ (d.fault => e.fault)
        /\ e.ask \in {"none", "on"}
        /\ e.ask = "on" => opens(d)
        /\ e.fault \/ shown(e) \/ e = d
    BY <1>0, <2>1, OpenWatched
  <2>4. WatchState(t, e)
    BY <2>3 DEF WatchState
  <2>5. e.ask = "on" => TurnsOn(a)
    BY <1>3, <1>6, <2>2, <2>3 DEF TurnsOn, Ready
  <2>6. e.ask # "off" /\ a.op # "shutdown"
    BY <1>3, <1>6, <2>3
  <2> QED BY <1>1, <1>2, <1>3, <2>4, <2>5, <2>6, WatchLeave
<1> QED BY <1>5, <1>6

LEMMA WatchLock ==
    ASSUME PairingInv, WatchInv, NEW t \in Threads, NEW q,
           FrameOf(t, q), q.at = "enter", pc[t].at \notin waiting,
           commitsIn(q) => commitsIn(pc[t]) /\ CommitOf(q, c, confirmed, durable),
           queuesIn(q) => queuesIn(pc[t]), Lock(t, q), service' = service
    PROVE  WatchInv'
<1> DEFINE d == IF expires(q.op) THEN expireLocked(c) ELSE c
<1>0. /\ Sound(c, confirmed) /\ c.ask = "none" /\ q \in Frame /\ c.known
      /\ WatchState(t, c)
  BY WatchStart DEF PairingInv, TypeOK, FrameOf, WatchInv
<1>1. Sound(d, confirmed) /\ Ordinary(c, d) /\ Watched(c, d)
  BY <1>0, ExpireKeeps, OrdinarySelf, ExpireWatched, WatchedSelf
<1>2. AskOrRun(t, q, d)
  BY DEF Lock
<1> HIDE DEF d
<1>3. WatchState(t, d)
  BY <1>0, <1>1, WatchedState
<1>4. CASE d.ask = "none"
  <2>1. Run(t, q, d)
    BY <1>2, <1>4 DEF AskOrRun
  <2>2. Running(t, q, d)
    BY <1>1, <1>4 DEF Running
  <2> QED BY <1>3, <2>1, <2>2, WatchRun
<1>5. CASE d.ask # "none"
  <2> DEFINE p == [q EXCEPT !.body = TRUE]
             r == [p EXCEPT !.at = "ask", !.asked = d.ask]
  <2>1. Ask(t, p, d) /\ confirmed' = confirmed
    BY <1>2, <1>5 DEF AskOrRun, history
  <2>2. Released(d) /\ pc' = [pc EXCEPT ![t] = r]
    BY <2>1 DEF Ask, Released
  <2>3. r.at = "ask" /\ r.asked = d.ask
    BY <1>0 DEF Frame
  <2>4. d.ask = "off"
    BY <1>0, <1>1, <1>5 DEF Watched
  <2> HIDE DEF p, r
  <2>5. turnsOff(r) /\ r.at # "asked" /\ r.asked # "on"
    BY <2>3, <2>4 DEF turnsOff, waiting
  <2> QED BY <1>1, <1>3, <2>1, <2>2, <2>5, WatchReleased
<1> QED BY <1>4, <1>5

LEMMA WatchCall ==
    ASSUME PairingInv, WatchInv, NEW t \in Threads, NEW q,
           pc[t] = Idle, Place(t, q), q.at = "enter", Lock(t, q),
           service' = service
    PROVE  WatchInv'
<1>1. pc[t].at \notin waiting
  BY IdleFrame DEF waiting
<1>2. FrameOf(t, q) /\ ~commitsIn(q) /\ ~queuesIn(q)
  BY DEF Place
<1> QED BY <1>1, <1>2, WatchLock

LEMMA WatchSetWaiting ==
    ASSUME PairingInv, WatchInv, NEW t \in Threads, SetWaiting(t)
    PROVE  WatchInv'
<1> DEFINE q == pc[t]
<1>0. /\ q \in Frame /\ pc \in [Threads -> Frame] /\ q.at = "ask"
      /\ service \in [advertised : BOOLEAN, registered : SUBSET SKIs]
      /\ c' = c /\ \A u \in Threads : pc[u].at # "asked"
  BY FrameAt DEF PairingInv, TypeOK, SetWaiting
<1>1. PICK b \in BOOLEAN :
        /\ pc' = [pc EXCEPT ![t].at = "asked", ![t].err = b]
        /\ b \/ service' = [service EXCEPT !.advertised = (q.asked = "on")]
  BY DEF SetWaiting
<1>2. /\ pc'[t].at = "asked" /\ pc'[t].err = b /\ pc'[t].asked = q.asked
      /\ pc'[t].op = q.op /\ pc'[t].body = q.body /\ pc'[t].result = q.result
  BY <1>0, <1>1 DEF Frame
<1>3. \A u \in Threads \ {t} : pc'[u] = pc[u]
  BY <1>0, <1>1
<1>4. b \/ service'.advertised = (q.asked = "on")
  BY <1>0, <1>1
<1>5. \A u \in Threads : turnsOff(pc[u]) => turnsOff(pc'[u])
  BY <1>2, <1>3 DEF turnsOff, waiting
<1>6. \A u \in Threads : pc'[u].at = "asked" => u = t
  BY <1>0, <1>3
<1>7. \A u \in Threads : pc'[u].at \in waiting /\ pc'[u].asked = "on" =>
         TurnsOn(pc'[u])
  BY <1>0, <1>2, <1>3 DEF WatchInv, TurnsOn, waiting
<1>8. \A u \in Threads : pc'[u].at = "asked" /\ ~pc'[u].err =>
         service'.advertised = (pc'[u].asked = "on")
  BY <1>2, <1>4, <1>6
<1>9. c.enabled /\ ~c.fault => shown(c) \/ \E u \in Threads : turnsOff(pc'[u])
  BY <1>5 DEF WatchInv
<1> QED BY <1>0, <1>2, <1>6, <1>7, <1>8, <1>9 DEF WatchInv, TurnsOn

LEMMA WatchWaitingSet ==
    ASSUME PairingInv, WatchInv, NEW t \in Threads, WaitingSet(t)
    PROVE  WatchInv'
<1> DEFINE q == pc[t]
           v == q.asked = "on"
           d == waitingSet(c, v, q.err)
           r == [q EXCEPT !.at = "enter", !.asked = "none"]
           p == [r EXCEPT !.err = FALSE]
<1>0. /\ q \in Frame /\ FrameOf(t, q) /\ q.at = "asked" /\ service' = service
      /\ q.err \in BOOLEAN /\ v \in BOOLEAN
      /\ Sound(c, confirmed) /\ c.ask = "none" /\ c \in Coordinator
      /\ q.body => Run(t, p, d)
      /\ ~q.body => Leave(t, r, d) /\ confirmed' = confirmed
  BY FrameAt DEF WaitingSet, history, PairingInv, TypeOK, Frame
<1>1. Sound(d, confirmed) /\ Ordinary(c, d) /\ d.ask = "none"
  BY <1>0, WaitingSetKeeps
<1>2. \/ d.known /\ d.fault
      \/ /\ ~q.err /\ d.known /\ d.enabled = v /\ d.fault = c.fault
  <2>1. CASE q.err
    <3>1. d = failPairingRegistrationLocked(c)
      BY <2>1 DEF waitingSet
    <3> QED BY <1>0, <3>1, FailWatched DEF Sound, WatchInv
  <2>2. CASE ~q.err
    <3>1. d = [c EXCEPT !.known = TRUE, !.enabled = v]
      BY <2>2 DEF waitingSet
    <3> HIDE DEF d, v
    <3>2. d.known /\ d.enabled = v /\ d.fault = c.fault
      BY <1>0, <3>1 DEF Coordinator
    <3> QED BY <2>2, <3>2 DEF d
  <2> QED BY <1>0, <2>1, <2>2
<1>3. ~q.err => service.advertised = v
  BY <1>0 DEF WatchInv
<1>4. v => q.op = "open" /\ ~q.body /\ q.result = "yes"
  BY <1>0 DEF WatchInv, waiting
<1>5. /\ r \in Frame /\ r.at = "enter" /\ r.op = q.op /\ r.err = q.err
      /\ r.result = q.result
      /\ p \in Frame /\ p.at = "enter" /\ p.op = q.op /\ p.ski = q.ski
      /\ p.conn = q.conn /\ p.kind = q.kind /\ p.saved = q.saved
  BY <1>0 DEF Frame
<1>6. v \/ WatchState(t, d)
  <2> HIDE DEF d, v
  <2> QED BY <1>2, <1>3 DEF WatchState
<1>7. CASE q.body
  <2>1. WatchState(t, d)
    BY <1>4, <1>6, <1>7
  <2> HIDE DEF d, p
  <2>2. expires(p.op)
    BY <1>0, <1>5, <1>7 DEF FrameOf, waiting
  <2>3. ~commitsIn(p) /\ ~queuesIn(p)
    BY <1>5, <2>2 DEF expires, commitsIn, queuesIn, commits
  <2>4. FrameOf(t, p)
    <3>1. q.op \notin {"publish", "queued"}
      BY <1>0 DEF FrameOf
    <3> QED BY <1>0, <1>5, <3>1 DEF FrameOf, waiting, onPeer
  <2>5. Running(t, p, d)
    BY <1>1, <1>5, <2>3, <2>4 DEF Running
  <2> QED BY <1>0, <1>7, <2>1, <2>5, WatchRun
<1>8. CASE ~q.body
  <2>1. Ready(t, r, d, confirmed)
    BY <1>0, <1>8, WaitingReady
  <2> HIDE DEF d, r
  <2>2. AskOrLeave(t, r, d) /\ confirmed' = confirmed
    BY <1>0, <1>1, <1>8 DEF AskOrLeave
  <2>3. nilWindow(r, d) \/ WatchState(t, d)
    <3>1. CASE ~v
      BY <1>6, <3>1
    <3>2. CASE v /\ d.fault
      BY <1>2, <3>2 DEF WatchState
    <3>3. CASE v /\ ~d.fault /\ d.window = "none"
      BY <1>2, <1>4, <1>5, <3>3 DEF nilWindow
    <3>4. CASE v /\ ~d.fault /\ d.window # "none"
      BY <1>2, <1>3, <3>4 DEF WatchState, shown
    <3> QED BY <3>1, <3>2, <3>3, <3>4
  <2>4. r.op = "shutdown" => Withdrawn(t, d)
    BY <1>2, <1>4, <1>5 DEF Withdrawn
  <2> QED BY <1>0, <1>1, <2>1, <2>2, <2>3, <2>4, WatchLeave
<1> QED BY <1>7, <1>8

LEMMA WatchThread ==
    ASSUME PairingInv, WatchInv, NEW t \in Threads,
           Enter(t) \/ PrepareFails(t)
    PROVE  WatchInv'
<1>0. /\ pc[t] \in Frame /\ FrameOf(t, pc[t]) /\ pc[t].at = "enter"
      /\ pc[t].at \notin waiting /\ service' = service
  BY FrameAt DEF Enter, PrepareFails, waiting
<1>1. CASE Enter(t)
  BY <1>0, <1>1, FrameAt, WatchLock DEF Enter
<1>2. CASE PrepareFails(t)
  <2> DEFINE q == [pc[t] EXCEPT !.op = "finish", !.result = "unchanged"]
  <2>0. pc[t].op = "publish" /\ Lock(t, q)
    BY <1>2 DEF PrepareFails
  <2>1. commitsIn(pc[t]) /\ CommitOf(pc[t], c, confirmed, durable)
    BY <2>0, FrameAt DEF commitsIn, commits
  <2>2. /\ q \in Frame /\ q.at = "enter" /\ q.op = "finish"
        /\ q.ski = pc[t].ski /\ q.conn = pc[t].conn /\ q.result = "unchanged"
    BY <1>0 DEF Frame, Ops, Results
  <2> HIDE DEF q
  <2>3. q.ski \in SKIs
    BY <1>0, <2>0, <2>2 DEF FrameOf, withPeer
  <2>4. FrameOf(t, q) /\ ~queuesIn(q)
    BY <2>2, <2>3 DEF FrameOf, waiting, onPeer, queuesIn
  <2>5. CommitOf(q, c, confirmed, durable)
    BY <1>0, <2>0, <2>1, <2>2 DEF CommitOf, waiting
  <2> QED BY <1>0, <2>0, <2>1, <2>2, <2>4, <2>5, WatchLock
<1> QED BY <1>1, <1>2

\* Thread t moves from one place outside setWaitingLocked to another, and
\* leaves the coordinator and the pairing registration alone.
Aside(t) ==
    /\ c' = c /\ service'.advertised = service.advertised
    /\ \A u \in Threads \ {t} : pc'[u] = pc[u]
    /\ pc[t].at \notin waiting /\ pc'[t].at \notin waiting

LEMMA WatchAside ==
    ASSUME WatchInv, NEW t \in Threads, Aside(t)
    PROVE  WatchInv'
<1>1. \A u \in Threads : \/ pc'[u] = pc[u]
                         \/ /\ ~turnsOff(pc[u]) /\ ~turnsOff(pc'[u])
                            /\ pc[u].at \notin waiting
                            /\ pc'[u].at \notin waiting
                            /\ pc[u].at # "asked" /\ pc'[u].at # "asked"
  BY DEF Aside, turnsOff, waiting
<1>2. \A u \in Threads : /\ pc'[u].at = "asked" => pc'[u] = pc[u]
                         /\ pc[u].at = "asked" => pc'[u] = pc[u]
                         /\ pc'[u].at \in waiting => pc'[u] = pc[u]
                         /\ turnsOff(pc[u]) => pc'[u] = pc[u]
  BY <1>1
<1>3. c' = c /\ service'.advertised = service.advertised
  BY DEF Aside
<1>4. \A u, v \in Threads :
         pc'[u].at = "asked" /\ pc'[v].at = "asked" => u = v
  BY <1>2 DEF WatchInv
<1>5. (\A u \in Threads : pc'[u].at # "asked") /\ ~c.fault =>
         service.advertised = c.enabled
  BY <1>2 DEF WatchInv
<1>6. \A u \in Threads : pc'[u].at = "asked" /\ ~pc'[u].err =>
         service.advertised = (pc'[u].asked = "on")
  BY <1>2 DEF WatchInv
<1>7. c.enabled /\ ~c.fault => shown(c) \/ \E u \in Threads : turnsOff(pc'[u])
  BY <1>2 DEF WatchInv
<1>8. \A u \in Threads : pc'[u].at \in waiting /\ pc'[u].asked = "on" =>
         TurnsOn(pc'[u])
  BY <1>2 DEF WatchInv, TurnsOn
<1> QED BY <1>3, <1>4, <1>5, <1>6, <1>7, <1>8 DEF WatchInv, TurnsOn

LEMMA GoesAside ==
    ASSUME PairingInv, NEW t \in Threads, NEW r, goto(t, r), r.at \notin waiting,
           c' = c, service'.advertised = service.advertised,
           pc[t].at \notin waiting
    PROVE  Aside(t)
  BY DEF Aside, goto, PairingInv, TypeOK

LEMMA CallAt ==
    ASSUME NEW op, NEW s, NEW n, NEW kind, NEW b, NEW k
    PROVE  LET q == call(op, s, n)
               p == [q EXCEPT !.kind = kind]
           IN  /\ q.at = "enter" /\ p.at = "enter"
               /\ [p EXCEPT !.flag = b].at = "enter"
               /\ [p EXCEPT !.at = "failing"].at = "failing"
               /\ [q EXCEPT !.kind = kind, !.saved = k].at = "enter"
               /\ [q EXCEPT !.at = "registering", !.kind = kind].at
                    = "registering"
  BY DEF call, Idle

\* The places that a step outside the mutex goes to.
calm == {"idle", "enter", "begun", "tail", "discard", "failing", "registering"}

LEMMA CalmNotWaiting == calm \cap waiting = {}
  BY DEF calm, waiting

LEMMA OnConnectionAside ==
    ASSUME PairingInv, NEW q, onConnection(q), pc[Callback].at \notin waiting
    PROVE  Aside(Callback)
<1> DEFINE s == q.ski
           k == f.connections[s]
           enters(op) == [call(op, s, k.generation) EXCEPT !.kind = q.kind]
           p == [enters("bind") EXCEPT !.flag = k.ship]
<1>1. c' = c /\ service' = service /\ Callback \in Threads
  BY DEF onConnection, quiet, Threads
<1>2. \/ goto(Callback, Idle) \/ goto(Callback, enters("closed"))
      \/ goto(Callback, enters("bind")) \/ goto(Callback, enters("ship"))
      \/ goto(Callback, p)
  BY DEF onConnection
<1>3. /\ Idle.at = "idle" /\ p.at = "enter" /\ enters("closed").at = "enter"
      /\ enters("bind").at = "enter" /\ enters("ship").at = "enter"
  BY IdleFrame, CallAt
<1> HIDE DEF enters, p
<1>4. PICK r : goto(Callback, r) /\ r.at \in calm
  BY <1>2, <1>3 DEF calm
<1> QED BY <1>1, <1>4, GoesAside, CalmNotWaiting

LEMMA CallbackAside ==
    ASSUME PairingInv,
           \/ NewConnection \/ AttemptBegun \/ ContinueCallback \/ Discard
           \/ Bound \/ FailureHandled
    PROVE  Aside(Callback)
<1> DEFINE q == pc[Callback]
<1>0. /\ Callback \in Threads /\ q \in Frame /\ Idle.at = "idle"
      /\ q.at \notin waiting
  BY FrameAt, IdleFrame
  DEF Threads, NewConnection, AttemptBegun, ContinueCallback, Discard, Bound,
      FailureHandled, waiting
<1>1. CASE ContinueCallback
  BY <1>0, <1>1, OnConnectionAside DEF ContinueCallback
<1>2. ASSUME quiet, NEW r, goto(Callback, r), r.at \in calm
      PROVE  Aside(Callback)
  BY <1>0, <1>2, GoesAside, CalmNotWaiting DEF quiet
<1>3. CASE NewConnection
  <2>1. \/ goto(Callback, Idle)
        \/ \E n, b, x : goto(Callback, [[q EXCEPT !.conn = n] EXCEPT
                               !.flag = b, !.op = "admit",
                               !.at = IF x THEN "enter" ELSE "begun"])
        \/ \E n : goto(Callback, [[q EXCEPT !.conn = n] EXCEPT
                               !.at = "discard"])
    BY <1>3 DEF NewConnection
  <2>2. \A n, b, x : [[q EXCEPT !.conn = n] EXCEPT !.flag = b, !.op = "admit",
                        !.at = IF x THEN "enter" ELSE "begun"].at \in calm
    BY <1>0 DEF Frame, calm
  <2>3. \A n : [[q EXCEPT !.conn = n] EXCEPT !.at = "discard"].at \in calm
    BY <1>0 DEF Frame, calm
  <2>4. Idle.at \in calm /\ quiet
    BY <1>0, <1>3 DEF calm, NewConnection
  <2> QED BY <1>2, <2>1, <2>2, <2>3, <2>4
<1>4. CASE AttemptBegun
  <2>1. quiet /\ goto(Callback, [q EXCEPT !.at = "tail"])
    BY <1>4 DEF AttemptBegun
  <2>2. [q EXCEPT !.at = "tail"].at \in calm
    BY <1>0 DEF Frame, calm
  <2> QED BY <1>2, <2>1, <2>2
<1>5. CASE Discard
  <2>1. /\ quiet
        /\ \/ goto(Callback, call("closed", q.ski, q.conn))
           \/ goto(Callback, Idle)
    BY <1>5 DEF Discard
  <2>2. call("closed", q.ski, q.conn).at \in calm /\ Idle.at \in calm
    BY <1>0, CallAt DEF calm
  <2> QED BY <1>2, <2>1, <2>2
<1>6. CASE Bound
  <2> DEFINE r == [call("ship", q.ski, q.conn) EXCEPT !.kind = "request"]
  <2>1. quiet /\ (goto(Callback, r) \/ goto(Callback, Idle))
    BY <1>6 DEF Bound
  <2>2. r.at \in calm /\ Idle.at \in calm
    BY <1>0, CallAt DEF calm
  <2> HIDE DEF r
  <2> QED BY <1>2, <2>1, <2>2
<1>7. CASE FailureHandled
  <2>1. quiet /\ goto(Callback, Idle) /\ Idle.at \in calm
    BY <1>0, <1>7 DEF FailureHandled, calm
  <2> QED BY <1>2, <2>1
<1> QED BY <1>1, <1>3, <1>4, <1>5, <1>6, <1>7

LEMMA FreeAside ==
    ASSUME PairingInv, NEW s \in SKIs,
           \/ Failed(s) \/ Disconnected(s) \/ Terminated(s)
           \/ \E completed \in BOOLEAN : Succeeded(s, completed)
    PROVE  \/ Aside(Callback) \/ Aside(Bridge)
           \/ c' = c /\ service' = service /\ pc' = pc
<1>0. /\ Callback \in Threads /\ Bridge \in Threads /\ Idle.at = "idle"
      /\ Idle.at \notin waiting /\ Idle.at \in calm
  BY IdleFrame DEF Threads, waiting, calm
<1>1. ASSUME NEW t \in {Callback, Bridge}, pc[t] = Idle, quiet, NEW r,
             goto(t, r), r.at \in calm
      PROVE  Aside(t)
  BY <1>0, <1>1, GoesAside, CalmNotWaiting DEF quiet
<1>2. CASE Failed(s)
  <2> DEFINE q == [call("closed", s, f.connections[s].generation)
                   EXCEPT !.kind = "failed"]
             r == [q EXCEPT !.flag = TRUE]
             p == [q EXCEPT !.at = "failing"]
  <2>1. /\ pc[Callback] = Idle /\ quiet
        /\ goto(Callback, q) \/ goto(Callback, r) \/ goto(Callback, p)
    BY <1>2 DEF Failed, callbackMuFree
  <2>2. q.at \in calm /\ r.at \in calm /\ p.at \in calm
    BY CallAt DEF calm
  <2> HIDE DEF q, r, p
  <2> QED BY <1>1, <2>1, <2>2
<1>3. CASE Disconnected(s)
  <2> DEFINE r == call("closed", s,
                       F!RemoteSKIDisconnected(f, s).connections[s].generation)
  <2>1. /\ quiet
        /\ \/ pc' = pc
           \/ /\ pc[Callback] = Idle
              /\ goto(Callback, r) \/ goto(Callback, Idle)
    BY <1>3 DEF Disconnected, callbackMuFree
  <2>2. r.at \in calm
    BY CallAt DEF calm
  <2> HIDE DEF r
  <2> QED BY <1>0, <1>1, <2>1, <2>2 DEF quiet
<1>4. CASE Terminated(s)
  <2> DEFINE k == f.connections[s]
             r == [call("closed", s, k.generation)
                   EXCEPT !.kind = "terminated", !.saved = k]
  <2>1. pc[Bridge] = Idle /\ quiet /\ goto(Bridge, r)
    BY <1>4 DEF Terminated
  <2>2. r.at \in calm
    BY CallAt DEF calm
  <2> HIDE DEF r
  <2> QED BY <1>1, <2>1, <2>2
<1>5. ASSUME NEW completed \in BOOLEAN, Succeeded(s, completed)
      PROVE  Aside(Callback)
  <2> DEFINE r == call("completed", s, f.connections[s].generation)
  <2>1. /\ pc[Callback] = Idle /\ quiet
        /\ goto(Callback, r) \/ goto(Callback, Idle)
    BY <1>5 DEF Succeeded, callbackMuFree
  <2>2. r.at \in calm
    BY CallAt DEF calm
  <2> HIDE DEF r
  <2> QED BY <1>0, <1>1, <2>1, <2>2
<1> QED BY <1>2, <1>3, <1>4, <1>5

LEMMA WatchCallback ==
    ASSUME PairingInv, WatchInv, CallbackStep
    PROVE  WatchInv'
<1>0. /\ Callback \in Threads /\ Bridge \in Threads /\ f \in F!Facade
      /\ 0 \in 0..MaxConnections
  BY BoundAssumption DEF PairingInv, TypeOK, Threads
<1>1. ASSUME NEW s \in SKIs, NEW kind \in callbackKinds, Attempt(kind, s)
      PROVE  WatchInv'
  <2>1. pc[Callback] = Idle /\ pc[Callback].at \notin waiting
    BY <1>1, IdleFrame DEF Attempt, callbackMuFree, waiting
  <2>2. CASE F!known(f, s)
    <3>1. onConnection([Idle EXCEPT !.kind = kind, !.ski = s])
      BY <1>1, <2>2 DEF Attempt
    <3> QED BY <1>0, <2>1, <3>1, OnConnectionAside, WatchAside
  <2>3. CASE ~F!known(f, s)
    <3> DEFINE op == "authorize"
               n == 0
               q == [call(op, s, n) EXCEPT !.kind = kind]
    <3>1. /\ op \in withPeer \ {"publish", "finish", "queued", "select",
                                "confirm"}
          /\ kind \in Kinds \ {"terminated"} /\ n \in 0..MaxConnections
      BY <1>0 DEF withPeer, callbackKinds, Kinds
    <3>2. Lock(Callback, q) /\ service' = service
      BY <1>1, <2>3 DEF Attempt
    <3>4. q.at = "enter"
      BY CallAt
    <3> HIDE DEF op, n
    <3>3. Place(Callback, q)
      BY <3>1, KindPlace
    <3> HIDE DEF q
    <3> QED BY <1>0, <2>1, <3>2, <3>3, <3>4, WatchCall
  <2> QED BY <2>2, <2>3
<1>2. ASSUME NEW s \in SKIs, OutgoingAttemptTLSBound(s)
      PROVE  WatchInv'
  <2> DEFINE op == "bind"
             kind == "bound"
             n == f.connections[s].generation
             q == [call(op, s, n) EXCEPT !.kind = kind]
  <2>1. /\ pc[Callback] = Idle /\ Lock(Callback, q) /\ F!known(f, s)
        /\ service' = service
    BY <1>2 DEF OutgoingAttemptTLSBound, callbackMuFree
  <2>2. /\ op \in withPeer \ {"publish", "finish", "queued", "select",
                              "confirm"}
        /\ kind \in Kinds \ {"terminated"}
    BY DEF withPeer, Kinds
  <2>3. n \in 0..MaxConnections
    BY <1>0, <2>1, KnownType, BoundAssumption
  <2>4. q.at = "enter"
    BY CallAt
  <2> HIDE DEF op, kind, n
  <2>5. Place(Callback, q)
    BY <2>2, <2>3, KindPlace
  <2> HIDE DEF q
  <2> QED BY <1>0, <2>1, <2>4, <2>5, WatchCall
<1>3. ASSUME NEW s \in SKIs,
             \/ Failed(s) \/ Disconnected(s) \/ Terminated(s)
             \/ \E completed \in BOOLEAN : Succeeded(s, completed)
      PROVE  WatchInv'
  <2>1. CASE c' = c /\ service' = service /\ pc' = pc
    BY <2>1 DEF WatchInv
  <2> QED BY <1>0, <1>3, <2>1, FreeAside, WatchAside
<1>4. CASE \/ NewConnection \/ AttemptBegun \/ ContinueCallback \/ Discard
           \/ Bound \/ FailureHandled
  BY <1>0, <1>4, CallbackAside, WatchAside
<1>5. CASE Restore
  <2>1. /\ pc[Bridge].at \notin waiting /\ quiet /\ goto(Bridge, Idle)
        /\ Idle.at \notin waiting
    BY <1>5, IdleFrame DEF Restore, waiting
  <2>2. Aside(Bridge)
    BY <1>0, <2>1, GoesAside DEF quiet
  <2> QED BY <1>0, <2>2, WatchAside
<1> QED BY <1>1, <1>2, <1>3, <1>4, <1>5 DEF CallbackStep, callbackKinds

LEMMA WatchOperator ==
    ASSUME PairingInv, WatchInv, NEW t \in Operators, OperatorStep(t)
    PROVE  WatchInv'
<1>0. t \in Threads /\ 0 \in 0..MaxConnections /\ pc \in [Threads -> Frame]
  BY BoundAssumption DEF Threads, PairingInv, TypeOK
<1>1. ASSUME NEW n \in 1..f.next
      PROVE  n \in 1..MaxConnections /\ n \in 0..MaxConnections
  BY BoundAssumption DEF PairingInv, TypeOK, F!Facade
<1>2. CASE Open(t)
  BY <1>0, <1>2, AdminPlace, WatchCall DEF Open, Call
<1>3. CASE Close(t)
  BY <1>0, <1>3, AdminPlace, WatchCall DEF Close, Call
<1>4. CASE Status(t)
  BY <1>0, <1>4, AdminPlace, WatchCall DEF Status, Call
<1>5. CASE Queued(t)
  <2>1. PICK x, b :
          pc' = [pc EXCEPT ![t] = [@ EXCEPT !.at = "enter", !.op = "queued",
                                            !.result = x, !.flag = b]]
    BY <1>5 DEF Queued
  <2>2. pc'[t].at = "enter" /\ \A u \in Threads \ {t} : pc'[u] = pc[u]
    BY <1>0, <2>1 DEF Frame
  <2>3. pc[t].at = "queue" /\ c' = c /\ service' = service
    BY <1>5 DEF Queued
  <2>4. Aside(t)
    BY <2>2, <2>3 DEF Aside, waiting
  <2> QED BY <1>0, <2>4, WatchAside
<1>6. ASSUME NEW s \in SKIs, Select(t, s)
      PROVE  WatchInv'
  BY <1>0, <1>6, OperatorPlace, WatchCall DEF Select, Call
<1>7. ASSUME NEW s \in SKIs, NEW n \in 1..f.next, Confirm(t, s, n)
      PROVE  WatchInv'
  BY <1>0, <1>1, <1>7, OperatorPlace, WatchCall DEF Confirm, Call
<1>8. ASSUME NEW n \in 1..f.next, Cancel(t, n)
      PROVE  WatchInv'
  BY <1>0, <1>1, <1>8, AdminPlace, WatchCall DEF Cancel, Call
<1> QED BY <1>2, <1>3, <1>4, <1>5, <1>6, <1>7, <1>8 DEF OperatorStep

LEMMA WatchPublish ==
    ASSUME PairingInv, WatchInv, NEW t \in Threads, Publish(t)
    PROVE  WatchInv'
<1>0. /\ pc[t].at = "publishing" /\ c' = c /\ service' = service
      /\ pc \in [Threads -> Frame]
  BY DEF Publish, PairingInv, TypeOK
<1>1. PICK x : pc' = [pc EXCEPT ![t].at = "enter", ![t].op = "finish",
                                ![t].result = x]
  BY DEF Publish
<1>2. pc'[t].at = "enter" /\ \A u \in Threads \ {t} : pc'[u] = pc[u]
  BY <1>0, <1>1 DEF Frame
<1>3. Aside(t)
  BY <1>0, <1>2 DEF Aside, waiting
<1> QED BY <1>3, WatchAside

LEMMA WatchEffects ==
    ASSUME PairingInv, WatchInv, Effect \/ Registered \/ Drained
    PROVE  WatchInv'
<1>0. /\ Drain \in Threads /\ Idle.at \in calm /\ Idle.at \notin waiting
      /\ service \in [advertised : BOOLEAN, registered : SUBSET SKIs]
  BY IdleFrame DEF Threads, calm, waiting, PairingInv, TypeOK
<1>1. CASE Effect
  <2> DEFINE e == Head(queue)
             r == [call("registered", e.ski, e.conn)
                   EXCEPT !.at = "registering", !.kind = e.kind]
  <2>1. /\ pc[Drain] = Idle /\ c' = c
        /\ goto(Drain, r) \/ goto(Drain, Idle)
        /\ \E R : service' = [service EXCEPT !.registered = R]
    BY <1>0, <1>1 DEF Effect
  <2>2. r.at \in calm
    BY CallAt DEF calm
  <2> HIDE DEF r
  <2>3. service'.advertised = service.advertised
    BY <1>0, <2>1
  <2>4. Aside(Drain)
    BY <1>0, <2>1, <2>2, <2>3, GoesAside, CalmNotWaiting
  <2> QED BY <1>0, <2>4, WatchAside
<1>2. CASE Registered
  <2> DEFINE r == [pc[Drain] EXCEPT !.at = "enter"]
  <2>1. /\ pc[Drain].at \notin waiting /\ c' = c /\ service' = service
        /\ goto(Drain, r) \/ goto(Drain, Idle)
    BY <1>2 DEF Registered, waiting
  <2>2. r.at \in calm
    BY <1>0, FrameAt DEF Frame, calm
  <2> HIDE DEF r
  <2>3. Aside(Drain)
    BY <1>0, <2>1, <2>2, GoesAside, CalmNotWaiting
  <2> QED BY <1>0, <2>3, WatchAside
<1>3. CASE Drained
  BY <1>3 DEF Drained, WatchInv
<1> QED BY <1>1, <1>2, <1>3

\* A step that changes nothing but the coordinator.
LEMMA WatchAlone ==
    ASSUME WatchInv, pc' = pc, service' = service, c'.known = c.known,
           c'.enabled = c.enabled, c'.fault = c.fault, shown(c) => shown(c')
    PROVE  WatchInv'
<1>1. (shown(c))' = shown(c')
  BY DEF shown
<1> QED BY <1>1 DEF WatchInv

LEMMA WatchClock ==
    ASSUME PairingInv, WatchInv, Due \/ ControlPublished
    PROVE  WatchInv'
<1>0. c \in Coordinator /\ pc' = pc /\ service' = service
  BY DEF PairingInv, TypeOK, Due, ControlPublished
<1>1. CASE c' = [c EXCEPT !.cand.due = TRUE]
  BY <1>0, <1>1, WatchAlone DEF Coordinator, shown
<1>2. CASE c.window = "open" /\ c' = [c EXCEPT !.window = "due"]
  BY <1>0, <1>2, WatchAlone DEF Coordinator, shown
<1>3. CASE ControlPublished
  BY <1>0, <1>3, WatchAlone DEF ControlPublished, Coordinator, shown
<1> QED BY <1>1, <1>2, <1>3 DEF Due

LEMMA WatchRuntime ==
    ASSUME PairingInv, WatchInv, Timer \/ TimerOfLostCandidate \/ Shutdown
    PROVE  WatchInv'
<1>0. /\ Runtime \in Threads /\ 0 \in 0..MaxConnections /\ pc[Runtime] = Idle
      /\ c \in Coordinator /\ service' = service
  BY BoundAssumption
  DEF Threads, Timer, TimerOfLostCandidate, Shutdown, PairingInv, TypeOK
<1>1. /\ Place(Runtime, call("timer", NoSKI, 0))
      /\ call("timer", NoSKI, 0).at = "enter"
      /\ Place(Runtime, call("shutdown", NoSKI, 0))
      /\ call("shutdown", NoSKI, 0).at = "enter"
  BY <1>0, AdminPlace
<1>2. CASE \/ Lock(Runtime, call("timer", NoSKI, 0))
           \/ Lock(Runtime, call("shutdown", NoSKI, 0))
  BY <1>0, <1>1, <1>2, WatchCall
<1>3. CASE c' = [c EXCEPT !.timer = "none"] /\ pc' = pc
  BY <1>0, <1>3, WatchAlone DEF Coordinator, shown
<1> QED BY <1>2, <1>3 DEF Timer, TimerOfLostCandidate, Shutdown

LEMMA WatchDiscovered ==
    ASSUME PairingInv, WatchInv, NEW seen \in SUBSET SKIs, Discovered(seen)
    PROVE  WatchInv'
<1> DEFINE e == visiblePairingCandidatesUpdated(c, seen)
<1>0. /\ Runtime \in Threads /\ Unlock(Runtime, e, Idle)
      /\ confirmed' = confirmed /\ service' = service /\ pc[Runtime] = Idle
      /\ Sound(c, confirmed) /\ c.ask = "none" /\ c \in Coordinator
  BY DEF Threads, Discovered, history, PairingInv, TypeOK
<1>1. Minor(c, e)
  BY <1>0, MinorChanges
<1> HIDE DEF e
<1>2. Sound(e, confirmed) /\ e.ask = "none"
  BY <1>0, <1>1, MinorKeeps DEF Minor
<1>3. Released(e) /\ pc' = [pc EXCEPT ![Runtime] = Idle]
  BY <1>0, <1>2 DEF Unlock, Released
<1>4. Idle.at \notin waiting /\ Idle.at # "asked"
  BY IdleFrame DEF waiting
<1>5. WatchState(Runtime, e)
  BY <1>0, <1>1, <1>4, WatchStart, MinorWatched, WatchedState
<1> QED BY <1>0, <1>2, <1>3, <1>4, <1>5, WatchReleased

LEMMA WatchNext ==
    ASSUME PairingInv, WatchInv, Next
    PROVE  WatchInv'
<1>0. Step
  BY DEF Next
<1>1. ASSUME NEW t \in Operators, OperatorStep(t)
      PROVE  WatchInv'
  BY <1>1, WatchOperator
<1>2. ASSUME NEW t \in Threads,
             \/ Enter(t) \/ SetWaiting(t) \/ WaitingSet(t) \/ PrepareFails(t)
             \/ Publish(t)
      PROVE  WatchInv'
  BY <1>2, WatchThread, WatchSetWaiting, WatchWaitingSet, WatchPublish
<1>3. CASE CallbackStep
  BY <1>3, WatchCallback
<1>4. CASE \/ Effect \/ Registered \/ Drained \/ Due \/ ControlPublished
           \/ Timer \/ TimerOfLostCandidate \/ Shutdown
  BY <1>4, WatchEffects, WatchClock, WatchRuntime
<1>5. ASSUME NEW seen \in SUBSET SKIs, Discovered(seen)
      PROVE  WatchInv'
  BY <1>5, WatchDiscovered
<1> QED BY <1>0, <1>1, <1>2, <1>3, <1>4, <1>5 DEF Step

LEMMA WatchInit ==
    ASSUME Init
    PROVE  WatchInv
<1>1. /\ c.known /\ ~c.enabled /\ service.advertised = FALSE
      /\ c.enabled = FALSE
  BY DEF Init, Closed
<1>2. \A t \in Threads : pc[t].at = "idle"
  BY IdleFrame DEF Init
<1>3. \A t \in Threads : pc[t].at \notin waiting /\ pc[t].at # "asked"
  BY <1>2 DEF waiting
<1> QED BY <1>1, <1>3 DEF WatchInv

\* Between two calls of the service the registration is what the coordinator
\* believes, and it is on only for an open window or its commit: whatever
\* closes the window (an operator, a deadline, a callback, a queue call that
\* failed), the thread that did so turns the registration off, also when other
\* threads enter the coordinator while setWaitingLocked has released its mutex.
THEOREM RegistrationIsNotLeftOn == Spec => []RegistrationEnds
<1> DEFINE IInv == PairingInv /\ WatchInv
<1>1. Init => IInv
  BY InitKeeps, WatchInit
<1>2. IInv /\ [Next]_<<vars, scenario>> => IInv'
  <2>1. ASSUME IInv, Next
        PROVE  IInv'
    BY <2>1, NextKeeps, WatchNext
  <2>2. ASSUME IInv, UNCHANGED <<vars, scenario>>
        PROVE  IInv'
    BY <2>2, StutterKeeps DEF vars, WatchInv
  <2> QED BY <2>1, <2>2
<1>3. IInv => RegistrationEnds
  <2> SUFFICES ASSUME PairingInv, WatchInv
               PROVE  RegistrationEnds
    OBVIOUS
  <2>1. PhaseOK
    BY DEF PairingInv, Sound, PhasesOf, PhaseOK
  <2>2. ASSUME ~calling, ~c.fault
        PROVE  /\ service.advertised = c.enabled
               /\ c.enabled => c.window # "none" \/ c.phase = "Committing"
    <3>1. \A t \in Threads : pc[t].at # "asked" /\ ~turnsOff(pc[t])
      BY <2>2 DEF calling, turnsOff, waiting
    <3> QED BY <2>2, <3>1 DEF WatchInv, shown
  <2> QED BY <2>1, <2>2 DEF RegistrationEnds
<1> QED BY <1>1, <1>2, <1>3, PTL DEF Spec

=============================================================================
