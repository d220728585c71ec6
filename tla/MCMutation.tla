----------------------------- MODULE MCMutation -----------------------------
(* Instances of MutationCoordinator for TLC. *)
EXTENDS MutationCoordinator

set(i, k, v, m) == [id |-> i, key |-> k, value |-> v, mode |-> m]
undo(i, k, r) == [id |-> i, key |-> k, ref |-> r]

\* One probe, called twice at the same time, and one rollback of it.
RetriedProbe == {set(1, "m1", "v1", "probe"), set(2, "m1", "v1", "probe")}
OneProbe == {set(1, "m1", "v1", "probe")}
UndoOne == {undo(1, "k1", "m1")}

\* Two mutations to different values.
ProbeAndApply == {set(1, "m1", "v1", "probe"), set(1, "m2", "v2", "apply")}

=============================================================================
