----------------------------- MODULE MCPairing ------------------------------
(* Instances of Pairing for TLC. *)
EXTENDS Pairing

\* Two connections of a peer that is selected, with a failing registration
\* call, a moving store and shutdown.
Reconnected == [selecting |-> TRUE, overlap |-> FALSE, connections |-> 2,
                disturbances |-> {"store", "shutdown", "registration"}]
\* Other operations run while a registration call is out; attempts fail or are
\* terminated, and the candidate queue fails.
Overlapping(selecting) ==
    [selecting |-> selecting, overlap |-> TRUE, connections |-> 1,
     disturbances |-> {"failure", "termination", "queue"}]
\* Nothing goes wrong.
Calm == [selecting |-> TRUE, overlap |-> TRUE, connections |-> 1,
         disturbances |-> {}]

TheScenarios == {Reconnected, Overlapping(TRUE), Overlapping(FALSE)}
CalmOnly == {Calm}
=============================================================================
