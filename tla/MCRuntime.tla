----------------------------- MODULE MCRuntime ------------------------------
(* Instances of OperatorAdmin, which extends Runtime, for TLC. *)
EXTENDS OperatorAdmin

CONSTANTS u1, u2, v1, v2

scenario(us, vs, connections, trusts, visible, faults) ==
    [starters |-> us, stoppers |-> vs, connections |-> connections,
     trust |-> trusts, visible |-> visible, faults |-> faults,
     admin |-> None]

\* Overlapping calls of Start and Shutdown, without a peer.
Overlapping == scenario({u1, u2}, {v1, v2}, 0, 1, 0, AllFaults)
\* A peer that connects twice; one that connects while the trust changes; one
\* that is connected while the runtime is shut down.
Reconnecting == scenario({u1}, {}, 2, 0, 0, {})
Denied == scenario({u1}, {}, 1, 1, 0, {})
Closing == scenario({u1}, {v1}, 1, 0, 0, {"report"})
\* A peer that is only seen.
Seen == scenario({u1}, {v1}, 0, 1, 1, AllFaults)
\* A runtime that is administered: a peer is selected and connected; a candidate
\* is confirmed or a partner revoked; requests are repeated; the runtime is shut
\* down meanwhile.
administered(vs, ops, others, moves, effects) ==
    [scenario({u1}, vs, 0, 0, 0, {}) EXCEPT
       !.admin = [ops |-> ops, others |-> others, moves |-> moves,
                  effects |-> effects]]
Selecting == administered({}, {"select", "close"},
    {"sees", "closes", "opens"}, 4, 2)
Connecting == administered({}, {"select", "connect"},
    {"sees", "opens", "attempts", "details", "disconnects"}, 4, 3)
Confirming == administered({}, {"confirm", "cancel", "retry", "untrust"},
    {"opens", "arrives", "completes", "ends", "confirms", "revokes"}, 6, 2)
Repeating == [administered({}, {"open", "close", "untrust"}, {"sees"}, 1, 4)
              EXCEPT !.faults = {"cancel"}]
ClosingAdmin == administered({v1}, {"select", "connect"},
    {"opens", "sees"}, 2, 1)

TheScenarios == {Overlapping, Reconnecting, Denied, Closing, Seen, Selecting,
                 Connecting, Confirming, Repeating, ClosingAdmin}
=============================================================================
