----------------------------- MODULE AppendLog -----------------------------
(***************************************************************************)
(* What the raw-mutation journal promises its coordinator.  An append that  *)
(* is acknowledged is in the log for good.  An append that is not           *)
(* acknowledged is dropped, or stays in doubt until a later open finds its  *)
(* record or not; while one is in doubt no other append begins, so the log  *)
(* never holds two records in place of one.                                 *)
(***************************************************************************)
EXTENDS Sequences, Naturals

CONSTANTS
    Record,     \* journal records
    NoRecord    \* no append is in doubt

VARIABLES
    log,        \* the records that every later open returns
    doubt,      \* the record of an append in progress or gone wrong
    acked       \* history: how many records append() has acknowledged

vars == <<log, doubt, acked>>

Init ==
    /\ log = << >>
    /\ doubt = NoRecord
    /\ acked = 0

\* An append has put some of its record into the file.
Offer ==
    /\ doubt = NoRecord
    /\ doubt' \in Record
    /\ UNCHANGED <<log, acked>>

\* append() returns nil.
Acknowledge ==
    /\ doubt # NoRecord
    /\ log' = Append(log, doubt)
    /\ doubt' = NoRecord
    /\ acked' = acked + 1

\* A crash or an open finds the whole record although nobody was told.
Absorb ==
    /\ doubt # NoRecord
    /\ log' = Append(log, doubt)
    /\ doubt' = NoRecord
    /\ UNCHANGED acked

\* The record is certainly not in the file.
Drop ==
    /\ doubt # NoRecord
    /\ doubt' = NoRecord
    /\ UNCHANGED <<log, acked>>

Next == Offer \/ Acknowledge \/ Absorb \/ Drop

Spec == Init /\ [][Next]_vars

=============================================================================
