-------------------------- MODULE MutationJournal --------------------------
(***************************************************************************)
(* The write-ahead journal file of internal/eebusmutation/journal.go: the   *)
(* append with its write loop, fsync and prefix repair, the poisoned state, *)
(* close, crash, and the open that repairs a torn tail.                     *)
(*                                                                          *)
(* The file is a sequence of complete lines and perhaps an unterminated     *)
(* piece of one more record: "torn" (not a whole JSON document) or "whole"  *)
(* (the document without its newline).  Hash commitments are abstracted to  *)
(* what they bind: a record carries its sequence number and the record it   *)
(* follows.  One caller at a time appends; the coordinator's writer lease   *)
(* sees to that (MutationCoordinator!WriterExclusive).                      *)
(***************************************************************************)
EXTENDS Sequences, Naturals

CONSTANTS
    Payload,     \* what the coordinator records
    NoRecord,    \* no record
    MaxRecords   \* bound on the length of the journal

ASSUME JournalAssumption == MaxRecords \in Nat

\* PreviousRecordHash is abstracted to the payload it commits to.
Record == [sequence : Nat \ {0}, previous : Payload \cup {NoRecord},
           payload : Payload]

ASSUME NoRecordAssumption == NoRecord \notin Record

\* How much of a record is in the file, in the order of its bytes.
Form == {"nothing", "torn", "whole", "line"}
Prefixes(form) ==
    CASE form = "nothing" -> {"nothing"}
      [] form = "torn" -> {"nothing", "torn"}
      [] form = "whole" -> {"nothing", "torn", "whole"}
      [] OTHER -> Form

VARIABLES
    file,      \* complete lines, as the process sees the file
    piece,     \* form of the unterminated rest: "nothing", "torn", "whole"
    disk,      \* complete lines that are certainly on disk
    residue,   \* a record that may be on disk after those, and ...
    reach,     \* ... at most so much of it
    status,    \* "closed", "repairing", "open" or "refused"
    at,        \* "idle", "write", "sync", "truncate", "resync"
    record,    \* the record that append() is writing
    sequence,  \* journal.sequence
    lastHash,  \* journal.lastHash
    poisoned,  \* journal.poisoned
    acked      \* history: how many appends have returned nil

journal == <<sequence, lastHash, poisoned>>
storage == <<file, piece, disk, residue, reach>>
vars == <<storage, status, at, record, journal, acked>>

TypeOK ==
    /\ file \in Seq(Record) /\ disk \in Seq(Record)
    /\ piece \in {"nothing", "torn", "whole"}
    /\ residue \in Record \cup {NoRecord}
    /\ reach \in Form
    /\ status \in {"closed", "repairing", "open", "refused"}
    /\ at \in {"idle", "write", "sync", "truncate", "resync"}
    /\ record \in Record \cup {NoRecord}
    /\ sequence \in Nat
    /\ lastHash \in Payload \cup {NoRecord}
    /\ poisoned \in BOOLEAN
    /\ acked \in Nat

Init ==
    /\ file = << >> /\ disk = << >> /\ piece = "nothing"
    /\ residue = NoRecord /\ reach = "nothing"
    /\ status = "closed" /\ at = "idle" /\ record = NoRecord
    /\ sequence = 0 /\ lastHash = NoRecord /\ poisoned = FALSE
    /\ acked = 0

\* The payload that the next record's PreviousRecordHash commits to.
hashOfLast(lines) ==
    IF lines = << >> THEN NoRecord ELSE lines[Len(lines)].payload

\* readRawMutationJournal: sequence numbers and hash links of all lines.
chained(lines) ==
    \A i \in 1..Len(lines) :
        /\ lines[i].sequence = i
        /\ lines[i].previous =
             IF i = 1 THEN NoRecord ELSE lines[i-1].payload

-----------------------------------------------------------------------------
(* append().  A poisoned journal refuses at once, which changes nothing.    *)

BeginAppend ==
    /\ status = "open" /\ at = "idle" /\ ~poisoned
    /\ sequence < MaxRecords
    /\ \E p \in Payload :
         record' = [sequence |-> sequence + 1, previous |-> lastHash,
                    payload |-> p]
    /\ at' = "write"
    /\ UNCHANGED <<storage, status, journal, acked>>

\* One journal.write: a part of the record or the rest of it.  The loop goes
\* on after a part, and ends after an error or a write of no bytes.
Write ==
    /\ at = "write"
    /\ residue' = record
    /\ \/ /\ file' = Append(file, record)
          /\ piece' = "nothing" /\ reach' = "line"
          /\ at' = "sync"
       \/ /\ piece # "whole" /\ piece' \in {"torn", "whole"}
          /\ reach' = piece'
          /\ at' \in {"write", "truncate"}
          /\ UNCHANGED file
    /\ UNCHANGED <<disk, status, record, journal, acked>>

\* journal.write fails without writing.
WriteFails ==
    /\ at = "write"
    /\ at' = "truncate"
    /\ UNCHANGED <<storage, status, record, journal, acked>>

\* Faulty variant of Sync: the append is acknowledged without the fsync.
SyncSkipped ==
    /\ at = "sync"
    /\ sequence' = record.sequence
    /\ lastHash' = record.payload
    /\ acked' = acked + 1
    /\ at' = "idle" /\ record' = NoRecord
    /\ UNCHANGED <<storage, status, poisoned>>

\* SyncFile succeeds and the append is acknowledged.
Sync ==
    /\ at = "sync"
    /\ disk' = file
    /\ residue' = NoRecord /\ reach' = "nothing"
    /\ sequence' = record.sequence
    /\ lastHash' = record.payload
    /\ acked' = acked + 1
    /\ at' = "idle" /\ record' = NoRecord
    /\ UNCHANGED <<file, piece, status, poisoned>>

SyncFails ==
    /\ at = "sync"
    /\ at' = "truncate"
    /\ UNCHANGED <<storage, status, record, journal, acked>>

\* Faulty variant of Truncate: one line too many is cut off.
TruncateTooFar ==
    /\ at = "truncate"
    /\ file' = SubSeq(file, 1, sequence - 1)
    /\ piece' = "nothing"
    /\ at' = "resync"
    /\ UNCHANGED <<disk, residue, reach, status, record, journal, acked>>

\* restorePrefix: Truncate to the offset at which the append began.
Truncate ==
    /\ at = "truncate"
    /\ file' = SubSeq(file, 1, sequence)
    /\ piece' = "nothing"
    /\ at' = "resync"
    /\ UNCHANGED <<disk, residue, reach, status, record, journal, acked>>

\* restorePrefix: the truncated file is synced, the append fails cleanly.
Resync ==
    /\ at = "resync"
    /\ disk' = file
    /\ residue' = NoRecord /\ reach' = "nothing"
    /\ at' = "idle" /\ record' = NoRecord
    /\ UNCHANGED <<file, piece, status, journal, acked>>

\* Truncate or the sync after it fails: the journal is poisoned.
RestoreFails ==
    /\ at \in {"truncate", "resync"}
    /\ poisoned' = TRUE
    /\ at' = "idle" /\ record' = NoRecord
    /\ UNCHANGED <<storage, status, sequence, lastHash, acked>>

-----------------------------------------------------------------------------
(* close(), crash, openRawMutationJournal.                                  *)

Close ==
    /\ status = "open" /\ at = "idle"
    /\ status' = "closed"
    /\ UNCHANGED <<storage, at, record, journal, acked>>

\* The disk keeps what was synced and any part of what was not.
Crash ==
    /\ status # "refused"
    /\ \E form \in Prefixes(reach) :
         /\ reach' = IF form = "line" THEN "nothing" ELSE form
         /\ residue' = IF form \in {"nothing", "line"} THEN NoRecord
                                                       ELSE residue
         /\ disk' = IF form = "line" THEN Append(disk, residue) ELSE disk
         /\ file' = disk'
         /\ piece' = IF form = "line" THEN "nothing" ELSE form
    /\ status' = "closed" /\ at' = "idle" /\ record' = NoRecord
    /\ sequence' = 0 /\ lastHash' = NoRecord /\ poisoned' = FALSE
    /\ UNCHANGED acked

\* The journal that open returns for the lines it has read.
opened ==
    /\ status' = "open"
    /\ sequence' = Len(file)
    /\ lastHash' = hashOfLast(file)
    /\ poisoned' = FALSE

\* Faulty variant of repairable: a torn record is not repaired.
neverRepairable == FALSE

\* Only an unterminated piece that is not a whole document is cut off.
repairable == piece = "torn"

\* Sync, then read.  A file that does not end with a newline is repaired
\* only if its last piece is torn; any other defect is refused.
Open ==
    /\ status = "closed"
    /\ \/ /\ piece = "nothing" /\ chained(file)
          /\ disk' = file
          /\ residue' = NoRecord /\ reach' = "nothing"
          /\ opened
          /\ UNCHANGED <<file, piece>>
       \/ /\ repairable
          /\ piece' = "nothing"
          /\ reach' = "torn"
          /\ disk' = file
          /\ status' = "repairing"
          /\ UNCHANGED <<file, residue, journal>>
       \/ /\ ~repairable /\ ~ (piece = "nothing" /\ chained(file))
          /\ status' = "refused"
          /\ UNCHANGED <<storage, journal>>
    /\ UNCHANGED <<at, record, acked>>

\* The repaired file is synced and its lines are read.
RepairSync ==
    /\ status = "repairing"
    /\ \/ /\ chained(file)
          /\ residue' = NoRecord /\ reach' = "nothing"
          /\ opened
       \/ /\ ~chained(file)
          /\ status' = "refused"
          /\ UNCHANGED <<residue, reach, journal>>
    /\ UNCHANGED <<file, piece, disk, at, record, acked>>

\* A sync fails during the repair: the open fails and can be tried again.
RepairFails ==
    /\ status = "repairing"
    /\ status' = "closed"
    /\ UNCHANGED <<storage, at, record, journal, acked>>

Next ==
    \/ BeginAppend \/ Write \/ WriteFails \/ Sync \/ SyncFails
    \/ Truncate \/ Resync \/ RestoreFails
    \/ Close \/ Crash \/ Open \/ RepairSync \/ RepairFails

Spec == Init /\ [][Next]_vars

-----------------------------------------------------------------------------
(* Properties.                                                              *)

\* Whatever a crash leaves of the file, its complete lines are numbered
\* without gap or repetition and linked, so readRawMutationJournal never
\* refuses a journal because of a failed or interrupted append.
ChainSurvives ==
    /\ chained(file)
    /\ chained(disk)
    /\ reach = "line" => chained(Append(disk, residue))

\* An acknowledged record is on disk before append() returns: while the
\* journal is open and idle its counter never runs ahead of the disk.
AcknowledgedIsDurable ==
    status = "open" => sequence = Len(disk) /\ lastHash = hashOfLast(disk)

\* An open refuses the file only over a record that lacks nothing but its
\* newline, and such a record was never acknowledged.
RefusedOnlyUnterminated ==
    status = "refused" => piece = "whole" /\ acked <= Len(disk)

Log == INSTANCE AppendLog WITH log <- disk, doubt <- residue

\* The file implements the append-only log.
ImplementsLog == Log!Spec

=============================================================================
