---------------------- MODULE MutationJournal_proofs ----------------------
(***************************************************************************)
(* What MutationJournal's run checks for short journals, proved for every   *)
(* set of payloads and every length: the inductive invariant, the safety    *)
(* invariants that follow from it, and the step simulation of AppendLog.    *)
(***************************************************************************)
EXTENDS MutationJournal, TLAPS

\* r is the one record that may follow lines in the file.
Follows(r, lines) ==
    /\ r \in Record
    /\ r.sequence = Len(lines) + 1
    /\ r.previous = hashOfLast(lines)

\* The disk is a chain, and at most one record, its successor, is in doubt.
DiskInv ==
    /\ chained(disk)
    /\ acked <= Len(disk)
    /\ residue = NoRecord <=> reach = "nothing"
    /\ residue # NoRecord => Follows(residue, disk)

\* The file is the disk, with all, a part or nothing of the record in doubt.
FileInv ==
    /\ \/ file = disk
       \/ file = Append(disk, residue) /\ reach = "line" /\ piece = "nothing"
    /\ piece # "nothing" =>
         residue # NoRecord /\ file = disk /\ piece \in Prefixes(reach)

\* The open journal counts the disk; while append() runs, its record is the
\* only one that can be in doubt.
AppendInv ==
    /\ status = "open" =>
         sequence = Len(disk) /\ lastHash = hashOfLast(disk)
    /\ at # "idle" =>
         /\ status = "open" /\ Follows(record, disk)
         /\ residue # NoRecord => residue = record
    /\ at = "write" => file = disk
    /\ at = "sync" => file = Append(disk, record) /\ residue = record
                      /\ piece = "nothing"
    /\ at = "resync" => file = disk /\ piece = "nothing"
    /\ status = "open" /\ at = "idle" /\ ~poisoned =>
         residue = NoRecord /\ file = disk /\ piece = "nothing"

OpenInv ==
    /\ status = "repairing" =>
         piece = "nothing" /\ file = disk /\ reach = "torn"
    /\ status = "refused" => piece = "whole"

\* The inductive invariant.
IndInv == TypeOK /\ DiskInv /\ FileInv /\ AppendInv /\ OpenInv

-----------------------------------------------------------------------------
(* Lemmas on chains.                                                        *)

\* Appending the record that follows a chain gives a chain.
LEMMA ChainGrows ==
    ASSUME NEW lines \in Seq(Record), chained(lines),
           NEW r, Follows(r, lines)
    PROVE  /\ Append(lines, r) \in Seq(Record)
           /\ chained(Append(lines, r))
           /\ Len(Append(lines, r)) = Len(lines) + 1
           /\ hashOfLast(Append(lines, r)) = r.payload
<1> DEFINE n == Len(lines)
           more == Append(lines, r)
<1>1. r \in Record /\ r.sequence = n + 1 /\ r.previous = hashOfLast(lines)
  BY DEF Follows
<1>2. n \in Nat /\ more \in Seq(Record) /\ Len(more) = n + 1
  BY <1>1
<1>3. more[n + 1] = r /\ \A i \in 1..n : more[i] = lines[i]
  BY <1>1
<1>4. hashOfLast(more) = r.payload
  BY <1>2, <1>3 DEF hashOfLast
<1>5. r.previous = IF n + 1 = 1 THEN NoRecord ELSE more[n].payload
  <2>1. CASE n = 0
    BY <2>1, <1>1 DEF hashOfLast
  <2>2. CASE n # 0
    BY <2>2, <1>1, <1>2, <1>3 DEF hashOfLast
  <2> QED BY <2>1, <2>2
<1>6. chained(more)
  <2> SUFFICES ASSUME NEW i \in 1..(n + 1)
               PROVE  /\ more[i].sequence = i
                      /\ more[i].previous = IF i = 1 THEN NoRecord
                                            ELSE more[i-1].payload
    BY <1>2 DEF chained
  <2>1. CASE i = n + 1
    BY <2>1, <1>1, <1>2, <1>3, <1>5
  <2>2. CASE i \in 1..n
    <3>1. more[i] = lines[i] /\ (i # 1 => more[i-1] = lines[i-1])
      BY <2>2, <1>2, <1>3
    <3> QED BY <3>1, <2>2 DEF chained
  <2> QED BY <2>1, <2>2, <1>2
<1> QED BY <1>2, <1>4, <1>6

\* Truncating a file to the length of the disk leaves what is on disk.
LEMMA TruncateRestores ==
    ASSUME NEW lines \in Seq(Record), NEW r \in Record
    PROVE  /\ SubSeq(lines, 1, Len(lines)) = lines
           /\ SubSeq(Append(lines, r), 1, Len(lines)) = lines
<1> QED OBVIOUS

\* The hash link of the next record is a payload, or none at the start.
LEMMA HashType ==
    ASSUME NEW lines \in Seq(Record)
    PROVE  Len(lines) \in Nat /\ hashOfLast(lines) \in Payload \cup {NoRecord}
<1>1. CASE lines = << >>
  BY <1>1 DEF hashOfLast
<1>2. CASE lines # << >>
  <2>1. Len(lines) \in 1..Len(lines)
    BY <1>2
  <2>2. lines[Len(lines)] \in Record
    BY <2>1
  <2> QED BY <1>2, <2>2 DEF hashOfLast, Record
<1> QED BY <1>1, <1>2

-----------------------------------------------------------------------------
(* The invariant is inductive: one step per action.                         *)

LEMMA InitIndInv == Init => IndInv
<1> SUFFICES ASSUME Init PROVE IndInv
  OBVIOUS
<1>1. disk \in Seq(Record) /\ Len(disk) = 0 /\ chained(disk)
  BY DEF Init, chained
<1>2. TypeOK
  BY <1>1 DEF Init, TypeOK, Form
<1>3. DiskInv /\ FileInv
  BY <1>1 DEF Init, DiskInv, FileInv
<1>4. AppendInv /\ OpenInv
  BY DEF Init, AppendInv, OpenInv
<1> QED BY <1>2, <1>3, <1>4 DEF IndInv

LEMMA NextIndInv == IndInv /\ [Next]_vars => IndInv'
<1> SUFFICES ASSUME IndInv, [Next]_vars PROVE IndInv'
  OBVIOUS
<1> USE NoRecordAssumption DEF IndInv
<1>0. Len(disk) \in Nat /\ (Follows(residue, disk) => residue \in Record)
  BY DEF TypeOK, Follows
<1>1. CASE BeginAppend
  <2>1. Follows(record', disk)
    BY <1>1, <1>0 DEF BeginAppend, TypeOK, AppendInv, Follows, Record
  <2>2. TypeOK'
    BY <1>1, <2>1 DEF BeginAppend, TypeOK, Follows, storage, journal
  <2> QED BY <1>1, <2>1, <2>2
          DEF BeginAppend, DiskInv, FileInv, AppendInv, OpenInv, storage,
              journal, Follows, chained, hashOfLast
<1>2. CASE Write
  <2>1. Follows(record, disk) /\ record \in Record /\ record # NoRecord
    BY <1>2 DEF Write, AppendInv, Follows
  <2>2. TypeOK'
    BY <1>2, <2>1 DEF Write, TypeOK, journal, Form
  <2>3. DiskInv'
    BY <1>2, <2>1 DEF Write, DiskInv, Follows, chained, hashOfLast
  <2>4. FileInv'
    BY <1>2, <2>1 DEF Write, FileInv, AppendInv, Prefixes
  <2>5. AppendInv' /\ OpenInv'
    BY <1>2, <2>1 DEF Write, AppendInv, OpenInv, journal, Follows, hashOfLast
  <2> QED BY <2>2, <2>3, <2>4, <2>5
<1>3. CASE WriteFails \/ SyncFails
  BY <1>3 DEF WriteFails, SyncFails, TypeOK, DiskInv, FileInv, AppendInv,
              OpenInv, storage, journal, Follows, chained, hashOfLast
<1>4. CASE Sync
  <2>1. Follows(record, disk) /\ record \in Record /\ record # NoRecord
        /\ file = Append(disk, record)
    BY <1>4 DEF Sync, AppendInv, Follows
  <2>2. /\ chained(file) /\ Len(file) = Len(disk) + 1
        /\ hashOfLast(file) = record.payload
    BY <2>1, ChainGrows DEF TypeOK, DiskInv
  <2>3. TypeOK'
    BY <1>4, <2>1, <1>0 DEF Sync, TypeOK, Form, Record
  <2>4. DiskInv'
    BY <1>4, <1>0, <2>2 DEF Sync, DiskInv, TypeOK, chained
  <2>5. FileInv'
    BY <1>4 DEF Sync, FileInv, AppendInv
  <2>6. AppendInv' /\ OpenInv'
    BY <1>4, <2>1, <2>2
       DEF Sync, AppendInv, OpenInv, Follows, hashOfLast
  <2> QED BY <2>3, <2>4, <2>5, <2>6
<1>5. CASE Truncate
  <2>1. status = "open" /\ sequence = Len(disk)
    BY <1>5 DEF Truncate, AppendInv
  <2>2. file' = disk
    <3>1. CASE file = disk
      BY <3>1, <1>5, <2>1, TruncateRestores, NoRecordAssumption
         DEF Truncate, TypeOK, AppendInv, Follows
    <3>2. CASE file = Append(disk, residue) /\ residue \in Record
      BY <3>2, <1>5, <2>1, TruncateRestores DEF Truncate, TypeOK
    <3>3. \/ file = disk
          \/ file = Append(disk, residue) /\ residue \in Record
      BY <1>0 DEF FileInv, DiskInv
    <3> QED BY <3>1, <3>2, <3>3
  <2> QED BY <1>5, <2>1, <2>2
          DEF Truncate, TypeOK, DiskInv, FileInv, AppendInv, OpenInv, journal,
              Follows, chained, hashOfLast
<1>6. CASE Resync
  BY <1>6 DEF Resync, TypeOK, DiskInv, FileInv, AppendInv, OpenInv, journal,
              Form, chained, hashOfLast
<1>7. CASE RestoreFails
  BY <1>7 DEF RestoreFails, TypeOK, DiskInv, FileInv, AppendInv, OpenInv,
              storage, Follows, chained, hashOfLast
<1>8. CASE Close
  BY <1>8 DEF Close, TypeOK, DiskInv, FileInv, AppendInv, OpenInv, storage,
              journal, Follows, chained, hashOfLast
<1>9. CASE Crash
  <2>1. PICK form \in Prefixes(reach) :
          /\ reach' = IF form = "line" THEN "nothing" ELSE form
          /\ residue' = IF form \in {"nothing", "line"} THEN NoRecord
                                                       ELSE residue
          /\ disk' = IF form = "line" THEN Append(disk, residue) ELSE disk
          /\ file' = disk'
          /\ piece' = IF form = "line" THEN "nothing" ELSE form
    BY <1>9 DEF Crash
  <2>2. /\ form \in Form
        /\ form \in {"torn", "whole", "line"} => residue \in Record
    BY <2>1, <1>0 DEF Prefixes, Form, TypeOK, DiskInv
  <2>3. form = "line" => /\ chained(disk') /\ disk' \in Seq(Record)
                         /\ Len(disk') = Len(disk) + 1
    BY <2>1, <2>2, ChainGrows DEF DiskInv, TypeOK
  <2>4. TypeOK'
    BY <1>9, <2>1, <2>2, <2>3 DEF Crash, TypeOK, Form
  <2>5. DiskInv'
    <3>1. CASE form = "line"
      BY <3>1, <1>9, <1>0, <2>1, <2>3 DEF Crash, DiskInv, TypeOK
    <3>2. CASE form # "line"
      BY <3>2, <1>9, <2>1, <2>2
         DEF Crash, DiskInv, Form, Follows, chained, hashOfLast
    <3> QED BY <3>1, <3>2
  <2>6. FileInv'
    BY <2>1, <2>2 DEF FileInv, Form, Prefixes
  <2>7. AppendInv' /\ OpenInv'
    BY <1>9 DEF Crash, AppendInv, OpenInv
  <2> QED BY <2>4, <2>5, <2>6, <2>7
<1>10. CASE Open
  <2>1. CASE piece = "nothing"
    <3>1. chained(file) /\ Len(disk) <= Len(file) /\ Len(file) \in Nat
      <4>1. CASE file = disk
        BY <4>1, <1>0 DEF DiskInv
      <4>2. CASE file = Append(disk, residue) /\ reach = "line"
        BY <4>2, <1>0, ChainGrows DEF DiskInv, TypeOK
      <4> QED BY <4>1, <4>2 DEF FileInv
    <3>2. hashOfLast(file) \in Payload \cup {NoRecord}
      BY HashType DEF TypeOK
    <3>3. /\ file' = file /\ disk' = file /\ piece' = "nothing"
          /\ residue' = NoRecord /\ reach' = "nothing"
          /\ status' = "open" /\ at' = at /\ record' = record
          /\ sequence' = Len(file) /\ lastHash' = hashOfLast(file)
          /\ poisoned' = FALSE /\ acked' = acked
      BY <1>10, <2>1, <3>1 DEF Open, repairable, opened
    <3>4. TypeOK'
      BY <3>1, <3>2, <3>3 DEF TypeOK, Form
    <3>5. DiskInv'
      BY <1>0, <3>1, <3>3 DEF DiskInv, TypeOK, chained
    <3>6. FileInv'
      BY <3>3 DEF FileInv
    <3>7. at = "idle"
      BY <1>10 DEF Open, AppendInv
    <3>8. AppendInv' /\ OpenInv'
      BY <3>3, <3>7 DEF AppendInv, OpenInv, hashOfLast
    <3> QED BY <3>4, <3>5, <3>6, <3>8
  <2>2. CASE piece # "nothing"
    <3>1. file = disk /\ residue # NoRecord /\ piece \in {"torn", "whole"}
          /\ piece \in Prefixes(reach)
      BY <2>2 DEF FileInv, TypeOK
    <3> QED BY <1>10, <2>2, <3>1
            DEF Open, repairable, opened, TypeOK, DiskInv, FileInv, AppendInv, OpenInv,
                Form, chained, hashOfLast, storage, journal, Follows
  <2> QED BY <2>1, <2>2
<1>11. CASE RepairSync
  <2>1. hashOfLast(file) \in Payload \cup {NoRecord} /\ Len(file) \in Nat
    BY HashType DEF TypeOK
  <2>2. chained(file)
    BY <1>11 DEF RepairSync, OpenInv, DiskInv
  <2> QED BY <1>11, <2>1, <2>2
          DEF RepairSync, opened, TypeOK, DiskInv, FileInv, AppendInv, OpenInv,
              Form, chained, hashOfLast
<1>12. CASE RepairFails
  BY <1>12 DEF RepairFails, TypeOK, DiskInv, FileInv, AppendInv, OpenInv,
               storage, journal, Follows, chained, hashOfLast
<1>13. CASE UNCHANGED vars
  BY <1>13 DEF vars, TypeOK, DiskInv, FileInv, AppendInv, OpenInv, storage,
               journal, Follows, chained, hashOfLast
<1> QED BY <1>1, <1>2, <1>3, <1>4, <1>5, <1>6, <1>7, <1>8, <1>9, <1>10,
           <1>11, <1>12, <1>13 DEF Next

LEMMA AlwaysIndInv == Spec => []IndInv
<1> QED BY InitIndInv, NextIndInv, PTL DEF Spec

-----------------------------------------------------------------------------
(* What follows from it.                                                    *)

\* Every variable of the journal keeps its type, whatever write, fsync,
\* truncate or crash does in append() and openRawMutationJournal.
THEOREM JournalTypes == Spec => []TypeOK
<1>1. IndInv => TypeOK
  BY DEF IndInv
<1> QED BY <1>1, AlwaysIndInv, PTL

\* No failed, torn or interrupted append() breaks the numbering and the hash
\* links that readRawMutationJournal checks.
THEOREM JournalChainSurvives == Spec => []ChainSurvives
<1>1. IndInv => ChainSurvives
  <2> SUFFICES ASSUME IndInv PROVE ChainSurvives
    OBVIOUS
  <2>1. chained(disk) /\ disk \in Seq(Record)
    BY DEF IndInv, DiskInv, TypeOK
  <2>2. reach = "line" => Follows(residue, disk)
    BY DEF IndInv, DiskInv
  <2>3. reach = "line" => chained(Append(disk, residue))
    BY <2>1, <2>2, ChainGrows
  <2>4. chained(file)
    BY <2>1, <2>3 DEF IndInv, FileInv
  <2> QED BY <2>1, <2>3, <2>4 DEF ChainSurvives
<1> QED BY <1>1, AlwaysIndInv, PTL

\* journal.sequence and journal.lastHash never run ahead of the disk, so a
\* record is durable before append() returns nil.
THEOREM JournalAcknowledgedIsDurable == Spec => []AcknowledgedIsDurable
<1>1. IndInv => AcknowledgedIsDurable
  BY DEF IndInv, AppendInv, AcknowledgedIsDurable
<1> QED BY <1>1, AlwaysIndInv, PTL

\* openRawMutationJournal refuses its own file for one reason only: a whole
\* record without its newline, which append() never acknowledged.
THEOREM JournalRefusedOnlyUnterminated == Spec => []RefusedOnlyUnterminated
<1>1. IndInv => RefusedOnlyUnterminated
  BY DEF IndInv, OpenInv, DiskInv, RefusedOnlyUnterminated
<1> QED BY <1>1, AlwaysIndInv, PTL

-----------------------------------------------------------------------------
(* The refinement.                                                          *)

\* A step of the journal is a step of the log, or changes nothing of it.
LEMMA StepSimulation == IndInv /\ [Next]_vars => [Log!Next]_(Log!vars)
<1> SUFFICES ASSUME IndInv, [Next]_vars
             PROVE  Log!Next \/ UNCHANGED <<disk, residue, acked>>
  BY DEF Log!vars
<1> USE NoRecordAssumption DEF IndInv
<1>1. CASE Write
  <2>1. record \in Record /\ (residue # NoRecord => residue = record)
    BY <1>1 DEF Write, AppendInv, Follows
  <2>2. disk' = disk /\ acked' = acked /\ residue' = record
    BY <1>1 DEF Write
  <2>3. CASE residue = NoRecord
    BY <2>1, <2>2, <2>3 DEF Log!Next, Log!Offer
  <2>4. CASE residue # NoRecord
    BY <2>1, <2>2, <2>4
  <2> QED BY <2>3, <2>4
<1>2. CASE Sync
  <2>1. record \in Record /\ residue = record /\ file = Append(disk, record)
    BY <1>2 DEF Sync, AppendInv, Follows
  <2> QED BY <1>2, <2>1 DEF Sync, Log!Next, Log!Acknowledge
<1>3. CASE Resync
  BY <1>3 DEF Resync, AppendInv, Log!Next, Log!Drop
<1>4. CASE Crash
  <2>1. PICK form \in Prefixes(reach) :
          /\ residue' = IF form \in {"nothing", "line"} THEN NoRecord
                                                       ELSE residue
          /\ disk' = IF form = "line" THEN Append(disk, residue) ELSE disk
          /\ acked' = acked
    BY <1>4 DEF Crash
  <2>2. form = "line" => residue # NoRecord
    BY <2>1 DEF Prefixes, TypeOK, DiskInv, Form
  <2>3. CASE form = "line"
    BY <2>1, <2>2, <2>3 DEF Log!Next, Log!Absorb
  <2>4. CASE form # "line"
    BY <2>1, <2>4 DEF Log!Next, Log!Drop
  <2> QED BY <2>3, <2>4
<1>5. CASE Open
  <2>1. CASE piece = "nothing" /\ chained(file)
    <3>1. disk' = file /\ residue' = NoRecord /\ acked' = acked
      BY <1>5, <2>1 DEF Open, repairable
    <3>2. CASE file = disk
      BY <3>1, <3>2 DEF Log!Next, Log!Drop
    <3>3. CASE file = Append(disk, residue) /\ reach = "line"
      BY <3>1, <3>3 DEF Log!Next, Log!Absorb, DiskInv
    <3> QED BY <3>2, <3>3 DEF FileInv
  <2>2. CASE ~ (piece = "nothing" /\ chained(file))
    BY <1>5, <2>2 DEF Open, repairable, FileInv, storage
  <2> QED BY <2>1, <2>2
<1>6. CASE RepairSync
  BY <1>6 DEF RepairSync, Log!Next, Log!Drop
<1>7. CASE UNCHANGED <<disk, residue, acked>>
  BY <1>7
<1>8. BeginAppend \/ WriteFails \/ SyncFails \/ Truncate \/ RestoreFails
      \/ Close \/ RepairFails \/ UNCHANGED vars
        => UNCHANGED <<disk, residue, acked>>
  BY DEF BeginAppend, WriteFails, SyncFails, Truncate, RestoreFails, Close,
         RepairFails, vars, storage
<1> QED BY <1>1, <1>2, <1>3, <1>4, <1>5, <1>6, <1>7, <1>8 DEF Next

\* The journal file implements the append-only log: acknowledged records
\* stay, and a record is offered only when none is in doubt.
THEOREM JournalImplementsLog == Spec => ImplementsLog
<1>1. Init => Log!Init
  BY DEF Init, Log!Init
<1> QED BY <1>1, AlwaysIndInv, StepSimulation, PTL
        DEF Spec, ImplementsLog, Log!Spec

=============================================================================
