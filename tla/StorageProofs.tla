--------------------------- MODULE StorageProofs ---------------------------
(***************************************************************************)
(* Theorems of the storage layer, for all tables, files, statements, id    *)
(* widths and faults: its type, the safety of the caches under failures,   *)
(* what the caches say of the file, and that it implements TableSpec.      *)
(***************************************************************************)
EXTENDS StorageRefinement, CommonLemmas

(***************************************************************************)
(* Type correctness.  It needs to know that a migration has a file to work *)
(* on.                                                                     *)
(***************************************************************************)
Migrating == {"migrate", "dropBackup", "backup"}

MigrationHasFile == pc \in Migrating => data[T] # Absent

TypeInv == TypeOK /\ MigrationHasFile

LEMMA EmptyFileType == EmptyFile \in File
  BY DEF EmptyFile, File

LEMMA OpenedType == ASSUME NEW f \in File \cup {Absent} PROVE Opened(f) \in File
  BY EmptyFileType DEF Opened

LEMMA ProbedType ==
  ASSUME NEW f \in File \cup {Absent}, NEW g \in Probed(f)
  PROVE  g \in File
  BY OpenedType, EmptyFileType DEF Probed

(* A copy that is cut short ends in nothing, a torn record or some row.    *)
LEMMA CutShortType ==
  ASSUME NEW end \in CutShort
  PROVE  end \in Seq(Record)
<1>1. \A r \in Record : <<r>> \in Seq(Record)
  OBVIOUS
<1>2. Torn \in Record /\ Row \subseteq Record
  BY DEF Record
<1>3. end = <<>> \/ end = <<Torn>> \/ \E r \in Row : end = <<r>>
  BY DEF CutShort
<1>4. <<>> \in Seq(Record)
  OBVIOUS
<1>5. QED
  BY <1>1, <1>2, <1>3, <1>4

LEMMA StatementType ==
  ASSUME TypeOK, pc # "idle"
  PROVE  stmt \in Statement /\ T \in Tables /\ stmt.no \in Texts
  BY SqlAssumption DEF TypeOK, T, Statement

LEMMA RefusedType == Refused \in Reply
  BY DEF Refused, Reply

LEMMA ConvertedType ==
  ASSUME NEW f \in File
  PROVE  Converted(f) \in Seq(Record)
<1>1. f.text \in Seq(Row) /\ Row \subseteq Record
  BY DEF File, Record
<1>2. f.text \in Seq(Record)
  BY <1>1, SeqMonotonic
<1>3. OddLine \in Record
  BY SqlAssumption DEF Record, OddLine, Row
<1>4. QED
  BY <1>2, <1>3 DEF Converted

LEMMA ReadingsType ==
  ASSUME TypeOK, pc # "idle", NEW n \in 1..Len(Records), NEW r \in Readings(n)
  PROVE  r \in Row
<1>1. Records \in Seq(Record)
  BY StatementType DEF TypeOK, Disk, Records, File
<1>2. CASE Lost(n)
  BY <1>2 DEF Readings
<1>3. CASE ~Lost(n)
  BY <1>1, <1>3 DEF Readings, Lost, Record
<1>4. QED
  BY <1>2, <1>3

LEMMA TypeInit == Init => TypeInv
<1> SUFFICES ASSUME Init PROVE TypeInv
  OBVIOUS
<1>1. data \in Disk
  BY StorageAssumption DEF Init, Disk
<1>2. tmp \in Disk /\ bak \in Disk
  BY DEF Init, Disk
<1>3. index \in [Ids -> Nat] /\ 0 \in Ids
  BY SqlAssumption DEF Init, NoIndex, Ids
<1>4. QED
  BY <1>1, <1>2, <1>3, RefusedType DEF Init, TypeInv, TypeOK, MigrationHasFile, Migrating

(* An error ends the statement and touches neither file nor cache.         *)
LEMMA ErrorType ==
  ASSUME TypeInv, Error
  PROVE  /\ pc' = "idle" /\ reply' \in Reply
         /\ activeTable' \in {"null", "current", "freed"}
  BY RefusedType DEF TypeInv, TypeOK, Error

(* A step is a step of one statement, of one table.                        *)
LEMMA SameStatement ==
  ASSUME TypeOK, Step
  PROVE  /\ pc # "idle"
         /\ stmt' = stmt /\ T' = T
         /\ stmt \in Statements /\ stmt \in Statement
         /\ T \in Tables /\ stmt.no \in Texts
<1>1. pc # "idle" /\ stmt' = stmt
  BY DEF Step, Activate, Insert, RefuseToOpen, FastPath, SwitchTable, MigrateText,
         DropOldBackup, BackUpText, FinalizeMigration, StartRebuild, ScanRow,
         RejectRow, ScanBreaks, ScanDone, RejectInsert, AppendRow, IndexRow,
         RememberNo, AnswerInsert, Select, call
<1>2. QED
  BY <1>1, StatementType DEF TypeOK, T

LEMMA TypeStep == TypeInv /\ [Next]_vars => TypeInv'
<1> SUFFICES ASSUME TypeInv, [Next]_vars PROVE TypeInv'
  OBVIOUS
<1> USE DEF TypeInv, MigrationHasFile, Migrating
<1>1. CASE UNCHANGED vars
  BY <1>1 DEF vars, TypeOK, T
<1>2. ASSUME NEW s \in Statements, Begin(s) PROVE TypeInv'
  BY <1>2, RefusedType DEF Begin, TypeOK, disk, cache, T
<1>3. CASE RefuseToOpen
  BY <1>3, ErrorType DEF RefuseToOpen, TypeOK, disk, cache, call, T
<1>4. CASE FastPath
  BY <1>4, StatementType DEF FastPath, TypeOK, disk, cache, call, T, Statement
<1>5. CASE SwitchTable
  <2>1. stmt \in Statements /\ T \in Tables /\ T' = T
    BY <1>5, SameStatement DEF Step, Activate, Insert
  <2>2. data' \in Disk
    BY <1>5, <2>1, ProbedType DEF SwitchTable, TypeOK, Disk
  <2>3. pc' = "migrate" => data'[T] # Absent
    BY <1>5, <2>1, ProbedType, StorageAssumption DEF SwitchTable, Error, TypeOK, Disk
  <2>4. pc' \in {"idle", "migrate", "rebuild"}
    BY <1>5 DEF SwitchTable, Error, Continue
  <2>5. reply' \in Reply /\ activeTable' \in {"null", "current", "freed"}
    BY <1>5, ErrorType DEF SwitchTable, Continue, TypeOK
  <2>6. QED
    BY <1>5, <2>1, <2>2, <2>3, <2>4, <2>5 DEF SwitchTable, TypeOK, tree, call
<1>6. CASE MigrateText
  <2>1. stmt \in Statements /\ T \in Tables /\ T' = T
    BY <1>6, SameStatement DEF Step, Activate, Insert
  <2>2. data[T] \in File
    BY <1>6, <2>1 DEF MigrateText, TypeOK, Disk
  <2>3. Converted(data[T]) \in Seq(Record)
    BY <2>2, ConvertedType
  <2>4. ASSUME NEW n \in 0..Len(Converted(data[T])) - 1, NEW end \in CutShort
        PROVE  SubSeq(Converted(data[T]), 1, n) \o end \in Seq(Record)
    <3>1. n \in Int /\ \A i \in 1..n : Converted(data[T])[i] \in Record
      BY <2>3, ElementOfSeq, LenProperties
    <3>2. SubSeq(Converted(data[T]), 1, n) \in Seq(Record)
      BY <3>1, SubSeqProperties
    <3>3. QED
      BY <3>2, CutShortType, ConcatProperties
  <2>5. tmp' \in Disk
    <3>1. \A s \in Seq(Record) : [text |-> <<>>, bin |-> s] \in File
      BY DEF File
    <3>2. \A f \in File \cup {Absent} : [tmp EXCEPT ![T] = f] \in Disk
      BY <2>1 DEF TypeOK, Disk
    <3>3. \A s \in Seq(Record) :
            [tmp EXCEPT ![T] = [text |-> <<>>, bin |-> s]] \in Disk
      BY <3>1, <3>2
    <3>4. tmp \in Disk /\ [tmp EXCEPT ![T] = Absent] \in Disk
      BY <3>2 DEF TypeOK
    <3>5. QED
      BY <1>6, <2>3, <2>4, <3>3, <3>4 DEF MigrateText
  <2>6. pc' \in {"idle", "dropBackup"}
    BY <1>6 DEF MigrateText, Error, Continue
  <2>7. reply' \in Reply /\ activeTable' \in {"null", "current", "freed"}
    BY <1>6, ErrorType DEF MigrateText, Continue, TypeOK
  <2>8. QED
    BY <1>6, <2>1, <2>2, <2>5, <2>6, <2>7, StorageAssumption DEF MigrateText, TypeOK, cache, call
<1>7. CASE DropOldBackup
  <2>1. stmt \in Statements /\ T \in Tables /\ T' = T
    BY <1>7, SameStatement DEF Step, Activate, Insert
  <2>2. bak' \in Disk
    BY <1>7, <2>1 DEF DropOldBackup, TypeOK, Disk
  <2>3. QED
    BY <1>7, <2>1, <2>2 DEF DropOldBackup, Continue, TypeOK, cache, call
<1>8. CASE BackUpText
  <2>1. stmt \in Statements /\ T \in Tables /\ T' = T
    BY <1>8, SameStatement DEF Step, Activate, Insert
  <2>2. data' \in Disk /\ tmp' \in Disk /\ bak' \in Disk
    BY <1>8, <2>1 DEF BackUpText, TypeOK, Disk
  <2>3. pc' \in {"idle", "finalize"}
    BY <1>8 DEF BackUpText, Error, Continue
  <2>4. reply' \in Reply /\ activeTable' \in {"null", "current", "freed"}
    BY <1>8, ErrorType DEF BackUpText, Continue, TypeOK
  <2>5. QED
    BY <1>8, <2>1, <2>2, <2>3, <2>4 DEF BackUpText, TypeOK, cache, call
<1>9. CASE FinalizeMigration
  <2>1. stmt \in Statements /\ T \in Tables /\ T' = T
    BY <1>9, SameStatement DEF Step, Activate, Insert
  <2>2. data' \in Disk /\ tmp' \in Disk /\ bak' \in Disk
    BY <1>9, <2>1 DEF FinalizeMigration, TypeOK, Disk
  <2>3. pc' \in {"idle", "rebuild"}
    BY <1>9 DEF FinalizeMigration, Error, Continue
  <2>4. reply' \in Reply /\ activeTable' \in {"null", "current", "freed"}
    BY <1>9, ErrorType DEF FinalizeMigration, Continue, TypeOK
  <2>5. QED
    BY <1>9, <2>1, <2>2, <2>3, <2>4 DEF FinalizeMigration, TypeOK, cache, call
<1>10. CASE StartRebuild
  <2>1. stmt \in Statements /\ T \in Tables /\ T' = T
    BY <1>10, SameStatement DEF Step, Activate, Insert
  <2>2. index' \in [Ids -> Nat] /\ treeTorn' \in BOOLEAN
    BY <1>10 DEF StartRebuild, NoIndex
  <2>3. pc' \in {"idle", "scan"} /\ ready' \in BOOLEAN
    BY <1>10 DEF StartRebuild, Error, Continue
  <2>6. guarded' \in BOOLEAN
    <3>1. guarded' = guarded \/ guarded' = TRUE \/ guarded' = FALSE
      BY <1>10 DEF StartRebuild
    <3>2. QED
      BY <3>1 DEF TypeOK
  <2>4. reply' \in Reply /\ activeTable' \in {"null", "current", "freed"}
    BY <1>10, ErrorType DEF StartRebuild, Continue, TypeOK
  <2>5. QED
    BY <1>10, <2>1, <2>2, <2>3, <2>4, <2>6 DEF StartRebuild, TypeOK, disk, call
<1>11. CASE ScanRow
  <2>1. stmt \in Statements /\ T \in Tables /\ T' = T
    BY <1>11, SameStatement DEF Step, Activate, Insert
  <2>2. PICK r \in Readings(pos + 1) :
          /\ r.id # NaN
          /\ noSet' = NoteNo(r.no)
          /\ \/ /\ index' = [index EXCEPT ![r.id] = pos + 1]
                /\ maxId' = HigherId(r.id)
                /\ pos' = pos + 1
                /\ Continue("scan")
             \/ UNCHANGED index /\ Error /\ EndScan
    BY <1>11 DEF ScanRow
  <2>3. r \in Row
    <3>1. Len(Records) \in Nat
      BY <2>1 DEF Records, TypeOK, Disk, File
    <3>2. pos + 1 \in 1..Len(Records) /\ pc # "idle"
      BY <1>11, <3>1 DEF ScanRow, TypeOK
    <3>3. QED
      BY <3>2, ReadingsType
  <2>4. r.id \in Ids /\ r.no \in Texts
    BY <2>2, <2>3 DEF Row
  <2>5. noSet' \subseteq Texts
    BY <2>2, <2>4 DEF NoteNo, TypeOK
  <2>6. index' \in [Ids -> Nat] /\ maxId' \in Ids /\ pos' \in Nat
    <3>1. pos + 1 \in Nat /\ index \in [Ids -> Nat] /\ maxId \in Ids
      BY DEF TypeOK
    <3>2. [index EXCEPT ![r.id] = pos + 1] \in [Ids -> Nat]
      BY <2>4, <3>1
    <3>3. 0 \in Ids
      BY SqlAssumption DEF Ids
    <3>4. QED
      BY <2>2, <2>4, <3>1, <3>2, <3>3 DEF EndScan, HigherId
  <2>7. pc' \in {"idle", "scan"} /\ reply' \in Reply
        /\ activeTable' \in {"null", "current", "freed"}
    BY <2>2, ErrorType DEF Continue, TypeOK
  <2>8. QED
    BY <1>11, <2>1, <2>5, <2>6, <2>7 DEF ScanRow, TypeOK, disk
<1>12. CASE RejectRow
  BY <1>12, ErrorType, SqlAssumption DEF RejectRow, EndScan, TypeOK, disk, cache, Ids
<1>13. CASE ScanBreaks
  <2>1. noSet' \subseteq Texts
    <3>1. ASSUME NEW r \in Readings(pos + 1), noSet' = NoteNo(r.no),
                 pos < Len(Records)
          PROVE  noSet' \subseteq Texts
      <4>1. Len(Records) \in Nat
        BY <1>13, SameStatement DEF Step, Activate, Records, TypeOK, Disk, File
      <4>2. pos + 1 \in 1..Len(Records) /\ pc # "idle"
        BY <1>13, <3>1, <4>1 DEF ScanBreaks, TypeOK
      <4>3. r \in Row
        BY <4>2, ReadingsType
      <4>4. QED
        BY <3>1, <4>3 DEF Row, NoteNo, TypeOK
    <3>2. QED
      BY <1>13, <3>1 DEF ScanBreaks, TypeOK
  <2>2. index' \in [Ids -> Nat]
    <3>1. pos + 1 \in Nat
      BY DEF TypeOK
    <3>2. QED
      BY <1>13, <3>1 DEF ScanBreaks, IndexInsertFails, TypeOK, tree
  <2>3. treeTorn' \in BOOLEAN
    BY <1>13, Zenon DEF ScanBreaks, IndexInsertFails, TypeOK, tree
  <2>4. QED
    BY <1>13, <2>1, <2>2, <2>3, ErrorType, SqlAssumption
    DEF ScanBreaks, EndScan, TypeOK, disk, Ids
<1>14. CASE ScanDone
  <2>1. stmt \in Statement
    BY <1>14, SameStatement DEF Step, Activate
  <2>2. QED
    BY <1>14, <2>1, SqlAssumption DEF ScanDone, EndScan, TypeOK, disk, tree, Ids, Statement
<1>15. CASE RejectInsert
  BY <1>15, ErrorType DEF RejectInsert, TypeOK, disk, cache, call
<1>16. CASE AppendRow
  <2>1. stmt \in Statements /\ T \in Tables /\ T' = T /\ stmt.no \in Texts
    BY <1>16, SameStatement DEF Step, Insert
  <2> DEFINE old == Opened(data[T])
             new == [id |-> nextId', no |-> stmt.no]
             With(end) == [data EXCEPT ![T] = [text |-> old.text, bin |-> old.bin \o end]]
  <2>2. nextId' \in Ids
    BY <1>16, SqlAssumption DEF AppendRow, NextId, TypeOK, Ids
  <2>3. old \in File /\ Len(old.bin) \in Nat
    BY <2>1, OpenedType DEF TypeOK, Disk, File
  <2>4. ASSUME NEW end \in Seq(Record) PROVE With(end) \in Disk
    <3>1. old.text \in Seq(Row) /\ old.bin \in Seq(Record)
      BY <2>3 DEF File
    <3>2. old.bin \o end \in Seq(Record)
      BY <3>1, ConcatProperties
    <3>3. [text |-> old.text, bin |-> old.bin \o end] \in File
      BY <3>1, <3>2 DEF File
    <3>4. QED
      BY <2>1, <3>3 DEF TypeOK, Disk
  <2>5. <<>> \in Seq(Record) /\ <<new>> \in Seq(Record) /\ <<Torn>> \in Seq(Record)
    <3>1. new \in Record /\ Torn \in Record
      BY <2>1, <2>2 DEF Record, Row
    <3>2. QED
      BY <3>1
  <2>6. data' \in {With(<<new>>), With(<<>>), With(<<Torn>>), data}
    BY <1>16 DEF AppendRow
  <2>7. data' \in Disk
    BY <2>4, <2>5, <2>6 DEF TypeOK
  <2>8. ref' \in Nat
    BY <1>16, <2>3 DEF AppendRow, OffsetOfEnd, TypeOK
  <2>9. pc' \in {"idle", "index"} /\ reply' \in Reply
        /\ activeTable' \in {"null", "current", "freed"}
    BY <1>16, ErrorType DEF AppendRow, Continue, TypeOK
  <2>10. QED
    BY <1>16, <2>1, <2>2, <2>7, <2>8, <2>9 DEF AppendRow, TypeOK, tree
<1>17. CASE IndexRow
  <2>1. stmt \in Statements
    BY <1>17, SameStatement DEF Step, Insert
  <2>2. index' \in [Ids -> Nat]
    BY <1>17 DEF IndexRow, IndexInsertFails, TypeOK, tree
  <2>3. treeTorn' \in BOOLEAN
    BY <1>17, Zenon DEF IndexRow, IndexInsertFails, TypeOK, tree
  <2>4. pc' \in {"idle", "set", "answer"} /\ reply' \in Reply
        /\ activeTable' \in {"null", "current", "freed"}
    BY <1>17, ErrorType DEF IndexRow, Continue, TypeOK
  <2>5. QED
    BY <1>17, <2>1, <2>2, <2>3, <2>4 DEF IndexRow, TypeOK, disk, call
<1>18. CASE RememberNo
  <2>1. stmt \in Statements /\ stmt.no \in Texts
    BY <1>18, SameStatement DEF Step, Insert
  <2>2. noSet' \subseteq Texts
    BY <1>18, <2>1 DEF RememberNo, TypeOK
  <2>3. pc' \in {"idle", "answer"} /\ reply' \in Reply
        /\ activeTable' \in {"null", "current", "freed"}
    BY <1>18, ErrorType DEF RememberNo, Continue, TypeOK
  <2>4. QED
    BY <1>18, <2>1, <2>2, <2>3 DEF RememberNo, TypeOK, disk, tree, call
<1>19. CASE AnswerInsert
  <2>1. pc' = "idle" /\ reply' \in Reply
        /\ activeTable' \in {"null", "current", "freed"}
    <3>1. [ok |-> TRUE, id |-> nextId, rows |-> {}] \in Reply
      BY DEF TypeOK, Reply
    <3>2. QED
      BY <1>19, <3>1, ErrorType DEF AnswerInsert
  <2>2. QED
    BY <1>19, <2>1 DEF AnswerInsert, TypeOK, disk, cache, call
<1>20. CASE Select
  <2>1. Len(Records) \in Nat
    BY <1>20, SameStatement DEF Step, Records, TypeOK, Disk, File
  <2>2. ASSUME NEW rows \in SUBSET (1..Len(Records))
        PROVE  [ok |-> TRUE, id |-> NaN, rows |-> rows] \in Reply
    BY <2>1 DEF Reply
  <2>3. Scanned(stmt.where) \subseteq 1..Len(Records)
    BY DEF Scanned, Matches
  <2>4. reply' \in Reply /\ pc' = "idle"
        /\ activeTable' \in {"null", "current", "freed"}
    BY <1>20, <2>2, <2>3, ErrorType DEF Select
  <2>5. QED
    BY <1>20, <2>4 DEF Select, TypeOK, disk, cache, call
<1>21. CASE Restart
  <2>1. index' \in [Ids -> Nat]
    BY <1>21 DEF Restart, NoIndex
  <2>2. 0 \in Ids
    BY SqlAssumption DEF Ids
  <2>3. QED
    BY <1>21, <2>1, <2>2, RefusedType DEF Restart, TypeOK, disk
<1>22. QED
  BY <1>1, <1>2, <1>3, <1>4, <1>5, <1>6, <1>7, <1>8, <1>9, <1>10, <1>11, <1>12,
     <1>13, <1>14, <1>15, <1>16, <1>17, <1>18, <1>19, <1>20, <1>21
  DEF Next, Step, Activate, Insert

(* Every variable keeps its type, whatever fails.                          *)
THEOREM TypeCorrect == Spec => []TypeOK
<1>1. Init => TypeInv
  BY TypeInit
<1>2. TypeInv /\ [Next]_vars => TypeInv'
  BY TypeStep
<1>3. TypeInv => TypeOK
  BY DEF TypeInv
<1>4. QED
  BY <1>1, <1>2, <1>3, PTL DEF Spec

(***************************************************************************)
(* No row leaves the disk, but by the two steps NoRowLost names.  The      *)
(* invariant says why the backup may be deleted and overwritten when it is:*)
(* a file with lines of text has no backup yet, and one without is         *)
(* migrated only when it was misread or its first record is torn.          *)
(***************************************************************************)
MayBeMisread(f) == f.text # <<>> \/ "io" \in Faults \/ TornAtFirst(f)

BackupInv ==
  /\ TypeInv
  /\ \A t \in Tables : tmp[t] # Absent => tmp[t].text = <<>>
  /\ \A t \in Tables : data[t] # Absent /\ data[t].text # <<>> => bak[t] = Absent
  /\ pc \in Migrating => MayBeMisread(data[T])
  /\ pc = "finalize" => data[T] = Absent

Kept == \A t \in Tables : \/ RowsOnDisk(t) \subseteq RowsOnDisk(t)'
                          \/ Truncated(t) \/ MigratedAgain(t)

LEMMA NoRowsOfNone == RangeOf(Rows(Absent)) = {}
  BY DEF Rows, RangeOf

(* What activation migrates has lines of text or was misread.              *)
LEMMA OnlyTextMigrates ==
  ASSUME NEW f \in File, FALSE \in BinaryVerdicts(f)
  PROVE  MayBeMisread(f)
  BY DEF BinaryVerdicts, MayBeMisread

LEMMA RangeGrows ==
  ASSUME NEW S, NEW s \in Seq(S), NEW u \in Seq(S)
  PROVE  RangeOf(s) \subseteq RangeOf(s \o u)
<1> SUFFICES ASSUME NEW p \in DOMAIN s
             PROVE  \E q \in DOMAIN (s \o u) : (s \o u)[q] = s[p]
  BY DEF RangeOf
<1>1. p \in 1..Len(s) /\ Len(s) \in Nat /\ Len(u) \in Nat
  BY LenProperties
<1>2. p \in 1..(Len(s) + Len(u)) /\ p <= Len(s)
  BY <1>1
<1>3. s \o u \in Seq(S) /\ Len(s \o u) = Len(s) + Len(u) /\ (s \o u)[p] = s[p]
  BY <1>2, ConcatProperties
<1>4. p \in DOMAIN (s \o u)
  BY <1>2, <1>3, LenProperties
<1>5. QED
  BY <1>3, <1>4

LEMMA RowsGrow ==
  ASSUME NEW f \in File, NEW end \in Seq(Record)
  PROVE  RangeOf(Rows(f)) \subseteq
           RangeOf(Rows([text |-> f.text, bin |-> f.bin \o end]))
<1> DEFINE g == [text |-> f.text, bin |-> f.bin \o end]
<1>1. f.text \in Seq(Record) /\ f.bin \in Seq(Record) /\ f.text \o f.bin \in Seq(Record)
  <2>1. f.text \in Seq(Row) /\ f.bin \in Seq(Record) /\ Row \subseteq Record
    BY DEF File, Record
  <2>2. f.text \in Seq(Record)
    BY <2>1, SeqMonotonic
  <2>3. QED
    BY <2>1, <2>2, ConcatProperties
<1>2. g \in File
  BY <1>1, ConcatProperties DEF File
<1>3. f # Absent /\ g # Absent
  BY <1>2, StorageAssumption
<1>4. Rows(f) = f.text \o f.bin /\ Rows(g) = f.text \o (f.bin \o end)
  BY <1>3 DEF Rows
<1>5. Rows(g) = (f.text \o f.bin) \o end
  <2>1. f.text \o (f.bin \o end) = (f.text \o f.bin) \o end
    <3>1. \A s, t, u \in Seq(Record) : (s \o t) \o u = s \o (t \o u)
      BY ConcatAssociative
    <3>2. QED
      BY ZenonT(30), <1>1, <3>1
  <2>2. QED
    BY <1>4, <2>1
<1>6. QED
  BY <1>1, <1>4, <1>5, RangeGrows

LEMMA BackupInit == Init => BackupInv
  BY TypeInit DEF Init, BackupInv, Migrating

(* The steps of a statement that leave the files alone and start or finish *)
(* no migration.                                                           *)
QuietStep == \/ RefuseToOpen \/ FastPath \/ StartRebuild \/ ScanRow \/ RejectRow
             \/ ScanBreaks \/ ScanDone \/ RejectInsert \/ IndexRow \/ RememberNo
             \/ AnswerInsert \/ Select

LEMMA QuietStepIsQuiet ==
  ASSUME TypeOK, QuietStep
  PROVE  disk' = disk /\ pc' \notin Migrating \cup {"finalize"}
<1>1. disk' = disk
  BY DEF QuietStep, RefuseToOpen, FastPath, StartRebuild, ScanRow, RejectRow,
         ScanBreaks, ScanDone, RejectInsert, IndexRow, RememberNo, AnswerInsert,
         Select, disk
<1>2. stmt.op \in {"insert", "select"} \/ pc = "idle"
  BY StatementType DEF Statement
<1>3. pc' \notin Migrating \cup {"finalize"}
  BY <1>2 DEF QuietStep, RefuseToOpen, FastPath, StartRebuild, ScanRow, RejectRow,
         ScanBreaks, ScanDone, RejectInsert, IndexRow, RememberNo, AnswerInsert,
         Select, Error, Continue, Migrating
<1>4. QED
  BY <1>1, <1>3

(* What a step changes in the file being appended to.                      *)
LEMMA AppendGrows ==
  ASSUME TypeOK, AppendRow
  PROVE  \E end \in Seq(Record) :
           \/ data' = data
           \/ data' = [data EXCEPT ![T] = [text |-> Opened(data[T]).text,
                                           bin  |-> Opened(data[T]).bin \o end]]
<1>1. stmt.no \in Texts
  BY SameStatement DEF Step, Insert
<1>2. nextId' \in Ids
  BY SqlAssumption DEF AppendRow, NextId, TypeOK, Ids
<1> DEFINE new == [id |-> nextId', no |-> stmt.no]
<1>3. new \in Record /\ Torn \in Record
  BY <1>1, <1>2 DEF Record, Row
<1>4. <<>> \in Seq(Record) /\ <<new>> \in Seq(Record) /\ <<Torn>> \in Seq(Record)
  BY <1>3
<1>5. \E end \in {<<>>, <<new>>, <<Torn>>} :
           \/ data' = data
           \/ data' = [data EXCEPT ![T] = [text |-> Opened(data[T]).text,
                                           bin  |-> Opened(data[T]).bin \o end]]
  BY DEF AppendRow
<1>6. QED
  BY <1>4, <1>5

LEMMA BackupStep ==
  ASSUME BackupInv, [Next]_vars
  PROVE  BackupInv' /\ Kept
<1>1. TypeInv' /\ TypeOK
  BY TypeStep DEF BackupInv, TypeInv
<1> USE DEF BackupInv
<1>2. ASSUME disk' = disk, pc' \notin Migrating \cup {"finalize"}
      PROVE  BackupInv' /\ Kept
  BY <1>1, <1>2 DEF disk, Kept, RowsOnDisk
<1>3. ASSUME Step PROVE T \in Tables /\ T' = T
  BY <1>1, <1>3, SameStatement
<1>4. CASE UNCHANGED vars
  BY <1>1, <1>4 DEF vars, T, Kept, RowsOnDisk, MayBeMisread, TornAtFirst
<1>5. CASE Restart \/ \E s \in Statements : Begin(s)
  BY <1>2, <1>5 DEF Restart, Begin, Migrating, disk
<1>6. CASE QuietStep
  BY <1>1, <1>2, <1>6, QuietStepIsQuiet
<1>7. CASE SwitchTable
  <2>1. T \in Tables /\ T' = T /\ pc = "open"
    BY <1>3, <1>7 DEF Step, Activate, SwitchTable
  <2>2. PICK f \in Probed(data[T]) :
          /\ data' = data \/ data' = [data EXCEPT ![T] = f]
          /\ pc' = "migrate" => /\ data' = [data EXCEPT ![T] = f]
                                /\ FALSE \in BinaryVerdicts(f)
    <3>1. CASE pc' = "migrate"
      <4>1. PICK f \in Probed(data[T]) : \E binary \in BinaryVerdicts(f) :
              /\ data' = [data EXCEPT ![T] = f]
              /\ pc' = (IF binary THEN "rebuild" ELSE "migrate")
        BY <1>7, <3>1 DEF SwitchTable, Error, Continue
      <4>2. BinaryVerdicts(f) \subseteq BOOLEAN
        BY DEF BinaryVerdicts
      <4>3. FALSE \in BinaryVerdicts(f)
        BY <3>1, <4>1, <4>2
      <4>4. QED
        BY <4>1, <4>3
    <3>2. CASE pc' # "migrate"
      <4>1. Opened(data[T]) \in Probed(data[T])
        BY DEF Probed
      <4>2. QED
        BY <1>7, <3>2, <4>1 DEF SwitchTable
    <3>3. QED
      BY <3>1, <3>2
  <2>3. f \in File /\ data[T] \in File \cup {Absent}
    BY <1>1, <2>1, ProbedType DEF TypeOK, Disk
  <2>4. f = Opened(data[T]) \/ ("io" \in Faults /\ f = EmptyFile)
    BY DEF Probed
  <2>5. pc' # "finalize" /\ tmp' = tmp /\ bak' = bak
    BY <1>7 DEF SwitchTable, Error, Continue
  <2>6. pc' \in Migrating => MayBeMisread(data[T])'
    <3>1. pc' \in {"idle", "rebuild", "migrate"}
      BY <1>7 DEF SwitchTable, Error, Continue
    <3>2. ASSUME pc' = "migrate" PROVE MayBeMisread(data[T])'
      <4>1. data'[T'] = f
        BY <1>1, <2>1, <2>2, <3>2 DEF TypeOK, Disk
      <4>2. MayBeMisread(f)
        BY <2>2, <2>3, <3>2, OnlyTextMigrates
      <4>3. QED
        BY <4>1, <4>2 DEF MayBeMisread, TornAtFirst
    <3>3. QED
      BY <3>1, <3>2 DEF Migrating
  <2>7. \A t \in Tables : data'[t] = data[t] \/ (t = T /\ data'[t] = f)
    BY <1>1, <2>1, <2>2 DEF TypeOK, Disk
  <2>8. f.text # <<>> => f = data[T] /\ data[T] # Absent
    BY <2>4 DEF Opened, EmptyFile
  <2>9. \A t \in Tables : data'[t] # Absent /\ data'[t].text # <<>> => bak'[t] = Absent
    BY <2>1, <2>5, <2>7, <2>8
  <2>10. Kept
    <3>1. SUFFICES ASSUME NEW t \in Tables, data'[t] # data[t]
                   PROVE  \/ RowsOnDisk(t) \subseteq RowsOnDisk(t)'
                          \/ Truncated(t)
      BY <2>5 DEF Kept, RowsOnDisk
    <3>2. t = T /\ data'[t] = f
      BY <2>7, <3>1
    <3>3. CASE data[T] = Absent
      BY <2>5, <3>2, <3>3, NoRowsOfNone DEF RowsOnDisk
    <3>4. CASE data[T] # Absent
      BY <2>1, <2>4, <3>1, <3>2, <3>4 DEF Opened, Truncated
    <3>5. QED
      BY <3>3, <3>4
  <2>11. QED
    BY <1>1, <2>5, <2>6, <2>9, <2>10
<1>8. CASE MigrateText
  <2>1. T \in Tables /\ T' = T
    BY <1>3, <1>8 DEF Step, Activate
  <2>2. PICK f : /\ tmp' = [tmp EXCEPT ![T] = f] \/ tmp' = tmp
                 /\ f # Absent => f.text = <<>>
    BY <1>8 DEF MigrateText
  <2>3. data' = data /\ bak' = bak /\ pc' \in {"idle", "dropBackup"}
    BY <1>8 DEF MigrateText, Error, Continue
  <2>4. pc \in Migrating
    BY <1>8 DEF MigrateText, Migrating
  <2>5. \A t \in Tables : tmp'[t] # Absent => tmp'[t].text = <<>>
    BY <1>1, <2>1, <2>2 DEF TypeOK, Disk
  <2>6. QED
    BY <1>1, <2>1, <2>3, <2>4, <2>5 DEF Kept, RowsOnDisk, MayBeMisread, TornAtFirst
<1>9. CASE DropOldBackup
  <2>1. T \in Tables /\ T' = T
    BY <1>3, <1>9 DEF Step, Activate
  <2>2. pc = "dropBackup" /\ pc' = "backup" /\ data' = data /\ tmp' = tmp
    BY <1>9 DEF DropOldBackup, Continue
  <2>3. MayBeMisread(data[T]) /\ data[T] # Absent
    BY <2>2 DEF Migrating, TypeInv, MigrationHasFile
  <2>4. bak' = bak \/ bak' = [bak EXCEPT ![T] = Absent]
    BY <1>9 DEF DropOldBackup
  <2>5. Kept
    <3>1. CASE data[T].text # <<>>
      <4>1. bak[T] = Absent
        BY <2>1, <2>3, <3>1
      <4>2. bak' = bak
        BY <1>1, <2>1, <2>4, <4>1 DEF TypeOK, Disk
      <4>3. QED
        BY <2>2, <4>2 DEF Kept, RowsOnDisk
    <3>2. CASE data[T].text = <<>>
      <4>1. MigratedAgain(T)
        BY <2>2, <2>3, <3>2 DEF MigratedAgain, MayBeMisread
      <4>2. \A t \in Tables \ {T} : bak'[t] = bak[t]
        BY <1>1, <2>4 DEF TypeOK, Disk
      <4>3. QED
        BY <2>2, <4>1, <4>2 DEF Kept, RowsOnDisk
    <3>3. QED
      BY <3>1, <3>2
  <2>6. \A t \in Tables : bak[t] = Absent => bak'[t] = Absent
    BY <1>1, <2>1, <2>4 DEF TypeOK, Disk
  <2>7. QED
    BY <1>1, <2>1, <2>2, <2>3, <2>5, <2>6 DEF Migrating, MayBeMisread, TornAtFirst
<1>10. CASE BackUpText
  <2>1. T \in Tables /\ T' = T
    BY <1>3, <1>10 DEF Step, Activate
  <2>2. pc = "backup" /\ data[T] # Absent /\ MayBeMisread(data[T])
    BY <1>10 DEF BackUpText, TypeInv, MigrationHasFile, Migrating
  <2>3. CASE bak' = [bak EXCEPT ![T] = data[T]] /\ data' = [data EXCEPT ![T] = Absent]
             /\ pc' = "finalize" /\ tmp' = tmp
    <3>1. /\ data'[T] = Absent /\ bak'[T] = data[T]
          /\ \A t \in Tables \ {T} : data'[t] = data[t] /\ bak'[t] = bak[t]
      BY <1>1, <2>1, <2>3 DEF TypeOK, Disk
    <3>2. Kept
      <4>1. SUFFICES \/ RowsOnDisk(T) \subseteq RowsOnDisk(T)'
                     \/ MigratedAgain(T)
        BY <2>1, <3>1 DEF Kept, RowsOnDisk
      <4>2. CASE data[T].text # <<>>
        <5>1. bak[T] = Absent
          BY <2>1, <2>2, <4>2
        <5>2. QED
          BY <2>1, <3>1, <5>1, NoRowsOfNone DEF RowsOnDisk
      <4>3. CASE data[T].text = <<>>
        BY <2>2, <4>3 DEF MigratedAgain, MayBeMisread
      <4>4. QED
        BY <4>2, <4>3
    <3>3. QED
      BY <1>1, <2>1, <2>3, <3>1, <3>2 DEF Migrating
  <2>4. CASE tmp' = [tmp EXCEPT ![T] = Absent] /\ pc' = "idle" /\ data' = data /\ bak' = bak
    <3>1. Kept
      BY <2>4 DEF Kept, RowsOnDisk
    <3>2. \A t \in Tables : tmp'[t] # Absent => tmp'[t].text = <<>>
      BY <1>1, <2>1, <2>4 DEF TypeOK, Disk
    <3>3. pc' \notin Migrating /\ pc' # "finalize"
      BY <2>4 DEF Migrating
    <3>4. QED
      BY <1>1, <2>4, <3>1, <3>2, <3>3
  <2>5. QED
    BY <1>10, <2>3, <2>4 DEF BackUpText, Error, Continue
<1>11. CASE FinalizeMigration
  <2>1. T \in Tables /\ T' = T
    BY <1>3, <1>11 DEF Step, Activate
  <2>2. data[T] = Absent /\ tmp' = [tmp EXCEPT ![T] = Absent]
    BY <1>11 DEF FinalizeMigration
  <2>3. pc' \notin Migrating /\ pc' # "finalize"
    BY <1>11 DEF FinalizeMigration, Error, Continue, Migrating
  <2>4. \A t \in Tables : tmp'[t] # Absent => tmp'[t].text = <<>>
    BY <1>1, <2>1, <2>2 DEF TypeOK, Disk
  <2>5. CASE data' = [data EXCEPT ![T] = tmp[T]] /\ bak' = bak
    <3>1. /\ data'[T] = tmp[T]
          /\ \A t \in Tables \ {T} : data'[t] = data[t]
      BY <1>1, <2>1, <2>5 DEF TypeOK, Disk
    <3>2. QED
      BY <1>1, <2>1, <2>2, <2>3, <2>4, <2>5, <3>1, NoRowsOfNone DEF Kept, RowsOnDisk
  <2>6. CASE data' = [data EXCEPT ![T] = bak[T]] /\ bak' = [bak EXCEPT ![T] = Absent]
    <3>1. /\ data'[T] = bak[T] /\ bak'[T] = Absent
          /\ \A t \in Tables \ {T} : data'[t] = data[t] /\ bak'[t] = bak[t]
      BY <1>1, <2>1, <2>6 DEF TypeOK, Disk
    <3>2. QED
      BY <1>1, <2>1, <2>2, <2>3, <2>4, <3>1, NoRowsOfNone DEF Kept, RowsOnDisk
  <2>7. CASE data' = data /\ bak' = bak
    BY <1>1, <2>3, <2>4, <2>7 DEF Kept, RowsOnDisk
  <2>8. QED
    BY <1>11, <2>5, <2>6, <2>7 DEF FinalizeMigration
<1>12. CASE AppendRow
  <2>1. T \in Tables /\ T' = T
    BY <1>3, <1>12 DEF Step, Insert
  <2> DEFINE old == Opened(data[T])
             With(end) == [text |-> old.text, bin |-> old.bin \o end]
  <2>2. PICK end \in Seq(Record) : data' = [data EXCEPT ![T] = With(end)] \/ data' = data
    BY <1>1, <1>12, AppendGrows
  <2>3. data[T] \in File \cup {Absent} /\ old \in File
    BY <1>1, <2>1, OpenedType DEF TypeOK, Disk
  <2>4. tmp' = tmp /\ bak' = bak /\ pc' \in {"idle", "index"}
    BY <1>12 DEF AppendRow, Error, Continue
  <2>5. \A t \in Tables : data'[t] = data[t] \/ (t = T /\ data'[t] = With(end))
    BY <1>1, <2>1, <2>2 DEF TypeOK, Disk
  <2>6. old.text # <<>> => data[T] # Absent /\ data[T].text = old.text
    BY DEF Opened, EmptyFile
  <2>7. \A t \in Tables : data'[t] # Absent /\ data'[t].text # <<>> => bak'[t] = Absent
    BY SMTT(30), <2>1, <2>4, <2>5, <2>6
  <2>8. RangeOf(Rows(data[T])) \subseteq RangeOf(Rows(With(end)))
    <3>1. CASE data[T] = Absent
      BY <3>1, NoRowsOfNone
    <3>2. CASE data[T] # Absent
      BY <2>3, <3>2, RowsGrow DEF Opened
    <3>3. QED
      BY <3>1, <3>2
  <2>9. Kept
    BY <2>4, <2>5, <2>8 DEF Kept, RowsOnDisk
  <2>10. QED
    BY <1>1, <2>4, <2>7, <2>9 DEF Migrating
<1>13. QED
  BY <1>4, <1>5, <1>6, <1>7, <1>8, <1>9, <1>10, <1>11, <1>12
  DEF Next, Step, Activate, Insert, QuietStep

(* NoRowLost holds whatever fails, torn writes and misread files included: *)
(* no step of a migration loses a row but the two it names.                *)
THEOREM RowsSurvive == Spec => NoRowLost
<1>1. Init => BackupInv
  BY BackupInit
<1>2. BackupInv /\ [Next]_vars => BackupInv'
  BY BackupStep
<1>3. BackupInv /\ [Next]_vars =>
        [\A t \in Tables : \/ RowsOnDisk(t) \subseteq RowsOnDisk(t)'
                           \/ Truncated(t) \/ MigratedAgain(t)]_vars
  BY BackupStep DEF Kept
<1>4. QED
  BY <1>1, <1>2, <1>3, PTL DEF Spec, NoRowLost

(***************************************************************************)
(* Records keep their places, whatever fails and however writes are torn,  *)
(* unless the probe writes the file anew: between the renames of a         *)
(* migration there is no data file, so that the second one puts no shorter *)
(* file in the place of a longer one.                                      *)
(***************************************************************************)
PlaceInv == TypeInv /\ (pc = "finalize" => data[T] = Absent)

PlacesKept ==
  \A t \in Tables :
    data[t] # Absent /\ data'[t] # Absent /\ data[t].text = data'[t].text
      => IsPrefixOf(data[t].bin, data'[t].bin) \/ Truncated(t)

LEMMA SamePlaces == ASSUME TypeOK, data' = data PROVE PlacesKept
<1> SUFFICES ASSUME NEW t \in Tables, data[t] # Absent
             PROVE  IsPrefixOf(data[t].bin, data[t].bin)
  BY DEF PlacesKept
<1>1. data[t].bin \in Seq(Record)
  BY DEF TypeOK, Disk, File
<1>2. Len(data[t].bin) \in Nat
  BY <1>1, LenProperties
<1>3. QED
  BY <1>2 DEF IsPrefixOf

LEMMA PlaceStep ==
  ASSUME PlaceInv, [Next]_vars
  PROVE  PlaceInv' /\ PlacesKept
<1>1. TypeInv' /\ TypeOK
  BY TypeStep DEF PlaceInv, TypeInv
<1>2. ASSUME data' = data, pc' # "finalize" PROVE PlaceInv' /\ PlacesKept
  BY <1>1, <1>2, SamePlaces DEF PlaceInv
<1>3. ASSUME Step PROVE T \in Tables /\ T' = T
  BY <1>1, <1>3, SameStatement
<1>4. CASE UNCHANGED vars
  BY <1>1, <1>4, SamePlaces DEF vars, T, PlaceInv
<1>5. CASE Restart \/ \E s \in Statements : Begin(s)
  BY <1>2, <1>5 DEF Restart, Begin, disk
<1>6. CASE QuietStep
  BY <1>1, <1>2, <1>6, QuietStepIsQuiet DEF disk
<1>7. CASE MigrateText \/ DropOldBackup
  BY <1>2, <1>7 DEF MigrateText, DropOldBackup, Error, Continue
<1>8. CASE SwitchTable
  <2>1. T \in Tables /\ pc' # "finalize"
    BY <1>3, <1>8 DEF Step, Activate, SwitchTable, Error, Continue
  <2>2. \A t \in Tables : data[t] # Absent => data'[t] = data[t] \/ Truncated(t)
    BY <1>1, <1>8, <2>1 DEF SwitchTable, Opened, Probed, Truncated, TypeOK, Disk
  <2>3. \A t \in Tables : data[t] # Absent => IsPrefixOf(data[t].bin, data[t].bin)
    <3>1. \A t \in Tables : data[t] # Absent => data[t].bin \in Seq(Record)
      BY <1>1 DEF TypeOK, Disk, File
    <3>2. \A s \in Seq(Record) : IsPrefixOf(s, s)
      BY LenProperties DEF IsPrefixOf
    <3>3. QED
      BY <3>1, <3>2
  <2>4. QED
    BY <1>1, <2>1, <2>2, <2>3 DEF PlaceInv, PlacesKept
<1>9. CASE BackUpText
  <2>1. T \in Tables /\ T' = T
    BY <1>3, <1>9 DEF Step, Activate
  <2>2. CASE data' = [data EXCEPT ![T] = Absent]
    <3>1. data'[T] = Absent /\ \A t \in Tables \ {T} : data'[t] = data[t]
      BY <1>1, <2>1, <2>2 DEF TypeOK, Disk
    <3>2. \A s \in Seq(Record) : IsPrefixOf(s, s)
      BY LenProperties DEF IsPrefixOf
    <3>3. \A t \in Tables : data[t] # Absent => data[t].bin \in Seq(Record)
      BY <1>1 DEF TypeOK, Disk, File
    <3>4. PlacesKept
      BY <3>1, <3>2, <3>3 DEF PlacesKept
    <3>5. QED
      BY <1>1, <2>1, <3>1, <3>4 DEF PlaceInv
  <2>3. CASE data' = data /\ pc' = "idle"
    BY <1>2, <2>3
  <2>4. QED
    BY <1>9, <2>2, <2>3 DEF BackUpText, Error
<1>10. CASE FinalizeMigration
  <2>1. T \in Tables /\ data[T] = Absent /\ pc' # "finalize"
    BY <1>3, <1>10 DEF Step, Activate, FinalizeMigration, PlaceInv, Error, Continue
  <2>2. \A t \in Tables : data[t] # Absent => data'[t] = data[t]
    BY <1>1, <1>10, <2>1 DEF FinalizeMigration, TypeOK, Disk
  <2>3. \A s \in Seq(Record) : IsPrefixOf(s, s)
    BY LenProperties DEF IsPrefixOf
  <2>4. \A t \in Tables : data[t] # Absent => data[t].bin \in Seq(Record)
    BY <1>1 DEF TypeOK, Disk, File
  <2>5. QED
    BY <1>1, <2>1, <2>2, <2>3, <2>4 DEF PlaceInv, PlacesKept
<1>11. CASE AppendRow
  <2>1. T \in Tables /\ pc' # "finalize"
    BY <1>3, <1>11 DEF Step, Insert, AppendRow, Error, Continue
  <2>2. PICK end \in Seq(Record) :
          \/ data' = data
          \/ data' = [data EXCEPT ![T] = [text |-> Opened(data[T]).text,
                                          bin  |-> Opened(data[T]).bin \o end]]
    BY <1>1, <1>11, AppendGrows
  <2>4. CASE data' = data
    BY <1>2, <2>1, <2>4
  <2>5. CASE data' = [data EXCEPT ![T] = [text |-> Opened(data[T]).text,
                                          bin  |-> Opened(data[T]).bin \o end]]
    <3>1. \A s \in Seq(Record) : IsPrefixOf(s, s) /\ IsPrefixOf(s, s \o end)
      <4>1. SUFFICES ASSUME NEW s \in Seq(Record)
                     PROVE  IsPrefixOf(s, s) /\ IsPrefixOf(s, s \o end)
        OBVIOUS
      <4>2. Len(s) \in Nat /\ Len(end) \in Nat
        BY LenProperties
      <4>3. Len(s \o end) = Len(s) + Len(end)
            /\ \A p \in 1..Len(s) : (s \o end)[p] = s[p]
        BY <4>2, ConcatProperties
      <4>4. QED
        BY <4>2, <4>3 DEF IsPrefixOf
    <3>2. \A t \in Tables : data[t] # Absent => data[t].bin \in Seq(Record)
      BY <1>1 DEF TypeOK, Disk, File
    <3>3. \A t \in Tables : data[t] # Absent =>
            \/ data'[t] = data[t]
            \/ data'[t].bin = data[t].bin \o end
      BY <1>1, <2>1, <2>5 DEF Opened, TypeOK, Disk
    <3>4. QED
      BY <1>1, <2>1, <3>1, <3>2, <3>3 DEF PlaceInv, PlacesKept
  <2>6. QED
    BY <2>2, <2>4, <2>5
<1>12. QED
  BY <1>4, <1>5, <1>6, <1>7, <1>8, <1>9, <1>10, <1>11
  DEF Next, Step, Activate, Insert, QuietStep

(* A record number keeps its meaning as long as the file is the same one.  *)
THEOREM RecordsKeepPlaces == Spec => AppendOnly
<1>1. Init => PlaceInv
  BY TypeInit DEF Init, PlaceInv
<1>2. PlaceInv /\ [Next]_vars => PlaceInv'
  BY PlaceStep
<1>3. PlaceInv /\ [Next]_vars =>
        [\A t \in Tables :
           data[t] # Absent /\ data'[t] # Absent /\ data[t].text = data'[t].text
             => IsPrefixOf(data[t].bin, data'[t].bin) \/ Truncated(t)]_vars
  BY PlaceStep DEF PlacesKept
<1>4. QED
  BY <1>1, <1>2, <1>3, PTL DEF Spec, AppendOnly

(***************************************************************************)
(* Control: an INSERT takes the steps of INSERT and a SELECT that of       *)
(* SELECT, and both find g_active_table set to their own table.            *)
(***************************************************************************)
Inserting == {"insert", "index", "set", "answer"}
Stored    == {"index", "set", "answer"}

ControlInv ==
  /\ TypeInv
  /\ pc \in Inserting => stmt.op = "insert"
  /\ pc = "select" => stmt.op = "select"
  /\ pc \in Inserting \cup {"select"} => activeTable = "current"

(* Only the steps of INSERT after its write, and the answer of SELECT, end *)
(* in anything but an error or a step before the write.                    *)
EarlyStep == \/ RefuseToOpen \/ FastPath \/ SwitchTable \/ MigrateText
             \/ DropOldBackup \/ BackUpText \/ FinalizeMigration \/ StartRebuild
             \/ ScanRow \/ RejectRow \/ ScanBreaks \/ ScanDone \/ RejectInsert

LEMMA EarlyStepIsEarly ==
  ASSUME TypeOK, EarlyStep
  PROVE  /\ pc' \notin Stored
         /\ pc' = "idle" => reply' = Refused
         /\ pc' \in {"insert", "select"} => pc' = stmt.op /\ activeTable' = "current"
<1>1. stmt.op \in {"insert", "select"} \/ pc = "idle"
  BY StatementType DEF Statement
<1>2. QED
  BY <1>1 DEF EarlyStep, RefuseToOpen, FastPath, SwitchTable, MigrateText,
       DropOldBackup, BackUpText, FinalizeMigration, StartRebuild, ScanRow,
       RejectRow, ScanBreaks, ScanDone, RejectInsert, Error, Continue, Stored

LEMMA ControlStep == ControlInv /\ [Next]_vars => ControlInv'
<1> SUFFICES ASSUME ControlInv, [Next]_vars PROVE ControlInv'
  OBVIOUS
<1>1. TypeInv' /\ TypeOK
  BY TypeStep DEF ControlInv, TypeInv
<1>2. CASE UNCHANGED vars
  BY <1>1, <1>2 DEF ControlInv, vars
<1>3. CASE Restart \/ \E s \in Statements : Begin(s)
  BY <1>1, <1>3 DEF ControlInv, Restart, Begin, Inserting
<1>4. CASE EarlyStep
  <2>1. stmt' = stmt
    BY <1>1, <1>4, SameStatement DEF EarlyStep, Step, Activate, Insert
  <2>2. QED
    BY <1>1, <1>4, <2>1, EarlyStepIsEarly DEF ControlInv, Inserting, Stored
<1>5. CASE AppendRow \/ IndexRow \/ RememberNo \/ AnswerInsert \/ Select
  <2>1. stmt' = stmt
    BY <1>1, <1>5, SameStatement DEF Step, Insert
  <2>2. QED
    BY <1>1, <1>5, <2>1
    DEF ControlInv, Inserting, AppendRow, IndexRow, RememberNo, AnswerInsert, Select,
        Error, Continue
<1>6. QED
  BY <1>2, <1>3, <1>4, <1>5 DEF Next, Step, Activate, Insert, EarlyStep

(* SELECT never follows a pointer into the frame of an earlier statement,  *)
(* whatever failed before it.                                              *)
THEOREM SelectsUseTheirTable == Spec => []ActiveTableIsLive
<1>1. Init => ControlInv
  BY TypeInit DEF Init, ControlInv, Inserting
<1>2. ControlInv => ActiveTableIsLive
  BY DEF ControlInv, ActiveTableIsLive
<1>3. QED
  BY <1>1, <1>2, ControlStep, PTL DEF Spec

(***************************************************************************)
(* A confirmed INSERT is found again, whatever fails, as long as fwrite    *)
(* and fclose tell the truth: from the write on, the record stands where   *)
(* ref says, and once indexed the index leads to it.                       *)
(***************************************************************************)
StoredInv ==
  /\ ControlInv
  /\ pc \in Stored =>
       /\ data[T] # Absent /\ ref \in DOMAIN data[T].bin
       /\ data[T].bin[ref] = [id |-> nextId, no |-> stmt.no]
  /\ pc \in {"set", "answer"} => index[nextId] = ref
  /\ ConfirmedInsertIsFound

LEMMA StoredStep ==
  ASSUME "tear" \notin Faults, StoredInv, [Next]_vars
  PROVE  StoredInv'
<1>1. ControlInv' /\ TypeOK
  BY ControlStep DEF StoredInv, ControlInv, TypeInv
<1>2. CASE UNCHANGED vars
  BY <1>1, <1>2 DEF StoredInv, ConfirmedInsertIsFound, vars, T
<1>3. CASE Restart \/ \E s \in Statements : Begin(s)
  BY <1>1, <1>3 DEF StoredInv, ConfirmedInsertIsFound, Restart, Begin, Stored
<1>4. ASSUME pc' \notin Stored, pc' = "idle" => ~reply'.ok PROVE StoredInv'
  BY <1>1, <1>4 DEF StoredInv, ConfirmedInsertIsFound, Stored
<1>5. CASE EarlyStep
  BY <1>1, <1>4, <1>5, EarlyStepIsEarly DEF Refused
<1>6. ASSUME Error PROVE StoredInv'
  BY <1>4, <1>6 DEF Error, Refused, Stored
<1>7. ASSUME Step PROVE T \in Tables /\ T' = T /\ stmt' = stmt /\ stmt.no \in Texts
  BY <1>1, <1>7, SameStatement
<1>8. CASE AppendRow
  <2>1. T \in Tables /\ T' = T /\ stmt' = stmt /\ stmt.no \in Texts
    BY <1>7, <1>8 DEF Step, Insert
  <2> DEFINE old == Opened(data[T])
             new == [id |-> nextId', no |-> stmt.no]
  <2>2. CASE /\ data' = [data EXCEPT ![T] = [text |-> old.text,
                                              bin  |-> old.bin \o <<new>>]]
             /\ ref' = OffsetOfEnd(old) /\ pc' = "index"
    <3>1. old.bin \in Seq(Record)
      BY <1>1, <2>1, OpenedType DEF TypeOK, Disk, File
    <3>2. new \in Record
      <4>1. nextId' \in Ids
        BY <1>1 DEF ControlInv, TypeInv, TypeOK
      <4>2. QED
        BY <2>1, <4>1 DEF Record, Row
    <3>3. Len(old.bin) \in Nat /\ <<new>> \in Seq(Record) /\ Len(<<new>>) = 1
      BY <3>1, <3>2, LenProperties
    <3>4. Len(old.bin \o <<new>>) = Len(old.bin) + 1
          /\ (old.bin \o <<new>>)[Len(old.bin) + 1] = new
          /\ DOMAIN (old.bin \o <<new>>) = 1..Len(old.bin) + 1
      BY <3>1, <3>2, <3>3, ConcatProperties, LenProperties
    <3>5. data'[T] = [text |-> old.text, bin  |-> old.bin \o <<new>>]
      BY <1>1, <2>1, <2>2 DEF TypeOK, Disk
    <3>6. data'[T] # Absent
      <4>1. old.text \in Seq(Row) /\ old.bin \o <<new>> \in Seq(Record)
        BY <1>1, <2>1, <3>1, <3>3, OpenedType, ConcatProperties DEF TypeOK, Disk, File
      <4>2. \A s \in Seq(Row), u \in Seq(Record) : [text |-> s, bin |-> u] # Absent
        BY StorageAssumption DEF File
      <4>3. QED
        BY <3>5, <4>1, <4>2
    <3>7. ref' \in DOMAIN data'[T].bin /\ data'[T].bin[ref'] = new
      BY <2>2, <3>3, <3>4, <3>5 DEF OffsetOfEnd
    <3>8. QED
      BY <1>1, <2>1, <2>2, <3>6, <3>7 DEF StoredInv, ConfirmedInsertIsFound
  <2>3. CASE Error
    BY <1>6, <2>3
  <2>4. QED
    BY <1>8, <2>2, <2>3 DEF AppendRow, Continue
<1>9. CASE IndexRow
  <2>1. T \in Tables /\ T' = T /\ stmt' = stmt /\ data' = data /\ ref' = ref
        /\ nextId' = nextId
    BY <1>7, <1>9 DEF Step, Insert, IndexRow, disk, call
  <2>2. CASE index' = [index EXCEPT ![nextId] = ref] /\ pc' \in {"set", "answer"}
    BY <1>1, <1>9, <2>1, <2>2
    DEF IndexRow, StoredInv, ConfirmedInsertIsFound, Stored, TypeOK
  <2>3. CASE Error
    BY <1>6, <2>3
  <2>4. QED
    BY <1>9, <2>2, <2>3 DEF IndexRow, Continue
<1>10. CASE RememberNo
  <2> pc = "set" /\ T' = T /\ stmt' = stmt /\ data' = data /\ ref' = ref
      /\ nextId' = nextId /\ index' = index
    BY <1>7, <1>10 DEF Step, Insert, RememberNo, disk, tree, call
  <2>1. CASE pc' = "answer"
    BY <1>1, <2>1 DEF StoredInv, ConfirmedInsertIsFound, Stored
  <2>2. QED
    BY <1>6, <1>10, <2>1 DEF RememberNo, Continue
<1>11. CASE AnswerInsert
  <2>1. CASE /\ reply' = [ok |-> TRUE, id |-> nextId, rows |-> {}]
             /\ pc' = "idle"
    BY <1>1, <1>7, <1>11, <2>1
    DEF Step, Insert, AnswerInsert, StoredInv, ConfirmedInsertIsFound, Stored,
        disk, cache, call
  <2>2. QED
    BY <1>6, <1>11, <2>1 DEF AnswerInsert
<1>12. CASE Select
  <2>1. stmt.op = "select" /\ stmt' = stmt /\ pc' = "idle"
    BY <1>7, <1>12 DEF Step, Select, StoredInv, ControlInv, Error
  <2>2. QED
    BY <1>1, <2>1 DEF StoredInv, ConfirmedInsertIsFound, Stored
<1>13. QED
  BY <1>2, <1>3, <1>5, <1>8, <1>9, <1>10, <1>11, <1>12
  DEF Next, Step, Activate, Insert, EarlyStep

(* The row of a confirmed INSERT is in the file and in the index, with the *)
(* reported id, after any errors and crashes but torn writes.              *)
THEOREM ConfirmedIsStored ==
  ASSUME "tear" \notin Faults PROVE Spec => []ConfirmedInsertIsFound
<1>1. Init => StoredInv
  BY TypeInit DEF Init, StoredInv, ControlInv, ConfirmedInsertIsFound, Inserting, Stored
<1>2. StoredInv /\ [Next]_vars => StoredInv'
  BY StoredStep
<1>3. StoredInv => ConfirmedInsertIsFound
  BY DEF StoredInv
<1>4. QED
  BY <1>1, <1>2, <1>3, PTL DEF Spec

(***************************************************************************)
(* The caches of the storage layer describe the file, keys do not repeat,  *)
(* and SELECT returns the rows that match: for all tables and statements,  *)
(* with the process ending at any step.                                    *)
(***************************************************************************)

(* Rows activation accepts: no id is missing or repeated, nor a student    *)
(* number, and the ids leave room for as many rows as are still inserted.  *)
GoodRows(t, s) ==
  /\ s \in Seq(Row)
  /\ \A p \in DOMAIN s :
       /\ s[p].id \in Ids /\ s[p].id + MaxRows <= MaxId + Len(s)
       /\ t \in StudentTables => s[p].no # Empty
       /\ \A q \in DOMAIN s : p # q =>
            /\ s[p].id # s[q].id
            /\ t \in StudentTables => s[p].no # s[q].no

(* A text file, a binary file or none.                                     *)
GoodFile(t, f) ==
  f # Absent => /\ f \in File
                /\ f.text = <<>> \/ f.bin = <<>>
                /\ GoodRows(t, Rows(f))

(***************************************************************************)
(* What the theorems suppose: nothing fails, but the process may be killed *)
(* at any step; every schema has an id column; the files are good at       *)
(* first, and ids wide enough for the rows.                                *)
(***************************************************************************)
Orderly == /\ Faults \subseteq {"crash"}
           /\ IdTables = Tables
           /\ MaxRows <= MaxId
           /\ \A t \in Tables : \A f \in InitFiles[t] : GoodFile(t, f)

(***************************************************************************)
(* The invariant.  Where a statement stands:                               *)
(***************************************************************************)
Switching == {"migrate", "dropBackup", "backup", "finalize", "rebuild"}
Settled   == {"idle", "open", "insert", "select", "answer"}
Working   == {"rebuild", "scan", "insert", "index", "set", "answer", "select"}
Copied    == {"dropBackup", "backup", "finalize"}
Early     == {"open", "scan", "insert"} \cup Switching

(* The file holds records only.                                            *)
Binary(f) == f # Absent /\ f.text = <<>>

(* An index knows the first n rows, of which no id is above m.             *)
IndexKnows(ix, s, n, m) ==
  /\ n \in 0..Len(s)
  /\ \A p \in 1..n : ix[s[p].id] = p /\ s[p].id <= m
  /\ \A i \in Ids : ix[i] # 0 => ix[i] \in 1..n /\ s[ix[i]].id = i
  /\ m \in Ids /\ m + MaxRows <= MaxId + Len(s)

(* The set of student numbers, if there is one, is that of these rows.     *)
SetKnows(s, n) == guarded => noSet = {s[p].no : p \in 1..n}

(* Everything is known about the table's file.                             *)
Known(t) ==
  /\ Binary(data[t])
  /\ IndexKnows(index, data[t].bin, Len(data[t].bin), nextId)
  /\ guarded <=> t \in StudentTables
  /\ SetKnows(data[t].bin, Len(data[t].bin))

FilesGood == \A t \in Tables : GoodFile(t, data[t])

(* A migration works on a text file, and the copy it makes is as good.     *)
MigrationGood ==
  /\ pc \in Migrating => data[T].bin = <<>>
  /\ pc \in Copied => Binary(tmp[T]) /\ GoodFile(T, tmp[T])
  /\ pc \in Copied \cap Migrating => tmp[T].bin = data[T].text

(* A statement past its activation works on the active table.              *)
ActiveGood ==
  /\ pc \notin {"idle", "open"} => path = T
  /\ pc \in Working => Binary(data[T])
  /\ pc \in Working \ {"rebuild"} => ready
  /\ pc # "scan" => pos = 0 /\ maxId = 0
  /\ ~treeTorn

(* What the caches know at each step.                                      *)
CachesGood ==
  /\ pc \in Switching => ~guarded /\ noSet = {}
  /\ pc = "scan" =>
       /\ IndexKnows(index, data[T].bin, pos, maxId)
       /\ guarded <=> T \in StudentTables
       /\ SetKnows(data[T].bin, pos)
  /\ pc \in Settled /\ ready /\ path \in Tables => Known(path)
  /\ pc \in {"index", "set"} =>
       /\ ref = Len(data[T].bin)
       /\ IndexKnows(index, data[T].bin, IF pc = "set" THEN ref ELSE ref - 1, nextId)
       /\ guarded <=> T \in StudentTables
       /\ SetKnows(data[T].bin, ref - 1)

(* An INSERT was issued below the bound.                                   *)
RoomForRow ==
  pc \in Early /\ stmt.op = "insert" =>
    Len(Rows(IF pc = "finalize" THEN tmp[T] ELSE data[T])) < MaxRows

CacheInv == /\ StoredInv
            /\ FilesGood /\ MigrationGood /\ ActiveGood /\ CachesGood
            /\ RoomForRow
            /\ SelectAnswers

(***************************************************************************)
(* Lemmas about files and rows.                                            *)
(***************************************************************************)
LEMMA NoFaults ==
  ASSUME Orderly PROVE "alloc" \notin Faults /\ "io" \notin Faults /\ "tear" \notin Faults
  BY DEF Orderly

(* Without failures a file is what it is taken for.                        *)
LEMMA NothingMisread ==
  ASSUME Orderly, NEW f
  PROVE  /\ Probed(f) = {Opened(f)}
         /\ ~TornAtFirst(f) => BinaryVerdicts(f) = {f.text = <<>>}
  BY NoFaults DEF Probed, BinaryVerdicts

LEMMA RowsOfOneKind ==
  ASSUME NEW f \in File
  PROVE  /\ f # Absent
         /\ f.text = <<>> => Rows(f) = f.bin
         /\ f.bin = <<>> => Rows(f) = f.text
<1>1. f # Absent /\ f.text \in Seq(Row) /\ f.bin \in Seq(Record)
  BY StorageAssumption DEF File
<1>2. Rows(f) = f.text \o f.bin
  BY <1>1 DEF Rows
<1>3. \A u \in Seq(Record) : <<>> \o u = u
  BY EmptySeq, ConcatEmptySeq
<1>4. \A u \in Seq(Row) : u \o <<>> = u
  BY EmptySeq, ConcatEmptySeq
<1>5. QED
  BY <1>1, <1>2, <1>3, <1>4

LEMMA EmptyIsGood == ASSUME NEW t PROVE GoodFile(t, EmptyFile)
<1>1. EmptyFile \in File /\ EmptyFile.text = <<>> /\ EmptyFile.bin = <<>>
  BY EmptyFileType DEF EmptyFile
<1>2. Rows(EmptyFile) = <<>>
  BY <1>1, RowsOfOneKind
<1>3. GoodRows(t, <<>>)
  BY DEF GoodRows
<1>4. QED
  BY <1>1, <1>2, <1>3 DEF GoodFile

LEMMA OpenedIsGood ==
  ASSUME NEW t, NEW f, GoodFile(t, f)
  PROVE  GoodFile(t, Opened(f)) /\ Opened(f) \in File /\ Opened(f) # Absent
<1>1. Opened(f) # Absent
  BY EmptyFileType, StorageAssumption DEF Opened
<1>2. QED
  BY <1>1, EmptyIsGood DEF Opened, GoodFile

(* The records of a good binary file are its rows, and none is torn.       *)
LEMMA GoodRecords ==
  ASSUME NEW f, NEW t, GoodFile(t, f), Binary(f)
  PROVE  /\ Rows(f) = f.bin /\ f.bin \in Seq(Row) /\ Len(f.bin) \in Nat
         /\ DOMAIN f.bin = 1..Len(f.bin)
         /\ GoodRows(t, f.bin)
         /\ \A p \in 1..Len(f.bin) : f.bin[p] \in Row /\ f.bin[p] # Torn
<1>1. f \in File /\ Rows(f) = f.bin /\ GoodRows(t, f.bin)
  BY RowsOfOneKind DEF GoodFile, Binary
<1>2. f.bin \in Seq(Row)
  BY <1>1 DEF GoodRows
<1>3. QED
  BY <1>1, <1>2, LenProperties, ElementOfSeq, StorageAssumption

(* One more row with an id above the others and a new student number.      *)
LEMMA OneMoreRow ==
  ASSUME NEW t, NEW s, GoodRows(t, s), NEW r \in Row, r.id \in Ids,
         r.id + MaxRows <= MaxId + Len(s) + 1,
         \A p \in 1..Len(s) : s[p].id < r.id,
         t \in StudentTables => /\ r.no # Empty
                                /\ \A p \in 1..Len(s) : s[p].no # r.no
  PROVE  GoodRows(t, s \o <<r>>)
<1> DEFINE u == s \o <<r>>
<1>1. s \in Seq(Row) /\ <<r>> \in Seq(Row) /\ Len(s) \in Nat /\ Len(<<r>>) = 1
  BY LenProperties DEF GoodRows
<1>2. /\ u \in Seq(Row) /\ Len(u) = Len(s) + 1 /\ DOMAIN u = 1..Len(s) + 1
      /\ u[Len(s) + 1] = r /\ \A p \in 1..Len(s) : u[p] = s[p]
      /\ DOMAIN s = 1..Len(s)
  BY <1>1, ConcatProperties, LenProperties
<1> HIDE DEF u
<1>3. MaxRows \in Int /\ MaxId \in Int /\ Len(s) \in Int /\ \A i \in Ids : i \in Int
  BY <1>1, StorageAssumption, SqlAssumption DEF Ids
<1>4. ASSUME NEW p \in DOMAIN u, p # Len(s) + 1
      PROVE  /\ p \in 1..Len(s) /\ p \in DOMAIN s /\ u[p] = s[p]
             /\ u[p].id # r.id /\ (t \in StudentTables => u[p].no # r.no)
  <2>1. p \in 1..Len(s) /\ p \in DOMAIN s /\ u[p] = s[p]
    BY <1>1, <1>2, <1>4
  <2>2. s[p].id \in Ids /\ s[p].id < r.id
    BY <2>1 DEF GoodRows
  <2>3. \A a, b \in Int : a < b => a # b
    OBVIOUS
  <2>4. s[p].id # r.id
    BY <1>3, <2>2, <2>3
  <2>5. t \in StudentTables => s[p].no # r.no
    BY <2>1
  <2>6. QED
    BY <2>1, <2>4, <2>5
<1>5. ASSUME NEW p \in DOMAIN u
      PROVE  /\ u[p].id \in Ids /\ u[p].id + MaxRows <= MaxId + Len(u)
             /\ t \in StudentTables => u[p].no # Empty
  <2>1. CASE p = Len(s) + 1
    BY <1>1, <1>2, <1>3, <2>1
  <2>2. CASE p # Len(s) + 1
    <3>1. s[p].id \in Ids /\ s[p].id + MaxRows <= MaxId + Len(s)
          /\ (t \in StudentTables => s[p].no # Empty)
      BY <1>4, <2>2 DEF GoodRows
    <3>2. s[p].id \in Int
      BY <1>3, <3>1
    <3>3. s[p].id + MaxRows <= MaxId + (Len(s) + 1)
      BY <1>3, <3>1, <3>2
    <3>4. QED
      BY <1>2, <1>4, <2>2, <3>1, <3>3
  <2>3. QED
    BY <2>1, <2>2
<1>6. ASSUME NEW p \in DOMAIN u, NEW q \in DOMAIN u, p # q
      PROVE  u[p].id # u[q].id /\ (t \in StudentTables => u[p].no # u[q].no)
  <2>1. CASE p = Len(s) + 1
    BY <1>2, <1>4, <1>6, <2>1
  <2>2. CASE q = Len(s) + 1
    BY <1>2, <1>4, <1>6, <2>2
  <2>3. CASE p # Len(s) + 1 /\ q # Len(s) + 1
    <3>1. /\ p \in DOMAIN s /\ q \in DOMAIN s /\ u[p] = s[p] /\ u[q] = s[q]
      BY <1>4, <2>3
    <3>2. QED
      BY <1>6, <3>1 DEF GoodRows
  <2>4. QED
    BY <2>1, <2>2, <2>3
<1>7. QED
  BY <1>2, <1>5, <1>6 DEF GoodRows, u

(***************************************************************************)
(* The steps, one by one.                                                  *)
(***************************************************************************)
LEMMA NextIsStored ==
  ASSUME Orderly, CacheInv, [Next]_vars
  PROVE  StoredInv' /\ ControlInv' /\ TypeOK /\ TypeOK'
  BY NoFaults, StoredStep DEF CacheInv, StoredInv, ControlInv, TypeInv

(* What the table's file is to a statement past its activation.            *)
LEMMA AtWork ==
  ASSUME CacheInv, pc \in Working
  PROVE  /\ T \in Tables /\ path = T /\ data[T] # Absent /\ data[T].text = <<>>
         /\ data[T] \in File /\ Records = data[T].bin /\ Rows(data[T]) = data[T].bin
         /\ data[T].bin \in Seq(Row) /\ Len(data[T].bin) \in Nat
         /\ DOMAIN data[T].bin = 1..Len(data[T].bin)
         /\ GoodRows(T, data[T].bin)
         /\ \A n : ~Lost(n)
         /\ \A n \in 1..Len(data[T].bin) : Readings(n) = {data[T].bin[n]}
<1>1. pc # "idle" /\ TypeOK
  BY DEF Working, CacheInv, StoredInv, ControlInv, TypeInv
<1>2. T \in Tables /\ path = T /\ Binary(data[T]) /\ GoodFile(T, data[T])
  BY <1>1, StatementType DEF CacheInv, ActiveGood, FilesGood, Working
<1>3. Records = data[T].bin
  BY <1>2 DEF Binary, Records
<1>4. \A n : ~Lost(n)
  BY <1>2, <1>3, GoodRecords DEF Lost
<1>5. QED
  BY <1>2, <1>3, <1>4, GoodRecords DEF Binary, GoodFile, Readings

(* A statement ends, or goes on, without a change to files and caches.     *)
LEMMA SettledStep ==
  ASSUME CacheInv, StoredInv', SelectAnswers',
         UNCHANGED <<disk, cache, stmt, pos, maxId>>,
         pc \in Settled, pc' \in Settled,
         pc' # "idle" => InPlace /\ pc = "open" /\ pc' # "answer"
  PROVE  CacheInv'
<1>1. T' = T /\ data' = data /\ path' = path /\ ready' = ready
  BY DEF T, disk, cache
<1>2. FilesGood' /\ MigrationGood' /\ RoomForRow'
  BY <1>1 DEF CacheInv, FilesGood, MigrationGood, RoomForRow, Settled, Migrating,
       Copied, Early, Switching
<1>3. ActiveGood'
  <2>1. pc' # "idle" => Binary(data[T])
    <3>1. ASSUME pc' # "idle" PROVE Known(path)
      <4>1. TypeOK /\ pc # "idle"
        BY <3>1 DEF CacheInv, StoredInv, ControlInv, TypeInv
      <4>2. T \in Tables
        BY <4>1, StatementType
      <4>3. QED
        BY <3>1, <4>2 DEF CacheInv, CachesGood, InPlace
    <3>2. QED
      BY <3>1 DEF Known, InPlace
  <2>2. treeTorn' = treeTorn
    BY DEF cache
  <2>3. QED
    BY <1>1, <2>1, <2>2 DEF CacheInv, ActiveGood, Settled, InPlace, Working
<1>4. CachesGood'
  <2>1. Known(path) => Known(path)'
    BY <1>1 DEF Known, Binary, IndexKnows, SetKnows, cache
  <2>2. QED
    BY <1>1, <2>1 DEF CacheInv, CachesGood, Settled, Switching
<1>5. QED
  BY <1>2, <1>3, <1>4 DEF CacheInv

LEMMA BeginKeeps ==
  ASSUME Orderly, CacheInv, NEW s \in Statements, Begin(s)
  PROVE  CacheInv'
<1>1. StoredInv' /\ TypeOK
  BY NextIsStored DEF Next
<1>2. pc = "idle" /\ pc' = "open" /\ stmt' = s /\ data' = data /\ s.table \in Tables
      /\ T' = s.table
  BY SqlAssumption DEF Begin, disk, Statement, T
<1>3. FilesGood' /\ MigrationGood' /\ SelectAnswers'
  BY <1>2 DEF CacheInv, FilesGood, MigrationGood, SelectAnswers, Migrating, Copied
<1>4. ActiveGood'
  BY <1>2 DEF Begin, cache, CacheInv, ActiveGood, Working
<1>5. CachesGood'
  <2>1. path' = path /\ ready' = ready /\ (Known(path) => Known(path)')
    BY <1>2 DEF Begin, cache, Known, Binary, IndexKnows, SetKnows
  <2>2. QED
    BY <1>2, <2>1 DEF CacheInv, CachesGood, Settled, Switching
<1>6. RoomForRow'
  <2>1. GoodFile(T', data[T'])
    BY <1>2 DEF CacheInv, FilesGood
  <2>2. ASSUME s.op = "insert" PROVE Len(Rows(data[T'])) < MaxRows
    <3> DEFINE f == Opened(data[T'])
    <3>1. Len(f.text) + Len(f.bin) < MaxRows
      BY <1>2, <2>2 DEF Begin
    <3>2. CASE data[T'] = Absent
      BY <3>1, <3>2 DEF Rows, Opened, EmptyFile
    <3>3. CASE data[T'] # Absent
      <4>1. f = data[T'] /\ f \in File /\ Len(f.text) \in Nat /\ Len(f.bin) \in Nat
            /\ (f.text = <<>> \/ f.bin = <<>>) /\ Len(<<>>) = 0
        BY <2>1, <3>3, LenProperties, EmptySeq DEF GoodFile, File, Opened
      <4>2. Rows(f) = f.text \/ Rows(f) = f.bin
        BY <4>1, RowsOfOneKind
      <4> HIDE DEF f
      <4>3. Len(f.text) < MaxRows /\ Len(f.bin) < MaxRows
        <5>1. \A a, b, c \in Nat : a + b < c => a < c /\ b < c
          OBVIOUS
        <5>2. QED
          BY <3>1, <4>1, <5>1, StorageAssumption
      <4>4. QED
        BY <4>1, <4>2, <4>3
    <3>4. QED
      BY <3>2, <3>3
  <2>3. QED
    BY <1>2, <2>2 DEF RoomForRow
<1>7. QED
  BY <1>1, <1>3, <1>4, <1>5, <1>6 DEF CacheInv

LEMMA RestartKeeps ==
  ASSUME Orderly, CacheInv, Restart
  PROVE  CacheInv'
<1>1. StoredInv'
  BY NextIsStored DEF Next
<1>2. pc' = "idle" /\ ~ready' /\ data' = data /\ pos' = 0 /\ maxId' = 0 /\ ~treeTorn'
      /\ stmt' = NoStmt
  BY DEF Restart, disk
<1>3. QED
  BY <1>1, <1>2 DEF CacheInv, FilesGood, MigrationGood, ActiveGood, CachesGood,
       RoomForRow, SelectAnswers, Migrating, Copied, Working, Settled, Switching, Early

LEMMA SwitchKeeps ==
  ASSUME Orderly, CacheInv, SwitchTable
  PROVE  CacheInv'
<1>1. StoredInv' /\ TypeOK /\ T \in Tables /\ T' = T /\ stmt' = stmt
  BY NextIsStored, SameStatement DEF Next, Step, Activate
<1> DEFINE f == Opened(data[T])
<1>2. PICK binary \in BinaryVerdicts(f) :
        /\ path' = T /\ data' = [data EXCEPT ![T] = f]
        /\ pc' = IF binary THEN "rebuild" ELSE "migrate"
  <2>1. Probed(data[T]) = {f}
    BY NothingMisread
  <2>2. QED
    BY <2>1, NoFaults DEF SwitchTable, Continue
<1>3. pc = "open" /\ ~guarded' /\ noSet' = {} /\ tmp' = tmp /\ treeTorn' = treeTorn
      /\ pos' = pos /\ maxId' = maxId
  BY DEF SwitchTable, tree, call
<1>4. GoodFile(T, f) /\ f \in File /\ f # Absent
  BY <1>1, OpenedIsGood DEF CacheInv, FilesGood
<1>5. data'[T] = f /\ \A t \in Tables \ {T} : data'[t] = data[t]
  BY <1>1, <1>2 DEF TypeOK, Disk
<1>6. pc' \in {"rebuild", "migrate"} /\ (pc' = "rebuild" => Binary(f))
      /\ (pc' = "migrate" => f.bin = <<>>)
  <2>1. f.bin # <<>> => f.bin[1] # Torn
    <3>1. ASSUME f.bin # <<>>, f.bin[1] = Torn PROVE FALSE
      <4>1. Binary(f)
        BY <1>4, <3>1 DEF GoodFile, Binary
      <4>2. Len(f.bin) # 0
        <5>1. \A u \in Seq(Record) : u # <<>> => Len(u) # 0
          BY EmptySeq
        <5>2. f.bin \in Seq(Record)
          BY <1>4 DEF File
        <5>3. QED
          BY <3>1, <5>1, <5>2
      <4>3. 1 \in 1..Len(f.bin)
        BY <1>4, <4>1, <4>2, GoodRecords
      <4>4. QED
        BY <1>4, <3>1, <4>1, <4>3, GoodRecords
    <3>2. QED
      BY <3>1
  <2>2. binary \in BOOLEAN /\ (binary <=> f.text = <<>>)
    <3>1. BinaryVerdicts(f) = {f.text = <<>>}
      BY <2>1, NothingMisread DEF TornAtFirst
    <3>2. QED
      BY <1>2, <3>1
  <2>3. QED
    BY <1>2, <1>4, <2>2 DEF Binary, GoodFile
<1> HIDE DEF f
<1>7. FilesGood' /\ MigrationGood'
  <2>1. \A t \in Tables : GoodFile(t, data'[t])
    BY <1>1, <1>4, <1>5 DEF CacheInv, FilesGood
  <2>2. QED
    BY <1>1, <1>5, <1>6, <2>1 DEF FilesGood, MigrationGood, Migrating, Copied, GoodFile
<1>8. ActiveGood'
  BY <1>1, <1>2, <1>3, <1>5, <1>6 DEF CacheInv, ActiveGood, Binary, Working
<1>9. CachesGood'
  BY <1>3, <1>6 DEF CachesGood, Settled, Switching
<1>10. RoomForRow'
  <2>1. Rows(f) = Rows(data[T])
    BY <1>4, RowsOfOneKind DEF Opened, EmptyFile, Rows, f
  <2>2. QED
    BY <1>1, <1>3, <1>5, <1>6, <2>1 DEF CacheInv, RoomForRow, Early, Switching
<1>11. QED
  BY <1>1, <1>6, <1>7, <1>8, <1>9, <1>10 DEF CacheInv, SelectAnswers

(* The copy of a good text file is a good binary file with the same rows.  *)
LEMMA CopyIsGood ==
  ASSUME NEW t, NEW f, GoodFile(t, f), f # Absent, f.bin = <<>>
  PROVE  LET g == [text |-> <<>>, bin |-> Converted(f)]
         IN  /\ Converted(f) = f.text /\ Binary(g) /\ GoodFile(t, g)
             /\ Rows(g) = Rows(f)
<1> DEFINE g == [text |-> <<>>, bin |-> Converted(f)]
<1>1. f \in File /\ f.text \in Seq(Row) /\ Rows(f) = f.text /\ GoodRows(t, f.text)
  BY RowsOfOneKind DEF GoodFile, File
<1>2. Converted(f) = f.text
  BY <1>1, ConcatEmptySeq DEF Converted
<1>3. g \in File
  BY <1>1, ConvertedType DEF File
<1>4. g.text = <<>> /\ g.bin = f.text
  BY <1>2
<1> HIDE DEF g
<1>5. g # Absent /\ Rows(g) = f.text
  BY <1>3, <1>4, RowsOfOneKind
<1>6. QED
  BY <1>1, <1>2, <1>3, <1>4, <1>5 DEF Binary, GoodFile, g

(* In the conjuncts about the caches and the statement nothing happens     *)
(* while files are renamed.                                                *)
LEMMA FileStep ==
  ASSUME CacheInv, StoredInv', UNCHANGED <<cache, stmt, pos, maxId>>,
         pc \in Switching, pc' \in Switching
  PROVE  /\ CachesGood' /\ SelectAnswers'
         /\ T' = T
         /\ (pc' = "rebuild" => Binary(data[T])') => ActiveGood'
<1>1. T' = T
  BY DEF T
<1>2. /\ pc \notin {"idle", "open", "scan", "index", "set"} \cup Settled
      /\ pc' \notin {"idle", "open", "scan", "index", "set"} \cup Settled
      /\ pc' \in Working => pc' = "rebuild"
  BY DEF Switching, Settled, Working
<1>3. CachesGood' /\ SelectAnswers'
  BY <1>2 DEF cache, CacheInv, CachesGood, SelectAnswers
<1>4. path' = path /\ treeTorn' = treeTorn /\ path = T /\ pos = 0 /\ maxId = 0 /\ ~treeTorn
  BY <1>2 DEF cache, CacheInv, ActiveGood
<1>5. QED
  BY <1>1, <1>2, <1>3, <1>4 DEF ActiveGood

LEMMA MigrateKeeps ==
  ASSUME Orderly, CacheInv, MigrateText
  PROVE  CacheInv'
<1>1. StoredInv' /\ TypeOK /\ T \in Tables /\ T' = T /\ stmt' = stmt
  BY NextIsStored, SameStatement DEF Next, Step, Activate
<1> DEFINE g == [text |-> <<>>, bin |-> Converted(data[T])]
<1>2. tmp' = [tmp EXCEPT ![T] = g] /\ pc' = "dropBackup" /\ pc = "migrate"
      /\ data' = data /\ UNCHANGED <<cache, pos, maxId>>
  BY NoFaults DEF MigrateText, Continue, call
<1>3. GoodFile(T, data[T]) /\ data[T] # Absent /\ data[T].bin = <<>>
  BY <1>1, <1>2 DEF CacheInv, FilesGood, MigrationGood, StoredInv, ControlInv, TypeInv,
     MigrationHasFile, Migrating
<1>4. g.bin = data[T].text /\ Binary(g) /\ GoodFile(T, g)
  BY <1>3, CopyIsGood
<1>5. tmp'[T] = g
  BY <1>1, <1>2 DEF TypeOK, Disk
<1> HIDE DEF g
<1>6. ActiveGood' /\ CachesGood' /\ SelectAnswers'
  BY <1>1, <1>2, FileStep DEF Switching
<1>7. FilesGood' /\ MigrationGood'
  BY <1>1, <1>2, <1>3, <1>4, <1>5 DEF CacheInv, FilesGood, MigrationGood, Migrating, Copied
<1>8. RoomForRow'
  BY <1>1, <1>2 DEF CacheInv, RoomForRow, Early, Switching
<1>9. QED
  BY <1>1, <1>6, <1>7, <1>8 DEF CacheInv

LEMMA DropKeeps ==
  ASSUME Orderly, CacheInv, DropOldBackup
  PROVE  CacheInv'
<1>1. StoredInv' /\ T' = T /\ stmt' = stmt
  BY NextIsStored, SameStatement DEF Next, Step, Activate
<1>2. pc = "dropBackup" /\ pc' = "backup" /\ data' = data /\ tmp' = tmp
      /\ UNCHANGED <<cache, pos, maxId>>
  BY DEF DropOldBackup, Continue, call
<1>3. ActiveGood' /\ CachesGood' /\ SelectAnswers'
  BY <1>1, <1>2, FileStep DEF Switching
<1>4. QED
  BY <1>1, <1>2, <1>3 DEF CacheInv, FilesGood, MigrationGood, RoomForRow, Migrating,
     Copied, Early, Switching

LEMMA BackUpKeeps ==
  ASSUME Orderly, CacheInv, BackUpText
  PROVE  CacheInv'
<1>1. StoredInv' /\ TypeOK /\ T \in Tables /\ T' = T /\ stmt' = stmt
  BY NextIsStored, SameStatement DEF Next, Step, Activate
<1>2. pc = "backup" /\ pc' = "finalize" /\ data' = [data EXCEPT ![T] = Absent]
      /\ tmp' = tmp /\ UNCHANGED <<cache, pos, maxId>>
  BY NoFaults DEF BackUpText, Continue, call
<1>3. ActiveGood' /\ CachesGood' /\ SelectAnswers'
  BY <1>1, <1>2, FileStep DEF Switching
<1>4. FilesGood' /\ MigrationGood'
  <2>1. \A t \in Tables : data'[t] = data[t] \/ data'[t] = Absent
    BY <1>1, <1>2 DEF TypeOK, Disk
  <2>2. QED
    BY <1>1, <1>2, <2>1 DEF CacheInv, FilesGood, MigrationGood, GoodFile, Migrating, Copied
<1>5. RoomForRow'
  <2>1. data[T] # Absent /\ data[T].bin = <<>> /\ tmp[T].bin = data[T].text
        /\ GoodFile(T, data[T]) /\ GoodFile(T, tmp[T]) /\ Binary(tmp[T])
    BY <1>1, <1>2 DEF CacheInv, FilesGood, MigrationGood, StoredInv, ControlInv, TypeInv,
       MigrationHasFile, Migrating, Copied
  <2>2. Rows(tmp[T]) = Rows(data[T])
    <3>1. Rows(data[T]) = data[T].text
      BY <2>1, RowsOfOneKind DEF GoodFile
    <3>2. Rows(tmp[T]) = tmp[T].bin
      BY <2>1, GoodRecords
    <3>3. QED
      BY <2>1, <3>1, <3>2
  <2>3. QED
    BY <1>1, <1>2, <2>2 DEF CacheInv, RoomForRow, Early, Switching
<1>6. QED
  BY <1>1, <1>3, <1>4, <1>5 DEF CacheInv

LEMMA FinalizeKeeps ==
  ASSUME Orderly, CacheInv, FinalizeMigration
  PROVE  CacheInv'
<1>1. StoredInv' /\ TypeOK /\ T \in Tables /\ T' = T /\ stmt' = stmt
  BY NextIsStored, SameStatement DEF Next, Step, Activate
<1>2. pc = "finalize" /\ pc' = "rebuild" /\ data' = [data EXCEPT ![T] = tmp[T]]
      /\ UNCHANGED <<cache, pos, maxId>>
  BY NoFaults DEF FinalizeMigration, Continue, call
<1>3. data'[T] = tmp[T] /\ \A t \in Tables \ {T} : data'[t] = data[t]
  BY <1>1, <1>2 DEF TypeOK, Disk
<1>4. Binary(tmp[T]) /\ GoodFile(T, tmp[T])
  BY <1>1, <1>2 DEF CacheInv, MigrationGood, Copied
<1>5. ActiveGood' /\ CachesGood' /\ SelectAnswers'
  <2>1. Binary(data[T])'
    BY <1>1, <1>3, <1>4 DEF Binary
  <2>2. QED
    BY <1>1, <1>2, <2>1, FileStep DEF Switching
<1>6. FilesGood' /\ MigrationGood'
  BY <1>1, <1>2, <1>3, <1>4 DEF CacheInv, FilesGood, MigrationGood, Migrating, Copied
<1>7. RoomForRow'
  BY <1>1, <1>2, <1>3 DEF CacheInv, RoomForRow, Early, Switching
<1>8. QED
  BY <1>1, <1>5, <1>6, <1>7 DEF CacheInv

(* While a table is worked on without a change to its file.                *)
LEMMA WorkStep ==
  ASSUME CacheInv, UNCHANGED <<disk, path, stmt>>, pc \in Working, pc' \in Working
  PROVE  /\ FilesGood' /\ MigrationGood'
         /\ T' = T /\ Records' = Records /\ data'[T] = data[T]
         /\ (ready' /\ treeTorn' = treeTorn /\ (pc' # "scan" => pos' = 0 /\ maxId' = 0))
              => ActiveGood'
         /\ (pc' \in Early => pc \in Early) => RoomForRow'
<1>1. T' = T /\ Records' = Records /\ data' = data /\ tmp' = tmp /\ path' = path
  BY DEF T, Records, disk
<1>2. pc' \notin Migrating \cup Copied \cup {"idle", "open"} /\ pc \notin {"idle", "open", "finalize"}
      /\ pc' # "finalize"
  BY DEF Working, Migrating, Copied
<1>3. FilesGood' /\ MigrationGood'
  BY <1>1, <1>2 DEF CacheInv, FilesGood, MigrationGood
<1>4. (pc' \in Early => pc \in Early) => RoomForRow'
  BY <1>1, <1>2 DEF CacheInv, RoomForRow
<1>5. path = T /\ Binary(data[T]) /\ ~treeTorn
  BY <1>2 DEF CacheInv, ActiveGood
<1>6. QED
  BY <1>1, <1>3, <1>4, <1>5 DEF ActiveGood

LEMMA RebuildKeeps ==
  ASSUME Orderly, CacheInv, StartRebuild
  PROVE  CacheInv'
<1>1. StoredInv' /\ TypeOK /\ T \in Tables /\ T' = T /\ stmt' = stmt
  BY NextIsStored, SameStatement DEF Next, Step, Activate
<1>2. /\ pc = "rebuild" /\ pc' = "scan" /\ ready' /\ guarded' = (T \in StudentTables)
      /\ index' = NoIndex /\ treeTorn' = FALSE
      /\ UNCHANGED <<disk, path, noSet, pos, maxId>>
  BY <1>1, NoFaults DEF StartRebuild, Continue, call, Orderly
<1>3. pos = 0 /\ maxId = 0 /\ noSet = {} /\ treeTorn = FALSE
  BY <1>1, <1>2 DEF CacheInv, ActiveGood, CachesGood, Switching, TypeOK
<1>4. FilesGood' /\ MigrationGood' /\ RoomForRow' /\ ActiveGood' /\ data'[T] = data[T]
  BY <1>1, <1>2, <1>3, WorkStep DEF Working, Early, Switching
<1>5. CachesGood'
  <2>1. Len(data[T].bin) \in Nat
    BY <1>2, AtWork DEF Working
  <2>2. IndexKnows(index, data[T].bin, pos, maxId)'
    BY <1>1, <1>2, <1>3, <1>4, <2>1, SqlAssumption, StorageAssumption
    DEF IndexKnows, NoIndex, Ids, Orderly
  <2>3. SetKnows(data[T].bin, pos)'
    BY <1>1, <1>2, <1>3, <1>4 DEF SetKnows
  <2>4. QED
    BY <1>1, <1>2, <2>2, <2>3 DEF CachesGood, Switching, Settled
<1>6. QED
  BY <1>1, <1>2, <1>4, <1>5 DEF CacheInv, SelectAnswers

(* The row behind those the index knows is not in the index.               *)
LEMMA NextIsFree ==
  ASSUME NEW t, NEW s, GoodRows(t, s), NEW ix, NEW n, NEW m,
         IndexKnows(ix, s, n, m), n < Len(s), Len(s) \in Nat
  PROVE  /\ n \in Nat /\ n + 1 \in 1..Len(s) /\ s[n + 1].id \in Ids
         /\ ix[s[n + 1].id] = 0
         /\ \A p \in 1..n : s[p].id \in Ids /\ s[p].id # s[n + 1].id
<1> DEFINE id == s[n + 1].id
<1>1. n \in Nat /\ n + 1 \in 1..Len(s) /\ DOMAIN s = 1..Len(s) /\ 1..n \subseteq 1..Len(s)
  BY LenProperties DEF IndexKnows, GoodRows
<1>2. id \in Ids /\ \A p \in 1..n : s[p].id \in Ids /\ s[p].id # id
  <2>1. \A p \in 1..n : p # n + 1
    BY <1>1
  <2>2. QED
    BY <1>1, <2>1 DEF GoodRows
<1>3. ASSUME ix[id] # 0 PROVE FALSE
  <2>1. ix[id] \in 1..n /\ s[ix[id]].id = id
    BY <1>2, <1>3 DEF IndexKnows
  <2>2. QED
    BY <1>2, <2>1
<1>4. QED
  BY <1>1, <1>2, <1>3

(* Once it has been put there the index knows one row more.                *)
LEMMA IndexNextRow ==
  ASSUME NEW t, NEW s, GoodRows(t, s), NEW ix \in [Ids -> Nat], NEW n, NEW m,
         IndexKnows(ix, s, n, m), n < Len(s), Len(s) \in Nat,
         NEW m1 \in Ids, m <= m1, s[n + 1].id <= m1, m1 + MaxRows <= MaxId + Len(s)
  PROVE  /\ ix[s[n + 1].id] = 0
         /\ IndexKnows([ix EXCEPT ![s[n + 1].id] = n + 1], s, n + 1, m1)
<1> DEFINE id == s[n + 1].id
           jx == [ix EXCEPT ![id] = n + 1]
<1>1. n \in Nat /\ n + 1 \in 1..Len(s) /\ n + 1 # 0
  BY NextIsFree
<1>2. id \in Ids /\ ix[id] = 0 /\ \A p \in 1..n : s[p].id \in Ids /\ s[p].id # id
  BY NextIsFree
<1>3. m \in Int /\ m1 \in Int /\ \A i \in Ids : i \in Int
  BY SqlAssumption DEF Ids, IndexKnows
<1>5. jx[id] = n + 1 /\ \A i \in Ids \ {id} : jx[i] = ix[i]
  BY <1>2
<1> HIDE DEF jx, id
<1>6. \A p \in 1..n + 1 : jx[s[p].id] = p /\ s[p].id <= m1
  <2>1. SUFFICES ASSUME NEW p \in 1..n + 1 PROVE jx[s[p].id] = p /\ s[p].id <= m1
    OBVIOUS
  <2>2. CASE p = n + 1
    BY <1>5, <2>2 DEF id
  <2>3. CASE p # n + 1
    <3>1. p \in 1..n
      BY <1>1, <2>3
    <3>2. ix[s[p].id] = p /\ s[p].id <= m
      BY <3>1 DEF IndexKnows
    <3>3. jx[s[p].id] = p
      BY <1>2, <1>5, <3>1, <3>2
    <3>4. s[p].id <= m1
      BY <1>2, <1>3, <3>1, <3>2
    <3>5. QED
      BY <3>3, <3>4
  <2>4. QED
    BY <2>2, <2>3
<1>7. \A i \in Ids : jx[i] # 0 => jx[i] \in 1..n + 1 /\ s[jx[i]].id = i
  <2>1. SUFFICES ASSUME NEW i \in Ids, jx[i] # 0
                 PROVE  jx[i] \in 1..n + 1 /\ s[jx[i]].id = i
    OBVIOUS
  <2>2. CASE i = id
    BY <1>1, <1>5, <2>2 DEF id
  <2>3. CASE i # id
    <3>1. ix[i] \in 1..n /\ s[ix[i]].id = i /\ jx[i] = ix[i]
      BY <1>5, <2>1, <2>3 DEF IndexKnows
    <3>2. 1..n \subseteq 1..n + 1
      BY <1>1
    <3>3. QED
      BY <3>1, <3>2
  <2>4. QED
    BY <2>2, <2>3
<1>8. n + 1 \in 0..Len(s)
  BY <1>1
<1>9. IndexKnows(jx, s, n + 1, m1)
  BY <1>6, <1>7, <1>8 DEF IndexKnows
<1>10. QED
  BY <1>2, <1>9 DEF jx, id

LEMMA SetNextRow ==
  ASSUME NEW s, NEW n \in Nat, NEW no, no = s[n + 1].no
  PROVE  {s[p].no : p \in 1..n} \cup {no} = {s[p].no : p \in 1..n + 1}
<1>1. 1..n + 1 = 1..n \cup {n + 1}
  OBVIOUS
<1>2. QED
  BY <1>1

(* The student number of the row behind those noted is usable.             *)
LEMMA NextNoIsNew ==
  ASSUME NEW t, NEW s, GoodRows(t, s), NEW n \in Nat, n + 1 \in 1..Len(s), t \in StudentTables
  PROVE  s[n + 1].no # Empty /\ s[n + 1].no \notin {s[p].no : p \in 1..n}
<1>1. Len(s) \in Nat /\ DOMAIN s = 1..Len(s)
  BY LenProperties DEF GoodRows
<1>2. n + 1 \in DOMAIN s /\ \A p \in 1..n : p \in DOMAIN s /\ p # n + 1
  BY <1>1
<1>3. QED
  BY <1>2 DEF GoodRows

(* What is scanned is a binary file.                                       *)
LEMMA ScansBinary == ASSUME CacheInv, pc = "scan" PROVE IsBinary
  BY DEF CacheInv, ActiveGood, Working, Binary, IsBinary

(* Activation refuses no row of a good file.                               *)
LEMMA ScanAccepts ==
  ASSUME Orderly, CacheInv, pc = "scan", pos < Len(Records)
  PROVE  /\ pos \in Nat /\ pos + 1 \in 1..Len(Records)
         /\ Readings(pos + 1) = {Records[pos + 1]}
         /\ Records[pos + 1].id \in Ids /\ UsableNo(Records[pos + 1].no)
         /\ ~RejectRow
<1>1. TypeOK
  BY DEF CacheInv, StoredInv, ControlInv, TypeInv
<1> DEFINE s == data[T].bin
<1>2. Records = s /\ GoodRows(T, s) /\ Len(s) \in Nat /\ DOMAIN s = 1..Len(s)
      /\ \A n \in 1..Len(s) : Readings(n) = {s[n]}
  BY AtWork DEF Working
<1>3. guarded <=> T \in StudentTables
  BY DEF CacheInv, CachesGood
<1>4. guarded => noSet = {s[p].no : p \in 1..pos}
  BY DEF CacheInv, CachesGood, SetKnows
<1> HIDE DEF s
<1>5. pos \in Nat /\ pos + 1 \in 1..Len(s)
  BY <1>1, <1>2 DEF TypeOK
<1>6. s[pos + 1].id \in Ids /\ s[pos + 1].id # NaN
  BY <1>2, <1>5, SqlAssumption DEF GoodRows, Ids
<1>7. UsableNo(s[pos + 1].no)
  BY <1>2, <1>3, <1>4, <1>5, NextNoIsNew DEF UsableNo
<1>8. QED
  BY <1>2, <1>5, <1>6, <1>7 DEF RejectRow

LEMMA ScanKeeps ==
  ASSUME Orderly, CacheInv, ScanRow
  PROVE  CacheInv'
<1>1. StoredInv' /\ TypeOK /\ T \in Tables /\ T' = T /\ stmt' = stmt
  BY NextIsStored, SameStatement DEF Next, Step, Activate
<1>2. pc = "scan" /\ pos < Len(Records) /\ UNCHANGED <<disk, path, ready, treeTorn, guarded>>
  BY DEF ScanRow
<1> DEFINE s == data[T].bin
           r == s[pos + 1]
<1>3. Records = s /\ GoodRows(T, s) /\ Len(s) \in Nat
  BY <1>2, AtWork DEF Working
<1>4. pos \in Nat /\ pos + 1 \in 1..Len(s) /\ Readings(pos + 1) = {r} /\ r.id \in Ids
  BY <1>2, <1>3, ScanAccepts
<1>5. IndexKnows(index, s, pos, maxId) /\ SetKnows(s, pos)
      /\ (guarded <=> T \in StudentTables) /\ index \in [Ids -> Nat] /\ maxId \in Ids
  BY <1>1, <1>2 DEF CacheInv, CachesGood, TypeOK
<1> DEFINE m1 == HigherId(r.id)
<1>6. m1 \in Ids /\ maxId <= m1 /\ r.id <= m1 /\ m1 + MaxRows <= MaxId + Len(s)
  <2>1. maxId + MaxRows <= MaxId + Len(s)
    BY <1>5 DEF IndexKnows
  <2>2. r.id + MaxRows <= MaxId + Len(s)
    BY <1>3, <1>4, LenProperties DEF GoodRows
  <2>3. maxId \in Int /\ r.id \in Int
    BY <1>4, <1>5, SqlAssumption DEF Ids
  <2> HIDE DEF s, r
  <2>4. QED
    BY <1>4, <1>5, <2>1, <2>2, <2>3 DEF HigherId
<1>7. pos < Len(s)
  BY <1>2, <1>3
<1> HIDE DEF s, m1
<1>8. index[r.id] = 0 /\ IndexKnows([index EXCEPT ![r.id] = pos + 1], s, pos + 1, m1)
  BY <1>3, <1>5, <1>6, <1>7, IndexNextRow
<1>9. /\ index' = [index EXCEPT ![r.id] = pos + 1]
      /\ maxId' = m1 /\ pos' = pos + 1 /\ pc' = "scan" /\ noSet' = NoteNo(r.no)
  BY <1>4, <1>8 DEF ScanRow, Continue, m1
<1>10. FilesGood' /\ MigrationGood' /\ RoomForRow' /\ ActiveGood' /\ data'[T] = data[T]
  BY <1>1, <1>2, <1>9, WorkStep DEF Working, CacheInv, ActiveGood
<1>11. SetKnows(data[T].bin, pos)'
  <2>1. guarded => noSet' = {s[p].no : p \in 1..pos + 1}
    BY <1>4, <1>5, <1>9, SetNextRow DEF SetKnows, NoteNo
  <2>2. s' = s /\ guarded' = guarded /\ pos' = pos + 1
    BY <1>1, <1>2, <1>9, <1>10 DEF s
  <2>3. QED
    BY <2>1, <2>2 DEF SetKnows, s
<1>12. CachesGood'
  BY <1>1, <1>2, <1>5, <1>8, <1>9, <1>10, <1>11 DEF CachesGood, Switching, Settled, s
<1>13. QED
  BY <1>1, <1>9, <1>10, <1>12 DEF CacheInv, SelectAnswers

LEMMA ScanDoneKeeps ==
  ASSUME Orderly, CacheInv, ScanDone
  PROVE  CacheInv'
<1>1. StoredInv' /\ TypeOK /\ T \in Tables /\ T' = T /\ stmt' = stmt /\ stmt \in Statement
  BY NextIsStored, SameStatement DEF Next, Step, Activate
<1>2. pc = "scan" /\ pc' \in {"insert", "select"} /\ nextId' = maxId /\ pos' = 0 /\ maxId' = 0
      /\ UNCHANGED <<disk, path, ready, index, treeTorn, guarded, noSet>>
  BY <1>1 DEF ScanDone, EndScan, tree, Statement
<1>3. pos = Len(data[T].bin) /\ Binary(data[T])
  BY <1>2, AtWork DEF ScanDone, AtEnd, Working, Binary
<1>4. FilesGood' /\ MigrationGood' /\ RoomForRow' /\ ActiveGood' /\ data'[T] = data[T]
  BY <1>1, <1>2, WorkStep DEF Working, CacheInv, ActiveGood, Early
<1>5. CachesGood'
  <2>1. Known(T)'
    BY <1>1, <1>2, <1>3, <1>4 DEF CacheInv, CachesGood, Known, SetKnows
  <2>2. path' = T
    BY <1>2 DEF CacheInv, ActiveGood
  <2>3. QED
    BY <1>1, <1>2, <2>1, <2>2 DEF CachesGood, Switching, Settled
<1>6. QED
  BY <1>1, <1>2, <1>4, <1>5 DEF CacheInv, SelectAnswers

LEMMA IndexOfLonger ==
  ASSUME NEW s, NEW u, NEW ix, NEW n \in Nat, NEW m, NEW m1 \in Ids,
         IndexKnows(ix, s, n, m), n = Len(s), Len(u) = n + 1, m <= m1,
         \A p \in 1..n : u[p] = s[p] /\ s[p].id \in Ids,
         m1 + MaxRows <= MaxId + Len(u)
  PROVE  IndexKnows(ix, u, n, m1)
<1>1. m \in Int /\ m1 \in Int /\ \A i \in Ids : i \in Int
  BY SqlAssumption DEF Ids, IndexKnows
<1>2. n \in 0..Len(u)
  OBVIOUS
<1>3. \A p \in 1..n : ix[u[p].id] = p /\ u[p].id <= m1
  <2>1. SUFFICES ASSUME NEW p \in 1..n PROVE ix[u[p].id] = p /\ u[p].id <= m1
    OBVIOUS
  <2>2. u[p] = s[p] /\ s[p].id \in Ids /\ ix[s[p].id] = p /\ s[p].id <= m
    BY DEF IndexKnows
  <2>3. \A a \in Ids : a <= m => a <= m1
    BY <1>1
  <2>4. QED
    BY <2>2, <2>3
<1>4. \A i \in Ids : ix[i] # 0 => ix[i] \in 1..n /\ u[ix[i]].id = i
  BY DEF IndexKnows
<1>5. QED
  BY <1>2, <1>3, <1>4 DEF IndexKnows

(* At the step that writes, everything is known about the file.            *)
LEMMA KnownAtWork ==
  ASSUME CacheInv, pc \in {"insert", "select", "answer"}
  PROVE  /\ path = T /\ T \in Tables /\ ready
         /\ IndexKnows(index, data[T].bin, Len(data[T].bin), nextId)
         /\ guarded <=> T \in StudentTables
         /\ SetKnows(data[T].bin, Len(data[T].bin))
<1>1. path = T /\ T \in Tables /\ ready
  BY AtWork DEF Working, CacheInv, ActiveGood
<1>2. Known(T)
  BY <1>1 DEF CacheInv, CachesGood, Settled
<1>3. QED
  BY <1>1, <1>2 DEF Known

(* The row that is written has the next id, above all others, and a new    *)
(* student number; it is the last of the file.                             *)
LEMMA AppendEffect ==
  ASSUME Orderly, CacheInv, AppendRow
  PROVE  LET s   == data[T].bin
             new == [id |-> nextId', no |-> stmt.no]
         IN  /\ pc = "insert" /\ pc' = "index" /\ stmt.op = "insert" /\ ~BadInsert
             /\ T \in Tables /\ T' = T /\ stmt' = stmt
             /\ data' = [data EXCEPT ![T] = [text |-> <<>>, bin |-> s \o <<new>>]]
             /\ nextId' = nextId + 1 /\ nextId' \in Ids /\ new \in Row
             /\ s \in Seq(Row) /\ Len(s) \in Nat /\ ref' = Len(s) + 1
             /\ \A p \in 1..Len(s) : s[p].id < nextId'
             /\ T \in StudentTables => /\ stmt.no # Empty
                                       /\ \A p \in 1..Len(s) : s[p].no # stmt.no
             /\ UNCHANGED <<tmp, bak, path, ready, index, treeTorn, guarded, noSet,
                            pos, maxId, reply>>
<1>1. TypeOK /\ T \in Tables /\ T' = T /\ stmt' = stmt /\ stmt.no \in Texts
  BY NextIsStored, SameStatement DEF Next, Step, Insert
<1>2. pc = "insert" /\ ~BadInsert /\ nextId' = NextId /\ stmt.op = "insert"
  BY DEF AppendRow, CacheInv, StoredInv, ControlInv, Inserting
<1> DEFINE s == data[T].bin
           new == [id |-> nextId', no |-> stmt.no]
<1>3. /\ data[T] # Absent /\ data[T].text = <<>> /\ GoodRows(T, s)
      /\ s \in Seq(Row) /\ Len(s) \in Nat /\ Rows(data[T]) = s
  BY <1>2, AtWork DEF Working
<1>4. /\ IndexKnows(index, s, Len(s), nextId)
      /\ guarded <=> T \in StudentTables
      /\ SetKnows(s, Len(s))
  BY <1>2, KnownAtWork
<1>5. /\ data' = [data EXCEPT ![T] = [text |-> <<>>, bin |-> s \o <<new>>]]
      /\ ref' = Len(s) + 1 /\ pc' = "index"
      /\ UNCHANGED <<tmp, bak, path, ready, index, treeTorn, guarded, noSet, pos, maxId, reply>>
  BY <1>3, NoFaults DEF AppendRow, Opened, OffsetOfEnd, Continue, tree
<1>6. Len(s) < MaxRows
  BY <1>2, <1>3 DEF CacheInv, RoomForRow, Early
<1>7. nextId' = nextId + 1 /\ nextId' \in Ids /\ nextId \in Ids
  <2>1. nextId + MaxRows <= MaxId + Len(s) /\ nextId \in Ids
    BY <1>4 DEF IndexKnows
  <2>2. nextId \in Nat /\ MaxId \in Nat /\ MaxRows \in Nat
    BY <2>1, SqlAssumption, StorageAssumption DEF Ids
  <2> HIDE DEF s
  <2>3. nextId < MaxId
    BY <1>3, <1>6, <2>1, <2>2
  <2>4. QED
    BY <1>2, <2>1, <2>2, <2>3 DEF NextId, Ids
<1>8. new \in Row
  BY <1>1, <1>7 DEF Row
<1>9. \A p \in 1..Len(s) : s[p].id < nextId'
  <2>1. SUFFICES ASSUME NEW p \in 1..Len(s) PROVE s[p].id < nextId'
    OBVIOUS
  <2>2. s[p].id <= nextId
    BY <1>4 DEF IndexKnows
  <2>3. s[p].id \in Ids
    BY <1>3, LenProperties DEF GoodRows
  <2>4. \A a, b \in Ids : a <= b => a < b + 1
    BY SqlAssumption DEF Ids
  <2>5. QED
    BY <1>7, <2>2, <2>3, <2>4
<1>10. T \in StudentTables => /\ stmt.no # Empty
                              /\ \A p \in 1..Len(s) : s[p].no # stmt.no
  BY <1>2, <1>4 DEF BadInsert, SetKnows
<1> HIDE DEF s, new
<1>11. QED
  BY <1>1, <1>2, <1>3, <1>5, <1>7, <1>8, <1>9, <1>10 DEF s, new

LEMMA AppendKeeps ==
  ASSUME Orderly, CacheInv, AppendRow
  PROVE  CacheInv'
<1> DEFINE s == data[T].bin
           new == [id |-> nextId', no |-> stmt.no]
           u == s \o <<new>>
<1>1. StoredInv' /\ TypeOK
  BY NextIsStored DEF Next, Step, Insert
<1>2. /\ pc = "insert" /\ pc' = "index" /\ T \in Tables /\ T' = T /\ stmt' = stmt
      /\ data' = [data EXCEPT ![T] = [text |-> <<>>, bin |-> u]]
      /\ nextId' = nextId + 1 /\ nextId' \in Ids /\ new \in Row
      /\ s \in Seq(Row) /\ Len(s) \in Nat /\ ref' = Len(s) + 1
      /\ \A p \in 1..Len(s) : s[p].id < nextId'
      /\ T \in StudentTables => /\ stmt.no # Empty
                                /\ \A p \in 1..Len(s) : s[p].no # stmt.no
      /\ UNCHANGED <<tmp, path, ready, index, treeTorn, guarded, noSet, pos, maxId>>
  BY AppendEffect
<1>3. /\ ready /\ path = T /\ GoodRows(T, s) /\ DOMAIN s = 1..Len(s)
      /\ IndexKnows(index, s, Len(s), nextId)
      /\ guarded <=> T \in StudentTables
      /\ SetKnows(s, Len(s))
  BY <1>2, KnownAtWork, AtWork DEF Working
<1>4. nextId \in Ids /\ nextId + MaxRows <= MaxId + Len(s)
  BY <1>3 DEF IndexKnows
<1>5. /\ u \in Seq(Row) /\ Len(u) = Len(s) + 1
      /\ \A p \in 1..Len(s) : u[p] = s[p] /\ s[p].id \in Ids
  <2>1. <<new>> \in Seq(Row) /\ Len(<<new>>) = 1
    BY <1>2
  <2>2. \A p \in 1..Len(s) : s[p].id \in Ids
    BY <1>3 DEF GoodRows
  <2>3. QED
    BY <1>2, <2>1, <2>2, ConcatProperties
<1> HIDE DEF s
<1>6. nextId' + MaxRows <= MaxId + Len(s) + 1 /\ nextId <= nextId'
  <2>1. nextId \in Nat /\ MaxId \in Nat /\ MaxRows \in Nat
    BY <1>4, SqlAssumption, StorageAssumption DEF Ids
  <2>2. QED
    BY <1>2, <1>4, <2>1
<1>7. GoodRows(T, u)
  <2>1. new.id = nextId' /\ new.no = stmt.no
    OBVIOUS
  <2> HIDE DEF new
  <2>2. QED
    BY <1>2, <1>3, <1>6, <2>1, OneMoreRow
<1> HIDE DEF u
<1>8. IndexKnows(index, u, Len(s), nextId')
  <2>1. nextId' + MaxRows <= MaxId + Len(u)
    <3>1. nextId' \in Int /\ MaxId \in Int /\ MaxRows \in Int
      BY <1>2, SqlAssumption, StorageAssumption DEF Ids
    <3>2. QED
      BY <1>2, <1>5, <1>6, <3>1
  <2>2. QED
    BY <1>2, <1>3, <1>5, <1>6, <2>1, IndexOfLonger
<1>9. SetKnows(u, Len(s))
  BY <1>3, <1>5 DEF SetKnows
<1>10. data'[T] = [text |-> <<>>, bin |-> u]
       /\ \A t \in Tables \ {T} : data'[t] = data[t]
  BY <1>1, <1>2 DEF TypeOK, Disk
<1>11. data'[T].text = <<>> /\ data'[T].bin = u
  BY <1>10
<1>12. data'[T] \in File /\ Binary(data'[T]) /\ GoodFile(T, data'[T])
  <2>1. u \in Seq(Record)
    <3>1. Row \subseteq Record
      BY DEF Record
    <3>2. QED
      BY <1>5, <3>1, SeqMonotonic
  <2>2. data'[T] \in File
    BY <1>10, <2>1 DEF File
  <2>3. QED
    BY <1>7, <1>11, <2>2, RowsOfOneKind DEF Binary, GoodFile
<1>13. FilesGood' /\ MigrationGood' /\ RoomForRow'
  <2>1. \A t \in Tables : GoodFile(t, data'[t])
    BY <1>10, <1>12 DEF CacheInv, FilesGood
  <2>2. QED
    BY <1>2, <2>1 DEF FilesGood, MigrationGood, RoomForRow, Migrating, Copied, Early, Switching
<1>14. ActiveGood'
  BY <1>2, <1>3, <1>12 DEF CacheInv, ActiveGood, Working
<1>15. CachesGood'
  <2>1. ref' = Len(u) /\ ref' - 1 = Len(s)
    BY <1>2, <1>5
  <2>2. IndexKnows(index', data'[T].bin, ref' - 1, nextId')
    BY <1>2, <1>8, <1>11, <2>1
  <2>3. SetKnows(data[T].bin, ref - 1)'
    BY <1>2, <1>9, <1>11, <2>1 DEF SetKnows
  <2>4. QED
    BY <1>2, <1>3, <1>11, <2>1, <2>2, <2>3 DEF CachesGood, Switching, Settled
<1>16. QED
  BY <1>1, <1>2, <1>13, <1>14, <1>15 DEF CacheInv, SelectAnswers

(* The row just written is the last one, and the one to be indexed.        *)
LEMMA JustWritten ==
  ASSUME CacheInv, pc \in {"index", "set"}
  PROVE  /\ ref \in Nat /\ ref = Len(data[T].bin) /\ ref - 1 \in Nat
         /\ (ref - 1) + 1 = ref /\ ref \in 1..Len(data[T].bin)
         /\ data[T].bin[ref].id = nextId /\ data[T].bin[ref].no = stmt.no
         /\ nextId \in Ids
<1>1. TypeOK /\ ref \in DOMAIN data[T].bin
      /\ data[T].bin[ref] = [id |-> nextId, no |-> stmt.no]
  BY DEF CacheInv, StoredInv, ControlInv, TypeInv, Stored
<1>2. DOMAIN data[T].bin = 1..Len(data[T].bin) /\ Len(data[T].bin) \in Nat
  BY AtWork DEF Working
<1>3. ref = Len(data[T].bin)
  BY DEF CacheInv, CachesGood
<1>4. QED
  BY <1>1, <1>2, <1>3 DEF TypeOK

(* Then the index takes it: there is no duplicate key.                     *)
LEMMA IndexSucceeds ==
  ASSUME Orderly, CacheInv, IndexRow
  PROVE  /\ pc = "index" /\ pc' = (IF T \in StudentTables THEN "set" ELSE "answer")
         /\ index' = [index EXCEPT ![nextId] = ref] /\ treeTorn' = treeTorn
         /\ IndexKnows(index', data[T].bin, ref, nextId)
         /\ UNCHANGED <<disk, path, ready, nextId, guarded, noSet, call, reply>>
<1> DEFINE s == data[T].bin
<1>1. TypeOK /\ pc = "index" /\ ready
  BY DEF IndexRow, CacheInv, StoredInv, ControlInv, TypeInv, ActiveGood, Working
<1>2. GoodRows(T, s) /\ Len(s) \in Nat /\ index \in [Ids -> Nat]
  BY <1>1, AtWork DEF Working, TypeOK
<1>3. /\ ref \in Nat /\ ref = Len(s) /\ ref - 1 \in Nat /\ (ref - 1) + 1 = ref
      /\ s[ref].id = nextId /\ nextId \in Ids
  BY <1>1, JustWritten
<1>4. IndexKnows(index, s, ref - 1, nextId)
  BY <1>1 DEF CacheInv, CachesGood
<1>5. nextId + MaxRows <= MaxId + Len(s) /\ nextId <= nextId /\ ref - 1 < Len(s)
  <2>1. nextId \in Int
    BY <1>3, SqlAssumption DEF Ids
  <2>2. QED
    BY <1>2, <1>3, <1>4, <2>1 DEF IndexKnows
<1> HIDE DEF s
<1>6. index[nextId] = 0 /\ IndexKnows([index EXCEPT ![nextId] = ref], s, ref, nextId)
  <2> DEFINE n == ref - 1
  <2>1. IndexKnows(index, s, n, nextId) /\ n < Len(s) /\ s[n + 1].id = nextId
        /\ s[n + 1].id <= nextId /\ n + 1 = ref
    BY <1>3, <1>4, <1>5
  <2> HIDE DEF n
  <2>2. /\ index[s[n + 1].id] = 0
        /\ IndexKnows([index EXCEPT ![s[n + 1].id] = n + 1], s, n + 1, nextId)
    BY <1>2, <1>3, <1>5, <2>1, IndexNextRow
  <2>3. QED
    BY <2>1, <2>2
<1>7. QED
  BY <1>1, <1>6, NoFaults DEF IndexRow, Continue, s

LEMMA IndexKeeps ==
  ASSUME Orderly, CacheInv, IndexRow
  PROVE  CacheInv'
<1>1. StoredInv' /\ TypeOK /\ T \in Tables /\ T' = T /\ stmt' = stmt
  BY NextIsStored, SameStatement DEF Next, Step, Insert
<1> DEFINE s == data[T].bin
<1>2. pc = "index" /\ ready /\ path = T
      /\ UNCHANGED <<disk, path, ready, nextId, guarded, noSet, pos, maxId, ref>>
  BY DEF IndexRow, CacheInv, ActiveGood, Working, call
<1>3. ref = Len(s)
  BY <1>2, JustWritten
<1>4. SetKnows(s, ref - 1) /\ (guarded <=> T \in StudentTables)
  BY <1>2 DEF CacheInv, CachesGood
<1>5. /\ IndexKnows(index', s, ref, nextId) /\ treeTorn' = treeTorn
      /\ pc' = IF T \in StudentTables THEN "set" ELSE "answer"
  BY IndexSucceeds
<1> HIDE DEF s
<1>6. FilesGood' /\ MigrationGood' /\ RoomForRow' /\ ActiveGood' /\ data'[T] = data[T]
  BY <1>1, <1>2, <1>5, WorkStep DEF Working, CacheInv, ActiveGood, Early, Switching
<1>7. s' = s
  BY <1>1, <1>6 DEF s
<1>8. IndexKnows(index', s', ref', nextId') /\ SetKnows(s, ref - 1)'
      /\ (guarded <=> T \in StudentTables)'
  BY <1>1, <1>2, <1>4, <1>5, <1>7 DEF SetKnows
<1>9. CASE pc' = "set"
  <2>1. CachesGood'
    BY <1>2, <1>3, <1>7, <1>8, <1>9 DEF CachesGood, Switching, Settled, s
  <2>2. QED
    BY <1>1, <1>6, <1>9, <2>1 DEF CacheInv, SelectAnswers
<1>10. CASE pc' = "answer" /\ T \notin StudentTables
  <2>1. Known(T)'
    <3>1. Binary(data'[T'])
      BY <1>6, <1>10 DEF ActiveGood, Working
    <3>2. SetKnows(data[T].bin, Len(data[T].bin))'
      BY <1>1, <1>8, <1>10 DEF SetKnows
    <3>3. ref' = Len(s')
      BY <1>2, <1>3, <1>7
    <3>4. QED
      BY <1>8, <3>1, <3>2, <3>3 DEF Known, s
  <2>2. CachesGood'
    BY <1>1, <1>2, <1>10, <2>1 DEF CachesGood, Switching, Settled
  <2>3. QED
    BY <1>1, <1>6, <1>10, <2>2 DEF CacheInv, SelectAnswers
<1>11. QED
  BY <1>5, <1>9, <1>10

LEMMA RememberKeeps ==
  ASSUME Orderly, CacheInv, RememberNo
  PROVE  CacheInv'
<1>1. StoredInv' /\ TypeOK /\ T \in Tables /\ T' = T /\ stmt' = stmt
  BY NextIsStored, SameStatement DEF Next, Step, Insert
<1> DEFINE s == data[T].bin
<1>2. pc = "set" /\ ready /\ path = T /\ Binary(data[T])
      /\ UNCHANGED <<data, tmp, path, ready, index, nextId, guarded, pos, maxId, ref>>
      /\ treeTorn' = treeTorn
  BY DEF RememberNo, CacheInv, ActiveGood, Working, call, disk, tree
<1>3. GoodRows(T, s) /\ Len(s) \in Nat
  BY <1>2, AtWork DEF Working
<1>4. /\ ref \in Nat /\ ref = Len(s) /\ ref - 1 \in Nat /\ (ref - 1) + 1 = ref
      /\ ref \in 1..Len(s) /\ s[ref].no = stmt.no
  BY <1>2, JustWritten
<1>5. /\ IndexKnows(index, s, ref, nextId) /\ SetKnows(s, ref - 1)
      /\ guarded <=> T \in StudentTables
  BY <1>2 DEF CacheInv, CachesGood
<1> HIDE DEF s
<1>6. guarded => noSet = {s[p].no : p \in 1..ref - 1} /\ stmt.no \notin noSet
                 /\ noSet \cup {stmt.no} = {s[p].no : p \in 1..ref}
  <2> DEFINE n == ref - 1
  <2>1. n \in Nat /\ n + 1 \in 1..Len(s) /\ stmt.no = s[n + 1].no /\ n + 1 = ref
        /\ (guarded => noSet = {s[p].no : p \in 1..n})
    BY <1>4, <1>5 DEF SetKnows
  <2> HIDE DEF n
  <2>2. {s[p].no : p \in 1..n} \cup {stmt.no} = {s[p].no : p \in 1..n + 1}
    BY <2>1, SetNextRow
  <2>3. guarded => stmt.no \notin {s[p].no : p \in 1..n}
    BY <1>3, <1>5, <2>1, NextNoIsNew
  <2>4. QED
    BY <2>1, <2>2, <2>3 DEF n
<1>7. /\ pc' = "answer" \/ (pc' = "idle" /\ ~reply'.ok)
      /\ guarded => noSet' = {s[p].no : p \in 1..ref}
  <2>1. CASE guarded
    BY <1>6, <2>1, NoFaults DEF RememberNo, Continue
  <2>2. CASE ~guarded
    BY <2>2, NoFaults DEF RememberNo, Error, Refused
  <2>3. QED
    BY <2>1, <2>2
<1>8. s' = s /\ T' = T /\ data'[T] = data[T]
  BY <1>1, <1>2 DEF s
<1>9. Known(T)'
  <2>1. SetKnows(data[T].bin, Len(data[T].bin))'
    BY <1>2, <1>4, <1>7, <1>8 DEF SetKnows, s
  <2>2. QED
    BY <1>2, <1>4, <1>5, <1>8, <2>1 DEF Known, s
<1>10. FilesGood' /\ MigrationGood' /\ RoomForRow' /\ ActiveGood'
  BY <1>1, <1>2, <1>7 DEF CacheInv, FilesGood, MigrationGood, RoomForRow, ActiveGood,
     Migrating, Copied, Early, Switching, Working
<1>11. CachesGood'
  BY <1>2, <1>7, <1>8, <1>9 DEF CachesGood, Switching, Settled
<1>12. QED
  BY <1>1, <1>7, <1>10, <1>11 DEF CacheInv, SelectAnswers

(***************************************************************************)
(* SELECT: the index and a scan of the file find the same rows.            *)
(***************************************************************************)
LEMMA IndexFindsMatches ==
  ASSUME NEW w, NEW s, w.on = "id", w.id # NaN, GoodRows(T, s),
         IndexKnows(index, s, Len(s), nextId)
  PROVE  Indexed(w) = Matches(s, w)
<1>1. DOMAIN s = 1..Len(s) /\ Len(s) \in Nat /\ 0 \notin 1..Len(s)
      /\ \A p \in 1..Len(s) : s[p].id \in Ids
  BY LenProperties DEF GoodRows
<1>2. \A p \in DOMAIN s : Satisfies(s[p], w) <=> Holds(w.rel, s[p].id, w.id)
  BY <1>1, SqlAssumption DEF Satisfies, IdHolds, Ids
<1>3. ASSUME NEW p \in Indexed(w) PROVE p \in Matches(s, w)
  <2>1. PICK i \in Ids : index[i] # 0 /\ Holds(w.rel, i, w.id) /\ p = index[i]
    BY <1>3 DEF Indexed
  <2>2. p \in 1..Len(s) /\ s[p].id = i
    BY <2>1 DEF IndexKnows
  <2>3. QED
    BY <1>1, <1>2, <2>1, <2>2 DEF Matches
<1>4. ASSUME NEW p \in Matches(s, w) PROVE p \in Indexed(w)
  <2>1. p \in 1..Len(s) /\ Holds(w.rel, s[p].id, w.id)
    BY <1>1, <1>2, <1>4 DEF Matches
  <2>2. s[p].id \in Ids /\ index[s[p].id] = p /\ p # 0
    BY <1>1, <2>1 DEF IndexKnows
  <2>3. QED
    BY <2>1, <2>2 DEF Indexed
<1>5. QED
  BY <1>3, <1>4

(* Stopping at the first student number that matches loses nothing: either *)
(* it is the only one, or there is another spelling.                       *)
LEMMA ScanFindsMatches ==
  ASSUME NEW w, GoodRows(T, Records), w.on = "student_no" => T \in StudentTables
  PROVE  Scanned(w) \in Answers(Records, w)
<1> DEFINE M == Matches(Records, w)
           first == {p \in M : \A q \in M : p <= q}
<1>1. M \subseteq DOMAIN Records /\ M \subseteq Nat
  <2>1. DOMAIN Records = 1..Len(Records) /\ Len(Records) \in Nat
    BY LenProperties DEF GoodRows
  <2>2. QED
    BY <2>1 DEF Matches
<1> HIDE DEF M
<1>2. CASE ~(w.on = "student_no" /\ w.rel = "=")
  BY <1>2 DEF Scanned, Answers, M
<1>3. CASE M = {}
  BY <1>3 DEF Scanned, Answers, M
<1>4. CASE w.on = "student_no" /\ w.rel = "=" /\ M # {}
  <2>1. PICK m \in M : \A n \in M : m <= n
    BY <1>1, <1>4, LeastNumber
  <2>2. first = {m}
    <3>1. \A p \in M : p <= m /\ m <= p => p = m
      BY <1>1
    <3>2. QED
      BY <2>1, <3>1
  <2>3. Scanned(w) = {m}
    BY <1>4, <2>2 DEF Scanned, M
  <2>4. CASE M = {m}
    BY <2>3, <2>4 DEF Answers, M
  <2>5. CASE M # {m}
    <3>1. PICK q \in M : q # m
      BY <2>5
    <3>2. Records[m].no # Records[q].no
      BY <1>1, <1>4, <3>1 DEF GoodRows
    <3>3. QED
      BY <1>4, <2>3, <3>1, <3>2 DEF Answers, M
  <2>6. QED
    BY <2>4, <2>5
<1>5. QED
  BY <1>2, <1>3, <1>4

LEMMA SelectIsRight ==
  ASSUME CacheInv, Select
  PROVE  /\ pc = "select" /\ pc' = "idle"
         /\ UNCHANGED <<disk, cache, stmt, pos, maxId>>
         /\ \/ /\ reply' = Refused
               /\ \/ stmt.form = "column" \/ "alloc" \in Faults \/ "io" \in Faults
                  \/ stmt.where.on = "student_no" /\ T \notin StudentTables
            \/ /\ stmt.form # "column"
               /\ stmt.where.on = "student_no" => T \in StudentTables
               /\ \E rows \in Answers(Records, stmt.where) :
                    reply' = [ok |-> TRUE, id |-> NaN, rows |-> rows]
<1> DEFINE w == stmt.where
<1>1. pc = "select" /\ pc' = "idle" /\ UNCHANGED <<disk, cache, stmt, pos, maxId>>
  BY DEF Select, Error, call
<1>2. /\ T \in Tables /\ data[T].text = <<>> /\ Records = data[T].bin
      /\ GoodRows(T, Records) /\ ~Lost(Len(Records))
  BY <1>1, AtWork DEF Working
<1>3. ~Damaged
  BY <1>1, <1>2 DEF Damaged, IsBinary, CacheInv, ActiveGood
<1>4. IndexKnows(index, Records, Len(Records), nextId)
  BY <1>1, <1>2, KnownAtWork
<1>5. CASE CannotSelect(w) /\ Error
  <2>1. ~Linear(w) => Indexed(w) \subseteq 1..Len(Records)
    BY <1>4 DEF Indexed, IndexKnows
  <2>2. data[T] # Absent
    BY <1>1, AtWork DEF Working
  <2>3. QED
    BY <1>1, <1>3, <1>5, <2>1, <2>2 DEF Error, CannotSelect
<1>6. CASE /\ stmt.form # "column"
           /\ w.on = "student_no" => T \in StudentTables
           /\ \/ ~Linear(w) /\ reply' = [ok |-> TRUE, id |-> NaN, rows |-> Indexed(w)]
              \/ Linear(w) /\ reply' = [ok |-> TRUE, id |-> NaN, rows |-> Scanned(w)]
  <2>1. ~Linear(w) => Indexed(w) \in Answers(Records, w)
    <3>1. ~Linear(w) => Indexed(w) = Matches(Records, w)
      BY <1>2, <1>4, IndexFindsMatches DEF Linear
    <3>2. Matches(Records, w) \in Answers(Records, w)
      BY DEF Answers
    <3>3. QED
      BY <3>1, <3>2
  <2>2. Scanned(w) \in Answers(Records, w)
    BY <1>2, <1>6, ScanFindsMatches
  <2>3. QED
    BY <1>1, <1>6, <2>1, <2>2
<1>7. QED
  BY <1>3, <1>5, <1>6 DEF Select

LEMMA SelectKeeps ==
  ASSUME Orderly, CacheInv, Select
  PROVE  CacheInv'
<1>1. StoredInv' /\ T \in Tables /\ T' = T
  BY NextIsStored, SameStatement DEF Next, Step
<1>2. /\ pc = "select" /\ pc' = "idle" /\ UNCHANGED <<disk, cache, stmt, pos, maxId>>
      /\ \/ reply'.ok = FALSE
         \/ \E rows \in Answers(Records, stmt.where) :
              reply' = [ok |-> TRUE, id |-> NaN, rows |-> rows]
  BY SelectIsRight DEF Refused
<1>3. Rows(data'[T']) = Records
  BY <1>1, <1>2, AtWork DEF Working, disk
<1>4. SelectAnswers'
  BY <1>2, <1>3 DEF SelectAnswers
<1>5. QED
  BY <1>1, <1>2, <1>4, SettledStep DEF Settled

(***************************************************************************)
(* All steps together.                                                     *)
(***************************************************************************)
LEMMA CacheInit == Orderly /\ Init => CacheInv
<1> SUFFICES ASSUME Orderly, Init PROVE CacheInv
  OBVIOUS
<1>1. StoredInv
  BY TypeInit DEF Init, StoredInv, ControlInv, ConfirmedInsertIsFound, Inserting, Stored
<1>2. pc = "idle" /\ ready = FALSE /\ treeTorn = FALSE /\ pos = 0 /\ maxId = 0 /\ stmt = NoStmt
  BY DEF Init
<1>3. FilesGood
  BY DEF Init, Orderly, FilesGood
<1>4. QED
  BY <1>1, <1>2, <1>3 DEF CacheInv, MigrationGood, ActiveGood, CachesGood, RoomForRow,
     SelectAnswers, Migrating, Copied, Working, Settled, Switching, Early

LEMMA CacheStep == Orderly /\ CacheInv /\ [Next]_vars => CacheInv'
<1> SUFFICES ASSUME Orderly, CacheInv, [Next]_vars PROVE CacheInv'
  OBVIOUS
<1>1. StoredInv'
  BY NextIsStored
<1>2. CASE UNCHANGED vars
  <2>1. /\ UNCHANGED <<data, tmp, path, ready, index, treeTorn, nextId, guarded, noSet>>
        /\ UNCHANGED <<pc, stmt, pos, maxId, ref, reply>>
    BY <1>2 DEF vars
  <2>2. T' = T
    BY <2>1 DEF T
  <2>3. (FilesGood /\ MigrationGood /\ ActiveGood)'
    BY <2>1, <2>2 DEF CacheInv, FilesGood, MigrationGood, ActiveGood
  <2>4. CachesGood'
    BY <2>1, <2>2 DEF CacheInv, CachesGood, Known, IndexKnows, SetKnows
  <2>5. (RoomForRow /\ SelectAnswers)'
    BY <2>1, <2>2 DEF CacheInv, RoomForRow, SelectAnswers
  <2> QED BY <1>1, <2>3, <2>4, <2>5 DEF CacheInv
<1>3. CASE RefuseToOpen \/ RejectInsert \/ AnswerInsert
  <2>1. pc \in Settled /\ pc' = "idle" /\ UNCHANGED <<disk, cache, stmt, pos, maxId>>
    BY <1>3, NoFaults DEF RefuseToOpen, RejectInsert, AnswerInsert, Error, call, Settled
  <2>2. reply'.ok => stmt.op = "insert"
    BY <1>3 DEF RefuseToOpen, RejectInsert, AnswerInsert, Error, Refused, CacheInv, StoredInv,
       ControlInv, Inserting
  <2>3. SelectAnswers'
    BY <2>1, <2>2 DEF SelectAnswers
  <2>4. QED
    BY <1>1, <2>1, <2>3, SettledStep DEF Settled
<1>4. CASE FastPath
  <2>1. stmt.op \in {"insert", "select"}
    BY <1>4, SameStatement, NextIsStored DEF Step, Activate, Statement
  <2>2. pc = "open" /\ pc' \in {"insert", "select"} /\ InPlace
        /\ UNCHANGED <<disk, cache, stmt, pos, maxId>>
    BY <1>4, <2>1 DEF FastPath, call
  <2>3. SelectAnswers'
    BY <2>2 DEF SelectAnswers
  <2>4. QED
    BY <1>1, <2>2, <2>3, SettledStep DEF Settled
<1>5. ~RejectRow /\ ~ScanBreaks
  BY NoFaults, ScanAccepts, ScansBinary DEF ScanBreaks, RejectRow
<1>6. QED
  BY <1>2, <1>3, <1>4, <1>5, BeginKeeps, RestartKeeps, SwitchKeeps, MigrateKeeps, DropKeeps,
     BackUpKeeps, FinalizeKeeps, RebuildKeeps, ScanKeeps, ScanDoneKeeps, AppendKeeps,
     IndexKeeps, RememberKeeps, SelectKeeps
  DEF Next, Step, Activate, Insert

LEMMA CachesHold == ASSUME Orderly PROVE Spec => []CacheInv
  BY CacheInit, CacheStep, PTL DEF Spec

LEMMA CacheInvKeepsKeys == CacheInv => UniqueIds /\ UniqueNos
<1> SUFFICES ASSUME CacheInv, NEW t \in Tables
             PROVE  \A p, q \in DOMAIN Rows(data[t]) : p # q =>
                      /\ Rows(data[t])[p].id # Rows(data[t])[q].id
                      /\ t \in StudentTables => Rows(data[t])[p].no # Rows(data[t])[q].no
  BY SqlAssumption DEF UniqueIds, UniqueNos
<1>1. CASE data[t] = Absent
  BY <1>1 DEF Rows
<1>2. CASE data[t] # Absent
  BY <1>2 DEF CacheInv, FilesGood, GoodFile, GoodRows
<1>3. QED
  BY <1>1, <1>2

LEMMA CacheInvDescribes == CacheInv => CachesDescribeFile
<1> SUFFICES ASSUME CacheInv, pc = "idle", ready, path \in Tables
             PROVE  LET rows == Rows(data[path]) IN
                      /\ \A p \in DOMAIN rows : index[rows[p].id] = p /\ rows[p].id <= nextId
                      /\ \A i \in Ids : index[i] # 0 =>
                            index[i] \in DOMAIN rows /\ rows[index[i]].id = i
                      /\ guarded <=> path \in StudentTables
                      /\ guarded => noSet = {rows[p].no : p \in DOMAIN rows}
  BY DEF CachesDescribeFile
<1>1. Known(path)
  BY DEF CacheInv, CachesGood, Settled
<1> DEFINE s == data[path].bin
<1>2. Rows(data[path]) = s /\ DOMAIN s = 1..Len(s)
  BY <1>1, GoodRecords DEF Known, CacheInv, FilesGood
<1>3. QED
  BY <1>1, <1>2 DEF Known, IndexKnows, SetKnows

(* Between two statements the caches describe the active file, so that the *)
(* fast path may trust them, after any migration and any crash.            *)
THEOREM CachesAreTrusted == ASSUME Orderly PROVE Spec => []CachesDescribeFile
  BY CachesHold, CacheInvDescribes, PTL

(* No id and no student number is ever repeated in a table: the counter    *)
(* and the set stand for the whole file when a row is written.             *)
THEOREM IdsStayUnique == ASSUME Orderly PROVE Spec => []UniqueIds
  BY CachesHold, CacheInvKeepsKeys, PTL

THEOREM NosStayUnique == ASSUME Orderly PROVE Spec => []UniqueNos
  BY CachesHold, CacheInvKeepsKeys, PTL

(* A SELECT by the index, by a scan or by the first match of a student     *)
(* number returns the rows of the file that satisfy its WHERE clause.      *)
THEOREM SelectsAnswer == ASSUME Orderly PROVE Spec => []SelectAnswers
<1>1. CacheInv => SelectAnswers
  BY DEF CacheInv
<1>2. QED
  BY <1>1, CachesHold, PTL

(***************************************************************************)
(* The storage layer implements TableSpec, for all tables and statements,  *)
(* as long as no step fails.  (After a crash between the two renames of a  *)
(* migration it does not: then the rows are in the backup only.)           *)
(***************************************************************************)

Undisturbed == Orderly /\ Faults = {}

(***************************************************************************)
(* Beside the invariant of the caches: where there is no data file there   *)
(* is no backup either, unless a migration has just renamed the one to the *)
(* other; the copy it switches to has the same rows.                       *)
(***************************************************************************)
BackupKnown ==
  /\ \A t \in Tables : data[t] = Absent => bak[t] = Absent \/ (pc = "finalize" /\ t = T)
  /\ pc = "finalize" => data[T] = Absent /\ Rows(bak[T]) = Rows(tmp[T])

(* Past its activation a statement has as many columns as values; a set is *)
(* written to for a table of students only; the new row is the last.       *)
StatementKnown ==
  /\ pc \notin {"idle", "open"} => stmt.form # "count"
  /\ pc = "set" => T \in StudentTables
  /\ pc = "answer" => ref = Len(data[T].bin)

RefInv == CacheInv /\ BackupKnown /\ StatementKnown

(* What TableSpec sees of the files.                                       *)
LEMMA Visible ==
  ASSUME RefInv, NEW t \in Tables
  PROVE  /\ VisibleRows[t] \in Seq(Row)
         /\ data[t] = Absent /\ bak[t] = Absent => VisibleRows[t] = <<>>
         /\ data[t] # Absent => VisibleRows[t] = Rows(data[t])
<1>1. CASE data[t] # Absent
  BY <1>1 DEF RefInv, CacheInv, FilesGood, GoodFile, GoodRows, VisibleRows
<1>2. CASE data[t] = Absent
  <2>1. VisibleRows[t] = Rows(bak[t])
    BY <1>2 DEF VisibleRows
  <2>2. CASE bak[t] = Absent
    BY <1>2, <2>1, <2>2 DEF Rows
  <2>3. CASE pc = "finalize" /\ t = T /\ bak[t] # Absent
    BY <1>2, <2>1, <2>3 DEF RefInv, BackupKnown, CacheInv, MigrationGood, Copied, Binary, GoodFile,
       GoodRows
  <2>4. QED
    BY <1>2, <2>2, <2>3 DEF RefInv, BackupKnown
<1>3. QED
  BY <1>1, <1>2

LEMMA States ==
  /\ pc = "idle" <=> VisibleState = "idle"
  /\ pc \in Stored <=> VisibleState = "stored"
  /\ pc \notin Stored \cup {"idle"} <=> VisibleState = "running"
  BY DEF VisibleState, Stored

LEMMA StatesNext ==
  /\ pc' = "idle" <=> VisibleState' = "idle"
  /\ pc' \in Stored <=> VisibleState' = "stored"
  /\ pc' \notin Stored \cup {"idle"} <=> VisibleState' = "running"
  BY DEF VisibleState, Stored

(* A step that leaves the data files and the backups alone.                *)
LEMMA SameRows ==
  ASSUME data' = data, bak' = bak
  PROVE  VisibleRows' = VisibleRows
  BY DEF VisibleRows, Rows

Refines == [Table!Next]_Table!vars

LEMMA Stutters ==
  ASSUME VisibleRows' = VisibleRows, VisibleState' = VisibleState, stmt' = stmt, reply' = reply
  PROVE  Refines
  BY DEF Refines, Table!vars

(* TableSpec speaks of the same rows, replies and answers.                 *)
LEMMA SameWords ==
  /\ Table!Row = Row /\ Table!Ids = Ids /\ Table!Refused = Refused
  /\ \A s, w : Table!Answers(s, w) = Answers(s, w)
<1>1. Table!Row = Row /\ Table!Ids = Ids /\ Table!Refused = Refused
  BY DEF Table!Row, Row, Table!Ids, Ids, Table!Refused, Refused
<1>2. \A rel, a, b : Table!Holds(rel, a, b) <=> Holds(rel, a, b)
  BY DEF Table!Holds, Holds
<1>3. \A rel, a, b : Table!TextHolds(rel, a, b) <=> TextHolds(rel, a, b)
  BY <1>2 DEF Table!TextHolds, TextHolds
<1>4. \A rel, id, w : Table!IdHolds(rel, id, w) <=> IdHolds(rel, id, w)
  BY <1>2 DEF Table!IdHolds, IdHolds
<1>5. \A row, w : Table!Satisfies(row, w) <=> Satisfies(row, w)
  BY <1>3, <1>4 DEF Table!Satisfies, Satisfies
<1>6. \A s, w : Table!Matches(s, w) = Matches(s, w)
  BY <1>5 DEF Table!Matches, Matches
<1>7. \A s, w : Table!Answers(s, w) = Answers(s, w)
  BY <1>6 DEF Table!Answers, Answers
<1>8. QED
  BY <1>1, <1>7

LEMMA RefInit == Undisturbed /\ Init => RefInv /\ Table!Init
<1> SUFFICES ASSUME Undisturbed, Init PROVE RefInv /\ Table!Init
  OBVIOUS
<1>1. RefInv
  BY CacheInit DEF Undisturbed, Init, RefInv, BackupKnown, StatementKnown
<1>2. VisibleRows \in [Tables -> Seq(Row)]
  BY <1>1, Visible DEF VisibleRows
<1>3. QED
  BY <1>1, <1>2, States, SameWords DEF Init, Table!Init

LEMMA QuietRows ==
  ASSUME Undisturbed, RefInv, [Next]_vars,
         data' = data, bak' = bak, pc # "finalize", pc' # "finalize"
  PROVE  CacheInv' /\ BackupKnown' /\ VisibleRows' = VisibleRows
<1>1. CacheInv'
  BY CacheStep DEF Undisturbed, RefInv
<1>2. BackupKnown'
  BY DEF RefInv, BackupKnown
<1>3. QED
  BY <1>1, <1>2, SameRows

LEMMA StepFacts ==
  ASSUME RefInv, Step
  PROVE  /\ pc # "idle" /\ stmt' = stmt /\ T' = T /\ T = stmt.table
         /\ T \in Tables /\ stmt \in Statements /\ stmt \in Statement /\ TypeOK
<1>1. TypeOK
  BY DEF RefInv, CacheInv, StoredInv, ControlInv, TypeInv
<1>2. QED
  BY <1>1, SameStatement DEF T

(* Activation: nothing to be seen.                                         *)
LEMMA InvisibleSteps ==
  ASSUME Undisturbed, RefInv,
         FastPath \/ MigrateText \/ StartRebuild \/ ScanRow \/ ScanDone
  PROVE  RefInv' /\ Refines
<1>1. Step /\ [Next]_vars
  BY DEF Next, Step, Activate
<1>2. /\ stmt' = stmt /\ stmt.op \in {"insert", "select"}
      /\ T \in Tables /\ TypeOK
  BY <1>1, StepFacts DEF Statement
<1>3. /\ data' = data /\ bak' = bak /\ pc \in Early /\ pc # "finalize"
      /\ stmt.form # "count"
  BY DEF FastPath, MigrateText, StartRebuild, ScanRow, ScanDone, disk, Early, Switching, RefInv,
     StatementKnown
<1>4. pc' \in {"insert", "select", "dropBackup", "scan"} /\ reply' = reply
  <2>1. CASE FastPath \/ ScanDone
    BY <1>2, <2>1 DEF FastPath, ScanDone
  <2>2. CASE MigrateText
    BY <2>2, NoFaults DEF MigrateText, Continue, Undisturbed
  <2>3. CASE StartRebuild
    BY <1>2, <2>3, NoFaults DEF StartRebuild, Continue, Undisturbed, Orderly
  <2>4. CASE ScanRow
    <3>1. pc = "scan" /\ pos < Len(Records)
      BY <2>4 DEF ScanRow
    <3>2. Readings(pos + 1) = {Records[pos + 1]} /\ index[Records[pos + 1].id] = 0
      <4>1. /\ pos \in Nat /\ pos + 1 \in 1..Len(Records)
            /\ Readings(pos + 1) = {Records[pos + 1]} /\ Records[pos + 1].id \in Ids
        BY <3>1, ScanAccepts DEF Undisturbed, RefInv
      <4>2. GoodRows(T, Records) /\ Len(Records) \in Nat /\ Records = data[T].bin
        BY <3>1, AtWork DEF Working, RefInv
      <4>3. IndexKnows(index, Records, pos, maxId)
        BY <3>1, <4>2 DEF RefInv, CacheInv, CachesGood
      <4>4. index[Records[pos + 1].id] = 0
        BY <3>1, <4>2, <4>3, NextIsFree
      <4>5. QED
        BY <4>1, <4>4
    <3>3. QED
      BY <2>4, <3>2 DEF ScanRow, Continue
  <2>5. QED
    BY <2>1, <2>2, <2>3, <2>4
<1>5. CacheInv' /\ BackupKnown' /\ VisibleRows' = VisibleRows
  BY <1>1, <1>3, <1>4, QuietRows
<1>6. StatementKnown'
  BY <1>2, <1>3, <1>4 DEF StatementKnown
<1>7. VisibleState' = VisibleState
  BY <1>3, <1>4, States, StatesNext DEF Early, Switching, Stored
<1>8. QED
  BY <1>2, <1>4, <1>5, <1>6, <1>7, Stutters DEF RefInv

LEMMA SwitchRefines ==
  ASSUME Undisturbed, RefInv, SwitchTable
  PROVE  RefInv' /\ Refines
<1>1. Step /\ [Next]_vars
  BY DEF Next, Step, Activate
<1>2. stmt' = stmt /\ T' = T /\ T \in Tables /\ TypeOK
  BY <1>1, StepFacts
<1>3. /\ pc = "open" /\ pc' \in {"rebuild", "migrate"} /\ reply' = reply /\ bak' = bak
      /\ data' = [data EXCEPT ![T] = Opened(@)] /\ stmt.form # "count"
  <2>1. Probed(data[T]) = {Opened(data[T])}
    BY NothingMisread DEF Undisturbed
  <2>2. QED
    BY <2>1, NoFaults DEF SwitchTable, Continue, Undisturbed
<1>4. /\ data'[T] # Absent /\ Rows(data'[T]) = VisibleRows[T]
      /\ \A t \in Tables \ {T} : data'[t] = data[t]
  <2>1. data'[T] = Opened(data[T]) /\ \A t \in Tables \ {T} : data'[t] = data[t]
    BY <1>2, <1>3 DEF TypeOK, Disk
  <2>2. EmptyFile # Absent /\ Rows(EmptyFile) = <<>>
    BY EmptyFileType, RowsOfOneKind DEF EmptyFile
  <2>3. data[T] = Absent => bak[T] = Absent
    BY <1>2, <1>3 DEF RefInv, BackupKnown
  <2>4. QED
    BY <1>2, <2>1, <2>2, <2>3, Visible DEF Opened
<1>5. VisibleRows' = VisibleRows
  <2>1. \A t \in Tables : VisibleRows'[t] = VisibleRows[t]
    BY <1>3, <1>4 DEF VisibleRows
  <2>2. QED
    BY <2>1 DEF VisibleRows
<1>6. CacheInv'
  BY <1>1, CacheStep DEF Undisturbed, RefInv
<1>7. BackupKnown' /\ StatementKnown'
  BY <1>2, <1>3, <1>4 DEF RefInv, BackupKnown, StatementKnown
<1>8. VisibleState' = VisibleState
  BY <1>3, States, StatesNext DEF Stored
<1>9. QED
  BY <1>2, <1>3, <1>5, <1>6, <1>7, <1>8, Stutters DEF RefInv

(* The renames of a migration: the rows are always in the one place or the *)
(* other.                                                                  *)
LEMMA DropRefines ==
  ASSUME Undisturbed, RefInv, DropOldBackup
  PROVE  RefInv' /\ Refines
<1>1. Step /\ [Next]_vars
  BY DEF Next, Step, Activate
<1>2. stmt' = stmt /\ T' = T /\ T \in Tables /\ TypeOK
  BY <1>1, StepFacts
<1>3. /\ pc = "dropBackup" /\ pc' = "backup" /\ reply' = reply /\ data' = data
      /\ bak' = [bak EXCEPT ![T] = Absent]
  BY NoFaults DEF DropOldBackup, Continue, Undisturbed
<1>4. data[T] # Absent
  BY <1>3 DEF RefInv, CacheInv, StoredInv, ControlInv, TypeInv, MigrationHasFile, Migrating
<1>5. bak'[T] = Absent /\ \A t \in Tables \ {T} : bak'[t] = bak[t]
  BY <1>2, <1>3 DEF TypeOK, Disk
<1>6. VisibleRows' = VisibleRows
  <2>1. \A t \in Tables : VisibleRows'[t] = VisibleRows[t]
    BY <1>3, <1>4, <1>5 DEF VisibleRows
  <2>2. QED
    BY <2>1 DEF VisibleRows
<1>7. CacheInv'
  BY <1>1, CacheStep DEF Undisturbed, RefInv
<1>8. BackupKnown' /\ StatementKnown'
  BY <1>2, <1>3, <1>5 DEF RefInv, BackupKnown, StatementKnown
<1>9. VisibleState' = VisibleState
  BY <1>3, States, StatesNext DEF Stored
<1>10. QED
  BY <1>2, <1>3, <1>6, <1>7, <1>8, <1>9, Stutters DEF RefInv

LEMMA BackUpRefines ==
  ASSUME Undisturbed, RefInv, BackUpText
  PROVE  RefInv' /\ Refines
<1>1. Step /\ [Next]_vars
  BY DEF Next, Step, Activate
<1>2. stmt' = stmt /\ T' = T /\ T \in Tables /\ TypeOK
  BY <1>1, StepFacts
<1>3. /\ pc = "backup" /\ pc' = "finalize" /\ reply' = reply /\ tmp' = tmp
      /\ bak' = [bak EXCEPT ![T] = data[T]] /\ data' = [data EXCEPT ![T] = Absent]
  BY NoFaults DEF BackUpText, Continue, Undisturbed
<1>4. /\ bak'[T] = data[T] /\ data'[T] = Absent
      /\ \A t \in Tables \ {T} : bak'[t] = bak[t] /\ data'[t] = data[t]
  BY <1>2, <1>3 DEF TypeOK, Disk
<1>5. data[T] # Absent /\ Rows(data[T]) = Rows(tmp[T])
  <2>1. /\ data[T] # Absent /\ data[T].bin = <<>> /\ tmp[T].bin = data[T].text
        /\ GoodFile(T, data[T]) /\ GoodFile(T, tmp[T]) /\ Binary(tmp[T])
    BY <1>2, <1>3 DEF RefInv, CacheInv, FilesGood, MigrationGood, StoredInv, ControlInv,
       TypeInv, MigrationHasFile, Migrating, Copied
  <2>2. Rows(data[T]) = data[T].text
    BY <2>1, RowsOfOneKind DEF GoodFile
  <2>3. Rows(tmp[T]) = tmp[T].bin
    BY <2>1, GoodRecords
  <2>4. QED
    BY <2>1, <2>2, <2>3
<1>6. VisibleRows' = VisibleRows
  <2>1. \A t \in Tables : VisibleRows'[t] = VisibleRows[t]
    BY <1>4, <1>5 DEF VisibleRows
  <2>2. QED
    BY <2>1 DEF VisibleRows
<1>7. CacheInv'
  BY <1>1, CacheStep DEF Undisturbed, RefInv
<1>8. BackupKnown' /\ StatementKnown'
  BY <1>2, <1>3, <1>4, <1>5 DEF RefInv, BackupKnown, StatementKnown
<1>9. VisibleState' = VisibleState
  BY <1>3, States, StatesNext DEF Stored
<1>10. QED
  BY <1>2, <1>3, <1>6, <1>7, <1>8, <1>9, Stutters DEF RefInv

LEMMA FinalizeRefines ==
  ASSUME Undisturbed, RefInv, FinalizeMigration
  PROVE  RefInv' /\ Refines
<1>1. Step /\ [Next]_vars
  BY DEF Next, Step, Activate
<1>2. stmt' = stmt /\ T' = T /\ T \in Tables /\ TypeOK
  BY <1>1, StepFacts
<1>3. /\ pc = "finalize" /\ pc' = "rebuild" /\ reply' = reply /\ bak' = bak
      /\ data' = [data EXCEPT ![T] = tmp[T]]
  BY NoFaults DEF FinalizeMigration, Continue, Undisturbed
<1>4. data'[T] = tmp[T] /\ \A t \in Tables \ {T} : data'[t] = data[t]
  BY <1>2, <1>3 DEF TypeOK, Disk
<1>5. tmp[T] # Absent /\ data[T] = Absent /\ Rows(bak[T]) = Rows(tmp[T])
  BY <1>3 DEF RefInv, CacheInv, MigrationGood, Copied, Binary, BackupKnown
<1>6. VisibleRows' = VisibleRows
  <2>1. \A t \in Tables : VisibleRows'[t] = VisibleRows[t]
    BY <1>3, <1>4, <1>5 DEF VisibleRows
  <2>2. QED
    BY <2>1 DEF VisibleRows
<1>7. CacheInv'
  BY <1>1, CacheStep DEF Undisturbed, RefInv
<1>8. BackupKnown' /\ StatementKnown'
  BY <1>2, <1>3, <1>4, <1>5 DEF RefInv, BackupKnown, StatementKnown
<1>9. VisibleState' = VisibleState
  BY <1>3, States, StatesNext DEF Stored
<1>10. QED
  BY <1>2, <1>3, <1>6, <1>7, <1>8, <1>9, Stutters DEF RefInv

(* A statement is begun; the process ends between two statements.          *)
LEMMA BeginRefines ==
  ASSUME Undisturbed, RefInv, NEW s \in Statements, Begin(s)
  PROVE  RefInv' /\ Refines
<1>1. [Next]_vars
  BY DEF Next
<1>2. /\ pc = "idle" /\ pc' = "open" /\ data' = data /\ bak' = bak
      /\ stmt' = s /\ reply' = Refused
  BY DEF Begin, disk
<1>3. CacheInv' /\ BackupKnown' /\ VisibleRows' = VisibleRows
  BY <1>1, <1>2, QuietRows
<1>4. StatementKnown'
  BY <1>2 DEF StatementKnown
<1>5. VisibleState = "idle" /\ VisibleState' = "running"
  BY <1>2, States, StatesNext DEF Stored
<1>6. Table!Begin(s)
  BY <1>2, <1>3, <1>5, SameWords DEF Table!Begin
<1>7. QED
  BY <1>3, <1>4, <1>6 DEF RefInv, Refines, Table!Next

LEMMA RestartRefines ==
  ASSUME Undisturbed, RefInv, Restart
  PROVE  RefInv' /\ Refines
<1>1. [Next]_vars
  BY DEF Next
<1>2. /\ pc = "idle" /\ pc' = "idle" /\ data' = data /\ bak' = bak
      /\ stmt' = NoStmt /\ reply' = Refused
  BY DEF Restart, disk, Undisturbed
<1>3. CacheInv' /\ BackupKnown' /\ VisibleRows' = VisibleRows
  BY <1>1, <1>2, QuietRows
<1>4. StatementKnown' /\ VisibleState' = "idle"
  BY <1>2, StatesNext DEF StatementKnown
<1>5. Table!Restart
  BY <1>2, <1>3, <1>4, SameWords DEF Table!Restart
<1>6. QED
  BY <1>3, <1>4, <1>5 DEF RefInv, Refines, Table!Next

(* The rows of a table that is worked on.                                  *)
LEMMA VisibleAtWork ==
  ASSUME RefInv, pc \in Working
  PROVE  /\ VisibleRows[T] = data[T].bin /\ VisibleRows[T] = Records
         /\ DOMAIN VisibleRows[T] = 1..Len(data[T].bin)
         /\ data[T].bin \in Seq(Row) /\ Len(data[T].bin) \in Nat
  BY AtWork, Visible DEF RefInv

(* A statement is refused for the reasons TableSpec names, and no others.  *)
LEMMA RefusalRefines ==
  ASSUME Undisturbed, RefInv, RefuseToOpen \/ RejectInsert
  PROVE  RefInv' /\ Refines
<1>1. Step /\ [Next]_vars
  BY DEF Next, Step, Activate, Insert
<1>2. /\ stmt' = stmt /\ T' = T /\ T \in Tables /\ T = stmt.table
      /\ stmt.op \in {"insert", "select"}
  BY <1>1, StepFacts DEF Statement
<1>3. /\ pc \in {"open", "insert"} /\ pc' = "idle" /\ data' = data /\ bak' = bak
      /\ reply' = Refused
  BY NoFaults DEF RefuseToOpen, RejectInsert, Error, disk, Undisturbed
<1>4. CacheInv' /\ BackupKnown' /\ VisibleRows' = VisibleRows
  BY <1>1, <1>3, QuietRows
<1>5. StatementKnown'
  BY <1>3 DEF StatementKnown
<1>6. VisibleState = "running" /\ VisibleState' = "idle"
  BY <1>3, States, StatesNext DEF Stored
<1>7. Table!Finish(Refused)
  BY <1>2, <1>3, <1>4, <1>6 DEF Table!Finish
<1>8. CASE RefuseToOpen
  <2>1. stmt.form = "count"
    BY <1>8, NoFaults DEF RefuseToOpen, Undisturbed
  <2>2. Table!RefuseInsert \/ Table!RefuseSelect
    BY <1>2, <1>6, <1>7, <2>1, SameWords
    DEF Table!RefuseInsert, Table!RefuseSelect, Table!InsertAllowed, Table!SelectAllowed
  <2>3. QED
    BY <1>4, <1>5, <2>2 DEF RefInv, Refines, Table!Next
<1>9. CASE RejectInsert
  <2>1. pc = "insert" /\ BadInsert /\ stmt.op = "insert"
    BY <1>9, NoFaults DEF RejectInsert, Undisturbed, RefInv, CacheInv, StoredInv, ControlInv,
       Inserting
  <2>2. /\ (guarded <=> T \in StudentTables)
        /\ SetKnows(data[T].bin, Len(data[T].bin))
    BY <2>1, KnownAtWork DEF RefInv
  <2>3. ~Table!InsertAllowed
    <3>1. CASE stmt.form = "column"
      BY <3>1 DEF Table!InsertAllowed
    <3>2. CASE T \in StudentTables /\ stmt.no = Empty
      BY <1>2, <3>2 DEF Table!InsertAllowed, Table!Empty, Empty
    <3>3. CASE T \in StudentTables /\ guarded /\ stmt.no \in noSet
      <4>1. \E p \in DOMAIN VisibleRows[T] : VisibleRows[T][p].no = stmt.no
        BY <2>1, <2>2, <3>3, VisibleAtWork DEF SetKnows, Working
      <4>2. QED
        BY <1>2, <3>3, <4>1 DEF Table!InsertAllowed
    <3>4. QED
      BY <1>2, <2>1, <3>1, <3>2, <3>3 DEF BadInsert, Undisturbed, Orderly
  <2>4. Table!RefuseInsert
    BY <1>6, <1>7, <2>1, <2>3, SameWords DEF Table!RefuseInsert
  <2>5. QED
    BY <1>4, <1>5, <2>4 DEF RefInv, Refines, Table!Next
<1>10. QED
  BY <1>8, <1>9

(* The write of the record is the step at which an INSERT takes effect.    *)
LEMMA AppendRefines ==
  ASSUME Undisturbed, RefInv, AppendRow
  PROVE  RefInv' /\ Refines
<1>1. Step /\ [Next]_vars
  BY DEF Next, Step, Insert
<1>2. T = stmt.table /\ stmt \in Statement /\ TypeOK
  BY <1>1, StepFacts
<1> DEFINE s == data[T].bin
           new == [id |-> nextId', no |-> stmt.no]
<1>3. /\ pc = "insert" /\ pc' = "index" /\ stmt.op = "insert" /\ ~BadInsert
      /\ T \in Tables /\ T' = T /\ stmt' = stmt
      /\ data' = [data EXCEPT ![T] = [text |-> <<>>, bin |-> s \o <<new>>]]
      /\ nextId' \in Ids /\ new \in Row /\ s \in Seq(Row) /\ Len(s) \in Nat
      /\ \A p \in 1..Len(s) : s[p].id < nextId'
      /\ T \in StudentTables => /\ stmt.no # Empty
                                /\ \A p \in 1..Len(s) : s[p].no # stmt.no
      /\ UNCHANGED <<tmp, bak, reply>>
  BY AppendEffect DEF Undisturbed, RefInv
<1>4. VisibleRows[T] = s /\ DOMAIN VisibleRows[T] = 1..Len(s)
  BY <1>3, VisibleAtWork DEF Working
<1>5. CacheInv'
  BY <1>1, CacheStep DEF Undisturbed, RefInv
<1>6. VisibleState = "running" /\ VisibleState' = "stored"
  BY <1>3, States, StatesNext DEF Stored
<1>7. stmt.form = "ok"
  BY <1>2, <1>3 DEF BadInsert, RefInv, StatementKnown, Statement
<1>8. Table!InsertAllowed
  BY <1>2, <1>3, <1>4, <1>7 DEF Table!InsertAllowed, Table!Empty, Empty
<1>9. VisibleRows' = [VisibleRows EXCEPT ![T] = Append(@, new)]
  <2>1. /\ data'[T] = [text |-> <<>>, bin |-> s \o <<new>>]
        /\ \A t \in Tables \ {T} : data'[t] = data[t]
    BY <1>2, <1>3 DEF TypeOK, Disk
  <2>2. data'[T] # Absent /\ data'[T] \in File
    BY <1>3, <1>5 DEF CacheInv, ActiveGood, Working, Binary, FilesGood, GoodFile
  <2>3. Rows(data'[T]) = s \o <<new>>
    <3>1. data'[T].text = <<>> /\ data'[T].bin = s \o <<new>>
      BY <2>1
    <3>2. QED
      BY <2>2, <3>1, RowsOfOneKind
  <2>4. Append(s, new) = s \o <<new>>
    BY <1>3, AppendIsConcat
  <2> HIDE DEF s, new
  <2>5. VisibleRows'[T] = Append(VisibleRows[T], new)
    BY <1>3, <1>4, <2>2, <2>3, <2>4 DEF VisibleRows
  <2>6. \A t \in Tables \ {T} : VisibleRows'[t] = VisibleRows[t]
    BY <1>3, <2>1 DEF VisibleRows
  <2>7. VisibleRows' = [t \in Tables |-> VisibleRows'[t]]
        /\ VisibleRows = [t \in Tables |-> VisibleRows[t]]
    BY DEF VisibleRows
  <2>8. QED
    BY <1>3, <2>5, <2>6, <2>7
<1>10. Table!StoreRow
  <2>1. \A p \in DOMAIN VisibleRows[T] : VisibleRows[T][p].id < nextId'
    BY <1>3, <1>4
  <2> HIDE DEF s
  <2>2. QED
    BY <1>2, <1>3, <1>6, <1>8, <1>9, <2>1, SameWords DEF Table!StoreRow
<1>11. BackupKnown'
  <2>1. data'[T] # Absent
    BY <1>3, <1>5 DEF CacheInv, ActiveGood, Working, Binary
  <2>2. \A t \in Tables \ {T} : data'[t] = data[t]
    BY <1>2, <1>3 DEF TypeOK, Disk
  <2>3. QED
    BY <1>3, <2>1, <2>2 DEF RefInv, BackupKnown
<1>12. StatementKnown'
  BY <1>3, <1>7 DEF StatementKnown
<1>13. QED
  BY <1>5, <1>10, <1>11, <1>12 DEF RefInv, Refines, Table!Next

(* After the write the INSERT does not fail any more, and what it does to  *)
(* the caches is not to be seen.                                           *)
LEMMA NoIsRemembered ==
  ASSUME Undisturbed, RefInv, RememberNo
  PROVE  pc = "set" /\ pc' = "answer" /\ reply' = reply
         /\ UNCHANGED <<data, bak, ref, stmt>>
<1>1. pc = "set" /\ T \in StudentTables
  BY DEF RememberNo, RefInv, StatementKnown
<1> DEFINE s == data[T].bin
           n == ref - 1
<1>2. /\ GoodRows(T, s) /\ n \in Nat /\ n + 1 \in 1..Len(s) /\ s[n + 1].no = stmt.no
  BY <1>1, AtWork, JustWritten DEF RefInv, Working
<1>3. guarded /\ noSet = {s[p].no : p \in 1..n}
  BY <1>1 DEF RefInv, CacheInv, CachesGood, SetKnows
<1> HIDE DEF s, n
<1>4. stmt.no \notin noSet
  BY <1>1, <1>2, <1>3, NextNoIsNew
<1>5. QED
  BY <1>1, <1>3, <1>4, NoFaults DEF RememberNo, Continue, disk, call, Undisturbed

LEMMA StoredStepsRefine ==
  ASSUME Undisturbed, RefInv, IndexRow \/ RememberNo
  PROVE  RefInv' /\ Refines
<1>1. Step /\ [Next]_vars
  BY DEF Next, Step, Insert
<1>2. T' = T
  BY <1>1, StepFacts
<1>3. /\ pc \in {"index", "set"} /\ pc' \in {"set", "answer"}
      /\ pc' = "set" => T \in StudentTables
      /\ reply' = reply /\ UNCHANGED <<data, bak, ref, stmt>>
  BY IndexSucceeds, NoIsRemembered DEF Undisturbed, RefInv, disk, call
<1>4. CacheInv' /\ BackupKnown' /\ VisibleRows' = VisibleRows
  BY <1>1, <1>3, QuietRows
<1>5. StatementKnown'
  <2>1. ref = Len(data[T].bin) /\ stmt.form # "count"
    BY <1>3, JustWritten DEF RefInv, StatementKnown
  <2>2. QED
    BY <1>2, <1>3, <2>1 DEF StatementKnown
<1>6. VisibleState' = VisibleState
  BY <1>3, States, StatesNext DEF Stored
<1>7. QED
  BY <1>3, <1>4, <1>5, <1>6, Stutters DEF RefInv

LEMMA AnswerRefines ==
  ASSUME Undisturbed, RefInv, AnswerInsert
  PROVE  RefInv' /\ Refines
<1>1. Step /\ [Next]_vars
  BY DEF Next, Step, Insert
<1>2. T = stmt.table /\ stmt' = stmt
  BY <1>1, StepFacts
<1>3. /\ pc = "answer" /\ pc' = "idle" /\ UNCHANGED <<data, bak>>
      /\ reply' = [ok |-> TRUE, id |-> nextId, rows |-> {}]
  BY NoFaults DEF AnswerInsert, disk, Undisturbed
<1>4. CacheInv' /\ BackupKnown' /\ VisibleRows' = VisibleRows
  BY <1>1, <1>3, QuietRows
<1>5. StatementKnown'
  BY <1>3 DEF StatementKnown
<1>6. VisibleState = "stored" /\ VisibleState' = "idle"
  BY <1>3, States, StatesNext DEF Stored
<1>7. VisibleRows[T][Len(VisibleRows[T])].id = nextId
  <2>1. ref = Len(data[T].bin) /\ data[T].bin[ref].id = nextId
    BY <1>3 DEF RefInv, StatementKnown, CacheInv, StoredInv, Stored
  <2>2. QED
    BY <1>3, <2>1, VisibleAtWork DEF Working
<1>8. Table!ConfirmInsert
  BY <1>2, <1>3, <1>4, <1>6, <1>7 DEF Table!ConfirmInsert, Table!Finish
<1>9. QED
  BY <1>4, <1>5, <1>8 DEF RefInv, Refines, Table!Next

LEMMA SelectRefines ==
  ASSUME Undisturbed, RefInv, Select
  PROVE  RefInv' /\ Refines
<1>1. Step /\ [Next]_vars
  BY DEF Next, Step
<1>2. T = stmt.table /\ stmt' = stmt /\ stmt \in Statement
  BY <1>1, StepFacts
<1>3. /\ pc = "select" /\ pc' = "idle" /\ UNCHANGED <<data, bak>>
      /\ \/ /\ reply' = Refused
            /\ \/ stmt.form = "column"
               \/ stmt.where.on = "student_no" /\ T \notin StudentTables
         \/ /\ stmt.form # "column"
            /\ stmt.where.on = "student_no" => T \in StudentTables
            /\ \E rows \in Answers(Records, stmt.where) :
                 reply' = [ok |-> TRUE, id |-> NaN, rows |-> rows]
  BY SelectIsRight, NoFaults DEF RefInv, Undisturbed, disk
<1>4. stmt.op = "select" /\ (stmt.form = "ok" \/ stmt.form = "column")
  BY <1>2, <1>3 DEF RefInv, CacheInv, StoredInv, ControlInv, StatementKnown, Statement
<1>5. CacheInv' /\ BackupKnown' /\ VisibleRows' = VisibleRows
  BY <1>1, <1>3, QuietRows
<1>6. StatementKnown'
  BY <1>3 DEF StatementKnown
<1>7. VisibleState = "running" /\ VisibleState' = "idle"
  BY <1>3, States, StatesNext DEF Stored
<1>8. VisibleRows[T] = Records
  BY <1>3, VisibleAtWork DEF Working
<1>9. CASE /\ reply' = Refused
           /\ \/ stmt.form = "column"
              \/ stmt.where.on = "student_no" /\ T \notin StudentTables
  <2>1. Table!RefuseSelect
    BY <1>2, <1>4, <1>5, <1>7, <1>9, SameWords
    DEF Table!RefuseSelect, Table!SelectAllowed, Table!Finish
  <2>2. QED
    BY <1>5, <1>6, <2>1 DEF RefInv, Refines, Table!Next
<1>10. CASE /\ stmt.form # "column"
            /\ stmt.where.on = "student_no" => T \in StudentTables
            /\ \E rows \in Answers(Records, stmt.where) :
                 reply' = [ok |-> TRUE, id |-> NaN, rows |-> rows]
  <2>1. Table!Answers(VisibleRows[stmt.table], stmt.where) = Answers(Records, stmt.where)
    BY <1>2, <1>8, SameWords
  <2>2. Table!AnswerSelect
    BY <1>2, <1>4, <1>5, <1>7, <1>10, <2>1
    DEF Table!AnswerSelect, Table!SelectAllowed, Table!Finish
  <2>3. QED
    BY <1>5, <1>6, <2>2 DEF RefInv, Refines, Table!Next
<1>11. QED
  BY <1>3, <1>9, <1>10

(* Every step is one of TableSpec, or nothing to be seen.                  *)
LEMMA RefStep == Undisturbed /\ RefInv /\ [Next]_vars => RefInv' /\ Refines
<1> SUFFICES ASSUME Undisturbed, RefInv, [Next]_vars PROVE RefInv' /\ Refines
  OBVIOUS
<1>1. CASE UNCHANGED vars
  <2>1. CacheInv'
    BY CacheStep DEF Undisturbed, RefInv
  <2>2. BackupKnown' /\ StatementKnown'
    BY <1>1 DEF vars, T, RefInv, BackupKnown, StatementKnown
  <2>3. VisibleRows' = VisibleRows /\ VisibleState' = VisibleState
    BY <1>1, SameRows DEF vars, VisibleState
  <2>4. QED
    BY <1>1, <2>1, <2>2, <2>3, Stutters DEF vars, RefInv
<1>2. ~RejectRow /\ ~ScanBreaks
  BY NoFaults, ScanAccepts, ScansBinary DEF ScanBreaks, RejectRow, Undisturbed, RefInv
<1>3. QED
  BY <1>1, <1>2, BeginRefines, RestartRefines, InvisibleSteps, SwitchRefines, DropRefines,
     BackUpRefines, FinalizeRefines, RefusalRefines, AppendRefines, StoredStepsRefine,
     AnswerRefines, SelectRefines
  DEF Next, Step, Activate, Insert

(* The storage layer is a set of tables: an INSERT is one atomic step with *)
(* a growing id and is refused only for a reason TableSpec gives, a SELECT *)
(* returns the matching rows, and switching, migrating and rebuilding do   *)
(* not show.                                                               *)
THEOREM StorageIsTables == ASSUME Undisturbed PROVE Spec => ImplementsTable
<1>1. Init => RefInv /\ Table!Init
  BY RefInit
<1>2. RefInv /\ [Next]_vars => RefInv' /\ [Table!Next]_Table!vars
  BY RefStep DEF Refines
<1>3. QED
  BY <1>1, <1>2, PTL DEF Spec, ImplementsTable, Table!Spec
=============================================================================
