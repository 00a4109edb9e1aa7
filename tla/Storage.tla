------------------------------ MODULE Storage ------------------------------
(***************************************************************************)
(* The storage layer (src/src/storage.c): one table at a time is "active". *)
(* Its data file is migrated from text when needed, scanned into an id     *)
(* index, a set of student numbers and an id counter, and then answers     *)
(* INSERT and SELECT from these caches and from the file.                  *)
(*                                                                         *)
(* A statement runs step by step; `pc' names the next step.  The process   *)
(* may end and be started again between two statements, and, as a fault,   *)
(* between any two steps.  The program is sequential, so a step is one     *)
(* effect on the disk with everything in memory around it.                 *)
(***************************************************************************)
EXTENDS Sql, FiniteSets

CONSTANTS
  MaxRows,    \* bound: an INSERT is issued only below so many rows
  InitFiles,  \* for each table, the data files it may have at first
  Faults,     \* what may go wrong: a subset of FaultKinds
  Absent,     \* "there is no such file"
  Torn,       \* a record of which only a part reached the file
  NoTable     \* "no active path"

(***************************************************************************)
(* "alloc": an allocation of the program fails; "io": a file operation     *)
(* fails, which mostly ends the statement, but is taken for an answer      *)
(* where a file is probed, judged and read as text (Probed, BinaryVerdicts,*)
(* CutShort); "tear": a write stops half way, or its failure only shows in *)
(* fclose, whose result the code ignores; "crash": the process dies in     *)
(* mid-statement.                                                          *)
(***************************************************************************)
FaultKinds == {"alloc", "io", "tear", "crash"}

Record == Row \cup {Torn}

(***************************************************************************)
(* A data file: the lines of a legacy text file, then binary records.      *)
(***************************************************************************)
File      == [text : Seq(Row), bin : Seq(Record)]
EmptyFile == [text |-> <<>>, bin |-> <<>>]

ASSUME StorageAssumption ==
  /\ MaxRows \in Nat
  /\ NoTable \notin Tables
  /\ Torn \notin Row
  /\ Absent \notin File
  /\ \A t \in Tables : InitFiles[t] \subseteq File \cup {Absent}
  /\ Faults \subseteq FaultKinds

VARIABLES
  \* on disk, for each table
  data,         \* <table>.data
  tmp,          \* <table>.data.bin.tmp
  bak,          \* <table>.data.text.bak
  \* globals of storage.c
  path,         \* g_active_data_path, as the table it belongs to
  ready,        \* g_index_ready
  index,        \* the B+ tree behind g_index_root: id -> record number, or 0
  treeTorn,     \* a failed split has cut records off the tree
  nextId,       \* g_next_id_counter
  guarded,      \* g_active_student_no_column >= 0 (then the set is allocated)
  noSet,        \* g_student_no_set
  activeTable,  \* g_active_table: "null", "current" or "freed"
  \* the statement being executed
  pc, stmt, pos, maxId, ref, reply

disk  == <<data, tmp, bak>>
tree  == <<index, treeTorn>>
cache == <<path, ready, index, treeTorn, nextId, guarded, noSet>>
call  == <<stmt, pos, maxId, ref>>
vars  == <<data, tmp, bak, path, ready, index, treeTorn, nextId, guarded,
           noSet, activeTable, pc, stmt, pos, maxId, ref, reply>>

(***************************************************************************)
(* Reading files                                                           *)
(***************************************************************************)
T == stmt.table

\* Mutant: opened with "wb".
OpenedAnew(f) == EmptyFile

(* fopen(.., "ab") and the probe of activation create a missing file.      *)
Opened(f) == IF f = Absent THEN EmptyFile ELSE f

(* What the probe of activation leaves: a file that is there but cannot be *)
(* opened for reading is taken for missing and written anew, as empty.     *)
Probed(f) == {Opened(f)} \cup IF "io" \in Faults THEN {EmptyFile} ELSE {}

(* The records activation scans; binary parsing starts at the first byte,  *)
(* and no text begins with a count.                                        *)
Records  == IF data[T] = Absent THEN <<>> ELSE data[T].bin
IsBinary == data[T] = Absent \/ data[T].text = <<>>

(* Behind a torn record the reader is out of step with the records: it may *)
(* see any row there, or the end of the file.                              *)
Lost(n)     == \E q \in 1..n : q <= Len(Records) /\ Records[q] = Torn
Readings(n) == IF Lost(n) THEN Row ELSE {Records[n]}

\* Mutant: every file is taken for text.
AlwaysText(f) == {FALSE}

(* file_looks_binary judges by the first record.  When that one is torn it *)
(* tests a length it never read, so the verdict can be either.  A file     *)
(* that cannot be opened is binary to it, one that cannot be read is text. *)
TornAtFirst(f)    == f.text = <<>> /\ f.bin # <<>> /\ f.bin[1] = Torn
BinaryVerdicts(f) == IF "io" \in Faults \/ TornAtFirst(f) THEN BOOLEAN
                                                         ELSE {f.text = <<>>}

(* A text line for each line, and binary bytes read as one odd line.       *)
OddLine      == [id |-> NaN, no |-> Empty]
Converted(f) == f.text \o (IF f.bin = <<>> THEN <<>> ELSE <<OddLine>>)

(* What may be last when a copy is cut short: half a record, or half a     *)
(* line, which reads as some row (fgetc's failure is taken for the end).   *)
CutShort == {<<>>}
            \cup (IF "tear" \in Faults THEN {<<Torn>>} ELSE {})
            \cup (IF "io" \in Faults THEN {<<r>> : r \in Row} ELSE {})

(***************************************************************************)
(* Control                                                                 *)
(***************************************************************************)
NoIndex == [i \in Ids |-> 0]

(* The statement ends with an error.  The error paths free the table but   *)
(* leave g_active_table pointing at it.                                    *)
Error == /\ pc' = "idle"
         /\ reply' = Refused
         /\ activeTable' = IF activeTable = "current" THEN "freed"
                                                      ELSE activeTable

Continue(at) == pc' = at /\ UNCHANGED <<reply, activeTable>>

Init == /\ data \in [Tables -> UNION {InitFiles[t] : t \in Tables}]
        /\ \A t \in Tables : data[t] \in InitFiles[t]
        /\ tmp = [t \in Tables |-> Absent]
        /\ bak = [t \in Tables |-> Absent]
        /\ path = NoTable /\ ready = FALSE
        /\ index = NoIndex /\ treeTorn = FALSE
        /\ nextId = 0 /\ guarded = FALSE /\ noSet = {}
        /\ activeTable = "null"
        /\ pc = "idle" /\ stmt = NoStmt /\ reply = Refused
        /\ pos = 0 /\ maxId = 0 /\ ref = 0

Begin(s) ==
  /\ pc = "idle"
  /\ s.op = "insert" =>
       LET f == Opened(data[s.table]) IN Len(f.text) + Len(f.bin) < MaxRows
  /\ pc' = "open" /\ stmt' = s /\ reply' = Refused
  /\ ref' = 0
  /\ UNCHANGED <<disk, cache, activeTable, pos, maxId>>

(* Column and value counts differ, or the schema file cannot be read.      *)
RefuseToOpen ==
  /\ pc = "open"
  /\ stmt.form = "count" \/ "io" \in Faults \/ "alloc" \in Faults
  /\ Error
  /\ UNCHANGED <<disk, cache, call>>

(***************************************************************************)
(* Activation                                                              *)
(***************************************************************************)
\* Mutant: the path is not compared.
InPlaceWhenReady == ready

(* The same path as last time, with some index in place.                   *)
InPlace == path = T /\ ready

\* Mutant: g_active_table is not set.
FastPathKeepsTable ==
  /\ pc = "open" /\ stmt.form # "count"
  /\ InPlace
  /\ pc' = stmt.op
  /\ UNCHANGED <<disk, cache, call, activeTable, reply>>

(* Then nothing is read.                                                   *)
FastPath ==
  /\ pc = "open" /\ stmt.form # "count"
  /\ InPlace
  /\ activeTable' = "current"
  /\ pc' = stmt.op
  /\ UNCHANGED <<disk, cache, call, reply>>

(* Otherwise the path is changed first and the rest may fail after that.   *)
SwitchTable ==
  /\ pc = "open" /\ stmt.form # "count"
  /\ ~InPlace
  /\ guarded' = FALSE /\ noSet' = {}
  /\ \/ /\ "alloc" \in Faults
        /\ path' = NoTable /\ Error
        /\ UNCHANGED data
     \/ /\ "io" \in Faults \/ "alloc" \in Faults
        /\ path' = T /\ Error
        /\ UNCHANGED data
     \/ /\ path' = T
        /\ \E f \in Probed(data[T]) :
             /\ data' = [data EXCEPT ![T] = f]
             /\ \E binary \in BinaryVerdicts(f) :
                  Continue(IF binary THEN "rebuild" ELSE "migrate")
  /\ UNCHANGED <<tmp, bak, ready, tree, nextId, call>>

(* migrate_text_data_to_binary writes the whole file anew beside the old.  *)
MigrateText ==
  /\ pc = "migrate"
  /\ \/ /\ tmp' = [tmp EXCEPT ![T] = [text |-> <<>>, bin |-> Converted(data[T])]]
        /\ Continue("dropBackup")
     \/ /\ "tear" \in Faults \/ "io" \in Faults
        /\ \E n \in 0..Len(Converted(data[T])) - 1 : \E end \in CutShort :
             tmp' = [tmp EXCEPT ![T] =
                       [text |-> <<>>,
                        bin  |-> SubSeq(Converted(data[T]), 1, n) \o end]]
        /\ Continue("dropBackup")
     \/ /\ "alloc" \in Faults \/ "io" \in Faults
        /\ tmp' \in {tmp, [tmp EXCEPT ![T] = Absent]}
        /\ Error
  /\ UNCHANGED <<data, bak, cache, call>>

DropOldBackup ==
  /\ pc = "dropBackup"
  /\ bak' \in {[bak EXCEPT ![T] = Absent]}
              \cup IF "io" \in Faults THEN {bak} ELSE {}
  /\ Continue("backup")
  /\ UNCHANGED <<data, tmp, cache, call>>

\* Mutant: the text is removed, not renamed.
RemoveText ==
  /\ pc = "backup"
  /\ data' = [data EXCEPT ![T] = Absent]
  /\ Continue("finalize")
  /\ UNCHANGED <<tmp, bak, cache, call>>

BackUpText ==
  /\ pc = "backup"
  /\ \/ /\ bak' = [bak EXCEPT ![T] = data[T]]
        /\ data' = [data EXCEPT ![T] = Absent]
        /\ Continue("finalize")
        /\ UNCHANGED tmp
     \/ /\ "io" \in Faults
        /\ tmp' = [tmp EXCEPT ![T] = Absent]
        /\ Error
        /\ UNCHANGED <<data, bak>>
  /\ UNCHANGED <<cache, call>>

FinalizeMigration ==
  /\ pc = "finalize"
  /\ tmp' = [tmp EXCEPT ![T] = Absent]
  /\ \/ /\ data' = [data EXCEPT ![T] = tmp[T]]
        /\ Continue("rebuild")
        /\ UNCHANGED bak
     \/ /\ "io" \in Faults             \* the backup is renamed back
        /\ data' = [data EXCEPT ![T] = bak[T]]
        /\ bak' = [bak EXCEPT ![T] = Absent]
        /\ Error
     \/ /\ "io" \in Faults             \* or even that fails
        /\ Error
        /\ UNCHANGED <<data, bak>>
  /\ UNCHANGED <<cache, call>>

(* index_init, the test for the id column, student_no_set_init.            *)
StartRebuild ==
  /\ pc = "rebuild"
  /\ index' = NoIndex /\ treeTorn' = FALSE
  /\ \/ /\ "alloc" \in Faults
        /\ ready' = FALSE /\ Error
        /\ UNCHANGED guarded
     \/ /\ T \notin IdTables \/ ("alloc" \in Faults /\ T \in StudentTables)
        /\ ready' = TRUE /\ Error
        /\ UNCHANGED guarded
     \/ /\ T \in IdTables
        /\ ready' = TRUE /\ guarded' = (T \in StudentTables)
        /\ Continue("scan")
  /\ UNCHANGED <<disk, path, nextId, noSet, call>>

(* index_insert when an allocation fails: nothing has changed, or a leaf   *)
(* was split and the keys of its right half are cut off, and the new key   *)
(* may have been put into the left half (BPlusTree has the detail).        *)
IndexInsertFails(id, at) ==
  \E cut \in SUBSET {i \in Ids : index[i] # 0}, added \in BOOLEAN :
    /\ index' = [i \in Ids |-> CASE i \in cut -> 0
                                [] added /\ i = id -> at
                                [] OTHER -> index[i]]
    /\ treeTorn' = (treeTorn \/ cut # {} \/ added)

\* Mutant: the scan does not fill the set.
NotesNothing(no) == noSet

UsableNo(no) == guarded => no # Empty /\ no \notin noSet
NoteNo(no)   == IF guarded THEN noSet \cup {no} ELSE noSet

(* What the scan counts is gone when it returns.                           *)
EndScan == pos' = 0 /\ maxId' = 0

\* Mutant: the last id counts, not the highest.
LastId(id) == id

HigherId(id) == IF id > maxId THEN id ELSE maxId

(* build_index_callback: the student number first, then the id.            *)
ScanRow ==
  /\ pc = "scan" /\ IsBinary /\ pos < Len(Records)
  /\ \E r \in Readings(pos + 1) :
       /\ r.id # NaN /\ UsableNo(r.no)
       /\ noSet' = NoteNo(r.no)
       /\ \/ /\ index[r.id] = 0
             /\ index' = [index EXCEPT ![r.id] = pos + 1]
             /\ maxId' = HigherId(r.id)
             /\ pos' = pos + 1
             /\ Continue("scan")
          \/ /\ index[r.id] # 0        \* duplicate id in data
             /\ Error /\ EndScan
             /\ UNCHANGED index
  /\ UNCHANGED <<disk, path, ready, treeTorn, nextId, guarded, stmt, ref>>

RejectRow ==
  /\ pc = "scan" /\ IsBinary /\ pos < Len(Records)
  /\ \E r \in Readings(pos + 1) : r.id = NaN \/ ~UsableNo(r.no)
  /\ Error /\ EndScan
  /\ UNCHANGED <<disk, cache, stmt, ref>>

(* The file cannot be opened or read, at its end too; it is a text; or     *)
(* there is no memory for a row.                                           *)
ScanBreaks ==
  /\ pc = "scan"
  /\ \/ /\ \/ "io" \in Faults \/ ~IsBinary
           \/ "alloc" \in Faults /\ pos < Len(Records)
        /\ UNCHANGED <<tree, noSet>>
     \/ /\ "alloc" \in Faults /\ IsBinary /\ pos < Len(Records)
        /\ \E r \in Readings(pos + 1) :
             /\ r.id # NaN /\ UsableNo(r.no) /\ index[r.id] = 0
             /\ noSet' = NoteNo(r.no)
             /\ IndexInsertFails(r.id, pos + 1)
  /\ Error /\ EndScan
  /\ UNCHANGED <<disk, path, ready, nextId, guarded, stmt, ref>>

\* Mutant: the end of the file is not noticed.
BeyondEnd == IsBinary /\ pos > Len(Records)

AtEnd == IsBinary /\ (pos = Len(Records) \/ Lost(pos + 1))

ScanDone ==
  /\ pc = "scan" /\ AtEnd
  /\ nextId' = maxId
  /\ activeTable' = "current"
  /\ pc' = stmt.op
  /\ EndScan
  /\ UNCHANGED <<disk, path, ready, tree, guarded, noSet, stmt, ref, reply>>

(***************************************************************************)
(* INSERT                                                                  *)
(***************************************************************************)
BadInsert ==
  \/ stmt.form = "column"
  \/ T \notin IdTables
  \/ T \in StudentTables /\ (stmt.no = Empty \/ (guarded /\ stmt.no \in noSet))

RejectInsert ==
  /\ pc = "insert"
  /\ BadInsert \/ "alloc" \in Faults
  /\ Error
  /\ UNCHANGED <<disk, cache, call>>

\* Mutant: the counter does not wrap.
EndlessIds == nextId + 1

(* next_id: a uint64_t wraps around.                                       *)
NextId == IF nextId = MaxId THEN 0 ELSE nextId + 1

\* Mutant: the offset of the record before.
OffsetOfLast(f) == Len(f.bin)

OffsetOfEnd(f) == Len(f.bin) + 1

(* next_id and binary_writer_append_row; ref is the offset before writing. *)
AppendRow ==
  /\ pc = "insert" /\ ~BadInsert
  /\ nextId' = NextId
  /\ LET old == Opened(data[T])
         new == [id |-> nextId', no |-> stmt.no]
         Write(end) == data' = [data EXCEPT ![T] =
                                  [text |-> old.text, bin |-> old.bin \o end]]
     IN \/ /\ Write(<<new>>)
           /\ ref' = OffsetOfEnd(old)
           /\ Continue("index")
        \/ /\ "tear" \in Faults        \* lost in fclose
           /\ Write(<<>>) \/ Write(<<Torn>>)
           /\ ref' = OffsetOfEnd(old)
           /\ Continue("index")
        \/ /\ "tear" \in Faults        \* reported by fwrite
           /\ Write(<<Torn>>)
           /\ Error
           /\ UNCHANGED ref
        \/ /\ "io" \in Faults            \* reported after "ab" has opened it
           /\ Write(<<>>)
           /\ Error
           /\ UNCHANGED ref
        \/ /\ "io" \in Faults \/ "alloc" \in Faults
           /\ Error
           /\ UNCHANGED <<data, ref>>
  /\ UNCHANGED <<tmp, bak, path, ready, tree, guarded, noSet, stmt, pos, maxId>>

IndexRow ==
  /\ pc = "index"
  /\ \/ /\ ready /\ index[nextId] = 0
        /\ index' = [index EXCEPT ![nextId] = ref]
        /\ Continue(IF T \in StudentTables THEN "set" ELSE "answer")
        /\ UNCHANGED treeTorn
     \/ /\ ~ready \/ index[nextId] # 0 \* duplicate key
        /\ Error
        /\ UNCHANGED tree
     \/ /\ "alloc" \in Faults
        /\ ready /\ index[nextId] = 0
        /\ IndexInsertFails(nextId, ref)
        /\ Error
  /\ UNCHANGED <<disk, path, ready, nextId, guarded, noSet, call>>

(* student_no_set_insert fails on a set that was never allocated.          *)
RememberNo ==
  /\ pc = "set"
  /\ \/ /\ guarded /\ stmt.no \notin noSet
        /\ noSet' = noSet \cup {stmt.no}
        /\ Continue("answer")
     \/ /\ ~guarded \/ stmt.no \in noSet \/ "alloc" \in Faults
        /\ Error
        /\ UNCHANGED noSet
  /\ UNCHANGED <<disk, path, ready, tree, nextId, guarded, call>>

AnswerInsert ==
  /\ pc = "answer"
  /\ \/ /\ reply' = [ok |-> TRUE, id |-> nextId, rows |-> {}]
        /\ pc' = "idle" /\ activeTable' = "null"
     \/ /\ "alloc" \in Faults
        /\ Error
  /\ UNCHANGED <<disk, cache, call>>

(***************************************************************************)
(* SELECT                                                                  *)
(***************************************************************************)
(* The WHERE clause asks for no id, or for one that is no number.          *)
Linear(w) == w.on # "id" \/ w.id = NaN

(* The record numbers the id index gives for the WHERE clause.             *)
Indexed(w) == {index[i] : i \in {j \in Ids : index[j] # 0 /\ Holds(w.rel, j, w.id)}}

\* Mutant: every scan by student_no stops at its first match.
ScannedOnce(w) == IF w.on = "student_no"
                  THEN {p \in Matches(Records, w) : \A q \in Matches(Records, w) : p <= q}
                  ELSE Matches(Records, w)

(* Those a linear scan gives.  It stops at the first match of              *)
(* student_no = value: numbers are taken to be unique.                     *)
Scanned(w) == IF w.on = "student_no" /\ w.rel = "="
              THEN {p \in Matches(Records, w) : \A q \in Matches(Records, w) : p <= q}
              ELSE Matches(Records, w)

(* Reading is a gamble once the tree or the file is damaged: any records   *)
(* may be returned, or the reader gives up.                                *)
Damaged == treeTorn \/ ~IsBinary \/ Lost(Len(Records))

CannotSelect(w) ==
  \/ stmt.form = "column" \/ "alloc" \in Faults \/ "io" \in Faults
  \/ w.on = "student_no" /\ T \notin StudentTables
  \/ Linear(w) /\ data[T] = Absent
  \/ ~Linear(w) /\ ~(Indexed(w) \subseteq 1..Len(Records))
  \/ Damaged

Select ==
  /\ pc = "select"
  /\ LET w == stmt.where
         Return(rows) ==
           /\ reply' = [ok |-> TRUE, id |-> NaN, rows |-> rows]
           /\ pc' = "idle" /\ activeTable' = "null"
     IN \/ CannotSelect(w) /\ Error
        \/ /\ stmt.form # "column"
           /\ w.on = "student_no" => T \in StudentTables
           /\ Linear(w) => data[T] # Absent /\ data[T].text = <<>>
           /\ \/ Damaged /\ \E rows \in SUBSET (1..Len(Records)) : Return(rows)
              \/ /\ ~Damaged /\ ~Linear(w)
                 /\ Indexed(w) \subseteq 1..Len(Records)
                 /\ Return(Indexed(w))
              \/ /\ ~Damaged /\ Linear(w)
                 /\ Return(Scanned(w))
  /\ UNCHANGED <<disk, cache, call>>

(***************************************************************************)
(* The process ends and is started again; in mid-statement that is a crash.*)
(***************************************************************************)
Restart ==
  /\ pc = "idle" \/ "crash" \in Faults
  /\ path' = NoTable /\ ready' = FALSE
  /\ index' = NoIndex /\ treeTorn' = FALSE
  /\ nextId' = 0 /\ guarded' = FALSE /\ noSet' = {}
  /\ activeTable' = "null"
  /\ pc' = "idle" /\ stmt' = NoStmt /\ reply' = Refused
  /\ pos' = 0 /\ maxId' = 0 /\ ref' = 0
  /\ UNCHANGED disk

Activate == \/ RefuseToOpen \/ FastPath \/ SwitchTable
            \/ MigrateText \/ DropOldBackup \/ BackUpText \/ FinalizeMigration
            \/ StartRebuild \/ ScanRow \/ RejectRow \/ ScanBreaks \/ ScanDone
Insert   == RejectInsert \/ AppendRow \/ IndexRow \/ RememberNo \/ AnswerInsert
Step     == Activate \/ Insert \/ Select

Next == Step \/ Restart \/ \E s \in Statements : Begin(s)

Spec     == Init /\ [][Next]_vars
FairSpec == Spec /\ WF_vars(Step)

(***************************************************************************)
(* Properties                                                              *)
(***************************************************************************)
Disk == [Tables -> File \cup {Absent}]

(* Every variable has its type; the next step named by pc is one there is. *)
TypeOK ==
  /\ data \in Disk /\ tmp \in Disk /\ bak \in Disk
  /\ path \in Tables \cup {NoTable} /\ ready \in BOOLEAN
  /\ index \in [Ids -> Nat] /\ treeTorn \in BOOLEAN
  /\ nextId \in Ids /\ guarded \in BOOLEAN /\ noSet \subseteq Texts
  /\ activeTable \in {"null", "current", "freed"}
  /\ pc \in {"idle", "open", "migrate", "dropBackup", "backup", "finalize",
             "rebuild", "scan", "insert", "index", "set", "answer", "select"}
  /\ stmt \in Statements \cup {NoStmt}
  /\ pc # "idle" => stmt \in Statements
  /\ pos \in Nat /\ maxId \in Ids /\ ref \in Nat
  /\ reply \in Reply

(* All rows of a file, lines first; with them, no two have the same id or  *)
(* the same student number.                                                *)
Rows(f) == IF f = Absent THEN <<>> ELSE f.text \o f.bin

(* Between two statements the caches describe the active file: the index   *)
(* maps each id to its record and nothing else, the student numbers in the *)
(* set are those in the file, and the id counter is at or above every id   *)
(* (activation's fast path, storage.c:1194, trusts this without a look).   *)
CachesDescribeFile ==
  pc = "idle" /\ ready /\ path \in Tables =>
    LET rows == Rows(data[path]) IN
      /\ \A p \in DOMAIN rows : index[rows[p].id] = p /\ rows[p].id <= nextId
      /\ \A i \in Ids : index[i] # 0 =>
            index[i] \in DOMAIN rows /\ rows[index[i]].id = i
      /\ guarded <=> path \in StudentTables
      /\ guarded => noSet = {rows[p].no : p \in DOMAIN rows}

(* No two rows of a table share an id, at any moment                       *)
(* (02-tech-design.md, "id").                                              *)
UniqueIds ==
  \A t \in Tables : \A p, q \in DOMAIN Rows(data[t]) :
    p # q => Rows(data[t])[p].id # Rows(data[t])[q].id

(* No two rows of a table of students share a student number, at any       *)
(* moment (delta D03).                                                     *)
UniqueNos ==
  \A t \in StudentTables : \A p, q \in DOMAIN Rows(data[t]) :
    p # q => Rows(data[t])[p].no # Rows(data[t])[q].no

(* A SELECT that is not refused returns exactly the rows of its table that *)
(* satisfy its WHERE clause, by whichever of the three paths it was run;   *)
(* asked for a student number with several spellings, one or all of them.  *)
SelectAnswers ==
  pc = "idle" /\ stmt # NoStmt /\ stmt.op = "select" /\ reply.ok =>
    reply.rows \in Answers(Rows(data[T]), stmt.where)

(* A confirmed INSERT repeats neither an id nor a student number that the  *)
(* table already holds (02-tech-design.md:71, delta D03:26).               *)
ConfirmedKeysAreNew ==
  pc = "idle" /\ stmt # NoStmt /\ stmt.op = "insert" /\ reply.ok =>
    \A p \in DOMAIN data[T].bin : p # ref =>
      /\ data[T].bin[p].id # reply.id
      /\ T \in StudentTables => data[T].bin[p].no # stmt.no

(* An INSERT that was refused wrote nothing: ref is where it began to.     *)
RefusedInsertWroteNothing ==
  pc = "idle" /\ stmt # NoStmt /\ stmt.op = "insert" /\ ~reply.ok => ref = 0

(* The row of an INSERT that was confirmed is in the file, has the id that *)
(* was reported and the student number given, and the index finds it.      *)
ConfirmedInsertIsFound ==
  pc = "idle" /\ stmt # NoStmt /\ stmt.op = "insert" /\ reply.ok =>
    /\ ref \in DOMAIN data[T].bin
    /\ data[T].bin[ref] = [id |-> reply.id, no |-> stmt.no]
    /\ index[reply.id] = ref

(* g_active_table points into the stack frame of the statement being run,  *)
(* never of an earlier one, whenever SELECT follows it.                    *)
ActiveTableIsLive == pc = "select" => activeTable = "current"

(* The rows a table has on disk, its backup counted.                       *)
RangeOf(s)    == {s[p] : p \in DOMAIN s}
RowsOnDisk(t) == RangeOf(Rows(data[t])) \cup RangeOf(Rows(bak[t]))

(* The probe of activation writes a file anew that it could not open.      *)
Truncated(t) == "io" \in Faults /\ pc = "open" /\ t = T /\ data'[t] = EmptyFile

(* A binary file was taken for text, because reading it failed or its      *)
(* first record is torn: the backup is removed, or renamed over.           *)
MigratedAgain(t) == /\ pc \in {"dropBackup", "backup"} /\ t = T
                    /\ data[t].text = <<>>
                    /\ "io" \in Faults \/ TornAtFirst(data[t])

(* Each row stays on the disk, in the data file or, through a migration    *)
(* that is cut short anywhere, in the backup of the text; the two steps    *)
(* above are the only ones by which activation can lose any.               *)
NoRowLost ==
  [][\A t \in Tables :
       \/ RowsOnDisk(t) \subseteq RowsOnDisk(t)'
       \/ Truncated(t) \/ MigratedAgain(t)]_vars

(* Binary records are only ever added behind the others, whatever fails,   *)
(* but for that probe: a record number the index holds keeps its meaning.  *)
IsPrefixOf(s, u) == Len(s) <= Len(u) /\ \A p \in 1..Len(s) : u[p] = s[p]
AppendOnly ==
  [][\A t \in Tables :
       data[t] # Absent /\ data'[t] # Absent /\ data[t].text = data'[t].text
         => IsPrefixOf(data[t].bin, data'[t].bin) \/ Truncated(t)]_vars

(* Every statement that was begun comes to its end.                        *)
StatementsEnd == pc # "idle" ~> pc = "idle"

(* A migration switches to a file that was verified: next to a backup the  *)
(* data file holds only rows activation accepts.                           *)
SwitchedFileIsVerified ==
  \A t \in IdTables : bak[t] # Absent /\ data[t] # Absent =>
    \A p, q \in DOMAIN Rows(data[t]) :
      /\ Rows(data[t])[p].id # NaN
      /\ p # q => Rows(data[t])[p].id # Rows(data[t])[q].id

(* A migration keeps the rows: next to a backup the data file has them all.*)
MigrationKeepsRows ==
  \A t \in Tables : bak[t] # Absent /\ data[t] # Absent =>
    RangeOf(Rows(bak[t])) \subseteq RangeOf(Rows(data[t]))
=============================================================================
