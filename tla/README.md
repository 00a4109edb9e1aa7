# A verification project for the mini SQL program

This directory holds TLA+ models of the SQL program of this repository, TLC
configurations that check them on small instances, and TLAPS proofs of some of
their properties. Paths such as `storage.c` mean `src/src/storage.c` and so on;
`PROJECT.json` names the source lines of every definition.

The program is one sequential process without threads. What makes it hard is
that its state lives in three places which must agree at every moment somebody
looks: the data files of the tables, the caches of the *one* table that is
active (a B+ tree, a hash set and a counter), and the globals that say which
table that is. Every one of its steps can fail for want of memory or in the file
system, the process may die between any two of them, and nothing is ever rolled
back.

## 1. Inventory

| Part | Source | State it keeps | Operations |
|---|---|---|---|
| Storage: activation | `storage.c:993-1309` | `<table>.data`, `.bin.tmp`, `.text.bak` on disk; `g_active_data_path`, `g_index_ready`, `g_next_id_counter`, `g_active_student_no_column`, `g_active_table` | fast path, switch of tables, migration of a text file, rebuild of the caches by a scan |
| Storage: INSERT | `storage.c:1612-1836` | the same | check the columns, hand out an id, append the record, put it into index and set |
| Storage: SELECT | `storage.c:1379-1564, 1838-1964` | reads the same | by index for `id`, by a linear scan otherwise |
| Id index | `storage.c:173-490` | B+ tree of heap nodes behind `g_index_root` | `index_init`, `index_insert` with leaf, internal and root splits, `bpt_find`, `bpt_lower_bound`, range scans |
| Set of student numbers | `storage.c:48-171` | open-addressing hash table `g_student_no_set` | init, free, insert with doubling, contains |
| Record and text formats | `storage.c:617-991, 1081-1126` | none | split a text line, read and write a binary record, guess whether a file is binary |
| Schema and paths | `storage.c:561-615, 1566-1610` | none | load the columns of a table, build its paths |
| Lexer and parser | `parser.c` | none between calls | tokens, INSERT, SELECT with WHERE, scripts |
| Script runner | `main.c:177-217`, `executor.c` | the parsed script | parse all, run one by one, stop at the first failure |
| REPL | `main.c:239-347, 744-889` | the text buffer, exit status | gather lines, exit, help, run on a semicolon |
| History and line editor | `main.c:443-742` | up to 200 lines; a line, its length, a cursor | remember, recall, edit |
| Command line | `main.c:349-441` | none | options |
| Common | `common.c` | none | string lists, whole-file reading |
| `bptree.c` | | | an older copy of the tree that the build leaves out |

**Interactions.** The REPL or the script runner hands a parsed statement to
`execute_statement`, which calls `append_insert_row` or `run_select_query`. Both
first call `activate_storage_for_table`. Activation scans the data file through
a callback (`build_index_callback`) that fills the set, then the index. INSERT
writes the file first and the caches after it. SELECT by `id` follows record
offsets from the index into the file; any other SELECT scans the file through a
second callback. `g_active_table` is a pointer into the stack frame of the
statement being run.

**What is hard, and what correctness means.**

* *Activation.* The fast path believes the caches without a look at the file
  (same path, some index), so every way out of a statement must leave caches
  that describe the active file. A migration renames two files, one after the
  other, and whether there is to be one is guessed by reading the file. Correct
  means: caches and file agree between statements, rows stay on the disk, ids and
  student numbers stay unique.
* *INSERT.* Three effects, of which each may fail: correct means all or
  nothing, and a confirmed row can be found.
* *SELECT.* Three paths must give one answer, that of a look at every row.
* *Tree.* Splits cascade over nodes linked twice, as children and as a chain of
  leaves: a search and a range scan must see one map; a failed allocation on
  the way up must not make anything dangle.
* *Set.* Probing ends only at a gap: correct means a load below one at every
  moment, also while entries move, and no entry behind a gap.
* *REPL and scripts.* Text is cut into runs wherever a line holds a semicolon,
  a string or comment included: correct means that cutting changes nothing,
  nothing runs twice, and the exit status tells what was run.
* *Formats.* Whether a file is text or binary is guessed from its bytes, a text
  is rewritten once, records are found again by byte offsets: correct means that
  every row comes back, in its order, whatever it holds.
* *Line editor and options.* Typing, erasing and recalling share a fixed buffer
  and a row of the screen; options and words come in any order.

`PROJECT.json` lists the hazards line by line with the properties that
cover them.

## 2. Plan

1. *Done.* Storage layer with faults; its abstract table store; the tree and
   the set as components of their own with their abstract map and set; the REPL
   with scripts and history; type correctness, survival of rows and the load of
   the set proved.
2. *Done: breadth.* The bytes of the data files; the full grammar; the program's
   start, its options and its line editor, joined with the session; WHERE values
   of every kind and two spellings of one number; failing allocations and a
   growing tree in one run.
3. *Done: proofs of the storage layer and its two indexes*, all three
   refinements included.
4. *Done: proofs of the session and the formats*: what is run, in which order and
   with which status, the options, the history, the data files byte by byte.

Every invariant and action property a passing run checks is now a theorem, on
the conditions section 5 names; that statements end is left to TLC.

## 3. Modules

| Module | Models | Kind |
|---|---|---|
| `Sql` | rows, statements as the parser hands them over, comparisons of WHERE | shared definitions |
| `TableSpec` | what the storage layer promises: atomic INSERT, exact SELECT | abstract specification |
| `Storage` | `storage.c` without the inside of tree and set | the core |
| `StorageRefinement` | `Storage` as `TableSpec` | refinement mapping |
| `IndexMap`, `BPlusTree` | the map, and the tree that implements it | abstract and detailed |
| `NameSet`, `StudentNoSet` | the set, and the hash table that implements it | abstract and detailed |
| `Records` | data files byte by byte: text lines, binary records, the guess between them | component |
| `Parser` | tokenizer, grammar, scripts | pure operators |
| `CommandLine` | options and the mode they select | pure operators |
| `LineEditor` | editing a line, the input history, the row on the screen | component |
| `Repl` | the program: start, session, scripts, exit status; extends the three above | composition |
| `StorageProofs` | theorems: types, rows on disk, places of records, the active table, confirmed rows, caches, unique keys, answers, `Storage` implements `TableSpec` | proofs |
| `BPlusTreeProofs` | theorems: types, shape, balance, nothing lost or shared | proofs |
| `BPlusTreeMapProofs` | theorems: order of the keys, search, range scans, `BPlusTree` implements `IndexMap` | proofs |
| `StudentNoSetProofs` | theorems: load, probing, `StudentNoSet` implements `NameSet` | proofs |
| `RecordsProofs` | theorems: rows come back, at their places; the guess; causes of a refusal; splitting undoes escaping | proofs |
| `ParserProofs` | lemmas: what tokenizer and grammar make of a text put together from parts | proofs |
| `ReplProofs` | theorems: order of statements, sessions as scripts, exit status, options, history, line and screen | proofs |
| `CommonLemmas` | least numbers, remainders, recursive definitions, machines that take a sequence element by element | proofs |
| `MCStorage`, `MCBPlusTree`, `MCStudentNoSet`, `MCRecords`, `MCRepl` | constants for TLC | instances |

Definitions under a comment "Mutant:" are plausible slips of the code. No
specification uses them; each stands in front of the definition it deviates
from, and with it in that place the property named in `PROJECT.json` fails.

### Storage

A statement is run by steps named by `pc`. `Begin` is the call of
`execute_statement`; then come activation (`RefuseToOpen`, `FastPath`,
`SwitchTable`, `MigrateText`, `DropOldBackup`, `BackUpText`,
`FinalizeMigration`, `StartRebuild`, one `ScanRow` for each record,
`RejectRow`, `ScanBreaks`, `ScanDone`), then `RejectInsert`, `AppendRow`,
`IndexRow`, `RememberNo`, `AnswerInsert`, or `Select`. A step is one effect on
the disk with everything in memory around it; since nothing else runs in
between, finer steps would only be seen by a crash, and a crash forgets memory.
`Restart` is the end of the process and its next start, between statements
always, in mid-statement as the fault "crash".

* `data`, `tmp`, `bak` are the three files of each table. A file is a sequence of
  text lines and a sequence of binary records behind it; a record that was
  written in part is `Torn`, and the reader is out of step behind it.
* `path`, `ready`, `index`, `nextId`, `guarded`, `noSet`, `activeTable` are the
  globals. The index is a map from ids to record numbers (`BPlusTree` shows it
  is one), the set is a set (`StudentNoSet`), a data path is the table it
  belongs to. `treeTorn` says that a failed split has cut records off.
* Ids are `0..MaxId` and wrap, as `uint64_t` does. A text is the number it parses
  to, if any, and its rank in the order of `strcmp`; `IdRank` is the rank of an
  id's numeral. A WHERE value for `id` that is no number (`NaN`) makes SELECT scan
  and compare as strings (`Linear`).
* Two spellings of one number, 7 and 007, are different to the set and equal to
  WHERE. A scan for `student_no =` stops at its first match, so `Answers` allows
  one of them to stand for both.
* `Faults` says what may go wrong: "alloc", "io" (a file operation fails), "tear"
  (a write that stops half way, or whose failure only `fclose` would tell, which
  the code does not ask), "crash".
* Most failures of "io" are reported and end the statement, but three are taken
  for an answer. The probe of activation takes a file it cannot open for a
  missing one and writes it anew (`Probed`, `storage.c:1214`); `file_looks_binary`
  takes a file it cannot read for text, and one it cannot open for binary
  (`BinaryVerdicts`, `storage.c:1088-1120`); `read_text_line` takes a failed `fgetc`
  for the end of the text, so that the migration ends well with a part of the
  rows and perhaps half a line (`CutShort`, `storage.c:723`). A stream that has failed once is
  taken to go on failing.
* `file_looks_binary` also reads an uninitialised length when a file ends inside
  its first record (`TornAtFirst`): both verdicts can happen then.

### B+ tree

`heap` maps addresses to nodes, and `root` is `g_index_root`. One step is one
call of `bpt_insert_recursive` on its way down (`Descend`) or back
(`PutInLeaf`, `LinkSplit`, `GrowRoot`); `trail` is the stack of calls. Keys,
references, children and the leaf chain are all there, so splits move what the
code moves. `Find`, `ScanUp` and `ScanDown` are the three readers. A split whose
parent could not be told of the new node, because an allocation failed on the way
up, leaves the tree incomplete: `sinceCut` counts the insertions since then, and
what holds only of a complete tree is stated as long as it is 0. The abstract
map then allows an insertion to fail without effect (`Fail`).

### Set of student numbers

`slots` is the array, `newSlots` the one a rehash moves its entries to, one per
step. The hash is any function (a constant), so every pattern of collisions is a
choice of the instance. Strings are names.

### Records

`file` is the data file as a sequence of bytes. `Activate` guesses its kind
(`LooksBinary`), rewrites a text (`Migrated`: lines, escapes, records) and scans
the result (`Scan`); `AppendRow` and `AppendTorn` write a record, whole or in
part; `Restart` forgets what was found. A torn write is either reported, or only
shows in `fclose`, whose result is ignored: then the append succeeds, and `found`
gets an offset that leads to no row (`stray`, together with what a scan makes of
the bytes behind a torn record). `rows` is what the file ought to hold: the
rows its text stands for and those appended, up to the first torn one. Where the
code uses a length it could not read, `zero` and `small` say what the variable
happens to hold. `Storage` has the same files as sequences of records; reads that
fail are there.

### Parser

Text is a sequence of *pieces*: what the tokenizer and `strchr(line, ';')` tell
apart, each with the place where it was typed. `Tokenize` lets the reader take
them one by one, with strings, doubled quotes, both kinds of comment and the byte
order mark; `Grammar` says for each place of an INSERT or SELECT which tokens may
follow and where they lead, `Parse` which texts are scripts and which statements
they hold. A statement is known by the place of its first piece.

### The program

`Repl` begins with `Start`: `ParseOptions` takes the arguments one by one, `ModeOf` decides
between a session at the terminal, a session on a pipe, a script file and stdin.
`Exit`, `Help`, `Gather`, `Submit` are the ways a line goes through
`run_interactive`. On a pipe the line is one of `Lines` (`fgets`, `GetLine`); at
the terminal it is made key by key (`PressKey`: `Type`, `Backspace`, `Up`,
`Down`) and entered by `PressEnter`; `FallBack` is the failure of raw mode, after
which `fgets` reads on. `ReadMore` and `EndOfScript` are the reading of a script. A
statement succeeds or fails freely: `Storage` says when. `typed`, `text`, `ran`,
`clean`, `troubled` only record what happened.

In `LineEditor`, `input` is the line, `cursor` the history entry shown, and
`cells` the row of the screen behind the prompt, on which each rendering overwrites
what the one before put there. `EnterAlwaysFits` says that the code's check for a
line too long is never needed, so no action stands for it.

## 4. Runs

| Run | Question | Bounds | States |
|---|---|---|---|
| `MCStorage` | Is the storage layer an atomic table store, and does every statement end? (`ImplementsTable`, `StatementsEnd`) | no faults; 2 tables; every valid file of `MCValidFiles`, text and binary; 3 rows; 24 statements, 4 student numbers | 246 thousand |
| `MCStorageCrash` | Do caches, keys and answers stay right when the process dies anywhere? (`CachesDescribeFile`, `UniqueIds`, `UniqueNos`, `SelectAnswers`) | the same with crashes | 852 thousand |
| `MCStorageFaults` | What holds when memory or the file system fails anywhere, with files of any content? (`TypeOK`, `ActiveTableIsLive`, `ConfirmedInsertIsFound`, `NoRowLost`) | alloc and io; invalid files, text and binary; ids up to 1, so that they wrap; 2 texts, 2 rows | 3.7 million |
| `MCStorageTear` | Do records keep their places, and rows stay on the disk, when writes are torn or lost? (`AppendOnly`, `NoRowLost`) | tear and crash; migrations and INSERTs that tear any record, the first one too; ids up to 2; 2 rows | 459 thousand |
| `MCBPlusTree` | Is the tree a map, for searches and scans, balanced and without leaks, and safe when any allocation fails? | nodes of 3 keys, 10 keys in every order, one with a second reference; at most two insertions behind one that left a split unlinked (`SoonMadeAnew`) | 383 thousand |
| `MCStudentNoSet` | Is the hash table a set, in the middle of a rehash too? | 6 names with colliding hashes, capacity 2 and doubling | 17 thousand |
| `MCRecords` | Do all rows come back, at their offsets? Is the guess right? | words of 4 bytes, rows of 2 fields of 3 bytes; 64 texts; files up to 30 bytes before a write; one torn write, at any byte, reported or not; a row lost in `fclose` only while there is no other stray one (`MaxStray`) | 283 thousand |
| `MCRepl` | Does cutting text at semicolons change what is run? Does the status tell it? Does the screen show what will run? Does the order of options matter? | all lists of up to 4 out of 7 arguments; 4 lines out of 15 kinds, a history of 2; at the terminal 2 keys and a buffer of 4 bytes | 1.0 million |

*Why the bounds are enough.* In `Storage` two tables suffice to switch
away and back, three rows to have one before and one behind a row in question,
and two ids to wrap. A fault of a run may strike at every step that can meet it,
any number of times. No run has all four kinds: failing reads together with crashes or
torn writes are too many states, and what holds of all kinds at once is the
matter of the theorems `TypeCorrect`, `SelectsUseTheirTable`, `RecordsKeepPlaces`
and `RowsSurvive`, which suppose nothing.
In the tree, three keys to a node and ten keys make leaves, an internal node and
the root split, and each of the three kinds of allocation fail. In the set, six
names double the array three times, and the hashes chosen
collide, wrap around the end and part again when it doubles. In `Records`, 30
bytes hold three records, so that one is torn with others in front of it and
behind it; counts and lengths at, below and beyond the limits occur. In `Repl`,
four lines are enough for a string or a comment to be opened, held open over a
line with a semicolon, closed and followed by a statement; two keys in a line make
shorter and longer lines to recall; four arguments make every conflict but the
redundant ones.

Some properties name what they do not promise. `NoRowLost` names the two steps by which
activation can lose rows, and says that no other step does. One is the probe that
empties a file it could not open (`Truncated`), which `AppendOnly` names too. The
other is the migration of a binary file that was taken for text
(`MigratedAgain`), because reading it failed or because its first record is torn:
the first time its rows go to the backup, the second time that backup is
removed. `OffsetsHold` makes no promise of the rows lost in `fclose`, but of all
others, those behind lost ones and behind a torn one included, and `RowsComeBack`
none while a lost row stands among the ones found; the lost row itself was
confirmed, and nothing in the code prevents that. `InteractiveIsScript` is stated
for sessions that ran no buffer which ended within a comment or right behind a
quote, or, not being the first, began with a byte order mark (`clean`): a comment longer than
`INTERACTIVE_LINE_MAX` with a semicolon in its first part is run in two parts, the
second of which is read as SQL. The properties of `Records` except rows beyond the
reader's limits, which the writer does not look at, and texts of fewer than four
bytes, which are taken for empty binary files; `RefusedForCause` says that
besides torn writes these are the only causes of a refusal.

**Fairness.** Only `StatementsEnd` needs it: `FairSpec` has weak fairness of
`Step`, the program's own next step. The process is sequential and waits for
nothing in the middle of a statement, so it takes its next step as long as it
lives; `Begin` and `Restart` are not fair, nobody has to type. What keeps the
property from being a matter of course is the scan loop, which must come to the
end of the file.

**Disagreements with the documents.** Four runs end with a counterexample:

* `RefusedInsert`: an INSERT that the index or the set refuses has already
  appended its row; delta D03 asks that nothing be left behind.
* `RepeatedKey`: after activation refused a table half way, the next statement
  takes the fast path with half-built caches; an INSERT then confirms a key the
  file already holds.
* `UnverifiedSwitch`: a migrated file is renamed into place before its rows are
  looked at; the design says after.
* `CutMigration`: a crash between the two renames leaves the rows in
  the backup only, and the next statement starts an empty table.

More were met and are listed among the hazards: the file that is emptied because it
could not be opened, the binary file taken for text, the record lost in `fclose`, the long comment, the rows beyond
the limits and the short texts above (`01-scope-constraints.md:49` promises that
records come back without loss), two spellings of one student number, and a blank line at the prompt, which goes into the buffer so that `exit`
is not recognised behind it (`06-cli-ux.md:56` says blank input is ignored).

## 5. Proofs

A theorem holds for every value of the constants that satisfies the named
assumptions of the modules: `SqlAssumption`, `StorageAssumption`,
`SetAssumption`, `TreeAssumption`, `EditorAssumption`, `ReplAssumption`,
`RecordsAssumption`. They say that constants have their types, that special
values differ from all others, that a node has room for two keys, that the
newline of a line that `fgets` returns is its last character, that the limit of a
length fits a word and that of the number of fields leaves its last byte zero, and
that no text holds a NUL. What a theorem supposes beyond that is
part of its statement and named here. The two invariants that were hardest to find,
`CacheInv` and `OrderInv`, were checked by TLC before they were proved, the
first on the instance of `MCStorageCrash`, the second on a smaller one of the tree.

### Storage

| Theorem | Property | Supposes |
|---|---|---|
| `TypeCorrect` | `TypeOK` | nothing: all faults, all files |
| `SelectsUseTheirTable` | `ActiveTableIsLive` | nothing |
| `RecordsKeepPlaces` | `AppendOnly` | nothing |
| `RowsSurvive` | `NoRowLost` | nothing |
| `ConfirmedIsStored` | `ConfirmedInsertIsFound` | no torn writes |
| `CachesAreTrusted` | `CachesDescribeFile` | `Orderly` |
| `IdsStayUnique`, `NosStayUnique` | `UniqueIds`, `UniqueNos` | `Orderly` |
| `SelectsAnswer` | `SelectAnswers` | `Orderly` |
| `StorageIsTables` | `ImplementsTable` | `Undisturbed`: `Orderly`, no faults and no crashes |

* *Types.* `TypeOK` is not inductive: the steps of a migration move the data file,
  and moving an absent one would take the variables out of their types.
  `TypeInv` adds `MigrationHasFile`, that a data file exists up to the rename.
* *Rows and places.* `BackupInv` says why the backup may be removed and
  overwritten when it is: a file that still holds text has no backup yet, the
  copy of a migration holds none, a file being migrated holds text or was misread
  (`MayBeMisread`), and between the two renames there is no data file that
  could be lost. So the backup that a migration of a real text removes is none, and what remains
  are the two steps `NoRowLost` names. `PlaceInv` is the last of these alone, which is
  enough for records to keep their numbers.
* *Statements.* `ControlInv` says which statement is at which step, and that the
  steps behind activation find their own table active; `StoredInv` adds where
  an INSERT that has written stands with its row.
* *Caches.* `CacheInv` describes file, index, set and counter at every step:
  between statements they agree (`Known`); during a scan the index and the set
  know the rows up to the one to be read; in the middle of an INSERT the file is one
  row ahead of the set, and of the index too before the row is put into it
  (`CachesGood`). Uniqueness of keys and the answers of SELECT follow from it. `Orderly` is
  needed: with two equal ids in a file, or after a refused or failed statement,
  the caches really do not describe the file (the run `RepeatedKey`), and on a
  table without an id column the fast path answers a SELECT from an empty index,
  hence `IdTables = Tables`. It is what `MCStorageCrash` instantiates.
* *Refinement.* `RefInv` adds that without a data file there is no backup either,
  but between the renames, and that the copy has the rows of the text: so a
  migration does not show. A crash between the renames does, and leaves an empty
  table (the run `CutMigration`): hence no crashes. Each step maps to one of
  `TableSpec` or to none; one lemma per action.

### The B+ tree

Nothing is supposed, for all capacities of a node from 2 on, all orders of
insertion, and any allocation failing, but for `IndexImplementsMap`, which needs
that the null pointer is not itself a map (`NullIsNoMap`).

| Theorem | Property |
|---|---|
| `IndexTypeCorrect` | `TypeOK` |
| `NoNodeIsLost` | `NothingLeaks` |
| `LeavesAreEquallyDeep` | `Balanced` |
| `EachNodeIsFreedOnce` | `FreeIsSafe` |
| `InsertionForgetsNothing` | `ChainForgetsNothing` |
| `SearchAgreesWithChain` | `FindAgreesWithChain` |
| `RangeScansReturnTheRange` | `RangeScansAreExact` |
| `IndexImplementsMap` | `ImplementsMap` |

The invariant comes in three layers.

* `TreeInv`: there are a level for every node, one more than that of its
  children, and a rank for every leaf, less than that of the leaf before it; no
  two nodes share a child; the trail leads from the root to the node at hand; on
  the way up the new right node hangs nowhere yet, and while no split was left unlinked it is
  the only one. Levels make the recursions over children end, ranks those along
  the leaves.
* `ChainInv`: the linked leaves are all leaves. It holds even after a failed
  split, because a leaf is linked to its neighbour before its parent hears of it:
  no entry leaves the chain.
* `OrderInv`: every node has bounds; keys are within them and ascend, the
  separators of an inner node divide its bounds among its children, and each leaf
  ends where the next begins. On the way down the key is within the bounds of
  the node at hand (`LeadsDown`); on the way up the bounds of a node are divided
  between it and the new one, though its parent still sees the old ones
  (`ComesUp`). This holds as long as no split was left unlinked.

What the readers compute follows from these. Separators lead to the one leaf
within whose bounds a key is, so `bpt_find` looks where the key would be. What
is linked behind a leaf is beyond its bounds, so the list of entries ascends and
a scan may begin in the middle of it or end early.

The readers are recursive functions over the heap. That they exist and what they
yield is proved from two lemmas of `CommonLemmas`, `RecursionExists` and
`RecursionEnds`: a function given by its value at some places, and elsewhere
from its value at a successor of lower rank, exists; and a set that a place
belongs to whenever its successor does holds all places. They take sets and functions, not
operators, and are proved from the least element of a set of numbers.

### Set of student numbers

| Theorem | Property | Supposes |
|---|---|---|
| `LoadStaysLow` | `LoadIsLow` | nothing |
| `SetTypeCorrect` | `TypeOK` | `NilIsNoTable` |
| `ProbingIsMembership` | `ContainsIsMembership` | `NilIsNoTable` |
| `CountIsRight` | `CountIsExact` | `NilIsNoTable` |
| `ProbingMeetsGap` | `ProbingEnds` | `NilIsNoTable` |
| `HashTableIsSet` | `ImplementsSet` | `NilIsNoTable` |

`NilIsNoTable` says that the null pointer is not an array. `LoadInv` adds to the
load what is true between the decision to grow and the insertion that follows
it: the new array has room for all that moves and for one more. `SetInv` says of
both arrays that no gap lies between the place a name hashes to and the place it
is in, that no name stands twice, and that the counter is the number of names;
in a rehash, that the new array holds the names in front of the one to be moved.
`EveryPlaceIsReached` shows that probing goes through the whole array, around
its end, and so meets the gap that the load leaves.

### The program

Nothing is supposed: all lines, keys, lists of arguments, limits and lengths.

| Theorem | Property |
|---|---|
| `SessionTypeCorrect` | `TypeOK` |
| `StatementsRunInOrder` | `RunsInOrder` |
| `SessionIsScript` | `InteractiveIsScript` |
| `StatusIsTrue` | `StatusTellsTheRun` |
| `OptionsInAnyOrder` | `OrderIsFree` |
| `HistoryIsTrue` | `HistoryIsRecent` |
| `LinesFit` | `EnterAlwaysFits` |
| `ScreenIsTrue` | `ScreenShowsLine` |

* *Text.* The tokenizer, the grammar and the reading of the options are machines
  that take pieces, tokens or arguments one by one. `RunConcat` (`CommonLemmas`)
  says that a machine takes two texts in a row as it takes their concatenation.
  So what a session has run, followed by what is in the buffer, is read as one
  script is, as long as the buffer was cut where the tokenizer was in code
  (`ScriptInv`); `clean` says it always was.
* *Order.* Pieces carry the places they were typed at, and a statement the place
  of its first: all statements run lie before all places in the buffer
  (`OrderInv`).
* *Status.* `StatusInv` says of a script that what has run and what is still to
  run are together what its text parses to; at its end (`Told`) the status is 0
  only if all of it ran.
* *Options.* `OrderIsFree` is about two neighbouring groups of arguments that
  change places, an option staying with its value. Groups are joined value by
  value (`Joins`), and joining is symmetric but for the words: what clashes
  (`Clash`) is an error in either order.
* *History.* `HistoryInv` is the property and its beginning: adding a line and
  then cutting to the limit is the same as cutting all lines that were ever
  added (`HistoryAddIsRecent`), because a repeat is told from the last entry, which
  is never cut.
* *Line and screen.* In `EditorInv` the lines of the history fit the buffer as
  long as they come from the keyboard; lines of `fgets` may be longer, and after
  `FallBack` none is recalled. The row of the screen is the line and blanks, not
  just the line: rendering a shorter line relies on the blanks.

### Records

| Theorem | Property | Supposes |
|---|---|---|
| `TypeCorrect` | `TypeOK` | nothing |
| `RowsAlwaysComeBack` | `RowsComeBack` | `TextsReadBack` |
| `OffsetsAlwaysHold` | `OffsetsHold` | `TextsReadBack` |
| `GuessIsTrue` | `GuessIsRight` | `TextsReadBack` |
| `RefusalsHaveACause` | `RefusedForCause` | `TextsReadBack` |
| `WrittenTextsReadBack` | `TextsReadBack` | `AllWritten` |

A text file is an input: a constant pairs its bytes with the rows they stand
for. `TextsReadBack` says that the reader of lines finds those rows. For files in
the escaped format this is not supposed but proved: `AllWritten` says that the
bytes are the escaped rows, every line ended by LF or by CRLF, the last one
perhaps by nothing, and `WrittenTextsReadBack` that the reader then returns
the rows, bars, backslashes, line feeds and carriage returns in them included. The code that wrote such
files is not in the repository; the format is what `split_pipe_line` undoes.
`MCRecords` has other texts too, with a blank line, with a backslash that escapes nothing, with a
carriage return inside a line; for these `TextsReadBack` is left to TLC, within
`RowsComeBack`.

* *Places.* `Layout` says that the rows not torn lie behind one another from the
  first byte on. `Inv` adds that nothing lies behind the last of them as long as no
  write was torn, and, while the file is a text, that it is one of those given. Of an
  open table it says that every row found lies at the offset that was told, the
  strays excepted (`WhereTold`), since nothing is ever written but at the end; and that
  the rows of the file are the first that were found, unless a stray stands among
  them (`FoundFirst`).
* *Reading.* `ReadRowBack` shows that the reader, at the place of a record, returns
  its row and comes to its end, whatever lies behind it; `ScanBack` that the
  scan therefore finds all places of a layout, and no more unless something lies
  behind them.
* *The guess.* The last byte of the count of fields of a row that keeps the
  limits is zero, and no text has a zero byte: so neither kind is taken for
  the other, but for texts shorter than a word (kind "tiny").

### Recursion

Provers have no induction over data. Recursive definitions are therefore functions, not
`RECURSIVE` operators or folds, over the places of a heap, a file or a sequence.
`RecursionExists` and `RecursionEnds` yield that such a function exists and is
given by its equation; `PlaceByPlace` is induction over the places of a
sequence, for a set of places; and a definition that takes a sequence element by
element is shown to be a `Run` of a machine, so that the facts about `Run` hold
of it.

### What is only model-checked

* `StatementsEnd`: liveness under fairness, out of this prover's reach.
* `TextsReadBack` of texts that are not in the escaped format, as said above.

Where the condition of a theorem fails, its property is false or not claimed:
`RepeatedKey` shows it of keys in a table that was refused, `CutMigration` of the
refinement under crashes; with torn writes `ConfirmedInsertIsFound` is not
claimed.

## 6. Not modelled, and why

* Printing of results, error texts and hints, timing output, terminal modes:
  output only.
* `bptree.c`: not part of the build.
* Tests, benchmarks, container files: outside the program.
* Two processes on one database: `01-scope-constraints.md` leaves concurrent
  access out of scope, and the code has no lock to check.
* Schema files and paths, projection of columns, WHERE on other columns than `id`
  and `student_no`: they differ in the column only. What a text parses to
  (`strtoull` takes a minus sign, too) is given to the model.
* Tabs at the terminal, which take several cells of the screen, and the bytes of
  escape sequences.
* `common.c`: string lists and file reading appear as sequences and as failing
  allocations and reads.
