------------------------------ MODULE Records ------------------------------
(***************************************************************************)
(* The bytes of a data file (src/src/storage.c:617-1126): how a legacy     *)
(* text file is told from a binary one and turned into records, how a      *)
(* record is written, and how it is found again, by a scan from the first  *)
(* byte or at the offset the index holds.  A file and a field are          *)
(* sequences of bytes, a row is a sequence of fields.  What the index and  *)
(* the caches make of the rows is the matter of Storage.                   *)
(***************************************************************************)
EXTENDS Integers, SequencesExt

CONSTANTS
  WordSize,       \* sizeof(uint32_t), the bytes of a count or a length
  MaxFields,      \* MAX_BINARY_FIELDS
  MaxFieldBytes,  \* MAX_BINARY_FIELD_BYTES
  TextFiles,      \* legacy files: their bytes and the rows they stand for
  NewRows,        \* rows that are appended
  MaxBytes,       \* bound: nothing is appended to a longer file
  MaxTears,       \* bound: so many writes may stop half way
  MaxStray        \* bound: below so many stray rows one more may be lost

Byte == 0..255
Char == 1..255          \* of a C string
Row  == Seq(Seq(Char))

(* What is left of a number when it is divided by 256 again and again, and *)
(* the number as a uint32_t, little-endian.                                *)
Quotients(n) ==
  LET rest[i \in 0..WordSize] == IF i = 0 THEN n ELSE rest[i - 1] \div 256
  IN  rest
Word(n) == [i \in 1..WordSize |-> Quotients(n)[i - 1] % 256]

(* The greatest length fits in a word, and the greatest count leaves the   *)
(* last byte of one zero; no text holds a NUL.                             *)
ASSUME RecordsAssumption ==
  /\ WordSize \in Nat \ {0} /\ MaxFields \in Nat /\ MaxFieldBytes \in Nat
  /\ Quotients(MaxFields)[WordSize - 1] = 0 /\ Quotients(MaxFieldBytes)[WordSize] = 0
  /\ \A t \in TextFiles : t.bytes \in Seq(Char) /\ t.rows \in Seq(Row)
  /\ NewRows \subseteq Row
  /\ MaxBytes \in Nat /\ MaxTears \in Nat /\ MaxStray \in Nat

VARIABLES
  file,    \* the bytes of <table>.data
  state,   \* "closed", "open" or "refused" by activation
  found,   \* the rows seen by the scan or appended since, with their offsets
  stray,   \* those found behind a torn record, and those lost in fclose
  \* what the properties compare with
  kind,    \* "text", "binary", or "tiny": it was a text of less than a word
  rows,    \* the rows of the file, in front of the first torn one
  tears    \* how many writes stopped half way

vars == <<file, state, found, stray, kind, rows, tears>>

(***************************************************************************)
(* Text                                                                    *)
(***************************************************************************)
NUL == 0
NL  == 10
CR  == 13
Bar == 124
Backslash == 92

(* "\n", "\r", "\|" and "\\".                                              *)
Escapes == {110, 114, Bar, Backslash}
Unescaped(c) == IF c = 110 THEN NL ELSE IF c = 114 THEN CR ELSE c

Cut(r)    == [r EXCEPT !.row = Append(@, r.field), !.field = <<>>]
Add(r, c) == [r EXCEPT !.field = Append(@, c)]

SplitPlain(r, c) ==
  CASE c \in {NUL, NL}  -> [Cut(r) EXCEPT !.over = TRUE]
    [] c = CR           -> r
    [] c = Bar          -> Cut(r)
    [] c = Backslash    -> [r EXCEPT !.escape = TRUE]
    [] c \notin {NUL, NL, CR, Bar, Backslash} -> Add(r, c)

\* Mutant: a backslash that escapes nothing is dropped.
SplitDroppingBackslash(r, c) ==
  LET after == [r EXCEPT !.escape = FALSE]
  IN  IF r.over THEN r
      ELSE IF r.escape /\ c \in Escapes THEN Add(after, Unescaped(c))
      ELSE SplitPlain(after, c)

(* A backslash in front of any other byte stands for itself.               *)
SplitByte(r, c) ==
  LET after == [r EXCEPT !.escape = FALSE]
  IN  IF r.over THEN r
      ELSE IF r.escape /\ c \in Escapes THEN Add(after, Unescaped(c))
      ELSE SplitPlain(IF r.escape THEN Add(after, Backslash) ELSE r, c)

(* split_pipe_line: the line is a C string.                                *)
NoField == [row |-> <<>>, field |-> <<>>, escape |-> FALSE, over |-> FALSE]
SplitLine(line) ==
  LET text == Append(line, NUL)
      split[i \in 0..Len(text)] == IF i = 0 THEN NoField ELSE SplitByte(split[i - 1], text[i])
  IN  split[Len(text)].row

(* A line is read to its end (read_text_line) and split; a row of one      *)
(* empty field is passed over.                                             *)
NoLine == [line |-> <<>>, rows |-> <<>>]
EndLine(r) ==
  LET row == SplitLine(r.line)
  IN  [line |-> <<>>, rows |-> IF row = <<<<>>>> THEN r.rows ELSE Append(r.rows, row)]

ReadByte(r, c) ==
  LET more == [r EXCEPT !.line = Append(@, c)]
  IN  IF c = NL THEN EndLine(more) ELSE more

TextRows(bytes) ==
  LET read[i \in 0..Len(bytes)] == IF i = 0 THEN NoLine ELSE ReadByte(read[i - 1], bytes[i])
  IN  EndLine(read[Len(bytes)]).rows

(***************************************************************************)
(* Binary records                                                          *)
(***************************************************************************)
WordAt(bytes, at) ==
  LET upTo[i \in 0..WordSize] ==
        IF i = 0 THEN 0 ELSE upTo[i - 1] * 256 + bytes[at + WordSize + 1 - i]
  IN  upTo[WordSize]

HasWord(bytes, at) == at + WordSize <= Len(bytes)

Encode(row) ==
  LET upTo[i \in 0..Len(row)] == IF i = 0 THEN Word(Len(row))
                                 ELSE upTo[i - 1] \o (Word(Len(row[i])) \o row[i])
  IN  upTo[Len(row)]
EncodeAll(s) ==
  LET upTo[i \in 0..Len(s)] == IF i = 0 THEN <<>> ELSE upTo[i - 1] \o Encode(s[i])
  IN  upTo[Len(s)]

(* migrate_text_data_to_binary                                             *)
Migrated(bytes) == EncodeAll(TextRows(bytes))

(* A field is kept as a C string.                                          *)
UpToNul(s) ==
  LET nuls == {i \in DOMAIN s : s[i] = NUL}
  IN  IF nuls = {} THEN s
      ELSE SubSeq(s, 1, (CHOOSE i \in nuls : \A j \in nuls : i <= j) - 1)

\* Mutant: a field of the greatest length is refused.
TooLongFromLimit(length) == length >= MaxFieldBytes

TooLong(length)  == length > MaxFieldBytes
BadCount(number) == number \notin 1..MaxFields

(* binary_read_row_from_file.  A length behind the end of the file is not  *)
(* read, and what the variable holds is used: `zero' says that it is 0.    *)
ReadField(bytes, r, zero) ==
  LET length == WordAt(bytes, r.next)
      begin  == r.next + WordSize
  IN  IF r.result = "error" THEN r
      ELSE IF HasWord(bytes, r.next) /\ ~TooLong(length) /\ begin + length <= Len(bytes)
        THEN [r EXCEPT !.row = Append(@, UpToNul(SubSeq(bytes, begin + 1, begin + length))),
                       !.next = begin + length]
      ELSE IF ~HasWord(bytes, r.next) /\ zero
        THEN [r EXCEPT !.row = Append(@, <<>>), !.next = Len(bytes)]
      ELSE [r EXCEPT !.result = "error"]

Outcome(what, at) == [result |-> what, row |-> <<>>, next |-> at + WordSize]

ReadRow(bytes, at, zero) ==
  LET count == WordAt(bytes, at)
      fields[i \in 0..count] == IF i = 0 THEN Outcome("row", at)
                                ELSE ReadField(bytes, fields[i - 1], zero)
  IN  IF ~HasWord(bytes, at) THEN Outcome("eof", at)
      ELSE IF BadCount(count) THEN Outcome("error", at)
      ELSE fields[count]

(* binary_reader_scan_all                                                  *)
Scan(bytes, zero) ==
  LET from[at \in 0..Len(bytes)] ==
        LET r == ReadRow(bytes, at, zero)
        IN  IF r.result = "row"
            THEN [from[r.next] EXCEPT !.rows = <<[at |-> at, row |-> r.row]>> \o @]
            ELSE [ok |-> r.result = "eof", rows |-> <<>>]
  IN  from[0]

\* Mutant: a file that can be opened is binary.
LooksBinaryAlways(bytes, small) == TRUE

(* file_looks_binary: the first record is skipped over, the end of the     *)
(* file not noticed; `small' says that a length that was not read passes.  *)
SkipField(bytes, r, small) ==
  LET length == WordAt(bytes, r.next)
  IN  IF HasWord(bytes, r.next)
      THEN [ok |-> r.ok /\ ~TooLong(length), next |-> r.next + WordSize + length]
      ELSE [ok |-> r.ok /\ small, next |-> r.next]

LooksBinary(bytes, small) ==
  LET count == WordAt(bytes, 0)
      skip[i \in 0..count] == IF i = 0 THEN [ok |-> TRUE, next |-> WordSize]
                              ELSE SkipField(bytes, skip[i - 1], small)
  IN  HasWord(bytes, 0) => ~BadCount(count) /\ skip[count].ok

(***************************************************************************)
(* The file while the program runs, ends and is started again              *)
(***************************************************************************)
Init == /\ state = "closed" /\ found = <<>> /\ stray = {} /\ tears = 0
        /\ \/ file = <<>> /\ rows = <<>> /\ kind = "binary"
           \/ \E t \in TextFiles :
                /\ file = t.bytes /\ rows = t.rows
                /\ kind = IF Len(t.bytes) < WordSize THEN "tiny" ELSE "text"

Open(bytes, zero) ==
  LET scan == Scan(bytes, zero)
  IN  /\ file' = bytes
      /\ state' = IF scan.ok THEN "open" ELSE "refused"
      /\ found' = scan.rows
      /\ stray' = {i \in DOMAIN scan.rows : i > Len(rows)}

Activate(zero, small) ==
  /\ state = "closed"
  /\ \/ LooksBinary(file, small) /\ Open(file, zero) /\ UNCHANGED kind
     \/ /\ ~LooksBinary(file, small)
        /\ Open(Migrated(file), zero)
        /\ kind' = IF kind = "text" THEN "binary" ELSE kind
  /\ UNCHANGED <<rows, tears>>

\* Mutant: the offset is taken after the record was written.
OffsetAfter(row) == Len(file \o Encode(row))

OffsetBefore(row) == Len(file)

(* binary_writer_append_row.  The lengths are not compared with the limits *)
(* the reader knows.  A refused table can be written to, too: the next     *)
(* statement takes activation's fast path.                                 *)
AppendRow(row) ==
  /\ state # "closed" /\ Len(file) <= MaxBytes
  /\ file' = file \o Encode(row)
  /\ found' = Append(found, [at |-> OffsetBefore(row), row |-> row])
  /\ rows' = IF tears > 0 THEN rows ELSE Append(rows, row)
  /\ UNCHANGED <<state, stray, kind, tears>>

(* The write stops before it is complete.  When that only shows in fclose, *)
(* whose result is ignored, the index is given the offset all the same.    *)
AppendTorn(row) ==
  /\ tears < MaxTears
  /\ state # "closed" /\ Len(file) <= MaxBytes
  /\ \E n \in 0..Len(Encode(row)) - 1 :
       /\ file' = file \o SubSeq(Encode(row), 1, n)
       /\ tears' = IF n = 0 THEN tears ELSE tears + 1
  /\ \/ UNCHANGED <<found, stray>>      \* reported by fwrite
     \/ /\ Cardinality(stray) < MaxStray
        /\ found' = Append(found, [at |-> OffsetBefore(row), row |-> row])
        /\ stray' = stray \cup {Len(found) + 1}
  /\ UNCHANGED <<state, kind, rows>>

Restart == /\ state # "closed"
           /\ state' = "closed" /\ found' = <<>> /\ stray' = {}
           /\ UNCHANGED <<file, kind, rows, tears>>

Next == \/ \E zero, small \in BOOLEAN : Activate(zero, small)
        \/ \E row \in NewRows : AppendRow(row) \/ AppendTorn(row)
        \/ Restart

Spec == Init /\ [][Next]_vars

(***************************************************************************)
(* Properties                                                              *)
(***************************************************************************)
(* Every variable has its type; every row found begins within the file, or *)
(* at its end when it was lost.                                            *)
TypeOK ==
  /\ file \in Seq(Byte) /\ rows \in Seq(Row) /\ tears \in 0..MaxTears
  /\ state \in {"closed", "open", "refused"} /\ kind \in {"text", "tiny", "binary"}
  /\ stray \subseteq DOMAIN found
  /\ \A i \in DOMAIN found :
       /\ found[i].at \in 0..(Len(file) - IF i \in stray THEN 0 ELSE WordSize)
       /\ found[i].row \in Row

Readable(row) == Len(row) \in 1..MaxFields /\ \A i \in DOMAIN row : Len(row[i]) <= MaxFieldBytes
AllReadable   == \A i \in DOMAIN rows : Readable(rows[i])
FoundRows     == [i \in DOMAIN found |-> found[i].row]

(* Whatever a table held is there again when it has been opened, migrated  *)
(* from text, appended to and reopened, in the same order; when writes     *)
(* were torn, at least the rows in front of the first torn one             *)
(* (01-scope-constraints.md:49).  An append lost in fclose with others     *)
(* behind it leaves a hole until the table is reopened.  A text of less    *)
(* than a word is taken for an empty table and excepted, as are rows the   *)
(* reader's limits forbid.                                                 *)
RowsComeBack ==
  /\ state = "open" /\ kind # "tiny" /\ AllReadable
  /\ \A i \in stray : i > Len(rows)
  => IsPrefix(rows, FoundRows) /\ (tears = 0 /\ stray = {} => FoundRows = rows)

(* At the offset the index was given for it, every row the scan accounts   *)
(* for and every row written whole since, behind torn or lost ones too, is *)
(* read back for as long as the table is active, whatever is written       *)
(* behind it.  No such promise is made of the rows lost in fclose.         *)
OffsetsHold ==
  state # "closed" /\ kind # "tiny" /\ AllReadable =>
    \A i \in DOMAIN found \ stray, zero \in BOOLEAN :
      Readable(found[i].row) =>
        LET r == ReadRow(file, found[i].at, zero)
        IN  r.result = "row" /\ r.row = found[i].row

(* file_looks_binary is right about every text of at least a word, and     *)
(* about every file the program wrote, unless its first record is torn or  *)
(* beyond the limits: then what an unread variable holds may decide.       *)
GuessIsRight ==
  \A small \in BOOLEAN :
    /\ kind = "text" => ~LooksBinary(file, small)
    /\ kind = "binary" /\ (rows # <<>> \/ tears = 0) /\ AllReadable => LooksBinary(file, small)

(* A table is refused for a cause only: a torn write, or a row that was    *)
(* written although the reader's limits forbid it.                         *)
RefusedForCause == state = "refused" => tears > 0 \/ ~AllReadable \/ kind = "tiny"
=============================================================================
