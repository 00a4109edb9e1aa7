----------------------------- MODULE MCStorage -----------------------------
(***************************************************************************)
(* Small instances of the storage layer for TLC: two tables, `students'    *)
(* with a student_no column and `courses' without, files of up to three    *)
(* rows, and a choice of statements that takes every path of the code.     *)
(***************************************************************************)
EXTENDS StorageRefinement

CONSTANTS students, courses

(* In the order of strcmp: "", "0", "007", "1", "1x", "2", ..., "7", "8", "x".*)
MCIdRank == [i \in Ids \cup {NaN} |-> IF i = NaN THEN 19 ELSE 2 * i + 1]

(* Student numbers: two numerals, one of them in two spellings, and words. *)
N007 == [num |-> 7, rank |-> 2]
N1X  == [num |-> NaN, rank |-> 4]
N7   == [num |-> 7, rank |-> 15]
N8   == [num |-> 8, rank |-> 17]
NX   == [num |-> NaN, rank |-> 19]
MCTexts == {Empty, N007, N1X, N7, N8, NX}

R(i, n)    == [id |-> i, no |-> n]
TextFile(s) == [text |-> s, bin |-> <<>>]
BinFile(s)  == [text |-> <<>>, bin |-> s]

(* Statements.                                                             *)
All        == [on |-> "nothing", rel |-> "=", id |-> 0, no |-> Empty]
Id(rel, i) == [on |-> "id", rel |-> rel, id |-> i, no |-> Empty]
IdText(rel, n) == [on |-> "id", rel |-> rel, id |-> NaN, no |-> n]
No(rel, n) == [on |-> "student_no", rel |-> rel, id |-> 0, no |-> n]

InsertOf(t, n) == [op |-> "insert", table |-> t, form |-> "ok", no |-> n, where |-> All]
SelectOf(t, w) == [op |-> "select", table |-> t, form |-> "ok", no |-> Empty, where |-> w]

MCStatements ==
  {InsertOf(students, n) : n \in {Empty, N007, N7, N8, NX}}
  \cup {InsertOf(courses, Empty)}
  \cup {[InsertOf(students, N7) EXCEPT !.form = f] : f \in {"count", "column"}}
  \cup {SelectOf(students, w) :
          w \in {All, Id("=", 1), Id("<", 2), Id("<=", 2), Id(">", 1), Id(">=", 2),
                 IdText("=", NX), IdText("<", NX), IdText(">", N1X),
                 No("=", N7), No(">", N7), No(">=", NX)}}
  \cup {SelectOf(courses, w) : w \in {All, Id("=", 2), No("=", N7)}}
  \cup {[SelectOf(students, All) EXCEPT !.form = "column"]}

(* Files in which every id is a number and no key repeats.                 *)
MCValidFiles ==
  [t \in Tables |->
     IF t = students
     THEN {Absent, EmptyFile, TextFile(<<R(1, N7), R(2, NX)>>),
           TextFile(<<R(2, N8)>>), BinFile(<<R(2, N8), R(1, NX)>>)}
     ELSE {Absent, TextFile(<<R(1, Empty)>>), BinFile(<<R(2, Empty)>>)}]

(* Files as somebody may have left them: an id that is no number, an empty *)
(* student number, repeated keys, the largest id.                          *)
MCAnyFiles ==
  [t \in Tables |->
     IF t = students
     THEN {TextFile(<<R(1, N7), R(NaN, N8)>>), TextFile(<<R(1, N7), R(1, N8)>>),
           TextFile(<<R(MaxId, N7)>>), BinFile(<<R(1, N7), R(2, Empty)>>), Absent}
     ELSE {BinFile(<<R(2, Empty)>>)}]

(* For the run in which a failed read is taken for an answer as well.      *)
MCMisreadFiles ==
  [t \in Tables |->
     IF t = students
     THEN {TextFile(<<R(1, N7), R(NaN, N7)>>), BinFile(<<R(1, N7), R(0, Empty)>>),
           BinFile(<<R(MaxId, N7)>>)}
     ELSE {Absent}]

(* One file that activation refuses at its second row, its keys distinct.  *)
MCBadRowFiles ==
  [t \in Tables |->
     IF t = students THEN {BinFile(<<R(1, N7), R(2, Empty), R(3, N8)>>)}
                     ELSE {BinFile(<<R(1, Empty)>>)}]

(* For the run in which writes are torn as well.                           *)
MCTornFiles ==
  [t \in Tables |-> IF t = students
                    THEN {TextFile(<<R(1, N7)>>), BinFile(<<R(1, N7)>>)}
                    ELSE {Absent}]

(* Statements for the runs with faults, where every step may go wrong.     *)
MCFewTexts == {Empty, N7, N8}
MCTwoTexts == {Empty, N7}
MCFewStatements ==
  {InsertOf(students, n) : n \in Texts \ {Empty}}
  \cup {[InsertOf(students, N7) EXCEPT !.form = "count"],
        SelectOf(students, Id("=", 1)), SelectOf(students, No("=", N7)),
        [SelectOf(courses, All) EXCEPT !.form = "column"]}
=============================================================================
