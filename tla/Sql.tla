-------------------------------- MODULE Sql --------------------------------
(***************************************************************************)
(* What the storage layer is asked and what it answers: rows, statements   *)
(* as the parser hands them over, and the comparisons of a WHERE clause.   *)
(***************************************************************************)
EXTENDS Integers, Sequences

CONSTANTS
  Tables,         \* tables that have a schema file
  IdTables,       \* those whose schema has the column "id"
  StudentTables,  \* those whose schema has the column "student_no"
  Texts,          \* values a student_no field can hold
  MaxId,          \* the largest id: the width of uint64_t, scaled down
  IdRank,         \* where the numeral of an id stands in the order of strcmp
  Statements,     \* statements the parser hands over
  NaN,            \* "this text is not a number" (parse_u64_strict fails)
  NoStmt          \* "no statement yet"

Ids == 0..MaxId

(***************************************************************************)
(* A text is known by the number it parses to, if any, and by its rank in  *)
(* the order of strcmp: "7" and "007" share a number and differ in rank.   *)
(***************************************************************************)
Text  == [num : Nat \cup {NaN}, rank : Nat]
Empty == [num |-> NaN, rank |-> 0]

Row   == [id : Ids \cup {NaN}, no : Texts]

(* A WHERE clause.  The value for id is NaN when it is no number: then it  *)
(* is the text in `no'.                                                    *)
Rels  == {"=", "<", "<=", ">", ">="}
Where == [on : {"nothing", "id", "student_no"}, rel : Rels, id : Ids \cup {NaN},
          no : Texts]

(***************************************************************************)
(* form: "count" when an INSERT names more or fewer columns than values,   *)
(* "column" when a column is unknown, or named twice by an INSERT.         *)
(***************************************************************************)
Statement == [op : {"insert", "select"}, table : Tables,
              form : {"ok", "count", "column"}, no : Texts, where : Where]

(* An INSERT is answered by the generated id, a SELECT by record numbers.  *)
Reply   == [ok : BOOLEAN, id : Ids \cup {NaN}, rows : SUBSET (Nat \ {0})]
Refused == [ok |-> FALSE, id |-> NaN, rows |-> {}]

ASSUME SqlAssumption ==
  /\ IdTables \subseteq Tables /\ StudentTables \subseteq Tables
  /\ MaxId \in Nat /\ NaN \notin Nat
  /\ IdRank \in [Ids \cup {NaN} -> Nat]
  /\ Empty \in Texts /\ Texts \subseteq Text
  /\ Statements \subseteq Statement /\ NoStmt \notin Statements

Holds(rel, a, b) == \/ rel = "="  /\ a = b
                    \/ rel = "<"  /\ a < b
                    \/ rel = "<=" /\ a <= b
                    \/ rel = ">"  /\ a > b
                    \/ rel = ">=" /\ a >= b

(* As numbers when both texts are numbers, as strings otherwise.           *)
TextHolds(rel, a, b) == IF a.num # NaN /\ b.num # NaN
                        THEN Holds(rel, a.num, b.num)
                        ELSE Holds(rel, a.rank, b.rank)

(* An id is compared as a number with a number, and as a string with what  *)
(* is none.                                                                *)
IdHolds(rel, id, w) == IF w.id # NaN THEN id # NaN /\ Holds(rel, id, w.id)
                                     ELSE Holds(rel, IdRank[id], w.no.rank)

Satisfies(row, w) == \/ w.on = "nothing"
                     \/ w.on = "id" /\ IdHolds(w.rel, row.id, w)
                     \/ w.on = "student_no" /\ TextHolds(w.rel, row.no, w.no)

Matches(s, w) == {p \in DOMAIN s : Satisfies(s[p], w)}

(* What a SELECT may return: all records that match; of several spellings  *)
(* of the student number it asks for, one may stand for all.               *)
Answers(s, w) ==
  LET matches == Matches(s, w)
      twins   == {p \in matches : \E q \in matches : s[p].no # s[q].no}
  IN  {matches} \cup IF w.on = "student_no" /\ w.rel = "="
                     THEN {{p} : p \in twins} ELSE {}
=============================================================================
