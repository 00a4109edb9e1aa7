----------------------------- MODULE TableSpec -----------------------------
(***************************************************************************)
(* What the storage layer promises: tables of rows with growing ids and    *)
(* distinct student numbers, an INSERT that is one atomic step or nothing, *)
(* a SELECT that returns the matching rows.  There are no files, no caches *)
(* and no active table here.                                               *)
(***************************************************************************)
EXTENDS Sql

VARIABLES
  rows,   \* the rows of each table, in the order they were inserted
  stmt,   \* the statement being executed, or executed last
  state,  \* "idle", "running", or "stored": an INSERT not yet answered
  reply   \* the answer, once idle again

vars == <<rows, stmt, state, reply>>

(* An INSERT is accepted exactly when it is well formed and its student    *)
(* number is given and new; a SELECT when it is well formed.               *)
InsertAllowed ==
  /\ stmt.form = "ok"
  /\ stmt.table \in StudentTables =>
       /\ stmt.no # Empty
       /\ \A p \in DOMAIN rows[stmt.table] : rows[stmt.table][p].no # stmt.no

SelectAllowed ==
  /\ stmt.form = "ok"
  /\ stmt.where.on = "student_no" => stmt.table \in StudentTables

Init == /\ rows \in [Tables -> Seq(Row)]
        /\ stmt = NoStmt /\ state = "idle" /\ reply = Refused

Begin(s) == /\ state = "idle"
            /\ stmt' = s /\ state' = "running" /\ reply' = Refused
            /\ UNCHANGED rows

Finish(answer) == state' = "idle" /\ reply' = answer /\ UNCHANGED <<rows, stmt>>

StoreRow ==
  /\ state = "running" /\ stmt.op = "insert" /\ InsertAllowed
  /\ \E id \in Ids :
       /\ \A p \in DOMAIN rows[stmt.table] : rows[stmt.table][p].id < id
       /\ rows' = [rows EXCEPT ![stmt.table] =
                     Append(@, [id |-> id, no |-> stmt.no])]
  /\ state' = "stored"
  /\ UNCHANGED <<stmt, reply>>

ConfirmInsert ==
  /\ state = "stored"
  /\ LET new == rows[stmt.table][Len(rows[stmt.table])]
     IN  Finish([ok |-> TRUE, id |-> new.id, rows |-> {}])

RefuseInsert ==
  /\ state = "running" /\ stmt.op = "insert" /\ ~InsertAllowed
  /\ Finish(Refused)

AnswerSelect ==
  /\ state = "running" /\ stmt.op = "select" /\ SelectAllowed
  /\ \E answer \in Answers(rows[stmt.table], stmt.where) :
       Finish([ok |-> TRUE, id |-> NaN, rows |-> answer])

RefuseSelect ==
  /\ state = "running" /\ stmt.op = "select" /\ ~SelectAllowed
  /\ Finish(Refused)

(* The process ends; what was stored stays, answered or not.               *)
Restart == /\ stmt' = NoStmt /\ state' = "idle" /\ reply' = Refused
           /\ UNCHANGED rows

Next == \/ \E s \in Statements : Begin(s)
        \/ StoreRow \/ ConfirmInsert \/ RefuseInsert
        \/ AnswerSelect \/ RefuseSelect \/ Restart

Spec == Init /\ [][Next]_vars
=============================================================================
