------------------------- MODULE StorageRefinement -------------------------
(***************************************************************************)
(* The storage layer implements TableSpec: an INSERT takes effect when its *)
(* record is appended, a SELECT when it is answered; everything else it    *)
(* does (switching tables, migrating, rebuilding caches) is invisible.     *)
(***************************************************************************)
EXTENDS Storage

(* The rows of a table: those of its data file or, while a migration has   *)
(* renamed that away, those of the backup.                                 *)
VisibleRows == [t \in Tables |-> IF data[t] = Absent THEN Rows(bak[t])
                                                     ELSE Rows(data[t])]

VisibleState == CASE pc = "idle" -> "idle"
                  [] pc \in {"index", "set", "answer"} -> "stored"
                  [] OTHER -> "running"

Table == INSTANCE TableSpec WITH rows <- VisibleRows, state <- VisibleState

(* Every behaviour of the storage layer is one of TableSpec: INSERT is     *)
(* atomic and refused only for the reasons stated there, ids grow, SELECT  *)
(* returns the matching rows, tables do not disturb each other.            *)
ImplementsTable == Table!Spec
=============================================================================
