--------------------------- MODULE MCStudentNoSet ---------------------------
(***************************************************************************)
(* Student numbers whose hashes collide, wrap around the end of the table  *)
(* and part again when it is doubled.                                      *)
(***************************************************************************)
EXTENDS StudentNoSet, TLC

CONSTANTS n1, n2, n3, n4, n5, n6

MCHash == (n1 :> 1) @@ (n2 :> 3) @@ (n3 :> 7) @@ (n4 :> 7) @@ (n5 :> 15) @@ (n6 :> 0)
=============================================================================
