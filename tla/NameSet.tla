------------------------------ MODULE NameSet ------------------------------
(***************************************************************************)
(* What the set of student numbers promises: an insertion adds the name,   *)
(* or reports a duplicate, or fails for want of memory and changes nothing.*)
(***************************************************************************)
CONSTANTS Names, AllocMayFail

VARIABLES ready, members, result

vars == <<ready, members, result>>

Init == ready = FALSE /\ members = {} /\ result = "OK"

Reset == /\ ready' \in BOOLEAN /\ members' = {}
         /\ UNCHANGED result

Add(n) == /\ ready /\ n \notin members
          /\ members' = members \cup {n} /\ result' = "OK"
          /\ UNCHANGED ready

Refuse(n) == /\ ready /\ n \in members
             /\ result' = "DUPLICATE"
             /\ UNCHANGED <<ready, members>>

Fail == /\ ~ready \/ AllocMayFail
        /\ result' = "ERROR"
        /\ UNCHANGED <<ready, members>>

Next == Reset \/ Fail \/ \E n \in Names : Add(n) \/ Refuse(n)

Spec == Init /\ [][Next]_vars
=============================================================================
