------------------------------ MODULE IndexMap ------------------------------
(***************************************************************************)
(* What the id index promises: a map from keys to record references.  An   *)
(* insertion takes effect at one moment between its call and its return,   *)
(* is refused exactly when the key is there, and replaces nothing; one     *)
(* that fails changes nothing.                                             *)
(***************************************************************************)
EXTENDS Integers

CONSTANTS Entries, NoArg, NoMap

VARIABLES
  map,     \* a function on the keys inserted so far, NoMap before any Clear
  state,   \* "idle", "called", or "stored": not yet returned
  arg,     \* the entry, key and reference, of the call
  result   \* of the last call: 0 inserted, 1 duplicate, -1 failed

vars == <<map, state, arg, result>>

Init == map = NoMap /\ state = "idle" /\ arg = NoArg /\ result = 0

Call(e) == /\ state = "idle" /\ map # NoMap
           /\ state' = "called" /\ arg' = e
           /\ UNCHANGED <<map, result>>

Reject == /\ state = "idle" /\ map = NoMap
          /\ result' = -1
          /\ UNCHANGED <<map, state, arg>>

Return(rc) == state' = "idle" /\ arg' = NoArg /\ result' = rc

Store == /\ state = "called" /\ arg.key \notin DOMAIN map
         /\ map' = [k \in DOMAIN map \cup {arg.key} |->
                      IF k = arg.key THEN arg.ref ELSE map[k]]
         /\ \/ Return(0)
            \/ state' = "stored" /\ UNCHANGED <<arg, result>>

Refuse == /\ state = "called" /\ arg.key \in DOMAIN map
          /\ Return(1)
          /\ UNCHANGED map

(* There is no room for the entry.                                         *)
Fail == state = "called" /\ Return(-1) /\ UNCHANGED map

Confirm == state = "stored" /\ Return(0) /\ UNCHANGED map

(* The map is emptied, or even that fails and there is none.               *)
Clear == state = "idle" /\ map' \in {<<>>, NoMap} /\ UNCHANGED <<state, arg, result>>

Next == \/ \E e \in Entries : Call(e)
        \/ Reject \/ Store \/ Refuse \/ Fail \/ Confirm \/ Clear

Spec == Init /\ [][Next]_vars
=============================================================================
