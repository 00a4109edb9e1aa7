---------------------------- MODULE StudentNoSet ----------------------------
(***************************************************************************)
(* The set of student numbers (src/src/storage.c:44-171): a hash table     *)
(* with linear probing that is doubled before it is 70 per cent full.      *)
(* Doubling moves the entries one by one into a new array; a step is one   *)
(* round of that loop, or one of the probing loops at its end.             *)
(***************************************************************************)
EXTENDS Integers, FiniteSets

CONSTANTS
  Names,            \* student numbers
  Hash,             \* hash_student_no, any function of the name
  InitialCapacity,  \* 1024 in the code, a power of two
  AllocMayFail,     \* whether calloc or strdup may return null
  Nil               \* the null pointer: an empty slot, an unallocated array

ASSUME SetAssumption ==
  /\ Hash \in [Names -> Nat]
  /\ InitialCapacity \in Nat /\ InitialCapacity >= 2
  /\ AllocMayFail \in BOOLEAN
  /\ Nil \notin Names

VARIABLES
  capacity, count,
  slots,           \* g_student_no_set.slots, or Nil
  pc, name,        \* student_no_set_insert: "idle", "rehash", "probe"
  next, newSlots,  \* the loop of student_no_set_rehash
  result           \* of the last insertion

vars == <<capacity, count, slots, pc, name, next, newSlots, result>>

\* Mutant: an off-by-one in the size of the array.
EmptyWithOneMore(n) == [p \in 0..n |-> Nil]

Empty(n) == [p \in 0..n - 1 |-> Nil]

(* The slot at which probing for a name ends: the first from its hash on   *)
(* that is empty or holds it.                                              *)
Steps(table, n, size) ==
  {d \in 0..size - 1 : table[(Hash[n] + d) % size] \in {Nil, n}}
Probe(table, n, size) ==
  LET d == CHOOSE d \in Steps(table, n, size) :
             \A e \in Steps(table, n, size) : d <= e
  IN (Hash[n] + d) % size

Contains(n) == slots # Nil /\ slots[Probe(slots, n, capacity)] = n

Return(rc) == /\ pc' = "idle" /\ result' = rc
              /\ name' = Nil /\ next' = 0 /\ newSlots' = Nil

Init == /\ capacity = 0 /\ count = 0 /\ slots = Nil
        /\ pc = "idle" /\ name = Nil /\ next = 0 /\ newSlots = Nil
        /\ result = "OK"

(* student_no_set_free, and student_no_set_init, which begins with it.     *)
Discard == capacity' = 0 /\ slots' = Nil
SetFree == /\ pc = "idle"
           /\ Discard /\ count' = 0
           /\ UNCHANGED <<pc, name, next, newSlots, result>>
SetInit == /\ pc = "idle"
           /\ \/ capacity' = InitialCapacity /\ slots' = Empty(InitialCapacity)
              \/ AllocMayFail /\ Discard
           /\ count' = 0
           /\ UNCHANGED <<pc, name, next, newSlots, result>>

\* Mutants: the name to be added is not counted; grown only when full.
MustGrowLater == count * 10 >= capacity * 7
MustGrowFull  == count >= capacity

MustGrow == (count + 1) * 10 >= capacity * 7

(* Growing comes before the search for a duplicate.                        *)
Insert(n) ==
  /\ pc = "idle"
  /\ \/ /\ slots = Nil \/ (MustGrow /\ AllocMayFail)
        /\ Return("ERROR")
     \/ /\ slots # Nil /\ MustGrow
        /\ pc' = "rehash" /\ name' = n /\ newSlots' = Empty(2 * capacity)
        /\ UNCHANGED <<next, result>>
     \/ /\ slots # Nil /\ ~MustGrow
        /\ pc' = "probe" /\ name' = n
        /\ UNCHANGED <<next, newSlots, result>>
  /\ UNCHANGED <<capacity, count, slots>>

\* Mutants: the mask of the old array; no probing.
OldSlot(n)  == Probe(newSlots, n, capacity)
HomeSlot(n) == Hash[n] % (2 * capacity)

NewSlot(n) == Probe(newSlots, n, 2 * capacity)

(* One entry of the old array into the first empty slot of the new one.    *)
MoveEntry ==
  /\ pc = "rehash" /\ next < capacity
  /\ newSlots' = IF slots[next] = Nil THEN newSlots
                 ELSE [newSlots EXCEPT ![NewSlot(slots[next])] = slots[next]]
  /\ next' = next + 1
  /\ UNCHANGED <<capacity, count, slots, pc, name, result>>

EndRehash ==
  /\ pc = "rehash" /\ next = capacity
  /\ slots' = newSlots /\ capacity' = 2 * capacity
  /\ pc' = "probe" /\ next' = 0 /\ newSlots' = Nil
  /\ UNCHANGED <<count, name, result>>

Put ==
  /\ pc = "probe"
  /\ LET p == Probe(slots, name, capacity)
     IN \/ /\ slots[p] = name
           /\ Return("DUPLICATE")
           /\ UNCHANGED <<slots, count>>
        \/ /\ slots[p] = Nil
           /\ slots' = [slots EXCEPT ![p] = name] /\ count' = count + 1
           /\ Return("OK")
        \/ /\ slots[p] = Nil /\ AllocMayFail
           /\ Return("ERROR")
           /\ UNCHANGED <<slots, count>>
  /\ UNCHANGED capacity

Next == SetFree \/ SetInit \/ (\E n \in Names : Insert(n))
        \/ MoveEntry \/ EndRehash \/ Put

Spec == Init /\ [][Next]_vars

(***************************************************************************)
(* Properties                                                              *)
(***************************************************************************)
Table(size) == [0..size - 1 -> Names \cup {Nil}]

(* The arrays have their capacities; only their owner step uses newSlots.  *)
TypeOK ==
  /\ capacity \in Nat /\ count \in Nat
  /\ slots \in Table(capacity) \cup {Nil}
  /\ slots # Nil => capacity >= InitialCapacity
  /\ pc \in {"idle", "rehash", "probe"}
  /\ pc # "idle" => slots # Nil /\ name \in Names
  /\ pc = "rehash" => newSlots \in Table(2 * capacity) /\ next \in 0..capacity
  /\ result \in {"OK", "DUPLICATE", "ERROR"}

Members == IF slots = Nil THEN {} ELSE {slots[p] : p \in 0..capacity - 1} \ {Nil}

(* Probing finds a name exactly when some slot holds it, in the middle of  *)
(* an insertion too: no entry lies behind a gap in its probe sequence.     *)
ContainsIsMembership == \A n \in Names : Contains(n) <=> n \in Members

(* Every name is in one slot, and count is the number of names: the load   *)
(* the table is grown by is its real load.                                 *)
CountIsExact ==
  slots # Nil => Cardinality({p \in 0..capacity - 1 : slots[p] # Nil}) = count
                 /\ Cardinality(Members) = count

(* The probing loops, which have no other exit, always find a free slot.   *)
LoadIsLow == slots # Nil => count * 10 < capacity * 7
HasGap(table, size) == \E p \in 0..size - 1 : table[p] = Nil
ProbingEnds == /\ slots # Nil => HasGap(slots, capacity)
               /\ pc = "rehash" => HasGap(newSlots, 2 * capacity)

(* The hash table is a set: doubling it loses and duplicates nothing.      *)
Set == INSTANCE NameSet WITH ready <- slots # Nil, members <- Members
ImplementsSet == Set!Spec
=============================================================================
