------------------------- MODULE StudentNoSetProofs -------------------------
(***************************************************************************)
(* Theorems of the set of student numbers, for all names, hash functions   *)
(* and initial capacities.                                                 *)
(***************************************************************************)
EXTENDS StudentNoSet, CommonLemmas, FiniteSetTheorems, TLAPS

(***************************************************************************)
(* The load is low when nothing is being inserted, and low enough for one  *)
(* more name once the growing is done: before the search for a slot.       *)
(***************************************************************************)
LoadInv ==
  /\ capacity \in Nat /\ count \in Nat
  /\ slots # Nil \/ pc # "idle" => capacity >= 2 /\ count * 10 < capacity * 7
  /\ pc = "probe" => (count + 1) * 10 < capacity * 7

LEMMA LoadInit == Init => LoadInv
  BY DEF Init, LoadInv

LEMMA LoadStep == LoadInv /\ [Next]_vars => LoadInv'
<1> SUFFICES ASSUME LoadInv, [Next]_vars PROVE LoadInv'
  OBVIOUS
<1> USE DEF LoadInv
<1>1. CASE UNCHANGED vars
  BY <1>1 DEF vars
<1>2. CASE SetFree
  BY <1>2 DEF SetFree, Discard
<1>3. CASE SetInit
  BY <1>3, SetAssumption DEF SetInit, Discard
<1>4. ASSUME NEW n \in Names, Insert(n) PROVE LoadInv'
  BY <1>4 DEF Insert, Return, MustGrow
<1>5. CASE MoveEntry
  BY <1>5 DEF MoveEntry
<1>6. CASE EndRehash
  <2>1. capacity >= 2 /\ count * 10 < capacity * 7
    BY <1>6 DEF EndRehash
  <2>2. (count + 1) * 10 < (2 * capacity) * 7 /\ count * 10 < (2 * capacity) * 7
    BY <2>1
  <2>3. QED
    BY <1>6, <2>1, <2>2 DEF EndRehash
<1>7. CASE Put
  BY <1>7 DEF Put, Return
<1>8. QED
  BY <1>1, <1>2, <1>3, <1>4, <1>5, <1>6, <1>7 DEF Next

(* The table is less than 70 per cent full after every step, so that the   *)
(* probing loops of storage.c:131 and :157 meet an empty slot.             *)
THEOREM LoadStaysLow == Spec => []LoadIsLow
<1>1. Init => LoadInv
  BY LoadInit
<1>2. LoadInv /\ [Next]_vars => LoadInv'
  BY LoadStep
<1>3. LoadInv => LoadIsLow
  BY DEF LoadInv, LoadIsLow
<1>4. QED
  BY <1>1, <1>2, <1>3, PTL DEF Spec

(***************************************************************************)
(* One table.  It is sound when every name is reached from its hash over   *)
(* occupied slots only, and stands in one slot.                            *)
(***************************************************************************)
Occupied(table, size) == {p \in 0..size - 1 : table[p] # Nil}
NamesIn(table, size)  == {table[p] : p \in 0..size - 1} \ {Nil}

Place(n, d, size) == (Hash[n] + d) % size

ReachedAt(table, p, size) ==
  \E d \in 0..size - 1 :
    /\ Place(table[p], d, size) = p
    /\ \A e \in 0..d - 1 : table[Place(table[p], e, size)] # Nil

Sound(table, size) ==
  /\ table \in Table(size)
  /\ \A p \in Occupied(table, size) : ReachedAt(table, p, size)
  /\ \A p, q \in Occupied(table, size) : table[p] = table[q] => p = q

Counted(table, size, n) ==
  /\ IsFiniteSet(NamesIn(table, size))
  /\ Cardinality(NamesIn(table, size)) = n
  /\ Cardinality(Occupied(table, size)) = n

LEMMA PlaceInTable ==
  ASSUME NEW n \in Names, NEW d \in Nat, NEW size \in Nat \ {0}
  PROVE  Place(n, d, size) \in 0..size - 1
<1>1. Hash[n] + d \in Nat
  BY SetAssumption
<1>2. QED
  BY <1>1, ModInRange DEF Place

(* Probing for a name ends at the first slot that is empty or holds it.    *)
LEMMA ProbeEnds ==
  ASSUME NEW size \in Nat \ {0}, NEW table, HasGap(table, size), NEW n \in Names
  PROVE  \E d \in 0..size - 1 :
           /\ Probe(table, n, size) = Place(n, d, size)
           /\ table[Place(n, d, size)] \in {Nil, n}
           /\ \A e \in 0..d - 1 : table[Place(n, e, size)] \notin {Nil, n}
<1> DEFINE S == Steps(table, n, size)
           First(d) == d \in S /\ \A e \in S : d <= e
           d == CHOOSE d \in S : \A e \in S : d <= e
<1>1. S \subseteq 0..size - 1
  BY DEF Steps
<1>2. S # {}
  <2>1. PICK p \in 0..size - 1 : table[p] = Nil
    BY DEF HasGap
  <2>2. PICK e \in 0..size - 1 : (Hash[n] + e) % size = p
    BY ZenonT(30), SetAssumption, EveryPlaceIsReached
  <2>3. e \in S
    BY <2>1, <2>2 DEF Steps
  <2>4. QED
    BY <2>3
<1>3. S \in SUBSET Nat
  BY <1>1
<1>4. \E m \in S : \A e \in S : m <= e
  BY <1>2, <1>3, LeastNumber
<1>5. d \in S /\ \A e \in S : d <= e
  BY <1>4
<1>6. Probe(table, n, size) = Place(n, d, size)
  BY DEF Probe, Place
<1> HIDE DEF d
<1>7. d \in 0..size - 1 /\ table[Place(n, d, size)] \in {Nil, n}
  BY <1>5 DEF Steps, Place
<1>8. ASSUME NEW e \in 0..d - 1, table[Place(n, e, size)] \in {Nil, n} PROVE FALSE
  <2>1. e \in 0..size - 1
    BY <1>7
  <2>2. e \in S
    BY <1>8, <2>1 DEF Steps, Place
  <2>3. d <= e
    BY <1>5, <2>2
  <2>4. QED
    BY <1>7, <2>3
<1>9. QED
  BY <1>6, <1>7, <1>8

(* It ends at the name exactly when the table holds it.                    *)
LEMMA ProbeFinds ==
  ASSUME NEW size \in Nat \ {0}, NEW table, Sound(table, size),
         HasGap(table, size), NEW n \in Names
  PROVE  /\ Probe(table, n, size) \in 0..size - 1
         /\ table[Probe(table, n, size)] \in {Nil, n}
         /\ table[Probe(table, n, size)] = n <=> n \in NamesIn(table, size)
<1>1. PICK d \in 0..size - 1 :
        /\ Probe(table, n, size) = Place(n, d, size)
        /\ table[Place(n, d, size)] \in {Nil, n}
        /\ \A e \in 0..d - 1 : table[Place(n, e, size)] \notin {Nil, n}
  BY ProbeEnds
<1>2. Place(n, d, size) \in 0..size - 1
  BY PlaceInTable
<1>3. ASSUME n \in NamesIn(table, size) PROVE table[Place(n, d, size)] = n
  <2>1. PICK p \in 0..size - 1 : table[p] = n
    BY <1>3 DEF NamesIn
  <2>2. p \in Occupied(table, size)
    BY <2>1, SetAssumption DEF Occupied
  <2>3. PICK c \in 0..size - 1 :
          /\ Place(n, c, size) = p
          /\ \A e \in 0..c - 1 : table[Place(n, e, size)] # Nil
    BY <2>1, <2>2 DEF Sound, ReachedAt
  <2>4. ~(c < d)
    BY <1>1, <2>1, <2>3
  <2>5. CASE c = d
    BY <2>1, <2>3, <2>5
  <2>6. CASE d < c
    <3>1. d \in 0..c - 1
      BY <2>6
    <3>2. QED
      BY <1>1, <2>3, <3>1
  <2>7. QED
    BY <2>4, <2>5, <2>6
<1>4. ASSUME table[Place(n, d, size)] = n PROVE n \in NamesIn(table, size)
  BY <1>2, <1>4, SetAssumption DEF NamesIn
<1>5. QED
  BY <1>1, <1>2, <1>3, <1>4

LEMMA EmptyIsSound ==
  ASSUME NEW size \in Nat \ {0}
  PROVE  /\ Sound(Empty(size), size)
         /\ NamesIn(Empty(size), size) = {}
         /\ Counted(Empty(size), size, 0)
         /\ HasGap(Empty(size), size)
<1>1. Occupied(Empty(size), size) = {}
  BY DEF Empty, Occupied
<1>2. NamesIn(Empty(size), size) = {}
  BY DEF Empty, NamesIn
<1>3. Empty(size) \in Table(size)
  BY DEF Empty, Table
<1>4. Sound(Empty(size), size)
  BY <1>1, <1>3 DEF Sound
<1>5. Counted(Empty(size), size, 0)
  BY <1>1, <1>2, FS_EmptySet DEF Counted
<1>6. 0 \in 0..size - 1 /\ Empty(size)[0] = Nil
  BY DEF Empty
<1>7. QED
  BY <1>2, <1>4, <1>5, <1>6 DEF HasGap

(* A new name goes into the empty slot at which probing for it ends.       *)
LEMMA PutIsSound ==
  ASSUME NEW size \in Nat \ {0}, NEW table, Sound(table, size),
         NEW count0 \in Nat, Counted(table, size, count0),
         HasGap(table, size), NEW n \in Names, n \notin NamesIn(table, size),
         NEW filled, filled = [table EXCEPT ![Probe(table, n, size)] = n]
  PROVE  /\ Sound(filled, size)
         /\ NamesIn(filled, size) = NamesIn(table, size) \cup {n}
         /\ Counted(filled, size, count0 + 1)
<1> DEFINE p == Probe(table, n, size)
<1>1. PICK d \in 0..size - 1 :
        /\ p = Place(n, d, size)
        /\ \A e \in 0..d - 1 : table[Place(n, e, size)] \notin {Nil, n}
  BY ProbeEnds
<1>2. p \in 0..size - 1 /\ table[p] = Nil
  BY ProbeFinds
<1> HIDE DEF p
<1>3. table \in Table(size) /\ filled \in Table(size)
  BY <1>2 DEF Sound, Table, p
<1>4. filled[p] = n /\ \A q \in 0..size - 1 : q # p => filled[q] = table[q]
  BY <1>2, <1>3 DEF Table, p
<1>5. n # Nil
  BY SetAssumption
<1>6. Occupied(filled, size) = Occupied(table, size) \cup {p}
  BY <1>2, <1>4, <1>5 DEF Occupied
<1>7. NamesIn(filled, size) = NamesIn(table, size) \cup {n}
  BY <1>2, <1>4, <1>5 DEF NamesIn
<1>8. ASSUME NEW q \in 0..size - 1, table[q] # Nil PROVE filled[q] # Nil
  BY <1>4, <1>5, <1>8
<1>9. ASSUME NEW q \in Occupied(filled, size) PROVE ReachedAt(filled, q, size)
  <2>1. CASE q = p
    <3>1. \A e \in 0..d - 1 : Place(n, e, size) \in 0..size - 1
      BY PlaceInTable
    <3>2. \A e \in 0..d - 1 : filled[Place(n, e, size)] # Nil
      BY <1>1, <1>8, <3>1
    <3>3. QED
      BY <1>1, <1>4, <2>1, <3>2 DEF ReachedAt
  <2>2. CASE q # p
    <3>1. q \in Occupied(table, size) /\ filled[q] = table[q]
      BY <1>4, <1>6, <2>2 DEF Occupied
    <3>2. table[q] \in Names
      BY <1>3, <3>1 DEF Occupied, Table
    <3>3. PICK c \in 0..size - 1 :
            /\ Place(table[q], c, size) = q
            /\ \A e \in 0..c - 1 : table[Place(table[q], e, size)] # Nil
      BY <3>1 DEF Sound, ReachedAt
    <3>4. \A e \in 0..c - 1 : Place(table[q], e, size) \in 0..size - 1
      BY <3>2, PlaceInTable
    <3>5. \A e \in 0..c - 1 : filled[Place(filled[q], e, size)] # Nil
      BY <1>8, <3>1, <3>3, <3>4
    <3>6. QED
      BY <3>1, <3>3, <3>5 DEF ReachedAt
  <2>3. QED
    BY <2>1, <2>2
<1>10. ASSUME NEW q \in Occupied(filled, size), NEW r \in Occupied(filled, size),
              filled[q] = filled[r]
       PROVE  q = r
  <2>1. \A s \in Occupied(table, size) : table[s] # n
    BY <1>5 DEF Occupied, NamesIn
  <2>2. \A s \in Occupied(filled, size) :
          s = p \/ (s \in Occupied(table, size) /\ filled[s] = table[s])
    BY <1>4, <1>6 DEF Occupied
  <2>3. QED
    BY ZenonT(30), <1>4, <1>10, <2>1, <2>2 DEF Sound
<1>11. Counted(filled, size, count0 + 1)
  <2>1. p \notin Occupied(table, size)
    BY <1>2 DEF Occupied
  <2>2. IsFiniteSet(Occupied(table, size))
    <3>1. IsFiniteSet(0..size - 1)
      BY FS_Interval
    <3>2. QED
      BY <3>1, FS_Subset DEF Occupied
  <2>3. Cardinality(Occupied(filled, size)) = count0 + 1
    BY ZenonT(30), <1>6, <2>1, <2>2, FS_AddElement DEF Counted
  <2>4. IsFiniteSet(NamesIn(filled, size))
        /\ Cardinality(NamesIn(filled, size)) = count0 + 1
    <3>1. IsFiniteSet(NamesIn(table, size))
          /\ Cardinality(NamesIn(table, size)) = count0
      BY DEF Counted
    <3> DEFINE N == NamesIn(table, size)
    <3>2. n \notin N /\ IsFiniteSet(N) /\ Cardinality(N) = count0
      BY <3>1
    <3> HIDE DEF N
    <3>3. IsFiniteSet(N \cup {n}) /\ Cardinality(N \cup {n}) = count0 + 1
      BY <3>2, FS_AddElement
    <3>4. QED
      BY <1>7, <3>3 DEF N
  <2>5. QED
    BY <2>3, <2>4 DEF Counted
<1>12. QED
  BY <1>3, <1>7, <1>9, <1>10, <1>11 DEF Sound

(* A table with fewer names than slots has an empty slot.                  *)
LEMMA CountLeavesGap ==
  ASSUME NEW size \in Nat \ {0}, NEW table, NEW n \in Nat,
         Counted(table, size, n), n < size
  PROVE  HasGap(table, size)
<1>1. SUFFICES ASSUME ~HasGap(table, size) PROVE FALSE
  OBVIOUS
<1>2. Occupied(table, size) = 0..size - 1
  BY <1>1 DEF HasGap, Occupied
<1>3. Cardinality(0..size - 1) = size
  BY FS_Interval
<1>4. QED
  BY <1>2, <1>3 DEF Counted

(***************************************************************************)
(* The table in use is sound and counted; the one being filled is sound    *)
(* and holds the names that were moved so far.                             *)
(***************************************************************************)
(* The null pointer is none of the arrays.                                 *)
NilIsNoTable == \A size \in Nat : Nil \notin Table(size)

Moved == {slots[p] : p \in 0..next - 1} \ {Nil}

SetInv ==
  /\ TypeOK /\ LoadInv
  /\ pc # "rehash" => next = 0
  /\ slots # Nil => Sound(slots, capacity) /\ Counted(slots, capacity, count)
  /\ pc = "rehash" =>
       /\ Sound(newSlots, 2 * capacity)
       /\ NamesIn(newSlots, 2 * capacity) = Moved
       /\ Counted(newSlots, 2 * capacity, Cardinality(Moved))

LEMMA SetInvInit == Init => SetInv
  BY LoadInit DEF Init, SetInv, TypeOK

LEMMA RehashHasRoom ==
  ASSUME SetInv, pc = "rehash"
  PROVE  /\ 2 * capacity \in Nat \ {0}
         /\ Cardinality(Moved) \in Nat /\ Cardinality(Moved) <= count
         /\ HasGap(newSlots, 2 * capacity)
<1>1. slots # Nil /\ next \in 0..capacity /\ capacity \in Nat /\ count \in Nat
      /\ capacity >= 2 /\ count * 10 < capacity * 7
  BY DEF SetInv, TypeOK, LoadInv
<1>2. Moved \subseteq NamesIn(slots, capacity)
  BY <1>1 DEF Moved, NamesIn
<1>3. IsFiniteSet(NamesIn(slots, capacity)) /\ Cardinality(NamesIn(slots, capacity)) = count
  BY <1>1 DEF SetInv, Counted
<1>4. IsFiniteSet(Moved) /\ Cardinality(Moved) <= count
  BY <1>2, <1>3, FS_Subset
<1>5. Cardinality(Moved) \in Nat
  BY <1>4, FS_CardinalityType
<1>6. 2 * capacity \in Nat \ {0} /\ Cardinality(Moved) < 2 * capacity
  BY <1>1, <1>4, <1>5
<1>7. Counted(newSlots, 2 * capacity, Cardinality(Moved))
  BY DEF SetInv
<1>8. QED
  BY <1>4, <1>5, <1>6, <1>7, CountLeavesGap

LEMMA TableHasRoom ==
  ASSUME SetInv, slots # Nil
  PROVE  capacity \in Nat \ {0} /\ HasGap(slots, capacity)
<1>1. capacity \in Nat \ {0} /\ count \in Nat /\ count < capacity
  BY DEF SetInv, LoadInv
<1>2. QED
  BY <1>1, CountLeavesGap DEF SetInv

LEMMA SetInvStep ==
  ASSUME NilIsNoTable, SetInv, [Next]_vars
  PROVE  SetInv'
<1>1. LoadInv'
  BY LoadStep DEF SetInv
<1>2. CASE UNCHANGED vars
  BY <1>1, <1>2 DEF vars, SetInv, TypeOK, Moved
<1>3. CASE SetFree
  BY <1>1, <1>3 DEF SetFree, Discard, SetInv, TypeOK
<1>4. CASE SetInit
  <2>1. InitialCapacity \in Nat \ {0} /\ InitialCapacity >= 2
    BY SetAssumption
  <2>2. Sound(Empty(InitialCapacity), InitialCapacity)
        /\ Counted(Empty(InitialCapacity), InitialCapacity, 0)
    BY <2>1, EmptyIsSound
  <2>3. Empty(InitialCapacity) \in Table(InitialCapacity)
    BY <2>2 DEF Sound
  <2>4. CASE capacity' = InitialCapacity /\ slots' = Empty(InitialCapacity)
    <3>1. capacity' \in Nat /\ count' = 0 /\ slots' \in Table(capacity')
          /\ capacity' >= InitialCapacity
      BY <1>4, <2>1, <2>3, <2>4 DEF SetInit
    <3>2. pc = "idle" /\ UNCHANGED <<pc, name, next, newSlots, result>>
      BY <1>4 DEF SetInit
    <3>3. Sound(slots', capacity') /\ Counted(slots', capacity', count')
      BY <2>2, <2>4, <3>1
    <3>4. TypeOK'
      BY <3>1, <3>2 DEF SetInv, TypeOK
    <3>5. QED
      BY <1>1, <3>2, <3>3, <3>4 DEF SetInv
  <2>5. CASE Discard
    BY <1>1, <1>4, <2>5 DEF SetInit, Discard, SetInv, TypeOK
  <2>6. QED
    BY <1>4, <2>4, <2>5 DEF SetInit
<1>5. ASSUME NEW n \in Names, Insert(n) PROVE SetInv'
  <2>1. CASE Return("ERROR") /\ UNCHANGED <<capacity, count, slots>>
    BY <1>1, <2>1 DEF Return, SetInv, TypeOK
  <2>2. CASE /\ slots # Nil /\ pc' = "rehash" /\ name' = n
             /\ newSlots' = Empty(2 * capacity)
             /\ UNCHANGED <<next, result, capacity, count, slots>>
    <3>1. next = 0 /\ capacity \in Nat /\ 2 * capacity \in Nat \ {0}
      BY <1>5, <2>2 DEF Insert, SetInv, LoadInv
    <3>2. /\ Sound(newSlots', 2 * capacity)
          /\ NamesIn(newSlots', 2 * capacity) = {}
          /\ Counted(newSlots', 2 * capacity, 0)
      BY <2>2, <3>1, EmptyIsSound
    <3>3. Moved' = {} /\ Cardinality({}) = 0
      BY <2>2, <3>1, FS_EmptySet DEF Moved
    <3>4. newSlots' \in Table(2 * capacity)
      BY <3>2 DEF Sound
    <3>5. QED
      BY <1>1, <2>2, <3>1, <3>2, <3>3, <3>4 DEF SetInv, TypeOK
  <2>3. CASE /\ slots # Nil /\ pc' = "probe" /\ name' = n
             /\ UNCHANGED <<next, newSlots, result, capacity, count, slots>>
    <3>1. pc = "idle"
      BY <1>5 DEF Insert
    <3>2. QED
      BY <1>1, <2>3, <3>1 DEF SetInv, TypeOK
  <2>4. QED
    BY <1>5, <2>1, <2>2, <2>3 DEF Insert
<1>6. CASE MoveEntry
  <2>1. /\ slots # Nil /\ next \in 0..capacity - 1 /\ capacity \in Nat
        /\ slots \in Table(capacity) /\ pc' = "rehash" /\ next' = next + 1
        /\ UNCHANGED <<capacity, count, slots, name, result>>
    BY <1>6 DEF MoveEntry, SetInv, TypeOK
  <2>2. Moved' = Moved \cup ({slots[next]} \ {Nil})
    BY <2>1 DEF Moved
  <2>3. CASE slots[next] = Nil
    <3>1. newSlots' = newSlots /\ Moved' = Moved
      BY <1>6, <2>2, <2>3 DEF MoveEntry
    <3>2. QED
      BY <1>1, <1>6, <2>1, <3>1 DEF MoveEntry, SetInv, TypeOK
  <2>4. CASE slots[next] # Nil
    <3> DEFINE n == slots[next]
    <3>1. n \in Names /\ newSlots' = [newSlots EXCEPT ![Probe(newSlots, n, 2 * capacity)] = n]
      BY <1>6, <2>1, <2>4 DEF MoveEntry, NewSlot, Table
    <3>2. n \notin Moved
      <4>1. \A p, q \in Occupied(slots, capacity) : slots[p] = slots[q] => p = q
        BY <2>1 DEF SetInv, Sound
      <4>2. \A p \in 0..next - 1 : slots[p] # n
        BY <2>1, <2>4, <4>1 DEF Occupied
      <4>3. QED
        BY <4>2 DEF Moved
    <3> HIDE DEF n
    <3>3. /\ 2 * capacity \in Nat \ {0} /\ Cardinality(Moved) \in Nat
          /\ HasGap(newSlots, 2 * capacity)
      BY <1>6, RehashHasRoom DEF MoveEntry
    <3>4. /\ Sound(newSlots, 2 * capacity)
          /\ NamesIn(newSlots, 2 * capacity) = Moved
          /\ Counted(newSlots, 2 * capacity, Cardinality(Moved))
      BY <1>6 DEF MoveEntry, SetInv
    <3>5. /\ Sound(newSlots', 2 * capacity)
          /\ NamesIn(newSlots', 2 * capacity) = Moved \cup {n}
          /\ Counted(newSlots', 2 * capacity, Cardinality(Moved) + 1)
      <4> DEFINE size == 2 * capacity
                 m    == Cardinality(Moved)
      <4>1. /\ size \in Nat \ {0} /\ m \in Nat /\ HasGap(newSlots, size)
            /\ Sound(newSlots, size) /\ Counted(newSlots, size, m)
            /\ n \in Names /\ n \notin NamesIn(newSlots, size)
            /\ newSlots' = [newSlots EXCEPT ![Probe(newSlots, n, size)] = n]
            /\ NamesIn(newSlots, size) = Moved
        BY <3>1, <3>2, <3>3, <3>4
      <4> HIDE DEF size, m
      <4>2. /\ Sound(newSlots', size)
            /\ NamesIn(newSlots', size) = NamesIn(newSlots, size) \cup {n}
            /\ Counted(newSlots', size, m + 1)
        BY ZenonT(30), <4>1, PutIsSound
      <4>3. QED
        BY <4>1, <4>2 DEF size, m
    <3>6. Moved' = Moved \cup {n}
      BY <2>2, <2>4 DEF n
    <3>7. Cardinality(Moved') = Cardinality(Moved) + 1
      BY <3>5, <3>6 DEF Counted
    <3>8. newSlots' \in Table(2 * capacity)
      BY <3>5 DEF Sound
    <3>9. QED
      <4>1. TypeOK'
        BY <1>6, <2>1, <3>8 DEF MoveEntry, SetInv, TypeOK
      <4>2. /\ Sound(newSlots', 2 * capacity')
            /\ NamesIn(newSlots', 2 * capacity') = Moved'
            /\ Counted(newSlots', 2 * capacity', Cardinality(Moved'))
        BY <2>1, <3>5, <3>6, <3>7
      <4>3. QED
        BY <1>1, <2>1, <4>1, <4>2 DEF SetInv
  <2>5. QED
    BY <2>3, <2>4
<1>7. CASE EndRehash
  <2>1. /\ slots # Nil /\ next = capacity /\ capacity \in Nat
        /\ slots' = newSlots /\ capacity' = 2 * capacity
        /\ pc' = "probe" /\ next' = 0
        /\ UNCHANGED <<count, name, result>>
    BY <1>7 DEF EndRehash, SetInv, TypeOK
  <2>2. Moved = NamesIn(slots, capacity)
    BY <2>1 DEF Moved, NamesIn
  <2>3. Cardinality(Moved) = count
    BY <2>1, <2>2 DEF SetInv, Counted
  <2>4. Sound(newSlots, 2 * capacity) /\ Counted(newSlots, 2 * capacity, count)
    BY <1>7, <2>3 DEF EndRehash, SetInv
  <2>5. newSlots \in Table(2 * capacity) /\ 2 * capacity \in Nat
    BY <2>1, <2>4 DEF Sound
  <2>6. newSlots # Nil
    BY <2>5 DEF NilIsNoTable
  <2>7. 2 * capacity >= InitialCapacity
    BY <2>1, SetAssumption DEF SetInv, TypeOK
  <2>8. QED
    BY <1>1, <1>7, <2>1, <2>4, <2>5, <2>6, <2>7 DEF EndRehash, SetInv, TypeOK
<1>8. CASE Put
  <2> DEFINE p == Probe(slots, name, capacity)
  <2>1. slots # Nil /\ name \in Names /\ capacity \in Nat \ {0} /\ count \in Nat
        /\ HasGap(slots, capacity)
        /\ Sound(slots, capacity) /\ Counted(slots, capacity, count)
    BY <1>8, TableHasRoom DEF Put, SetInv, TypeOK
  <2>2. p \in 0..capacity - 1 /\ (slots[p] = name <=> name \in NamesIn(slots, capacity))
    BY <2>1, ProbeFinds
  <2>3. CASE UNCHANGED <<slots, count>>
    BY <1>1, <1>8, <2>1, <2>3 DEF Put, Return, SetInv, TypeOK
  <2>4. CASE /\ slots[p] = Nil
             /\ slots' = [slots EXCEPT ![p] = name] /\ count' = count + 1
             /\ Return("OK")
    <3>1. name \notin NamesIn(slots, capacity)
      BY <2>1, <2>2, <2>4, SetAssumption
    <3>2. Sound(slots', capacity) /\ Counted(slots', capacity, count')
      BY <2>1, <2>4, <3>1, PutIsSound
    <3>3. slots' \in Table(capacity)
      BY <3>2 DEF Sound
    <3>4. slots' # Nil
      BY <2>1, <3>3 DEF NilIsNoTable
    <3>5. QED
      BY <1>1, <1>8, <2>1, <2>4, <3>2, <3>3, <3>4 DEF Put, Return, SetInv, TypeOK
  <2>5. QED
    BY <1>8, <2>3, <2>4 DEF Put
<1>9. QED
  BY <1>2, <1>3, <1>4, <1>5, <1>6, <1>7, <1>8 DEF Next

LEMMA SetInvAlways == ASSUME NilIsNoTable PROVE Spec => []SetInv
<1>1. Init => SetInv
  BY SetInvInit
<1>2. SetInv /\ [Next]_vars => SetInv'
  BY SetInvStep
<1>3. QED
  BY <1>1, <1>2, PTL DEF Spec

LEMMA MembersAreNames ==
  ASSUME slots # Nil PROVE Members = NamesIn(slots, capacity)
  BY DEF Members, NamesIn

(* The arrays have their capacities throughout.                            *)
THEOREM SetTypeCorrect == ASSUME NilIsNoTable PROVE Spec => []TypeOK
<1>1. SetInv => TypeOK
  BY DEF SetInv
<1>2. QED
  BY <1>1, SetInvAlways, PTL

(* student_no_set_contains answers right whatever collides, wraps around   *)
(* or is just being moved: storage.c:122-139.                              *)
THEOREM ProbingIsMembership ==
  ASSUME NilIsNoTable PROVE Spec => []ContainsIsMembership
<1>1. SetInv => ContainsIsMembership
  <2> SUFFICES ASSUME SetInv, NEW n \in Names
               PROVE  Contains(n) <=> n \in Members
    BY DEF ContainsIsMembership
  <2>1. CASE slots = Nil
    BY <2>1 DEF Contains, Members
  <2>2. CASE slots # Nil
    <3>1. Sound(slots, capacity) /\ capacity \in Nat \ {0} /\ HasGap(slots, capacity)
      BY <2>2, TableHasRoom DEF SetInv
    <3>2. slots[Probe(slots, n, capacity)] = n <=> n \in NamesIn(slots, capacity)
      BY <3>1, ProbeFinds
    <3>3. QED
      BY <2>2, <3>2, MembersAreNames DEF Contains
  <2>3. QED
    BY <2>1, <2>2
<1>2. QED
  BY <1>1, SetInvAlways, PTL

(* The count by which the table decides to grow is the number of names in  *)
(* it: storage.c:151-170.                                                  *)
THEOREM CountIsRight == ASSUME NilIsNoTable PROVE Spec => []CountIsExact
<1>1. SetInv => CountIsExact
  <2> SUFFICES ASSUME SetInv, slots # Nil
               PROVE  /\ Cardinality({p \in 0..capacity - 1 : slots[p] # Nil}) = count
                      /\ Cardinality(Members) = count
    BY DEF CountIsExact
  <2>1. Counted(slots, capacity, count)
    BY DEF SetInv
  <2>2. QED
    BY <2>1, MembersAreNames DEF Counted, Occupied
<1>2. QED
  BY <1>1, SetInvAlways, PTL

(* The probing loops of lookup, insertion and rehash meet an empty slot.   *)
THEOREM ProbingMeetsGap == ASSUME NilIsNoTable PROVE Spec => []ProbingEnds
<1>1. SetInv => ProbingEnds
  BY TableHasRoom, RehashHasRoom DEF ProbingEnds
<1>2. QED
  BY <1>1, SetInvAlways, PTL

(***************************************************************************)
(* The hash table implements NameSet.  Growing is invisible; the name is   *)
(* in the set when it is put into its slot.                                *)
(***************************************************************************)
LEMMA SetStepImplements ==
  ASSUME NilIsNoTable, SetInv, [Next]_vars
  PROVE  [Set!Next]_(Set!vars)
<1>1. CASE UNCHANGED vars
  BY <1>1 DEF vars, Set!vars, Members
<1>2. CASE SetFree
  BY <1>2 DEF SetFree, Discard, Members, Set!Next, Set!Reset
<1>3. CASE SetInit
  <2>1. Members' = {}
    BY <1>3 DEF SetInit, Discard, Members, Empty
  <2>2. QED
    BY <1>3, <2>1 DEF SetInit, Set!Next, Set!Reset
<1>4. ASSUME NEW n \in Names, Insert(n) PROVE [Set!Next]_(Set!vars)
  <2>1. Members' = Members /\ slots' = slots
    BY <1>4 DEF Insert, Members
  <2>2. CASE result' = result
    BY <2>1, <2>2 DEF Set!vars
  <2>3. CASE slots = Nil \/ (AllocMayFail /\ result' = "ERROR")
    BY <1>4, <2>1, <2>3 DEF Insert, Return, Set!Next, Set!Fail
  <2>4. QED
    BY <1>4, <2>2, <2>3 DEF Insert, Return
<1>5. CASE MoveEntry
  BY <1>5 DEF MoveEntry, Set!vars, Members
<1>6. CASE EndRehash
  <2>1. next = capacity /\ slots # Nil /\ slots' = newSlots /\ capacity' = 2 * capacity
        /\ result' = result
    BY <1>6 DEF EndRehash, SetInv, TypeOK
  <2>2. slots' # Nil
    BY <1>6, SetInvStep DEF EndRehash, SetInv, TypeOK
  <2>3. NamesIn(newSlots, 2 * capacity) = NamesIn(slots, capacity)
    BY <1>6, <2>1 DEF EndRehash, SetInv, Moved, NamesIn
  <2>4. Members' = Members
    BY <2>1, <2>2, <2>3 DEF Members, NamesIn
  <2>5. QED
    BY <2>1, <2>2, <2>4 DEF Set!vars
<1>7. CASE Put
  <2> DEFINE p == Probe(slots, name, capacity)
  <2>1. slots # Nil /\ name \in Names /\ capacity \in Nat \ {0} /\ count \in Nat
        /\ HasGap(slots, capacity)
        /\ Sound(slots, capacity) /\ Counted(slots, capacity, count)
    BY <1>7, TableHasRoom DEF Put, SetInv, TypeOK
  <2>2. slots[p] = name <=> name \in Members
    BY <2>1, ProbeFinds, MembersAreNames
  <2>3. slots' # Nil /\ capacity' = capacity
    <3>1. slots' = slots \/ slots' = [slots EXCEPT ![p] = name]
      BY <1>7 DEF Put
    <3>2. slots \in Table(capacity) /\ p \in 0..capacity - 1
      BY <2>1, ProbeFinds DEF Sound
    <3>3. [slots EXCEPT ![p] = name] \in Table(capacity)
      BY <2>1, <3>2 DEF Table
    <3>4. [slots EXCEPT ![p] = name] # Nil
      BY <2>1, <3>3 DEF NilIsNoTable
    <3>5. QED
      BY <1>7, <2>1, <3>1, <3>4 DEF Put
  <2>4. CASE slots[p] = name /\ Return("DUPLICATE") /\ UNCHANGED slots
    BY <2>1, <2>2, <2>3, <2>4 DEF Return, Members, Set!Next, Set!Refuse
  <2>5. CASE slots[p] = Nil /\ slots' = [slots EXCEPT ![p] = name] /\ Return("OK")
    <3>1. name \notin NamesIn(slots, capacity)
      BY <2>1, <2>2, <2>5, MembersAreNames, SetAssumption
    <3>2. /\ NamesIn(slots', capacity) = NamesIn(slots, capacity) \cup {name}
          /\ Counted(slots', capacity, count + 1)
      BY ZenonT(30), <2>1, <2>5, <3>1, PutIsSound
    <3>3. Members' = Members \cup {name}
      BY <2>1, <2>3, <3>2 DEF Members, NamesIn
    <3>4. name \notin Members
      BY <2>1, <3>1, MembersAreNames
    <3>5. QED
      BY <2>1, <2>3, <2>5, <3>3, <3>4 DEF Return, Set!Next, Set!Add
  <2>6. CASE AllocMayFail /\ Return("ERROR") /\ UNCHANGED slots
    BY <2>1, <2>3, <2>6 DEF Return, Members, Set!Next, Set!Fail
  <2>7. QED
    BY <1>7, <2>4, <2>5, <2>6 DEF Put
<1>8. QED
  BY <1>1, <1>2, <1>3, <1>4, <1>5, <1>6, <1>7 DEF Next

(* Whatever is seen of the hash table could have been seen of a set:       *)
(* insertion is atomic, a doubling neither loses nor adds a name.          *)
THEOREM HashTableIsSet == ASSUME NilIsNoTable PROVE Spec => ImplementsSet
<1>1. Init => Set!Init
  BY DEF Init, Set!Init, Members
<1>2. SetInv /\ [Next]_vars => [Set!Next]_(Set!vars)
  BY SetStepImplements
<1>3. QED
  BY <1>1, <1>2, SetInvAlways, PTL DEF Spec, ImplementsSet, Set!Spec
=============================================================================
