-------------------------- MODULE BPlusTreeProofs --------------------------
(***************************************************************************)
(* Theorems of the id index, for all capacities of a node, keys, entries   *)
(* and addresses, and whether allocations fail or not.                     *)
(***************************************************************************)
EXTENDS BPlusTree, SequenceTheorems, FiniteSetTheorems, CommonLemmas, TLAPS

(***************************************************************************)
(* Sequences                                                               *)
(***************************************************************************)
LEMMA PartOfSequence ==
  ASSUME NEW S, NEW s \in Seq(S), NEW m \in 1..Len(s) + 1, NEW n \in m - 1..Len(s)
  PROVE  /\ SubSeq(s, m, n) \in Seq(S) /\ Len(SubSeq(s, m, n)) = n - m + 1
         /\ \A i \in 1..n - m + 1 : SubSeq(s, m, n)[i] = s[m + i - 1]
<1>1. Len(s) \in Nat /\ \A i \in 1..Len(s) : s[i] \in S
  BY LenProperties, ElementOfSeq
<1>2. m \in Int /\ n \in Int /\ \A i \in m..n : s[i] \in S
  BY <1>1
<1>3. /\ SubSeq(s, m, n) \in Seq(S)
      /\ Len(SubSeq(s, m, n)) = IF m <= n THEN n - m + 1 ELSE 0
      /\ \A i \in 1..n - m + 1 : SubSeq(s, m, n)[i] = s[m + i - 1]
  BY <1>2, SubSeqProperties
<1>4. (IF m <= n THEN n - m + 1 ELSE 0) = n - m + 1
  BY <1>1
<1> QED BY <1>3, <1>4

LEMMA InsertedAt ==
  ASSUME NEW S, NEW s \in Seq(S), NEW i \in 1..Len(s) + 1, NEW e \in S
  PROVE  /\ InsertAt(s, i, e) \in Seq(S) /\ Len(InsertAt(s, i, e)) = Len(s) + 1
         /\ \A j \in 1..Len(s) + 1 :
              InsertAt(s, i, e)[j] = IF j < i THEN s[j] ELSE IF j = i THEN e ELSE s[j - 1]
<1> DEFINE front == SubSeq(s, 1, i - 1)
           back  == SubSeq(s, i, Len(s))
           head  == Append(front, e)
<1>1. Len(s) \in Nat /\ i \in Nat
  BY LenProperties
<1>2. /\ front \in Seq(S) /\ Len(front) = i - 1
      /\ \A j \in 1..i - 1 : front[j] = s[j]
  <2>1. 1 \in 1..Len(s) + 1 /\ i - 1 \in 1 - 1..Len(s)
    BY <1>1
  <2>2. /\ front \in Seq(S) /\ Len(front) = i - 1 - 1 + 1
        /\ \A j \in 1..i - 1 - 1 + 1 : front[j] = s[1 + j - 1]
    BY <2>1, PartOfSequence
  <2> QED BY <2>2, <1>1
<1>3. /\ back \in Seq(S) /\ Len(back) = Len(s) - i + 1
      /\ \A j \in 1..Len(s) - i + 1 : back[j] = s[i + j - 1]
  <2>1. Len(s) \in i - 1..Len(s)
    BY <1>1
  <2> QED BY <2>1, PartOfSequence
<1> HIDE DEF front, back
<1>4. /\ head \in Seq(S) /\ Len(head) = i /\ head[i] = e
      /\ \A j \in 1..i - 1 : head[j] = s[j]
      /\ head = front \o <<e>>
  <2>1. /\ head \in Seq(S) /\ Len(head) = Len(front) + 1
        /\ \A j \in 1..Len(front) : head[j] = front[j]
        /\ head[Len(front) + 1] = e
    BY <1>2, AppendProperties
  <2>2. head = front \o <<e>>
    BY <1>2, AppendIsConcat
  <2> QED BY <1>1, <1>2, <2>1, <2>2
<1> HIDE DEF head
<1>5. InsertAt(s, i, e) = head \o back
  BY <1>4 DEF InsertAt, front, back
<1>6. /\ head \o back \in Seq(S) /\ Len(head \o back) = i + Len(back)
      /\ \A j \in 1..i + Len(back) :
           (head \o back)[j] = IF j <= i THEN head[j] ELSE back[j - i]
  BY SMTT(30), <1>3, <1>4, ConcatProperties
<1>7. i + Len(back) = Len(s) + 1
  BY <1>1, <1>3
<1>8. ASSUME NEW j \in 1..Len(s) + 1
      PROVE  (head \o back)[j] = IF j < i THEN s[j] ELSE IF j = i THEN e ELSE s[j - 1]
  <2>1. CASE j < i
    <3>1. j \in 1..i - 1 /\ j <= i
      BY <1>1, <2>1
    <3> QED BY <3>1, <2>1, <1>4, <1>6, <1>7
  <2>2. CASE j = i
    BY <2>2, <1>1, <1>4, <1>6, <1>7
  <2>3. CASE j > i
    <3>1. j - i \in 1..Len(s) - i + 1 /\ i + (j - i) - 1 = j - 1 /\ ~(j <= i) /\ ~(j < i)
      BY <1>1, <2>3
    <3> QED BY <3>1, <1>3, <1>6, <1>7
  <2>4. j < i \/ j = i \/ j > i
    BY <1>1
  <2> QED BY <2>1, <2>2, <2>3, <2>4
<1> QED BY <1>5, <1>6, <1>7, <1>8

LEMMA LastElement ==
  ASSUME NEW S, NEW s \in Seq(S), s # <<>>
  PROVE  /\ Len(s) \in Nat \ {0} /\ Last(s) = s[Len(s)] /\ Last(s) \in S
         /\ Front(s) \in Seq(S) /\ Len(Front(s)) = Len(s) - 1
         /\ \A i \in 1..Len(s) - 1 : Front(s)[i] = s[i]
<1>1. Len(s) \in Nat \ {0}
  BY EmptySeq
<1>2. Len(s) \in 1..Len(s) /\ 1 \in 1..Len(s) + 1 /\ Len(s) - 1 \in 1 - 1..Len(s)
  BY <1>1
<1>3. /\ SubSeq(s, 1, Len(s) - 1) \in Seq(S)
      /\ Len(SubSeq(s, 1, Len(s) - 1)) = Len(s) - 1 - 1 + 1
      /\ \A i \in 1..Len(s) - 1 - 1 + 1 : SubSeq(s, 1, Len(s) - 1)[i] = s[1 + i - 1]
  BY <1>2, PartOfSequence
<1>4. Len(s) - 1 - 1 + 1 = Len(s) - 1 /\ \A i \in 1..Len(s) - 1 : 1 + i - 1 = i
  BY <1>1
<1>5. Last(s) \in S
  BY <1>2, ElementOfSeq DEF Last
<1> QED BY <1>1, <1>3, <1>4, <1>5 DEF Last, Front

(***************************************************************************)
(* Slots: both loops of the code stop at the first key that is large       *)
(* enough, or behind the last.                                             *)
(***************************************************************************)
LEMMA FirstStop ==
  ASSUME NEW n \in Nat, NEW stops \in SUBSET (1..n)
  PROVE  LET slot == CHOOSE i \in 1..n + 1 : /\ i <= n => i \in stops
                                             /\ \A j \in 1..i - 1 : j \notin stops
         IN  /\ slot \in 1..n + 1
             /\ slot <= n => slot \in stops
             /\ \A j \in 1..slot - 1 : j \notin stops
<1> DEFINE S == stops \cup {n + 1}
<1>1. S \in SUBSET Nat /\ S # {}
  OBVIOUS
<1>2. PICK m \in S : \A i \in S : m <= i
  BY <1>1, LeastNumber
<1>3. m \in 1..n + 1 /\ (m <= n => m \in stops)
  OBVIOUS
<1>4. \A j \in 1..m - 1 : j \notin stops
  BY <1>2, <1>3
<1> QED BY <1>3, <1>4

LEMMA LeafSlotFound ==
  ASSUME NEW node, node.keys \in Seq(Nat), NEW k \in Nat
  PROVE  LET slot == LeafSlot(node, k)
         IN  /\ slot \in 1..Len(node.keys) + 1
             /\ slot <= Len(node.keys) => node.keys[slot] >= k
             /\ \A j \in 1..slot - 1 : node.keys[j] < k
<1> DEFINE keys == node.keys
           n == Len(keys)
           stops == {i \in 1..n : keys[i] >= k}
           slot == CHOOSE i \in 1..n + 1 : /\ i <= n => i \in stops
                                           /\ \A j \in 1..i - 1 : j \notin stops
<1>1. n \in Nat /\ \A i \in 1..n : keys[i] \in Nat
  BY LenProperties, ElementOfSeq
<1>2. \A i \in 1..n + 1 : /\ (i <= n => i \in stops) <=> (i <= n => keys[i] >= k)
                          /\ (\A j \in 1..i - 1 : j \notin stops)
                               <=> (\A j \in 1..i - 1 : ~(keys[j] >= k))
  BY <1>1
<1>3. LeafSlot(node, k) = CHOOSE i \in 1..n + 1 : /\ i <= n => keys[i] >= k
                                                  /\ \A j \in 1..i - 1 : ~(keys[j] >= k)
  BY DEF LeafSlot, FirstIn
<1>4. LeafSlot(node, k) = slot
  BY <1>2, <1>3
<1>5. /\ slot \in 1..n + 1 /\ (slot <= n => slot \in stops)
      /\ \A j \in 1..slot - 1 : j \notin stops
  <2> HIDE DEF n
  <2>1. stops \in SUBSET (1..n)
    OBVIOUS
  <2> HIDE DEF stops
  <2> QED BY <1>1, <2>1, FirstStop
<1> HIDE DEF slot
<1>6. \A j \in 1..slot - 1 : j \in 1..n /\ keys[j] < k
  BY <1>1, <1>5
<1> QED BY <1>4, <1>5, <1>6

LEMMA ChildSlotFound ==
  ASSUME NEW node, node.keys \in Seq(Nat), NEW k \in Nat
  PROVE  LET slot == ChildSlot(node, k)
         IN  /\ slot \in 1..Len(node.keys) + 1
             /\ slot <= Len(node.keys) => k < node.keys[slot]
             /\ \A j \in 1..slot - 1 : node.keys[j] <= k
<1> DEFINE keys == node.keys
           n == Len(keys)
           stops == {i \in 1..n : k < keys[i]}
           slot == CHOOSE i \in 1..n + 1 : /\ i <= n => i \in stops
                                           /\ \A j \in 1..i - 1 : j \notin stops
<1>1. n \in Nat /\ \A i \in 1..n : keys[i] \in Nat
  BY LenProperties, ElementOfSeq
<1>2. \A i \in 1..n + 1 : /\ (i <= n => i \in stops) <=> (i <= n => k < keys[i])
                          /\ (\A j \in 1..i - 1 : j \notin stops)
                               <=> (\A j \in 1..i - 1 : ~(k < keys[j]))
  BY <1>1
<1>3. ChildSlot(node, k) = CHOOSE i \in 1..n + 1 : /\ i <= n => k < keys[i]
                                                   /\ \A j \in 1..i - 1 : ~(k < keys[j])
  BY DEF ChildSlot, FirstIn
<1>4. ChildSlot(node, k) = slot
  BY <1>2, <1>3
<1>5. /\ slot \in 1..n + 1 /\ (slot <= n => slot \in stops)
      /\ \A j \in 1..slot - 1 : j \notin stops
  <2> HIDE DEF n
  <2>1. stops \in SUBSET (1..n)
    OBVIOUS
  <2> HIDE DEF stops
  <2> QED BY <1>1, <2>1, FirstStop
<1> HIDE DEF slot
<1>6. \A j \in 1..slot - 1 : j \in 1..n /\ keys[j] <= k
  BY <1>1, <1>5
<1> QED BY <1>4, <1>5, <1>6

(***************************************************************************)
(* Nodes                                                                   *)
(***************************************************************************)
Refs == {e.ref : e \in Entries}

WellFormed(n) ==
  /\ n \in Node /\ Len(n.keys) <= MaxKeys
  /\ n.leaf  => Len(n.refs) = Len(n.keys) /\ n.kids = <<>>
  /\ ~n.leaf => Len(n.kids) = Len(n.keys) + 1 /\ n.next = Null

(* At least half full, as every node but the root has to be.               *)
HalfFull(n) == Len(n.keys) >= IF n.leaf THEN (MaxKeys + 1) \div 2 ELSE MaxKeys \div 2

Pointers == Addresses \cup {Null}

LEMMA LeafIsNode ==
  ASSUME NEW keys \in Seq(Keys), NEW refs \in Seq(Refs), NEW next \in Pointers
  PROVE  Leaf(keys, refs, next) \in Node
<1>1. <<>> \in Seq(Addresses)
  BY EmptySeq
<1> QED BY <1>1 DEF Leaf, Node, Refs, Pointers

LEMMA InnerFields ==
  ASSUME NEW keys \in Seq(Keys), NEW kids \in Seq(Addresses)
  PROVE  LET n == Inner(keys, kids)
         IN  /\ n \in Node /\ n.leaf = FALSE /\ n.keys = keys /\ n.refs = <<>>
             /\ n.kids = kids /\ n.next = Null
<1>1. <<>> \in Seq({e.ref : e \in Entries})
  BY EmptySeq
<1> QED BY <1>1 DEF Inner, Node

LEMMA NodeFields ==
  ASSUME NEW n \in Node
  PROVE  /\ n.leaf \in BOOLEAN /\ n.keys \in Seq(Keys) /\ n.keys \in Seq(Nat)
         /\ n.refs \in Seq(Refs) /\ n.kids \in Seq(Addresses)
         /\ n.next \in Pointers /\ n # Free
         /\ Len(n.keys) \in Nat /\ Len(n.kids) \in Nat /\ Len(n.refs) \in Nat
<1>1. /\ n.leaf \in BOOLEAN /\ n.keys \in Seq(Keys) /\ n.refs \in Seq(Refs)
      /\ n.kids \in Seq(Addresses) /\ n.next \in Pointers
  BY DEF Node, Refs, Pointers
<1>2. n.keys \in Seq(Nat) /\ n # Free
  BY <1>1, TreeAssumption, SeqMonotonic
<1> QED BY <1>1, <1>2, LenProperties

LEMMA MaxKeysType == MaxKeys \in Nat /\ MaxKeys >= 2 /\ Keys \subseteq Nat
  BY TreeAssumption

LEMMA Halves ==
  /\ Half(MaxKeys + 1) \in 1..MaxKeys
  /\ Half(MaxKeys + 1) = (MaxKeys + 1) \div 2
  /\ MaxKeys + 1 - Half(MaxKeys + 1) >= (MaxKeys + 1) \div 2
  /\ Half(MaxKeys + 1) >= MaxKeys \div 2
  /\ MaxKeys + 1 - Half(MaxKeys + 1) - 1 >= MaxKeys \div 2
  /\ MaxKeys + 1 - Half(MaxKeys + 1) \in 1..MaxKeys
  BY MaxKeysType DEF Half

(* What stands in a node once an entry, or a separator and a child, have   *)
(* been put in, as long as there is room.                                  *)
LEMMA GrownLeaf ==
  ASSUME NEW n, WellFormed(n), n.leaf, NEW slot \in 1..Len(n.keys) + 1,
         NEW key \in Keys, NEW ref \in Refs,
         HasRoom(Len(InsertAt(n.keys, slot, key)))
  PROVE  LET m == Leaf(InsertAt(n.keys, slot, key), InsertAt(n.refs, slot, ref), n.next)
         IN  /\ WellFormed(m) /\ m.leaf = TRUE /\ m.next = n.next
             /\ HalfFull(n) => HalfFull(m)
<1> DEFINE keys == InsertAt(n.keys, slot, key)
           refs == InsertAt(n.refs, slot, ref)
<1>1. n \in Node /\ Len(n.refs) = Len(n.keys)
  BY DEF WellFormed
<1>2. /\ n.keys \in Seq(Keys) /\ n.refs \in Seq(Refs) /\ Len(n.keys) \in Nat
      /\ n.next \in Pointers
  BY <1>1, NodeFields
<1>3. keys \in Seq(Keys) /\ Len(keys) = Len(n.keys) + 1
  BY <1>2, InsertedAt
<1>4. refs \in Seq(Refs) /\ Len(refs) = Len(n.keys) + 1
  <2>1. slot \in 1..Len(n.refs) + 1
    BY <1>1
  <2>2. refs \in Seq(Refs) /\ Len(refs) = Len(n.refs) + 1
    BY <2>1, <1>2, InsertedAt
  <2> QED BY <2>2, <1>1
<1>5. Len(keys) <= MaxKeys
  BY DEF HasRoom
<1> HIDE DEF keys, refs
<1> DEFINE m == Leaf(keys, refs, n.next)
<1>6. /\ m \in Node /\ m.leaf = TRUE /\ m.keys = keys /\ m.refs = refs
      /\ m.kids = <<>> /\ m.next = n.next
  <2>1. m \in Node
    BY <1>2, <1>3, <1>4, LeafIsNode
  <2> QED BY <2>1 DEF Leaf, m
<1> HIDE DEF m
<1>7. WellFormed(m)
  BY <1>3, <1>4, <1>5, <1>6 DEF WellFormed
<1>8. HalfFull(n) => HalfFull(m)
  BY <1>2, <1>3, <1>6, MaxKeysType DEF HalfFull
<1> QED BY <1>6, <1>7, <1>8 DEF m, keys, refs

LEMMA HalvesOfLeaf ==
  ASSUME NEW n, WellFormed(n), n.leaf, NEW slot \in 1..Len(n.keys) + 1,
         NEW key \in Keys, NEW ref \in Refs, NEW next \in Addresses,
         ~HasRoom(Len(InsertAt(n.keys, slot, key)))
  PROVE  LET keys  == InsertAt(n.keys, slot, key)
             refs  == InsertAt(n.refs, slot, ref)
             total == Len(keys)
             half  == Half(total)
             left  == Leaf(SubSeq(keys, 1, half), SubSeq(refs, 1, half), next)
             right == Leaf(SubSeq(keys, half + 1, total),
                           SubSeq(refs, half + 1, total), n.next)
         IN  /\ WellFormed(left) /\ left.leaf = TRUE /\ left.next = next
             /\ WellFormed(right) /\ right.leaf = TRUE /\ right.next = n.next
             /\ HalfFull(left) /\ HalfFull(right)
             /\ keys[half + 1] \in Keys
<1> DEFINE keys == InsertAt(n.keys, slot, key)
           refs == InsertAt(n.refs, slot, ref)
           total == Len(keys)
           half == Half(total)
<1>1. n \in Node /\ Len(n.refs) = Len(n.keys) /\ Len(n.keys) <= MaxKeys
  BY DEF WellFormed
<1>2. /\ n.keys \in Seq(Keys) /\ n.refs \in Seq(Refs) /\ Len(n.keys) \in Nat
      /\ n.next \in Pointers
  BY <1>1, NodeFields
<1>3. keys \in Seq(Keys) /\ Len(keys) = Len(n.keys) + 1
  BY <1>2, InsertedAt
<1>4. refs \in Seq(Refs) /\ Len(refs) = Len(n.keys) + 1
  <2>1. slot \in 1..Len(n.refs) + 1
    BY <1>1
  <2>2. refs \in Seq(Refs) /\ Len(refs) = Len(n.refs) + 1
    BY <2>1, <1>2, InsertedAt
  <2> QED BY <2>2, <1>1
<1>5. Len(keys) = MaxKeys + 1 /\ Len(refs) = MaxKeys + 1
  BY <1>1, <1>2, <1>3, <1>4, MaxKeysType DEF HasRoom
<1>6. /\ total = MaxKeys + 1 /\ half = Half(MaxKeys + 1) /\ half \in 1..MaxKeys
      /\ half >= (MaxKeys + 1) \div 2
      /\ total - half <= MaxKeys /\ total - half >= (MaxKeys + 1) \div 2
  <2>1. total = MaxKeys + 1 /\ half = Half(MaxKeys + 1)
    BY <1>5
  <2> HIDE DEF keys, refs, half, total
  <2>2. /\ half \in 1..MaxKeys /\ half = (MaxKeys + 1) \div 2
        /\ total - half >= (MaxKeys + 1) \div 2 /\ total - half \in 1..MaxKeys
    BY ONLY SMTT(30), <2>1, Halves, MaxKeysType
  <2> QED BY <2>1, <2>2, MaxKeysType
<1> HIDE DEF keys, refs, half, total
<1>7. /\ 1 \in 1..Len(keys) + 1 /\ half \in 1 - 1..Len(keys)
      /\ half + 1 \in 1..Len(keys) + 1 /\ total \in half + 1 - 1..Len(keys)
      /\ half - 1 + 1 = half /\ total - (half + 1) + 1 = total - half
      /\ half + 1 \in 1..Len(keys)
  BY SMTT(30), <1>5, <1>6, MaxKeysType
<1>8. /\ SubSeq(keys, 1, half) \in Seq(Keys) /\ Len(SubSeq(keys, 1, half)) = half
      /\ SubSeq(keys, half + 1, total) \in Seq(Keys)
      /\ Len(SubSeq(keys, half + 1, total)) = total - half
  BY <1>3, <1>7, PartOfSequence
<1>9. /\ SubSeq(refs, 1, half) \in Seq(Refs) /\ Len(SubSeq(refs, 1, half)) = half
      /\ SubSeq(refs, half + 1, total) \in Seq(Refs)
      /\ Len(SubSeq(refs, half + 1, total)) = total - half
  BY <1>4, <1>5, <1>7, PartOfSequence
<1> DEFINE left  == Leaf(SubSeq(keys, 1, half), SubSeq(refs, 1, half), next)
           right == Leaf(SubSeq(keys, half + 1, total),
                         SubSeq(refs, half + 1, total), n.next)
<1>10. /\ left \in Node /\ left.leaf = TRUE /\ left.keys = SubSeq(keys, 1, half)
       /\ left.refs = SubSeq(refs, 1, half) /\ left.kids = <<>> /\ left.next = next
  <2>1. next \in Pointers
    BY DEF Pointers
  <2>2. left \in Node
    BY <2>1, <1>8, <1>9, LeafIsNode
  <2> QED BY <2>2 DEF Leaf, left
<1>11. /\ right \in Node /\ right.leaf = TRUE
       /\ right.keys = SubSeq(keys, half + 1, total)
       /\ right.refs = SubSeq(refs, half + 1, total)
       /\ right.kids = <<>> /\ right.next = n.next
  <2>1. right \in Node
    BY <1>2, <1>8, <1>9, LeafIsNode
  <2> QED BY <2>1 DEF Leaf, right
<1> HIDE DEF left, right
<1>12. Len(left.keys) = half /\ Len(left.refs) = half /\ half <= MaxKeys
       /\ half >= (MaxKeys + 1) \div 2
  BY <1>6, <1>8, <1>9, <1>10, MaxKeysType
<1>13. /\ Len(right.keys) = total - half /\ Len(right.refs) = total - half
       /\ total - half <= MaxKeys /\ total - half >= (MaxKeys + 1) \div 2
  BY <1>6, <1>8, <1>9, <1>11
<1>14. WellFormed(left) /\ HalfFull(left)
  BY <1>10, <1>12 DEF WellFormed, HalfFull
<1>15. WellFormed(right) /\ HalfFull(right)
  BY <1>11, <1>13 DEF WellFormed, HalfFull
<1>16. keys[half + 1] \in Keys
  BY <1>3, <1>7, ElementOfSeq
<1> QED BY <1>10, <1>11, <1>14, <1>15, <1>16 DEF left, right, half, total, keys, refs

(* The children of an inner node with a new one behind the child at slot.  *)
Joined(kids, slot, right) == InsertAt(kids, slot + 1, right)

LEMMA JoinedKids ==
  ASSUME NEW kids \in Seq(Addresses), NEW slot \in 1..Len(kids), NEW right \in Addresses
  PROVE  LET all == Joined(kids, slot, right)
         IN  /\ all \in Seq(Addresses) /\ Len(all) = Len(kids) + 1
             /\ \A j \in 1..Len(kids) + 1 :
                  all[j] = IF j <= slot THEN kids[j]
                           ELSE IF j = slot + 1 THEN right ELSE kids[j - 1]
<1>1. Len(kids) \in Nat /\ slot + 1 \in 1..Len(kids) + 1
  BY LenProperties
<1>2. /\ InsertAt(kids, slot + 1, right) \in Seq(Addresses)
      /\ Len(InsertAt(kids, slot + 1, right)) = Len(kids) + 1
      /\ \A j \in 1..Len(kids) + 1 : InsertAt(kids, slot + 1, right)[j] =
           IF j < slot + 1 THEN kids[j] ELSE IF j = slot + 1 THEN right ELSE kids[j - 1]
  <2> DEFINE i == slot + 1
  <2> HIDE DEF i
  <2>1. i \in 1..Len(kids) + 1
    BY <1>1 DEF i
  <2>2. /\ InsertAt(kids, i, right) \in Seq(Addresses)
        /\ Len(InsertAt(kids, i, right)) = Len(kids) + 1
        /\ \A j \in 1..Len(kids) + 1 : InsertAt(kids, i, right)[j] =
             IF j < i THEN kids[j] ELSE IF j = i THEN right ELSE kids[j - 1]
    BY <2>1, InsertedAt
  <2> QED BY <2>2 DEF i
<1>3. \A j \in 1..Len(kids) + 1 : j < slot + 1 <=> j <= slot
  BY <1>1
<1> QED BY <1>2, <1>3 DEF Joined

LEMMA GrownInner ==
  ASSUME NEW n, WellFormed(n), ~n.leaf, NEW slot \in 1..Len(n.kids),
         NEW key \in Keys, NEW right \in Addresses,
         HasRoom(Len(InsertAt(n.keys, slot, key)))
  PROVE  LET m == Inner(InsertAt(n.keys, slot, key), Joined(n.kids, slot, right))
         IN  /\ WellFormed(m) /\ m.leaf = FALSE
             /\ m.kids = Joined(n.kids, slot, right)
             /\ HalfFull(n) => HalfFull(m)
<1> DEFINE keys == InsertAt(n.keys, slot, key)
           kids == Joined(n.kids, slot, right)
<1>1. n \in Node /\ Len(n.kids) = Len(n.keys) + 1
  BY DEF WellFormed
<1>2. /\ n.keys \in Seq(Keys) /\ n.kids \in Seq(Addresses) /\ Len(n.keys) \in Nat
      /\ n.leaf \in BOOLEAN
  BY <1>1, NodeFields
<1>3. keys \in Seq(Keys) /\ Len(keys) = Len(n.keys) + 1
  BY <1>1, <1>2, InsertedAt
<1>4. kids \in Seq(Addresses) /\ Len(kids) = Len(n.kids) + 1
  BY <1>2, JoinedKids
<1>5. Len(keys) <= MaxKeys
  BY DEF HasRoom
<1> HIDE DEF keys, kids
<1> DEFINE m == Inner(keys, kids)
<1>6. m \in Node /\ m.leaf = FALSE /\ m.keys = keys /\ m.kids = kids /\ m.next = Null
  BY <1>3, <1>4, InnerFields
<1> HIDE DEF m
<1>7. WellFormed(m)
  BY <1>1, <1>2, <1>3, <1>4, <1>5, <1>6 DEF WellFormed
<1>8. HalfFull(n) => HalfFull(m)
  BY <1>2, <1>3, <1>6, MaxKeysType DEF HalfFull
<1> QED BY <1>6, <1>7, <1>8 DEF m, keys, kids

(* A sequence is cut in two.                                               *)
CutAt(all, cut, low, high) ==
  /\ cut \in 1..Len(all) /\ Len(low) = cut /\ Len(high) = Len(all) - cut
  /\ \A i \in 1..cut : low[i] = all[i]
  /\ \A i \in 1..Len(all) - cut : high[i] = all[cut + i]

LEMMA HalvesOfInner ==
  ASSUME NEW n, WellFormed(n), ~n.leaf, NEW slot \in 1..Len(n.kids),
         NEW key \in Keys, NEW right \in Addresses,
         ~HasRoom(Len(InsertAt(n.keys, slot, key)))
  PROVE  LET keys  == InsertAt(n.keys, slot, key)
             kids  == Joined(n.kids, slot, right)
             total == Len(keys)
             mid   == Half(total)
             low   == Inner(SubSeq(keys, 1, mid), SubSeq(kids, 1, mid + 1))
             high  == Inner(SubSeq(keys, mid + 2, total), RightKids(kids, mid))
         IN  /\ WellFormed(low) /\ low.leaf = FALSE
             /\ WellFormed(high) /\ high.leaf = FALSE
             /\ HalfFull(low) /\ HalfFull(high)
             /\ keys[mid + 1] \in Keys
             /\ CutAt(kids, mid + 1, low.kids, high.kids)
<1> DEFINE keys == InsertAt(n.keys, slot, key)
           kids == Joined(n.kids, slot, right)
           total == Len(keys)
           mid == Half(total)
<1>1. n \in Node /\ Len(n.kids) = Len(n.keys) + 1 /\ Len(n.keys) <= MaxKeys
  BY DEF WellFormed
<1>2. n.keys \in Seq(Keys) /\ n.kids \in Seq(Addresses) /\ Len(n.keys) \in Nat
  BY <1>1, NodeFields
<1>3. keys \in Seq(Keys) /\ Len(keys) = Len(n.keys) + 1
  BY <1>1, <1>2, InsertedAt
<1>4. kids \in Seq(Addresses) /\ Len(kids) = Len(n.kids) + 1
  BY <1>2, JoinedKids
<1>5. Len(keys) = MaxKeys + 1 /\ Len(kids) = MaxKeys + 2
  BY <1>1, <1>2, <1>3, <1>4, MaxKeysType DEF HasRoom
<1>6. /\ total = MaxKeys + 1 /\ mid = Half(MaxKeys + 1) /\ mid \in 1..MaxKeys
      /\ mid >= MaxKeys \div 2
      /\ total - mid - 1 <= MaxKeys /\ total - mid - 1 >= MaxKeys \div 2
      /\ Len(kids) - (mid + 1) = total - mid - 1 + 1
  <2>1. total = MaxKeys + 1 /\ mid = Half(MaxKeys + 1) /\ Len(kids) = MaxKeys + 2
    BY <1>5
  <2> HIDE DEF keys, kids, mid, total
  <2>2. /\ mid \in 1..MaxKeys /\ mid >= MaxKeys \div 2
        /\ total - mid - 1 >= MaxKeys \div 2
    BY ONLY <2>1, Halves, MaxKeysType
  <2>3. mid \in Nat /\ total - mid - 1 <= MaxKeys
    BY <2>1, <2>2, MaxKeysType
  <2>4. Len(kids) - (mid + 1) = total - mid - 1 + 1
    BY <2>1, <2>3, MaxKeysType
  <2> QED BY <2>1, <2>2, <2>3, <2>4
<1> HIDE DEF keys, kids, mid, total
<1>7. mid \in Nat /\ mid >= 1 /\ mid <= MaxKeys /\ MaxKeys \in Nat
  BY <1>6, MaxKeysType
<1>8. /\ 1 \in 1..Len(keys) + 1 /\ mid \in 1 - 1..Len(keys)
      /\ mid + 2 \in 1..Len(keys) + 1 /\ total \in mid + 2 - 1..Len(keys)
      /\ mid - 1 + 1 = mid /\ total - (mid + 2) + 1 = total - mid - 1
      /\ mid + 1 \in 1..Len(keys)
  <2>1. Len(keys) = MaxKeys + 1 /\ total = MaxKeys + 1
    BY <1>5, <1>6
  <2> QED BY <1>7, <2>1
<1>9. /\ 1 \in 1..Len(kids) + 1 /\ mid + 1 \in 1 - 1..Len(kids)
      /\ mid + 2 \in 1..Len(kids) + 1 /\ Len(kids) \in mid + 2 - 1..Len(kids)
      /\ mid + 1 - 1 + 1 = mid + 1
      /\ Len(kids) - (mid + 2) + 1 = Len(kids) - (mid + 1)
      /\ mid + 1 \in 1..Len(kids) /\ mid \in Nat
  <2>1. Len(kids) = MaxKeys + 2
    BY <1>5
  <2> QED BY <1>7, <2>1
<1>10. /\ SubSeq(keys, 1, mid) \in Seq(Keys) /\ Len(SubSeq(keys, 1, mid)) = mid
      /\ SubSeq(keys, mid + 2, total) \in Seq(Keys)
      /\ Len(SubSeq(keys, mid + 2, total)) = total - mid - 1
  <2> DEFINE m == mid + 2
  <2> HIDE DEF m
  <2>1. m \in 1..Len(keys) + 1 /\ total \in m - 1..Len(keys)
        /\ total - m + 1 = total - mid - 1
    BY <1>8 DEF m
  <2>2. SubSeq(keys, m, total) \in Seq(Keys) /\ Len(SubSeq(keys, m, total)) = total - m + 1
    BY <1>3, <2>1, PartOfSequence
  <2>3. SubSeq(keys, 1, mid) \in Seq(Keys) /\ Len(SubSeq(keys, 1, mid)) = mid - 1 + 1
    BY <1>3, <1>8, PartOfSequence
  <2> QED BY <2>1, <2>2, <2>3, <1>8 DEF m
<1>11. /\ SubSeq(kids, 1, mid + 1) \in Seq(Addresses)
       /\ Len(SubSeq(kids, 1, mid + 1)) = mid + 1
       /\ \A i \in 1..mid + 1 : SubSeq(kids, 1, mid + 1)[i] = kids[i]
  <2>1. /\ SubSeq(kids, 1, mid + 1) \in Seq(Addresses)
        /\ Len(SubSeq(kids, 1, mid + 1)) = mid + 1 - 1 + 1
        /\ \A i \in 1..mid + 1 - 1 + 1 : SubSeq(kids, 1, mid + 1)[i] = kids[1 + i - 1]
    BY <1>4, <1>9, PartOfSequence
  <2>2. mid + 1 - 1 + 1 = mid + 1 /\ \A i \in 1..mid + 1 : 1 + i - 1 = i
    BY <1>9
  <2> QED BY <2>1, <2>2
<1>12. /\ RightKids(kids, mid) \in Seq(Addresses)
       /\ Len(RightKids(kids, mid)) = Len(kids) - (mid + 1)
       /\ \A i \in 1..Len(kids) - (mid + 1) : RightKids(kids, mid)[i] = kids[mid + 1 + i]
  <2> DEFINE m == mid + 2
             n1 == Len(kids)
  <2> HIDE DEF m, n1
  <2>1. m \in 1..Len(kids) + 1 /\ n1 \in m - 1..Len(kids)
    BY <1>9 DEF m, n1
  <2>2. /\ SubSeq(kids, m, n1) \in Seq(Addresses)
        /\ Len(SubSeq(kids, m, n1)) = n1 - m + 1
        /\ \A i \in 1..n1 - m + 1 : SubSeq(kids, m, n1)[i] = kids[m + i - 1]
    BY <1>4, <2>1, PartOfSequence
  <2>3. RightKids(kids, mid) = SubSeq(kids, m, n1)
    BY DEF RightKids, m, n1
  <2>4. /\ n1 - m + 1 = Len(kids) - (mid + 1)
        /\ \A i \in 1..n1 - m + 1 : m + i - 1 = mid + 1 + i
    BY <1>9 DEF m, n1
  <2> QED BY <2>2, <2>3, <2>4
<1> DEFINE low  == Inner(SubSeq(keys, 1, mid), SubSeq(kids, 1, mid + 1))
           high == Inner(SubSeq(keys, mid + 2, total), RightKids(kids, mid))
<1>13. /\ low \in Node /\ low.leaf = FALSE /\ low.keys = SubSeq(keys, 1, mid)
       /\ low.kids = SubSeq(kids, 1, mid + 1) /\ low.next = Null
  BY ZenonT(30), <1>10, <1>11, InnerFields
<1>14. /\ high \in Node /\ high.leaf = FALSE /\ high.keys = SubSeq(keys, mid + 2, total)
       /\ high.kids = RightKids(kids, mid) /\ high.next = Null
  BY <1>10, <1>12, InnerFields
<1> HIDE DEF low, high
<1>15. Len(low.keys) = mid /\ Len(low.kids) = mid + 1 /\ mid <= MaxKeys
       /\ mid >= MaxKeys \div 2
  BY <1>6, <1>10, <1>11, <1>13, MaxKeysType
<1>16. /\ Len(high.keys) = total - mid - 1 /\ Len(high.kids) = Len(high.keys) + 1
       /\ Len(high.keys) <= MaxKeys /\ Len(high.keys) >= MaxKeys \div 2
  <2>1. Len(high.keys) = total - mid - 1 /\ Len(high.kids) = Len(kids) - (mid + 1)
    BY <1>10, <1>12, <1>14
  <2> QED BY <2>1, <1>6
<1>17. WellFormed(low) /\ HalfFull(low)
  BY <1>13, <1>15 DEF WellFormed, HalfFull
<1>18. WellFormed(high) /\ HalfFull(high)
  BY <1>14, <1>16 DEF WellFormed, HalfFull
<1>19. keys[mid + 1] \in Keys
  BY <1>3, <1>8, ElementOfSeq
<1>20. /\ Len(low.kids) = mid + 1 /\ \A i \in 1..mid + 1 : low.kids[i] = kids[i]
       /\ Len(high.kids) = Len(kids) - (mid + 1)
       /\ \A i \in 1..Len(kids) - (mid + 1) : high.kids[i] = kids[mid + 1 + i]
  BY <1>11, <1>12, <1>13, <1>14
<1>21. CutAt(kids, mid + 1, low.kids, high.kids)
  BY <1>9, <1>20 DEF CutAt
<1> QED BY <1>13, <1>14, <1>17, <1>18, <1>19, <1>21
        DEF low, high, mid, total, keys, kids

(***************************************************************************)
(* The children of a node.                                                 *)
(***************************************************************************)
Elements(s) == {s[i] : i \in 1..Len(s)}
NoTwice(s)  == \A i, j \in 1..Len(s) : s[i] = s[j] => i = j

Children(n) == Elements(n.kids)
Distinct(n) == NoTwice(n.kids)

LEMMA JoinedChildren ==
  ASSUME NEW kids \in Seq(Addresses), NoTwice(kids),
         NEW slot \in 1..Len(kids), NEW right \in Addresses, right \notin Elements(kids)
  PROVE  LET all == Joined(kids, slot, right)
         IN  /\ Len(all) = Len(kids) + 1
             /\ Elements(all) = Elements(kids) \cup {right}
             /\ NoTwice(all)
<1> DEFINE size == Len(kids)
           all == Joined(kids, slot, right)
<1>1. size \in Nat /\ slot \in 1..size
  BY LenProperties
<1>2. /\ Len(all) = size + 1
      /\ \A j \in 1..size + 1 : all[j] = IF j <= slot THEN kids[j]
                                          ELSE IF j = slot + 1 THEN right ELSE kids[j - 1]
  <2>1. Len(all) = Len(kids) + 1
    BY JoinedKids
  <2>2. \A j \in 1..Len(kids) + 1 :
          all[j] = IF j <= slot THEN kids[j]
                   ELSE IF j = slot + 1 THEN right ELSE kids[j - 1]
    BY JoinedKids
  <2> QED BY <2>1, <2>2
<1> HIDE DEF all
<1>3. /\ \A i \in 1..size : kids[i] # right /\ kids[i] \in Elements(kids)
      /\ \A x \in Elements(kids) : \E i \in 1..size : x = kids[i]
      /\ \A i, j \in 1..size : kids[i] = kids[j] => i = j
  BY DEF Elements, NoTwice
<1> HIDE DEF size
(* The place among the old children that a child comes from, 0 for right.  *)
<1> DEFINE from(p) == IF p <= slot THEN p ELSE IF p = slot + 1 THEN 0 ELSE p - 1
<1>4. \A p \in 1..size + 1 : \/ from(p) = 0 /\ p = slot + 1 /\ all[p] = right
                             \/ from(p) \in 1..size /\ all[p] = kids[from(p)]
  BY <1>1, <1>2
<1>5. \A p, q \in 1..size + 1 : from(p) = from(q) => p = q
  BY <1>1
<1>6. \A i \in 1..size : \E p \in 1..size + 1 : from(p) = i
  <2> SUFFICES ASSUME NEW i \in 1..size
               PROVE  \E p \in 1..size + 1 : from(p) = i
    OBVIOUS
  <2>1. i <= slot => i \in 1..size + 1 /\ from(i) = i
    BY <1>1
  <2>2. ~(i <= slot) => i + 1 \in 1..size + 1 /\ from(i + 1) = i
    BY <1>1
  <2> QED BY <2>1, <2>2
<1>7. slot + 1 \in 1..size + 1 /\ from(slot + 1) = 0 /\ 0 \notin 1..size
  BY <1>1
<1> HIDE DEF from
<1>8. \A p, q \in 1..size + 1 : all[p] = all[q] => p = q
  BY <1>3, <1>4, <1>5
<1>9. \A p \in 1..size + 1 : all[p] \in Elements(kids) \cup {right}
  BY <1>3, <1>4
<1>10. ASSUME NEW x \in Elements(kids) PROVE \E p \in 1..size + 1 : all[p] = x
  <2>1. PICK i \in 1..size : x = kids[i]
    BY <1>3
  <2>2. PICK p \in 1..size + 1 : from(p) = i
    BY <1>6
  <2>3. all[p] = x
    BY <2>1, <2>2, <1>4, <1>7
  <2> QED BY <2>3
<1>11. \E p \in 1..size + 1 : all[p] = right
  BY <1>4, <1>7
<1>12. Elements(all) = Elements(kids) \cup {right}
  <2>1. \A x : x \in Elements(all) <=> \E p \in 1..size + 1 : all[p] = x
    BY <1>2 DEF Elements
  <2> QED BY <2>1, <1>9, <1>10, <1>11
<1>13. NoTwice(all)
  BY <1>2, <1>8 DEF NoTwice
<1> QED BY <1>2, <1>12, <1>13 DEF all, size

LEMMA CutInTwo ==
  ASSUME NEW all, Len(all) \in Nat, NoTwice(all),
         NEW cut, NEW low, NEW high, CutAt(all, cut, low, high)
  PROVE  /\ Elements(low) \cup Elements(high) = Elements(all)
         /\ Elements(low) \cap Elements(high) = {}
         /\ NoTwice(low) /\ NoTwice(high)
<1> DEFINE size == Len(all)
<1>1. /\ size \in Nat /\ cut \in 1..size /\ Len(low) = cut
      /\ \A p, q \in 1..size : all[p] = all[q] => p = q
      /\ \A i \in 1..cut : low[i] = all[i]
      /\ Len(high) = size - cut
      /\ \A i \in 1..size - cut : high[i] = all[cut + i]
      /\ \A x : x \in Elements(all) <=> \E p \in 1..size : all[p] = x
  BY DEF NoTwice, Elements, CutAt
<1> HIDE DEF size
<1>2. \A i \in 1..cut : i \in 1..size
  BY <1>1
<1>3. \A i \in 1..size - cut : cut + i \in 1..size /\ cut + i \notin 1..cut
  BY <1>1
<1>4. NoTwice(low)
  BY <1>1, <1>2 DEF NoTwice
<1>5. NoTwice(high)
  <2> SUFFICES ASSUME NEW i \in 1..size - cut, NEW j \in 1..size - cut, high[i] = high[j]
               PROVE  i = j
    BY <1>1 DEF NoTwice
  <2>1. all[cut + i] = all[cut + j]
    BY <1>1
  <2>2. cut + i = cut + j
    BY <2>1, <1>1, <1>3
  <2> QED BY <2>2, <1>1
<1>6. \A x : x \in Elements(low) <=> \E p \in 1..cut : all[p] = x
  BY <1>1 DEF Elements
<1>7. \A x : x \in Elements(high) <=> \E i \in 1..size - cut : all[cut + i] = x
  <2>1. \A x : x \in Elements(high) <=> \E i \in 1..size - cut : high[i] = x
    BY <1>1 DEF Elements
  <2>2. ASSUME NEW x, NEW i \in 1..size - cut PROVE high[i] = x <=> all[cut + i] = x
    BY <1>1
  <2> QED BY <2>1, <2>2
<1>8. \A x : x \in Elements(high) => \E p \in 1..size : p \notin 1..cut /\ all[p] = x
  BY <1>3, <1>7
<1>9. Elements(low) \cap Elements(high) = {}
  BY <1>1, <1>2, <1>6, <1>8
<1>10. ASSUME NEW p \in 1..size PROVE all[p] \in Elements(low) \cup Elements(high)
  <2>1. CASE p \in 1..cut
    BY <2>1, <1>6
  <2>2. CASE p \notin 1..cut
    <3> DEFINE i == p - cut
    <3>1. i \in 1..size - cut /\ cut + i = p
      BY <2>2, <1>1
    <3> HIDE DEF i
    <3> QED BY <3>1, <1>7
  <2> QED BY <2>1, <2>2
<1>11. Elements(low) \cup Elements(high) = Elements(all)
  BY <1>1, <1>2, <1>6, <1>8, <1>10
<1> QED BY <1>4, <1>5, <1>9, <1>11

(***************************************************************************)
(* Heaps.  In the shape of a tree every node has a level: that of a leaf   *)
(* is 0, that of a parent one more than that of each child, so that all    *)
(* ways down to a leaf are equally long.  No node is the child of two, and *)
(* along the linked leaves a rank gets less and less.                      *)
(***************************************************************************)
Alloc(h) == {a \in Addresses : h[a] # Free}

SameBut(g, h, a, b) == \A x \in Addresses \ {a, b} : g[x] = h[x]
Raised(level, b, n) == [level EXCEPT ![b] = n]

Heap   == [Addresses -> Node \cup {Free}]
Levels == [Addresses -> Nat]

Placed(h, level, a) ==
  /\ WellFormed(h[a]) /\ Distinct(h[a])
  /\ h[a].leaf => level[a] = 0
  /\ \A x \in Children(h[a]) : x \in Alloc(h) /\ level[x] + 1 = level[a]

Apart(m, n) == Children(m) \cap Children(n) = {}

Shape(h, level) ==
  /\ h \in Heap /\ level \in Levels
  /\ \A a \in Alloc(h) : Placed(h, level, a)
  /\ \A a, b \in Alloc(h) : a # b => Apart(h[a], h[b])

Owned(h, x) == \E a \in Alloc(h) : x \in Children(h[a])

Linked(h, rank, a) ==
  h[a].next # Null => /\ h[a].next \in Alloc(h) /\ h[h[a].next].leaf
                      /\ rank[h[a].next] < rank[a]

Chained(h, rank) == /\ rank \in [Addresses -> Nat]
                    /\ \A a \in Alloc(h) : h[a].leaf => Linked(h, rank, a)

Filled(h, top) == \A a \in Alloc(h) \ {top} : HalfFull(h[a])

LEMMA NodeInHeap ==
  ASSUME NEW h, NEW level, Shape(h, level), NEW a \in Alloc(h)
  PROVE  /\ a \in Addresses /\ h[a] \in Node /\ WellFormed(h[a]) /\ Placed(h, level, a)
         /\ h[a].kids \in Seq(Addresses) /\ Len(h[a].kids) \in Nat /\ level[a] \in Nat
         /\ Distinct(h[a]) /\ Children(h[a]) \subseteq Alloc(h)
<1>1. Placed(h, level, a) /\ a \in Addresses /\ level[a] \in Nat
  BY DEF Shape, Alloc, Levels
<1>2. WellFormed(h[a]) /\ h[a] \in Node /\ Distinct(h[a]) /\ Children(h[a]) \subseteq Alloc(h)
  BY <1>1 DEF Placed, WellFormed
<1> QED BY <1>1, <1>2, NodeFields

LEMMA WellFormedIsNode ==
  ASSUME NEW n, WellFormed(n)
  PROVE  /\ n \in Node /\ n # Free /\ n.leaf \in BOOLEAN
         /\ n.leaf => Children(n) = {} /\ Distinct(n)
         /\ ~n.leaf => n.next = Null
<1>1. n \in Node /\ n # Free /\ n.leaf \in BOOLEAN
  BY NodeFields DEF WellFormed
<1>2. n.leaf => Len(n.kids) = 0
  BY EmptySeq DEF WellFormed
<1>3. n.leaf => Children(n) = {} /\ Distinct(n)
  BY <1>2 DEF Children, Distinct, Elements, NoTwice
<1> QED BY <1>1, <1>3 DEF WellFormed

(***************************************************************************)
(* A step writes the nodes at D.  They have the children that stood there  *)
(* before, and those in New, which were nobody's.                          *)
(***************************************************************************)
Written(h, level, g, level2, D) ==
  /\ g \in Heap /\ level2 \in Levels
  /\ \A x \in Addresses \ D : g[x] = h[x]
  /\ \A x \in Alloc(h) : x \in Alloc(g) /\ level2[x] = level[x]
  /\ \A x \in D : x \in Alloc(g) /\ Placed(g, level2, x)
  /\ \A x, y \in D : x # y => Apart(g[x], g[y])

Regrouped(h, g, D, New) ==
  /\ \A y : (\E x \in D : y \in Children(g[x]))
               <=> (\E x \in D \cap Alloc(h) : y \in Children(h[x])) \/ y \in New
  /\ \A y \in New : ~Owned(h, y)

LEMMA StaysInShape ==
  ASSUME NEW h, NEW level, Shape(h, level), NEW g, NEW level2, NEW D, NEW New,
         Written(h, level, g, level2, D), Regrouped(h, g, D, New)
  PROVE  /\ Shape(g, level2)
         /\ \A x : Owned(g, x) <=> Owned(h, x) \/ x \in New
<1>1. \A x \in Alloc(g) \ D : g[x] = h[x] /\ x \in Alloc(h)
  BY DEF Alloc, Written
<1>2. \A x \in Alloc(h) \ D : g[x] = h[x] /\ x \in Alloc(g)
  BY DEF Alloc, Written
<1>3. ASSUME NEW x \in Alloc(g) PROVE Placed(g, level2, x)
  <2>1. CASE x \in D
    BY <2>1 DEF Written
  <2>2. CASE x \notin D
    <3>1. g[x] = h[x] /\ x \in Alloc(h)
      BY <2>2, <1>1
    <3>2. Placed(h, level, x)
      BY <3>1 DEF Shape
    <3> QED BY <3>1, <3>2 DEF Placed, Written
  <2> QED BY <2>1, <2>2
<1>4. ASSUME NEW x \in D, NEW y \in Alloc(h) \ D PROVE Apart(g[x], h[y])
  <2> SUFFICES ASSUME NEW z \in Children(g[x]), z \in Children(h[y]) PROVE FALSE
    BY DEF Apart
  <2>1. (\E w \in D \cap Alloc(h) : z \in Children(h[w])) \/ z \in New
    BY DEF Regrouped
  <2>2. z \notin New
    BY DEF Regrouped, Owned
  <2>3. PICK w \in D \cap Alloc(h) : z \in Children(h[w])
    BY <2>1, <2>2
  <2> QED BY <2>3 DEF Shape, Apart
<1>5. ASSUME NEW x \in Alloc(g), NEW y \in Alloc(g), x # y PROVE Apart(g[x], g[y])
  <2>1. CASE x \in D /\ y \in D
    BY <2>1, <1>5 DEF Written
  <2>2. CASE x \in D /\ y \notin D
    BY <2>2, <1>1, <1>4
  <2>3. CASE x \notin D /\ y \in D
    <3>1. Apart(g[y], g[x])
      BY <2>3, <1>1, <1>4
    <3> QED BY <3>1 DEF Apart
  <2>4. CASE x \notin D /\ y \notin D
    BY <2>4, <1>1, <1>5 DEF Shape
  <2> QED BY <2>1, <2>2, <2>3, <2>4
<1>6. ASSUME NEW x, Owned(g, x) PROVE Owned(h, x) \/ x \in New
  <2>1. PICK c \in Alloc(g) : x \in Children(g[c])
    BY <1>6 DEF Owned
  <2>2. CASE c \in D
    BY <2>1, <2>2 DEF Regrouped, Owned
  <2>3. CASE c \notin D
    BY <2>1, <2>3, <1>1 DEF Owned
  <2> QED BY <2>2, <2>3
<1>7. ASSUME NEW x, Owned(h, x) \/ x \in New PROVE Owned(g, x)
  <2>1. CASE \E c \in D : x \in Children(g[c])
    BY <2>1 DEF Owned, Written
  <2>2. CASE x \in New
    BY <2>1, <2>2 DEF Regrouped
  <2>3. CASE Owned(h, x)
    <3>1. PICK c \in Alloc(h) : x \in Children(h[c])
      BY <2>3 DEF Owned
    <3>2. CASE c \in D
      BY <3>1, <3>2, <2>1 DEF Regrouped
    <3>3. CASE c \notin D
      BY <3>1, <3>3, <1>2 DEF Owned
    <3> QED BY <3>2, <3>3
  <2> QED BY <1>7, <2>2, <2>3
<1> QED BY <1>3, <1>5, <1>6, <1>7 DEF Shape, Written

(* The chain of leaves stays when leaves keep their place and successor.   *)
LEMMA ChainStays ==
  ASSUME NEW h, NEW rank, Chained(h, rank), NEW g, Alloc(h) \subseteq Alloc(g),
         \A x \in Alloc(g) : g[x].leaf =>
            x \in Alloc(h) /\ h[x].leaf /\ g[x].next = h[x].next,
         \A x \in Alloc(h) : h[x].leaf => g[x].leaf
  PROVE  Chained(g, rank)
  BY DEF Chained, Linked

(***************************************************************************)
(* What the writes of the code do.  An entry is put in a leaf.             *)
(***************************************************************************)
LEMMA LeafGrows ==
  ASSUME NEW h, NEW level, NEW rank, Shape(h, level), Chained(h, rank),
         NEW a \in Alloc(h), h[a].leaf, NEW m, WellFormed(m), m.leaf = TRUE,
         m.next = h[a].next, NEW g, g = [h EXCEPT ![a] = m]
  PROVE  /\ Shape(g, level) /\ Chained(g, rank) /\ Alloc(g) = Alloc(h)
         /\ \A x : Owned(g, x) <=> Owned(h, x)
<1>1. a \in Addresses /\ h \in Heap /\ level \in Levels /\ level[a] = 0
      /\ WellFormed(h[a])
  BY NodeInHeap DEF Shape, Placed
<1>2. /\ m \in Node /\ m # Free /\ Children(m) = {} /\ Distinct(m)
      /\ Children(h[a]) = {}
  BY <1>1, WellFormedIsNode
<1>3. g[a] = m /\ \A x \in Addresses \ {a} : g[x] = h[x]
  BY <1>1 DEF Heap
<1>4. g \in Heap
  BY <1>1, <1>2 DEF Heap
<1>5. Alloc(g) = Alloc(h)
  BY <1>2, <1>3 DEF Alloc
<1>6. Placed(g, level, a)
  BY <1>1, <1>2, <1>3 DEF Placed
<1>7. Written(h, level, g, level, {a})
  BY <1>1, <1>3, <1>4, <1>5, <1>6 DEF Written
<1>8. Regrouped(h, g, {a}, {})
  BY <1>2, <1>3 DEF Regrouped
<1>9. Shape(g, level) /\ \A x : Owned(g, x) <=> Owned(h, x)
  BY ZenonT(30), <1>7, <1>8, StaysInShape
<1>10. Chained(g, rank)
  <2>1. \A x \in Alloc(h) : g[x].next = h[x].next /\ (g[x].leaf <=> h[x].leaf)
    BY <1>3 DEF Alloc
  <2> QED BY <2>1, <1>5, ChainStays
<1> QED BY <1>5, <1>9, <1>10

(* A leaf is split: the new one, at b, is linked behind it.                *)
RankBehind(rank, a, b) ==
  [x \in Addresses |-> IF x = b THEN 2 * rank[a] + 1 ELSE 2 * rank[x] + 2]

LEMMA ChainGrows ==
  ASSUME NEW h, NEW rank, h \in Heap, Chained(h, rank), NEW a \in Alloc(h), h[a].leaf,
         NEW b \in Addresses \ Alloc(h), NEW g, Alloc(g) = Alloc(h) \cup {b},
         g[a].next = b, g[b].leaf, g[b].next = h[a].next, g[a].leaf,
         \A x \in Addresses \ {a, b} : g[x] = h[x]
  PROVE  Chained(g, RankBehind(rank, a, b))
<1> DEFINE rank2 == RankBehind(rank, a, b)
<1>1. a \in Addresses /\ b \in Addresses /\ a # b /\ rank \in [Addresses -> Nat]
  BY DEF Chained, Alloc
<1>2. /\ rank2 \in [Addresses -> Nat] /\ rank2[b] = 2 * rank[a] + 1
      /\ \A x \in Addresses \ {b} : rank2[x] = 2 * rank[x] + 2
      /\ \A x \in Addresses : rank[x] \in Nat /\ rank2[x] \in Nat
  BY <1>1 DEF RankBehind
<1> HIDE DEF rank2
<1>3. ASSUME NEW y \in Alloc(h), h[y].leaf, h[y].next # Null
      PROVE  /\ h[y].next \in Alloc(g) /\ g[h[y].next].leaf
             /\ rank2[h[y].next] <= 2 * rank[y]
  <2>1. h[y].next \in Alloc(h) /\ h[h[y].next].leaf /\ rank[h[y].next] < rank[y]
    BY <1>3 DEF Chained, Linked
  <2>2. h[y].next # b /\ h[y].next \in Addresses /\ y \in Addresses
    BY <2>1 DEF Alloc
  <2>3. g[h[y].next].leaf
    BY <2>1, <2>2
  <2>4. rank2[h[y].next] <= 2 * rank[y]
    <3>1. \A p, q, r \in Nat : p < q /\ r = 2 * p + 2 => r <= 2 * q
      OBVIOUS
    <3> QED BY <2>1, <2>2, <3>1, <1>2
  <2> QED BY <2>1, <2>3, <2>4
<1>4. ASSUME NEW x \in Alloc(g), g[x].leaf PROVE Linked(g, rank2, x)
  <2>1. CASE x = a
    <3>1. rank2[b] < rank2[a]
      BY <1>1, <1>2
    <3> QED BY <2>1, <3>1 DEF Linked
  <2>2. CASE x = b
    <3>1. h[a].next # Null => /\ h[a].next \in Alloc(g) /\ g[h[a].next].leaf
                              /\ rank2[h[a].next] <= 2 * rank[a]
      BY <1>3
    <3>2. h[a].next # Null => rank2[h[a].next] < rank2[x]
      <4>1. \A p, q, r \in Nat : p <= 2 * q /\ r = 2 * q + 1 => p < r
        OBVIOUS
      <4> QED BY <2>2, <3>1, <4>1, <1>1, <1>2 DEF Alloc
    <3> QED BY <2>2, <3>1, <3>2 DEF Linked
  <2>3. CASE x \notin {a, b}
    <3>1. g[x] = h[x] /\ x \in Alloc(h) /\ x \in Addresses /\ h[x].leaf
      BY <2>3, <1>4 DEF Alloc
    <3>2. h[x].next # Null => /\ h[x].next \in Alloc(g) /\ g[h[x].next].leaf
                              /\ rank2[h[x].next] <= 2 * rank[x]
      BY <3>1, <1>3
    <3>3. h[x].next # Null => rank2[h[x].next] < rank2[x]
      <4>1. \A p, q, r \in Nat : p <= 2 * q /\ r = 2 * q + 2 => p < r
        OBVIOUS
      <4> QED BY <2>3, <3>1, <3>2, <4>1, <1>2 DEF Alloc
    <3> QED BY <3>1, <3>2, <3>3 DEF Linked
  <2> QED BY <2>1, <2>2, <2>3
<1> QED BY <1>2, <1>4 DEF Chained, rank2

LEMMA LeafSplits ==
  ASSUME NEW h, NEW level, Shape(h, level),
         NEW a \in Alloc(h), h[a].leaf, NEW b \in Addresses \ Alloc(h),
         NEW g \in Heap, WellFormed(g[a]), g[a].leaf = TRUE,
         WellFormed(g[b]), g[b].leaf = TRUE, SameBut(g, h, a, b)
  PROVE  /\ Shape(g, Raised(level, b, 0))
         /\ \A x : Owned(g, x) <=> Owned(h, x)
<1> USE DEF SameBut
<1> DEFINE level2 == Raised(level, b, 0)
<1>1. a \in Addresses /\ b \in Addresses /\ a # b /\ h \in Heap /\ level \in Levels
      /\ level[a] = 0 /\ WellFormed(h[a])
  BY NodeInHeap DEF Shape, Placed
<1>2. /\ g[a] \in Node /\ g[a] # Free /\ Children(g[a]) = {} /\ Distinct(g[a])
      /\ g[b] \in Node /\ g[b] # Free /\ Children(g[b]) = {} /\ Distinct(g[b])
      /\ Children(h[a]) = {}
  BY <1>1, WellFormedIsNode
<1>3. Alloc(g) = Alloc(h) \cup {b}
  BY <1>1, <1>2 DEF Alloc
<1>4. /\ level2 \in Levels /\ level2[b] = 0
      /\ \A x \in Alloc(h) : level2[x] = level[x] /\ x \in Alloc(g)
  BY <1>1, <1>3 DEF Alloc, Levels, Raised
<1> HIDE DEF level2
<1>5. Placed(g, level2, a) /\ Placed(g, level2, b)
  BY <1>1, <1>2, <1>4 DEF Placed
<1>6. Written(h, level, g, level2, {a, b})
  <2>1. Apart(g[a], g[b]) /\ Apart(g[b], g[a])
    BY <1>2 DEF Apart
  <2> QED BY <2>1, <1>3, <1>4, <1>5 DEF Written
<1>7. Regrouped(h, g, {a, b}, {})
  BY <1>2 DEF Regrouped
<1>8. Shape(g, level2) /\ \A x : Owned(g, x) <=> Owned(h, x)
  <2> DEFINE D == {a, b}
             New == {}
  <2>1. Written(h, level, g, level2, D) /\ Regrouped(h, g, D, New)
    BY <1>6, <1>7
  <2> HIDE DEF D
  <2>2. /\ Shape(g, level2)
        /\ \A x : Owned(g, x) <=> Owned(h, x) \/ x \in New
    BY <2>1, StaysInShape
  <2> QED BY <2>2
<1> QED BY <1>8 DEF level2

(* A node that was nobody's becomes the child behind that at slot.         *)
Joins(h, level, a, slot, r) ==
  /\ a \in Alloc(h) /\ ~h[a].leaf /\ slot \in 1..Len(h[a].kids)
  /\ r \in Alloc(h) /\ ~Owned(h, r) /\ level[r] + 1 = level[a]

OwnsAlso(g, h, r) == \A x : Owned(g, x) <=> Owned(h, x) \/ x = r

LEMMA InnerGrows ==
  ASSUME NEW h, NEW level, Shape(h, level),
         NEW a, NEW slot, NEW r, Joins(h, level, a, slot, r),
         NEW g \in Heap, WellFormed(g[a]), g[a].leaf = FALSE,
         g[a].kids = Joined(h[a].kids, slot, r), SameBut(g, h, a, a)
  PROVE  /\ Shape(g, level)
         /\ OwnsAlso(g, h, r)
<1> USE DEF SameBut, Joins
<1>1. /\ a \in Addresses /\ level \in Levels /\ r \in Addresses
      /\ h[a].kids \in Seq(Addresses) /\ Distinct(h[a])
      /\ \A x \in Children(h[a]) : x \in Alloc(h) /\ level[x] + 1 = level[a]
  BY NodeInHeap DEF Shape, Placed, Alloc
<1>2. g[a] \in Node /\ g[a] # Free
  BY WellFormedIsNode
<1>3. Alloc(g) = Alloc(h)
  BY <1>1, <1>2 DEF Alloc
<1>4. Children(g[a]) = Children(h[a]) \cup {r} /\ Distinct(g[a])
  <2> DEFINE kids == h[a].kids
  <2>1. kids \in Seq(Addresses) /\ NoTwice(kids) /\ r \notin Elements(kids)
    BY <1>1 DEF Distinct, Children, Owned
  <2>2. Elements(g[a].kids) = Elements(kids) \cup {r} /\ NoTwice(g[a].kids)
    <3>1. slot \in 1..Len(kids) /\ g[a].kids = Joined(kids, slot, r)
      OBVIOUS
    <3> HIDE DEF kids
    <3> QED BY <3>1, <2>1, <1>1, JoinedChildren
  <2> QED BY <2>2 DEF Children, Distinct
<1>5. Placed(g, level, a)
  BY <1>1, <1>3, <1>4 DEF Placed
<1>6. Written(h, level, g, level, {a})
  BY <1>1, <1>3, <1>5 DEF Written
<1>7. Regrouped(h, g, {a}, {r})
  BY <1>4 DEF Regrouped
<1>8. Shape(g, level) /\ \A x : Owned(g, x) <=> Owned(h, x) \/ x = r
  <2> DEFINE D == {a}
             New == {r}
  <2>1. Written(h, level, g, level, D) /\ Regrouped(h, g, D, New)
    BY <1>6, <1>7
  <2> HIDE DEF D, New
  <2>2. Shape(g, level) /\ \A x : Owned(g, x) <=> Owned(h, x) \/ x \in New
    BY <2>1, StaysInShape
  <2> QED BY <2>2 DEF New
<1> QED BY <1>8 DEF OwnsAlso

(* An inner node is split: the last of its children and the new one go to  *)
(* a new node at b, which is nobody's yet.                                 *)
LEMMA InnerSplits ==
  ASSUME NEW h, NEW level, Shape(h, level),
         NEW a, NEW slot, NEW r, Joins(h, level, a, slot, r),
         NEW b \in Addresses \ Alloc(h), NEW cut,
         NEW g \in Heap, WellFormed(g[a]), g[a].leaf = FALSE,
         WellFormed(g[b]), g[b].leaf = FALSE,
         CutAt(Joined(h[a].kids, slot, r), cut, g[a].kids, g[b].kids),
         SameBut(g, h, a, b)
  PROVE  /\ Shape(g, Raised(level, b, level[a]))
         /\ OwnsAlso(g, h, r)
<1> USE DEF SameBut, Joins
<1> DEFINE level2 == Raised(level, b, level[a])
           kids == h[a].kids
           all == Joined(kids, slot, r)
<1>1. /\ a \in Addresses /\ level \in Levels /\ r \in Addresses /\ a # b
      /\ kids \in Seq(Addresses) /\ Distinct(h[a]) /\ Len(kids) \in Nat
      /\ level[a] \in Nat
      /\ \A x \in Children(h[a]) : x \in Alloc(h) /\ level[x] + 1 = level[a]
  BY NodeInHeap DEF Shape, Placed, Alloc
<1>2. g[a] \in Node /\ g[a] # Free /\ g[b] \in Node /\ g[b] # Free
  BY WellFormedIsNode
<1>3. Alloc(g) = Alloc(h) \cup {b}
  BY <1>1, <1>2 DEF Alloc
<1>4. /\ level2 \in Levels /\ level2[b] = level[a] /\ level2[a] = level[a]
      /\ \A x \in Alloc(h) : level2[x] = level[x] /\ x \in Alloc(g)
  BY <1>1, <1>3 DEF Alloc, Levels, Raised
<1> HIDE DEF level2
<1>5. /\ Children(g[a]) \cup Children(g[b]) = Children(h[a]) \cup {r}
      /\ Children(g[a]) \cap Children(g[b]) = {} /\ Distinct(g[a]) /\ Distinct(g[b])
  <2>1. NoTwice(kids) /\ r \notin Elements(kids) /\ slot \in 1..Len(kids)
    BY <1>1 DEF Distinct, Children, Owned
  <2>2. CutAt(all, cut, g[a].kids, g[b].kids)
    OBVIOUS
  <2>3. Children(h[a]) = Elements(kids)
    BY DEF Children
  <2> HIDE DEF kids
  <2>4. /\ Len(all) = Len(kids) + 1 /\ Elements(all) = Elements(kids) \cup {r}
        /\ NoTwice(all)
    BY <2>1, <1>1, JoinedChildren
  <2>5. Len(all) \in Nat
    BY <2>4, <1>1
  <2> DEFINE front == g[a].kids
             back  == g[b].kids
  <2> HIDE DEF all, front, back
  <2>6. /\ Elements(front) \cup Elements(back) = Elements(all)
        /\ Elements(front) \cap Elements(back) = {}
        /\ NoTwice(front) /\ NoTwice(back)
    BY <2>2, <2>4, <2>5, CutInTwo DEF front, back
  <2> QED BY <2>3, <2>4, <2>6 DEF front, back, Children, Distinct
<1> HIDE DEF kids, all
<1>6. ASSUME NEW x \in Children(g[a]) \cup Children(g[b])
      PROVE  x \in Alloc(g) /\ level2[x] + 1 = level[a]
  <2>1. x \in Alloc(h) /\ level[x] + 1 = level[a]
    BY <1>1, <1>5
  <2> QED BY <2>1, <1>4
<1>7. Placed(g, level2, a) /\ Placed(g, level2, b)
  BY <1>4, <1>5, <1>6 DEF Placed
<1>8. Written(h, level, g, level2, {a, b})
  <2>1. Apart(g[a], g[b]) /\ Apart(g[b], g[a])
    BY <1>5 DEF Apart
  <2> QED BY <2>1, <1>3, <1>4, <1>7 DEF Written
<1>9. Regrouped(h, g, {a, b}, {r})
  BY <1>5 DEF Regrouped
<1>10. Shape(g, level2) /\ \A x : Owned(g, x) <=> Owned(h, x) \/ x = r
  <2> DEFINE D == {a, b}
             New == {r}
  <2>1. Written(h, level, g, level2, D) /\ Regrouped(h, g, D, New)
    BY <1>8, <1>9
  <2> HIDE DEF D, New
  <2>2. Shape(g, level2) /\ \A x : Owned(g, x) <=> Owned(h, x) \/ x \in New
    BY <2>1, StaysInShape
  <2> QED BY <2>2 DEF New
<1> QED BY <1>10 DEF level2, OwnsAlso

(* The root and its new sibling get a new root above them.                 *)
OwnsBoth(g, h, a, b) == \A x : Owned(g, x) <=> Owned(h, x) \/ x = a \/ x = b

LEMMA RootGrows ==
  ASSUME NEW h, NEW level, Shape(h, level),
         NEW top \in Alloc(h), ~Owned(h, top),
         NEW r \in Alloc(h), ~Owned(h, r), r # top, level[r] = level[top],
         NEW b \in Addresses \ Alloc(h), NEW g \in Heap, WellFormed(g[b]),
         g[b].leaf = FALSE, g[b].kids = <<top, r>>, SameBut(g, h, b, b)
  PROVE  /\ Shape(g, Raised(level, b, level[top] + 1))
         /\ OwnsBoth(g, h, top, r)
<1> USE DEF SameBut
<1> DEFINE level2 == Raised(level, b, level[top] + 1)
<1>1. top \in Addresses /\ r \in Addresses /\ level \in Levels /\ level[top] \in Nat
  BY NodeInHeap DEF Shape, Alloc
<1>2. g[b] \in Node /\ g[b] # Free
  BY WellFormedIsNode
<1>3. Alloc(g) = Alloc(h) \cup {b}
  BY <1>2 DEF Alloc
<1>4. /\ level2 \in Levels /\ level2[b] = level[top] + 1
      /\ \A x \in Alloc(h) : level2[x] = level[x] /\ x \in Alloc(g)
  BY <1>1, <1>3 DEF Alloc, Levels, Raised
<1> HIDE DEF level2
<1>5. Children(g[b]) = {top, r} /\ Distinct(g[b])
  BY DEF Children, Distinct, Elements, NoTwice
<1>6. Placed(g, level2, b)
  BY <1>4, <1>5 DEF Placed
<1>7. Written(h, level, g, level2, {b})
  BY <1>3, <1>4, <1>6 DEF Written
<1>8. Regrouped(h, g, {b}, {top, r})
  BY <1>5 DEF Regrouped
<1>9. Shape(g, level2) /\ \A x : Owned(g, x) <=> Owned(h, x) \/ x = top \/ x = r
  <2> DEFINE D == {b}
             New == {top, r}
  <2>1. Written(h, level, g, level2, D) /\ Regrouped(h, g, D, New)
    BY <1>7, <1>8
  <2> HIDE DEF D, New
  <2>2. Shape(g, level2) /\ \A x : Owned(g, x) <=> Owned(h, x) \/ x \in New
    BY <2>1, StaysInShape
  <2> QED BY <2>2 DEF New
<1> QED BY <1>9 DEF level2, OwnsBoth

(***************************************************************************)
(* The inductive invariant.  Every node but the root is half full, the     *)
(* root hangs from nothing and is on the highest level.  An insertion that *)
(* is under way has come down from the root, one level with each step, and *)
(* on its way back holds a node that hangs from nothing and belongs one    *)
(* level below the end of its trail.  As long as no split was left         *)
(* unlinked, there is no other node that hangs from nothing.               *)
(***************************************************************************)
Tree(h, top, level, rank) ==
  /\ Shape(h, level) /\ Chained(h, rank) /\ Filled(h, top)
  /\ top \in Alloc(h) \cup {Null}
  /\ top # Null => ~Owned(h, top) /\ \A a \in Alloc(h) : level[a] <= level[top]

Passed(h, level, top, step, i) ==
  /\ step.node \in Alloc(h) /\ ~h[step.node].leaf
  /\ step.slot \in 1..Len(h[step.node].kids)
  /\ level[step.node] + i = level[top] + 1

Steps == [node : Addresses, slot : Nat]

Trail(h, level, top, s) ==
  /\ s \in Seq(Steps)
  /\ \A i \in 1..Len(s) : Passed(h, level, top, s[i], i)
  /\ s # <<>> => s[1].node = top

Below(level, top, s, a) == level[a] + Len(s) = level[top]

Unlinked(h, top, s, part) ==
  /\ part \in [key : Keys, right : Addresses]
  /\ part.right \in Alloc(h) \ {top} /\ ~Owned(h, part.right)
  /\ s = <<>> => HalfFull(h[top])

NoneLost(h, top, Waiting) == \A a \in Alloc(h) \ {top} : Owned(h, a) \/ a \in Waiting

OnTheWay(level) ==
  /\ pc # "idle" => Trail(heap, level, root, trail)
  /\ pc = "down" => Below(level, root, trail, at)
  /\ pc = "up"   => Below(level, root, trail, split.right)

TreeInv ==
  /\ pc \in {"idle", "down", "up"} /\ result \in {0, 1, -1} /\ sinceCut \in Nat
  /\ pc = "idle" => trail = <<>>
  /\ pc # "idle" => root \in Alloc(heap) /\ arg \in Entries /\ at \in Alloc(heap)
  /\ pc = "down" /\ trail = <<>> => at = root
  /\ pc = "up" => Unlinked(heap, root, trail, split)
  /\ sinceCut = 0 => NoneLost(heap, root, IF pc = "up" THEN {split.right} ELSE {})
  /\ \E level, rank : Tree(heap, root, level, rank) /\ OnTheWay(level)

LEMMA EntryFields == \A e \in Entries : e.key \in Keys /\ e.key \in Nat /\ e.ref \in Refs
  BY TreeAssumption DEF Refs

LEMMA NewIsFree ==
  ASSUME CanAllocate
  PROVE  NewAddress \in Addresses \ Alloc(heap)
<1>1. FreeAddresses \in SUBSET Nat /\ FreeAddresses # {}
  BY TreeAssumption DEF FreeAddresses, CanAllocate
<1>2. \E a \in FreeAddresses : \A b \in FreeAddresses : a <= b
  BY <1>1, LeastNumber
<1>3. NewAddress \in FreeAddresses
  BY <1>2 DEF NewAddress
<1> QED BY <1>3 DEF FreeAddresses, Alloc

(* An insertion returns and leaves a tree.                                 *)
LEMMA Returned ==
  ASSUME NEW rc \in {0, 1, -1}, Return(rc), sinceCut' \in Nat,
         NEW level, NEW rank, Tree(heap', root', level, rank),
         sinceCut' = 0 => NoneLost(heap', root', {})
  PROVE  TreeInv'
<1>1. /\ pc' = "idle" /\ result' = rc /\ trail' = <<>>
  BY DEF Return
<1>2. OnTheWay(level)'
  BY <1>1 DEF OnTheWay
<1>3. (\E l, r : Tree(heap, root, l, r) /\ OnTheWay(l))'
  BY <1>2
<1> QED BY <1>1, <1>3 DEF TreeInv

(* Nothing hangs from an empty heap, or from a lone leaf.                  *)
LEMMA FreshTree ==
  ASSUME NEW h \in Heap, NEW top \in Pointers,
         top # Null => h[top] = Leaf(<<>>, <<>>, Null),
         \A a \in Addresses \ {top} : h[a] = Free
  PROVE  /\ Tree(h, top, [a \in Addresses |-> 0], [a \in Addresses |-> 0])
         /\ NoneLost(h, top, {})
<1> DEFINE zero == [a \in Addresses |-> 0]
           first == Leaf(<<>>, <<>>, Null)
<1>1. zero \in Levels /\ zero \in [Addresses -> Nat] /\ \A a \in Addresses : zero[a] = 0
  BY DEF Levels
<1> HIDE DEF zero
<1>2. Null \notin Addresses /\ MaxKeys \in Nat
  BY TreeAssumption
<1>3. \A a \in Alloc(h) : a = top /\ h[a] = first /\ top # Null
  BY <1>2 DEF Alloc
<1>4. /\ first \in Node /\ first.leaf = TRUE /\ first.next = Null /\ first.kids = <<>>
      /\ first.keys = <<>> /\ first.refs = <<>>
  <2>1. <<>> \in Seq(Keys) /\ <<>> \in Seq(Refs) /\ Null \in Pointers
    BY EmptySeq DEF Pointers
  <2>2. first \in Node
    BY <2>1, LeafIsNode
  <2> QED BY <2>2 DEF Leaf
<1> HIDE DEF first
<1>5. WellFormed(first)
  <2>1. Len(first.keys) = 0 /\ Len(first.refs) = 0
    BY <1>4, EmptySeq
  <2> QED BY <1>2, <1>4, <2>1 DEF WellFormed
<1>6. Children(first) = {} /\ Distinct(first) /\ first # Free
  BY <1>4, <1>5, WellFormedIsNode
<1>7. \A a \in Alloc(h) : a \in Addresses /\ Placed(h, zero, a)
  BY <1>1, <1>3, <1>4, <1>5, <1>6 DEF Placed, Alloc
<1>8. Shape(h, zero)
  BY <1>1, <1>3, <1>7 DEF Shape
<1>9. Chained(h, zero)
  BY <1>1, <1>3, <1>4 DEF Chained, Linked
<1>10. Filled(h, top) /\ NoneLost(h, top, {})
  BY <1>3 DEF Filled, NoneLost
<1>11. \A x : ~Owned(h, x)
  BY <1>3, <1>6 DEF Owned
<1>12. top \in Alloc(h) \cup {Null}
  BY <1>6 DEF Alloc, Pointers, first
<1>13. \A a \in Alloc(h) : zero[a] <= zero[top]
  BY <1>1, <1>3, <1>7
<1> QED BY <1>8, <1>9, <1>10, <1>11, <1>12, <1>13 DEF Tree, zero

LEMMA InitTree == Init => TreeInv
<1> SUFFICES ASSUME Init PROVE TreeInv
  OBVIOUS
<1> DEFINE zero == [a \in Addresses |-> 0]
<1>1. heap \in Heap /\ root = Null /\ root \in Pointers /\ \A a \in Addresses : heap[a] = Free
  BY DEF Init, Heap, Pointers
<1>2. Tree(heap, root, zero, zero) /\ NoneLost(heap, root, {})
  BY <1>1, FreshTree
<1> HIDE DEF zero
<1>3. pc = "idle" /\ OnTheWay(zero)
  BY DEF Init, OnTheWay
<1> QED BY <1>2, <1>3 DEF TreeInv, Init

LEMMA IndexInitKeepsTree == TreeInv /\ IndexInit => TreeInv'
<1> SUFFICES ASSUME TreeInv, IndexInit PROVE TreeInv'
  OBVIOUS
<1> DEFINE zero == [a \in Addresses |-> 0]
           first == CHOOSE a \in Addresses : \A b \in Addresses : a <= b
           emptied == [a \in Addresses |-> Free]
<1>1. first \in Addresses
  <2>1. \E a \in Addresses : \A b \in Addresses : a <= b
    BY TreeAssumption, LeastNumber
  <2> QED BY <2>1
<1>2. \/ root' = first /\ heap' = [emptied EXCEPT ![first] = Leaf(<<>>, <<>>, Null)]
      \/ root' = Null /\ heap' = emptied
  BY DEF IndexInit
<1> HIDE DEF first
<1>3. Leaf(<<>>, <<>>, Null) \in Node
  <2>1. <<>> \in Seq(Keys) /\ <<>> \in Seq(Refs) /\ Null \in Pointers
    BY EmptySeq DEF Pointers
  <2> QED BY <2>1, LeafIsNode
<1>4. /\ heap' \in Heap /\ root' \in Pointers
      /\ root' # Null => heap'[root'] = Leaf(<<>>, <<>>, Null)
      /\ \A a \in Addresses \ {root'} : heap'[a] = Free
  BY <1>1, <1>2, <1>3 DEF Heap, Pointers
<1>5. Tree(heap', root', zero, zero) /\ NoneLost(heap', root', {})
  BY <1>4, FreshTree
<1> HIDE DEF zero
<1>6. /\ pc' = "idle" /\ result' \in {0, 1, -1} /\ sinceCut' \in Nat /\ trail' = <<>>
      /\ OnTheWay(zero)'
  BY DEF IndexInit, TreeInv, OnTheWay
<1>7. (\E l, r : Tree(heap, root, l, r) /\ OnTheWay(l))'
  BY <1>5, <1>6
<1> QED BY <1>5, <1>6, <1>7 DEF TreeInv

LEMMA InsertKeepsTree == ASSUME TreeInv, NEW e \in Entries, Insert(e) PROVE TreeInv'
<1>1. /\ pc = "idle" /\ trail = <<>> /\ heap' = heap /\ root' = root
      /\ sinceCut' \in Nat /\ (sinceCut' = 0 => sinceCut = 0)
  BY DEF TreeInv, Insert
<1>2. sinceCut' = 0 => NoneLost(heap', root', {})
  BY <1>1 DEF TreeInv
<1>3. PICK level, rank : Tree(heap, root, level, rank)
  BY DEF TreeInv
<1>4. Tree(heap', root', level, rank)
  BY <1>1, <1>3
<1>5. CASE root = Null
  <2>1. Return(-1)
    BY <1>5 DEF Insert
  <2> QED BY <1>1, <1>2, <1>4, <2>1, Returned
<1>6. CASE root # Null
  <2>1. /\ pc' = "down" /\ at' = root /\ arg' = e /\ trail' = <<>> /\ result' = result
    BY <1>1, <1>6 DEF Insert
  <2>2. root \in Alloc(heap) /\ level[root] \in Nat
    BY <1>3, <1>6, NodeInHeap DEF Tree
  <2>3. OnTheWay(level)'
    <3>1. Len(<<>>) = 0 /\ <<>> \in Seq(Steps)
      BY EmptySeq
    <3>2. Trail(heap, level, root, <<>>) /\ Below(level, root, <<>>, root)
      BY <2>2, <3>1 DEF Trail, Below
    <3> QED BY <3>2, <2>1, <1>1 DEF OnTheWay
  <2>4. (\E l, r : Tree(heap, root, l, r) /\ OnTheWay(l))'
    BY <1>4, <2>3
  <2> QED BY <1>1, <1>2, <2>1, <2>2, <2>4 DEF TreeInv
<1> QED BY <1>5, <1>6

LEMMA DuplicateKeepsTree == ASSUME TreeInv, Duplicate PROVE TreeInv'
<1>1. /\ pc = "down" /\ heap' = heap /\ root' = root /\ sinceCut' = sinceCut /\ Return(1)
  BY DEF Duplicate
<1>2. PICK level, rank : Tree(heap, root, level, rank)
  BY DEF TreeInv
<1>3. sinceCut \in Nat /\ (sinceCut = 0 => NoneLost(heap, root, {}))
  BY <1>1 DEF TreeInv
<1> QED BY <1>1, <1>2, <1>3, Returned

(* An insertion descends.                                                  *)
LEMMA TrailGrows ==
  ASSUME NEW h, NEW level, NEW top \in Alloc(h), NEW s, Trail(h, level, top, s),
         Shape(h, level), NEW a \in Alloc(h), Below(level, top, s, a), ~h[a].leaf,
         NEW slot \in 1..Len(h[a].kids), s = <<>> => a = top
  PROVE  LET kid == h[a].kids[slot]
             t   == Append(s, [node |-> a, slot |-> slot])
         IN  /\ Trail(h, level, top, t) /\ kid \in Alloc(h)
             /\ Below(level, top, t, kid) /\ t # <<>>
<1> DEFINE kid == h[a].kids[slot]
           step == [node |-> a, slot |-> slot]
           t == Append(s, step)
<1>1. /\ Len(h[a].kids) \in Nat /\ a \in Addresses /\ level[a] \in Nat /\ level[top] \in Nat
      /\ kid \in Children(h[a]) /\ Placed(h, level, a)
  BY NodeInHeap DEF Children, Elements
<1>2. kid \in Alloc(h) /\ level[kid] + 1 = level[a] /\ level[kid] \in Nat
  BY <1>1, NodeInHeap DEF Placed
<1>3. step \in Steps /\ step.node = a /\ step.slot = slot /\ s \in Seq(Steps)
  BY <1>1 DEF Steps, Trail
<1> HIDE DEF step, kid
<1>4. /\ t \in Seq(Steps) /\ Len(t) = Len(s) + 1 /\ t[Len(s) + 1] = step
      /\ \A i \in 1..Len(s) : t[i] = s[i]
      /\ Len(s) \in Nat
  BY <1>3, AppendProperties, LenProperties
<1> HIDE DEF t
<1>5. Passed(h, level, top, step, Len(s) + 1)
  <2>1. level[a] + (Len(s) + 1) = level[top] + 1
    <3>1. \A p, q, r \in Nat : p + q = r => p + (q + 1) = r + 1
      OBVIOUS
    <3>2. level[a] + Len(s) = level[top]
      BY DEF Below
    <3> QED BY SMTT(30), <3>1, <3>2, <1>1, <1>4
  <2> QED BY <2>1, <1>3 DEF Passed
<1>6. \A i \in 1..Len(t) : Passed(h, level, top, t[i], i)
  <2> SUFFICES ASSUME NEW i \in 1..Len(t) PROVE Passed(h, level, top, t[i], i)
    OBVIOUS
  <2>1. CASE i = Len(s) + 1
    BY <2>1, <1>4, <1>5
  <2>2. CASE i # Len(s) + 1
    <3>1. i \in 1..Len(s) /\ t[i] = s[i]
      BY <2>2, <1>4
    <3> QED BY <3>1 DEF Trail
  <2> QED BY <2>1, <2>2
<1>7. t[1].node = top
  <2>1. CASE s = <<>>
    <3>1. Len(s) = 0
      BY <2>1, EmptySeq
    <3> QED BY <3>1, <2>1, <1>3, <1>4
  <2>2. CASE s # <<>>
    <3>1. Len(s) # 0
      BY <2>2, <1>3, EmptySeq
    <3> QED BY <3>1, <2>2, <1>4 DEF Trail
  <2> QED BY <2>1, <2>2
<1>8. t # <<>>
  BY <1>4, EmptySeq
<1>9. level[kid] + Len(t) = level[top]
  <2>1. \A p, q, r, l \in Nat : p + 1 = q /\ q + l = r => p + (l + 1) = r
    OBVIOUS
  <2>2. level[a] + Len(s) = level[top]
    BY DEF Below
  <2>3. level[kid] \in Nat /\ level[a] \in Nat /\ Len(s) \in Nat /\ level[top] \in Nat
    BY <1>1, <1>2, <1>4
  <2>4. level[kid] + 1 = level[a]
    BY <1>2
  <2>5. level[kid] + (Len(s) + 1) = level[top]
    BY ONLY <2>1, <2>2, <2>3, <2>4
  <2> QED BY <2>5, <1>4
<1> QED BY <1>2, <1>4, <1>6, <1>7, <1>8, <1>9 DEF Trail, Below, t, step, kid

LEMMA DescendKeepsTree == ASSUME TreeInv, Descend PROVE TreeInv'
<1> DEFINE slot == ChildSlot(heap[at], arg.key)
           kid  == heap[at].kids[slot]
           t    == Append(trail, [node |-> at, slot |-> slot])
<1>1. /\ pc = "down" /\ ~heap[at].leaf /\ root \in Alloc(heap) /\ at \in Alloc(heap)
      /\ arg \in Entries /\ (trail = <<>> => at = root)
      /\ (sinceCut = 0 => NoneLost(heap, root, {}))
      /\ result \in {0, 1, -1} /\ sinceCut \in Nat
  BY DEF TreeInv, Descend
<1>2. /\ trail' = t /\ at' = kid /\ heap' = heap /\ root' = root /\ pc' = pc
      /\ arg' = arg /\ split' = split /\ result' = result /\ sinceCut' = sinceCut
  BY DEF Descend
<1>3. PICK level, rank : Tree(heap, root, level, rank) /\ OnTheWay(level)
  BY DEF TreeInv
<1>4. Trail(heap, level, root, trail) /\ Below(level, root, trail, at) /\ Shape(heap, level)
  BY <1>1, <1>3 DEF OnTheWay, Tree
<1>5. slot \in 1..Len(heap[at].kids)
  <2>1. heap[at] \in Node /\ Len(heap[at].kids) = Len(heap[at].keys) + 1
    BY <1>1, <1>4, NodeInHeap DEF WellFormed
  <2>2. heap[at].keys \in Seq(Nat) /\ arg.key \in Nat
    BY <1>1, <2>1, NodeFields, EntryFields
  <2> QED BY <2>1, <2>2, ChildSlotFound
<1> HIDE DEF slot
<1>6. /\ Trail(heap, level, root, t) /\ kid \in Alloc(heap)
      /\ Below(level, root, t, kid) /\ t # <<>>
  BY <1>1, <1>4, <1>5, TrailGrows
<1> HIDE DEF kid, t
<1>7. OnTheWay(level)'
  BY <1>1, <1>2, <1>6 DEF OnTheWay
<1>8. (\E l, r : Tree(heap, root, l, r) /\ OnTheWay(l))'
  BY <1>2, <1>3, <1>7
<1> QED BY <1>1, <1>2, <1>6, <1>8 DEF TreeInv

(* An insertion goes on upwards with a node it has split off.              *)
LEMMA Climbs ==
  ASSUME TreeInv, pc # "idle", NEW key \in Keys, NEW right \in Alloc(heap') \ {root'},
         Up(key, right), root' = root, sinceCut' = sinceCut,
         Alloc(heap) \subseteq Alloc(heap'), ~Owned(heap', right),
         trail' = <<>> => HalfFull(heap'[root]),
         sinceCut = 0 => NoneLost(heap', root', {right}),
         NEW level, NEW rank, Tree(heap', root', level, rank),
         Trail(heap', level, root', trail'), Below(level, root', trail', right)
  PROVE  TreeInv'
<1> DEFINE new == [key |-> key, right |-> right]
<1>1. /\ pc' = "up" /\ split' = new /\ arg' = arg /\ at' = at /\ result' = result
  BY DEF Up
<1>2. /\ new \in [key : Keys, right : Addresses] /\ new.right = right
  BY DEF Alloc
<1> HIDE DEF new
<1>3. /\ root \in Alloc(heap) /\ arg \in Entries /\ at \in Alloc(heap)
      /\ result \in {0, 1, -1} /\ sinceCut \in Nat
  BY DEF TreeInv
<1>4. Unlinked(heap, root, trail, split)'
  BY <1>1, <1>2 DEF Unlinked
<1>5. OnTheWay(level)'
  BY <1>1, <1>2 DEF OnTheWay
<1>6. (\E l, r : Tree(heap, root, l, r) /\ OnTheWay(l))'
  BY <1>5
<1> QED BY <1>1, <1>2, <1>3, <1>4, <1>6 DEF TreeInv

SameOnTrail(g, h, s) == \A i \in 1..Len(s) : g[s[i].node] = h[s[i].node]

LEMMA TrailStays ==
  ASSUME NEW h, NEW level, NEW top \in Alloc(h), NEW s, Trail(h, level, top, s),
         NEW g, NEW level2, Alloc(h) \subseteq Alloc(g),
         \A x \in Alloc(h) : level2[x] = level[x], SameOnTrail(g, h, s)
  PROVE  Trail(g, level2, top, s)
<1>1. ASSUME NEW i \in 1..Len(s) PROVE Passed(g, level2, top, s[i], i)
  BY DEF Trail, Passed, SameOnTrail
<1> QED BY <1>1 DEF Trail

(* An entry is put in a leaf, which may be split.                          *)
LEMMA PutInLeafKeepsTree == ASSUME TreeInv, PutInLeaf PROVE TreeInv'
<1> DEFINE leaf  == heap[at]
           slot  == LeafSlot(leaf, arg.key)
           keys  == InsertAt(leaf.keys, slot, arg.key)
           refs  == InsertAt(leaf.refs, slot, arg.ref)
           total == Len(keys)
           half  == Half(total)
           grown == Leaf(keys, refs, leaf.next)
           left  == Leaf(SubSeq(keys, 1, half), SubSeq(refs, 1, half), NewAddress)
           right == Leaf(SubSeq(keys, half + 1, total),
                         SubSeq(refs, half + 1, total), leaf.next)
<1>1. /\ pc = "down" /\ leaf.leaf /\ root \in Alloc(heap) /\ at \in Alloc(heap)
      /\ arg \in Entries /\ (trail = <<>> => at = root)
      /\ (sinceCut = 0 => NoneLost(heap, root, {}))
      /\ sinceCut \in Nat /\ root' = root /\ sinceCut' = sinceCut
  BY DEF TreeInv, PutInLeaf
<1>2. PICK level, rank : Tree(heap, root, level, rank) /\ OnTheWay(level)
  BY DEF TreeInv
<1>3. /\ Trail(heap, level, root, trail) /\ Below(level, root, trail, at)
      /\ Shape(heap, level) /\ Chained(heap, rank) /\ Filled(heap, root)
      /\ root # Null /\ ~Owned(heap, root)
      /\ \A a \in Alloc(heap) : level[a] <= level[root]
  BY <1>1, <1>2, TreeAssumption DEF OnTheWay, Tree, Alloc
<1>4. /\ at \in Addresses /\ WellFormed(leaf) /\ leaf \in Node /\ level[at] = 0
      /\ heap \in Heap
  BY <1>1, <1>3, NodeInHeap DEF Placed, Shape
<1>5. slot \in 1..Len(leaf.keys) + 1
  <2>1. leaf.keys \in Seq(Nat) /\ arg.key \in Nat
    BY <1>1, <1>4, NodeFields, EntryFields
  <2> QED BY <2>1, LeafSlotFound
<1>6. arg.key \in Keys /\ arg.ref \in Refs
  BY <1>1, EntryFields
<1>7. \/ HasRoom(total) /\ heap' = [heap EXCEPT ![at] = grown] /\ Return(0)
      \/ /\ ~HasRoom(total) /\ CanAllocate
         /\ heap' = [heap EXCEPT ![at] = left, ![NewAddress] = right]
         /\ Up(keys[half + 1], NewAddress) /\ trail' = trail
      \/ Return(-1) /\ heap' = heap
  BY DEF PutInLeaf
<1>8. HasRoom(total) => /\ WellFormed(grown) /\ grown.leaf = TRUE
                        /\ grown.next = leaf.next
                        /\ HalfFull(leaf) => HalfFull(grown)
  <2> HIDE DEF leaf, slot
  <2> QED BY ZenonT(30), <1>1, <1>4, <1>5, <1>6, GrownLeaf
<1>9. ~HasRoom(total) /\ CanAllocate =>
         /\ WellFormed(left) /\ left.leaf = TRUE /\ left.next = NewAddress
         /\ WellFormed(right) /\ right.leaf = TRUE /\ right.next = leaf.next
         /\ HalfFull(left) /\ HalfFull(right) /\ keys[half + 1] \in Keys
  <2>1. CanAllocate => NewAddress \in Addresses
    BY NewIsFree
  <2> HIDE DEF leaf, slot
  <2> QED BY <2>1, <1>1, <1>4, <1>5, <1>6, HalvesOfLeaf
<1> DEFINE first == keys[half + 1]
<1> HIDE DEF grown, left, right, first, keys, total, half
<1>10. CASE HasRoom(total) /\ heap' = [heap EXCEPT ![at] = grown] /\ Return(0)
  <2>1. /\ Shape(heap', level) /\ Chained(heap', rank) /\ Alloc(heap') = Alloc(heap)
        /\ \A x : Owned(heap', x) <=> Owned(heap, x)
    BY <1>1, <1>3, <1>8, <1>10, LeafGrows
  <2>2. Filled(heap', root)
    <3>1. /\ \A x \in Addresses \ {at} : heap'[x] = heap[x]
          /\ heap'[at] = grown
      BY <1>4, <1>10 DEF Heap
    <3>2. at # root => HalfFull(grown)
      BY <1>1, <1>3, <1>8, <1>10 DEF Filled
    <3> QED BY <3>1, <3>2, <1>3 DEF Filled, Alloc
  <2>3. Tree(heap', root', level, rank)
    BY <2>1, <2>2, <1>1, <1>3 DEF Tree
  <2>4. sinceCut' = 0 => NoneLost(heap', root', {})
    BY <2>1, <1>1 DEF NoneLost
  <2> QED BY <2>3, <2>4, <1>1, <1>10, Returned
<1>11. CASE /\ ~HasRoom(total) /\ CanAllocate
            /\ heap' = [heap EXCEPT ![at] = left, ![NewAddress] = right]
            /\ Up(first, NewAddress) /\ trail' = trail
  <2> DEFINE b == NewAddress
             level2 == Raised(level, b, 0)
             rank2 == RankBehind(rank, at, b)
  <2>1. b \in Addresses \ Alloc(heap)
    BY <1>11, NewIsFree
  <2> HIDE DEF b
  <2>2. /\ WellFormed(left) /\ left.leaf = TRUE /\ left.next = b
        /\ WellFormed(right) /\ right.leaf = TRUE /\ right.next = heap[at].next
        /\ HalfFull(left) /\ HalfFull(right) /\ first \in Keys
    BY <1>9, <1>11 DEF b, first
  <2>3. heap' = [heap EXCEPT ![at] = left, ![b] = right] /\ Up(first, b) /\ trail' = trail
    BY <1>11 DEF b
  <2>4. /\ heap' \in Heap /\ heap'[at] = left /\ heap'[b] = right
        /\ SameBut(heap', heap, at, b) /\ at # b
    <3>1. left \in Node /\ right \in Node
      BY <2>2 DEF WellFormed
    <3> QED BY <3>1, <2>1, <2>3, <1>1, <1>4 DEF Heap, SameBut
  <2>5. /\ Shape(heap', level2) /\ Chained(heap', rank2)
        /\ Alloc(heap') = Alloc(heap) \cup {b}
        /\ \A x : Owned(heap', x) <=> Owned(heap, x)
    <3>1. /\ WellFormed(heap'[at]) /\ heap'[at].leaf = TRUE /\ heap'[at].next = b
          /\ WellFormed(heap'[b]) /\ heap'[b].leaf = TRUE
          /\ heap'[b].next = heap[at].next
      BY <2>2, <2>4
    <3>2. heap[at].leaf
      BY <1>1
    <3>3. /\ Shape(heap, level) /\ Chained(heap, rank) /\ at \in Alloc(heap)
          /\ b \in Addresses \ Alloc(heap) /\ heap' \in Heap
          /\ SameBut(heap', heap, at, b)
      BY <2>1, <2>4, <1>1, <1>3
    <3>4. Shape(heap', level2) /\ \A x : Owned(heap', x) <=> Owned(heap, x)
      BY <3>1, <3>2, <3>3, LeafSplits
    <3>5. Alloc(heap') = Alloc(heap) \cup {b}
      BY <2>1, <2>4, <3>1, <1>4, WellFormedIsNode DEF Alloc, SameBut
    <3>6. Chained(heap', rank2)
      BY <3>1, <3>2, <3>3, <3>5, <1>4, ChainGrows DEF SameBut
    <3> QED BY <3>4, <3>5, <3>6
  <2>6. /\ level2[b] = 0 /\ \A x \in Alloc(heap) : level2[x] = level[x] /\ level[x] \in Nat
    BY <2>1, <1>3 DEF Shape, Levels, Alloc, Raised
  <2> HIDE DEF level2, rank2
  <2>7. Filled(heap', root)
    BY <2>2, <2>4, <1>3 DEF Filled, Alloc, SameBut
  <2>8. ~Owned(heap', b) /\ b # root /\ b \in Alloc(heap')
    BY <2>1, <2>5, <1>1, <1>3, NodeInHeap DEF Owned
  <2>9. Tree(heap', root', level2, rank2)
    <3>1. \A a \in Alloc(heap') : level2[a] <= level2[root]
      BY <2>5, <2>6, <1>1, <1>3
    <3> QED BY <3>1, <2>5, <2>7, <1>1, <1>3 DEF Tree
  <2>10. Trail(heap', level2, root', trail')
    <3>1. ASSUME NEW i \in 1..Len(trail)
          PROVE  heap'[trail[i].node] = heap[trail[i].node]
      <4>1. trail[i].node \in Alloc(heap) /\ ~heap[trail[i].node].leaf
        BY <1>3 DEF Trail, Passed
      <4> QED BY <4>1, <2>1, <2>4, <1>1 DEF Alloc, SameBut
    <3>2. SameOnTrail(heap', heap, trail)
      BY <3>1 DEF SameOnTrail
    <3> QED BY <3>2, <2>3, <2>5, <2>6, <1>1, <1>3, TrailStays
  <2>11. Below(level2, root', trail', b)
    BY <2>3, <2>6, <1>1, <1>3, <1>4 DEF Below
  <2>12. trail' = <<>> => HalfFull(heap'[root])
    BY <2>2, <2>3, <2>4, <1>1
  <2>13. sinceCut = 0 => NoneLost(heap', root', {b})
    BY <2>5, <1>1 DEF NoneLost
  <2>14. /\ pc # "idle" /\ first \in Keys /\ b \in Alloc(heap') \ {root'}
         /\ Up(first, b) /\ Alloc(heap) \subseteq Alloc(heap')
    BY <2>2, <2>3, <2>5, <2>8, <1>1
  <2> QED BY <2>8, <2>9, <2>10, <2>11, <2>12, <2>13, <2>14, <1>1, Climbs
<1>12. CASE Return(-1) /\ heap' = heap
  BY <1>1, <1>2, <1>12, Returned
<1> QED BY <1>7, <1>10, <1>11, <1>12 DEF first

(* A node that was split off is linked to its parent, which may be split.  *)
LEMMA LinkSplitKeepsTree == ASSUME TreeInv, LinkSplit PROVE TreeInv'
<1> DEFINE a     == Last(trail).node
           slot  == Last(trail).slot
           r     == split.right
           old   == heap[a]
           keys  == InsertAt(old.keys, slot, split.key)
           kids  == Joined(old.kids, slot, r)
           total == Len(keys)
           mid   == Half(total)
           grown == Inner(keys, kids)
           low   == Inner(SubSeq(keys, 1, mid), SubSeq(kids, 1, mid + 1))
           high  == Inner(SubSeq(keys, mid + 2, total), RightKids(kids, mid))
           first == keys[mid + 1]
<1>1. /\ pc = "up" /\ root \in Alloc(heap) /\ trail # <<>>
      /\ Unlinked(heap, root, trail, split)
      /\ (sinceCut = 0 => NoneLost(heap, root, {r}))
      /\ sinceCut \in Nat /\ root' = root
  BY DEF TreeInv, LinkSplit
<1>2. PICK level, rank : Tree(heap, root, level, rank) /\ OnTheWay(level)
  BY DEF TreeInv
<1>3. /\ Trail(heap, level, root, trail) /\ Below(level, root, trail, r)
      /\ Shape(heap, level) /\ Chained(heap, rank) /\ Filled(heap, root)
      /\ root # Null /\ ~Owned(heap, root)
      /\ \A x \in Alloc(heap) : level[x] <= level[root]
  BY <1>1, <1>2, TreeAssumption DEF OnTheWay, Tree, Alloc
<1>4. split.key \in Keys /\ r \in Alloc(heap) /\ r # root /\ ~Owned(heap, r)
  BY <1>1 DEF Unlinked
<1>5. /\ a \in Alloc(heap) /\ ~old.leaf /\ slot \in 1..Len(old.kids)
      /\ level[a] + Len(trail) = level[root] + 1 /\ Len(trail) \in Nat \ {0}
      /\ Last(trail) = trail[Len(trail)]
  <2>1. /\ Len(trail) \in Nat \ {0} /\ Last(trail) = trail[Len(trail)]
    BY <1>1, <1>3, LastElement DEF Trail
  <2>2. Len(trail) \in 1..Len(trail)
    BY <2>1
  <2>3. Passed(heap, level, root, Last(trail), Len(trail))
    BY <1>3, <2>1, <2>2 DEF Trail
  <2> QED BY <2>1, <2>3 DEF Passed
<1>6. /\ a \in Addresses /\ WellFormed(old) /\ old \in Node /\ heap \in Heap
      /\ old.kids \in Seq(Addresses) /\ r \in Addresses
      /\ level[a] \in Nat /\ level[r] \in Nat /\ level[root] \in Nat
  BY <1>1, <1>3, <1>4, <1>5, NodeInHeap DEF Shape
<1>7. level[r] + 1 = level[a]
  <2>1. /\ level[r] + Len(trail) = level[root]
        /\ level[a] + Len(trail) = level[root] + 1
        /\ level[a] \in Nat /\ level[r] \in Nat /\ level[root] \in Nat /\ Len(trail) \in Nat
    BY <1>3, <1>5, <1>6 DEF Below
  <2> HIDE DEF a, r
  <2> QED BY ONLY <2>1
<1>8. \/ /\ HasRoom(total) /\ heap' = [heap EXCEPT ![a] = grown] /\ Return(0)
         /\ sinceCut' = sinceCut
      \/ /\ ~HasRoom(total) /\ CanAllocate
         /\ heap' = [heap EXCEPT ![a] = low, ![NewAddress] = high]
         /\ Up(first, NewAddress) /\ trail' = Front(trail) /\ sinceCut' = sinceCut
      \/ Return(-1) /\ CutOff /\ heap' = heap
  BY DEF LinkSplit, Joined
<1>9. HasRoom(total) => /\ WellFormed(grown) /\ grown.leaf = FALSE
                        /\ grown.kids = Joined(heap[a].kids, slot, r)
                        /\ HalfFull(old) => HalfFull(grown)
  <2> HIDE DEF a, slot, r
  <2> QED BY <1>4, <1>5, <1>6, GrownInner
<1>10. ~HasRoom(total) =>
         /\ WellFormed(low) /\ low.leaf = FALSE /\ WellFormed(high) /\ high.leaf = FALSE
         /\ HalfFull(low) /\ HalfFull(high) /\ first \in Keys
         /\ CutAt(kids, mid + 1, low.kids, high.kids)
  <2> HIDE DEF a, slot, r, old
  <2> QED BY ZenonT(30), <1>4, <1>5, <1>6, HalvesOfInner
<1>11. Joins(heap, level, a, slot, r)
  BY <1>4, <1>5, <1>7 DEF Joins
<1> DEFINE cut == mid + 1
<1> HIDE DEF a, slot, r, grown, low, high, first, keys, total, cut, mid
<1>12. CASE /\ HasRoom(total) /\ heap' = [heap EXCEPT ![a] = grown] /\ Return(0)
            /\ sinceCut' = sinceCut
  <2>1. /\ heap' \in Heap /\ heap'[a] = grown /\ SameBut(heap', heap, a, a)
    BY <1>6, <1>9, <1>12 DEF Heap, SameBut, WellFormed
  <2>2. /\ WellFormed(heap'[a]) /\ heap'[a].leaf = FALSE
        /\ heap'[a].kids = Joined(heap[a].kids, slot, r) /\ ~heap[a].leaf
        /\ slot \in 1..Len(heap[a].kids)
    BY <2>1, <1>5, <1>9, <1>12
  <2>3. /\ Shape(heap', level) /\ \A x : Owned(heap', x) <=> Owned(heap, x) \/ x = r
    <3>1. Shape(heap', level) /\ OwnsAlso(heap', heap, r)
      BY <2>1, <2>2, <1>3, <1>11, InnerGrows
    <3> QED BY <3>1 DEF OwnsAlso
  <2>4. Alloc(heap') = Alloc(heap)
    BY <2>1, <2>2, <1>5, WellFormedIsNode DEF Alloc, SameBut
  <2>5. Chained(heap', rank)
    BY <2>1, <2>2, <2>4, <1>3, ChainStays DEF Alloc, SameBut
  <2>6. Filled(heap', root)
    BY <2>1, <1>3, <1>5, <1>9, <1>12 DEF Filled, Alloc, SameBut
  <2>7. Tree(heap', root', level, rank)
    BY <2>3, <2>4, <2>5, <2>6, <1>1, <1>3, <1>4 DEF Tree
  <2>8. sinceCut' = 0 => NoneLost(heap', root', {})
    BY <2>3, <2>4, <1>1, <1>12 DEF NoneLost
  <2> QED BY <2>7, <2>8, <1>1, <1>12, Returned
<1>13. CASE /\ ~HasRoom(total) /\ CanAllocate
            /\ heap' = [heap EXCEPT ![a] = low, ![NewAddress] = high]
            /\ Up(first, NewAddress) /\ trail' = Front(trail) /\ sinceCut' = sinceCut
  <2> DEFINE b == NewAddress
             level2 == Raised(level, b, level[a])
  <2>1. b \in Addresses \ Alloc(heap)
    BY <1>13, NewIsFree
  <2> HIDE DEF b
  <2>2. /\ heap' = [heap EXCEPT ![a] = low, ![b] = high] /\ Up(first, b)
        /\ trail' = Front(trail) /\ sinceCut' = sinceCut
    BY <1>13 DEF b
  <2>3. /\ heap' \in Heap /\ heap'[a] = low /\ heap'[b] = high
        /\ SameBut(heap', heap, a, b) /\ a # b
    <3>1. low \in Node /\ high \in Node
      BY <1>10, <1>13 DEF WellFormed
    <3> QED BY <3>1, <2>1, <2>2, <1>5, <1>6 DEF Heap, SameBut
  <2>4. /\ WellFormed(heap'[a]) /\ heap'[a].leaf = FALSE
        /\ WellFormed(heap'[b]) /\ heap'[b].leaf = FALSE
        /\ CutAt(Joined(heap[a].kids, slot, r), cut, heap'[a].kids, heap'[b].kids)
        /\ ~heap[a].leaf /\ slot \in 1..Len(heap[a].kids)
        /\ HalfFull(heap'[a]) /\ HalfFull(heap'[b])
    BY <2>3, <1>5, <1>10, <1>13 DEF cut
  <2>5. /\ Shape(heap', level2) /\ \A x : Owned(heap', x) <=> Owned(heap, x) \/ x = r
    <3>1. Shape(heap', level2) /\ OwnsAlso(heap', heap, r)
      BY <2>1, <2>3, <2>4, <1>3, <1>11, InnerSplits
    <3> QED BY <3>1 DEF OwnsAlso
  <2>6. Alloc(heap') = Alloc(heap) \cup {b}
    BY <2>1, <2>3, <2>4, <1>5, WellFormedIsNode DEF Alloc, SameBut
  <2>7. Chained(heap', rank)
    <3>1. \A x \in Alloc(heap') : heap'[x].leaf => x \in Alloc(heap) /\ heap'[x] = heap[x]
      BY <2>3, <2>4, <2>6 DEF Alloc, SameBut
    <3>2. \A x \in Alloc(heap) : heap[x].leaf => heap'[x] = heap[x]
      BY <2>1, <2>3, <2>4 DEF Alloc, SameBut
    <3> QED BY <3>1, <3>2, <2>6, <1>3, ChainStays
  <2>8. /\ level2[b] = level[a]
        /\ \A x \in Alloc(heap) : level2[x] = level[x] /\ level[x] \in Nat
    BY <2>1, <1>3 DEF Shape, Levels, Alloc, Raised
  <2> HIDE DEF level2
  <2>9. Filled(heap', root)
    BY <2>3, <2>4, <1>3 DEF Filled, Alloc, SameBut
  <2>10. ~Owned(heap', b) /\ b # root /\ b \in Alloc(heap') /\ b # r
    BY <2>1, <2>5, <2>6, <1>1, <1>3, <1>4, NodeInHeap DEF Owned
  <2>11. Tree(heap', root', level2, rank)
    <3>1. \A x \in Alloc(heap') : level2[x] <= level2[root]
      BY <2>6, <2>8, <1>1, <1>3, <1>5
    <3> QED BY <3>1, <2>5, <2>6, <2>7, <2>9, <1>1, <1>3, <1>4 DEF Tree
  <2>12. /\ Trail(heap', level2, root', trail') /\ Len(trail') = Len(trail) - 1
         /\ trail' = <<>> => a = root
    <3>1. /\ trail' \in Seq(Steps) /\ Len(trail') = Len(trail) - 1
          /\ \A i \in 1..Len(trail) - 1 : trail'[i] = trail[i]
      BY <2>2, <1>1, <1>3, LastElement DEF Trail
    <3>2. ASSUME NEW i \in 1..Len(trail')
          PROVE  Passed(heap', level2, root', trail'[i], i)
      <4>1. i \in 1..Len(trail) /\ i # Len(trail) /\ trail'[i] = trail[i]
        BY <3>1, <1>5
      <4>2. Passed(heap, level, root, trail[i], i)
        BY <4>1, <1>3 DEF Trail
      <4>3. trail[i].node \in Alloc(heap) /\ level[trail[i].node] + i = level[root] + 1
        BY <4>2 DEF Passed
      <4>4. trail[i].node # a
        <5>1. \A p, n, m \in Nat : p + n = p + m => n = m
          OBVIOUS
        <5>2. i \in Nat /\ Len(trail) \in Nat
          BY <4>1, <1>5
        <5> QED BY <5>1, <5>2, <4>1, <4>3, <1>5, <1>6
      <4>5. heap'[trail[i].node] = heap[trail[i].node]
        BY <4>3, <4>4, <2>1, <2>3 DEF Alloc, SameBut
      <4>6. /\ level2[trail[i].node] = level[trail[i].node] /\ level2[root'] = level[root]
            /\ trail[i].node \in Alloc(heap')
        BY <4>3, <2>6, <2>8, <1>1
      <4> QED BY <4>1, <4>2, <4>5, <4>6 DEF Passed
    <3>3. trail' # <<>> => trail'[1].node = root'
      <4>1. trail' # <<>> => Len(trail') # 0
        BY <3>1, EmptySeq
      <4>2. trail' # <<>> => 1 \in 1..Len(trail) - 1
        BY <4>1, <3>1, <1>5
      <4> QED BY <4>2, <3>1, <1>1, <1>3 DEF Trail
    <3>4. trail' = <<>> => a = root
      <4>1. trail' = <<>> => Len(trail) = 1
        BY <3>1, <1>5, EmptySeq
      <4> QED BY <4>1, <1>1, <1>3, <1>5 DEF Trail, a
    <3> QED BY <3>1, <3>2, <3>3, <3>4 DEF Trail
  <2>13. Below(level2, root', trail', b)
    <3>1. \A p, n, t \in Nat : p + n = t + 1 => p + (n - 1) = t
      OBVIOUS
    <3>2. level[a] + (Len(trail) - 1) = level[root]
      BY <3>1, <1>5, <1>6
    <3> QED BY <3>2, <2>8, <2>12, <1>1 DEF Below
  <2>14. trail' = <<>> => HalfFull(heap'[root])
    BY <2>4, <2>12
  <2>15. sinceCut = 0 => NoneLost(heap', root', {b})
    BY <2>5, <2>6, <1>1 DEF NoneLost
  <2>16. /\ pc # "idle" /\ first \in Keys /\ b \in Alloc(heap') \ {root'}
         /\ Up(first, b) /\ Alloc(heap) \subseteq Alloc(heap') /\ sinceCut' = sinceCut
    BY <2>2, <2>6, <2>10, <1>1, <1>10, <1>13
  <2> QED BY <2>10, <2>11, <2>12, <2>13, <2>14, <2>15, <2>16, <1>1, Climbs
<1>14. CASE Return(-1) /\ CutOff /\ heap' = heap
  <2>1. sinceCut' \in Nat /\ sinceCut' # 0
    BY <1>1, <1>14 DEF CutOff
  <2> QED BY <2>1, <1>1, <1>2, <1>14, Returned
<1> QED BY <1>8, <1>12, <1>13, <1>14

(* The root was split: it gets a new one above it.                         *)
LEMMA GrowRootKeepsTree == ASSUME TreeInv, GrowRoot PROVE TreeInv'
<1> DEFINE r   == split.right
           top == Inner(<<split.key>>, <<root, r>>)
<1>1. /\ pc = "up" /\ root \in Alloc(heap) /\ trail = <<>>
      /\ Unlinked(heap, root, trail, split)
      /\ (sinceCut = 0 => NoneLost(heap, root, {r})) /\ sinceCut \in Nat
  BY DEF TreeInv, GrowRoot
<1>2. PICK level, rank : Tree(heap, root, level, rank) /\ OnTheWay(level)
  BY DEF TreeInv
<1>3. /\ Below(level, root, <<>>, r) /\ Shape(heap, level) /\ Chained(heap, rank)
      /\ Filled(heap, root) /\ root # Null /\ ~Owned(heap, root)
      /\ \A x \in Alloc(heap) : level[x] <= level[root]
  BY <1>1, <1>2, TreeAssumption DEF OnTheWay, Tree, Alloc
<1>4. /\ split.key \in Keys /\ r \in Alloc(heap) /\ r # root /\ ~Owned(heap, r)
      /\ HalfFull(heap[root])
  BY <1>1 DEF Unlinked
<1>5. /\ root \in Addresses /\ r \in Addresses /\ heap \in Heap
      /\ level[r] \in Nat /\ level[root] \in Nat
  BY <1>1, <1>3, <1>4, NodeInHeap DEF Shape
<1>6. level[r] = level[root]
  <2>1. Len(<<>>) = 0
    BY EmptySeq
  <2> QED BY <2>1, <1>3, <1>5 DEF Below
<1>7. \/ /\ CanAllocate
         /\ heap' = [heap EXCEPT ![NewAddress] = top] /\ root' = NewAddress
         /\ Return(0) /\ sinceCut' = sinceCut
      \/ Return(-1) /\ CutOff /\ heap' = heap /\ root' = root
  BY DEF GrowRoot
<1>8. WellFormed(top) /\ top.leaf = FALSE /\ top.kids = <<root, r>>
  <2>1. <<split.key>> \in Seq(Keys) /\ Len(<<split.key>>) = 1
    BY <1>4
  <2>2. <<root, r>> \in Seq(Addresses) /\ Len(<<root, r>>) = 2
    BY <1>5
  <2> DEFINE keys == <<split.key>>
             kids == <<root, r>>
  <2>3. keys \in Seq(Keys) /\ Len(keys) = 1 /\ kids \in Seq(Addresses) /\ Len(kids) = 2
    BY <2>1, <2>2
  <2> HIDE DEF keys, kids
  <2> DEFINE n == Inner(keys, kids)
  <2>4. n \in Node /\ n.leaf = FALSE /\ n.keys = keys /\ n.kids = kids /\ n.next = Null
    <3>1. keys \in Seq(Keys) /\ kids \in Seq(Addresses)
      BY <2>3
    <3> QED BY ONLY <3>1, InnerFields
  <2> HIDE DEF n
  <2>5. Len(n.keys) = 1 /\ Len(n.kids) = 2
    BY <2>3, <2>4
  <2>6. WellFormed(n)
    BY <2>4, <2>5, MaxKeysType DEF WellFormed
  <2> QED BY <2>4, <2>6 DEF n, keys, kids
<1> HIDE DEF top, r
<1>9. CASE /\ CanAllocate
           /\ heap' = [heap EXCEPT ![NewAddress] = top] /\ root' = NewAddress
           /\ Return(0) /\ sinceCut' = sinceCut
  <2> DEFINE b == NewAddress
             level2 == Raised(level, b, level[root] + 1)
  <2>1. b \in Addresses \ Alloc(heap)
    BY <1>9, NewIsFree
  <2> HIDE DEF b
  <2>2. heap' = [heap EXCEPT ![b] = top] /\ root' = b
    BY <1>9 DEF b
  <2>3. /\ heap' \in Heap /\ heap'[b] = top /\ SameBut(heap', heap, b, b)
    BY <2>1, <2>2, <1>5, <1>8 DEF Heap, SameBut, WellFormed
  <2>4. WellFormed(heap'[b]) /\ heap'[b].leaf = FALSE /\ heap'[b].kids = <<root, r>>
    BY <2>3, <1>8
  <2>5. Shape(heap', level2) /\ OwnsBoth(heap', heap, root, r)
    BY <2>1, <2>3, <2>4, <1>1, <1>3, <1>4, <1>6, RootGrows
  <2>6. Alloc(heap') = Alloc(heap) \cup {b}
    BY <2>1, <2>3, <2>4, WellFormedIsNode DEF Alloc, SameBut
  <2>7. Chained(heap', rank)
    <3>1. \A x \in Alloc(heap') : heap'[x].leaf => x \in Alloc(heap) /\ heap'[x] = heap[x]
      BY <2>3, <2>4, <2>6 DEF Alloc, SameBut
    <3>2. \A x \in Alloc(heap) : heap[x].leaf => heap'[x] = heap[x]
      BY <2>1, <2>3 DEF Alloc, SameBut
    <3> QED BY <3>1, <3>2, <2>6, <1>3, ChainStays
  <2>8. /\ level2[b] = level[root] + 1
        /\ \A x \in Alloc(heap) : level2[x] = level[x] /\ level[x] \in Nat
    BY <2>1, <1>3 DEF Shape, Levels, Alloc, Raised
  <2> HIDE DEF level2
  <2>9. Filled(heap', b)
    BY <2>1, <2>3, <2>6, <1>3, <1>4 DEF Filled, Alloc, SameBut
  <2>10. ~Owned(heap', b) /\ b # Null
    <3>1. ~Owned(heap, b)
      BY <2>1, <1>3, NodeInHeap DEF Owned
    <3> QED BY <3>1, <2>1, <2>5, <1>1, <1>4, TreeAssumption DEF OwnsBoth
  <2>11. Tree(heap', root', level2, rank)
    <3>1. \A x \in Alloc(heap') : level2[x] <= level2[b]
      BY <2>6, <2>8, <1>3, <1>5
    <3> QED BY <3>1, <2>2, <2>5, <2>6, <2>7, <2>9, <2>10 DEF Tree
  <2>12. sinceCut' = 0 => NoneLost(heap', root', {})
    BY <2>2, <2>5, <2>6, <1>1, <1>9 DEF NoneLost, OwnsBoth
  <2> QED BY <2>11, <2>12, <1>1, <1>9, Returned
<1>10. CASE Return(-1) /\ CutOff /\ heap' = heap /\ root' = root
  <2>1. sinceCut' \in Nat /\ sinceCut' # 0
    BY <1>1, <1>10 DEF CutOff
  <2> QED BY <2>1, <1>2, <1>10, Returned
<1> QED BY <1>7, <1>9, <1>10

LEMMA NextKeepsTree == TreeInv /\ [Next]_vars => TreeInv'
<1> SUFFICES ASSUME TreeInv, [Next]_vars PROVE TreeInv'
  OBVIOUS
<1>1. ASSUME NEW e \in Entries, Insert(e) PROVE TreeInv'
  BY <1>1, InsertKeepsTree
<1>2. CASE Descend
  BY <1>2, DescendKeepsTree
<1>3. CASE Duplicate
  BY <1>3, DuplicateKeepsTree
<1>4. CASE PutInLeaf
  BY <1>4, PutInLeafKeepsTree
<1>5. CASE LinkSplit
  BY <1>5, LinkSplitKeepsTree
<1>6. CASE GrowRoot
  BY <1>6, GrowRootKeepsTree
<1>7. CASE IndexInit
  BY <1>7, IndexInitKeepsTree
<1>8. CASE UNCHANGED vars
  BY <1>8 DEF vars, TreeInv, OnTheWay
<1> QED BY <1>1, <1>2, <1>3, <1>4, <1>5, <1>6, <1>7, <1>8 DEF Next

LEMMA IndexIsTree == Spec => []TreeInv
  BY InitTree, NextKeepsTree, PTL DEF Spec

(***************************************************************************)
(* Nodes have room for their keys, and as many children or references as   *)
(* these call for; a pointer to a node at hand is one to an allocated node.*)
(***************************************************************************)
THEOREM IndexTypeCorrect == Spec => []TypeOK
<1>1. TreeInv => TypeOK
  <2> SUFFICES ASSUME TreeInv PROVE TypeOK
    OBVIOUS
  <2>1. PICK level, rank : Tree(heap, root, level, rank)
    BY DEF TreeInv
  <2>2. Shape(heap, level) /\ root \in Alloc(heap) \cup {Null} /\ Allocated = Alloc(heap)
    BY <2>1 DEF Tree, Allocated, Alloc
  <2>3. ASSUME NEW a \in Addresses, heap[a] # Free
        PROVE  /\ heap[a] \in Node /\ Len(heap[a].keys) <= MaxKeys
               /\ heap[a].leaf  => Len(heap[a].refs) = Len(heap[a].keys)
               /\ ~heap[a].leaf => Len(heap[a].kids) = Len(heap[a].keys) + 1
    <3>1. WellFormed(heap[a])
      BY <2>2, <2>3, NodeInHeap DEF Alloc
    <3> QED BY <3>1 DEF WellFormed
  <2>4. pc = "up" => split \in [key : Keys, right : Allocated]
    BY <2>2 DEF TreeInv, Unlinked
  <2> QED BY <2>2, <2>3, <2>4 DEF TypeOK, TreeInv
<1> QED BY <1>1, IndexIsTree, PTL

(***************************************************************************)
(* What is true of a node when it is true of its children is true of all   *)
(* nodes: the way down ends.                                               *)
(***************************************************************************)
LEMMA LevelInduction ==
  ASSUME NEW h, NEW level, Shape(h, level), NEW S,
         \A a \in Alloc(h) : Children(h[a]) \subseteq S => a \in S
  PROVE  Alloc(h) \subseteq S
<1> DEFINE Rest == Alloc(h) \ S
           N == {level[a] : a \in Rest}
<1> SUFFICES ASSUME Rest # {} PROVE FALSE
  OBVIOUS
<1>1. N \in SUBSET Nat /\ N # {}
  BY NodeInHeap
<1>2. PICK m \in N : \A n \in N : m <= n
  BY <1>1, LeastNumber
<1>3. PICK a \in Rest : m = level[a]
  OBVIOUS
<1>4. ASSUME NEW x \in Children(h[a]) PROVE x \in S
  <2>1. x \in Alloc(h) /\ level[x] + 1 = level[a] /\ level[x] \in Nat /\ level[a] \in Nat
    BY NodeInHeap DEF Placed
  <2>2. x \in Rest => level[a] <= level[x]
    BY <1>2, <1>3
  <2> QED BY <2>1, <2>2
<1> QED BY <1>3, <1>4

LEMMA KidsOfNode ==
  ASSUME NEW h, NEW level, Shape(h, level), NEW a \in Alloc(h)
  PROVE  /\ DOMAIN h[a].kids = 1..Len(h[a].kids)
         /\ \A x : x \in Children(h[a]) <=> \E i \in DOMAIN h[a].kids : h[a].kids[i] = x
         /\ ~h[a].leaf => 1 \in DOMAIN h[a].kids
         /\ h[a].leaf => DOMAIN h[a].kids = {}
<1>1. /\ h[a].kids \in Seq(Addresses) /\ WellFormed(h[a]) /\ h[a] \in Node
      /\ Len(h[a].kids) \in Nat
  BY NodeInHeap
<1>2. DOMAIN h[a].kids = 1..Len(h[a].kids)
  BY <1>1, LenProperties
<1>3. h[a].leaf => Len(h[a].kids) = 0
  BY <1>1, EmptySeq DEF WellFormed
<1>4. ~h[a].leaf => Len(h[a].kids) >= 1
  BY <1>1, NodeFields DEF WellFormed
<1> QED BY <1>1, <1>2, <1>3, <1>4 DEF Children, Elements

(***************************************************************************)
(* The nodes below a node.  Hereditary sets hold the children of what they *)
(* hold; what is below a node is in each of them that holds it.            *)
(***************************************************************************)
Hereditary(h, S) == S \subseteq Alloc(h) /\ \A a \in S : Children(h[a]) \subseteq S

IsBelow(h, f) ==
  f = [a \in Alloc(h) |-> {a} \cup UNION {f[h[a].kids[i]] : i \in DOMAIN h[a].kids}]

LEMMA BelowExists ==
  ASSUME NEW h, NEW level, Shape(h, level)
  PROVE  \E f : IsBelow(h, f)
<1> DEFINE Under(a) == {x \in Alloc(h) : \A S \in SUBSET Alloc(h) :
                                           Hereditary(h, S) /\ a \in S => x \in S}
           f == [a \in Alloc(h) |-> Under(a)]
<1>1. \A a \in Alloc(h) : a \in Under(a)
  OBVIOUS
<1>2. ASSUME NEW a \in Alloc(h), NEW x \in Children(h[a]), NEW y \in Under(x)
      PROVE  y \in Under(a)
  BY DEF Hereditary
<1>3. ASSUME NEW a \in Alloc(h), NEW y \in Under(a), y # a
      PROVE  \E x \in Children(h[a]) : y \in Under(x)
  <2> DEFINE Y == UNION {Under(x) : x \in Children(h[a])}
             S == {a} \cup Y
  <2> SUFFICES y \in S
    BY <1>3
  <2>1. Children(h[a]) \subseteq Alloc(h)
    BY NodeInHeap
  <2>2. S \in SUBSET Alloc(h) /\ a \in S
    OBVIOUS
  <2>3. ASSUME NEW z \in Y PROVE Children(h[z]) \subseteq Y
    <3>1. PICK x \in Children(h[a]) : z \in Under(x)
      OBVIOUS
    <3>2. ASSUME NEW w \in Children(h[z]) PROVE w \in Under(x)
      <4>1. w \in Alloc(h)
        BY <3>1, NodeInHeap
      <4> QED BY <4>1, <3>1 DEF Hereditary
    <3> QED BY <3>2
  <2>4. \A x \in Children(h[a]) : x \in Y
    BY <1>1, <2>1
  <2>5. Hereditary(h, S)
    BY <2>2, <2>3, <2>4 DEF Hereditary
  <2> QED BY <2>2, <2>5
<1> HIDE DEF Under
<1>4. ASSUME NEW a \in Alloc(h)
      PROVE  Under(a) = {a} \cup UNION {f[h[a].kids[i]] : i \in DOMAIN h[a].kids}
  <2>1. \A x : x \in Children(h[a]) <=> \E i \in DOMAIN h[a].kids : h[a].kids[i] = x
    BY KidsOfNode
  <2>2. \A i \in DOMAIN h[a].kids : h[a].kids[i] \in Children(h[a])
    BY <2>1
  <2>3. Children(h[a]) \subseteq Alloc(h)
    BY NodeInHeap
  <2>4. \A i \in DOMAIN h[a].kids : f[h[a].kids[i]] = Under(h[a].kids[i])
    BY <2>2, <2>3
  <2>5. ASSUME NEW y
        PROVE  y \in Under(a) <=> y = a \/ \E i \in DOMAIN h[a].kids : y \in f[h[a].kids[i]]
    <3>1. y \in Under(a) => y = a \/ \E x \in Children(h[a]) : y \in Under(x)
      BY <1>3
    <3>2. y = a \/ (\E x \in Children(h[a]) : y \in Under(x)) => y \in Under(a)
      BY <1>1, <1>2
    <3>3. ASSUME NEW x \in Children(h[a]), y \in Under(x)
          PROVE  \E i \in DOMAIN h[a].kids : y \in f[h[a].kids[i]]
      <4>1. PICK i \in DOMAIN h[a].kids : h[a].kids[i] = x
        BY <2>1
      <4>2. f[h[a].kids[i]] = Under(x)
        BY <2>4, <4>1
      <4> QED BY <3>3, <4>2
    <3>4. ASSUME NEW i \in DOMAIN h[a].kids, y \in f[h[a].kids[i]]
          PROVE  \E x \in Children(h[a]) : y \in Under(x)
      BY <3>4, <2>2, <2>4
    <3> QED BY <3>1, <3>2, <3>3, <3>4
  <2> HIDE DEF f
  <2> QED BY <2>5
<1>5. IsBelow(h, f)
  BY <1>4 DEF IsBelow
<1> QED BY <1>5

LEMMA BelowStep ==
  ASSUME NEW h, NEW level, Shape(h, level), NEW f, IsBelow(h, f), NEW a \in Alloc(h)
  PROVE  \A y : y \in f[a] <=> y = a \/ \E x \in Children(h[a]) : y \in f[x]
<1>1. f[a] = {a} \cup UNION {f[h[a].kids[i]] : i \in DOMAIN h[a].kids}
  BY DEF IsBelow
<1>2. \A x : x \in Children(h[a]) <=> \E i \in DOMAIN h[a].kids : h[a].kids[i] = x
  BY KidsOfNode
<1>3. \A y : y \in f[a] <=> y = a \/ \E i \in DOMAIN h[a].kids : y \in f[h[a].kids[i]]
  BY <1>1
<1> QED BY <1>2, <1>3

(* All that is below a node is allocated and, the node aside, hangs from   *)
(* a node; the children of what is below a node are below it as well.      *)
LEMMA BelowIsOwned ==
  ASSUME NEW h, NEW level, Shape(h, level), NEW f, IsBelow(h, f), NEW top \in Alloc(h)
  PROVE  /\ f[top] \subseteq Alloc(h) /\ top \in f[top]
         /\ \A y \in f[top] \ {top} : Owned(h, y)
         /\ \A y \in f[top] : Children(h[y]) \subseteq f[top]
<1> DEFINE Good(a, y) == /\ y \in Alloc(h) /\ (y # a => Owned(h, y))
                         /\ Children(h[y]) \subseteq f[a]
           S == {a \in Alloc(h) : \A y \in f[a] : Good(a, y)}
<1>1. ASSUME NEW a \in Alloc(h), Children(h[a]) \subseteq S PROVE a \in S
  <2> SUFFICES ASSUME NEW y \in f[a] PROVE Good(a, y)
    OBVIOUS
  <2>1. \A z : z \in f[a] <=> z = a \/ \E x \in Children(h[a]) : z \in f[x]
    BY BelowStep
  <2>2. CASE y = a
    <3>1. \A x \in Children(h[a]) : x \in Alloc(h) /\ x \in f[x]
      BY NodeInHeap, BelowStep
    <3>2. Children(h[a]) \subseteq f[a]
      BY <2>1, <3>1
    <3> QED BY <2>2, <3>2
  <2>3. CASE y # a
    <3>1. PICK x \in Children(h[a]) : y \in f[x]
      BY <2>1, <2>3
    <3>2. Good(x, y)
      BY <1>1, <3>1
    <3>3. Owned(h, x)
      BY <3>1 DEF Owned
    <3>4. f[x] \subseteq f[a]
      BY <2>1, <3>1
    <3> QED BY <3>2, <3>3, <3>4
  <2> QED BY <2>2, <2>3
<1>2. top \in S
  BY <1>1, LevelInduction
<1>3. top \in f[top]
  BY BelowStep
<1> QED BY <1>2, <1>3

LEMMA ReachableIsBelow ==
  ASSUME NEW level, Shape(heap, level)
  PROVE  \E f : IsBelow(heap, f) /\ Reachable = f[root]
<1> DEFINE f == CHOOSE g : IsBelow(heap, g)
<1>1. IsBelow(heap, f)
  BY BelowExists
<1>2. Reachable = f[root]
  BY DEF Reachable, IsBelow, Allocated, Alloc
<1> QED BY <1>1, <1>2

(* A settled index: the root is there, all that is reached is allocated.   *)
LEMMA ReachableNodes ==
  ASSUME NEW level, NEW rank, Tree(heap, root, level, rank), root # Null
  PROVE  /\ root \in Alloc(heap) /\ Reachable \subseteq Alloc(heap) /\ root \in Reachable
         /\ \A y \in Reachable \ {root} : Owned(heap, y)
         /\ \A y \in Reachable : Children(heap[y]) \subseteq Reachable
<1>1. Shape(heap, level) /\ root \in Alloc(heap)
  BY DEF Tree
<1>2. PICK f : IsBelow(heap, f) /\ Reachable = f[root]
  BY <1>1, ReachableIsBelow
<1> QED BY <1>1, <1>2, BelowIsOwned

LEMMA AllIsReached ==
  ASSUME NEW level, NEW rank, Tree(heap, root, level, rank), root # Null,
         NoneLost(heap, root, {})
  PROVE  Alloc(heap) \subseteq Reachable
<1> DEFINE Rest == Alloc(heap) \ Reachable
           N == {level[root] - level[a] : a \in Rest}
<1> SUFFICES ASSUME Rest # {} PROVE FALSE
  OBVIOUS
<1>1. /\ Shape(heap, level) /\ root \in Alloc(heap) /\ root \in Reachable
      /\ \A a \in Alloc(heap) : level[a] \in Nat /\ level[a] <= level[root]
      /\ \A y \in Reachable : Children(heap[y]) \subseteq Reachable
  BY ReachableNodes, NodeInHeap DEF Tree
<1>2. N \in SUBSET Nat /\ N # {}
  BY <1>1
<1>3. PICK m \in N : \A n \in N : m <= n
  BY <1>2, LeastNumber
<1>4. PICK a \in Rest : m = level[root] - level[a]
  OBVIOUS
<1>5. PICK c \in Alloc(heap) : a \in Children(heap[c])
  BY <1>1, <1>4 DEF NoneLost, Owned
<1>6. level[a] + 1 = level[c]
  BY <1>1, <1>5, NodeInHeap DEF Placed
<1>7. c \notin Rest
  <2> SUFFICES ASSUME c \in Rest PROVE FALSE
    OBVIOUS
  <2>1. level[root] - level[c] \in N
    OBVIOUS
  <2>2. level[root] - level[a] <= level[root] - level[c]
    BY <2>1, <1>3, <1>4
  <2>3. level[a] \in Nat /\ level[c] \in Nat /\ level[root] \in Nat
    BY <1>1, <1>4
  <2> QED BY <2>2, <2>3, <1>6
<1> QED BY <1>1, <1>4, <1>5, <1>7

(***************************************************************************)
(* No node is lost as long as no split was left unlinked.                  *)
(***************************************************************************)
THEOREM NoNodeIsLost == Spec => []NothingLeaks
<1>1. TreeInv => NothingLeaks
  <2> SUFFICES ASSUME TreeInv, Whole PROVE Allocated = Reachable
    BY DEF NothingLeaks
  <2>1. PICK level, rank : Tree(heap, root, level, rank)
    BY DEF TreeInv
  <2>2. root # Null /\ NoneLost(heap, root, {}) /\ Allocated = Alloc(heap)
    BY DEF TreeInv, Whole, Settled, Allocated, Alloc
  <2> QED BY <2>1, <2>2, ReachableNodes, AllIsReached
<1> QED BY <1>1, IndexIsTree, PTL

(***************************************************************************)
(* All leaves are equally deep, and all nodes but the root half full.      *)
(***************************************************************************)
IsDepth(h, f) ==
  f = [a \in Alloc(h) |->
         IF h[a].leaf THEN {0}
         ELSE {d + 1 : d \in UNION {f[h[a].kids[i]] : i \in DOMAIN h[a].kids}}]

LEMMA DepthIsLevel ==
  ASSUME NEW h, NEW level, Shape(h, level)
  PROVE  /\ \E f : IsDepth(h, f)
         /\ \A f : IsDepth(h, f) => \A a \in Alloc(h) : f[a] = {level[a]}
<1>1. ASSUME NEW a \in Alloc(h), NEW f,
             \A x \in Children(h[a]) : f[x] = {level[x]}
      PROVE  {level[a]} = IF h[a].leaf THEN {0}
               ELSE {d + 1 : d \in UNION {f[h[a].kids[i]] : i \in DOMAIN h[a].kids}}
  <2>1. CASE h[a].leaf
    BY <2>1, NodeInHeap DEF Placed
  <2>2. CASE ~h[a].leaf
    <3> DEFINE D == UNION {f[h[a].kids[i]] : i \in DOMAIN h[a].kids}
    <3>1. \A i \in DOMAIN h[a].kids : h[a].kids[i] \in Children(h[a])
      BY KidsOfNode
    <3>2. \A x \in Children(h[a]) : level[x] + 1 = level[a]
      BY NodeInHeap DEF Placed
    <3>3. ASSUME NEW d \in D PROVE d + 1 = level[a]
      <4>1. PICK i \in DOMAIN h[a].kids : d \in f[h[a].kids[i]]
        OBVIOUS
      <4>2. d = level[h[a].kids[i]]
        BY <4>1, <3>1, <1>1
      <4> QED BY <4>2, <3>1, <3>2
    <3>4. D # {}
      <4>1. 1 \in DOMAIN h[a].kids /\ level[h[a].kids[1]] \in f[h[a].kids[1]]
        BY <2>2, <3>1, <1>1, KidsOfNode
      <4> QED BY <4>1
    <3> HIDE DEF D
    <3>5. {d + 1 : d \in D} = {level[a]}
      BY <3>3, <3>4
    <3> QED BY <2>2, <3>5 DEF D
  <2> QED BY <2>1, <2>2
<1>2. ASSUME NEW a \in Alloc(h) PROVE Children(h[a]) \subseteq Alloc(h)
  BY NodeInHeap
<1>3. \E f : IsDepth(h, f)
  <2> DEFINE f == [a \in Alloc(h) |-> {level[a]}]
  <2>1. \A a \in Alloc(h) : f[a] = {level[a]}
    OBVIOUS
  <2>2. ASSUME NEW a \in Alloc(h)
        PROVE  {level[a]} = IF h[a].leaf THEN {0}
                 ELSE {d + 1 : d \in UNION {f[h[a].kids[i]] : i \in DOMAIN h[a].kids}}
    <3> HIDE DEF f
    <3> QED BY SMTT(30), <2>1, <1>1, <1>2
  <2>3. IsDepth(h, f)
    BY <2>2 DEF IsDepth
  <2> QED BY <2>3
<1>4. ASSUME NEW f, IsDepth(h, f) PROVE \A a \in Alloc(h) : f[a] = {level[a]}
  <2> DEFINE S == {a \in Alloc(h) : f[a] = {level[a]}}
  <2>1. ASSUME NEW a \in Alloc(h), Children(h[a]) \subseteq S PROVE a \in S
    <3>1. f[a] = IF h[a].leaf THEN {0}
                 ELSE {d + 1 : d \in UNION {f[h[a].kids[i]] : i \in DOMAIN h[a].kids}}
      BY <1>4 DEF IsDepth
    <3>2. \A x \in Children(h[a]) : f[x] = {level[x]}
      BY <2>1
    <3> QED BY <3>1, <3>2, <1>1
  <2>2. Alloc(h) \subseteq S
    BY <2>1, LevelInduction
  <2> QED BY <2>2
<1> QED BY <1>3, <1>4

THEOREM LeavesAreEquallyDeep == Spec => []Balanced
<1>1. TreeInv => Balanced
  <2> SUFFICES ASSUME TreeInv, Whole
               PROVE  /\ Cardinality(Depths) = 1
                      /\ \A a \in Reachable \ {root} :
                           Len(heap[a].keys) >= IF heap[a].leaf THEN (MaxKeys + 1) \div 2
                                                                 ELSE MaxKeys \div 2
    BY DEF Balanced
  <2>1. PICK level, rank : Tree(heap, root, level, rank)
    BY DEF TreeInv
  <2>2. /\ root # Null /\ root \in Alloc(heap) /\ Shape(heap, level)
        /\ Reachable \subseteq Alloc(heap) /\ Filled(heap, root)
    BY <2>1, ReachableNodes DEF Whole, Settled, Tree
  <2>3. Depths = {level[root]}
    <3> DEFINE f == CHOOSE g : IsDepth(heap, g)
    <3>1. Depths = f[root]
      BY DEF Depths, IsDepth, Allocated, Alloc
    <3>2. IsDepth(heap, f)
      BY <2>2, DepthIsLevel
    <3> QED BY <3>1, <3>2, <2>2, DepthIsLevel
  <2>4. Cardinality(Depths) = 1
    BY <2>3, FS_Singleton
  <2> QED BY <2>2, <2>4 DEF Filled, HalfFull
<1> QED BY <1>1, IndexIsTree, PTL

(***************************************************************************)
(* The two ways a search goes: down from a node by its first child, and    *)
(* from one linked node to the next.                                       *)
(***************************************************************************)
Leaves(h) == {a \in Alloc(h) : h[a].leaf}
LevelOf(h, level) == [a \in Alloc(h) |-> level[a]]
FirstKid(h) == [a \in Alloc(h) |-> h[a].kids[1]]

LEMMA FirstKidDescends ==
  ASSUME NEW h, NEW level, Shape(h, level)
  PROVE  Descends(Alloc(h), LevelOf(h, level), Leaves(h), FirstKid(h))
<1> DEFINE N == Alloc(h)
           down == LevelOf(h, level)
<1>1. down \in [N -> Nat] /\ \A a \in N : down[a] = level[a]
  BY NodeInHeap DEF LevelOf
<1>2. ASSUME NEW a \in N \ Leaves(h)
      PROVE  FirstKid(h)[a] \in N /\ down[FirstKid(h)[a]] < down[a]
  <2>1. h[a].kids[1] \in Children(h[a])
    BY KidsOfNode DEF Leaves
  <2>2. h[a].kids[1] \in N /\ level[h[a].kids[1]] + 1 = level[a]
    BY <2>1, NodeInHeap DEF Placed
  <2> QED BY <2>2, <1>1 DEF FirstKid
<1> QED BY <1>1, <1>2 DEF Descends, Leaves

IsFirst(h, f) == f = [a \in Alloc(h) |-> IF h[a].leaf THEN a ELSE f[h[a].kids[1]]]

LEMMA FirstExists ==
  ASSUME NEW h, NEW level, Shape(h, level)
  PROVE  \E f : IsFirst(h, f)
<1> DEFINE N == Alloc(h)
           stop == Leaves(h)
           succ == FirstKid(h)
           base == [a \in stop |-> a]
           step == [a \in N \ stop |-> [v \in N |-> v]]
<1>1. Descends(N, LevelOf(h, level), stop, succ)
  BY FirstKidDescends
<1>2. Stepping(N, N, stop, base, step)
  BY DEF Stepping, Leaves
<1>3. \E f \in [N -> N] : Recurs(f, N, stop, succ, base, step)
  <2> HIDE DEF N, stop, succ, base, step
  <2> QED BY <1>1, <1>2, RecursionExists
<1>4. PICK f \in [N -> N] : \A a \in N :
        f[a] = IF a \in stop THEN base[a] ELSE step[a][f[succ[a]]]
  BY <1>3 DEF Recurs
<1>5. ASSUME NEW a \in N PROVE f[a] = IF h[a].leaf THEN a ELSE f[h[a].kids[1]]
  <2>1. CASE a \in stop
    BY <2>1, <1>4 DEF Leaves
  <2>2. CASE a \notin stop
    <3>1. succ[a] = h[a].kids[1] /\ succ[a] \in N
      BY <2>2, <1>1 DEF FirstKid, Descends
    <3>2. f[succ[a]] \in N
      BY <3>1, <1>4
    <3> QED BY <2>2, <3>1, <3>2, <1>4 DEF Leaves
  <2> QED BY <2>1, <2>2
<1>6. IsFirst(h, f)
  BY <1>4, <1>5 DEF IsFirst
<1> QED BY <1>6

LEMMA FirstIsLeaf ==
  ASSUME NEW h, NEW level, Shape(h, level), NEW f, IsFirst(h, f)
  PROVE  \A a \in Alloc(h) : f[a] \in Leaves(h)
<1> DEFINE S == {a \in Alloc(h) : f[a] \in Leaves(h)}
<1>1. PassedOn(Alloc(h), Leaves(h), FirstKid(h), S)
  <2>1. ASSUME NEW a \in Alloc(h) PROVE f[a] = IF h[a].leaf THEN a ELSE f[h[a].kids[1]]
    BY DEF IsFirst
  <2> QED BY <2>1 DEF PassedOn, Leaves, FirstKid
<1>2. Descends(Alloc(h), LevelOf(h, level), Leaves(h), FirstKid(h))
  BY FirstKidDescends
<1> HIDE DEF S
<1>3. Alloc(h) \subseteq S
  BY <1>1, <1>2, RecursionEnds
<1> QED BY <1>3 DEF S

LEMMA LeftmostIsLeaf ==
  ASSUME NEW level, Shape(heap, level), root \in Alloc(heap)
  PROVE  LeftmostLeaf \in Leaves(heap)
<1> DEFINE f == CHOOSE g : IsFirst(heap, g)
<1>1. IsFirst(heap, f)
  BY FirstExists
<1>2. LeftmostLeaf = f[root]
  BY DEF LeftmostLeaf, IsFirst, Allocated, Alloc
<1> QED BY <1>1, <1>2, FirstIsLeaf

(* From one node to the next.                                              *)
Stations(h) == Alloc(h) \cup {Null}
NextOf(h) == [a \in Alloc(h) |-> h[a].next]
ChainRank(h, rank) == [a \in Stations(h) |-> IF a = Null THEN 0 ELSE rank[a] + 1]

LEMMA NextDescends ==
  ASSUME NEW h, NEW level, NEW rank, Shape(h, level), Chained(h, rank)
  PROVE  Descends(Stations(h), ChainRank(h, rank), {Null}, NextOf(h))
<1> DEFINE N == Stations(h)
           r == ChainRank(h, rank)
<1>1. Null \notin Alloc(h) /\ \A a \in Alloc(h) : a \in Addresses /\ rank[a] \in Nat
  BY TreeAssumption DEF Alloc, Chained
<1>2. /\ r \in [N -> Nat] /\ r[Null] = 0
      /\ \A a \in Alloc(h) : r[a] = rank[a] + 1
  BY <1>1 DEF Stations, ChainRank
<1> HIDE DEF r
<1>3. ASSUME NEW a \in N \ {Null} PROVE NextOf(h)[a] \in N /\ r[NextOf(h)[a]] < r[a]
  <2>1. a \in Alloc(h) /\ NextOf(h)[a] = h[a].next
    BY DEF Stations, NextOf
  <2>2. h[a].next # Null => h[a].next \in Alloc(h) /\ rank[h[a].next] < rank[a]
    <3>1. h[a].next # Null => h[a].leaf
      BY <2>1, NodeInHeap, WellFormedIsNode
    <3> QED BY <2>1, <3>1 DEF Chained, Linked
  <2> QED BY <2>1, <2>2, <1>1, <1>2 DEF Stations
<1> QED BY <1>2, <1>3 DEF Descends, Stations, r

IsTail(h, f) == f = [a \in Stations(h) |-> IF a = Null THEN {} ELSE {a} \cup f[h[a].next]]

LEMMA TailExists ==
  ASSUME NEW h, NEW level, NEW rank, Shape(h, level), Chained(h, rank)
  PROVE  \E f : IsTail(h, f)
<1> DEFINE N == Stations(h)
           V == SUBSET Alloc(h)
           stop == {Null}
           succ == NextOf(h)
           base == [a \in stop |-> {}]
           step == [a \in N \ stop |-> [v \in V |-> {a} \cup v]]
<1>1. Descends(N, ChainRank(h, rank), stop, succ)
  BY NextDescends
<1>2. Stepping(N, V, stop, base, step)
  BY DEF Stepping, Stations
<1>3. \E f \in [N -> V] : Recurs(f, N, stop, succ, base, step)
  <2> HIDE DEF N, V, stop, succ, base, step
  <2> QED BY <1>1, <1>2, RecursionExists
<1>4. PICK f \in [N -> V] : \A a \in N :
        f[a] = IF a \in stop THEN base[a] ELSE step[a][f[succ[a]]]
  BY <1>3 DEF Recurs
<1>5. ASSUME NEW a \in N PROVE f[a] = IF a = Null THEN {} ELSE {a} \cup f[h[a].next]
  <2>1. CASE a = Null
    BY <2>1, <1>4
  <2>2. CASE a # Null
    <3>1. succ[a] = h[a].next /\ succ[a] \in N
      BY <2>2, <1>1 DEF NextOf, Descends, Stations
    <3>2. f[succ[a]] \in V
      BY <3>1, <1>4
    <3> QED BY <2>2, <3>1, <3>2, <1>4
  <2> QED BY <2>1, <2>2
<1>6. IsTail(h, f)
  BY <1>4, <1>5 DEF IsTail
<1> QED BY <1>6

LEMMA TailIsAllocated ==
  ASSUME NEW h, NEW level, NEW rank, Shape(h, level), Chained(h, rank),
         NEW f, IsTail(h, f)
  PROVE  \A a \in Stations(h) : f[a] \subseteq Alloc(h)
<1> DEFINE S == {a \in Stations(h) : f[a] \subseteq Alloc(h)}
<1>1. PassedOn(Stations(h), {Null}, NextOf(h), S)
  <2>1. ASSUME NEW a \in Stations(h)
        PROVE  f[a] = IF a = Null THEN {} ELSE {a} \cup f[h[a].next]
    BY DEF IsTail
  <2>2. ASSUME NEW a \in Stations(h), a = Null \/ NextOf(h)[a] \in S PROVE a \in S
    <3>1. CASE a = Null
      BY <2>1, <3>1
    <3>2. CASE a # Null
      <4>1. a \in Alloc(h) /\ NextOf(h)[a] = h[a].next
        BY <3>2 DEF Stations, NextOf
      <4>2. f[a] = {a} \cup f[h[a].next] /\ f[h[a].next] \subseteq Alloc(h)
        BY <2>1, <2>2, <3>2, <4>1
      <4> QED BY <4>1, <4>2
    <3> QED BY <3>1, <3>2
  <2> QED BY <2>2 DEF PassedOn
<1>2. Descends(Stations(h), ChainRank(h, rank), {Null}, NextOf(h))
  BY NextDescends
<1> HIDE DEF S
<1>3. Stations(h) \subseteq S
  <2> DEFINE stop == {Null}
  <2>1. PassedOn(Stations(h), stop, NextOf(h), S)
        /\ Descends(Stations(h), ChainRank(h, rank), stop, NextOf(h))
    BY <1>1, <1>2
  <2> HIDE DEF stop
  <2> QED BY <2>1, RecursionEnds
<1> QED BY <1>3 DEF S

LEMMA ChainIsAllocated ==
  ASSUME NEW level, NEW rank, Tree(heap, root, level, rank), root # Null
  PROVE  Chain \subseteq Alloc(heap)
<1> DEFINE f == CHOOSE g : IsTail(heap, g)
<1>1. Shape(heap, level) /\ Chained(heap, rank) /\ root \in Alloc(heap)
  BY DEF Tree
<1>2. IsTail(heap, f)
  BY <1>1, TailExists
<1>3. Chain = f[LeftmostLeaf]
  BY DEF Chain, IsTail, Allocated, Alloc, Stations
<1>4. LeftmostLeaf \in Stations(heap)
  BY <1>1, LeftmostIsLeaf DEF Leaves, Stations
<1> QED BY <1>1, <1>2, <1>3, <1>4, TailIsAllocated

(* The places a node hangs from.                                           *)
LEMMA OneOwner ==
  ASSUME NEW level, Shape(heap, level), NEW a
  PROVE  /\ ~Owned(heap, a) => Cardinality(Owners(a)) = 0
         /\ Owned(heap, a)  => Cardinality(Owners(a)) = 1
<1>1. \A link \in Owners(a) : \E b \in Alloc(heap) : \E i \in DOMAIN heap[b].kids :
        link = <<b, i>> /\ heap[b].kids[i] = a
  BY DEF Owners, Links, Allocated, Alloc
<1>2. \A b \in Alloc(heap) : \A i \in DOMAIN heap[b].kids :
        heap[b].kids[i] = a => <<b, i>> \in Owners(a)
  BY DEF Owners, Links, Allocated, Alloc
<1>3. CASE ~Owned(heap, a)
  <2>1. ASSUME NEW link \in Owners(a) PROVE FALSE
    <3>1. PICK b \in Alloc(heap) : \E i \in DOMAIN heap[b].kids : heap[b].kids[i] = a
      BY <1>1
    <3>2. a \in Children(heap[b])
      BY <3>1, KidsOfNode
    <3> QED BY <3>2, <1>3 DEF Owned
  <2>2. Owners(a) = {}
    BY <2>1
  <2> QED BY <2>2, <1>3, FS_EmptySet
<1>4. CASE Owned(heap, a)
  <2>1. PICK b \in Alloc(heap) : a \in Children(heap[b])
    BY <1>4 DEF Owned
  <2>2. PICK i \in DOMAIN heap[b].kids : heap[b].kids[i] = a
    BY <2>1, KidsOfNode
  <2>3. ASSUME NEW c \in Alloc(heap), NEW j \in DOMAIN heap[c].kids, heap[c].kids[j] = a
        PROVE  c = b /\ j = i
    <3>1. a \in Children(heap[c])
      BY <2>3, KidsOfNode
    <3>2. c = b
      BY <2>1, <3>1 DEF Shape, Apart
    <3>3. i \in 1..Len(heap[b].kids) /\ j \in 1..Len(heap[b].kids) /\ Distinct(heap[b])
      BY <3>2, KidsOfNode, NodeInHeap
    <3> QED BY <2>2, <2>3, <3>2, <3>3 DEF Distinct, NoTwice
  <2>4. Owners(a) = {<<b, i>>}
    BY <1>1, <1>2, <2>2, <2>3
  <2> QED BY <2>4, <1>4, FS_Singleton
<1> QED BY <1>3, <1>4

(***************************************************************************)
(* No pointer that is followed dangles, and every node but the root hangs  *)
(* from one place, even after a failed split.                              *)
(***************************************************************************)
THEOREM EachNodeIsFreedOnce == Spec => []FreeIsSafe
<1>1. TreeInv => FreeIsSafe
  <2> SUFFICES ASSUME TreeInv, root # Null
               PROVE  /\ Reachable \cup Chain \subseteq Allocated
                      /\ \A a \in Reachable :
                           Cardinality(Owners(a)) = IF a = root THEN 0 ELSE 1
    BY DEF FreeIsSafe
  <2>1. PICK level, rank : Tree(heap, root, level, rank)
    BY DEF TreeInv
  <2>2. Shape(heap, level) /\ ~Owned(heap, root) /\ Allocated = Alloc(heap)
    BY <2>1 DEF Tree, Allocated, Alloc
  <2>3. Reachable \cup Chain \subseteq Allocated
    BY <2>1, <2>2, ReachableNodes, ChainIsAllocated
  <2>4. \A a \in Reachable : a # root => Owned(heap, a)
    BY <2>1, ReachableNodes
  <2> QED BY <2>2, <2>3, <2>4, OneOwner
<1> QED BY <1>1, IndexIsTree, PTL
=============================================================================
