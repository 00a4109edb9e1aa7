----------------------------- MODULE BPlusTree -----------------------------
(***************************************************************************)
(* The id index (src/src/storage.c:173-490): a B+ tree in which internal   *)
(* nodes hold separators and the leaves, linked from left to right, hold   *)
(* the keys with their record references.  An insertion descends to a      *)
(* leaf and comes back up as long as nodes split; a step is one call of    *)
(* bpt_insert_recursive on its way down or back.                           *)
(***************************************************************************)
EXTENDS Integers, SequencesExt

CONSTANTS
  MaxKeys,       \* BPTREE_MAX_KEYS: the keys a node has room for
  Keys,          \* keys that are looked up
  Entries,       \* keys that are inserted, each with a record reference
  Addresses,     \* bound: where nodes can be allocated
  Null,          \* the null pointer
  Free,          \* what is at an address that is not allocated
  NoArg,         \* "no insertion is running"
  AllocMayFail   \* whether calloc may return null

Node == [leaf : BOOLEAN, keys : Seq(Keys), refs : Seq({e.ref : e \in Entries}),
         kids : Seq(Addresses), next : Addresses \cup {Null}]

ASSUME TreeAssumption ==
  /\ MaxKeys \in Nat /\ MaxKeys >= 2
  /\ Addresses # {}
  /\ Keys \subseteq Nat /\ Addresses \subseteq Nat
  /\ \A e \in Entries : e = [key |-> e.key, ref |-> e.ref] /\ e.key \in Keys
  /\ Null \notin Addresses /\ Free \notin Node
  /\ AllocMayFail \in BOOLEAN

VARIABLES
  heap,     \* address -> node, or Free
  root,     \* g_index_root; g_index_ready is root # Null
  pc,       \* "idle", "down" (searching the leaf) or "up" (linking a split)
  arg,      \* the entry being inserted
  at,       \* the node at hand
  trail,    \* the internal nodes passed, each with the child taken
  split,    \* BptSplitResult: the promoted key and the new right node
  result,   \* of the last insertion: 0 inserted, 1 duplicate, -1 error
  \* what the properties compare with
  sinceCut  \* insertions since a split was left unlinked, itself one; 0: none

vars == <<heap, root, pc, arg, at, trail, split, result, sinceCut>>

\* Mutant: a leaf is not linked to the next.
LeafUnlinked(keys, refs, next) ==
  [leaf |-> TRUE, keys |-> keys, refs |-> refs, kids |-> <<>>, next |-> Null]

Leaf(keys, refs, next) ==
  [leaf |-> TRUE, keys |-> keys, refs |-> refs, kids |-> <<>>, next |-> next]
Inner(keys, kids) ==
  [leaf |-> FALSE, keys |-> keys, refs |-> <<>>, kids |-> kids, next |-> Null]

NoSplit == [key |-> 0, right |-> Null]

(***************************************************************************)
(* Reading the tree                                                        *)
(***************************************************************************)
Allocated == {a \in Addresses : heap[a] # Free}

FirstIn(keys, Stop(_)) ==
  CHOOSE i \in 1..Len(keys) + 1 :
    /\ i <= Len(keys) => Stop(keys[i])
    /\ \A j \in 1..i - 1 : ~Stop(keys[j])

\* Mutant: a key equal to a separator goes left.
ChildSlotLeft(node, k) == LET Beyond(x) == k <= x IN FirstIn(node.keys, Beyond)

(* The child a key belongs to, and its place in a leaf.                    *)
ChildSlot(node, k) == LET Beyond(x) == k < x  IN FirstIn(node.keys, Beyond)
LeafSlot(node, k)  == LET AtLeast(x) == x >= k IN FirstIn(node.keys, AtLeast)

HasKey(node, k) == LeafSlot(node, k) <= Len(node.keys)
                   /\ node.keys[LeafSlot(node, k)] = k

LeafFor(k) ==
  LET below[a \in Allocated] ==
        IF heap[a].leaf THEN a ELSE below[heap[a].kids[ChildSlot(heap[a], k)]]
  IN below[root]

(* bpt_find: the reference of a key, or Null.                              *)
Find(k) == LET leaf == heap[LeafFor(k)]
           IN IF HasKey(leaf, k) THEN leaf.refs[LeafSlot(leaf, k)] ELSE Null

LeftmostLeaf ==
  LET below[a \in Allocated] == IF heap[a].leaf THEN a ELSE below[heap[a].kids[1]]
  IN below[root]

(* The entries of a leaf and of those linked behind it, in order.          *)
EntriesOf(node) ==
  [i \in 1..Len(node.keys) |-> [key |-> node.keys[i], ref |-> node.refs[i]]]

EntriesFrom(leaf) ==
  LET from[a \in Allocated \cup {Null}] ==
        IF a = Null THEN <<>> ELSE EntriesOf(heap[a]) \o from[heap[a].next]
  IN from[leaf]

\* Mutant: what equals the bound is not skipped.
ScanUpFromBound(rel, k) ==
  LET leaf  == LeafFor(k)
      found == EntriesFrom(leaf)
  IN SubSeq(found, LeafSlot(heap[leaf], k), Len(found))

(* run_select_by_id_range, upwards: from bpt_lower_bound to the end, what  *)
(* is not above the bound being skipped for ">".                           *)
ScanUp(rel, k) ==
  LET leaf  == LeafFor(k)
      slot  == LeafSlot(heap[leaf], k)
      found == EntriesFrom(leaf)
      Skipped(e) == rel = ">" /\ e.key <= k
      taken[i \in 0..Len(found)] ==  \* when the i-th entry found was looked at
        IF i < slot THEN <<>>
        ELSE IF Skipped(found[i]) THEN taken[i - 1]
        ELSE Append(taken[i - 1], found[i])
  IN taken[Len(found)]

(* Downwards: from the leftmost leaf until the bound is passed.            *)
ScanDown(rel, k) ==
  LET found == EntriesFrom(LeftmostLeaf)
      Past(e) == IF rel = "<" THEN e.key >= k ELSE e.key > k
  IN SubSeq(found, 1, FirstIn(found, Past) - 1)

(***************************************************************************)
(* Insertion                                                               *)
(***************************************************************************)
FreeAddresses == {a \in Addresses : heap[a] = Free}
NewAddress    == CHOOSE a \in FreeAddresses : \A b \in FreeAddresses : a <= b
CanAllocate   == FreeAddresses # {}
AllocFails    == AllocMayFail \/ ~CanAllocate

\* Mutant: one key too many.
HasRoomForOneMore(total) == total <= MaxKeys + 1

HasRoom(total) == total <= MaxKeys

\* Mutant: the right half gets one.
AllButOne(total) == total - 1

Half(total) == total \div 2

\* Mutants: a child stays in both halves, or is in neither.
RightKidsShared(kids, mid)  == SubSeq(kids, mid + 1, Len(kids))
RightKidsDropped(kids, mid) == SubSeq(kids, mid + 3, Len(kids))

RightKids(kids, mid) == SubSeq(kids, mid + 2, Len(kids))

Return(rc) == /\ pc' = "idle" /\ result' = rc
              /\ arg' = NoArg /\ at' = Null /\ trail' = <<>> /\ split' = NoSplit

Up(key, right) == /\ pc' = "up" /\ split' = [key |-> key, right |-> right]
                  /\ UNCHANGED <<arg, at, result>>

(* The new right node of a split stays unlinked.                           *)
CutOff == sinceCut' = IF sinceCut = 0 THEN 1 ELSE sinceCut

Init == /\ root = Null /\ heap = [a \in Addresses |-> Free]
        /\ pc = "idle" /\ result = 0
        /\ arg = NoArg /\ at = Null /\ trail = <<>> /\ split = NoSplit
        /\ sinceCut = 0

(* index_init: bpt_free_node frees what hangs from the root, then a new    *)
(* leaf is made.  Nodes that a failed split cut off are never freed, but   *)
(* nothing refers to them any more, and the model drops them as well.      *)
IndexInit ==
  /\ pc = "idle"
  /\ LET first == CHOOSE a \in Addresses : \A b \in Addresses : a <= b
         emptied == [a \in Addresses |-> Free]
     IN \/ /\ root' = first
           /\ heap' = [emptied EXCEPT ![first] = Leaf(<<>>, <<>>, Null)]
        \/ /\ AllocMayFail
           /\ root' = Null
           /\ heap' = emptied
  /\ sinceCut' = 0
  /\ UNCHANGED <<pc, arg, at, trail, split, result>>

Insert(e) ==
  /\ pc = "idle"
  /\ IF root = Null
     THEN Return(-1)
     ELSE /\ pc' = "down" /\ at' = root
          /\ arg' = e
          /\ UNCHANGED <<trail, split, result>>
  /\ sinceCut' = IF sinceCut = 0 THEN 0 ELSE sinceCut + 1
  /\ UNCHANGED <<heap, root>>

Descend ==
  /\ pc = "down" /\ ~heap[at].leaf
  /\ LET slot == ChildSlot(heap[at], arg.key)
     IN /\ trail' = Append(trail, [node |-> at, slot |-> slot])
        /\ at' = heap[at].kids[slot]
  /\ UNCHANGED <<heap, root, pc, arg, split, result, sinceCut>>

Duplicate ==
  /\ pc = "down" /\ heap[at].leaf /\ HasKey(heap[at], arg.key)
  /\ Return(1)
  /\ UNCHANGED <<heap, root, sinceCut>>

PutInLeaf ==
  /\ pc = "down" /\ heap[at].leaf /\ ~HasKey(heap[at], arg.key)
  /\ LET leaf  == heap[at]
         slot  == LeafSlot(leaf, arg.key)
         keys  == InsertAt(leaf.keys, slot, arg.key)
         refs  == InsertAt(leaf.refs, slot, arg.ref)
         total == Len(keys)
         half  == Half(total)
     IN \/ /\ HasRoom(total)
           /\ heap' = [heap EXCEPT ![at] = Leaf(keys, refs, leaf.next)]
           /\ Return(0)
        \/ /\ ~HasRoom(total) /\ CanAllocate
           /\ heap' = [heap EXCEPT
                ![at] = Leaf(SubSeq(keys, 1, half), SubSeq(refs, 1, half), NewAddress),
                ![NewAddress] = Leaf(SubSeq(keys, half + 1, total),
                                     SubSeq(refs, half + 1, total), leaf.next)]
           /\ Up(keys[half + 1], NewAddress)
           /\ UNCHANGED trail
        \/ /\ ~HasRoom(total) /\ AllocFails
           /\ Return(-1)
           /\ UNCHANGED heap
  /\ UNCHANGED <<root, sinceCut>>

(* Back in the parent of a node that was split.                            *)
LinkSplit ==
  /\ pc = "up" /\ trail # <<>>
  /\ LET a     == Last(trail).node
         slot  == Last(trail).slot
         keys  == InsertAt(heap[a].keys, slot, split.key)
         kids  == InsertAt(heap[a].kids, slot + 1, split.right)
         total == Len(keys)
         mid   == Half(total)
     IN \/ /\ HasRoom(total)
           /\ heap' = [heap EXCEPT ![a] = Inner(keys, kids)]
           /\ Return(0)
           /\ UNCHANGED sinceCut
        \/ /\ ~HasRoom(total) /\ CanAllocate
           /\ heap' = [heap EXCEPT
                ![a] = Inner(SubSeq(keys, 1, mid), SubSeq(kids, 1, mid + 1)),
                ![NewAddress] = Inner(SubSeq(keys, mid + 2, total),
                                      RightKids(kids, mid))]
           /\ Up(keys[mid + 1], NewAddress)
           /\ trail' = Front(trail)
           /\ UNCHANGED sinceCut
        \/ /\ ~HasRoom(total) /\ AllocFails
           /\ Return(-1) /\ CutOff
           /\ UNCHANGED heap
  /\ UNCHANGED root

GrowRoot ==
  /\ pc = "up" /\ trail = <<>>
  /\ \/ /\ CanAllocate
        /\ heap' = [heap EXCEPT ![NewAddress] = Inner(<<split.key>>, <<root, split.right>>)]
        /\ root' = NewAddress
        /\ Return(0)
        /\ UNCHANGED sinceCut
     \/ /\ AllocFails
        /\ Return(-1) /\ CutOff
        /\ UNCHANGED <<heap, root>>

Next == \/ \E e \in Entries : Insert(e)
        \/ Descend \/ Duplicate \/ PutInLeaf \/ LinkSplit \/ GrowRoot
        \/ IndexInit

Spec == Init /\ [][Next]_vars

(***************************************************************************)
(* Properties                                                              *)
(***************************************************************************)
Reachable ==
  LET below[a \in Allocated] ==
        {a} \cup UNION {below[heap[a].kids[i]] : i \in DOMAIN heap[a].kids}
  IN below[root]

Settled == pc = "idle" /\ root # Null
Whole   == Settled /\ sinceCut = 0

(* What the linked leaves hold, and the map it spells out.                 *)
OnChain == ToSet(EntriesFrom(LeftmostLeaf))
MapOf(entries) == [k \in {e.key : e \in entries} |->
                     (CHOOSE e \in entries : e.key = k).ref]
ChainMap == IF root = Null THEN Null ELSE MapOf(OnChain)

(* The leaves that are linked, from the leftmost on.                       *)
Chain ==
  LET from[a \in Allocated \cup {Null}] ==
        IF a = Null THEN {} ELSE {a} \cup from[heap[a].next]
  IN from[LeftmostLeaf]

(* Nodes have room for their keys, and as many children or references as   *)
(* these call for; the insertion at hand stands at a node there is.        *)
TypeOK ==
  /\ \A a \in Addresses : heap[a] # Free =>
       /\ heap[a] \in Node
       /\ Len(heap[a].keys) <= MaxKeys
       /\ heap[a].leaf  => Len(heap[a].refs) = Len(heap[a].keys)
       /\ ~heap[a].leaf => Len(heap[a].kids) = Len(heap[a].keys) + 1
  /\ root \in Allocated \cup {Null}
  /\ pc \in {"idle", "down", "up"} /\ result \in {0, 1, -1}
  /\ pc # "idle" => arg \in Entries /\ at \in Allocated
  /\ pc = "up"   => split \in [key : Keys, right : Allocated]

(* Once an insertion has returned, and as long as no split was left        *)
(* unlinked, a search from the root finds exactly the keys the linked      *)
(* leaves hold, with their references: the two ways into the index,        *)
(* bpt_find and the range scan, see one map.                               *)
FindAgreesWithChain ==
  Whole => \A k \in Keys :
    Find(k) = IF k \in DOMAIN ChainMap THEN ChainMap[k] ELSE Null

(* A range scan then returns every key in its range once, in ascending     *)
(* order, with its reference.                                              *)
InRange(rel, k) == {x \in DOMAIN ChainMap : \/ rel = "<"  /\ x < k
                                            \/ rel = "<=" /\ x <= k
                                            \/ rel = ">"  /\ x > k
                                            \/ rel = ">=" /\ x >= k}
RangeScansAreExact ==
  Whole => \A k \in Keys, rel \in {"<", "<=", ">", ">="} :
    LET scan == IF rel \in {">", ">="} THEN ScanUp(rel, k) ELSE ScanDown(rel, k)
    IN /\ \A i, j \in 1..Len(scan) : i < j => scan[i].key < scan[j].key
       /\ ToSet(scan) = {[key |-> x, ref |-> ChainMap[x]] : x \in InRange(rel, k)}

(* All leaves are then equally deep and, the root aside, nodes are at      *)
(* least half full: the height stays logarithmic in the number of keys.    *)
Depths ==
  LET below[a \in Allocated] ==
        IF heap[a].leaf THEN {0}
        ELSE {d + 1 : d \in UNION {below[heap[a].kids[i]] : i \in DOMAIN heap[a].kids}}
  IN below[root]
Balanced ==
  Whole => /\ Cardinality(Depths) = 1
             /\ \A a \in Reachable \ {root} :
                  Len(heap[a].keys) >= IF heap[a].leaf THEN (MaxKeys + 1) \div 2
                                                       ELSE MaxKeys \div 2

(* Every node but the root hangs from one place, and no pointer that is    *)
(* followed dangles, even after a failed split: bpt_free_node frees each   *)
(* node once and no search reads a freed one.                              *)
Links     == UNION {{b} \X (DOMAIN heap[b].kids) : b \in Allocated}
Owners(a) == {link \in Links : heap[link[1]].kids[link[2]] = a}
FreeIsSafe ==
  root # Null =>
    /\ Reachable \cup Chain \subseteq Allocated
    /\ \A a \in Reachable : Cardinality(Owners(a)) = IF a = root THEN 0 ELSE 1

(* As long as no split was left unlinked, no node is lost.                 *)
NothingLeaks == Whole => Allocated = Reachable

(* Only index_init takes entries off the linked leaves: an insertion that  *)
(* fails half way up forgets none there, and changes no reference.         *)
ChainForgetsNothing == [][pc # "idle" => OnChain \subseteq OnChain']_vars

(* Insertion into the tree is insertion into a map.  It takes effect when  *)
(* the leaf is written, even while a split is still to be linked.  This    *)
(* ends when a split is left unlinked, and begins anew with index_init.    *)
MapState == CASE pc = "idle" -> "idle" [] pc = "down" -> "called" [] pc = "up" -> "stored"
Map == INSTANCE IndexMap WITH map <- ChainMap, state <- MapState,
                              NoMap <- Null
ImplementsMap == Map!Init /\ [][sinceCut' = 0 => Map!Next \/ UNCHANGED Map!vars]_vars
=============================================================================
