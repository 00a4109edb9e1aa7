------------------------- MODULE BPlusTreeMapProofs -------------------------
(***************************************************************************)
(* Proofs about BPlusTree, continued: the keys stand in order, so that the *)
(* way down by separators and the way along the linked leaves lead to the  *)
(* same map, and insertion into the tree is insertion into that map.       *)
(***************************************************************************)
EXTENDS BPlusTreeProofs

(***************************************************************************)
(* Every node has bounds for its keys: a least one and, unless it is 0,    *)
(* one that all keys stay under.  The children of an inner node divide its *)
(* bounds at the separators; each leaf ends where the next one begins.     *)
(***************************************************************************)
Bounds == [Addresses -> Nat]

Under(k, u) == u = 0 \/ k < u

Ascending(s) == \A i, j \in 1..Len(s) : i < j => s[i] < s[j]

Held(keys, l, u) ==
  /\ Ascending(keys)
  /\ \A i \in 1..Len(keys) : l <= keys[i] /\ Under(keys[i], u)

Divided(keys, kids, lo, hi, l, u) ==
  /\ Ascending(keys)
  /\ \A i \in 1..Len(keys) : l < keys[i] /\ Under(keys[i], u)
  /\ \A i \in 1..Len(kids) : /\ lo[kids[i]] = (IF i = 1 THEN l ELSE keys[i - 1])
                             /\ hi[kids[i]] = (IF i = Len(kids) THEN u ELSE keys[i])

LEMMA KeyList ==
  ASSUME NEW s \in Seq(Nat)
  PROVE  Len(s) \in Nat /\ \A i \in 1..Len(s) : s[i] \in Nat
  BY LenProperties, ElementOfSeq

IsInserted(t, s, i, e) ==
  \A j \in 1..Len(s) + 1 : t[j] = IF j < i THEN s[j] ELSE IF j = i THEN e ELSE s[j - 1]

LEMMA Inserted ==
  ASSUME NEW S, NEW s \in Seq(S), NEW i \in 1..Len(s) + 1, NEW e \in S
  PROVE  /\ InsertAt(s, i, e) \in Seq(S) /\ Len(InsertAt(s, i, e)) = Len(s) + 1
         /\ IsInserted(InsertAt(s, i, e), s, i, e)
  BY InsertedAt DEF IsInserted

LEMMA InsertedAscends ==
  ASSUME NEW s \in Seq(Nat), NEW i \in 1..Len(s) + 1, NEW e \in Nat, Ascending(s),
         \A j \in 1..i - 1 : s[j] < e, \A j \in i..Len(s) : e < s[j]
  PROVE  Ascending(InsertAt(s, i, e))
<1> DEFINE t == InsertAt(s, i, e)
           n == Len(s)
<1>1. n \in Nat /\ i \in 1..n + 1 /\ \A j \in 1..n : s[j] \in Nat
  BY KeyList
<1>2. /\ Len(t) = n + 1
      /\ \A j \in 1..n + 1 : t[j] = IF j < i THEN s[j] ELSE IF j = i THEN e ELSE s[j - 1]
  <2>1. Len(t) = n + 1 /\ IsInserted(t, s, i, e)
    BY Inserted
  <2> QED BY <2>1 DEF IsInserted
<1>3. \A p, q \in 1..n : p < q => s[p] < s[q]
  BY DEF Ascending
<1>4. (\A j \in 1..i - 1 : s[j] < e) /\ \A j \in i..n : e < s[j]
  OBVIOUS
<1> HIDE DEF t, n
<1> SUFFICES ASSUME NEW p \in 1..n + 1, NEW q \in 1..n + 1, p < q PROVE t[p] < t[q]
  BY <1>2 DEF Ascending, t
<1>5. CASE q < i
  <2>1. p \in 1..n /\ q \in 1..n /\ p < i
    BY <1>1, <1>5
  <2> QED BY <2>1, <1>2, <1>3, <1>5
<1>6. CASE q = i
  <2>1. p \in 1..i - 1 /\ p < i
    BY <1>1, <1>6
  <2> QED BY <2>1, <1>2, <1>4, <1>6
<1>7. CASE q > i
  <2>1. q - 1 \in i..n /\ q - 1 \in 1..n /\ ~(q < i) /\ q # i
    BY <1>1, <1>7
  <2>2. t[q] = s[q - 1]
    BY <2>1, <1>2
  <2>3. CASE p < i
    <3>1. p \in 1..n /\ p < q - 1 /\ t[p] = s[p]
      BY <2>1, <2>3, <1>1, <1>2
    <3> QED BY <3>1, <2>1, <2>2, <1>3
  <2>4. CASE p = i
    BY <2>1, <2>2, <2>4, <1>2, <1>4
  <2>5. CASE p > i
    <3>1. p - 1 \in 1..n /\ p - 1 < q - 1 /\ t[p] = s[p - 1]
      BY <2>1, <2>5, <1>1, <1>2
    <3> QED BY <3>1, <2>1, <2>2, <1>3
  <2>6. p < i \/ p = i \/ p > i
    BY <1>1
  <2> QED BY <2>3, <2>4, <2>5, <2>6
<1>8. q < i \/ q = i \/ q > i
  BY <1>1
<1> QED BY <1>5, <1>6, <1>7, <1>8

LEMMA PartAscends ==
  ASSUME NEW s \in Seq(Nat), NEW m \in 1..Len(s) + 1, NEW n \in m - 1..Len(s), Ascending(s)
  PROVE  Ascending(SubSeq(s, m, n))
<1> DEFINE t == SubSeq(s, m, n)
<1>1. /\ Len(s) \in Nat /\ Len(t) = n - m + 1
      /\ \A i \in 1..n - m + 1 : t[i] = s[m + i - 1]
  BY KeyList, PartOfSequence
<1> HIDE DEF t
<1>2. \A i \in 1..n - m + 1 : m + i - 1 \in 1..Len(s)
  BY <1>1
<1>3. ASSUME NEW i \in 1..Len(t), NEW j \in 1..Len(t), i < j PROVE t[i] < t[j]
  <2>1. i \in 1..n - m + 1 /\ j \in 1..n - m + 1 /\ m + i - 1 < m + j - 1
    BY <1>1, <1>3
  <2>2. m + i - 1 \in 1..Len(s) /\ m + j - 1 \in 1..Len(s)
    BY <2>1, <1>2
  <2>3. s[m + i - 1] < s[m + j - 1]
    BY <2>1, <2>2 DEF Ascending
  <2> QED BY <2>1, <2>3, <1>1
<1> QED BY <1>3 DEF Ascending, t

(***************************************************************************)
(* A leaf gets a key within its bounds, and may be cut in two.             *)
(***************************************************************************)
LEMMA SlotOfNewKey ==
  ASSUME NEW n, n.keys \in Seq(Nat), Ascending(n.keys), NEW k \in Nat, ~HasKey(n, k)
  PROVE  LET slot == LeafSlot(n, k)
         IN  /\ slot \in 1..Len(n.keys) + 1
             /\ \A j \in 1..slot - 1 : n.keys[j] < k
             /\ \A j \in slot..Len(n.keys) : k < n.keys[j]
<1> DEFINE slot == LeafSlot(n, k)
           keys == n.keys
<1>1. /\ slot \in 1..Len(keys) + 1
      /\ slot <= Len(keys) => keys[slot] >= k
      /\ \A j \in 1..slot - 1 : keys[j] < k
  BY LeafSlotFound
<1>2. slot <= Len(keys) => keys[slot] # k
  BY DEF HasKey
<1>3. Len(keys) \in Nat /\ \A i \in 1..Len(keys) : keys[i] \in Nat
  BY KeyList
<1>4. \A p, q \in 1..Len(keys) : p < q => keys[p] < keys[q]
  BY DEF Ascending
<1> HIDE DEF slot, keys
<1>5. ASSUME NEW j \in slot..Len(keys) PROVE k < keys[j]
  <2>1. slot \in 1..Len(keys) /\ j \in 1..Len(keys) /\ slot <= j
    BY <1>1, <1>3
  <2>2. k < keys[slot]
    BY <2>1, <1>1, <1>2, <1>3
  <2>3. j = slot \/ keys[slot] < keys[j]
    BY <2>1, <1>4
  <2> QED BY <2>1, <2>2, <2>3, <1>3
<1> QED BY <1>1, <1>5 DEF slot, keys

LEMMA KeyAdded ==
  ASSUME NEW n, n.keys \in Seq(Nat), NEW k \in Nat, ~HasKey(n, k),
         NEW l \in Nat, NEW u \in Nat, Held(n.keys, l, u), l <= k, Under(k, u)
  PROVE  Held(InsertAt(n.keys, LeafSlot(n, k), k), l, u)
<1> DEFINE slot == LeafSlot(n, k)
           keys == n.keys
           all  == InsertAt(keys, slot, k)
<1>1. /\ slot \in 1..Len(keys) + 1
      /\ \A j \in 1..slot - 1 : keys[j] < k
      /\ \A j \in slot..Len(keys) : k < keys[j]
  BY SlotOfNewKey DEF Held
<1>2. Ascending(keys) /\ \A i \in 1..Len(keys) : l <= keys[i] /\ Under(keys[i], u)
  BY DEF Held
<1>3. keys \in Seq(Nat) /\ Len(keys) \in Nat
  BY KeyList
<1> HIDE DEF slot, keys
<1>4. Ascending(all)
  BY <1>1, <1>2, <1>3, InsertedAscends
<1>5. /\ Len(all) = Len(keys) + 1
      /\ \A j \in 1..Len(keys) + 1 :
           all[j] = IF j < slot THEN keys[j] ELSE IF j = slot THEN k ELSE keys[j - 1]
  <2>1. keys \in Seq(Nat) /\ slot \in 1..Len(keys) + 1 /\ k \in Nat
    BY <1>1, <1>3
  <2>2. Len(all) = Len(keys) + 1 /\ IsInserted(all, keys, slot, k)
    BY ONLY <2>1, Inserted
  <2> QED BY <2>2 DEF IsInserted
<1> HIDE DEF all
<1>6. ASSUME NEW j \in 1..Len(all) PROVE l <= all[j] /\ Under(all[j], u)
  <2>1. \/ j \in 1..Len(keys) /\ all[j] = keys[j]
        \/ all[j] = k
        \/ j - 1 \in 1..Len(keys) /\ all[j] = keys[j - 1]
    BY <1>1, <1>3, <1>5
  <2> QED BY <2>1, <1>2
<1> QED BY <1>4, <1>6 DEF Held, all, slot, keys

LEMMA KeysCut ==
  ASSUME NEW all \in Seq(Nat), NEW l \in Nat, NEW u \in Nat, Held(all, l, u),
         NEW half \in 1..Len(all) - 1
  PROVE  LET cut == all[half + 1]
         IN  /\ Held(SubSeq(all, 1, half), l, cut)
             /\ Held(SubSeq(all, half + 1, Len(all)), cut, u)
             /\ cut \in Nat /\ l < cut /\ Under(cut, u)
<1> DEFINE cut == all[half + 1]
           n == Len(all)
           low == SubSeq(all, 1, half)
           high == SubSeq(all, half + 1, n)
<1>1. n \in Nat /\ \A i \in 1..n : all[i] \in Nat
  BY KeyList
<1>2. /\ \A p, q \in 1..n : p < q => all[p] < all[q]
      /\ \A i \in 1..n : l <= all[i] /\ Under(all[i], u)
      /\ Ascending(all)
  BY DEF Held, Ascending
<1>3. half \in 1..n - 1
  OBVIOUS
<1> HIDE DEF n
<1>4. /\ 1 \in 1..n + 1 /\ half \in 1 - 1..n /\ half + 1 \in 1..n + 1 /\ n \in half + 1 - 1..n
      /\ half - 1 + 1 = half /\ n - (half + 1) + 1 = n - half
      /\ half + 1 \in 1..n /\ 1 \in 1..n /\ 1 < half + 1
  BY <1>1, <1>3
<1>5. /\ Len(low) = half /\ Ascending(low) /\ \A i \in 1..half : low[i] = all[1 + i - 1]
  BY <1>2, <1>4, PartOfSequence, PartAscends DEF n
<1>6. /\ Len(high) = n - half /\ Ascending(high)
      /\ \A i \in 1..n - half : high[i] = all[half + 1 + i - 1]
  BY <1>2, <1>4, PartOfSequence, PartAscends DEF n
<1> HIDE DEF low, high
<1>7. cut \in Nat /\ l < cut /\ Under(cut, u)
  <2>1. l <= all[1] /\ all[1] < cut
    BY <1>2, <1>4
  <2> QED BY <2>1, <1>1, <1>2, <1>4
<1>8. Held(low, l, cut)
  <2>1. ASSUME NEW i \in 1..half PROVE l <= low[i] /\ Under(low[i], cut)
    <3>1. i \in 1..n /\ i < half + 1 /\ low[i] = all[i]
      BY <1>1, <1>3, <1>5
    <3> QED BY <3>1, <1>2, <1>4 DEF Under
  <2> QED BY <2>1, <1>5 DEF Held
<1>9. Held(high, cut, u)
  <2>1. ASSUME NEW i \in 1..n - half PROVE cut <= high[i] /\ Under(high[i], u)
    <3>1. half + i \in 1..n /\ high[i] = all[half + i] /\ (half + 1 = half + i \/ half + 1 < half + i)
      BY <1>1, <1>3, <1>6
    <3>2. cut = all[half + i] \/ cut < all[half + i]
      BY <3>1, <1>2, <1>4
    <3> QED BY <3>1, <3>2, <1>1, <1>2, <1>7
  <2> QED BY <2>1, <1>6 DEF Held
<1> QED BY <1>7, <1>8, <1>9 DEF low, high, n

(***************************************************************************)
(* The entries of a leaf.                                                  *)
(***************************************************************************)
Entry(k, r) == [key |-> k, ref |-> r]
EntrySet(keys, refs) == {Entry(keys[i], refs[i]) : i \in 1..Len(keys)}

LEMMA EntryAdded ==
  ASSUME NEW S, NEW R, NEW keys \in Seq(S), NEW refs \in Seq(R), Len(refs) = Len(keys),
         NEW slot \in 1..Len(keys) + 1, NEW k \in S, NEW r \in R
  PROVE  EntrySet(InsertAt(keys, slot, k), InsertAt(refs, slot, r))
           = EntrySet(keys, refs) \cup {Entry(k, r)}
<1> DEFINE n == Len(keys)
           keys2 == InsertAt(keys, slot, k)
           refs2 == InsertAt(refs, slot, r)
<1>1. n \in Nat /\ slot \in 1..n + 1 /\ slot \in 1..Len(refs) + 1
  BY LenProperties
<1>2. /\ Len(keys2) = n + 1
      /\ \A j \in 1..n + 1 :
           keys2[j] = IF j < slot THEN keys[j] ELSE IF j = slot THEN k ELSE keys[j - 1]
  <2>1. keys \in Seq(S) /\ slot \in 1..Len(keys) + 1 /\ k \in S
    OBVIOUS
  <2>2. Len(keys2) = n + 1 /\ IsInserted(keys2, keys, slot, k)
    BY ONLY <2>1, Inserted
  <2> QED BY <2>2 DEF IsInserted
<1>3. \A j \in 1..n + 1 :
        refs2[j] = IF j < slot THEN refs[j] ELSE IF j = slot THEN r ELSE refs[j - 1]
  <2>1. refs \in Seq(R) /\ slot \in 1..Len(refs) + 1 /\ r \in R
    BY <1>1
  <2>2. IsInserted(refs2, refs, slot, r)
    BY ONLY <2>1, Inserted
  <2> QED BY <2>2 DEF IsInserted
<1> HIDE DEF n, keys2, refs2
<1>4. ASSUME NEW j \in 1..n + 1
      PROVE  \/ keys2[j] = k /\ refs2[j] = r
             \/ \E i \in 1..n : keys2[j] = keys[i] /\ refs2[j] = refs[i]
  <2>1. CASE j < slot
    <3>1. j \in 1..n
      BY <2>1, <1>1
    <3> QED BY <3>1, <2>1, <1>2, <1>3
  <2>2. CASE j = slot
    BY <2>2, <1>1, <1>2, <1>3
  <2>3. CASE j > slot
    <3>1. j - 1 \in 1..n /\ ~(j < slot) /\ j # slot
      BY <2>3, <1>1
    <3> QED BY <3>1, <1>2, <1>3
  <2>4. j < slot \/ j = slot \/ j > slot
    BY <1>1
  <2> QED BY <2>1, <2>2, <2>3, <2>4
<1>5. ASSUME NEW i \in 1..n
      PROVE  \E j \in 1..n + 1 : keys2[j] = keys[i] /\ refs2[j] = refs[i]
  <2>1. CASE i < slot
    <3>1. i \in 1..n + 1
      BY <1>1
    <3> QED BY <3>1, <2>1, <1>2, <1>3
  <2>2. CASE ~(i < slot)
    <3>1. i + 1 \in 1..n + 1 /\ ~(i + 1 < slot) /\ i + 1 # slot /\ i + 1 - 1 = i
      BY <2>2, <1>1
    <3> QED BY <3>1, <1>2, <1>3
  <2> QED BY <2>1, <2>2
<1>6. slot \in 1..n + 1 /\ keys2[slot] = k /\ refs2[slot] = r
  BY <1>1, <1>2, <1>3
<1>7. /\ \A x : x \in EntrySet(keys2, refs2)
                  <=> \E j \in 1..n + 1 : x = Entry(keys2[j], refs2[j])
      /\ \A x : x \in EntrySet(keys, refs) <=> \E i \in 1..n : x = Entry(keys[i], refs[i])
  BY <1>2 DEF EntrySet, n
<1>8. \A x : x \in EntrySet(keys2, refs2) <=> x \in EntrySet(keys, refs) \cup {Entry(k, r)}
  BY <1>4, <1>5, <1>6, <1>7
<1> QED BY <1>8 DEF keys2, refs2

LEMMA EntriesCut ==
  ASSUME NEW S, NEW R, NEW keys \in Seq(S), NEW refs \in Seq(R), Len(refs) = Len(keys),
         NEW half \in 1..Len(keys) - 1
  PROVE  LET n == Len(keys)
         IN  EntrySet(SubSeq(keys, 1, half), SubSeq(refs, 1, half))
               \cup EntrySet(SubSeq(keys, half + 1, n), SubSeq(refs, half + 1, n))
               = EntrySet(keys, refs)
<1> DEFINE n == Len(keys)
           k1 == SubSeq(keys, 1, half)
           r1 == SubSeq(refs, 1, half)
           k2 == SubSeq(keys, half + 1, n)
           r2 == SubSeq(refs, half + 1, n)
<1>1. n \in Nat /\ n = Len(refs) /\ half \in 1..n - 1
  BY LenProperties
<1>2. /\ 1 \in 1..n + 1 /\ half \in 1 - 1..n /\ half + 1 \in 1..n + 1 /\ n \in half + 1 - 1..n
      /\ half - 1 + 1 = half /\ n - (half + 1) + 1 = n - half
  BY <1>1
<1>3. /\ Len(k1) = half /\ \A i \in 1..half : k1[i] = keys[1 + i - 1]
      /\ Len(k2) = n - half /\ \A i \in 1..n - half : k2[i] = keys[half + 1 + i - 1]
  BY <1>2, PartOfSequence
<1>4. /\ \A i \in 1..half : r1[i] = refs[1 + i - 1]
      /\ \A i \in 1..n - half : r2[i] = refs[half + 1 + i - 1]
  BY <1>1, <1>2, PartOfSequence
<1> HIDE DEF n, k1, r1, k2, r2
<1>5. ASSUME NEW i \in 1..half
      PROVE  i \in 1..n /\ k1[i] = keys[i] /\ r1[i] = refs[i]
  BY <1>1, <1>3, <1>4
<1>6. ASSUME NEW i \in 1..n - half
      PROVE  half + i \in 1..n /\ k2[i] = keys[half + i] /\ r2[i] = refs[half + i]
  <2>1. half + i \in 1..n /\ half + 1 + i - 1 = half + i
    BY <1>1
  <2> QED BY <2>1, <1>3, <1>4
<1>7. ASSUME NEW j \in 1..n
      PROVE  j \in 1..half \/ \E i \in 1..n - half : j = half + i
  <2>1. CASE j > half
    <3>1. j - half \in 1..n - half /\ j = half + (j - half)
      BY <2>1, <1>1
    <3> QED BY <3>1
  <2> QED BY <2>1, <1>1
<1>8. /\ \A x : x \in EntrySet(k1, r1) <=> \E i \in 1..half : x = Entry(k1[i], r1[i])
      /\ \A x : x \in EntrySet(k2, r2) <=> \E i \in 1..n - half : x = Entry(k2[i], r2[i])
      /\ \A x : x \in EntrySet(keys, refs) <=> \E j \in 1..n : x = Entry(keys[j], refs[j])
  BY <1>3 DEF EntrySet, n
<1>9. \A x : x \in EntrySet(k1, r1) \cup EntrySet(k2, r2) <=> x \in EntrySet(keys, refs)
  <2>1. ASSUME NEW x, x \in EntrySet(keys, refs)
        PROVE  x \in EntrySet(k1, r1) \cup EntrySet(k2, r2)
    <3>1. PICK j \in 1..n : x = Entry(keys[j], refs[j])
      BY <2>1, <1>8
    <3> QED BY <3>1, <1>5, <1>6, <1>7, <1>8
  <2> QED BY <2>1, <1>5, <1>6, <1>8
<1> QED BY <1>9 DEF n, k1, r1, k2, r2

(***************************************************************************)
(* An inner node gets a separator behind the child that was split, and the *)
(* new child behind it: the two share what was the bounds of one.          *)
(***************************************************************************)
Seen(hi, x, r) == [hi EXCEPT ![x] = hi[r]]

Parted(lo, hi, x, key, r) ==
  lo[x] < key /\ Under(key, hi[r]) /\ lo[r] = key /\ hi[x] = key

LEMMA SeparatorAdded ==
  ASSUME NEW keys \in Seq(Nat), NEW kids \in Seq(Addresses), Len(kids) = Len(keys) + 1,
         NoTwice(kids), NEW lo \in Bounds, NEW hi \in Bounds, NEW l \in Nat, NEW u \in Nat,
         NEW slot \in 1..Len(kids), NEW key \in Nat,
         NEW r \in Addresses, r \notin Elements(kids),
         Divided(keys, kids, lo, Seen(hi, kids[slot], r), l, u),
         Parted(lo, hi, kids[slot], key, r)
  PROVE  Divided(InsertAt(keys, slot, key), Joined(kids, slot, r), lo, hi, l, u)
<1> DEFINE n == Len(keys)
           x == kids[slot]
           seen == Seen(hi, x, r)
           all == InsertAt(keys, slot, key)
           brood == Joined(kids, slot, r)
<1>1. /\ n \in Nat /\ Len(kids) = n + 1 /\ slot \in 1..n + 1
      /\ \A i \in 1..n : keys[i] \in Nat
      /\ \A i \in 1..n + 1 : kids[i] \in Addresses
      /\ \A a \in Addresses : lo[a] \in Nat /\ hi[a] \in Nat
  BY KeyList, ElementOfSeq DEF Bounds
<1>2. /\ Len(all) = n + 1 /\ all \in Seq(Nat)
      /\ \A j \in 1..n + 1 :
           all[j] = IF j < slot THEN keys[j] ELSE IF j = slot THEN key ELSE keys[j - 1]
  <2>1. keys \in Seq(Nat) /\ slot \in 1..Len(keys) + 1 /\ key \in Nat
    BY <1>1
  <2>2. Len(all) = n + 1 /\ all \in Seq(Nat) /\ IsInserted(all, keys, slot, key)
    BY ONLY <2>1, Inserted
  <2> QED BY <2>2 DEF IsInserted
<1>3. /\ Len(brood) = n + 2
      /\ \A j \in 1..n + 2 :
           brood[j] = IF j <= slot THEN kids[j] ELSE IF j = slot + 1 THEN r ELSE kids[j - 1]
  <2>1. kids \in Seq(Addresses) /\ slot \in 1..Len(kids) /\ r \in Addresses
    OBVIOUS
  <2>2. /\ Len(brood) = Len(kids) + 1
        /\ \A j \in 1..Len(kids) + 1 :
             brood[j] = IF j <= slot THEN kids[j]
                        ELSE IF j = slot + 1 THEN r ELSE kids[j - 1]
    BY ONLY <2>1, JoinedKids
  <2>3. Len(kids) + 1 = n + 2
    BY <1>1
  <2> QED BY <2>2, <2>3
<1>4. /\ \A i, j \in 1..n : i < j => keys[i] < keys[j]
      /\ \A i \in 1..n : l < keys[i] /\ Under(keys[i], u)
      /\ \A i \in 1..n + 1 : /\ lo[kids[i]] = (IF i = 1 THEN l ELSE keys[i - 1])
                             /\ seen[kids[i]] = (IF i = n + 1 THEN u ELSE keys[i])
  BY <1>1 DEF Divided, Ascending
<1>5. \A i \in 1..n + 1 : i # slot => kids[i] # x
  BY <1>1 DEF NoTwice
<1>6. /\ seen[x] = hi[r]
      /\ \A i \in 1..n + 1 : i # slot => seen[kids[i]] = hi[kids[i]]
  BY <1>1, <1>5 DEF Seen, Bounds
<1>7. lo[x] < key /\ Under(key, hi[r]) /\ lo[r] = key /\ hi[x] = key
  BY DEF Parted
<1>8. /\ hi[r] = (IF slot = n + 1 THEN u ELSE keys[slot])
      /\ lo[x] = (IF slot = 1 THEN l ELSE keys[slot - 1])
  BY <1>1, <1>4, <1>6
<1> HIDE DEF n, x, seen, all, brood
<1>9. \A j \in 1..slot - 1 : keys[j] < key
  <2> SUFFICES ASSUME NEW j \in 1..slot - 1 PROVE keys[j] < key
    OBVIOUS
  <2>1. /\ j \in 1..n /\ slot - 1 \in 1..n /\ slot # 1 /\ (j = slot - 1 \/ j < slot - 1)
        /\ lo[x] = keys[slot - 1]
    BY <1>1, <1>8
  <2>2. keys[j] = keys[slot - 1] \/ keys[j] < keys[slot - 1]
    BY <2>1, <1>4
  <2> QED BY SMTT(30), <2>1, <2>2, <1>1, <1>7
<1>10. \A j \in slot..n : key < keys[j]
  <2> SUFFICES ASSUME NEW j \in slot..n PROVE key < keys[j]
    OBVIOUS
  <2>1. /\ j \in 1..n /\ slot \in 1..n /\ slot # n + 1 /\ (j = slot \/ slot < j)
        /\ hi[r] = keys[slot]
    BY <1>1, <1>8
  <2>2. keys[slot] = keys[j] \/ keys[slot] < keys[j]
    BY <2>1, <1>4
  <2>3. keys[slot] # 0
    BY <2>1, <1>1, <1>4
  <2>4. key < keys[slot]
    BY <2>1, <2>3, <1>7 DEF Under
  <2> QED BY SMTT(30), <2>1, <2>2, <2>4, <1>1
<1>11. Ascending(all)
  <2>1. (\A j \in 1..slot - 1 : keys[j] < key) /\ \A j \in slot..Len(keys) : key < keys[j]
    BY <1>9, <1>10 DEF n
  <2>2. Ascending(keys) /\ slot \in 1..Len(keys) + 1
    BY <1>1 DEF Divided, n
  <2> QED BY <2>1, <2>2, InsertedAscends DEF all
<1>12. l < key
  <2>1. CASE slot = 1
    BY <2>1, <1>7, <1>8
  <2>2. CASE slot # 1
    <3>1. slot - 1 \in 1..n
      BY <2>2, <1>1
    <3> QED BY SMTT(30), <2>2, <3>1, <1>1, <1>4, <1>7, <1>8
  <2> QED BY <2>1, <2>2
<1>13. Under(key, u)
  <2>1. CASE slot = n + 1
    BY <2>1, <1>7, <1>8
  <2>2. CASE slot # n + 1
    <3>1. slot \in 1..n /\ slot \in slot..n
      BY <2>2, <1>1
    <3>2. key < keys[slot] /\ Under(keys[slot], u)
      BY <3>1, <1>4, <1>10
    <3> QED BY <3>1, <3>2, <1>1 DEF Under
  <2> QED BY <2>1, <2>2
<1>14. ASSUME NEW j \in 1..n + 1 PROVE l < all[j] /\ Under(all[j], u)
  <2>1. \/ j \in 1..n /\ all[j] = keys[j]
        \/ all[j] = key
        \/ j - 1 \in 1..n /\ all[j] = keys[j - 1]
    BY <1>1, <1>2
  <2> QED BY <2>1, <1>4, <1>12, <1>13
<1>15. ASSUME NEW j \in 1..n + 2
       PROVE  /\ lo[brood[j]] = (IF j = 1 THEN l ELSE all[j - 1])
              /\ hi[brood[j]] = (IF j = n + 2 THEN u ELSE all[j])
  <2>1. n \in Nat /\ slot \in 1..n + 1 /\ j \in 1..n + 2
    BY <1>1
  <2>2. CASE j < slot
    <3>1. /\ j \in 1..n + 1 /\ j # slot /\ j <= slot /\ j # n + 1 /\ j # n + 2
          /\ (j # 1 => j - 1 \in 1..n + 1 /\ j - 1 < slot)
      BY SMTT(30), <2>2, <1>1
    <3>2. brood[j] = kids[j] /\ all[j] = keys[j] /\ (j # 1 => all[j - 1] = keys[j - 1])
      BY <2>2, <3>1, <1>2, <1>3
    <3> QED BY <3>1, <3>2, <1>4, <1>6
  <2>3. CASE j = slot
    <3>1. /\ j \in 1..n + 1 /\ j # n + 2 /\ j <= slot
          /\ (j # 1 => j - 1 \in 1..n + 1 /\ j - 1 < slot)
      BY SMTT(30), <2>3, <1>1
    <3>2. /\ brood[j] = x /\ all[j] = key /\ (j # 1 => all[j - 1] = keys[j - 1])
      BY SMTT(30), <2>3, <3>1, <1>2, <1>3 DEF x
    <3> QED BY <2>3, <3>1, <3>2, <1>7, <1>8
  <2>4. CASE j = slot + 1
    <3>1. /\ j - 1 = slot /\ j - 1 \in 1..n + 1 /\ j # 1 /\ ~(j <= slot)
          /\ (j # n + 2 => slot # n + 1 /\ j \in 1..n + 1 /\ ~(j < slot) /\ j # slot)
          /\ (j = n + 2 => slot = n + 1)
      BY ONLY <2>4, <2>1
    <3>2. /\ brood[j] = r /\ all[j - 1] = key
          /\ (j # n + 2 => all[j] = keys[slot])
      BY SMTT(30), <2>4, <3>1, <1>2, <1>3
    <3> QED BY <3>1, <3>2, <1>7, <1>8
  <2>5. CASE j > slot + 1
    <3>1. /\ j - 1 \in 1..n + 1 /\ j - 1 # slot /\ j # 1 /\ ~(j <= slot) /\ j # slot + 1
          /\ ~(j - 1 < slot) /\ j - 1 # 1
          /\ (j # n + 2 => j \in 1..n + 1 /\ ~(j < slot) /\ j # slot /\ j - 1 # n + 1)
          /\ (j = n + 2 => j - 1 = n + 1)
      BY ONLY <2>5, <2>1
    <3>2. /\ brood[j] = kids[j - 1] /\ all[j - 1] = keys[j - 1 - 1]
          /\ (j # n + 2 => all[j] = keys[j - 1])
      BY <2>5, <3>1, <1>2, <1>3
    <3> QED BY <3>1, <3>2, <1>4, <1>6
  <2>6. j < slot \/ j = slot \/ j = slot + 1 \/ j > slot + 1
    BY SMTT(30), <1>1
  <2> QED BY <2>2, <2>3, <2>4, <2>5, <2>6
<1> QED BY <1>2, <1>3, <1>11, <1>14, <1>15 DEF Divided, all, brood

(* An inner node is cut in two; the separator between goes up.             *)
LEMMA DividedCut ==
  ASSUME NEW keys \in Seq(Nat), NEW kids \in Seq(Addresses), Len(kids) = Len(keys) + 1,
         NEW lo \in Bounds, NEW hi \in Bounds, NEW l \in Nat, NEW u \in Nat,
         Divided(keys, kids, lo, hi, l, u), NEW mid \in 1..Len(keys) - 1
  PROVE  LET cut == keys[mid + 1]
         IN  /\ Divided(SubSeq(keys, 1, mid), SubSeq(kids, 1, mid + 1), lo, hi, l, cut)
             /\ Divided(SubSeq(keys, mid + 2, Len(keys)), RightKids(kids, mid), lo, hi, cut, u)
             /\ cut \in Nat /\ l < cut /\ Under(cut, u)
<1> DEFINE n == Len(keys)
           cut == keys[mid + 1]
           k1 == SubSeq(keys, 1, mid)
           c1 == SubSeq(kids, 1, mid + 1)
           k2 == SubSeq(keys, mid + 2, n)
           c2 == SubSeq(kids, mid + 2, n + 1)
<1>1. /\ n \in Nat /\ Len(kids) = n + 1 /\ mid \in 1..n - 1
      /\ \A i \in 1..n : keys[i] \in Nat
      /\ RightKids(kids, mid) = c2
  BY KeyList DEF RightKids
<1>2. /\ \A i, j \in 1..n : i < j => keys[i] < keys[j]
      /\ \A i \in 1..n : l < keys[i] /\ Under(keys[i], u)
      /\ \A i \in 1..n + 1 : /\ lo[kids[i]] = (IF i = 1 THEN l ELSE keys[i - 1])
                             /\ hi[kids[i]] = (IF i = n + 1 THEN u ELSE keys[i])
      /\ Ascending(keys)
  BY <1>1 DEF Divided, Ascending
<1>3. /\ 1 \in 1..n + 1 /\ mid \in 1 - 1..n /\ mid - 1 + 1 = mid
      /\ mid + 2 \in 1..n + 1 /\ n \in mid + 2 - 1..n /\ n - (mid + 2) + 1 = n - (mid + 1)
      /\ 1 \in 1..n + 1 + 1 /\ mid + 1 \in 1 - 1..n + 1 /\ mid + 1 - 1 + 1 = mid + 1
      /\ mid + 2 \in 1..n + 1 + 1 /\ n + 1 \in mid + 2 - 1..n + 1
      /\ n + 1 - (mid + 2) + 1 = n - mid
      /\ mid + 1 \in 1..n /\ mid \in Nat
  <2>1. n \in Nat /\ mid \in 1..n - 1
    BY <1>1
  <2> QED BY ONLY <2>1
<1>4. /\ Len(k1) = mid /\ Ascending(k1) /\ \A i \in 1..mid : k1[i] = keys[1 + i - 1]
  BY <1>2, <1>3, PartOfSequence, PartAscends
<1>5. /\ Len(k2) = n - (mid + 1) /\ Ascending(k2)
      /\ \A i \in 1..n - (mid + 1) : k2[i] = keys[mid + 2 + i - 1]
  <2>1. /\ keys \in Seq(Nat) /\ Ascending(keys)
        /\ mid + 2 \in 1..Len(keys) + 1 /\ Len(keys) \in mid + 2 - 1..Len(keys)
    BY <1>2, <1>3
  <2>2. Ascending(k2)
    BY ONLY <2>1, PartAscends
  <2>3. /\ Len(k2) = n - (mid + 2) + 1
        /\ \A i \in 1..n - (mid + 2) + 1 : k2[i] = keys[mid + 2 + i - 1]
    BY ONLY <2>1, PartOfSequence
  <2> QED BY <2>2, <2>3, <1>3
<1>6. Len(c1) = mid + 1 /\ \A i \in 1..mid + 1 : c1[i] = kids[1 + i - 1]
  <2>1. /\ kids \in Seq(Addresses) /\ 1 \in 1..Len(kids) + 1
        /\ mid + 1 \in 1 - 1..Len(kids)
    BY <1>1, <1>3
  <2>2. /\ Len(c1) = mid + 1 - 1 + 1
        /\ \A i \in 1..mid + 1 - 1 + 1 : c1[i] = kids[1 + i - 1]
    BY ONLY <2>1, PartOfSequence
  <2> QED BY <2>2, <1>3
<1>7. Len(c2) = n - mid /\ \A i \in 1..n - mid : c2[i] = kids[mid + 2 + i - 1]
  BY <1>1, <1>3, PartOfSequence
<1> HIDE DEF n, k1, c1, k2, c2, cut
<1>8. cut \in Nat /\ l < cut /\ Under(cut, u) /\ cut = keys[mid + 1]
  BY <1>1, <1>2, <1>3 DEF cut
<1>9. Divided(k1, c1, lo, hi, l, cut)
  <2>1. ASSUME NEW i \in 1..mid PROVE l < k1[i] /\ Under(k1[i], cut)
    <3>1. i \in 1..n /\ i < mid + 1 /\ k1[i] = keys[i]
      BY <1>1, <1>4
    <3> QED BY <3>1, <1>2, <1>3, <1>8 DEF Under
  <2>2. ASSUME NEW i \in 1..mid + 1
        PROVE  /\ lo[c1[i]] = (IF i = 1 THEN l ELSE k1[i - 1])
               /\ hi[c1[i]] = (IF i = mid + 1 THEN cut ELSE k1[i])
    <3>1. i \in 1..n + 1 /\ i # n + 1 /\ c1[i] = kids[i]
      <4>1. n \in Nat /\ mid \in 1..n - 1 /\ i \in 1..mid + 1
        BY <1>1
      <4>2. i \in 1..n + 1 /\ i # n + 1 /\ 1 + i - 1 = i
        BY ONLY <4>1
      <4> QED BY <4>2, <1>6
    <3>2. i # 1 => k1[i - 1] = keys[i - 1]
      BY <1>1, <1>4
    <3>3. i # mid + 1 => k1[i] = keys[i]
      BY <1>1, <1>4
    <3> QED BY <3>1, <3>2, <3>3, <1>2, <1>8
  <2> QED BY <2>1, <2>2, <1>4, <1>6 DEF Divided
<1>10. Divided(k2, c2, lo, hi, cut, u)
  <2>1. ASSUME NEW i \in 1..n - (mid + 1)
        PROVE  k2[i] = keys[mid + 1 + i] /\ cut < k2[i] /\ Under(k2[i], u)
    <3>1. mid + 1 + i \in 1..n /\ mid + 1 < mid + 1 + i /\ mid + 2 + i - 1 = mid + 1 + i
      BY <1>1
    <3> QED BY <3>1, <1>2, <1>3, <1>5, <1>8
  <2>2. ASSUME NEW i \in 1..n - mid
        PROVE  /\ lo[c2[i]] = (IF i = 1 THEN cut ELSE k2[i - 1])
               /\ hi[c2[i]] = (IF i = n - mid THEN u ELSE k2[i])
    <3>1. /\ mid + 1 + i \in 1..n + 1 /\ mid + 2 + i - 1 = mid + 1 + i /\ mid + 1 + i # 1
          /\ (mid + 1 + i = n + 1 <=> i = n - mid) /\ mid + 1 + i - 1 = mid + i
      BY <1>1
    <3>2. /\ lo[c2[i]] = keys[mid + i]
          /\ hi[c2[i]] = (IF i = n - mid THEN u ELSE keys[mid + 1 + i])
      <4>1. c2[i] = kids[mid + 1 + i]
        BY <3>1, <1>7
      <4>2. /\ lo[kids[mid + 1 + i]] = keys[mid + 1 + i - 1]
            /\ hi[kids[mid + 1 + i]]
                 = (IF mid + 1 + i = n + 1 THEN u ELSE keys[mid + 1 + i])
        BY <3>1, <1>2
      <4> QED BY <3>1, <4>1, <4>2
    <3>3. i # 1 => i - 1 \in 1..n - (mid + 1) /\ mid + 1 + (i - 1) = mid + i
      BY <1>1
    <3>4. i # n - mid => i \in 1..n - (mid + 1)
      BY <1>1
    <3> QED BY <3>2, <3>3, <3>4, <2>1, <1>8
  <2> QED BY <2>1, <2>2, <1>5, <1>7 DEF Divided
<1> QED BY <1>1, <1>8, <1>9, <1>10 DEF n, k1, c1, k2, c2, cut

(* The way down stays within the bounds.                                   *)
Within(lo, hi, a, k) == lo[a] <= k /\ Under(k, hi[a])

LEMMA ChildIsWithin ==
  ASSUME NEW n, n.keys \in Seq(Nat), Len(n.kids) = Len(n.keys) + 1, NEW lo, NEW hi,
         NEW l \in Nat, NEW u \in Nat, Divided(n.keys, n.kids, lo, hi, l, u),
         NEW k \in Nat, l <= k, Under(k, u)
  PROVE  LET slot == ChildSlot(n, k)
         IN  slot \in 1..Len(n.kids) /\ Within(lo, hi, n.kids[slot], k)
<1> DEFINE slot == ChildSlot(n, k)
           size == Len(n.keys)
<1>1. /\ slot \in 1..size + 1 /\ (slot <= size => k < n.keys[slot])
      /\ \A j \in 1..slot - 1 : n.keys[j] <= k
  BY ChildSlotFound
<1>2. /\ size \in Nat /\ slot \in 1..Len(n.kids) /\ Len(n.kids) = size + 1
      /\ \A i \in 1..size : n.keys[i] \in Nat
  BY <1>1, KeyList
<1>3. /\ lo[n.kids[slot]] = (IF slot = 1 THEN l ELSE n.keys[slot - 1])
      /\ hi[n.kids[slot]] = (IF slot = size + 1 THEN u ELSE n.keys[slot])
  BY <1>2 DEF Divided
<1> HIDE DEF slot, size
<1>4. lo[n.kids[slot]] <= k
  <2>1. slot # 1 => slot - 1 \in 1..slot - 1
    BY <1>1, <1>2
  <2> QED BY <2>1, <1>1, <1>3
<1>5. Under(k, hi[n.kids[slot]])
  <2>1. slot # size + 1 => slot <= size
    BY <1>1, <1>2
  <2> QED BY <2>1, <1>1, <1>3 DEF Under
<1> QED BY <1>2, <1>4, <1>5 DEF Within, slot

(***************************************************************************)
(* What the steps of an insertion write: an entry in a leaf, which grows   *)
(* or is parted; a separator in an inner node, which grows or is split; a  *)
(* new root above the old one.                                             *)
(***************************************************************************)
NewKeys(n, e) == InsertAt(n.keys, LeafSlot(n, e.key), e.key)
NewRefs(n, e) == InsertAt(n.refs, LeafSlot(n, e.key), e.ref)

Fills(h, g, a, e) ==
  /\ a \in Alloc(h) /\ h[a].leaf /\ WellFormed(g[a]) /\ g[a].leaf
  /\ g[a].keys = NewKeys(h[a], e) /\ g[a].refs = NewRefs(h[a], e)
  /\ g[a].next = h[a].next
  /\ SameBut(g, h, a, a) /\ Alloc(g) = Alloc(h)

HalvesOf(all, half, low, high) ==
  /\ half \in 1..Len(all) - 1
  /\ low = SubSeq(all, 1, half) /\ high = SubSeq(all, half + 1, Len(all))

Parts(h, g, a, b, e, half) ==
  /\ a \in Alloc(h) /\ b \in Addresses \ Alloc(h)
  /\ h[a].leaf /\ WellFormed(g[a]) /\ g[a].leaf /\ WellFormed(g[b]) /\ g[b].leaf
  /\ HalvesOf(NewKeys(h[a], e), half, g[a].keys, g[b].keys)
  /\ HalvesOf(NewRefs(h[a], e), half, g[a].refs, g[b].refs)
  /\ g[a].next = b /\ g[b].next = h[a].next
  /\ SameBut(g, h, a, b) /\ Alloc(g) = Alloc(h) \cup {b}

(* Where a child is to be linked, and with which separator.                *)
Graft(h, a, slot, r, key) ==
  /\ a \in Alloc(h) /\ ~h[a].leaf /\ slot \in 1..Len(h[a].kids) /\ key \in Keys
  /\ r \in Alloc(h) /\ ~Owned(h, r)

Spreads(h, g, a, slot, r, key) ==
  /\ WellFormed(g[a]) /\ ~g[a].leaf
  /\ g[a].keys = InsertAt(h[a].keys, slot, key) /\ g[a].kids = Joined(h[a].kids, slot, r)
  /\ SameBut(g, h, a, a) /\ Alloc(g) = Alloc(h)

PartedAt(keys, kids, mid, low, high) ==
  /\ mid \in 1..Len(keys) - 1
  /\ low.keys = SubSeq(keys, 1, mid) /\ low.kids = SubSeq(kids, 1, mid + 1)
  /\ high.keys = SubSeq(keys, mid + 2, Len(keys)) /\ high.kids = RightKids(kids, mid)

Splits(h, g, a, b, slot, r, key, mid) ==
  /\ b \in Addresses \ Alloc(h)
  /\ WellFormed(g[a]) /\ ~g[a].leaf /\ WellFormed(g[b]) /\ ~g[b].leaf
  /\ PartedAt(InsertAt(h[a].keys, slot, key), Joined(h[a].kids, slot, r), mid, g[a], g[b])
  /\ SameBut(g, h, a, b) /\ Alloc(g) = Alloc(h) \cup {b}

Crowns(h, g, top, b, r, key) ==
  /\ top \in Alloc(h) /\ r \in Alloc(h) /\ r # top /\ b \in Addresses \ Alloc(h)
  /\ ~Owned(h, top) /\ key \in Keys
  /\ WellFormed(g[b]) /\ ~g[b].leaf /\ g[b].keys = <<key>> /\ g[b].kids = <<top, r>>
  /\ SameBut(g, h, b, b) /\ Alloc(g) = Alloc(h) \cup {b}

LEMMA PutInLeafWrites ==
  ASSUME TreeInv, PutInLeaf
  PROVE  \/ Fills(heap, heap', at, arg) /\ Return(0)
         \/ \E b, half : /\ Parts(heap, heap', at, b, arg, half)
                         /\ Up(NewKeys(heap[at], arg)[half + 1], b) /\ trail' = trail
         \/ Return(-1) /\ heap' = heap
<1> DEFINE leaf  == heap[at]
           slot  == LeafSlot(leaf, arg.key)
           keys  == InsertAt(leaf.keys, slot, arg.key)
           refs  == InsertAt(leaf.refs, slot, arg.ref)
           total == Len(keys)
           half  == Half(total)
           grown == Leaf(keys, refs, leaf.next)
           left  == Leaf(SubSeq(keys, 1, half), SubSeq(refs, 1, half), NewAddress)
           right == Leaf(SubSeq(keys, half + 1, total),
                         SubSeq(refs, half + 1, total), leaf.next)
<1>1. /\ leaf.leaf /\ at \in Alloc(heap) /\ arg \in Entries
      /\ \E level, rank : Tree(heap, root, level, rank)
  BY DEF TreeInv, PutInLeaf
<1>2. PICK level : \E rank : Tree(heap, root, level, rank)
  BY <1>1
<1>3. Shape(heap, level)
  BY <1>2 DEF Tree
<1>4. at \in Addresses /\ WellFormed(leaf) /\ leaf \in Node /\ heap \in Heap
  BY <1>1, <1>3, NodeInHeap DEF Shape
<1>5. arg.key \in Keys /\ arg.ref \in Refs /\ arg.key \in Nat
  BY <1>1, EntryFields
<1>6. slot \in 1..Len(leaf.keys) + 1
  <2>1. leaf.keys \in Seq(Nat)
    BY <1>4, NodeFields
  <2> QED BY <2>1, <1>5, LeafSlotFound
<1>7. /\ keys = NewKeys(leaf, arg) /\ refs = NewRefs(leaf, arg)
      /\ Len(keys) = Len(leaf.keys) + 1 /\ Len(refs) = Len(keys)
      /\ Len(leaf.keys) \in Nat /\ Len(leaf.keys) <= MaxKeys
  <2>1. /\ leaf.keys \in Seq(Keys) /\ leaf.refs \in Seq(Refs)
        /\ Len(leaf.refs) = Len(leaf.keys) /\ Len(leaf.keys) \in Nat
        /\ Len(leaf.keys) <= MaxKeys
    BY <1>1, <1>4, NodeFields DEF WellFormed
  <2>2. Len(keys) = Len(leaf.keys) + 1
    BY <2>1, <1>5, <1>6, Inserted
  <2>3. slot \in 1..Len(leaf.refs) + 1
    BY <2>1, <1>6
  <2>4. Len(refs) = Len(leaf.refs) + 1
    <3>1. leaf.refs \in Seq(Refs) /\ slot \in 1..Len(leaf.refs) + 1 /\ arg.ref \in Refs
      BY <2>1, <2>3, <1>5
    <3> QED BY ONLY <3>1, Inserted
  <2> QED BY <2>1, <2>2, <2>4 DEF NewKeys, NewRefs
<1>8. \/ HasRoom(total) /\ heap' = [heap EXCEPT ![at] = grown] /\ Return(0)
      \/ /\ ~HasRoom(total) /\ CanAllocate
         /\ heap' = [heap EXCEPT ![at] = left, ![NewAddress] = right]
         /\ Up(keys[half + 1], NewAddress) /\ trail' = trail
      \/ Return(-1) /\ heap' = heap
  BY DEF PutInLeaf
<1>9. HasRoom(total) => WellFormed(grown)
  <2> HIDE DEF leaf, slot
  <2> QED BY <1>1, <1>4, <1>5, <1>6, GrownLeaf
<1>10. ~HasRoom(total) /\ CanAllocate => WellFormed(left) /\ WellFormed(right)
  <2>1. CanAllocate => NewAddress \in Addresses
    BY NewIsFree
  <2> HIDE DEF leaf, slot
  <2> QED BY <2>1, <1>1, <1>4, <1>5, <1>6, HalvesOfLeaf
<1>11. /\ grown.leaf = TRUE /\ grown.keys = keys /\ grown.refs = refs
       /\ grown.next = leaf.next
       /\ left.leaf = TRUE /\ left.keys = SubSeq(keys, 1, half)
       /\ left.refs = SubSeq(refs, 1, half) /\ left.next = NewAddress
       /\ right.leaf = TRUE /\ right.keys = SubSeq(keys, half + 1, total)
       /\ right.refs = SubSeq(refs, half + 1, total) /\ right.next = leaf.next
  BY DEF Leaf
<1> HIDE DEF leaf, slot, grown, left, right, keys, refs, half
<1>12. CASE HasRoom(total) /\ heap' = [heap EXCEPT ![at] = grown] /\ Return(0)
  <2>1. heap'[at] = grown /\ SameBut(heap', heap, at, at)
    BY <1>4, <1>12 DEF Heap, SameBut
  <2>2. Alloc(heap') = Alloc(heap)
    BY <2>1, <1>1, <1>9, <1>12, WellFormedIsNode DEF Alloc, SameBut
  <2>3. /\ WellFormed(heap'[at]) /\ heap'[at].leaf /\ heap'[at].next = heap[at].next
        /\ heap'[at].keys = NewKeys(heap[at], arg)
        /\ heap'[at].refs = NewRefs(heap[at], arg)
    BY <2>1, <1>7, <1>9, <1>11, <1>12 DEF leaf
  <2> QED BY <2>1, <2>2, <2>3, <1>1, <1>12 DEF Fills, leaf
<1>13. CASE /\ ~HasRoom(total) /\ CanAllocate
            /\ heap' = [heap EXCEPT ![at] = left, ![NewAddress] = right]
            /\ Up(keys[half + 1], NewAddress) /\ trail' = trail
  <2> DEFINE b == NewAddress
  <2>1. b \in Addresses \ Alloc(heap)
    BY <1>13, NewIsFree
  <2> HIDE DEF b
  <2>2. /\ heap' = [heap EXCEPT ![at] = left, ![b] = right] /\ left.next = b
        /\ Up(keys[half + 1], b) /\ trail' = trail
    BY <1>11, <1>13 DEF b
  <2>3. heap'[at] = left /\ heap'[b] = right /\ SameBut(heap', heap, at, b) /\ at # b
    BY <2>1, <2>2, <1>1, <1>4 DEF Heap, SameBut
  <2>4. Alloc(heap') = Alloc(heap) \cup {b}
    BY <2>1, <2>3, <1>1, <1>10, <1>13, WellFormedIsNode DEF Alloc, SameBut
  <2>5. half \in 1..total - 1 /\ total = Len(refs)
    <3>1. total = MaxKeys + 1
      BY <1>7, <1>13, MaxKeysType DEF HasRoom
    <3>2. half \in 1..MaxKeys
      BY <3>1, Halves DEF half
    <3> QED BY <3>1, <3>2, <1>7, MaxKeysType
  <2>6. /\ HalvesOf(NewKeys(heap[at], arg), half, heap'[at].keys, heap'[b].keys)
        /\ HalvesOf(NewRefs(heap[at], arg), half, heap'[at].refs, heap'[b].refs)
    BY <2>3, <2>5, <1>7, <1>11 DEF HalvesOf, leaf
  <2>7. /\ WellFormed(heap'[at]) /\ heap'[at].leaf /\ heap'[at].next = b
        /\ WellFormed(heap'[b]) /\ heap'[b].leaf /\ heap'[b].next = heap[at].next
    BY <2>2, <2>3, <1>10, <1>11, <1>13 DEF leaf
  <2>8. Parts(heap, heap', at, b, arg, half)
    BY <2>1, <2>3, <2>4, <2>6, <2>7, <1>1 DEF Parts, leaf
  <2>9. Up(NewKeys(heap[at], arg)[half + 1], b) /\ trail' = trail
    BY <2>2, <1>7 DEF leaf
  <2> QED BY <2>8, <2>9
<1> QED BY <1>8, <1>12, <1>13

LEMMA LinkSplitWrites ==
  ASSUME TreeInv, LinkSplit
  PROVE  LET a    == Last(trail).node
             slot == Last(trail).slot
             all  == InsertAt(heap[a].keys, slot, split.key)
         IN  /\ Graft(heap, a, slot, split.right, split.key)
             /\ \/ /\ Spreads(heap, heap', a, slot, split.right, split.key)
                   /\ Return(0) /\ sinceCut' = sinceCut
                \/ \E b, mid : /\ Splits(heap, heap', a, b, slot, split.right, split.key, mid)
                               /\ Up(all[mid + 1], b)
                               /\ trail' = Front(trail) /\ sinceCut' = sinceCut
                \/ Return(-1) /\ sinceCut' # 0 /\ heap' = heap
<1> DEFINE a     == Last(trail).node
           slot  == Last(trail).slot
           r     == split.right
           old   == heap[a]
           keys  == InsertAt(old.keys, slot, split.key)
           kids  == Joined(old.kids, slot, r)
           total == Len(keys)
           mid   == Half(total)
           grown == Inner(keys, kids)
           low   == Inner(SubSeq(keys, 1, mid), SubSeq(kids, 1, mid + 1))
           high  == Inner(SubSeq(keys, mid + 2, total), RightKids(kids, mid))
           first == keys[mid + 1]
<1>1. /\ pc = "up" /\ trail # <<>> /\ Unlinked(heap, root, trail, split)
      /\ sinceCut \in Nat
  BY DEF TreeInv, LinkSplit
<1>2. PICK level : \E rank : Tree(heap, root, level, rank) /\ OnTheWay(level)
  BY DEF TreeInv
<1>3. Trail(heap, level, root, trail) /\ Shape(heap, level)
  BY <1>1, <1>2 DEF OnTheWay, Tree
<1>4. split.key \in Keys /\ r \in Alloc(heap) /\ ~Owned(heap, r)
  BY <1>1 DEF Unlinked
<1>5. a \in Alloc(heap) /\ ~old.leaf /\ slot \in 1..Len(old.kids)
  <2>1. /\ Len(trail) \in Nat \ {0} /\ Last(trail) = trail[Len(trail)]
    BY <1>1, <1>3, LastElement DEF Trail
  <2>2. Len(trail) \in 1..Len(trail)
    BY <2>1
  <2>3. Passed(heap, level, root, Last(trail), Len(trail))
    BY <1>3, <2>1, <2>2 DEF Trail
  <2> QED BY <2>3 DEF Passed
<1>6. /\ a \in Addresses /\ WellFormed(old) /\ old \in Node /\ heap \in Heap
      /\ r \in Addresses
  BY <1>3, <1>4, <1>5, NodeInHeap DEF Shape
<1>7. Graft(heap, a, slot, r, split.key)
  BY <1>4, <1>5 DEF Graft
<1>8. \/ /\ HasRoom(total) /\ heap' = [heap EXCEPT ![a] = grown] /\ Return(0)
         /\ sinceCut' = sinceCut
      \/ /\ ~HasRoom(total) /\ CanAllocate
         /\ heap' = [heap EXCEPT ![a] = low, ![NewAddress] = high]
         /\ Up(first, NewAddress) /\ trail' = Front(trail) /\ sinceCut' = sinceCut
      \/ Return(-1) /\ CutOff /\ heap' = heap
  BY DEF LinkSplit, Joined
<1>9. HasRoom(total) => WellFormed(grown)
  <2> HIDE DEF a, slot, r
  <2> QED BY <1>4, <1>5, <1>6, GrownInner
<1>10. ~HasRoom(total) => WellFormed(low) /\ WellFormed(high)
  <2> HIDE DEF a, slot, r, old
  <2> QED BY <1>4, <1>5, <1>6, HalvesOfInner
<1>11. ~HasRoom(total) => total = MaxKeys + 1
  <2>1. /\ old.keys \in Seq(Keys) /\ Len(old.keys) \in Nat /\ Len(old.keys) <= MaxKeys
        /\ slot \in 1..Len(old.keys) + 1
    BY <1>5, <1>6, NodeFields DEF WellFormed
  <2> HIDE DEF old, slot
  <2>2. total = Len(old.keys) + 1
    <3>1. old.keys \in Seq(Keys) /\ slot \in 1..Len(old.keys) + 1 /\ split.key \in Keys
      BY <2>1, <1>4
    <3> QED BY ONLY <3>1, Inserted DEF keys
  <2> QED BY <2>1, <2>2, MaxKeysType DEF HasRoom
<1>12. /\ grown.leaf = FALSE /\ grown.keys = keys /\ grown.kids = kids
       /\ low.leaf = FALSE /\ low.keys = SubSeq(keys, 1, mid)
       /\ low.kids = SubSeq(kids, 1, mid + 1)
       /\ high.leaf = FALSE /\ high.keys = SubSeq(keys, mid + 2, total)
       /\ high.kids = RightKids(kids, mid)
  BY DEF Inner
<1> HIDE DEF a, slot, r, old, grown, low, high, keys, kids, mid
<1>13. CASE /\ HasRoom(total) /\ heap' = [heap EXCEPT ![a] = grown] /\ Return(0)
            /\ sinceCut' = sinceCut
  <2>1. heap'[a] = grown /\ SameBut(heap', heap, a, a)
    BY <1>6, <1>13 DEF Heap, SameBut
  <2>2. Alloc(heap') = Alloc(heap)
    BY <2>1, <1>5, <1>9, <1>13, WellFormedIsNode DEF Alloc, SameBut
  <2>3. Spreads(heap, heap', a, slot, r, split.key)
    BY <2>1, <2>2, <1>9, <1>12, <1>13 DEF Spreads, keys, kids, old
  <2> QED BY <2>3, <1>7, <1>13 DEF a, slot, r
<1>14. CASE /\ ~HasRoom(total) /\ CanAllocate
            /\ heap' = [heap EXCEPT ![a] = low, ![NewAddress] = high]
            /\ Up(first, NewAddress) /\ trail' = Front(trail) /\ sinceCut' = sinceCut
  <2> DEFINE b == NewAddress
  <2>1. b \in Addresses \ Alloc(heap)
    BY <1>14, NewIsFree
  <2> HIDE DEF b
  <2>2. heap' = [heap EXCEPT ![a] = low, ![b] = high] /\ Up(first, b)
    BY <1>14 DEF b
  <2>3. heap'[a] = low /\ heap'[b] = high /\ SameBut(heap', heap, a, b) /\ a # b
    BY <2>1, <2>2, <1>5, <1>6 DEF Heap, SameBut
  <2>4. Alloc(heap') = Alloc(heap) \cup {b}
    BY <2>1, <2>3, <1>5, <1>10, <1>14, WellFormedIsNode DEF Alloc, SameBut
  <2>5. mid \in 1..total - 1
    <3>1. total = MaxKeys + 1 /\ mid \in 1..MaxKeys
      BY <1>11, <1>14, Halves DEF mid
    <3> QED BY <3>1, MaxKeysType
  <2>6. PartedAt(keys, kids, mid, heap'[a], heap'[b])
    BY <2>3, <2>5, <1>12 DEF PartedAt
  <2>7. Splits(heap, heap', a, b, slot, r, split.key, mid)
    BY <2>1, <2>3, <2>4, <2>6, <1>10, <1>12, <1>14 DEF Splits, keys, kids, old
  <2>8. Up(InsertAt(heap[a].keys, slot, split.key)[mid + 1], b)
    BY <2>2 DEF keys, old
  <2> QED BY <2>7, <2>8, <1>7, <1>14 DEF a, slot, r
<1>15. CASE Return(-1) /\ CutOff /\ heap' = heap
  <2>1. sinceCut' # 0
    BY <1>1, <1>15 DEF CutOff
  <2> QED BY <2>1, <1>7, <1>15 DEF a, slot, r
<1> QED BY <1>8, <1>13, <1>14, <1>15

LEMMA GrowRootWrites ==
  ASSUME TreeInv, GrowRoot
  PROVE  \/ /\ Crowns(heap, heap', root, root', split.right, split.key)
            /\ Return(0) /\ sinceCut' = sinceCut
         \/ Return(-1) /\ sinceCut' # 0 /\ heap' = heap /\ root' = root
<1> DEFINE r   == split.right
           top == Inner(<<split.key>>, <<root, r>>)
<1>1. /\ pc = "up" /\ root \in Alloc(heap) /\ Unlinked(heap, root, trail, split)
      /\ sinceCut \in Nat
  BY DEF TreeInv, GrowRoot
<1>2. PICK level : \E rank : Tree(heap, root, level, rank)
  BY DEF TreeInv
<1>3. Shape(heap, level) /\ ~Owned(heap, root)
  BY <1>1, <1>2, TreeAssumption DEF Tree, Alloc
<1>4. split.key \in Keys /\ r \in Alloc(heap) /\ r # root
  BY <1>1 DEF Unlinked
<1>5. root \in Addresses /\ r \in Addresses /\ heap \in Heap
  BY <1>1, <1>3, <1>4, NodeInHeap DEF Shape
<1>6. \/ /\ CanAllocate
         /\ heap' = [heap EXCEPT ![NewAddress] = top] /\ root' = NewAddress
         /\ Return(0) /\ sinceCut' = sinceCut
      \/ Return(-1) /\ CutOff /\ heap' = heap /\ root' = root
  BY DEF GrowRoot
<1>7. /\ WellFormed(top) /\ top.leaf = FALSE /\ top.keys = <<split.key>>
      /\ top.kids = <<root, r>>
  <2> DEFINE keys == <<split.key>>
             kids == <<root, r>>
  <2>1. keys \in Seq(Keys) /\ Len(keys) = 1 /\ kids \in Seq(Addresses) /\ Len(kids) = 2
    BY <1>4, <1>5
  <2> HIDE DEF keys, kids
  <2> DEFINE n == Inner(keys, kids)
  <2>2. n \in Node /\ n.leaf = FALSE /\ n.keys = keys /\ n.kids = kids /\ n.next = Null
    <3>1. keys \in Seq(Keys) /\ kids \in Seq(Addresses)
      BY <2>1
    <3> QED BY ONLY <3>1, InnerFields
  <2> HIDE DEF n
  <2>3. Len(n.keys) = 1 /\ Len(n.kids) = 2
    BY <2>1, <2>2
  <2>4. WellFormed(n)
    BY <2>2, <2>3, MaxKeysType DEF WellFormed
  <2> QED BY <2>2, <2>4 DEF n, keys, kids
<1> HIDE DEF top
<1>8. CASE /\ CanAllocate
           /\ heap' = [heap EXCEPT ![NewAddress] = top] /\ root' = NewAddress
           /\ Return(0) /\ sinceCut' = sinceCut
  <2>1. root' \in Addresses \ Alloc(heap) /\ heap' = [heap EXCEPT ![root'] = top]
    BY <1>8, NewIsFree
  <2>2. heap'[root'] = top /\ SameBut(heap', heap, root', root')
    BY <2>1, <1>5 DEF Heap, SameBut
  <2>3. Alloc(heap') = Alloc(heap) \cup {root'}
    BY <2>1, <2>2, <1>7, WellFormedIsNode DEF Alloc, SameBut
  <2>4. Crowns(heap, heap', root, root', r, split.key)
    BY <2>1, <2>2, <2>3, <1>1, <1>3, <1>4, <1>7 DEF Crowns
  <2> QED BY <2>4, <1>8
<1>9. CASE Return(-1) /\ CutOff /\ heap' = heap /\ root' = root
  <2>1. sinceCut' # 0
    BY <1>1, <1>9 DEF CutOff
  <2> QED BY <2>1, <1>9
<1> QED BY <1>6, <1>8, <1>9

(***************************************************************************)
(* The linked leaves, and the entries they hold.                           *)
(***************************************************************************)
EntriesAt(h, a) == EntrySet(h[a].keys, h[a].refs)
Gathered(h, T)  == UNION {EntriesAt(h, a) : a \in T}

IsList(h, f) ==
  f = [a \in Stations(h) |-> IF a = Null THEN <<>> ELSE EntriesOf(h[a]) \o f[h[a].next]]

LeftmostOf(h, top) == (CHOOSE f : IsFirst(h, f))[top]
ChainOf(h, top)    == (CHOOSE f : IsTail(h, f))[LeftmostOf(h, top)]
ListFrom(h, a)     == (CHOOSE f : IsList(h, f))[a]

LEMMA LeafEntries ==
  ASSUME NEW n, n.keys \in Seq(Nat)
  PROVE  /\ EntriesOf(n) \in Seq(EntrySet(n.keys, n.refs))
         /\ Len(EntriesOf(n)) = Len(n.keys)
         /\ ToSet(EntriesOf(n)) = EntrySet(n.keys, n.refs)
<1> DEFINE m == Len(n.keys)
<1>1. m \in Nat
  BY KeyList
<1>2. EntriesOf(n) = [i \in 1..m |-> Entry(n.keys[i], n.refs[i])]
  BY DEF EntriesOf, Entry
<1>3. EntrySet(n.keys, n.refs) = {Entry(n.keys[i], n.refs[i]) : i \in 1..m}
  BY DEF EntrySet
<1> HIDE DEF m
<1>4. EntriesOf(n) \in [1..m -> EntrySet(n.keys, n.refs)]
  BY <1>2, <1>3
<1>5. Len(EntriesOf(n)) = m /\ EntriesOf(n) \in Seq(EntrySet(n.keys, n.refs))
  BY <1>1, <1>4
<1>6. ToSet(EntriesOf(n)) = EntrySet(n.keys, n.refs)
  BY <1>2, <1>3 DEF ToSet
<1> QED BY <1>5, <1>6 DEF m

LEMMA SetOfBoth ==
  ASSUME NEW S, NEW s \in Seq(S), NEW t \in Seq(S)
  PROVE  ToSet(s \o t) = ToSet(s) \cup ToSet(t)
<1> DEFINE m == Len(s)
           n == Len(t)
           u == s \o t
<1>1. /\ m \in Nat /\ n \in Nat /\ u \in Seq(S) /\ Len(u) = m + n
      /\ \A i \in 1..m + n : u[i] = IF i <= m THEN s[i] ELSE t[i - m]
  BY ConcatProperties, LenProperties
<1>2. DOMAIN s = 1..m /\ DOMAIN t = 1..n /\ DOMAIN u = 1..m + n
  BY <1>1, LenProperties
<1> HIDE DEF m, n, u
<1>3. ASSUME NEW i \in 1..m PROVE i \in 1..m + n /\ u[i] = s[i]
  BY <1>1
<1>4. ASSUME NEW j \in 1..n PROVE m + j \in 1..m + n /\ u[m + j] = t[j]
  <2>1. m + j \in 1..m + n /\ ~(m + j <= m) /\ m + j - m = j
    BY <1>1
  <2> QED BY <2>1, <1>1
<1>5. ASSUME NEW i \in 1..m + n
      PROVE  (i \in 1..m /\ u[i] = s[i]) \/ \E j \in 1..n : u[i] = t[j]
  <2>1. CASE i > m
    <3>1. i - m \in 1..n /\ ~(i <= m)
      BY <2>1, <1>1
    <3> QED BY <3>1, <1>1
  <2>2. CASE ~(i > m)
    <3>1. i \in 1..m /\ i <= m
      BY <2>2, <1>1
    <3> QED BY <3>1, <1>1
  <2> QED BY <2>1, <2>2
<1>6. \A x : x \in ToSet(u) <=> x \in ToSet(s) \cup ToSet(t)
  BY SMTT(30), <1>2, <1>3, <1>4, <1>5 DEF ToSet
<1> QED BY <1>6 DEF u

LEMMA ListExists ==
  ASSUME NEW h, NEW level, NEW rank, Shape(h, level), Chained(h, rank)
  PROVE  \E f : IsList(h, f)
<1> DEFINE N == Stations(h)
           E == Gathered(h, Alloc(h))
           V == Seq(E)
           stop == {Null}
           succ == NextOf(h)
           base == [a \in stop |-> <<>>]
           step == [a \in N \ stop |-> [v \in V |-> EntriesOf(h[a]) \o v]]
<1>1. Descends(N, ChainRank(h, rank), stop, succ)
  BY NextDescends
<1>2. ASSUME NEW a \in Alloc(h) PROVE EntriesOf(h[a]) \in V
  <2>1. h[a].keys \in Seq(Nat)
    BY NodeInHeap, NodeFields
  <2>2. EntriesOf(h[a]) \in Seq(EntriesAt(h, a))
    BY <2>1, LeafEntries DEF EntriesAt
  <2>3. EntriesAt(h, a) \subseteq E
    BY DEF Gathered
  <2> QED BY <2>2, <2>3, SeqMonotonic
<1>3. Stepping(N, V, stop, base, step)
  <2>1. <<>> \in V
    BY EmptySeq
  <2>2. \A a \in N \ stop, v \in V : EntriesOf(h[a]) \o v \in V
    <3> HIDE DEF E
    <3> QED BY <1>2, ConcatProperties DEF Stations
  <2> HIDE DEF N, V
  <2> QED BY <2>1, <2>2 DEF Stepping
<1>4. \E f \in [N -> V] : Recurs(f, N, stop, succ, base, step)
  <2> HIDE DEF N, V, stop, succ, base, step
  <2> QED BY <1>1, <1>3, RecursionExists
<1>5. PICK f \in [N -> V] : \A a \in N :
        f[a] = IF a \in stop THEN base[a] ELSE step[a][f[succ[a]]]
  BY <1>4 DEF Recurs
<1>6. ASSUME NEW a \in N
      PROVE  f[a] = IF a = Null THEN <<>> ELSE EntriesOf(h[a]) \o f[h[a].next]
  <2>1. CASE a = Null
    BY <2>1, <1>5
  <2>2. CASE a # Null
    <3>1. succ[a] = h[a].next /\ succ[a] \in N
      BY <2>2, <1>1 DEF NextOf, Descends, Stations
    <3>2. f[succ[a]] \in V
      BY <3>1, <1>5
    <3> QED BY <2>2, <3>1, <3>2, <1>5
  <2> QED BY <2>1, <2>2
<1>7. IsList(h, f)
  BY <1>5, <1>6 DEF IsList
<1> QED BY <1>7

(* Proofs about the chain go from its end to its beginning.                *)
LEMMA ChainInduction ==
  ASSUME NEW h, NEW level, NEW rank, Shape(h, level), Chained(h, rank), NEW S,
         Null \in S, \A a \in Alloc(h) : h[a].next \in S => a \in S
  PROVE  Stations(h) \subseteq S
<1> DEFINE stop == {Null}
<1>1. Descends(Stations(h), ChainRank(h, rank), stop, NextOf(h))
  BY NextDescends
<1>2. PassedOn(Stations(h), stop, NextOf(h), S)
  BY DEF PassedOn, Stations, NextOf
<1> HIDE DEF stop
<1> QED BY <1>1, <1>2, RecursionEnds

LEMMA NextOnChain ==
  ASSUME NEW h, NEW level, NEW rank, Shape(h, level), Chained(h, rank), NEW a \in Alloc(h)
  PROVE  /\ h[a].next \in Stations(h) /\ a \in Stations(h) /\ a # Null
         /\ h[a].next # Null => h[a].next \in Leaves(h)
<1>1. h[a].next # Null => h[a].leaf
  BY NodeInHeap, WellFormedIsNode
<1>2. h[a].next # Null => h[a].next \in Leaves(h)
  BY <1>1 DEF Chained, Linked, Leaves
<1> QED BY <1>2, TreeAssumption DEF Leaves, Stations, Alloc

LEMMA TailStep ==
  ASSUME NEW h, NEW f, IsTail(h, f)
  PROVE  f[Null] = {} /\ (Null \notin Alloc(h) => \A a \in Alloc(h) : f[a] = {a} \cup f[h[a].next])
  BY DEF IsTail, Stations

LEMMA ListStep ==
  ASSUME NEW h, NEW f, IsList(h, f)
  PROVE  f[Null] = <<>>
         /\ (Null \notin Alloc(h) => \A a \in Alloc(h) : f[a] = EntriesOf(h[a]) \o f[h[a].next])
  BY DEF IsList, Stations

LEMMA ListHoldsEntries ==
  ASSUME NEW h, NEW level, NEW rank, Shape(h, level), Chained(h, rank),
         NEW f, IsTail(h, f), NEW list, IsList(h, list)
  PROVE  \A a \in Stations(h) : /\ list[a] \in Seq(Gathered(h, Alloc(h)))
                                /\ ToSet(list[a]) = Gathered(h, f[a])
<1> DEFINE E == Gathered(h, Alloc(h))
           S == {a \in Stations(h) : list[a] \in Seq(E) /\ ToSet(list[a]) = Gathered(h, f[a])}
<1>1. Null \notin Alloc(h)
  BY TreeAssumption DEF Alloc
<1>2. Null \in S
  <2>1. <<>> \in Seq(E) /\ ToSet(<<>>) = {} /\ Gathered(h, {}) = {}
    BY EmptySeq DEF ToSet, Gathered
  <2> QED BY <2>1, TailStep, ListStep DEF Stations
<1>3. ASSUME NEW a \in Alloc(h), h[a].next \in S PROVE a \in S
  <2> DEFINE rest == h[a].next
  <2>1. list[a] = EntriesOf(h[a]) \o list[rest] /\ f[a] = {a} \cup f[rest]
    <3>1. f[a] = {a} \cup f[h[a].next]
      BY <1>1, TailStep
    <3>2. list[a] = EntriesOf(h[a]) \o list[h[a].next]
      BY <1>1, ListStep
    <3> QED BY <3>1, <3>2
  <2>2. list[rest] \in Seq(E) /\ ToSet(list[rest]) = Gathered(h, f[rest])
    BY <1>3
  <2>3. h[a].keys \in Seq(Nat)
    BY NodeInHeap, NodeFields
  <2>4. /\ EntriesOf(h[a]) \in Seq(EntriesAt(h, a))
        /\ ToSet(EntriesOf(h[a])) = EntriesAt(h, a)
    BY <2>3, LeafEntries DEF EntriesAt
  <2>5. EntriesAt(h, a) \subseteq E
    BY DEF Gathered
  <2>6. EntriesOf(h[a]) \in Seq(E)
    BY <2>4, <2>5, SeqMonotonic
  <2> HIDE DEF rest, E
  <2>7. /\ list[a] \in Seq(E)
        /\ ToSet(list[a]) = ToSet(EntriesOf(h[a])) \cup ToSet(list[rest])
    BY <2>1, <2>2, <2>6, ConcatProperties, SetOfBoth
  <2>8. EntriesAt(h, a) \cup Gathered(h, f[rest]) = Gathered(h, f[a])
    BY <2>1 DEF Gathered
  <2>9. a \in Stations(h)
    BY DEF Stations
  <2> QED BY <2>2, <2>4, <2>7, <2>8, <2>9 DEF E
<1> HIDE DEF S
<1>4. Stations(h) \subseteq S
  BY <1>2, <1>3, ChainInduction
<1> QED BY <1>4 DEF S

LEMMA OnlyLeavesFollow ==
  ASSUME NEW h, NEW level, NEW rank, Shape(h, level), Chained(h, rank),
         NEW f, IsTail(h, f)
  PROVE  \A a \in Stations(h) : f[a] \subseteq {a} \cup Leaves(h)
<1> DEFINE S == {a \in Stations(h) : f[a] \subseteq {a} \cup Leaves(h)}
<1>1. Null \notin Alloc(h)
  BY TreeAssumption DEF Alloc
<1>2. Null \in S
  BY TailStep DEF Stations
<1>3. ASSUME NEW a \in Alloc(h), h[a].next \in S PROVE a \in S
  <2>1. f[a] = {a} \cup f[h[a].next] /\ f[Null] = {}
    BY <1>1, TailStep
  <2>2. h[a].next # Null => h[a].next \in Leaves(h)
    BY NextOnChain
  <2>3. f[h[a].next] \subseteq Leaves(h)
    BY <1>3, <2>1, <2>2
  <2> QED BY <2>1, <2>3 DEF Stations
<1> HIDE DEF S
<1>4. Stations(h) \subseteq S
  BY <1>2, <1>3, ChainInduction
<1> QED BY <1>4 DEF S

(* A settled index: the chain consists of leaves, and the list of entries  *)
(* holds what they hold.                                                   *)
LEMMA ChainHolds ==
  ASSUME NEW h, NEW top, NEW level, NEW rank, Tree(h, top, level, rank), top # Null
  PROVE  /\ LeftmostOf(h, top) \in ChainOf(h, top)
         /\ ChainOf(h, top) \subseteq Leaves(h)
         /\ ListFrom(h, LeftmostOf(h, top)) \in Seq(Gathered(h, Alloc(h)))
         /\ ToSet(ListFrom(h, LeftmostOf(h, top))) = Gathered(h, ChainOf(h, top))
<1> DEFINE first == CHOOSE f : IsFirst(h, f)
           tail  == CHOOSE f : IsTail(h, f)
           list  == CHOOSE f : IsList(h, f)
           a     == LeftmostOf(h, top)
<1>1. Shape(h, level) /\ Chained(h, rank) /\ top \in Alloc(h) /\ Null \notin Alloc(h)
  BY TreeAssumption DEF Tree, Alloc
<1>2. IsFirst(h, first) /\ IsTail(h, tail) /\ IsList(h, list)
  BY <1>1, FirstExists, TailExists, ListExists
<1>3. /\ a = first[top] /\ ChainOf(h, top) = tail[a] /\ ListFrom(h, a) = list[a]
  BY DEF LeftmostOf, ChainOf, ListFrom
<1> HIDE DEF first, tail, list, a
<1>4. a \in Leaves(h) /\ a \in Stations(h) /\ a \in Alloc(h)
  <2>1. a \in Leaves(h)
    BY <1>1, <1>2, <1>3, FirstIsLeaf
  <2> QED BY <2>1 DEF Leaves, Stations
<1>5. a \in tail[a]
  BY <1>1, <1>2, <1>4, TailStep
<1>6. tail[a] \subseteq Leaves(h)
  BY <1>1, <1>2, <1>4, OnlyLeavesFollow
<1>7. list[a] \in Seq(Gathered(h, Alloc(h))) /\ ToSet(list[a]) = Gathered(h, tail[a])
  BY <1>1, <1>2, <1>4, ListHoldsEntries
<1> QED BY <1>3, <1>5, <1>6, <1>7 DEF a

(***************************************************************************)
(* Writes that keep what is to the left, and what comes next.              *)
(***************************************************************************)
KeepsFirst(h, g) ==
  /\ Alloc(h) \subseteq Alloc(g)
  /\ \A a \in Alloc(h) : /\ g[a].leaf = h[a].leaf
                         /\ ~h[a].leaf => g[a].kids[1] = h[a].kids[1]

KeepsNext(h, g) ==
  Alloc(h) \subseteq Alloc(g) /\ \A a \in Alloc(h) : g[a].next = h[a].next

LinksBehind(h, g, a, b) ==
  /\ Alloc(h) \subseteq Alloc(g) /\ a \in Alloc(h) /\ b \in Alloc(g) \ Alloc(h)
  /\ g[a].next = b /\ g[b].next = h[a].next
  /\ \A x \in Alloc(h) \ {a} : g[x].next = h[x].next

LEMMA FirstStays ==
  ASSUME NEW h, NEW level, Shape(h, level), NEW g, KeepsFirst(h, g),
         NEW f, IsFirst(h, f), NEW f2, IsFirst(g, f2)
  PROVE  \A a \in Alloc(h) : f2[a] = f[a]
<1> DEFINE S == {a \in Alloc(h) : f2[a] = f[a]}
<1>1. PassedOn(Alloc(h), Leaves(h), FirstKid(h), S)
  <2>1. ASSUME NEW a \in Alloc(h), a \in Leaves(h) \/ FirstKid(h)[a] \in S PROVE a \in S
    <3>1. f[a] = IF h[a].leaf THEN a ELSE f[h[a].kids[1]]
      BY DEF IsFirst
    <3>2. f2[a] = IF g[a].leaf THEN a ELSE f2[g[a].kids[1]]
      BY DEF IsFirst, KeepsFirst
    <3>3. g[a].leaf = h[a].leaf /\ (~h[a].leaf => g[a].kids[1] = h[a].kids[1])
      BY DEF KeepsFirst
    <3>4. a \notin Leaves(h) => h[a].kids[1] \in S
      BY <2>1 DEF FirstKid
    <3> QED BY <3>1, <3>2, <3>3, <3>4 DEF Leaves
  <2> QED BY <2>1 DEF PassedOn
<1>2. Descends(Alloc(h), LevelOf(h, level), Leaves(h), FirstKid(h))
  BY FirstKidDescends
<1> HIDE DEF S
<1>3. Alloc(h) \subseteq S
  BY <1>1, <1>2, RecursionEnds
<1> QED BY <1>3 DEF S

LEMMA TailStays ==
  ASSUME NEW h, NEW level, NEW rank, Shape(h, level), Chained(h, rank),
         NEW g, KeepsNext(h, g), Null \notin Alloc(g),
         NEW f, IsTail(h, f), NEW f2, IsTail(g, f2)
  PROVE  \A a \in Stations(h) : f2[a] = f[a]
<1> DEFINE S == {a \in Stations(h) : f2[a] = f[a]}
<1>1. Null \notin Alloc(h) /\ Null \in S
  BY TailStep DEF KeepsNext, Stations
<1>2. ASSUME NEW a \in Alloc(h), h[a].next \in S PROVE a \in S
  <2>1. a \in Alloc(g) /\ g[a].next = h[a].next
    BY DEF KeepsNext
  <2>2. f2[a] = {a} \cup f2[g[a].next]
    BY <2>1, TailStep
  <2>3. f[a] = {a} \cup f[h[a].next]
    BY <1>1, TailStep
  <2> QED BY <2>1, <2>2, <2>3, <1>2 DEF Stations
<1> HIDE DEF S
<1>3. Stations(h) \subseteq S
  BY <1>1, <1>2, ChainInduction
<1> QED BY <1>3 DEF S

LEMMA TailGrows ==
  ASSUME NEW h, NEW level, NEW rank, Shape(h, level), Chained(h, rank),
         NEW g, NEW a, NEW b, LinksBehind(h, g, a, b), Null \notin Alloc(g),
         NEW f, IsTail(h, f), NEW f2, IsTail(g, f2)
  PROVE  \A x \in Stations(h) : f2[x] = f[x] \cup (IF a \in f[x] THEN {b} ELSE {})
<1> DEFINE S == {x \in Stations(h) : f2[x] = f[x] \cup (IF a \in f[x] THEN {b} ELSE {})}
<1>1. Null \notin Alloc(h) /\ f[Null] = {} /\ f2[Null] = {}
  BY TailStep DEF LinksBehind
<1>2. Null \in S
  BY <1>1 DEF Stations
<1>3. ASSUME NEW x \in Alloc(h), h[x].next \in S PROVE x \in S
  <2>1. f[x] = {x} \cup f[h[x].next]
    BY <1>1, TailStep
  <2>2. /\ f2[h[x].next] = f[h[x].next] \cup (IF a \in f[h[x].next] THEN {b} ELSE {})
        /\ x \in Stations(h)
    BY <1>3 DEF Stations
  <2>3. CASE x = a
    <3>1. f2[a] = {a} \cup f2[b]
      <4>1. a \in Alloc(g) /\ g[a].next = b
        BY DEF LinksBehind
      <4> QED BY <4>1, TailStep
    <3>2. f2[b] = {b} \cup f2[h[a].next]
      <4>1. b \in Alloc(g) /\ g[b].next = h[a].next
        BY DEF LinksBehind
      <4> QED BY <4>1, TailStep
    <3>3. f2[x] = {x} \cup ({b} \cup f2[h[x].next])
      BY <3>1, <3>2, <2>3
    <3>4. a \in f[x]
      BY <2>1, <2>3
    <3> QED BY <3>3, <3>4, <2>1, <2>2
  <2>4. CASE x # a
    <3>1. x \in Alloc(g) /\ g[x].next = h[x].next
      BY <2>4 DEF LinksBehind
    <3>2. f2[x] = {x} \cup f2[h[x].next]
      BY <3>1, TailStep
    <3> QED BY <3>2, <2>1, <2>2, <2>4
  <2> QED BY <2>3, <2>4
<1> HIDE DEF S
<1>4. Stations(h) \subseteq S
  BY <1>2, <1>3, ChainInduction
<1> QED BY <1>4 DEF S

(* All leaves are linked: when leaves get another one behind one of them,  *)
(* or stay as they are, and the root stays or gets a new one above it, the *)
(* chain from the leftmost leaf on still consists of all leaves.           *)
Prolongs(h, g) ==
  /\ KeepsFirst(h, g)
  /\ \/ KeepsNext(h, g) /\ Leaves(g) = Leaves(h)
     \/ \E a, b : LinksBehind(h, g, a, b) /\ a \in Leaves(h) /\ Leaves(g) = Leaves(h) \cup {b}

Tops(g, top, top2) ==
  top2 = top \/ (top2 \in Alloc(g) /\ ~g[top2].leaf /\ g[top2].kids[1] = top)

LEMMA AllLeavesStayLinked ==
  ASSUME NEW h, NEW top, NEW level, NEW rank, Tree(h, top, level, rank), top # Null,
         NEW g, NEW top2, NEW level2, NEW rank2, Tree(g, top2, level2, rank2), top2 # Null,
         Prolongs(h, g), Tops(g, top, top2), ChainOf(h, top) = Leaves(h)
  PROVE  ChainOf(g, top2) = Leaves(g)
<1> DEFINE f  == CHOOSE x : IsFirst(h, x)
           f2 == CHOOSE x : IsFirst(g, x)
           t  == CHOOSE x : IsTail(h, x)
           t2 == CHOOSE x : IsTail(g, x)
<1>1. /\ Shape(h, level) /\ Chained(h, rank) /\ top \in Alloc(h)
      /\ Shape(g, level2) /\ Chained(g, rank2) /\ top2 \in Alloc(g)
      /\ Null \notin Alloc(g) /\ KeepsFirst(h, g)
  BY TreeAssumption DEF Tree, Alloc, Prolongs
<1>2. IsFirst(h, f) /\ IsFirst(g, f2) /\ IsTail(h, t) /\ IsTail(g, t2)
  BY <1>1, FirstExists, TailExists
<1>3. /\ LeftmostOf(h, top) = f[top] /\ LeftmostOf(g, top2) = f2[top2]
      /\ ChainOf(h, top) = t[f[top]] /\ ChainOf(g, top2) = t2[f2[top2]]
  BY DEF LeftmostOf, ChainOf
<1> HIDE DEF f, f2, t, t2
<1>4. f2[top] = f[top] /\ f[top] \in Leaves(h)
  BY <1>1, <1>2, FirstStays, FirstIsLeaf
<1>5. f2[top2] = f[top] /\ f[top] \in Stations(h)
  <2>1. top2 = top \/ f2[top2] = f2[g[top2].kids[1]]
    BY <1>1, <1>2 DEF Tops, IsFirst
  <2> QED BY <2>1, <1>1, <1>2, <1>4 DEF Tops, IsFirst, Stations, Leaves
<1>6. CASE KeepsNext(h, g) /\ Leaves(g) = Leaves(h)
  <2>1. \A a \in Stations(h) : t2[a] = t[a]
    BY <1>1, <1>2, <1>6, TailStays
  <2> QED BY <2>1, <1>3, <1>5, <1>6
<1>7. ASSUME NEW a, NEW b, LinksBehind(h, g, a, b), a \in Leaves(h),
             Leaves(g) = Leaves(h) \cup {b}
      PROVE  t2[f2[top2]] = Leaves(g)
  <2>1. t2[f[top]] = t[f[top]] \cup (IF a \in t[f[top]] THEN {b} ELSE {})
    BY <1>1, <1>2, <1>5, <1>7, TailGrows
  <2> QED BY <2>1, <1>3, <1>5, <1>7
<1> QED BY <1>3, <1>6, <1>7 DEF Prolongs

(* What the writes do to the leaves and to all their entries.              *)
Gains(h, g, X) == Gathered(g, Leaves(g)) = Gathered(h, Leaves(h)) \cup X

LEMMA SameLeaves ==
  ASSUME NEW h, NEW g, Leaves(g) = Leaves(h), \A x \in Leaves(h) : g[x] = h[x]
  PROVE  Gains(h, g, {})
  BY DEF Gains, Gathered, EntriesAt

LEMMA FillingGains ==
  ASSUME NEW h, NEW level, Shape(h, level), NEW g, NEW a, NEW e \in Entries,
         Fills(h, g, a, e)
  PROVE  Prolongs(h, g) /\ Gains(h, g, {Entry(e.key, e.ref)})
<1>1. /\ a \in Alloc(h) /\ h[a].leaf = TRUE /\ g[a].leaf = TRUE /\ g[a].next = h[a].next
      /\ \A x \in Alloc(h) \ {a} : g[x] = h[x]
      /\ Alloc(g) = Alloc(h) /\ WellFormed(h[a])
  BY NodeInHeap, WellFormedIsNode DEF Fills, SameBut, Alloc
<1>2. Leaves(g) = Leaves(h)
  BY <1>1 DEF Leaves
<1>3. KeepsFirst(h, g) /\ KeepsNext(h, g)
  BY <1>1 DEF KeepsFirst, KeepsNext
<1>4. EntriesAt(g, a) = EntriesAt(h, a) \cup {Entry(e.key, e.ref)}
  <2>1. /\ h[a].keys \in Seq(Keys) /\ h[a].refs \in Seq(Refs) /\ Len(h[a].refs) = Len(h[a].keys)
        /\ h[a].keys \in Seq(Nat)
    BY <1>1, NodeFields DEF WellFormed
  <2>2. LeafSlot(h[a], e.key) \in 1..Len(h[a].keys) + 1 /\ e.key \in Keys /\ e.ref \in Refs
    BY <2>1, EntryFields, LeafSlotFound
  <2>3. EntrySet(NewKeys(h[a], e), NewRefs(h[a], e))
          = EntrySet(h[a].keys, h[a].refs) \cup {Entry(e.key, e.ref)}
    BY <2>1, <2>2, EntryAdded DEF NewKeys, NewRefs
  <2> QED BY <2>3 DEF EntriesAt, Fills
<1>5. \A x \in Leaves(h) \ {a} : EntriesAt(g, x) = EntriesAt(h, x)
  BY <1>1 DEF EntriesAt, Leaves
<1>6. a \in Leaves(h)
  BY <1>1 DEF Leaves
<1> QED BY <1>2, <1>3, <1>4, <1>5, <1>6 DEF Gains, Gathered, Prolongs

LEMMA PartingGains ==
  ASSUME NEW h, NEW level, Shape(h, level), NEW g, NEW a, NEW b, NEW e \in Entries,
         NEW half, Parts(h, g, a, b, e, half)
  PROVE  Prolongs(h, g) /\ Gains(h, g, {Entry(e.key, e.ref)})
<1>1. /\ a \in Alloc(h) /\ h[a].leaf = TRUE /\ g[a].leaf = TRUE /\ g[b].leaf = TRUE
      /\ g[a].next = b /\ g[b].next = h[a].next
      /\ \A x \in Alloc(h) \ {a} : g[x] = h[x]
      /\ Alloc(g) = Alloc(h) \cup {b} /\ b \notin Alloc(h) /\ WellFormed(h[a])
  BY NodeInHeap, WellFormedIsNode DEF Parts, SameBut, Alloc
<1>2. Leaves(g) = Leaves(h) \cup {b}
  BY <1>1 DEF Leaves
<1>3. KeepsFirst(h, g) /\ LinksBehind(h, g, a, b)
  BY <1>1 DEF KeepsFirst, LinksBehind
<1>4. EntriesAt(g, a) \cup EntriesAt(g, b) = EntriesAt(h, a) \cup {Entry(e.key, e.ref)}
  <2> DEFINE keys == NewKeys(h[a], e)
             refs == NewRefs(h[a], e)
             slot == LeafSlot(h[a], e.key)
  <2>1. /\ h[a].keys \in Seq(Keys) /\ h[a].refs \in Seq(Refs) /\ Len(h[a].refs) = Len(h[a].keys)
        /\ h[a].keys \in Seq(Nat)
    BY <1>1, NodeFields DEF WellFormed
  <2>2. slot \in 1..Len(h[a].keys) + 1 /\ e.key \in Keys /\ e.ref \in Refs
    BY <2>1, EntryFields, LeafSlotFound
  <2>3. EntrySet(keys, refs) = EntrySet(h[a].keys, h[a].refs) \cup {Entry(e.key, e.ref)}
    BY <2>1, <2>2, EntryAdded DEF NewKeys, NewRefs
  <2>4. keys \in Seq(Keys) /\ Len(keys) = Len(h[a].keys) + 1
    <3>1. /\ h[a].keys \in Seq(Keys) /\ slot \in 1..Len(h[a].keys) + 1 /\ e.key \in Keys
          /\ keys = InsertAt(h[a].keys, slot, e.key)
      BY <2>1, <2>2 DEF NewKeys
    <3> QED BY ONLY <3>1, Inserted
  <2>5. refs \in Seq(Refs) /\ Len(refs) = Len(h[a].refs) + 1
    <3>1. /\ h[a].refs \in Seq(Refs) /\ slot \in 1..Len(h[a].refs) + 1 /\ e.ref \in Refs
          /\ refs = InsertAt(h[a].refs, slot, e.ref)
      BY <2>1, <2>2 DEF NewRefs
    <3> QED BY ONLY <3>1, Inserted
  <2> HIDE DEF keys, refs, slot
  <2>6. /\ half \in 1..Len(keys) - 1 /\ Len(refs) = Len(keys)
        /\ g[a].keys = SubSeq(keys, 1, half) /\ g[b].keys = SubSeq(keys, half + 1, Len(keys))
        /\ g[a].refs = SubSeq(refs, 1, half) /\ g[b].refs = SubSeq(refs, half + 1, Len(keys))
    BY <2>1, <2>4, <2>5 DEF Parts, HalvesOf, keys, refs
  <2>7. EntriesAt(g, a) \cup EntriesAt(g, b) = EntrySet(keys, refs)
    <3>1. /\ keys \in Seq(Keys) /\ refs \in Seq(Refs) /\ Len(refs) = Len(keys)
          /\ half \in 1..Len(keys) - 1
      BY <2>4, <2>5, <2>6
    <3>2. EntrySet(SubSeq(keys, 1, half), SubSeq(refs, 1, half))
            \cup EntrySet(SubSeq(keys, half + 1, Len(keys)), SubSeq(refs, half + 1, Len(keys)))
            = EntrySet(keys, refs)
      BY ONLY <3>1, EntriesCut
    <3> QED BY <3>2, <2>6 DEF EntriesAt
  <2> QED BY <2>3, <2>7 DEF EntriesAt
<1>5. \A x \in Leaves(h) \ {a} : EntriesAt(g, x) = EntriesAt(h, x)
  BY <1>1 DEF EntriesAt, Leaves
<1>6. a \in Leaves(h)
  BY <1>1 DEF Leaves
<1>7. \A y : y \in Gathered(g, Leaves(g))
               <=> y \in Gathered(h, Leaves(h)) \/ y = Entry(e.key, e.ref)
  <2>1. \A y : y \in EntriesAt(g, a) \/ y \in EntriesAt(g, b)
                 <=> y \in EntriesAt(h, a) \/ y = Entry(e.key, e.ref)
    BY <1>4
  <2>2. \A y : y \in Gathered(g, Leaves(g))
                 <=> \/ y \in EntriesAt(g, a) \/ y \in EntriesAt(g, b)
                     \/ \E x \in Leaves(h) \ {a} : y \in EntriesAt(g, x)
    BY <1>2, <1>6 DEF Gathered
  <2>3. \A y : y \in Gathered(h, Leaves(h))
                 <=> \/ y \in EntriesAt(h, a)
                     \/ \E x \in Leaves(h) \ {a} : y \in EntriesAt(h, x)
    BY <1>6 DEF Gathered
  <2> QED BY <2>1, <2>2, <2>3, <1>5
<1> QED BY <1>2, <1>3, <1>6, <1>7 DEF Gains, Prolongs

LEMMA GraftingGains ==
  ASSUME NEW h, NEW level, Shape(h, level), NEW g, NEW a, NEW slot, NEW r, NEW key,
         Graft(h, a, slot, r, key),
         \/ Spreads(h, g, a, slot, r, key)
         \/ \E b, mid : Splits(h, g, a, b, slot, r, key, mid)
  PROVE  Prolongs(h, g) /\ Gains(h, g, {})
<1> DEFINE kids == h[a].kids
           all  == Joined(kids, slot, r)
<1>1. /\ a \in Alloc(h) /\ h[a].leaf = FALSE /\ WellFormed(h[a]) /\ h[a].next = Null
      /\ kids \in Seq(Addresses) /\ slot \in 1..Len(kids) /\ r \in Addresses
      /\ Len(kids) \in Nat
  BY NodeInHeap, WellFormedIsNode DEF Graft
<1>2. all \in Seq(Addresses) /\ Len(all) = Len(kids) + 1 /\ all[1] = kids[1]
  <2>1. /\ all \in Seq(Addresses) /\ Len(all) = Len(kids) + 1
        /\ \A j \in 1..Len(kids) + 1 :
             all[j] = IF j <= slot THEN kids[j]
                      ELSE IF j = slot + 1 THEN r ELSE kids[j - 1]
    BY ZenonT(30), <1>1, JoinedKids
  <2>2. 1 \in 1..Len(kids) + 1 /\ 1 <= slot
    BY <1>1
  <2> QED BY <2>1, <2>2
<1> HIDE DEF all, kids
<1>3. CASE Spreads(h, g, a, slot, r, key)
  <2>1. /\ g[a].leaf = FALSE /\ g[a].next = Null /\ g[a].kids = all
        /\ \A x \in Alloc(h) \ {a} : g[x] = h[x]
        /\ Alloc(g) = Alloc(h)
    BY <1>3, WellFormedIsNode DEF Spreads, SameBut, Alloc, all, kids
  <2>2. Leaves(g) = Leaves(h) /\ \A x \in Leaves(h) : g[x] = h[x]
    BY <2>1, <1>1 DEF Leaves
  <2>3. KeepsFirst(h, g) /\ KeepsNext(h, g)
    BY <2>1, <1>1, <1>2 DEF KeepsFirst, KeepsNext, kids
  <2> QED BY <2>2, <2>3, SameLeaves DEF Prolongs
<1>4. ASSUME NEW b, NEW mid, Splits(h, g, a, b, slot, r, key, mid)
      PROVE  Prolongs(h, g) /\ Gains(h, g, {})
  <2>1. /\ g[a].leaf = FALSE /\ g[b].leaf = FALSE /\ g[a].next = Null
        /\ \A x \in Alloc(h) \ {a} : g[x] = h[x]
        /\ Alloc(g) = Alloc(h) \cup {b} /\ b \notin Alloc(h)
    BY <1>4, WellFormedIsNode DEF Splits, SameBut, Alloc
  <2>2. Leaves(g) = Leaves(h) /\ \A x \in Leaves(h) : g[x] = h[x]
    BY <2>1, <1>1 DEF Leaves
  <2>3. g[a].kids[1] = kids[1]
    <3>1. /\ g[a].kids = SubSeq(all, 1, mid + 1) /\ mid \in Nat
          /\ Len(g[a].kids) = Len(g[a].keys) + 1
          /\ mid \in 1..Len(InsertAt(h[a].keys, slot, key)) - 1
          /\ g[a].keys = SubSeq(InsertAt(h[a].keys, slot, key), 1, mid)
      BY <1>4, <2>1 DEF Splits, PartedAt, WellFormed, all, kids
    <3>2. Len(InsertAt(h[a].keys, slot, key)) = Len(kids)
      <4>1. /\ h[a].keys \in Seq(Keys) /\ Len(kids) = Len(h[a].keys) + 1
            /\ slot \in 1..Len(h[a].keys) + 1 /\ key \in Keys
        BY <1>1, NodeFields DEF WellFormed, kids, Graft
      <4>2. h[a].keys \in Seq(Keys) /\ slot \in 1..Len(h[a].keys) + 1 /\ key \in Keys
        BY <4>1
      <4>3. Len(InsertAt(h[a].keys, slot, key)) = Len(h[a].keys) + 1
        BY ONLY <4>2, Inserted
      <4> QED BY <4>1, <4>3
    <3> DEFINE cut == mid + 1
    <3>3. /\ 1 \in 1..Len(all) + 1 /\ cut \in 1 - 1..Len(all)
          /\ 1 \in 1..cut - 1 + 1 /\ 1 + 1 - 1 = 1
      BY <3>1, <3>2, <1>1, <1>2
    <3> HIDE DEF cut
    <3>4. \A i \in 1..cut - 1 + 1 : SubSeq(all, 1, cut)[i] = all[1 + i - 1]
      BY <3>3, <1>2, PartOfSequence
    <3>5. SubSeq(all, 1, cut)[1] = all[1]
      BY <3>3, <3>4
    <3> QED BY <3>1, <3>5, <1>2 DEF cut
  <2>4. KeepsFirst(h, g) /\ KeepsNext(h, g)
    BY <2>1, <2>3, <1>1 DEF KeepsFirst, KeepsNext, kids
  <2> QED BY <2>2, <2>4, SameLeaves DEF Prolongs
<1> QED BY <1>3, <1>4

LEMMA CrowningGains ==
  ASSUME NEW h, NEW g, NEW top, NEW b, NEW r, NEW key, Crowns(h, g, top, b, r, key)
  PROVE  Prolongs(h, g) /\ Gains(h, g, {}) /\ Tops(g, top, b)
<1>1. /\ g[b].leaf = FALSE /\ g[b].kids[1] = top
      /\ \A x \in Alloc(h) : g[x] = h[x]
      /\ Alloc(g) = Alloc(h) \cup {b} /\ b \notin Alloc(h)
  BY WellFormedIsNode DEF Crowns, SameBut, Alloc
<1>2. Leaves(g) = Leaves(h) /\ \A x \in Leaves(h) : g[x] = h[x]
  BY <1>1 DEF Leaves
<1>3. KeepsFirst(h, g) /\ KeepsNext(h, g) /\ Tops(g, top, b)
  BY <1>1 DEF KeepsFirst, KeepsNext, Tops
<1> QED BY <1>2, <1>3, SameLeaves DEF Prolongs

(***************************************************************************)
(* All leaves are linked, from the leftmost on, even after a failed split. *)
(***************************************************************************)
ChainInv == TreeInv /\ (root # Null => ChainOf(heap, root) = Leaves(heap))

(* A step of an insertion keeps the tree as it is, or prolongs it.         *)
LEMMA InsertionProlongs ==
  ASSUME TreeInv, pc # "idle", [Next]_vars
  PROVE  \/ heap' = heap /\ root' = root
         \/ /\ Prolongs(heap, heap') /\ Tops(heap', root, root')
            /\ \E X : Gains(heap, heap', X)
<1>1. \E level, rank : Tree(heap, root, level, rank)
  BY DEF TreeInv
<1>2. PICK level : Shape(heap, level)
  BY <1>1 DEF Tree
<1>3. CASE PutInLeaf
  <2>1. arg \in Entries /\ root' = root
    BY <1>3 DEF TreeInv, PutInLeaf
  <2>2. Tops(heap', root, root')
    BY <2>1 DEF Tops
  <2>3. CASE Fills(heap, heap', at, arg)
    BY <2>1, <2>2, <2>3, <1>2, FillingGains
  <2>4. ASSUME NEW b, NEW half, Parts(heap, heap', at, b, arg, half)
        PROVE  Prolongs(heap, heap') /\ \E X : Gains(heap, heap', X)
    BY <2>1, <2>4, <1>2, PartingGains
  <2> QED BY <2>1, <2>2, <2>3, <2>4, <1>3, PutInLeafWrites
<1>4. CASE LinkSplit
  <2>1. root' = root
    BY <1>4 DEF LinkSplit
  <2>2. Tops(heap', root, root')
    BY <2>1 DEF Tops
  <2> DEFINE a    == Last(trail).node
             slot == Last(trail).slot
             r    == split.right
             key  == split.key
  <2>3. /\ Graft(heap, a, slot, r, key)
        /\ \/ Spreads(heap, heap', a, slot, r, key)
           \/ \E b, mid : Splits(heap, heap', a, b, slot, r, key, mid)
           \/ heap' = heap
    BY <1>4, LinkSplitWrites
  <2> HIDE DEF a, slot, r, key
  <2>4. CASE heap' = heap
    BY <2>1, <2>4
  <2>5. CASE heap' # heap
    <3>1. Prolongs(heap, heap') /\ Gains(heap, heap', {})
      BY <2>3, <2>5, <1>2, GraftingGains
    <3> QED BY <3>1, <2>2
  <2> QED BY <2>4, <2>5
<1>5. CASE GrowRoot
  <2>1. \/ Crowns(heap, heap', root, root', split.right, split.key)
        \/ heap' = heap /\ root' = root
    BY <1>5, GrowRootWrites
  <2>2. CASE Crowns(heap, heap', root, root', split.right, split.key)
    BY <2>2, CrowningGains
  <2> QED BY <2>1, <2>2
<1>6. CASE Descend \/ Duplicate
  BY <1>6 DEF Descend, Duplicate
<1>7. CASE UNCHANGED vars
  BY <1>7 DEF vars
<1>8. ~IndexInit /\ \A e \in Entries : ~Insert(e)
  BY DEF IndexInit, Insert
<1> QED BY <1>3, <1>4, <1>5, <1>6, <1>7, <1>8 DEF Next

LEMMA IndexIsChained == Spec => []ChainInv
<1>1. Init => ChainInv
  BY InitTree DEF Init, ChainInv
<1>2. ASSUME ChainInv, [Next]_vars PROVE ChainInv'
  <2>1. TreeInv /\ TreeInv'
    BY <1>2, NextKeepsTree DEF ChainInv
  <2>2. CASE heap' = heap /\ root' = root
    BY <2>1, <2>2, <1>2 DEF ChainInv
  <2>3. CASE /\ pc # "idle" /\ Prolongs(heap, heap') /\ Tops(heap', root, root')
    <3>1. root # Null /\ ChainOf(heap, root) = Leaves(heap)
      BY <2>3, <1>2, TreeAssumption DEF ChainInv, TreeInv, Alloc
    <3>2. PICK level, rank : Tree(heap, root, level, rank)
      BY <2>1 DEF TreeInv
    <3>3. \E l, r : Tree(heap', root', l, r)
      BY <2>1 DEF TreeInv
    <3>4. root' # Null => ChainOf(heap', root') = Leaves(heap')
      BY <2>3, <3>1, <3>2, <3>3, AllLeavesStayLinked
    <3> QED BY <2>1, <3>4 DEF ChainInv
  <2>4. CASE IndexInit
    <3>1. SUFFICES ASSUME root' # Null PROVE ChainOf(heap', root') = Leaves(heap')
      BY <2>1 DEF ChainInv
    <3>2. \A x \in Addresses \ {root'} : heap'[x] = Free
      BY <2>4, <3>1 DEF IndexInit
    <3>3. PICK l, r : Tree(heap', root', l, r)
      BY <2>1 DEF TreeInv
    <3>4. Leaves(heap') \subseteq {root'}
      BY <3>2 DEF Leaves, Alloc
    <3>5. /\ LeftmostOf(heap', root') \in ChainOf(heap', root')
          /\ ChainOf(heap', root') \subseteq Leaves(heap')
      BY <3>1, <3>3, ChainHolds
    <3> QED BY <3>4, <3>5
  <2>5. ASSUME NEW e \in Entries, Insert(e) PROVE heap' = heap /\ root' = root
    BY <2>5 DEF Insert
  <2>6. CASE pc = "idle"
    <3>1. ~Descend /\ ~Duplicate /\ ~PutInLeaf /\ ~LinkSplit /\ ~GrowRoot
      BY <2>6 DEF Descend, Duplicate, PutInLeaf, LinkSplit, GrowRoot
    <3>2. IndexInit \/ (heap' = heap /\ root' = root)
      <4>1. CASE UNCHANGED vars
        BY <4>1 DEF vars
      <4>2. CASE Next
        BY <4>2, <3>1, <2>5 DEF Next
      <4> QED BY <4>1, <4>2, <1>2
    <3> QED BY <3>2, <2>2, <2>4
  <2>7. CASE pc # "idle"
    BY <2>1, <2>2, <2>3, <2>7, <1>2, InsertionProlongs
  <2> QED BY <2>6, <2>7
<1> QED BY <1>1, <1>2, PTL DEF Spec

LEMMA ChainOfEntries ==
  ASSUME NEW h, NEW top, NEW level, NEW rank, Tree(h, top, level, rank), top # Null,
         ChainOf(h, top) = Leaves(h)
  PROVE  ToSet(ListFrom(h, LeftmostOf(h, top))) = Gathered(h, Leaves(h))
  BY ChainHolds

(***************************************************************************)
(* Only index_init takes entries off the linked leaves: an insertion that  *)
(* fails half way up forgets none there, and changes no reference.         *)
(***************************************************************************)
THEOREM InsertionForgetsNothing == Spec => ChainForgetsNothing
<1>1. ASSUME ChainInv, ChainInv', [Next]_vars, pc # "idle" PROVE OnChain \subseteq OnChain'
  <2>1. OnChain = ToSet(ListFrom(heap, LeftmostOf(heap, root)))
    BY DEF OnChain, EntriesFrom, LeftmostLeaf, ListFrom, LeftmostOf, IsList, IsFirst,
           Stations, Alloc, Allocated
  <2>2. OnChain' = ToSet(ListFrom(heap', LeftmostOf(heap', root')))
    BY DEF OnChain, EntriesFrom, LeftmostLeaf, ListFrom, LeftmostOf, IsList, IsFirst,
           Stations, Alloc, Allocated
  <2>3. TreeInv /\ TreeInv' /\ root # Null /\ ChainOf(heap, root) = Leaves(heap)
    BY <1>1, TreeAssumption DEF ChainInv, TreeInv, Alloc
  <2>4. CASE heap' = heap /\ root' = root
    BY <2>1, <2>2, <2>4
  <2>5. CASE Tops(heap', root, root') /\ \E X : Gains(heap, heap', X)
    <3>1. root' # Null /\ ChainOf(heap', root') = Leaves(heap')
      BY <2>3, <2>5, <1>1, TreeAssumption DEF ChainInv, Tops, Alloc
    <3>2. PICK level, rank : Tree(heap, root, level, rank)
      BY <2>3 DEF TreeInv
    <3>3. PICK l, r : Tree(heap', root', l, r)
      BY <2>3 DEF TreeInv
    <3>4. OnChain = Gathered(heap, Leaves(heap))
      BY <2>1, <2>3, <3>2, ChainOfEntries
    <3>5. OnChain' = Gathered(heap', Leaves(heap'))
      BY <2>2, <3>1, <3>3, ChainOfEntries
    <3> QED BY <3>4, <3>5, <2>5 DEF Gains
  <2> QED BY <2>3, <2>4, <2>5, <1>1, InsertionProlongs
<1>2. ChainInv /\ ChainInv' /\ [Next]_vars => [pc # "idle" => OnChain \subseteq OnChain']_vars
  BY <1>1
<1> QED BY <1>2, IndexIsChained, PTL DEF Spec, ChainForgetsNothing

(***************************************************************************)
(* Order.  While a split is still to be linked, the parent of the node x   *)
(* that was split sees it with the bounds it had.                          *)
(***************************************************************************)
Adjoins(h, lo, hi, a) ==
  IF h[a].next = Null THEN hi[a] = 0 ELSE hi[a] # 0 /\ lo[h[a].next] = hi[a]

Contents(h, lo, hi, seen, a) ==
  IF h[a].leaf THEN Held(h[a].keys, lo[a], hi[a]) /\ Adjoins(h, lo, hi, a)
               ELSE Divided(h[a].keys, h[a].kids, lo, seen, lo[a], hi[a])

Ordered(h, lo, hi, seen) == \A a \in Alloc(h) : Contents(h, lo, hi, seen, a)

Unbounded(lo, hi, a) == lo[a] = 0 /\ hi[a] = 0

LEMMA SeenBounds ==
  ASSUME NEW hi \in Bounds, NEW x \in Addresses, NEW r \in Addresses
  PROVE  /\ Seen(hi, x, r) \in Bounds /\ Seen(hi, x, r)[x] = hi[r]
         /\ \A y \in Addresses \ {x} : Seen(hi, x, r)[y] = hi[y]
  BY DEF Seen, Bounds

(* The bounds of a are cut at key, and b gets the upper part.              *)
BoundsCut(lo, hi, lo2, hi2, a, b, key) ==
  /\ lo2 \in Bounds /\ hi2 \in Bounds
  /\ lo2[b] = key /\ hi2[b] = hi[a] /\ hi2[a] = key
  /\ \A x \in Addresses \ {b} : lo2[x] = lo[x]
  /\ \A x \in Addresses \ {a, b} : hi2[x] = hi[x]

LEMMA BoundsCanBeCut ==
  ASSUME NEW lo \in Bounds, NEW hi \in Bounds, NEW a \in Addresses, NEW b \in Addresses,
         a # b, NEW key \in Nat
  PROVE  \E lo2, hi2 : BoundsCut(lo, hi, lo2, hi2, a, b, key)
<1> DEFINE lo2 == [x \in Addresses |-> IF x = b THEN key ELSE lo[x]]
           hi2 == [x \in Addresses |-> IF x = a THEN key ELSE IF x = b THEN hi[a] ELSE hi[x]]
<1>1. BoundsCut(lo, hi, lo2, hi2, a, b, key)
  BY DEF BoundsCut, Bounds
<1> QED BY <1>1

LEMMA CutAsSeen ==
  ASSUME NEW lo \in Bounds, NEW hi \in Bounds, NEW a \in Addresses, NEW b \in Addresses,
         a # b, NEW key, NEW lo2, NEW hi2, BoundsCut(lo, hi, lo2, hi2, a, b, key)
  PROVE  \A y \in Addresses \ {b} : Seen(hi2, a, b)[y] = hi[y]
<1> DEFINE seen == Seen(hi2, a, b)
<1>1. /\ hi2 \in Bounds /\ hi2[b] = hi[a]
      /\ \A x \in Addresses \ {a, b} : hi2[x] = hi[x]
  BY DEF BoundsCut
<1>2. seen[a] = hi2[b] /\ \A y \in Addresses \ {a} : seen[y] = hi2[y]
  BY <1>1, SeenBounds
<1> HIDE DEF seen
<1> QED BY <1>1, <1>2 DEF seen

SameAround(h, g, lo, hi, seen, lo2, hi2, seen2, x) ==
  /\ g[x] = h[x] /\ lo2[x] = lo[x] /\ hi2[x] = hi[x]
  /\ \A y \in Children(h[x]) : lo2[y] = lo[y] /\ seen2[y] = seen[y]
  /\ h[x].next # Null => lo2[h[x].next] = lo[h[x].next]

LEMMA SameContents ==
  ASSUME NEW h, NEW g, NEW lo, NEW hi, NEW seen, NEW lo2, NEW hi2, NEW seen2, NEW x,
         SameAround(h, g, lo, hi, seen, lo2, hi2, seen2, x), Contents(h, lo, hi, seen, x)
  PROVE  Contents(g, lo2, hi2, seen2, x)
<1>1. CASE h[x].leaf
  BY <1>1 DEF SameAround, Contents, Adjoins
<1>2. CASE ~h[x].leaf
  <2> DEFINE keys == h[x].keys
             kids == h[x].kids
  <2>1. \A i \in 1..Len(kids) : kids[i] \in Children(h[x])
    BY DEF Children, Elements
  <2>2. \A i \in 1..Len(kids) : lo2[kids[i]] = lo[kids[i]] /\ seen2[kids[i]] = seen[kids[i]]
    BY <2>1 DEF SameAround
  <2>3. Divided(keys, kids, lo, seen, lo[x], hi[x])
    BY <1>2 DEF Contents
  <2>4. Divided(keys, kids, lo2, seen2, lo[x], hi[x])
    BY <2>2, <2>3 DEF Divided
  <2>5. lo2[x] = lo[x] /\ hi2[x] = hi[x] /\ g[x] = h[x]
    BY DEF SameAround
  <2> QED BY <2>4, <2>5, <1>2 DEF Contents
<1> QED BY <1>1, <1>2

(* A leaf gets an entry within its bounds.                                 *)
LEMMA FillingKeepsOrder ==
  ASSUME NEW h, NEW level, Shape(h, level), NEW g, NEW a, NEW e \in Entries,
         Fills(h, g, a, e), ~HasKey(h[a], e.key),
         NEW lo \in Bounds, NEW hi \in Bounds, Ordered(h, lo, hi, hi), Within(lo, hi, a, e.key)
  PROVE  Ordered(g, lo, hi, hi)
<1>1. /\ a \in Alloc(h) /\ h[a].leaf /\ g[a].leaf /\ g[a].next = h[a].next
      /\ g[a].keys = NewKeys(h[a], e) /\ Alloc(g) = Alloc(h)
      /\ \A x \in Alloc(h) \ {a} : g[x] = h[x]
  BY DEF Fills, SameBut, Alloc
<1>2. a \in Addresses /\ h[a].keys \in Seq(Nat) /\ e.key \in Nat
  BY <1>1, NodeInHeap, NodeFields, EntryFields
<1>3. Held(h[a].keys, lo[a], hi[a]) /\ Adjoins(h, lo, hi, a)
  BY <1>1 DEF Ordered, Contents
<1>4. Held(g[a].keys, lo[a], hi[a])
  <2>1. lo[a] \in Nat /\ hi[a] \in Nat /\ lo[a] <= e.key /\ Under(e.key, hi[a])
    BY <1>2 DEF Bounds, Within
  <2> QED BY <2>1, <1>1, <1>2, <1>3, KeyAdded DEF NewKeys
<1>5. Contents(g, lo, hi, hi, a)
  BY <1>1, <1>3, <1>4 DEF Contents, Adjoins
<1>6. ASSUME NEW x \in Alloc(h) \ {a} PROVE Contents(g, lo, hi, hi, x)
  BY <1>1 DEF Ordered, Contents, Adjoins
<1> QED BY <1>1, <1>5, <1>6 DEF Ordered

LEMMA CutAround ==
  ASSUME NEW h, NEW level, NEW rank, Shape(h, level), Chained(h, rank), NEW g,
         NEW a \in Alloc(h), NEW b \in Addresses \ Alloc(h), NEW key,
         NEW lo \in Bounds, NEW hi \in Bounds, NEW lo2, NEW hi2,
         BoundsCut(lo, hi, lo2, hi2, a, b, key),
         NEW x \in Alloc(h) \ {a}, g[x] = h[x],
         NEW seen, \A y \in Children(h[x]) : seen[y] = hi[y]
  PROVE  SameAround(h, g, lo, hi, seen, lo2, hi2, Seen(hi2, a, b), x)
<1> DEFINE seen2 == Seen(hi2, a, b)
<1>1. /\ a \in Addresses /\ a # b /\ b \in Addresses /\ x \in Addresses \ {a, b}
      /\ \A y \in Alloc(h) : y \in Addresses \ {b}
  BY DEF Alloc
<1>2. \A y \in Addresses \ {b} : seen2[y] = hi[y]
  BY <1>1, CutAsSeen
<1> HIDE DEF seen2
<1>3. /\ \A y \in Addresses \ {b} : lo2[y] = lo[y]
      /\ \A y \in Addresses \ {a, b} : hi2[y] = hi[y]
  BY DEF BoundsCut
<1>4. \A y \in Children(h[x]) : y \in Addresses \ {b}
  BY <1>1, NodeInHeap
<1>5. h[x].next # Null => h[x].next \in Addresses \ {b}
  BY <1>1, NextOnChain DEF Leaves
<1> QED BY <1>1, <1>2, <1>3, <1>4, <1>5 DEF SameAround, seen2

(* A leaf is parted between two of its keys.                               *)
LEMMA PartingKeepsOrder ==
  ASSUME NEW h, NEW level, NEW rank, Shape(h, level), Chained(h, rank), NEW g,
         NEW a, NEW b, NEW e \in Entries, NEW half, Parts(h, g, a, b, e, half), ~HasKey(h[a], e.key),
         NEW lo \in Bounds, NEW hi \in Bounds, Ordered(h, lo, hi, hi), Within(lo, hi, a, e.key)
  PROVE  LET key == NewKeys(h[a], e)[half + 1]
         IN  \E lo2, hi2 : /\ BoundsCut(lo, hi, lo2, hi2, a, b, key)
                           /\ Ordered(g, lo2, hi2, Seen(hi2, a, b))
                           /\ Parted(lo2, hi2, a, key, b)
<1> DEFINE keys == NewKeys(h[a], e)
           key  == keys[half + 1]
<1>1. /\ a \in Alloc(h) /\ b \in Addresses \ Alloc(h)
      /\ h[a].leaf /\ g[a].leaf /\ g[b].leaf /\ g[a].next = b /\ g[b].next = h[a].next
      /\ HalvesOf(keys, half, g[a].keys, g[b].keys)
      /\ Alloc(g) = Alloc(h) \cup {b}
      /\ \A x \in Alloc(h) \ {a} : g[x] = h[x]
  BY DEF Parts, SameBut, Alloc
<1>2. a \in Addresses /\ h[a].keys \in Seq(Nat) /\ e.key \in Nat
  BY <1>1, NodeInHeap, NodeFields, EntryFields
<1>3. Held(h[a].keys, lo[a], hi[a]) /\ Adjoins(h, lo, hi, a)
  BY <1>1 DEF Ordered, Contents
<1>4. Held(keys, lo[a], hi[a]) /\ keys \in Seq(Nat)
  <2>1. lo[a] \in Nat /\ hi[a] \in Nat /\ lo[a] <= e.key /\ Under(e.key, hi[a])
    BY <1>2 DEF Bounds, Within
  <2>2. Held(keys, lo[a], hi[a])
    BY <2>1, <1>2, <1>3, KeyAdded DEF NewKeys
  <2>3. LeafSlot(h[a], e.key) \in 1..Len(h[a].keys) + 1
    BY <1>2, LeafSlotFound
  <2>4. keys \in Seq(Nat)
    BY <2>3, <1>2, Inserted DEF NewKeys
  <2> QED BY <2>2, <2>4
<1> HIDE DEF keys
<1>5. /\ Held(g[a].keys, lo[a], key) /\ Held(g[b].keys, key, hi[a])
      /\ key \in Nat /\ lo[a] < key /\ Under(key, hi[a])
  <2>1. /\ half \in 1..Len(keys) - 1 /\ g[a].keys = SubSeq(keys, 1, half)
        /\ g[b].keys = SubSeq(keys, half + 1, Len(keys))
    BY <1>1 DEF HalvesOf
  <2>2. lo[a] \in Nat /\ hi[a] \in Nat
    BY <1>2 DEF Bounds
  <2> QED BY <2>1, <2>2, <1>4, KeysCut
<1> HIDE DEF key
<1>6. a # b /\ b \in Addresses
  BY <1>1
<1>7. PICK lo2, hi2 : BoundsCut(lo, hi, lo2, hi2, a, b, key)
  BY <1>2, <1>5, <1>6, BoundsCanBeCut
<1> DEFINE seen == Seen(hi2, a, b)
<1>8. \A y \in Addresses \ {b} : seen[y] = hi[y]
  BY <1>2, <1>6, <1>7, CutAsSeen
<1> HIDE DEF seen
<1>9. /\ lo2[b] = key /\ hi2[b] = hi[a] /\ hi2[a] = key /\ lo2[a] = lo[a]
      /\ \A x \in Addresses \ {b} : lo2[x] = lo[x]
      /\ \A x \in Addresses \ {a, b} : hi2[x] = hi[x]
  BY <1>2, <1>6, <1>7 DEF BoundsCut
<1>10. Contents(g, lo2, hi2, seen, a)
  <2>1. key # 0 /\ b # Null
    BY <1>2, <1>5, <1>6, TreeAssumption DEF Bounds
  <2> QED BY <2>1, <1>1, <1>5, <1>9 DEF Contents, Adjoins
<1>11. Contents(g, lo2, hi2, seen, b)
  <2>1. h[a].next # Null => h[a].next \in Addresses \ {b}
    BY <1>1, NextOnChain DEF Leaves, Alloc
  <2> QED BY <2>1, <1>1, <1>3, <1>5, <1>9 DEF Contents, Adjoins
<1>12. ASSUME NEW x \in Alloc(h) \ {a} PROVE Contents(g, lo2, hi2, seen, x)
  <2>1. SameAround(h, g, lo, hi, hi, lo2, hi2, seen, x)
    BY <1>1, <1>7, CutAround DEF seen
  <2>2. Contents(h, lo, hi, hi, x)
    BY DEF Ordered
  <2> QED BY <2>1, <2>2, SameContents
<1>13. Ordered(g, lo2, hi2, seen)
  BY <1>1, <1>10, <1>11, <1>12 DEF Ordered
<1>14. Parted(lo2, hi2, a, key, b)
  BY <1>5, <1>9 DEF Parted
<1> QED BY <1>7, <1>13, <1>14 DEF seen, key, keys

LEMMA PartOfElements ==
  ASSUME NEW S, NEW s \in Seq(S), NEW m \in 1..Len(s) + 1, NEW n \in m - 1..Len(s)
  PROVE  \A i \in 1..Len(SubSeq(s, m, n)) : SubSeq(s, m, n)[i] \in Elements(s)
<1> DEFINE t == SubSeq(s, m, n)
<1>1. /\ Len(s) \in Nat /\ Len(t) = n - m + 1
      /\ \A i \in 1..n - m + 1 : t[i] = s[m + i - 1]
  BY LenProperties, PartOfSequence
<1> HIDE DEF t
<1>2. ASSUME NEW i \in 1..Len(t) PROVE m + i - 1 \in 1..Len(s) /\ t[i] = s[m + i - 1]
  BY <1>1
<1> QED BY <1>2 DEF Elements, t

(* A node is linked to its parent, as the child behind the one it comes    *)
(* from.                                                                   *)
LEMMA GraftDivides ==
  ASSUME NEW h, NEW level, Shape(h, level), NEW a, NEW slot, NEW r, NEW key,
         Graft(h, a, slot, r, key), NEW lo \in Bounds, NEW hi \in Bounds,
         Ordered(h, lo, hi, Seen(hi, h[a].kids[slot], r)),
         Parted(lo, hi, h[a].kids[slot], key, r)
  PROVE  /\ Divided(InsertAt(h[a].keys, slot, key), Joined(h[a].kids, slot, r),
                    lo, hi, lo[a], hi[a])
         /\ \A x \in Alloc(h) \ {a} : \A y \in Children(h[x]) :
              Seen(hi, h[a].kids[slot], r)[y] = hi[y]
         /\ h[a].keys \in Seq(Nat) /\ h[a].kids \in Seq(Addresses)
         /\ Len(h[a].kids) = Len(h[a].keys) + 1 /\ r \in Addresses
         /\ h[a].kids[slot] \in Children(h[a])
<1> DEFINE keys == h[a].keys
           kids == h[a].kids
           x    == kids[slot]
           seen == Seen(hi, x, r)
<1>1. /\ a \in Alloc(h) /\ ~h[a].leaf /\ slot \in 1..Len(kids) /\ key \in Nat
      /\ r \in Alloc(h) /\ ~Owned(h, r)
  BY TreeAssumption DEF Graft
<1>2. /\ a \in Addresses /\ r \in Addresses /\ keys \in Seq(Nat) /\ kids \in Seq(Addresses)
      /\ Len(kids) = Len(keys) + 1 /\ NoTwice(kids) /\ Children(h[a]) = Elements(kids)
  BY <1>1, NodeInHeap, NodeFields DEF WellFormed, Distinct, Children
<1>3. x \in Elements(kids) /\ x \in Addresses /\ r \notin Elements(kids)
  <2>1. r \notin Elements(kids)
    BY <1>1, <1>2 DEF Owned
  <2> QED BY <2>1, <1>1, <1>2, ElementOfSeq DEF Elements
<1>4. \A y \in Addresses \ {x} : seen[y] = hi[y]
  BY <1>2, <1>3, SeenBounds
<1>5. ASSUME NEW z \in Alloc(h) \ {a}, NEW y \in Children(h[z]) PROVE seen[y] = hi[y]
  <2>1. y \in Addresses
    BY NodeInHeap DEF Alloc
  <2>2. y # x
    BY <1>1, <1>2, <1>3 DEF Shape, Apart
  <2> QED BY <2>1, <2>2, <1>4
<1>6. Divided(keys, kids, lo, seen, lo[a], hi[a]) /\ lo[a] \in Nat /\ hi[a] \in Nat
  BY <1>1, <1>2 DEF Ordered, Contents, Bounds
<1>7. Divided(InsertAt(keys, slot, key), Joined(kids, slot, r), lo, hi, lo[a], hi[a])
  <2> HIDE DEF keys, kids
  <2>1. /\ Divided(keys, kids, lo, Seen(hi, kids[slot], r), lo[a], hi[a])
        /\ Parted(lo, hi, kids[slot], key, r)
    BY <1>6 DEF keys, kids
  <2> QED BY <2>1, <1>1, <1>2, <1>3, <1>6, SeparatorAdded
<1> QED BY <1>1, <1>2, <1>3, <1>5, <1>7

LEMMA SpreadingKeepsOrder ==
  ASSUME NEW h, NEW level, Shape(h, level), NEW g, NEW a, NEW slot, NEW r, NEW key,
         Graft(h, a, slot, r, key), Spreads(h, g, a, slot, r, key),
         NEW lo \in Bounds, NEW hi \in Bounds,
         Ordered(h, lo, hi, Seen(hi, h[a].kids[slot], r)),
         Parted(lo, hi, h[a].kids[slot], key, r)
  PROVE  Ordered(g, lo, hi, hi)
<1> DEFINE seen == Seen(hi, h[a].kids[slot], r)
<1>1. /\ a \in Alloc(h) /\ Alloc(g) = Alloc(h) /\ ~g[a].leaf
      /\ g[a].keys = InsertAt(h[a].keys, slot, key) /\ g[a].kids = Joined(h[a].kids, slot, r)
      /\ \A x \in Alloc(h) \ {a} : g[x] = h[x]
  BY DEF Graft, Spreads, SameBut, Alloc
<1>2. /\ Divided(g[a].keys, g[a].kids, lo, hi, lo[a], hi[a])
      /\ \A x \in Alloc(h) \ {a} : \A y \in Children(h[x]) : seen[y] = hi[y]
  BY <1>1, GraftDivides
<1>3. Ordered(h, lo, hi, seen)
  OBVIOUS
<1> HIDE DEF seen
<1>4. ASSUME NEW x \in Alloc(h) \ {a} PROVE Contents(g, lo, hi, hi, x)
  <2>1. SameAround(h, g, lo, hi, seen, lo, hi, hi, x)
    BY <1>1, <1>2 DEF SameAround
  <2>2. Contents(h, lo, hi, seen, x)
    BY <1>3 DEF Ordered
  <2> QED BY <2>1, <2>2, SameContents
<1>5. Contents(g, lo, hi, hi, a)
  BY <1>1, <1>2 DEF Contents
<1> QED BY <1>1, <1>4, <1>5 DEF Ordered

(* The parent may be split itself.                                         *)
LEMMA SplittingKeepsOrder ==
  ASSUME NEW h, NEW level, NEW rank, Shape(h, level), Chained(h, rank), NEW g,
         NEW a, NEW b, NEW slot, NEW r, NEW key, NEW mid,
         Graft(h, a, slot, r, key), Splits(h, g, a, b, slot, r, key, mid),
         NEW lo \in Bounds, NEW hi \in Bounds,
         Ordered(h, lo, hi, Seen(hi, h[a].kids[slot], r)),
         Parted(lo, hi, h[a].kids[slot], key, r)
  PROVE  LET cut == InsertAt(h[a].keys, slot, key)[mid + 1]
         IN  \E lo2, hi2 : /\ BoundsCut(lo, hi, lo2, hi2, a, b, cut)
                           /\ Ordered(g, lo2, hi2, Seen(hi2, a, b))
                           /\ Parted(lo2, hi2, a, cut, b)
<1> DEFINE seen == Seen(hi, h[a].kids[slot], r)
           keys == InsertAt(h[a].keys, slot, key)
           kids == Joined(h[a].kids, slot, r)
           cut  == keys[mid + 1]
<1>1. /\ a \in Alloc(h) /\ b \in Addresses \ Alloc(h) /\ Alloc(g) = Alloc(h) \cup {b}
      /\ ~g[a].leaf /\ ~g[b].leaf /\ PartedAt(keys, kids, mid, g[a], g[b])
      /\ \A x \in Alloc(h) \ {a} : g[x] = h[x]
      /\ key \in Nat /\ slot \in 1..Len(h[a].kids)
  BY TreeAssumption DEF Graft, Splits, SameBut, Alloc
<1>2. /\ Divided(keys, kids, lo, hi, lo[a], hi[a])
      /\ \A x \in Alloc(h) \ {a} : \A y \in Children(h[x]) : seen[y] = hi[y]
      /\ h[a].keys \in Seq(Nat) /\ h[a].kids \in Seq(Addresses)
      /\ Len(h[a].kids) = Len(h[a].keys) + 1 /\ r \in Addresses
  BY GraftDivides
<1>3. Ordered(h, lo, hi, seen)
  OBVIOUS
<1>4. /\ keys \in Seq(Nat) /\ kids \in Seq(Addresses) /\ Len(kids) = Len(keys) + 1
  <2>1. h[a].keys \in Seq(Nat) /\ slot \in 1..Len(h[a].keys) + 1 /\ key \in Nat
    BY <1>1, <1>2
  <2>2. keys \in Seq(Nat) /\ Len(keys) = Len(h[a].keys) + 1
    BY ONLY <2>1, Inserted
  <2>3. h[a].kids \in Seq(Addresses) /\ slot \in 1..Len(h[a].kids) /\ r \in Addresses
    BY <1>1, <1>2
  <2>4. kids \in Seq(Addresses) /\ Len(kids) = Len(h[a].kids) + 1
    BY ONLY <2>3, JoinedKids
  <2> QED BY <2>2, <2>4, <1>2
<1> HIDE DEF seen, keys, kids
<1>5. a \in Addresses /\ b \in Addresses /\ a # b /\ lo[a] \in Nat /\ hi[a] \in Nat
  BY <1>1 DEF Alloc, Bounds
<1>6. /\ Divided(g[a].keys, g[a].kids, lo, hi, lo[a], cut)
      /\ Divided(g[b].keys, g[b].kids, lo, hi, cut, hi[a])
      /\ cut \in Nat /\ lo[a] < cut /\ Under(cut, hi[a])
  <2>1. /\ mid \in 1..Len(keys) - 1
        /\ g[a].keys = SubSeq(keys, 1, mid) /\ g[a].kids = SubSeq(kids, 1, mid + 1)
        /\ g[b].keys = SubSeq(keys, mid + 2, Len(keys)) /\ g[b].kids = RightKids(kids, mid)
    BY <1>1 DEF PartedAt
  <2>2. /\ keys \in Seq(Nat) /\ kids \in Seq(Addresses) /\ Len(kids) = Len(keys) + 1
        /\ lo \in Bounds /\ hi \in Bounds /\ lo[a] \in Nat /\ hi[a] \in Nat
        /\ Divided(keys, kids, lo, hi, lo[a], hi[a]) /\ mid \in 1..Len(keys) - 1
    BY <2>1, <1>2, <1>4, <1>5
  <2>3. /\ Divided(SubSeq(keys, 1, mid), SubSeq(kids, 1, mid + 1), lo, hi, lo[a], cut)
        /\ Divided(SubSeq(keys, mid + 2, Len(keys)), RightKids(kids, mid),
                   lo, hi, cut, hi[a])
        /\ cut \in Nat /\ lo[a] < cut /\ Under(cut, hi[a])
    BY ONLY <2>2, DividedCut
  <2> QED BY <2>1, <2>3
<1> HIDE DEF cut
<1>7. PICK lo2, hi2 : BoundsCut(lo, hi, lo2, hi2, a, b, cut)
  BY <1>5, <1>6, BoundsCanBeCut
<1> DEFINE seen2 == Seen(hi2, a, b)
<1>8. \A y \in Addresses \ {b} : seen2[y] = hi[y]
  BY <1>5, <1>7, CutAsSeen
<1>9. /\ lo2[b] = cut /\ hi2[b] = hi[a] /\ hi2[a] = cut /\ lo2[a] = lo[a]
      /\ \A x \in Addresses \ {b} : lo2[x] = lo[x]
  BY <1>5, <1>7 DEF BoundsCut
<1>10. ASSUME NEW x \in Alloc(h) \ {a} PROVE Contents(g, lo2, hi2, seen2, x)
  <2>1. SameAround(h, g, lo, hi, seen, lo2, hi2, seen2, x)
    BY <1>1, <1>2, <1>7, CutAround
  <2>2. Contents(h, lo, hi, seen, x)
    BY <1>3 DEF Ordered
  <2> HIDE DEF seen2
  <2> QED BY <2>1, <2>2, SameContents
<1> HIDE DEF seen2
<1>11. /\ \A i \in 1..Len(g[a].kids) : g[a].kids[i] \in Addresses \ {b}
       /\ \A i \in 1..Len(g[b].kids) : g[b].kids[i] \in Addresses \ {b}
  <2>1. \A y \in Elements(kids) : y \in Addresses \ {b}
    <3>1. /\ h[a].kids \in Seq(Addresses) /\ slot \in 1..Len(h[a].kids) /\ r \in Addresses
          /\ NoTwice(h[a].kids) /\ r \notin Elements(h[a].kids)
      BY <1>1, <1>2, NodeInHeap DEF Distinct, Graft, Owned, Children
    <3>2. Elements(kids) = Elements(h[a].kids) \cup {r}
      BY <3>1, JoinedChildren DEF kids
    <3>3. Elements(h[a].kids) \subseteq Alloc(h) /\ r \in Alloc(h)
      BY <1>1, NodeInHeap DEF Graft, Children
    <3> QED BY <3>2, <3>3, <1>1 DEF Alloc
  <2>2. /\ mid \in 1..Len(keys) - 1 /\ Len(keys) \in Nat /\ Len(kids) = Len(keys) + 1
        /\ g[a].kids = SubSeq(kids, 1, mid + 1)
        /\ g[b].kids = SubSeq(kids, mid + 2, Len(kids))
    BY <1>1, <1>4, KeyList DEF PartedAt, RightKids
  <2>3. /\ 1 \in 1..Len(kids) + 1 /\ mid + 1 \in 1 - 1..Len(kids)
        /\ mid + 2 \in 1..Len(kids) + 1 /\ Len(kids) \in mid + 2 - 1..Len(kids)
    BY ONLY <2>2
  <2>4. kids \in Seq(Addresses)
    BY <1>4
  <2>5. /\ \A i \in 1..Len(g[a].kids) : g[a].kids[i] \in Elements(kids)
        /\ \A i \in 1..Len(g[b].kids) : g[b].kids[i] \in Elements(kids)
    <3> DEFINE low == mid + 1
               high == mid + 2
               n == Len(kids)
    <3>1. /\ 1 \in 1..Len(kids) + 1 /\ low \in 1 - 1..Len(kids)
          /\ high \in 1..Len(kids) + 1 /\ n \in high - 1..Len(kids)
      BY <2>3
    <3>2. g[a].kids = SubSeq(kids, 1, low) /\ g[b].kids = SubSeq(kids, high, n)
      BY <2>2
    <3> HIDE DEF low, high, n
    <3>3. \A i \in 1..Len(SubSeq(kids, 1, low)) : SubSeq(kids, 1, low)[i] \in Elements(kids)
      BY <3>1, <2>4, PartOfElements
    <3>4. \A i \in 1..Len(SubSeq(kids, high, n)) :
            SubSeq(kids, high, n)[i] \in Elements(kids)
      BY <3>1, <2>4, PartOfElements
    <3> QED BY <3>2, <3>3, <3>4
  <2> QED BY <2>1, <2>5
<1>12. Contents(g, lo2, hi2, seen2, a)
  <2>1. \A i \in 1..Len(g[a].kids) : /\ lo2[g[a].kids[i]] = lo[g[a].kids[i]]
                                    /\ seen2[g[a].kids[i]] = hi[g[a].kids[i]]
    BY <1>8, <1>9, <1>11
  <2>2. Divided(g[a].keys, g[a].kids, lo2, seen2, lo[a], cut)
    BY <2>1, <1>6 DEF Divided
  <2> QED BY <2>2, <1>1, <1>9 DEF Contents
<1>13. Contents(g, lo2, hi2, seen2, b)
  <2>1. \A i \in 1..Len(g[b].kids) : /\ lo2[g[b].kids[i]] = lo[g[b].kids[i]]
                                    /\ seen2[g[b].kids[i]] = hi[g[b].kids[i]]
    BY <1>8, <1>9, <1>11
  <2>2. Divided(g[b].keys, g[b].kids, lo2, seen2, cut, hi[a])
    BY <2>1, <1>6 DEF Divided
  <2> QED BY <2>2, <1>1, <1>9 DEF Contents
<1>14. Ordered(g, lo2, hi2, seen2)
  BY <1>1, <1>10, <1>12, <1>13 DEF Ordered
<1>15. Parted(lo2, hi2, a, cut, b)
  BY <1>6, <1>9 DEF Parted
<1> QED BY <1>7, <1>14, <1>15 DEF seen2, cut, keys

(* The root gets a new one above it.                                       *)
LEMMA CrowningKeepsOrder ==
  ASSUME NEW h, NEW level, NEW rank, Shape(h, level), Chained(h, rank), NEW g,
         NEW top, NEW b, NEW r, NEW key, Crowns(h, g, top, b, r, key),
         NEW lo \in Bounds, NEW hi \in Bounds,
         Ordered(h, lo, hi, Seen(hi, top, r)), Unbounded(lo, Seen(hi, top, r), top),
         Parted(lo, hi, top, key, r)
  PROVE  \E lo2 \in Bounds, hi2 \in Bounds : Ordered(g, lo2, hi2, hi2) /\ Unbounded(lo2, hi2, b)
<1> DEFINE seen == Seen(hi, top, r)
           lo2 == [lo EXCEPT ![b] = 0]
           hi2 == [hi EXCEPT ![b] = 0]
<1>1. /\ top \in Alloc(h) /\ r \in Alloc(h) /\ b \in Addresses \ Alloc(h)
      /\ ~Owned(h, top) /\ key \in Nat /\ Alloc(g) = Alloc(h) \cup {b}
      /\ ~g[b].leaf /\ g[b].keys = <<key>> /\ g[b].kids = <<top, r>>
      /\ \A x \in Alloc(h) : g[x] = h[x]
  BY TreeAssumption DEF Crowns, SameBut, Alloc
<1>2. top \in Addresses \ {b} /\ r \in Addresses \ {b}
  BY <1>1 DEF Alloc
<1>3. seen[top] = hi[r] /\ \A y \in Addresses \ {top} : seen[y] = hi[y]
  BY <1>2, SeenBounds
<1>4. /\ Ordered(h, lo, hi, seen) /\ lo[top] = 0 /\ seen[top] = 0
      /\ lo[top] < key /\ lo[r] = key /\ hi[top] = key
  BY DEF Unbounded, Parted
<1> HIDE DEF seen
<1>5. /\ lo2 \in Bounds /\ hi2 \in Bounds /\ lo2[b] = 0 /\ hi2[b] = 0
      /\ \A x \in Addresses \ {b} : lo2[x] = lo[x] /\ hi2[x] = hi[x]
  BY <1>1 DEF Bounds
<1> HIDE DEF lo2, hi2
<1>6. ASSUME NEW x \in Alloc(h) PROVE Contents(g, lo2, hi2, hi2, x)
  <2>1. x \in Addresses \ {b} /\ g[x] = h[x]
    BY <1>1 DEF Alloc
  <2>2. ASSUME NEW y \in Children(h[x])
        PROVE  lo2[y] = lo[y] /\ hi2[y] = seen[y]
    <3>1. y \in Addresses \ {b} /\ y # top
      BY <1>1, NodeInHeap DEF Owned, Alloc
    <3> QED BY <3>1, <1>3, <1>5
  <2>3. h[x].next # Null => h[x].next \in Addresses \ {b}
    BY <1>1, NextOnChain DEF Leaves, Alloc
  <2>4. SameAround(h, g, lo, hi, seen, lo2, hi2, hi2, x)
    BY <2>1, <2>2, <2>3, <1>5 DEF SameAround
  <2>5. Contents(h, lo, hi, seen, x)
    BY <1>4 DEF Ordered
  <2> QED BY <2>4, <2>5, SameContents
<1>7. Contents(g, lo2, hi2, hi2, b)
  <2> DEFINE keys == <<key>>
             kids == <<top, r>>
  <2>1. Len(keys) = 1 /\ keys[1] = key /\ Len(kids) = 2 /\ kids[1] = top /\ kids[2] = r
    OBVIOUS
  <2> HIDE DEF keys, kids
  <2>2. /\ lo2[top] = 0 /\ hi2[top] = key /\ lo2[r] = key /\ hi2[r] = 0
        /\ 0 < key
    BY <1>1, <1>2, <1>3, <1>4, <1>5
  <2>3. Divided(keys, kids, lo2, hi2, 0, 0)
    BY <2>1, <2>2 DEF Divided, Ascending, Under
  <2> QED BY <2>3, <1>1, <1>5 DEF Contents, keys, kids
<1>8. Ordered(g, lo2, hi2, hi2)
  BY <1>1, <1>6, <1>7 DEF Ordered
<1> QED BY <1>5, <1>8 DEF Unbounded

(***************************************************************************)
(* The inductive invariant: as long as no split was left unlinked, the     *)
(* nodes are in order, an insertion on its way down is at a node within    *)
(* whose bounds its key is, and one on its way up brings a node that takes *)
(* the upper part of the bounds of the node its trail leads to.            *)
(***************************************************************************)
Target(h, top, s) == IF s = <<>> THEN top ELSE h[Last(s).node].kids[Last(s).slot]
Path(h, s) == \A i \in 1..Len(s) - 1 : h[s[i].node].kids[s[i].slot] = s[i + 1].node

Settles(h, top) == \E lo, hi \in Bounds :
  /\ Ordered(h, lo, hi, hi)
  /\ top # Null => Unbounded(lo, hi, top)

LeadsDown(h, top, s, a, k) ==
  /\ Path(h, s) /\ a = Target(h, top, s)
  /\ \E lo, hi \in Bounds :
       Ordered(h, lo, hi, hi) /\ Unbounded(lo, hi, top) /\ Within(lo, hi, a, k)

ComesUp(h, top, s, x, key, r) ==
  /\ Path(h, s) /\ x = Target(h, top, s)
  /\ \E lo, hi \in Bounds :
       /\ Ordered(h, lo, hi, Seen(hi, x, r)) /\ Unbounded(lo, Seen(hi, x, r), top)
       /\ Parted(lo, hi, x, key, r)

OrderInv ==
  /\ ChainInv
  /\ pc = "idle" => arg = NoArg
  /\ sinceCut = 0 =>
       /\ pc = "idle" => Settles(heap, root)
       /\ pc = "down" => LeadsDown(heap, root, trail, at, arg.key)
       /\ pc = "up"   => ComesUp(heap, root, trail, Target(heap, root, trail),
                                 split.key, split.right)

LEMMA PathStays ==
  ASSUME NEW s \in Seq(Steps), NEW h, NEW g, SameOnTrail(g, h, s), Path(h, s), NEW top
  PROVE  Path(g, s) /\ Target(g, top, s) = Target(h, top, s)
<1>1. Len(s) \in Nat /\ \A i \in 1..Len(s) - 1 : i \in 1..Len(s)
  BY LenProperties
<1>2. Path(g, s)
  BY <1>1 DEF Path, SameOnTrail
<1>3. ASSUME s # <<>> PROVE Last(s) = s[Len(s)] /\ Len(s) \in 1..Len(s)
  <2>1. Len(s) \in Nat \ {0} /\ Last(s) = s[Len(s)]
    BY <1>3, LastElement
  <2> QED BY <2>1
<1> QED BY <1>2, <1>3 DEF Target, SameOnTrail

LEMMA PathFront ==
  ASSUME NEW h, NEW level, NEW top, NEW s, Trail(h, level, top, s), s # <<>>, Path(h, s),
         level \in Levels, top \in Addresses
  PROVE  /\ Front(s) \in Seq(Steps) /\ Path(h, Front(s))
         /\ Target(h, top, Front(s)) = Last(s).node
         /\ \A i \in 1..Len(Front(s)) : Front(s)[i].node \in Alloc(h) \ {Last(s).node}
<1> DEFINE n == Len(s)
           t == Front(s)
<1>1. /\ s \in Seq(Steps) /\ n \in Nat \ {0} /\ Last(s) = s[n]
      /\ t \in Seq(Steps) /\ Len(t) = n - 1 /\ \A i \in 1..n - 1 : t[i] = s[i]
  BY LastElement DEF Trail
<1>2. /\ \A i \in 1..n : /\ s[i].node \in Alloc(h) /\ s[i].node \in Addresses
                         /\ level[s[i].node] + i = level[top] + 1
      /\ s[1].node = top
  BY DEF Trail, Passed, Alloc
<1>3. \A i \in 1..n - 1 : h[s[i].node].kids[s[i].slot] = s[i + 1].node
  BY DEF Path
<1> HIDE DEF n, t
<1>4. Path(h, t)
  <2>1. ASSUME NEW i \in 1..Len(t) - 1 PROVE h[t[i].node].kids[t[i].slot] = t[i + 1].node
    <3>1. i \in 1..n - 1 /\ i + 1 \in 1..n - 1
      BY <1>1
    <3> QED BY <3>1, <1>1, <1>3
  <2> QED BY <2>1 DEF Path
<1>5. Target(h, top, t) = s[n].node
  <2>1. CASE t = <<>>
    <3>1. Len(t) = 0
      BY <2>1, EmptySeq
    <3>2. n = 1
      BY <3>1, <1>1
    <3> QED BY <2>1, <3>2, <1>2 DEF Target
  <2>2. CASE t # <<>>
    <3>1. Len(t) \in Nat \ {0} /\ Last(t) = t[Len(t)]
      BY <2>2, <1>1, LastElement
    <3>2. n - 1 \in 1..n - 1 /\ n - 1 + 1 = n /\ Last(t) = s[n - 1]
      BY <3>1, <1>1
    <3>3. h[s[n - 1].node].kids[s[n - 1].slot] = s[n - 1 + 1].node
      BY <3>2, <1>3
    <3> QED BY <2>2, <3>2, <3>3 DEF Target
  <2> QED BY <2>1, <2>2
<1>6. ASSUME NEW i \in 1..Len(t) PROVE t[i].node \in Alloc(h) \ {s[n].node}
  <2>1. i \in 1..n /\ n \in 1..n /\ i # n /\ t[i] = s[i] /\ i \in Nat /\ n \in Nat
    BY <1>1
  <2>2. /\ level[s[i].node] + i = level[top] + 1 /\ level[s[n].node] + n = level[top] + 1
        /\ level[s[n].node] \in Nat
    BY <2>1, <1>2 DEF Levels
  <2>3. \A p, k, m \in Nat : p + k = p + m => k = m
    OBVIOUS
  <2>4. s[i].node # s[n].node
    BY <2>1, <2>2, <2>3
  <2> QED BY <2>1, <2>4, <1>2
<1> QED BY <1>1, <1>4, <1>5, <1>6 DEF n, t

LEMMA DescentLeadsOn ==
  ASSUME NEW h, NEW level, Shape(h, level), NEW top, NEW s, Trail(h, level, top, s),
         NEW a \in Alloc(h), ~h[a].leaf, NEW k \in Nat, LeadsDown(h, top, s, a, k)
  PROVE  LET slot == ChildSlot(h[a], k)
         IN  LeadsDown(h, top, Append(s, [node |-> a, slot |-> slot]), h[a].kids[slot], k)
<1> DEFINE slot == ChildSlot(h[a], k)
           step == [node |-> a, slot |-> slot]
           t == Append(s, step)
<1>1. PICK lo \in Bounds : \E hi \in Bounds :
        Ordered(h, lo, hi, hi) /\ Unbounded(lo, hi, top) /\ Within(lo, hi, a, k)
  BY DEF LeadsDown
<1>2. PICK hi \in Bounds :
        Ordered(h, lo, hi, hi) /\ Unbounded(lo, hi, top) /\ Within(lo, hi, a, k)
  BY <1>1
<1>3. /\ a \in Addresses /\ h[a].keys \in Seq(Nat) /\ Len(h[a].kids) = Len(h[a].keys) + 1
  BY NodeInHeap, NodeFields DEF WellFormed
<1>4. /\ Divided(h[a].keys, h[a].kids, lo, hi, lo[a], hi[a])
      /\ lo[a] \in Nat /\ hi[a] \in Nat /\ lo[a] <= k /\ Under(k, hi[a])
  BY <1>2, <1>3 DEF Ordered, Contents, Bounds, Within
<1>5. slot \in 1..Len(h[a].kids) /\ Within(lo, hi, h[a].kids[slot], k)
  BY <1>3, <1>4, ChildIsWithin
<1>6. Len(h[a].kids) \in Nat
  BY NodeInHeap
<1> HIDE DEF slot
<1>7. step \in Steps /\ s \in Seq(Steps) /\ Path(h, s) /\ a = Target(h, top, s)
  BY <1>3, <1>5, <1>6 DEF Steps, Trail, LeadsDown
<1>8. /\ t \in Seq(Steps) /\ Len(t) = Len(s) + 1 /\ t[Len(s) + 1] = step
      /\ \A i \in 1..Len(s) : t[i] = s[i]
  BY <1>7, AppendProperties, LenProperties
<1>9. t # <<>> /\ Len(s) \in Nat
  <2>1. Len(s) \in Nat /\ Len(t) # 0
    BY <1>7, <1>8, LenProperties
  <2> QED BY <2>1, EmptySeq
<1>10. step.node = a /\ step.slot = slot
  OBVIOUS
<1> HIDE DEF t, step
<1>11. Target(h, top, t) = h[a].kids[slot]
  <2>1. Last(t) = step
    BY <1>8, <1>9, LastElement
  <2> QED BY <2>1, <1>9, <1>10 DEF Target
<1>12. Path(h, t)
  <2>1. ASSUME NEW i \in 1..Len(t) - 1 PROVE h[t[i].node].kids[t[i].slot] = t[i + 1].node
    <3>1. i \in 1..Len(s) /\ t[i] = s[i]
      BY <1>8, <1>9
    <3>2. CASE i = Len(s)
      <4>1. s # <<>> /\ Last(s) = s[i]
        <5>1. Len(s) # 0
          BY <3>1, <3>2, <1>9
        <5>2. s # <<>>
          BY <5>1, EmptySeq
        <5>3. Last(s) = s[Len(s)]
          BY <5>2, <1>7, LastElement
        <5> QED BY <5>2, <5>3, <3>2
      <4>2. h[s[i].node].kids[s[i].slot] = a
        BY <4>1, <1>7 DEF Target
      <4> QED BY <4>2, <3>1, <3>2, <1>8, <1>10
    <3>3. CASE i # Len(s)
      <4>1. i \in 1..Len(s) - 1 /\ i + 1 \in 1..Len(s)
        BY <3>1, <3>3, <1>9
      <4>2. h[s[i].node].kids[s[i].slot] = s[i + 1].node
        BY <4>1, <1>7 DEF Path
      <4> QED BY <4>1, <4>2, <3>1, <1>8
    <3> QED BY <3>2, <3>3
  <2> QED BY <2>1 DEF Path
<1> QED BY <1>2, <1>5, <1>11, <1>12 DEF LeadsDown, t, step, slot

LEMMA DescentBegins ==
  ASSUME NEW h, NEW top \in Addresses, Settles(h, top), NEW k \in Nat
  PROVE  LeadsDown(h, top, <<>>, top, k)
<1>1. Path(h, <<>>) /\ top = Target(h, top, <<>>)
  <2>1. Len(<<>>) = 0
    BY EmptySeq
  <2> QED BY <2>1 DEF Path, Target
<1>2. PICK lo, hi \in Bounds : Ordered(h, lo, hi, hi) /\ Unbounded(lo, hi, top)
  BY TreeAssumption DEF Settles
<1>3. Within(lo, hi, top, k)
  BY <1>2 DEF Unbounded, Within, Under
<1> QED BY <1>1, <1>2, <1>3 DEF LeadsDown

LEMMA DescentSettles ==
  ASSUME NEW h, NEW top, NEW s, NEW a, NEW k, LeadsDown(h, top, s, a, k)
  PROVE  Settles(h, top)
  BY DEF LeadsDown, Settles

LEMMA FillingSettles ==
  ASSUME NEW h, NEW level, Shape(h, level), NEW g, NEW top, NEW s, NEW a, NEW e \in Entries,
         Fills(h, g, a, e), ~HasKey(h[a], e.key), LeadsDown(h, top, s, a, e.key)
  PROVE  Settles(g, top)
<1>1. PICK lo, hi \in Bounds :
        Ordered(h, lo, hi, hi) /\ Unbounded(lo, hi, top) /\ Within(lo, hi, a, e.key)
  BY DEF LeadsDown
<1>2. Ordered(g, lo, hi, hi)
  BY <1>1, FillingKeepsOrder
<1> QED BY <1>1, <1>2 DEF Settles

LEMMA PartingComesUp ==
  ASSUME NEW h, NEW level, NEW rank, NEW top \in Alloc(h), Shape(h, level), Chained(h, rank),
         NEW s, Trail(h, level, top, s), NEW g, NEW a, NEW b, NEW e \in Entries, NEW half,
         Parts(h, g, a, b, e, half), ~HasKey(h[a], e.key), LeadsDown(h, top, s, a, e.key)
  PROVE  ComesUp(g, top, s, Target(g, top, s), NewKeys(h[a], e)[half + 1], b)
<1> DEFINE key == NewKeys(h[a], e)[half + 1]
<1>1. PICK lo, hi \in Bounds :
        Ordered(h, lo, hi, hi) /\ Unbounded(lo, hi, top) /\ Within(lo, hi, a, e.key)
  BY DEF LeadsDown
<1>2. \E lo2, hi2 : /\ BoundsCut(lo, hi, lo2, hi2, a, b, key)
                    /\ Ordered(g, lo2, hi2, Seen(hi2, a, b))
                    /\ Parted(lo2, hi2, a, key, b)
  BY <1>1, PartingKeepsOrder
<1> HIDE DEF key
<1>3. PICK lo2, hi2 : /\ BoundsCut(lo, hi, lo2, hi2, a, b, key)
                      /\ Ordered(g, lo2, hi2, Seen(hi2, a, b))
                      /\ Parted(lo2, hi2, a, key, b)
  BY <1>2
<1>4. /\ a \in Alloc(h) /\ b \in Addresses \ Alloc(h) /\ h[a].leaf
      /\ \A x \in Alloc(h) \ {a} : g[x] = h[x]
  BY DEF Parts, SameBut, Alloc
<1>5. Path(g, s) /\ Target(g, top, s) = a
  <2>1. s \in Seq(Steps) /\ SameOnTrail(g, h, s)
    BY <1>4 DEF Trail, Passed, SameOnTrail
  <2>2. Path(h, s) /\ a = Target(h, top, s)
    BY DEF LeadsDown
  <2> QED BY <2>1, <2>2, PathStays
<1>6. Unbounded(lo2, Seen(hi2, a, b), top)
  <2>1. a \in Addresses /\ b \in Addresses /\ a # b /\ top \in Addresses \ {b}
    BY <1>4 DEF Alloc
  <2>2. \A y \in Addresses \ {b} : Seen(hi2, a, b)[y] = hi[y]
    BY <2>1, <1>3, CutAsSeen
  <2> QED BY <2>1, <2>2, <1>1, <1>3 DEF Unbounded, BoundsCut
<1>7. lo2 \in Bounds /\ hi2 \in Bounds
  BY <1>3 DEF BoundsCut
<1> QED BY <1>3, <1>5, <1>6, <1>7 DEF ComesUp, key

LEMMA GraftAtTarget ==
  ASSUME NEW h, NEW level, NEW top \in Alloc(h), Shape(h, level), ~Owned(h, top),
         NEW s, s # <<>>, NEW r, NEW key, Graft(h, Last(s).node, Last(s).slot, r, key),
         ComesUp(h, top, s, Target(h, top, s), key, r)
  PROVE  LET x == h[Last(s).node].kids[Last(s).slot]
         IN  \E lo, hi \in Bounds : /\ Ordered(h, lo, hi, Seen(hi, x, r))
                                    /\ Unbounded(lo, hi, top) /\ Parted(lo, hi, x, key, r)
<1> DEFINE a == Last(s).node
           slot == Last(s).slot
           x == h[a].kids[slot]
<1>1. Target(h, top, s) = x
  BY DEF Target
<1>2. PICK lo, hi \in Bounds :
        /\ Ordered(h, lo, hi, Seen(hi, x, r)) /\ Unbounded(lo, Seen(hi, x, r), top)
        /\ Parted(lo, hi, x, key, r)
  BY <1>1 DEF ComesUp
<1>3. a \in Alloc(h) /\ x \in Children(h[a]) /\ r \in Addresses
  BY <1>2, GraftDivides DEF Graft
<1>4. x # top /\ top \in Addresses /\ x \in Addresses
  BY <1>3, NodeInHeap DEF Owned, Alloc
<1> HIDE DEF x
<1>5. Seen(hi, x, r)[top] = hi[top]
  <2>1. \A y \in Addresses \ {x} : Seen(hi, x, r)[y] = hi[y]
    BY <1>3, <1>4, SeenBounds
  <2> QED BY <2>1, <1>4
<1>6. \E l, u \in Bounds : /\ Ordered(h, l, u, Seen(u, x, r))
                          /\ Unbounded(l, u, top) /\ Parted(l, u, x, key, r)
  BY <1>2, <1>5 DEF Unbounded
<1> QED BY <1>6 DEF x

LEMMA SpreadingSettles ==
  ASSUME NEW h, NEW level, NEW top \in Alloc(h), Shape(h, level), ~Owned(h, top),
         NEW s, s # <<>>, NEW r, NEW key, Graft(h, Last(s).node, Last(s).slot, r, key),
         ComesUp(h, top, s, Target(h, top, s), key, r),
         NEW g, Spreads(h, g, Last(s).node, Last(s).slot, r, key)
  PROVE  Settles(g, top)
<1> DEFINE a == Last(s).node
           slot == Last(s).slot
           x == h[a].kids[slot]
<1>1. \E lo, hi \in Bounds : /\ Ordered(h, lo, hi, Seen(hi, x, r))
                             /\ Unbounded(lo, hi, top) /\ Parted(lo, hi, x, key, r)
  BY GraftAtTarget
<1>2. PICK lo, hi \in Bounds : /\ Ordered(h, lo, hi, Seen(hi, x, r))
                               /\ Unbounded(lo, hi, top) /\ Parted(lo, hi, x, key, r)
  BY <1>1
<1>3. Ordered(g, lo, hi, hi)
  BY <1>2, SpreadingKeepsOrder
<1> QED BY <1>2, <1>3 DEF Settles

LEMMA SplittingComesUp ==
  ASSUME NEW h, NEW level, NEW rank, NEW top \in Alloc(h),
         Shape(h, level), Chained(h, rank), ~Owned(h, top),
         NEW s, Trail(h, level, top, s), s # <<>>,
         NEW r, NEW key, Graft(h, Last(s).node, Last(s).slot, r, key),
         ComesUp(h, top, s, Target(h, top, s), key, r),
         NEW g, NEW b, NEW mid, Splits(h, g, Last(s).node, b, Last(s).slot, r, key, mid)
  PROVE  LET cut == InsertAt(h[Last(s).node].keys, Last(s).slot, key)[mid + 1]
         IN  ComesUp(g, top, Front(s), Target(g, top, Front(s)), cut, b)
<1> DEFINE a == Last(s).node
           slot == Last(s).slot
           x == h[a].kids[slot]
           t == Front(s)
           cut == InsertAt(h[a].keys, slot, key)[mid + 1]
<1>1. \E lo, hi \in Bounds : /\ Ordered(h, lo, hi, Seen(hi, x, r))
                             /\ Unbounded(lo, hi, top) /\ Parted(lo, hi, x, key, r)
  BY GraftAtTarget
<1>2. PICK lo, hi \in Bounds : /\ Ordered(h, lo, hi, Seen(hi, x, r))
                               /\ Unbounded(lo, hi, top) /\ Parted(lo, hi, x, key, r)
  BY <1>1
<1>3. \E lo2, hi2 : /\ BoundsCut(lo, hi, lo2, hi2, a, b, cut)
                    /\ Ordered(g, lo2, hi2, Seen(hi2, a, b))
                    /\ Parted(lo2, hi2, a, cut, b)
  BY <1>2, SplittingKeepsOrder
<1> HIDE DEF cut
<1>4. PICK lo2, hi2 : /\ BoundsCut(lo, hi, lo2, hi2, a, b, cut)
                      /\ Ordered(g, lo2, hi2, Seen(hi2, a, b))
                      /\ Parted(lo2, hi2, a, cut, b)
  BY <1>3
<1>5. /\ a \in Alloc(h) /\ b \in Addresses \ Alloc(h)
      /\ \A y \in Alloc(h) \ {a} : g[y] = h[y]
  BY DEF Graft, Splits, SameBut, Alloc
<1>6. Path(g, t) /\ Target(g, top, t) = a
  <2>1. level \in Levels /\ top \in Addresses /\ Path(h, s)
    BY DEF Shape, Alloc, ComesUp
  <2>2. /\ t \in Seq(Steps) /\ Path(h, t) /\ Target(h, top, t) = a
        /\ \A i \in 1..Len(t) : t[i].node \in Alloc(h) \ {a}
    BY <2>1, PathFront
  <2> HIDE DEF t, a
  <2>3. SameOnTrail(g, h, t)
    BY <2>2, <1>5 DEF SameOnTrail
  <2> QED BY <2>2, <2>3, PathStays
<1>7. Unbounded(lo2, Seen(hi2, a, b), top)
  <2>1. a \in Addresses /\ b \in Addresses /\ a # b /\ top \in Addresses \ {b}
    BY <1>5 DEF Alloc
  <2> HIDE DEF a
  <2>2. \A y \in Addresses \ {b} : Seen(hi2, a, b)[y] = hi[y]
    BY <2>1, <1>4, CutAsSeen
  <2> QED BY <2>1, <2>2, <1>2, <1>4 DEF Unbounded, BoundsCut
<1>8. lo2 \in Bounds /\ hi2 \in Bounds
  BY <1>4 DEF BoundsCut
<1> HIDE DEF a, t
<1>9. ComesUp(g, top, t, Target(g, top, t), cut, b)
  BY <1>4, <1>6, <1>7, <1>8 DEF ComesUp
<1> QED BY <1>9 DEF cut, a, slot, t

LEMMA CrowningSettles ==
  ASSUME NEW h, NEW level, NEW rank, Shape(h, level), Chained(h, rank),
         NEW top, NEW r, NEW key, ComesUp(h, top, <<>>, Target(h, top, <<>>), key, r),
         NEW g, NEW b, Crowns(h, g, top, b, r, key)
  PROVE  Settles(g, b)
<1>1. Target(h, top, <<>>) = top
  BY DEF Target
<1>2. PICK lo, hi \in Bounds :
        /\ Ordered(h, lo, hi, Seen(hi, top, r)) /\ Unbounded(lo, Seen(hi, top, r), top)
        /\ Parted(lo, hi, top, key, r)
  BY <1>1 DEF ComesUp
<1>3. \E lo2 \in Bounds, hi2 \in Bounds : Ordered(g, lo2, hi2, hi2) /\ Unbounded(lo2, hi2, b)
  BY <1>2, CrowningKeepsOrder
<1> QED BY <1>3 DEF Settles

LEMMA OrderReturned ==
  ASSUME ChainInv', NEW rc, Return(rc), sinceCut' = 0 => Settles(heap', root')
  PROVE  OrderInv'
<1>1. pc' = "idle" /\ arg' = NoArg
  BY DEF Return
<1>2. pc' # "down" /\ pc' # "up"
  BY <1>1
<1> QED BY <1>1, <1>2 DEF OrderInv

LEMMA InitOrder == Init => OrderInv
<1> SUFFICES ASSUME Init PROVE OrderInv
  OBVIOUS
<1>1. ChainInv
  BY InitTree DEF Init, ChainInv
<1>2. Settles(heap, root)
  <2> DEFINE zero == [a \in Addresses |-> 0]
  <2>1. zero \in Bounds /\ Alloc(heap) = {} /\ root = Null
    BY DEF Bounds, Alloc, Init
  <2> HIDE DEF zero
  <2>2. Ordered(heap, zero, zero, zero)
    BY <2>1 DEF Ordered
  <2> QED BY <2>1, <2>2 DEF Settles
<1>3. pc = "idle" /\ arg = NoArg /\ pc # "down" /\ pc # "up"
  BY DEF Init
<1> QED BY <1>1, <1>2, <1>3 DEF OrderInv

(* A lone leaf without keys is in order.                                   *)
LEMMA FreshOrder ==
  ASSUME NEW h, NEW top \in Pointers, \A a \in Addresses \ {top} : h[a] = Free,
         top # Null => h[top] = Leaf(<<>>, <<>>, Null)
  PROVE  Settles(h, top)
<1> DEFINE zero == [a \in Addresses |-> 0]
           first == Leaf(<<>>, <<>>, Null)
<1>1. zero \in Bounds /\ \A a \in Addresses : zero[a] = 0
  BY DEF Bounds
<1>2. first.leaf = TRUE /\ first.keys = <<>> /\ first.next = Null /\ Len(<<>>) = 0
  BY EmptySeq DEF Leaf
<1> HIDE DEF zero, first
<1>3. ASSUME NEW a \in Alloc(h) PROVE Contents(h, zero, zero, zero, a)
  <2>1. a \in Addresses /\ a = top /\ h[a] = first
    BY TreeAssumption DEF Alloc, first
  <2> QED BY <2>1, <1>1, <1>2 DEF Contents, Held, Adjoins, Ascending
<1>4. top # Null => Unbounded(zero, zero, top)
  BY <1>1 DEF Unbounded, Pointers
<1> QED BY <1>1, <1>3, <1>4 DEF Settles, Ordered

LEMMA IndexInitKeepsOrder == ASSUME OrderInv, ChainInv', IndexInit PROVE OrderInv'
<1>1. Settles(heap', root')
  <2>1. root' \in Pointers
    BY DEF ChainInv, TreeInv, Tree, Alloc, Pointers
  <2>2. \A a \in Addresses \ {root'} : heap'[a] = Free
    BY DEF IndexInit
  <2>3. root' # Null => heap'[root'] = Leaf(<<>>, <<>>, Null)
    BY <2>1, TreeAssumption DEF IndexInit, Pointers
  <2> QED BY <2>1, <2>2, <2>3, FreshOrder
<1>2. pc' = "idle" /\ arg' = NoArg /\ pc' # "down" /\ pc' # "up"
  BY DEF IndexInit, OrderInv
<1> QED BY <1>1, <1>2 DEF OrderInv

LEMMA InsertKeepsOrder ==
  ASSUME OrderInv, ChainInv', NEW e \in Entries, Insert(e) PROVE OrderInv'
<1>1. /\ pc = "idle" /\ heap' = heap /\ root' = root /\ (sinceCut' = 0 => sinceCut = 0)
  <2>1. sinceCut \in Nat
    BY DEF OrderInv, ChainInv, TreeInv
  <2> QED BY <2>1 DEF Insert
<1>2. sinceCut' = 0 => Settles(heap, root)
  BY <1>1 DEF OrderInv
<1>3. CASE root = Null
  <2>1. Return(-1)
    BY <1>3 DEF Insert
  <2> QED BY <2>1, <1>1, <1>2, OrderReturned
<1>4. CASE root # Null
  <2>1. /\ pc' = "down" /\ at' = root /\ arg' = e /\ trail' = <<>> /\ root \in Addresses
    BY <1>1, <1>4 DEF Insert, OrderInv, ChainInv, TreeInv, Tree, Alloc
  <2>2. sinceCut' = 0 => LeadsDown(heap, root, <<>>, root, e.key)
    BY <2>1, <1>2, EntryFields, DescentBegins
  <2>3. pc' # "idle" /\ pc' # "up"
    BY <2>1
  <2> QED BY <2>1, <2>2, <2>3, <1>1 DEF OrderInv
<1> QED BY <1>3, <1>4

LEMMA DescendKeepsOrder == ASSUME OrderInv, ChainInv', Descend PROVE OrderInv'
<1>1. /\ pc = "down" /\ ~heap[at].leaf /\ heap' = heap /\ root' = root
      /\ sinceCut' = sinceCut /\ arg' = arg /\ pc' = pc
  BY DEF Descend
<1>2. arg.key \in Nat /\ at \in Alloc(heap)
  BY <1>1, EntryFields DEF OrderInv, ChainInv, TreeInv
<1>3. PICK level : Shape(heap, level) /\ Trail(heap, level, root, trail)
  BY <1>1 DEF OrderInv, ChainInv, TreeInv, Tree, OnTheWay
<1> DEFINE slot == ChildSlot(heap[at], arg.key)
<1>4. trail' = Append(trail, [node |-> at, slot |-> slot]) /\ at' = heap[at].kids[slot]
  BY DEF Descend
<1>5. sinceCut = 0 => LeadsDown(heap, root, Append(trail, [node |-> at, slot |-> slot]),
                                heap[at].kids[slot], arg.key)
  <2> SUFFICES ASSUME sinceCut = 0
               PROVE  LeadsDown(heap, root, Append(trail, [node |-> at, slot |-> slot]),
                                heap[at].kids[slot], arg.key)
    OBVIOUS
  <2>1. LeadsDown(heap, root, trail, at, arg.key)
    BY <1>1 DEF OrderInv
  <2> QED BY <2>1, <1>1, <1>2, <1>3, DescentLeadsOn
<1> HIDE DEF slot
<1>6. pc' = "down" /\ pc' # "idle" /\ pc' # "up"
  BY <1>1
<1> QED BY <1>1, <1>4, <1>5, <1>6 DEF OrderInv

LEMMA DuplicateKeepsOrder == ASSUME OrderInv, ChainInv', Duplicate PROVE OrderInv'
<1>1. /\ pc = "down" /\ heap' = heap /\ root' = root /\ sinceCut' = sinceCut /\ Return(1)
  BY DEF Duplicate
<1>2. sinceCut = 0 => Settles(heap, root)
  BY <1>1, DescentSettles DEF OrderInv
<1> QED BY <1>1, <1>2, OrderReturned

LEMMA PutInLeafKeepsOrder == ASSUME OrderInv, ChainInv', PutInLeaf PROVE OrderInv'
<1>1. /\ pc = "down" /\ root' = root /\ sinceCut' = sinceCut /\ ~HasKey(heap[at], arg.key)
      /\ arg \in Entries /\ TreeInv /\ root \in Alloc(heap)
  BY DEF OrderInv, ChainInv, TreeInv, PutInLeaf
<1>2. PICK level, rank : /\ Shape(heap, level) /\ Chained(heap, rank)
                         /\ Trail(heap, level, root, trail)
  BY <1>1 DEF TreeInv, Tree, OnTheWay
<1>3. sinceCut = 0 => LeadsDown(heap, root, trail, at, arg.key)
  BY <1>1 DEF OrderInv
<1>4. CASE Fills(heap, heap', at, arg) /\ Return(0)
  <2>1. sinceCut' = 0 => Settles(heap', root')
    BY <1>1, <1>2, <1>3, <1>4, FillingSettles
  <2> QED BY <2>1, <1>4, OrderReturned
<1>5. ASSUME NEW b, NEW half, Parts(heap, heap', at, b, arg, half),
             Up(NewKeys(heap[at], arg)[half + 1], b), trail' = trail
      PROVE  OrderInv'
  <2>1. /\ pc' = "up" /\ pc' # "idle" /\ pc' # "down"
        /\ split'.key = NewKeys(heap[at], arg)[half + 1] /\ split'.right = b
    BY <1>5 DEF Up
  <2>2. sinceCut = 0 => ComesUp(heap', root, trail, Target(heap', root, trail),
                                NewKeys(heap[at], arg)[half + 1], b)
    BY <1>1, <1>2, <1>3, <1>5, PartingComesUp
  <2> QED BY <2>1, <2>2, <1>1, <1>5 DEF OrderInv
<1>6. CASE Return(-1) /\ heap' = heap
  <2>1. sinceCut = 0 => Settles(heap, root)
    BY <1>3, DescentSettles
  <2> QED BY <2>1, <1>1, <1>6, OrderReturned
<1> QED BY <1>1, <1>4, <1>5, <1>6, PutInLeafWrites

LEMMA LinkSplitKeepsOrder == ASSUME OrderInv, ChainInv', LinkSplit PROVE OrderInv'
<1>1. /\ pc = "up" /\ trail # <<>> /\ root' = root /\ TreeInv /\ root \in Alloc(heap)
  BY DEF OrderInv, ChainInv, TreeInv, LinkSplit
<1>2. PICK level, rank : /\ Shape(heap, level) /\ Chained(heap, rank) /\ ~Owned(heap, root)
                         /\ Trail(heap, level, root, trail)
  BY <1>1, TreeAssumption DEF TreeInv, Tree, OnTheWay, Alloc
<1>3. sinceCut = 0 => ComesUp(heap, root, trail, Target(heap, root, trail), split.key, split.right)
  BY <1>1 DEF OrderInv
<1> DEFINE a    == Last(trail).node
           slot == Last(trail).slot
           r    == split.right
           key  == split.key
           all  == InsertAt(heap[a].keys, slot, key)
<1>4. /\ Graft(heap, a, slot, r, key)
      /\ \/ Spreads(heap, heap', a, slot, r, key) /\ Return(0) /\ sinceCut' = sinceCut
         \/ \E b, mid : /\ Splits(heap, heap', a, b, slot, r, key, mid) /\ Up(all[mid + 1], b)
                        /\ trail' = Front(trail) /\ sinceCut' = sinceCut
         \/ Return(-1) /\ sinceCut' # 0 /\ heap' = heap
  BY <1>1, LinkSplitWrites
<1>5. CASE Spreads(heap, heap', a, slot, r, key) /\ Return(0) /\ sinceCut' = sinceCut
  <2>1. sinceCut' = 0 => Settles(heap', root')
    BY <1>1, <1>2, <1>3, <1>4, <1>5, SpreadingSettles
  <2> QED BY <2>1, <1>5, OrderReturned
<1>6. ASSUME NEW b, NEW mid, Splits(heap, heap', a, b, slot, r, key, mid),
             Up(all[mid + 1], b), trail' = Front(trail), sinceCut' = sinceCut
      PROVE  OrderInv'
  <2>1. /\ pc' = "up" /\ pc' # "idle" /\ pc' # "down"
        /\ split'.key = all[mid + 1] /\ split'.right = b
    BY <1>6 DEF Up
  <2>2. sinceCut = 0 => ComesUp(heap', root, Front(trail), Target(heap', root, Front(trail)),
                                all[mid + 1], b)
    BY <1>1, <1>2, <1>3, <1>4, <1>6, SplittingComesUp
  <2> HIDE DEF a, slot, r, key, all
  <2> QED BY <2>1, <2>2, <1>1, <1>6 DEF OrderInv
<1>7. CASE Return(-1) /\ sinceCut' # 0 /\ heap' = heap
  BY <1>7, OrderReturned
<1> HIDE DEF a, slot, r, key, all
<1> QED BY <1>4, <1>5, <1>6, <1>7

LEMMA GrowRootKeepsOrder == ASSUME OrderInv, ChainInv', GrowRoot PROVE OrderInv'
<1>1. pc = "up" /\ trail = <<>> /\ TreeInv
  BY DEF OrderInv, ChainInv, GrowRoot
<1>2. PICK level, rank : Shape(heap, level) /\ Chained(heap, rank)
  BY <1>1 DEF TreeInv, Tree
<1>3. sinceCut = 0 => ComesUp(heap, root, <<>>, Target(heap, root, <<>>), split.key, split.right)
  BY <1>1 DEF OrderInv
<1>4. CASE /\ Crowns(heap, heap', root, root', split.right, split.key)
           /\ Return(0) /\ sinceCut' = sinceCut
  <2>1. sinceCut' = 0 => Settles(heap', root')
    BY <1>2, <1>3, <1>4, CrowningSettles
  <2> QED BY <2>1, <1>4, OrderReturned
<1>5. CASE Return(-1) /\ sinceCut' # 0 /\ heap' = heap /\ root' = root
  BY <1>5, OrderReturned
<1> QED BY <1>1, <1>4, <1>5, GrowRootWrites

LEMMA NextKeepsOrder == ASSUME OrderInv, ChainInv', [Next]_vars PROVE OrderInv'
<1>1. CASE UNCHANGED vars
  BY <1>1 DEF vars, OrderInv
<1>2. CASE Next
  BY <1>2, IndexInitKeepsOrder, InsertKeepsOrder, DescendKeepsOrder, DuplicateKeepsOrder,
     PutInLeafKeepsOrder, LinkSplitKeepsOrder, GrowRootKeepsOrder DEF Next
<1> QED BY <1>1, <1>2

LEMMA IndexIsOrdered == Spec => []OrderInv
<1>1. ChainInv' /\ OrderInv /\ [Next]_vars => OrderInv'
  BY NextKeepsOrder
<1> QED BY <1>1, InitOrder, IndexIsChained, PTL DEF Spec

(***************************************************************************)
(* No key in two leaves.  A leaf that is followed by another one is not    *)
(* empty, so the bounds of the linked leaves lie one behind the other.     *)
(***************************************************************************)
Followed(h) == \A a \in Leaves(h) : h[a].next # Null => Len(h[a].keys) # 0

Aligned(h, lo, hi) ==
  \A a \in Leaves(h) : Held(h[a].keys, lo[a], hi[a]) /\ Adjoins(h, lo, hi, a)

LEMMA LeavesAligned ==
  ASSUME NEW h, NEW lo, NEW hi, NEW seen, Ordered(h, lo, hi, seen)
  PROVE  Aligned(h, lo, hi)
  BY DEF Ordered, Contents, Aligned, Leaves

LEMMA FollowedIsFilled ==
  ASSUME TreeInv, sinceCut = 0, root # Null
  PROVE  Followed(heap)
<1>1. PICK level, rank : Tree(heap, root, level, rank) /\ OnTheWay(level)
  BY DEF TreeInv
<1>2. /\ Shape(heap, level) /\ Chained(heap, rank) /\ Filled(heap, root)
      /\ root \in Alloc(heap) /\ level \in Levels
      /\ \A x \in Alloc(heap) : level[x] <= level[root]
  BY <1>1, TreeAssumption DEF Tree, Alloc, Shape
<1> SUFFICES ASSUME NEW a \in Leaves(heap), heap[a].next # Null PROVE Len(heap[a].keys) # 0
  BY DEF Followed
<1>3. /\ a \in Alloc(heap) /\ heap[a].leaf = TRUE
      /\ heap[a].next \in Leaves(heap) /\ rank[heap[a].next] < rank[a]
      /\ rank[a] \in Nat
  BY <1>2, NodeInHeap, NodeFields DEF Leaves, Chained, Linked
<1>4. HalfFull(heap[a]) => Len(heap[a].keys) # 0
  BY <1>3, MaxKeysType DEF HalfFull
<1>5. CASE a # root
  BY <1>2, <1>3, <1>4, <1>5 DEF Filled
<1>6. CASE a = root
  <2>1. \A x \in Alloc(heap) : heap[x].leaf
    <3>1. level[root] = 0
      BY <1>2, <1>3, <1>6, NodeInHeap DEF Placed
    <3>2. ASSUME NEW x \in Alloc(heap), ~heap[x].leaf PROVE FALSE
      <4>1. PICK y \in Children(heap[x]) : TRUE
        BY <1>2, <3>2, KidsOfNode
      <4>2. y \in Alloc(heap) /\ level[y] + 1 = level[x] /\ level[y] \in Nat /\ level[x] \in Nat
        BY <1>2, NodeInHeap DEF Placed
      <4> QED BY <4>2, <3>1, <1>2
    <3> QED BY <3>2
  <2>2. \A x : ~Owned(heap, x)
    BY <2>1, <1>2, KidsOfNode DEF Owned
  <2>3. heap[a].next # root /\ heap[a].next \in Alloc(heap)
    BY <1>3, <1>6 DEF Leaves
  <2>4. pc = "up"
    BY <2>2, <2>3 DEF TreeInv, NoneLost
  <2>5. trail = <<>>
    <3>1. Trail(heap, level, root, trail)
      BY <2>4, <1>1 DEF OnTheWay
    <3>2. CASE trail # <<>>
      <4>1. Len(trail) \in Nat \ {0}
        BY <3>1, <3>2, LastElement DEF Trail
      <4>2. 1 \in 1..Len(trail)
        BY <4>1
      <4> QED BY <4>2, <3>1, <2>1 DEF Trail, Passed
    <3> QED BY <3>2
  <2>6. HalfFull(heap[root])
    BY <2>4, <2>5 DEF TreeInv, Unlinked
  <2> QED BY <2>6, <1>4, <1>6
<1> QED BY <1>5, <1>6

LEMMA BoundsRise ==
  ASSUME NEW h, NEW level, NEW rank, Shape(h, level), Chained(h, rank),
         NEW lo \in Bounds, NEW hi \in Bounds, Aligned(h, lo, hi), Followed(h),
         NEW a \in Leaves(h), h[a].next # Null
  PROVE  /\ h[a].next \in Leaves(h) /\ lo[h[a].next] = hi[a] /\ hi[a] # 0 /\ lo[a] < hi[a]
<1>1. a \in Alloc(h)
  BY DEF Leaves
<1>2. /\ h[a].next \in Leaves(h) /\ h[a].keys \in Seq(Nat)
      /\ lo[a] \in Nat /\ hi[a] \in Nat
  BY <1>1, NextOnChain, NodeInHeap, NodeFields DEF Bounds
<1>3. /\ Held(h[a].keys, lo[a], hi[a]) /\ Adjoins(h, lo, hi, a) /\ Len(h[a].keys) # 0
  BY DEF Aligned, Followed
<1>4. hi[a] # 0 /\ lo[h[a].next] = hi[a]
  BY <1>3 DEF Adjoins
<1>5. 1 \in 1..Len(h[a].keys) /\ h[a].keys[1] \in Nat
  BY <1>2, <1>3, KeyList
<1>6. lo[a] <= h[a].keys[1] /\ h[a].keys[1] < hi[a]
  BY <1>3, <1>4, <1>5 DEF Held, Under
<1> QED BY <1>2, <1>4, <1>5, <1>6

LEMMA BoundsBehind ==
  ASSUME NEW h, NEW level, NEW rank, Shape(h, level), Chained(h, rank),
         NEW lo \in Bounds, NEW hi \in Bounds, Aligned(h, lo, hi), Followed(h),
         NEW f, IsTail(h, f)
  PROVE  \A a \in Leaves(h) : \A c \in f[h[a].next] : hi[a] # 0 /\ hi[a] <= lo[c]
<1> DEFINE S == {a \in Stations(h) : a \in Leaves(h) => \A c \in f[a] : lo[a] <= lo[c]}
<1>1. Null \notin Alloc(h) /\ f[Null] = {} /\ \A a \in Addresses : lo[a] \in Nat /\ hi[a] \in Nat
  BY TailStep, TreeAssumption DEF Alloc, Bounds
<1>2. Null \in S
  BY <1>1 DEF Stations, Leaves
<1>3. ASSUME NEW a \in Alloc(h), h[a].next \in S PROVE a \in S
  <2> SUFFICES ASSUME a \in Leaves(h), NEW c \in f[a] PROVE lo[a] <= lo[c]
    BY DEF Stations
  <2>1. f[a] = {a} \cup f[h[a].next]
    BY <1>1, TailStep
  <2>2. a \in Addresses /\ lo[a] \in Nat /\ hi[a] \in Nat
    BY <1>1 DEF Alloc
  <2>3. CASE c = a
    BY <2>2, <2>3
  <2>4. CASE c # a
    <3>1. c \in f[h[a].next] /\ h[a].next # Null
      BY <2>1, <2>4, <1>1
    <3>2. h[a].next \in Leaves(h) /\ lo[h[a].next] = hi[a] /\ lo[a] < hi[a]
      BY <3>1, BoundsRise
    <3>3. lo[h[a].next] <= lo[c]
      BY <1>3, <3>1, <3>2
    <3>4. c \in Addresses
      <4>1. h[a].next \in Stations(h)
        BY <3>2 DEF Leaves, Stations
      <4>2. f[h[a].next] \subseteq Alloc(h)
        BY <4>1, TailIsAllocated
      <4> QED BY <4>2, <3>1 DEF Alloc
    <3>5. lo[c] \in Nat
      BY <3>4, <1>1
    <3> QED BY <2>2, <3>2, <3>3, <3>5
  <2> QED BY <2>3, <2>4
<1>4. \A a \in Alloc(h) : h[a].next \in S => a \in S
  BY <1>3
<1> HIDE DEF S
<1>5. Stations(h) \subseteq S
  BY <1>2, <1>4, ChainInduction
<1>6. ASSUME NEW a \in Leaves(h), NEW c \in f[h[a].next] PROVE hi[a] # 0 /\ hi[a] <= lo[c]
  <2>1. h[a].next # Null
    BY <1>1
  <2>2. h[a].next \in Leaves(h) /\ lo[h[a].next] = hi[a] /\ hi[a] # 0
    BY <2>1, BoundsRise
  <2>3. h[a].next \in S
    BY <2>2, <1>5 DEF Leaves, Stations
  <2> QED BY <2>2, <2>3 DEF S
<1> QED BY <1>6

(* Of two linked nodes one comes behind the other.                         *)
LEMMA OneIsBehind ==
  ASSUME NEW h, NEW level, NEW rank, Shape(h, level), Chained(h, rank),
         NEW f, IsTail(h, f)
  PROVE  \A a \in Stations(h) : \A x, y \in f[a] :
           x = y \/ x \in f[h[y].next] \/ y \in f[h[x].next]
<1> DEFINE S == {a \in Stations(h) : \A x, y \in f[a] :
                   x = y \/ x \in f[h[y].next] \/ y \in f[h[x].next]}
<1>1. Null \notin Alloc(h) /\ f[Null] = {}
  BY TailStep, TreeAssumption DEF Alloc
<1>2. Null \in S
  BY <1>1 DEF Stations
<1>3. ASSUME NEW a \in Alloc(h), h[a].next \in S PROVE a \in S
  <2>1. f[a] = {a} \cup f[h[a].next]
    BY <1>1, TailStep
  <2> QED BY <2>1, <1>3 DEF Stations
<1>4. \A a \in Alloc(h) : h[a].next \in S => a \in S
  BY <1>3
<1> HIDE DEF S
<1>5. Stations(h) \subseteq S
  BY <1>2, <1>4, ChainInduction
<1> QED BY <1>5 DEF S

LEMMA OneLeafWithin ==
  ASSUME NEW h, NEW top, NEW level, NEW rank, Tree(h, top, level, rank), top # Null,
         ChainOf(h, top) = Leaves(h),
         NEW lo \in Bounds, NEW hi \in Bounds, Aligned(h, lo, hi), Followed(h)
  PROVE  \A x, y \in Leaves(h) : \A k \in Nat :
           Within(lo, hi, x, k) /\ Within(lo, hi, y, k) => x = y
<1> DEFINE f == CHOOSE t : IsTail(h, t)
           first == LeftmostOf(h, top)
<1>1. Shape(h, level) /\ Chained(h, rank)
  BY DEF Tree
<1>2. IsTail(h, f)
  BY <1>1, TailExists
<1>3. f[first] = Leaves(h)
  BY DEF ChainOf
<1>4. first \in Stations(h)
  BY ChainHolds DEF Leaves, Stations
<1> HIDE DEF f, first
<1>5. \A x, y \in Leaves(h) : x = y \/ x \in f[h[y].next] \/ y \in f[h[x].next]
  BY <1>1, <1>2, <1>3, <1>4, OneIsBehind
<1>6. \A a \in Leaves(h) : \A c \in f[h[a].next] : hi[a] # 0 /\ hi[a] <= lo[c]
  BY <1>1, <1>2, BoundsBehind
<1>7. \A a \in Leaves(h) : lo[a] \in Nat /\ hi[a] \in Nat
  BY DEF Leaves, Alloc, Bounds
<1>8. ASSUME NEW x \in Leaves(h), NEW y \in Leaves(h), y \in f[h[x].next], NEW k \in Nat,
             Within(lo, hi, x, k), Within(lo, hi, y, k)
      PROVE  FALSE
  <2>1. /\ hi[x] # 0 /\ hi[x] <= lo[y] /\ lo[y] <= k /\ k < hi[x]
        /\ hi[x] \in Nat /\ lo[y] \in Nat
    BY <1>6, <1>7, <1>8 DEF Within, Under
  <2> QED BY <2>1
<1> QED BY <1>5, <1>8

(***************************************************************************)
(* The entries of the leaves are a map.                                    *)
(***************************************************************************)
LEMMA SlotOfHeldKey ==
  ASSUME NEW n, n.keys \in Seq(Nat), Ascending(n.keys), NEW i \in 1..Len(n.keys)
  PROVE  HasKey(n, n.keys[i]) /\ LeafSlot(n, n.keys[i]) = i
<1> DEFINE keys == n.keys
           k    == keys[i]
           slot == LeafSlot(n, k)
<1>1. Len(keys) \in Nat /\ \A j \in 1..Len(keys) : keys[j] \in Nat
  BY KeyList
<1>2. /\ slot \in 1..Len(keys) + 1
      /\ slot <= Len(keys) => keys[slot] >= k
      /\ \A j \in 1..slot - 1 : keys[j] < k
  BY <1>1, LeafSlotFound
<1>3. \A p, q \in 1..Len(keys) : p < q => keys[p] < keys[q]
  BY DEF Ascending
<1>4. i \in 1..Len(keys) /\ k = keys[i] /\ k \in Nat
  BY <1>1
<1> HIDE DEF slot, k, keys
<1>5. ~(i < slot)
  <2>1. i < slot => i \in 1..slot - 1
    BY <1>1, <1>2, <1>4
  <2> QED BY <2>1, <1>2, <1>4
<1>6. ~(slot < i)
  <2>1. slot < i => slot \in 1..Len(keys) /\ slot <= Len(keys)
    BY <1>1, <1>2, <1>4
  <2> QED BY <2>1, <1>1, <1>2, <1>3, <1>4
<1>7. slot = i
  BY <1>1, <1>2, <1>4, <1>5, <1>6
<1>8. slot <= Len(keys) /\ keys[slot] = k
  BY <1>1, <1>4, <1>7
<1> QED BY <1>7, <1>8 DEF HasKey, slot, k, keys

RefOf(n, k) == n.refs[LeafSlot(n, k)]

LEMMA EntryInLeaf ==
  ASSUME NEW h, NEW level, Shape(h, level),
         NEW lo \in Bounds, NEW hi \in Bounds, Aligned(h, lo, hi), NEW a \in Leaves(h)
  PROVE  /\ \A k \in Nat : HasKey(h[a], k) => Entry(k, RefOf(h[a], k)) \in EntriesAt(h, a)
         /\ \A e \in EntriesAt(h, a) : /\ e.key \in Nat /\ HasKey(h[a], e.key)
                                       /\ e = Entry(e.key, RefOf(h[a], e.key))
                                       /\ Within(lo, hi, a, e.key)
<1> DEFINE n == h[a]
<1>1. a \in Alloc(h) /\ n.keys \in Seq(Nat) /\ Held(n.keys, lo[a], hi[a])
  BY NodeInHeap, NodeFields DEF Leaves, Aligned
<1>2. Len(n.keys) \in Nat /\ \A i \in 1..Len(n.keys) : n.keys[i] \in Nat
  BY <1>1, KeyList
<1>3. ASSUME NEW k \in Nat, HasKey(n, k) PROVE Entry(k, RefOf(n, k)) \in EntriesAt(h, a)
  <2>1. LeafSlot(n, k) \in 1..Len(n.keys) + 1
    BY <1>1, LeafSlotFound
  <2>2. LeafSlot(n, k) \in 1..Len(n.keys) /\ n.keys[LeafSlot(n, k)] = k
    BY <2>1, <1>2, <1>3 DEF HasKey
  <2> QED BY <2>2 DEF EntriesAt, EntrySet, RefOf
<1>4. ASSUME NEW e \in EntriesAt(h, a)
      PROVE  /\ e.key \in Nat /\ HasKey(n, e.key)
             /\ e = Entry(e.key, RefOf(n, e.key)) /\ Within(lo, hi, a, e.key)
  <2>1. PICK i \in 1..Len(n.keys) : e = Entry(n.keys[i], n.refs[i])
    BY DEF EntriesAt, EntrySet
  <2>2. e.key = n.keys[i] /\ e.ref = n.refs[i]
    BY <2>1 DEF Entry
  <2>3. HasKey(n, n.keys[i]) /\ LeafSlot(n, n.keys[i]) = i
    BY <1>1, SlotOfHeldKey DEF Held
  <2>4. Within(lo, hi, a, n.keys[i])
    BY <1>1 DEF Held, Within
  <2> QED BY <2>1, <2>2, <2>3, <2>4, <1>2 DEF RefOf
<1> QED BY <1>3, <1>4

Unambiguous(E) == \A d, e \in E : d.key = e.key => d = e

LEMMA EntriesAreUnambiguous ==
  ASSUME NEW h, NEW top, NEW level, NEW rank, Tree(h, top, level, rank), top # Null,
         ChainOf(h, top) = Leaves(h),
         NEW lo \in Bounds, NEW hi \in Bounds, Aligned(h, lo, hi), Followed(h)
  PROVE  Unambiguous(Gathered(h, Leaves(h)))
<1>1. ASSUME NEW d \in Gathered(h, Leaves(h)), NEW e \in Gathered(h, Leaves(h)), d.key = e.key
      PROVE  d = e
  <2>1. PICK x \in Leaves(h) : d \in EntriesAt(h, x)
    BY DEF Gathered
  <2>2. PICK y \in Leaves(h) : e \in EntriesAt(h, y)
    BY DEF Gathered
  <2>3. Shape(h, level)
    BY DEF Tree
  <2>4. /\ d.key \in Nat /\ d = Entry(d.key, RefOf(h[x], d.key)) /\ Within(lo, hi, x, d.key)
    BY <2>1, <2>3, EntryInLeaf
  <2>5. /\ e = Entry(e.key, RefOf(h[y], e.key)) /\ Within(lo, hi, y, e.key)
    BY <2>2, <2>3, EntryInLeaf
  <2>6. x = y
    BY <2>4, <2>5, <1>1, OneLeafWithin
  <2> QED BY <2>4, <2>5, <2>6, <1>1
<1> QED BY <1>1 DEF Unambiguous

LEMMA MapOfEntries ==
  ASSUME NEW E, Unambiguous(E)
  PROVE  /\ DOMAIN MapOf(E) = {e.key : e \in E}
         /\ \A e \in E : MapOf(E)[e.key] = e.ref
<1>1. ASSUME NEW e \in E PROVE (CHOOSE d \in E : d.key = e.key) = e
  BY DEF Unambiguous
<1> QED BY <1>1 DEF MapOf

(***************************************************************************)
(* The way down ends at the leaf within whose bounds the key is.           *)
(***************************************************************************)
ChildFor(h, k) == [a \in Alloc(h) |-> h[a].kids[ChildSlot(h[a], k)]]

LEMMA ChildForDescends ==
  ASSUME NEW h, NEW level, Shape(h, level), NEW k \in Nat
  PROVE  Descends(Alloc(h), LevelOf(h, level), Leaves(h), ChildFor(h, k))
<1> DEFINE N == Alloc(h)
           down == LevelOf(h, level)
           succ == ChildFor(h, k)
<1>1. down \in [N -> Nat] /\ \A a \in N : down[a] = level[a]
  BY NodeInHeap DEF LevelOf
<1>2. ASSUME NEW a \in N \ Leaves(h) PROVE succ[a] \in N /\ down[succ[a]] < down[a]
  <2>1. h[a].keys \in Seq(Nat) /\ Len(h[a].kids) = Len(h[a].keys) + 1
    BY NodeInHeap, NodeFields DEF Leaves, WellFormed
  <2>2. ChildSlot(h[a], k) \in 1..Len(h[a].kids)
    BY <2>1, ChildSlotFound
  <2>3. h[a].kids[ChildSlot(h[a], k)] \in Children(h[a])
    BY <2>2 DEF Children, Elements
  <2>4. /\ h[a].kids[ChildSlot(h[a], k)] \in N
        /\ level[h[a].kids[ChildSlot(h[a], k)]] + 1 = level[a]
        /\ level[a] \in Nat /\ level[h[a].kids[ChildSlot(h[a], k)]] \in Nat
    BY <2>3, NodeInHeap DEF Placed
  <2> QED BY <2>4, <1>1 DEF ChildFor
<1> QED BY <1>1, <1>2 DEF Descends, Leaves

IsSearch(h, k, f) ==
  f = [a \in Alloc(h) |-> IF h[a].leaf THEN a ELSE f[h[a].kids[ChildSlot(h[a], k)]]]

LEMMA SearchExists ==
  ASSUME NEW h, NEW level, Shape(h, level), NEW k \in Nat
  PROVE  \E f : IsSearch(h, k, f)
<1> DEFINE N == Alloc(h)
           stop == Leaves(h)
           succ == ChildFor(h, k)
           base == [a \in stop |-> a]
           step == [a \in N \ stop |-> [v \in N |-> v]]
<1>1. Descends(N, LevelOf(h, level), stop, succ)
  BY ChildForDescends
<1>2. Stepping(N, N, stop, base, step)
  BY DEF Stepping, Leaves
<1>3. \E f \in [N -> N] : Recurs(f, N, stop, succ, base, step)
  <2> HIDE DEF N, stop, succ, base, step
  <2> QED BY <1>1, <1>2, RecursionExists
<1>4. PICK f \in [N -> N] : \A a \in N :
        f[a] = IF a \in stop THEN base[a] ELSE step[a][f[succ[a]]]
  BY <1>3 DEF Recurs
<1>5. ASSUME NEW a \in N
      PROVE  f[a] = IF h[a].leaf THEN a ELSE f[h[a].kids[ChildSlot(h[a], k)]]
  <2>1. CASE a \in stop
    BY <2>1, <1>4 DEF Leaves
  <2>2. CASE a \notin stop
    <3>1. succ[a] = h[a].kids[ChildSlot(h[a], k)] /\ succ[a] \in N
      BY <2>2, <1>1 DEF ChildFor, Descends
    <3>2. f[succ[a]] \in N
      BY <3>1, <1>4
    <3> QED BY <2>2, <3>1, <3>2, <1>4 DEF Leaves
  <2> QED BY <2>1, <2>2
<1>6. IsSearch(h, k, f)
  BY <1>4, <1>5 DEF IsSearch
<1> QED BY <1>6

LEMMA SearchStaysWithin ==
  ASSUME NEW h, NEW level, Shape(h, level), NEW lo \in Bounds, NEW hi \in Bounds,
         Ordered(h, lo, hi, hi), NEW k \in Nat, NEW f, IsSearch(h, k, f)
  PROVE  \A a \in Alloc(h) : Within(lo, hi, a, k) => f[a] \in Leaves(h) /\ Within(lo, hi, f[a], k)
<1> DEFINE S == {a \in Alloc(h) : Within(lo, hi, a, k) =>
                                    f[a] \in Leaves(h) /\ Within(lo, hi, f[a], k)}
<1>1. ASSUME NEW a \in Alloc(h), a \in Leaves(h) \/ ChildFor(h, k)[a] \in S PROVE a \in S
  <2> SUFFICES ASSUME Within(lo, hi, a, k)
               PROVE  f[a] \in Leaves(h) /\ Within(lo, hi, f[a], k)
    OBVIOUS
  <2>1. f[a] = IF h[a].leaf THEN a ELSE f[h[a].kids[ChildSlot(h[a], k)]]
    BY DEF IsSearch
  <2>2. CASE a \in Leaves(h)
    BY <2>1, <2>2 DEF Leaves
  <2>3. CASE a \notin Leaves(h)
    <3> DEFINE c == h[a].kids[ChildSlot(h[a], k)]
    <3>1. c \in S /\ f[a] = f[c] /\ ~h[a].leaf
      BY <2>1, <2>3, <1>1 DEF ChildFor, Leaves
    <3>2. /\ h[a].keys \in Seq(Nat) /\ Len(h[a].kids) = Len(h[a].keys) + 1
          /\ a \in Addresses
      BY <3>1, NodeInHeap, NodeFields DEF WellFormed
    <3>3. /\ Divided(h[a].keys, h[a].kids, lo, hi, lo[a], hi[a])
          /\ lo[a] \in Nat /\ hi[a] \in Nat /\ lo[a] <= k /\ Under(k, hi[a])
      BY <3>1, <3>2 DEF Ordered, Contents, Bounds, Within
    <3>4. Within(lo, hi, c, k)
      BY <3>2, <3>3, ChildIsWithin
    <3> QED BY <3>1, <3>4
  <2> QED BY <2>2, <2>3
<1>2. PassedOn(Alloc(h), Leaves(h), ChildFor(h, k), S)
  BY <1>1 DEF PassedOn
<1>3. Descends(Alloc(h), LevelOf(h, level), Leaves(h), ChildFor(h, k))
  BY ChildForDescends
<1> HIDE DEF S
<1>4. Alloc(h) \subseteq S
  BY <1>2, <1>3, RecursionEnds
<1> QED BY <1>4 DEF S

(* The leaf within whose bounds a key is tells whether the key is mapped.  *)
LEMMA LeafTells ==
  ASSUME NEW h, NEW top, NEW level, NEW rank, Tree(h, top, level, rank), top # Null,
         ChainOf(h, top) = Leaves(h),
         NEW lo \in Bounds, NEW hi \in Bounds, Aligned(h, lo, hi), Followed(h),
         NEW k \in Nat, NEW a \in Leaves(h), Within(lo, hi, a, k)
  PROVE  LET map == MapOf(Gathered(h, Leaves(h)))
         IN  /\ k \in DOMAIN map <=> HasKey(h[a], k)
             /\ HasKey(h[a], k) => map[k] = RefOf(h[a], k)
<1> DEFINE E == Gathered(h, Leaves(h))
<1>1. Shape(h, level)
  BY DEF Tree
<1>2. Unambiguous(E)
  BY EntriesAreUnambiguous
<1> HIDE DEF E
<1>3. /\ DOMAIN MapOf(E) = {e.key : e \in E}
      /\ \A e \in E : MapOf(E)[e.key] = e.ref
  BY <1>2, MapOfEntries
<1>4. ASSUME HasKey(h[a], k) PROVE k \in DOMAIN MapOf(E) /\ MapOf(E)[k] = RefOf(h[a], k)
  <2> DEFINE e == Entry(k, RefOf(h[a], k))
  <2>1. e \in E
    BY <1>1, <1>4, EntryInLeaf DEF E, Gathered
  <2>2. e.key = k /\ e.ref = RefOf(h[a], k)
    BY DEF Entry
  <2> HIDE DEF e
  <2> QED BY <2>1, <2>2, <1>3
<1>5. ASSUME k \in DOMAIN MapOf(E) PROVE HasKey(h[a], k)
  <2>1. PICK e \in E : e.key = k
    BY <1>3, <1>5
  <2>2. PICK x \in Leaves(h) : e \in EntriesAt(h, x)
    BY DEF E, Gathered
  <2>3. HasKey(h[x], k) /\ Within(lo, hi, x, k)
    BY <2>1, <2>2, <1>1, EntryInLeaf
  <2>4. x = a
    BY <2>3, OneLeafWithin
  <2> QED BY <2>3, <2>4
<1> QED BY <1>4, <1>5 DEF E

LEMMA ChainIsGathered ==
  ASSUME ChainInv, root # Null
  PROVE  OnChain = Gathered(heap, Leaves(heap))
<1>1. OnChain = ToSet(ListFrom(heap, LeftmostOf(heap, root)))
  BY DEF OnChain, EntriesFrom, LeftmostLeaf, ListFrom, LeftmostOf, IsList, IsFirst,
         Stations, Alloc, Allocated
<1>2. PICK level, rank : Tree(heap, root, level, rank)
  BY DEF ChainInv, TreeInv
<1> QED BY <1>1, <1>2, ChainOfEntries DEF ChainInv

(***************************************************************************)
(* Once an insertion has returned, and as long as no split was left        *)
(* unlinked, a search from the root (bpt_find) finds exactly the keys the  *)
(* linked leaves hold, with their references.                              *)
(***************************************************************************)
THEOREM SearchAgreesWithChain == Spec => []FindAgreesWithChain
<1>1. OrderInv => FindAgreesWithChain
  <2> SUFFICES ASSUME OrderInv, Whole, NEW k \in Keys
               PROVE  Find(k) = IF k \in DOMAIN ChainMap THEN ChainMap[k] ELSE Null
    BY DEF FindAgreesWithChain
  <2>1. /\ ChainInv /\ TreeInv /\ root # Null /\ sinceCut = 0 /\ Settles(heap, root)
        /\ ChainOf(heap, root) = Leaves(heap) /\ k \in Nat
    BY TreeAssumption DEF OrderInv, ChainInv, Whole, Settled
  <2>2. PICK level, rank : Tree(heap, root, level, rank)
    BY <2>1 DEF TreeInv
  <2>3. Shape(heap, level) /\ root \in Alloc(heap) /\ Followed(heap)
    BY <2>1, <2>2, FollowedIsFilled DEF Tree
  <2>4. PICK lo, hi \in Bounds : Ordered(heap, lo, hi, hi) /\ Unbounded(lo, hi, root)
    BY <2>1 DEF Settles
  <2> DEFINE f == CHOOSE s : IsSearch(heap, k, s)
             a == f[root]
  <2>5. LeafFor(k) = a
    BY DEF LeafFor, IsSearch, Allocated, Alloc
  <2>6. a \in Leaves(heap) /\ Within(lo, hi, a, k)
    <3>1. IsSearch(heap, k, f)
      BY <2>1, <2>3, SearchExists
    <3>2. Within(lo, hi, root, k)
      BY <2>1, <2>4 DEF Unbounded, Within, Under
    <3> HIDE DEF f
    <3> QED BY <3>1, <3>2, <2>1, <2>3, <2>4, SearchStaysWithin
  <2> HIDE DEF f, a
  <2>7. ChainMap = MapOf(Gathered(heap, Leaves(heap)))
    BY <2>1, ChainIsGathered DEF ChainMap
  <2>8. Aligned(heap, lo, hi)
    BY <2>4, LeavesAligned
  <2>9. /\ k \in DOMAIN ChainMap <=> HasKey(heap[a], k)
        /\ HasKey(heap[a], k) => ChainMap[k] = RefOf(heap[a], k)
    BY <2>1, <2>2, <2>3, <2>6, <2>7, <2>8, LeafTells
  <2> QED BY <2>5, <2>9 DEF Find, RefOf
<1> QED BY <1>1, IndexIsOrdered, PTL

(***************************************************************************)
(* Insertion into the tree is insertion into that map.                     *)
(***************************************************************************)
MapAt(h, top) == IF top = Null THEN Null ELSE MapOf(Gathered(h, Leaves(h)))

LEMMA ChainMapIsMapAt == ChainInv => ChainMap = MapAt(heap, root)
  BY ChainIsGathered DEF ChainMap, MapAt

LEMMA NextMapIsMapAt == ChainInv' => ChainMap' = MapAt(heap', root')
<1> SUFFICES ASSUME ChainInv', root' # Null PROVE OnChain' = Gathered(heap', Leaves(heap'))
  BY DEF ChainMap, MapAt
<1>1. OnChain' = ToSet(ListFrom(heap', LeftmostOf(heap', root')))
  BY DEF OnChain, EntriesFrom, LeftmostLeaf, ListFrom, LeftmostOf, IsList, IsFirst,
         Stations, Alloc, Allocated
<1>2. PICK level, rank : Tree(heap', root', level, rank)
  BY DEF ChainInv, TreeInv
<1> QED BY <1>1, <1>2, ChainOfEntries DEF ChainInv

(* The null pointer is not a map.                                          *)
NullIsNoMap == \A S \in SUBSET Keys : Null \notin [S -> Refs]

LEMMA EntriesAreTyped ==
  ASSUME NEW h, NEW level, Shape(h, level)
  PROVE  \A e \in Gathered(h, Leaves(h)) : e.key \in Keys /\ e.ref \in Refs
<1> SUFFICES ASSUME NEW a \in Leaves(h), NEW e \in EntriesAt(h, a)
             PROVE  e.key \in Keys /\ e.ref \in Refs
  BY DEF Gathered
<1>1. /\ h[a].keys \in Seq(Keys) /\ h[a].refs \in Seq(Refs)
      /\ Len(h[a].refs) = Len(h[a].keys)
  BY NodeInHeap, NodeFields DEF Leaves, WellFormed
<1>2. PICK i \in 1..Len(h[a].keys) : e = Entry(h[a].keys[i], h[a].refs[i])
  BY DEF EntriesAt, EntrySet
<1>3. h[a].keys[i] \in Keys /\ h[a].refs[i] \in Refs
  BY <1>1, <1>2, ElementOfSeq
<1> QED BY <1>2, <1>3 DEF Entry

LEMMA MapIsNotNull ==
  ASSUME NullIsNoMap, NEW h, NEW level, Shape(h, level), NEW top, top # Null
  PROVE  MapAt(h, top) # Null
<1> DEFINE E == Gathered(h, Leaves(h))
           S == {e.key : e \in E}
<1>1. \A e \in E : e.key \in Keys /\ e.ref \in Refs
  BY EntriesAreTyped
<1> HIDE DEF E
<1>2. S \in SUBSET Keys
  BY <1>1
<1>3. \A k \in S : (CHOOSE e \in E : e.key = k) \in E
  OBVIOUS
<1>4. MapOf(E) \in [S -> Refs]
  BY <1>1, <1>3 DEF MapOf
<1>5. MapOf(E) # Null
  BY <1>2, <1>4 DEF NullIsNoMap
<1> QED BY <1>5 DEF MapAt, E

With(map, k, r) == [x \in DOMAIN map \cup {k} |-> IF x = k THEN r ELSE map[x]]

LEMMA MapGains ==
  ASSUME NEW E, NEW F, NEW k, NEW r, Unambiguous(E), k \notin DOMAIN MapOf(E),
         F = E \cup {Entry(k, r)}
  PROVE  MapOf(F) = With(MapOf(E), k, r)
<1>1. /\ DOMAIN MapOf(E) = {e.key : e \in E}
      /\ \A e \in E : MapOf(E)[e.key] = e.ref
  BY MapOfEntries
<1>2. Entry(k, r).key = k /\ Entry(k, r).ref = r
  BY DEF Entry
<1>3. \A e \in E : e.key # k
  BY <1>1
<1>4. Unambiguous(F)
  BY <1>2, <1>3 DEF Unambiguous
<1>5. /\ DOMAIN MapOf(F) = {e.key : e \in F}
      /\ \A e \in F : MapOf(F)[e.key] = e.ref
  BY <1>4, MapOfEntries
<1>6. DOMAIN MapOf(F) = DOMAIN MapOf(E) \cup {k}
  BY <1>1, <1>2, <1>5
<1>7. MapOf(F)[k] = r
  BY <1>2, <1>5
<1>8. \A x \in DOMAIN MapOf(E) : MapOf(F)[x] = MapOf(E)[x]
  BY ZenonT(30), <1>1, <1>5
<1>9. MapOf(F) = [x \in DOMAIN MapOf(F) |-> MapOf(F)[x]]
  BY DEF MapOf
<1> QED BY <1>6, <1>7, <1>8, <1>9 DEF With

(* What an insertion knows at the leaf it came to.                         *)
LEMMA LeafReached ==
  ASSUME OrderInv, sinceCut = 0, pc = "down", heap[at].leaf
  PROVE  LET map == MapAt(heap, root)
         IN  /\ arg.key \in DOMAIN map <=> HasKey(heap[at], arg.key)
             /\ Unambiguous(Gathered(heap, Leaves(heap)))
<1>1. /\ ChainInv /\ TreeInv /\ root # Null /\ at \in Leaves(heap)
      /\ ChainOf(heap, root) = Leaves(heap) /\ arg.key \in Nat
      /\ LeadsDown(heap, root, trail, at, arg.key)
  BY EntryFields, TreeAssumption DEF OrderInv, ChainInv, TreeInv, Leaves, Alloc
<1>2. PICK level, rank : Tree(heap, root, level, rank)
  BY <1>1 DEF TreeInv
<1>3. Followed(heap)
  BY <1>1, FollowedIsFilled
<1>4. PICK lo, hi \in Bounds : Ordered(heap, lo, hi, hi) /\ Within(lo, hi, at, arg.key)
  BY <1>1 DEF LeadsDown
<1>5. Aligned(heap, lo, hi)
  BY <1>4, LeavesAligned
<1>6. Unambiguous(Gathered(heap, Leaves(heap)))
  BY <1>1, <1>2, <1>3, <1>5, EntriesAreUnambiguous
<1>7. arg.key \in DOMAIN MapOf(Gathered(heap, Leaves(heap))) <=> HasKey(heap[at], arg.key)
  BY <1>1, <1>2, <1>3, <1>4, <1>5, LeafTells
<1> QED BY <1>1, <1>6, <1>7 DEF MapAt

LEMMA InitMaps == Init => Map!Init
<1> SUFFICES ASSUME Init PROVE Map!Init
  OBVIOUS
<1>1. ChainMap = Null
  BY DEF Init, ChainMap
<1>2. MapState = "idle"
  BY DEF Init, MapState
<1> QED BY <1>1, <1>2 DEF Init, Map!Init

LEMMA IndexInitMaps ==
  ASSUME OrderInv, OrderInv', IndexInit
  PROVE  Map!Clear
<1>1. MapState = "idle" /\ MapState' = "idle" /\ arg' = arg /\ result' = result
  BY DEF IndexInit, MapState
<1>2. ChainMap' = MapAt(heap', root')
  BY NextMapIsMapAt DEF OrderInv
<1>3. CASE root' = Null
  BY <1>1, <1>2, <1>3 DEF MapAt, Map!Clear
<1>4. CASE root' # Null
  <2>1. root' \in Addresses
    BY <1>4 DEF OrderInv, ChainInv, TreeInv, Tree, Alloc
  <2>2. /\ heap'[root'] = Leaf(<<>>, <<>>, Null)
        /\ \A a \in Addresses \ {root'} : heap'[a] = Free
    BY <1>4, <2>1, TreeAssumption DEF IndexInit
  <2>3. Leaves(heap') \subseteq {root'}
    BY <2>2 DEF Leaves, Alloc
  <2>4. EntriesAt(heap', root') = {}
    <3>1. heap'[root'].keys = <<>> /\ Len(<<>>) = 0
      BY <2>2, EmptySeq DEF Leaf
    <3> QED BY <3>1 DEF EntriesAt, EntrySet
  <2>5. Gathered(heap', Leaves(heap')) = {}
    BY <2>3, <2>4 DEF Gathered
  <2>6. MapOf({}) = <<>>
    BY DEF MapOf
  <2>7. ChainMap' = <<>>
    BY <2>5, <2>6, <1>2, <1>4 DEF MapAt
  <2> QED BY <2>7, <1>1 DEF Map!Clear
<1> QED BY <1>3, <1>4

LEMMA SameMap ==
  ASSUME ChainInv, ChainInv', heap' = heap, root' = root
  PROVE  ChainMap' = ChainMap
  BY ChainMapIsMapAt, NextMapIsMapAt

LEMMA InsertMaps ==
  ASSUME NullIsNoMap, OrderInv, OrderInv', NEW e \in Entries, Insert(e)
  PROVE  Map!Next
<1>1. pc = "idle" /\ heap' = heap /\ root' = root /\ arg = NoArg /\ ChainInv /\ ChainInv'
  BY DEF Insert, OrderInv
<1>2. ChainMap' = ChainMap /\ ChainMap = MapAt(heap, root) /\ MapState = "idle"
  BY <1>1, SameMap, ChainMapIsMapAt DEF MapState
<1>3. CASE root = Null
  <2>1. pc' = "idle" /\ result' = -1 /\ arg' = arg
    BY <1>1, <1>3 DEF Insert, Return
  <2>2. ChainMap = Null /\ MapState' = MapState
    BY <2>1, <1>2, <1>3 DEF MapAt, MapState
  <2>3. Map!Reject
    BY <2>1, <2>2, <1>2 DEF Map!Reject
  <2> QED BY <2>3 DEF Map!Next
<1>4. CASE root # Null
  <2>1. pc' = "down" /\ arg' = e /\ result' = result
    BY <1>4 DEF Insert
  <2>2. \E level : Shape(heap, level)
    BY <1>1 DEF ChainInv, TreeInv, Tree
  <2>3. ChainMap # Null
    BY <2>2, <1>2, <1>4, MapIsNotNull
  <2>4. MapState' = "called"
    BY <2>1 DEF MapState
  <2>5. Map!Call(e)
    BY <2>1, <2>3, <2>4, <1>2 DEF Map!Call
  <2> QED BY <2>5 DEF Map!Next
<1> QED BY <1>3, <1>4

LEMMA DuplicateMaps ==
  ASSUME OrderInv, OrderInv', Duplicate, sinceCut' = 0
  PROVE  Map!Refuse
<1>1. /\ pc = "down" /\ heap[at].leaf /\ HasKey(heap[at], arg.key) /\ sinceCut = 0
      /\ heap' = heap /\ root' = root /\ Return(1) /\ ChainInv /\ ChainInv'
  BY DEF Duplicate, OrderInv
<1>2. ChainMap' = ChainMap /\ ChainMap = MapAt(heap, root)
  BY <1>1, SameMap, ChainMapIsMapAt
<1>3. arg.key \in DOMAIN ChainMap
  BY <1>1, <1>2, LeafReached
<1>4. MapState = "called" /\ MapState' = "idle" /\ arg' = NoArg /\ result' = 1
  BY <1>1 DEF MapState, Return
<1> QED BY <1>2, <1>3, <1>4 DEF Map!Refuse, Map!Return

LEMMA PutInLeafMaps ==
  ASSUME OrderInv, OrderInv', PutInLeaf, sinceCut' = 0
  PROVE  Map!Store \/ Map!Fail
<1>1. /\ pc = "down" /\ heap[at].leaf /\ ~HasKey(heap[at], arg.key) /\ sinceCut = 0
      /\ root' = root /\ root # Null /\ arg \in Entries /\ ChainInv /\ ChainInv' /\ TreeInv
  BY TreeAssumption DEF PutInLeaf, OrderInv, ChainInv, TreeInv, Alloc
<1>2. /\ ChainMap = MapOf(Gathered(heap, Leaves(heap)))
      /\ ChainMap' = MapOf(Gathered(heap', Leaves(heap')))
  BY <1>1, ChainMapIsMapAt, NextMapIsMapAt DEF MapAt
<1>3. /\ arg.key \notin DOMAIN ChainMap
      /\ Unambiguous(Gathered(heap, Leaves(heap)))
  BY <1>1, <1>2, LeafReached DEF MapAt
<1>4. MapState = "called"
  BY <1>1 DEF MapState
<1>5. PICK level : Shape(heap, level)
  BY <1>1 DEF TreeInv, Tree
<1>6. ASSUME Gains(heap, heap', {Entry(arg.key, arg.ref)})
      PROVE  ChainMap' = [k \in DOMAIN ChainMap \cup {arg.key} |->
                            IF k = arg.key THEN arg.ref ELSE ChainMap[k]]
  <2> DEFINE E == Gathered(heap, Leaves(heap))
             F == Gathered(heap', Leaves(heap'))
             k == arg.key
             r == arg.ref
  <2>1. /\ Unambiguous(E) /\ k \notin DOMAIN MapOf(E) /\ F = E \cup {Entry(k, r)}
        /\ ChainMap = MapOf(E) /\ ChainMap' = MapOf(F)
    BY <1>2, <1>3, <1>6 DEF Gains
  <2> HIDE DEF E, F, k, r
  <2>2. MapOf(F) = With(MapOf(E), k, r)
    BY <2>1, MapGains
  <2> QED BY <2>1, <2>2 DEF k, r, With
<1>7. CASE Fills(heap, heap', at, arg) /\ Return(0)
  <2>1. Gains(heap, heap', {Entry(arg.key, arg.ref)})
    BY <1>1, <1>5, <1>7, FillingGains
  <2>2. MapState' = "idle" /\ arg' = NoArg /\ result' = 0
    BY <1>7 DEF MapState, Return
  <2>3. Map!Store
    BY <2>1, <2>2, <1>3, <1>4, <1>6 DEF Map!Store, Map!Return
  <2> QED BY <2>3
<1>8. ASSUME NEW b, NEW half, Parts(heap, heap', at, b, arg, half),
             Up(NewKeys(heap[at], arg)[half + 1], b)
      PROVE  Map!Store
  <2>1. Gains(heap, heap', {Entry(arg.key, arg.ref)})
    BY <1>1, <1>5, <1>8, PartingGains
  <2>2. pc' = "up" /\ arg' = arg /\ result' = result
    BY <1>8 DEF Up
  <2>3. MapState' = "stored"
    BY <2>2 DEF MapState
  <2> QED BY <2>1, <2>2, <2>3, <1>3, <1>4, <1>6 DEF Map!Store
<1>9. CASE Return(-1) /\ heap' = heap
  <2>1. ChainMap' = ChainMap
    BY <1>1, <1>9, SameMap
  <2>2. MapState' = "idle" /\ arg' = NoArg /\ result' = -1
    BY <1>9 DEF MapState, Return
  <2>3. Map!Fail
    BY <2>1, <2>2, <1>4 DEF Map!Fail, Map!Return
  <2> QED BY <2>3
<1> QED BY <1>1, <1>7, <1>8, <1>9, PutInLeafWrites

LEMMA LinkSplitMaps ==
  ASSUME OrderInv, OrderInv', LinkSplit, sinceCut' = 0
  PROVE  Map!Confirm \/ UNCHANGED Map!vars
<1>1. /\ pc = "up" /\ root' = root /\ root # Null /\ ChainInv /\ ChainInv' /\ TreeInv
  BY TreeAssumption DEF LinkSplit, OrderInv, ChainInv, TreeInv, Alloc
<1>2. PICK level : Shape(heap, level)
  BY <1>1 DEF TreeInv, Tree
<1> DEFINE a    == Last(trail).node
           slot == Last(trail).slot
           r    == split.right
           key  == split.key
           all  == InsertAt(heap[a].keys, slot, key)
<1>3. /\ Graft(heap, a, slot, r, key)
      /\ \/ Spreads(heap, heap', a, slot, r, key) /\ Return(0)
         \/ \E b, mid : Splits(heap, heap', a, b, slot, r, key, mid) /\ Up(all[mid + 1], b)
  BY <1>1, LinkSplitWrites
<1>4. ChainMap' = ChainMap
  <2>1. Gains(heap, heap', {})
    BY <1>2, <1>3, GraftingGains
  <2>2. Gathered(heap', Leaves(heap')) = Gathered(heap, Leaves(heap))
    BY <2>1 DEF Gains
  <2> QED BY <2>2, <1>1, ChainMapIsMapAt, NextMapIsMapAt DEF MapAt
<1>5. MapState = "stored"
  BY <1>1 DEF MapState
<1>6. CASE Return(0)
  <2>1. MapState' = "idle" /\ arg' = NoArg /\ result' = 0
    BY <1>6 DEF MapState, Return
  <2> QED BY <2>1, <1>4, <1>5 DEF Map!Confirm, Map!Return
<1>7. ASSUME NEW k, NEW b, Up(k, b) PROVE UNCHANGED Map!vars
  <2>1. pc' = "up" /\ arg' = arg /\ result' = result
    BY <1>7 DEF Up
  <2>2. MapState' = MapState
    BY <2>1, <1>5 DEF MapState
  <2> QED BY <2>1, <2>2, <1>4 DEF Map!vars
<1> HIDE DEF a, slot, r, key, all
<1> QED BY <1>3, <1>6, <1>7

LEMMA GrowRootMaps ==
  ASSUME OrderInv, OrderInv', GrowRoot, sinceCut' = 0
  PROVE  Map!Confirm
<1>1. pc = "up" /\ root # Null /\ ChainInv /\ ChainInv' /\ TreeInv
  BY TreeAssumption DEF GrowRoot, OrderInv, ChainInv, TreeInv, Alloc
<1>2. PICK level : Shape(heap, level)
  BY <1>1 DEF TreeInv, Tree
<1>3. Crowns(heap, heap', root, root', split.right, split.key) /\ Return(0)
  BY <1>1, GrowRootWrites
<1>4. root' # Null
  BY <1>3, TreeAssumption DEF Crowns
<1>5. ChainMap' = ChainMap
  <2>1. Gains(heap, heap', {})
    BY <1>2, <1>3, CrowningGains
  <2>2. Gathered(heap', Leaves(heap')) = Gathered(heap, Leaves(heap))
    BY <2>1 DEF Gains
  <2> QED BY <2>2, <1>1, <1>4, ChainMapIsMapAt, NextMapIsMapAt DEF MapAt
<1>6. MapState = "stored" /\ MapState' = "idle" /\ arg' = NoArg /\ result' = 0
  BY <1>1, <1>3 DEF MapState, Return
<1> QED BY <1>5, <1>6 DEF Map!Confirm, Map!Return

LEMMA StepMaps ==
  ASSUME NullIsNoMap, OrderInv, OrderInv', Next, sinceCut' = 0
  PROVE  Map!Next \/ UNCHANGED Map!vars
<1>1. ASSUME NEW e \in Entries, Insert(e) PROVE Map!Next
  BY <1>1, InsertMaps
<1>2. CASE Descend
  <2>1. /\ heap' = heap /\ root' = root /\ pc' = pc /\ arg' = arg /\ result' = result
        /\ ChainInv /\ ChainInv'
    BY <1>2 DEF Descend, OrderInv
  <2>2. ChainMap' = ChainMap /\ MapState' = MapState
    BY <2>1, SameMap DEF MapState
  <2> QED BY <2>1, <2>2 DEF Map!vars
<1>3. CASE Duplicate
  BY <1>3, DuplicateMaps DEF Map!Next
<1>4. CASE PutInLeaf
  BY <1>4, PutInLeafMaps DEF Map!Next
<1>5. CASE LinkSplit
  BY <1>5, LinkSplitMaps DEF Map!Next
<1>6. CASE GrowRoot
  BY <1>6, GrowRootMaps DEF Map!Next
<1>7. CASE IndexInit
  BY <1>7, IndexInitMaps DEF Map!Next
<1> QED BY <1>1, <1>2, <1>3, <1>4, <1>5, <1>6, <1>7 DEF Next

(***************************************************************************)
(* As long as no split is left unlinked, the index implements the map:     *)
(* an insertion takes effect when the leaf is written, is refused exactly  *)
(* when the key is there, and replaces nothing.                            *)
(***************************************************************************)
THEOREM IndexImplementsMap ==
  ASSUME NullIsNoMap
  PROVE  Spec => ImplementsMap
<1>1. OrderInv /\ OrderInv' /\ [Next]_vars
        => [sinceCut' = 0 => Map!Next \/ UNCHANGED Map!vars]_vars
  BY StepMaps
<1> QED BY <1>1, InitMaps, IndexIsOrdered, PTL DEF Spec, ImplementsMap

(***************************************************************************)
(* Lists of entries in ascending order.                                    *)
(***************************************************************************)
Rising(s) == \A i, j \in 1..Len(s) : i < j => s[i].key < s[j].key
Numbered(E) == \A e \in E : e.key \in Nat

LEMMA BothRise ==
  ASSUME NEW E, Numbered(E), NEW s \in Seq(E), NEW t \in Seq(E), Rising(s), Rising(t),
         \A d \in ToSet(s), e \in ToSet(t) : d.key < e.key
  PROVE  Rising(s \o t)
<1> DEFINE m == Len(s)
           n == Len(t)
           u == s \o t
<1>1. /\ m \in Nat /\ n \in Nat /\ Len(u) = m + n
      /\ \A i \in 1..m + n : u[i] = IF i <= m THEN s[i] ELSE t[i - m]
      /\ DOMAIN s = 1..m /\ DOMAIN t = 1..n
  BY ConcatProperties, LenProperties
<1>2. /\ \A i \in 1..m : s[i] \in ToSet(s)
      /\ \A i \in 1..n : t[i] \in ToSet(t)
  BY <1>1 DEF ToSet
<1>3. /\ \A i, j \in 1..m : i < j => s[i].key < s[j].key
      /\ \A i, j \in 1..n : i < j => t[i].key < t[j].key
  BY DEF Rising
<1> HIDE DEF m, n, u
<1>4. ASSUME NEW i \in 1..m + n, NEW j \in 1..m + n, i < j PROVE u[i].key < u[j].key
  <2>1. CASE j <= m
    <3>1. i \in 1..m /\ j \in 1..m /\ i <= m
      BY <2>1, <1>1, <1>4
    <3> QED BY <3>1, <2>1, <1>1, <1>3, <1>4
  <2>2. CASE ~(j <= m) /\ i <= m
    <3>1. i \in 1..m /\ j - m \in 1..n
      BY <2>2, <1>1, <1>4
    <3> QED BY <3>1, <2>2, <1>1, <1>2
  <2>3. CASE ~(j <= m) /\ ~(i <= m)
    <3>1. i - m \in 1..n /\ j - m \in 1..n /\ i - m < j - m
      BY <2>3, <1>1, <1>4
    <3> QED BY <3>1, <2>3, <1>1, <1>3
  <2> QED BY <2>1, <2>2, <2>3
<1> QED BY <1>1, <1>4 DEF Rising, u

LEMMA LeafRises ==
  ASSUME NEW n, n.keys \in Seq(Nat), Ascending(n.keys)
  PROVE  /\ Rising(EntriesOf(n)) /\ Len(EntriesOf(n)) = Len(n.keys)
         /\ \A i \in 1..Len(n.keys) : EntriesOf(n)[i].key = n.keys[i]
<1>1. Len(EntriesOf(n)) = Len(n.keys)
  BY LeafEntries
<1>2. \A i \in 1..Len(n.keys) : EntriesOf(n)[i].key = n.keys[i]
  BY DEF EntriesOf
<1> QED BY <1>1, <1>2 DEF Rising, Ascending

LEMMA EntriesAreNumbered ==
  ASSUME NEW h, NEW level, Shape(h, level)
  PROVE  Numbered(Gathered(h, Alloc(h)))
<1> SUFFICES ASSUME NEW a \in Alloc(h), NEW e \in EntriesAt(h, a) PROVE e.key \in Nat
  BY DEF Gathered, Numbered
<1>1. h[a].keys \in Seq(Nat)
  BY NodeInHeap, NodeFields
<1>2. PICK i \in 1..Len(h[a].keys) : e = Entry(h[a].keys[i], h[a].refs[i])
  BY DEF EntriesAt, EntrySet
<1> QED BY <1>1, <1>2, KeyList DEF Entry

(* What is linked behind a leaf has higher keys.                           *)
LEMMA RestIsHigher ==
  ASSUME NEW h, NEW level, NEW rank, Shape(h, level), Chained(h, rank),
         NEW lo \in Bounds, NEW hi \in Bounds, Aligned(h, lo, hi), Followed(h),
         NEW f, IsTail(h, f), NEW a \in Leaves(h)
  PROVE  \A e \in Gathered(h, f[h[a].next]) : e.key \in Nat /\ hi[a] # 0 /\ hi[a] <= e.key
<1> SUFFICES ASSUME NEW c \in f[h[a].next], NEW e \in EntriesAt(h, c)
             PROVE  e.key \in Nat /\ hi[a] # 0 /\ hi[a] <= e.key
  BY DEF Gathered
<1>1. a \in Alloc(h) /\ f[Null] = {}
  BY TailStep DEF Leaves
<1>2. h[a].next \in Stations(h) /\ h[a].next \in Leaves(h)
  BY <1>1, NextOnChain
<1>3. c \in Leaves(h)
  BY <1>2, OnlyLeavesFollow
<1>4. hi[a] # 0 /\ hi[a] <= lo[c]
  BY BoundsBehind
<1>5. e.key \in Nat /\ Within(lo, hi, c, e.key)
  BY <1>3, EntryInLeaf
<1>6. hi[a] \in Nat /\ lo[c] \in Nat
  BY <1>1, <1>3 DEF Bounds, Leaves, Alloc
<1> QED BY <1>4, <1>5, <1>6 DEF Within

LEMMA ListRises ==
  ASSUME NEW h, NEW level, NEW rank, Shape(h, level), Chained(h, rank),
         NEW lo \in Bounds, NEW hi \in Bounds, Aligned(h, lo, hi), Followed(h),
         NEW list, IsList(h, list)
  PROVE  \A a \in Leaves(h) : Rising(list[a])
<1> DEFINE S == {a \in Stations(h) : a \in Leaves(h) \cup {Null} => Rising(list[a])}
           E == Gathered(h, Alloc(h))
<1>1. Null \notin Alloc(h) /\ list[Null] = <<>>
  BY ListStep, TreeAssumption DEF Alloc
<1>2. PICK f : IsTail(h, f)
  BY TailExists
<1>3. Null \in S
  <2>1. Len(<<>>) = 0
    BY EmptySeq
  <2> QED BY <2>1, <1>1 DEF Stations, Rising
<1>4. ASSUME NEW a \in Alloc(h), h[a].next \in S PROVE a \in S
  <2> SUFFICES ASSUME a \in Leaves(h) PROVE Rising(list[a])
    BY <1>1 DEF Stations
  <2> DEFINE rest == h[a].next
  <2>1. list[a] = EntriesOf(h[a]) \o list[rest]
    BY <1>1, ListStep
  <2>2. rest \in Stations(h) /\ rest \in Leaves(h) \cup {Null}
    BY NextOnChain
  <2>3. Rising(list[rest])
    BY <1>4, <2>2
  <2>4. list[rest] \in Seq(E) /\ ToSet(list[rest]) = Gathered(h, f[rest])
    BY <1>2, <2>2, ListHoldsEntries
  <2>5. h[a].keys \in Seq(Nat) /\ Ascending(h[a].keys)
    BY NodeInHeap, NodeFields DEF Aligned, Held
  <2>6. Rising(EntriesOf(h[a]))
    BY <2>5, LeafRises
  <2>7. EntriesOf(h[a]) \in Seq(E) /\ ToSet(EntriesOf(h[a])) = EntriesAt(h, a)
    <3>1. EntriesOf(h[a]) \in Seq(EntriesAt(h, a)) /\ ToSet(EntriesOf(h[a])) = EntriesAt(h, a)
      BY <2>5, LeafEntries DEF EntriesAt
    <3>2. EntriesAt(h, a) \subseteq E
      BY DEF Gathered
    <3> QED BY <3>1, <3>2, SeqMonotonic
  <2>8. ASSUME NEW d \in EntriesAt(h, a), NEW e \in Gathered(h, f[rest]) PROVE d.key < e.key
    <3>1. d.key \in Nat /\ Within(lo, hi, a, d.key)
      BY EntryInLeaf
    <3>2. e.key \in Nat /\ hi[a] # 0 /\ hi[a] <= e.key
      BY <1>2, RestIsHigher
    <3>3. hi[a] \in Nat
      BY DEF Bounds, Alloc
    <3> QED BY <3>1, <3>2, <3>3 DEF Within, Under
  <2>9. Numbered(E)
    BY EntriesAreNumbered
  <2> HIDE DEF E, rest
  <2> QED BY <2>1, <2>3, <2>4, <2>6, <2>7, <2>8, <2>9, BothRise
<1>5. \A a \in Alloc(h) : h[a].next \in S => a \in S
  BY <1>4
<1> HIDE DEF S
<1>6. Stations(h) \subseteq S
  BY <1>3, <1>5, ChainInduction
<1> QED BY <1>6 DEF S, Leaves, Stations

(* A part of a rising list.                                                *)
LEMMA PartRises ==
  ASSUME NEW E, NEW s \in Seq(E), Rising(s), NEW n \in 0..Len(s)
  PROVE  LET t == SubSeq(s, 1, n)
         IN  /\ Rising(t) /\ \A e : e \in ToSet(t) <=> \E i \in 1..n : e = s[i]
<1> DEFINE t == SubSeq(s, 1, n)
<1>1. n \in Nat /\ Len(s) \in Nat /\ n <= Len(s)
  BY LenProperties
<1>2. /\ t \in Seq(E) /\ Len(t) = n
      /\ \A i \in 1..n : t[i] = s[i]
  <2>1. 1 \in 1..Len(s) + 1 /\ n \in 1 - 1..Len(s) /\ n - 1 + 1 = n
        /\ \A i \in 1..n : 1 + i - 1 = i
    BY <1>1
  <2>2. /\ t \in Seq(E) /\ Len(t) = n - 1 + 1
        /\ \A i \in 1..n - 1 + 1 : t[i] = s[1 + i - 1]
    BY <2>1, PartOfSequence
  <2> QED BY <2>1, <2>2
<1> HIDE DEF t
<1>3. DOMAIN t = 1..n
  BY <1>2, LenProperties
<1>4. Rising(t)
  BY <1>1, <1>2 DEF Rising
<1>5. \A e : e \in ToSet(t) <=> \E i \in 1..n : e = s[i]
  BY <1>2, <1>3 DEF ToSet
<1> QED BY <1>4, <1>5 DEF t

(***************************************************************************)
(* The upward scan takes, from a place in a list on, what is not skipped.  *)
(***************************************************************************)
Above(rel, k, x) == ~(rel = ">" /\ x <= k)

IsTaken(s, first, rel, k, f) ==
  f = [i \in 0..Len(s) |->
         IF i < first THEN <<>>
         ELSE IF rel = ">" /\ s[i].key <= k THEN f[i - 1]
         ELSE Append(f[i - 1], s[i])]

Before(n, first) == {i \in 0..n : i < first}
OneLess(n)       == [i \in 0..n |-> i - 1]
Places(n)        == [i \in 0..n |-> i]

LEMMA PlacesDescend ==
  ASSUME NEW n \in Nat, NEW first \in Nat, first # 0
  PROVE  Descends(0..n, Places(n), Before(n, first), OneLess(n))
<1>1. ASSUME NEW i \in (0..n) \ Before(n, first)
      PROVE  OneLess(n)[i] \in 0..n /\ Places(n)[OneLess(n)[i]] < Places(n)[i]
  <2>1. i \in 0..n /\ ~(i < first)
    BY DEF Before
  <2>2. i - 1 \in 0..n /\ i - 1 < i
    BY <2>1
  <2> QED BY <2>1, <2>2 DEF OneLess, Places
<1>2. Places(n) \in [0..n -> Nat] /\ Before(n, first) \in SUBSET (0..n)
  BY DEF Places, Before
<1> QED BY <1>1, <1>2 DEF Descends

LEMMA TakenExists ==
  ASSUME NEW E, NEW s \in Seq(E), NEW first \in Nat, first # 0, NEW rel, NEW k
  PROVE  \E f : IsTaken(s, first, rel, k, f)
<1> DEFINE n    == Len(s)
           N    == 0..n
           stop == Before(n, first)
           succ == OneLess(n)
           V    == Seq(E)
           base == [i \in stop |-> <<>>]
           step == [i \in N \ stop |-> [v \in V |->
                      IF rel = ">" /\ s[i].key <= k THEN v ELSE Append(v, s[i])]]
<1>1. n \in Nat
  BY LenProperties
<1>2. Descends(N, Places(n), stop, succ)
  BY <1>1, PlacesDescend
<1>3. Stepping(N, V, stop, base, step)
  <2>1. base \in [stop -> V]
    BY EmptySeq
  <2>2. ASSUME NEW i \in N \ stop, NEW v \in V PROVE step[i][v] \in V
    <3>1. i \in 1..n
      BY <1>1 DEF Before
    <3>2. s[i] \in E
      BY <3>1, ElementOfSeq
    <3>3. Append(v, s[i]) \in V
      BY <3>2, AppendProperties
    <3>4. step[i][v] = IF rel = ">" /\ s[i].key <= k THEN v ELSE Append(v, s[i])
      OBVIOUS
    <3> QED BY <3>3, <3>4
  <2> HIDE DEF base, step, V, N, stop
  <2> QED BY <2>1, <2>2 DEF Stepping
<1>4. \E f \in [N -> V] : Recurs(f, N, stop, succ, base, step)
  <2> HIDE DEF N, stop, succ, base, step, V, n
  <2> QED BY <1>2, <1>3, RecursionExists
<1>5. PICK f \in [N -> V] : \A i \in N :
        f[i] = IF i \in stop THEN base[i] ELSE step[i][f[succ[i]]]
  BY <1>4 DEF Recurs
<1>6. ASSUME NEW i \in N
      PROVE  f[i] = IF i < first THEN <<>>
                    ELSE IF rel = ">" /\ s[i].key <= k THEN f[i - 1]
                    ELSE Append(f[i - 1], s[i])
  <2>1. CASE i \in stop
    BY <2>1, <1>5 DEF Before
  <2>2. CASE i \notin stop
    <3>1. ~(i < first) /\ succ[i] = i - 1 /\ i - 1 \in N
      BY <2>2, <1>1 DEF Before, OneLess
    <3>2. f[i - 1] \in V
      BY <3>1, <1>5
    <3>3. f[i] = step[i][f[i - 1]]
      BY <2>2, <3>1, <1>5
    <3> QED BY <2>2, <3>1, <3>2, <3>3
  <2> QED BY <2>1, <2>2
<1>7. IsTaken(s, first, rel, k, f)
  BY <1>5, <1>6 DEF IsTaken
<1> QED BY <1>7

LEMMA AppendRises ==
  ASSUME NEW E, NEW t \in Seq(E), NEW x \in E, Rising(t), \A e \in ToSet(t) : e.key < x.key
  PROVE  /\ Rising(Append(t, x)) /\ Append(t, x) \in Seq(E)
         /\ ToSet(Append(t, x)) = ToSet(t) \cup {x}
<1> DEFINE n == Len(t)
           u == Append(t, x)
<1>1. /\ n \in Nat /\ u \in Seq(E) /\ Len(u) = n + 1 /\ u[n + 1] = x
      /\ \A i \in 1..n : u[i] = t[i]
  BY AppendProperties, LenProperties
<1>2. DOMAIN t = 1..n /\ DOMAIN u = 1..n + 1
  BY <1>1, LenProperties
<1> HIDE DEF n, u
<1>3. ASSUME NEW i \in 1..n + 1, NEW j \in 1..n + 1, i < j PROVE u[i].key < u[j].key
  <2>1. i \in 1..n
    BY <1>1, <1>3
  <2>2. CASE j = n + 1
    BY <2>1, <2>2, <1>1, <1>2 DEF ToSet
  <2>3. CASE j # n + 1
    <3>1. j \in 1..n
      BY <2>3, <1>1
    <3> QED BY <2>1, <3>1, <1>1, <1>3 DEF Rising, n
  <2> QED BY <2>2, <2>3
<1>4. 1..n + 1 = (1..n) \cup {n + 1}
  BY <1>1
<1>5. ToSet(u) = ToSet(t) \cup {x}
  BY <1>1, <1>2, <1>4 DEF ToSet
<1> QED BY <1>1, <1>3, <1>5 DEF Rising, u

TakenSoFar(s, first, rel, k, i, t) ==
  /\ Rising(t)
  /\ \A e : e \in ToSet(t) <=> \E j \in first..i : e = s[j] /\ Above(rel, k, s[j].key)

LEMMA TakenIsAbove ==
  ASSUME NEW E, NEW s \in Seq(E), Rising(s), NEW first \in Nat, first # 0, NEW rel, NEW k,
         NEW f, IsTaken(s, first, rel, k, f)
  PROVE  TakenSoFar(s, first, rel, k, Len(s), f[Len(s)])
<1> DEFINE n == Len(s)
           S == {i \in 0..n : f[i] \in Seq(E) /\ TakenSoFar(s, first, rel, k, i, f[i])}
<1>1. n \in Nat
  BY LenProperties
<1>2. ASSUME NEW i \in 0..n, i \in Before(n, first) \/ OneLess(n)[i] \in S PROVE i \in S
  <2>1. f[i] = IF i < first THEN <<>>
               ELSE IF rel = ">" /\ s[i].key <= k THEN f[i - 1] ELSE Append(f[i - 1], s[i])
    BY DEF IsTaken
  <2>2. CASE i < first
    <3>1. f[i] = <<>> /\ f[i] \in Seq(E) /\ Len(f[i]) = 0 /\ DOMAIN f[i] = 1..0
      BY <2>1, <2>2, EmptySeq, LenProperties
    <3>2. \A j : j \notin first..i
      BY <2>2
    <3>3. Rising(f[i])
      BY <3>1 DEF Rising
    <3>4. \A e : e \notin ToSet(f[i])
      BY <3>1 DEF ToSet
    <3> QED BY <3>1, <3>2, <3>3, <3>4 DEF TakenSoFar
  <2>3. CASE ~(i < first)
    <3> DEFINE p == i - 1
               t == f[p]
    <3>1. i \in 1..n /\ p \in 0..n /\ first..i = (first..p) \cup {i} /\ i \notin Before(n, first)
          /\ p \in S /\ s[i] \in E
      <4>1. i \in 1..n /\ p \in 0..n /\ first..i = (first..p) \cup {i} /\ i \notin Before(n, first)
        BY <2>3, <1>1 DEF Before
      <4>2. OneLess(n)[i] = p
        BY DEF OneLess
      <4> HIDE DEF p, S
      <4> QED BY <4>1, <4>2, <1>2, ElementOfSeq
    <3>2. /\ t \in Seq(E) /\ Rising(t)
          /\ \A e : e \in ToSet(t) <=> \E j \in first..p : e = s[j] /\ Above(rel, k, s[j].key)
      BY <3>1 DEF TakenSoFar
    <3>3. f[i] = IF Above(rel, k, s[i].key) THEN Append(t, s[i]) ELSE t
      BY <2>1, <2>3 DEF Above
    <3>4. \A e \in ToSet(t) : e.key < s[i].key
      <4>1. \A j \in first..p : j \in 1..n /\ j < i
        BY <3>1, <1>1
      <4> QED BY <3>1, <3>2, <4>1 DEF Rising
    <3> HIDE DEF p, t, n
    <3>5. CASE Above(rel, k, s[i].key)
      <4>1. f[i] = Append(t, s[i])
        BY <3>3, <3>5
      <4>2. /\ Rising(f[i]) /\ f[i] \in Seq(E)
            /\ ToSet(f[i]) = ToSet(t) \cup {s[i]}
        BY <4>1, <3>1, <3>2, <3>4, AppendRises
      <4>3. \A e : e \in ToSet(f[i]) <=>
              \E j \in first..i : e = s[j] /\ Above(rel, k, s[j].key)
        BY <4>2, <3>1, <3>2, <3>5
      <4> QED BY <4>2, <4>3 DEF TakenSoFar
    <3>6. CASE ~Above(rel, k, s[i].key)
      <4>1. f[i] = t
        BY <3>3, <3>6
      <4>2. \A e : e \in ToSet(f[i]) <=>
              \E j \in first..i : e = s[j] /\ Above(rel, k, s[j].key)
        BY <4>1, <3>1, <3>2, <3>6
      <4> QED BY <4>1, <4>2, <3>2 DEF TakenSoFar
    <3> QED BY <3>5, <3>6
  <2> QED BY <2>2, <2>3
<1>3. PassedOn(0..n, Before(n, first), OneLess(n), S)
  BY <1>2 DEF PassedOn
<1>4. Descends(0..n, Places(n), Before(n, first), OneLess(n))
  BY <1>1, PlacesDescend
<1> HIDE DEF S, n
<1>5. 0..n \subseteq S
  BY <1>3, <1>4, RecursionEnds
<1>6. n \in S
  BY <1>1, <1>5
<1> QED BY <1>6 DEF S, n

(* The place of a key in the list from its leaf on: what is lower is       *)
(* before it.                                                              *)
LEMMA SlotDivides ==
  ASSUME NEW h, NEW level, NEW rank, Shape(h, level), Chained(h, rank),
         NEW lo \in Bounds, NEW hi \in Bounds, Aligned(h, lo, hi), Followed(h),
         NEW f, IsTail(h, f), NEW list, IsList(h, list),
         NEW k \in Nat, NEW a \in Leaves(h), Within(lo, hi, a, k)
  PROVE  /\ LeafSlot(h[a], k) \in Nat /\ LeafSlot(h[a], k) # 0
         /\ \A j \in 1..Len(list[a]) : /\ list[a][j].key \in Nat
                                       /\ j < LeafSlot(h[a], k) <=> list[a][j].key < k
<1> DEFINE keys == h[a].keys
           slot == LeafSlot(h[a], k)
           n    == Len(keys)
           t    == EntriesOf(h[a])
           rest == h[a].next
           r    == list[rest]
           E    == Gathered(h, Alloc(h))
<1>1. a \in Alloc(h) /\ keys \in Seq(Nat) /\ Ascending(keys) /\ hi[a] \in Nat
  BY NodeInHeap, NodeFields DEF Leaves, Aligned, Held, Bounds, Alloc
<1>2. n \in Nat /\ \A i \in 1..n : keys[i] \in Nat
  BY <1>1, KeyList
<1>3. /\ slot \in 1..n + 1
      /\ slot <= n => keys[slot] >= k
      /\ \A j \in 1..slot - 1 : keys[j] < k
  BY <1>1, LeafSlotFound
<1>4. Len(t) = n /\ \A i \in 1..n : t[i].key = keys[i]
  BY <1>1, LeafRises
<1>5. list[a] = t \o r
  <2>1. Null \notin Alloc(h)
    BY TreeAssumption DEF Alloc
  <2> QED BY <1>1, <2>1, ListStep
<1>6. rest \in Stations(h)
  BY <1>1, NextOnChain
<1>7. r \in Seq(E) /\ ToSet(r) = Gathered(h, f[rest])
  BY <1>6, ListHoldsEntries
<1>8. \A e \in Gathered(h, f[rest]) : e.key \in Nat /\ hi[a] # 0 /\ hi[a] <= e.key
  BY RestIsHigher
<1>9. t \in Seq(E)
  <2>1. t \in Seq(EntriesAt(h, a))
    BY <1>1, LeafEntries DEF EntriesAt
  <2>2. EntriesAt(h, a) \subseteq E
    BY <1>1 DEF Gathered
  <2> QED BY <2>1, <2>2, SeqMonotonic
<1> DEFINE m == Len(r)
<1>10. /\ m \in Nat /\ Len(t \o r) = n + m
       /\ \A i \in 1..n + m : (t \o r)[i] = IF i <= n THEN t[i] ELSE r[i - n]
       /\ DOMAIN r = 1..m
  <2> HIDE DEF t, r, E, n
  <2>1. t \in Seq(E) /\ r \in Seq(E) /\ Len(t) = n
    BY <1>4, <1>7, <1>9
  <2> QED BY ONLY <2>1, ConcatProperties, LenProperties
<1> HIDE DEF keys, slot, n, t, rest, r, E, m
<1>11. ASSUME NEW j \in 1..n + m
       PROVE  (t \o r)[j].key \in Nat /\ (j < slot <=> (t \o r)[j].key < k)
  <2>1. CASE j <= n
    <3>1. j \in 1..n /\ (t \o r)[j].key = keys[j]
      BY <2>1, <1>2, <1>4, <1>10
    <3>2. j < slot => keys[j] < k
      BY <3>1, <1>3
    <3>3. ~(j < slot) => keys[j] >= k
      <4>1. ~(j < slot) => slot \in 1..n /\ slot <= n
        BY <3>1, <1>2, <1>3
      <4>2. slot \in 1..n /\ slot < j => keys[slot] < keys[j]
        BY <3>1, <1>1 DEF Ascending, n
      <4> QED BY <3>1, <4>1, <4>2, <1>2, <1>3
    <3> QED BY <3>1, <3>2, <3>3, <1>2
  <2>2. CASE ~(j <= n)
    <3>1. j - n \in 1..m /\ (t \o r)[j] = r[j - n] /\ ~(j < slot)
      BY <2>2, <1>2, <1>3, <1>10
    <3>2. r[j - n] \in ToSet(r)
      BY <3>1, <1>10 DEF ToSet
    <3>3. r[j - n].key \in Nat /\ hi[a] # 0 /\ hi[a] <= r[j - n].key
      BY <3>2, <1>7, <1>8
    <3>4. k < hi[a]
      BY <3>3 DEF Within, Under
    <3> QED BY <3>1, <3>3, <3>4, <1>1
  <2> QED BY <2>1, <2>2
<1>12. slot \in Nat /\ slot # 0
  BY <1>2, <1>3
<1> QED BY <1>5, <1>10, <1>11, <1>12 DEF slot

(* What is not lower than a key is in its leaf or behind it.               *)
LEMMA HigherIsBehind ==
  ASSUME NEW h, NEW top, NEW level, NEW rank, Tree(h, top, level, rank), top # Null,
         ChainOf(h, top) = Leaves(h),
         NEW lo \in Bounds, NEW hi \in Bounds, Aligned(h, lo, hi), Followed(h),
         NEW k \in Nat, NEW a \in Leaves(h), Within(lo, hi, a, k)
  PROVE  LET f == CHOOSE g : IsTail(h, g)
         IN  /\ IsTail(h, f)
             /\ Gathered(h, f[a]) \subseteq Gathered(h, Leaves(h))
             /\ \A e \in Gathered(h, Leaves(h)) : e.key >= k => e \in Gathered(h, f[a])
<1> DEFINE f     == CHOOSE g : IsTail(h, g)
           first == LeftmostOf(h, top)
<1>1. Shape(h, level) /\ Chained(h, rank)
  BY DEF Tree
<1>2. IsTail(h, f)
  BY <1>1, TailExists
<1>3. f[first] = Leaves(h)
  BY DEF ChainOf
<1>4. first \in Stations(h)
  BY ChainHolds DEF Leaves, Stations
<1> HIDE DEF f, first
<1>5. \A x, y \in Leaves(h) : x = y \/ x \in f[h[y].next] \/ y \in f[h[x].next]
  BY <1>1, <1>2, <1>3, <1>4, OneIsBehind
<1>6. \A x \in Leaves(h) : \A c \in f[h[x].next] : hi[x] # 0 /\ hi[x] <= lo[c]
  BY <1>1, <1>2, BoundsBehind
<1>7. \A x \in Leaves(h) : lo[x] \in Nat /\ hi[x] \in Nat /\ x \in Alloc(h)
  BY DEF Leaves, Alloc, Bounds
<1>8. f[a] = {a} \cup f[h[a].next]
  <2>1. Null \notin Alloc(h)
    BY TreeAssumption DEF Alloc
  <2> QED BY <1>2, <1>7, <2>1, TailStep
<1>9. f[a] \subseteq Leaves(h)
  BY <1>1, <1>2, <1>7, OnlyLeavesFollow DEF Stations
<1>10. ASSUME NEW x \in Leaves(h), NEW e \in EntriesAt(h, x), e.key >= k PROVE x \in f[a]
  <2>1. e.key \in Nat /\ Within(lo, hi, x, e.key)
    BY <1>1, EntryInLeaf
  <2>2. a \notin f[h[x].next]
    <3> SUFFICES ASSUME a \in f[h[x].next] PROVE FALSE
      OBVIOUS
    <3>1. hi[x] # 0 /\ hi[x] <= lo[a] /\ lo[a] <= k /\ e.key < hi[x]
      BY <1>6, <2>1 DEF Within, Under
    <3> QED BY <3>1, <2>1, <1>7, <1>10
  <2> QED BY <2>2, <1>5, <1>8
<1>11. \A e \in Gathered(h, Leaves(h)) : e.key >= k => e \in Gathered(h, f[a])
  BY <1>10 DEF Gathered
<1>12. Gathered(h, f[a]) \subseteq Gathered(h, Leaves(h))
  BY <1>9 DEF Gathered
<1> QED BY <1>2, <1>11, <1>12 DEF f

(***************************************************************************)
(* Both scans take what is in the range.                                   *)
(***************************************************************************)
In(rel, k, x) == \/ rel = "<"  /\ x < k
                 \/ rel = "<=" /\ x <= k
                 \/ rel = ">"  /\ x > k
                 \/ rel = ">=" /\ x >= k

Exact(E, scan, rel, k) ==
  /\ Rising(scan)
  /\ \A e : e \in ToSet(scan) <=> e \in E /\ In(rel, k, e.key)

LEMMA TakenIsExact ==
  ASSUME NEW E, Numbered(E), NEW D, NEW s \in Seq(D), Rising(s), ToSet(s) \subseteq E, NEW k \in Nat,
         \A e \in E : e.key >= k => e \in ToSet(s),
         NEW slot \in Nat, slot # 0,
         \A j \in 1..Len(s) : s[j].key \in Nat /\ (j < slot <=> s[j].key < k),
         NEW rel \in {">", ">="}, NEW f, IsTaken(s, slot, rel, k, f)
  PROVE  Exact(E, f[Len(s)], rel, k)
<1> DEFINE n == Len(s)
           t == f[n]
<1>1. n \in Nat /\ DOMAIN s = 1..n
  BY LenProperties
<1>2. TakenSoFar(s, slot, rel, k, n, t)
  BY TakenIsAbove
<1> HIDE DEF n, t
<1>3. Rising(t) /\ \A e : e \in ToSet(t) <=>
        \E j \in slot..n : e = s[j] /\ Above(rel, k, s[j].key)
  BY <1>2 DEF TakenSoFar
<1>4. \A j \in 1..n : s[j].key \in Nat /\ (j < slot <=> s[j].key < k)
  BY DEF n
<1>5. \A j \in slot..n : j \in 1..n /\ ~(j < slot)
  BY <1>1
<1>6. ASSUME NEW j \in slot..n, Above(rel, k, s[j].key) PROVE s[j] \in E /\ In(rel, k, s[j].key)
  <2>1. s[j] \in E
    BY <1>1, <1>5 DEF ToSet
  <2>2. s[j].key \in Nat /\ ~(s[j].key < k)
    BY <1>4, <1>5
  <2> QED BY <2>1, <2>2, <1>6 DEF Above, In
<1>7. ASSUME NEW e \in E, In(rel, k, e.key)
      PROVE  \E j \in slot..n : e = s[j] /\ Above(rel, k, s[j].key)
  <2>1. e.key \in Nat
    BY DEF Numbered
  <2>2. e.key >= k /\ Above(rel, k, e.key)
    BY <2>1, <1>7 DEF In, Above
  <2>3. e \in ToSet(s)
    BY <2>2
  <2>4. PICK j \in 1..n : e = s[j]
    BY <2>3, <1>1 DEF ToSet
  <2>5. ~(j < slot)
    BY <2>1, <2>2, <2>4, <1>4
  <2>6. j \in slot..n
    BY <2>5, <1>1
  <2> QED BY <2>2, <2>4, <2>6
<1>8. \A e : e \in ToSet(t) <=> e \in E /\ In(rel, k, e.key)
  BY <1>3, <1>6, <1>7
<1> QED BY <1>3, <1>8 DEF Exact, t, n

Beyond(rel, k, x) == IF rel = "<" THEN x >= k ELSE x > k

PlaceBeyond(s, rel, k) ==
  CHOOSE i \in 1..Len(s) + 1 :
    /\ i <= Len(s) => Beyond(rel, k, s[i].key)
    /\ \A j \in 1..i - 1 : ~Beyond(rel, k, s[j].key)

LEMMA PlaceBeyondFound ==
  ASSUME NEW D, NEW s \in Seq(D), NEW rel, NEW k
  PROVE  LET cut == PlaceBeyond(s, rel, k)
         IN  /\ cut \in 1..Len(s) + 1
             /\ cut <= Len(s) => Beyond(rel, k, s[cut].key)
             /\ \A j \in 1..cut - 1 : ~Beyond(rel, k, s[j].key)
<1> DEFINE n == Len(s)
           stops == {i \in 1..n : Beyond(rel, k, s[i].key)}
           cut == CHOOSE i \in 1..n + 1 : /\ i <= n => i \in stops
                                          /\ \A j \in 1..i - 1 : j \notin stops
<1>1. n \in Nat
  BY LenProperties
<1>2. \A i \in 1..n + 1 : /\ (i <= n => i \in stops) <=> (i <= n => Beyond(rel, k, s[i].key))
                          /\ (\A j \in 1..i - 1 : j \notin stops)
                               <=> (\A j \in 1..i - 1 : ~Beyond(rel, k, s[j].key))
  BY <1>1
<1>3. PlaceBeyond(s, rel, k) = cut
  BY <1>2 DEF PlaceBeyond
<1>4. /\ cut \in 1..n + 1 /\ (cut <= n => cut \in stops)
      /\ \A j \in 1..cut - 1 : j \notin stops
  <2> HIDE DEF n
  <2>1. stops \in SUBSET (1..n)
    OBVIOUS
  <2> HIDE DEF stops
  <2> QED BY <1>1, <2>1, FirstStop
<1> HIDE DEF cut
<1> QED BY <1>1, <1>3, <1>4

LEMMA BeginningIsExact ==
  ASSUME NEW E, Numbered(E), NEW D, NEW s \in Seq(D), Rising(s), ToSet(s) = E, NEW k \in Nat,
         NEW rel \in {"<", "<="}
  PROVE  Exact(E, SubSeq(s, 1, PlaceBeyond(s, rel, k) - 1), rel, k)
<1> DEFINE n   == Len(s)
           cut == PlaceBeyond(s, rel, k)
           t   == SubSeq(s, 1, cut - 1)
<1>1. n \in Nat /\ DOMAIN s = 1..n
  BY LenProperties
<1>2. /\ cut \in 1..n + 1
      /\ cut <= n => Beyond(rel, k, s[cut].key)
      /\ \A j \in 1..cut - 1 : ~Beyond(rel, k, s[j].key)
  BY PlaceBeyondFound
<1> HIDE DEF cut
<1>3. Rising(t) /\ \A e : e \in ToSet(t) <=> \E i \in 1..cut - 1 : e = s[i]
  <2>1. cut - 1 \in 0..Len(s)
    BY <1>1, <1>2
  <2> QED BY <2>1, PartRises
<1> HIDE DEF n, t
<1>4. \A e \in E : \E i \in 1..n : e = s[i]
  BY <1>1 DEF ToSet
<1>5. \A i \in 1..n : s[i] \in E /\ s[i].key \in Nat
  BY <1>1 DEF ToSet, Numbered
<1>6. \A x \in Nat : In(rel, k, x) <=> ~Beyond(rel, k, x)
  BY DEF In, Beyond
<1>7. \A i \in 1..cut - 1 : i \in 1..n
  BY <1>1, <1>2
<1>8. ASSUME NEW i \in 1..n, In(rel, k, s[i].key) PROVE i \in 1..cut - 1
  <2> SUFFICES ASSUME ~(i < cut) PROVE FALSE
    BY <1>1, <1>2
  <2>1. cut \in 1..n /\ cut <= n /\ (cut = i \/ cut < i)
    BY <1>1, <1>2
  <2>2. s[cut].key <= s[i].key
    <3>1. cut < i => s[cut].key < s[i].key
      BY <2>1 DEF Rising, n
    <3> QED BY <2>1, <3>1, <1>5
  <2>3. Beyond(rel, k, s[cut].key) /\ ~Beyond(rel, k, s[i].key)
    BY <2>1, <1>2, <1>5, <1>6, <1>8
  <2>4. s[cut].key \in Nat /\ s[i].key \in Nat
    BY <2>1, <1>5
  <2> QED BY <2>2, <2>3, <2>4 DEF Beyond
<1>9. \A e : e \in ToSet(t) <=> e \in E /\ In(rel, k, e.key)
  BY <1>2, <1>3, <1>4, <1>5, <1>6, <1>7, <1>8
<1> QED BY <1>3, <1>9 DEF Exact, t, cut

LEMMA MappedInRange ==
  ASSUME NEW E, Unambiguous(E), \A e \in E : e = Entry(e.key, e.ref), NEW R,
         R \subseteq DOMAIN MapOf(E)
  PROVE  {[key |-> x, ref |-> MapOf(E)[x]] : x \in R} = {e \in E : e.key \in R}
<1>1. /\ DOMAIN MapOf(E) = {e.key : e \in E}
      /\ \A e \in E : MapOf(E)[e.key] = e.ref
  BY MapOfEntries
<1>2. \A e \in E : e = [key |-> e.key, ref |-> MapOf(E)[e.key]]
  BY <1>1 DEF Entry
<1>3. \A x \in R : \E e \in E : e.key = x
  BY <1>1
<1> QED BY <1>2, <1>3

(***************************************************************************)
(* Once an insertion has returned, and as long as no split was left        *)
(* unlinked, a range scan (run_select_by_id_range) returns every key in    *)
(* its range once, in ascending order, with its reference.                 *)
(***************************************************************************)
THEOREM RangeScansReturnTheRange == Spec => []RangeScansAreExact
<1>1. OrderInv => RangeScansAreExact
  <2> DEFINE scan(rel, k) == IF rel \in {">", ">="} THEN ScanUp(rel, k) ELSE ScanDown(rel, k)
  <2> SUFFICES ASSUME OrderInv, Whole, NEW k \in Keys, NEW rel \in {"<", "<=", ">", ">="}
               PROVE  /\ Rising(scan(rel, k))
                      /\ ToSet(scan(rel, k)) = {[key |-> x, ref |-> ChainMap[x]] : x \in InRange(rel, k)}
    BY DEF RangeScansAreExact, Rising
  <2> DEFINE E    == Gathered(heap, Leaves(heap))
             D    == Gathered(heap, Alloc(heap))
             leaf == LeafFor(k)
             slot == LeafSlot(heap[leaf], k)
  <2>1. /\ ChainInv /\ TreeInv /\ root # Null /\ sinceCut = 0 /\ Settles(heap, root)
        /\ ChainOf(heap, root) = Leaves(heap) /\ k \in Nat
    BY TreeAssumption DEF OrderInv, ChainInv, Whole, Settled
  <2>2. PICK level, rank : Tree(heap, root, level, rank)
    BY <2>1 DEF TreeInv
  <2>3. Shape(heap, level) /\ Chained(heap, rank) /\ root \in Alloc(heap) /\ Followed(heap)
    BY <2>1, <2>2, FollowedIsFilled DEF Tree
  <2>4. PICK lo, hi \in Bounds : Ordered(heap, lo, hi, hi) /\ Unbounded(lo, hi, root)
    BY <2>1 DEF Settles
  <2>5. Aligned(heap, lo, hi)
    BY <2>4, LeavesAligned
  <2>6. Unambiguous(E)
    BY <2>1, <2>2, <2>3, <2>5, EntriesAreUnambiguous
  <2>7. \A e \in E : e = Entry(e.key, e.ref)
    BY DEF Gathered, EntriesAt, EntrySet, Entry
  <2>8. Numbered(D) /\ Numbered(E) /\ E \subseteq D
    <3>1. Leaves(heap) \subseteq Alloc(heap)
      BY DEF Leaves
    <3>2. E \subseteq D
      BY <3>1 DEF Gathered
    <3> QED BY <3>2, <2>3, EntriesAreNumbered DEF Numbered
  <2> DEFINE list == CHOOSE l : IsList(heap, l)
  <2>9. IsList(heap, list)
    BY <2>3, ListExists
  <2>10. \A a : ListFrom(heap, a) = list[a]
    BY DEF ListFrom
  <2> HIDE DEF list
  <2>11. \A a \in Leaves(heap) : Rising(list[a])
    BY <2>3, <2>5, <2>9, ListRises
  <2>12. ASSUME rel \in {">", ">="} PROVE Exact(E, scan(rel, k), rel, k)
    <3> DEFINE f == CHOOSE g : IsTail(heap, g)
    <3>1. leaf \in Leaves(heap) /\ Within(lo, hi, leaf, k)
      <4> DEFINE s == CHOOSE t : IsSearch(heap, k, t)
      <4>1. leaf = s[root]
        BY DEF LeafFor, IsSearch, Allocated, Alloc
      <4>2. IsSearch(heap, k, s)
        BY <2>1, <2>3, SearchExists
      <4>3. Within(lo, hi, root, k)
        BY <2>1, <2>4 DEF Unbounded, Within, Under
      <4> HIDE DEF s, leaf
      <4> QED BY <4>1, <4>2, <4>3, <2>1, <2>3, <2>4, SearchStaysWithin
    <3>2. scan(rel, k) = (CHOOSE g : IsTaken(list[leaf], slot, rel, k, g))[Len(list[leaf])]
      <4>1. EntriesFrom(leaf) = ListFrom(heap, leaf)
        BY DEF EntriesFrom, ListFrom, IsList, Stations, Alloc, Allocated
      <4>2. EntriesFrom(leaf) = list[leaf]
        BY <4>1, <2>10
      <4>3. scan(rel, k) = ScanUp(rel, k)
        BY <2>12
      <4>4. ScanUp(rel, k) = (CHOOSE g : IsTaken(EntriesFrom(leaf), slot, rel, k, g))[Len(EntriesFrom(leaf))]
        BY DEF ScanUp, IsTaken
      <4> QED BY <4>2, <4>3, <4>4
    <3> HIDE DEF scan, leaf
    <3>3. /\ IsTail(heap, f) /\ Gathered(heap, f[leaf]) \subseteq E
          /\ \A e \in E : e.key >= k => e \in Gathered(heap, f[leaf])
      BY <3>1, <2>1, <2>2, <2>3, <2>5, HigherIsBehind
    <3> HIDE DEF f
    <3>4. /\ slot \in Nat /\ slot # 0
          /\ \A j \in 1..Len(list[leaf]) : /\ list[leaf][j].key \in Nat
                                           /\ j < slot <=> list[leaf][j].key < k
      BY <3>1, <3>3, <2>1, <2>3, <2>5, <2>9, SlotDivides
    <3>5. list[leaf] \in Seq(D) /\ ToSet(list[leaf]) = Gathered(heap, f[leaf])
      BY <3>1, <3>3, <2>3, <2>9, ListHoldsEntries DEF Leaves, Stations
    <3>6. Rising(list[leaf])
      BY <3>1, <2>11
    <3> HIDE DEF slot, E, D
    <3>7. PICK s : s = list[leaf]
      OBVIOUS
    <3>8. \E g : IsTaken(s, slot, rel, k, g)
      BY <3>4, <3>5, <3>7, TakenExists
    <3>9. PICK g : IsTaken(s, slot, rel, k, g) /\ scan(rel, k) = g[Len(s)]
      BY <3>2, <3>7, <3>8
    <3>10. /\ Numbered(E) /\ s \in Seq(D) /\ Rising(s) /\ ToSet(s) \subseteq E /\ k \in Nat
           /\ \A e \in E : e.key >= k => e \in ToSet(s)
           /\ slot \in Nat /\ slot # 0 /\ rel \in {">", ">="}
           /\ \A j \in 1..Len(s) : s[j].key \in Nat /\ (j < slot <=> s[j].key < k)
      BY <3>3, <3>4, <3>5, <3>6, <3>7, <2>1, <2>8, <2>12
    <3>11. Exact(E, g[Len(s)], rel, k)
      BY ONLY <3>9, <3>10, TakenIsExact
    <3>12. Exact(E, scan(rel, k), rel, k)
      BY <3>9, <3>11
    <3> QED BY <3>12
  <2>13. ASSUME rel \in {"<", "<="} PROVE Exact(E, scan(rel, k), rel, k)
    <3> DEFINE first == LeftmostOf(heap, root)
               s     == list[first]
    <3>1. scan(rel, k) = SubSeq(s, 1, PlaceBeyond(s, rel, k) - 1)
      <4>1. EntriesFrom(LeftmostLeaf) = ListFrom(heap, first)
        BY DEF EntriesFrom, LeftmostLeaf, ListFrom, LeftmostOf, IsList, IsFirst, Stations,
               Alloc, Allocated
      <4>2. EntriesFrom(LeftmostLeaf) = s
        BY <4>1, <2>10
      <4>3. scan(rel, k) = ScanDown(rel, k)
        BY <2>13
      <4> HIDE DEF s
      <4>4. ScanDown(rel, k) = SubSeq(s, 1, PlaceBeyond(s, rel, k) - 1)
        BY <4>2 DEF ScanDown, FirstIn, PlaceBeyond, Beyond
      <4> QED BY <4>3, <4>4
    <3>2. /\ first \in Leaves(heap) /\ ListFrom(heap, first) \in Seq(D)
          /\ ToSet(ListFrom(heap, first)) = E
      BY <2>1, <2>2, ChainHolds
    <3>3. s \in Seq(D) /\ ToSet(s) = E /\ Rising(s)
      BY <3>2, <2>10, <2>11
    <3> HIDE DEF scan, s, E, D
    <3>4. Numbered(E) /\ k \in Nat /\ rel \in {"<", "<="}
      BY <2>1, <2>8, <2>13
    <3>5. Exact(E, SubSeq(s, 1, PlaceBeyond(s, rel, k) - 1), rel, k)
      BY ONLY <3>3, <3>4, BeginningIsExact
    <3> QED BY <3>1, <3>5
  <2>14. Exact(E, scan(rel, k), rel, k)
    BY <2>12, <2>13
  <2>15. ChainMap = MapOf(E)
    BY <2>1, ChainIsGathered DEF ChainMap
  <2> HIDE DEF scan, E
  <2>16. InRange(rel, k) = {x \in DOMAIN MapOf(E) : In(rel, k, x)}
    BY <2>15 DEF InRange, In
  <2>17. {[key |-> x, ref |-> ChainMap[x]] : x \in InRange(rel, k)}
           = {e \in E : e.key \in InRange(rel, k)}
    BY <2>6, <2>7, <2>15, <2>16, MappedInRange
  <2>18. \A e \in E : e.key \in InRange(rel, k) <=> In(rel, k, e.key)
    BY <2>6, <2>16, MapOfEntries
  <2> QED BY <2>14, <2>17, <2>18 DEF Exact
<1> QED BY <1>1, IndexIsOrdered, PTL
=============================================================================
