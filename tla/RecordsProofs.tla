--------------------------- MODULE RecordsProofs ---------------------------
(***************************************************************************)
(* Theorems of the data files, byte by byte: for all word sizes, limits,   *)
(* text files and rows.                                                    *)
(***************************************************************************)
EXTENDS Records, CommonLemmas

(***************************************************************************)
(* Loops: go[i] takes what there is before round i to what there is after. *)
(***************************************************************************)
Looping(n, A, go) == \A i \in 1..n, a \in A : go[i][a] \in A

LEMMA LoopIsDefined ==
  ASSUME NEW n \in Nat, NEW A, NEW base \in A, NEW go, Looping(n, A, go)
  PROVE  \E f \in [0..n -> A] : f[0] = base /\ \A i \in 1..n : f[i] = go[i][f[i - 1]]
<1> DEFINE s    == [i \in 1..n |-> i]
           step == [a \in A |-> [i \in 1..n |-> go[i][a]]]
<1>1. s \in Seq(1..n) /\ Len(s) = n /\ \A i \in 1..n : s[i] = i
  OBVIOUS
<1>2. Machine(A, 1..n, step) /\ \A a \in A, i \in 1..n : step[a][i] = go[i][a]
  BY DEF Machine, Looping
<1> HIDE DEF s, step
<1>3. PICK f \in [0..Len(s) -> A] :
        f[0] = base /\ \A i \in 1..Len(s) : f[i] = step[f[i - 1]][s[i]]
  BY SMTT(30), <1>1, <1>2, RunIsDefined
<1>4. \A i \in 1..n : f[i - 1] \in A
  BY <1>1
<1>5. ASSUME NEW i \in 1..n PROVE f[i] = go[i][f[i - 1]]
  <2>1. f[i] = step[f[i - 1]][s[i]] /\ s[i] = i /\ f[i - 1] \in A
    BY <1>1, <1>3, <1>4
  <2> QED BY <1>2, <2>1
<1> QED BY <1>1, <1>3, <1>5

(* A loop that is defined keeps what its first value has.                  *)
LEMMA LoopKeeps ==
  ASSUME NEW n \in Nat, NEW f, NEW S, f[0] \in S, \A i \in 1..n : f[i - 1] \in S => f[i] \in S
  PROVE  \A i \in 0..n : f[i] \in S
<1> DEFINE P == {i \in 0..n : f[i] \in S}
<1>1. 0 \in P /\ \A i \in 1..n : i - 1 \in P => i \in P
  OBVIOUS
<1>2. \A i \in 0..n : i \in P
  <2> HIDE DEF P
  <2> QED BY <1>1, PlaceByPlace
<1> QED BY <1>2

(***************************************************************************)
(* Words                                                                   *)
(***************************************************************************)
LEMMA BytesAreNumbers == \A b \in Byte : b \in Nat /\ b < 256
  BY DEF Byte

LEMMA CharsAreNumbers == \A c \in Char : c \in Nat /\ c >= 1
  BY DEF Char

LEMMA SizeOfWord ==
  /\ WordSize \in Nat /\ WordSize >= 1 /\ WordSize \in 0..WordSize /\ 0 \in 0..WordSize
  /\ \A i \in 1..WordSize : /\ i \in 0..WordSize /\ i - 1 \in 0..WordSize /\ i # 0
                           /\ WordSize + 1 - i \in 1..WordSize
  /\ \A i \in 0..WordSize : i # 0 => i \in 1..WordSize
<1>1. WordSize \in Nat /\ WordSize >= 1
  BY RecordsAssumption
<1> QED BY <1>1

LEMMA QuotientsOf ==
  ASSUME NEW n \in Nat
  PROVE  /\ Quotients(n) \in [0..WordSize -> Nat] /\ Quotients(n)[0] = n
         /\ \A i \in 1..WordSize : Quotients(n)[i] = Quotients(n)[i - 1] \div 256
<1> DEFINE IsRest(h) ==
             h = [i \in 0..WordSize |-> IF i = 0 THEN n ELSE h[i - 1] \div 256]
           go == [i \in 1..WordSize |-> [a \in Nat |-> a \div 256]]
           f == CHOOSE h : IsRest(h)
<1>1. \A i \in 1..WordSize, a \in Nat : go[i][a] \in Nat /\ go[i][a] = a \div 256
  OBVIOUS
<1>2. PICK g \in [0..WordSize -> Nat] :
        g[0] = n /\ \A i \in 1..WordSize : g[i] = go[i][g[i - 1]]
  <2> DEFINE N == Nat
             w == WordSize
  <2>1. n \in N /\ w \in Nat /\ Looping(w, N, go)
    BY <1>1, SizeOfWord DEF Looping
  <2>2. \E g \in [0..w -> N] : g[0] = n /\ \A i \in 1..w : g[i] = go[i][g[i - 1]]
    <3> HIDE DEF go, N, w
    <3> QED BY ONLY <2>1, LoopIsDefined
  <2> QED BY <2>2
<1> HIDE DEF go
<1>3. \A i \in 0..WordSize : g[i] = IF i = 0 THEN n ELSE g[i - 1] \div 256
  <2>1. \A i \in 1..WordSize : g[i - 1] \in Nat
    BY SizeOfWord
  <2>2. \A i \in 1..WordSize : g[i] = g[i - 1] \div 256
    <3> TAKE i \in 1..WordSize
    <3>1. g[i - 1] \in Nat /\ g[i] = go[i][g[i - 1]]
      BY <1>2, <2>1
    <3> QED BY <1>1, <3>1
  <2> QED BY <1>2, <2>2, SizeOfWord
<1>4. IsRest(f)
  <2>1. IsRest(g)
    BY <1>3
  <2> QED BY ZenonT(30), <2>1
<1>5. Quotients(n) = f
  BY DEF Quotients
<1> HIDE DEF f
<1>6. \A i \in 0..WordSize : f[i] = IF i = 0 THEN n ELSE f[i - 1] \div 256
  BY <1>4
<1>7. \A i \in 0..WordSize : f[i] \in Nat
  <2>1. f[0] \in Nat /\ \A i \in 1..WordSize : f[i - 1] \in Nat => f[i] \in Nat
    BY SMTT(30), <1>6, SizeOfWord
  <2> QED BY <2>1, SizeOfWord, LoopKeeps
<1>8. f \in [0..WordSize -> Nat]
  BY <1>4, <1>7
<1>9. f[0] = n /\ \A i \in 1..WordSize : f[i] = f[i - 1] \div 256
  BY <1>6, SizeOfWord
<1> QED BY <1>5, <1>8, <1>9

LEMMA WordType ==
  ASSUME NEW n \in Nat
  PROVE  /\ Word(n) \in Seq(Byte) /\ Len(Word(n)) = WordSize
         /\ \A i \in 1..WordSize : Word(n)[i] = Quotients(n)[i - 1] % 256
<1>1. \A i \in 1..WordSize : Quotients(n)[i - 1] % 256 \in Byte
  <2> TAKE i \in 1..WordSize
  <2>1. Quotients(n)[i - 1] \in Nat
    BY QuotientsOf, SizeOfWord
  <2> QED BY <2>1 DEF Byte
<1>2. Word(n) \in [1..WordSize -> Byte]
  BY <1>1 DEF Word
<1> QED BY <1>2, SizeOfWord DEF Word

(* The number a word stands for, from its last byte.                       *)
LEMMA WordAtIs ==
  ASSUME NEW bytes \in Seq(Byte), NEW at \in Nat, HasWord(bytes, at)
  PROVE  \E f \in [0..WordSize -> Nat] :
           /\ f[0] = 0 /\ f[WordSize] = WordAt(bytes, at)
           /\ \A i \in 1..WordSize : f[i] = f[i - 1] * 256 + bytes[at + WordSize + 1 - i]
<1> DEFINE byte == [i \in 1..WordSize |-> bytes[at + WordSize + 1 - i]]
           go == [i \in 1..WordSize |-> [a \in Nat |-> a * 256 + byte[i]]]
<1>1. \A i \in 1..WordSize : byte[i] \in Nat /\ byte[i] = bytes[at + WordSize + 1 - i]
  <2> TAKE i \in 1..WordSize
  <2>1. at + WordSize + 1 - i \in 1..Len(bytes)
    <3>1. WordSize \in Nat /\ Len(bytes) \in Nat /\ i \in Int /\ i >= 1 /\ i <= WordSize
      BY SizeOfWord
    <3> QED BY <3>1 DEF HasWord
  <2> DEFINE k == at + WordSize + 1 - i
  <2>2. bytes[k] \in Byte
    <3> HIDE DEF k
    <3> QED BY <2>1 DEF k
  <2>3. bytes[k] \in Nat
    <3> HIDE DEF k
    <3> QED BY <2>2, BytesAreNumbers
  <2> QED BY <2>3
<1> HIDE DEF byte
<1>2. \A i \in 1..WordSize, a \in Nat : go[i][a] \in Nat /\ go[i][a] = a * 256 + byte[i]
  BY <1>1
<1>3. PICK g \in [0..WordSize -> Nat] :
        g[0] = 0 /\ \A i \in 1..WordSize : g[i] = go[i][g[i - 1]]
  <2> DEFINE N == Nat
             z == 0
             w == WordSize
  <2>1. z \in N /\ w \in Nat /\ Looping(w, N, go)
    BY <1>2, SizeOfWord DEF Looping
  <2>2. \E g \in [0..w -> N] : g[0] = z /\ \A i \in 1..w : g[i] = go[i][g[i - 1]]
    <3> HIDE DEF go, N, z, w
    <3> QED BY <2>1, LoopIsDefined
  <2> QED BY <2>2
<1> HIDE DEF go
<1>4. \A i \in 1..WordSize : g[i] = g[i - 1] * 256 + bytes[at + WordSize + 1 - i]
  <2>1. \A i \in 1..WordSize : g[i - 1] \in Nat
    BY SizeOfWord
  <2> TAKE i \in 1..WordSize
  <2>2. g[i - 1] \in Nat /\ g[i] = go[i][g[i - 1]]
    BY <1>3, <2>1
  <2>3. g[i] = g[i - 1] * 256 + byte[i]
    BY <1>2, <2>2
  <2>4. byte[i] = bytes[at + WordSize + 1 - i]
    BY <1>1
  <2> QED BY <2>3, <2>4
<1> DEFINE IsUpTo(h) ==
             h = [i \in 0..WordSize |->
                    IF i = 0 THEN 0 ELSE h[i - 1] * 256 + bytes[at + WordSize + 1 - i]]
           f == CHOOSE h : IsUpTo(h)
<1>5. IsUpTo(f)
  <2>1. \A i \in 0..WordSize :
          g[i] = IF i = 0 THEN 0 ELSE g[i - 1] * 256 + bytes[at + WordSize + 1 - i]
    BY <1>3, <1>4, SizeOfWord
  <2>2. IsUpTo(g)
    BY <2>1
  <2> QED BY ZenonT(30), <2>2
<1>6. WordAt(bytes, at) = f[WordSize]
  BY DEF WordAt
<1> HIDE DEF f
<1>7. \A i \in 0..WordSize :
        f[i] = IF i = 0 THEN 0 ELSE f[i - 1] * 256 + bytes[at + WordSize + 1 - i]
  BY <1>5
<1>8. \A i \in 1..WordSize : f[i] = f[i - 1] * 256 + byte[i]
  BY <1>1, <1>7, SizeOfWord
<1>9. \A i \in 0..WordSize : f[i] \in Nat
  <2>1. f[0] \in Nat
    BY <1>7, SizeOfWord
  <2>2. \A i \in 1..WordSize : f[i - 1] \in Nat => f[i] \in Nat
    BY SMTT(30), <1>1, <1>8
  <2> QED BY <2>1, <2>2, SizeOfWord, LoopKeeps
<1>10. f \in [0..WordSize -> Nat]
  BY <1>5, <1>9
<1>11. f[0] = 0 /\ \A i \in 1..WordSize : f[i] = f[i - 1] * 256 + bytes[at + WordSize + 1 - i]
  <2>1. f[0] = 0
    BY <1>7, SizeOfWord
  <2> QED BY <1>1, <1>8, <2>1
<1> HIDE DEF IsUpTo
<1> QED BY <1>6, <1>10, <1>11

(* The two ways there is: a number is read back from its word, when it     *)
(* fits in one; what is left of a number that was read is what its higher  *)
(* bytes stand for.                                                        *)
LEMMA WordReadBack ==
  ASSUME NEW bytes \in Seq(Byte), NEW at \in Nat, HasWord(bytes, at), NEW n \in Nat,
         Quotients(n)[WordSize] = 0, \A i \in 1..WordSize : bytes[at + i] = Word(n)[i]
  PROVE  WordAt(bytes, at) = n
<1> DEFINE q == Quotients(n)
<1>1. PICK f \in [0..WordSize -> Nat] :
        /\ f[0] = 0 /\ f[WordSize] = WordAt(bytes, at)
        /\ \A i \in 1..WordSize : f[i] = f[i - 1] * 256 + bytes[at + WordSize + 1 - i]
  BY WordAtIs
<1>2. /\ q \in [0..WordSize -> Nat] /\ q[0] = n /\ q[WordSize] = 0
      /\ \A i \in 1..WordSize : q[i] = q[i - 1] \div 256
  BY QuotientsOf
<1> HIDE DEF q
<1> DEFINE P == {i \in 0..WordSize : f[i] = q[WordSize - i]}
<1>3. 0 \in P
  BY <1>1, <1>2, SizeOfWord
<1>4. ASSUME NEW i \in 1..WordSize, i - 1 \in P PROVE i \in P
  <2> DEFINE k == WordSize + 1 - i
  <2>1. k \in 1..WordSize /\ k - 1 = WordSize - i /\ k = WordSize - (i - 1)
    BY SizeOfWord
  <2>2. bytes[at + k] = q[k - 1] % 256
    BY SMTT(30), <2>1, WordType DEF q
  <2>3. at + WordSize + 1 - i = at + k
    BY SizeOfWord
  <2>4. f[i] = f[i - 1] * 256 + bytes[at + k]
    BY <1>1, <2>3
  <2> HIDE DEF k
  <2>5. f[i - 1] = q[k - 1] \div 256 /\ q[k - 1] \in Nat
    BY <1>2, <1>4, <2>1, SizeOfWord
  <2>6. f[i] = q[k - 1]
    BY SMTT(30), <2>2, <2>4, <2>5
  <2> QED BY <2>1, <2>6, SizeOfWord
<1>5. \A i \in 0..WordSize : i \in P
  <2> HIDE DEF P
  <2> QED BY <1>3, <1>4, SizeOfWord, PlaceByPlace
<1> QED BY <1>1, <1>2, <1>5, SizeOfWord

LEMMA DivOfMultiple ==
  ASSUME NEW a \in Nat, NEW b \in Nat, b < 256
  PROVE  (a * 256 + b) \div 256 = a
  OBVIOUS

LEMMA HighByte ==
  ASSUME NEW bytes \in Seq(Byte), NEW at \in Nat, HasWord(bytes, at)
  PROVE  Quotients(WordAt(bytes, at))[WordSize - 1] = bytes[at + WordSize]
<1> DEFINE n == WordAt(bytes, at)
           q == Quotients(n)
<1>1. PICK f \in [0..WordSize -> Nat] :
        /\ f[0] = 0 /\ f[WordSize] = WordAt(bytes, at)
        /\ \A i \in 1..WordSize : f[i] = f[i - 1] * 256 + bytes[at + WordSize + 1 - i]
  BY WordAtIs
<1>2. n \in Nat
  BY <1>1, SizeOfWord
<1>3. /\ q \in [0..WordSize -> Nat] /\ q[0] = n
      /\ \A i \in 1..WordSize : q[i] = q[i - 1] \div 256
  BY <1>2, QuotientsOf
<1> HIDE DEF q, n
<1> DEFINE P == {i \in 0..WordSize : q[i] = f[WordSize - i]}
<1>4. 0 \in P
  BY <1>1, <1>3, SizeOfWord DEF n
<1>5. ASSUME NEW i \in 1..WordSize, i - 1 \in P PROVE i \in P
  <2> DEFINE k == WordSize + 1 - i
             b == bytes[at + i]
  <2>1. k \in 1..WordSize /\ k - 1 = WordSize - i /\ k = WordSize - (i - 1)
        /\ at + WordSize + 1 - k = at + i
    BY SizeOfWord
  <2>2. b \in Nat /\ b < 256
    <3>1. at + i \in 1..Len(bytes)
      BY SizeOfWord DEF HasWord
    <3>2. bytes[at + i] \in Byte
      BY <3>1
    <3> QED BY <3>2, BytesAreNumbers
  <2>3. f[k] = f[k - 1] * 256 + b
    BY SMTT(30), <1>1, <2>1
  <2> HIDE DEF k, b
  <2>4. f[k - 1] \in Nat /\ q[i - 1] = f[k] /\ q[i] = q[i - 1] \div 256
    BY <1>3, <1>5, <2>1, SizeOfWord
  <2>5. q[i] = f[k - 1]
    <3> DEFINE x == f[k - 1]
    <3>1. x \in Nat /\ q[i] = (x * 256 + b) \div 256
      BY <2>3, <2>4
    <3> HIDE DEF x
    <3>2. (x * 256 + b) \div 256 = x
      BY ONLY <2>2, <3>1, DivOfMultiple
    <3> QED BY <3>1, <3>2 DEF x
  <2> QED BY <2>1, <2>5, SizeOfWord
<1>6. \A i \in 0..WordSize : i \in P
  <2> HIDE DEF P
  <2> QED BY <1>4, <1>5, SizeOfWord, PlaceByPlace
<1>7. q[WordSize - 1] = f[1]
  BY <1>6, SizeOfWord
<1>8. f[1] = bytes[at + WordSize]
  <2>1. f[1] = f[0] * 256 + bytes[at + WordSize + 1 - 1] /\ at + WordSize + 1 - 1 = at + WordSize
    BY SMTT(30), <1>1, SizeOfWord
  <2>2. bytes[at + WordSize] \in Nat
    <3>1. at + WordSize \in 1..Len(bytes)
      BY SizeOfWord DEF HasWord
    <3>2. bytes[at + WordSize] \in Byte
      BY <3>1
    <3> QED BY <3>2, BytesAreNumbers
  <2> QED BY <1>1, <2>1, <2>2
<1> QED BY <1>7, <1>8 DEF q, n

LEMMA LessIsLeft ==
  ASSUME NEW n \in Nat, NEW m \in Nat, n <= m, NEW k \in 0..WordSize
  PROVE  Quotients(n)[k] <= Quotients(m)[k]
<1> DEFINE p == Quotients(n)
           q == Quotients(m)
           P == {i \in 0..WordSize : p[i] <= q[i]}
<1>1. /\ p \in [0..WordSize -> Nat] /\ p[0] = n
      /\ \A i \in 1..WordSize : p[i] = p[i - 1] \div 256
  BY QuotientsOf
<1>2. /\ q \in [0..WordSize -> Nat] /\ q[0] = m
      /\ \A i \in 1..WordSize : q[i] = q[i - 1] \div 256
  BY QuotientsOf
<1> HIDE DEF p, q
<1>3. 0 \in P
  BY <1>1, <1>2, SizeOfWord
<1>4. ASSUME NEW i \in 1..WordSize, i - 1 \in P PROVE i \in P
  <2>1. p[i - 1] \in Nat /\ q[i - 1] \in Nat /\ p[i - 1] <= q[i - 1]
    BY <1>1, <1>2, <1>4, SizeOfWord
  <2>2. p[i - 1] \div 256 <= q[i - 1] \div 256
    BY <2>1
  <2> QED BY <1>1, <1>2, <2>2, SizeOfWord
<1>5. \A i \in 0..WordSize : i \in P
  <2> HIDE DEF P
  <2> QED BY <1>3, <1>4, SizeOfWord, PlaceByPlace
<1> QED BY <1>5 DEF p, q

(* Counts and lengths within the limits fit in a word.                     *)
LEMMA LimitsFit ==
  ASSUME NEW n \in Nat, n <= MaxFields \/ n <= MaxFieldBytes
  PROVE  Quotients(n)[WordSize] = 0
<1> DEFINE m == IF n <= MaxFields THEN MaxFields ELSE MaxFieldBytes
<1>1. m \in Nat /\ n <= m
  BY RecordsAssumption
<1>2. Quotients(m)[WordSize] = 0
  <2>1. CASE n <= MaxFields
    <3>1. Quotients(MaxFields)[WordSize - 1] = 0 /\ MaxFields \in Nat
      BY RecordsAssumption
    <3>2. Quotients(MaxFields)[WordSize] = Quotients(MaxFields)[WordSize - 1] \div 256
      <4>1. \A i \in 1..WordSize :
              Quotients(MaxFields)[i] = Quotients(MaxFields)[i - 1] \div 256
        BY <3>1, QuotientsOf
      <4>2. WordSize \in 1..WordSize
        BY SizeOfWord
      <4> QED BY <4>1, <4>2
    <3> QED BY <2>1, <3>1, <3>2
  <2>2. CASE ~(n <= MaxFields)
    BY <2>2, RecordsAssumption
  <2> QED BY <2>1, <2>2
<1> HIDE DEF m
<1>3. Quotients(n)[WordSize] <= Quotients(m)[WordSize] /\ Quotients(n)[WordSize] \in Nat
  <2>1. Quotients(n) \in [0..WordSize -> Nat] /\ WordSize \in 0..WordSize
    BY QuotientsOf, SizeOfWord
  <2> QED BY <1>1, <2>1, LessIsLeft
<1> QED BY <1>2, <1>3

(***************************************************************************)
(* Pieces in a sequence: a whole that is put together part by part holds   *)
(* every part behind those in front of it.                                 *)
(***************************************************************************)
Holds(bytes, at, piece) ==
  at + Len(piece) <= Len(bytes) /\ \A k \in 1..Len(piece) : bytes[at + k] = piece[k]

LEMMA HoldsParts ==
  ASSUME NEW bytes \in Seq(Byte), NEW at \in Nat, NEW a \in Seq(Byte), NEW b \in Seq(Byte),
         Holds(bytes, at, a \o b)
  PROVE  Holds(bytes, at, a) /\ Holds(bytes, at + Len(a), b)
<1> DEFINE m == Len(a)
           n == Len(b)
           ab == a \o b
<1>1. /\ m \in Nat /\ n \in Nat /\ Len(ab) = m + n /\ Len(bytes) \in Nat
      /\ \A k \in 1..m : ab[k] = a[k]
      /\ \A k \in 1..n : ab[m + k] = b[k]
  OBVIOUS
<1>2. at + (m + n) <= Len(bytes) /\ \A k \in 1..m + n : bytes[at + k] = ab[k]
  BY <1>1 DEF Holds
<1> HIDE DEF m, n, ab
<1>3. at + m <= Len(bytes) /\ \A k \in 1..m : bytes[at + k] = a[k]
  BY <1>1, <1>2
<1>4. at + m + n <= Len(bytes) /\ \A k \in 1..n : bytes[at + m + k] = b[k]
  <2>1. \A k \in 1..n : m + k \in 1..m + n /\ at + (m + k) = at + m + k
    BY <1>1
  <2> QED BY SMTT(30), <1>1, <1>2, <2>1
<1> QED BY <1>3, <1>4 DEF Holds, m, n

LEMMA HoldsLonger ==
  ASSUME NEW bytes \in Seq(Byte), NEW more \in Seq(Byte), NEW at \in Nat, NEW piece \in Seq(Byte),
         Holds(bytes, at, piece)
  PROVE  Holds(bytes \o more, at, piece)
<1> DEFINE m == Len(piece)
           n == Len(bytes)
           all == bytes \o more
<1>1. /\ m \in Nat /\ n \in Nat /\ Len(more) \in Nat /\ Len(all) = n + Len(more)
      /\ \A k \in 1..n : all[k] = bytes[k]
  OBVIOUS
<1>2. at + m <= n /\ \A k \in 1..m : bytes[at + k] = piece[k]
  BY DEF Holds
<1> HIDE DEF m, n, all
<1>3. \A k \in 1..m : at + k \in 1..n
  BY <1>1, <1>2
<1>4. at + m <= Len(all) /\ \A k \in 1..m : all[at + k] = piece[k]
  BY <1>1, <1>2, <1>3
<1> QED BY <1>4 DEF Holds, m, all

LEMMA HoldsAtEnd ==
  ASSUME NEW bytes \in Seq(Byte), NEW piece \in Seq(Byte)
  PROVE  Holds(bytes \o piece, Len(bytes), piece)
  BY DEF Holds

(* up[i] is what there is after part[i] was put behind up[i - 1].          *)
PutTogether(n, up, part) ==
  /\ up \in [0..n -> Seq(Byte)] /\ part \in [1..n -> Seq(Byte)]
  /\ \A i \in 1..n : up[i] = up[i - 1] \o part[i]

HoldsAll(bytes, at, n, up, part) ==
  /\ \A i \in 0..n : Holds(bytes, at, up[i])
  /\ \A i \in 1..n : /\ Holds(bytes, at + Len(up[i - 1]), part[i])
                     /\ Len(up[i]) = Len(up[i - 1]) + Len(part[i])

LEMMA PartsHeld ==
  ASSUME NEW n \in Nat, NEW up, NEW part, PutTogether(n, up, part),
         NEW bytes \in Seq(Byte), NEW at \in Nat, Holds(bytes, at, up[n])
  PROVE  HoldsAll(bytes, at, n, up, part)
<1> DEFINE P == {j \in 0..n : Holds(bytes, at, up[n - j])}
<1>1. ASSUME NEW i \in 1..n
      PROVE  up[i] \in Seq(Byte) /\ up[i - 1] \in Seq(Byte) /\ part[i] \in Seq(Byte)
             /\ up[i] = up[i - 1] \o part[i]
  <2>1. i \in 0..n /\ i - 1 \in 0..n
    OBVIOUS
  <2> QED BY <2>1 DEF PutTogether
<1>2. 0 \in P
  BY n - 0 = n
<1>3. ASSUME NEW j \in 1..n, j - 1 \in P PROVE j \in P
  <2> DEFINE i == n - (j - 1)
  <2>1. i \in 1..n /\ n - j = i - 1 /\ j \in 0..n
    OBVIOUS
  <2>2. Holds(bytes, at, up[i])
    BY <1>3
  <2> HIDE DEF i, P
  <2>3. Holds(bytes, at, up[i - 1])
    <3> DEFINE a == up[i - 1]
               b == part[i]
    <3>1. a \in Seq(Byte) /\ b \in Seq(Byte) /\ Holds(bytes, at, a \o b)
      BY <1>1, <2>1, <2>2
    <3> HIDE DEF a, b
    <3>2. Holds(bytes, at, a)
      BY <3>1, HoldsParts
    <3> QED BY <3>2 DEF a
  <2> QED BY <2>1, <2>3 DEF P
<1>4. \A j \in 0..n : j \in P
  <2> HIDE DEF P
  <2> QED BY <1>2, <1>3, PlaceByPlace
<1>5. ASSUME NEW i \in 0..n PROVE Holds(bytes, at, up[i])
  <2>1. n - i \in 0..n /\ n - (n - i) = i
    OBVIOUS
  <2>2. n - i \in P
    <3> HIDE DEF P
    <3> QED BY <1>4, <2>1
  <2> QED BY <2>1, <2>2
<1>6. ASSUME NEW i \in 1..n
      PROVE  /\ Holds(bytes, at + Len(up[i - 1]), part[i])
             /\ Len(up[i]) = Len(up[i - 1]) + Len(part[i])
  <2>1. Holds(bytes, at, up[i])
    BY <1>5
  <2> DEFINE a == up[i - 1]
             b == part[i]
  <2>2. a \in Seq(Byte) /\ b \in Seq(Byte) /\ up[i] = a \o b
    BY <1>1
  <2> HIDE DEF a, b
  <2>3. Holds(bytes, at + Len(a), b) /\ Len(a \o b) = Len(a) + Len(b)
    BY <2>1, <2>2, HoldsParts
  <2> QED BY <2>2, <2>3 DEF a, b
<1> QED BY <1>5, <1>6 DEF HoldsAll

(***************************************************************************)
(* Records                                                                 *)
(***************************************************************************)
LEMMA CharsAreBytes == Char \subseteq Byte /\ Seq(Char) \subseteq Seq(Byte)
<1>1. Char \subseteq Byte
  BY DEF Char, Byte
<1> QED BY <1>1

\* A field with its length in front of it.
Sized(field) == Word(Len(field)) \o field

LEMMA SizedType ==
  ASSUME NEW field \in Seq(Char)
  PROVE  Sized(field) \in Seq(Byte) /\ Len(Sized(field)) = WordSize + Len(field)
<1>1. Word(Len(field)) \in Seq(Byte) /\ Len(Word(Len(field))) = WordSize /\ Len(field) \in Nat
  BY WordType
<1>2. field \in Seq(Byte)
  BY CharsAreBytes
<1> QED BY <1>1, <1>2, SizeOfWord DEF Sized

LEMMA EncodeIs ==
  ASSUME NEW row \in Row
  PROVE  \E up : /\ up[0] = Word(Len(row)) /\ up[Len(row)] = Encode(row)
                 /\ PutTogether(Len(row), up, [i \in 1..Len(row) |-> Sized(row[i])])
<1> DEFINE n == Len(row)
           part == [i \in 1..n |-> Sized(row[i])]
           base == Word(n)
           B == Seq(Byte)
           go == [i \in 1..n |-> [a \in B |-> a \o part[i]]]
<1>1. n \in Nat /\ \A i \in 1..n : row[i] \in Seq(Char)
  BY DEF Row
<1>2. base \in B
  BY <1>1, WordType
<1>3. \A i \in 1..n : part[i] \in B /\ part[i] = Sized(row[i])
  BY <1>1, SizedType
<1>4. part \in [1..n -> B]
  BY <1>3
<1> HIDE DEF n, part, base
<1>5. \A i \in 1..n, a \in B : go[i][a] \in B /\ go[i][a] = a \o part[i]
  BY <1>3
<1>6. Looping(n, B, go)
  BY <1>5 DEF Looping
<1>7. PICK g \in [0..n -> B] : g[0] = base /\ \A i \in 1..n : g[i] = go[i][g[i - 1]]
  <2> HIDE DEF B, go
  <2> QED BY <1>1, <1>2, <1>6, LoopIsDefined
<1>8. \A i \in 0..n : g[i] = IF i = 0 THEN base ELSE g[i - 1] \o Sized(row[i])
  <2> TAKE i \in 0..n
  <2>1. CASE i = 0
    BY <1>7, <2>1
  <2>2. CASE i # 0
    <3>1. i \in 1..n /\ i - 1 \in 0..n
      BY <1>1, <2>2
    <3>2. g[i] = go[i][g[i - 1]] /\ g[i - 1] \in B
      BY <1>7, <3>1
    <3> QED BY <1>3, <1>5, <2>2, <3>1, <3>2
  <2> QED BY <2>1, <2>2
<1> HIDE DEF go
<1> DEFINE IsUpTo(h) ==
             h = [i \in 0..n |-> IF i = 0 THEN base ELSE h[i - 1] \o Sized(row[i])]
           f == CHOOSE h : IsUpTo(h)
<1>9. IsUpTo(f)
  <2>1. IsUpTo(g)
    BY <1>8
  <2> QED BY <2>1
<1>10. Encode(row) = f[n]
  BY DEF Encode, n, base, Sized
<1> HIDE DEF f
<1>11. \A i \in 0..n : f[i] = IF i = 0 THEN base ELSE f[i - 1] \o Sized(row[i])
  BY <1>9
<1>12. f[0] = base
  BY <1>1, <1>11
<1>13. ASSUME NEW i \in 1..n PROVE f[i] = f[i - 1] \o part[i]
  <2>1. i \in 0..n /\ i # 0
    BY <1>1
  <2> QED BY <1>3, <1>11, <2>1
<1>14. \A i \in 0..n : f[i] \in B
  <2>1. \A i \in 1..n : f[i - 1] \in B => f[i] \in B
    <3> TAKE i \in 1..n
    <3> HAVE f[i - 1] \in B
    <3> DEFINE a == f[i - 1]
               b == part[i]
    <3>1. a \in B /\ b \in B /\ f[i] = a \o b
      BY <1>3, <1>13
    <3> HIDE DEF a, b
    <3> QED BY <3>1
  <2>2. f[0] \in B
    BY <1>2, <1>12
  <2> HIDE DEF B
  <2> QED BY <1>1, <2>1, <2>2, LoopKeeps
<1>15. f \in [0..n -> B]
  BY <1>9, <1>14
<1>16. PutTogether(n, f, part)
  BY <1>4, <1>13, <1>15 DEF PutTogether
<1> HIDE DEF IsUpTo
<1>17. f[0] = Word(Len(row)) /\ f[Len(row)] = Encode(row)
       /\ PutTogether(Len(row), f, [i \in 1..Len(row) |-> Sized(row[i])])
  BY <1>10, <1>12, <1>16 DEF n, base, part
<1> QED BY <1>17

LEMMA EncodeType ==
  ASSUME NEW row \in Row
  PROVE  Encode(row) \in Seq(Byte) /\ Len(Encode(row)) >= WordSize
<1> DEFINE n == Len(row)
           part == [i \in 1..n |-> Sized(row[i])]
<1>1. PICK up : up[0] = Word(n) /\ up[n] = Encode(row) /\ PutTogether(n, up, part)
  BY EncodeIs
<1>2. n \in Nat
  BY DEF Row
<1>3. Len(up[0]) = WordSize
  BY <1>1, <1>2, WordType
<1> HIDE DEF n, part
<1>4. \A i \in 0..n : up[i] \in Seq(Byte)
  BY <1>1 DEF PutTogether
<1>5. \A i \in 0..n : Len(up[i]) >= WordSize
  <2> DEFINE P == {i \in 0..n : Len(up[i]) >= WordSize}
  <2>1. 0 \in P
    BY <1>2, <1>3, SizeOfWord
  <2>2. ASSUME NEW i \in 1..n, i - 1 \in P PROVE i \in P
    <3> DEFINE a == up[i - 1]
               b == part[i]
    <3>1. i \in 0..n /\ i - 1 \in 0..n
      BY <1>2
    <3>2. a \in Seq(Byte) /\ b \in Seq(Byte) /\ up[i] = a \o b
      BY <1>1, <1>4, <3>1 DEF PutTogether
    <3>3. Len(a) >= WordSize
      BY <2>2
    <3> HIDE DEF a, b
    <3>4. Len(a \o b) >= WordSize
      BY <3>2, <3>3, SizeOfWord
    <3> QED BY <3>1, <3>2, <3>4
  <2>3. \A i \in 0..n : i \in P
    <3> HIDE DEF P
    <3> QED BY <1>2, <2>1, <2>2, PlaceByPlace
  <2> QED BY <2>3
<1>6. n \in 0..n
  BY <1>2
<1> QED BY <1>1, <1>4, <1>5, <1>6

LEMMA EncodeAllIs ==
  ASSUME NEW s \in Seq(Row)
  PROVE  \E up : /\ up[0] = <<>> /\ up[Len(s)] = EncodeAll(s)
                 /\ PutTogether(Len(s), up, [i \in 1..Len(s) |-> Encode(s[i])])
<1> DEFINE n == Len(s)
           part == [i \in 1..n |-> Encode(s[i])]
           base == <<>>
           B == Seq(Byte)
           go == [i \in 1..n |-> [a \in B |-> a \o part[i]]]
<1>1. n \in Nat /\ \A i \in 1..n : s[i] \in Row
  OBVIOUS
<1>2. base \in B
  OBVIOUS
<1>3. \A i \in 1..n : part[i] \in B /\ part[i] = Encode(s[i])
  BY <1>1, EncodeType
<1>4. part \in [1..n -> B]
  BY <1>3
<1> HIDE DEF n, part, base
<1>5. \A i \in 1..n, a \in B : go[i][a] \in B /\ go[i][a] = a \o part[i]
  BY <1>3
<1>6. Looping(n, B, go)
  BY <1>5 DEF Looping
<1>7. PICK g \in [0..n -> B] : g[0] = base /\ \A i \in 1..n : g[i] = go[i][g[i - 1]]
  <2> HIDE DEF B, go
  <2> QED BY SMTT(30), <1>1, <1>2, <1>6, LoopIsDefined
<1>8. \A i \in 0..n : g[i] = IF i = 0 THEN base ELSE g[i - 1] \o Encode(s[i])
  <2> TAKE i \in 0..n
  <2>1. CASE i = 0
    BY <1>7, <2>1
  <2>2. CASE i # 0
    <3>1. i \in 1..n /\ i - 1 \in 0..n
      BY <1>1, <2>2
    <3>2. g[i] = go[i][g[i - 1]] /\ g[i - 1] \in B
      BY <1>7, <3>1
    <3> QED BY <1>3, <1>5, <2>2, <3>1, <3>2
  <2> QED BY <2>1, <2>2
<1> HIDE DEF go
<1> DEFINE IsUpTo(h) ==
             h = [i \in 0..n |-> IF i = 0 THEN base ELSE h[i - 1] \o Encode(s[i])]
           f == CHOOSE h : IsUpTo(h)
<1>9. IsUpTo(f)
  <2>1. IsUpTo(g)
    BY <1>8
  <2> QED BY <2>1
<1>10. EncodeAll(s) = f[n]
  BY DEF EncodeAll, n, base
<1> HIDE DEF f
<1>11. \A i \in 0..n : f[i] = IF i = 0 THEN base ELSE f[i - 1] \o Encode(s[i])
  BY <1>9
<1>12. f[0] = base
  BY <1>1, <1>11
<1>13. ASSUME NEW i \in 1..n PROVE f[i] = f[i - 1] \o part[i]
  <2>1. i \in 0..n /\ i # 0
    BY <1>1
  <2> QED BY <1>3, <1>11, <2>1
<1>14. \A i \in 0..n : f[i] \in B
  <2>1. \A i \in 1..n : f[i - 1] \in B => f[i] \in B
    <3> TAKE i \in 1..n
    <3> HAVE f[i - 1] \in B
    <3> DEFINE a == f[i - 1]
               b == part[i]
    <3>1. a \in B /\ b \in B /\ f[i] = a \o b
      BY <1>3, <1>13
    <3> HIDE DEF a, b
    <3> QED BY <3>1
  <2>2. f[0] \in B
    BY <1>2, <1>12
  <2> HIDE DEF B
  <2> QED BY <1>1, <2>1, <2>2, LoopKeeps
<1>15. f \in [0..n -> B]
  BY <1>9, <1>14
<1>16. PutTogether(n, f, part)
  BY <1>4, <1>13, <1>15 DEF PutTogether
<1> HIDE DEF IsUpTo
<1>17. f[0] = <<>> /\ f[Len(s)] = EncodeAll(s)
       /\ PutTogether(Len(s), f, [i \in 1..Len(s) |-> Encode(s[i])])
  BY <1>10, <1>12, <1>16 DEF n, base, part
<1> QED BY <1>17

LEMMA UpToNulType ==
  ASSUME NEW s \in Seq(Byte)
  PROVE  UpToNul(s) \in Seq(Char) /\ (s \in Seq(Char) => UpToNul(s) = s)
<1> DEFINE nuls == {i \in DOMAIN s : s[i] = NUL}
           least(i) == i \in nuls /\ \A j \in nuls : i <= j
           m == CHOOSE i \in nuls : \A j \in nuls : i <= j
<1>1. Len(s) \in Nat /\ DOMAIN s = 1..Len(s) /\ \A i \in 1..Len(s) : s[i] \in Byte
  OBVIOUS
<1>2. \A b \in Byte : b # NUL => b \in Char
  BY DEF Byte, Char, NUL
<1>3. CASE nuls = {}
  <2>1. UpToNul(s) = s
    BY <1>3 DEF UpToNul
  <2>2. \A i \in 1..Len(s) : s[i] \in Char
    BY <1>1, <1>2, <1>3
  <2>3. s \in Seq(Char)
    BY <1>1, <2>2
  <2> QED BY <2>1, <2>3
<1>4. CASE nuls # {}
  <2>1. nuls \in SUBSET Nat
    BY <1>1
  <2>2. \E i \in nuls : \A j \in nuls : i <= j
    <3> HIDE DEF nuls
    <3> QED BY <1>4, <2>1, LeastNumber
  <2>3. m \in nuls /\ \A j \in nuls : m <= j
    <3> HIDE DEF nuls
    <3> QED BY <2>2
  <2>4. UpToNul(s) = SubSeq(s, 1, m - 1)
    BY <1>4 DEF UpToNul
  <2>5. m \in 1..Len(s) /\ s[m] = NUL
    BY <1>1, <2>3
  <2> HIDE DEF m
  <2>6. \A i \in 1..m - 1 : s[i] \in Char
    <3> TAKE i \in 1..m - 1
    <3>1. i \in 1..Len(s) /\ i < m
      BY <1>1, <2>5
    <3>2. s[i] # NUL
      BY <1>1, <2>3, <3>1
    <3> QED BY <1>1, <1>2, <3>1, <3>2
  <2>7. SubSeq(s, 1, m - 1) \in Seq(Char)
    <3>1. 1 \in Int /\ m - 1 \in Int
      BY <2>5
    <3>2. \A i \in 1..m - 1 : s[i] \in Char
      BY <2>6
    <3> DEFINE k == m - 1
    <3> HIDE DEF k
    <3>3. SubSeq(s, 1, k) \in Seq(Char)
      BY <3>1, <3>2, SubSeqProperties DEF k
    <3> QED BY <3>3 DEF k
  <2>8. s \notin Seq(Char)
    <3> SUFFICES ASSUME s \in Seq(Char) PROVE FALSE
      OBVIOUS
    <3>1. s[m] \in Char
      BY <2>5
    <3> QED BY <2>5, <3>1 DEF Char, NUL
  <2> QED BY <2>4, <2>7, <2>8
<1> QED BY <1>3, <1>4

(* While a row is read: it began at `at', and its word is there.           *)
Reading(bytes, at) ==
  {r \in [result : {"row", "error"}, row : Row, next : Nat] :
     at + WordSize <= r.next /\ r.next <= Len(bytes)}

LEMMA WordIsNumber ==
  ASSUME NEW bytes \in Seq(Byte), NEW at \in Nat, HasWord(bytes, at)
  PROVE  WordAt(bytes, at) \in Nat
<1>1. PICK f \in [0..WordSize -> Nat] : f[WordSize] = WordAt(bytes, at)
  BY WordAtIs
<1> QED BY <1>1, SizeOfWord

LEMMA ReadFieldType ==
  ASSUME NEW bytes \in Seq(Byte), NEW at \in Nat, NEW zero \in BOOLEAN,
         NEW r \in Reading(bytes, at)
  PROVE  ReadField(bytes, r, zero) \in Reading(bytes, at)
<1> DEFINE length == WordAt(bytes, r.next)
           begin  == r.next + WordSize
<1>1. /\ r \in [result : {"row", "error"}, row : Row, next : Nat]
      /\ r.next \in Nat /\ at + WordSize <= r.next /\ r.next <= Len(bytes) /\ Len(bytes) \in Nat
  BY DEF Reading
<1>2. CASE r.result = "error"
  BY <1>2 DEF ReadField
<1>3. CASE r.result # "error" /\ HasWord(bytes, r.next) /\ ~TooLong(length)
           /\ begin + length <= Len(bytes)
  <2> DEFINE field == UpToNul(SubSeq(bytes, begin + 1, begin + length))
             t == [r EXCEPT !.row = Append(@, field), !.next = begin + length]
  <2>1. ReadField(bytes, r, zero) = t
    BY <1>3 DEF ReadField
  <2>2. length \in Nat
    BY <1>1, <1>3, WordIsNumber
  <2> HIDE DEF length
  <2>3. begin \in Nat /\ begin >= r.next
    BY <1>1, SizeOfWord
  <2>4. SubSeq(bytes, begin + 1, begin + length) \in Seq(Byte)
    <3> HIDE DEF begin
    <3> QED BY <1>1, <1>3, <2>2, <2>3
  <2>5. field \in Seq(Char)
    BY <2>4, UpToNulType
  <2> HIDE DEF field
  <2>6. Append(r.row, field) \in Row
    BY <1>1, <2>5 DEF Row
  <2>7. begin + length \in Nat /\ at + WordSize <= begin + length
    <3> HIDE DEF begin
    <3> QED BY <1>1, <2>2, <2>3, SizeOfWord
  <2>8. t \in [result : {"row", "error"}, row : Row, next : Nat]
    BY <1>1, <2>6, <2>7
  <2>9. t.next = begin + length
    BY <1>1
  <2> QED BY <1>3, <2>1, <2>7, <2>8, <2>9 DEF Reading
<1>4. CASE r.result # "error" /\ ~HasWord(bytes, r.next) /\ zero
  <2> DEFINE t == [r EXCEPT !.row = Append(@, <<>>), !.next = Len(bytes)]
  <2>1. ReadField(bytes, r, zero) = t
    BY <1>4 DEF ReadField
  <2>2. Append(r.row, <<>>) \in Row
    BY <1>1 DEF Row
  <2>3. t \in [result : {"row", "error"}, row : Row, next : Nat]
    BY <1>1, <2>2
  <2>4. t.next = Len(bytes) /\ at + WordSize <= Len(bytes)
    BY <1>1, SizeOfWord
  <2> HIDE DEF t
  <2> QED BY <1>1, <2>1, <2>3, <2>4 DEF Reading
<1>5. CASE ~(r.result = "error")
           /\ ~(HasWord(bytes, r.next) /\ ~TooLong(length) /\ begin + length <= Len(bytes))
           /\ ~(~HasWord(bytes, r.next) /\ zero)
  <2>1. ReadField(bytes, r, zero) = [r EXCEPT !.result = "error"]
    BY <1>5 DEF ReadField
  <2>2. [r EXCEPT !.result = "error"] \in [result : {"row", "error"}, row : Row, next : Nat]
        /\ [r EXCEPT !.result = "error"].next = r.next
    BY <1>1
  <2> QED BY <1>1, <2>1, <2>2 DEF Reading
<1> QED BY <1>2, <1>3, <1>4, <1>5

LEMMA ReadRowIs ==
  ASSUME NEW bytes \in Seq(Byte), NEW at \in Nat, NEW zero \in BOOLEAN,
         HasWord(bytes, at), ~BadCount(WordAt(bytes, at))
  PROVE  LET count == WordAt(bytes, at)
         IN  \E f \in [0..count -> Reading(bytes, at)] :
               /\ f[0] = Outcome("row", at) /\ f[count] = ReadRow(bytes, at, zero)
               /\ \A i \in 1..count : f[i] = ReadField(bytes, f[i - 1], zero)
<1> DEFINE m == WordAt(bytes, at)
           D == Reading(bytes, at)
           start == Outcome("row", at)
           step == [i \in 1..m |-> [a \in D |-> ReadField(bytes, a, zero)]]
<1>1. m \in Nat
  BY WordIsNumber
<1>2. start \in D
  <2>1. at + WordSize \in Nat /\ <<>> \in Row /\ at + WordSize <= Len(bytes)
    BY SizeOfWord DEF HasWord, Row
  <2> QED BY <2>1 DEF Reading, Outcome
<1> HIDE DEF m, D, start
<1>3. \A i \in 1..m, a \in D : step[i][a] \in D /\ step[i][a] = ReadField(bytes, a, zero)
  BY ReadFieldType DEF D
<1>4. Looping(m, D, step)
  BY <1>3 DEF Looping
<1>5. PICK g \in [0..m -> D] : g[0] = start /\ \A i \in 1..m : g[i] = step[i][g[i - 1]]
  <2> HIDE DEF step
  <2> QED BY ONLY <1>1, <1>2, <1>4, LoopIsDefined, SMTT(30)
<1>6. \A i \in 0..m : g[i] = IF i = 0 THEN start ELSE ReadField(bytes, g[i - 1], zero)
  <2> TAKE i \in 0..m
  <2>1. CASE i = 0
    BY <1>5, <2>1
  <2>2. CASE i # 0
    <3>1. i \in 1..m /\ i - 1 \in 0..m
      BY <1>1, <2>2
    <3>2. g[i] = step[i][g[i - 1]] /\ g[i - 1] \in D
      BY <1>5, <3>1
    <3> QED BY <1>3, <2>2, <3>1, <3>2
  <2> QED BY <2>1, <2>2
<1> HIDE DEF step
<1> DEFINE IsRead(h) ==
             h = [i \in 0..m |-> IF i = 0 THEN start ELSE ReadField(bytes, h[i - 1], zero)]
           f == CHOOSE h : IsRead(h)
<1>7. IsRead(f)
  <2>1. IsRead(g)
    BY <1>6
  <2> QED BY <2>1
<1>8. ReadRow(bytes, at, zero) = f[m]
  BY DEF ReadRow, m, start
<1> HIDE DEF f
<1>9. \A i \in 0..m : f[i] = IF i = 0 THEN start ELSE ReadField(bytes, f[i - 1], zero)
  BY <1>7
<1>10. f[0] = start
  BY <1>1, <1>9
<1>11. \A i \in 1..m : f[i] = ReadField(bytes, f[i - 1], zero)
  <2> TAKE i \in 1..m
  <2>1. i \in 0..m /\ i # 0
    BY <1>1
  <2> QED BY <1>9, <2>1
<1>12. \A i \in 0..m : f[i] \in D
  <2>1. \A i \in 1..m : f[i - 1] \in D => f[i] \in D
    BY <1>11, ReadFieldType DEF D
  <2>2. f[0] \in D
    BY <1>2, <1>10
  <2> QED BY <1>1, <2>1, <2>2, LoopKeeps
<1>13. f \in [0..m -> D]
  BY <1>7, <1>12
<1> HIDE DEF IsRead
<1> QED BY <1>8, <1>10, <1>11, <1>13 DEF m, D, start

LEMMA ReadRowType ==
  ASSUME NEW bytes \in Seq(Byte), NEW at \in Nat, NEW zero \in BOOLEAN
  PROVE  LET r == ReadRow(bytes, at, zero)
         IN  /\ r \in [result : {"row", "error", "eof"}, row : Row, next : Nat]
             /\ r.result = "eof" <=> ~HasWord(bytes, at)
             /\ r.result = "row" => at + WordSize <= r.next /\ r.next <= Len(bytes)
<1>1. <<>> \in Row /\ at + WordSize \in Nat
  BY SizeOfWord DEF Row
<1>2. CASE ~HasWord(bytes, at)
  <2>1. ReadRow(bytes, at, zero) = Outcome("eof", at)
    BY <1>2 DEF ReadRow
  <2> QED BY <1>1, <1>2, <2>1 DEF Outcome
<1>3. CASE HasWord(bytes, at) /\ BadCount(WordAt(bytes, at))
  <2>1. ReadRow(bytes, at, zero) = Outcome("error", at)
    BY <1>3 DEF ReadRow
  <2> QED BY <1>1, <1>3, <2>1 DEF Outcome
<1>4. CASE HasWord(bytes, at) /\ ~BadCount(WordAt(bytes, at))
  <2> DEFINE m == WordAt(bytes, at)
  <2>1. PICK f \in [0..m -> Reading(bytes, at)] : f[m] = ReadRow(bytes, at, zero)
    BY <1>4, ReadRowIs
  <2>2. m \in 0..m
    BY <1>4, WordIsNumber
  <2>3. ReadRow(bytes, at, zero) \in Reading(bytes, at)
    BY <2>1, <2>2
  <2> QED BY <1>4, <2>3 DEF Reading
<1> QED BY <1>2, <1>3, <1>4

LEMMA HeldWord ==
  ASSUME NEW bytes \in Seq(Byte), NEW at \in Nat, NEW n \in Nat, Quotients(n)[WordSize] = 0,
         Holds(bytes, at, Word(n))
  PROVE  HasWord(bytes, at) /\ WordAt(bytes, at) = n
<1>1. Len(Word(n)) = WordSize
  BY WordType
<1>2. HasWord(bytes, at) /\ \A i \in 1..WordSize : bytes[at + i] = Word(n)[i]
  BY <1>1 DEF Holds, HasWord
<1> QED BY <1>2, WordReadBack

LEMMA HeldPiece ==
  ASSUME NEW bytes \in Seq(Byte), NEW at \in Nat, NEW piece \in Seq(Byte),
         Holds(bytes, at, piece)
  PROVE  SubSeq(bytes, at + 1, at + Len(piece)) = piece
<1> DEFINE m == Len(piece)
           t == SubSeq(bytes, at + 1, at + m)
<1>1. m \in Nat /\ Len(bytes) \in Nat /\ at + m <= Len(bytes)
      /\ \A k \in 1..m : bytes[at + k] = piece[k]
  BY DEF Holds
<1> HIDE DEF m
<1>2. \A k \in at + 1..at + m : bytes[k] \in Byte
  <2> TAKE k \in at + 1..at + m
  <2>1. k \in 1..Len(bytes)
    BY <1>1
  <2> QED BY <2>1
<1>3. t \in Seq(Byte) /\ Len(t) = m /\ \A k \in 1..m : t[k] = bytes[at + k]
  <2> DEFINE lo == at + 1
             hi == at + m
  <2>1. lo \in Int /\ hi \in Int /\ (lo <= hi => hi - lo + 1 = m) /\ (~(lo <= hi) => m = 0)
    BY <1>1
  <2>2. \A k \in lo..hi : bytes[k] \in Byte
    BY <1>2
  <2>3. \A k \in 1..m : k \in 1..hi - lo + 1 /\ lo + k - 1 = at + k
    BY <1>1
  <2> HIDE DEF lo, hi
  <2>4. /\ SubSeq(bytes, lo, hi) \in Seq(Byte)
        /\ Len(SubSeq(bytes, lo, hi)) = IF lo <= hi THEN hi - lo + 1 ELSE 0
        /\ \A k \in 1..hi - lo + 1 : SubSeq(bytes, lo, hi)[k] = bytes[lo + k - 1]
    BY SMTT(30), <2>1, <2>2, SubSeqProperties
  <2> QED BY <2>1, <2>3, <2>4 DEF lo, hi
<1> HIDE DEF t
<1>4. t = piece
  BY <1>1, <1>3, SeqEqual DEF m
<1> QED BY <1>4 DEF t, m

LEMMA ReadFieldBack ==
  ASSUME NEW bytes \in Seq(Byte), NEW at \in Nat, NEW zero \in BOOLEAN,
         NEW field \in Seq(Char), Len(field) <= MaxFieldBytes, Holds(bytes, at, Sized(field)),
         NEW row \in Row
  PROVE  ReadField(bytes, [result |-> "row", row |-> row, next |-> at], zero)
           = [result |-> "row", row |-> Append(row, field), next |-> at + Len(Sized(field))]
<1> DEFINE m == Len(field)
           r == [result |-> "row", row |-> row, next |-> at]
           begin == at + WordSize
<1>1. m \in Nat /\ field \in Seq(Byte) /\ Word(m) \in Seq(Byte) /\ Len(Word(m)) = WordSize
      /\ begin \in Nat
  BY WordType, CharsAreBytes, SizeOfWord
<1>2. Holds(bytes, at, Word(m)) /\ Holds(bytes, begin, field)
  <2> DEFINE a == Word(m)
  <2>1. Holds(bytes, at, a \o field)
    BY DEF Sized
  <2>2. Holds(bytes, at, a) /\ Holds(bytes, at + Len(a), field)
    <3> HIDE DEF a
    <3> QED BY <1>1, <2>1, HoldsParts DEF a
  <2> QED BY <1>1, <2>2
<1>3. HasWord(bytes, at) /\ WordAt(bytes, at) = m
  BY <1>1, <1>2, LimitsFit, HeldWord
<1>4. ~TooLong(m) /\ begin + m <= Len(bytes)
  <2>1. MaxFieldBytes \in Nat /\ m <= MaxFieldBytes
    BY RecordsAssumption
  <2> QED BY <1>1, <1>2, <2>1 DEF TooLong, Holds
<1>5. SubSeq(bytes, begin + 1, begin + m) = field
  <2> HIDE DEF begin
  <2> QED BY <1>1, <1>2, HeldPiece
<1>6. UpToNul(field) = field
  BY <1>1, UpToNulType
<1>7. r.result = "row" /\ r.row = row /\ r.next = at
  OBVIOUS
<1>8. ReadField(bytes, r, zero) = [r EXCEPT !.row = Append(@, field), !.next = begin + m]
  <2> HIDE DEF m, r, begin
  <2>1. ~(r.result = "error") /\ HasWord(bytes, r.next) /\ WordAt(bytes, r.next) = m
    BY <1>3, <1>7
  <2>2. r.next + WordSize = begin
    BY <1>7 DEF begin
  <2> QED BY <1>4, <1>5, <1>6, <2>1, <2>2 DEF ReadField
<1>9. begin + m = at + Len(Sized(field))
  <2> DEFINE l == Len(Sized(field))
  <2>1. l = WordSize + m
    BY SizedType
  <2> HIDE DEF l, m
  <2>2. begin + m = at + l
    BY <1>1, <2>1, SizeOfWord
  <2> QED BY <2>2 DEF l
<1> HIDE DEF begin, m
<1>10. [r EXCEPT !.row = Append(@, field), !.next = begin + m]
         = [result |-> "row", row |-> Append(row, field), next |-> begin + m]
  <2> DEFINE more == Append(row, field)
             next == begin + m
             All == [result : {"row"}, row : Row, next : Nat]
             t == [r EXCEPT !.row = more, !.next = next]
             u == [result |-> "row", row |-> more, next |-> next]
  <2>1. more \in Row /\ next \in Nat
    BY <1>1 DEF Row
  <2>2. Append(r.row, field) = more
    OBVIOUS
  <2> HIDE DEF more, next
  <2>3. t \in All /\ u \in All /\ t.result = u.result /\ t.row = u.row /\ t.next = u.next
    BY <2>1
  <2>4. t = u
    <3> HIDE DEF t, u
    <3> QED BY <2>3
  <2> QED BY <2>2, <2>4 DEF more, next
<1> QED BY <1>8, <1>9, <1>10

(* A readable row is read back from its record, whatever is behind it.     *)
LEMMA ReadRowBack ==
  ASSUME NEW bytes \in Seq(Byte), NEW at \in Nat, NEW zero \in BOOLEAN,
         NEW row \in Row, Readable(row), Holds(bytes, at, Encode(row))
  PROVE  ReadRow(bytes, at, zero)
           = [result |-> "row", row |-> row, next |-> at + Len(Encode(row))]
<1> DEFINE m == Len(row)
           part == [i \in 1..m |-> Sized(row[i])]
<1>1. PICK up : up[0] = Word(m) /\ up[m] = Encode(row) /\ PutTogether(m, up, part)
  BY EncodeIs
<1>2. /\ m \in Nat /\ m \in 1..MaxFields /\ MaxFields \in Nat
      /\ \A i \in 1..m : row[i] \in Seq(Char) /\ Len(row[i]) <= MaxFieldBytes
  <2>1. m \in Nat /\ DOMAIN row = 1..m /\ \A i \in 1..m : row[i] \in Seq(Char)
    BY DEF Row
  <2> QED BY <2>1, RecordsAssumption DEF Readable
<1>3. \A i \in 1..m : part[i] = Sized(row[i])
  OBVIOUS
<1> HIDE DEF part
<1>4. /\ \A i \in 0..m : Holds(bytes, at, up[i])
      /\ \A i \in 1..m : /\ Holds(bytes, at + Len(up[i - 1]), part[i])
                         /\ Len(up[i]) = Len(up[i - 1]) + Len(part[i])
  <2>1. m \in Nat /\ PutTogether(m, up, part) /\ Holds(bytes, at, up[m])
    BY <1>1, <1>2
  <2> HIDE DEF m
  <2>2. HoldsAll(bytes, at, m, up, part)
    BY <2>1, PartsHeld
  <2> QED BY <2>2 DEF HoldsAll
<1>5. \A i \in 0..m : Len(up[i]) \in Nat
  <2> TAKE i \in 0..m
  <2>1. up[i] \in Seq(Byte)
    BY <1>1 DEF PutTogether
  <2> QED BY <2>1
<1>6. HasWord(bytes, at) /\ WordAt(bytes, at) = m
  <2>1. Holds(bytes, at, Word(m)) /\ m <= MaxFields
    BY <1>1, <1>2, <1>4
  <2> HIDE DEF m
  <2> QED BY <1>2, <2>1, LimitsFit, HeldWord
<1>7. ~BadCount(WordAt(bytes, at))
  BY <1>2, <1>6 DEF BadCount
<1>8. PICK f \in [0..m -> Reading(bytes, at)] :
        /\ f[0] = Outcome("row", at) /\ f[m] = ReadRow(bytes, at, zero)
        /\ \A i \in 1..m : f[i] = ReadField(bytes, f[i - 1], zero)
  <2> DEFINE k == WordAt(bytes, at)
  <2>1. \E f \in [0..k -> Reading(bytes, at)] :
          /\ f[0] = Outcome("row", at) /\ f[k] = ReadRow(bytes, at, zero)
          /\ \A i \in 1..k : f[i] = ReadField(bytes, f[i - 1], zero)
    BY <1>6, <1>7, ReadRowIs
  <2> HIDE DEF k, m
  <2>2. k = m
    BY <1>6 DEF k
  <2> QED BY <2>1, <2>2
<1> DEFINE Done(i) == [result |-> "row", row |-> SubSeq(row, 1, i), next |-> at + Len(up[i])]
           P == {i \in 0..m : f[i] = Done(i)}
<1>9. 0 \in P
  <2>1. SubSeq(row, 1, 0) = <<>>
    BY DEF Row
  <2>2. Len(up[0]) = WordSize
    BY <1>1, <1>2, WordType
  <2>3. f[0] = Done(0)
    BY <1>8, <2>1, <2>2 DEF Outcome
  <2>4. 0 \in 0..m
    BY <1>2
  <2> HIDE DEF Done
  <2> QED BY <2>3, <2>4
<1>10. ASSUME NEW i \in 1..m, i - 1 \in P PROVE i \in P
  <2> DEFINE u == SubSeq(row, 1, i - 1)
             k == at + Len(up[i - 1])
             field == row[i]
  <2>1. i \in 0..m /\ i - 1 \in 0..m
    BY <1>2
  <2>2. u \in Row /\ SubSeq(row, 1, i) = Append(u, field)
    <3>1. row \in Seq(Seq(Char)) /\ i \in 1..Len(row)
      BY DEF Row
    <3>2. SubSeq(row, 1, i - 1) \in Seq(Seq(Char))
          /\ SubSeq(row, 1, i) = Append(SubSeq(row, 1, i - 1), row[i])
      BY ONLY <3>1, PrefixGrows
    <3> QED BY <3>2 DEF Row
  <2>3. k \in Nat /\ Holds(bytes, k, Sized(field)) /\ field \in Seq(Char)
        /\ Len(field) <= MaxFieldBytes
    <3>1. Len(up[i - 1]) \in Nat
      BY <1>5, <2>1
    <3>2. Holds(bytes, at + Len(up[i - 1]), part[i]) /\ part[i] = Sized(row[i])
      BY <1>3, <1>4
    <3>3. k \in Nat
      BY <3>1
    <3> HIDE DEF m
    <3> QED BY <1>2, <3>2, <3>3
  <2>4. f[i - 1] = [result |-> "row", row |-> u, next |-> k]
    BY <1>10
  <2>5. f[i] = ReadField(bytes, f[i - 1], zero)
    BY <1>8
  <2>6. k + Len(Sized(field)) = at + Len(up[i])
    <3> DEFINE a == Len(up[i - 1])
               b == Len(up[i])
               l == Len(Sized(field))
    <3>1. b = a + l
      BY <1>3, <1>4
    <3>2. a \in Nat /\ b \in Nat /\ l \in Nat
      BY <1>5, <2>1, <2>3, SizedType
    <3> HIDE DEF a, b, l
    <3>3. (at + a) + l = at + b
      BY <3>1, <3>2
    <3> QED BY <3>3 DEF a, b, l
  <2> HIDE DEF u, k, field
  <2>7. ReadField(bytes, [result |-> "row", row |-> u, next |-> k], zero)
          = [result |-> "row", row |-> Append(u, field), next |-> k + Len(Sized(field))]
    BY <2>2, <2>3, ReadFieldBack
  <2>8. f[i] = Done(i)
    BY <2>2, <2>4, <2>5, <2>6, <2>7
  <2> HIDE DEF Done
  <2> QED BY <2>1, <2>8
<1>11. \A i \in 0..m : i \in P
  <2> HIDE DEF P, m
  <2> QED BY <1>2, <1>9, <1>10, PlaceByPlace
<1>12. f[m] = Done(m)
  <2>1. m \in 0..m
    BY <1>2
  <2>2. m \in P
    BY <1>11, <2>1
  <2> QED BY <2>2
<1>13. SubSeq(row, 1, m) = row
  <2>1. row \in Seq(Seq(Char))
    BY DEF Row
  <2> QED BY <2>1
<1> QED BY <1>1, <1>8, <1>12, <1>13

(***************************************************************************)
(* The scan                                                                *)
(***************************************************************************)
Place(bytes) == [at : 0..Len(bytes) - WordSize, row : Row]
Scanned(bytes) == [ok : BOOLEAN, rows : Seq(Place(bytes))]

With(v, at, row) == [v EXCEPT !.rows = <<[at |-> at, row |-> row]>> \o @]

LEMMA WithType ==
  ASSUME NEW bytes \in Seq(Byte), NEW at \in 0..Len(bytes), NEW row \in Row,
         HasWord(bytes, at), NEW v \in Scanned(bytes)
  PROVE  /\ With(v, at, row) \in Scanned(bytes) /\ With(v, at, row).ok = v.ok
         /\ With(v, at, row).rows = <<[at |-> at, row |-> row]>> \o v.rows
<1> DEFINE p == [at |-> at, row |-> row]
<1>1. at \in 0..Len(bytes) - WordSize
  <2>1. at \in Nat /\ at + WordSize <= Len(bytes) /\ Len(bytes) \in Nat /\ WordSize \in Nat
    BY SizeOfWord DEF HasWord
  <2> QED BY <2>1
<1>2. p \in Place(bytes)
  BY <1>1 DEF Place
<1>3. v.ok \in BOOLEAN /\ v.rows \in Seq(Place(bytes))
  BY DEF Scanned
<1> HIDE DEF p
<1>4. <<p>> \o v.rows \in Seq(Place(bytes))
  BY <1>2, <1>3
<1> QED BY <1>3, <1>4 DEF With, Scanned, p

ScansFrom(bytes, zero, f) ==
  \A at \in 0..Len(bytes) :
    LET r == ReadRow(bytes, at, zero)
    IN  /\ r.result = "row" => f[at] = With(f[r.next], at, r.row)
        /\ r.result # "row" => f[at] = [ok |-> r.result = "eof", rows |-> <<>>]

LEMMA ScanIs ==
  ASSUME NEW bytes \in Seq(Byte), NEW zero \in BOOLEAN
  PROVE  \E f \in [0..Len(bytes) -> Scanned(bytes)] :
           f[0] = Scan(bytes, zero) /\ ScansFrom(bytes, zero, f)
<1> DEFINE D == 0..Len(bytes)
           all == Scanned(bytes)
           r(at) == ReadRow(bytes, at, zero)
           ends == {at \in D : r(at).result # "row"}
           left == [at \in D |-> Len(bytes) - at]
           behind == [at \in D |-> r(at).next]
           final == [at \in ends |-> [ok |-> r(at).result = "eof", rows |-> <<>>]]
           push == [at \in D |-> [v \in all |-> With(v, at, r(at).row)]]
<1>1. Len(bytes) \in Nat
  OBVIOUS
<1>2. ASSUME NEW at \in D
      PROVE  /\ r(at) \in [result : {"row", "error", "eof"}, row : Row, next : Nat]
             /\ r(at).result = "row" =>
                  HasWord(bytes, at) /\ r(at).next \in D /\ r(at).next > at
  <2>1. at \in Nat
    BY <1>1
  <2>2. /\ r(at) \in [result : {"row", "error", "eof"}, row : Row, next : Nat]
        /\ r(at).result = "eof" <=> ~HasWord(bytes, at)
        /\ r(at).result = "row" => at + WordSize <= r(at).next /\ r(at).next <= Len(bytes)
    BY <2>1, ReadRowType
  <2> HIDE DEF r
  <2>3. r(at).next \in Nat
    BY <2>2
  <2> QED BY <1>1, <2>1, <2>2, <2>3, SizeOfWord
<1> HIDE DEF r
<1>3. Descends(D, left, ends, behind)
  <2>1. left \in [D -> Nat] /\ ends \in SUBSET D
    BY <1>1
  <2>2. ASSUME NEW at \in D \ ends PROVE behind[at] \in D /\ left[behind[at]] < left[at]
    <3>1. at \in D /\ r(at).next \in D /\ r(at).next > at
      BY <1>2
    <3>2. behind[at] = r(at).next
      OBVIOUS
    <3> QED BY <1>1, <3>1, <3>2
  <2> HIDE DEF D, left, ends, behind
  <2> QED BY <2>1, <2>2 DEF Descends
<1>4. Stepping(D, all, ends, final, push)
  <2>1. \A at \in ends : final[at] \in all
    BY DEF Scanned
  <2>2. final \in [ends -> all]
    BY <2>1
  <2>3. ASSUME NEW at \in D \ ends, NEW v \in all PROVE push[at][v] \in all
    <3>1. at \in D /\ HasWord(bytes, at) /\ r(at).row \in Row
      BY <1>2
    <3>2. With(v, at, r(at).row) \in all
      BY <3>1, WithType
    <3> QED BY <3>1, <3>2
  <2> HIDE DEF D, all, ends, final, push
  <2> QED BY <2>2, <2>3 DEF Stepping
<1>5. PICK g \in [D -> all] : Recurs(g, D, ends, behind, final, push)
  <2> HIDE DEF D, all, left, ends, behind, final, push
  <2> QED BY <1>3, <1>4, RecursionExists
<1>6. \A at \in D : g[at] = IF at \in ends THEN final[at] ELSE push[at][g[behind[at]]]
  <2> HIDE DEF D, all, left, ends, behind, final, push
  <2> QED BY <1>5 DEF Recurs
<1>7. ASSUME NEW at \in D
      PROVE  g[at] = IF r(at).result = "row" THEN With(g[r(at).next], at, r(at).row)
                     ELSE [ok |-> r(at).result = "eof", rows |-> <<>>]
  <2>1. CASE r(at).result = "row"
    <3>1. at \notin ends /\ g[r(at).next] \in all
      BY <1>2, <2>1
    <3>2. g[at] = push[at][g[behind[at]]]
      BY <1>6, <3>1
    <3>3. behind[at] = r(at).next
      OBVIOUS
    <3> HIDE DEF all, behind
    <3> QED BY <2>1, <3>1, <3>2, <3>3
  <2>2. CASE r(at).result # "row"
    <3>1. at \in ends
      BY <2>2
    <3>2. g[at] = final[at]
      BY <1>6, <3>1
    <3> QED BY <2>2, <3>1, <3>2
  <2> QED BY <2>1, <2>2
<1> HIDE DEF ends, left, behind, final, push, all
<1> DEFINE IsFrom(h) ==
             h = [at \in D |->
                    IF r(at).result = "row"
                    THEN [h[r(at).next] EXCEPT !.rows = <<[at |-> at, row |-> r(at).row]>> \o @]
                    ELSE [ok |-> r(at).result = "eof", rows |-> <<>>]]
           f == CHOOSE h : IsFrom(h)
<1>8. IsFrom(g)
  <2>1. \A at \in D :
          g[at] = IF r(at).result = "row"
                  THEN [g[r(at).next] EXCEPT !.rows = <<[at |-> at, row |-> r(at).row]>> \o @]
                  ELSE [ok |-> r(at).result = "eof", rows |-> <<>>]
    BY <1>7 DEF With
  <2> QED BY <2>1
<1>9. IsFrom(f)
  BY <1>8
<1>10. Scan(bytes, zero) = f[0]
  BY DEF Scan, r
<1> HIDE DEF f
<1>11. \A at \in D :
         f[at] = IF r(at).result = "row" THEN With(f[r(at).next], at, r(at).row)
                 ELSE [ok |-> r(at).result = "eof", rows |-> <<>>]
  BY <1>9 DEF With
<1>12. ScansFrom(bytes, zero, f)
  <2> HIDE DEF IsFrom
  <2> QED BY <1>11 DEF ScansFrom, r
(* The two agree, from the last byte of the file back.                     *)
<1>13. \A k \in 0..Len(bytes) : \A at \in D : Len(bytes) - at <= k => f[at] = g[at]
  <2> DEFINE P == {k \in 0..Len(bytes) : \A at \in D : Len(bytes) - at <= k => f[at] = g[at]}
             l == Len(bytes)
  <2>1. ASSUME NEW at \in D, \A b \in D : b > at => f[b] = g[b] PROVE f[at] = g[at]
    <3>1. CASE r(at).result = "row"
      <4>1. f[r(at).next] = g[r(at).next]
        BY <1>2, <2>1, <3>1
      <4> QED BY <1>7, <1>11, <3>1, <4>1
    <3>2. CASE r(at).result # "row"
      BY <1>7, <1>11, <3>2
    <3> QED BY <3>1, <3>2
  <2>2. 0 \in P
    <3> SUFFICES ASSUME NEW at \in D, Len(bytes) - at <= 0 PROVE f[at] = g[at]
      BY <1>1
    <3>1. \A b \in D : ~(b > at)
      BY <1>1
    <3> QED BY <2>1, <3>1
  <2>3. ASSUME NEW k \in 1..l, k - 1 \in P PROVE k \in P
    <3> SUFFICES ASSUME NEW at \in D, Len(bytes) - at <= k PROVE f[at] = g[at]
      BY <1>1
    <3>1. \A b \in D : b > at => Len(bytes) - b <= k - 1
      BY <1>1
    <3>2. \A b \in D : b > at => f[b] = g[b]
      BY <2>3, <3>1
    <3> QED BY <2>1, <3>2
  <2>4. \A k \in 0..l : k \in P
    <3> HIDE DEF P, l
    <3> QED BY <1>1, <2>2, <2>3, PlaceByPlace DEF l
  <2> QED BY <2>4
<1>14. \A at \in D : f[at] = g[at]
  <2> TAKE at \in D
  <2>1. Len(bytes) - at <= Len(bytes) /\ Len(bytes) \in 0..Len(bytes)
    BY <1>1
  <2> QED BY <1>13, <2>1
<1>15. f \in [D -> all]
  <2>1. \A at \in D : f[at] \in all
    BY <1>14
  <2> QED BY <1>9, <2>1
<1> HIDE DEF IsFrom
<1> QED BY <1>10, <1>12, <1>15 DEF all, D

(***************************************************************************)
(* The rows s are laid out in the file from its first byte, at offs; what  *)
(* is behind the last of them is left open.                                *)
(***************************************************************************)
Layout(bytes, s, offs) ==
  /\ offs \in [1..Len(s) + 1 -> Nat] /\ offs[1] = 0 /\ offs[Len(s) + 1] <= Len(bytes)
  /\ \A i \in 1..Len(s) : /\ offs[i + 1] = offs[i] + Len(Encode(s[i]))
                          /\ Holds(bytes, offs[i], Encode(s[i]))

\* They were found there, and are the first that were found.
FoundAt(list, s, offs) ==
  Len(s) <= Len(list) /\ \A i \in 1..Len(s) : list[i] = [at |-> offs[i], row |-> s[i]]

AllAre(s) == \A i \in 1..Len(s) : Readable(s[i])

LEMMA ScanBack ==
  ASSUME NEW bytes \in Seq(Byte), NEW zero \in BOOLEAN, NEW s \in Seq(Row), AllAre(s),
         NEW offs, Layout(bytes, s, offs)
  PROVE  /\ FoundAt(Scan(bytes, zero).rows, s, offs)
         /\ offs[Len(s) + 1] = Len(bytes) =>
              Scan(bytes, zero).ok /\ Len(Scan(bytes, zero).rows) = Len(s)
<1> DEFINE n == Len(s)
           entry(i) == [at |-> offs[i], row |-> s[i]]
<1>1. PICK f \in [0..Len(bytes) -> Scanned(bytes)] :
        f[0] = Scan(bytes, zero) /\ ScansFrom(bytes, zero, f)
  BY ScanIs
<1>2. /\ n \in Nat /\ offs[1] = 0 /\ Len(bytes) \in Nat
      /\ \A i \in 1..n : s[i] \in Row /\ Readable(s[i])
      /\ \A i \in 1..n + 1 : offs[i] \in Nat
      /\ \A i \in 1..n : /\ offs[i + 1] = offs[i] + Len(Encode(s[i]))
                         /\ Holds(bytes, offs[i], Encode(s[i]))
  <2>1. n \in Nat /\ Len(bytes) \in Nat /\ \A i \in 1..n : s[i] \in Row
    OBVIOUS
  <2>2. \A i \in 1..n : Readable(s[i])
    BY DEF AllAre
  <2>3. offs[1] = 0 /\ \A i \in 1..n + 1 : offs[i] \in Nat
    BY DEF Layout
  <2>4. \A i \in 1..n : /\ offs[i + 1] = offs[i] + Len(Encode(s[i]))
                       /\ Holds(bytes, offs[i], Encode(s[i]))
    BY DEF Layout
  <2> HIDE DEF n
  <2> QED BY <2>1, <2>2, <2>3, <2>4
<1>3. offs[n + 1] <= Len(bytes)
  BY DEF Layout
<1> HIDE DEF n
<1>4. ASSUME NEW i \in 1..n
      PROVE  /\ offs[i] \in 0..Len(bytes) /\ offs[i + 1] \in 0..Len(bytes)
             /\ f[offs[i]].ok = f[offs[i + 1]].ok
             /\ f[offs[i]].rows = <<entry(i)>> \o f[offs[i + 1]].rows
  <2> DEFINE at == offs[i]
             l == Len(Encode(s[i]))
             r == ReadRow(bytes, at, zero)
  <2>1. i \in 1..n + 1 /\ i + 1 \in 1..n + 1
    BY <1>2
  <2>2. at \in Nat /\ s[i] \in Row /\ Readable(s[i]) /\ Holds(bytes, at, Encode(s[i]))
        /\ offs[i + 1] = at + l
    BY <1>2, <2>1
  <2>3. l \in Nat /\ l >= WordSize /\ Encode(s[i]) \in Seq(Byte)
    BY <2>2, EncodeType
  <2>4. at + l <= Len(bytes)
    BY <2>2 DEF Holds
  <2>5. r = [result |-> "row", row |-> s[i], next |-> at + l]
    BY <2>2, ReadRowBack
  <2> HIDE DEF r, l
  <2>6. at \in 0..Len(bytes) /\ at + l \in 0..Len(bytes) /\ HasWord(bytes, at)
    BY SMTT(30), <1>2, <2>2, <2>3, <2>4, SizeOfWord DEF HasWord
  <2>7. f[at] = With(f[at + l], at, s[i])
    <3>1. r.result = "row" /\ r.row = s[i] /\ r.next = at + l
      BY <2>5
    <3>2. r.result = "row" => f[at] = With(f[r.next], at, r.row)
      BY <1>1, <2>6 DEF ScansFrom, r
    <3> QED BY <3>1, <3>2
  <2> DEFINE v == f[at + l]
  <2>8. v \in Scanned(bytes)
    BY <2>6
  <2> HIDE DEF v, at
  <2>9. With(v, at, s[i]).ok = v.ok /\ With(v, at, s[i]).rows = <<[at |-> at, row |-> s[i]]>> \o v.rows
    BY <2>2, <2>6, <2>8, WithType
  <2> QED BY <2>2, <2>6, <2>7, <2>9 DEF v, at
<1> DEFINE a == f[0].rows
           behind(i) == f[offs[i + 1]].rows
           Upto(i) == /\ f[0].ok = f[offs[i + 1]].ok
                      /\ Len(a) = i + Len(behind(i))
                      /\ \A k \in 1..i : a[k] = entry(k)
                      /\ \A k \in 1..Len(behind(i)) : a[i + k] = behind(i)[k]
           P == {i \in 0..n : Upto(i)}
<1>5. \A i \in 0..n : behind(i) \in Seq(Place(bytes)) /\ Len(behind(i)) \in Nat
  <2> TAKE i \in 0..n
  <2>1. offs[i + 1] \in 0..Len(bytes)
    <3>1. CASE i = 0
      BY <1>2, <3>1
    <3>2. CASE i # 0
      <4>1. i \in 1..n
        BY <1>2, <3>2
      <4> QED BY <1>4, <4>1
    <3> QED BY <3>1, <3>2
  <2>2. f[offs[i + 1]] \in Scanned(bytes)
    BY <2>1
  <2> QED BY <2>2 DEF Scanned
<1>6. 0 \in P
  <2>1. offs[0 + 1] = 0 /\ 0 \in 0..n
    BY <1>2
  <2>2. behind(0) = a
    BY <2>1
  <2>3. Len(a) \in Nat
    BY <1>5, <2>1, <2>2
  <2>4. Upto(0)
    <3> HIDE DEF a, entry
    <3> QED BY <2>1, <2>2, <2>3
  <2> QED BY <2>1, <2>4
<1>7. ASSUME NEW i \in 1..n, i - 1 \in P PROVE i \in P
  <2> DEFINE u == behind(i - 1)
             w == behind(i)
             e == entry(i)
  <2>1. i \in 0..n /\ i - 1 \in 0..n /\ i - 1 + 1 = i /\ i \in Nat
    BY <1>2
  <2>2. f[0].ok = f[offs[i]].ok /\ f[offs[i]].ok = f[offs[i + 1]].ok /\ u = <<e>> \o w
    BY <1>4, <1>7, <2>1
  <2>3. Len(a) = i - 1 + Len(u) /\ (\A k \in 1..i - 1 : a[k] = entry(k))
        /\ (\A k \in 1..Len(u) : a[i - 1 + k] = u[k])
    BY <1>7
  <2>4. w \in Seq(Place(bytes)) /\ Len(w) \in Nat
    BY <1>5, <2>1
  <2> HIDE DEF u, w, e, behind, a
  <2>5. Len(u) = 1 + Len(w) /\ u[1] = e /\ \A k \in 1..Len(w) : u[1 + k] = w[k]
    BY <2>2, <2>4
  <2>6. a[i] = e
    <3>1. 1 \in 1..Len(u)
      BY <2>4, <2>5
    <3>2. a[i - 1 + 1] = u[1]
      BY ONLY <2>3, <3>1
    <3> QED BY <2>1, <2>5, <3>2
  <2>7. ASSUME NEW k \in 1..Len(w) PROVE a[i + k] = w[k]
    <3>1. 1 + k \in 1..Len(u) /\ i - 1 + (1 + k) = i + k
      BY <2>1, <2>4, <2>5
    <3>2. a[i - 1 + (1 + k)] = u[1 + k]
      BY ONLY <2>3, <3>1
    <3> QED BY <2>5, <3>1, <3>2
  <2>8. Len(a) = i + Len(w)
    BY <2>1, <2>3, <2>4, <2>5
  <2>9. \A k \in 1..i : a[k] = entry(k)
    <3> TAKE k \in 1..i
    <3>1. k = i \/ k \in 1..i - 1
      BY <2>1
    <3> QED BY <2>3, <2>6, <3>1 DEF e
  <2>10. Upto(i)
    BY <2>2, <2>7, <2>8, <2>9 DEF w
  <2> HIDE DEF Upto
  <2> QED BY <2>1, <2>10
<1>8. \A i \in 0..n : i \in P
  <2> HIDE DEF P
  <2> QED BY <1>2, <1>6, <1>7, PlaceByPlace
<1>9. Upto(n)
  <2>1. n \in 0..n
    BY <1>2
  <2>2. n \in P
    <3> HIDE DEF P
    <3> QED BY <1>8, <2>1
  <2> QED BY <2>2
<1>10. Len(behind(n)) \in Nat
  <2>1. n \in 0..n
    BY <1>2
  <2> QED BY <1>5, <2>1
<1>11. n <= Len(a) /\ \A i \in 1..n : a[i] = entry(i)
  <2> HIDE DEF a, behind
  <2> QED BY <1>2, <1>9, <1>10
<1>12. ASSUME offs[n + 1] = Len(bytes) PROVE f[0].ok /\ Len(a) = n
  <2> DEFINE l == Len(bytes)
             r == ReadRow(bytes, l, zero)
  <2>1. l \in Nat /\ l \in 0..Len(bytes) /\ ~HasWord(bytes, l)
    BY <1>2, SizeOfWord DEF HasWord
  <2>2. r.result = "eof"
    <3> HIDE DEF l
    <3> QED BY <2>1, ReadRowType
  <2>3. f[l] = [ok |-> r.result = "eof", rows |-> <<>>]
    <3>1. r.result # "row"
      BY <2>2
    <3> HIDE DEF l
    <3>2. r.result # "row" => f[l] = [ok |-> r.result = "eof", rows |-> <<>>]
      BY <1>1, <2>1 DEF ScansFrom
    <3> HIDE DEF r
    <3> QED BY <3>1, <3>2
  <2> HIDE DEF r
  <2>4. f[l].ok /\ f[l].rows = <<>>
    <3>1. f[l] = [ok |-> TRUE, rows |-> <<>>]
      BY <2>2, <2>3
    <3> QED BY <3>1
  <2>5. behind(n) = f[l].rows /\ f[0].ok = f[l].ok /\ Len(a) = n + Len(behind(n))
    BY <1>9, <1>12
  <2>6. Len(behind(n)) = 0
    BY <2>4, <2>5
  <2> HIDE DEF behind, a
  <2> QED BY <1>2, <2>4, <2>5, <2>6
<1> QED BY <1>1, <1>11, <1>12 DEF FoundAt, n

(***************************************************************************)
(* The guess                                                               *)
(***************************************************************************)
Skipping == [ok : BOOLEAN, next : Nat]

LEMMA SkipFieldType ==
  ASSUME NEW bytes \in Seq(Byte), NEW small \in BOOLEAN, NEW r \in Skipping
  PROVE  SkipField(bytes, r, small) \in Skipping
<1>1. r.ok \in BOOLEAN /\ r.next \in Nat
  BY DEF Skipping
<1>2. CASE HasWord(bytes, r.next)
  <2>1. WordAt(bytes, r.next) \in Nat
    BY <1>1, <1>2, WordIsNumber
  <2> DEFINE length == WordAt(bytes, r.next)
             good == r.ok /\ ~TooLong(length)
             next == r.next + WordSize + length
  <2>2. next \in Nat /\ good \in BOOLEAN
    BY <1>1, <2>1, SizeOfWord
  <2>3. SkipField(bytes, r, small) = [ok |-> good, next |-> next]
    BY <1>2 DEF SkipField
  <2> HIDE DEF good, next
  <2> QED BY <2>2, <2>3 DEF Skipping
<1>3. CASE ~HasWord(bytes, r.next)
  <2> DEFINE good == r.ok /\ small
  <2>1. SkipField(bytes, r, small) = [ok |-> good, next |-> r.next]
    BY <1>3 DEF SkipField
  <2>2. good \in BOOLEAN
    BY <1>1
  <2> HIDE DEF good
  <2> QED BY <1>1, <2>1, <2>2 DEF Skipping
<1> QED BY <1>2, <1>3

LEMMA LooksBinaryIs ==
  ASSUME NEW bytes \in Seq(Byte), NEW small \in BOOLEAN, HasWord(bytes, 0)
  PROVE  LET count == WordAt(bytes, 0)
         IN  \E f \in [0..count -> Skipping] :
               /\ f[0] = [ok |-> TRUE, next |-> WordSize]
               /\ LooksBinary(bytes, small) <=> ~BadCount(count) /\ f[count].ok
               /\ \A i \in 1..count : f[i] = SkipField(bytes, f[i - 1], small)
<1> DEFINE m == WordAt(bytes, 0)
           start == [ok |-> TRUE, next |-> WordSize]
           skip == [i \in 1..m |-> [a \in Skipping |-> SkipField(bytes, a, small)]]
<1>1. m \in Nat
  BY WordIsNumber
<1>2. start \in Skipping
  BY SizeOfWord DEF Skipping
<1> HIDE DEF m, start
<1>3. \A i \in 1..m, a \in Skipping :
        skip[i][a] \in Skipping /\ skip[i][a] = SkipField(bytes, a, small)
  BY SkipFieldType
<1>4. Looping(m, Skipping, skip)
  BY <1>3 DEF Looping
<1>5. PICK g \in [0..m -> Skipping] :
        g[0] = start /\ \A i \in 1..m : g[i] = skip[i][g[i - 1]]
  <2> HIDE DEF skip
  <2> QED BY ONLY <1>1, <1>2, <1>4, LoopIsDefined, SMTT(30)
<1>6. \A i \in 0..m : g[i] = IF i = 0 THEN start ELSE SkipField(bytes, g[i - 1], small)
  <2> TAKE i \in 0..m
  <2>1. CASE i = 0
    BY <1>5, <2>1
  <2>2. CASE i # 0
    <3>1. i \in 1..m /\ i - 1 \in 0..m
      BY <1>1, <2>2
    <3>2. g[i] = skip[i][g[i - 1]] /\ g[i - 1] \in Skipping
      BY <1>5, <3>1
    <3> QED BY <1>3, <2>2, <3>1, <3>2
  <2> QED BY <2>1, <2>2
<1> HIDE DEF skip
<1> DEFINE IsSkip(h) ==
             h = [i \in 0..m |-> IF i = 0 THEN start ELSE SkipField(bytes, h[i - 1], small)]
           f == CHOOSE h : IsSkip(h)
<1>7. IsSkip(f)
  <2>1. IsSkip(g)
    BY <1>6
  <2> QED BY <2>1
<1>8. LooksBinary(bytes, small) <=> ~BadCount(m) /\ f[m].ok
  BY DEF LooksBinary, m, start
<1> HIDE DEF f
<1>9. \A i \in 0..m : f[i] = IF i = 0 THEN start ELSE SkipField(bytes, f[i - 1], small)
  BY <1>7
<1>10. f[0] = start
  BY <1>1, <1>9
<1>11. \A i \in 1..m : f[i] = SkipField(bytes, f[i - 1], small)
  <2> TAKE i \in 1..m
  <2>1. i \in 0..m /\ i # 0
    BY <1>1
  <2> QED BY <1>9, <2>1
<1>12. \A i \in 0..m : f[i] \in Skipping
  <2>1. \A i \in 1..m : f[i - 1] \in Skipping => f[i] \in Skipping
    BY <1>11, SkipFieldType
  <2>2. f[0] \in Skipping
    BY <1>2, <1>10
  <2> QED BY <1>1, <2>1, <2>2, LoopKeeps
<1>13. f \in [0..m -> Skipping]
  BY <1>7, <1>12
<1> HIDE DEF IsSkip
<1> QED BY <1>8, <1>10, <1>11, <1>13 DEF m, start

(* A file that begins with the record of a readable row looks binary.      *)
LEMMA RecordLooksBinary ==
  ASSUME NEW bytes \in Seq(Byte), NEW small \in BOOLEAN,
         NEW row \in Row, Readable(row), Holds(bytes, 0, Encode(row))
  PROVE  LooksBinary(bytes, small)
<1> DEFINE m == Len(row)
           part == [i \in 1..m |-> Sized(row[i])]
<1>1. PICK up : up[0] = Word(m) /\ up[m] = Encode(row) /\ PutTogether(m, up, part)
  BY EncodeIs
<1>2. /\ m \in Nat /\ m \in 1..MaxFields /\ MaxFields \in Nat
      /\ \A i \in 1..m : row[i] \in Seq(Char) /\ Len(row[i]) <= MaxFieldBytes
  <2>1. m \in Nat /\ DOMAIN row = 1..m /\ \A i \in 1..m : row[i] \in Seq(Char)
    BY DEF Row
  <2> QED BY <2>1, RecordsAssumption DEF Readable
<1>3. \A i \in 1..m : part[i] = Sized(row[i])
  OBVIOUS
<1> HIDE DEF part
<1> DEFINE at == 0
<1>4. HoldsAll(bytes, at, m, up, part)
  <2>1. m \in Nat /\ PutTogether(m, up, part) /\ Holds(bytes, at, up[m]) /\ at \in Nat
    BY <1>1, <1>2
  <2> HIDE DEF m, at
  <2> QED BY <2>1, PartsHeld
<1>5. /\ \A i \in 0..m : Holds(bytes, 0, up[i])
      /\ \A i \in 1..m : /\ Holds(bytes, 0 + Len(up[i - 1]), part[i])
                         /\ Len(up[i]) = Len(up[i - 1]) + Len(part[i])
  BY <1>4 DEF HoldsAll
<1>6. \A i \in 0..m : Len(up[i]) \in Nat
  <2> TAKE i \in 0..m
  <2>1. up[i] \in Seq(Byte)
    BY <1>1 DEF PutTogether
  <2> QED BY <2>1
<1>7. HasWord(bytes, 0) /\ WordAt(bytes, 0) = m
  <2>1. Holds(bytes, at, Word(m)) /\ m <= MaxFields /\ at \in Nat
    BY <1>1, <1>2, <1>5
  <2>2. HasWord(bytes, at) /\ WordAt(bytes, at) = m
    <3> HIDE DEF m, at
    <3> QED BY <1>2, <2>1, LimitsFit, HeldWord
  <2> QED BY <2>2
<1>8. ~BadCount(WordAt(bytes, 0))
  BY <1>2, <1>7 DEF BadCount
<1>9. PICK f \in [0..m -> Skipping] :
        /\ f[0] = [ok |-> TRUE, next |-> WordSize]
        /\ LooksBinary(bytes, small) <=> ~BadCount(m) /\ f[m].ok
        /\ \A i \in 1..m : f[i] = SkipField(bytes, f[i - 1], small)
  <2> DEFINE k == WordAt(bytes, 0)
  <2>1. \E f \in [0..k -> Skipping] :
          /\ f[0] = [ok |-> TRUE, next |-> WordSize]
          /\ LooksBinary(bytes, small) <=> ~BadCount(k) /\ f[k].ok
          /\ \A i \in 1..k : f[i] = SkipField(bytes, f[i - 1], small)
    BY <1>7, LooksBinaryIs
  <2> HIDE DEF k, m
  <2>2. k = m
    BY <1>7 DEF k
  <2> QED BY <2>1, <2>2
<1> DEFINE P == {i \in 0..m : f[i] = [ok |-> TRUE, next |-> Len(up[i])]}
<1>10. 0 \in P
  <2>1. Len(up[0]) = WordSize /\ 0 \in 0..m
    BY <1>1, <1>2, WordType
  <2> QED BY <1>9, <2>1
<1>11. ASSUME NEW i \in 1..m, i - 1 \in P PROVE i \in P
  <2> DEFINE k == Len(up[i - 1])
             field == row[i]
             a == Word(Len(field))
             r == [ok |-> TRUE, next |-> k]
  <2>1. i \in 0..m /\ i - 1 \in 0..m
    BY <1>2
  <2>2. k \in Nat /\ field \in Seq(Char) /\ Len(field) <= MaxFieldBytes /\ Len(field) \in Nat
    <3>1. k \in Nat
      BY <1>6, <2>1
    <3> HIDE DEF k
    <3> QED BY <1>2, <3>1
  <2>3. Holds(bytes, k, Sized(field)) /\ Len(up[i]) = k + Len(Sized(field))
    <3>1. 0 + Len(up[i - 1]) = k
      BY <2>2
    <3>2. /\ Holds(bytes, 0 + Len(up[i - 1]), part[i])
          /\ Len(up[i]) = Len(up[i - 1]) + Len(part[i])
      BY <1>5
    <3>3. part[i] = Sized(field)
      BY <1>3
    <3> QED BY <3>1, <3>2, <3>3
  <2>4. Len(Sized(field)) = WordSize + Len(field)
    BY <2>2, SizedType
  <2>5. f[i - 1] = r /\ f[i] = SkipField(bytes, f[i - 1], small)
    BY <1>9, <1>11
  <2>6. a \in Seq(Byte) /\ field \in Seq(Byte) /\ Holds(bytes, k, a \o field)
    BY <2>2, <2>3, WordType, CharsAreBytes DEF Sized
  <2>7. Holds(bytes, k, a)
    <3> HIDE DEF a, k, field
    <3> QED BY <2>2, <2>6, HoldsParts
  <2> HIDE DEF k, field
  <2>8. HasWord(bytes, k) /\ WordAt(bytes, k) = Len(field)
    BY <2>2, <2>7, LimitsFit, HeldWord
  <2> DEFINE l == Len(field)
             next == k + WordSize + l
  <2>9. ~TooLong(l)
    <3>1. MaxFieldBytes \in Nat
      BY RecordsAssumption
    <3> QED BY <2>2, <3>1 DEF TooLong
  <2>10. r.ok = TRUE /\ r.next = k
    OBVIOUS
  <2> HIDE DEF r
  <2>11. SkipField(bytes, r, small) = [ok |-> r.ok /\ ~TooLong(l), next |-> next]
    BY <2>8, <2>10 DEF SkipField
  <2>12. next = Len(up[i])
    <3> DEFINE all == Len(up[i])
               size == Len(Sized(field))
    <3>1. all = k + size /\ size = WordSize + l /\ l \in Nat
      BY <2>2, <2>3, <2>4
    <3> HIDE DEF all, size, l
    <3>2. k + WordSize + l = all
      BY <2>2, <3>1, SizeOfWord
    <3> QED BY <3>2 DEF all
  <2>13. (r.ok /\ ~TooLong(l)) = TRUE
    BY <2>9, <2>10
  <2> HIDE DEF next, l
  <2>14. f[i] = [ok |-> TRUE, next |-> Len(up[i])]
    BY <2>5, <2>11, <2>12, <2>13
  <2> QED BY <2>1, <2>14
<1>12. \A i \in 0..m : i \in P
  <2> HIDE DEF P, m
  <2> QED BY <1>2, <1>10, <1>11, PlaceByPlace
<1>13. f[m].ok
  <2>1. m \in 0..m
    BY <1>2
  <2>2. f[m] = [ok |-> TRUE, next |-> Len(up[m])]
    BY <1>12, <2>1
  <2> QED BY <2>2
<1> QED BY <1>7, <1>8, <1>9, <1>13

(* A text of at least a word does not: its count is beyond the limit.      *)
LEMMA TextDoesNotLookBinary ==
  ASSUME NEW bytes \in Seq(Char), Len(bytes) >= WordSize, NEW small \in BOOLEAN
  PROVE  ~LooksBinary(bytes, small)
<1> DEFINE at == 0
           n == WordAt(bytes, at)
           k == WordSize - 1
<1>1. bytes \in Seq(Byte) /\ at \in Nat /\ HasWord(bytes, at) /\ at + WordSize = WordSize
  BY CharsAreBytes, SizeOfWord DEF HasWord
<1>2. n \in Nat
  <2> HIDE DEF at
  <2> QED BY <1>1, WordIsNumber
<1>3. Quotients(n)[k] = bytes[WordSize]
  <2> HIDE DEF at
  <2>1. Quotients(WordAt(bytes, at))[WordSize - 1] = bytes[at + WordSize]
    BY <1>1, HighByte
  <2> QED BY <1>1, <2>1
<1>4. bytes[WordSize] >= 1 /\ bytes[WordSize] \in Nat
  <2>1. WordSize \in 1..Len(bytes)
    BY SizeOfWord
  <2>2. bytes[WordSize] \in Char
    BY <2>1
  <2> QED BY <2>2, CharsAreNumbers
<1>5. ~(n <= MaxFields)
  <2> SUFFICES ASSUME n <= MaxFields PROVE FALSE
    OBVIOUS
  <2>1. MaxFields \in Nat /\ Quotients(MaxFields)[k] = 0 /\ k \in 0..WordSize
    BY RecordsAssumption, SizeOfWord
  <2> HIDE DEF n, k
  <2>2. Quotients(n)[k] <= Quotients(MaxFields)[k]
    BY <1>2, <2>1, LessIsLeft
  <2> QED BY <1>3, <1>4, <2>1, <2>2
<1>6. BadCount(WordAt(bytes, 0))
  BY <1>2, <1>5, RecordsAssumption DEF BadCount
<1> QED BY <1>1, <1>6 DEF LooksBinary

(***************************************************************************)
(* Text                                                                    *)
(***************************************************************************)
Splitting == [row : Row, field : Seq(Char), escape : BOOLEAN, over : BOOLEAN]
SplitStep == [r \in Splitting |-> [c \in Byte |-> SplitByte(r, c)]]

LEMMA Codes ==
  /\ NUL \in Byte /\ NL \in Char /\ CR \in Char /\ Bar \in Char /\ Backslash \in Char
  /\ NUL = 0 /\ NL = 10 /\ CR = 13 /\ Bar = 124 /\ Backslash = 92
  /\ \A c \in Byte : c # NUL => c \in Char
  BY DEF NUL, NL, CR, Bar, Backslash, Byte, Char

LEMMA CutType ==
  ASSUME NEW r \in Splitting
  PROVE  /\ Cut(r) \in Splitting /\ [Cut(r) EXCEPT !.over = TRUE] \in Splitting
         /\ Cut(r).row = Append(r.row, r.field) /\ Cut(r).field = <<>>
         /\ Cut(r).escape = r.escape /\ Cut(r).over = r.over
<1>1. r.row \in Seq(Seq(Char)) /\ r.field \in Seq(Char)
      /\ r.escape \in BOOLEAN /\ r.over \in BOOLEAN
  BY DEF Splitting, Row
<1> DEFINE more == Append(r.row, r.field)
<1>2. more \in Row /\ <<>> \in Seq(Char)
  BY <1>1 DEF Row
<1> HIDE DEF more
<1>3. Cut(r) = [r EXCEPT !.row = more, !.field = <<>>]
  BY DEF Cut, more
<1>4. Cut(r) \in Splitting
  BY <1>2, <1>3 DEF Splitting
<1>5. [Cut(r) EXCEPT !.over = TRUE] \in Splitting
  BY <1>4 DEF Splitting
<1>6. Cut(r).row = more /\ Cut(r).field = <<>> /\ Cut(r).escape = r.escape /\ Cut(r).over = r.over
  BY <1>3 DEF Splitting
<1> QED BY <1>4, <1>5, <1>6 DEF more

LEMMA AddType ==
  ASSUME NEW r \in Splitting, NEW c \in Char
  PROVE  /\ Add(r, c) \in Splitting
         /\ Add(r, c).field = Append(r.field, c) /\ Add(r, c).row = r.row
         /\ Add(r, c).escape = r.escape /\ Add(r, c).over = r.over
<1> DEFINE more == Append(r.field, c)
<1>1. more \in Seq(Char)
  BY DEF Splitting
<1> HIDE DEF more
<1>2. Add(r, c) = [r EXCEPT !.field = more]
  BY DEF Add, more
<1> QED BY <1>1, <1>2 DEF Splitting, more

LEMMA EscapeType ==
  ASSUME NEW r \in Splitting, NEW b \in BOOLEAN
  PROVE  /\ [r EXCEPT !.escape = b] \in Splitting
         /\ [r EXCEPT !.escape = b].escape = b /\ [r EXCEPT !.escape = b].field = r.field
         /\ [r EXCEPT !.escape = b].row = r.row /\ [r EXCEPT !.escape = b].over = r.over
  BY DEF Splitting

LEMMA UnescapedType ==
  ASSUME NEW c \in Escapes
  PROVE  Unescaped(c) \in Char
  BY Codes DEF Escapes, Unescaped, Char

LEMMA SplitPlainType ==
  ASSUME NEW r \in Splitting, NEW c \in Byte
  PROVE  SplitPlain(r, c) \in Splitting
<1>1. CASE c \in {NUL, NL}
  <2>1. SplitPlain(r, c) = [Cut(r) EXCEPT !.over = TRUE]
    BY <1>1, Codes DEF SplitPlain
  <2> QED BY <2>1, CutType
<1>2. CASE c = CR
  <2>1. SplitPlain(r, c) = r
    BY <1>2, Codes DEF SplitPlain
  <2> QED BY <2>1
<1>3. CASE c = Bar
  <2>1. SplitPlain(r, c) = Cut(r)
    BY <1>3, Codes DEF SplitPlain
  <2> QED BY <2>1, CutType
<1>4. CASE c = Backslash
  <2>1. SplitPlain(r, c) = [r EXCEPT !.escape = TRUE]
    BY <1>4, Codes DEF SplitPlain
  <2> QED BY <2>1, EscapeType
<1>5. CASE c \notin {NUL, NL, CR, Bar, Backslash}
  <2>1. SplitPlain(r, c) = Add(r, c)
    BY <1>5, Codes DEF SplitPlain
  <2>2. c \in Char
    BY <1>5, Codes
  <2> QED BY <2>1, <2>2, AddType
<1> QED BY <1>1, <1>2, <1>3, <1>4, <1>5

LEMMA SplitByteType ==
  ASSUME NEW r \in Splitting, NEW c \in Byte
  PROVE  SplitByte(r, c) \in Splitting
<1> DEFINE after == [r EXCEPT !.escape = FALSE]
<1>1. after \in Splitting
  BY EscapeType
<1> HIDE DEF after
<1>2. CASE r.over
  BY <1>2 DEF SplitByte
<1>3. CASE ~r.over /\ r.escape /\ c \in Escapes
  <2>1. SplitByte(r, c) = Add(after, Unescaped(c))
    BY <1>3 DEF SplitByte, after
  <2> QED BY <1>1, <1>3, <2>1, UnescapedType, AddType
<1>4. CASE ~r.over /\ r.escape /\ c \notin Escapes
  <2>1. SplitByte(r, c) = SplitPlain(Add(after, Backslash), c)
    BY <1>4 DEF SplitByte, after
  <2> QED BY <1>1, <2>1, Codes, AddType, SplitPlainType
<1>5. CASE ~r.over /\ ~r.escape
  <2>1. SplitByte(r, c) = SplitPlain(r, c)
    BY <1>5 DEF SplitByte
  <2> QED BY <2>1, SplitPlainType
<1> QED BY <1>2, <1>3, <1>4, <1>5

LEMMA SplitMachine ==
  /\ Machine(Splitting, Byte, SplitStep) /\ NoField \in Splitting
  /\ \A r \in Splitting, c \in Byte : SplitStep[r][c] = SplitByte(r, c)
<1>1. NoField \in Splitting
  BY DEF NoField, Splitting, Row
<1>2. \A r \in Splitting, c \in Byte : SplitByte(r, c) \in Splitting
  BY SplitByteType
<1> QED BY <1>1, <1>2 DEF SplitStep, Machine

LEMMA SplitLineIs ==
  ASSUME NEW line \in Seq(Byte)
  PROVE  /\ SplitLine(line) = Run(SplitStep, NoField, Append(line, NUL)).row
         /\ SplitLine(line) \in Row
<1> DEFINE text == Append(line, NUL)
           m == Len(text)
<1>1. text \in Seq(Byte) /\ m \in Nat /\ \A i \in 1..m : text[i] \in Byte
  BY Codes
<1> HIDE DEF text
<1>2. PICK g \in [0..m -> Splitting] :
        /\ g[0] = NoField /\ g[m] = Run(SplitStep, NoField, text)
        /\ \A i \in 1..m : g[i] = SplitStep[g[i - 1]][text[i]]
  <2> DEFINE B1 == Splitting
             B2 == Byte
             first == NoField
             go == SplitStep
  <2>1. Machine(B1, B2, go) /\ first \in B1 /\ text \in Seq(B2)
    BY <1>1, SplitMachine
  <2> HIDE DEF B1, B2, first, go
  <2>2. \E g \in [0..Len(text) -> B1] :
          /\ g[0] = first /\ g[Len(text)] = Run(go, first, text)
          /\ \A i \in 1..Len(text) : g[i] = go[g[i - 1]][text[i]]
    BY <2>1, RunIsDefined
  <2> QED BY <2>2 DEF B1, first, go
<1>3. \A i \in 0..m : g[i] = IF i = 0 THEN NoField ELSE SplitByte(g[i - 1], text[i])
  <2> TAKE i \in 0..m
  <2>1. CASE i = 0
    BY <1>2, <2>1
  <2>2. CASE i # 0
    <3>1. i \in 1..m /\ i - 1 \in 0..m
      BY <1>1, <2>2
    <3>2. g[i] = SplitStep[g[i - 1]][text[i]] /\ g[i - 1] \in Splitting /\ text[i] \in Byte
      BY <1>1, <1>2, <3>1
    <3> QED BY <2>2, <3>2, SplitMachine
  <2> QED BY <2>1, <2>2
<1> DEFINE IsSplit(h) ==
             h = [i \in 0..m |-> IF i = 0 THEN NoField ELSE SplitByte(h[i - 1], text[i])]
           f0 == CHOOSE h : IsSplit(h)
<1>4. IsSplit(f0)
  <2>1. IsSplit(g)
    BY <1>3
  <2> QED BY <2>1
<1>5. SplitLine(line) = f0[m].row
  BY DEF SplitLine, text
<1> HIDE DEF f0
<1>6. \A i \in 0..m : f0[i] = IF i = 0 THEN NoField ELSE SplitByte(f0[i - 1], text[i])
  BY <1>4
<1> HIDE DEF IsSplit
<1>7. \A i \in 0..m : f0[i] = g[i]
  <2> DEFINE P == {i \in 0..m : f0[i] = g[i]}
  <2>1. 0 \in P
    BY <1>1, <1>3, <1>6
  <2>2. ASSUME NEW i \in 1..m, i - 1 \in P PROVE i \in P
    <3>1. i \in 0..m /\ i # 0 /\ f0[i - 1] = g[i - 1]
      BY <1>1, <2>2
    <3>2. f0[i] = g[i]
      BY <1>3, <1>6, <3>1
    <3> QED BY <3>1, <3>2
  <2>3. \A i \in 0..m : i \in P
    <3> HIDE DEF P, m
    <3> QED BY <1>1, <2>1, <2>2, PlaceByPlace
  <2> QED BY <2>3
<1>8. f0[m] = g[m] /\ g[m] \in Splitting
  <2>1. m \in 0..m
    BY <1>1
  <2> QED BY <1>7, <2>1
<1> QED BY <1>2, <1>5, <1>8 DEF Splitting, text

Collecting == [line : Seq(Byte), rows : Seq(Row)]
ReadStep == [r \in Collecting |-> [c \in Byte |-> ReadByte(r, c)]]

LEMMA EndLineType ==
  ASSUME NEW r \in Collecting
  PROVE  EndLine(r) \in Collecting
<1> DEFINE row == SplitLine(r.line)
           list == IF row = <<<<>>>> THEN r.rows ELSE Append(r.rows, row)
<1>1. r.line \in Seq(Byte) /\ r.rows \in Seq(Row)
  BY DEF Collecting
<1>2. row \in Row
  BY <1>1, SplitLineIs
<1> HIDE DEF row
<1>3. list \in Seq(Row)
  BY <1>1, <1>2
<1>4. EndLine(r) = [line |-> <<>>, rows |-> list]
  BY DEF EndLine, row
<1> HIDE DEF list
<1> QED BY <1>3, <1>4 DEF Collecting

LEMMA ReadMachine ==
  /\ Machine(Collecting, Byte, ReadStep) /\ NoLine \in Collecting
  /\ \A r \in Collecting, c \in Byte : ReadStep[r][c] = ReadByte(r, c)
<1>1. NoLine \in Collecting
  BY DEF NoLine, Collecting
<1>2. ASSUME NEW r \in Collecting, NEW c \in Byte PROVE ReadByte(r, c) \in Collecting
  <2> DEFINE more == [r EXCEPT !.line = Append(@, c)]
  <2>1. Append(r.line, c) \in Seq(Byte)
    BY DEF Collecting
  <2>2. more \in Collecting
    BY <2>1 DEF Collecting
  <2>3. ReadByte(r, c) = IF c = NL THEN EndLine(more) ELSE more
    BY DEF ReadByte
  <2> HIDE DEF more
  <2> QED BY <2>2, <2>3, EndLineType
<1> QED BY <1>1, <1>2 DEF ReadStep, Machine

LEMMA TextRowsIs ==
  ASSUME NEW bytes \in Seq(Byte)
  PROVE  /\ TextRows(bytes) = EndLine(Run(ReadStep, NoLine, bytes)).rows
         /\ TextRows(bytes) \in Seq(Row)
<1> DEFINE m == Len(bytes)
<1>1. m \in Nat /\ \A i \in 1..m : bytes[i] \in Byte
  OBVIOUS
<1>2. PICK g \in [0..m -> Collecting] :
        /\ g[0] = NoLine /\ g[m] = Run(ReadStep, NoLine, bytes)
        /\ \A i \in 1..m : g[i] = ReadStep[g[i - 1]][bytes[i]]
  <2> DEFINE B1 == Collecting
             B2 == Byte
             first == NoLine
             go == ReadStep
  <2>1. Machine(B1, B2, go) /\ first \in B1 /\ bytes \in Seq(B2)
    BY ReadMachine
  <2> HIDE DEF B1, B2, first, go
  <2>2. \E g \in [0..Len(bytes) -> B1] :
          /\ g[0] = first /\ g[Len(bytes)] = Run(go, first, bytes)
          /\ \A i \in 1..Len(bytes) : g[i] = go[g[i - 1]][bytes[i]]
    BY <2>1, RunIsDefined
  <2> QED BY <2>2 DEF B1, first, go
<1>3. \A i \in 0..m : g[i] = IF i = 0 THEN NoLine ELSE ReadByte(g[i - 1], bytes[i])
  <2> TAKE i \in 0..m
  <2>1. CASE i = 0
    BY <1>2, <2>1
  <2>2. CASE i # 0
    <3>1. i \in 1..m /\ i - 1 \in 0..m
      BY <1>1, <2>2
    <3>2. g[i] = ReadStep[g[i - 1]][bytes[i]] /\ g[i - 1] \in Collecting /\ bytes[i] \in Byte
      BY <1>1, <1>2, <3>1
    <3> QED BY <2>2, <3>2, ReadMachine
  <2> QED BY <2>1, <2>2
<1> DEFINE IsRead(h) ==
             h = [i \in 0..m |-> IF i = 0 THEN NoLine ELSE ReadByte(h[i - 1], bytes[i])]
           f0 == CHOOSE h : IsRead(h)
<1>4. IsRead(f0)
  <2>1. IsRead(g)
    BY <1>3
  <2> QED BY <2>1
<1>5. TextRows(bytes) = EndLine(f0[m]).rows
  BY DEF TextRows
<1> HIDE DEF f0
<1>6. \A i \in 0..m : f0[i] = IF i = 0 THEN NoLine ELSE ReadByte(f0[i - 1], bytes[i])
  BY <1>4
<1> HIDE DEF IsRead
<1>7. \A i \in 0..m : f0[i] = g[i]
  <2> DEFINE P == {i \in 0..m : f0[i] = g[i]}
  <2>1. 0 \in P
    BY <1>1, <1>3, <1>6
  <2>2. ASSUME NEW i \in 1..m, i - 1 \in P PROVE i \in P
    <3>1. i \in 0..m /\ i # 0 /\ f0[i - 1] = g[i - 1]
      BY <1>1, <2>2
    <3>2. f0[i] = g[i]
      BY <1>3, <1>6, <3>1
    <3> QED BY <3>1, <3>2
  <2>3. \A i \in 0..m : i \in P
    <3> HIDE DEF P, m
    <3> QED BY <1>1, <2>1, <2>2, PlaceByPlace
  <2> QED BY <2>3
<1>8. f0[m] = g[m] /\ g[m] \in Collecting
  <2>1. m \in 0..m
    BY <1>1
  <2> QED BY <1>7, <2>1
<1>9. EndLine(g[m]).rows \in Seq(Row)
  BY <1>8, EndLineType DEF Collecting
<1> QED BY <1>2, <1>5, <1>8, <1>9

(***************************************************************************)
(* What is laid out in a file                                              *)
(***************************************************************************)
LEMMA ScanType ==
  ASSUME NEW bytes \in Seq(Byte), NEW zero \in BOOLEAN
  PROVE  Scan(bytes, zero) \in Scanned(bytes)
<1>1. PICK f \in [0..Len(bytes) -> Scanned(bytes)] : f[0] = Scan(bytes, zero)
  BY ScanIs
<1>2. 0 \in 0..Len(bytes)
  OBVIOUS
<1> QED BY <1>1, <1>2

LEMMA EncodeAllType ==
  ASSUME NEW s \in Seq(Row)
  PROVE  EncodeAll(s) \in Seq(Byte)
<1> DEFINE n == Len(s)
           part == [i \in 1..n |-> Encode(s[i])]
<1>1. PICK up : up[n] = EncodeAll(s) /\ PutTogether(n, up, part)
  BY EncodeAllIs
<1>2. n \in Nat /\ n \in 0..n
  OBVIOUS
<1> QED BY <1>1, <1>2 DEF PutTogether

(* What is behind a layout may change, and nothing is laid out anywhere.   *)
LEMMA LayoutLonger ==
  ASSUME NEW bytes \in Seq(Byte), NEW more \in Seq(Byte), NEW s \in Seq(Row),
         NEW offs, Layout(bytes, s, offs)
  PROVE  Layout(bytes \o more, s, offs)
<1> DEFINE n == Len(s)
           all == bytes \o more
<1>1. /\ n \in Nat /\ offs \in [1..n + 1 -> Nat] /\ offs[1] = 0 /\ offs[n + 1] <= Len(bytes)
      /\ \A i \in 1..n : /\ offs[i + 1] = offs[i] + Len(Encode(s[i]))
                         /\ Holds(bytes, offs[i], Encode(s[i]))
  BY DEF Layout
<1>2. \A i \in 1..n : s[i] \in Row
  OBVIOUS
<1>3. Len(all) \in Nat /\ Len(bytes) \in Nat /\ Len(bytes) <= Len(all)
  OBVIOUS
<1> HIDE DEF n, all
<1>4. ASSUME NEW i \in 1..n PROVE Holds(all, offs[i], Encode(s[i]))
  <2> DEFINE at == offs[i]
             piece == Encode(s[i])
  <2>1. i \in 1..n + 1
    BY <1>1
  <2>2. at \in Nat /\ piece \in Seq(Byte) /\ Holds(bytes, at, piece)
    BY <1>1, <1>2, <2>1, EncodeType
  <2> HIDE DEF at, piece
  <2>3. Holds(bytes \o more, at, piece)
    BY <2>2, HoldsLonger
  <2> QED BY <2>3 DEF at, piece, all
<1>5. offs[n + 1] <= Len(all)
  <2>1. n + 1 \in 1..n + 1
    BY <1>1
  <2>2. offs[n + 1] \in Nat
    BY <1>1, <2>1
  <2> QED BY <1>1, <1>3, <2>2
<1>6. Layout(all, s, offs)
  BY <1>1, <1>4, <1>5 DEF Layout, n
<1> QED BY <1>6 DEF all

LEMMA LayoutOfNothing ==
  ASSUME NEW bytes \in Seq(Byte), NEW offs, offs \in [1..1 -> Nat], offs[1] = 0
  PROVE  Layout(bytes, <<>>, offs)
<1>1. Len(<<>>) = 0 /\ Len(bytes) >= 0
  OBVIOUS
<1> QED BY <1>1 DEF Layout

(* One more row at the end of a file that ends with its last row.          *)
LEMMA LayoutOfOneMore ==
  ASSUME NEW bytes \in Seq(Byte), NEW s \in Seq(Row), NEW row \in Row,
         NEW offs, Layout(bytes, s, offs), offs[Len(s) + 1] = Len(bytes)
  PROVE  LET m == Len(s) + 2
             next == [i \in 1..m |-> IF i = m THEN Len(bytes \o Encode(row)) ELSE offs[i]]
         IN  /\ Layout(bytes \o Encode(row), Append(s, row), next)
             /\ next[Len(Append(s, row)) + 1] = Len(bytes \o Encode(row))
             /\ \A i \in 1..Len(s) + 1 : next[i] = offs[i]
<1> DEFINE n == Len(s)
           m == n + 2
           e == Encode(row)
           all == bytes \o e
           l == Len(bytes)
           next == [i \in 1..m |-> IF i = m THEN Len(all) ELSE offs[i]]
           t == Append(s, row)
<1>1. e \in Seq(Byte)
  BY EncodeType
<1>2. /\ n \in Nat /\ Len(t) = n + 1 /\ t \in Seq(Row) /\ t[n + 1] = row
      /\ \A i \in 1..n : t[i] = s[i]
  OBVIOUS
<1>3. l \in Nat /\ Len(e) \in Nat /\ Len(all) = l + Len(e) /\ Len(all) \in Nat
  <2> HIDE DEF e
  <2> QED BY <1>1
<1>4. Holds(all, l, e)
  <2> HIDE DEF e
  <2> QED BY <1>1, HoldsAtEnd
<1>5. Layout(all, s, offs)
  <2> HIDE DEF e
  <2> QED BY <1>1, LayoutLonger
<1>6. /\ offs \in [1..n + 1 -> Nat] /\ offs[1] = 0
      /\ \A i \in 1..n : offs[i + 1] = offs[i] + Len(Encode(s[i]))
                         /\ Holds(all, offs[i], Encode(s[i]))
  <2> HIDE DEF all
  <2> QED BY <1>5 DEF Layout
<1>7. offs[n + 1] = l
  OBVIOUS
<1> HIDE DEF n, e, all, l, t
<1>8. next \in [1..m -> Nat]
  <2>1. \A i \in 1..m : i # m => i \in 1..n + 1
    BY <1>2
  <2> QED BY <1>3, <1>6, <2>1
<1>9. next[m] = Len(all) /\ \A i \in 1..n + 1 : next[i] = offs[i]
  <2>1. m \in 1..m /\ \A i \in 1..n + 1 : i \in 1..m /\ i # m
    BY <1>2
  <2> QED BY <2>1
<1> HIDE DEF next
<1>10. ASSUME NEW i \in 1..n + 1
       PROVE  next[i + 1] = next[i] + Len(Encode(t[i])) /\ Holds(all, next[i], Encode(t[i]))
  <2>1. CASE i = n + 1
    <3>1. i + 1 = m /\ next[i] = l /\ t[i] = row
      BY <1>2, <1>7, <1>9, <2>1
    <3> QED BY <1>3, <1>4, <1>9, <3>1 DEF e
  <2>2. CASE i # n + 1
    <3>1. i \in 1..n /\ i + 1 \in 1..n + 1
      BY <1>2, <2>2
    <3> QED BY <1>2, <1>6, <1>9, <3>1
  <2> QED BY <2>1, <2>2
<1>11. next[1] = 0
  <2>1. 1 \in 1..n + 1
    BY <1>2
  <2> QED BY <1>6, <1>9, <2>1
<1>12. Layout(all, t, next)
  <2>1. Len(t) + 1 = m /\ Len(t) = n + 1
    BY <1>2
  <2>2. next[Len(t) + 1] <= Len(all)
    BY <1>3, <1>9, <2>1
  <2>3. next \in [1..Len(t) + 1 -> Nat]
    BY <1>8, <2>1
  <2> QED BY <1>10, <1>11, <2>1, <2>2, <2>3 DEF Layout
<1>13. Len(t) + 1 = m
  BY <1>2
<1> QED BY <1>9, <1>12, <1>13 DEF n, all, e, t, next

(* The rows of a text, migrated.                                           *)
LEMMA LayoutOfAll ==
  ASSUME NEW s \in Seq(Row)
  PROVE  \E offs : Layout(EncodeAll(s), s, offs) /\ offs[Len(s) + 1] = Len(EncodeAll(s))
<1> DEFINE n == Len(s)
           part == [i \in 1..n |-> Encode(s[i])]
           all == EncodeAll(s)
           at == 0
<1>1. PICK up : up[0] = <<>> /\ up[n] = all /\ PutTogether(n, up, part)
  BY EncodeAllIs
<1>2. n \in Nat /\ at \in Nat /\ all \in Seq(Byte) /\ Len(all) \in Nat
  BY EncodeAllType
<1>3. \A i \in 1..n : part[i] = Encode(s[i])
  OBVIOUS
<1> HIDE DEF n, part, all
<1>4. Holds(all, at, all)
  BY <1>2 DEF Holds
<1> HIDE DEF at
<1>5. HoldsAll(all, at, n, up, part)
  <2>1. Holds(all, at, up[n])
    BY <1>1, <1>4
  <2> QED BY <1>1, <1>2, <2>1, PartsHeld
<1> USE DEF at
<1> DEFINE o == [i \in 1..n + 1 |-> Len(up[i - 1])]
<1>6. \A i \in 0..n : up[i] \in Seq(Byte)
  BY <1>1 DEF PutTogether
<1>7. \A i \in 1..n + 1 : o[i] = Len(up[i - 1]) /\ o[i] \in Nat
  <2> TAKE i \in 1..n + 1
  <2>1. i - 1 \in 0..n
    BY <1>2
  <2> QED BY <1>6, <2>1
<1>8. o \in [1..n + 1 -> Nat]
  BY <1>7
<1> HIDE DEF o
<1>9. o[1] = 0 /\ o[n + 1] = Len(all)
  <2>1. 1 \in 1..n + 1 /\ n + 1 \in 1..n + 1 /\ 1 - 1 = 0 /\ n + 1 - 1 = n
    BY <1>2
  <2>2. ASSUME NEW i \in 1..n + 1, NEW k, i - 1 = k PROVE o[i] = Len(up[k])
    BY <1>7, <2>2
  <2>3. o[1] = Len(up[0])
    BY <2>1, <2>2
  <2>4. o[n + 1] = Len(up[n])
    <3> DEFINE i == n + 1
    <3>1. i \in 1..n + 1 /\ i - 1 = n
      BY <1>2
    <3> HIDE DEF i
    <3>2. o[i] = Len(up[n])
      BY <2>2, <3>1
    <3> QED BY <3>2 DEF i
  <2>5. Len(<<>>) = 0
    OBVIOUS
  <2> QED BY <1>1, <2>3, <2>4, <2>5
<1>10. ASSUME NEW i \in 1..n
       PROVE  o[i + 1] = o[i] + Len(Encode(s[i])) /\ Holds(all, o[i], Encode(s[i]))
  <2>1. i \in 1..n + 1 /\ i + 1 \in 1..n + 1 /\ i + 1 - 1 = i
    BY <1>2
  <2>2. o[i] = Len(up[i - 1]) /\ o[i + 1] = Len(up[i]) /\ o[i] \in Nat
    BY <1>7, <2>1
  <2>3. Holds(all, at + Len(up[i - 1]), part[i]) /\ Len(up[i]) = Len(up[i - 1]) + Len(part[i])
    BY <1>5 DEF HoldsAll
  <2>4. at + o[i] = o[i]
    BY <2>2
  <2> QED BY <1>3, <2>2, <2>3, <2>4
<1>11. o[n + 1] <= Len(all)
  BY <1>2, <1>9
<1>12. Layout(all, s, o)
  BY <1>8, <1>9, <1>10, <1>11 DEF Layout, n
<1> QED BY <1>9, <1>12 DEF all, n

(***************************************************************************)
(* The file while the program runs: types                                  *)
(***************************************************************************)
Spot(bytes) == [at : 0..Len(bytes), row : Row]

Types ==
  /\ file \in Seq(Byte) /\ rows \in Seq(Row) /\ tears \in 0..MaxTears
  /\ state \in {"closed", "open", "refused"} /\ kind \in {"text", "tiny", "binary"}
  /\ found \in Seq(Spot(file)) /\ stray \subseteq DOMAIN found
  /\ \A i \in DOMAIN found \ stray : found[i].at <= Len(file) - WordSize

LEMMA SpotsStay ==
  ASSUME NEW bytes \in Seq(Byte), NEW more \in Seq(Byte), NEW list \in Seq(Spot(bytes))
  PROVE  /\ list \in Seq(Spot(bytes \o more))
         /\ \A n \in Int : n <= Len(bytes) - WordSize => n <= Len(bytes \o more) - WordSize
<1>1. Len(bytes) \in Nat /\ Len(bytes \o more) \in Nat /\ Len(bytes) <= Len(bytes \o more)
  OBVIOUS
<1>2. 0..Len(bytes) \subseteq 0..Len(bytes \o more)
  BY <1>1
<1>3. Spot(bytes) \subseteq Spot(bytes \o more)
  BY <1>2 DEF Spot
<1> HIDE DEF Spot
<1>4. list \in Seq(Spot(bytes \o more))
  BY <1>3
<1>5. \A n \in Int : n <= Len(bytes) - WordSize => n <= Len(bytes \o more) - WordSize
  BY <1>1, SizeOfWord
<1> QED BY <1>4, <1>5

(* What the scan finds lies within the file with its count.                *)
LEMMA PlacesAreSpots ==
  ASSUME NEW bytes \in Seq(Byte), NEW list \in Seq(Place(bytes))
  PROVE  /\ list \in Seq(Spot(bytes))
         /\ \A i \in DOMAIN list : list[i].at <= Len(bytes) - WordSize
<1>1. Len(bytes) \in Nat /\ WordSize \in Nat
  BY SizeOfWord
<1>2. 0..Len(bytes) - WordSize \subseteq 0..Len(bytes)
  BY <1>1
<1>3. Place(bytes) \subseteq Spot(bytes)
  BY <1>2 DEF Place, Spot
<1>4. \A p \in Place(bytes) : p.at <= Len(bytes) - WordSize
  BY <1>1 DEF Place
<1> HIDE DEF Place, Spot
<1>5. list \in Seq(Spot(bytes)) /\ \A i \in DOMAIN list : list[i] \in Place(bytes)
  BY <1>3
<1> QED BY <1>4, <1>5

(* A row that is appended, or lost in fclose, is given the end of the file.*)
LEMMA SpotOfAppended ==
  ASSUME NEW bytes \in Seq(Byte), NEW more \in Seq(Byte), NEW row \in Row,
         NEW list \in Seq(Spot(bytes))
  PROVE  Append(list, [at |-> Len(bytes), row |-> row]) \in Seq(Spot(bytes \o more))
<1> DEFINE p == [at |-> Len(bytes), row |-> row]
           all == bytes \o more
<1>1. list \in Seq(Spot(all))
  BY SpotsStay
<1>2. Len(bytes) \in 0..Len(all)
  <2>1. Len(bytes) \in Nat /\ Len(all) \in Nat /\ Len(bytes) <= Len(all)
    OBVIOUS
  <2> HIDE DEF all
  <2> QED BY <2>1
<1>3. p \in Spot(all)
  BY <1>2 DEF Spot
<1> HIDE DEF p, all
<1>4. Append(list, p) \in Seq(Spot(all))
  BY <1>1, <1>3
<1> QED BY <1>4 DEF p, all

LEMMA TypesAtFirst == Init => Types
<1> SUFFICES ASSUME Init PROVE Types
  OBVIOUS
<1>1. state = "closed" /\ found = <<>> /\ stray = {} /\ tears = 0 /\ MaxTears \in Nat
  BY RecordsAssumption DEF Init
<1>2. file \in Seq(Byte) /\ rows \in Seq(Row) /\ kind \in {"text", "tiny", "binary"}
  <2>1. CASE file = <<>> /\ rows = <<>> /\ kind = "binary"
    BY <2>1
  <2>2. CASE \E t \in TextFiles : /\ file = t.bytes /\ rows = t.rows
                                  /\ kind = IF Len(t.bytes) < WordSize THEN "tiny" ELSE "text"
    <3>1. PICK t \in TextFiles : /\ file = t.bytes /\ rows = t.rows
                                 /\ kind = IF Len(t.bytes) < WordSize THEN "tiny" ELSE "text"
      BY <2>2
    <3>2. t.bytes \in Seq(Char) /\ t.rows \in Seq(Row)
      BY RecordsAssumption
    <3> QED BY <3>1, <3>2, CharsAreBytes
  <2> QED BY <2>1, <2>2 DEF Init
<1>3. found \in Seq(Spot(file)) /\ stray \subseteq DOMAIN found
      /\ \A i \in DOMAIN found \ stray : found[i].at <= Len(file) - WordSize
  BY <1>1
<1> QED BY <1>1, <1>2, <1>3 DEF Types

LEMMA TypesAtOpen ==
  ASSUME NEW bytes \in Seq(Byte), NEW zero \in BOOLEAN, Open(bytes, zero)
  PROVE  /\ file' \in Seq(Byte) /\ state' \in {"open", "refused"}
         /\ found' \in Seq(Spot(file')) /\ stray' \subseteq DOMAIN found'
         /\ \A i \in DOMAIN found' \ stray' : found'[i].at <= Len(file') - WordSize
         /\ file' = bytes /\ found' = Scan(bytes, zero).rows
         /\ stray' = {i \in DOMAIN found' : i > Len(rows)}
         /\ state' = "refused" => ~Scan(bytes, zero).ok
<1> DEFINE scan == Scan(bytes, zero)
<1>1. scan.rows \in Seq(Place(bytes))
  BY ScanType DEF Scanned
<1>2. scan.rows \in Seq(Spot(bytes))
      /\ \A i \in DOMAIN scan.rows : scan.rows[i].at <= Len(bytes) - WordSize
  BY <1>1, PlacesAreSpots
<1> HIDE DEF scan
<1>3. file' = bytes /\ found' = scan.rows /\ state' = (IF scan.ok THEN "open" ELSE "refused")
      /\ stray' = {i \in DOMAIN scan.rows : i > Len(rows)}
  BY DEF Open, scan
<1> QED BY <1>2, <1>3 DEF scan

LEMMA TypesStay == Types /\ [Next]_vars => Types'
<1> SUFFICES ASSUME Types, [Next]_vars PROVE Types'
  OBVIOUS
<1>0. /\ file \in Seq(Byte) /\ rows \in Seq(Row) /\ tears \in 0..MaxTears
      /\ state \in {"closed", "open", "refused"} /\ kind \in {"text", "tiny", "binary"}
      /\ found \in Seq(Spot(file)) /\ stray \subseteq DOMAIN found
      /\ \A i \in DOMAIN found \ stray : found[i].at <= Len(file) - WordSize
      /\ NewRows \subseteq Row /\ MaxTears \in Nat
  BY RecordsAssumption DEF Types
<1>a. \A i \in DOMAIN found : found[i].at \in Nat
  <2>1. \A i \in DOMAIN found : found[i] \in Spot(file)
    BY <1>0
  <2>2. Len(file) \in Nat
    BY <1>0
  <2> QED BY <2>1, <2>2 DEF Spot
<1>1. ASSUME NEW zero \in BOOLEAN, NEW small \in BOOLEAN, Activate(zero, small) PROVE Types'
  <2>1. rows' = rows /\ tears' = tears
    BY <1>1 DEF Activate
  <2>2. kind' \in {"text", "tiny", "binary"}
    BY <1>0, <1>1 DEF Activate
  <2>3. /\ file' \in Seq(Byte) /\ state' \in {"open", "refused"} /\ found' \in Seq(Spot(file'))
        /\ stray' \subseteq DOMAIN found'
        /\ \A i \in DOMAIN found' \ stray' : found'[i].at <= Len(file') - WordSize
    <3>1. CASE Open(file, zero)
      BY <1>0, <3>1, TypesAtOpen
    <3>2. CASE Open(Migrated(file), zero)
      <4> DEFINE bytes == Migrated(file)
      <4>1. bytes \in Seq(Byte)
        BY <1>0, TextRowsIs, EncodeAllType DEF Migrated
      <4> HIDE DEF bytes
      <4>2. Open(bytes, zero)
        BY <3>2 DEF bytes
      <4> QED BY <4>1, <4>2, TypesAtOpen
    <3> QED BY <1>1, <3>1, <3>2 DEF Activate
  <2> QED BY <1>0, <2>1, <2>2, <2>3 DEF Types
<1>2. ASSUME NEW row \in NewRows, AppendRow(row) PROVE Types'
  <2> DEFINE e == Encode(row)
             p == [at |-> Len(file), row |-> row]
  <2>1. /\ file' = file \o e /\ state' = state /\ kind' = kind /\ tears' = tears
        /\ found' = Append(found, p) /\ stray' = stray
        /\ rows' = IF tears > 0 THEN rows ELSE Append(rows, row)
    BY <1>2 DEF AppendRow, OffsetBefore
  <2>2. row \in Row /\ e \in Seq(Byte) /\ Len(e) >= WordSize
    BY <1>0, EncodeType
  <2> HIDE DEF e
  <2>3. file' \in Seq(Byte) /\ Len(file') = Len(file) + Len(e)
    BY <1>0, <2>1, <2>2
  <2>4. found' \in Seq(Spot(file'))
    <3>1. Append(found, [at |-> Len(file), row |-> row]) \in Seq(Spot(file \o e))
      BY <1>0, <2>2, SpotOfAppended
    <3> QED BY <2>1, <3>1
  <2>5. rows' \in Seq(Row)
    BY <1>0, <2>1, <2>2
  <2>6. /\ DOMAIN found' = 1..Len(found) + 1 /\ DOMAIN found = 1..Len(found)
        /\ found'[Len(found) + 1] = p /\ \A i \in 1..Len(found) : found'[i] = found[i]
    BY <1>0, <2>1
  <2>7. \A i \in DOMAIN found' \ stray' : found'[i].at <= Len(file') - WordSize
    <3>1. Len(file) <= Len(file') - WordSize
      BY <1>0, <2>2, <2>3, SizeOfWord
    <3>2. \A n \in Int : n <= Len(file) - WordSize => n <= Len(file') - WordSize
      BY <1>0, <2>1, <2>2, SpotsStay
    <3>3. ASSUME NEW i \in DOMAIN found' \ stray' PROVE found'[i].at <= Len(file') - WordSize
      <4>1. CASE i = Len(found) + 1
        BY <2>6, <3>1, <4>1
      <4>2. CASE i \in DOMAIN found
        <5>1. found'[i] = found[i] /\ i \in DOMAIN found \ stray
          BY <2>1, <2>6, <4>2
        <5> QED BY <1>0, <1>a, <3>2, <5>1
      <4>3. Len(found) \in Nat
        BY <1>0
      <4> QED BY <2>6, <4>1, <4>2, <4>3
    <3> QED BY <3>3
  <2>8. stray' \subseteq DOMAIN found'
    BY <1>0, <2>1, <2>6
  <2> QED BY <1>0, <2>1, <2>3, <2>4, <2>5, <2>7, <2>8 DEF Types
<1>3. ASSUME NEW row \in NewRows, AppendTorn(row) PROVE Types'
  <2>1. PICK n \in 0..Len(Encode(row)) - 1 :
          /\ file' = file \o SubSeq(Encode(row), 1, n)
          /\ tears' = IF n = 0 THEN tears ELSE tears + 1
    BY <1>3 DEF AppendTorn
  <2> DEFINE p == [at |-> Len(file), row |-> row]
  <2>2. tears < MaxTears /\ state' = state /\ kind' = kind /\ rows' = rows
    BY <1>3 DEF AppendTorn
  <2>a. \/ found' = found /\ stray' = stray
        \/ found' = Append(found, p) /\ stray' = stray \cup {Len(found) + 1}
    BY <1>3 DEF AppendTorn, OffsetBefore
  <2> DEFINE more == SubSeq(Encode(row), 1, n)
  <2>3. row \in Row /\ Encode(row) \in Seq(Byte)
    BY <1>0, EncodeType
  <2>4. more \in Seq(Byte)
    <3> DEFINE e == Encode(row)
    <3>1. e \in Seq(Byte) /\ n \in 0..Len(e) - 1
      BY <2>3
    <3> HIDE DEF e
    <3>2. SubSeq(e, 1, n) \in Seq(Byte)
      BY <3>1
    <3> QED BY <3>2 DEF e
  <2> HIDE DEF more
  <2>5. file' = file \o more
    BY <2>1 DEF more
  <2>6. file' \in Seq(Byte) /\ found' \in Seq(Spot(file'))
    <3>1. found \in Seq(Spot(file \o more)) /\ file \o more \in Seq(Byte)
      BY <1>0, <2>4, SpotsStay
    <3>2. Append(found, p) \in Seq(Spot(file \o more))
      BY <1>0, <2>3, <2>4, SpotOfAppended
    <3> HIDE DEF p
    <3> QED BY <2>a, <2>5, <3>1, <3>2
  <2>7. tears' \in 0..MaxTears
    BY <1>0, <2>1, <2>2
  <2>8. stray' \subseteq DOMAIN found' /\ DOMAIN found' \ stray' \subseteq DOMAIN found \ stray
        /\ \A i \in DOMAIN found \ stray : found'[i] = found[i]
    <3>1. /\ DOMAIN Append(found, p) = 1..Len(found) + 1 /\ DOMAIN found = 1..Len(found)
          /\ Len(found) \in Nat /\ \A i \in 1..Len(found) : Append(found, p)[i] = found[i]
      BY <1>0
    <3> HIDE DEF p
    <3> QED BY <1>0, <2>a, <3>1
  <2>9. \A i \in DOMAIN found' \ stray' : found'[i].at <= Len(file') - WordSize
    <3>1. \A m \in Int : m <= Len(file) - WordSize => m <= Len(file') - WordSize
      BY <1>0, <2>4, <2>5, SpotsStay
    <3> QED BY <1>0, <1>a, <2>8, <3>1
  <2> QED BY <1>0, <2>2, <2>6, <2>7, <2>8, <2>9 DEF Types
<1>4. CASE Restart
  <2>1. state' = "closed" /\ found' = <<>> /\ stray' = {} /\ UNCHANGED <<file, kind, rows, tears>>
    BY <1>4 DEF Restart
  <2>2. found' \in Seq(Spot(file')) /\ stray' \subseteq DOMAIN found' /\ DOMAIN found' = {}
    BY <2>1
  <2> QED BY <1>0, <2>1, <2>2 DEF Types
<1>5. CASE UNCHANGED vars
  BY <1>5 DEF vars, Types
<1> QED BY <1>1, <1>2, <1>3, <1>4, <1>5 DEF Next

LEMMA TypesAlways == Spec => []Types
<1>1. Init => Types
  BY TypesAtFirst
<1>2. Types /\ [Next]_vars => Types'
  BY TypesStay
<1> QED BY <1>1, <1>2, PTL DEF Spec

(* Whatever the texts, the rows and the unread variables hold, a file is a *)
(* sequence of bytes, every record read out of it is a row of C strings,   *)
(* and every place the index is given has room for a count within the file *)
(* unless the row was lost (activation, binary_writer_append_row).         *)
THEOREM TypeCorrect == Spec => []TypeOK
<1>1. Types => TypeOK
  <2> SUFFICES ASSUME Types PROVE TypeOK
    OBVIOUS
  <2>1. /\ file \in Seq(Byte) /\ rows \in Seq(Row) /\ tears \in 0..MaxTears
        /\ state \in {"closed", "open", "refused"} /\ kind \in {"text", "tiny", "binary"}
        /\ found \in Seq(Spot(file)) /\ stray \subseteq DOMAIN found
        /\ \A i \in DOMAIN found \ stray : found[i].at <= Len(file) - WordSize
    BY DEF Types
  <2>2. ASSUME NEW i \in DOMAIN found
        PROVE  /\ found[i].at \in 0..(Len(file) - IF i \in stray THEN 0 ELSE WordSize)
               /\ found[i].row \in Row
    <3>1. found[i] \in Spot(file) /\ Len(file) \in Nat /\ WordSize \in Nat
      BY <2>1, SizeOfWord
    <3>2. found[i].at \in 0..Len(file) /\ found[i].row \in Row
      BY <3>1 DEF Spot
    <3>3. CASE i \in stray
      BY <3>1, <3>2, <3>3
    <3>4. CASE i \notin stray
      BY <2>1, <3>1, <3>2, <3>4
    <3> QED BY <3>3, <3>4
  <2> QED BY <2>1, <2>2 DEF TypeOK
<1> QED BY <1>1, TypesAlways, PTL

(***************************************************************************)
(* The file while the program runs: contents                               *)
(*                                                                         *)
(* The rows that were not torn lie behind one another from the first byte  *)
(* on, and behind the last of them there is nothing when no write was      *)
(* torn.  What an active table found or wrote since lies where the index   *)
(* was told, the strays excepted; and as long as none of them stands in    *)
(* front of a row of the file, the rows are the first that were found, and *)
(* without a torn write all others are strays.                             *)
(***************************************************************************)
TextsReadBack == \A t \in TextFiles : TextRows(t.bytes) = t.rows

Laid(offs) ==
  /\ Layout(file, rows, offs)
  /\ tears = 0 => offs[Len(rows) + 1] = Len(file)

WhereTold == \A i \in DOMAIN found \ stray : Holds(file, found[i].at, Encode(found[i].row))

Ordered    == \A i \in stray : i > Len(rows)
FoundFirst == /\ Len(rows) <= Len(found) /\ \A i \in 1..Len(rows) : found[i].row = rows[i]
              /\ tears = 0 => \A i \in DOMAIN found : i > Len(rows) => i \in stray

IsText(t) == t.bytes = file /\ t.rows = rows /\ Len(t.bytes) >= WordSize

Text   == kind = "text" => state = "closed" /\ tears = 0 /\ \E t \in TextFiles : IsText(t)
Binary == kind = "binary" /\ AllReadable =>
            /\ \E offs : Laid(offs)
            /\ state # "closed" => WhereTold /\ (Ordered => FoundFirst)

Inv == Types /\ Text /\ Binary /\ RefusedForCause

LEMMA AllReadableIs ==
  ASSUME rows \in Seq(Row)
  PROVE  AllReadable <=> AllAre(rows)
  BY DEF AllReadable, AllAre

LEMMA InvAtFirst == Init => Inv
<1> SUFFICES ASSUME Init PROVE Inv
  OBVIOUS
<1>1. Types /\ state = "closed" /\ found = <<>> /\ tears = 0
  BY TypesAtFirst DEF Init
<1>2. CASE file = <<>> /\ rows = <<>> /\ kind = "binary"
  <2> DEFINE offs == [i \in 1..1 |-> 0]
  <2>1. offs \in [1..1 -> Nat] /\ offs[1] = 0
    OBVIOUS
  <2>2. file \in Seq(Byte) /\ Len(file) = 0 /\ Len(rows) = 0
    BY <1>2
  <2> HIDE DEF offs
  <2>3. Layout(file, rows, offs)
    BY <1>2, <2>1, <2>2, LayoutOfNothing
  <2>4. offs[Len(rows) + 1] = Len(file)
    <3>1. Len(rows) + 1 = 1
      BY <2>2
    <3> QED BY <2>1, <2>2, <3>1
  <2>5. Laid(offs)
    BY <1>1, <2>3, <2>4 DEF Laid
  <2> QED BY <1>1, <1>2, <2>5 DEF Inv, Text, Binary, RefusedForCause
<1>3. CASE \E t \in TextFiles : /\ file = t.bytes /\ rows = t.rows
                                /\ kind = IF Len(t.bytes) < WordSize THEN "tiny" ELSE "text"
  <2>1. PICK t \in TextFiles : /\ file = t.bytes /\ rows = t.rows
                               /\ kind = IF Len(t.bytes) < WordSize THEN "tiny" ELSE "text"
    BY <1>3
  <2>2. Len(t.bytes) \in Nat /\ WordSize \in Nat
    BY RecordsAssumption, SizeOfWord
  <2>3. kind = "text" => Len(t.bytes) >= WordSize
    BY <2>1, <2>2
  <2>4. kind # "binary"
    BY <2>1
  <2> QED BY <1>1, <2>1, <2>3, <2>4 DEF Inv, Text, Binary, RefusedForCause, IsText
<1> QED BY <1>2, <1>3 DEF Init

(* What activation finds in a file that holds readable rows.               *)
LEMMA OpenFindsAll ==
  ASSUME NEW bytes \in Seq(Byte), NEW zero \in BOOLEAN, Open(bytes, zero),
         rows \in Seq(Row), rows' = rows, AllAre(rows), NEW offs, Layout(bytes, rows, offs),
         offs[Len(rows) + 1] = Len(bytes) \/ tears' # 0
  PROVE  /\ Layout(file', rows, offs) /\ WhereTold' /\ FoundFirst'
         /\ offs[Len(rows) + 1] = Len(bytes) => state' = "open" /\ offs[Len(rows) + 1] = Len(file')
<1> DEFINE list == Scan(bytes, zero).rows
           n == Len(rows)
<1>1. /\ file' = bytes /\ found' = list /\ state' \in {"open", "refused"}
      /\ state' = "refused" => ~Scan(bytes, zero).ok
      /\ stray' = {i \in DOMAIN list : i > n}
  BY TypesAtOpen
<1>2. /\ FoundAt(list, rows, offs)
      /\ offs[n + 1] = Len(bytes) => Scan(bytes, zero).ok /\ Len(list) = n
  BY ScanBack
<1>3. list \in Seq(Place(bytes)) /\ n \in Nat
  BY ScanType DEF Scanned
<1>4. Len(list) \in Nat /\ DOMAIN list = 1..Len(list)
  BY <1>3
<1> HIDE DEF list, n
<1>5. n <= Len(list) /\ \A i \in 1..n : list[i] = [at |-> offs[i], row |-> rows[i]]
  BY <1>2 DEF FoundAt, n
<1>6. WhereTold'
  <2> SUFFICES ASSUME NEW i \in DOMAIN list \ stray'
               PROVE  Holds(bytes, list[i].at, Encode(list[i].row))
    BY <1>1 DEF WhereTold
  <2>1. i \in 1..n
    BY <1>1, <1>3, <1>4
  <2>2. list[i] = [at |-> offs[i], row |-> rows[i]]
    BY <1>5, <2>1
  <2>3. Holds(bytes, offs[i], Encode(rows[i]))
    BY <2>1 DEF Layout, n
  <2> QED BY <2>2, <2>3
<1>7. FoundFirst'
  <2>1. ASSUME NEW i \in 1..n PROVE list[i].row = rows[i]
    <3>1. list[i] = [at |-> offs[i], row |-> rows[i]]
      BY <1>5
    <3> QED BY <3>1
  <2>2. \A i \in DOMAIN list : i > n => i \in stray'
    BY <1>1
  <2> QED BY <1>1, <1>5, <2>1, <2>2 DEF FoundFirst, n
<1> QED BY <1>1, <1>2, <1>6, <1>7 DEF n

(* A file of the program's own looks binary when its first row can be read *)
(* or it is empty.                                                         *)
LEMMA OwnFilesLookBinary ==
  ASSUME Types, NEW small \in BOOLEAN, AllReadable, NEW offs, Laid(offs),
         rows # <<>> \/ tears = 0
  PROVE  LooksBinary(file, small)
<1>1. file \in Seq(Byte) /\ rows \in Seq(Row)
  BY DEF Types
<1>2. Layout(file, rows, offs)
  BY DEF Laid
<1>3. CASE rows # <<>>
  <2>1. 1 \in 1..Len(rows) /\ Len(rows) \in Nat
    BY <1>1, <1>3
  <2> DEFINE row == rows[1]
  <2>2. row \in Row /\ Readable(row)
    BY <1>1, <2>1 DEF AllReadable
  <2>3. Holds(file, offs[1], Encode(row)) /\ offs[1] = 0
    BY <1>2, <2>1 DEF Layout
  <2> HIDE DEF row
  <2>4. Holds(file, 0, Encode(row))
    BY <2>3
  <2> QED BY <1>1, <2>2, <2>4, RecordLooksBinary
<1>4. CASE rows = <<>>
  <2>1. tears = 0 /\ Len(rows) + 1 = 1
    BY <1>4
  <2>2. offs[Len(rows) + 1] = Len(file) /\ offs[1] = 0
    BY <1>2, <2>1 DEF Laid, Layout
  <2>3. Len(file) = 0
    BY <2>1, <2>2
  <2>4. ~HasWord(file, 0)
    BY <2>3, SizeOfWord DEF HasWord
  <2> QED BY <2>4 DEF LooksBinary
<1> QED BY <1>3, <1>4

LEMMA ActivateKeeps ==
  ASSUME Inv, Types', TextsReadBack, NEW zero \in BOOLEAN, NEW small \in BOOLEAN,
         Activate(zero, small)
  PROVE  Text' /\ Binary' /\ RefusedForCause'
<1>1. /\ file \in Seq(Byte) /\ rows \in Seq(Row) /\ kind \in {"text", "tiny", "binary"}
      /\ state = "closed" /\ rows' = rows /\ tears' = tears /\ tears \in Nat
      /\ AllReadable' = AllReadable
  BY RecordsAssumption DEF Inv, Types, Activate, AllReadable
<1>2. \/ LooksBinary(file, small) /\ Open(file, zero) /\ kind' = kind
      \/ /\ ~LooksBinary(file, small) /\ Open(Migrated(file), zero)
         /\ kind' = IF kind = "text" THEN "binary" ELSE kind
  BY DEF Activate
<1>3. Migrated(file) \in Seq(Byte)
  BY <1>1, TextRowsIs, EncodeAllType DEF Migrated
<1>4. CASE kind = "text"
  <2>1. tears = 0
    BY <1>4 DEF Inv, Text
  <2>2. PICK t \in TextFiles : t.bytes = file /\ t.rows = rows /\ Len(file) >= WordSize
    BY <1>4 DEF Inv, Text, IsText
  <2>3. file \in Seq(Char)
    BY <2>2, RecordsAssumption
  <2>4. ~LooksBinary(file, small)
    BY <2>2, <2>3, TextDoesNotLookBinary
  <2>5. Open(EncodeAll(rows), zero) /\ kind' = "binary"
    <3>1. TextRows(file) = rows
      BY <2>2 DEF TextsReadBack
    <3> QED BY <1>2, <1>4, <2>4, <3>1 DEF Migrated
  <2>6. ASSUME AllReadable
        PROVE  state' = "open" /\ (\E offs : Laid(offs)') /\ WhereTold' /\ FoundFirst'
    <3> DEFINE bytes == EncodeAll(rows)
    <3>1. PICK offs : Layout(bytes, rows, offs) /\ offs[Len(rows) + 1] = Len(bytes)
      BY <1>1, LayoutOfAll
    <3>2. bytes \in Seq(Byte) /\ AllAre(rows) /\ Open(bytes, zero)
      BY <1>1, <2>5, <2>6, EncodeAllType, AllReadableIs
    <3> HIDE DEF bytes
    <3>3. /\ Layout(file', rows, offs) /\ WhereTold' /\ FoundFirst'
          /\ state' = "open" /\ offs[Len(rows) + 1] = Len(file')
      BY <1>1, <3>1, <3>2, OpenFindsAll
    <3>4. Laid(offs)'
      BY <1>1, <3>3 DEF Laid
    <3> QED BY <3>3, <3>4
  <2> QED BY <1>1, <2>5, <2>6 DEF Text, Binary, RefusedForCause
<1>5. CASE kind = "tiny"
  <2>1. kind' = "tiny"
    BY <1>2, <1>5
  <2> QED BY <2>1 DEF Text, Binary, RefusedForCause
<1>6. CASE kind = "binary"
  <2>1. kind' = "binary"
    BY <1>2, <1>6
  <2>2. ASSUME AllReadable
        PROVE  /\ state' = "refused" => tears > 0
               /\ (\E offs : Laid(offs)') /\ WhereTold' /\ FoundFirst'
    <3>1. PICK offs : Laid(offs)
      BY <1>6, <2>2 DEF Inv, Binary
    <3>2. AllAre(rows) /\ Layout(file, rows, offs)
      BY <1>1, <2>2, <3>1, AllReadableIs DEF Laid
    <3>3. CASE LooksBinary(file, small)
      <4>1. Open(file, zero)
        BY <1>2, <3>3
      <4>3. tears = 0 => offs[Len(rows) + 1] = Len(file)
        BY <3>1 DEF Laid
      <4>2. /\ Layout(file', rows, offs) /\ WhereTold' /\ FoundFirst'
            /\ offs[Len(rows) + 1] = Len(file) => state' = "open"
                                                  /\ offs[Len(rows) + 1] = Len(file')
        BY <1>1, <3>2, <4>1, <4>3, OpenFindsAll
      <4>4. Laid(offs)'
        BY <1>1, <4>2, <4>3 DEF Laid
      <4>5. state' = "refused" => tears > 0
        BY <1>1, <4>2, <4>3
      <4> QED BY <4>2, <4>4, <4>5
    <3>4. CASE ~LooksBinary(file, small)
      <4>1. rows = <<>> /\ tears # 0
        BY <2>2, <3>1, <3>4, OwnFilesLookBinary DEF Inv
      <4> DEFINE bytes == Migrated(file)
      <4>2. Open(bytes, zero) /\ bytes \in Seq(Byte)
        BY <1>2, <1>3, <3>4
      <4>3. offs \in [1..1 -> Nat] /\ offs[1] = 0
        <5>1. Len(rows) + 1 = 1
          BY <4>1
        <5> QED BY <3>2, <5>1 DEF Layout
      <4> HIDE DEF bytes
      <4>4. Layout(bytes, rows, offs)
        BY <4>1, <4>2, <4>3, LayoutOfNothing
      <4>5. Layout(file', rows, offs) /\ WhereTold' /\ FoundFirst'
        BY <1>1, <3>2, <4>1, <4>2, <4>4, OpenFindsAll
      <4>6. Laid(offs)'
        BY <1>1, <4>1, <4>5 DEF Laid
      <4> QED BY <1>1, <4>1, <4>5, <4>6
    <3> QED BY <3>3, <3>4
  <2> QED BY <1>1, <2>1, <2>2 DEF Text, Binary, RefusedForCause
<1> QED BY <1>1, <1>4, <1>5, <1>6

LEMMA AppendKeeps ==
  ASSUME Inv, NEW row \in NewRows, AppendRow(row)
  PROVE  Text' /\ Binary' /\ RefusedForCause'
<1>1. /\ file \in Seq(Byte) /\ rows \in Seq(Row) /\ found \in Seq(Spot(file))
      /\ stray \subseteq DOMAIN found /\ tears \in Nat /\ row \in Row
  BY RecordsAssumption DEF Inv, Types
<1>2. /\ state # "closed" /\ file' = file \o Encode(row) /\ stray' = stray
      /\ found' = Append(found, [at |-> Len(file), row |-> row])
      /\ rows' = IF tears > 0 THEN rows ELSE Append(rows, row)
      /\ state' = state /\ kind' = kind /\ tears' = tears
  BY DEF AppendRow, OffsetBefore
<1>3. Encode(row) \in Seq(Byte)
  BY <1>1, EncodeType
<1>4. kind # "text"
  BY <1>2 DEF Inv, Text
<1>5. AllReadable' => AllReadable
  <2> DEFINE n == Len(rows)
             t == Append(rows, row)
  <2>1. n \in Nat /\ DOMAIN rows = 1..n /\ DOMAIN t = 1..n + 1 /\ \A i \in 1..n : t[i] = rows[i]
    BY <1>1
  <2> HIDE DEF n, t
  <2>2. rows' = rows \/ rows' = t
    BY <1>2 DEF t
  <2>3. CASE rows' = t
    <3> SUFFICES ASSUME AllReadable', NEW i \in DOMAIN rows PROVE Readable(rows[i])
      BY DEF AllReadable
    <3>1. i \in DOMAIN t /\ t[i] = rows[i]
      BY <2>1
    <3>2. \A j \in DOMAIN t : Readable(t[j])
      BY <2>3 DEF AllReadable
    <3>3. Readable(t[i])
      BY <3>1, <3>2
    <3> QED BY <3>1, <3>3
  <2>4. CASE rows' = rows
    BY <2>4 DEF AllReadable
  <2> QED BY <2>2, <2>3, <2>4
<1>6. RefusedForCause'
  <2>1. state = "refused" => tears > 0 \/ ~AllReadable \/ kind = "tiny"
    BY DEF Inv, RefusedForCause
  <2> QED BY <1>2, <1>5, <2>1 DEF RefusedForCause
<1> DEFINE n == Len(rows)
           k == Len(found)
           p == [at |-> Len(file), row |-> row]
           more == Append(found, p)
           t == Append(rows, row)
<1>7. /\ n \in Nat /\ k \in Nat /\ Len(more) = k + 1 /\ DOMAIN more = 1..k + 1
      /\ DOMAIN found = 1..k /\ more[k + 1] = p /\ \A i \in 1..k : more[i] = found[i]
  BY <1>1
<1>8. Len(t) = n + 1 /\ t[n + 1] = row /\ \A i \in 1..n : t[i] = rows[i]
  BY <1>1
<1>9. ASSUME kind = "binary", AllReadable' PROVE \E offs : Laid(offs)'
  <2>1. PICK offs : Laid(offs)
    BY <1>5, <1>9 DEF Inv, Binary
  <2>2. Layout(file, rows, offs) /\ (tears = 0 => offs[Len(rows) + 1] = Len(file))
    BY <2>1 DEF Laid
  <2>4. CASE tears > 0
    <3>1. rows' = rows /\ tears' # 0
      BY <1>1, <1>2, <2>4
    <3>2. Layout(file', rows, offs)
      BY <1>1, <1>2, <1>3, <2>2, LayoutLonger
    <3>3. Laid(offs)'
      BY <3>1, <3>2 DEF Laid
    <3> QED BY <3>3
  <2>5. CASE tears = 0
    <3> DEFINE all == file \o Encode(row)
               m == n + 2
               next == [i \in 1..m |-> IF i = m THEN Len(all) ELSE offs[i]]
    <3>1. rows' = t /\ tears' = 0 /\ file' = all
      BY <1>2, <2>5
    <3>2. Layout(all, t, next) /\ next[Len(t) + 1] = Len(all)
      <4>1. Layout(file, rows, offs) /\ offs[Len(rows) + 1] = Len(file)
        BY <2>2, <2>5
      <4> QED BY <1>1, <4>1, LayoutOfOneMore
    <3> HIDE DEF next, t, all
    <3>3. PICK o : o = next
      OBVIOUS
    <3>4. Layout(file', rows', o) /\ o[Len(rows') + 1] = Len(file')
      BY <3>1, <3>2, <3>3
    <3>5. Laid(o)'
      BY <3>4 DEF Laid
    <3> QED BY <3>5
  <2> QED BY <1>1, <2>4, <2>5
<1>10. ASSUME kind = "binary", AllReadable' PROVE WhereTold'
  <2>1. WhereTold
    BY <1>2, <1>5, <1>10 DEF Inv, Binary
  <2> SUFFICES ASSUME NEW i \in DOMAIN more \ stray
               PROVE  Holds(file \o Encode(row), more[i].at, Encode(more[i].row))
    BY <1>2 DEF WhereTold
  <2>2. CASE i = k + 1
    <3>1. more[i] = p
      BY <1>7, <2>2
    <3>2. Holds(file \o Encode(row), Len(file), Encode(row))
      BY <1>1, <1>3, HoldsAtEnd
    <3> HIDE DEF more
    <3> QED BY <3>1, <3>2
  <2>3. CASE i # k + 1
    <3>1. i \in DOMAIN found \ stray /\ more[i] = found[i] /\ found[i] \in Spot(file)
      BY <1>1, <1>7, <2>3
    <3> HIDE DEF more
    <3>2. found[i].at \in Nat /\ found[i].row \in Row
      BY <1>1, <3>1 DEF Spot
    <3>3. Encode(found[i].row) \in Seq(Byte)
      BY <3>2, EncodeType
    <3>4. Holds(file, found[i].at, Encode(found[i].row))
      BY <2>1, <3>1 DEF WhereTold
    <3> QED BY <1>1, <1>3, <3>1, <3>2, <3>3, <3>4, HoldsLonger
  <2> QED BY <2>2, <2>3
<1>11. ASSUME kind = "binary", AllReadable', Ordered' PROVE FoundFirst'
  <2>1. rows' = rows \/ (rows' = t /\ tears = 0)
    BY <1>1, <1>2
  <2>2. Ordered
    <3> SUFFICES ASSUME NEW i \in stray PROVE i > n
      BY DEF Ordered
    <3>1. i > Len(rows') /\ i \in 1..k
      BY <1>1, <1>2, <1>7, <1>11 DEF Ordered
    <3> HIDE DEF t, n
    <3>2. Len(rows') = n \/ Len(rows') = n + 1
      BY <1>8, <2>1 DEF n
    <3> QED BY <1>7, <3>1, <3>2
  <2>3. /\ n <= k /\ \A i \in 1..n : found[i].row = rows[i]
        /\ tears = 0 => \A i \in 1..k : i > n => i \in stray
    BY <1>2, <1>5, <1>7, <1>11, <2>2 DEF Inv, Binary, FoundFirst
  <2>4. CASE tears > 0
    <3>1. rows' = rows /\ tears' # 0 /\ found' = more
      BY <1>1, <1>2, <2>4
    <3> HIDE DEF more, k
    <3>2. n <= k + 1 /\ \A i \in 1..n : more[i].row = rows[i]
      BY <1>7, <2>3
    <3> QED BY <1>7, <3>1, <3>2 DEF FoundFirst
  <2>5. CASE tears = 0
    <3>1. rows' = t /\ found' = more
      BY <1>2, <2>5
    <3>2. n = k
      <4> SUFFICES ASSUME n + 1 <= k PROVE FALSE
        BY <1>7, <2>3
      <4>1. n + 1 \in stray
        BY <1>7, <2>3, <2>5
      <4>2. \A i \in stray : i > Len(t)
        BY <1>2, <1>11, <3>1 DEF Ordered
      <4> HIDE DEF t, n
      <4> QED BY <1>7, <1>8, <4>1, <4>2
    <3> HIDE DEF more, t, n, k
    <3>3. Len(t) <= Len(more) /\ (\A i \in DOMAIN more : ~(i > Len(t)))
      BY <1>7, <1>8, <3>2
    <3>4. \A i \in 1..n + 1 : more[i].row = t[i]
      <4> TAKE i \in 1..n + 1
      <4>1. CASE i = n + 1
        BY <1>7, <1>8, <3>2, <4>1
      <4>2. CASE i # n + 1
        <5>1. i \in 1..n
          BY <1>7, <4>2
        <5> QED BY <1>7, <1>8, <2>3, <3>2, <5>1
      <4> QED BY <4>1, <4>2
    <3> QED BY <1>8, <3>1, <3>3, <3>4 DEF FoundFirst
  <2> QED BY <1>1, <2>4, <2>5
<1> HIDE DEF n, k, p, more, t
<1> QED BY <1>2, <1>4, <1>6, <1>9, <1>10, <1>11 DEF Text, Binary

LEMMA TornKeeps ==
  ASSUME Inv, NEW row \in NewRows, AppendTorn(row)
  PROVE  Text' /\ Binary' /\ RefusedForCause'
<1>1. /\ file \in Seq(Byte) /\ rows \in Seq(Row) /\ tears \in Nat
      /\ found \in Seq(Spot(file)) /\ stray \subseteq DOMAIN found
      /\ row \in Row /\ Encode(row) \in Seq(Byte)
  BY RecordsAssumption, EncodeType DEF Inv, Types
<1>2. /\ state # "closed" /\ state' = state /\ kind' = kind /\ rows' = rows
      /\ AllReadable' = AllReadable
  BY DEF AppendTorn, AllReadable
<1>3. PICK n \in 0..Len(Encode(row)) - 1 :
        /\ file' = file \o SubSeq(Encode(row), 1, n)
        /\ tears' = IF n = 0 THEN tears ELSE tears + 1
  BY DEF AppendTorn
<1> DEFINE e == Encode(row)
           more == SubSeq(e, 1, n)
<1>4. more \in Seq(Byte) /\ (n = 0 => more = <<>>)
  <2>1. e \in Seq(Byte) /\ n \in 0..Len(e) - 1
    BY <1>1
  <2> HIDE DEF e
  <2> QED BY <2>1
<1>5. file' = file \o more /\ tears' \in Nat /\ (tears > 0 => tears' > 0)
      /\ (tears' = 0 => tears = 0 /\ n = 0)
  <2>1. n \in Nat
    BY <1>3
  <2> QED BY <1>1, <1>3, <2>1
<1> HIDE DEF more
<1>6. RefusedForCause'
  <2>1. state = "refused" => tears > 0 \/ ~AllReadable \/ kind = "tiny"
    BY DEF Inv, RefusedForCause
  <2> QED BY <1>2, <1>5, <2>1 DEF RefusedForCause
<1>7. kind # "text"
  BY <1>2 DEF Inv, Text
<1>8. ASSUME kind = "binary", AllReadable PROVE \E offs : Laid(offs)'
  <2>1. PICK offs : Laid(offs)
    BY <1>8 DEF Inv, Binary
  <2>2. Layout(file, rows, offs) /\ (tears = 0 => offs[Len(rows) + 1] = Len(file))
    BY <2>1 DEF Laid
  <2>3. Layout(file', rows, offs)
    BY <1>1, <1>4, <1>5, <2>2, LayoutLonger
  <2>4. tears' = 0 => offs[Len(rows) + 1] = Len(file')
    <3>1. n = 0 => file' = file
      BY <1>1, <1>4, <1>5
    <3> QED BY <1>5, <2>2, <3>1
  <2>5. Laid(offs)'
    BY <1>2, <2>3, <2>4 DEF Laid
  <2> QED BY <2>5
\* What was found before is still there; at most one stray is new.
<1>9. /\ Len(found) \in Nat /\ DOMAIN found = 1..Len(found) /\ stray \subseteq stray'
      /\ Len(found') >= Len(found) /\ \A i \in 1..Len(found) : found'[i] = found[i]
      /\ DOMAIN found' \ stray' \subseteq DOMAIN found \ stray
      /\ \A i \in DOMAIN found' : i \in DOMAIN found \/ i \in stray'
  <2> DEFINE p == [at |-> Len(file), row |-> row]
             list == Append(found, p)
  <2>1. \/ found' = found /\ stray' = stray
        \/ found' = list /\ stray' = stray \cup {Len(found) + 1}
    BY DEF AppendTorn, OffsetBefore
  <2>2. /\ Len(found) \in Nat /\ DOMAIN found = 1..Len(found)
        /\ Len(list) = Len(found) + 1 /\ DOMAIN list = 1..Len(found) + 1
        /\ \A i \in 1..Len(found) : list[i] = found[i]
    BY <1>1
  <2> HIDE DEF list
  <2> QED BY <1>1, <2>1, <2>2
<1>10. ASSUME kind = "binary", AllReadable PROVE WhereTold'
  <2>1. WhereTold
    BY <1>2, <1>10 DEF Inv, Binary
  <2> SUFFICES ASSUME NEW i \in DOMAIN found' \ stray'
               PROVE  Holds(file', found'[i].at, Encode(found'[i].row))
    BY DEF WhereTold
  <2>2. i \in DOMAIN found \ stray /\ found'[i] = found[i] /\ found[i] \in Spot(file)
    BY <1>1, <1>9
  <2>3. found[i].at \in Nat /\ found[i].row \in Row
    BY <1>1, <2>2 DEF Spot
  <2>4. Encode(found[i].row) \in Seq(Byte)
    BY <2>3, EncodeType
  <2>5. Holds(file, found[i].at, Encode(found[i].row))
    BY <2>1, <2>2 DEF WhereTold
  <2>6. Holds(file \o more, found[i].at, Encode(found[i].row))
    BY <1>1, <1>4, <2>3, <2>4, <2>5, HoldsLonger
  <2> QED BY <1>5, <2>2, <2>6
<1>11. ASSUME kind = "binary", AllReadable, Ordered' PROVE FoundFirst'
  <2>1. Ordered
    BY <1>2, <1>9, <1>11 DEF Ordered
  <2>2. FoundFirst
    BY <1>2, <1>11, <2>1 DEF Inv, Binary
  <2>3. Len(rows) \in Nat /\ Len(rows) <= Len(found)
    BY <1>1, <2>2 DEF FoundFirst
  <2>4. Len(rows) <= Len(found')
    <3>1. Len(found') \in Nat
      <4>1. found' = found \/ found' = Append(found, [at |-> OffsetBefore(row), row |-> row])
        BY DEF AppendTorn
      <4> QED BY <1>1, <4>1
    <3> QED BY <1>9, <2>3, <3>1
  <2>5. \A i \in 1..Len(rows) : found'[i].row = rows[i]
    <3> TAKE i \in 1..Len(rows)
    <3>1. i \in 1..Len(found) /\ found[i].row = rows[i]
      BY <1>9, <2>2, <2>3 DEF FoundFirst
    <3> QED BY <1>9, <3>1
  <2>6. tears' = 0 => \A i \in DOMAIN found' : i > Len(rows) => i \in stray'
    BY <1>5, <1>9, <2>2 DEF FoundFirst
  <2> QED BY <1>2, <2>4, <2>5, <2>6 DEF FoundFirst
<1> QED BY <1>2, <1>6, <1>7, <1>8, <1>10, <1>11 DEF Text, Binary

LEMMA InvStays == TextsReadBack /\ Inv /\ [Next]_vars => Inv'
<1> SUFFICES ASSUME TextsReadBack, Inv, [Next]_vars PROVE Inv'
  OBVIOUS
<1>1. Types'
  BY TypesStay DEF Inv
<1>2. ASSUME NEW zero \in BOOLEAN, NEW small \in BOOLEAN, Activate(zero, small)
      PROVE  Text' /\ Binary' /\ RefusedForCause'
  BY <1>1, <1>2, ActivateKeeps
<1>3. ASSUME NEW row \in NewRows, AppendRow(row) PROVE Text' /\ Binary' /\ RefusedForCause'
  BY <1>3, AppendKeeps
<1>4. ASSUME NEW row \in NewRows, AppendTorn(row) PROVE Text' /\ Binary' /\ RefusedForCause'
  BY <1>4, TornKeeps
<1>5. CASE Restart
  <2>1. state # "closed" /\ state' = "closed" /\ UNCHANGED <<file, kind, rows, tears>>
    BY <1>5 DEF Restart
  <2>2. kind' # "text"
    BY <2>1 DEF Inv, Text
  <2>3. ASSUME kind' = "binary", AllReadable' PROVE \E offs : Laid(offs)'
    <3>1. kind = "binary" /\ AllReadable
      BY <2>1, <2>3 DEF AllReadable
    <3>2. PICK offs : Laid(offs)
      BY <3>1 DEF Inv, Binary
    <3>3. Laid(offs)'
      BY <2>1, <3>2 DEF Laid
    <3> QED BY <3>3
  <2>4. Text' /\ RefusedForCause'
    BY <2>1, <2>2 DEF Text, RefusedForCause
  <2>5. Binary'
    BY <2>1, <2>3 DEF Binary
  <2> QED BY <1>1, <2>4, <2>5 DEF Inv
<1>6. CASE UNCHANGED vars
  <2>1. UNCHANGED <<file, state, found, stray, kind, rows, tears>>
    BY <1>6 DEF vars
  <2>2. Text'
    BY <2>1 DEF Inv, Text, IsText
  <2>3. /\ AllReadable' = AllReadable /\ WhereTold' = WhereTold /\ Ordered' = Ordered
        /\ FoundFirst' = FoundFirst /\ \A offs : Laid(offs) => Laid(offs)'
    BY <2>1 DEF AllReadable, Laid, WhereTold, Ordered, FoundFirst
  <2>4. Binary' /\ RefusedForCause'
    BY <2>1, <2>3 DEF Inv, Binary, RefusedForCause
  <2> QED BY <1>1, <2>2, <2>4 DEF Inv
<1> QED BY <1>1, <1>2, <1>3, <1>4, <1>5, <1>6 DEF Next, Inv

LEMMA InvAlways == TextsReadBack => (Spec => []Inv)
<1>1. Init => Inv
  BY InvAtFirst
<1>2. TextsReadBack /\ Inv /\ [Next]_vars => Inv'
  BY InvStays
<1> SUFFICES ASSUME TextsReadBack PROVE Spec => []Inv
  OBVIOUS
<1>3. Inv /\ [Next]_vars => Inv'
  BY <1>2
<1> QED BY <1>1, <1>3, PTL DEF Spec

(* What an active table that holds readable rows found.                    *)
LEMMA ActiveTableIsBinary ==
  ASSUME Inv, state # "closed", kind # "tiny", AllReadable
  PROVE  WhereTold /\ (Ordered => FoundFirst)
<1>1. kind = "binary"
  BY DEF Inv, Types, Text
<1> QED BY <1>1 DEF Inv, Binary

(* file_looks_binary is right about every text of at least a word, and     *)
(* about every file the program wrote whose first record is whole.         *)
THEOREM GuessIsTrue == TextsReadBack => (Spec => []GuessIsRight)
<1>1. Inv => GuessIsRight
  <2> SUFFICES ASSUME Inv, NEW small \in BOOLEAN
               PROVE  /\ kind = "text" => ~LooksBinary(file, small)
                      /\ kind = "binary" /\ (rows # <<>> \/ tears = 0) /\ AllReadable
                           => LooksBinary(file, small)
    BY DEF GuessIsRight
  <2>1. ASSUME kind = "text" PROVE ~LooksBinary(file, small)
    <3>1. PICK t \in TextFiles : t.bytes = file /\ Len(file) >= WordSize
      BY <2>1 DEF Inv, Text, IsText
    <3>2. file \in Seq(Char)
      BY <3>1, RecordsAssumption
    <3> QED BY <3>1, <3>2, TextDoesNotLookBinary
  <2>2. ASSUME kind = "binary", rows # <<>> \/ tears = 0, AllReadable
        PROVE  LooksBinary(file, small)
    <3>1. PICK offs : Laid(offs)
      BY <2>2 DEF Inv, Binary
    <3> QED BY <2>2, <3>1, OwnFilesLookBinary DEF Inv
  <2> QED BY <2>1, <2>2
<1> QED BY <1>1, InvAlways, PTL

(* At the offset the index was given for it every readable row that was    *)
(* found or written since is read back for as long as the table is active, *)
(* however much is written behind it and however many writes around it are *)
(* torn or lost; only the rows lost in fclose are not                      *)
(* (binary_writer_append_row, binary_reader_read_row_at).                  *)
THEOREM OffsetsAlwaysHold == TextsReadBack => (Spec => []OffsetsHold)
<1>1. Inv => OffsetsHold
  <2> SUFFICES ASSUME Inv, state # "closed", kind # "tiny", AllReadable,
                      NEW i \in DOMAIN found \ stray, NEW zero \in BOOLEAN,
                      Readable(found[i].row)
               PROVE  LET r == ReadRow(file, found[i].at, zero)
                      IN  r.result = "row" /\ r.row = found[i].row
    BY DEF OffsetsHold
  <2> DEFINE at == found[i].at
             row == found[i].row
  <2>1. file \in Seq(Byte) /\ found[i] \in Spot(file)
    BY DEF Inv, Types
  <2>2. at \in Nat /\ row \in Row
    BY <2>1 DEF Spot
  <2>3. Holds(file, at, Encode(row)) /\ Readable(row)
    BY ActiveTableIsBinary DEF WhereTold
  <2> HIDE DEF at, row
  <2>4. ReadRow(file, at, zero) = [result |-> "row", row |-> row, next |-> at + Len(Encode(row))]
    BY <2>1, <2>2, <2>3, ReadRowBack
  <2> DEFINE r == ReadRow(file, at, zero)
  <2>5. r.result = "row" /\ r.row = row
    BY <2>4
  <2> HIDE DEF r
  <2> QED BY <2>5 DEF r, at, row
<1> QED BY <1>1, InvAlways, PTL

(* A table is refused for a cause only: a torn write, a row beyond the     *)
(* reader's limits, or a text of less than a word.                         *)
THEOREM RefusalsHaveACause == TextsReadBack => (Spec => []RefusedForCause)
<1>1. Inv => RefusedForCause
  BY DEF Inv
<1> QED BY <1>1, InvAlways, PTL

LEMMA PrefixIs ==
  ASSUME NEW S, NEW s \in Seq(S), NEW t \in Seq(S), Len(s) <= Len(t),
         \A i \in 1..Len(s) : t[i] = s[i]
  PROVE  IsPrefix(s, t)
<1> DEFINE n == Len(s)
           u == SubSeq(s, 1, n)
           w == SubSeq(t, 1, n)
<1>1. n \in Nat /\ Len(t) \in Nat /\ n <= Len(t) /\ \A i \in 1..n : t[i] = s[i]
  OBVIOUS
<1>2. /\ u \in Seq(S) /\ Len(u) = n /\ \A i \in 1..n : u[i] = s[i]
      /\ w \in Seq(S) /\ Len(w) = n /\ \A i \in 1..n : w[i] = t[i]
  OBVIOUS
<1> HIDE DEF u, w
<1>3. u = w
  BY <1>1, <1>2, SeqEqual
<1> QED BY <1>3 DEF IsPrefix, u, w

(* What a table held is there again when it is opened, migrated from text, *)
(* appended to and reopened, in the same order; at least the rows in front *)
(* of the first torn one when writes were torn, and of the first lost one  *)
(* until the table is reopened.                                            *)
THEOREM RowsAlwaysComeBack == TextsReadBack => (Spec => []RowsComeBack)
<1>1. Inv => RowsComeBack
  <2> SUFFICES ASSUME Inv, state = "open", kind # "tiny", AllReadable,
                      \A i \in stray : i > Len(rows)
               PROVE  IsPrefix(rows, FoundRows) /\ (tears = 0 /\ stray = {} => FoundRows = rows)
    BY DEF RowsComeBack
  <2> DEFINE n == Len(rows)
             k == Len(found)
             all == FoundRows
  <2>1. FoundFirst
    BY ActiveTableIsBinary DEF Ordered
  <2>2. /\ rows \in Seq(Row) /\ n \in Nat /\ k \in Nat /\ DOMAIN found = 1..k
        /\ \A i \in 1..k : found[i].row \in Row
    <3>1. found \in Seq(Spot(file)) /\ rows \in Seq(Row)
      BY DEF Inv, Types
    <3>2. n \in Nat /\ k \in Nat /\ DOMAIN found = 1..k /\ \A i \in 1..k : found[i] \in Spot(file)
      BY <3>1
    <3> QED BY <3>1, <3>2 DEF Spot
  <2>3. all = [i \in 1..k |-> found[i].row]
    BY <2>2 DEF FoundRows
  <2>4. n <= k /\ (\A i \in 1..n : found[i].row = rows[i]) /\ (tears = 0 /\ stray = {} => k = n)
    <3>1. /\ n <= k /\ \A i \in 1..n : found[i].row = rows[i]
          /\ tears = 0 => \A i \in 1..k : i > n => i \in stray
      BY <2>1, <2>2 DEF FoundFirst
    <3>2. ASSUME tears = 0, stray = {}, k # n PROVE FALSE
      <4>1. k > n /\ k \in 1..k
        BY <2>2, <3>1, <3>2
      <4> QED BY <3>1, <3>2, <4>1
    <3> QED BY <3>1, <3>2
  <2> HIDE DEF n, k, all
  <2>5. all \in Seq(Row) /\ Len(all) = k
    <3>1. all \in [1..k -> Row]
      BY <2>2, <2>3
    <3> QED BY <2>2, <2>3, <3>1
  <2>6. \A i \in 1..n : all[i] = rows[i]
    <3> TAKE i \in 1..n
    <3>1. i \in 1..k
      BY <2>2, <2>4
    <3> QED BY <2>3, <2>4, <3>1
  <2>7. IsPrefix(rows, all)
    BY <2>2, <2>4, <2>5, <2>6, PrefixIs DEF n
  <2>8. ASSUME tears = 0, stray = {} PROVE all = rows
    <3>1. Len(all) = Len(rows) /\ \A i \in 1..Len(all) : all[i] = rows[i]
      BY <2>4, <2>5, <2>6, <2>8 DEF n
    <3> QED BY <2>2, <2>5, <3>1, SeqEqual
  <2> QED BY <2>7, <2>8 DEF all
<1> QED BY <1>1, InvAlways, PTL

(***************************************************************************)
(* Texts that are read back                                                *)
(*                                                                         *)
(* What a field, a row and a table are in a legacy file, with every byte   *)
(* escaped that the reader takes for more than itself.  The older program  *)
(* that wrote these files is not in the repository: the format is what     *)
(* split_pipe_line undoes.                                                 *)
(***************************************************************************)
Escaped(c) == IF c = NL THEN <<Backslash, 110>>
              ELSE IF c = CR THEN <<Backslash, 114>>
              ELSE IF c \in {Bar, Backslash} THEN <<Backslash, c>>
              ELSE <<c>>

EscapeStep   == [a \in Seq(Char) |-> [c \in Char |-> a \o Escaped(c)]]
EscapedField(f) == Run(EscapeStep, <<>>, f)

\* Every field of a line but the last is followed by a bar.
BarStep  == [a \in Seq(Char) |-> [f \in Seq(Char) |-> a \o (EscapedField(f) \o <<Bar>>)]]
Line(row) == Run(BarStep, <<>>, Front(row)) \o EscapedField(row[Len(row)])

LineEnds == {<<NL>>, <<CR, NL>>}

\* A row of no field has no line, and a line of one empty field is passed over.
Writable == {row \in Row : row # <<>> /\ row # <<<<>>>>}

LinesStep(end) == [a \in Seq(Char) |-> [row \in Writable |-> a \o (Line(row) \o end)]]
Lines(s, end)  == Run(LinesStep(end), <<>>, s)

LEMMA EscapedType ==
  ASSUME NEW c \in Char
  PROVE  Escaped(c) \in Seq(Char) /\ Escaped(c) \in Seq(Byte)
         /\ \A i \in 1..Len(Escaped(c)) : Escaped(c)[i] # NL
<1>1. 110 \in Char /\ 114 \in Char /\ Backslash \in Char
  BY DEF Char, Backslash
<1>2. Escaped(c) \in Seq(Char)
  BY <1>1 DEF Escaped
<1>3. CASE c \in {NL, CR, Bar, Backslash}
  <2>1. PICK d \in Char : Escaped(c) = <<Backslash, d>> /\ d # NL
    BY <1>1, <1>3, Codes DEF Escaped
  <2>2. Len(<<Backslash, d>>) = 2 /\ <<Backslash, d>>[1] = Backslash /\ <<Backslash, d>>[2] = d
    OBVIOUS
  <2>3. \A i \in 1..2 : i = 1 \/ i = 2
    OBVIOUS
  <2> QED BY <1>2, <2>1, <2>2, <2>3, Codes, CharsAreBytes
<1>4. CASE c \notin {NL, CR, Bar, Backslash}
  <2>1. Escaped(c) = <<c>> /\ Len(<<c>>) = 1 /\ <<c>>[1] = c
    BY <1>4 DEF Escaped
  <2>2. \A i \in 1..1 : i = 1
    OBVIOUS
  <2> QED BY <1>2, <1>4, <2>1, <2>2, CharsAreBytes
<1> QED BY <1>3, <1>4

LEMMA WriteMachines ==
  /\ Machine(Seq(Char), Char, EscapeStep)
  /\ \A f \in Seq(Char) : EscapedField(f) \in Seq(Char)
  /\ Machine(Seq(Char), Seq(Char), BarStep)
<1> DEFINE A == Seq(Char)
<1>1. \A a \in A, c \in Char : a \o Escaped(c) \in A
  BY EscapedType
<1>2. Machine(A, Char, EscapeStep)
  BY <1>1 DEF EscapeStep, Machine
<1>3. <<>> \in A
  OBVIOUS
<1>4. ASSUME NEW f \in A PROVE EscapedField(f) \in A
  <2>1. Run(EscapeStep, <<>>, f) \in A
    <3> DEFINE B == Char
               base == <<>>
    <3>1. Machine(A, B, EscapeStep) /\ base \in A /\ f \in Seq(B)
      BY <1>2, <1>3
    <3> HIDE DEF A, B, base
    <3>2. Run(EscapeStep, base, f) \in A
      BY <3>1, RunType
    <3> QED BY <3>2 DEF base
  <2> QED BY <2>1 DEF EscapedField
<1>5. Bar \in Char
  BY Codes
<1>6. ASSUME NEW a \in A, NEW f \in A PROVE a \o (EscapedField(f) \o <<Bar>>) \in A
  <2> DEFINE e == EscapedField(f)
  <2>1. e \in A
    BY <1>4
  <2> HIDE DEF e
  <2>2. a \o (e \o <<Bar>>) \in A
    BY <1>5, <2>1
  <2> QED BY <2>2 DEF e
<1>7. Machine(A, A, BarStep)
  BY <1>6 DEF BarStep, Machine
<1> QED BY <1>2, <1>4, <1>7

(* The three machines, with their types out of the way.                    *)
LEMMA SplitRun ==
  ASSUME NEW r \in Splitting
  PROVE  /\ Run(SplitStep, r, <<>>) = r
         /\ \A s \in Seq(Byte) : Run(SplitStep, r, s) \in Splitting
         /\ \A s \in Seq(Byte), c \in Byte :
              Run(SplitStep, r, Append(s, c)) = SplitByte(Run(SplitStep, r, s), c)
         /\ \A s, t \in Seq(Byte) :
              Run(SplitStep, r, s \o t) = Run(SplitStep, Run(SplitStep, r, s), t)
<1> DEFINE A == Splitting
           B == Byte
           go == SplitStep
<1>1. Machine(A, B, go) /\ r \in A
  BY SplitMachine
<1>2. \A a \in A, c \in B : go[a][c] = SplitByte(a, c)
  BY SplitMachine
<1> HIDE DEF A, B, go
<1>3. Run(go, r, <<>>) = r
  BY RunOfNothing
<1>4. \A s \in Seq(B) : Run(go, r, s) \in A
  BY <1>1, RunType
<1>5. \A s \in Seq(B), c \in B : Run(go, r, Append(s, c)) = SplitByte(Run(go, r, s), c)
  <2> TAKE s \in Seq(B), c \in B
  <2>1. Run(go, r, Append(s, c)) = go[Run(go, r, s)][c]
    BY <1>1, RunAppend
  <2> QED BY <1>2, <1>4, <2>1
<1>6. \A s, t \in Seq(B) : Run(go, r, s \o t) = Run(go, Run(go, r, s), t)
  BY <1>1, RunConcat
<1> QED BY <1>3, <1>4, <1>5, <1>6 DEF A, B, go

LEMMA EscapeRun ==
  /\ EscapedField(<<>>) = <<>>
  /\ \A f \in Seq(Char), c \in Char :
       EscapedField(Append(f, c)) = EscapedField(f) \o Escaped(c)
<1> DEFINE A == Seq(Char)
           B == Char
           go == EscapeStep
           base == <<>>
<1>1. Machine(A, B, go) /\ base \in A
  BY WriteMachines
<1>2. \A a \in A, c \in B : go[a][c] = a \o Escaped(c)
  BY DEF EscapeStep
<1>3. \A f \in A : f \in Seq(B) /\ EscapedField(f) = Run(go, base, f) /\ EscapedField(f) \in A
  BY WriteMachines DEF EscapedField
<1>4. EscapedField(<<>>) = Run(go, base, <<>>)
  BY DEF EscapedField
<1>5. base = <<>>
  OBVIOUS
<1>6. \A f \in Seq(B), c \in B : Append(f, c) \in A
  OBVIOUS
<1>7. A = Seq(B)
  OBVIOUS
<1> HIDE DEF A, B, go, base
<1>8. EscapedField(<<>>) = <<>>
  BY <1>4, <1>5, RunOfNothing
<1>9. \A f \in Seq(B), c \in B : EscapedField(Append(f, c)) = EscapedField(f) \o Escaped(c)
  <2> TAKE f \in Seq(B), c \in B
  <2>1. Run(go, base, Append(f, c)) = go[Run(go, base, f)][c]
    BY <1>1, RunAppend
  <2> QED BY <1>2, <1>3, <1>6, <1>7, <2>1
<1> QED BY <1>8, <1>9 DEF B

LEMMA BarRun ==
  LET bars(p) == Run(BarStep, <<>>, p)
  IN  /\ bars(<<>>) = <<>> /\ \A p \in Row : bars(p) \in Seq(Char)
      /\ \A p \in Row, f \in Seq(Char) :
           bars(Append(p, f)) = bars(p) \o (EscapedField(f) \o <<Bar>>)
<1> DEFINE A == Seq(Char)
           B == Seq(Char)
           go == BarStep
           base == <<>>
<1>1. Machine(A, B, go) /\ base \in A
  BY WriteMachines
<1>2. \A a \in A, f \in B : go[a][f] = a \o (EscapedField(f) \o <<Bar>>)
  BY DEF BarStep
<1>3. base = <<>> /\ Row = Seq(B)
  BY DEF Row
<1> HIDE DEF A, B, go, base
<1>4. Run(go, base, <<>>) = <<>>
  BY <1>3, RunOfNothing
<1>5. \A p \in Row : Run(go, base, p) \in A
  BY <1>1, <1>3, RunType
<1>6. \A p \in Row, f \in B : Run(go, base, Append(p, f)) = Run(go, base, p) \o (EscapedField(f) \o <<Bar>>)
  <2> TAKE p \in Row, f \in B
  <2>1. Run(go, base, Append(p, f)) = go[Run(go, base, p)][f]
    BY <1>1, <1>3, RunAppend
  <2> QED BY <1>2, <1>5, <2>1
<1> QED BY <1>4, <1>5, <1>6 DEF A, B, go, base

\* The splitter within a line, outside an escape.
Plain(row, field) == [row |-> row, field |-> field, escape |-> FALSE, over |-> FALSE]

LEMMA SameState ==
  ASSUME NEW u \in Splitting, NEW v \in Splitting, u.row = v.row, u.field = v.field,
         u.escape = v.escape, u.over = v.over
  PROVE  u = v
  BY DEF Splitting

LEMMA PlainType ==
  ASSUME NEW row \in Row, NEW field \in Seq(Char)
  PROVE  /\ Plain(row, field) \in Splitting
         /\ \A c \in Char : Add(Plain(row, field), c) = Plain(row, Append(field, c))
         /\ Cut(Plain(row, field)) = Plain(Append(row, field), <<>>)
         /\ \A c \in Byte : SplitByte(Plain(row, field), c) = SplitPlain(Plain(row, field), c)
<1> DEFINE r == Plain(row, field)
<1>1. r \in Splitting
  BY DEF Plain, Splitting
<1>2. /\ r.row = row /\ r.field = field /\ r.escape = FALSE /\ r.over = FALSE
      /\ r = [row |-> row, field |-> field, escape |-> FALSE, over |-> FALSE]
  BY DEF Plain
<1> HIDE DEF r
<1>6. ASSUME NEW f \in Seq(Char), NEW q \in Row
      PROVE  /\ Plain(q, f) \in Splitting /\ Plain(q, f).row = q /\ Plain(q, f).field = f
             /\ Plain(q, f).escape = FALSE /\ Plain(q, f).over = FALSE
  BY DEF Plain, Splitting
<1>3. ASSUME NEW c \in Char PROVE Add(r, c) = Plain(row, Append(field, c))
  <2> DEFINE more == Append(field, c)
             u == Add(r, c)
             v == Plain(row, more)
  <2>1. more \in Seq(Char)
    OBVIOUS
  <2>2. /\ u \in Splitting /\ u.field = more /\ u.row = row /\ u.escape = FALSE
        /\ u.over = FALSE
    BY <1>1, <1>2, AddType
  <2> HIDE DEF more
  <2>3. /\ v \in Splitting /\ v.field = more /\ v.row = row /\ v.escape = FALSE
        /\ v.over = FALSE
    BY <1>6, <2>1
  <2> HIDE DEF u, v
  <2>4. u = v
    BY <2>2, <2>3, SameState
  <2> QED BY <2>4 DEF u, v, more
<1>4. Cut(r) = Plain(Append(row, field), <<>>)
  <2> DEFINE more == Append(row, field)
             u == Cut(r)
             v == Plain(more, <<>>)
  <2>1. more \in Row /\ <<>> \in Seq(Char)
    BY DEF Row
  <2>2. /\ u \in Splitting /\ u.field = <<>> /\ u.row = more /\ u.escape = FALSE
        /\ u.over = FALSE
    BY <1>1, <1>2, CutType
  <2> HIDE DEF more
  <2>3. /\ v \in Splitting /\ v.field = <<>> /\ v.row = more /\ v.escape = FALSE
        /\ v.over = FALSE
    BY <1>6, <2>1
  <2> HIDE DEF u, v
  <2>4. u = v
    BY <2>2, <2>3, SameState
  <2> QED BY <2>4 DEF u, v, more
<1>5. \A c \in Byte : SplitByte(r, c) = SplitPlain(r, c)
  BY <1>2 DEF SplitByte
<1> QED BY <1>1, <1>3, <1>4, <1>5 DEF r

LEMMA OneByOne ==
  /\ <<>> \in Row /\ <<>> \in Seq(Char) /\ <<>> \in Seq(Byte)
  /\ \A b \in Byte : Append(<<>>, b) = <<b>> /\ <<b>> \in Seq(Byte)
  /\ \A b, c \in Byte : Append(<<b>>, c) = <<b, c>> /\ <<b, c>> \in Seq(Byte)
<1>1. <<>> \in Row /\ <<>> \in Seq(Char) /\ <<>> \in Seq(Byte)
  BY DEF Row
<1>2. ASSUME NEW b \in Byte PROVE Append(<<>>, b) = <<b>> /\ <<b>> \in Seq(Byte)
  OBVIOUS
<1>3. ASSUME NEW b \in Byte, NEW c \in Byte
      PROVE  Append(<<b>>, c) = <<b, c>> /\ <<b, c>> \in Seq(Byte)
  <2> DEFINE u == Append(<<b>>, c)
             v == <<b, c>>
  <2>1. u \in Seq(Byte) /\ Len(u) = 2 /\ u[1] = b /\ u[2] = c
    OBVIOUS
  <2>2. v \in Seq(Byte) /\ Len(v) = 2 /\ v[1] = b /\ v[2] = c
    OBVIOUS
  <2> HIDE DEF u, v
  <2>3. \A i \in 1..2 : i = 1 \/ i = 2
    OBVIOUS
  <2>4. \A i \in 1..Len(u) : u[i] = v[i]
    BY <2>1, <2>2, <2>3
  <2>5. u = v
    BY <2>1, <2>2, <2>4, SeqEqual
  <2> QED BY <2>2, <2>5 DEF u, v
<1> QED BY <1>1, <1>2, <1>3

LEMMA PrefixEnds ==
  ASSUME NEW B, NEW s \in Seq(B)
  PROVE  SubSeq(s, 1, 0) = <<>> /\ SubSeq(s, 1, Len(s)) = s
  OBVIOUS

(* An escaped byte is added as itself.                                     *)
LEMMA SplitEscaped ==
  ASSUME NEW row \in Row, NEW field \in Seq(Char), NEW c \in Char
  PROVE  Run(SplitStep, Plain(row, field), Escaped(c)) = Plain(row, Append(field, c))
<1> DEFINE r == Plain(row, field)
           e == [r EXCEPT !.escape = TRUE]
           step(b) == Run(SplitStep, r, <<b>>)
<1>1. r \in Splitting /\ (\A b \in Char : Add(r, b) = Plain(row, Append(field, b)))
      /\ \A b \in Byte : SplitByte(r, b) = SplitPlain(r, b)
  BY PlainType
<1>2. e \in Splitting /\ e.escape /\ ~e.over /\ [e EXCEPT !.escape = FALSE] = r
  <2>1. r = [row |-> row, field |-> field, escape |-> FALSE, over |-> FALSE]
    BY DEF Plain
  <2>2. r.escape = FALSE /\ r.over = FALSE
    BY <2>1
  <2>3. /\ e \in Splitting /\ e.escape /\ e.row = r.row /\ e.field = r.field
        /\ e.over = r.over
    BY <1>1, EscapeType
  <2> HIDE DEF r, e
  <2> DEFINE u == [e EXCEPT !.escape = FALSE]
  <2>4. /\ u \in Splitting /\ u.escape = FALSE /\ u.row = e.row /\ u.field = e.field
        /\ u.over = e.over
    BY <2>3, EscapeType
  <2> HIDE DEF u
  <2>5. u = r
    BY <1>1, <2>2, <2>3, <2>4, SameState
  <2> QED BY <2>2, <2>3, <2>5 DEF u
<1>3. \A b \in Byte : Append(<<>>, b) = <<b>> /\ Append(<<Backslash>>, b) = <<Backslash, b>>
      /\ <<b>> \in Seq(Byte)
  BY OneByOne, Codes, CharsAreBytes
<1>4. c \in Byte /\ Backslash \in Byte /\ <<>> \in Seq(Byte)
  BY CharsAreBytes, Codes
<1> HIDE DEF r, e
<1>5. \A b \in Byte : Run(SplitStep, r, <<b>>) = SplitPlain(r, b)
  <2> TAKE b \in Byte
  <2>1. Run(SplitStep, r, Append(<<>>, b)) = SplitByte(Run(SplitStep, r, <<>>), b)
    BY ZenonT(30), <1>1, <1>4, SplitRun
  <2>2. Run(SplitStep, r, <<>>) = r
    BY <1>1, SplitRun
  <2> QED BY <1>1, <1>3, <2>1, <2>2
<1>6. CASE c \notin {NL, CR, Bar, Backslash}
  <2>1. Escaped(c) = <<c>>
    BY <1>6 DEF Escaped
  <2>2. c # NUL
    BY CharsAreNumbers, Codes
  <2>3. SplitPlain(r, c) = Add(r, c)
    BY <1>6, <2>2 DEF SplitPlain
  <2> QED BY <1>1, <1>4, <1>5, <2>1, <2>3 DEF r
<1>7. CASE c \in {NL, CR, Bar, Backslash}
  <2>1. PICK d \in Escapes : Escaped(c) = <<Backslash, d>> /\ Unescaped(d) = c /\ d \in Byte
    <3>1. CASE c = NL
      <4>1. Escaped(c) = <<Backslash, 110>> /\ 110 \in Escapes /\ Unescaped(110) = c /\ 110 \in Byte
        BY <3>1 DEF Escaped, Escapes, Unescaped, Byte
      <4> QED BY <4>1
    <3>2. CASE c = CR
      <4>1. Escaped(c) = <<Backslash, 114>> /\ 114 \in Escapes /\ Unescaped(114) = c /\ 114 \in Byte
        BY <3>2, Codes DEF Escaped, Escapes, Unescaped, Byte
      <4> QED BY <4>1
    <3>3. CASE c \in {Bar, Backslash}
      <4>1. Escaped(c) = <<Backslash, c>> /\ c \in Escapes /\ Unescaped(c) = c
        BY <3>3, Codes DEF Escaped, Escapes, Unescaped
      <4> QED BY <1>4, <4>1
    <3> QED BY <1>7, <3>1, <3>2, <3>3
  <2>2. Run(SplitStep, r, <<Backslash>>) = e
    <3>1. SplitPlain(r, Backslash) = e
      BY Codes DEF SplitPlain, e
    <3> QED BY <1>4, <1>5, <3>1
  <2>3. Run(SplitStep, r, <<Backslash, d>>) = SplitByte(e, d)
    <3> DEFINE s == <<Backslash>>
    <3>1. s \in Seq(Byte) /\ Append(s, d) = <<Backslash, d>>
      BY <1>3, <1>4, <2>1
    <3> HIDE DEF s
    <3>2. Run(SplitStep, r, Append(s, d)) = SplitByte(Run(SplitStep, r, s), d)
      BY ZenonT(30), <1>1, <2>1, <3>1, SplitRun
    <3> QED BY <2>2, <3>1, <3>2 DEF s
  <2>4. SplitByte(e, d) = Add(r, c)
    BY <1>2, <2>1 DEF SplitByte
  <2> QED BY <1>1, <2>1, <2>3, <2>4 DEF r
<1> QED BY <1>6, <1>7

(* An escaped field is added byte by byte.                                 *)
LEMMA SplitField ==
  ASSUME NEW row \in Row, NEW field \in Seq(Char)
  PROVE  Run(SplitStep, Plain(row, <<>>), EscapedField(field)) = Plain(row, field)
<1> DEFINE n == Len(field)
           part(i) == SubSeq(field, 1, i)
           r == Plain(row, <<>>)
           P == {i \in 0..n : Run(SplitStep, r, EscapedField(part(i))) = Plain(row, part(i))}
<1>1. n \in Nat /\ r \in Splitting /\ part(0) = <<>> /\ part(n) = field
  <2>1. part(0) = <<>> /\ part(n) = field
    BY PrefixEnds
  <2>2. r \in Splitting
    BY OneByOne, PlainType
  <2> QED BY <2>1, <2>2
<1>2. 0 \in P
  <2>1. Run(SplitStep, r, EscapedField(<<>>)) = Plain(row, <<>>)
    BY <1>1, EscapeRun, SplitRun
  <2>2. 0 \in 0..n
    BY <1>1
  <2> HIDE DEF part, r
  <2>3. Run(SplitStep, r, EscapedField(part(0))) = Plain(row, part(0))
    BY <1>1, <2>1
  <2> QED BY <2>2, <2>3
<1>3. ASSUME NEW i \in 1..n, i - 1 \in P PROVE i \in P
  <2> DEFINE q == part(i - 1)
             c == field[i]
  <2>1. q \in Seq(Char) /\ c \in Char /\ part(i) = Append(q, c) /\ i \in 0..n
    <3>1. c \in Char
      OBVIOUS
    <3> QED BY <1>1, <3>1, PrefixGrows
  <2>2. Run(SplitStep, r, EscapedField(q)) = Plain(row, q)
    BY <1>3
  <2> HIDE DEF q, c, part, r
  <2>3. EscapedField(q) \in Seq(Byte) /\ Escaped(c) \in Seq(Byte)
    BY <2>1, WriteMachines, CharsAreBytes, EscapedType
  <2>4. EscapedField(part(i)) = EscapedField(q) \o Escaped(c)
    BY <2>1, EscapeRun
  <2>5. Run(SplitStep, r, EscapedField(q) \o Escaped(c))
          = Run(SplitStep, Run(SplitStep, r, EscapedField(q)), Escaped(c))
    BY <1>1, <2>3, SplitRun
  <2>6. Run(SplitStep, Plain(row, q), Escaped(c)) = Plain(row, Append(q, c))
    BY <2>1, SplitEscaped
  <2> QED BY <2>1, <2>2, <2>4, <2>5, <2>6
<1>4. \A i \in 0..n : i \in P
  <2> HIDE DEF P, n
  <2> QED BY <1>1, <1>2, <1>3, PlaceByPlace
<1>5. n \in P
  <2> HIDE DEF P
  <2> QED BY <1>1, <1>4
<1> QED BY <1>1, <1>5

(* The fields of a line in front of the last are cut at the bars.          *)
LEMMA SplitBars ==
  ASSUME NEW front \in Row
  PROVE  Run(SplitStep, NoField, Run(BarStep, <<>>, front)) = Plain(front, <<>>)
<1> DEFINE n == Len(front)
           part(i) == SubSeq(front, 1, i)
           bars(p) == Run(BarStep, <<>>, p)
           r == NoField
           P == {i \in 0..n : Run(SplitStep, r, bars(part(i))) = Plain(part(i), <<>>)}
<1>1. n \in Nat /\ r \in Splitting /\ part(0) = <<>> /\ part(n) = front /\ r = Plain(<<>>, <<>>)
  BY SplitMachine, PrefixEnds DEF Row, NoField, Plain
<1>2. 0 \in P
  <2>1. Run(SplitStep, r, bars(<<>>)) = Plain(<<>>, <<>>)
    BY <1>1, BarRun, SplitRun
  <2>2. 0 \in 0..n
    BY <1>1
  <2> HIDE DEF part, r, bars
  <2>3. Run(SplitStep, r, bars(part(0))) = Plain(part(0), <<>>)
    BY <1>1, <2>1
  <2> QED BY <2>2, <2>3
<1>3. ASSUME NEW i \in 1..n, i - 1 \in P PROVE i \in P
  <2> DEFINE q == part(i - 1)
             f == front[i]
  <2>1. q \in Row /\ f \in Seq(Char) /\ part(i) = Append(q, f) /\ i \in 0..n
    <3>1. f \in Seq(Char) /\ front \in Seq(Seq(Char))
      BY DEF Row
    <3> QED BY <1>1, <3>1, PrefixGrows DEF Row
  <2>2. Run(SplitStep, r, bars(q)) = Plain(q, <<>>)
    BY <1>3
  <2> HIDE DEF q, f, part, r
  <2> DEFINE a == bars(q)
             e == EscapedField(f)
  <2>3. a \in Seq(Byte) /\ e \in Seq(Byte) /\ Bar \in Byte
    BY <2>1, BarRun, WriteMachines, CharsAreBytes, Codes
  <2>4. bars(part(i)) = a \o (e \o <<Bar>>)
    BY <2>1, BarRun
  <2> HIDE DEF a, e, bars
  <2>5. e \o <<Bar>> = Append(e, Bar) /\ Append(e, Bar) \in Seq(Byte)
    BY <2>3
  <2>6. Run(SplitStep, r, a \o Append(e, Bar)) = Run(SplitStep, Plain(q, <<>>), Append(e, Bar))
    <3> DEFINE t == Append(e, Bar)
    <3>1. a \in Seq(Byte) /\ t \in Seq(Byte)
      BY <2>3, <2>5
    <3> HIDE DEF t
    <3>2. Run(SplitStep, r, a \o t) = Run(SplitStep, Run(SplitStep, r, a), t)
      BY <1>1, <3>1, SplitRun
    <3>3. Run(SplitStep, r, a) = Plain(q, <<>>)
      BY <2>2 DEF a
    <3> QED BY <3>2, <3>3 DEF t
  <2>7. Plain(q, <<>>) \in Splitting /\ <<>> \in Seq(Char)
    BY <2>1, OneByOne, PlainType
  <2>8. Run(SplitStep, Plain(q, <<>>), Append(e, Bar)) = SplitByte(Plain(q, f), Bar)
    <3>1. Run(SplitStep, Plain(q, <<>>), e) = Plain(q, f)
      BY <2>1, SplitField DEF e
    <3>2. Run(SplitStep, Plain(q, <<>>), Append(e, Bar))
            = SplitByte(Run(SplitStep, Plain(q, <<>>), e), Bar)
      BY <2>3, <2>7, SplitRun
    <3> QED BY <3>1, <3>2
  <2>9. SplitByte(Plain(q, f), Bar) = Plain(Append(q, f), <<>>)
    <3>1. SplitByte(Plain(q, f), Bar) = SplitPlain(Plain(q, f), Bar)
      BY <2>1, <2>3, PlainType
    <3>2. SplitPlain(Plain(q, f), Bar) = Cut(Plain(q, f))
      BY Codes DEF SplitPlain
    <3> QED BY <2>1, <3>1, <3>2, PlainType
  <2>10. Run(SplitStep, r, bars(part(i))) = Plain(part(i), <<>>)
    BY <2>1, <2>4, <2>5, <2>6, <2>8, <2>9
  <2> QED BY <2>1, <2>10
<1>4. \A i \in 0..n : i \in P
  <2> HIDE DEF P, n
  <2> QED BY <1>1, <1>2, <1>3, PlaceByPlace
<1>5. n \in P
  <2> HIDE DEF P
  <2> QED BY <1>1, <1>4
<1> QED BY <1>1, <1>5

LEMMA FrontAndLast ==
  ASSUME NEW row \in Row, row # <<>>
  PROVE  /\ Front(row) \in Row /\ row[Len(row)] \in Seq(Char)
         /\ Append(Front(row), row[Len(row)]) = row
<1> DEFINE n == Len(row)
           B == Seq(Char)
<1>1. row \in Seq(B) /\ n \in 1..Len(row) /\ row[n] \in B /\ SubSeq(row, 1, n) = row
  BY PrefixEnds DEF Row
<1> HIDE DEF B
<1>2. SubSeq(row, 1, n - 1) \in Seq(B) /\ SubSeq(row, 1, n) = Append(SubSeq(row, 1, n - 1), row[n])
  BY <1>1, PrefixGrows
<1> QED BY <1>1, <1>2 DEF Front, Row, B

LEMMA SplitWritten ==
  ASSUME NEW row \in Row, row # <<>>
  PROVE  /\ Line(row) \in Seq(Char) /\ Line(row) \in Seq(Byte)
         /\ Run(SplitStep, NoField, Line(row)) = Plain(Front(row), row[Len(row)])
<1> DEFINE p == Front(row)
           f == row[Len(row)]
           a == Run(BarStep, <<>>, p)
           e == EscapedField(f)
<1>1. p \in Row /\ f \in Seq(Char)
  BY FrontAndLast
<1>2. Line(row) = a \o e
  BY DEF Line
<1> HIDE DEF p, f
<1>3. a \in Seq(Char) /\ e \in Seq(Char)
  BY <1>1, BarRun, WriteMachines
<1>4. Run(SplitStep, NoField, a) = Plain(p, <<>>) /\ Run(SplitStep, Plain(p, <<>>), e) = Plain(p, f)
  BY <1>1, SplitBars, SplitField
<1> HIDE DEF a, e
<1>5. a \in Seq(Byte) /\ e \in Seq(Byte) /\ a \o e \in Seq(Char) /\ a \o e \in Seq(Byte)
  BY <1>3, CharsAreBytes
<1>6. Run(SplitStep, NoField, a \o e) = Run(SplitStep, Run(SplitStep, NoField, a), e)
  BY <1>5, SplitMachine, SplitRun
<1> QED BY <1>2, <1>4, <1>5, <1>6 DEF p, f

(* The end of a line, and the NUL behind the last one, end the row.        *)
LEMMA SplitEnd ==
  ASSUME NEW p \in Row, NEW f \in Seq(Char), NEW end \in LineEnds \cup {<<>>}
  PROVE  /\ end \in Seq(Char) /\ end \in Seq(Byte)
         /\ Run(SplitStep, Plain(p, f), Append(end, NUL)).row = Append(p, f)
<1> DEFINE r == Plain(p, f)
           x == [Cut(r) EXCEPT !.over = TRUE]
           s == <<NL>>
           t == <<CR, NL>>
<1>1. r \in Splitting /\ r.row = p /\ r.field = f
      /\ \A c \in Byte : SplitByte(r, c) = SplitPlain(r, c)
  <2>1. r.row = p /\ r.field = f
    BY DEF Plain
  <2> QED BY <2>1, PlainType
<1>2. x \in Splitting /\ x.row = Append(p, f) /\ x.over
  <2> DEFINE c == Cut(r)
  <2>1. c \in Splitting /\ x \in Splitting /\ c.row = Append(p, f)
    BY <1>1, CutType
  <2>2. x = [c EXCEPT !.over = TRUE]
    OBVIOUS
  <2> HIDE DEF c, x
  <2>3. x.row = c.row /\ x.over = TRUE
    BY <2>1, <2>2 DEF Splitting
  <2> QED BY <2>1, <2>3
<1> HIDE DEF r
<1>3. SplitByte(r, NUL) = x /\ SplitByte(r, NL) = x /\ SplitByte(r, CR) = r
  <2>1. NUL \in Byte /\ NL \in Byte /\ CR \in Byte
    BY Codes, CharsAreBytes
  <2>2. SplitPlain(r, NUL) = x /\ SplitPlain(r, NL) = x
    BY Codes DEF SplitPlain
  <2>3. SplitPlain(r, CR) = r
    BY Codes DEF SplitPlain
  <2> QED BY <1>1, <2>1, <2>2, <2>3
<1> HIDE DEF x
<1>4. SplitByte(x, NUL) = x
  BY <1>2 DEF SplitByte
<1>5. /\ NUL \in Byte /\ NL \in Byte /\ CR \in Byte /\ <<>> \in Seq(Byte) /\ s \in Seq(Byte)
      /\ t \in Seq(Byte) /\ <<CR>> \in Seq(Byte)
      /\ s = Append(<<>>, NL) /\ t = Append(<<CR>>, NL) /\ <<CR>> = Append(<<>>, CR)
  BY OneByOne, Codes, CharsAreBytes
<1>6. s \in Seq(Char) /\ t \in Seq(Char) /\ <<>> \in Seq(Char)
  BY Codes
<1> HIDE DEF s, t
<1>7. Run(SplitStep, r, <<>>) = r
  BY <1>1, SplitRun
<1>15. \A c \in Byte : Run(SplitStep, r, Append(<<>>, c)) = SplitByte(r, c)
  <2> TAKE c \in Byte
  <2> DEFINE none == <<>>
  <2>1. none \in Seq(Byte) /\ Run(SplitStep, r, none) = r
    BY <1>5, <1>7
  <2> HIDE DEF none
  <2>2. Run(SplitStep, r, Append(none, c)) = SplitByte(Run(SplitStep, r, none), c)
    BY <1>1, <2>1, SplitRun
  <2>3. Run(SplitStep, r, Append(none, c)) = SplitByte(r, c)
    BY <2>1, <2>2
  <2> QED BY <2>3 DEF none
<1>8. Run(SplitStep, r, s) = x
  <2>1. Run(SplitStep, r, Append(<<>>, NL)) = SplitByte(r, NL)
    BY <1>5, <1>15
  <2> QED BY <1>3, <1>5, <2>1
<1>9. Run(SplitStep, r, <<CR>>) = r
  <2>1. Run(SplitStep, r, Append(<<>>, CR)) = SplitByte(r, CR)
    BY <1>5, <1>15
  <2> QED BY <1>3, <1>5, <2>1
<1>10. Run(SplitStep, r, t) = x
  BY <1>1, <1>3, <1>5, <1>9, SplitRun
<1>11. end \in {s, t, <<>>}
  BY DEF LineEnds, s, t
<1>12. end \in Seq(Byte) /\ end \in Seq(Char)
  BY <1>5, <1>6, <1>11
<1>13. Run(SplitStep, r, Append(end, NUL)) = SplitByte(Run(SplitStep, r, end), NUL)
  BY <1>1, <1>5, <1>12, SplitRun
<1>14. Run(SplitStep, r, Append(end, NUL)) = x
  BY <1>3, <1>4, <1>7, <1>8, <1>10, <1>11, <1>13
<1> QED BY <1>2, <1>12, <1>14 DEF r

LEMMA LineReadBack ==
  ASSUME NEW row \in Row, row # <<>>, NEW end \in LineEnds \cup {<<>>}
  PROVE  SplitLine(Line(row) \o end) = row
<1> DEFINE l == Line(row)
           p == Front(row)
           f == row[Len(row)]
           all == l \o end
           last == Append(end, NUL)
<1>1. l \in Seq(Byte) /\ Run(SplitStep, NoField, l) = Plain(p, f)
  BY SplitWritten
<1>2. p \in Row /\ f \in Seq(Char) /\ Append(p, f) = row
  BY FrontAndLast
<1> HIDE DEF l, p, f
<1>3. end \in Seq(Byte) /\ Run(SplitStep, Plain(p, f), Append(end, NUL)).row = Append(p, f)
  BY <1>2, SplitEnd
<1>4. all \in Seq(Byte) /\ last \in Seq(Byte) /\ Append(all, NUL) = l \o last
  BY <1>1, <1>3, Codes, AppendIsConcat
<1>5. SplitLine(all) = Run(SplitStep, NoField, Append(all, NUL)).row
  <2> HIDE DEF all
  <2> QED BY <1>4, SplitLineIs
<1>6. Run(SplitStep, NoField, l \o last) = Run(SplitStep, Run(SplitStep, NoField, l), last)
  <2> HIDE DEF last
  <2> QED BY <1>1, <1>4, SplitMachine, SplitRun
<1> QED BY <1>1, <1>2, <1>3, <1>4, <1>5, <1>6 DEF l

\* No line ends before its end.
Inner == Char \ {NL}

LEMMA EscapedIsInner ==
  ASSUME NEW c \in Char
  PROVE  Escaped(c) \in Seq(Inner)
<1>1. 110 \in Inner /\ 114 \in Inner /\ Backslash \in Inner /\ Bar \in Inner
  BY Codes DEF Inner, Char
<1>2. CASE c \in {NL, CR, Bar, Backslash}
  <2>1. PICK d \in Inner : Escaped(c) = <<Backslash, d>>
    BY <1>1, <1>2, Codes DEF Escaped
  <2>2. <<Backslash, d>> \in Seq(Inner)
    BY <1>1
  <2> QED BY <2>1, <2>2
<1>3. CASE c \notin {NL, CR, Bar, Backslash}
  <2>1. Escaped(c) = <<c>> /\ c \in Inner
    BY <1>3 DEF Escaped, Inner
  <2> QED BY <2>1
<1> QED BY <1>2, <1>3

LEMMA FieldIsInner ==
  ASSUME NEW f \in Seq(Char)
  PROVE  EscapedField(f) \in Seq(Inner)
<1> DEFINE A == Seq(Char)
           B == Char
           I == Seq(Inner)
           go == EscapeStep
           base == <<>>
<1>1. Machine(A, B, go) /\ base \in A /\ f \in Seq(B) /\ base \in I
  BY WriteMachines
<1>2. \A a \in A, i \in 1..Len(f) : a \in I => go[a][f[i]] \in I
  <2> TAKE a \in A, i \in 1..Len(f)
  <2> HAVE a \in I
  <2> DEFINE e == Escaped(f[i])
  <2>1. f[i] \in Char /\ e \in Seq(Inner)
    BY EscapedIsInner
  <2>2. go[a][f[i]] = a \o e
    BY <2>1 DEF EscapeStep
  <2> HIDE DEF e
  <2>3. a \o e \in I
    BY <2>1
  <2> QED BY <2>2, <2>3
<1>3. EscapedField(f) = Run(go, base, f)
  BY DEF EscapedField
<1> HIDE DEF A, B, I, go, base
<1>4. Run(go, base, f) \in I
  BY <1>1, <1>2, RunKeeps
<1> QED BY <1>3, <1>4 DEF I

LEMMA LineIsInner ==
  ASSUME NEW row \in Row, row # <<>>
  PROVE  Line(row) \in Seq(Inner)
<1> DEFINE A == Seq(Char)
           I == Seq(Inner)
           go == BarStep
           base == <<>>
           p == Front(row)
           e == EscapedField(row[Len(row)])
<1>1. p \in Seq(A) /\ e \in I
  BY FrontAndLast, FieldIsInner DEF Row
<1>2. Machine(A, A, go) /\ base \in A /\ base \in I
  BY WriteMachines
<1> HIDE DEF p
<1>3. \A a \in A, i \in 1..Len(p) : a \in I => go[a][p[i]] \in I
  <2> TAKE a \in A, i \in 1..Len(p)
  <2> HAVE a \in I
  <2> DEFINE g == EscapedField(p[i])
  <2>1. p[i] \in A /\ g \in Seq(Inner) /\ Bar \in Inner
    <3>1. p[i] \in A /\ Bar \in Inner
      BY <1>1, Codes DEF Inner
    <3> QED BY <3>1, FieldIsInner
  <2>2. go[a][p[i]] = a \o (g \o <<Bar>>)
    BY <2>1 DEF BarStep
  <2> HIDE DEF g
  <2>3. a \o (g \o <<Bar>>) \in I
    BY <2>1
  <2> QED BY <2>2, <2>3
<1>4. Line(row) = Run(go, base, p) \o e
  BY DEF Line, p
<1> HIDE DEF A, I, go, base, e
<1>5. Run(go, base, p) \in I
  BY <1>1, <1>2, <1>3, RunKeeps
<1> DEFINE a == Run(go, base, p)
<1>6. a \in Seq(Inner) /\ e \in Seq(Inner) /\ Line(row) = a \o e
  BY <1>1, <1>4, <1>5 DEF I
<1> HIDE DEF a
<1> QED BY <1>6

LEMMA ReadRun ==
  ASSUME NEW r \in Collecting
  PROVE  /\ Run(ReadStep, r, <<>>) = r
         /\ \A s \in Seq(Byte) : Run(ReadStep, r, s) \in Collecting
         /\ \A s \in Seq(Byte), c \in Byte :
              Run(ReadStep, r, Append(s, c)) = ReadByte(Run(ReadStep, r, s), c)
         /\ \A s, t \in Seq(Byte) :
              Run(ReadStep, r, s \o t) = Run(ReadStep, Run(ReadStep, r, s), t)
<1> DEFINE A == Collecting
           B == Byte
           go == ReadStep
<1>1. Machine(A, B, go) /\ r \in A
  BY ReadMachine
<1>2. \A a \in A, c \in B : go[a][c] = ReadByte(a, c)
  BY ReadMachine
<1> HIDE DEF A, B, go
<1>3. Run(go, r, <<>>) = r
  BY RunOfNothing
<1>4. \A s \in Seq(B) : Run(go, r, s) \in A
  BY <1>1, RunType
<1>5. \A s \in Seq(B), c \in B : Run(go, r, Append(s, c)) = ReadByte(Run(go, r, s), c)
  <2> TAKE s \in Seq(B), c \in B
  <2>1. Run(go, r, Append(s, c)) = go[Run(go, r, s)][c]
    BY <1>1, RunAppend
  <2> QED BY <1>2, <1>4, <2>1
<1>6. \A s, t \in Seq(B) : Run(go, r, s \o t) = Run(go, Run(go, r, s), t)
  BY <1>1, RunConcat
<1> QED BY <1>3, <1>4, <1>5, <1>6 DEF A, B, go

\* The reader with a part of a line, behind so many rows.
Within(line, list) == [line |-> line, rows |-> list]

LEMMA WithinType ==
  ASSUME NEW line \in Seq(Byte), NEW list \in Seq(Row)
  PROVE  /\ Within(line, list) \in Collecting
         /\ Within(line, list).line = line /\ Within(line, list).rows = list
         /\ \A c \in Byte : c # NL => ReadByte(Within(line, list), c) = Within(Append(line, c), list)
         /\ ReadByte(Within(line, list), NL) = EndLine(Within(Append(line, NL), list))
<1> DEFINE r == Within(line, list)
<1>1. r \in Collecting /\ r.line = line /\ r.rows = list
  BY DEF Within, Collecting
<1>2. ASSUME NEW c \in Byte
      PROVE  [r EXCEPT !.line = Append(@, c)] = Within(Append(line, c), list)
  <2> DEFINE more == Append(line, c)
             u == [r EXCEPT !.line = more]
             v == Within(more, list)
  <2>1. more \in Seq(Byte) /\ [r EXCEPT !.line = Append(@, c)] = u
    BY <1>1
  <2> HIDE DEF more, r
  <2>2. u \in Collecting /\ u.line = more /\ u.rows = list
    BY <1>1, <2>1 DEF Collecting
  <2>3. v \in Collecting /\ v.line = more /\ v.rows = list
    BY <2>1 DEF Within, Collecting
  <2> HIDE DEF u, v
  <2>4. u = v
    BY <2>2, <2>3 DEF Collecting
  <2> QED BY <2>1, <2>4 DEF v, more
<1> HIDE DEF r
<1>3. \A c \in Byte : c # NL => ReadByte(r, c) = Within(Append(line, c), list)
  BY <1>2 DEF ReadByte
<1>4. ReadByte(r, NL) = EndLine(Within(Append(line, NL), list))
  <2>1. NL \in Byte
    BY Codes, CharsAreBytes
  <2> QED BY <1>2, <2>1 DEF ReadByte
<1> QED BY <1>1, <1>3, <1>4 DEF r

LEMMA ReadInner ==
  ASSUME NEW list \in Seq(Row), NEW s \in Seq(Inner)
  PROVE  Run(ReadStep, Within(<<>>, list), s) = Within(s, list)
<1> DEFINE n == Len(s)
           part(i) == SubSeq(s, 1, i)
           r == Within(<<>>, list)
           P == {i \in 0..n : Run(ReadStep, r, part(i)) = Within(part(i), list)}
<1>1. n \in Nat /\ part(0) = <<>> /\ part(n) = s
  BY PrefixEnds
<1>2. r \in Collecting
  BY OneByOne, WithinType
<1>3. 0 \in P
  <2>1. Run(ReadStep, r, <<>>) = r
    BY <1>2, ReadRun
  <2>2. 0 \in 0..n /\ r = Within(<<>>, list)
    BY <1>1
  <2> HIDE DEF part, r
  <2>3. Run(ReadStep, r, part(0)) = Within(part(0), list)
    BY <1>1, <2>1, <2>2
  <2> QED BY <2>2, <2>3
<1>4. ASSUME NEW i \in 1..n, i - 1 \in P PROVE i \in P
  <2> DEFINE q == part(i - 1)
             c == s[i]
  <2>1. q \in Seq(Inner) /\ part(i) = Append(q, c) /\ i \in 0..n
    BY <1>1, PrefixGrows
  <2>2. c \in Inner
    OBVIOUS
  <2>3. Run(ReadStep, r, q) = Within(q, list)
    BY <1>4
  <2>4. Inner \subseteq Byte /\ c # NL /\ c \in Byte
    BY <2>2, CharsAreBytes DEF Inner
  <2> HIDE DEF q, c, part, r
  <2>5. q \in Seq(Byte)
    BY <2>1, <2>4
  <2>6. Run(ReadStep, r, Append(q, c)) = ReadByte(Run(ReadStep, r, q), c)
    BY <1>2, <2>4, <2>5, ReadRun
  <2>7. ReadByte(Within(q, list), c) = Within(Append(q, c), list)
    BY <2>4, <2>5, WithinType
  <2> QED BY <2>1, <2>3, <2>6, <2>7
<1>5. \A i \in 0..n : i \in P
  <2> HIDE DEF P, n
  <2> QED BY <1>1, <1>3, <1>4, PlaceByPlace
<1>6. n \in P
  <2> HIDE DEF P
  <2> QED BY <1>1, <1>5
<1> QED BY <1>1, <1>6

LEMMA EndLineIs ==
  ASSUME NEW line \in Seq(Byte), NEW list \in Seq(Row)
  PROVE  EndLine(Within(line, list))
           = Within(<<>>, IF SplitLine(line) = <<<<>>>> THEN list ELSE Append(list, SplitLine(line)))
  BY DEF EndLine, Within

LEMMA NoRowInNothing == SplitLine(<<>>) = <<<<>>>>
<1> DEFINE p == <<>>
           f == <<>>
           end == <<>>
<1>1. p \in Row /\ f \in Seq(Char) /\ end \in LineEnds \cup {<<>>} /\ end \in Seq(Byte)
  BY OneByOne
<1>2. NoField = Plain(p, f) /\ Append(p, f) = <<<<>>>> /\ end = <<>>
  BY DEF NoField, Plain
<1> HIDE DEF p, f, end
<1>3. Run(SplitStep, Plain(p, f), Append(end, NUL)).row = Append(p, f)
  BY <1>1, SplitEnd
<1>4. SplitLine(end) = Run(SplitStep, NoField, Append(end, NUL)).row
  BY <1>1, SplitLineIs
<1> QED BY <1>2, <1>3, <1>4

(* A line with its end is read, split and added to the rows.               *)
LEMMA ReadLine ==
  ASSUME NEW row \in Writable, NEW end \in LineEnds, NEW list \in Seq(Row)
  PROVE  Run(ReadStep, Within(<<>>, list), Line(row) \o end) = Within(<<>>, Append(list, row))
<1> DEFINE l == Line(row)
           r == Within(<<>>, list)
<1>1. row \in Row /\ row # <<>> /\ row # <<<<>>>>
  BY DEF Writable
<1>2. l \in Seq(Inner) /\ l \in Seq(Byte) /\ l \in Seq(Char) /\ SplitLine(l \o end) = row
  BY <1>1, LineIsInner, SplitWritten, LineReadBack
<1> HIDE DEF l
<1>3. PICK h \in Seq(Inner) : end = Append(h, NL) /\ h \in Seq(Byte)
  <2>1. CASE end = <<NL>>
    <3>1. <<>> \in Seq(Inner) /\ <<>> \in Seq(Byte) /\ <<NL>> = Append(<<>>, NL)
      BY OneByOne, Codes, CharsAreBytes
    <3> QED BY <2>1, <3>1
  <2>2. CASE end = <<CR, NL>>
    <3>1. CR \in Inner /\ CR \in Byte /\ NL \in Byte
      BY Codes, CharsAreBytes DEF Inner
    <3>2. <<CR>> \in Seq(Inner) /\ <<CR>> \in Seq(Byte) /\ <<CR, NL>> = Append(<<CR>>, NL)
      BY <3>1, OneByOne
    <3> QED BY <2>2, <3>2
  <2> QED BY <2>1, <2>2 DEF LineEnds
<1> DEFINE m == l \o h
<1>4. m \in Seq(Inner) /\ m \in Seq(Byte) /\ l \o Append(h, NL) = Append(m, NL)
      /\ NL \in Byte /\ Append(m, NL) \in Seq(Byte)
  <2>1. NL \in Byte /\ NL \in Char
    BY Codes, CharsAreBytes
  <2>2. m \in Seq(Inner) /\ m \in Seq(Byte)
    BY <1>2, <1>3
  <2>3. l \o Append(h, NL) = Append(m, NL)
    BY <1>2, <1>3, <2>1
  <2>4. Append(m, NL) \in Seq(Byte)
    <3> HIDE DEF m
    <3> QED BY <2>1, <2>2
  <2> QED BY <2>1, <2>2, <2>3, <2>4
<1> HIDE DEF m
<1>5. r \in Collecting
  BY OneByOne, WithinType
<1>6. Run(ReadStep, r, m) = Within(m, list)
  BY <1>4, ReadInner
<1> HIDE DEF r
<1>7. Run(ReadStep, r, Append(m, NL)) = ReadByte(Within(m, list), NL)
  BY <1>4, <1>5, <1>6, ReadRun
<1>8. ReadByte(Within(m, list), NL) = EndLine(Within(Append(m, NL), list))
  BY <1>4, WithinType
<1>9. SplitLine(Append(m, NL)) = row
  BY <1>2, <1>3, <1>4
<1>10. EndLine(Within(Append(m, NL), list)) = Within(<<>>, Append(list, row))
  BY <1>1, <1>4, <1>9, EndLineIs
<1> QED BY <1>3, <1>4, <1>7, <1>8, <1>10 DEF l, r

LEMMA LinesRun ==
  ASSUME NEW end \in LineEnds
  PROVE  /\ Lines(<<>>, end) = <<>>
         /\ \A s \in Seq(Writable) : Lines(s, end) \in Seq(Char) /\ Lines(s, end) \in Seq(Byte)
         /\ \A s \in Seq(Writable), row \in Writable :
              Lines(Append(s, row), end) = Lines(s, end) \o (Line(row) \o end)
<1> DEFINE A == Seq(Char)
           B == Writable
           go == LinesStep(end)
           base == <<>>
<1>1. end \in Seq(Char)
  BY OneByOne, SplitEnd
<1>2. \A a \in A, row \in B : go[a][row] = a \o (Line(row) \o end)
  BY DEF LinesStep
<1>3. \A a \in A, row \in B : a \o (Line(row) \o end) \in A
  <2> TAKE a \in A, row \in B
  <2> DEFINE l == Line(row)
  <2>1. l \in Seq(Char)
    BY SplitWritten DEF Writable
  <2> HIDE DEF l
  <2>2. a \o (l \o end) \in Seq(Char)
    BY <1>1, <2>1
  <2> QED BY <2>2 DEF l
<1>4. Machine(A, B, go) /\ base \in A
  <2>1. base \in A
    OBVIOUS
  <2> QED BY <1>3, <2>1 DEF LinesStep, Machine
<1>5. \A s : Lines(s, end) = Run(go, base, s)
  BY DEF Lines
<1>6. base = <<>> /\ \A s \in Seq(B) : \A row \in B : Append(s, row) \in Seq(B)
  OBVIOUS
<1> HIDE DEF A, B, go, base
<1>7. Lines(<<>>, end) = <<>>
  BY <1>5, <1>6, RunOfNothing
<1>8. \A s \in Seq(B) : Lines(s, end) \in A
  BY <1>4, <1>5, RunType
<1>9. \A s \in Seq(B), row \in B : Lines(Append(s, row), end) = Lines(s, end) \o (Line(row) \o end)
  <2> TAKE s \in Seq(B), row \in B
  <2>1. Run(go, base, Append(s, row)) = go[Run(go, base, s)][row]
    BY <1>4, RunAppend
  <2> QED BY <1>2, <1>5, <1>8, <2>1
<1> QED BY <1>7, <1>8, <1>9, CharsAreBytes DEF A, B

(* Line by line, all rows come back.                                       *)
LEMMA ReadLines ==
  ASSUME NEW end \in LineEnds, NEW s \in Seq(Writable)
  PROVE  Run(ReadStep, NoLine, Lines(s, end)) = Within(<<>>, s)
<1> DEFINE n == Len(s)
           part(i) == SubSeq(s, 1, i)
           r == NoLine
           P == {i \in 0..n : Run(ReadStep, r, Lines(part(i), end)) = Within(<<>>, part(i))}
<1>1. n \in Nat /\ part(0) = <<>> /\ part(n) = s
  BY PrefixEnds
<1>2. r \in Collecting /\ r = Within(<<>>, <<>>)
  BY ReadMachine DEF NoLine, Within
<1>3. 0 \in P
  <2> HIDE DEF r, part
  <2>1. Run(ReadStep, r, Lines(<<>>, end)) = Within(<<>>, <<>>)
    BY <1>2, LinesRun, ReadRun
  <2>2. Run(ReadStep, r, Lines(part(0), end)) = Within(<<>>, part(0))
    BY <1>1, <2>1
  <2>3. 0 \in 0..n
    BY <1>1
  <2> QED BY <2>2, <2>3
<1>4. ASSUME NEW i \in 1..n, i - 1 \in P PROVE i \in P
  <2> DEFINE q == part(i - 1)
             row == s[i]
  <2>1. q \in Seq(Writable) /\ part(i) = Append(q, row) /\ i \in 0..n
    BY <1>1, PrefixGrows
  <2>2. row \in Writable
    OBVIOUS
  <2>3. Run(ReadStep, r, Lines(q, end)) = Within(<<>>, q)
    BY <1>4
  <2> HIDE DEF q, row, part, r
  <2> DEFINE a == Lines(q, end)
             b == Line(row) \o end
  <2>4. a \in Seq(Byte) /\ Lines(Append(q, row), end) = a \o b
    BY <2>1, <2>2, LinesRun
  <2>5. b \in Seq(Byte)
    <3> DEFINE l == Line(row)
    <3>1. l \in Seq(Byte) /\ end \in Seq(Byte)
      BY <2>2, SplitWritten, OneByOne, SplitEnd DEF Writable
    <3> HIDE DEF l
    <3>2. l \o end \in Seq(Byte)
      BY <3>1
    <3> QED BY <3>2 DEF l
  <2>6. q \in Seq(Row)
    <3>1. Writable \subseteq Row
      BY DEF Writable
    <3> QED BY <2>1, <3>1
  <2>7. Run(ReadStep, Within(<<>>, q), b) = Within(<<>>, Append(q, row))
    BY <2>2, <2>6, ReadLine
  <2> HIDE DEF a, b
  <2>8. Run(ReadStep, r, a \o b) = Run(ReadStep, Run(ReadStep, r, a), b)
    BY <1>2, <2>4, <2>5, ReadRun
  <2> QED BY <2>1, <2>3, <2>4, <2>7, <2>8 DEF a
<1>5. \A i \in 0..n : i \in P
  <2> HIDE DEF P, n
  <2> QED BY <1>1, <1>3, <1>4, PlaceByPlace
<1>6. n \in P
  <2> HIDE DEF P
  <2> QED BY <1>1, <1>5
<1> QED BY <1>1, <1>6

(* Every line has an end, but the last may have none.                      *)
Written(s, bytes) ==
  \E end \in LineEnds :
    \/ bytes = Lines(s, end)
    \/ s # <<>> /\ bytes = Lines(Front(s), end) \o Line(s[Len(s)])

AllWritten == \A t \in TextFiles : t.rows \in Seq(Writable) /\ Written(t.rows, t.bytes)

(* The reading of a text undoes its writing: every byte that stands for    *)
(* the end of a line, of a field or for an escape comes back out of its    *)
(* escaped form, whatever the rows hold, so that migration loses nothing   *)
(* (read_text_line, split_pipe_line, migrate_text_data_to_binary).         *)
THEOREM WrittenTextsReadBack == AllWritten => TextsReadBack
<1> SUFFICES ASSUME AllWritten, NEW t \in TextFiles PROVE TextRows(t.bytes) = t.rows
  BY DEF TextsReadBack
<1> DEFINE s == t.rows
           bytes == t.bytes
           list == Run(ReadStep, NoLine, bytes)
<1>1. s \in Seq(Writable) /\ bytes \in Seq(Char) /\ Written(s, bytes)
  BY RecordsAssumption DEF AllWritten
<1>2. bytes \in Seq(Byte)
  BY <1>1, CharsAreBytes
<1> HIDE DEF s, bytes
<1>3. TextRows(bytes) = EndLine(list).rows
  BY <1>2, TextRowsIs
<1> HIDE DEF list
<1>4. PICK end \in LineEnds :
        \/ bytes = Lines(s, end)
        \/ s # <<>> /\ bytes = Lines(Front(s), end) \o Line(s[Len(s)])
  BY <1>1 DEF Written
<1>5. Writable \subseteq Row /\ s \in Seq(Row)
  <2>1. Writable \subseteq Row
    BY DEF Writable
  <2> QED BY <1>1, <2>1
<1>6. CASE bytes = Lines(s, end)
  <2>1. list = Within(<<>>, s)
    BY <1>1, <1>6, ReadLines DEF list
  <2>2. EndLine(Within(<<>>, s)) = Within(<<>>, s)
    <3> DEFINE none == <<>>
    <3>1. none \in Seq(Byte) /\ SplitLine(none) = <<<<>>>> /\ none = <<>>
      BY OneByOne, NoRowInNothing
    <3> HIDE DEF none
    <3>2. EndLine(Within(none, s)) = Within(<<>>, s)
      BY <1>5, <3>1, EndLineIs
    <3> QED BY <3>1, <3>2
  <2>3. Within(<<>>, s).rows = s
    BY DEF Within
  <2> QED BY <1>3, <2>1, <2>2, <2>3 DEF s, bytes
<1>7. CASE s # <<>> /\ bytes = Lines(Front(s), end) \o Line(s[Len(s)])
  <2> DEFINE q == Front(s)
             row == s[Len(s)]
             a == Lines(q, end)
             l == Line(row)
  <2>1. q \in Seq(Writable) /\ row \in Writable /\ Append(q, row) = s
    <3> DEFINE n == Len(s)
    <3>1. n \in 1..Len(s) /\ SubSeq(s, 1, n) = s
      BY <1>1, <1>7, PrefixEnds
    <3>2. SubSeq(s, 1, n - 1) \in Seq(Writable)
          /\ SubSeq(s, 1, n) = Append(SubSeq(s, 1, n - 1), s[n])
      BY <1>1, <3>1, PrefixGrows
    <3>3. s[n] \in Writable
      BY <1>1, <3>1
    <3> QED BY <3>1, <3>2, <3>3 DEF Front
  <2> HIDE DEF q, row
  <2>2. row \in Row /\ row # <<>> /\ row # <<<<>>>> /\ q \in Seq(Row)
    BY <1>5, <2>1 DEF Writable
  <2>3. a \in Seq(Byte) /\ l \in Seq(Byte) /\ l \in Seq(Inner)
    BY <2>1, <2>2, LinesRun, SplitWritten, LineIsInner
  <2>4. Run(ReadStep, NoLine, a) = Within(<<>>, q)
    BY <2>1, ReadLines
  <2>5. SplitLine(l) = row
    <3> DEFINE none == <<>>
    <3>1. none \in LineEnds \cup {<<>>} /\ l \o none = l
      BY <2>3
    <3> HIDE DEF none
    <3>2. SplitLine(Line(row) \o none) = row
      BY <2>2, <3>1, LineReadBack
    <3> QED BY <3>1, <3>2
  <2> HIDE DEF a, l
  <2>6. Run(ReadStep, NoLine, a \o l) = Run(ReadStep, Within(<<>>, q), l)
    BY <2>3, <2>4, ReadMachine, ReadRun
  <2>7. Run(ReadStep, Within(<<>>, q), l) = Within(l, q)
    BY <2>2, <2>3, ReadInner
  <2>8. list = Within(l, q)
    BY <1>7, <2>6, <2>7 DEF list, a, l, q, row
  <2>9. EndLine(Within(l, q)) = Within(<<>>, Append(q, row))
    BY <2>2, <2>3, <2>5, EndLineIs
  <2>10. Within(<<>>, s).rows = s
    BY DEF Within
  <2> QED BY <1>3, <2>1, <2>8, <2>9, <2>10 DEF s, bytes
<1> QED BY <1>4, <1>6, <1>7
=============================================================================
