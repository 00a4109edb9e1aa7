----------------------------- MODULE ReplProofs -----------------------------
(***************************************************************************)
(* Theorems of the program: the line editor and the input history; which   *)
(* statements a session or a script runs, in which order and with which    *)
(* exit status; the order of options.  For all lines, keys, arguments and  *)
(* limits.                                                                 *)
(***************************************************************************)
EXTENDS Repl, ParserProofs

Cell == Keys \cup {"blank"}

(* A line Enter has room for.                                              *)
Fits(line) == line \in Seq(Keys) /\ Len(line) + 1 < LineSize

(* The row of the screen shows a line and blanks behind it.                *)
RowShows(row, line) ==
  /\ row \in Seq(Cell) /\ Len(line) <= Len(row)
  /\ \A i \in 1..Len(row) : row[i] = IF i <= Len(line) THEN line[i] ELSE "blank"

(***************************************************************************)
(* Only a terminal has a line to edit, and only lines entered at it are    *)
(* recalled: when the session falls back on fgets, lines of any length get *)
(* into the history, and no key is pressed any more.                       *)
(***************************************************************************)
EditorInv ==
  /\ pc = "start" => mode = Nothing
  /\ history \in Seq(Seq(Kinds)) /\ Len(history) <= HistoryMax
  /\ cursor \in 0..Len(history)
  /\ Fits(input) /\ RowShows(cells, input)
  /\ mode # "terminal" => input = <<>> /\ cells = <<>>
  /\ mode \in {Nothing, "terminal"} => \A i \in 1..Len(history) : Fits(history[i])

(***************************************************************************)
(* Rows of the screen                                                      *)
(***************************************************************************)
LEMMA BlanksAreASequence ==
  ASSUME NEW n \in Nat
  PROVE  /\ Blanks(n) \in Seq(Cell) /\ Len(Blanks(n)) = n
         /\ \A i \in 1..n : Blanks(n)[i] = "blank"
<1>1. Blanks(n) \in [1..n -> Cell]
  BY DEF Blanks, Cell
<1> QED BY <1>1 DEF Blanks

LEMMA RowIsLineAndBlanks ==
  ASSUME NEW row, NEW line \in Seq(Keys), RowShows(row, line)
  PROVE  row = line \o Blanks(Len(row) - Len(line))
<1> DEFINE n == Len(row) - Len(line)
           rest == Blanks(n)
<1>1. row \in Seq(Cell) /\ line \in Seq(Cell)
  BY SeqMonotonic DEF RowShows, Cell
<1>2. n \in Nat /\ Len(line) \in Nat /\ Len(row) = Len(line) + n
  BY <1>1, LenProperties DEF RowShows
<1>3. rest \in Seq(Cell) /\ Len(rest) = n /\ \A i \in 1..n : rest[i] = "blank"
  BY <1>2, BlanksAreASequence
<1> HIDE DEF n, rest
<1>4. /\ line \o rest \in Seq(Cell) /\ Len(line \o rest) = Len(line) + n
      /\ \A i \in 1..Len(line) + n :
           (line \o rest)[i] = IF i <= Len(line) THEN line[i] ELSE rest[i - Len(line)]
  BY <1>1, <1>3, ConcatProperties
<1>5. ASSUME NEW i \in 1..Len(row)
      PROVE  row[i] = (line \o rest)[i]
  <2>1. CASE i <= Len(line)
    BY <2>1, <1>2, <1>4 DEF RowShows
  <2>2. CASE ~(i <= Len(line))
    <3>1. i - Len(line) \in 1..n
      BY <2>2, <1>2
    <3>2. rest[i - Len(line)] = "blank" /\ row[i] = "blank"
      BY <3>1, <2>2, <1>3 DEF RowShows
    <3> QED BY <3>2, <2>2, <1>2, <1>4
  <2> QED BY <2>1, <2>2
<1>6. row = line \o rest
  BY <1>1, <1>2, <1>4, <1>5, SeqEqual
<1> QED BY <1>6 DEF n, rest

(***************************************************************************)
(* render_line_prompt: a shorter line is written with blanks over the rest *)
(* of the longer one, and what lies behind both is blank already.          *)
(***************************************************************************)
LEMMA WrittenIsShown ==
  ASSUME NEW old \in Seq(Keys), NEW new \in Seq(Keys)
  PROVE  /\ RowShows(Written(old, new), new)
         /\ Len(old) <= Len(Written(old, new))
<1>1. Len(old) \in Nat /\ Len(new) \in Nat /\ new \in Seq(Cell)
  BY LenProperties, SeqMonotonic DEF Cell
<1>2. CASE Len(old) > Len(new)
  <2> DEFINE n == Len(old) - Len(new)
             rest == Blanks(n)
  <2>1. n \in Nat /\ Len(old) = Len(new) + n
    BY <1>1, <1>2
  <2>2. rest \in Seq(Cell) /\ Len(rest) = n /\ \A i \in 1..n : rest[i] = "blank"
    BY <2>1, BlanksAreASequence
  <2>3. Written(old, new) = new \o rest
    BY <1>2 DEF Written
  <2> HIDE DEF n, rest
  <2>4. /\ new \o rest \in Seq(Cell) /\ Len(new \o rest) = Len(new) + n
        /\ \A i \in 1..Len(new) + n :
             (new \o rest)[i] = IF i <= Len(new) THEN new[i] ELSE rest[i - Len(new)]
    BY <1>1, <2>2, ConcatProperties
  <2>5. \A i \in 1..Len(new) + n : i <= Len(new) \/ i - Len(new) \in 1..n
    BY <1>1, <2>1
  <2> QED BY <1>1, <2>1, <2>2, <2>3, <2>4, <2>5 DEF RowShows
<1>3. CASE ~(Len(old) > Len(new))
  BY <1>1, <1>3 DEF Written, RowShows
<1> QED BY <1>2, <1>3

LEMMA OverwrittenRowShows ==
  ASSUME NEW old \in Seq(Keys), NEW new \in Seq(Keys), NEW row, RowShows(row, old)
  PROVE  LET written == Written(old, new)
         IN  RowShows(written \o SubSeq(row, Len(written) + 1, Len(row)), new)
<1> DEFINE written == Written(old, new)
           w == Len(written)
           r == Len(row)
           rest == SubSeq(row, w + 1, r)
<1>1. RowShows(written, new) /\ Len(old) <= w
  BY WrittenIsShown
<1>2. written \in Seq(Cell) /\ row \in Seq(Cell)
  BY <1>1 DEF RowShows
<1>3. w \in Nat /\ r \in Nat /\ Len(old) \in Nat /\ Len(new) \in Nat
  BY <1>2, LenProperties
<1>4. \A i \in w + 1..r : i \in 1..r /\ row[i] \in Cell /\ row[i] = "blank"
  BY <1>1, <1>2, <1>3 DEF RowShows, Cell
<1>5. /\ rest \in Seq(Cell) /\ Len(rest) = (IF w + 1 <= r THEN r - w ELSE 0)
      /\ \A i \in 1..r - w : rest[i] = row[w + i]
  <2> HIDE DEF w, r
  <2>1. w + 1 \in Int /\ r \in Int /\ r - (w + 1) + 1 = r - w
        /\ \A i \in 1..r - w : w + 1 + i - 1 = w + i
    BY <1>3
  <2> QED BY <1>3, <1>4, <2>1, SubSeqProperties
<1> HIDE DEF rest, w, written, r
<1>6. /\ written \o rest \in Seq(Cell) /\ Len(written \o rest) = w + Len(rest)
      /\ \A i \in 1..w + Len(rest) :
           (written \o rest)[i] = IF i <= w THEN written[i] ELSE rest[i - w]
  BY <1>2, <1>5, ConcatProperties DEF w
<1>7. ASSUME NEW i \in 1..w + Len(rest)
      PROVE  (written \o rest)[i] = IF i <= Len(new) THEN new[i] ELSE "blank"
  <2>1. Len(new) <= w
    BY <1>1 DEF RowShows, w
  <2>2. CASE i <= w
    <3>1. i \in 1..w
      BY <2>2
    <3>2. written[i] = IF i <= Len(new) THEN new[i] ELSE "blank"
      BY <3>1, <1>1 DEF RowShows, w
    <3> QED BY <3>2, <2>2, <1>6
  <2>3. CASE ~(i <= w)
    <3>1. i - w \in 1..r - w /\ w + (i - w) = i /\ i \in w + 1..r
      BY <2>3, <1>3, <1>5
    <3>2. rest[i - w] = row[i]
      BY <3>1, <1>5
    <3>3. (written \o rest)[i] = "blank"
      BY <3>1, <3>2, <2>3, <1>4, <1>6
    <3> QED BY <3>3, <2>1, <2>3, <1>3
  <2> QED BY <2>2, <2>3
<1>8. Len(new) <= w + Len(rest)
  BY <1>1, <1>3, <1>5 DEF RowShows, w
<1>9. RowShows(written \o rest, new)
  BY <1>6, <1>7, <1>8 DEF RowShows
<1> QED BY <1>9 DEF rest, w, written, r

LEMMA EmptyRow == RowShows(<<>>, <<>>) /\ Fits(<<>>)
  BY EmptySeq, EditorAssumption DEF RowShows, Fits

(***************************************************************************)
(* history_add                                                             *)
(***************************************************************************)
LEMMA LineWithoutNewline ==
  ASSUME NEW kinds \in Seq(Kinds)
  PROVE  WithoutNewline(kinds) \in Seq(Kinds)
<1>1. CASE kinds # <<>> /\ Last(kinds) = "newline"
  <2>1. Len(kinds) \in Nat /\ \A i \in 1..Len(kinds) - 1 : kinds[i] \in Kinds
    BY ElementOfSeq, LenProperties
  <2>2. Front(kinds) \in Seq(Kinds)
    BY <2>1, SubSeqProperties DEF Front
  <2> QED BY <1>1, <2>2 DEF WithoutNewline
<1>2. CASE ~(kinds # <<>> /\ Last(kinds) = "newline")
  BY <1>2 DEF WithoutNewline
<1> QED BY <1>1, <1>2

(* The line that Enter ends is the line that was edited.                   *)
LEMMA EnteredLineIsInput ==
  ASSUME NEW line \in Seq(Keys)
  PROVE  /\ Append(line, "newline") \in Seq(Kinds)
         /\ WithoutNewline(Append(line, "newline")) = line
<1> DEFINE entered == Append(line, "newline")
<1>1. line \in Seq(Kinds) /\ "newline" \in Kinds
  BY ReplAssumption, SeqMonotonic DEF Kinds
<1>2. /\ entered \in Seq(Kinds) /\ entered # <<>> /\ Len(entered) = Len(line) + 1
      /\ \A i \in 1..Len(line) : entered[i] = line[i]
      /\ entered[Len(line) + 1] = "newline"
  BY <1>1, AppendProperties
<1>3. Len(line) \in Nat
  BY LenProperties
<1> HIDE DEF entered
<1>4. /\ Front(entered) \in Seq(Kinds) /\ Len(Front(entered)) = Len(line)
      /\ \A i \in 1..Len(line) : Front(entered)[i] = entered[i]
  <2>1. 1 \in Int /\ Len(line) \in Int /\ Len(entered) - 1 = Len(line)
        /\ \A i \in 1..Len(line) : entered[i] \in Kinds
    BY <1>1, <1>2, <1>3, ElementOfSeq
  <2>2. /\ SubSeq(entered, 1, Len(line)) \in Seq(Kinds)
        /\ Len(SubSeq(entered, 1, Len(line)))
             = IF 1 <= Len(line) THEN Len(line) - 1 + 1 ELSE 0
        /\ \A i \in 1..Len(line) - 1 + 1 :
             SubSeq(entered, 1, Len(line))[i] = entered[1 + i - 1]
    BY <2>1, SubSeqProperties
  <2> QED BY <2>1, <2>2, <1>3 DEF Front
<1>5. Front(entered) = line
  BY <1>1, <1>2, <1>4, SeqEqual
<1>6. WithoutNewline(entered) = line
  BY <1>2, <1>5 DEF WithoutNewline, Last
<1> QED BY <1>2, <1>6 DEF entered

LEMMA KindsOfPlaced ==
  ASSUME NEW kinds \in Seq(Kinds)
  PROVE  KindsOf(Place(kinds)) = kinds
<1>1. kinds = [i \in DOMAIN kinds |-> kinds[i]]
  BY LenProperties
<1> QED BY <1>1 DEF KindsOf, Place

LEMMA RememberedEntries ==
  ASSUME NEW h \in Seq(Seq(Kinds)), Len(h) <= HistoryMax, NEW entry \in Seq(Kinds)
  PROVE  LET after == Remember(h, entry)
         IN  /\ after \in Seq(Seq(Kinds)) /\ Len(after) <= HistoryMax
             /\ \A i \in 1..Len(after) :
                  after[i] = entry \/ \E j \in 1..Len(h) : after[i] = h[j]
<1>1. HistoryMax \in Nat \ {0} /\ Len(h) \in Nat
  BY EditorAssumption, LenProperties
<1>2. CASE Len(h) = HistoryMax
  <2>1. h # <<>>
    BY <1>1, <1>2, EmptySeq
  <2>2. /\ Tail(h) \in Seq(Seq(Kinds)) /\ Len(Tail(h)) = Len(h) - 1
        /\ \A i \in 1..Len(Tail(h)) : Tail(h)[i] = h[i + 1]
    BY <2>1, HeadTailProperties
  <2> DEFINE after == Append(Tail(h), entry)
  <2>3. /\ after \in Seq(Seq(Kinds)) /\ Len(after) = Len(Tail(h)) + 1
        /\ \A i \in 1..Len(Tail(h)) : after[i] = Tail(h)[i]
        /\ after[Len(Tail(h)) + 1] = entry
    BY <2>2, AppendProperties
  <2> HIDE DEF after
  <2>4. ASSUME NEW i \in 1..Len(after)
        PROVE  after[i] = entry \/ \E j \in 1..Len(h) : after[i] = h[j]
    <3>0. \A l, t, a \in Nat : t = l - 1 /\ a = t + 1 =>
            \A k \in 1..a : k = l \/ (k \in 1..t /\ k + 1 \in 1..l)
      OBVIOUS
    <3>1. i = Len(h) \/ (i \in 1..Len(Tail(h)) /\ i + 1 \in 1..Len(h))
      BY <1>1, <2>2, <2>3, <3>0, LenProperties
    <3>2. Len(h) = Len(Tail(h)) + 1
      BY <1>1, <2>2
    <3> QED BY <3>1, <3>2, <2>2, <2>3
  <2>5. Remember(h, entry) = after
    BY <1>2 DEF Remember, after
  <2>6. Len(after) <= HistoryMax
    BY <1>1, <1>2, <2>2, <2>3
  <2> QED BY ZenonT(30), <2>3, <2>4, <2>5, <2>6
<1>3. CASE Len(h) # HistoryMax
  <2> DEFINE after == Append(h, entry)
  <2>1. /\ after \in Seq(Seq(Kinds)) /\ Len(after) = Len(h) + 1
        /\ \A i \in 1..Len(h) : after[i] = h[i]
        /\ after[Len(h) + 1] = entry
    BY AppendProperties
  <2>2. Remember(h, entry) = after
    BY <1>3 DEF Remember
  <2> HIDE DEF after
  <2>3. \A i \in 1..Len(after) : i \in 1..Len(h) \/ i = Len(h) + 1
    BY <1>1, <2>1
  <2>4. Len(after) <= HistoryMax
    BY <1>1, <1>3, <2>1
  <2> QED BY <2>1, <2>2, <2>3, <2>4
<1> QED BY <1>2, <1>3

LEMMA HistoryAddKeeps ==
  ASSUME NEW h \in Seq(Seq(Kinds)), Len(h) <= HistoryMax, NEW kinds \in Seq(Kinds)
  PROVE  LET after == HistoryAdd(h, kinds)
         IN  /\ after \in Seq(Seq(Kinds)) /\ Len(after) <= HistoryMax
             /\ \A i \in 1..Len(after) : \/ after[i] = WithoutNewline(kinds)
                                         \/ \E j \in 1..Len(h) : after[i] = h[j]
<1>1. WithoutNewline(kinds) \in Seq(Kinds)
  BY LineWithoutNewline
<1>2. \/ HistoryAdd(h, kinds) = h
      \/ HistoryAdd(h, kinds) = Remember(h, WithoutNewline(kinds))
  BY DEF HistoryAdd
<1>3. CASE HistoryAdd(h, kinds) = h
  BY <1>3
<1>4. CASE HistoryAdd(h, kinds) = Remember(h, WithoutNewline(kinds))
  <2> DEFINE entry == WithoutNewline(kinds)
             after == Remember(h, entry)
  <2> HIDE DEF entry
  <2>1. entry \in Seq(Kinds)
    BY <1>1 DEF entry
  <2>2. /\ after \in Seq(Seq(Kinds)) /\ Len(after) <= HistoryMax
        /\ \A i \in 1..Len(after) : after[i] = entry \/ \E j \in 1..Len(h) : after[i] = h[j]
    BY <2>1, RememberedEntries
  <2>3. HistoryAdd(h, kinds) = after
    BY <1>4 DEF entry
  <2> HIDE DEF after
  <2> QED BY <2>2, <2>3 DEF entry
<1> QED BY <1>2, <1>3, <1>4

(***************************************************************************)
(* Entering a line                                                         *)
(***************************************************************************)
LEMMA ModeStays ==
  ASSUME NEW line, Enter(line)
  PROVE  /\ pc = "read" /\ UNCHANGED mode
         /\ history' = HistoryAdd(history, KindsOf(line))
         /\ input' = <<>> /\ cells' = <<>> /\ cursor' = Len(history')
  BY DEF Enter, NewLine

LEMMA TakenLineIsEntered ==
  ASSUME NEW kinds, TakeLine(kinds)
  PROVE  Enter(Place(kinds)) /\ pc' \in {"read", "run", "over"}
<1> DEFINE line == Place(kinds)
<1>0. Exit(line) \/ Help(line) \/ Gather(line) \/ Submit(line) \/ NoRoom(line)
  BY DEF TakeLine
<1> HIDE DEF line
<1>1. CASE Exit(line)
  BY <1>1 DEF Exit, End, line
<1>2. CASE Help(line)
  BY <1>2 DEF Help, Enter, line
<1>3. CASE Gather(line)
  BY <1>3 DEF Gather, Enter, line
<1>4. CASE Submit(line)
  BY <1>4 DEF Submit, Execute, Complain, Go, End, line
<1>5. CASE NoRoom(line)
  BY <1>5 DEF NoRoom, End, line
<1> QED BY <1>0, <1>1, <1>2, <1>3, <1>4, <1>5

LEMMA EnteredLine ==
  ASSUME EditorInv, NEW kinds \in Seq(Kinds), TakeLine(kinds),
         mode = "terminal" => Fits(WithoutNewline(kinds)),
         mode \in {"terminal", "interactive"}
  PROVE  EditorInv'
<1>1. /\ pc = "read" /\ UNCHANGED mode
      /\ history' = HistoryAdd(history, kinds)
      /\ input' = <<>> /\ cells' = <<>> /\ cursor' = Len(history')
  BY TakenLineIsEntered, ModeStays, KindsOfPlaced
<1>2. /\ history' \in Seq(Seq(Kinds)) /\ Len(history') <= HistoryMax
      /\ \A i \in 1..Len(history') : \/ history'[i] = WithoutNewline(kinds)
                                     \/ \E j \in 1..Len(history) : history'[i] = history[j]
  BY <1>1, HistoryAddKeeps DEF EditorInv
<1>3. cursor' \in 0..Len(history')
  BY <1>1, <1>2, LenProperties
<1>4. Fits(input)' /\ RowShows(cells, input)'
  BY <1>1, EmptyRow
<1>5. mode' = "terminal" => \A i \in 1..Len(history') : Fits(history[i])'
  BY <1>1, <1>2 DEF EditorInv, Fits
<1>6. pc' # "start"
  BY TakenLineIsEntered
<1> QED BY <1>1, <1>2, <1>3, <1>4, <1>5, <1>6 DEF EditorInv, Nothing

(***************************************************************************)
(* Keys: what is shown fits, be it typed or recalled.                      *)
(***************************************************************************)
LEMMA ShownLine ==
  ASSUME EditorInv, NEW new, Fits(new), Show(new), mode = "terminal",
         UNCHANGED <<pc, mode>>, cursor' \in 0..Len(history)
  PROVE  EditorInv'
<1>1. RowShows(cells', new)
  BY OverwrittenRowShows DEF Show, EditorInv, Fits
<1>2. input' = new /\ history' = history
  BY DEF Show
<1>3. Fits(input)' /\ RowShows(cells, input)'
  BY <1>1, <1>2
<1>4. \A i \in 1..Len(history') : Fits(history[i])'
  BY <1>2 DEF EditorInv, Fits
<1> QED BY <1>2, <1>3, <1>4 DEF EditorInv

LEMMA KeyPressed ==
  ASSUME EditorInv, PressKey
  PROVE  EditorInv'
<1>1. mode = "terminal" /\ UNCHANGED <<pc, mode>> /\ Fits(input) /\ EditKey
  BY DEF PressKey, EditorInv
<1>2. /\ history \in Seq(Seq(Kinds)) /\ Len(history) \in Nat /\ Len(input) \in Nat
      /\ input \in Seq(Keys) /\ LineSize \in Nat /\ LineSize > 2
  BY <1>1, LenProperties, EditorAssumption DEF EditorInv, Fits
<1>3. ASSUME NEW key \in Keys, Type(key) PROVE EditorInv'
  <2>1. Append(input, key) \in Seq(Keys) /\ Len(Append(input, key)) = Len(input) + 1
    BY <1>2, AppendProperties
  <2>2. Fits(Append(input, key))
    BY <1>2, <1>3, <2>1 DEF Type, HasRoom, Fits
  <2> QED BY <1>1, <1>3, <2>2, ShownLine DEF Type, EditorInv
<1>4. ASSUME Backspace PROVE EditorInv'
  <2>1. Len(input) > 0
    BY <1>2, <1>4, EmptySeq DEF Backspace
  <2>2. \A i \in 1..Len(input) - 1 : input[i] \in Keys
    BY <1>2, ElementOfSeq
  <2>3. Front(input) \in Seq(Keys) /\ Len(Front(input)) = Len(input) - 1
    <3>1. /\ SubSeq(input, 1, Len(input) - 1) \in Seq(Keys)
          /\ Len(SubSeq(input, 1, Len(input) - 1))
               = IF 1 <= Len(input) - 1 THEN Len(input) - 1 - 1 + 1 ELSE 0
      BY <1>2, <2>2, SubSeqProperties
    <3>2. \A n \in Nat : n > 0 =>
            (IF 1 <= n - 1 THEN n - 1 - 1 + 1 ELSE 0) = n - 1
      OBVIOUS
    <3>3. Front(input) = SubSeq(input, 1, Len(input) - 1)
      BY DEF Front
    <3> QED BY <3>1, <3>2, <3>3, <1>2, <2>1
  <2>4. Fits(Front(input))
    BY <1>1, <1>2, <2>3 DEF Fits
  <2> QED BY <1>1, <1>4, <2>4, ShownLine DEF Backspace, EditorInv
<1>5. ASSUME Up PROVE EditorInv'
  <2>1. cursor \in 1..Len(history) /\ cursor' = cursor - 1 /\ Show(history[cursor])
    BY <1>2, <1>5 DEF Up, EditorInv
  <2>2. Fits(history[cursor]) /\ cursor' \in 0..Len(history)
    BY <1>1, <1>2, <2>1 DEF EditorInv
  <2> QED BY <1>1, <2>1, <2>2, ShownLine
<1>6. ASSUME Down PROVE EditorInv'
  <2>1. cursor' = cursor + 1 /\ cursor' \in 0..Len(history)
        /\ Show(IF cursor' = Len(history) THEN <<>> ELSE history[cursor' + 1])
    BY <1>2, <1>6 DEF Down, EditorInv
  <2>2. cursor' # Len(history) => cursor' + 1 \in 1..Len(history)
    BY <1>2, <2>1
  <2>3. Fits(IF cursor' = Len(history) THEN <<>> ELSE history[cursor' + 1])
    BY <1>1, <2>1, <2>2, EmptyRow DEF EditorInv
  <2> QED BY <1>1, <2>1, <2>3, ShownLine
<1> QED BY <1>1, <1>3, <1>4, <1>5, <1>6 DEF EditKey

(***************************************************************************)
(* The other steps leave the editor alone.                                 *)
(***************************************************************************)
LEMMA EditorUntouched ==
  ASSUME EditorInv, UNCHANGED <<history, input, cursor, cells>>,
         pc' = "start" => mode' = Nothing,
         mode' = "terminal" => mode \in {Nothing, "terminal"},
         mode' = Nothing => mode = Nothing,
         mode' # "terminal" => input = <<>> /\ cells = <<>>
  PROVE  EditorInv'
<1>1. Fits(input)' /\ RowShows(cells, input)'
  BY DEF EditorInv
<1>2. mode' \in {Nothing, "terminal"} => \A i \in 1..Len(history') : Fits(history[i])'
  BY DEF EditorInv, Nothing
<1> QED BY <1>1, <1>2 DEF EditorInv

LEMMA EditorStart ==
  ASSUME EditorInv, Start
  PROVE  EditorInv'
<1>1. UNCHANGED <<history, input, cursor, cells>>
  BY DEF Start, editor
<1>2. mode = Nothing /\ input = <<>> /\ cells = <<>>
  BY DEF Start, EditorInv, Nothing
<1>3. pc' \in {"read", "over"} /\ mode' \in {Nothing, "terminal", "interactive", "file", "stdin"}
  <2>1. ASSUME NEW options, NEW tty \in BOOLEAN
        PROVE  ModeOf(options, tty) \in {"terminal", "interactive", "file", "stdin"}
    BY DEF ModeOf
  <2> QED BY <1>2, <2>1 DEF Start, Go, End
<1> QED BY <1>1, <1>2, <1>3, EditorUntouched DEF Nothing

LEMMA EditorInitially == Init => EditorInv
  BY EmptyRow, EmptySeq, EditorAssumption DEF Init, EditorInit, EditorInv

LEMMA EditorStep == EditorInv /\ [Next]_vars => EditorInv'
<1> SUFFICES ASSUME EditorInv, [Next]_vars PROVE EditorInv'
  OBVIOUS
<1>1. CASE Start
  BY <1>1, EditorStart
<1>2. CASE GetLine
  <2>1. PICK kinds \in Lines : TakeLine(kinds)
    BY <1>2 DEF GetLine
  <2>2. kinds \in Seq(Kinds) /\ mode = "interactive"
    BY <1>2, <2>1, ReplAssumption DEF GetLine
  <2> QED BY <2>1, <2>2, EnteredLine
<1>3. CASE PressKey
  BY <1>3, KeyPressed
<1>4. CASE PressEnter
  <2>1. mode = "terminal" /\ TakeLine(Append(input, "newline")) /\ Fits(input)
    BY <1>4 DEF PressEnter, EditorInv
  <2>2. /\ Append(input, "newline") \in Seq(Kinds)
        /\ WithoutNewline(Append(input, "newline")) = input
    BY <2>1, EnteredLineIsInput DEF Fits
  <2> QED BY <2>1, <2>2, EnteredLine
<1>5. CASE FallBack
  <2>1. cells = <<>> /\ input \in Seq(Keys) /\ Len(input) <= Len(cells)
    BY <1>5 DEF FallBack, EditorInv, Fits, RowShows
  <2>2. input = <<>>
    BY <2>1, EmptySeq, LenProperties
  <2> QED BY <1>5, <2>1, <2>2, EditorUntouched DEF FallBack, editor, Nothing
<1>6. CASE EndOfInput
  BY <1>6, EditorUntouched DEF EndOfInput, End, editor, EditorInv, Nothing
<1>7. CASE ReadMore
  BY <1>7, EditorUntouched DEF ReadMore, editor, EditorInv, Nothing
<1>8. CASE EndOfScript
  <2>1. pc' # "start" /\ UNCHANGED <<mode, editor>>
    BY <1>8 DEF EndOfScript, Execute, Complain, End, Go
  <2> QED BY <2>1, EditorUntouched DEF editor, EditorInv, Nothing
<1>9. CASE ReadFails
  BY <1>9, EditorUntouched DEF ReadFails, End, editor, EditorInv, Nothing
<1>10. CASE StatementSucceeds
  BY <1>10, EditorUntouched DEF StatementSucceeds, editor, EditorInv, Nothing
<1>11. CASE StatementFails
  <2>1. pc' # "start" /\ UNCHANGED <<mode, editor>>
    BY <1>11 DEF StatementFails, Complain, End, Go
  <2> QED BY <2>1, EditorUntouched DEF editor, EditorInv, Nothing
<1>12. CASE ScriptDone
  <2>1. pc' # "start" /\ UNCHANGED <<mode, editor>>
    BY <1>12 DEF ScriptDone, End, Go
  <2> QED BY <2>1, EditorUntouched DEF editor, EditorInv, Nothing
<1>13. CASE UNCHANGED vars
  <2>1. UNCHANGED <<pc, mode, editor>>
    BY <1>13 DEF vars
  <2> QED BY <2>1, EditorUntouched DEF editor, EditorInv, Nothing
<1> QED BY <1>1, <1>2, <1>3, <1>4, <1>5, <1>6, <1>7, <1>8, <1>9, <1>10, <1>11, <1>12,
           <1>13 DEF Next

LEMMA EditorIsKept == Spec => []EditorInv
<1> QED BY EditorInitially, EditorStep, PTL DEF Spec

(***************************************************************************)
(* The line, the row of the screen and the history have their types, the   *)
(* cursor stands on an entry or behind the last, and the history keeps to  *)
(* HISTORY_MAX_ENTRIES (main.c:502).                                       *)
(***************************************************************************)
THEOREM EditorTypeCorrect == Spec => []EditorTypeOK
<1>1. EditorInv => EditorTypeOK
  BY DEF EditorInv, EditorTypeOK, Fits, RowShows, Cell
<1> QED BY <1>1, EditorIsKept, PTL

(***************************************************************************)
(* Whatever is typed, erased and recalled, Enter has room for its newline  *)
(* and its null byte (main.c:696).                                         *)
(***************************************************************************)
THEOREM LinesFit == Spec => []EnterAlwaysFits
<1>1. EditorInv => EnterAlwaysFits
  BY DEF EditorInv, EnterAlwaysFits, Fits
<1> QED BY <1>1, EditorIsKept, PTL

(***************************************************************************)
(* The row of the screen shows the line and blanks, nothing left over from *)
(* a longer one (render_line_prompt).                                      *)
(***************************************************************************)
THEOREM ScreenIsTrue == Spec => []ScreenShowsLine
<1>1. EditorInv => ScreenShowsLine
  BY RowIsLineAndBlanks DEF EditorInv, ScreenShowsLine, Fits
<1> QED BY <1>1, EditorIsKept, PTL

(***************************************************************************)
(* The session: types and places                                           *)
(***************************************************************************)
Modes == {Nothing, "terminal", "interactive", "file", "stdin"}
Line  == Seq(Kinds) \ {<<>>}

SessionTypes ==
  /\ argv \in Seq(Arguments) /\ mode \in Modes
  /\ pc \in {"start", "read", "run", "over"}
  /\ buffer \in Seq(Piece) /\ text \in Seq(Piece)
  /\ typed \in Seq(Seq(Piece) \ {<<>>})
  /\ script \in Seq(Position) /\ ran \in Seq(Position)
  /\ status \in {0, 1, 2} /\ clean \in BOOLEAN /\ troubled \in BOOLEAN

LineAction(line) == Exit(line) \/ Help(line) \/ Gather(line) \/ Submit(line) \/ NoRoom(line)

(* What the program does, with the line where there is one.                *)
LEMMA Steps ==
  ASSUME EditorInv, Next
  PROVE  \/ Start \/ PressKey \/ FallBack \/ EndOfInput \/ EndOfScript \/ ReadFails
         \/ StatementSucceeds \/ StatementFails \/ ScriptDone
         \/ \E kinds \in Line : LineAction(Place(kinds))
         \/ ReadMore
<1>1. Lines \subseteq Line
  BY ReplAssumption DEF Line
<1>2. ASSUME GetLine PROVE \E kinds \in Line : LineAction(Place(kinds))
  BY <1>1, <1>2 DEF GetLine, TakeLine, LineAction
<1>3. ASSUME PressEnter PROVE \E kinds \in Line : LineAction(Place(kinds))
  <2>1. TakeLine(Append(input, "newline")) /\ Fits(input)
    BY <1>3 DEF PressEnter, EditorInv
  <2>2. Append(input, "newline") \in Seq(Kinds)
    BY <2>1, EnteredLineIsInput DEF Fits
  <2>3. Append(input, "newline") # <<>>
    BY <2>1, AppendProperties DEF Fits
  <2> QED BY <2>1, <2>2, <2>3 DEF TakeLine, LineAction, Line
<1> QED BY <1>2, <1>3 DEF Next

LEMMA PlacesAreNumbers ==
  ASSUME SessionTypes
  PROVE  LastPlace \in Nat
<1>1. CASE typed = <<>>
  BY <1>1 DEF LastPlace
<1>2. CASE typed # <<>>
  <2>1. Last(typed) \in Seq(Piece) \ {<<>>}
    BY <1>2, EmptySeq DEF SessionTypes, Last
  <2> DEFINE last == Last(typed)
  <2> HIDE DEF last
  <2>2. last \in Seq(Piece) /\ Len(last) \in Nat \ {0}
    BY <2>1, EmptySeq DEF last
  <2>3. last[Len(last)] \in Piece
    BY <2>2
  <2>4. last[Len(last)].at \in Nat
    BY <2>3 DEF Piece
  <2> QED BY <1>2, <2>4 DEF LastPlace, Last, last
<1> QED BY <1>1, <1>2

LEMMA PlacedLine ==
  ASSUME SessionTypes, NEW kinds \in Line
  PROVE  /\ Place(kinds) \in Seq(Piece) \ {<<>>} /\ Len(Place(kinds)) = Len(kinds)
         /\ \A i \in 1..Len(kinds) : Place(kinds)[i].at = LastPlace + i
<1> DEFINE line == [i \in 1..Len(kinds) |-> [kind |-> kinds[i], at |-> LastPlace + i]]
<1>1. kinds \in Seq(Kinds) /\ Len(kinds) \in Nat \ {0} /\ DOMAIN kinds = 1..Len(kinds)
  BY EmptySeq DEF Line
<1>2. LastPlace \in Nat
  BY PlacesAreNumbers
<1>3. Place(kinds) = line
  BY <1>1 DEF Place
<1>4. ASSUME NEW i \in 1..Len(kinds)
      PROVE  [kind |-> kinds[i], at |-> LastPlace + i] \in Piece
  <2>1. kinds[i] \in Kinds /\ LastPlace + i \in Nat \ {0}
    BY <1>1, <1>2
  <2> QED BY <2>1 DEF Piece
<1>5. line \in [1..Len(kinds) -> Piece]
  BY <1>4
<1>6. line \in Seq(Piece) /\ Len(line) = Len(kinds)
  <2>1. ASSUME NEW n \in Nat, NEW f \in [1..n -> Piece]
        PROVE  f \in Seq(Piece) /\ Len(f) = n
    OBVIOUS
  <2> HIDE DEF line
  <2> QED BY <1>1, <1>5, <2>1
<1>7. line # <<>>
  BY <1>1, <1>6
<1>8. \A i \in 1..Len(kinds) : line[i].at = LastPlace + i
  OBVIOUS
<1> QED BY <1>3, <1>6, <1>7, <1>8

LEMMA PlacesGrow ==
  ASSUME SessionTypes, NEW kinds \in Line, typed' = Append(typed, Place(kinds))
  PROVE  /\ typed' \in Seq(Seq(Piece) \ {<<>>})
         /\ LastPlace' = LastPlace + Len(kinds)
<1> DEFINE line == Place(kinds)
           after == Append(typed, line)
<1>1. line \in Seq(Piece) \ {<<>>} /\ Len(line) = Len(kinds)
      /\ \A i \in 1..Len(kinds) : line[i].at = LastPlace + i
  BY PlacedLine
<1>2. kinds \in Seq(Kinds) /\ Len(kinds) \in Nat \ {0}
  BY EmptySeq DEF Line
<1>3. typed \in Seq(Seq(Piece) \ {<<>>})
  BY DEF SessionTypes
<1> HIDE DEF line
<1>4. /\ after \in Seq(Seq(Piece) \ {<<>>}) /\ Len(after) = Len(typed) + 1 /\ Len(typed) \in Nat
      /\ after[Len(typed) + 1] = line
  BY <1>1, <1>3
<1>5. typed' = after
  BY DEF line
<1> HIDE DEF after
<1>6. after # <<>> /\ Last(after) = line
  BY <1>4 DEF Last
<1>7. Last(line).at = LastPlace + Len(kinds)
  BY <1>1, <1>2 DEF Last
<1> QED BY <1>4, <1>5, <1>6, <1>7 DEF LastPlace

LEMMA ExecuteTypes ==
  ASSUME NEW source \in Seq(Piece), Execute(source), SessionTypes
  PROVE  /\ pc' \in {"start", "read", "run", "over"} /\ status' \in {0, 1, 2}
         /\ buffer' \in Seq(Piece) /\ script' \in Seq(Position) /\ troubled' \in BOOLEAN
<1>1. Parse(source).statements \in Seq(Position) /\ <<>> \in Seq(Piece)
  BY ParseType
<1> QED BY <1>1 DEF Execute, Complain, Go, End, SessionTypes

LEMMA LineTypes ==
  ASSUME SessionTypes, NEW kinds \in Line, LineAction(Place(kinds))
  PROVE  SessionTypes'
<1> DEFINE line == Place(kinds)
<1>1. line \in Seq(Piece) \ {<<>>}
  BY PlacedLine
<1>2. Enter(line)
  BY DEF LineAction, Exit, Help, Gather, Submit, NoRoom
<1>3. typed' \in Seq(Seq(Piece) \ {<<>>})
  BY <1>2, PlacesGrow DEF Enter
<1>4. UNCHANGED <<argv, mode>>
  BY <1>2 DEF Enter
<1>5. LineAction(line)
  OBVIOUS
<1> HIDE DEF line
<1>6. buffer \o line \in Seq(Piece) /\ text \o line \in Seq(Piece)
  BY <1>1 DEF SessionTypes
<1>7. CASE Exit(line)
  BY <1>3, <1>4, <1>7 DEF Exit, End, SessionTypes
<1>8. CASE Help(line)
  BY <1>3, <1>4, <1>8 DEF Help, SessionTypes
<1>9. CASE Gather(line)
  BY <1>3, <1>4, <1>6, <1>9 DEF Gather, SessionTypes
<1>10. CASE Submit(line)
  <2>1. /\ Execute(buffer \o line) /\ UNCHANGED ran
        /\ text' = text \o line /\ clean' = (clean /\ StandsAlone(buffer \o line))
    BY <1>10 DEF Submit
  <2>2. clean' \in BOOLEAN
    BY <2>1 DEF SessionTypes
  <2> QED BY <1>3, <1>4, <1>6, <2>1, <2>2, ExecuteTypes DEF SessionTypes
<1>11. CASE NoRoom(line)
  BY <1>3, <1>4, <1>11 DEF NoRoom, End, SessionTypes
<1> QED BY <1>5, <1>7, <1>8, <1>9, <1>10, <1>11 DEF LineAction

LEMMA TypesInitially == Init => SessionTypes
<1> SUFFICES ASSUME Init PROVE SessionTypes
  OBVIOUS
<1>1. argv \in Seq(Arguments)
  BY ReplAssumption DEF Init
<1>2. /\ mode \in Modes /\ pc = "start" /\ status = 0 /\ clean = TRUE /\ troubled = FALSE
      /\ buffer = <<>> /\ text = <<>> /\ typed = <<>> /\ script = <<>> /\ ran = <<>>
  BY DEF Init, Modes
<1>3. <<>> \in Seq(Piece) /\ <<>> \in Seq(Seq(Piece) \ {<<>>}) /\ <<>> \in Seq(Position)
  OBVIOUS
<1> QED BY <1>1, <1>2, <1>3 DEF SessionTypes

LEMMA StartMode ==
  ASSUME NEW options, NEW tty \in BOOLEAN
  PROVE  ModeOf(options, tty) \in {"terminal", "interactive", "file", "stdin"}
  BY DEF ModeOf

LEMMA TypesStep ==
  ASSUME EditorInv, SessionTypes, [Next]_vars
  PROVE  SessionTypes'
<1>0. CASE UNCHANGED vars
  BY <1>0 DEF vars, ghosts, SessionTypes
<1>1. CASE Start
  <2>1. UNCHANGED <<buffer, script, typed, text, ran, clean>> /\ argv' = <<>>
    BY <1>1 DEF Start
  <2>2. mode' \in Modes
    <3>1. \A options : \A tty \in BOOLEAN : ModeOf(options, tty) \in Modes
      BY StartMode DEF Modes
    <3> QED BY <1>1, <3>1 DEF Start, SessionTypes
  <2>3. pc' \in {"start", "read", "run", "over"} /\ status' \in {0, 1, 2} /\ troubled' \in BOOLEAN
    BY <1>1 DEF Start, Go, End, SessionTypes
  <2> QED BY <2>1, <2>2, <2>3 DEF SessionTypes
<1>2. CASE PressKey
  BY <1>2 DEF PressKey, ghosts, SessionTypes
<1>3. CASE FallBack
  BY <1>3 DEF FallBack, ghosts, SessionTypes, Modes
<1>4. CASE EndOfInput
  BY <1>4 DEF EndOfInput, End, ghosts, SessionTypes
<1>5. CASE EndOfScript
  <2>1. CASE Execute(buffer)
    <3>1. buffer \in Seq(Piece)
      BY DEF SessionTypes
    <3>2. UNCHANGED <<argv, mode, typed, text, ran, clean>>
      BY <1>5 DEF EndOfScript
    <3> QED BY <2>1, <3>1, <3>2, ExecuteTypes DEF SessionTypes
  <2>2. CASE Complain /\ UNCHANGED script
    BY <1>5, <2>2 DEF EndOfScript, Complain, Go, End, SessionTypes
  <2> QED BY <1>5, <2>1, <2>2 DEF EndOfScript
<1>6. CASE ReadFails
  BY <1>6 DEF ReadFails, End, SessionTypes
<1>7. CASE StatementSucceeds
  <2>1. Head(script) \in Position /\ Tail(script) \in Seq(Position)
    BY <1>7 DEF StatementSucceeds, SessionTypes
  <2>2. ran' \in Seq(Position) /\ script' \in Seq(Position)
    BY <1>7, <2>1 DEF StatementSucceeds, SessionTypes
  <2> QED BY <1>7, <2>2 DEF StatementSucceeds, SessionTypes
<1>8. CASE StatementFails
  BY <1>8 DEF StatementFails, Complain, Go, End, SessionTypes
<1>9. CASE ScriptDone
  <2>1. /\ pc' \in {"read", "over"} /\ status' \in {0, 1, 2} /\ buffer' \in Seq(Piece)
        /\ UNCHANGED <<argv, mode, script, ghosts>>
    <3>1. <<>> \in Seq(Piece)
      OBVIOUS
    <3> QED BY <1>9, <3>1 DEF ScriptDone, Go, End, SessionTypes
  <2> QED BY <2>1 DEF ghosts, SessionTypes
<1>10. ASSUME NEW kinds \in Line, LineAction(Place(kinds)) PROVE SessionTypes'
  BY <1>10, LineTypes
<1>11. CASE ReadMore
  <2>1. PICK kinds \in Lines : /\ typed' = Append(typed, Place(kinds))
                               /\ buffer' = buffer \o Place(kinds)
                               /\ text' = text \o Place(kinds)
    BY <1>11 DEF ReadMore
  <2>2. kinds \in Line
    BY ReplAssumption DEF Line
  <2>3. Place(kinds) \in Seq(Piece)
    BY <2>2, PlacedLine
  <2>4. typed' \in Seq(Seq(Piece) \ {<<>>})
    BY <2>1, <2>2, PlacesGrow
  <2>5. buffer' \in Seq(Piece) /\ text' \in Seq(Piece)
    BY <2>1, <2>3 DEF SessionTypes
  <2> QED BY <1>11, <2>4, <2>5 DEF ReadMore, SessionTypes
<1>12. CASE Next
  BY <1>1, <1>2, <1>3, <1>4, <1>5, <1>6, <1>7, <1>8, <1>9, <1>10, <1>11, <1>12, Steps
<1> QED BY <1>0, <1>12

(***************************************************************************)
(* Every variable of a session has its type: what is to be run and what    *)
(* has been run are places of the text.                                    *)
(***************************************************************************)
THEOREM SessionTypeCorrect == Spec => []TypeOK
<1>1. Init => SessionTypes
  BY TypesInitially
<1>2. EditorInv /\ SessionTypes /\ [Next]_vars => SessionTypes'
  BY TypesStep
<1>3. EditorInv /\ SessionTypes => TypeOK
  <2> SUFFICES ASSUME EditorInv, SessionTypes PROVE TypeOK
    OBVIOUS
  <2>1. EditorTypeOK
    BY DEF EditorInv, EditorTypeOK, Fits, RowShows, Cell
  <2>2. typed \in Seq(Seq(Piece))
    BY SeqMonotonic DEF SessionTypes
  <2> QED BY <2>1, <2>2 DEF TypeOK, SessionTypes, Modes, Position
<1> QED BY <1>1, <1>2, <1>3, EditorIsKept, PTL DEF Spec

(***************************************************************************)
(* The order of the statements.  What waits in the buffer was typed behind *)
(* all that has been run; what was run and what still has to be run stand  *)
(* in the order of the text.                                               *)
(***************************************************************************)
Waits == \E lo \in 0..LastPlace : Rising(ran, 0, lo) /\ Spread(buffer, lo, LastPlace)

OrderInv ==
  /\ pc # "run" => script = <<>>
  /\ Rising(ran \o script, 0, LastPlace)
  /\ pc \in {"start", "read"} => Waits

LEMMA JoinedPlaces ==
  ASSUME NEW s \in Seq(Piece), NEW t \in Seq(Piece), NEW lo \in Nat, NEW m \in Nat,
         NEW hi \in Nat, lo <= m, m <= hi, Spread(s, lo, m), Spread(t, m, hi)
  PROVE  Spread(s \o t, lo, hi)
<1> DEFINE u == s \o t
           n == Len(s)
           k == Len(t)
<1>1. /\ Len(u) = n + k /\ n \in Nat /\ k \in Nat
      /\ \A i \in 1..n + k : u[i] = IF i <= n THEN s[i] ELSE t[i - n]
  BY ConcatProperties
<1>2. (\A i \in 1..n : s[i].at \in Nat) /\ (\A i \in 1..k : t[i].at \in Nat)
  BY PiecesHavePlaces
<1> HIDE DEF n, k, u
<1>3. \A i \in 1..n + k : \/ i \in 1..n /\ u[i].at = s[i].at
                          \/ i - n \in 1..k /\ i > n /\ u[i].at = t[i - n].at
  BY <1>1
<1>4. /\ \A i \in 1..n : lo < s[i].at /\ s[i].at <= m
      /\ \A i \in 1..k : m < t[i].at /\ t[i].at <= hi
      /\ \A i, j \in 1..n : i < j => s[i].at < s[j].at
      /\ \A i, j \in 1..k : i < j => t[i].at < t[j].at
  BY DEF Spread, n, k
<1>5. ASSUME NEW i \in 1..n + k PROVE lo < u[i].at /\ u[i].at <= hi
  <2>1. CASE i \in 1..n /\ u[i].at = s[i].at
    BY <1>2, <1>4, <2>1
  <2>2. CASE i - n \in 1..k /\ u[i].at = t[i - n].at
    BY <1>2, <1>4, <2>2
  <2> QED BY <1>3, <2>1, <2>2
<1>6. ASSUME NEW i \in 1..n + k, NEW j \in 1..n + k, i < j PROVE u[i].at < u[j].at
  <2>1. CASE i \in 1..n /\ u[i].at = s[i].at
    <3>1. CASE j \in 1..n /\ u[j].at = s[j].at
      BY <1>4, <1>6, <2>1, <3>1
    <3>2. CASE j - n \in 1..k /\ u[j].at = t[j - n].at
      BY <1>2, <1>4, <2>1, <3>2
    <3> QED BY <1>3, <3>1, <3>2
  <2>2. CASE i - n \in 1..k /\ i > n /\ u[i].at = t[i - n].at
    <3>1. j - n \in 1..k /\ u[j].at = t[j - n].at /\ i - n < j - n
      BY <1>1, <1>3, <1>6, <2>2
    <3> QED BY <1>4, <2>2, <3>1
  <2> QED BY <1>3, <2>1, <2>2
<1> QED BY <1>1, <1>5, <1>6 DEF Spread, u

LEMMA JoinedNumbers ==
  ASSUME NEW s \in Seq(Position), NEW t \in Seq(Position), NEW lo \in Nat, NEW m \in Nat,
         NEW hi \in Nat, lo <= m, m <= hi, Rising(s, lo, m), Rising(t, m, hi)
  PROVE  Rising(s \o t, lo, hi)
<1> DEFINE u == s \o t
           n == Len(s)
           k == Len(t)
<1>1. /\ Len(u) = n + k /\ n \in Nat /\ k \in Nat
      /\ \A i \in 1..n + k : u[i] = IF i <= n THEN s[i] ELSE t[i - n]
  BY ConcatProperties
<1>2. (\A i \in 1..n : s[i] \in Nat) /\ (\A i \in 1..k : t[i] \in Nat)
  BY DEF Position
<1> HIDE DEF n, k, u
<1>3. \A i \in 1..n + k : \/ i \in 1..n /\ u[i] = s[i]
                          \/ i - n \in 1..k /\ i > n /\ u[i] = t[i - n]
  BY <1>1
<1>4. /\ \A i \in 1..n : lo < s[i] /\ s[i] <= m
      /\ \A i \in 1..k : m < t[i] /\ t[i] <= hi
      /\ \A i, j \in 1..n : i < j => s[i] < s[j]
      /\ \A i, j \in 1..k : i < j => t[i] < t[j]
  BY DEF Rising, n, k
<1>5. ASSUME NEW i \in 1..n + k PROVE lo < u[i] /\ u[i] <= hi
  <2>1. CASE i \in 1..n /\ u[i] = s[i]
    BY <1>2, <1>4, <2>1
  <2>2. CASE i - n \in 1..k /\ u[i] = t[i - n]
    BY <1>2, <1>4, <2>2
  <2> QED BY <1>3, <2>1, <2>2
<1>6. ASSUME NEW i \in 1..n + k, NEW j \in 1..n + k, i < j PROVE u[i] < u[j]
  <2>1. CASE i \in 1..n /\ u[i] = s[i]
    <3>1. CASE j \in 1..n /\ u[j] = s[j]
      BY <1>4, <1>6, <2>1, <3>1
    <3>2. CASE j - n \in 1..k /\ u[j] = t[j - n]
      BY <1>2, <1>4, <2>1, <3>2
    <3> QED BY <1>3, <3>1, <3>2
  <2>2. CASE i - n \in 1..k /\ i > n /\ u[i] = t[i - n]
    <3>1. j - n \in 1..k /\ u[j] = t[j - n] /\ i - n < j - n
      BY <1>1, <1>3, <1>6, <2>2
    <3> QED BY <1>4, <2>2, <3>1
  <2> QED BY <1>3, <2>1, <2>2
<1> QED BY <1>1, <1>5, <1>6 DEF Rising, u

LEMMA HeadMoves ==
  ASSUME NEW s \in Seq(Position), NEW t \in Seq(Position), t # <<>>
  PROVE  Append(s, Head(t)) \o Tail(t) = s \o t
<1> DEFINE u == Append(s, Head(t))
           n == Len(s)
<1>1. /\ n \in Nat /\ Len(t) \in Nat \ {0} /\ Head(t) = t[1] /\ t[1] \in Position
      /\ Tail(t) \in Seq(Position) /\ Len(Tail(t)) = Len(t) - 1
      /\ \A i \in 1..Len(t) - 1 : Tail(t)[i] = t[i + 1]
  BY EmptySeq
<1>2. u \in Seq(Position) /\ Len(u) = n + 1 /\ u[n + 1] = t[1] /\ \A i \in 1..n : u[i] = s[i]
  BY <1>1
<1> HIDE DEF u, n
<1> DEFINE k == Len(t)
           v == Tail(t)
           l == u \o v
           r == s \o t
<1>3. /\ l \in Seq(Position) /\ Len(l) = n + k
      /\ \A i \in 1..n + k : l[i] = IF i <= n + 1 THEN u[i] ELSE v[i - (n + 1)]
  <2>1. u \in Seq(Position) /\ v \in Seq(Position) /\ Len(u) = n + 1 /\ Len(v) = k - 1
        /\ n \in Nat /\ k \in Nat
    BY <1>1, <1>2
  <2> HIDE DEF v, k
  <2>2. /\ l \in Seq(Position) /\ Len(l) = Len(u) + Len(v)
        /\ \A i \in 1..Len(u) + Len(v) : l[i] = IF i <= Len(u) THEN u[i] ELSE v[i - Len(u)]
    BY <2>1, ConcatProperties
  <2>3. Len(u) + Len(v) = n + k
    BY <2>1
  <2> QED BY <2>1, <2>2, <2>3
<1>4. /\ r \in Seq(Position) /\ Len(r) = n + k
      /\ \A i \in 1..n + k : r[i] = IF i <= n THEN s[i] ELSE t[i - n]
  BY <1>1, ConcatProperties DEF n
<1>5. k \in Nat \ {0} /\ \A i \in 1..k - 1 : v[i] = t[i + 1]
  BY <1>1
<1> HIDE DEF l, r, k, v
<1>6. ASSUME NEW i \in 1..n + k PROVE l[i] = r[i]
  <2>1. CASE i <= n
    <3>1. i \in 1..n
      BY <2>1
    <3> QED BY <1>1, <1>2, <1>3, <1>4, <2>1, <3>1
  <2>2. CASE i = n + 1
    <3>1. i - n = 1 /\ ~(i <= n)
      BY <1>1, <2>2
    <3> QED BY <1>2, <1>3, <1>4, <2>2, <3>1
  <2>3. CASE i > n + 1
    <3>1. i - (n + 1) \in 1..k - 1 /\ i - (n + 1) + 1 = i - n /\ ~(i <= n) /\ ~(i <= n + 1)
      BY <1>1, <1>5, <2>3
    <3>2. v[i - (n + 1)] = t[i - n]
      BY <1>5, <3>1
    <3> QED BY <1>3, <1>4, <3>1, <3>2
  <2> QED BY <1>1, <2>1, <2>2, <2>3
<1>7. l = r
  BY <1>3, <1>4, <1>6, SeqEqual
<1> QED BY <1>7 DEF l, r, v, u

LEMMA NumbersBefore ==
  ASSUME NEW s \in Seq(Position), NEW t \in Seq(Position), NEW lo, NEW hi,
         Rising(s \o t, lo, hi)
  PROVE  Rising(s, lo, hi)
<1>1. /\ Len(s) \in Nat /\ Len(s \o t) = Len(s) + Len(t) /\ Len(t) \in Nat
      /\ \A i \in 1..Len(s) : (s \o t)[i] = s[i]
  OBVIOUS
<1>2. \A i \in 1..Len(s) : i \in 1..Len(s \o t)
  BY <1>1
<1> QED BY <1>1, <1>2 DEF Rising

LEMMA WiderRange ==
  ASSUME NEW s \in Seq(Position), NEW lo \in Nat, NEW m \in Nat, NEW hi \in Nat,
         m <= hi, Rising(s, lo, m)
  PROVE  Rising(s, lo, hi)
<1>1. \A i \in 1..Len(s) : s[i] \in Nat
  BY DEF Position
<1> QED BY <1>1 DEF Rising

LEMMA NothingRises == \A lo, hi : Rising(<<>>, lo, hi) /\ Spread(<<>>, lo, hi)
  BY DEF Rising, Spread

LEMMA PlacedLineSpreads ==
  ASSUME SessionTypes, NEW kinds \in Line
  PROVE  Spread(Place(kinds), LastPlace, LastPlace + Len(kinds))
<1>1. Len(kinds) \in Nat /\ LastPlace \in Nat
  BY PlacesAreNumbers DEF Line
<1>2. /\ Len(Place(kinds)) = Len(kinds)
      /\ \A i \in 1..Len(kinds) : Place(kinds)[i].at = LastPlace + i
  BY PlacedLine
<1> QED BY <1>1, <1>2 DEF Spread

LEMMA OrderUntouched ==
  ASSUME OrderInv, UNCHANGED <<buffer, typed, ran, script>>,
         pc' # "run" => pc # "run", pc' \in {"start", "read"} => pc \in {"start", "read"}
  PROVE  OrderInv'
<1>1. LastPlace' = LastPlace
  BY DEF LastPlace
<1>2. Waits' <=> Waits
  BY <1>1 DEF Waits
<1> QED BY <1>1, <1>2 DEF OrderInv

LEMMA OrderWhenCleared ==
  ASSUME SessionTypes, OrderInv, UNCHANGED <<typed, ran>>, buffer' = <<>>, script' = <<>>
  PROVE  OrderInv'
<1>1. LastPlace' = LastPlace /\ LastPlace \in Nat
  BY PlacesAreNumbers DEF LastPlace
<1>2. Rising(ran, 0, LastPlace)
  BY NumbersBefore DEF OrderInv, SessionTypes
<1>3. ran \o <<>> = ran
  BY DEF SessionTypes
<1>4. Waits'
  BY <1>1, <1>2, NothingRises DEF Waits
<1> QED BY <1>1, <1>2, <1>3, <1>4 DEF OrderInv

LEMMA OrderOfScript ==
  ASSUME SessionTypes, NEW source \in Seq(Piece), NEW lo \in Nat, NEW hi \in Nat,
         LastPlace' = hi, lo <= hi, Rising(ran, 0, lo), Spread(source, lo, hi),
         Execute(source), script = <<>>, UNCHANGED ran
  PROVE  OrderInv'
<1>1. ran \in Seq(Position) /\ ran \o <<>> = ran /\ <<>> \in Seq(Position)
  BY DEF SessionTypes
<1>2. CASE pc' = "run" /\ script' = Parse(source).statements
  <2> DEFINE b == Parse(source).statements
  <2>1. b \in Seq(Position) /\ Rising(b, lo, hi)
    BY ParseType, ParseInOrder
  <2> HIDE DEF b
  <2>2. Rising(ran \o b, 0, hi)
    BY <1>1, <2>1, JoinedNumbers
  <2> QED BY <1>2, <2>2 DEF OrderInv, b
<1>3. CASE script' = script /\ buffer' = <<>>
  <2>1. Rising(ran, 0, hi)
    BY <1>1, WiderRange
  <2>2. Waits'
    BY <1>3, <2>1, NothingRises DEF Waits
  <2> QED BY <1>1, <1>3, <2>1, <2>2 DEF OrderInv
<1> QED BY <1>2, <1>3 DEF Execute, Go, Complain

LEMMA OrderOfLine ==
  ASSUME SessionTypes, OrderInv, NEW kinds \in Line, LineAction(Place(kinds))
  PROVE  OrderInv'
<1> DEFINE line == Place(kinds)
           hi == LastPlace + Len(kinds)
<1>1. Enter(line)
  BY DEF LineAction, Exit, Help, Gather, Submit, NoRoom
<1>2. /\ LastPlace' = hi /\ LastPlace \in Nat /\ hi \in Nat /\ LastPlace <= hi
      /\ line \in Seq(Piece) /\ Spread(line, LastPlace, hi)
  <2>1. typed' = Append(typed, line) /\ Len(kinds) \in Nat
    BY <1>1 DEF Enter, Line
  <2> QED BY <2>1, PlacesGrow, PlacesAreNumbers, PlacedLine, PlacedLineSpreads
<1>3. pc = "read" /\ script = <<>> /\ LineAction(line)
  BY <1>1 DEF Enter, OrderInv
<1>4. ran \in Seq(Position) /\ ran \o <<>> = ran /\ buffer \in Seq(Piece)
  BY DEF SessionTypes
<1>5. PICK lo \in 0..LastPlace : Rising(ran, 0, lo) /\ Spread(buffer, lo, LastPlace)
  BY <1>3 DEF OrderInv, Waits
<1> HIDE DEF line, hi
<1>6. lo \in Nat /\ lo <= LastPlace /\ lo <= hi
  BY <1>2
<1>7. Rising(ran, 0, LastPlace) /\ Rising(ran, 0, hi)
  BY <1>2, <1>4, <1>5, <1>6, WiderRange
<1>8. Spread(buffer \o line, lo, hi) /\ buffer \o line \in Seq(Piece)
  BY <1>2, <1>4, <1>5, <1>6, JoinedPlaces
<1>9. CASE UNCHANGED <<script, ran>> /\ pc' = "over"
  BY <1>2, <1>3, <1>4, <1>7, <1>9 DEF OrderInv
<1>10. CASE Help(line)
  <2>1. UNCHANGED <<script, ran, buffer, pc>> /\ buffer = <<>>
    BY <1>10 DEF Help, Command
  <2>2. Waits'
    BY <1>2, <1>7, <2>1, NothingRises DEF Waits
  <2> QED BY <1>2, <1>3, <1>4, <1>7, <2>1, <2>2 DEF OrderInv
<1>11. CASE Gather(line)
  <2>1. UNCHANGED <<script, ran, pc>> /\ buffer' = buffer \o line
    BY <1>11 DEF Gather
  <2>2. Waits'
    BY <1>2, <1>5, <1>6, <1>8, <2>1 DEF Waits
  <2> QED BY <1>2, <1>3, <1>4, <1>7, <2>1, <2>2 DEF OrderInv
<1>12. CASE Submit(line)
  <2>1. Execute(buffer \o line) /\ UNCHANGED ran
    BY <1>12 DEF Submit
  <2> QED BY <1>2, <1>3, <1>5, <1>6, <1>8, <2>1, OrderOfScript
<1> QED BY <1>3, <1>9, <1>10, <1>11, <1>12 DEF LineAction, Exit, NoRoom, End

LEMMA OrderStep ==
  ASSUME EditorInv, SessionTypes, OrderInv, [Next]_vars
  PROVE  OrderInv'
<1>0. CASE UNCHANGED vars
  BY <1>0, OrderUntouched DEF vars, ghosts
<1>1. CASE Start
  BY <1>1, OrderUntouched DEF Start, Go, End
<1>2. CASE PressKey
  BY <1>2, OrderUntouched DEF PressKey, ghosts
<1>3. CASE FallBack
  BY <1>3, OrderUntouched DEF FallBack, ghosts
<1>4. CASE EndOfInput
  BY <1>4, OrderUntouched DEF EndOfInput, End, ghosts
<1>5. CASE EndOfScript
  <2>1. pc = "read" /\ UNCHANGED <<typed, ran>> /\ script = <<>>
    BY <1>5 DEF EndOfScript, OrderInv
  <2>2. CASE Execute(buffer)
    <3>1. PICK lo \in 0..LastPlace : Rising(ran, 0, lo) /\ Spread(buffer, lo, LastPlace)
      BY <2>1 DEF OrderInv, Waits
    <3>2. LastPlace' = LastPlace /\ LastPlace \in Nat /\ buffer \in Seq(Piece)
      BY <2>1, PlacesAreNumbers DEF LastPlace, SessionTypes
    <3>3. lo \in Nat /\ lo <= LastPlace
      BY <3>2
    <3> QED BY <2>1, <2>2, <3>1, <3>2, <3>3, OrderOfScript
  <2>3. CASE Complain /\ UNCHANGED script
    BY <2>1, <2>3, OrderWhenCleared DEF Complain
  <2> QED BY <1>5, <2>2, <2>3 DEF EndOfScript
<1>6. CASE ReadFails
  BY <1>6, OrderUntouched DEF ReadFails, End
<1>7. CASE StatementSucceeds
  <2>1. /\ pc = "run" /\ UNCHANGED <<pc, typed>> /\ script # <<>>
        /\ ran' = Append(ran, Head(script)) /\ script' = Tail(script)
    BY <1>7 DEF StatementSucceeds
  <2>2. ran \in Seq(Position) /\ script \in Seq(Position)
    BY DEF SessionTypes
  <2>3. ran' \o script' = ran \o script
    BY <2>1, <2>2, HeadMoves
  <2>4. LastPlace' = LastPlace
    BY <2>1 DEF LastPlace
  <2> QED BY <2>1, <2>3, <2>4 DEF OrderInv
<1>8. CASE StatementFails
  BY <1>8, OrderWhenCleared DEF StatementFails, Complain
<1>9. CASE ScriptDone
  <2>1. script = <<>> /\ pc = "run" /\ UNCHANGED <<script, typed, ran>>
    BY <1>9 DEF ScriptDone, ghosts
  <2>2. CASE Session
    BY <1>9, <2>1, <2>2, OrderWhenCleared DEF ScriptDone
  <2>3. CASE ~Session
    <3>1. pc' = "over" /\ LastPlace' = LastPlace
      BY <1>9, <2>1, <2>3 DEF ScriptDone, End, LastPlace
    <3> QED BY <2>1, <3>1 DEF OrderInv
  <2> QED BY <2>2, <2>3
<1>10. ASSUME NEW kinds \in Line, LineAction(Place(kinds)) PROVE OrderInv'
  BY <1>10, OrderOfLine
<1>11. CASE ReadMore
  <2>1. PICK kinds \in Lines : /\ typed' = Append(typed, Place(kinds))
                               /\ buffer' = buffer \o Place(kinds)
    BY <1>11 DEF ReadMore
  <2>2. kinds \in Line /\ Len(kinds) \in Nat
    BY ReplAssumption DEF Line
  <2> DEFINE line == Place(kinds)
             hi == LastPlace + Len(kinds)
  <2>3. /\ line \in Seq(Piece) /\ LastPlace' = hi /\ LastPlace \in Nat /\ hi \in Nat
        /\ LastPlace <= hi /\ Spread(line, LastPlace, hi)
    BY <2>1, <2>2, PlacedLine, PlacesGrow, PlacesAreNumbers, PlacedLineSpreads
  <2>4. pc = "read" /\ UNCHANGED <<pc, script, ran>> /\ script = <<>>
    BY <1>11 DEF ReadMore, OrderInv
  <2>5. PICK lo \in 0..LastPlace : Rising(ran, 0, lo) /\ Spread(buffer, lo, LastPlace)
    BY <2>4 DEF OrderInv, Waits
  <2>6. ran \in Seq(Position) /\ ran \o <<>> = ran /\ buffer \in Seq(Piece)
    BY DEF SessionTypes
  <2>7. buffer' = buffer \o line
    BY <2>1
  <2> HIDE DEF line, hi
  <2>8. lo \in Nat /\ lo <= LastPlace /\ lo <= hi
    BY <2>3
  <2>9. Spread(buffer \o line, lo, hi) /\ Rising(ran, 0, hi)
    BY <2>3, <2>5, <2>6, <2>8, JoinedPlaces, WiderRange
  <2>10. Waits'
    BY <2>3, <2>4, <2>5, <2>7, <2>8, <2>9 DEF Waits
  <2> QED BY <2>3, <2>4, <2>6, <2>9, <2>10 DEF OrderInv
<1>12. CASE Next
  BY <1>1, <1>2, <1>3, <1>4, <1>5, <1>6, <1>7, <1>8, <1>9, <1>10, <1>11, <1>12, Steps
<1> QED BY <1>0, <1>12

LEMMA OrderInitially == Init => OrderInv
<1> SUFFICES ASSUME Init PROVE OrderInv
  OBVIOUS
<1>1. /\ LastPlace = 0 /\ ran = <<>> /\ script = <<>> /\ buffer = <<>>
      /\ ran \o script = <<>>
  BY DEF Init, LastPlace
<1> QED BY <1>1, NothingRises DEF OrderInv, Waits

LEMMA SessionIsKept == Spec => [](EditorInv /\ SessionTypes /\ OrderInv)
<1>1. Init => EditorInv /\ SessionTypes /\ OrderInv
  BY EditorInitially, TypesInitially, OrderInitially
<1>2. EditorInv /\ SessionTypes /\ OrderInv /\ [Next]_vars
        => (EditorInv /\ SessionTypes /\ OrderInv)'
  BY EditorStep, TypesStep, OrderStep
<1> QED BY <1>1, <1>2, PTL DEF Spec

(***************************************************************************)
(* Statements run in the order they were typed and none runs twice,        *)
(* whatever failed before: the buffer is cleared in every case             *)
(* (main.c:824).                                                           *)
(***************************************************************************)
THEOREM StatementsRunInOrder == Spec => []RunsInOrder
<1>1. SessionTypes /\ OrderInv => RunsInOrder
  <2> SUFFICES ASSUME SessionTypes, OrderInv PROVE RunsInOrder
    OBVIOUS
  <2>1. ran \in Seq(Position) /\ Rising(ran, 0, LastPlace)
    BY NumbersBefore DEF SessionTypes, OrderInv
  <2> QED BY <2>1 DEF RunsInOrder, Rising
<1> QED BY <1>1, SessionIsKept, PTL

(***************************************************************************)
(* Scripts and the exit status.  A script is read whole before it is       *)
(* parsed, and it is parsed whole before any of it runs.                   *)
(***************************************************************************)
Scripted == mode \in {"file", "stdin"}

Told == LET p == Parse(text) IN
          /\ status = 0 => p.ok /\ ran = p.statements
          /\ status # 0 => ran = <<>> \/ (p.ok /\ IsStrictPrefix(ran, p.statements))

StatusInv ==
  /\ pc # "over" => status = 0
  /\ status = 2 => pc = "over" /\ typed = <<>> /\ ran = <<>>
  /\ pc = "start" => typed = <<>> /\ ran = <<>> /\ text = <<>> /\ buffer = <<>>
  /\ Scripted =>
       /\ pc = "read" => text = buffer /\ ran = <<>>
       /\ pc = "run" => Parse(text).ok /\ ran \o script = Parse(text).statements
       /\ pc = "over" => Told

LEMMA PartOfScript ==
  ASSUME NEW s \in Seq(Position), NEW t \in Seq(Position), t # <<>>
  PROVE  IsStrictPrefix(s, s \o t)
<1> DEFINE u == s \o t
           n == Len(s)
<1>1. /\ u \in Seq(Position) /\ n \in Nat /\ Len(u) = n + Len(t) /\ Len(t) \in Nat \ {0}
      /\ \A i \in 1..n : u[i] = s[i]
  BY EmptySeq
<1> HIDE DEF u, n
<1>2. /\ SubSeq(u, 1, n) \in Seq(Position) /\ Len(SubSeq(u, 1, n)) = n
      /\ \A i \in 1..n : SubSeq(u, 1, n)[i] = u[i]
  BY <1>1
<1>3. /\ SubSeq(s, 1, n) \in Seq(Position) /\ Len(SubSeq(s, 1, n)) = n
      /\ \A i \in 1..n : SubSeq(s, 1, n)[i] = s[i]
  BY <1>1 DEF n
<1> DEFINE v == SubSeq(s, 1, n)
           w == SubSeq(u, 1, n)
<1>4. v = w
  <2>1. \A i \in 1..n : v[i] = w[i]
    BY <1>1, <1>2, <1>3
  <2>2. v \in Seq(Position) /\ w \in Seq(Position) /\ Len(v) = n /\ Len(w) = n
    BY <1>2, <1>3
  <2> HIDE DEF v, w
  <2> QED BY <2>1, <2>2, SeqEqual
<1>5. s # u /\ Len(s) <= Len(u)
  BY <1>1 DEF n
<1> QED BY <1>4, <1>5 DEF IsStrictPrefix, IsPrefix, u, n

LEMMA StatusOfLine ==
  ASSUME SessionTypes, StatusInv, NEW line, LineAction(line)
  PROVE  StatusInv'
<1>1. Enter(line)
  BY DEF LineAction, Exit, Help, Gather, Submit, NoRoom
<1>2. Session /\ ~Scripted /\ UNCHANGED mode /\ status = 0 /\ pc = "read"
  BY <1>1 DEF Enter, Session, Scripted, StatusInv
<1>3. ~Scripted' /\ Session'
  BY <1>2 DEF Scripted, Session
<1>4. pc' # "start" /\ status' \in {0, 1} /\ (pc' # "over" => status' = 0)
  BY <1>2 DEF LineAction, Exit, Help, Gather, Submit, NoRoom, Execute, Complain, Go, End
<1> QED BY <1>3, <1>4 DEF StatusInv

LEMMA StatusUntouched ==
  ASSUME StatusInv, UNCHANGED <<pc, status, typed, ran, text, buffer, script>>,
         UNCHANGED mode \/ ~Scripted'
  PROVE  StatusInv'
  BY DEF StatusInv, Scripted, Told

LEMMA StatusStep ==
  ASSUME EditorInv, SessionTypes, OrderInv, StatusInv, [Next]_vars
  PROVE  StatusInv'
<1>0. CASE UNCHANGED vars
  BY <1>0, StatusUntouched DEF vars, ghosts
<1>1. CASE Start
  <2>1. /\ pc = "start" /\ UNCHANGED <<buffer, typed, text, ran>> /\ status = 0
        /\ typed = <<>> /\ ran = <<>> /\ text = <<>> /\ buffer = <<>> /\ mode = Nothing
    BY <1>1 DEF Start, StatusInv, EditorInv
  <2>2. \/ pc' = "read" /\ status' = 0
        \/ pc' = "over" /\ UNCHANGED mode /\ status' \in {0, 2}
    BY <1>1, <2>1 DEF Start, Go, End
  <2> QED BY <2>1, <2>2 DEF StatusInv, Scripted, Nothing
<1>2. CASE PressKey
  BY <1>2, StatusUntouched DEF PressKey, ghosts
<1>3. CASE FallBack
  <2>1. ~Scripted'
    BY <1>3 DEF FallBack, Scripted
  <2> QED BY <1>3, <2>1, StatusUntouched DEF FallBack, ghosts
<1>4. CASE EndOfInput
  <2>1. ~Scripted' /\ pc' = "over" /\ status' = 0
    BY <1>4 DEF EndOfInput, End, Session, Scripted
  <2> QED BY <2>1 DEF StatusInv
<1>5. CASE EndOfScript
  <2>1. /\ pc = "read" /\ Scripted /\ Scripted' /\ ~Session /\ UNCHANGED <<typed, text, ran>>
        /\ status = 0 /\ text = buffer /\ ran = <<>>
    BY <1>5 DEF EndOfScript, Scripted, Session, StatusInv
  <2>2. CASE pc' = "run" /\ status' = 0 /\ Parse(buffer).ok /\ script' = Parse(buffer).statements
    <3>1. Parse(buffer).statements \in Seq(Position)
      BY ParseType DEF SessionTypes
    <3>2. <<>> \o Parse(buffer).statements = Parse(buffer).statements
      BY <3>1
    <3> QED BY <2>1, <2>2, <3>2 DEF StatusInv
  <2>3. CASE pc' = "over" /\ status' = 1
    BY <2>1, <2>3 DEF StatusInv, Told
  <2> QED BY <1>5, <2>1, <2>2, <2>3 DEF EndOfScript, Execute, Complain, Go, End
<1>6. CASE ReadFails
  <2>1. /\ pc = "read" /\ pc' = "over" /\ status' = 1 /\ UNCHANGED <<mode, text, ran>>
    BY <1>6 DEF ReadFails, End
  <2>2. Scripted' => ran' = <<>>
    BY <2>1 DEF StatusInv, Scripted
  <2> QED BY <2>1, <2>2 DEF StatusInv, Told
<1>7. CASE StatementSucceeds
  <2>1. /\ pc = "run" /\ UNCHANGED <<pc, mode, text, status>> /\ script # <<>> /\ status = 0
        /\ ran' = Append(ran, Head(script)) /\ script' = Tail(script)
    BY <1>7 DEF StatementSucceeds, StatusInv
  <2>2. ran' \o script' = ran \o script
    BY <2>1, HeadMoves DEF SessionTypes
  <2> QED BY <2>1, <2>2 DEF StatusInv, Scripted
<1>8. CASE StatementFails
  <2>1. /\ pc = "run" /\ UNCHANGED <<mode, typed, text, ran>> /\ script # <<>> /\ status = 0
        /\ IF Session THEN pc' = "read" /\ status' = status ELSE pc' = "over" /\ status' = 1
    BY <1>8 DEF StatementFails, Complain, Go, End, StatusInv
  <2>2. CASE Session
    <3>1. ~Scripted'
      BY <2>1, <2>2 DEF Scripted, Session
    <3> QED BY <2>1, <2>2, <3>1 DEF StatusInv
  <2>3. CASE ~Session
    <3>1. IsStrictPrefix(ran, ran \o script)
      BY <2>1, PartOfScript DEF SessionTypes
    <3>2. Scripted' => Told'
      BY <2>1, <2>3, <3>1 DEF StatusInv, Scripted, Told
    <3> QED BY <2>1, <2>3, <3>2 DEF StatusInv
  <2> QED BY <2>2, <2>3
<1>9. CASE ScriptDone
  <2>1. /\ pc = "run" /\ script = <<>> /\ UNCHANGED <<mode, typed, text, ran, script>>
        /\ status = 0
        /\ IF Session THEN pc' = "read" /\ status' = status ELSE pc' = "over" /\ status' = 0
    BY <1>9 DEF ScriptDone, Go, End, ghosts, StatusInv
  <2>2. CASE Session
    <3>1. ~Scripted'
      BY <2>1, <2>2 DEF Scripted, Session
    <3> QED BY <2>1, <2>2, <3>1 DEF StatusInv
  <2>3. CASE ~Session
    <3>1. ran \o <<>> = ran
      BY DEF SessionTypes
    <3>2. Scripted' => Told'
      BY <2>1, <2>3, <3>1 DEF StatusInv, Scripted, Told
    <3> QED BY <2>1, <2>3, <3>2 DEF StatusInv
  <2> QED BY <2>2, <2>3
<1>10. ASSUME NEW kinds \in Line, LineAction(Place(kinds)) PROVE StatusInv'
  BY <1>10, StatusOfLine
<1>11. CASE ReadMore
  <2>1. /\ pc = "read" /\ Scripted /\ UNCHANGED <<pc, mode, status, ran>> /\ text = buffer
        /\ \E line : text' = text \o line /\ buffer' = buffer \o line
    BY <1>11 DEF ReadMore, Scripted, StatusInv
  <2> QED BY <2>1 DEF StatusInv, Scripted
<1>12. CASE Next
  BY <1>1, <1>2, <1>3, <1>4, <1>5, <1>6, <1>7, <1>8, <1>9, <1>10, <1>11, <1>12, Steps
<1> QED BY <1>0, <1>12

LEMMA StatusInitially == Init => StatusInv
<1> SUFFICES ASSUME Init PROVE StatusInv
  OBVIOUS
<1>1. /\ mode = Nothing /\ pc = "start" /\ status = 0 /\ typed = <<>> /\ ran = <<>>
      /\ text = <<>> /\ buffer = <<>>
  BY DEF Init
<1> QED BY <1>1 DEF StatusInv, Scripted, Nothing

LEMMA StatusIsKept == Spec => [](EditorInv /\ SessionTypes /\ OrderInv /\ StatusInv)
<1>1. Init => StatusInv
  BY StatusInitially
<1>2. EditorInv /\ SessionTypes /\ OrderInv /\ StatusInv /\ [Next]_vars => StatusInv'
  BY StatusStep
<1> QED BY <1>1, <1>2, SessionIsKept, PTL DEF Spec

(***************************************************************************)
(* Arguments in error read nothing; a script that does not parse runs      *)
(* nothing; one that ends with status 0 has run all of its statements, one *)
(* that fails those before the failure (execute_source_text, main).        *)
(***************************************************************************)
THEOREM StatusIsTrue == Spec => []StatusTellsTheRun
<1>1. StatusInv => StatusTellsTheRun
  BY DEF StatusInv, StatusTellsTheRun, Scripted, Told
<1> QED BY <1>1, StatusIsKept, PTL

(***************************************************************************)
(* An interactive session against one script.  The text falls into what    *)
(* has been run, which a script could begin with, and what is gathered.    *)
(***************************************************************************)
Whole(s) == Parse(s).ok /\ Read(s).within = "code"

HasRun(done) == Whole(done) /\ ran = Parse(done).statements

ScriptInv ==
  Session /\ ~troubled /\ clean =>
    /\ pc = "run" => /\ buffer # <<>> /\ Whole(text)
                     /\ ran \o script = Parse(text).statements
    /\ pc \in {"read", "over"} =>
         \E done \in Seq(Piece) : text = done \o buffer /\ HasRun(done)

LEMMA NothingIsWhole == Whole(<<>>) /\ Parse(<<>>).statements = <<>>
<1>1. WithoutMark(<<>>) = <<>>
  BY DEF WithoutMark
<1>2. Read(<<>>) = Reader
  BY <1>1, ReaderType, ReadingNothing DEF Read
<1>3. /\ Parse(<<>>).ok <=> Expected("start", <<>>) \in Complete
      /\ Parse(<<>>).statements = Statements(<<>>)
  <2>1. Reader.ok = TRUE /\ Reader.within = "code" /\ Reader.tokens = <<>>
    BY DEF Reader
  <2>2. Tokenize(<<>>).ok = TRUE /\ Tokenize(<<>>).tokens = <<>>
    BY <1>2, <2>1 DEF Tokenize
  <2> QED BY <2>2 DEF Parse
<1>4. Expected("start", <<>>) \in Complete
  BY StateNames, ExpectedNothing DEF Complete
<1>5. Statements(<<>>) = <<>>
  <2>1. <<>> \in Seq(TokenSet)
    OBVIOUS
  <2>2. Statements(<<>>) = Run(BeginStep, <<>>, <<>>)
    BY <2>1, StatementsAreRun
  <2> QED BY <2>2, RunOfNothing
<1> QED BY <1>2, <1>3, <1>4, <1>5 DEF Whole, Reader

LEMMA ScriptOfBuffer ==
  ASSUME SessionTypes, NEW done \in Seq(Piece), HasRun(done), NEW source \in Seq(Piece),
         source # <<>>, Whole(source), source[1].kind = "bom" => source = done \o source
  PROVE  Whole(done \o source) /\ ran \o Parse(source).statements = Parse(done \o source).statements
<1>1. Parse(source).statements \in Seq(Position)
  BY ParseType
<1>2. CASE done = <<>>
  <2>1. done \o source = source
    BY <1>2
  <2>2. ran = <<>>
    BY <1>2, NothingIsWhole DEF HasRun
  <2>3. <<>> \o Parse(source).statements = Parse(source).statements
    BY <1>1
  <2> QED BY <2>1, <2>2, <2>3
<1>3. CASE done # <<>>
  <2>1. Len(done) \in Nat \ {0} /\ Len(done \o source) = Len(done) + Len(source)
        /\ Len(source) \in Nat
    BY <1>3, EmptySeq
  <2>2. done \o source # source
    BY <2>1
  <2>3. source[1].kind # "bom"
    BY <2>2
  <2>4. Read(done).within = "code" /\ Parse(done).ok /\ Parse(source).ok
        /\ Read(source).within = "code" /\ ran = Parse(done).statements
    BY DEF HasRun, Whole
  <2>5. /\ Parse(done \o source).ok
        /\ Parse(done \o source).statements = Parse(done).statements \o Parse(source).statements
        /\ Read(done \o source).within = Read(source).within
    BY <1>3, <2>3, <2>4, ParsesJoin
  <2> QED BY <2>4, <2>5 DEF Whole
<1> QED BY <1>2, <1>3

LEMMA ScriptOfLine ==
  ASSUME SessionTypes, OrderInv, ScriptInv, NEW line \in Seq(Piece) \ {<<>>},
         LineAction(line)
  PROVE  ScriptInv'
<1> SUFFICES ASSUME Session', ~troubled', clean'
             PROVE  /\ pc' = "run" => /\ buffer' # <<>> /\ Whole(text')
                                      /\ ran' \o script' = Parse(text').statements
                    /\ pc' \in {"read", "over"} =>
                         \E done \in Seq(Piece) : /\ text' = done \o buffer'
                                                  /\ HasRun(done)'
  BY DEF ScriptInv, Whole
<1>1. Enter(line)
  BY DEF LineAction, Exit, Help, Gather, Submit, NoRoom
<1>2. Session /\ pc = "read"
  BY <1>1 DEF Enter
<1>3. ~NoRoom(line)
  BY DEF NoRoom
<1>4. ~troubled /\ clean /\ UNCHANGED ran
  <2>1. CASE Submit(line)
    <3>1. clean' = (clean /\ StandsAlone(buffer \o line)) /\ UNCHANGED ran
          /\ (UNCHANGED troubled \/ troubled' = TRUE)
      BY <2>1 DEF Submit, Execute, Complain
    <3>2. troubled \in BOOLEAN /\ clean \in BOOLEAN
      BY DEF SessionTypes
    <3> QED BY <3>1, <3>2, Zenon
  <2>2. CASE Exit(line) \/ Help(line) \/ Gather(line)
    <3>1. UNCHANGED <<ran, clean, troubled>>
      BY <2>2 DEF Exit, Help, Gather
    <3> QED BY <3>1, Zenon
  <2> QED BY <1>3, <2>1, <2>2 DEF LineAction
<1>5. PICK done \in Seq(Piece) : text = done \o buffer /\ HasRun(done)
  BY <1>2, <1>4 DEF ScriptInv
<1>6. HasRun(done)'
  BY <1>4, <1>5 DEF HasRun
<1>7. buffer \in Seq(Piece) /\ line \in Seq(Piece)
  BY DEF SessionTypes
<1>8. text \o line = done \o (buffer \o line)
  BY <1>5, <1>7, ConcatAssociative
<1>9. CASE Exit(line)
  BY <1>5, <1>6, <1>9 DEF Exit, End
<1>10. CASE Help(line)
  BY <1>2, <1>5, <1>6, <1>10 DEF Help
<1>11. CASE Gather(line)
  BY <1>2, <1>6, <1>8, <1>11 DEF Gather
<1>12. CASE Submit(line)
  <2> DEFINE source == buffer \o line
  <2>1. /\ text' = text \o line /\ StandsAlone(source) /\ Execute(source)
    BY <1>12 DEF Submit
  <2>2. text' = done \o source
    BY <1>8, <2>1
  <2>3. source \in Seq(Piece) /\ source # <<>>
    <3>1. Len(source) = Len(buffer) + Len(line) /\ Len(buffer) \in Nat /\ Len(line) \in Nat \ {0}
      BY <1>7, EmptySeq
    <3> QED BY <1>7, <3>1
  <2> HIDE DEF source
  <2>4. /\ pc' = "run" /\ buffer' = source /\ script' = Parse(source).statements
        /\ Parse(source).ok
    BY <2>1 DEF Execute, Go, Complain
  <2>5. Whole(source) /\ (source[1].kind = "bom" => source = done \o source)
    BY <2>1, <2>2, <2>4 DEF StandsAlone, Whole
  <2>6. Whole(done \o source)
        /\ ran \o Parse(source).statements = Parse(done \o source).statements
    BY <1>5, <2>3, <2>5, ScriptOfBuffer
  <2> QED BY <1>4, <2>2, <2>3, <2>4, <2>6
<1> QED BY <1>3, <1>9, <1>10, <1>11, <1>12 DEF LineAction

LEMMA ScriptUntouched ==
  ASSUME ScriptInv, UNCHANGED <<text, buffer, ran, script, clean, troubled>>, Session' => Session,
         pc' = "run" <=> pc = "run", pc' \in {"read", "over"} => pc \in {"read", "over"}
  PROVE  ScriptInv'
<1>1. \A done : HasRun(done)' <=> HasRun(done)
  BY DEF HasRun
<1> QED BY <1>1 DEF ScriptInv

LEMMA NoSession ==
  ASSUME ~Session' \/ troubled'
  PROVE  ScriptInv'
  BY DEF ScriptInv

LEMMA ScriptStep ==
  ASSUME EditorInv, SessionTypes, OrderInv, StatusInv, ScriptInv, [Next]_vars
  PROVE  ScriptInv'
<1>0. CASE UNCHANGED vars
  BY <1>0, ScriptUntouched DEF vars, ghosts, Session
<1>1. CASE Start
  <2>1. /\ text' = <<>> /\ buffer' = <<>> /\ ran' = <<>> /\ mode = Nothing
    BY <1>1 DEF Start, StatusInv, EditorInv
  <2>2. CASE pc' = "read"
    <3>1. HasRun(<<>>)'
      BY <2>1, NothingIsWhole DEF HasRun
    <3>2. <<>> \in Seq(Piece) /\ <<>> \o <<>> = <<>>
      OBVIOUS
    <3> QED BY <2>1, <2>2, <3>1, <3>2 DEF ScriptInv
  <2>3. CASE UNCHANGED mode
    <3>1. ~Session'
      BY <2>1, <2>3 DEF Session, Nothing
    <3> QED BY <3>1, NoSession
  <2> QED BY <1>1, <2>2, <2>3 DEF Start, Go, End
<1>2. CASE PressKey
  BY <1>2, ScriptUntouched DEF PressKey, ghosts, Session
<1>3. CASE FallBack
  BY <1>3, ScriptUntouched DEF FallBack, ghosts, Session
<1>4. CASE EndOfInput
  BY <1>4, ScriptUntouched DEF EndOfInput, End, ghosts, Session
<1>5. CASE EndOfScript
  <2>1. ~Session'
    BY <1>5 DEF EndOfScript, Session
  <2> QED BY <2>1, NoSession
<1>6. CASE ReadFails
  BY <1>6, NoSession DEF ReadFails
<1>7. CASE StatementSucceeds
  <2>1. /\ pc = "run" /\ UNCHANGED <<pc, mode, buffer, text, clean, troubled>> /\ script # <<>>
        /\ ran' = Append(ran, Head(script)) /\ script' = Tail(script)
    BY <1>7 DEF StatementSucceeds
  <2>2. ran' \o script' = ran \o script
    BY <2>1, HeadMoves DEF SessionTypes
  <2> QED BY <2>1, <2>2 DEF ScriptInv, Session
<1>8. CASE StatementFails
  BY <1>8, NoSession DEF StatementFails, Complain
<1>9. CASE ScriptDone
  <2>1. /\ pc = "run" /\ script = <<>> /\ UNCHANGED <<mode, text, ran, clean, troubled>>
    BY <1>9 DEF ScriptDone, ghosts
  <2>2. CASE Session /\ ~troubled /\ clean
    <3>1. pc' = "read" /\ buffer' = <<>>
      BY <1>9, <2>2 DEF ScriptDone, Go
    <3>2. text \in Seq(Piece) /\ text \o <<>> = text /\ ran \o <<>> = ran
      BY DEF SessionTypes
    <3>3. HasRun(text)'
      BY <2>1, <2>2, <3>2 DEF ScriptInv, HasRun, Whole
    <3> QED BY <2>1, <3>1, <3>2, <3>3 DEF ScriptInv
  <2>3. CASE ~(Session /\ ~troubled /\ clean)
    BY <2>1, <2>3 DEF ScriptInv, Session
  <2> QED BY <2>2, <2>3
<1>10. ASSUME NEW kinds \in Line, LineAction(Place(kinds)) PROVE ScriptInv'
  BY <1>10, PlacedLine, ScriptOfLine
<1>11. CASE ReadMore
  <2>1. ~Session'
    BY <1>11 DEF ReadMore, Session
  <2> QED BY <2>1, NoSession
<1>12. CASE Next
  BY <1>1, <1>2, <1>3, <1>4, <1>5, <1>6, <1>7, <1>8, <1>9, <1>10, <1>11, <1>12, Steps
<1> QED BY <1>0, <1>12

(***************************************************************************)
(* As long as no error was reported, an interactive session has run what   *)
(* the same text would run as one script: cutting it into buffers at the   *)
(* lines that hold a semicolon makes no difference (main.c:819).           *)
(***************************************************************************)
THEOREM SessionIsScript == Spec => []InteractiveIsScript
<1>1. Init => ScriptInv
  BY DEF Init, ScriptInv, Session, Nothing
<1>2. EditorInv /\ SessionTypes /\ OrderInv /\ StatusInv /\ ScriptInv /\ [Next]_vars
        => ScriptInv'
  BY ScriptStep
<1>3. EditorInv /\ SessionTypes /\ ScriptInv => InteractiveIsScript
  <2> SUFFICES ASSUME EditorInv, SessionTypes, ScriptInv, Session, ~troubled, buffer = <<>>, clean
               PROVE  Parse(text).ok /\ ran = Parse(text).statements
    BY DEF InteractiveIsScript
  <2>1. pc \in {"read", "over"}
    BY DEF ScriptInv, SessionTypes, EditorInv, Session, Nothing
  <2>2. PICK done \in Seq(Piece) : text = done \o <<>> /\ HasRun(done)
    BY <2>1 DEF ScriptInv
  <2>3. done \o <<>> = done
    OBVIOUS
  <2> QED BY <2>2, <2>3 DEF HasRun, Whole
<1> QED BY <1>1, <1>2, <1>3, StatusIsKept, PTL DEF Spec

(***************************************************************************)
(* The input history against all the lines entered                         *)
(***************************************************************************)
Entries   == Seq(Seq(Kinds))
TypedLine == Seq(Piece) \ {<<>>}
Entry(line) == WithoutNewline(KindsOf(line))
FreshStep == [h \in Entries |-> [line \in TypedLine |-> Fresh(h, Entry(line))]]

LEMMA KindsOfLine ==
  ASSUME NEW line \in Seq(Piece)
  PROVE  KindsOf(line) \in Seq(Kinds)
<1>1. \A i \in 1..Len(line) : line[i] \in Piece
  OBVIOUS
<1>2. \A i \in 1..Len(line) : line[i].kind \in Kinds
  BY <1>1 DEF Piece
<1>3. KindsOf(line) \in [1..Len(line) -> Kinds] /\ Len(line) \in Nat
  BY <1>2 DEF KindsOf
<1>4. ASSUME NEW n \in Nat, NEW f \in [1..n -> Kinds] PROVE f \in Seq(Kinds)
  OBVIOUS
<1> QED BY <1>3, <1>4

LEMMA EntryType ==
  ASSUME NEW line \in TypedLine
  PROVE  Entry(line) \in Seq(Kinds)
BY KindsOfLine, LineWithoutNewline DEF Entry, TypedLine

LEMMA FreshType ==
  ASSUME NEW h \in Entries, NEW entry \in Seq(Kinds)
  PROVE  Fresh(h, entry) \in Entries
BY DEF Fresh, Entries

LEMMA FreshMachine ==
  /\ Machine(Entries, TypedLine, FreshStep)
  /\ \A h \in Entries, line \in TypedLine : FreshStep[h][line] = Fresh(h, Entry(line))
BY FreshType, EntryType DEF Machine, FreshStep

LEMMA AllLinesAreRun ==
  ASSUME NEW s \in Seq(TypedLine)
  PROVE  AllLines(s) = Run(FreshStep, <<>>, s)
<1> DEFINE IsFresh(h) ==
             h = [i \in 0..Len(s) |-> IF i = 0 THEN <<>>
                    ELSE Fresh(h[i - 1], WithoutNewline(KindsOf(s[i])))]
           f == CHOOSE h : IsFresh(h)
<1>1. Len(s) \in Nat /\ \A i \in 1..Len(s) : s[i] \in TypedLine
  OBVIOUS
<1>2. PICK g \in [0..Len(s) -> Entries] :
        /\ g[0] = <<>> /\ g[Len(s)] = Run(FreshStep, <<>>, s)
        /\ \A i \in 1..Len(s) : g[i] = FreshStep[g[i - 1]][s[i]]
  <2> DEFINE none == <<>>
  <2>1. none \in Entries
    BY DEF Entries
  <2> HIDE DEF none
  <2>2. PICK g \in [0..Len(s) -> Entries] :
          /\ g[0] = none /\ g[Len(s)] = Run(FreshStep, none, s)
          /\ \A i \in 1..Len(s) : g[i] = FreshStep[g[i - 1]][s[i]]
    BY <2>1, FreshMachine, RunIsDefined
  <2> QED BY <2>2 DEF none
<1>3. \A i \in 1..Len(s) : g[i] = Fresh(g[i - 1], WithoutNewline(KindsOf(s[i])))
  <2> TAKE i \in 1..Len(s)
  <2>1. g[i - 1] \in Entries /\ s[i] \in TypedLine
    BY <1>1
  <2>2. g[i] = Fresh(g[i - 1], Entry(s[i]))
    BY <1>2, <2>1, FreshMachine
  <2> QED BY <2>2 DEF Entry
<1>4. IsFresh(g)
  <2>1. \A i \in 0..Len(s) :
          g[i] = IF i = 0 THEN <<>> ELSE Fresh(g[i - 1], WithoutNewline(KindsOf(s[i])))
    BY <1>1, <1>2, <1>3
  <2> QED BY <2>1
<1>5. \A i \in 0..Len(s) : f[i] = IF i = 0 THEN <<>>
                                  ELSE Fresh(f[i - 1], WithoutNewline(KindsOf(s[i])))
  <2>1. IsFresh(f)
    BY <1>4
  <2> HIDE DEF f
  <2> QED BY <2>1
<1>6. AllLines(s) = f[Len(s)]
  BY DEF AllLines
<1> HIDE DEF f
<1>7. f[0] = g[0] /\ \A i \in 1..Len(s) : f[i - 1] = g[i - 1] => f[i] = g[i]
  <2>1. f[0] = g[0]
    BY <1>1, <1>2, <1>5
  <2>2. \A i \in 1..Len(s) : i \in 0..Len(s) /\ i # 0
    BY <1>1
  <2> QED BY <1>3, <1>5, <2>1, <2>2
<1>8. \A i \in 0..Len(s) : f[i] = g[i]
  BY ONLY ZenonT(30), <1>1, <1>7, SameRun
<1> QED BY <1>1, <1>2, <1>6, <1>8

LEMMA OneMoreLine ==
  ASSUME NEW s \in Seq(TypedLine), NEW line \in TypedLine
  PROVE  /\ AllLines(s) \in Entries
         /\ AllLines(Append(s, line)) = Fresh(AllLines(s), Entry(line))
<1> DEFINE none == <<>>
<1>1. none \in Entries
  BY DEF Entries
<1>2. /\ AllLines(s) = Run(FreshStep, none, s)
      /\ AllLines(Append(s, line)) = Run(FreshStep, none, Append(s, line))
  <2>1. Append(s, line) \in Seq(TypedLine)
    OBVIOUS
  <2> QED BY <2>1, AllLinesAreRun
<1> HIDE DEF none
<1>3. /\ Run(FreshStep, none, Append(s, line)) = FreshStep[Run(FreshStep, none, s)][line]
      /\ Run(FreshStep, none, s) \in Entries
  BY <1>1, FreshMachine, RunAppend, RunType
<1> QED BY <1>2, <1>3, FreshMachine

LEMMA NoLines == AllLines(<<>>) = <<>>
<1>1. <<>> \in Seq(TypedLine)
  OBVIOUS
<1>2. AllLines(<<>>) = Run(FreshStep, <<>>, <<>>)
  BY <1>1, AllLinesAreRun
<1> QED BY <1>2, RunOfNothing

LEMMA LatestEntries ==
  ASSUME NEW S, NEW h \in Seq(S), NEW n \in Nat \ {0}
  PROVE  /\ Latest(h, n) \in Seq(S)
         /\ Len(Latest(h, n)) = IF Len(h) > n THEN n ELSE Len(h)
         /\ \A i \in 1..Len(Latest(h, n)) :
              Latest(h, n)[i] = h[(Len(h) - Len(Latest(h, n))) + i]
<1> DEFINE l == Len(h)
           first == IF l > n THEN l - n + 1 ELSE 1
<1>1. l \in Nat /\ first \in Int /\ first >= 1 /\ \A i \in first..l : h[i] \in S
  <2>1. l \in Nat
    OBVIOUS
  <2>2. first \in Int /\ first >= 1
    BY <2>1
  <2>3. \A i \in first..l : i \in 1..l
    BY <2>1, <2>2
  <2> QED BY <2>1, <2>2, <2>3
<1>2. Latest(h, n) = SubSeq(h, first, l)
  BY DEF Latest
<1> DEFINE L == SubSeq(h, first, l)
<1>3. /\ L \in Seq(S)
      /\ Len(L) = IF first <= l THEN l - first + 1 ELSE 0
      /\ \A i \in 1..l - first + 1 : L[i] = h[first + i - 1]
  <2> HIDE DEF first, l
  <2>1. first \in Int /\ l \in Int
    BY <1>1
  <2> QED BY <1>1, <2>1, SubSeqProperties
<1> HIDE DEF L
<1>4. Len(L) = IF l > n THEN n ELSE l
  <2>1. CASE l > n
    BY <1>1, <1>3, <2>1
  <2>2. CASE ~(l > n)
    BY <1>1, <1>3, <2>2
  <2> QED BY <2>1, <2>2
<1>5. l - first + 1 = Len(L) /\ \A i \in 1..Len(L) : first + i - 1 = (l - Len(L)) + i
  BY <1>1, <1>4
<1>6. \A i \in 1..Len(L) : L[i] = h[(l - Len(L)) + i]
  <2> HIDE DEF l, first
  <2> QED BY <1>3, <1>5
<1> QED BY <1>2, <1>3, <1>4, <1>6 DEF L

LEMMA LatestOneMore ==
  ASSUME NEW S, NEW h \in Seq(S), NEW n \in Nat \ {0}, NEW x \in S
  PROVE  Latest(Append(h, x), n)
           = LET L == Latest(h, n)
             IN  IF Len(L) = n THEN Append(Tail(L), x) ELSE Append(L, x)
<1> DEFINE L == Latest(h, n)
           g == Append(h, x)
           G == Latest(g, n)
           l == Len(h)
           k == Len(L)
<1>1. /\ g \in Seq(S) /\ Len(g) = l + 1 /\ g[l + 1] = x /\ l \in Nat
      /\ \A i \in 1..l : g[i] = h[i]
  BY AppendProperties, LenProperties
<1> HIDE DEF L, g, G, l
<1>2. L \in Seq(S) /\ k = (IF l > n THEN n ELSE l) /\ \A i \in 1..k : L[i] = h[(l - k) + i]
  BY LatestEntries DEF L, l
<1>3. /\ G \in Seq(S) /\ Len(G) = IF l + 1 > n THEN n ELSE l + 1
      /\ \A i \in 1..Len(G) : G[i] = g[((l + 1) - Len(G)) + i]
  <2>1. g \in Seq(S) /\ Len(g) = l + 1
    BY <1>1
  <2>2. /\ G \in Seq(S) /\ Len(G) = IF Len(g) > n THEN n ELSE Len(g)
        /\ \A i \in 1..Len(G) : G[i] = g[(Len(g) - Len(G)) + i]
    BY <2>1, LatestEntries DEF G
  <2> QED BY <2>1, <2>2
<1>4. k \in Nat
  BY <1>1, <1>2
<1> HIDE DEF k
<1>5. CASE k = n
  <2> DEFINE t == Tail(L)
             r == Append(t, x)
  <2>1. /\ t \in Seq(S) /\ Len(t) = n - 1 /\ \A i \in 1..n - 1 : t[i] = L[i + 1]
    <3>1. Len(L) = n /\ L # <<>>
      BY <1>5, EmptySeq DEF k
    <3> QED BY <1>2, <3>1, HeadTailProperties
  <2> HIDE DEF t
  <2>2. /\ r \in Seq(S) /\ Len(r) = n /\ r[n] = x /\ \A i \in 1..n - 1 : r[i] = t[i]
    <3>1. /\ r \in Seq(S) /\ Len(r) = Len(t) + 1 /\ r[Len(t) + 1] = x
          /\ \A i \in 1..Len(t) : r[i] = t[i]
      BY <2>1, AppendProperties
    <3>2. Len(t) + 1 = n
      BY <2>1
    <3> QED BY <2>1, <3>1, <3>2
  <2> HIDE DEF r
  <2>3. l >= n /\ Len(G) = n
    BY <1>1, <1>2, <1>3, <1>5
  <2>4. ASSUME NEW i \in 1..n PROVE G[i] = r[i]
    <3>1. G[i] = g[((l + 1) - n) + i]
      BY <1>3, <2>3
    <3>2. CASE i = n
      <4>1. ((l + 1) - n) + i = l + 1
        BY <1>1, <3>2
      <4> QED BY <1>1, <2>2, <3>1, <3>2, <4>1
    <3>3. CASE i # n
      <4>1. /\ ((l + 1) - n) + i \in 1..l /\ i \in 1..n - 1 /\ i + 1 \in 1..n
            /\ (l - n) + (i + 1) = ((l + 1) - n) + i
        BY <1>1, <2>3, <3>3
      <4>2. G[i] = h[((l + 1) - n) + i]
        BY <1>1, <3>1, <4>1
      <4>3. r[i] = L[i + 1] /\ L[i + 1] = h[(l - n) + (i + 1)]
        BY <1>2, <1>5, <2>1, <2>2, <4>1
      <4> QED BY <4>1, <4>2, <4>3
    <3> QED BY <3>2, <3>3
  <2>5. G = r
    BY <1>3, <2>2, <2>3, <2>4, SeqEqual
  <2> QED BY <1>5, <2>5 DEF G, g, r, t, L, k
<1>6. CASE k # n
  <2> DEFINE r == Append(L, x)
  <2>1. k = l /\ l < n /\ Len(G) = l + 1
    BY <1>1, <1>2, <1>3, <1>6
  <2>2. /\ r \in Seq(S) /\ Len(r) = l + 1 /\ r[l + 1] = x /\ \A i \in 1..l : r[i] = L[i]
    BY <1>2, <2>1, AppendProperties DEF k
  <2> HIDE DEF r
  <2>3. ASSUME NEW i \in 1..l + 1 PROVE G[i] = r[i]
    <3>1. G[i] = g[i]
      <4>1. ((l + 1) - (l + 1)) + i = i
        BY <1>1
      <4> QED BY <1>3, <2>1, <4>1
    <3>2. CASE i = l + 1
      BY <1>1, <2>2, <3>1, <3>2
    <3>3. CASE i # l + 1
      <4>1. i \in 1..l /\ (l - l) + i = i
        BY <1>1, <3>3
      <4> QED BY <1>1, <1>2, <2>1, <2>2, <3>1, <4>1
    <3> QED BY <3>2, <3>3
  <2>4. G = r
    BY <1>3, <2>1, <2>2, <2>3, SeqEqual
  <2> QED BY <1>6, <2>4 DEF G, g, r, L, k
<1> QED BY <1>5, <1>6

LEMMA LatestEnds ==
  ASSUME NEW S, NEW h \in Seq(S), NEW n \in Nat \ {0}
  PROVE  /\ h = <<>> <=> Latest(h, n) = <<>>
         /\ h # <<>> => Last(Latest(h, n)) = Last(h)
<1> DEFINE L == Latest(h, n)
<1>1. /\ L \in Seq(S) /\ Len(L) = (IF Len(h) > n THEN n ELSE Len(h)) /\ Len(h) \in Nat
      /\ \A i \in 1..Len(L) : L[i] = h[(Len(h) - Len(L)) + i]
  BY LatestEntries
<1> HIDE DEF L
<1>2. h = <<>> <=> Len(h) = 0
  BY EmptySeq
<1>3. L = <<>> <=> Len(L) = 0
  BY <1>1, EmptySeq
<1>4. ASSUME h # <<>> PROVE Last(L) = Last(h)
  <2>1. Len(L) \in 1..Len(L) /\ (Len(h) - Len(L)) + Len(L) = Len(h)
    BY <1>1, <1>2, <1>4
  <2> QED BY <1>1, <2>1 DEF Last
<1> QED BY <1>1, <1>2, <1>3, <1>4 DEF L

LEMMA HistoryAddIsRecent ==
  ASSUME NEW h \in Entries, NEW kinds \in Seq(Kinds)
  PROVE  HistoryAdd(Latest(h, HistoryMax), kinds)
           = Latest(Fresh(h, WithoutNewline(kinds)), HistoryMax)
<1> DEFINE n == HistoryMax
           entry == WithoutNewline(kinds)
           L == Latest(h, n)
<1>1. n \in Nat \ {0} /\ entry \in Seq(Kinds) /\ h \in Seq(Seq(Kinds))
  BY EditorAssumption, LineWithoutNewline DEF Entries
<1>2. /\ h = <<>> <=> L = <<>>
      /\ h # <<>> => Last(L) = Last(h)
  BY <1>1, LatestEnds
<1>3. Latest(Append(h, entry), n) = IF Len(L) = n THEN Append(Tail(L), entry)
                                                  ELSE Append(L, entry)
  BY <1>1, LatestOneMore
<1>4. HistoryAdd(L, kinds) = IF entry = <<>> \/ (L # <<>> /\ Last(L) = entry) THEN L
                             ELSE IF Len(L) = n THEN Append(Tail(L), entry)
                             ELSE Append(L, entry)
  BY DEF HistoryAdd, Blank, Remember
<1>5. Fresh(h, entry) = IF entry = <<>> \/ (h # <<>> /\ Last(h) = entry) THEN h
                        ELSE Append(h, entry)
  BY DEF Fresh
<1> HIDE DEF entry, L
<1> QED BY <1>2, <1>3, <1>4, <1>5 DEF L, entry

(***************************************************************************)
(* A script has no history; a session has none before its first line.      *)
(***************************************************************************)
HistoryInv ==
  /\ mode = Nothing => typed = <<>> /\ history = <<>>
  /\ HistoryIsRecent

LEMMA HistoryOfLine ==
  ASSUME SessionTypes, HistoryInv, NEW kinds \in Line, LineAction(Place(kinds))
  PROVE  HistoryInv'
<1> DEFINE line == Place(kinds)
<1>1. line \in TypedLine
  BY PlacedLine DEF TypedLine
<1>2. Enter(line)
  BY DEF LineAction, Exit, Help, Gather, Submit, NoRoom
<1> HIDE DEF line
<1>3. /\ Session /\ UNCHANGED mode /\ typed' = Append(typed, line)
      /\ history' = HistoryAdd(history, KindsOf(line))
  BY <1>2 DEF Enter
<1>4. typed \in Seq(TypedLine)
  BY DEF SessionTypes, TypedLine
<1>5. /\ AllLines(typed) \in Entries
      /\ AllLines(typed') = Fresh(AllLines(typed), Entry(line))
  BY <1>1, <1>3, <1>4, OneMoreLine
<1>6. history = Latest(AllLines(typed), HistoryMax)
  BY <1>3 DEF HistoryInv, HistoryIsRecent
<1>7. history' = Latest(AllLines(typed'), HistoryMax)
  <2>1. KindsOf(line) \in Seq(Kinds)
    BY <1>1, KindsOfLine DEF TypedLine
  <2> QED BY <1>3, <1>5, <1>6, <2>1, HistoryAddIsRecent DEF Entry
<1>8. mode' # Nothing
  BY <1>3 DEF Session, Nothing
<1> QED BY <1>7, <1>8 DEF HistoryInv, HistoryIsRecent

LEMMA HistoryUntouched ==
  ASSUME HistoryInv, UNCHANGED <<mode, typed, history>>
  PROVE  HistoryInv'
BY DEF HistoryInv, HistoryIsRecent, Session

LEMMA NothingRecent == Latest(AllLines(<<>>), HistoryMax) = <<>>
<1>1. <<>> \in Seq({}) /\ HistoryMax \in Nat \ {0}
  BY EditorAssumption
<1> QED BY <1>1, NoLines, LatestEnds

LEMMA HistoryStep ==
  ASSUME EditorInv, SessionTypes, HistoryInv, [Next]_vars
  PROVE  HistoryInv'
<1>0. CASE UNCHANGED vars
  BY <1>0, HistoryUntouched DEF vars, ghosts, editor
<1>1. CASE Start
  <2>1. typed = <<>> /\ history = <<>> /\ UNCHANGED <<typed, history>>
    BY <1>1 DEF Start, EditorInv, HistoryInv, editor
  <2> QED BY <2>1, NothingRecent DEF HistoryInv, HistoryIsRecent
<1>2. CASE PressKey
  <2>1. UNCHANGED <<mode, typed, history>>
    BY <1>2 DEF PressKey, ghosts, EditKey, Type, Backspace, Up, Down, Show
  <2> QED BY <2>1, HistoryUntouched
<1>3. CASE FallBack
  <2>1. Session /\ Session' /\ mode' # Nothing /\ UNCHANGED <<typed, history>>
    BY <1>3 DEF FallBack, ghosts, editor, Session, Nothing
  <2> QED BY <2>1 DEF HistoryInv, HistoryIsRecent
<1>4. CASE EndOfInput
  BY <1>4, HistoryUntouched DEF EndOfInput, ghosts, editor
<1>5. CASE EndOfScript
  BY <1>5, HistoryUntouched DEF EndOfScript, editor
<1>6. CASE ReadFails
  BY <1>6, HistoryUntouched DEF ReadFails, editor
<1>7. CASE StatementSucceeds
  BY <1>7, HistoryUntouched DEF StatementSucceeds, editor
<1>8. CASE StatementFails
  BY <1>8, HistoryUntouched DEF StatementFails, editor
<1>9. CASE ScriptDone
  BY <1>9, HistoryUntouched DEF ScriptDone, ghosts, editor
<1>10. ASSUME NEW kinds \in Line, LineAction(Place(kinds)) PROVE HistoryInv'
  BY <1>10, HistoryOfLine
<1>11. CASE ReadMore
  <2>1. ~Session' /\ mode' # Nothing
    BY <1>11 DEF ReadMore, Session, Nothing
  <2> QED BY <2>1 DEF HistoryInv, HistoryIsRecent
<1>12. CASE Next
  BY <1>1, <1>2, <1>3, <1>4, <1>5, <1>6, <1>7, <1>8, <1>9, <1>10, <1>11, <1>12, Steps
<1> QED BY <1>0, <1>12

(***************************************************************************)
(* The history holds the latest lines that are neither blank nor a repeat  *)
(* of the line before, up to its limit (history_add).                      *)
(***************************************************************************)
THEOREM HistoryIsTrue == Spec => []HistoryIsRecent
<1>1. Init => HistoryInv
  BY NothingRecent DEF Init, EditorInit, HistoryInv, HistoryIsRecent
<1>2. EditorInv /\ SessionTypes /\ HistoryInv /\ [Next]_vars => HistoryInv'
  BY HistoryStep
<1>3. HistoryInv => HistoryIsRecent
  BY DEF HistoryInv
<1> QED BY <1>1, <1>2, <1>3, SessionIsKept, PTL DEF Spec

(***************************************************************************)
(* The command line.  What a group of arguments does to options already    *)
(* looked at depends only on what it does by itself.                       *)
(***************************************************************************)
WordLists == {words \in Seq(Words) : Len(words) <= 2}

Options == [bad : BOOLEAN, help : BOOLEAN, interactive : BOOLEAN, words : WordLists,
            awaits : Valued \cup {Nothing}, given : [Valued -> Arguments \cup {Nothing}]]

LEMMA OptionFields ==
  ASSUME NEW o \in Options
  PROVE  /\ o.bad \in BOOLEAN /\ o.help \in BOOLEAN /\ o.interactive \in BOOLEAN
         /\ o.words \in Seq(Words) /\ Len(o.words) <= 2 /\ Len(o.words) \in Nat
         /\ o.awaits \in Valued \cup {Nothing}
         /\ o.given \in [Valued -> Arguments \cup {Nothing}]
<1>1. o.words \in WordLists
  BY DEF Options
<1>2. o.words \in Seq(Words) /\ Len(o.words) <= 2
  BY <1>1 DEF WordLists
<1>3. Len(o.words) \in Nat
  BY <1>2, LenProperties
<1> QED BY <1>2, <1>3 DEF Options

LEMMA SameOptions ==
  ASSUME NEW o \in Options, NEW q \in Options, o.bad = q.bad, o.help = q.help,
         o.interactive = q.interactive, o.words = q.words, o.awaits = q.awaits,
         o.given = q.given
  PROVE  o = q
BY DEF Options

(* What an argument does, case by case.                                    *)
LEMMA ArgumentCases ==
  ASSUME NEW o, NEW arg \in Arguments
  PROVE  LET p == TakeArgument(o, arg) IN
         \/ o.bad /\ p = o
         \/ ~o.bad /\ o.awaits # Nothing /\ p = Value(o, arg)
         \/ ~o.bad /\ o.awaits = Nothing /\ arg = "--help" /\ p = [o EXCEPT !.help = TRUE]
         \/ /\ ~o.bad /\ o.awaits = Nothing /\ arg = "--interactive"
            /\ p = [o EXCEPT !.interactive = TRUE]
         \/ ~o.bad /\ o.awaits = Nothing /\ arg \in Valued /\ p = [o EXCEPT !.awaits = arg]
         \/ ~o.bad /\ o.awaits = Nothing /\ arg = "--other" /\ p = Bad(o)
         \/ /\ ~o.bad /\ o.awaits = Nothing /\ arg \in Words
            /\ p = IF Len(o.words) = 2 THEN Bad(o) ELSE [o EXCEPT !.words = Append(@, arg)]
<1>1. CASE o.bad
  BY <1>1 DEF TakeArgument
<1>2. CASE ~o.bad /\ o.awaits # Nothing
  BY <1>2 DEF TakeArgument
<1>3. ASSUME ~o.bad, o.awaits = Nothing, arg = "--help"
      PROVE  TakeArgument(o, arg) = [o EXCEPT !.help = TRUE]
  BY <1>3 DEF TakeArgument, Valued, Words
<1>4. ASSUME ~o.bad, o.awaits = Nothing, arg = "--interactive"
      PROVE  TakeArgument(o, arg) = [o EXCEPT !.interactive = TRUE]
  BY <1>4 DEF TakeArgument, Valued, Words
<1>5. ASSUME ~o.bad, o.awaits = Nothing, arg \in Valued
      PROVE  TakeArgument(o, arg) = [o EXCEPT !.awaits = arg]
  BY <1>5 DEF TakeArgument, Valued, Words
<1>6. ASSUME ~o.bad, o.awaits = Nothing, arg = "--other"
      PROVE  TakeArgument(o, arg) = Bad(o)
  BY <1>6 DEF TakeArgument, Valued, Words
<1>7. ASSUME ~o.bad, o.awaits = Nothing, arg \in Words
      PROVE  TakeArgument(o, arg) = IF Len(o.words) = 2 THEN Bad(o)
                                    ELSE [o EXCEPT !.words = Append(@, arg)]
  BY <1>7 DEF TakeArgument, Valued, Words
<1> QED BY <1>1, <1>2, <1>3, <1>4, <1>5, <1>6, <1>7 DEF Arguments

LEMMA TakeArgumentType ==
  ASSUME NEW o \in Options, NEW arg \in Arguments
  PROVE  TakeArgument(o, arg) \in Options
<1>1. /\ Bad(o) \in Options /\ [o EXCEPT !.help = TRUE] \in Options
      /\ [o EXCEPT !.interactive = TRUE] \in Options
  BY DEF Options, Bad
<1>2. arg \in Valued => [o EXCEPT !.awaits = arg] \in Options
  BY DEF Options
<1>3. ASSUME arg \in Words, Len(o.words) # 2
      PROVE  [o EXCEPT !.words = Append(@, arg)] \in Options
  <2> DEFINE w == o.words
             more == Append(w, arg)
  <2>1. w \in Seq(Words) /\ Len(w) \in Nat /\ Len(w) <= 2 /\ Len(w) # 2
    BY <1>3, OptionFields
  <2> HIDE DEF w
  <2>2. more \in Seq(Words) /\ Len(more) = Len(w) + 1
    BY <1>3, <2>1, AppendProperties
  <2> HIDE DEF more
  <2>3. Len(more) <= 2
    <3> DEFINE n == Len(w)
    <3>1. n \in Nat /\ n <= 2 /\ n # 2 /\ Len(more) = n + 1
      BY <2>1, <2>2
    <3> HIDE DEF n
    <3> QED BY <3>1
  <2>4. more \in WordLists
    BY <2>2, <2>3 DEF WordLists
  <2> QED BY <2>4 DEF Options, more, w
<1>4. ASSUME o.awaits # Nothing PROVE Value(o, arg) \in Options
  <2>1. [o.given EXCEPT ![o.awaits] = arg] \in [Valued -> Arguments \cup {Nothing}]
    BY <1>4, OptionFields
  <2>2. [o EXCEPT !.given[o.awaits] = arg, !.awaits = Nothing] \in Options
    BY <2>1 DEF Options
  <2> QED BY <1>1, <2>2 DEF Value
<1> HIDE DEF Options
<1> QED BY <1>1, <1>2, <1>3, <1>4, ArgumentCases

TakeStep == [o \in Options |-> [arg \in Arguments |-> TakeArgument(o, arg)]]

LEMMA TakeMachine ==
  /\ Machine(Options, Arguments, TakeStep)
  /\ \A o \in Options, arg \in Arguments : TakeStep[o][arg] = TakeArgument(o, arg)
BY TakeArgumentType DEF Machine, TakeStep

LEMMA TakeIsRun ==
  ASSUME NEW o \in Options, NEW s \in Seq(Arguments)
  PROVE  Take(o, s) = Run(TakeStep, o, s)
<1> DEFINE IsTaken(h) ==
             h = [i \in 0..Len(s) |-> IF i = 0 THEN o ELSE TakeArgument(h[i - 1], s[i])]
           f == CHOOSE h : IsTaken(h)
<1>1. Len(s) \in Nat /\ \A i \in 1..Len(s) : s[i] \in Arguments
  OBVIOUS
<1>2. PICK g \in [0..Len(s) -> Options] :
        /\ g[0] = o /\ g[Len(s)] = Run(TakeStep, o, s)
        /\ \A i \in 1..Len(s) : g[i] = TakeStep[g[i - 1]][s[i]]
  BY TakeMachine, RunIsDefined
<1>3. \A i \in 1..Len(s) : g[i] = TakeArgument(g[i - 1], s[i])
  <2> TAKE i \in 1..Len(s)
  <2>1. g[i - 1] \in Options /\ s[i] \in Arguments
    BY <1>1
  <2> QED BY <1>2, <2>1, TakeMachine
<1>4. IsTaken(g)
  <2>1. \A i \in 0..Len(s) : g[i] = IF i = 0 THEN o ELSE TakeArgument(g[i - 1], s[i])
    BY <1>1, <1>2, <1>3
  <2> QED BY <2>1
<1>5. \A i \in 0..Len(s) : f[i] = IF i = 0 THEN o ELSE TakeArgument(f[i - 1], s[i])
  <2>1. IsTaken(f)
    BY <1>4
  <2> HIDE DEF f
  <2> QED BY <2>1
<1>6. Take(o, s) = f[Len(s)]
  BY DEF Take
<1> HIDE DEF f
<1>7. f[0] = g[0] /\ \A i \in 1..Len(s) : f[i - 1] = g[i - 1] => f[i] = g[i]
  <2>1. f[0] = g[0]
    BY <1>1, <1>2, <1>5
  <2>2. \A i \in 1..Len(s) : i \in 0..Len(s) /\ i # 0
    BY <1>1
  <2> QED BY <1>3, <1>5, <2>1, <2>2
<1>8. \A i \in 0..Len(s) : f[i] = g[i]
  BY ONLY ZenonT(30), <1>1, <1>7, SameRun
<1> QED BY <1>1, <1>2, <1>6, <1>8

LEMMA TakeType ==
  ASSUME NEW o \in Options, NEW s \in Seq(Arguments)
  PROVE  Take(o, s) \in Options
BY TakeIsRun, TakeMachine, RunType

LEMMA TakeNothing == \A o \in Options : Take(o, <<>>) = o
<1>1. <<>> \in Seq(Arguments)
  OBVIOUS
<1> QED BY <1>1, TakeIsRun, RunOfNothing

LEMMA TakeOneMore ==
  ASSUME NEW o \in Options, NEW s \in Seq(Arguments), NEW arg \in Arguments
  PROVE  Take(o, Append(s, arg)) = TakeArgument(Take(o, s), arg)
<1>1. Append(s, arg) \in Seq(Arguments)
  OBVIOUS
<1>2. /\ Take(o, s) = Run(TakeStep, o, s)
      /\ Take(o, Append(s, arg)) = Run(TakeStep, o, Append(s, arg))
  BY <1>1, TakeIsRun
<1>3. Run(TakeStep, o, Append(s, arg)) = TakeStep[Run(TakeStep, o, s)][arg]
  BY TakeMachine, RunAppend
<1> QED BY <1>2, <1>3, TakeType, TakeMachine

LEMMA TakeOn ==
  ASSUME NEW o \in Options, NEW s \in Seq(Arguments), NEW t \in Seq(Arguments)
  PROVE  Take(o, s \o t) = Take(Take(o, s), t)
<1>1. s \o t \in Seq(Arguments)
  OBVIOUS
<1>2. Run(TakeStep, o, s \o t) = Run(TakeStep, Run(TakeStep, o, s), t)
  BY TakeMachine, RunConcat
<1> QED BY <1>1, <1>2, TakeIsRun, TakeType

LEMMA NoOptionsType == NoOptions \in Options
<1>1. <<>> \in WordLists
  BY DEF WordLists
<1> QED BY <1>1 DEF NoOptions, Options

(* An error stays one.                                                     *)
LEMMA BadStays ==
  ASSUME NEW o \in Options, NEW s \in Seq(Arguments), o.bad
  PROVE  Take(o, s).bad
<1> DEFINE I == {q \in Options : q.bad}
<1>1. ASSUME NEW q \in Options, NEW i \in 1..Len(s), q \in I PROVE TakeStep[q][s[i]] \in I
  <2>1. s[i] \in Arguments /\ TakeStep[q][s[i]] = TakeArgument(q, s[i]) /\ q.bad
    BY <1>1, TakeMachine
  <2>2. TakeArgument(q, s[i]) = q
    BY <2>1 DEF TakeArgument
  <2> QED BY <1>1, <2>1, <2>2
<1>2. o \in I
  OBVIOUS
<1> HIDE DEF I
<1>3. Run(TakeStep, o, s) \in I
  BY <1>1, <1>2, TakeMachine, RunKeeps
<1> QED BY <1>3, TakeIsRun DEF I

(***************************************************************************)
(* Two groups of arguments that cannot stand in one command line, and      *)
(* options m that come of options o and of those q of one more group.      *)
(***************************************************************************)
Settled(o) == ~o.bad /\ o.awaits = Nothing

Clash(o, q) ==
  \/ Len(o.words) + Len(q.words) > 2
  \/ \E v \in Valued : o.given[v] # Nothing /\ q.given[v] # Nothing

Joined(m, o, q) ==
  /\ m.help = (o.help \/ q.help) /\ m.interactive = (o.interactive \/ q.interactive)
  /\ m.words = o.words \o q.words /\ m.awaits = q.awaits
  /\ \A v \in Valued : m.given[v] = IF o.given[v] # Nothing THEN o.given[v] ELSE q.given[v]

Joins(m, o, q) ==
  \/ m.bad /\ (q.bad \/ Clash(o, q))
  \/ ~m.bad /\ ~q.bad /\ ~Clash(o, q) /\ Joined(m, o, q)

LEMMA NothingIsNoArgument == Nothing \notin Arguments
BY DEF Nothing, Arguments, Valued, Words

LEMMA ClashStays ==
  ASSUME NEW o \in Options, NEW q \in Options, NEW arg \in Arguments, Clash(o, q)
  PROVE  Clash(o, TakeArgument(q, arg))
<1> DEFINE p == TakeArgument(q, arg)
<1>1. Len(o.words) \in Nat /\ Len(q.words) \in Nat /\ q.words \in Seq(Words)
  BY OptionFields, LenProperties
<1>2. ASSUME p.words = q.words, \A v \in Valued : q.given[v] # Nothing => p.given[v] # Nothing
      PROVE  Clash(o, p)
  BY <1>2 DEF Clash
<1>3. ASSUME q.awaits # Nothing PROVE Clash(o, Value(q, arg))
  <2>1. CASE q.given[q.awaits] # Nothing
    <3>1. Bad(q).words = q.words /\ Bad(q).given = q.given
      BY DEF Bad, Options
    <3> QED BY <2>1, <3>1 DEF Value, Clash
  <2>2. CASE q.given[q.awaits] = Nothing
    <3> DEFINE r == [q EXCEPT !.given[q.awaits] = arg, !.awaits = Nothing]
    <3>1. r.words = q.words /\ \A v \in Valued : v # q.awaits => r.given[v] = q.given[v]
      BY DEF Options
    <3>2. \A v \in Valued : q.given[v] # Nothing => r.given[v] # Nothing
      BY <2>2, <3>1
    <3>3. Value(q, arg) = r
      BY <2>2 DEF Value
    <3> HIDE DEF r
    <3> QED BY <3>1, <3>2, <3>3 DEF Clash
  <2> QED BY <2>1, <2>2
<1>4. ASSUME NEW r \in {Bad(q), [q EXCEPT !.help = TRUE], [q EXCEPT !.interactive = TRUE],
                        [q EXCEPT !.awaits = arg]}
      PROVE  Clash(o, r)
  <2>1. r.words = q.words /\ r.given = q.given
    BY <1>4 DEF Bad, Options
  <2> QED BY <2>1 DEF Clash
<1>5. ASSUME arg \in Words PROVE Clash(o, [q EXCEPT !.words = Append(@, arg)])
  <2> DEFINE r == [q EXCEPT !.words = Append(@, arg)]
  <2>1. r.words = Append(q.words, arg) /\ r.given = q.given
    BY DEF Options
  <2>2. Len(r.words) = Len(q.words) + 1
    BY <1>1, <1>5, <2>1
  <2> HIDE DEF r
  <2>3. Len(o.words) + Len(q.words) > 2 => Len(o.words) + Len(r.words) > 2
    <3> DEFINE a == Len(o.words)
               b == Len(q.words)
               c == Len(r.words)
    <3>1. a \in Nat /\ b \in Nat /\ c = b + 1
      BY <1>1, <2>2
    <3> HIDE DEF a, b, c
    <3>2. a + b > 2 => a + c > 2
      BY <3>1
    <3> QED BY <3>2 DEF a, b, c
  <2> QED BY <2>1, <2>3 DEF Clash, r
<1> QED BY <1>3, <1>4, <1>5, ArgumentCases

LEMMA JoinedStep ==
  ASSUME NEW o \in Options, NEW m \in Options, NEW q \in Options, NEW arg \in Arguments,
         Settled(o), ~m.bad, ~q.bad, ~Clash(o, q), Joined(m, o, q)
  PROVE  Joins(TakeArgument(m, arg), o, TakeArgument(q, arg))
<1>1. /\ o.words \in Seq(Words) /\ q.words \in Seq(Words) /\ m.words = o.words \o q.words
      /\ Len(o.words) \in Nat /\ Len(q.words) \in Nat
      /\ Len(m.words) = Len(o.words) + Len(q.words) /\ Len(m.words) <= 2
  <2>1. o.words \in Seq(Words) /\ q.words \in Seq(Words) /\ m.words = o.words \o q.words
        /\ Len(o.words) \in Nat /\ Len(q.words) \in Nat
    BY OptionFields DEF Joined
  <2>2. Len(m.words) = Len(o.words) + Len(q.words)
    BY ONLY <2>1, ConcatProperties
  <2>3. Len(m.words) <= 2
    BY OptionFields
  <2> QED BY <2>1, <2>2, <2>3
<1>2. /\ Bad(m).bad = TRUE /\ Bad(q).bad = TRUE
      /\ Bad(m) \in Options /\ Bad(q) \in Options
  BY DEF Bad, Options
<1>3. m.awaits = q.awaits /\ q.awaits \in Valued \cup {Nothing}
  BY OptionFields DEF Joined
<1>4. CASE q.awaits # Nothing
  <2> DEFINE v == q.awaits
             M == [m EXCEPT !.given[m.awaits] = arg, !.awaits = Nothing]
             Q == [q EXCEPT !.given[q.awaits] = arg, !.awaits = Nothing]
  <2>1. TakeArgument(m, arg) = Value(m, arg) /\ TakeArgument(q, arg) = Value(q, arg)
    BY <1>3, <1>4 DEF TakeArgument
  <2>2. v \in Valued /\ arg # Nothing
    BY <1>3, <1>4, NothingIsNoArgument
  <2>3. /\ M.bad = m.bad /\ M.help = m.help /\ M.interactive = m.interactive
        /\ M.words = m.words /\ M.awaits = Nothing
        /\ M.given[v] = arg /\ \A u \in Valued : u # v => M.given[u] = m.given[u]
    BY <1>3, <2>2 DEF Options
  <2>4. /\ Q.bad = q.bad /\ Q.help = q.help /\ Q.interactive = q.interactive
        /\ Q.words = q.words /\ Q.awaits = Nothing
        /\ Q.given[v] = arg /\ \A u \in Valued : u # v => Q.given[u] = q.given[u]
    BY <2>2 DEF Options
  <2>5. /\ Value(m, arg) = IF m.given[v] # Nothing THEN Bad(m) ELSE M
        /\ Value(q, arg) = IF q.given[v] # Nothing THEN Bad(q) ELSE Q
    BY <1>3 DEF Value
  <2>6. m.given[v] = IF o.given[v] # Nothing THEN o.given[v] ELSE q.given[v]
    BY <2>2 DEF Joined
  <2> HIDE DEF M, Q, v
  <2>7. CASE q.given[v] # Nothing
    <3>1. m.given[v] # Nothing
      BY <2>6, <2>7
    <3> QED BY <1>2, <2>1, <2>5, <2>7, <3>1 DEF Joins
  <2>8. CASE q.given[v] = Nothing /\ o.given[v] # Nothing
    <3>1. Clash(o, Q)
      BY <2>2, <2>4, <2>8 DEF Clash
    <3> QED BY <1>2, <2>1, <2>5, <2>6, <2>8, <3>1 DEF Joins
  <2>9. CASE q.given[v] = Nothing /\ o.given[v] = Nothing
    <3>1. ~Clash(o, Q)
      BY <2>4, <2>9 DEF Clash
    <3>2. Joined(M, o, Q)
      <4>1. \A u \in Valued : M.given[u] = IF o.given[u] # Nothing THEN o.given[u] ELSE Q.given[u]
        BY <2>3, <2>4, <2>9 DEF Joined
      <4> QED BY <2>3, <2>4, <4>1 DEF Joined
    <3>3. ~M.bad /\ ~Q.bad
      BY <2>3, <2>4
    <3> QED BY <2>1, <2>5, <2>6, <2>9, <3>1, <3>2, <3>3 DEF Joins
  <2> QED BY <2>7, <2>8, <2>9
<1>5. CASE q.awaits = Nothing
  <2>0. ~m.bad /\ ~q.bad /\ m.awaits = Nothing /\ q.awaits = Nothing
    BY <1>3, <1>5
  <2>1. CASE arg = "--help"
    <3> DEFINE M == [m EXCEPT !.help = TRUE]
               Q == [q EXCEPT !.help = TRUE]
    <3>1. TakeArgument(m, arg) = M /\ TakeArgument(q, arg) = Q
      BY <2>0, <2>1 DEF TakeArgument, Valued, Words
    <3>2. /\ M.bad = m.bad /\ M.help = TRUE /\ M.interactive = m.interactive
          /\ M.words = m.words /\ M.awaits = m.awaits /\ M.given = m.given
          /\ Q.bad = q.bad /\ Q.help = TRUE /\ Q.interactive = q.interactive
          /\ Q.words = q.words /\ Q.awaits = q.awaits /\ Q.given = q.given
      BY DEF Options
    <3> HIDE DEF M, Q
    <3> QED BY <3>1, <3>2 DEF Joins, Joined, Clash
  <2>2. CASE arg = "--interactive"
    <3> DEFINE M == [m EXCEPT !.interactive = TRUE]
               Q == [q EXCEPT !.interactive = TRUE]
    <3>1. TakeArgument(m, arg) = M /\ TakeArgument(q, arg) = Q
      BY <2>0, <2>2 DEF TakeArgument, Valued, Words
    <3>2. /\ M.bad = m.bad /\ M.help = m.help /\ M.interactive = TRUE
          /\ M.words = m.words /\ M.awaits = m.awaits /\ M.given = m.given
          /\ Q.bad = q.bad /\ Q.help = q.help /\ Q.interactive = TRUE
          /\ Q.words = q.words /\ Q.awaits = q.awaits /\ Q.given = q.given
      BY DEF Options
    <3> HIDE DEF M, Q
    <3> QED BY <3>1, <3>2 DEF Joins, Joined, Clash
  <2>3. CASE arg \in Valued
    <3> DEFINE M == [m EXCEPT !.awaits = arg]
               Q == [q EXCEPT !.awaits = arg]
    <3>1. TakeArgument(m, arg) = M /\ TakeArgument(q, arg) = Q
      BY <2>0, <2>3 DEF TakeArgument, Valued, Words
    <3>2. /\ M.bad = m.bad /\ M.help = m.help /\ M.interactive = m.interactive
          /\ M.words = m.words /\ M.awaits = arg /\ M.given = m.given
          /\ Q.bad = q.bad /\ Q.help = q.help /\ Q.interactive = q.interactive
          /\ Q.words = q.words /\ Q.awaits = arg /\ Q.given = q.given
      BY DEF Options
    <3> HIDE DEF M, Q
    <3> QED BY <3>1, <3>2 DEF Joins, Joined, Clash
  <2>4. CASE arg = "--other"
    <3>1. TakeArgument(m, arg) = Bad(m) /\ TakeArgument(q, arg) = Bad(q)
      BY <2>0, <2>4 DEF TakeArgument, Valued, Words
    <3> QED BY <1>2, <3>1 DEF Joins
  <2>5. CASE arg \in Words
    <3> DEFINE M == [m EXCEPT !.words = Append(@, arg)]
               Q == [q EXCEPT !.words = Append(@, arg)]
    <3>1. /\ TakeArgument(m, arg) = IF Len(m.words) = 2 THEN Bad(m) ELSE M
          /\ TakeArgument(q, arg) = IF Len(q.words) = 2 THEN Bad(q) ELSE Q
      BY <2>0, <2>5, ArgumentCases DEF TakeArgument, Valued, Words
    <3>2. /\ M.bad = m.bad /\ M.help = m.help /\ M.interactive = m.interactive
          /\ M.words = Append(m.words, arg) /\ M.awaits = m.awaits /\ M.given = m.given
          /\ Q.bad = q.bad /\ Q.help = q.help /\ Q.interactive = q.interactive
          /\ Q.words = Append(q.words, arg) /\ Q.awaits = q.awaits /\ Q.given = q.given
      BY DEF Options
    <3>3. Append(m.words, arg) = o.words \o Append(q.words, arg)
      <4>1. /\ Append(m.words, arg) = m.words \o <<arg>>
            /\ Append(q.words, arg) = q.words \o <<arg>>
        BY SMTT(30), <2>5, OptionFields, AppendIsConcat
      <4>2. <<arg>> \in Seq(Words)
        BY <2>5
      <4>3. (o.words \o q.words) \o <<arg>> = o.words \o (q.words \o <<arg>>)
        <5> DEFINE u == o.words
                   v == q.words
                   x == <<arg>>
        <5>1. u \in Seq(Words) /\ v \in Seq(Words) /\ x \in Seq(Words)
          BY <1>1, <4>2
        <5> HIDE DEF u, v, x
        <5>2. (u \o v) \o x = u \o (v \o x)
          BY <5>1, ConcatAssociative
        <5> QED BY <5>2 DEF u, v, x
      <4> QED BY <1>1, <4>1, <4>3
    <3>4. Len(Append(q.words, arg)) = Len(q.words) + 1
      BY <1>1, <2>5
    <3> HIDE DEF M, Q
    <3>5. CASE Len(m.words) = 2
      <4>1. CASE Len(q.words) = 2
        BY <1>2, <3>1, <3>5, <4>1 DEF Joins
      <4>2. CASE Len(q.words) # 2
        <5>1. Len(o.words) + Len(Q.words) > 2
          <6> DEFINE a == Len(o.words)
                     b == Len(q.words)
                     c == Len(Q.words)
          <6>1. a \in Nat /\ b \in Nat /\ c = b + 1 /\ a + b = 2
            BY <1>1, <3>2, <3>4, <3>5
          <6> HIDE DEF a, b, c
          <6>2. a + c > 2
            BY <6>1
          <6> QED BY <6>2 DEF a, c
        <5>2. Clash(o, Q)
          BY <5>1 DEF Clash
        <5> QED BY <1>2, <3>1, <3>5, <4>2, <5>2 DEF Joins
      <4> QED BY <4>1, <4>2
    <3>6. CASE Len(m.words) # 2
      <4>1. Len(q.words) # 2 /\ ~(Len(o.words) + Len(Q.words) > 2)
        <5> DEFINE a == Len(o.words)
                   b == Len(q.words)
                   c == Len(Q.words)
                   d == Len(m.words)
        <5>1. a \in Nat /\ b \in Nat /\ c = b + 1 /\ d = a + b /\ d <= 2 /\ d # 2
          BY <1>1, <3>2, <3>4, <3>6
        <5> HIDE DEF a, b, c, d
        <5>2. b # 2 /\ ~(a + c > 2)
          BY <5>1
        <5> QED BY <5>2 DEF a, b, c
      <4>2. ~Clash(o, Q)
        BY <3>2, <4>1 DEF Clash
      <4>3. Joined(M, o, Q)
        BY <3>2, <3>3 DEF Joined
      <4> QED BY <3>1, <3>2, <3>6, <4>1, <4>2, <4>3 DEF Joins
    <3> QED BY <3>5, <3>6
  <2> QED BY <2>1, <2>2, <2>3, <2>4, <2>5 DEF Arguments
<1> QED BY <1>4, <1>5

(* A group of arguments does to options looked at before what it does by   *)
(* itself, unless the two clash.                                           *)
LEMMA GroupsJoin ==
  ASSUME NEW o \in Options, Settled(o), NEW s \in Seq(Arguments)
  PROVE  Joins(Take(o, s), o, Take(NoOptions, s))
<1> DEFINE part(i) == SubSeq(s, 1, i)
           S == {i \in 0..Len(s) : Joins(Take(o, part(i)), o, Take(NoOptions, part(i)))}
<1>1. Len(s) \in Nat
  OBVIOUS
<1>2. 0 \in S
  <2>1. part(0) = <<>> /\ 0 \in 0..Len(s)
    BY <1>1
  <2>2. Take(o, part(0)) = o /\ Take(NoOptions, part(0)) = NoOptions
    BY <2>1, TakeNothing, NoOptionsType
  <2>3. /\ NoOptions.bad = FALSE /\ NoOptions.help = FALSE /\ NoOptions.interactive = FALSE
        /\ NoOptions.words = <<>> /\ NoOptions.awaits = Nothing
        /\ \A v \in Valued : NoOptions.given[v] = Nothing
    BY DEF NoOptions
  <2>4. Joins(o, o, NoOptions)
    <3>1. o.words \o <<>> = o.words /\ Len(<<>>) = 0
      BY OptionFields, ConcatEmptySeq
    <3>2. Len(o.words) \in Nat /\ Len(o.words) <= 2
      BY OptionFields
    <3>3. ~Clash(o, NoOptions)
      BY <2>3, <3>1, <3>2 DEF Clash
    <3>4. Joined(o, o, NoOptions)
      <4>1. o.help \in BOOLEAN /\ o.interactive \in BOOLEAN
        BY OptionFields
      <4>2. o.help = (o.help \/ NoOptions.help)
            /\ o.interactive = (o.interactive \/ NoOptions.interactive)
        BY <2>3, <4>1
      <4>3. o.words = o.words \o NoOptions.words /\ o.awaits = NoOptions.awaits
        BY <2>3, <3>1 DEF Settled
      <4>4. \A v \in Valued : o.given[v] = IF o.given[v] # Nothing THEN o.given[v]
                                           ELSE NoOptions.given[v]
        BY <2>3
      <4> QED BY <4>2, <4>3, <4>4 DEF Joined
    <3> QED BY <2>3, <3>3, <3>4 DEF Joins, Settled
  <2> QED BY <2>1, <2>2, <2>4
<1>3. ASSUME NEW i \in 1..Len(s), i - 1 \in S PROVE i \in S
  <2> DEFINE t == part(i - 1)
             arg == s[i]
             m == Take(o, t)
             q == Take(NoOptions, t)
  <2>1. t \in Seq(Arguments) /\ arg \in Arguments /\ part(i) = Append(t, arg) /\ i \in 0..Len(s)
    BY PrefixGrows
  <2>2. Joins(m, o, q)
    BY <1>3
  <2> HIDE DEF t, arg, part
  <2>3. m \in Options /\ q \in Options
    BY <2>1, TakeType, NoOptionsType
  <2>4. /\ Take(o, Append(t, arg)) = TakeArgument(m, arg)
        /\ Take(NoOptions, Append(t, arg)) = TakeArgument(q, arg)
    BY <2>1, TakeOneMore, NoOptionsType
  <2> HIDE DEF m, q
  <2>5. Joins(TakeArgument(m, arg), o, TakeArgument(q, arg))
    <3>1. CASE m.bad /\ q.bad
      <4>1. TakeArgument(m, arg) = m /\ TakeArgument(q, arg) = q
        BY <3>1 DEF TakeArgument
      <4> QED BY <2>2, <4>1
    <3>2. CASE m.bad /\ ~q.bad
      <4>1. TakeArgument(m, arg) = m /\ Clash(o, q)
        BY <2>2, <3>2 DEF TakeArgument, Joins
      <4>2. Clash(o, TakeArgument(q, arg))
        BY <2>1, <2>3, <4>1, ClashStays
      <4> QED BY <3>2, <4>1, <4>2 DEF Joins
    <3>3. CASE ~m.bad
      <4>1. ~q.bad /\ ~Clash(o, q) /\ Joined(m, o, q)
        BY <2>2, <3>3 DEF Joins
      <4> QED BY <2>1, <2>3, <3>3, <4>1, JoinedStep
    <3> QED BY <3>1, <3>2, <3>3
  <2> QED BY <2>1, <2>4, <2>5 DEF m, q
<1>4. \A i \in 0..Len(s) : i \in S
  <2> HIDE DEF S
  <2> QED BY <1>1, <1>2, <1>3, PlaceByPlace
<1>5. part(Len(s)) = s /\ Len(s) \in S
  BY <1>1, <1>4
<1> QED BY <1>5

(* Two groups behind o: what is wrong with them, and what they make of it, *)
(* in the one order or the other.                                          *)
Wrong(o, q, p) ==
  \/ q.bad \/ p.bad
  \/ Len(o.words) + Len(q.words) + Len(p.words) > 2
  \/ \E v \in Valued : \/ o.given[v] # Nothing /\ q.given[v] # Nothing
                       \/ o.given[v] # Nothing /\ p.given[v] # Nothing
                       \/ q.given[v] # Nothing /\ p.given[v] # Nothing

BothJoined(a, o, q, p) ==
  /\ a.help = (o.help \/ q.help \/ p.help)
  /\ a.interactive = (o.interactive \/ q.interactive \/ p.interactive)
  /\ a.words = (o.words \o q.words) \o p.words /\ a.awaits = Nothing
  /\ \A v \in Valued : a.given[v] = IF o.given[v] # Nothing THEN o.given[v]
                                    ELSE IF q.given[v] # Nothing THEN q.given[v]
                                    ELSE p.given[v]

LEMMA ThreeLengths ==
  ASSUME NEW o \in Options, NEW q \in Options, NEW p \in Options, NEW m \in Options
  PROVE  /\ Len(o.words) + Len(q.words) > 2 => Len(o.words) + Len(q.words) + Len(p.words) > 2
         /\ m.words = o.words \o q.words =>
              Len(m.words) + Len(p.words) = Len(o.words) + Len(q.words) + Len(p.words)
         /\ Len(o.words) + Len(q.words) + Len(p.words) = Len(o.words) + Len(p.words) + Len(q.words)
<1> DEFINE a == Len(o.words)
           b == Len(q.words)
           c == Len(p.words)
           d == Len(m.words)
<1>1. a \in Nat /\ b \in Nat /\ c \in Nat /\ d \in Nat
  BY OptionFields
<1>2. ASSUME m.words = o.words \o q.words PROVE d = a + b
  <2> DEFINE u == o.words
             v == q.words
  <2>1. u \in Seq(Words) /\ v \in Seq(Words)
    BY OptionFields
  <2> HIDE DEF u, v
  <2>2. Len(u \o v) = Len(u) + Len(v)
    BY <2>1, ConcatProperties
  <2> QED BY <1>2, <2>2 DEF u, v
<1> DEFINE joined == m.words = o.words \o q.words
<1> HIDE DEF a, b, c, d, joined
<1>3. /\ a + b > 2 => a + b + c > 2
      /\ joined => d + c = a + b + c
      /\ a + b + c = a + c + b
  <2>1. joined => d = a + b
    BY <1>2 DEF joined
  <2> QED BY <1>1, <2>1
<1> QED BY <1>3 DEF a, b, c, d, joined

LEMMA SecondGroup ==
  ASSUME NEW o \in Options, Settled(o), NEW s \in Seq(Arguments), NEW t \in Seq(Arguments),
         Closed(s), Closed(t)
  PROVE  LET a == Take(Take(o, s), t)
             q == Take(NoOptions, s)
             p == Take(NoOptions, t)
         IN  \/ a.bad /\ Wrong(o, q, p)
             \/ ~a.bad /\ ~Wrong(o, q, p) /\ BothJoined(a, o, q, p)
<1> DEFINE m == Take(o, s)
           a == Take(m, t)
           q == Take(NoOptions, s)
           p == Take(NoOptions, t)
<1>1. m \in Options /\ a \in Options /\ q \in Options /\ p \in Options
  BY TakeType, NoOptionsType
<1>2. Joins(m, o, q) /\ (q.bad \/ q.awaits = Nothing) /\ (p.bad \/ p.awaits = Nothing)
  BY GroupsJoin DEF Closed
<1>3. m.bad => a.bad
  BY <1>1, BadStays
<1>4. Settled(m) => Joins(a, m, p)
  BY <1>1, GroupsJoin
<1> HIDE DEF m, a, q, p
<1>5. CASE m.bad
  <2>1. q.bad \/ Clash(o, q)
    BY <1>2, <1>5 DEF Joins
  <2>2. Wrong(o, q, p)
    BY <1>1, <2>1, ThreeLengths DEF Clash, Wrong
  <2> QED BY <1>3, <1>5, <2>2 DEF a, m, q, p
<1>6. CASE ~m.bad
  <2>1. ~q.bad /\ ~Clash(o, q) /\ Joined(m, o, q)
    BY <1>2, <1>6 DEF Joins
  <2>2. Settled(m)
    BY <1>2, <1>6, <2>1 DEF Settled, Joined
  <2>3. Joins(a, m, p)
    BY <1>4, <2>2
  <2>4. Len(m.words) + Len(p.words) = Len(o.words) + Len(q.words) + Len(p.words)
    BY <1>1, <2>1, ThreeLengths DEF Joined
  <2>5. \A v \in Valued : m.given[v] # Nothing <=> o.given[v] # Nothing \/ q.given[v] # Nothing
    BY <2>1 DEF Joined
  <2>6. \A v \in Valued : ~(o.given[v] # Nothing /\ q.given[v] # Nothing)
    BY <2>1 DEF Clash
  <2>7. Wrong(o, q, p) <=> p.bad \/ Clash(m, p)
    BY <2>1, <2>4, <2>5, <2>6 DEF Wrong, Clash
  <2>8. CASE a.bad
    BY <2>3, <2>7, <2>8 DEF Joins, a, m, q, p
  <2>9. CASE ~a.bad
    <3>1. ~p.bad /\ ~Clash(m, p) /\ Joined(a, m, p)
      BY <2>3, <2>9 DEF Joins
    <3>2. BothJoined(a, o, q, p)
      <4>1. \A v \in Valued : a.given[v] = IF o.given[v] # Nothing THEN o.given[v]
                                           ELSE IF q.given[v] # Nothing THEN q.given[v]
                                           ELSE p.given[v]
        BY <2>1, <3>1 DEF Joined
      <4>2. a.words = (o.words \o q.words) \o p.words /\ a.awaits = Nothing
        BY <1>2, <2>1, <3>1 DEF Joined
      <4>3. /\ a.help = (m.help \/ p.help) /\ m.help = (o.help \/ q.help)
            /\ a.interactive = (m.interactive \/ p.interactive)
            /\ m.interactive = (o.interactive \/ q.interactive)
        BY <2>1, <3>1 DEF Joined
      <4>4. a.help = (o.help \/ q.help \/ p.help)
            /\ a.interactive = (o.interactive \/ q.interactive \/ p.interactive)
        BY <4>3, Zenon
      <4> QED BY <4>1, <4>2, <4>4 DEF BothJoined
    <3> QED BY <2>7, <2>9, <3>1, <3>2 DEF a, m, q, p
  <2> QED BY <2>8, <2>9
<1> QED BY <1>5, <1>6

Alike(a, b) == (a.bad /\ b.bad) \/ a = b

LEMMA WrongEitherWay ==
  ASSUME NEW o \in Options, NEW q \in Options, NEW p \in Options
  PROVE  Wrong(o, q, p) <=> Wrong(o, p, q)
<1>1. Len(o.words) + Len(q.words) + Len(p.words) = Len(o.words) + Len(p.words) + Len(q.words)
  BY ZenonT(30), ThreeLengths
<1> QED BY <1>1 DEF Wrong

LEMMA GroupsCommute ==
  ASSUME NEW o \in Options, o.bad \/ o.awaits = Nothing, NEW s \in Seq(Arguments),
         NEW t \in Seq(Arguments), Closed(s), Closed(t), ~(HasWords(s) /\ HasWords(t))
  PROVE  Alike(Take(Take(o, s), t), Take(Take(o, t), s))
<1> DEFINE a == Take(Take(o, s), t)
           b == Take(Take(o, t), s)
           q == Take(NoOptions, s)
           p == Take(NoOptions, t)
<1>1. /\ Take(o, s) \in Options /\ Take(o, t) \in Options
      /\ a \in Options /\ b \in Options /\ q \in Options /\ p \in Options
  BY TakeType, NoOptionsType
<1>2. CASE o.bad
  <2>1. Take(o, s).bad /\ Take(o, t).bad
    BY <1>2, BadStays
  <2>2. a.bad /\ b.bad
    BY <1>1, <2>1, BadStays
  <2> QED BY <2>2 DEF Alike
<1>3. CASE ~o.bad
  <2>1. Settled(o)
    BY <1>3 DEF Settled
  <2>2. /\ (a.bad /\ Wrong(o, q, p)) \/ (~a.bad /\ ~Wrong(o, q, p) /\ BothJoined(a, o, q, p))
        /\ (b.bad /\ Wrong(o, p, q)) \/ (~b.bad /\ ~Wrong(o, p, q) /\ BothJoined(b, o, p, q))
    BY <2>1, SecondGroup
  <2>3. q.words = <<>> \/ p.words = <<>>
    BY DEF HasWords
  <2> HIDE DEF a, b, q, p
  <2>4. Wrong(o, q, p) <=> Wrong(o, p, q)
    BY <1>1, WrongEitherWay
  <2>5. CASE Wrong(o, q, p)
    BY <2>2, <2>4, <2>5 DEF Alike, a, b
  <2>6. CASE ~Wrong(o, q, p)
    <3>1. /\ ~a.bad /\ ~b.bad /\ BothJoined(a, o, q, p) /\ BothJoined(b, o, p, q)
      BY <2>2, <2>4, <2>6
    <3>2. a.bad = b.bad
      BY <1>1, <3>1 DEF Options
    <3>3. a.help = b.help /\ a.interactive = b.interactive
      <4>1. /\ a.help = (o.help \/ q.help \/ p.help) /\ b.help = (o.help \/ p.help \/ q.help)
            /\ a.interactive = (o.interactive \/ q.interactive \/ p.interactive)
            /\ b.interactive = (o.interactive \/ p.interactive \/ q.interactive)
        BY <3>1 DEF BothJoined
      <4>2. /\ (o.help \/ q.help \/ p.help) <=> (o.help \/ p.help \/ q.help)
            /\ (o.interactive \/ q.interactive \/ p.interactive)
                 <=> (o.interactive \/ p.interactive \/ q.interactive)
        OBVIOUS
      <4> QED BY <4>1, <4>2
    <3>4. a.words = b.words
      <4> DEFINE u == o.words
                 v == q.words
                 w == p.words
      <4>1. u \in Seq(Words) /\ v \in Seq(Words) /\ w \in Seq(Words) /\ (v = <<>> \/ w = <<>>)
        BY <1>1, <2>3, OptionFields
      <4>2. a.words = (u \o v) \o w /\ b.words = (u \o w) \o v
        BY <3>1 DEF BothJoined
      <4> HIDE DEF u, v, w
      <4>3. u \o <<>> = u
        BY <4>1, ConcatEmptySeq
      <4>4. u \o v \in Seq(Words) /\ u \o w \in Seq(Words)
        BY <4>1, ConcatProperties
      <4>5. (u \o v) \o <<>> = u \o v /\ (u \o w) \o <<>> = u \o w
        BY <4>4, ConcatEmptySeq
      <4> QED BY <4>1, <4>2, <4>3, <4>5
    <3>5. a.awaits = b.awaits
      BY <3>1 DEF BothJoined
    <3>6. a.given = b.given
      <4>1. \A v \in Valued : a.given[v] = b.given[v]
        <5>1. \A v \in Valued : ~(q.given[v] # Nothing /\ p.given[v] # Nothing)
          BY <2>6 DEF Wrong
        <5> QED BY <3>1, <5>1 DEF BothJoined
      <4>2. a.given \in [Valued -> Arguments \cup {Nothing}]
            /\ b.given \in [Valued -> Arguments \cup {Nothing}]
        BY <1>1, OptionFields
      <4> QED BY <4>1, <4>2
    <3>7. a = b
      BY <1>1, <3>2, <3>3, <3>4, <3>5, <3>6, SameOptions
    <3> QED BY <3>7 DEF Alike, a, b
  <2> QED BY <2>5, <2>6
<1> QED BY <1>2, <1>3

LEMMA OrderOfGroups ==
  ASSUME NEW args \in Seq(Arguments)
  PROVE  OrderIsFreeIn(args)
<1> SUFFICES ASSUME NEW i \in 0..Len(args), NEW j \in i..Len(args), NEW k \in j..Len(args),
                    Closed(SubSeq(args, 1, i)), Closed(SubSeq(args, i + 1, j)),
                    Closed(SubSeq(args, j + 1, k)),
                    ~(HasWords(SubSeq(args, i + 1, j)) /\ HasWords(SubSeq(args, j + 1, k)))
             PROVE  Outcome(SubSeq(args, 1, i) \o SubSeq(args, j + 1, k)
                              \o SubSeq(args, i + 1, j) \o SubSeq(args, k + 1, Len(args)))
                      = Outcome(args)
  BY DEF OrderIsFreeIn
<1> DEFINE n == Len(args)
           before == SubSeq(args, 1, i)
           first  == SubSeq(args, i + 1, j)
           second == SubSeq(args, j + 1, k)
           behind == SubSeq(args, k + 1, n)
           o == Take(NoOptions, before)
<1>1. n \in Nat /\ i \in Int /\ j \in Int /\ k \in Int /\ 0 <= i /\ i <= j /\ j <= k /\ k <= n
  BY LenProperties
<1>2. /\ before \in Seq(Arguments) /\ first \in Seq(Arguments)
      /\ second \in Seq(Arguments) /\ behind \in Seq(Arguments)
  <2>1. ASSUME NEW x \in Int, NEW y \in Int, 1 <= x, y <= n PROVE SubSeq(args, x, y) \in Seq(Arguments)
    <3>1. \A l \in x..y : args[l] \in Arguments
      BY <1>1, <2>1
    <3> QED BY <3>1, SubSeqProperties
  <2> HIDE DEF n
  <2> QED BY <1>1, <2>1
<1>3. args = ((before \o first) \o second) \o behind
  <2>1. before \o first = SubSeq(args, 1, j)
    <3>1. 1 \in 1..n + 1 /\ i \in 1 - 1..n /\ j \in i..n
      BY <1>1
    <3> QED BY <3>1, ConcatAdjacentSubSeq
  <2>2. SubSeq(args, 1, j) \o second = SubSeq(args, 1, k)
    <3>1. 1 \in 1..n + 1 /\ j \in 1 - 1..n /\ k \in j..n
      BY <1>1
    <3> QED BY <3>1, ConcatAdjacentSubSeq
  <2>3. SubSeq(args, 1, k) \o behind = SubSeq(args, 1, n)
    <3>1. 1 \in 1..n + 1 /\ k \in 1 - 1..n /\ n \in k..n
      BY <1>1
    <3> QED BY <3>1, ConcatAdjacentSubSeq
  <2>4. SubSeq(args, 1, n) = args
    BY SubSeqFull
  <2> QED BY <2>1, <2>2, <2>3, <2>4
<1>4. /\ Closed(before) /\ Closed(first) /\ Closed(second)
      /\ ~(HasWords(first) /\ HasWords(second))
  OBVIOUS
<1> HIDE DEF n, before, first, second, behind
<1>5. ASSUME NEW s \in Seq(Arguments), NEW t \in Seq(Arguments)
      PROVE  Take(NoOptions, ((before \o s) \o t) \o behind) = Take(Take(Take(o, s), t), behind)
  <2>1. before \o s \in Seq(Arguments) /\ (before \o s) \o t \in Seq(Arguments)
    BY <1>2, ConcatProperties
  <2>2. Take(NoOptions, before) = o /\ o \in Options /\ Take(o, s) \in Options
    BY <1>2, TakeType, NoOptionsType
  <2> HIDE DEF o
  <2> DEFINE u == before \o s
             v == u \o t
  <2>3. u \in Seq(Arguments) /\ v \in Seq(Arguments) /\ NoOptions \in Options
    BY <2>1, NoOptionsType
  <2>4. Take(NoOptions, u) = Take(o, s)
    BY <1>2, <2>2, <2>3, TakeOn
  <2> HIDE DEF u
  <2>5. Take(NoOptions, v) = Take(Take(o, s), t)
    BY <2>3, <2>4, TakeOn
  <2> HIDE DEF v
  <2>6. Take(NoOptions, v \o behind) = Take(Take(Take(o, s), t), behind)
    BY <1>2, <2>3, <2>5, TakeOn
  <2> QED BY <2>6 DEF u, v
<1> DEFINE a == Take(Take(o, first), second)
           b == Take(Take(o, second), first)
<1>6. o \in Options /\ (o.bad \/ o.awaits = Nothing) /\ a \in Options /\ b \in Options
  BY <1>2, <1>4, TakeType, NoOptionsType DEF Closed
<1>7. Alike(a, b)
  <2> HIDE DEF o
  <2> QED BY <1>2, <1>4, <1>6, GroupsCommute
<1>8. /\ Take(NoOptions, args) = Take(a, behind)
      /\ Take(NoOptions, ((before \o second) \o first) \o behind) = Take(b, behind)
  BY <1>2, <1>3, <1>5
<1> HIDE DEF a, b, o
<1>9. Alike(Take(a, behind), Take(b, behind))
  BY <1>2, <1>6, <1>7, BadStays DEF Alike
<1>10. \A x, y \in Seq(Arguments) :
         Alike(Take(NoOptions, x), Take(NoOptions, y)) => Outcome(x) = Outcome(y)
  BY DEF Alike, Outcome, ParseOptions
<1>11. ((before \o second) \o first) \o behind \in Seq(Arguments)
  BY <1>2, ConcatProperties
<1>12. Outcome(args) = Outcome(((before \o second) \o first) \o behind)
  BY <1>8, <1>9, <1>10, <1>11
<1> QED BY <1>12 DEF before, first, second, behind, n

(***************************************************************************)
(* Options may be given in any order: what the program makes of its        *)
(* arguments does not change when two neighbouring groups of them change   *)
(* places, unless both hold words (parse_cli_options).                     *)
(***************************************************************************)
THEOREM OptionsInAnyOrder == Spec => []OrderIsFree
<1>1. SessionTypes => OrderIsFree
  BY OrderOfGroups DEF SessionTypes, OrderIsFree
<1> QED BY <1>1, SessionIsKept, PTL
=============================================================================
