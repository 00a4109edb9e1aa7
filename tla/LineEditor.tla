----------------------------- MODULE LineEditor -----------------------------
(***************************************************************************)
(* The line being edited at a terminal and the input history              *)
(* (src/src/main.c:443-529 and 644-742).  The terminal shows one row behind *)
(* the prompt.  The branch that calls a line too long is never taken       *)
(* (EnterAlwaysFits) and no action stands for it.                          *)
(***************************************************************************)
EXTENDS Integers, SequencesExt

CONSTANTS
  Keys,        \* characters that can be typed
  LineSize,    \* INTERACTIVE_LINE_MAX
  HistoryMax   \* HISTORY_MAX_ENTRIES

ASSUME EditorAssumption ==
  /\ LineSize \in Nat /\ LineSize > 2
  /\ HistoryMax \in Nat \ {0}
  /\ "blank" \notin Keys

VARIABLES
  history,   \* lines without their newlines
  input,     \* the line so far
  cursor,    \* the history entry shown, Len(history) for none
  cells      \* the row of the screen behind the prompt

editor == <<history, input, cursor, cells>>

(***************************************************************************)
(* history_add                                                             *)
(***************************************************************************)
\* Mutant: the limit is not looked at.
NeverFull(h, entry) == Append(h, entry)

\* Mutant: the newest entry is dropped instead of the oldest.
KeepOldest(h, entry) == IF Len(h) = HistoryMax THEN h ELSE Append(h, entry)

Remember(h, entry) == IF Len(h) = HistoryMax THEN Append(Tail(h), entry)
                                             ELSE Append(h, entry)

(* A line ends at its newline, if it has one.                              *)
WithoutNewline(kinds) ==
  IF kinds # <<>> /\ Last(kinds) = "newline" THEN Front(kinds) ELSE kinds

Blank(kinds) == WithoutNewline(kinds) = <<>>

HistoryAdd(h, kinds) ==
  LET entry == WithoutNewline(kinds)
  IN  IF Blank(kinds) \/ (h # <<>> /\ Last(h) = entry) THEN h ELSE Remember(h, entry)

(***************************************************************************)
(* read_line_with_history                                                  *)
(***************************************************************************)
(* A new line behind the prompt, after or without an entry for the last.   *)
NewLine == input' = <<>> /\ cells' = <<>> /\ cursor' = Len(history')

EditorInit == history = <<>> /\ input = <<>> /\ cells = <<>> /\ cursor = 0

Blanks(n) == [i \in 1..n |-> "blank"]

\* Mutant: what is left of a longer line is not overwritten.
WrittenBare(old, new) == new

(* render_line_prompt                                                      *)
Written(old, new) ==
  IF Len(old) > Len(new) THEN new \o Blanks(Len(old) - Len(new)) ELSE new

Show(new) ==
  LET written == Written(input, new)
  IN  /\ input' = new
      /\ cells' = written \o SubSeq(cells, Len(written) + 1, Len(cells))
      /\ UNCHANGED history

\* Mutant: there is a place for the terminating null byte, none for the
\* newline.
HasRoomForNull == Len(input) + 1 < LineSize

HasRoom == Len(input) + 2 < LineSize

Type(key) == HasRoom /\ Show(Append(input, key)) /\ UNCHANGED cursor

Backspace == input # <<>> /\ Show(Front(input)) /\ UNCHANGED cursor

Up == /\ cursor > 0
      /\ cursor' = cursor - 1
      /\ Show(history[cursor])

Down == /\ cursor < Len(history)
        /\ cursor' = cursor + 1
        /\ Show(IF cursor' = Len(history) THEN <<>> ELSE history[cursor' + 1])

EditKey == (\E key \in Keys : Type(key)) \/ Backspace \/ Up \/ Down
=============================================================================
