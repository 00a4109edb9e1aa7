-------------------------------- MODULE Repl --------------------------------
(***************************************************************************)
(* The program around the storage layer (src/src/main.c): how it is        *)
(* started, the interactive session with its buffer and its line editor,   *)
(* the run of a script read whole from a file or from stdin, and the exit  *)
(* status.  Text and statements are those of module Parser.                *)
(***************************************************************************)
EXTENDS Parser, CommandLine, LineEditor

CONSTANTS
  CommandLines, \* arguments the program may be started with
  Lines,        \* what one call of fgets may bring: sequences of kinds
  MaxLines,     \* bound: so many lines are read
  MayFail       \* allocations, reads and terminal modes may fail

ASSUME ReplAssumption ==
  /\ Keys \subseteq Kinds \ {"newline"}
  /\ CommandLines \subseteq Seq(Arguments)
  /\ Lines \subseteq Seq(Kinds) \ {<<>>}
  /\ \A kinds \in Lines : \A i \in DOMAIN kinds :
       kinds[i] = "newline" => i = Len(kinds)  \* fgets stops behind it
  /\ MaxLines \in Nat /\ MayFail \in BOOLEAN

VARIABLES
  argv,      \* the arguments, until they have been looked at
  mode,      \* "terminal" or "interactive", "file" or "stdin"
  pc,        \* "start", "read", "run" or "over"
  buffer,    \* the text gathered so far
  script,    \* the statements still to be run
  status,    \* the exit status
  \* what the properties compare with
  typed,     \* all lines read
  text,      \* all text that ever went into the buffer
  ran,       \* the statements run with success
  clean,     \* every buffer run so far could stand alone (StandsAlone)
  troubled   \* an error was reported

ghosts == <<typed, text, ran, clean, troubled>>
vars   == <<argv, mode, pc, buffer, script, status, ghosts, editor>>

Session == mode \in {"terminal", "interactive"}

Has(s, kind) == \E i \in DOMAIN s : s[i].kind = kind

(* The line read next: kinds put at the places that follow those typed.    *)
LastPlace    == IF typed = <<>> THEN 0 ELSE Last(Last(typed)).at
Place(kinds) == [i \in DOMAIN kinds |-> [kind |-> kinds[i], at |-> LastPlace + i]]

Init == /\ argv \in CommandLines /\ mode = Nothing /\ pc = "start"
        /\ buffer = <<>> /\ script = <<>> /\ status = 0
        /\ EditorInit
        /\ typed = <<>> /\ text = <<>> /\ ran = <<>>
        /\ clean = TRUE /\ troubled = FALSE

End(code) == pc' = "over" /\ status' = code
Go(at)    == pc' = at /\ UNCHANGED status

(***************************************************************************)
(* main                                                                    *)
(***************************************************************************)
Start == /\ pc = "start"
         /\ argv' = <<>>
         /\ LET options == ParseOptions(argv) IN
              \/ /\ options.result = "ok"
                 /\ \E tty \in BOOLEAN : mode' = ModeOf(options, tty)
                 /\ Go("read") /\ UNCHANGED troubled
              \/ /\ options.result = "help"
                 /\ End(0) /\ UNCHANGED <<mode, troubled>>
              \/ /\ options.result = "error"
                 /\ End(2) /\ troubled' = TRUE /\ UNCHANGED mode
         /\ UNCHANGED <<buffer, script, typed, text, ran, clean, editor>>

(***************************************************************************)
(* execute_source_text: all of the text is parsed before any of it runs.   *)
(***************************************************************************)
\* Mutant: the buffer is only cleared after success.
KeepBuffer == /\ troubled' = TRUE /\ UNCHANGED buffer
              /\ IF Session THEN Go("read") ELSE End(1)

(* An error is reported: a session goes on, a script is over.              *)
Complain == /\ troubled' = TRUE /\ buffer' = <<>>
            /\ IF Session THEN Go("read") ELSE End(1)

Execute(source) ==
  LET p == Parse(source) IN
  \/ /\ p.ok
     /\ buffer' = source /\ script' = p.statements
     /\ Go("run")
     /\ UNCHANGED troubled
  \/ /\ ~p.ok \/ MayFail
     /\ Complain
     /\ UNCHANGED script

(* Nothing depends on what stands before or behind the text.               *)
StandsAlone(source) ==
  /\ Read(source).within = "code"
  /\ source[1].kind = "bom" => source = text'

(***************************************************************************)
(* run_interactive.  A line is entered at the terminal or by fgets.        *)
(***************************************************************************)
Enter(line) == /\ pc = "read" /\ Session
               /\ typed' = Append(typed, line)
               /\ history' = HistoryAdd(history, KindsOf(line))
               /\ NewLine
               /\ UNCHANGED <<argv, mode>>

(* Commands are looked for only when nothing has been gathered.            *)
Command(line, word) == buffer = <<>> /\ WithoutNewline(KindsOf(line)) = <<word>>
Sql(line) == ~Command(line, "exit") /\ ~Command(line, "help")

Exit(line) == /\ Enter(line) /\ Command(line, "exit")
              /\ End(0)
              /\ UNCHANGED <<buffer, script, text, ran, clean, troubled>>

Help(line) == /\ Enter(line) /\ Command(line, "help")
              /\ UNCHANGED <<pc, buffer, script, status, text, ran, clean, troubled>>

\* Mutant: each line replaces what was gathered.
GatherLast(line) == /\ Enter(line) /\ Sql(line) /\ ~Has(line, "semicolon")
                    /\ buffer' = line /\ text' = text \o line
                    /\ UNCHANGED <<pc, script, status, ran, clean, troubled>>

Gather(line) == /\ Enter(line) /\ Sql(line) /\ ~Has(line, "semicolon")
                /\ buffer' = buffer \o line /\ text' = text \o line
                /\ UNCHANGED <<pc, script, status, ran, clean, troubled>>

(* strchr finds a semicolon in strings and comments, too.                  *)
Submit(line) == /\ Enter(line) /\ Sql(line) /\ Has(line, "semicolon")
                /\ text' = text \o line
                /\ Execute(buffer \o line)
                /\ clean' = (clean /\ StandsAlone(buffer \o line))
                /\ UNCHANGED ran

(* buffer_append fails.  A line history_add has no room for is not counted *)
(* as read (ReadFails).                                                    *)
NoRoom(line) == /\ Enter(line) /\ Sql(line) /\ MayFail
                /\ End(1) /\ troubled' = TRUE
                /\ UNCHANGED <<buffer, script, text, ran, clean>>

TakeLine(kinds) == LET line == Place(kinds)
                   IN  \/ Exit(line) \/ Help(line) \/ Gather(line)
                       \/ Submit(line) \/ NoRoom(line)

GetLine == mode = "interactive" /\ \E kinds \in Lines : TakeLine(kinds)

(***************************************************************************)
(* The terminal                                                            *)
(***************************************************************************)
PressKey == /\ pc = "read" /\ mode = "terminal"
            /\ EditKey
            /\ UNCHANGED <<argv, mode, pc, buffer, script, status, ghosts>>

(* The return key, or the end of the input behind a line begun.            *)
PressEnter == mode = "terminal" /\ TakeLine(Append(input, "newline"))

(* The terminal cannot be put into raw mode when a line is to be read: the *)
(* session goes on with fgets.                                             *)
FallBack == /\ pc = "read" /\ mode = "terminal" /\ MayFail
            /\ cells = <<>> /\ cursor = Len(history)
            /\ mode' = "interactive"
            /\ UNCHANGED <<argv, pc, buffer, script, status, ghosts, editor>>

EndOfInput == /\ pc = "read" /\ Session /\ input = <<>>
              /\ End(0)
              /\ UNCHANGED <<argv, mode, buffer, script, ghosts, editor>>

(***************************************************************************)
(* A script from a file or from stdin                                      *)
(***************************************************************************)
ReadMore == /\ pc = "read" /\ mode \in {"file", "stdin"}
            /\ \E kinds \in Lines :
                 /\ typed' = Append(typed, Place(kinds))
                 /\ buffer' = buffer \o Place(kinds) /\ text' = text \o Place(kinds)
            /\ UNCHANGED <<argv, mode, pc, script, status, ran, clean, troubled, editor>>

EndOfScript == /\ pc = "read" /\ mode \in {"file", "stdin"}
               /\ IF mode = "stdin" /\ buffer = <<>>
                  THEN Complain /\ UNCHANGED script
                  ELSE Execute(buffer)
               /\ UNCHANGED <<argv, mode, typed, text, ran, clean, editor>>

ReadFails == /\ pc = "read" /\ MayFail
             /\ End(1) /\ troubled' = TRUE
             /\ UNCHANGED <<argv, mode, buffer, script, typed, text, ran, clean, editor>>

(***************************************************************************)
(* The statements of a script, one by one up to the first that fails       *)
(***************************************************************************)
StatementSucceeds == /\ pc = "run" /\ script # <<>>
                     /\ ran' = Append(ran, Head(script)) /\ script' = Tail(script)
                     /\ UNCHANGED <<argv, mode, pc, buffer, status, typed, text,
                                    clean, troubled, editor>>

\* Mutant: the statements behind the one that fails are run.
NextStatement == /\ pc = "run" /\ script # <<>>
                 /\ troubled' = TRUE /\ script' = Tail(script)
                 /\ UNCHANGED <<argv, mode, pc, buffer, status, typed, text, ran,
                                clean, editor>>

StatementFails == /\ pc = "run" /\ script # <<>>
                  /\ Complain /\ script' = <<>>
                  /\ UNCHANGED <<argv, mode, typed, text, ran, clean, editor>>

ScriptDone == /\ pc = "run" /\ script = <<>>
              /\ IF Session THEN Go("read") /\ buffer' = <<>>
                            ELSE End(0) /\ UNCHANGED buffer
              /\ UNCHANGED <<argv, mode, script, ghosts, editor>>

Next ==
  \/ Start
  \/ Len(typed) < MaxLines /\ (GetLine \/ PressKey \/ PressEnter \/ ReadMore)
  \/ FallBack \/ EndOfInput \/ EndOfScript \/ ReadFails
  \/ StatementSucceeds \/ StatementFails \/ ScriptDone

Spec == Init /\ [][Next]_vars

(***************************************************************************)
(* Properties                                                              *)
(***************************************************************************)
(* Every variable has its type; the history keeps to its limit.            *)
EditorTypeOK ==
  /\ history \in Seq(Seq(Kinds)) /\ Len(history) <= HistoryMax
  /\ input \in Seq(Keys) /\ cells \in Seq(Keys \cup {"blank"})
  /\ cursor \in 0..Len(history)

TypeOK ==
  /\ EditorTypeOK
  /\ argv \in Seq(Arguments)
  /\ mode \in {Nothing, "terminal", "interactive", "file", "stdin"}
  /\ pc \in {"start", "read", "run", "over"}
  /\ buffer \in Seq(Piece) /\ text \in Seq(Piece) /\ typed \in Seq(Seq(Piece))
  /\ script \in Seq(Nat \ {0}) /\ ran \in Seq(Nat \ {0})
  /\ status \in {0, 1, 2} /\ clean \in BOOLEAN /\ troubled \in BOOLEAN

(* As long as no error was reported, an interactive session has run what   *)
(* the same text would run as one script: cutting it into buffers at the   *)
(* lines that hold a semicolon makes no difference (main.c:819), unless a   *)
(* buffer ended in the middle of a comment or string that fgets had cut,   *)
(* or one after the first began with a byte order mark, which is skipped   *)
(* there and would be an error within a script.                            *)
InteractiveIsScript ==
  Session /\ ~troubled /\ buffer = <<>> /\ clean =>
    LET p == Parse(text) IN p.ok /\ ran = p.statements

(* Statements run in the order they were typed and none runs twice,        *)
(* whatever failed before (the buffer is cleared in every case).           *)
RunsInOrder == \A i, j \in DOMAIN ran : i < j => ran[i] < ran[j]

(* Arguments in error read nothing; a script that does not parse runs      *)
(* nothing; one that ends with status 0 has run all of its statements, one *)
(* that fails those before the failure (06-cli-ux.md, section 6).          *)
StatusTellsTheRun ==
  /\ status = 2 => typed = <<>> /\ ran = <<>>
  /\ mode \in {"file", "stdin"} /\ pc = "over" =>
       LET p == Parse(text) IN
         /\ status = 0 => p.ok /\ ran = p.statements
         /\ status # 0 => ran = <<>> \/ (p.ok /\ IsStrictPrefix(ran, p.statements))

(* The order of options does not matter (06-cli-ux.md, section 2).         *)
OrderIsFree == pc = "start" => OrderIsFreeIn(argv)

(* A line that was typed or recalled leaves room for the newline and the   *)
(* null byte that Enter puts behind it (main.c:696).                       *)
EnterAlwaysFits == Len(input) + 1 < LineSize

(* What Enter will run is what the screen shows, and nothing else.         *)
ScreenShowsLine ==
  cells = input \o Blanks(Len(cells) - Len(input))

(* All lines that are neither blank nor a repeat of the line before.       *)
Fresh(h, line) == IF line = <<>> \/ (h # <<>> /\ Last(h) = line) THEN h
                                                               ELSE Append(h, line)

AllLines(lines) ==
  LET upTo[i \in 0..Len(lines)] ==
        IF i = 0 THEN <<>> ELSE Fresh(upTo[i - 1], WithoutNewline(KindsOf(lines[i])))
  IN  upTo[Len(lines)]

Latest(s, n) == SubSeq(s, IF Len(s) > n THEN Len(s) - n + 1 ELSE 1, Len(s))

(* The history holds the latest lines that are neither blank nor a repeat  *)
(* of the line before, up to its limit.                                    *)
HistoryIsRecent == Session => history = Latest(AllLines(typed), HistoryMax)
=============================================================================
