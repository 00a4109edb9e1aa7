---------------------------- MODULE CommandLine ----------------------------
(***************************************************************************)
(* The options of the program (parse_cli_options, src/src/main.c:349).  An *)
(* argument is one of the four options, under its short or its long name,  *)
(* another one that begins with a dash, or a word; the value of an option  *)
(* may be any argument.                                                    *)
(***************************************************************************)
EXTENDS Integers, SequencesExt

Valued    == {"--db", "--file"}
Words     == {"a", "b"}
Arguments == {"--help", "--interactive", "--other"} \cup Valued \cup Words
Nothing   == "nothing"

(* `awaits' is the option whose value comes next.                          *)
NoOptions == [bad |-> FALSE, help |-> FALSE, interactive |-> FALSE, words |-> <<>>,
              awaits |-> Nothing, given |-> [option \in Valued |-> Nothing]]

Bad(o) == [o EXCEPT !.bad = TRUE]

\* Mutant: a second --db or --file replaces the first.
LastValue(o, arg) == [o EXCEPT !.given[o.awaits] = arg, !.awaits = Nothing]

Value(o, arg) ==
  IF o.given[o.awaits] # Nothing THEN Bad(o)
  ELSE [o EXCEPT !.given[o.awaits] = arg, !.awaits = Nothing]

TakeArgument(o, arg) ==
  IF o.bad THEN o
  ELSE IF o.awaits # Nothing THEN Value(o, arg)
  ELSE
  CASE arg = "--help"        -> [o EXCEPT !.help = TRUE]
    [] arg = "--interactive" -> [o EXCEPT !.interactive = TRUE]
    [] arg \in Valued        -> [o EXCEPT !.awaits = arg]
    [] arg = "--other"       -> Bad(o)
    [] arg \in Words         -> IF Len(o.words) = 2 THEN Bad(o)
                                ELSE [o EXCEPT !.words = Append(@, arg)]

Take(o, args) ==
  LET after[i \in 0..Len(args)] ==
        IF i = 0 THEN o ELSE TakeArgument(after[i - 1], args[i])
  IN  after[Len(args)]

(* A value comes from an option or from its place among the words, never   *)
(* from both.                                                              *)
Chosen(o, option, place) ==
  IF o.given[option] = Nothing /\ Len(o.words) >= place THEN o.words[place]
                                                        ELSE o.given[option]

Conflict(o) ==
  \/ o.given["--db"] # Nothing /\ Len(o.words) >= 1
  \/ o.given["--file"] # Nothing /\ Len(o.words) = 2
  \/ Chosen(o, "--db", 1) = Nothing
  \/ o.interactive /\ Chosen(o, "--file", 2) # Nothing

ParseOptions(argv) ==
  LET o == Take(NoOptions, argv)
  IN  [result |-> IF o.bad \/ o.awaits # Nothing THEN "error"
                  ELSE IF o.help THEN "help"
                  ELSE IF Conflict(o) THEN "error" ELSE "ok",
       root        |-> Chosen(o, "--db", 1),
       script      |-> Chosen(o, "--file", 2),
       interactive |-> o.interactive]

(* How main reads: `tty' says whether stdin is a terminal.                 *)
ModeOf(options, tty) ==
  IF options.interactive \/ (options.script = Nothing /\ tty)
  THEN IF tty THEN "terminal" ELSE "interactive"
  ELSE IF options.script # Nothing THEN "file" ELSE "stdin"

(***************************************************************************)
(* Properties                                                              *)
(***************************************************************************)
(* Arguments behind which no option waits for its value, or in error.      *)
Closed(args) == LET o == Take(NoOptions, args) IN o.bad \/ o.awaits = Nothing

HasWords(args) == Take(NoOptions, args).words # <<>>

(* What a program makes of its arguments; an error is an error.            *)
Outcome(argv) == LET options == ParseOptions(argv)
                 IN  IF options.result = "ok" THEN options ELSE options.result

(* Two neighbouring groups of arguments may change places, unless both     *)
(* hold words.                                                             *)
OrderIsFreeIn(argv) ==
  \A i \in 0..Len(argv) : \A j \in i..Len(argv) : \A k \in j..Len(argv) :
    LET before == SubSeq(argv, 1, i)
        first  == SubSeq(argv, i + 1, j)
        second == SubSeq(argv, j + 1, k)
        behind == SubSeq(argv, k + 1, Len(argv))
    IN  /\ Closed(before) /\ Closed(first) /\ Closed(second)
        /\ ~(HasWords(first) /\ HasWords(second))
        => Outcome(before \o second \o first \o behind) = Outcome(argv)
=============================================================================
