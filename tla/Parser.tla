------------------------------- MODULE Parser -------------------------------
(***************************************************************************)
(* From text to statements (src/src/parser.c): the tokenizer with its      *)
(* strings and comments, the grammar of INSERT and SELECT, and scripts,    *)
(* which are accepted whole or not at all.                                 *)
(*                                                                         *)
(* A text is a sequence of pieces: what the tokenizer and strchr tell      *)
(* apart, with the place at which it was typed.  A statement is known by   *)
(* the place of its first piece.                                           *)
(***************************************************************************)
EXTENDS Integers, SequencesExt

(* Keywords and signs are tokens as they stand; "compare" is any of the    *)
(* five operators.  "exit" and "help" are names to the parser.             *)
Plain == {"insert", "into", "values", "select", "from", "where", "name", "number",
          "comma", "dot", "lparen", "rparen", "star", "compare", "semicolon"}

(* "open" and "close" are the ends of a block comment, "dashes" begin one  *)
(* to the end of the line, no token begins with what is "odd".             *)
Kinds == Plain \cup {"exit", "help", "quote", "newline", "dashes", "open", "close",
                     "bom", "odd"}
Piece == [kind : Kinds, at : Nat \ {0}]

KindsOf(s) == [i \in DOMAIN s |-> s[i].kind]

(***************************************************************************)
(* tokenize_sql.  `within' is what the reader is in the middle of;         *)
(* "quoted" is a quote that ends its string unless another one follows.    *)
(***************************************************************************)
Reader == [within |-> "code", tokens |-> <<>>, ok |-> TRUE]

Token(r, p, type) == [r EXCEPT !.within = "code",
                               !.tokens = Append(@, [type |-> type, at |-> p.at])]

ReadCode(r, p) ==
  CASE p.kind = "newline" -> [r EXCEPT !.within = "code"]
    [] p.kind \in Plain   -> Token(r, p, p.kind)
    [] p.kind \in {"exit", "help"} -> Token(r, p, "name")
    [] p.kind = "quote"  -> [Token(r, p, "string") EXCEPT !.within = "string"]
    [] p.kind = "dashes" -> [r EXCEPT !.within = "line comment"]
    [] p.kind = "open"   -> [r EXCEPT !.within = "block comment"]
    [] p.kind \in {"close", "bom", "odd"} -> [r EXCEPT !.ok = FALSE]

ReadPiece(r, p) ==
  IF ~r.ok THEN r ELSE
  CASE r.within = "code" -> ReadCode(r, p)
    [] r.within = "string" ->
         IF p.kind = "quote" THEN [r EXCEPT !.within = "quoted"] ELSE r
    [] r.within = "quoted" ->
         IF p.kind = "quote" THEN [r EXCEPT !.within = "string"] ELSE ReadCode(r, p)
    [] r.within = "line comment" ->
         IF p.kind = "newline" THEN [r EXCEPT !.within = "code"] ELSE r
    [] r.within = "block comment" ->
         IF p.kind = "close" THEN [r EXCEPT !.within = "code"] ELSE r

Reading(r, s) ==
  LET after[i \in 0..Len(s)] == IF i = 0 THEN r ELSE ReadPiece(after[i - 1], s[i])
  IN  after[Len(s)]

(* A byte order mark in front is skipped.                                  *)
WithoutMark(s) == IF s # <<>> /\ s[1].kind = "bom" THEN Tail(s) ELSE s

Read(s) == Reading(Reader, WithoutMark(s))

Tokenize(s) == LET r == Read(s)
               IN  [ok     |-> r.ok /\ r.within \notin {"string", "block comment"},
                    tokens |-> r.tokens]

(***************************************************************************)
(* The grammar: what is expected, and what after each token.               *)
(***************************************************************************)
Literal(next) == [string |-> next, number |-> next, name |-> next]

Grammar == [
  start      |-> [insert |-> "insert", select |-> "select", semicolon |-> "start"],
  insert     |-> [into |-> "into"],
  into       |-> [name |-> "target"],
  target     |-> [dot |-> "targetDot", lparen |-> "columns"],
  targetDot  |-> [name |-> "targetEnd"],
  targetEnd  |-> [lparen |-> "columns"],
  columns    |-> [name |-> "column"],
  column     |-> [comma |-> "columns", rparen |-> "columnsEnd"],
  columnsEnd |-> [values |-> "values"],
  values     |-> [lparen |-> "literals"],
  literals   |-> Literal("literal"),
  literal    |-> [comma |-> "literals", rparen |-> "end"],
  select     |-> [star |-> "listEnd", name |-> "item"],
  item       |-> [comma |-> "items", from |-> "from"],
  items      |-> [name |-> "item"],
  listEnd    |-> [from |-> "from"],
  from       |-> [name |-> "source"],
  source     |-> [dot |-> "sourceDot", where |-> "where"],
  sourceDot  |-> [name |-> "sourceEnd"],
  sourceEnd  |-> [where |-> "where"],
  where      |-> [name |-> "operator"],
  operator   |-> [compare |-> "operand"],
  operand    |-> Literal("end"),
  end        |-> <<>>,
  error      |-> <<>>]

\* Mutant: a statement may end behind its table only with a semicolon.
CompleteAtEnd == {"start", "end"}

(* Where a statement may be over; the semicolon behind it may be missing.  *)
Complete == {"start", "end", "source", "sourceEnd"}

Expect(state, token) ==
  IF token.type \in DOMAIN Grammar[state] THEN Grammar[state][token.type]
  ELSE IF state \in Complete /\ token.type \in DOMAIN Grammar.start
  THEN Grammar.start[token.type] ELSE "error"

Expected(state, tokens) ==
  LET after[i \in 0..Len(tokens)] ==
        IF i = 0 THEN state ELSE Expect(after[i - 1], tokens[i])
  IN  after[Len(tokens)]

(* The places of the statements begun, and with one more token.            *)
Begin(begun, token) ==
  IF token.type \in {"insert", "select"} THEN Append(begun, token.at) ELSE begun

Statements(tokens) ==
  LET after[i \in 0..Len(tokens)] ==
        IF i = 0 THEN <<>> ELSE Begin(after[i - 1], tokens[i])
  IN  after[Len(tokens)]

(* parse_sql_script                                                        *)
Parse(s) == LET t == Tokenize(s)
            IN  [ok         |-> t.ok /\ Expected("start", t.tokens) \in Complete,
                 statements |-> Statements(t.tokens)]
=============================================================================
