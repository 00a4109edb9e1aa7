---------------------------- MODULE ParserProofs ----------------------------
(***************************************************************************)
(* What the tokenizer and the grammar make of a text that is put together  *)
(* from parts, for every text.                                             *)
(***************************************************************************)
EXTENDS Parser, CommonLemmas

TokenSet == [type : Plain \cup {"string"}, at : Nat \ {0}]
Within   == {"code", "string", "quoted", "line comment", "block comment"}
Readers  == [within : Within, tokens : Seq(TokenSet), ok : BOOLEAN]

(***************************************************************************)
(* The tokenizer as a machine                                              *)
(***************************************************************************)
LEMMA KindOfCode ==
  ASSUME NEW r, NEW p \in Piece
  PROVE  \/ p.kind = "newline" /\ ReadCode(r, p) = [r EXCEPT !.within = "code"]
         \/ p.kind \in Plain /\ ReadCode(r, p) = Token(r, p, p.kind)
         \/ p.kind \in {"exit", "help"} /\ ReadCode(r, p) = Token(r, p, "name")
         \/ p.kind = "quote" /\ ReadCode(r, p) = [Token(r, p, "string") EXCEPT !.within = "string"]
         \/ p.kind = "dashes" /\ ReadCode(r, p) = [r EXCEPT !.within = "line comment"]
         \/ p.kind = "open" /\ ReadCode(r, p) = [r EXCEPT !.within = "block comment"]
         \/ p.kind \in {"close", "bom", "odd"} /\ ReadCode(r, p) = [r EXCEPT !.ok = FALSE]
<1>1. p.kind \in Kinds
  BY DEF Piece
<1>2. CASE p.kind = "newline"
  BY <1>2 DEF ReadCode, Plain
<1>3. CASE p.kind \in Plain
  BY <1>3 DEF ReadCode, Plain
<1>4. CASE p.kind \in {"exit", "help"}
  BY <1>4 DEF ReadCode, Plain
<1>5. CASE p.kind = "quote"
  BY <1>5 DEF ReadCode, Plain
<1>6. CASE p.kind = "dashes"
  BY <1>6 DEF ReadCode, Plain
<1>7. CASE p.kind = "open"
  BY <1>7 DEF ReadCode, Plain
<1>8. CASE p.kind \in {"close", "bom", "odd"}
  BY <1>8 DEF ReadCode, Plain
<1> QED BY <1>1, <1>2, <1>3, <1>4, <1>5, <1>6, <1>7, <1>8 DEF Kinds

LEMMA TokenType ==
  ASSUME NEW r \in Readers, NEW p \in Piece, NEW type \in Plain \cup {"string"}
  PROVE  Token(r, p, type) \in Readers
<1>1. p.at \in Nat \ {0}
  BY DEF Piece
<1>2. [type |-> type, at |-> p.at] \in TokenSet
  BY <1>1 DEF TokenSet
<1>3. r.tokens \in Seq(TokenSet)
  BY DEF Readers
<1>4. Append(r.tokens, [type |-> type, at |-> p.at]) \in Seq(TokenSet)
  BY <1>2, <1>3
<1> QED BY <1>4 DEF Token, Readers, Within

LEMMA ReadCodeType ==
  ASSUME NEW r \in Readers, NEW p \in Piece
  PROVE  ReadCode(r, p) \in Readers
<1>1. \A type \in Plain \cup {"string"} : Token(r, p, type) \in Readers
  BY TokenType
<1>2. Token(r, p, "name") \in Readers
  BY <1>1 DEF Plain
<1>3. [Token(r, p, "string") EXCEPT !.within = "string"] \in Readers
  BY <1>1 DEF Readers, Within
<1>4. /\ [r EXCEPT !.ok = FALSE] \in Readers
      /\ [r EXCEPT !.within = "code"] \in Readers
      /\ [r EXCEPT !.within = "line comment"] \in Readers
      /\ [r EXCEPT !.within = "block comment"] \in Readers
  BY DEF Readers, Within
<1>5. p.kind \in Plain => Token(r, p, p.kind) \in Readers
  BY <1>1
<1> QED BY <1>2, <1>3, <1>4, <1>5, KindOfCode

LEMMA ReadPieceType ==
  ASSUME NEW r \in Readers, NEW p \in Piece
  PROVE  ReadPiece(r, p) \in Readers
<1>1. \A w \in Within : [r EXCEPT !.within = w] \in Readers
  BY DEF Readers
<1>2. ReadCode(r, p) \in Readers
  BY ReadCodeType
<1>3. r.within \in Within /\ {"code", "string", "quoted"} \subseteq Within
  BY DEF Readers, Within
<1>4. CASE r.within = "code"
  BY <1>2, <1>4 DEF ReadPiece
<1>5. CASE r.within = "string"
  BY <1>1, <1>3, <1>5 DEF ReadPiece
<1>6. CASE r.within = "quoted"
  BY <1>1, <1>2, <1>3, <1>6 DEF ReadPiece
<1>7. CASE r.within = "line comment"
  BY <1>1, <1>3, <1>7 DEF ReadPiece
<1>8. CASE r.within = "block comment"
  BY <1>1, <1>3, <1>8 DEF ReadPiece
<1> QED BY <1>3, <1>4, <1>5, <1>6, <1>7, <1>8 DEF Within

ReadStep == [r \in Readers |-> [p \in Piece |-> ReadPiece(r, p)]]

LEMMA ReadMachine ==
  /\ Machine(Readers, Piece, ReadStep)
  /\ \A r \in Readers, p \in Piece : ReadStep[r][p] = ReadPiece(r, p)
BY ReadPieceType DEF Machine, ReadStep

LEMMA ReadingIsRun ==
  ASSUME NEW r \in Readers, NEW s \in Seq(Piece)
  PROVE  Reading(r, s) = Run(ReadStep, r, s)
<1> DEFINE IsReading(h) ==
             h = [i \in 0..Len(s) |-> IF i = 0 THEN r ELSE ReadPiece(h[i - 1], s[i])]
           f == CHOOSE h : IsReading(h)
<1>1. Len(s) \in Nat /\ \A i \in 1..Len(s) : s[i] \in Piece
  OBVIOUS
<1>2. PICK g \in [0..Len(s) -> Readers] :
        /\ g[0] = r /\ g[Len(s)] = Run(ReadStep, r, s)
        /\ \A i \in 1..Len(s) : g[i] = ReadStep[g[i - 1]][s[i]]
  BY ReadMachine, RunIsDefined
<1>3. \A i \in 1..Len(s) : g[i] = ReadPiece(g[i - 1], s[i])
  <2> TAKE i \in 1..Len(s)
  <2>1. g[i - 1] \in Readers /\ s[i] \in Piece
    BY <1>1
  <2> QED BY <1>2, <2>1, ReadMachine
<1>4. IsReading(g)
  <2>1. \A i \in 0..Len(s) : g[i] = IF i = 0 THEN r ELSE ReadPiece(g[i - 1], s[i])
    BY <1>1, <1>2, <1>3
  <2> QED BY <2>1
<1>5. IsReading(f)
  BY <1>4
<1>6. Reading(r, s) = f[Len(s)]
  BY DEF Reading
<1> HIDE DEF f
<1>7. f[0] = g[0] /\ \A i \in 1..Len(s) : f[i - 1] = g[i - 1] => f[i] = g[i]
  BY <1>1, <1>2, <1>3, <1>5
<1>8. \A i \in 0..Len(s) : f[i] = g[i]
  BY ONLY ZenonT(30), <1>1, <1>7, SameRun
<1> QED BY <1>1, <1>2, <1>6, <1>8

LEMMA ReadingType ==
  ASSUME NEW r \in Readers, NEW s \in Seq(Piece)
  PROVE  Reading(r, s) \in Readers
BY ReadMachine, ReadingIsRun, RunType

LEMMA ReadingNothing == \A r \in Readers : Reading(r, <<>>) = r
<1> TAKE r \in Readers
<1>1. <<>> \in Seq(Piece)
  OBVIOUS
<1>2. Reading(r, <<>>) = Run(ReadStep, r, <<>>)
  BY <1>1, ReadingIsRun
<1> QED BY <1>2, RunOfNothing

LEMMA ReadingOneMore ==
  ASSUME NEW r \in Readers, NEW s \in Seq(Piece), NEW p \in Piece
  PROVE  Reading(r, Append(s, p)) = ReadPiece(Reading(r, s), p)
<1>1. Append(s, p) \in Seq(Piece)
  OBVIOUS
<1>2. Run(ReadStep, r, Append(s, p)) = ReadStep[Run(ReadStep, r, s)][p]
  BY ReadMachine, RunAppend
<1> QED BY <1>1, <1>2, ReadMachine, ReadingIsRun, ReadingType

LEMMA ReadingOn ==
  ASSUME NEW r \in Readers, NEW s \in Seq(Piece), NEW t \in Seq(Piece)
  PROVE  Reading(r, s \o t) = Reading(Reading(r, s), t)
<1>1. s \o t \in Seq(Piece)
  OBVIOUS
<1>2. Run(ReadStep, r, s \o t) = Run(ReadStep, Run(ReadStep, r, s), t)
  BY ReadMachine, RunConcat
<1> QED BY <1>1, <1>2, ReadingIsRun, ReadingType

(***************************************************************************)
(* The tokens read before do not matter to what is read next.              *)
(***************************************************************************)
Ahead(T, r) == [r EXCEPT !.tokens = T \o r.tokens]

LEMMA AheadType ==
  ASSUME NEW T \in Seq(TokenSet), NEW r \in Readers
  PROVE  /\ Ahead(T, r) \in Readers /\ Ahead(T, r).within = r.within
         /\ Ahead(T, r).ok = r.ok /\ Ahead(T, r).tokens = T \o r.tokens
<1>1. r.tokens \in Seq(TokenSet) /\ T \o r.tokens \in Seq(TokenSet)
  BY DEF Readers
<1> QED BY <1>1 DEF Ahead, Readers

LEMMA TokenAhead ==
  ASSUME NEW T \in Seq(TokenSet), NEW r \in Readers, NEW p \in Piece,
         NEW type \in Plain \cup {"string"}
  PROVE  Token(Ahead(T, r), p, type) = Ahead(T, Token(r, p, type))
<1> DEFINE x == [type |-> type, at |-> p.at]
<1>1. x \in TokenSet /\ r.tokens \in Seq(TokenSet)
  BY DEF TokenSet, Piece, Readers
<1> HIDE DEF x
<1>2. Append(T \o r.tokens, x) = T \o Append(r.tokens, x)
  BY <1>1
<1> QED BY <1>2 DEF Token, Ahead, Readers, x

LEMMA ReadCodeAhead ==
  ASSUME NEW T \in Seq(TokenSet), NEW r \in Readers, NEW p \in Piece
  PROVE  ReadCode(Ahead(T, r), p) = Ahead(T, ReadCode(r, p))
<1> DEFINE a == Ahead(T, r)
<1>1. CASE p.kind = "newline"
  BY <1>1 DEF ReadCode, Plain, Ahead, Readers
<1>2. CASE p.kind \in Plain
  <2>1. Token(a, p, p.kind) = Ahead(T, Token(r, p, p.kind))
    BY <1>2, TokenAhead
  <2>2. ReadCode(a, p) = Token(a, p, p.kind) /\ ReadCode(r, p) = Token(r, p, p.kind)
    <3> HIDE DEF a
    <3> QED BY <1>2 DEF ReadCode, Plain
  <2> QED BY <2>1, <2>2
<1>3. CASE p.kind \in {"exit", "help"}
  <2>1. Token(a, p, "name") = Ahead(T, Token(r, p, "name"))
    BY TokenAhead DEF Plain
  <2>2. ReadCode(a, p) = Token(a, p, "name") /\ ReadCode(r, p) = Token(r, p, "name")
    <3> HIDE DEF a
    <3> QED BY <1>3 DEF ReadCode, Plain
  <2> QED BY <2>1, <2>2
<1>4. CASE p.kind = "quote"
  <2>1. Token(a, p, "string") = Ahead(T, Token(r, p, "string"))
    BY TokenAhead
  <2>2. /\ ReadCode(a, p) = [Token(a, p, "string") EXCEPT !.within = "string"]
        /\ ReadCode(r, p) = [Token(r, p, "string") EXCEPT !.within = "string"]
    <3> HIDE DEF a
    <3> QED BY <1>4 DEF ReadCode, Plain
  <2>3. Token(r, p, "string") \in Readers
    BY TokenType
  <2>4. \A q \in Readers :
          [Ahead(T, q) EXCEPT !.within = "string"] = Ahead(T, [q EXCEPT !.within = "string"])
    BY DEF Ahead, Readers
  <2> QED BY <2>1, <2>2, <2>3, <2>4
<1>5. CASE p.kind = "dashes"
  BY <1>5 DEF ReadCode, Plain, Ahead, Readers
<1>6. CASE p.kind = "open"
  BY <1>6 DEF ReadCode, Plain, Ahead, Readers
<1>7. CASE p.kind \in {"close", "bom", "odd"}
  BY <1>7 DEF ReadCode, Plain, Ahead, Readers
<1>8. p.kind \in Kinds
  BY DEF Piece
<1> QED BY <1>1, <1>2, <1>3, <1>4, <1>5, <1>6, <1>7, <1>8 DEF Kinds

LEMMA ReadPieceAhead ==
  ASSUME NEW T \in Seq(TokenSet), NEW r \in Readers, NEW p \in Piece
  PROVE  ReadPiece(Ahead(T, r), p) = Ahead(T, ReadPiece(r, p))
<1> DEFINE a == Ahead(T, r)
<1>1. ReadCode(a, p) = Ahead(T, ReadCode(r, p))
  BY ReadCodeAhead
<1>2. a.within = r.within /\ a.ok = r.ok
  BY AheadType
<1>3. \A w : [a EXCEPT !.within = w] = Ahead(T, [r EXCEPT !.within = w])
  BY DEF Ahead, Readers
<1>4. r.within \in Within
  BY DEF Readers
<1>5. a = Ahead(T, r)
  OBVIOUS
<1> HIDE DEF a
<1>6. CASE ~r.ok
  BY <1>2, <1>5, <1>6 DEF ReadPiece
<1>7. CASE r.ok /\ r.within = "code"
  BY <1>1, <1>2, <1>5, <1>7 DEF ReadPiece
<1>8. CASE r.ok /\ r.within = "string"
  BY <1>2, <1>3, <1>5, <1>8 DEF ReadPiece
<1>9. CASE r.ok /\ r.within = "quoted"
  BY <1>1, <1>2, <1>3, <1>5, <1>9 DEF ReadPiece
<1>10. CASE r.ok /\ r.within = "line comment"
  BY <1>2, <1>3, <1>5, <1>10 DEF ReadPiece
<1>11. CASE r.ok /\ r.within = "block comment"
  BY <1>2, <1>3, <1>5, <1>11 DEF ReadPiece
<1> QED BY <1>4, <1>5, <1>6, <1>7, <1>8, <1>9, <1>10, <1>11 DEF Within

LEMMA ReadingAhead ==
  ASSUME NEW T \in Seq(TokenSet), NEW r \in Readers, NEW s \in Seq(Piece)
  PROVE  Reading(Ahead(T, r), s) = Ahead(T, Reading(r, s))
<1> DEFINE part(i) == SubSeq(s, 1, i)
           a == Ahead(T, r)
           S == {i \in 0..Len(s) : Reading(a, part(i)) = Ahead(T, Reading(r, part(i)))}
<1>1. a \in Readers /\ a = Ahead(T, r) /\ Len(s) \in Nat
  BY AheadType
<1> HIDE DEF a
<1>2. 0 \in S
  <2>1. part(0) = <<>> /\ 0 \in 0..Len(s)
    BY <1>1
  <2>2. Reading(a, part(0)) = Ahead(T, Reading(r, part(0)))
    BY <1>1, <2>1, ReadingNothing
  <2> HIDE DEF part
  <2> QED BY <2>1, <2>2
<1>3. ASSUME NEW i \in 1..Len(s), i - 1 \in S PROVE i \in S
  <2> DEFINE q == part(i - 1)
             p == s[i]
  <2>1. q \in Seq(Piece) /\ p \in Piece /\ part(i) = Append(q, p) /\ i \in 0..Len(s)
    BY PrefixGrows
  <2>2. Reading(a, q) = Ahead(T, Reading(r, q))
    BY <1>3
  <2> HIDE DEF q, p, part
  <2>3. Reading(r, q) \in Readers
    BY <2>1, ReadingType
  <2>4. /\ Reading(a, Append(q, p)) = ReadPiece(Reading(a, q), p)
        /\ Reading(r, Append(q, p)) = ReadPiece(Reading(r, q), p)
    BY <1>1, <2>1, ReadingOneMore
  <2>5. ReadPiece(Ahead(T, Reading(r, q)), p) = Ahead(T, ReadPiece(Reading(r, q), p))
    BY <2>1, <2>3, ReadPieceAhead
  <2> QED BY <2>1, <2>2, <2>4, <2>5
<1>4. \A i \in 0..Len(s) : i \in S
  <2> HIDE DEF S
  <2> QED BY <1>1, <1>2, <1>3, PlaceByPlace
<1>5. Len(s) \in S
  BY <1>1, <1>4
<1>6. part(Len(s)) = s
  OBVIOUS
<1> QED BY <1>1, <1>5, <1>6

(***************************************************************************)
(* The grammar as a machine                                                *)
(***************************************************************************)
States == DOMAIN Grammar

LEMMA StateNames ==
  States = {"start", "insert", "into", "target", "targetDot",
            "targetEnd", "columns", "column", "columnsEnd", "values",
            "literals", "literal", "select", "item", "items",
            "listEnd", "from", "source", "sourceDot", "sourceEnd",
            "where", "operator", "operand", "end", "error"}
BY DEF States, Grammar

LEMMA GrammarType ==
  ASSUME NEW state \in States, NEW type \in DOMAIN Grammar[state]
  PROVE  Grammar[state][type] \in States
<1>1. CASE state = "start"
  BY <1>1, StateNames DEF Grammar, Literal
<1>2. CASE state = "insert"
  BY <1>2, StateNames DEF Grammar, Literal
<1>3. CASE state = "into"
  BY <1>3, StateNames DEF Grammar, Literal
<1>4. CASE state = "target"
  BY <1>4, StateNames DEF Grammar, Literal
<1>5. CASE state = "targetDot"
  BY <1>5, StateNames DEF Grammar, Literal
<1>6. CASE state = "targetEnd"
  BY <1>6, StateNames DEF Grammar, Literal
<1>7. CASE state = "columns"
  BY <1>7, StateNames DEF Grammar, Literal
<1>8. CASE state = "column"
  BY <1>8, StateNames DEF Grammar, Literal
<1>9. CASE state = "columnsEnd"
  BY <1>9, StateNames DEF Grammar, Literal
<1>10. CASE state = "values"
  BY <1>10, StateNames DEF Grammar, Literal
<1>11. CASE state = "literals"
  BY <1>11, StateNames DEF Grammar, Literal
<1>12. CASE state = "literal"
  BY <1>12, StateNames DEF Grammar, Literal
<1>13. CASE state = "select"
  BY <1>13, StateNames DEF Grammar, Literal
<1>14. CASE state = "item"
  BY <1>14, StateNames DEF Grammar, Literal
<1>15. CASE state = "items"
  BY <1>15, StateNames DEF Grammar, Literal
<1>16. CASE state = "listEnd"
  BY <1>16, StateNames DEF Grammar, Literal
<1>17. CASE state = "from"
  BY <1>17, StateNames DEF Grammar, Literal
<1>18. CASE state = "source"
  BY <1>18, StateNames DEF Grammar, Literal
<1>19. CASE state = "sourceDot"
  BY <1>19, StateNames DEF Grammar, Literal
<1>20. CASE state = "sourceEnd"
  BY <1>20, StateNames DEF Grammar, Literal
<1>21. CASE state = "where"
  BY <1>21, StateNames DEF Grammar, Literal
<1>22. CASE state = "operator"
  BY <1>22, StateNames DEF Grammar, Literal
<1>23. CASE state = "operand"
  BY <1>23, StateNames DEF Grammar, Literal
<1>24. CASE state = "end"
  BY <1>24, StateNames DEF Grammar, Literal
<1>25. CASE state = "error"
  BY <1>25, StateNames DEF Grammar, Literal
<1> QED BY StateNames, <1>1, <1>2, <1>3, <1>4, <1>5, <1>6, <1>7, <1>8, <1>9, <1>10, <1>11, <1>12, <1>13, <1>14, <1>15, <1>16, <1>17, <1>18, <1>19, <1>20, <1>21, <1>22, <1>23, <1>24, <1>25

LEMMA ExpectType ==
  ASSUME NEW state \in States, NEW token
  PROVE  Expect(state, token) \in States
<1>1. {"start", "error"} \subseteq States
  BY StateNames
<1>2. \A type \in DOMAIN Grammar["start"] : Grammar["start"][type] \in States
  BY <1>1, GrammarType
<1>3. Grammar.start = Grammar["start"]
  OBVIOUS
<1>4. \A type \in DOMAIN Grammar[state] : Grammar[state][type] \in States
  BY GrammarType
<1> QED BY <1>1, <1>2, <1>3, <1>4 DEF Expect

ExpectStep == [state \in States |-> [token \in TokenSet |-> Expect(state, token)]]

LEMMA ExpectMachine ==
  /\ Machine(States, TokenSet, ExpectStep)
  /\ \A state \in States, token \in TokenSet : ExpectStep[state][token] = Expect(state, token)
BY ExpectType DEF Machine, ExpectStep

LEMMA ExpectedIsRun ==
  ASSUME NEW state \in States, NEW s \in Seq(TokenSet)
  PROVE  Expected(state, s) = Run(ExpectStep, state, s)
<1> DEFINE IsExpected(h) ==
             h = [i \in 0..Len(s) |-> IF i = 0 THEN state ELSE Expect(h[i - 1], s[i])]
           f == CHOOSE h : IsExpected(h)
<1>1. Len(s) \in Nat /\ \A i \in 1..Len(s) : s[i] \in TokenSet
  OBVIOUS
<1>2. PICK g \in [0..Len(s) -> States] :
        /\ g[0] = state /\ g[Len(s)] = Run(ExpectStep, state, s)
        /\ \A i \in 1..Len(s) : g[i] = ExpectStep[g[i - 1]][s[i]]
  BY ExpectMachine, RunIsDefined
<1>3. \A i \in 1..Len(s) : g[i] = Expect(g[i - 1], s[i])
  <2> TAKE i \in 1..Len(s)
  <2>1. g[i - 1] \in States /\ s[i] \in TokenSet
    BY <1>1
  <2> QED BY <1>2, <2>1, ExpectMachine
<1>4. IsExpected(g)
  <2>1. \A i \in 0..Len(s) : g[i] = IF i = 0 THEN state ELSE Expect(g[i - 1], s[i])
    BY <1>1, <1>2, <1>3
  <2> QED BY <2>1
<1>5. IsExpected(f)
  BY <1>4
<1>6. Expected(state, s) = f[Len(s)]
  BY DEF Expected
<1> HIDE DEF f
<1>7. f[0] = g[0] /\ \A i \in 1..Len(s) : f[i - 1] = g[i - 1] => f[i] = g[i]
  BY <1>1, <1>2, <1>3, <1>5
<1>8. \A i \in 0..Len(s) : f[i] = g[i]
  BY ONLY ZenonT(30), <1>1, <1>7, SameRun
<1> QED BY <1>1, <1>2, <1>6, <1>8

LEMMA ExpectedType ==
  ASSUME NEW state \in States, NEW s \in Seq(TokenSet)
  PROVE  Expected(state, s) \in States
BY ExpectMachine, ExpectedIsRun, RunType

LEMMA ExpectedOn ==
  ASSUME NEW state \in States, NEW s \in Seq(TokenSet), NEW t \in Seq(TokenSet)
  PROVE  Expected(state, s \o t) = Expected(Expected(state, s), t)
<1>1. s \o t \in Seq(TokenSet)
  OBVIOUS
<1>2. Run(ExpectStep, state, s \o t) = Run(ExpectStep, Run(ExpectStep, state, s), t)
  BY ExpectMachine, RunConcat
<1> QED BY <1>1, <1>2, ExpectedIsRun, ExpectedType

LEMMA ExpectedNothing == \A state \in States : Expected(state, <<>>) = state
<1> TAKE state \in States
<1>1. <<>> \in Seq(TokenSet)
  OBVIOUS
<1>2. Expected(state, <<>>) = Run(ExpectStep, state, <<>>)
  BY <1>1, ExpectedIsRun
<1> QED BY <1>2, RunOfNothing

LEMMA ExpectedOne ==
  ASSUME NEW state \in States, NEW token \in TokenSet
  PROVE  Expected(state, <<token>>) = Expect(state, token)
<1> DEFINE e == <<>>
<1>1. e \in Seq(TokenSet)
  OBVIOUS
<1>4. <<token>> \in Seq(TokenSet) /\ Append(e, token) = <<token>>
  OBVIOUS
<1>2. Run(ExpectStep, state, e) = state
  BY RunOfNothing
<1> HIDE DEF e
<1>3. Run(ExpectStep, state, Append(e, token)) = ExpectStep[Run(ExpectStep, state, e)][token]
  BY <1>1, ExpectMachine, RunAppend
<1> QED BY <1>2, <1>3, <1>4, ExpectMachine, ExpectedIsRun

(* Nothing can be expected behind an error.                                *)
LEMMA ErrorsStay ==
  ASSUME NEW s \in Seq(TokenSet)
  PROVE  Expected("error", s) = "error"
<1>1. "error" \in States
  BY StateNames
<1>2. \A token : Expect("error", token) = "error"
  BY DEF Expect, Grammar, Complete
<1>3. \A state \in States, i \in 1..Len(s) :
        state \in {"error"} => ExpectStep[state][s[i]] \in {"error"}
  BY <1>2, ExpectMachine
<1>4. Run(ExpectStep, "error", s) \in {"error"}
  BY <1>1, <1>3, ExpectMachine, RunKeeps
<1> QED BY <1>1, <1>4, ExpectedIsRun

(* Where a statement may be over, a script goes on as it begins.           *)
LEMMA CompleteIsStart ==
  ASSUME NEW state \in Complete, NEW token, Expect("start", token) # "error"
  PROVE  Expect(state, token) = Expect("start", token)
<1>1. token.type \in {"insert", "select", "semicolon"}
  BY DEF Expect, Grammar
<1>2. "start" \in Complete /\ DOMAIN Grammar.start = {"insert", "select", "semicolon"}
  BY DEF Complete, Grammar
<1>3. Grammar["start"] = Grammar.start
  OBVIOUS
<1>4. state # "start" => token.type \notin DOMAIN Grammar[state]
  BY <1>1 DEF Complete, Grammar
<1>5. CASE state = "start"
  BY <1>5
<1>6. CASE state # "start"
  BY <1>1, <1>2, <1>3, <1>4, <1>6 DEF Expect
<1> QED BY <1>5, <1>6

LEMMA FirstAndRest ==
  ASSUME NEW B, NEW t \in Seq(B), t # <<>>
  PROVE  Head(t) \in B /\ Tail(t) \in Seq(B) /\ t = <<Head(t)>> \o Tail(t)
<1>1. Head(t) \in B /\ Tail(t) \in Seq(B) /\ Len(t) \in Nat \ {0}
  BY EmptySeq
<1> DEFINE u == <<Head(t)>> \o Tail(t)
<1>2. u \in Seq(B) /\ Len(u) = Len(t) /\ \A i \in 1..Len(t) : t[i] = u[i]
  BY <1>1
<1>3. t = u
  <2> HIDE DEF u
  <2> QED BY <1>2, SeqEqual
<1> QED BY <1>1, <1>3

LEMMA ScriptsJoin ==
  ASSUME NEW state \in Complete, NEW t \in Seq(TokenSet), Expected("start", t) \in Complete
  PROVE  Expected(state, t) \in Complete
<1>1. state \in States /\ "start" \in States
  BY StateNames DEF Complete
<1>2. CASE t = <<>>
  BY <1>1, <1>2, ExpectedNothing
<1>3. CASE t # <<>>
  <2> DEFINE x == Head(t)
             u == Tail(t)
  <2>1. x \in TokenSet /\ u \in Seq(TokenSet) /\ t = <<x>> \o u /\ <<x>> \in Seq(TokenSet)
    BY <1>3, FirstAndRest
  <2> HIDE DEF x, u
  <2>2. \A q \in States : Expected(q, t) = Expected(Expect(q, x), u)
    <3> TAKE q \in States
    <3>1. Expected(q, <<x>> \o u) = Expected(Expected(q, <<x>>), u)
      BY <2>1, ExpectedOn
    <3> QED BY <2>1, <3>1, ExpectedOne
  <2>3. Expect("start", x) # "error"
    <3> SUFFICES ASSUME Expect("start", x) = "error" PROVE FALSE
      OBVIOUS
    <3>1. Expected("start", t) = "error"
      BY <1>1, <2>1, <2>2, ErrorsStay
    <3> QED BY <3>1 DEF Complete
  <2>4. Expect(state, x) = Expect("start", x)
    BY <2>3, CompleteIsStart
  <2> QED BY <1>1, <2>2, <2>4
<1> QED BY <1>2, <1>3

(***************************************************************************)
(* The statements of a script                                              *)
(***************************************************************************)
Position == Nat \ {0}

LEMMA BeginType ==
  ASSUME NEW b \in Seq(Position), NEW token \in TokenSet
  PROVE  Begin(b, token) \in Seq(Position)
<1>1. token.at \in Position
  BY DEF TokenSet, Position
<1> QED BY <1>1 DEF Begin

BeginStep == [b \in Seq(Position) |-> [token \in TokenSet |-> Begin(b, token)]]

LEMMA BeginMachine ==
  /\ Machine(Seq(Position), TokenSet, BeginStep)
  /\ \A b \in Seq(Position), token \in TokenSet : BeginStep[b][token] = Begin(b, token)
BY BeginType DEF Machine, BeginStep

LEMMA StatementsAreRun ==
  ASSUME NEW s \in Seq(TokenSet)
  PROVE  Statements(s) = Run(BeginStep, <<>>, s)
<1> DEFINE IsBegun(h) ==
             h = [i \in 0..Len(s) |-> IF i = 0 THEN <<>> ELSE Begin(h[i - 1], s[i])]
           f == CHOOSE h : IsBegun(h)
<1>1. Len(s) \in Nat /\ <<>> \in Seq(Position) /\ \A i \in 1..Len(s) : s[i] \in TokenSet
  OBVIOUS
<1>2. PICK g \in [0..Len(s) -> Seq(Position)] :
        /\ g[0] = <<>> /\ g[Len(s)] = Run(BeginStep, <<>>, s)
        /\ \A i \in 1..Len(s) : g[i] = BeginStep[g[i - 1]][s[i]]
  <2> DEFINE none == <<>>
  <2>1. none \in Seq(Position)
    OBVIOUS
  <2> HIDE DEF none
  <2>2. PICK g \in [0..Len(s) -> Seq(Position)] :
          /\ g[0] = none /\ g[Len(s)] = Run(BeginStep, none, s)
          /\ \A i \in 1..Len(s) : g[i] = BeginStep[g[i - 1]][s[i]]
    BY <2>1, BeginMachine, RunIsDefined
  <2> QED BY <2>2 DEF none
<1>3. \A i \in 1..Len(s) : g[i] = Begin(g[i - 1], s[i])
  <2> TAKE i \in 1..Len(s)
  <2>1. g[i - 1] \in Seq(Position) /\ s[i] \in TokenSet
    BY <1>1
  <2> QED BY <1>2, <2>1, BeginMachine
<1>4. IsBegun(g)
  <2>1. \A i \in 0..Len(s) : g[i] = IF i = 0 THEN <<>> ELSE Begin(g[i - 1], s[i])
    BY <1>1, <1>2, <1>3
  <2> QED BY <2>1
<1>5. IsBegun(f)
  BY <1>4
<1>6. Statements(s) = f[Len(s)]
  BY DEF Statements
<1> HIDE DEF f
<1>7. f[0] = g[0] /\ \A i \in 1..Len(s) : f[i - 1] = g[i - 1] => f[i] = g[i]
  BY <1>1, <1>2, <1>3, <1>5
<1>8. \A i \in 0..Len(s) : f[i] = g[i]
  BY ONLY ZenonT(30), <1>1, <1>7, SameRun
<1> QED BY <1>1, <1>2, <1>6, <1>8

LEMMA StatementsType ==
  ASSUME NEW s \in Seq(TokenSet)
  PROVE  Statements(s) \in Seq(Position)
<1> DEFINE none == <<>>
<1>1. none \in Seq(Position)
  OBVIOUS
<1> HIDE DEF none
<1>2. Run(BeginStep, none, s) \in Seq(Position)
  BY <1>1, BeginMachine, RunType
<1> QED BY <1>2, StatementsAreRun DEF none

LEMMA OneMoreBegun ==
  ASSUME NEW b \in Seq(Position), NEW c \in Seq(Position), NEW token \in TokenSet
  PROVE  Begin(b \o c, token) = b \o Begin(c, token)
<1> DEFINE x == token.at
<1>1. x \in Position
  BY DEF TokenSet, Position
<1> HIDE DEF x
<1>2. Append(b \o c, x) = b \o Append(c, x)
  BY <1>1
<1> QED BY <1>2 DEF Begin, x

(* The statements before do not matter to those that begin next.           *)
LEMMA BegunAhead ==
  ASSUME NEW b \in Seq(Position), NEW s \in Seq(TokenSet)
  PROVE  Run(BeginStep, b, s) = b \o Statements(s)
<1> DEFINE none == <<>>
           part(i) == SubSeq(s, 1, i)
           S == {i \in 0..Len(s) :
                   Run(BeginStep, b, part(i)) = b \o Run(BeginStep, none, part(i))}
<1>1. none \in Seq(Position) /\ Len(s) \in Nat /\ b \o none = b
  OBVIOUS
<1>2. 0 \in S
  <2>1. part(0) = <<>> /\ 0 \in 0..Len(s)
    BY <1>1
  <2> HIDE DEF none, part
  <2>2. Run(BeginStep, b, part(0)) = b \o Run(BeginStep, none, part(0))
    BY <1>1, <2>1, RunOfNothing
  <2> QED BY <2>1, <2>2
<1>3. ASSUME NEW i \in 1..Len(s), i - 1 \in S PROVE i \in S
  <2> DEFINE q == part(i - 1)
             x == s[i]
  <2>1. q \in Seq(TokenSet) /\ x \in TokenSet /\ part(i) = Append(q, x) /\ i \in 0..Len(s)
    BY PrefixGrows
  <2>2. Run(BeginStep, b, q) = b \o Run(BeginStep, none, q)
    BY <1>3
  <2> HIDE DEF q, x, part, none
  <2> DEFINE c == Run(BeginStep, none, q)
             d == Run(BeginStep, b, q)
  <2>3. c \in Seq(Position) /\ d \in Seq(Position)
    BY <1>1, <2>1, BeginMachine, RunType
  <2>4. /\ Run(BeginStep, b, Append(q, x)) = BeginStep[d][x]
        /\ Run(BeginStep, none, Append(q, x)) = BeginStep[c][x]
    BY <1>1, <2>1, BeginMachine, RunAppend
  <2>5. d = b \o c
    BY <2>2
  <2> HIDE DEF c, d
  <2>6. BeginStep[d][x] = Begin(d, x) /\ BeginStep[c][x] = Begin(c, x)
    BY <2>1, <2>3, BeginMachine
  <2>7. Begin(b \o c, x) = b \o Begin(c, x)
    BY <2>1, <2>3, OneMoreBegun
  <2>8. Run(BeginStep, b, part(i)) = b \o Run(BeginStep, none, part(i))
    BY <2>1, <2>4, <2>5, <2>6, <2>7
  <2> QED BY <2>1, <2>8
<1>4. \A i \in 0..Len(s) : i \in S
  <2> HIDE DEF S
  <2> QED BY <1>1, <1>2, <1>3, PlaceByPlace
<1>5. Len(s) \in S
  BY <1>1, <1>4
<1>6. part(Len(s)) = s
  OBVIOUS
<1>7. Run(BeginStep, b, s) = b \o Run(BeginStep, none, s)
  BY <1>5, <1>6
<1> QED BY <1>7, StatementsAreRun

LEMMA StatementsJoin ==
  ASSUME NEW s \in Seq(TokenSet), NEW t \in Seq(TokenSet)
  PROVE  Statements(s \o t) = Statements(s) \o Statements(t)
<1> DEFINE none == <<>>
<1>1. none \in Seq(Position) /\ s \o t \in Seq(TokenSet)
  OBVIOUS
<1>2. Statements(s \o t) = Run(BeginStep, none, s \o t) /\ Statements(s) = Run(BeginStep, none, s)
  BY <1>1, StatementsAreRun
<1> HIDE DEF none
<1>3. Run(BeginStep, none, s \o t) = Run(BeginStep, Run(BeginStep, none, s), t)
  BY <1>1, BeginMachine, RunConcat
<1>4. Statements(s) \in Seq(Position)
  BY StatementsType
<1> QED BY <1>2, <1>3, <1>4, BegunAhead

(***************************************************************************)
(* A text put together from two scripts is one script.                     *)
(***************************************************************************)
LEMMA ReaderType == Reader \in Readers
<1>1. <<>> \in Seq(TokenSet)
  OBVIOUS
<1> QED BY <1>1 DEF Reader, Readers, Within

LEMMA SameReader ==
  ASSUME NEW q \in Readers, NEW r \in Readers, q.within = r.within, q.ok, r.ok,
         q.tokens = r.tokens
  PROVE  q = r
BY DEF Readers

LEMMA MarkSkipped ==
  ASSUME NEW s \in Seq(Piece)
  PROVE  WithoutMark(s) \in Seq(Piece)
BY DEF WithoutMark

LEMMA ReadType ==
  ASSUME NEW s \in Seq(Piece)
  PROVE  Read(s) \in Readers
BY MarkSkipped, ReaderType, ReadingType DEF Read

LEMMA ParseType ==
  ASSUME NEW s \in Seq(Piece)
  PROVE  Parse(s).statements \in Seq(Position) /\ Parse(s).ok \in BOOLEAN
<1>1. Read(s) \in Readers
  BY ReadType
<1>2. Read(s).tokens \in Seq(TokenSet) /\ Read(s).ok \in BOOLEAN
  BY <1>1 DEF Readers
<1>3. Parse(s).statements = Statements(Read(s).tokens)
  BY DEF Parse, Tokenize
<1>4. Statements(Read(s).tokens) \in Seq(Position)
  BY <1>2, StatementsType
<1>5. Parse(s).ok \in BOOLEAN
  BY DEF Parse, Tokenize
<1> QED BY <1>3, <1>4, <1>5

(* Between two tokens, what is read next is read as if it stood alone.     *)
LEMMA ReadsJoin ==
  ASSUME NEW s \in Seq(Piece), NEW t \in Seq(Piece), s # <<>>,
         Read(s).within = "code", Read(s).ok, t # <<>> => t[1].kind # "bom"
  PROVE  Read(s \o t) = Ahead(Read(s).tokens, Read(t))
<1> DEFINE u == WithoutMark(s)
           T == Read(s).tokens
<1>1. u \in Seq(Piece) /\ Read(s) \in Readers /\ Read(s) = Reading(Reader, u)
  BY MarkSkipped, ReadType DEF Read
<1>2. T \in Seq(TokenSet)
  BY <1>1 DEF Readers
<1>3. WithoutMark(s \o t) = u \o t
  <2>1. s \o t # <<>> /\ (s \o t)[1] = s[1] /\ Tail(s \o t) = Tail(s) \o t
    <3>1. Len(s) \in Nat \ {0} /\ s \o t \in Seq(Piece) /\ Len(s \o t) = Len(s) + Len(t)
      BY EmptySeq
    <3>2. s \o t # <<>> /\ (s \o t)[1] = s[1]
      BY <3>1
    <3> DEFINE v == Tail(s \o t)
               w == Tail(s) \o t
    <3>3. /\ v \in Seq(Piece) /\ w \in Seq(Piece) /\ Len(v) = Len(w)
          /\ \A i \in 1..Len(v) : v[i] = w[i]
      BY <3>1, <3>2
    <3>4. v = w
      <4> HIDE DEF v, w
      <4> QED BY <3>3, SeqEqual
    <3> QED BY <3>2, <3>4
  <2> QED BY <2>1 DEF WithoutMark
<1>4. Read(s) = Ahead(T, Reader)
  <2>1. T \o <<>> = T
    BY <1>2
  <2> DEFINE a == Ahead(T, Reader)
  <2>2. Reader.tokens = <<>> /\ Reader.within = "code" /\ Reader.ok
    BY DEF Reader
  <2>3. a \in Readers /\ a.within = "code" /\ a.ok /\ a.tokens = T
    BY <1>2, <2>1, <2>2, ReaderType, AheadType
  <2> HIDE DEF a
  <2>4. Read(s) = a
    BY <1>1, <2>3, SameReader
  <2> QED BY <2>4 DEF a
<1>5. Read(t) = Reading(Reader, t)
  BY DEF Read, WithoutMark
<1>6. Read(s \o t) = Reading(Read(s), t)
  <2>1. Reading(Reader, u \o t) = Reading(Reading(Reader, u), t)
    <3> HIDE DEF u
    <3> QED BY <1>1, ReaderType, ReadingOn
  <2> QED BY <1>1, <1>3, <2>1 DEF Read
<1>7. Reading(Ahead(T, Reader), t) = Ahead(T, Reading(Reader, t))
  <2> HIDE DEF T
  <2> QED BY <1>2, ReaderType, ReadingAhead
<1> QED BY <1>4, <1>5, <1>6, <1>7

(* The whole of two scripts is accepted, and runs what each of them runs.  *)
LEMMA ParsesJoin ==
  ASSUME NEW s \in Seq(Piece), NEW t \in Seq(Piece), s # <<>>,
         Read(s).within = "code", t # <<>> => t[1].kind # "bom",
         Parse(s).ok, Parse(t).ok
  PROVE  /\ Parse(s \o t).ok
         /\ Parse(s \o t).statements = Parse(s).statements \o Parse(t).statements
         /\ Read(s \o t).within = Read(t).within
<1> DEFINE r == Read(s)
           q == Read(t)
           a == Read(s \o t)
<1>1. /\ r \in Readers /\ q \in Readers
      /\ r.tokens \in Seq(TokenSet) /\ q.tokens \in Seq(TokenSet)
  BY ReadType DEF Readers
<1>2. /\ r.ok /\ r.within \notin {"string", "block comment"}
      /\ Expected("start", r.tokens) \in Complete
      /\ Parse(s).statements = Statements(r.tokens)
  BY DEF Parse, Tokenize
<1>3. /\ q.ok /\ q.within \notin {"string", "block comment"}
      /\ Expected("start", q.tokens) \in Complete
      /\ Parse(t).statements = Statements(q.tokens)
  BY DEF Parse, Tokenize
<1>4. a = Ahead(r.tokens, q)
  BY <1>2, ReadsJoin
<1>5. /\ Parse(s \o t).ok <=> /\ a.ok /\ a.within \notin {"string", "block comment"}
                              /\ Expected("start", a.tokens) \in Complete
      /\ Parse(s \o t).statements = Statements(a.tokens)
  BY DEF Parse, Tokenize
<1> HIDE DEF r, q, a
<1>6. a.within = q.within /\ a.ok = q.ok /\ a.tokens = r.tokens \o q.tokens
  BY <1>1, <1>4, AheadType
<1> DEFINE T == r.tokens
           U == q.tokens
           state == Expected("start", T)
<1>7. T \in Seq(TokenSet) /\ U \in Seq(TokenSet) /\ "start" \in States
  BY <1>1, StateNames
<1> HIDE DEF T, U
<1>8. Expected("start", T \o U) = Expected(state, U)
  BY <1>7, ExpectedOn
<1>9. Expected(state, U) \in Complete
  BY <1>2, <1>3, <1>7, ScriptsJoin DEF T, U
<1>10. Statements(T \o U) = Statements(T) \o Statements(U)
  BY <1>7, StatementsJoin
<1> QED BY <1>2, <1>3, <1>5, <1>6, <1>8, <1>9, <1>10 DEF T, U, a, q

(***************************************************************************)
(* Tokens and statements come in the order of the text, each from a piece  *)
(* of its own.                                                             *)
(***************************************************************************)
Spread(s, lo, hi) ==
  /\ \A i \in 1..Len(s) : lo < s[i].at /\ s[i].at <= hi
  /\ \A i, j \in 1..Len(s) : i < j => s[i].at < s[j].at

Rising(b, lo, hi) ==
  /\ \A i \in 1..Len(b) : lo < b[i] /\ b[i] <= hi
  /\ \A i, j \in 1..Len(b) : i < j => b[i] < b[j]

EndOf(s, i, lo) == IF i = 0 THEN lo ELSE s[i].at

LEMMA TokensHavePlaces ==
  ASSUME NEW T \in Seq(TokenSet)
  PROVE  \A i \in 1..Len(T) : T[i].at \in Nat
<1>1. \A i \in 1..Len(T) : T[i] \in TokenSet
  OBVIOUS
<1> QED BY <1>1 DEF TokenSet

LEMMA PiecesHavePlaces ==
  ASSUME NEW s \in Seq(Piece)
  PROVE  \A i \in 1..Len(s) : s[i].at \in Nat
<1>1. \A i \in 1..Len(s) : s[i] \in Piece
  OBVIOUS
<1> QED BY <1>1 DEF Piece

LEMMA OneMorePlace ==
  ASSUME NEW T \in Seq(TokenSet), NEW lo \in Nat, NEW m \in Nat, Spread(T, lo, m),
         NEW x \in TokenSet, m < x.at, lo <= m
  PROVE  Spread(Append(T, x), lo, x.at)
<1> DEFINE U == Append(T, x)
<1>1. /\ U \in Seq(TokenSet) /\ Len(U) = Len(T) + 1 /\ Len(T) \in Nat /\ U[Len(T) + 1] = x
      /\ \A i \in 1..Len(T) : U[i] = T[i]
  OBVIOUS
<1>2. x.at \in Nat /\ \A i \in 1..Len(T) : T[i].at \in Nat
  BY TokensHavePlaces DEF TokenSet
<1> HIDE DEF U
<1>3. ASSUME NEW i \in 1..Len(U) PROVE lo < U[i].at /\ U[i].at <= x.at
  <2>1. CASE i = Len(T) + 1
    BY <1>1, <1>2, <2>1
  <2>2. CASE i # Len(T) + 1
    <3>1. i \in 1..Len(T)
      BY <1>1, <2>2
    <3> QED BY <1>1, <1>2, <3>1 DEF Spread
  <2> QED BY <2>1, <2>2
<1>4. ASSUME NEW i \in 1..Len(U), NEW j \in 1..Len(U), i < j PROVE U[i].at < U[j].at
  <2>1. i \in 1..Len(T)
    BY <1>1, <1>4
  <2>2. CASE j = Len(T) + 1
    BY <1>1, <1>2, <2>1, <2>2 DEF Spread
  <2>3. CASE j # Len(T) + 1
    <3>1. j \in 1..Len(T)
      BY <1>1, <2>3
    <3> QED BY <1>1, <1>4, <2>1, <3>1 DEF Spread
  <2> QED BY <2>2, <2>3
<1> QED BY <1>3, <1>4 DEF Spread, U

LEMMA OneMoreNumber ==
  ASSUME NEW b \in Seq(Position), NEW lo \in Nat, NEW m \in Nat, Rising(b, lo, m),
         NEW x \in Position, m < x, lo <= m
  PROVE  Rising(Append(b, x), lo, x)
<1> DEFINE U == Append(b, x)
<1>1. /\ U \in Seq(Position) /\ Len(U) = Len(b) + 1 /\ Len(b) \in Nat /\ U[Len(b) + 1] = x
      /\ \A i \in 1..Len(b) : U[i] = b[i]
  OBVIOUS
<1>2. x \in Nat /\ \A i \in 1..Len(b) : b[i] \in Nat
  BY DEF Position
<1> HIDE DEF U
<1>3. ASSUME NEW i \in 1..Len(U) PROVE lo < U[i] /\ U[i] <= x
  <2>1. CASE i = Len(b) + 1
    BY <1>1, <1>2, <2>1
  <2>2. CASE i # Len(b) + 1
    <3>1. i \in 1..Len(b)
      BY <1>1, <2>2
    <3> QED BY <1>1, <1>2, <3>1 DEF Rising
  <2> QED BY <2>1, <2>2
<1>4. ASSUME NEW i \in 1..Len(U), NEW j \in 1..Len(U), i < j PROVE U[i] < U[j]
  <2>1. i \in 1..Len(b)
    BY <1>1, <1>4
  <2>2. CASE j = Len(b) + 1
    BY <1>1, <1>2, <2>1, <2>2 DEF Rising
  <2>3. CASE j # Len(b) + 1
    <3>1. j \in 1..Len(b)
      BY <1>1, <2>3
    <3> QED BY <1>1, <1>4, <2>1, <3>1 DEF Rising
  <2> QED BY <2>2, <2>3
<1> QED BY <1>3, <1>4 DEF Rising, U

LEMMA TokensOfPiece ==
  ASSUME NEW r \in Readers, NEW p \in Piece
  PROVE  \/ ReadPiece(r, p).tokens = r.tokens
         \/ \E x \in TokenSet : x.at = p.at /\ ReadPiece(r, p).tokens = Append(r.tokens, x)
<1> DEFINE More(T) == \E x \in TokenSet : x.at = p.at /\ T = Append(r.tokens, x)
<1>1. ASSUME NEW type \in Plain \cup {"string"} PROVE More(Token(r, p, type).tokens)
  <2> DEFINE x == [type |-> type, at |-> p.at]
  <2>1. x \in TokenSet /\ x.at = p.at
    BY DEF TokenSet, Piece
  <2>2. Token(r, p, type).tokens = Append(r.tokens, x)
    BY DEF Token, Readers
  <2> QED BY <2>1, <2>2
<1>2. Token(r, p, "string") \in Readers
  BY TokenType
<1>3. [Token(r, p, "string") EXCEPT !.within = "string"].tokens = Token(r, p, "string").tokens
  BY <1>2 DEF Readers
<1>4. "name" \in Plain
  BY DEF Plain
<1>5. ReadCode(r, p).tokens = r.tokens \/ More(ReadCode(r, p).tokens)
  <2> HIDE DEF More
  <2>1. CASE p.kind \in Plain
    BY <1>1, <2>1 DEF ReadCode, Plain
  <2>2. CASE p.kind \in {"exit", "help"}
    BY <1>1, <1>4, <2>2 DEF ReadCode, Plain
  <2>3. CASE p.kind = "quote"
    BY <1>1, <1>3, <2>3 DEF ReadCode, Plain
  <2>4. CASE p.kind \in {"newline", "dashes", "open", "close", "bom", "odd"}
    BY <2>4 DEF ReadCode, Plain, Readers
  <2>5. p.kind \in Kinds
    BY DEF Piece
  <2> QED BY <2>1, <2>2, <2>3, <2>4, <2>5 DEF Kinds
<1>6. r.within \in Within /\ \A w : [r EXCEPT !.within = w].tokens = r.tokens
  BY DEF Readers
<1> HIDE DEF More
<1>7. ReadPiece(r, p).tokens = r.tokens \/ ReadPiece(r, p) = ReadCode(r, p)
  BY <1>6 DEF ReadPiece, Within
<1>8. ReadPiece(r, p).tokens = r.tokens \/ More(ReadPiece(r, p).tokens)
  BY <1>5, <1>7
<1> QED BY <1>8 DEF More

LEMMA TokensInOrder ==
  ASSUME NEW s \in Seq(Piece), NEW lo \in Nat, NEW hi \in Nat, lo <= hi, Spread(s, lo, hi)
  PROVE  Spread(Reading(Reader, s).tokens, lo, hi)
<1> DEFINE part(i) == SubSeq(s, 1, i)
           T(i) == Reading(Reader, part(i)).tokens
           S == {i \in 0..Len(s) : Spread(T(i), lo, EndOf(s, i, lo))}
<1>1. Len(s) \in Nat /\ \A i \in 1..Len(s) : s[i].at \in Nat
  BY PiecesHavePlaces
<1>2. 0 \in S
  <2>1. part(0) = <<>> /\ 0 \in 0..Len(s)
    BY <1>1
  <2>4. Reading(Reader, part(0)) = Reader
    BY <2>1, ReadingNothing, ReaderType
  <2>2. T(0) = <<>>
    BY <2>4 DEF Reader
  <2>3. Spread(<<>>, lo, EndOf(s, 0, lo))
    BY DEF Spread
  <2> HIDE DEF T
  <2> QED BY <2>1, <2>2, <2>3
<1>3. ASSUME NEW i \in 1..Len(s), i - 1 \in S PROVE i \in S
  <2> DEFINE q == part(i - 1)
             p == s[i]
             r == Reading(Reader, q)
             m == EndOf(s, i - 1, lo)
  <2>1. q \in Seq(Piece) /\ p \in Piece /\ part(i) = Append(q, p) /\ i \in 0..Len(s)
    BY PrefixGrows
  <2>2. Spread(r.tokens, lo, m)
    BY <1>3
  <2>3. m \in Nat /\ lo <= m /\ m < p.at /\ lo < p.at /\ p.at \in Nat
    <3>1. CASE i = 1
      BY <1>1, <3>1 DEF EndOf, Spread
    <3>2. CASE i # 1
      <4>1. i - 1 \in 1..Len(s) /\ i - 1 < i
        BY <1>1, <3>2
      <4>2. lo < s[i - 1].at /\ s[i - 1].at < s[i].at /\ s[i - 1].at \in Nat /\ s[i].at \in Nat
        BY <1>1, <4>1 DEF Spread
      <4> QED BY <4>1, <4>2 DEF EndOf
    <3> QED BY <3>1, <3>2
  <2>4. EndOf(s, i, lo) = p.at
    BY <1>1 DEF EndOf
  <2> HIDE DEF q, p, m, part
  <2>5. r \in Readers /\ Reading(Reader, Append(q, p)) = ReadPiece(r, p)
    BY <2>1, ReaderType, ReadingType, ReadingOneMore
  <2>6. r.tokens \in Seq(TokenSet)
    BY <2>5 DEF Readers
  <2> HIDE DEF r
  <2> DEFINE t == r.tokens
  <2>7. Spread(ReadPiece(r, p).tokens, lo, p.at)
    <3>1. CASE ReadPiece(r, p).tokens = t
      <4>1. \A j \in 1..Len(t) : t[j].at \in Nat
        BY <2>6, TokensHavePlaces
      <4> HIDE DEF t
      <4>2. Spread(t, lo, p.at)
        BY <2>2, <2>3, <4>1 DEF Spread, t
      <4> QED BY <3>1, <4>2
    <3>2. ASSUME NEW x \in TokenSet, x.at = p.at, ReadPiece(r, p).tokens = Append(t, x)
          PROVE  Spread(ReadPiece(r, p).tokens, lo, p.at)
      <4>1. Spread(Append(t, x), lo, x.at)
        <5> HIDE DEF t
        <5>1. t \in Seq(TokenSet) /\ Spread(t, lo, m) /\ m < x.at
          BY <2>2, <2>3, <2>6, <3>2 DEF t
        <5> QED BY <2>3, <5>1, OneMorePlace
      <4> QED BY <3>2, <4>1
    <3> QED BY <2>1, <2>5, <3>1, <3>2, TokensOfPiece
  <2>8. Spread(T(i), lo, EndOf(s, i, lo))
    BY <2>1, <2>4, <2>5, <2>7
  <2> QED BY <2>1, <2>8
<1>4. \A i \in 0..Len(s) : i \in S
  <2> HIDE DEF S
  <2> QED BY <1>1, <1>2, <1>3, PlaceByPlace
<1>5. Spread(T(Len(s)), lo, EndOf(s, Len(s), lo))
  BY <1>1, <1>4
<1>6. part(Len(s)) = s
  OBVIOUS
<1>7. EndOf(s, Len(s), lo) <= hi /\ EndOf(s, Len(s), lo) \in Nat
  BY <1>1 DEF EndOf, Spread
<1> DEFINE U == Reading(Reader, s).tokens
           e == EndOf(s, Len(s), lo)
<1>8. U \in Seq(TokenSet)
  BY ReaderType, ReadingType DEF Readers
<1>9. Spread(U, lo, e)
  BY <1>5, <1>6
<1>10. \A j \in 1..Len(U) : U[j].at \in Nat
  BY <1>8, TokensHavePlaces
<1> HIDE DEF U, e
<1>11. Spread(U, lo, hi)
  BY <1>7, <1>9, <1>10 DEF Spread, e
<1> QED BY <1>11 DEF U

LEMMA StatementsOneMore ==
  ASSUME NEW s \in Seq(TokenSet), NEW x \in TokenSet
  PROVE  Statements(Append(s, x)) = Begin(Statements(s), x)
<1> DEFINE none == <<>>
<1>1. none \in Seq(Position) /\ Append(s, x) \in Seq(TokenSet)
  OBVIOUS
<1>2. Statements(Append(s, x)) = Run(BeginStep, none, Append(s, x))
      /\ Statements(s) = Run(BeginStep, none, s)
  BY <1>1, StatementsAreRun
<1> HIDE DEF none
<1>3. Run(BeginStep, none, Append(s, x)) = BeginStep[Run(BeginStep, none, s)][x]
  BY <1>1, BeginMachine, RunAppend
<1>4. Statements(s) \in Seq(Position)
  BY StatementsType
<1> QED BY <1>2, <1>3, <1>4, BeginMachine

LEMMA StatementsInOrder ==
  ASSUME NEW s \in Seq(TokenSet), NEW lo \in Nat, NEW hi \in Nat, lo <= hi, Spread(s, lo, hi)
  PROVE  Rising(Statements(s), lo, hi)
<1> DEFINE part(i) == SubSeq(s, 1, i)
           B(i) == Statements(part(i))
           S == {i \in 0..Len(s) : Rising(B(i), lo, EndOf(s, i, lo))}
<1>1. Len(s) \in Nat /\ \A i \in 1..Len(s) : s[i].at \in Nat
  BY TokensHavePlaces
<1>2. 0 \in S
  <2>1. part(0) = <<>> /\ 0 \in 0..Len(s) /\ <<>> \in Seq(TokenSet)
    BY <1>1
  <2>2. Statements(part(0)) = Run(BeginStep, <<>>, <<>>)
    BY <2>1, StatementsAreRun
  <2>3. B(0) = <<>>
    BY <2>2, RunOfNothing
  <2>4. Rising(<<>>, lo, EndOf(s, 0, lo))
    BY DEF Rising
  <2> HIDE DEF B
  <2> QED BY <2>1, <2>3, <2>4
<1>3. ASSUME NEW i \in 1..Len(s), i - 1 \in S PROVE i \in S
  <2> DEFINE q == part(i - 1)
             x == s[i]
             b == Statements(q)
             m == EndOf(s, i - 1, lo)
  <2>1. q \in Seq(TokenSet) /\ x \in TokenSet /\ part(i) = Append(q, x) /\ i \in 0..Len(s)
    BY PrefixGrows
  <2>2. Rising(b, lo, m)
    BY <1>3
  <2>3. m \in Nat /\ lo <= m /\ m < x.at /\ lo < x.at /\ x.at \in Nat
    <3>1. CASE i = 1
      BY <1>1, <3>1 DEF EndOf, Spread
    <3>2. CASE i # 1
      <4>1. i - 1 \in 1..Len(s) /\ i - 1 < i
        BY <1>1, <3>2
      <4>2. lo < s[i - 1].at /\ s[i - 1].at < s[i].at /\ s[i - 1].at \in Nat /\ s[i].at \in Nat
        BY <1>1, <4>1 DEF Spread
      <4> QED BY <4>1, <4>2 DEF EndOf
    <3> QED BY <3>1, <3>2
  <2>4. EndOf(s, i, lo) = x.at
    BY <1>1 DEF EndOf
  <2> HIDE DEF q, x, m, part
  <2>5. b \in Seq(Position) /\ Statements(Append(q, x)) = Begin(b, x)
    BY <2>1, StatementsType, StatementsOneMore
  <2> HIDE DEF b
  <2> DEFINE y == x.at
  <2>6. y \in Position
    BY <2>1 DEF TokenSet, Position
  <2> HIDE DEF y
  <2>7. Rising(Append(b, y), lo, y)
    <3>1. y \in Nat /\ m < y
      BY <2>3 DEF y
    <3> QED BY <2>2, <2>3, <2>5, <2>6, <3>1, OneMoreNumber
  <2>8. Rising(b, lo, y)
    <3>1. \A j \in 1..Len(b) : b[j] \in Nat
      BY <2>5 DEF Position
    <3>2. m < y /\ y \in Nat
      BY <2>3 DEF y
    <3> QED BY <2>2, <2>3, <3>1, <3>2 DEF Rising
  <2>9. Rising(Begin(b, x), lo, y)
    BY <2>7, <2>8 DEF Begin, y
  <2>10. Rising(B(i), lo, EndOf(s, i, lo))
    BY <2>1, <2>4, <2>5, <2>9 DEF y
  <2> QED BY <2>1, <2>10
<1>4. \A i \in 0..Len(s) : i \in S
  <2> HIDE DEF S
  <2> QED BY <1>1, <1>2, <1>3, PlaceByPlace
<1>5. Rising(B(Len(s)), lo, EndOf(s, Len(s), lo))
  BY <1>1, <1>4
<1>6. part(Len(s)) = s
  OBVIOUS
<1>7. EndOf(s, Len(s), lo) <= hi /\ EndOf(s, Len(s), lo) \in Nat
  BY <1>1 DEF EndOf, Spread
<1> DEFINE U == Statements(s)
           e == EndOf(s, Len(s), lo)
<1>8. U \in Seq(Position)
  BY StatementsType
<1>9. Rising(U, lo, e)
  BY <1>5, <1>6
<1>10. \A j \in 1..Len(U) : U[j] \in Nat
  BY <1>8 DEF Position
<1> HIDE DEF U, e
<1>11. Rising(U, lo, hi)
  BY <1>7, <1>9, <1>10 DEF Rising, e
<1> QED BY <1>11 DEF U

LEMMA ParseInOrder ==
  ASSUME NEW s \in Seq(Piece), NEW lo \in Nat, NEW hi \in Nat, lo <= hi, Spread(s, lo, hi)
  PROVE  Rising(Parse(s).statements, lo, hi)
<1> DEFINE u == WithoutMark(s)
           T == Reading(Reader, u).tokens
<1>1. u \in Seq(Piece)
  BY MarkSkipped
<1>2. Spread(u, lo, hi)
  <2>1. CASE u = s
    BY <2>1
  <2>2. CASE u = Tail(s) /\ s # <<>>
    <3>1. /\ Len(u) = Len(s) - 1 /\ Len(s) \in Nat \ {0}
          /\ \A i \in 1..Len(u) : u[i] = s[i + 1]
      BY <2>2, EmptySeq
    <3>2. \A i \in 1..Len(u) : i + 1 \in 1..Len(s)
      BY <3>1
    <3> HIDE DEF u
    <3>3. ASSUME NEW i \in 1..Len(u) PROVE lo < u[i].at /\ u[i].at <= hi
      BY <3>1, <3>2 DEF Spread
    <3>4. ASSUME NEW i \in 1..Len(u), NEW j \in 1..Len(u), i < j PROVE u[i].at < u[j].at
      <4>1. i + 1 < j + 1 /\ i + 1 \in 1..Len(s) /\ j + 1 \in 1..Len(s)
        BY <3>1, <3>2, <3>4
      <4>2. s[i + 1].at < s[j + 1].at
        BY <4>1 DEF Spread
      <4> QED BY <3>1, <4>2
    <3> QED BY <3>3, <3>4 DEF Spread
  <2> QED BY <2>1, <2>2 DEF WithoutMark
<1>3. T \in Seq(TokenSet)
  BY <1>1, ReaderType, ReadingType DEF Readers
<1>4. Parse(s).statements = Statements(T)
  BY DEF Parse, Tokenize, Read
<1> HIDE DEF u
<1>5. Spread(T, lo, hi)
  BY <1>1, <1>2, TokensInOrder
<1> HIDE DEF T
<1> QED BY <1>3, <1>4, <1>5, StatementsInOrder
=============================================================================
