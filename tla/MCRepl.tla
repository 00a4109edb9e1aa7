------------------------------- MODULE MCRepl -------------------------------
(***************************************************************************)
(* Lines for TLC: whole statements, halves of statements, strings and      *)
(* comments that hold a semicolon or are left open, the commands, a blank  *)
(* line, a byte order mark, and the first part of a line longer than       *)
(* INTERACTIVE_LINE_MAX.                                                   *)
(***************************************************************************)
EXTENDS Repl

SelectAll == <<"select", "star", "from", "name">>
SelectBy  == SelectAll \o <<"where", "name", "compare">>
InsertOne == <<"insert", "into", "name", "dot", "name", "lparen", "name", "rparen",
               "values", "lparen", "number", "rparen">>

MCLines == {
  <<"newline">>,
  <<"exit", "newline">>,
  <<"help", "newline">>,
  SelectAll \o <<"semicolon", "newline">>,
  SelectBy \o <<"newline">>,
  InsertOne \o <<"semicolon">> \o SelectAll,
  <<"where", "name", "compare", "name", "semicolon", "newline">>,
  <<"quote", "semicolon", "quote", "newline">>,
  <<"quote", "quote", "semicolon", "newline">>,
  <<"quote", "newline">>,
  <<"dashes", "semicolon", "newline">>,
  <<"dashes", "quote">>,
  <<"open", "newline">>,
  <<"close", "semicolon", "newline">>,
  <<"bom">> \o SelectAll \o <<"semicolon", "newline">> }

MCCommandLines == UNION {[1..n -> Arguments] : n \in 0..4}
=============================================================================
