----------------------------- MODULE MCRecords -----------------------------
(***************************************************************************)
(* Files for TLC: words of four bytes as in the code, limits of two fields *)
(* and three bytes, text files with every escape, both line ends, a blank  *)
(* line, a last line without an end, and one that is shorter than a word.  *)
(***************************************************************************)
EXTENDS Records

One == <<49>>      \* "1"
Long == <<49, 50, 51, 52>>

(* The lines an older version of the program wrote.                        *)
Escaped(b) == CASE b = NL -> <<Backslash, 110>> [] b = CR -> <<Backslash, 114>>
                [] b \in {Bar, Backslash} -> <<Backslash, b>> [] OTHER -> <<b>>
EscapeField(f) == FlattenSeq([i \in DOMAIN f |-> Escaped(f[i])])
Line(row) == FlattenSeq([i \in DOMAIN row |->
               (IF i = 1 THEN <<>> ELSE <<Bar>>) \o EscapeField(row[i])])

Text(s, end, last) ==
  [rows  |-> s,
   bytes |-> FlattenSeq([i \in DOMAIN s |->
               Line(s[i]) \o IF i = Len(s) THEN last ELSE end])]

LF == <<NL>>
CRLF == <<CR, NL>>

Fields == {<<>>, <<50>>, <<NL, 110>>, <<CR, Bar>>, <<Backslash>>, <<Backslash, 110>>}
TextRowsOf == {<<One, f>> : f \in Fields}

MCTextFiles ==
  {Text(<<a, b>>, e[1], e[2]) :
     a \in TextRowsOf, b \in {<<One, <<Backslash>>>>, <<Long, One>>, <<<<51>>>>},
     e \in {<<LF, LF>>, <<CRLF, <<>>>>, <<LF \o LF, LF>>}}
  \cup {Text(<<r>>, LF, e) :
          r \in {<<One>>, <<One, <<>>>>, <<One, <<50>>>>, <<One, One, One>>}, e \in {LF, <<>>}}
  \* backslashes that escape nothing, a carriage return within a line
  \cup {[rows  |-> <<<<<<49, Backslash, 50>>, <<Backslash>>>>>>,
         bytes |-> <<49, Backslash, 50, Bar, CR, Backslash, NL>>],
        [rows |-> <<>>, bytes |-> <<NL, NL, CR, NL>>]}

MCNewRows == {<<One, <<>>>>, <<<<50>>, <<NL, Bar, Backslash>>>>, <<Long>>}
=============================================================================
