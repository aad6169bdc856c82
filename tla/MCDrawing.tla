------------------------------ MODULE MCDrawing ------------------------------
(* Drawing with lines of four cells and three attributes. *)
EXTENDS Drawing

\* Green, red with graphic; plain, blinking and underlined, secret and reversed
\* with upper line. As mono attributes the last two are others again.
MCAttrs == {{3, 7}, {3, 4, 6}, {}, {1, 5}, {0, 2, 4, 7}}

\* Columns in any order, repeated, at the end of the line and past it.
MCAreas ==
  {<<[col |-> c1, attr |-> a1], [col |-> c2, attr |-> a2], [col |-> c3, attr |-> a3]>> :
     <<c1, c2, c3, a1, a2, a3>> \in
       {0, 1, 4} \X {0, 2, 3} \X {1, 2, 5} \X MCAttrs \X MCAttrs \X MCAttrs}

\* Two characters; the first one changes under a cursor past the line.
MCTextLines == {[j \in Cells |-> IF j % 2 = 0 THEN {0} ELSE {6}]}

\* A character has the bits of a run that depends on character, set and row.
Glyph(char, from, row) ==
  LET n == Cardinality(char) + row + (CASE from = "font" -> 0 [] from = "graph" -> 2 [] from = "pcg" -> 4)
  IN IF row = 0 THEN n..7 ELSE {n, 7}

MCFont == [<<char, from, row>> \in {{0}, {6}, {0, 1, 2, 5}} \X {"font", "graph", "pcg"} \X {0, 1} |->
             Glyph(char, from, row)]

MCCarries == {[color |-> {}, func |-> {}], [color |-> {2, 4}, func |-> {7}]}

Setting(variant, mono, wide, lines25, reverse, blink, cursor, pcg) ==
  [variant |-> variant, mono |-> mono, wide |-> wide, lines25 |-> lines25,
   reverse |-> reverse, blink |-> blink, cursor |-> cursor, pcg |-> pcg]

\* Each drawing function of both variants, and between them every other choice.
MCSettings ==
  {Setting("m5", FALSE, FALSE, TRUE, FALSE, TRUE, 1, FALSE),
   Setting("m5", TRUE, FALSE, FALSE, TRUE, FALSE, 1, TRUE),
   Setting("m5", FALSE, TRUE, TRUE, FALSE, FALSE, NoCursor, TRUE),
   Setting("m5", FALSE, TRUE, FALSE, FALSE, TRUE, 4, FALSE),
   Setting("atom", FALSE, FALSE, TRUE, TRUE, TRUE, 3, FALSE),
   Setting("atom", TRUE, FALSE, FALSE, FALSE, TRUE, NoCursor, TRUE),
   Setting("atom", FALSE, TRUE, TRUE, FALSE, TRUE, 0, FALSE),
   Setting("atom", FALSE, TRUE, FALSE, FALSE, FALSE, 2, FALSE)}
=============================================================================
