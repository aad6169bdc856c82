----------------------------- MODULE MCConsole -----------------------------
(* Console with a few inputs of every kind. *)
EXTENDS Console

\* a, A, 8, CTRL+B, cursor left, an escape alone, backspace and TAB
MCLines == {<<\h61>>, <<\h41>>, <<\h38>>, <<2>>, <<27, 91, 68>>, <<27>>, <<127>>, <<9>>}

\* nothing, cursor left, STOP, Fn+B and +
MCCards == {0, \hB4, \h1B, \hAA, \h2B}

Sample(x, y, press, a, b) == [x |-> x, y |-> y, press |-> press, a |-> a, b |-> b]

\* The stick at rest, at its ends and on the limits, alone and with buttons.
MCSamples ==
  {Sample(120, 120, 0, FALSE, FALSE), Sample(40, 120, 0, FALSE, FALSE),
   Sample(80, 120, 0, FALSE, FALSE), Sample(200, 200, 0, FALSE, FALSE),
   Sample(160, 160, 0, FALSE, TRUE), Sample(120, 200, 1, TRUE, FALSE),
   Sample(0, 0, 0, FALSE, FALSE)}

Key(mods, key) == [mods |-> mods, key |-> key]

\* No key, a, the cursor keys left and right, the 6 of the ten-key pad, kana and
\* TAB, some with SHIFT or CTRL.
MCReports ==
  {Key({}, 0), Key({"shift"}, 0), Key({}, \h04), Key({"ctrl"}, \h04), Key({}, KEY_LEFT),
   Key({"shift"}, KEY_LEFT), Key({}, \h4F), Key({}, \h5E), Key({}, KEY_KANA), Key({}, \h2B)}
=============================================================================
