----------------------------- MODULE MCSettings -----------------------------
(* Settings with two networks, one by its deletion, and short strings. *)
EXTENDS Settings

MCSsids == {<< >>, <<65>>, <<66>>}
MCPasses == {<< >>, <<97, 98>>, <<1>>}
MCFiles == {<<1, 2>>, <<3>>}
MCPrefs == {[SSID |-> << >>, PASS |-> << >>], [SSID |-> <<67>>, PASS |-> << >>]}
=============================================================================
