------------------------------ MODULE MCRefresh ------------------------------
(* Refresh with two lines and two values of everything: a line that keeps   *)
(* the colour carried into it and one that sets colour and a blinking       *)
(* function, a colour mode and a mono one.                                  *)
EXTENDS Refresh

CONSTANTS t1, t2, red, white, blinks, colour, mono

Plain == [color |-> Keep, func |-> Keep, mono |-> Keep]
Painted == [color |-> red, func |-> blinks, mono |-> blinks]

MCTexts == {t1, t2}
MCAttrs == {Plain, Painted}
MCBlinking == {blinks}
MCModes == {colour, mono}
MCMonoModes == {mono}
MCStart == [text |-> t1, attr |-> Plain, mode |-> colour]
MCCarryZero == [color |-> white, func |-> [func |-> Keep, hidden |-> FALSE]]
=============================================================================
