------------------------------- MODULE MCVrtc -------------------------------
(* Vrtc with short frames: the proportions of the constants are those of    *)
(* the machine (steps shorter than slices and longer ones, a line that      *)
(* takes several steps after its DMA), the figures are small.               *)
EXTENDS Vrtc

\* Steps that meet the end of a line exactly, by one clock more, by more.
MCStepTs == {1, 4}

\* ocw1 and ocw2 hide and show the text, ocw5 the cursor.
MCCmdBytes == {0, 32, 128, 129}
=============================================================================
