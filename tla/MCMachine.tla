------------------------------ MODULE MCMachine ------------------------------
(* Machine with a clock of a few ticks: a pass and a frame take one tick at *)
(* most, the sleeps two and three, in the order of the real figures.        *)
EXTENDS Machine
=============================================================================
