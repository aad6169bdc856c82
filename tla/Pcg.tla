--------------------------------- MODULE Pcg ---------------------------------
(***************************************************************************)
(* The programmable characters and the i8253 timer that came with them, on *)
(* ports 0x00 to 0x0f: a byte and its address for the character memory,    *)
(* and a counter that is loaded by half, in an order the mode register     *)
(* sets.                                                                   *)
(***************************************************************************)
EXTENDS Integers, TLC

CONSTANT Hz   \* clock of the CPU (3993600)

ASSUME PcgAssumption == Hz \in Nat \ {0}

NoHalf == -1
Never == -1

VARIABLES
  pcg_dat, pcg_lo,   \* what waits for the write to port 2
  pcg,               \* redefined bytes of the upper 128 characters, by offset;
                     \* the others are those of the font
  pcg_on,            \* pcg_mode
  timmr_lo, timmr_hi, timmr_mode, timmr_cont,
  pcg_freq,
  half,              \* history: the low half of a load that is not complete
  counter            \* history: the counter as the i8253 has loaded it last

charVars == <<pcg_dat, pcg_lo, pcg, pcg_on>>
timerVars == <<timmr_lo, timmr_hi, timmr_mode, timmr_cont, pcg_freq, half, counter>>
pcgVars == <<charVars, timerVars>>

PcgInit ==
  /\ pcg_dat = 0 /\ pcg_lo = 0 /\ pcg = << >> /\ pcg_on = FALSE
  /\ timmr_lo = 0 /\ timmr_hi = 0 /\ timmr_mode = 0 /\ timmr_cont = 0
  /\ pcg_freq = 0 /\ half = NoHalf /\ counter = Never

\* set_pcg_freq: rounded, at least 24, and cut to 16 bits.
Freq(timer) ==
  LET t == IF timer = 0 THEN 1 ELSE timer
      freq == (2 * Hz + t) \div (2 * t)
  IN (IF freq < 24 THEN 24 ELSE freq) % 65536

\* Ports 0 to 3: a byte, its address, the write, the switch.
Character(port, dat) ==
  \/ port = 0 /\ pcg_dat' = dat /\ UNCHANGED <<pcg_lo, pcg, pcg_on>>
  \/ port = 1 /\ pcg_lo' = dat /\ UNCHANGED <<pcg_dat, pcg, pcg_on>>
  \/ /\ port = 2
     /\ LET offset == (dat % 4) * 256 + pcg_lo
        IN pcg' = IF (dat \div 16) % 2 = 0 THEN pcg
                  ELSE IF (dat \div 32) % 2 = 1
                  THEN [o \in DOMAIN pcg \ {offset} |-> pcg[o]]
                  ELSE (offset :> pcg_dat) @@ pcg
     /\ UNCHANGED <<pcg_dat, pcg_lo, pcg_on>>
  \/ port = 3 /\ pcg_on' = (dat % 4 # 0) /\ UNCHANGED <<pcg_dat, pcg_lo, pcg>>

\* Port 0x0c: half of the counter. The low half alone starts nothing.
Count(dat) ==
  /\ \/ /\ timmr_mode = 3 /\ timmr_cont = 2
        /\ timmr_lo' = dat /\ timmr_cont' = 1
        /\ UNCHANGED <<timmr_hi, pcg_freq>>
     \/ /\ timmr_mode = 3 /\ timmr_cont # 2
        /\ timmr_hi' = dat /\ timmr_cont' = 2
        /\ pcg_freq' = Freq(dat * 256 + timmr_lo)
        /\ UNCHANGED timmr_lo
     \/ /\ timmr_mode = 2
        /\ timmr_hi' = dat
        /\ pcg_freq' = Freq(dat * 256 + timmr_lo)
        /\ UNCHANGED <<timmr_lo, timmr_cont>>
     \/ timmr_mode = 1 /\ timmr_lo' = dat /\ UNCHANGED <<timmr_hi, timmr_cont, pcg_freq>>
     \/ timmr_mode = 0 /\ UNCHANGED <<timmr_lo, timmr_hi, timmr_cont, pcg_freq>>
  /\ half' = IF timmr_mode = 3 /\ half = NoHalf THEN dat ELSE NoHalf
  /\ counter' = IF timmr_mode = 3 /\ half # NoHalf THEN dat * 256 + half
                ELSE IF timmr_mode = 2 THEN dat * 256 ELSE counter
  /\ UNCHANGED <<timmr_mode, charVars>>

\* Mutant: a mode set again goes on with the half that was due.
ModeKeepsTurn(mode) == IF mode = 3 THEN (IF timmr_cont = 1 THEN 1 ELSE 2) ELSE IF mode = 0 THEN 0 ELSE 1

\* Which half is due after the mode register is written: 2 is the low one.
FirstTurn(mode) == IF mode = 3 THEN 2 ELSE IF mode = 0 THEN 0 ELSE 1

\* Port 0x0f: the mode register, for timer 0 only.
TimerMode(dat) ==
  LET mode == (dat \div 16) % 4
  IN /\ IF dat \div 64 # 0
        THEN UNCHANGED <<timmr_mode, timmr_cont, timmr_lo, half>>
        ELSE /\ timmr_mode' = mode
             /\ timmr_cont' = FirstTurn(mode)
             /\ timmr_lo' = IF mode \in {1, 2} THEN 0 ELSE timmr_lo
             /\ half' = NoHalf
     /\ UNCHANGED <<timmr_hi, pcg_freq, counter, charVars>>

\* _n80_pcg_mode; the other ports do nothing.
PcgPort(port, dat) ==
  \/ Character(port, dat) /\ UNCHANGED timerVars
  \/ port = 12 /\ Count(dat)
  \/ port = 15 /\ TimerMode(dat)
-----------------------------------------------------------------------------
(***************************************************************************)
(* The frequency is always that of one load of the counter: its halves are *)
(* never taken from two loads, whenever the mode register is written       *)
(* between them, for the timer's own modes or another timer (the turn of   *)
(* the halves is kept in a counter that the mode sets, and the low half in *)
(* a register that stays). Loads of the low half alone are left out: the   *)
(* code keeps the old frequency.                                           *)
(***************************************************************************)
FreqOfOneLoad == pcg_freq = IF counter = Never THEN 0 ELSE Freq(counter)
=============================================================================
