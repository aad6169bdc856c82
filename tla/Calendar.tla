------------------------------ MODULE Calendar ------------------------------
(***************************************************************************)
(* The calendar uPD1990 behind two output ports: port 0x10 holds a command *)
(* and a data bit, port 0x40 the strobe and the clock among bits that      *)
(* belong to others (the beeper). The chip acts on falling edges, of which *)
(* the code keeps track in copies of the two bits. The bit shifted out is  *)
(* read back in port 0x40.                                                 *)
(***************************************************************************)
EXTENDS Integers, Sequences

CONSTANTS
  RegBits,   \* bits of the shift register (40)
  Times,     \* times of day: sequences of bits, the lowest first
  MaxTape    \* bound: bits shifted through the register between two readings

ASSUME CalendarAssumption ==
  /\ RegBits \in Nat \ {0}
  /\ Times \subseteq Seq({0, 1}) /\ \A t \in Times : Len(t) = RegBits
  /\ MaxTape \in Nat

VARIABLES
  o10, o40,      \* the ports: bytes
  cstrb, cclk,   \* _cstrb, _cclk: strobe and clock as last seen
  shiften,       \* _shiften
  sreg,          \* _sec, _min, _hour, _day, _month: the lowest bit first
  i40,           \* bit 0x10 of the input port
  tape,          \* history: the time read last and the bits shifted in since
  falls,         \* history: falling clock edges since, in the shift state
  commanded      \* history: the bit shown in i40 is that of the register

calendarVars == <<o10, o40, cstrb, cclk, shiften, sreg, i40, tape, falls, commanded>>

Bit(byte, mask) == (byte \div mask) % 2

STROBE == 2  \* bits of port 0x40
CLK == 4

CalendarInit ==
  /\ o10 = 0 /\ o40 = 0
  /\ cstrb = 0 /\ cclk = 0 /\ shiften = FALSE
  /\ sreg \in Times /\ i40 = 0
  /\ tape = sreg /\ falls = 0 /\ commanded = FALSE

\* OUT 0x10: command and data wait for an edge.
Out10(v) ==
  /\ o10' = v
  /\ UNCHANGED <<o40, cstrb, cclk, shiften, sreg, i40, tape, falls, commanded>>

Command == o10 % 8
DataIn == Bit(o10, 8)

\* Commands 0 and 2 hold the register, 1 has it shift, 3 sets it to the time of
\* day; 4 to 7 change nothing.
Strobed(v) == cstrb = 1 /\ Bit(v, STROBE) = 0
Enabled(v) == IF Strobed(v) /\ Command \in 0..3 THEN Command = 1 ELSE shiften
Reading(v) == Strobed(v) /\ Command = 3

\* What the bit is, by the definition of the chip: an edge between two values of
\* the port, in the shift state.
Falls(v) == Enabled(v) /\ Bit(o40, CLK) = 1 /\ Bit(v, CLK) = 0

\* Mutant: the clock is followed only while the register shifts.
ClockFollowed(v) == IF Enabled(v) THEN Bit(v, CLK) ELSE cclk

\* _cclk after a write: followed in either state.
ClockSeen(v) == Bit(v, CLK)

\* OUT 0x40
Out40(v) ==
  LET shifts == Enabled(v) /\ cclk = 1 /\ Bit(v, CLK) = 0
  IN /\ Len(tape) < RegBits + MaxTape \/ ~shifts
     /\ o40' = v
     /\ cstrb' = Bit(v, STROBE)
     /\ cclk' = ClockSeen(v)
     /\ shiften' = Enabled(v)
     /\ \E now \in Times :
          sreg' = IF Reading(v) THEN now
                  ELSE IF shifts THEN Append(Tail(sreg), DataIn) ELSE sreg
     /\ i40' = IF shifts \/ (Strobed(v) /\ Command \in {2, 3}) THEN sreg'[1] ELSE i40
     /\ tape' = IF Reading(v) THEN sreg'
                ELSE IF shifts THEN Append(tape, DataIn) ELSE tape
     /\ falls' = IF Reading(v) THEN 0 ELSE IF Falls(v) THEN falls + 1 ELSE falls
     /\ commanded' = (commanded \/ shifts \/ (Strobed(v) /\ Command \in {2, 3}))
     /\ UNCHANGED o10
-----------------------------------------------------------------------------
(***************************************************************************)
(* The time read is the time shifted out: after any mixture of writes to   *)
(* the two ports, strobes and clocks in one write or apart, clocks while   *)
(* the register holds, and writes for the beeper, the register has moved   *)
(* one bit per falling edge in the shift state, and the bit in port 0x40   *)
(* is the one that is due (_n80_time_mode follows both bits itself and     *)
(* returns early while the register holds).                                *)
(***************************************************************************)
TimeShiftedOut ==
  /\ falls + RegBits <= Len(tape)
  /\ sreg = SubSeq(tape, falls + 1, falls + RegBits)
  /\ commanded => i40 = tape[falls + 1]
=============================================================================
