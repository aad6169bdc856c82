-------------------------------- MODULE Tape --------------------------------
(***************************************************************************)
(* The tape recorder: a file in a buffer, read byte by byte and from its   *)
(* beginning again at its end. The main thread puts in another tape while  *)
(* the machine is suspended, between two reads of the program.             *)
(***************************************************************************)
EXTENDS Integers, Sequences

CONSTANTS
  TapeFiles,   \* contents of tape files: sequences of bytes
  MaxPlayed    \* bound: bytes read from one tape

ASSUME TapeAssumption == TapeFiles \subseteq Seq(0..255) /\ MaxPlayed \in Nat

VARIABLES
  cmt_buff,   \* the buffer, as much of it as was ever written
  buff,       \* _buff is set: a tape was put in
  size, index,
  reset,      \* _reset: the motor was switched on, the next read gives 0xff
  played,     \* history: what the program read of this tape
  inside      \* history: the tape

tapeVars == <<cmt_buff, buff, size, index, reset, played, inside>>

TapeInit ==
  /\ cmt_buff = << >> /\ buff = FALSE /\ size = 0 /\ index = 0 /\ reset = FALSE
  /\ played = << >> /\ inside = << >>

\* selectCMTFile: the file overwrites the beginning of the buffer.
InsertTape(file) ==
  /\ cmt_buff' = file \o SubSeq(cmt_buff, Len(file) + 1, Len(cmt_buff))
  /\ buff' = TRUE
  /\ size' = Len(file)
  /\ index' = 0
  /\ played' = << >> /\ inside' = file
  /\ UNCHANGED reset

\* OUT 0x21
cmd(v) ==
  /\ reset' = (reset \/ v = 64)
  /\ UNCHANGED <<cmt_buff, buff, size, index, played, inside>>

\* Mutant: the end of the tape is found one byte late.
HeadPast == IF index > size THEN 0 ELSE index

\* Where the next byte is read: at the end of the tape, its beginning.
HeadAt == IF index >= size THEN 0 ELSE index

\* IN 0x20. The byte read from a tape without bytes is what the buffer held.
read ==
  /\ Len(played) < MaxPlayed
  /\ \/ reset /\ reset' = FALSE /\ UNCHANGED <<index, played>>
     \/ /\ ~reset /\ buff
        /\ index' = HeadAt + 1
        /\ played' = Append(played, IF HeadAt < Len(cmt_buff) THEN cmt_buff[HeadAt + 1] ELSE 0)
        /\ UNCHANGED reset
     \/ ~reset /\ ~buff /\ UNCHANGED <<reset, index, played>>
  /\ UNCHANGED <<cmt_buff, buff, size, inside>>
-----------------------------------------------------------------------------
(***************************************************************************)
(* What the program reads is the tape inside: its bytes in order, none     *)
(* left out, twice or of a tape before, and from the beginning after its   *)
(* last, however often the motor is switched on (_n80_cmt_read and         *)
(* selectCMTFile share buffer, size and index). A tape without bytes is    *)
(* left out: it plays the first byte of the one before.                    *)
(***************************************************************************)
TapeInOrder ==
  inside # << >> => \A k \in 1..Len(played) : played[k] = inside[((k - 1) % Len(inside)) + 1]
=============================================================================
