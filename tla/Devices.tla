------------------------------ MODULE Devices ------------------------------
(***************************************************************************)
(* The program's OUT and IN instructions as _n80_iowrite and _n80_ioread   *)
(* hand them out to display, calendar, PCG and tape. The devices share     *)
(* nothing, so a run works with one of them.                               *)
(***************************************************************************)
EXTENDS Crtc, Calendar, Pcg, Tape

CONSTANT Outs   \* OUT instructions <<port, value>> a program of each kind uses

Uses == {"display", "calendar", "timer", "characters", "tape"}

\* The ports of the display take the bytes Crtc names for them.
ForDisplay(port, v) ==
  /\ port \div 16 = 3 => v \in DataBytes
  /\ port \div 16 = 5 => v \in IF port % 2 = 1 THEN CmdBytes ELSE DataBytes
  /\ port \div 16 = 6 => v \in DmaBytes

ASSUME DevicesAssumption ==
  /\ DOMAIN Outs = Uses
  /\ \A u \in Uses : /\ Outs[u] \subseteq (0..255) \X (0..255)
                     /\ \A out \in Outs[u] : ForDisplay(out[1], out[2])

VARIABLE uses   \* what the program works with

devicesVars == <<crtcVars, calendarVars, pcgVars, tapeVars, uses>>

DevicesInit == CrtcInit /\ CalendarInit /\ PcgInit /\ TapeInit /\ uses \in Uses

\* Ports 0x30, 0x50 and 0x60
DisplayPort(port, v) ==
  \/ port \div 16 = 3 /\ Mode(v)
  \/ port \div 16 = 5 /\ port % 2 = 1 /\ Cmd(v)
  \/ port \div 16 = 5 /\ port % 2 = 0 /\ Data(v)
  \/ port \div 16 = 6 /\ port % 16 = 4 /\ DmacCh2(v)
  \/ port \div 16 = 6 /\ port % 16 = 8 /\ DmacCmd(v)

\* OUT: the high digit of the port selects the device. A write to port 0x20 goes
\* to the file on the card, which is not read back.
iowrite ==
  /\ \E out \in Outs[uses] :
       LET port == out[1]
           v == out[2]
       IN \/ DisplayPort(port, v) /\ UNCHANGED <<calendarVars, pcgVars, tapeVars>>
          \/ /\ port \div 16 = 0 /\ PcgPort(port % 16, v)
             /\ UNCHANGED <<crtcVars, calendarVars, tapeVars>>
          \/ port \div 16 = 1 /\ Out10(v) /\ UNCHANGED <<crtcVars, pcgVars, tapeVars>>
          \/ /\ port \div 16 = 2
             /\ IF port % 2 = 1 THEN cmd(v) ELSE UNCHANGED tapeVars
             /\ UNCHANGED <<crtcVars, calendarVars, pcgVars>>
          \/ port \div 16 = 4 /\ Out40(v) /\ UNCHANGED <<crtcVars, pcgVars, tapeVars>>
  /\ UNCHANGED uses

\* IN 0x20 (the even ports from 0x20); no other IN changes anything.
ioread == uses = "tape" /\ read /\ UNCHANGED <<crtcVars, calendarVars, pcgVars, uses>>

\* The main thread, with the Z80 thread asleep.
selectCMTFile ==
  /\ uses = "tape"
  /\ \E file \in TapeFiles : InsertTape(file)
  /\ UNCHANGED <<crtcVars, calendarVars, pcgVars, uses>>

DevicesNext == iowrite \/ ioread \/ selectCMTFile

DevicesSpec == DevicesInit /\ [][DevicesNext]_devicesVars
=============================================================================
