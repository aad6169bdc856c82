-------------------------------- MODULE Vrtc --------------------------------
(***************************************************************************)
(* Time in the emulated machine: the Z80 thread's loop, which alternates a *)
(* CPU step (or a slice of the time the CPU loses to the DMA of the text   *)
(* window) with the vertical and horizontal timing of the picture, and     *)
(* paces itself against the host's clock.                                  *)
(*                                                                         *)
(* One pass of the loop is three actions, in the order of the code: the    *)
(* step, blanking(T), and the pacing. Between them the other threads may   *)
(* run: a controller suspends and resumes the machine, the display thread  *)
(* finishes a refresh.                                                     *)
(***************************************************************************)
EXTENDS Crtc

CONSTANTS
  ScanLines,   \* scan lines displayed in a frame (200)
  LineT,       \* clocks of a scan line (250)
  VbiT,        \* clocks of the vertical blanking interval (14016)
  DmaT,        \* clocks the DMA takes from the CPU at each line's end (67)
  SliceT,      \* the most of them one pass of the loop lets go by (20)
  StepTs,      \* clocks a CPU step may take, wait states included
  SyncT,       \* clocks between two looks at the host's clock (39936)
  BlinkFrames  \* frames between two changes of the cursor's blink (30)

\* The longest CPU step must leave the DMA time to finish within a line.
ASSUME VrtcAssumption ==
  /\ ScanLines \in Nat \ {0}
  /\ LineT \in Nat /\ VbiT \in Nat
  /\ DmaT \in Nat \ {0}
  /\ SliceT \in Nat \ {0}
  /\ BlinkFrames \in Nat \ {0}
  /\ StepTs \subseteq Nat \ {0}
  /\ SyncT \in Nat
  /\ DmaT < VbiT
  /\ DmaT + SliceT <= LineT
  /\ \A t \in StepTs : DmaT + t <= LineT /\ t <= SyncT
  /\ SliceT <= SyncT

VARIABLES
  vsync_line,      \* scan lines displayed of this frame
  hsync_state,     \* clocks into the scan line
  vsync_state,     \* clocks into the vertical blanking interval
  vrtc_flag,       \* what port 0x40 shows of the interval
  vrtc_blink,      \* frames since the cursor's blink turned over
  penarty,         \* _penarty of N80DMAC: clocks the CPU still has to wait
  suspendMachine,  \* raised by whoever wants the machine to hold still
  needDrawFlag,    \* asks the display thread for a refresh
  zpc,             \* where the Z80 thread is in its loop
  T,               \* clocks of the step in progress
  state,           \* clocks since the last look at the host's clock
  elapsed          \* history: clocks since the vertical blanking began

frameVars == <<vsync_line, hsync_state, vsync_state, vrtc_flag, vrtc_blink>>
timeVars == <<frameVars, penarty, suspendMachine, needDrawFlag, zpc, T, state, elapsed>>
vars == <<crtcVars, timeVars>>

ZPoints == {"head", "vrtc", "sync", "halted"}

Blanked == 255   \* the flag's value in the vertical blanking interval
-----------------------------------------------------------------------------
(* z80_thread_func, up to the clocks of the step *)

\* The machine is held: the loop throws its time accounts away and waits.
Suspended ==
  /\ zpc = "head" /\ suspendMachine
  /\ penarty' = 0
  /\ state' = 0
  /\ UNCHANGED <<crtcVars, frameVars, suspendMachine, needDrawFlag, zpc, T, elapsed>>

\* Mutant: a slice of time is let go by, one clock of it is paid.
DmaWaitUnpaid ==
  /\ zpc = "head" /\ ~suspendMachine /\ penarty > 0
  /\ T' = SliceT
  /\ penarty' = penarty - 1
  /\ zpc' = "vrtc"
  /\ UNCHANGED <<crtcVars, frameVars, suspendMachine, needDrawFlag, state, elapsed>>

\* The CPU waits for the DMA, a slice at a time.
DmaWait ==
  LET slice == IF penarty > SliceT THEN SliceT ELSE penarty
  IN /\ zpc = "head" /\ ~suspendMachine /\ penarty > 0
     /\ T' = slice
     /\ penarty' = penarty - slice
     /\ zpc' = "vrtc"
     /\ UNCHANGED <<crtcVars, frameVars, suspendMachine, needDrawFlag, state, elapsed>>

\* cpu.step(): an instruction of some length, an OUT to the display or any other.
CpuStep ==
  /\ zpc = "head" /\ ~suspendMachine /\ penarty = 0
  /\ Out \/ UNCHANGED crtcVars
  /\ T' \in StepTs
  /\ zpc' = "vrtc"
  /\ UNCHANGED <<frameVars, penarty, suspendMachine, needDrawFlag, state, elapsed>>

\* cpu.step() reports HALT or an illegal instruction: the thread ends.
CpuHalt ==
  /\ zpc = "head" /\ ~suspendMachine /\ penarty = 0
  /\ zpc' = "halted"
  /\ UNCHANGED <<crtcVars, frameVars, penarty, suspendMachine, needDrawFlag, T, state, elapsed>>
-----------------------------------------------------------------------------
(* VRTC.c *)

Displaying == vsync_line < ScanLines

\* Mutant: the blink turns over and no line is marked.
EdgeUnmarked ==
  /\ vrtc_blink' = (vrtc_blink + 1) % BlinkFrames
  /\ cur_blink' = IF vrtc_blink + 1 >= BlinkFrames THEN 1 - cur_blink ELSE cur_blink
  /\ UNCHANGED attrchg

\* renew(): every BlinkFrames frames the cursor's blink turns over, and the
\* line of an enabled cursor is marked.
Edge ==
  IF vrtc_blink + 1 >= BlinkFrames
  THEN /\ vrtc_blink' = 0
       /\ cur_blink' = 1 - cur_blink
       /\ Set(IF cur_enable = 1 THEN {cursor.row} ELSE {})
  ELSE /\ vrtc_blink' = vrtc_blink + 1
       /\ UNCHANGED <<cur_blink, attrchg>>

\* The DMA steals its clocks at a line's end while the text is visible.
LinePenalty == IF text_vis = {} THEN DmaT ELSE 0

WithinLine ==
  /\ Displaying /\ hsync_state + T < LineT
  /\ hsync_state' = hsync_state + T
  /\ elapsed' = elapsed + T
  /\ UNCHANGED <<crtcVars, vsync_line, vsync_state, vrtc_flag, vrtc_blink, penarty,
                 needDrawFlag>>

\* Mutant: the clocks past the line's end are lost.
EndOfLineFromZero ==
  /\ Displaying /\ hsync_state + T >= LineT /\ vsync_line + 1 < ScanLines
  /\ vsync_line' = vsync_line + 1
  /\ hsync_state' = 0
  /\ penarty' = LinePenalty
  /\ elapsed' = elapsed + T
  /\ UNCHANGED <<crtcVars, vsync_state, vrtc_flag, vrtc_blink, needDrawFlag>>

EndOfLine ==
  /\ Displaying /\ hsync_state + T >= LineT /\ vsync_line + 1 < ScanLines
  /\ vsync_line' = vsync_line + 1
  /\ hsync_state' = hsync_state + T - LineT
  /\ penarty' = LinePenalty
  /\ elapsed' = elapsed + T
  /\ UNCHANGED <<crtcVars, vsync_state, vrtc_flag, vrtc_blink, needDrawFlag>>

\* The last line's end starts the blanking interval and asks for a refresh.
BlankingStart ==
  /\ Displaying /\ hsync_state + T >= LineT /\ vsync_line + 1 >= ScanLines
  /\ vsync_line' = vsync_line + 1
  /\ hsync_state' = hsync_state + T
  /\ penarty' = LinePenalty
  /\ vsync_state' = 0
  /\ vrtc_flag' = Blanked
  /\ Edge
  /\ needDrawFlag' = TRUE
  /\ elapsed' = 0
  /\ UNCHANGED <<prev_cmd, param_count, attr_reverse, text_vis, cursor, cur_enable,
                 modeVars, dmaVars>>

WithinBlanking ==
  /\ ~Displaying /\ vsync_state + T <= VbiT
  /\ vsync_state' = vsync_state + T
  /\ elapsed' = elapsed + T
  /\ UNCHANGED <<crtcVars, vsync_line, hsync_state, vrtc_flag, vrtc_blink, penarty,
                 needDrawFlag>>

\* Mutant: the flag of port 0x40 stays up.
BlankingEndFlagLeft ==
  /\ ~Displaying /\ vsync_state + T > VbiT
  /\ vsync_state' = vsync_state + T
  /\ vsync_line' = 0
  /\ hsync_state' = vsync_state + T - VbiT
  /\ elapsed' = elapsed + T
  /\ UNCHANGED <<crtcVars, vrtc_flag, vrtc_blink, penarty, needDrawFlag>>

BlankingEnd ==
  /\ ~Displaying /\ vsync_state + T > VbiT
  /\ vsync_state' = vsync_state + T
  /\ vsync_line' = 0
  /\ hsync_state' = vsync_state + T - VbiT
  /\ vrtc_flag' = 0
  /\ elapsed' = elapsed + T
  /\ UNCHANGED <<crtcVars, vrtc_blink, penarty, needDrawFlag>>

\* blanking(T), and the request for a refresh that its result raises.
Blanking ==
  /\ zpc = "vrtc"
  /\ WithinLine \/ EndOfLine \/ BlankingStart \/ WithinBlanking \/ BlankingEnd
  /\ zpc' = "sync"
  /\ UNCHANGED <<suspendMachine, T, state>>

\* The rest of the pass: after SyncT clocks the thread sleeps out its time.
Pace ==
  /\ zpc = "sync"
  /\ state' = IF state + T >= SyncT THEN state + T - SyncT ELSE state + T
  /\ zpc' = "head"
  /\ UNCHANGED <<crtcVars, frameVars, penarty, suspendMachine, needDrawFlag, T, elapsed>>
-----------------------------------------------------------------------------
(* The other threads, as far as this one notices them *)

Suspend == /\ ~suspendMachine /\ suspendMachine' = TRUE
           /\ UNCHANGED <<crtcVars, frameVars, penarty, needDrawFlag, zpc, T, state, elapsed>>

Resume == /\ suspendMachine /\ suspendMachine' = FALSE
          /\ UNCHANGED <<crtcVars, frameVars, penarty, needDrawFlag, zpc, T, state, elapsed>>

\* The display thread takes the request back when it has drawn.
Drawn == /\ needDrawFlag /\ needDrawFlag' = FALSE
         /\ UNCHANGED <<crtcVars, frameVars, penarty, suspendMachine, zpc, T, state, elapsed>>
-----------------------------------------------------------------------------
Init ==
  /\ CrtcInit
  /\ vsync_line = 0 /\ hsync_state = 0 /\ vsync_state = 0
  /\ vrtc_flag = 0 /\ vrtc_blink = 0
  /\ penarty = 0
  /\ suspendMachine = FALSE
  /\ needDrawFlag = FALSE
  /\ zpc = "head"
  /\ T = 0
  /\ state = 0
  /\ elapsed = VbiT   \* the first frame starts as if an interval had just ended

Z80Thread == Suspended \/ DmaWait \/ CpuStep \/ Blanking \/ Pace

Next == Z80Thread \/ CpuHalt \/ Suspend \/ Resume \/ Drawn

Spec == Init /\ [][Next]_vars

\* The threads are scheduled, and whoever suspends the machine resumes it; that
\* a resumed machine runs before it is suspended again is what the 100 ms and
\* more between two uses of the menus give it.
FairSpec == Spec /\ WF_vars(Z80Thread) /\ SF_vars(DmaWait \/ CpuStep) /\ WF_vars(Resume)
-----------------------------------------------------------------------------
VrtcTypeOK ==
  /\ CrtcTypeOK
  /\ vsync_line \in 0 .. ScanLines
  /\ hsync_state \in Nat /\ vsync_state \in Nat
  /\ vrtc_flag \in {0, Blanked}
  /\ vrtc_blink \in 0 .. BlinkFrames - 1
  /\ penarty \in 0 .. DmaT
  /\ suspendMachine \in BOOLEAN
  /\ needDrawFlag \in BOOLEAN
  /\ zpc \in ZPoints
  /\ T \in Nat
  /\ state \in Nat
  /\ elapsed \in Nat

(***************************************************************************)
(* The CPU is never starved by the display: when a line ends and the DMA's *)
(* clocks for it are charged, the CPU has served those of the line before, *)
(* whatever mix of steps and slices filled the line. (blanking() assigns   *)
(* _penarty and would drop what was left of it.)                           *)
(***************************************************************************)
PenaltyServed == vsync_line' = vsync_line + 1 => penarty = 0

NoPenaltyLost == [][PenaltyServed]_vars

(***************************************************************************)
(* The picture keeps its rate: from the start of one blanking interval to  *)
(* the next there are VbiT + ScanLines * LineT clocks, and less than one   *)
(* step more; the interval itself lasts VbiT clocks and at most one step   *)
(* more. The program sees both ends of it by polling port 0x40, however    *)
(* its steps fall on the lines and however often it was suspended.         *)
(***************************************************************************)
FrameInTime ==
  /\ vrtc_flag = 0 /\ vrtc_flag' = Blanked =>
       elapsed + T - (VbiT + ScanLines * LineT) \in 0 .. T - 1
  /\ vrtc_flag = Blanked /\ vrtc_flag' = 0 =>
       elapsed' - VbiT \in 1 .. T

FrameTiming == [][FrameInTime]_vars

(***************************************************************************)
(* Unless a HALT ends the Z80 thread, blanking intervals begin and end for *)
(* ever: a program that waits for one at port 0x40 gets it, and the        *)
(* display thread is asked for a refresh again and again.                  *)
(***************************************************************************)
FramesGoOn ==
  \/ <>(zpc = "halted")
  \/ []<>(vrtc_flag = Blanked) /\ []<>(vrtc_flag = 0)
=============================================================================
