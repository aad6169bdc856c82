------------------------------- MODULE Machine -------------------------------
(***************************************************************************)
(* The four threads of the emulator and how they keep out of each other's  *)
(* way: the Z80 thread runs the CPU, the display thread draws, the web     *)
(* thread takes requests, and the main thread polls the web's mailbox and  *)
(* the buttons, loads programs and tapes, shows the menu and switches the  *)
(* web server.                                                             *)
(*                                                                         *)
(* Before the main thread touches what the others use it raises            *)
(* suspendMachine and sleeps: nobody acknowledges. What makes this safe is *)
(* time alone, so the model has a clock: a pass of the Z80 loop and a      *)
(* frame take at most so long, a sleep at least so long.                   *)
(*                                                                         *)
(* What a web request says, and how it gets from the web thread to the     *)
(* main thread, is the subject of Mailbox; here the main thread finds a    *)
(* command that loads, or none, as it may.                                 *)
(***************************************************************************)
EXTENDS Naturals

CONSTANTS
  PassMax,    \* the longest pass of the Z80 thread's loop
  FrameMax,   \* the longest frame of the display thread
  ShortWait,  \* the sleep before the menu and the server (100 ms)
  LoadWait    \* the sleep before a load (1000 ms)

\* The figures the code counts on; the code checks none of them.
ASSUME MachineAssumption ==
  /\ PassMax \in Nat /\ FrameMax \in Nat /\ ShortWait \in Nat /\ LoadWait \in Nat
  /\ PassMax < LoadWait
  /\ FrameMax < ShortWait /\ FrameMax < LoadWait

VARIABLES
  intFlag,         \* the program is to end
  suspendMachine,  \* the machine is to hold still
  needDrawFlag,    \* a frame is asked for
  webStarted,      \* the web server runs
  zpc, zAge,       \* the Z80 thread: where it is, how long in this pass
  dpc, dAge,       \* the display thread: where it is, how long in this frame
  wpc,             \* the web thread: where it is
  mpc,             \* the main thread: where it is
  goal,            \*   what it will do when it has slept
  wait,            \*   how long it has still to sleep
  back,            \*   where it goes on after a load
  fresh,           \* a loaded program's entry awaits its first step
  panel,           \* what the panel shows: the machine's picture or the menu
  saved            \* the settings are saved and the program is over

z80Vars == <<zpc, zAge>>
dispVars == <<dpc, dAge>>
mainVars == <<mpc, goal, wait, back, suspendMachine, webStarted, saved>>
vars == <<intFlag, needDrawFlag, wpc, fresh, panel, z80Vars, dispVars, mainVars>>
-----------------------------------------------------------------------------
(* z80_thread_func *)

Z80Unchanged == UNCHANGED <<intFlag, wpc, panel, dispVars, mainVars>>

Z80End == /\ zpc = "check" /\ intFlag
          /\ zpc' = "ended"
          /\ UNCHANGED <<zAge, needDrawFlag, fresh>> /\ Z80Unchanged

\* A pass begins: whatever is loaded starts to run. A suspended thread only
\* naps and looks again.
Z80Pass == /\ zpc = "check" /\ ~intFlag /\ ~suspendMachine
           /\ zpc' = "pass" /\ zAge' = 0
           /\ fresh' = FALSE
           /\ UNCHANGED needDrawFlag /\ Z80Unchanged

\* It ends, in the blanking interval or elsewhere.
Z80PassEnd == /\ zpc = "pass"
              /\ zpc' = "check" /\ zAge' = 0
              /\ UNCHANGED <<needDrawFlag, fresh>> /\ Z80Unchanged

Z80Vsync == /\ zpc = "pass"
            /\ zpc' = "check" /\ zAge' = 0
            /\ needDrawFlag' = TRUE
            /\ UNCHANGED fresh /\ Z80Unchanged

\* HALT or an illegal instruction: the thread is over, the others go on.
Z80Halt == /\ zpc = "pass"
           /\ zpc' = "ended" /\ zAge' = 0
           /\ UNCHANGED <<needDrawFlag, fresh>> /\ Z80Unchanged
-----------------------------------------------------------------------------
(* disp_thread_func *)

DispUnchanged == UNCHANGED <<intFlag, wpc, fresh, z80Vars, mainVars>>

DispEnd == /\ dpc = "check" /\ intFlag
           /\ dpc' = "ended"
           /\ UNCHANGED <<dAge, needDrawFlag, panel>> /\ DispUnchanged

\* Mutant: suspension is not looked at.
DispFrameAnyway ==
  /\ dpc = "check" /\ ~intFlag /\ needDrawFlag
  /\ dpc' = "frame" /\ dAge' = 0
  /\ UNCHANGED <<needDrawFlag, panel>> /\ DispUnchanged

\* A frame begins; with none asked for, or suspended, the thread naps.
DispFrame == /\ dpc = "check" /\ ~intFlag /\ needDrawFlag /\ ~suspendMachine
             /\ dpc' = "frame" /\ dAge' = 0
             /\ UNCHANGED <<needDrawFlag, panel>> /\ DispUnchanged

\* Mutant: the picture is drawn and not pushed.
DispFrameUnpushed ==
  /\ dpc = "frame"
  /\ dpc' = "check" /\ dAge' = 0
  /\ needDrawFlag' = FALSE
  /\ UNCHANGED panel /\ DispUnchanged

\* The picture is pushed to the panel, and whatever was asked for meanwhile
\* counts as served.
DispFrameEnd == /\ dpc = "frame"
                /\ dpc' = "check" /\ dAge' = 0
                /\ needDrawFlag' = FALSE
                /\ panel' = "machine"
                /\ DispUnchanged
-----------------------------------------------------------------------------
(* webserver_thread_func *)

WebUnchanged == UNCHANGED <<needDrawFlag, fresh, panel, z80Vars, dispVars, mainVars>>

\* Mutant: the thread never looks at intFlag.
WebEndNever == FALSE /\ UNCHANGED vars

WebEnd == /\ wpc = "serve" /\ intFlag
          /\ wpc' = "ended"
          /\ UNCHANGED intFlag /\ WebUnchanged

\* The handlers setWiFi() and deleteWiFi() end the program.
WebExit == /\ wpc = "serve" /\ ~intFlag /\ webStarted
           /\ intFlag' = TRUE
           /\ UNCHANGED wpc /\ WebUnchanged
-----------------------------------------------------------------------------
(* n80main, and the functions it calls *)

MainUnchanged == UNCHANGED <<intFlag, needDrawFlag, wpc, z80Vars, dispVars>>

\* The machine is asked to hold still, then it is slept a while.
Suspend(g, ms) == /\ suspendMachine' = TRUE
                  /\ goal' = g
                  /\ wait' = ms
                  /\ mpc' = "settle"
                  /\ UNCHANGED <<webStarted, saved, fresh, panel>>
                  /\ MainUnchanged

GoTo(pc) == /\ mpc' = pc
            /\ UNCHANGED <<goal, wait, back, suspendMachine, webStarted, fresh, panel>>
            /\ MainUnchanged

\* The loop runs its body only while the machine is not suspended.
Awake == ~suspendMachine

MainJoin == mpc = "top" /\ intFlag /\ GoTo("join") /\ UNCHANGED saved

\* All other threads joined, m5n80_main returns and setup() saves the settings.
SaveConfig == /\ mpc = "join"
              /\ zpc = "ended" /\ dpc = "ended" /\ wpc = "ended"
              /\ saved' = TRUE
              /\ GoTo("over")

\* processWebCommand() finds no command, or one that does not load.
NoLoad == mpc = "top" /\ ~intFlag /\ Awake /\ GoTo("buttonB") /\ UNCHANGED saved

\* selectN80File() or selectCMTFile() for the web.
LoadForWeb == /\ mpc = "top" /\ ~intFlag /\ Awake
              /\ back' = "buttonB"
              /\ Suspend("load", LoadWait)

\* Button B: the last program again.
LoadAgain == mpc = "buttonB" /\ back' = "buttonC" /\ Suspend("load", LoadWait)

\* Button B, long: the menu.
OpenMenu == mpc = "buttonB" /\ back' = "buttonC" /\ Suspend("menu", ShortWait)

NoButtonB == mpc = "buttonB" /\ GoTo("buttonC") /\ UNCHANGED saved

\* Button C: the web server, on or off.
SwitchServer == mpc = "buttonC" /\ Suspend("server", ShortWait) /\ UNCHANGED back

NoButtonC == mpc = "buttonC" /\ GoTo("top") /\ UNCHANGED saved

\* Mutant: nobody sleeps.
SleptAtOnce == /\ mpc = "settle"
               /\ mpc' = goal
               /\ panel' = IF goal = "menu" THEN "menu" ELSE panel
               /\ UNCHANGED <<goal, wait, back, suspendMachine, webStarted, saved, fresh>>
               /\ MainUnchanged

\* The sleep is over; the menu appears at once.
Slept == /\ mpc = "settle" /\ wait = 0
         /\ mpc' = goal
         /\ panel' = IF goal = "menu" THEN "menu" ELSE panel
         /\ UNCHANGED <<goal, wait, back, suspendMachine, webStarted, saved, fresh>>
         /\ MainUnchanged

\* A program is chosen in the menu, to be loaded.
MenuChoice == mpc = "menu" /\ Suspend("load", LoadWait) /\ UNCHANGED back

\* Mutant: a file that is not there leaves the machine suspended.
LoadSuspended ==
  /\ mpc = "load"
  /\ \/ fresh' = TRUE /\ suspendMachine' = FALSE
     \/ UNCHANGED <<fresh, suspendMachine>>
  /\ mpc' = back
  /\ UNCHANGED <<goal, wait, back, webStarted, saved, panel>>
  /\ MainUnchanged

\* The file is read and the CPU set to the program's entry; a tape, or a file
\* that is not there, leaves the CPU alone. Then the machine is resumed.
Load == /\ mpc = "load"
        /\ \/ fresh' = TRUE
           \/ UNCHANGED fresh
        /\ suspendMachine' = FALSE
        /\ mpc' = back
        /\ UNCHANGED <<goal, wait, back, webStarted, saved, panel>>
        /\ MainUnchanged

\* Mutant: a connection that fails leaves the machine suspended.
ServerFailsSuspended ==
  /\ mpc = "server"
  /\ \/ webStarted' = ~webStarted /\ suspendMachine' = FALSE
     \/ ~webStarted /\ UNCHANGED <<webStarted, suspendMachine>>
  /\ mpc' = "top"
  /\ UNCHANGED <<goal, wait, back, saved, fresh, panel>>
  /\ MainUnchanged

\* startWebServer() may fail, stopWebServer() does not; both resume the machine.
Server == /\ mpc = "server"
          /\ \/ webStarted' = ~webStarted
             \/ ~webStarted /\ UNCHANGED webStarted
          /\ suspendMachine' = FALSE
          /\ mpc' = "top"
          /\ UNCHANGED <<goal, wait, back, saved, fresh, panel>>
          /\ MainUnchanged
-----------------------------------------------------------------------------
(* Time passes, but never beyond the longest pass and the longest frame. *)

Tick == /\ zpc = "pass" => zAge < PassMax
        /\ dpc = "frame" => dAge < FrameMax
        /\ zAge' = IF zpc = "pass" THEN zAge + 1 ELSE 0
        /\ dAge' = IF dpc = "frame" THEN dAge + 1 ELSE 0
        /\ wait' = IF wait > 0 THEN wait - 1 ELSE 0
        /\ UNCHANGED <<intFlag, needDrawFlag, wpc, fresh, panel, zpc, dpc, mpc, goal, back,
                       suspendMachine, webStarted, saved>>
-----------------------------------------------------------------------------
Init ==
  /\ intFlag = FALSE /\ suspendMachine = FALSE /\ needDrawFlag = FALSE /\ webStarted = FALSE
  /\ zpc = "check" /\ zAge = 0
  /\ dpc = "check" /\ dAge = 0
  /\ wpc = "serve"
  /\ mpc = "top" /\ goal = "load" /\ wait = 0 /\ back = "buttonB"
  /\ fresh = FALSE /\ panel = "machine" /\ saved = FALSE

Z80Thread == Z80End \/ Z80Pass \/ Z80PassEnd \/ Z80Vsync

DispThread == DispEnd \/ DispFrame \/ DispFrameEnd

Main == MainJoin \/ SaveConfig \/ NoLoad \/ NoButtonB \/ NoButtonC \/ Slept \/ Load \/ Server

User == LoadForWeb \/ LoadAgain \/ OpenMenu \/ SwitchServer \/ MenuChoice \/ WebExit

Next == Z80Thread \/ Z80Halt \/ DispThread \/ WebEnd \/ Main \/ User \/ Tick

Spec == Init /\ [][Next]_vars

\* Time passes and every thread is scheduled; nobody need press a button. No
\* user presses one in every gap for ever: the machine, resumed again and
\* again, runs some time, comes to a blanking interval (Vrtc: FramesGoOn), and
\* the picture is drawn.
FairSpec ==
  /\ Spec
  /\ WF_vars(Tick) /\ WF_vars(Z80Thread) /\ WF_vars(DispThread)
  /\ WF_vars(WebEnd) /\ WF_vars(Main)
  /\ SF_vars(Z80Pass) /\ SF_vars(Z80Vsync) /\ SF_vars(DispFrame)
-----------------------------------------------------------------------------
MachineTypeOK ==
  /\ intFlag \in BOOLEAN /\ suspendMachine \in BOOLEAN /\ needDrawFlag \in BOOLEAN
  /\ webStarted \in BOOLEAN /\ fresh \in BOOLEAN /\ saved \in BOOLEAN
  /\ zpc \in {"check", "pass", "ended"} /\ zAge \in 0 .. PassMax
  /\ dpc \in {"check", "frame", "ended"} /\ dAge \in 0 .. FrameMax
  /\ wpc \in {"serve", "ended"}
  /\ mpc \in {"top", "buttonB", "buttonC", "settle", "menu", "load", "server", "join", "over"}
  /\ goal \in {"load", "menu", "server"}
  /\ wait \in Nat
  /\ back \in {"buttonB", "buttonC"}
  /\ panel \in {"machine", "menu"}

(***************************************************************************)
(* While a file is read into the machine's memory and the CPU's registers  *)
(* are set, the Z80 thread is in no pass of its loop and the display       *)
(* thread in no frame, although neither has said so: the sleep outlasts    *)
(* whatever was under way when suspendMachine was raised.                  *)
(***************************************************************************)
LoadAlone == mpc = "load" => zpc # "pass" /\ dpc # "frame"

(***************************************************************************)
(* The menu and the server's messages go to the panel without the display  *)
(* mutex; while they do, the display thread is in no frame.                *)
(***************************************************************************)
PanelAlone == mpc \in {"menu", "server"} => dpc # "frame"

(***************************************************************************)
(* Whoever suspends the machine resumes it, on every way out: the main     *)
(* thread, the only one that could, never comes back to its loop with the  *)
(* machine suspended, where it would nap for ever.                         *)
(***************************************************************************)
NeverStuckSuspended == mpc \in {"top", "buttonB", "buttonC"} => ~suspendMachine

(***************************************************************************)
(* A program that was loaded gets to run, unless the menu is open, or the  *)
(* Z80 thread is over: a HALT ends it for good and a later load changes    *)
(* nothing.                                                                *)
(***************************************************************************)
LoadedProgramRuns == fresh ~> ~fresh \/ mpc = "menu" \/ zpc = "ended"

(***************************************************************************)
(* After the menu the machine's picture comes back, unless nobody is left  *)
(* to ask for it.                                                          *)
(***************************************************************************)
PictureComesBack ==
  panel = "menu" ~> panel = "machine" \/ mpc = "menu" \/ zpc = "ended" \/ intFlag

(***************************************************************************)
(* When the program is told to end, every thread ends and the settings are *)
(* saved, unless the menu is open, which does not look at intFlag.         *)
(***************************************************************************)
ExitSaves == intFlag ~> saved \/ mpc = "menu"
=============================================================================
