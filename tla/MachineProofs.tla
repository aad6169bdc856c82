---------------------------- MODULE MachineProofs ----------------------------
(***************************************************************************)
(* Machine: the sleep before a load or the menu is long enough, whatever   *)
(* the figures, as long as it outlasts a pass and a frame.                 *)
(*                                                                         *)
(* The properties are not inductive: that the sleep is over says nothing   *)
(* of the threads unless one knows how long it was and how far they had    *)
(* got. The invariant keeps the account: since the machine was suspended   *)
(* no pass and no frame has begun, so one that is still under way is at    *)
(* least as old as the part of the sleep that has been slept.              *)
(***************************************************************************)
EXTENDS Machine, TLAPS

Poll == {"top", "buttonB", "buttonC"}
Hold == {"settle", "menu", "load", "server"}

\* The machine is suspended exactly while the main thread uses it.
HoldSuspends == mpc \in Hold => suspendMachine

\* A pass under way is as old as the sleep, if it is a load that is slept for.
PassAccount == mpc = "settle" /\ goal = "load" /\ zpc = "pass" => zAge + wait >= LoadWait

\* So is a frame.
FrameAccount ==
  mpc = "settle" /\ dpc = "frame" =>
    dAge + wait >= (IF goal = "load" THEN LoadWait ELSE ShortWait)

IInv ==
  /\ MachineTypeOK
  /\ HoldSuspends /\ NeverStuckSuspended
  /\ PassAccount /\ FrameAccount
  /\ LoadAlone /\ PanelAlone

Waiting == LoadForWeb \/ LoadAgain \/ OpenMenu \/ SwitchServer \/ MenuChoice

Going == MainJoin \/ SaveConfig \/ NoLoad \/ NoButtonB \/ NoButtonC

-----------------------------------------------------------------------------
\* What the steps that suspend the machine have in common.
LEMMA WaitingStep ==
  ASSUME Waiting
  PROVE  /\ suspendMachine' = TRUE /\ mpc' = "settle"
         /\ \/ goal' = "load" /\ wait' = LoadWait
            \/ goal' \in {"menu", "server"} /\ wait' = ShortWait
         /\ back' \in {back, "buttonB", "buttonC"}
         /\ UNCHANGED <<webStarted, saved, fresh, panel, intFlag, needDrawFlag, wpc, zpc, zAge,
                        dpc, dAge>>
  BY DEF Waiting, LoadForWeb, LoadAgain, OpenMenu, SwitchServer, MenuChoice, Suspend,
         MainUnchanged, z80Vars, dispVars

\* What the steps that only go on have in common.
LEMMA GoingStep ==
  ASSUME Going
  PROVE  /\ \/ mpc = "top" /\ intFlag /\ mpc' = "join"
            \/ mpc = "top" /\ ~suspendMachine /\ mpc' = "buttonB"
            \/ mpc = "buttonB" /\ mpc' = "buttonC"
            \/ mpc = "buttonC" /\ mpc' = "top"
            \/ mpc = "join" /\ mpc' = "over"
         /\ saved' \in {saved, TRUE}
         /\ UNCHANGED <<goal, wait, back, suspendMachine, webStarted, fresh, panel, intFlag,
                        needDrawFlag, wpc, zpc, zAge, dpc, dAge>>
  BY DEF Going, MainJoin, SaveConfig, NoLoad, NoButtonB, NoButtonC, GoTo, Awake,
         MainUnchanged, z80Vars, dispVars

\* The steps, as the proofs divide them.
LEMMA Steps ==
  ASSUME [Next]_vars
  PROVE  \/ Z80Thread \/ Z80Halt \/ DispThread \/ WebEnd \/ WebExit
         \/ Waiting \/ Going \/ Slept \/ Load \/ Server \/ Tick \/ UNCHANGED vars
  BY DEF Next, Main, User, Waiting, Going

-----------------------------------------------------------------------------
LEMMA TypeStep ==
  ASSUME MachineTypeOK, [Next]_vars
  PROVE  MachineTypeOK'
<1> USE MachineAssumption DEF MachineTypeOK
<1>1. CASE Z80Thread \/ Z80Halt
  <2>1. zAge' \in {0, zAge} /\ zpc' \in {"check", "pass", "ended"}
    BY <1>1 DEF Z80Thread, Z80Halt, Z80End, Z80Pass, Z80PassEnd, Z80Vsync
  <2>2. needDrawFlag' \in BOOLEAN /\ fresh' \in BOOLEAN
    BY <1>1 DEF Z80Thread, Z80Halt, Z80End, Z80Pass, Z80PassEnd, Z80Vsync
  <2>3. UNCHANGED <<intFlag, wpc, panel, dpc, dAge, mpc, goal, wait, back, suspendMachine,
                    webStarted, saved>>
    BY <1>1 DEF Z80Thread, Z80Halt, Z80End, Z80Pass, Z80PassEnd, Z80Vsync, Z80Unchanged,
                dispVars, mainVars
  <2> QED BY <2>1, <2>2, <2>3
<1>2. CASE DispThread
  <2>1. dAge' \in {0, dAge} /\ dpc' \in {"check", "frame", "ended"}
    BY <1>2 DEF DispThread, DispEnd, DispFrame, DispFrameEnd
  <2>2. needDrawFlag' \in BOOLEAN /\ panel' \in {"machine", "menu"}
    BY <1>2 DEF DispThread, DispEnd, DispFrame, DispFrameEnd
  <2>3. UNCHANGED <<intFlag, wpc, fresh, zpc, zAge, mpc, goal, wait, back, suspendMachine,
                    webStarted, saved>>
    BY <1>2 DEF DispThread, DispEnd, DispFrame, DispFrameEnd, DispUnchanged, z80Vars, mainVars
  <2> QED BY <2>1, <2>2, <2>3
<1>3. CASE WebEnd \/ WebExit
  BY <1>3 DEF WebEnd, WebExit, WebUnchanged, z80Vars, dispVars, mainVars
<1>4. CASE Waiting
  BY <1>4, WaitingStep
<1>5. CASE Going
  BY <1>5, GoingStep
<1>6. CASE Slept \/ Load \/ Server
  BY <1>6 DEF Slept, Load, Server, MainUnchanged, z80Vars, dispVars
<1>7. CASE Tick
  <2>1. zAge' \in 0 .. PassMax
    BY <1>7 DEF Tick
  <2>2. dAge' \in 0 .. FrameMax
    BY <1>7 DEF Tick
  <2>3. wait' \in Nat
    BY <1>7 DEF Tick
  <2> QED BY <1>7, <2>1, <2>2, <2>3 DEF Tick
<1>8. CASE UNCHANGED vars
  BY <1>8 DEF vars, z80Vars, dispVars, mainVars
<1> QED BY <1>1, <1>2, <1>3, <1>4, <1>5, <1>6, <1>7, <1>8, Steps

-----------------------------------------------------------------------------
\* The machine is suspended whenever the main thread uses it, and resumed when
\* it goes back to its loop.
LEMMA SuspensionStep ==
  ASSUME IInv, [Next]_vars
  PROVE  HoldSuspends' /\ NeverStuckSuspended'
<1> USE DEF IInv, MachineTypeOK, HoldSuspends, NeverStuckSuspended, Hold
<1>1. CASE Z80Thread \/ Z80Halt \/ DispThread \/ WebEnd \/ WebExit \/ Tick \/ UNCHANGED vars
  <2>1. UNCHANGED <<mpc, suspendMachine>>
    BY <1>1 DEF Z80Thread, Z80Halt, Z80End, Z80Pass, Z80PassEnd, Z80Vsync, Z80Unchanged,
                DispThread, DispEnd, DispFrame, DispFrameEnd, DispUnchanged, WebEnd, WebExit,
                WebUnchanged, Tick, vars, mainVars
  <2> QED BY <2>1
<1>2. CASE Waiting
  BY <1>2, WaitingStep
<1>3. CASE Going
  BY <1>3, GoingStep
<1>4. CASE Slept
  BY <1>4 DEF Slept
<1>5. CASE Load \/ Server
  BY <1>5 DEF Load, Server
<1> QED BY <1>1, <1>2, <1>3, <1>4, <1>5, Steps

-----------------------------------------------------------------------------
\* A pass under way is as old as the sleep: it began before the suspension.
LEMMA PassStep ==
  ASSUME IInv, [Next]_vars
  PROVE  PassAccount' /\ (mpc' = "load" => zpc' # "pass")
<1> USE MachineAssumption
        DEF IInv, MachineTypeOK, HoldSuspends, Hold, PassAccount, LoadAlone
<1>1. CASE Z80Thread \/ Z80Halt
  <2>1. UNCHANGED <<mpc, goal, wait>>
    BY <1>1 DEF Z80Thread, Z80Halt, Z80End, Z80Pass, Z80PassEnd, Z80Vsync, Z80Unchanged,
                mainVars
  <2>2. zpc' = "pass" => mpc \notin Hold
    BY <1>1 DEF Z80Thread, Z80Halt, Z80End, Z80Pass, Z80PassEnd, Z80Vsync
  <2> QED BY <2>1, <2>2
<1>2. CASE DispThread \/ WebEnd \/ WebExit \/ UNCHANGED vars
  <2>1. UNCHANGED <<mpc, goal, wait, zpc, zAge>>
    BY <1>2 DEF DispThread, DispEnd, DispFrame, DispFrameEnd, DispUnchanged, WebEnd, WebExit,
                WebUnchanged, vars, mainVars, z80Vars
  <2> QED BY <2>1
<1>3. CASE Waiting
  BY <1>3, WaitingStep
<1>4. CASE Going
  BY <1>4, GoingStep
<1>5. CASE Slept
  BY <1>5 DEF Slept, MainUnchanged, z80Vars
<1>6. CASE Load \/ Server
  BY <1>6 DEF Load, Server
<1>7. CASE Tick
  BY <1>7 DEF Tick
<1> QED BY <1>1, <1>2, <1>3, <1>4, <1>5, <1>6, <1>7, Steps

-----------------------------------------------------------------------------
\* A frame under way is as old as the sleep.
LEMMA FrameStep ==
  ASSUME IInv, [Next]_vars
  PROVE  FrameAccount' /\ (mpc' \in {"load", "menu", "server"} => dpc' # "frame")
<1> USE MachineAssumption
        DEF IInv, MachineTypeOK, HoldSuspends, Hold, FrameAccount, LoadAlone, PanelAlone
<1>1. CASE DispThread
  <2>1. UNCHANGED <<mpc, goal, wait>>
    BY <1>1 DEF DispThread, DispEnd, DispFrame, DispFrameEnd, DispUnchanged, mainVars
  <2>2. dpc' = "frame" => mpc \notin Hold
    BY <1>1 DEF DispThread, DispEnd, DispFrame, DispFrameEnd
  <2> QED BY <2>1, <2>2
<1>2. CASE Z80Thread \/ Z80Halt \/ WebEnd \/ WebExit \/ UNCHANGED vars
  <2>1. UNCHANGED <<mpc, goal, wait, dpc, dAge>>
    BY <1>2 DEF Z80Thread, Z80Halt, Z80End, Z80Pass, Z80PassEnd, Z80Vsync, Z80Unchanged,
                WebEnd, WebExit, WebUnchanged, vars, mainVars, dispVars
  <2> QED BY <2>1
<1>3. CASE Waiting
  BY <1>3, WaitingStep
<1>4. CASE Going
  BY <1>4, GoingStep
<1>5. CASE Slept
  BY <1>5 DEF Slept, MainUnchanged, dispVars
<1>6. CASE Load \/ Server
  BY <1>6 DEF Load, Server
<1>7. CASE Tick
  BY <1>7 DEF Tick
<1> QED BY <1>1, <1>2, <1>3, <1>4, <1>5, <1>6, <1>7, Steps

-----------------------------------------------------------------------------
(***************************************************************************)
(* The account of the sleep holds of every run.                            *)
(***************************************************************************)
THEOREM SleepAccount == Spec => []IInv
<1>1. Init => IInv
  <2> SUFFICES ASSUME Init PROVE IInv
    OBVIOUS
  <2>1. zAge \in 0 .. PassMax /\ dAge \in 0 .. FrameMax /\ wait \in Nat
    BY MachineAssumption DEF Init
  <2>2. MachineTypeOK
    BY <2>1, Zenon DEF Init, MachineTypeOK
  <2>3. mpc = "top" /\ suspendMachine = FALSE
    BY DEF Init
  <2> QED
    BY <2>2, <2>3
       DEF IInv, HoldSuspends, Hold, NeverStuckSuspended, PassAccount, FrameAccount,
           LoadAlone, PanelAlone
<1>2. IInv /\ [Next]_vars => IInv'
  <2> SUFFICES ASSUME IInv, [Next]_vars PROVE IInv'
    OBVIOUS
  <2>1. MachineTypeOK'
    BY TypeStep DEF IInv
  <2>2. HoldSuspends' /\ NeverStuckSuspended'
    BY SuspensionStep
  <2>3. PassAccount' /\ (mpc' = "load" => zpc' # "pass")
    BY PassStep
  <2>4. FrameAccount' /\ (mpc' \in {"load", "menu", "server"} => dpc' # "frame")
    BY FrameStep
  <2>5. LoadAlone' /\ PanelAlone'
    BY <2>3, <2>4 DEF LoadAlone, PanelAlone
  <2> QED BY <2>1, <2>2, <2>3, <2>4, <2>5 DEF IInv
<1> QED BY <1>1, <1>2, PTL DEF Spec

(***************************************************************************)
(* The variables keep to their sets: no pass and no frame outlives its     *)
(* bound, and the threads are where their loops can be.                    *)
(***************************************************************************)
THEOREM MachineTypeCorrect == Spec => []MachineTypeOK
<1>1. IInv => MachineTypeOK
  BY DEF IInv
<1> QED BY <1>1, SleepAccount, PTL

(***************************************************************************)
(* While a program is loaded, the CPU and the display stand still, for     *)
(* every length of a pass and a frame below the sleep.                     *)
(***************************************************************************)
THEOREM LoadsAlone == Spec => []LoadAlone
<1>1. IInv => LoadAlone
  BY DEF IInv
<1> QED BY <1>1, SleepAccount, PTL

(***************************************************************************)
(* While the menu or the server's messages are shown, no frame is drawn    *)
(* over them.                                                              *)
(***************************************************************************)
THEOREM PanelsAlone == Spec => []PanelAlone
<1>1. IInv => PanelAlone
  BY DEF IInv
<1> QED BY <1>1, SleepAccount, PTL

(***************************************************************************)
(* The main thread never comes back to its loop with the machine           *)
(* suspended.                                                              *)
(***************************************************************************)
THEOREM SuspensionReturned == Spec => []NeverStuckSuspended
<1>1. IInv => NeverStuckSuspended
  BY DEF IInv
<1> QED BY <1>1, SleepAccount, PTL
=============================================================================
