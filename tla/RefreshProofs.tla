---------------------------- MODULE RefreshProofs ----------------------------
(***************************************************************************)
(* Proofs about Refresh for every number of lines and every contents: the  *)
(* mutex keeps the copy of a line whole, the marks keep a frame complete,  *)
(* and the display implements Screen.                                      *)
(***************************************************************************)
EXTENDS Refresh, SequenceTheorems, TLAPS

\* The display thread holds the mutex from EnterLine to LeaveLine, the Z80
\* thread for the time of a store.
MutexInv ==
  /\ vram_sync = "disp" <=> dpc \in {"check", "copy", "leave"}
  /\ vram_sync = "z80" <=> zpc = "store"

\* What is touched is marked for good; a pending change has marks to make.
MarkInv ==
  /\ zpc \in {"enter", "store"} => marks # << >>
  /\ \A l \in touched : attrchg[l] = 1
  /\ due \subseteq touched

OnLine == {"check", "copy", "leave", "color", "func", "cursor", "draw"}

\* The copy, as far as it has come.
CopyInv ==
  /\ dpc \in OnLine => i < Lines
  /\ dpc = "copy" => textcach = mem[i].text
  /\ dpc \in {"color", "func", "cursor", "draw"} => change_attr = 1
  /\ SnapshotWhole

\* The frame, as far as it has come; a line passed over was not due.
DueInv ==
  /\ dpc \in OnLine \cup {"line"} => \A l \in due : l < i => fb[l] # Black
  /\ dpc = "leave" /\ change_attr # 1 => i \notin due

IInv == RefreshTypeOK /\ MutexInv /\ MarkInv /\ CopyInv /\ DueInv
-----------------------------------------------------------------------------
LEMMA InitInv == Init => IInv
  <1> SUFFICES ASSUME Init
               PROVE  IInv
    OBVIOUS
  <1>0. 0 \in LineNos /\ 0 \in CursorRows /\ Lines \in Nat
    BY RefreshAssumption DEF RefreshAssumption, LineNos, CursorRows
  <1>1. env \in Envs /\ then \in Envs
    BY <1>0, RefreshAssumption DEF Init, Envs, RefreshAssumption
  <1>2. Z80TypeOK
    <2>1. store \in Stores
      BY <1>0, RefreshAssumption DEF Init, Stores, Keeping, RefreshAssumption
    <2>2. mem \in [LineNos -> Contents]
      BY RefreshAssumption DEF Init, Contents, RefreshAssumption
    <2>3. ops \in 0 .. MaxOps /\ attrchg \in [LineNos -> {0, 1}]
      BY RefreshAssumption DEF Init, RefreshAssumption
    <2>4. marks \in Seq(SUBSET LineNos) /\ touched \subseteq LineNos
      BY DEF Init
    <2> QED
      BY <1>1, <2>1, <2>2, <2>3, <2>4 DEF Init, Z80TypeOK
  <1>3. DispTypeOK
    <2>1. fb \in [LineNos -> Contents \cup {Black}] /\ lcd \in [LineNos -> Contents \cup {Black}]
      BY DEF Init, BlackFrame
    <2> QED
      BY <1>0, <2>1, RefreshAssumption DEF Init, DispTypeOK, RefreshAssumption
  <1>4. MutexInv /\ MarkInv /\ CopyInv /\ DueInv
    BY DEF Init, MutexInv, MarkInv, CopyInv, DueInv, SnapshotWhole, OnLine
  <1> QED
    BY <1>2, <1>3, <1>4 DEF Init, IInv, RefreshTypeOK

(***************************************************************************)
(* A change that begins touches nothing the display thread reads but env.  *)
(***************************************************************************)
LEMMA ChangeInv ==
  ASSUME IInv,
         NEW s \in Stores, NEW m \in Seq(SUBSET LineNos),
         NEW before \in Envs, NEW after \in Envs,
         Change(s, m, before, after)
  PROVE  IInv'
  <1>0. /\ UNCHANGED <<mem, attrchg, touched, vram_sync, needDrawFlag>>
        /\ UNCHANGED dispVars
        /\ zpc = "run" /\ zpc' \in {"enter", "after"}
        /\ zpc' = "enter" => marks' # << >>
        /\ store' = s /\ marks' = m /\ env' = before /\ then' = after
        /\ ops < MaxOps /\ ops' = ops + 1
    BY DEF Change
  <1>1. Z80TypeOK'
    BY <1>0, RefreshAssumption DEF IInv, RefreshTypeOK, Z80TypeOK, RefreshAssumption
  <1>2. DispTypeOK'
    BY <1>0 DEF IInv, RefreshTypeOK, DispTypeOK, dispVars, cacheVars, frameVars
  <1>3. MutexInv' /\ MarkInv' /\ CopyInv' /\ DueInv'
    BY <1>0 DEF IInv, MutexInv, MarkInv, CopyInv, DueInv, SnapshotWhole, OnLine, dispVars,
       cacheVars, frameVars
  <1> QED
    BY <1>0, <1>1, <1>2, <1>3 DEF IInv, RefreshTypeOK

LEMMA SetRowType == ASSUME NEW row PROVE SetRow(row) \in Seq(SUBSET LineNos)
  BY DEF SetRow

LEMMA ProgramInv == IInv /\ Program => IInv'
  <1> SUFFICES ASSUME IInv, Program
               PROVE  IInv'
    OBVIOUS
  <1>0. /\ env \in Envs /\ Keeping \in Stores
        /\ << >> \in Seq(SUBSET LineNos) /\ <<LineNos>> \in Seq(SUBSET LineNos)
    <2>1. 0 \in LineNos
      BY RefreshAssumption DEF RefreshAssumption, LineNos
    <2> QED
      BY <2>1, RefreshAssumption DEF IInv, RefreshTypeOK, Z80TypeOK, Keeping, Stores,
         RefreshAssumption
  <1>1. ASSUME NEW l \in LineNos, NEW t \in Texts, WriteText(l, t)
        PROVE  IInv'
    <2> DEFINE s == [Keeping EXCEPT !.part = "text", !.line = l, !.text = t]
    <2>1. s \in Stores
      BY <1>0 DEF Stores
    <2>2. <<{l}>> \in Seq(SUBSET LineNos)
      OBVIOUS
    <2> HIDE DEF s
    <2> QED
      BY <1>0, <1>1, <2>1, <2>2, ChangeInv DEF WriteText, s
  <1>2. ASSUME NEW l \in LineNos, NEW a \in Attrs, WriteAttr(l, a)
        PROVE  IInv'
    <2> DEFINE s == [Keeping EXCEPT !.part = "attr", !.line = l, !.attr = a]
    <2>1. s \in Stores
      BY <1>0 DEF Stores
    <2>2. <<{l}>> \in Seq(SUBSET LineNos)
      OBVIOUS
    <2> HIDE DEF s
    <2> QED
      BY <1>0, <1>2, <2>1, <2>2, ChangeInv DEF WriteAttr, s
  <1>3. ASSUME NEW m \in Modes, ChangeMode(m)
        PROVE  IInv'
    <2>1. [env EXCEPT !.mode = m] \in Envs
      BY <1>0 DEF Envs
    <2> QED
      BY <1>0, <1>3, <2>1, ChangeInv DEF ChangeMode
  <1>4. ASSUME NEW r \in CursorRows, MoveCursor(r)
        PROVE  IInv'
    <2>1. [env EXCEPT !.row = r, !.blink = 1] \in Envs /\ [env EXCEPT !.row = r] \in Envs
      BY <1>0 DEF Envs
    <2>2. SetRow(r) \o SetRow(env.row) \in Seq(SUBSET LineNos)
      BY SetRowType, ConcatProperties
    <2>3. CASE env.enable /\ r # env.row
      BY <1>0, <1>4, <2>1, <2>2, <2>3, ChangeInv DEF MoveCursor
    <2>4. CASE env.enable /\ r = env.row
      BY <1>0, <1>4, <2>1, <2>4, SetRowType, ChangeInv DEF MoveCursor
    <2>5. CASE ~env.enable
      BY <1>0, <1>4, <2>1, <2>5, ChangeInv DEF MoveCursor
    <2> QED
      BY <2>3, <2>4, <2>5
  <1>5. CASE EnableCursor
    <2>1. [env EXCEPT !.enable = TRUE] \in Envs
      BY <1>0 DEF Envs
    <2> QED
      BY <1>0, <1>5, <2>1, ChangeInv DEF EnableCursor
  <1>6. CASE DisableCursor
    <2>1. [env EXCEPT !.enable = FALSE] \in Envs
      BY <1>0 DEF Envs
    <2> QED
      BY <1>0, <1>6, <2>1, SetRowType, ChangeInv DEF DisableCursor
  <1>7. CASE Blink
    <2>1. [env EXCEPT !.blink = 1 - env.blink] \in Envs
      BY <1>0 DEF Envs
    <2>2. CASE env.enable
      BY <1>0, <1>7, <2>1, <2>2, SetRowType, ChangeInv DEF Blink
    <2>3. CASE ~env.enable
      BY <1>0, <1>7, <2>1, <2>3, ChangeInv DEF Blink
    <2> QED
      BY <2>2, <2>3
  <1> QED
    BY <1>1, <1>2, <1>3, <1>4, <1>5, <1>6, <1>7 DEF Program

(***************************************************************************)
(* The rest of the Z80 thread's steps. A store happens under the mutex, so *)
(* while the display thread is not copying: its copy stays what memory     *)
(* holds.                                                                  *)
(***************************************************************************)
LEMMA Z80Inv == IInv /\ (Z80 \/ Vsync \/ Halt) => IInv'
  <1> SUFFICES ASSUME IInv, Z80 \/ Vsync \/ Halt
               PROVE  IInv'
    OBVIOUS
  <1>0. UNCHANGED dispVars
    BY DEF Z80, Enter, Store, After, Vsync, Halt
  <1>t. DispTypeOK'
    BY <1>0 DEF IInv, RefreshTypeOK, DispTypeOK, dispVars, cacheVars, frameVars
  <1>1. CASE Enter
    <2>1. Z80TypeOK'
      BY <1>1 DEF Enter, IInv, RefreshTypeOK, Z80TypeOK
    <2>2. MutexInv' /\ MarkInv' /\ CopyInv' /\ DueInv'
      BY <1>0, <1>1 DEF Enter, Free, IInv, MutexInv, MarkInv, CopyInv, DueInv, SnapshotWhole,
         OnLine, dispVars, cacheVars, frameVars
    <2> QED
      BY <1>1, <1>t, <2>1, <2>2 DEF Enter, IInv, RefreshTypeOK
  <1>2. CASE Store
    <2>0. /\ marks # << >> /\ marks \in Seq(SUBSET LineNos)
          /\ mem \in [LineNos -> Contents] /\ store \in Stores
          /\ attrchg \in [LineNos -> {0, 1}]
          /\ dpc \notin {"check", "copy", "leave"}
      BY <1>2 DEF Store, IInv, RefreshTypeOK, Z80TypeOK, MarkInv, MutexInv
    <2>1. Head(marks) \subseteq LineNos /\ Tail(marks) \in Seq(SUBSET LineNos)
      <3> HIDE <1>2
      <3> QED
        BY <2>0, HeadTailProperties
    <2>2. mem' \in [LineNos -> Contents]
      <3>1. /\ store.line \in LineNos /\ mem[store.line] \in Contents
            /\ store.text \in Texts /\ store.attr \in Attrs
        BY <2>0 DEF Stores
      <3>2. \A c \in Contents : [mem EXCEPT ![store.line] = c] \in [LineNos -> Contents]
        BY <2>0, <3>1
      <3>3. /\ [text |-> store.text, attr |-> mem[store.line].attr] \in Contents
            /\ [text |-> mem[store.line].text, attr |-> store.attr] \in Contents
        BY <3>1 DEF Contents
      <3> QED
        BY <1>2, <2>0, <3>2, <3>3 DEF Store
    <2>3. attrchg' \in [LineNos -> {0, 1}] /\ \A l \in touched' : attrchg'[l] = 1
      BY <1>2, <2>0, <2>1 DEF Store, Marked, IInv, RefreshTypeOK, Z80TypeOK, MarkInv
    <2>4. Z80TypeOK'
      BY <1>2, <2>1, <2>2, <2>3 DEF Store, IInv, RefreshTypeOK, Z80TypeOK
    <2>5. MutexInv' /\ MarkInv'
      BY <1>0, <1>2, <2>0, <2>3 DEF Store, IInv, MutexInv, MarkInv, dispVars, cacheVars,
         frameVars
    <2>6. CopyInv' /\ DueInv'
      BY <1>0, <2>0 DEF IInv, CopyInv, DueInv, SnapshotWhole, OnLine, dispVars, cacheVars,
         frameVars
    <2> QED
      BY <1>2, <1>t, <2>4, <2>5, <2>6 DEF Store, IInv, RefreshTypeOK
  <1>3. CASE After \/ Vsync \/ Halt
    <2>1. Z80TypeOK'
      BY <1>3 DEF After, Vsync, Halt, z80Vars, changeVars, IInv, RefreshTypeOK, Z80TypeOK
    <2>2. MutexInv' /\ MarkInv' /\ CopyInv' /\ DueInv'
      BY <1>0, <1>3 DEF After, Vsync, Halt, z80Vars, changeVars, IInv, MutexInv, MarkInv,
         CopyInv, DueInv, SnapshotWhole, OnLine, dispVars, cacheVars, frameVars
    <2> QED
      BY <1>3, <1>t, <2>1, <2>2 DEF After, Vsync, Halt, IInv, RefreshTypeOK
  <1> QED
    BY <1>1, <1>2, <1>3 DEF Z80

(***************************************************************************)
(* The display thread's steps.                                             *)
(***************************************************************************)
LEMMA DispInv == IInv /\ Disp => IInv'
  <1> SUFFICES ASSUME IInv, Disp
               PROVE  IInv'
    OBVIOUS
  <1>0. UNCHANGED z80Vars
    BY DEF Disp, StartFrame, EnterLine, Skip, CopyText, CopyAttr, LeaveLine, MovColor, MovAttr,
       CursorAndCarry, Draw, Push, EndFrame
  <1>z. Z80TypeOK'
    BY <1>0 DEF IInv, RefreshTypeOK, Z80TypeOK, z80Vars, changeVars
  <1>n. Lines \in Nat /\ Lines > 0 /\ i \in Nat /\ i <= Lines
    BY RefreshAssumption DEF RefreshAssumption, IInv, RefreshTypeOK, DispTypeOK
  <1>m. MarkInv' <=> due' \subseteq touched
    BY <1>0 DEF IInv, MarkInv, z80Vars, changeVars
  <1>k. MarkInv
    BY DEF IInv
  <1> USE DEF IInv, RefreshTypeOK
  <1>1. CASE StartFrame
    <2>1. DispTypeOK'
      BY <1>1, <1>n DEF StartFrame, DispTypeOK, BlackFrame, cacheVars, Z80TypeOK
    <2>2. MutexInv' /\ CopyInv' /\ DueInv'
      BY <1>0, <1>1, <2>1 DEF StartFrame, MutexInv, CopyInv, DueInv, SnapshotWhole, OnLine,
         z80Vars, changeVars, DispTypeOK, LineNos
    <2> QED
      BY <1>1, <1>z, <1>m, <2>1, <2>2 DEF StartFrame
  <1>2. CASE EnterLine \/ LeaveLine
    <2>1. DispTypeOK'
      BY <1>2, <1>n DEF EnterLine, LeaveLine, DispTypeOK, cacheVars, frameVars, CopyInv, OnLine
    <2>2. MutexInv' /\ CopyInv'
      BY <1>0, <1>2, <1>n DEF EnterLine, LeaveLine, Free, MutexInv, CopyInv, SnapshotWhole,
         OnLine, z80Vars, changeVars, cacheVars, frameVars, DispTypeOK
    <2>3. DueInv'
      <3>1. CASE EnterLine
        BY <3>1 DEF EnterLine, DueInv, OnLine, frameVars
      <3>2. CASE LeaveLine
        BY <1>n, <3>2 DEF LeaveLine, DueInv, OnLine, frameVars, DispTypeOK, LineNos
      <3> QED
        BY <1>2, <3>1, <3>2
    <2>4. due' = due
      BY <1>2 DEF EnterLine, LeaveLine, frameVars
    <2> QED
      BY <1>2, <1>z, <1>m, <1>k, <2>1, <2>2, <2>3, <2>4, <1>0 DEF EnterLine, LeaveLine, MarkInv,
         z80Vars, changeVars
  <1>3. CASE Skip
    <2>1. DispTypeOK'
      BY <1>3 DEF Skip, DispTypeOK, cacheVars, frameVars
    <2>2. MutexInv' /\ CopyInv'
      BY <1>0, <1>3 DEF Skip, MutexInv, CopyInv, SnapshotWhole, OnLine, z80Vars, changeVars
    <2>3. DueInv'
      BY <1>3 DEF Skip, DueInv, MarkInv, OnLine, frameVars
    <2> QED
      BY <1>0, <1>3, <1>z, <1>m, <1>k, <2>1, <2>2, <2>3 DEF Skip, frameVars, MarkInv, z80Vars,
         changeVars
  <1>4. CASE CopyText \/ CopyAttr
    <2>0. i \in LineNos /\ mem[i] \in Contents /\ mem[i].text \in Texts /\ mem[i].attr \in Attrs
      BY <1>4, <1>n DEF CopyText, CopyAttr, CopyInv, OnLine, LineNos, Z80TypeOK, Contents
    <2>w. [text |-> mem[i].text, attr |-> mem[i].attr] = mem[i]
      BY <2>0 DEF Contents
    <2>1. DispTypeOK'
      BY <1>4, <2>0 DEF CopyText, CopyAttr, DispTypeOK, frameVars
    <2>2. MutexInv'
      BY <1>0, <1>4 DEF CopyText, CopyAttr, MutexInv, z80Vars, changeVars
    <2>3. CopyInv'
      BY <1>0, <1>4, <2>w DEF CopyText, CopyAttr, CopyInv, SnapshotWhole, OnLine, z80Vars
    <2>4. DueInv'
      BY <1>4 DEF CopyText, CopyAttr, DueInv, OnLine, frameVars
    <2> QED
      BY <1>0, <1>4, <1>z, <1>m, <1>k, <2>1, <2>2, <2>3, <2>4 DEF CopyText, CopyAttr, frameVars,
         MarkInv, z80Vars, changeVars
  <1>5. CASE MovColor \/ MovAttr \/ CursorAndCarry
    <2>1. DispTypeOK'
      BY <1>5 DEF MovColor, MovAttr, CursorAndCarry, DispTypeOK, frameVars
    <2>2. MutexInv' /\ CopyInv'
      BY <1>0, <1>5 DEF MovColor, MovAttr, CursorAndCarry, MutexInv, CopyInv, SnapshotWhole,
         OnLine, z80Vars, changeVars
    <2>3. DueInv' /\ due' = due
      BY <1>5 DEF MovColor, MovAttr, CursorAndCarry, DueInv, OnLine, frameVars
    <2> QED
      BY <1>0, <1>5, <1>z, <1>m, <1>k, <2>1, <2>2, <2>3 DEF MovColor, MovAttr, CursorAndCarry,
         MarkInv, z80Vars, changeVars
  <1>6. CASE Draw
    <2>0. /\ i \in LineNos /\ i < Lines
          /\ [text |-> textcach, attr |-> attrcach] \in Contents
          /\ [text |-> textcach, attr |-> attrcach] # Black
      BY <1>6, <1>n, RefreshAssumption DEF Draw, CopyInv, OnLine, LineNos, DispTypeOK, Contents,
         RefreshAssumption
    <2>1. DispTypeOK'
      BY <1>6, <1>n, <2>0 DEF Draw, DispTypeOK, cacheVars
    <2>2. MutexInv' /\ CopyInv'
      BY <1>0, <1>6, <1>n DEF Draw, MutexInv, CopyInv, SnapshotWhole, OnLine, z80Vars, changeVars
    <2>3. DueInv'
      BY <1>6, <1>n, <2>0 DEF Draw, DueInv, OnLine, DispTypeOK, LineNos
    <2> QED
      BY <1>0, <1>6, <1>z, <1>m, <1>k, <2>1, <2>2, <2>3 DEF Draw, MarkInv, z80Vars, changeVars
  <1>7. CASE Push \/ EndFrame
    <2>1. DispTypeOK'
      BY <1>7 DEF Push, EndFrame, DispTypeOK, cacheVars, frameVars
    <2>2. MutexInv' /\ CopyInv' /\ DueInv'
      BY <1>0, <1>7 DEF Push, EndFrame, MutexInv, CopyInv, DueInv, SnapshotWhole, OnLine,
         z80Vars, changeVars
    <2> QED
      BY <1>0, <1>7, <1>z, <1>m, <1>k, <2>1, <2>2 DEF Push, EndFrame, MarkInv, frameVars,
         z80Vars, changeVars
  <1> QED
    BY <1>1, <1>2, <1>3, <1>4, <1>5, <1>6, <1>7 DEF Disp

LEMMA NextInv == IInv /\ [Next]_vars => IInv'
  <1>1. ASSUME IInv, UNCHANGED vars
        PROVE  IInv'
    BY <1>1 DEF vars, z80Vars, changeVars, dispVars, cacheVars, frameVars, IInv, RefreshTypeOK,
       Z80TypeOK, DispTypeOK, MutexInv, MarkInv, CopyInv, DueInv, SnapshotWhole, OnLine
  <1> QED
    BY <1>1, ProgramInv, Z80Inv, DispInv DEF Next

(***************************************************************************)
(* The inductive invariant holds for ever.                                 *)
(***************************************************************************)
THEOREM RefreshInvariant == Spec => []IInv
  BY InitInv, NextInv, PTL DEF Spec

(***************************************************************************)
(* Every variable of the two threads keeps to its type.                    *)
(***************************************************************************)
THEOREM RefreshTypeCorrect == Spec => []RefreshTypeOK
  <1>1. IInv => RefreshTypeOK
    BY DEF IInv
  <1> QED
    BY <1>1, RefreshInvariant, PTL

(***************************************************************************)
(* The copy that is drawn is what the memory held under the mutex.         *)
(***************************************************************************)
THEOREM CopyIsWhole == Spec => []SnapshotWhole
  <1>1. IInv => SnapshotWhole
    BY DEF IInv, CopyInv
  <1> QED
    BY <1>1, RefreshInvariant, PTL

(***************************************************************************)
(* No line that was marked before a frame began is missing from it.        *)
(***************************************************************************)
THEOREM NoLineMissing == Spec => []FrameComplete
  <1>1. IInv => FrameComplete
    BY RefreshAssumption DEF IInv, DueInv, FrameComplete, RefreshTypeOK, DispTypeOK, LineNos,
       RefreshAssumption
  <1> QED
    BY <1>1, RefreshInvariant, PTL
-----------------------------------------------------------------------------
(***************************************************************************)
(* The steps that change neither the memory nor the lines of a frame are   *)
(* stuttering steps of the abstract screen.                                *)
(***************************************************************************)
LEMMA Stutter ==
  UNCHANGED <<mem, lcd, FrameLines>> => UNCHANGED AbstractScreen!vars
  BY DEF AbstractScreen!vars

LEMMA ChangeStutters ==
  ASSUME NEW s, NEW m, NEW before, NEW after, Change(s, m, before, after)
  PROVE  UNCHANGED AbstractScreen!vars
  <1>1. UNCHANGED <<mem, lcd, fb, i, change_attr, dpc, textcach, attrcach>>
    BY DEF Change, dispVars, cacheVars, frameVars
  <1>2. UNCHANGED FrameLines
    BY <1>1 DEF FrameLines, Copied
  <1> QED
    BY <1>1, <1>2, Stutter

LEMMA Z80Refines ==
  IInv /\ (Program \/ Z80 \/ Vsync \/ Halt) =>
    AbstractScreen!Next \/ UNCHANGED AbstractScreen!vars
  <1> SUFFICES ASSUME IInv, Program \/ Z80 \/ Vsync \/ Halt, ~UNCHANGED AbstractScreen!vars
               PROVE  AbstractScreen!Next
    OBVIOUS
  <1>1. ~Program
    BY ChangeStutters DEF Program, WriteText, WriteAttr, ChangeMode, MoveCursor, EnableCursor,
       DisableCursor, Blink
  <1>2. UNCHANGED <<lcd, fb, i, change_attr, dpc, textcach, attrcach>>
    BY <1>1 DEF Z80, Enter, Store, After, Vsync, Halt, dispVars, cacheVars, frameVars
  <1>3. UNCHANGED <<lcd, FrameLines>>
    BY <1>2 DEF FrameLines, Copied
  <1>4. Store
    BY <1>1, <1>3, Stutter DEF Z80, Enter, After, Vsync, Halt, z80Vars
  <1>5. /\ store.line \in LineNos /\ mem[store.line] \in Contents
        /\ store.text \in Texts /\ store.attr \in Attrs
    BY DEF IInv, RefreshTypeOK, Z80TypeOK, Stores
  <1>6. CASE store.part = "text"
    <2> DEFINE c == [text |-> store.text, attr |-> mem[store.line].attr]
    <2>1. c \in AbstractScreen!Contents /\ c.attr = mem[store.line].attr
      BY <1>5 DEF Contents, AbstractScreen!Contents
    <2>2. mem' = [mem EXCEPT ![store.line] = c]
      BY <1>4, <1>6 DEF Store
    <2> QED
      BY <1>3, <1>5, <2>1, <2>2 DEF AbstractScreen!Next, AbstractScreen!Write
  <1>7. CASE store.part = "attr"
    <2> DEFINE c == [text |-> mem[store.line].text, attr |-> store.attr]
    <2>1. c \in AbstractScreen!Contents /\ c.text = mem[store.line].text
      BY <1>5 DEF Contents, AbstractScreen!Contents
    <2>2. mem' = [mem EXCEPT ![store.line] = c]
      BY <1>4, <1>7 DEF Store
    <2> QED
      BY <1>3, <1>5, <2>1, <2>2 DEF AbstractScreen!Next, AbstractScreen!Write
  <1>8. CASE store.part = "none"
    BY <1>3, <1>4, <1>8, Stutter DEF Store
  <1> QED
    BY <1>4, <1>6, <1>7, <1>8 DEF Store

(***************************************************************************)
(* A frame begins black; a line joins it when its copy is complete, which  *)
(* is when it equals the memory's; drawing it changes nothing; the push    *)
(* shows the frame.                                                        *)
(***************************************************************************)
LEMMA DispRefines ==
  IInv /\ Disp => AbstractScreen!Next \/ UNCHANGED AbstractScreen!vars
  <1> SUFFICES ASSUME IInv, Disp
               PROVE  AbstractScreen!Next \/ UNCHANGED AbstractScreen!vars
    OBVIOUS
  <1>0. UNCHANGED mem
    BY DEF Disp, StartFrame, EnterLine, Skip, CopyText, CopyAttr, LeaveLine, MovColor, MovAttr,
       CursorAndCarry, Draw, Push, EndFrame, z80Vars
  <1>1. CASE StartFrame
    <2>1. FrameLines' = AbstractScreen!BlackFrame
      BY <1>1 DEF StartFrame, FrameLines, Copied, BlackFrame, AbstractScreen!BlackFrame
    <2> QED
      BY <1>0, <1>1, <2>1 DEF StartFrame, AbstractScreen!Next, AbstractScreen!Begin
  <1>2. CASE \/ EnterLine \/ Skip \/ CopyText \/ LeaveLine \/ MovColor \/ MovAttr
             \/ CursorAndCarry \/ EndFrame
    <2>1. UNCHANGED <<lcd, fb>>
      BY <1>2 DEF EnterLine, Skip, CopyText, LeaveLine, MovColor, MovAttr, CursorAndCarry,
         EndFrame, frameVars
    <2>2. \A l \in LineNos : Copied(l)' = Copied(l)
      BY <1>2 DEF EnterLine, Skip, CopyText, LeaveLine, MovColor, MovAttr, CursorAndCarry,
         EndFrame, Copied, IInv, RefreshTypeOK, DispTypeOK
    <2>3. \A l \in LineNos : Copied(l) => UNCHANGED <<textcach, attrcach>>
      BY <1>2 DEF EnterLine, Skip, CopyText, LeaveLine, MovColor, MovAttr, CursorAndCarry,
         EndFrame, Copied, cacheVars
    <2>4. UNCHANGED FrameLines
      BY <2>1, <2>2, <2>3 DEF FrameLines
    <2> QED
      BY <1>0, <2>1, <2>4, Stutter
  <1>3. CASE CopyAttr
    <2>1. i \in LineNos /\ mem[i] \in Contents /\ i' = i /\ textcach' = textcach
      BY <1>3, RefreshAssumption DEF CopyAttr, IInv, RefreshTypeOK, DispTypeOK, Z80TypeOK,
         CopyInv, OnLine, LineNos, RefreshAssumption
    <2>2. [text |-> textcach', attr |-> attrcach'] = mem[i]
      BY <1>3, <2>1 DEF CopyAttr, IInv, CopyInv, Contents
    <2>3. \A l \in LineNos : (Copied(l)' <=> l = i) /\ (l # i => ~Copied(l))
      BY <1>3 DEF CopyAttr, Copied
    <2>4. UNCHANGED <<lcd, fb>>
      BY <1>3 DEF CopyAttr, frameVars
    <2>5. FrameLines' = [FrameLines EXCEPT ![i] = mem[i]]
      BY <2>1, <2>2, <2>3, <2>4 DEF FrameLines
    <2> QED
      BY <1>0, <2>1, <2>4, <2>5 DEF AbstractScreen!Next, AbstractScreen!Take
  <1>4. CASE Draw
    <2>1. i \in LineNos /\ change_attr = 1 /\ fb \in [LineNos -> Contents \cup {Black}]
      BY <1>4, RefreshAssumption DEF Draw, IInv, RefreshTypeOK, DispTypeOK, CopyInv, OnLine,
         LineNos, RefreshAssumption
    <2>2. \A l \in LineNos : ~Copied(l)' /\ (Copied(l) <=> l = i)
      BY <1>4, <2>1 DEF Draw, Copied
    <2>3. FrameLines' = fb'
      BY <1>4, <2>1, <2>2 DEF Draw, FrameLines
    <2>4. FrameLines = fb'
      BY <1>4, <2>1, <2>2 DEF Draw, FrameLines
    <2> QED
      BY <1>0, <1>4, <2>3, <2>4, Stutter DEF Draw
  <1>5. CASE Push
    <2>1. fb \in [LineNos -> Contents \cup {Black}]
      BY DEF IInv, RefreshTypeOK, DispTypeOK
    <2>2. FrameLines = fb /\ FrameLines' = fb
      BY <1>5, <2>1 DEF Push, FrameLines, Copied
    <2> QED
      BY <1>0, <1>5, <2>2 DEF Push, AbstractScreen!Next, AbstractScreen!Push
  <1> QED
    BY <1>1, <1>2, <1>3, <1>4, <1>5 DEF Disp

(***************************************************************************)
(* The display implements Screen: every frame on the panel is made of      *)
(* whole lines, each as the memory held it at one instant of the frame.    *)
(***************************************************************************)
THEOREM DisplayRefinesScreen == Spec => WholeLines
  <1>1. Init => AbstractScreen!Init
    <2>1. ASSUME Init
          PROVE  FrameLines = AbstractScreen!BlackFrame
      BY <2>1 DEF Init, FrameLines, Copied, BlackFrame, AbstractScreen!BlackFrame
    <2>2. Init => mem \in [LineNos -> Contents]
      BY InitInv DEF IInv, RefreshTypeOK, Z80TypeOK
    <2> QED
      BY <2>1, <2>2 DEF Init, BlackFrame, AbstractScreen!Init, AbstractScreen!BlackFrame,
         AbstractScreen!Contents, Contents
  <1>2. IInv /\ [Next]_vars => [AbstractScreen!Next]_(AbstractScreen!vars)
    <2>1. ASSUME UNCHANGED vars
          PROVE  UNCHANGED AbstractScreen!vars
      BY <2>1, Stutter DEF vars, z80Vars, dispVars, cacheVars, frameVars, FrameLines, Copied
    <2> QED
      BY <2>1, Z80Refines, DispRefines DEF Next
  <1> QED
    BY <1>1, <1>2, RefreshInvariant, PTL DEF Spec, WholeLines, AbstractScreen!Spec
=============================================================================
