------------------------------- MODULE Refresh -------------------------------
(***************************************************************************)
(* The picture: the Z80 thread writes text memory and changes what lines   *)
(* are drawn with, the display thread copies, evaluates and draws the      *)
(* marked lines, one by one, and pushes the frame to the panel.            *)
(*                                                                         *)
(* The two threads share the text memory and the marks under the mutex     *)
(* vram_sync, and three things under no lock at all: the modes and the     *)
(* cursor that evaluation reads, the drawing function, and needDrawFlag,   *)
(* which the Z80 thread raises at every blanking interval and the display  *)
(* thread takes back when a frame is done, seen or not.                    *)
(*                                                                         *)
(* The registers behind these are the subject of Crtc, the blanking        *)
(* interval that of Vrtc. Here all that lines are drawn with is one value, *)
(* env. The DMA window starts at 0xf300, as the ROM sets it, so that line  *)
(* l of the screen is line l of the memory.                                *)
(***************************************************************************)
EXTENDS Integers, Sequences

CONSTANTS
  Lines,      \* text lines (25)
  Texts,      \* what the text part of a line may hold
  Attrs,      \* what the attribute part may hold: [color, func, mono], the
              \* last colour and function it sets, and the last function when
              \* every attribute is one (mono); Keep for none
  Keep,
  Blinking,   \* the functions that show only in one phase of the blink
  Modes,      \* values of the modes every line is drawn with
  MonoModes,  \* those of them that are mono
  Start,      \* text, attribute and mode at power on: [text, attr, mode]
  CarryZero,  \* what is carried at power on: [color, func, hidden]
  Black,      \* a line that is not drawn
  MaxOps      \* bound: changes the program makes in a run

LineNos == 0 .. Lines - 1

\* The cursor's row may lie off the screen.
CursorRows == 0 .. Lines

Envs == [mode : Modes, row : CursorRows, enable : BOOLEAN, blink : {0, 1}]

Contents == [text : Texts, attr : Attrs]

ASSUME RefreshAssumption ==
  /\ Lines \in Nat \ {0}
  /\ Start.text \in Texts /\ Start.attr \in Attrs /\ Start.mode \in Modes
  /\ MonoModes \subseteq Modes
  /\ Black \notin Contents
  /\ MaxOps \in Nat

VARIABLES
  mem,           \* text memory
  env,           \* what lines are drawn with
  attrchg,       \* _attrchg: the marked lines
  vram_sync,     \* who holds the mutex of the text memory
  zpc,           \* where the Z80 thread is in a change
  store,         \* the change: what to store in the text memory,
  marks,         \*   the lines to mark, one critical section each,
  then,          \*   and the env to set when they are marked
  needDrawFlag,  \* a frame is asked for
  dpc,           \* where the display thread is in reflesh_screen
  i,             \* its line
  change_attr,   \* it draws this line
  change_prev,   \* the line before changed the colour it carries over
  textcach, attrcach,   \* its copy of the line
  prev,          \* _prevcolor and _prevfunc: the carry while it evaluates
  evalWith,      \* what the evaluation has read so far
  next,          \* _nextcolor and _nextfunc: carried into each line
  fb, fbWith,    \* the frame buffer: its lines, and how each was drawn
  lcd, lcdWith,  \* the panel, likewise
  touched,       \* history: the lines the program ever marked
  due,           \* history: those of them marked when the frame began
  ops            \* changes made, for the bound

changeVars == <<zpc, store, marks, then, ops>>
cacheVars == <<textcach, attrcach, prev, evalWith>>
frameVars == <<next, fb, fbWith, lcd, lcdWith, due>>
z80Vars == <<mem, env, attrchg, touched, changeVars>>
dispVars == <<dpc, i, change_attr, change_prev, cacheVars, frameVars>>
vars == <<z80Vars, dispVars, vram_sync, needDrawFlag>>

\* Mutant: a mutex that keeps nobody out.
FreeAlways == vram_sync \in {"none", "z80", "disp"}

Free == vram_sync = "none"
-----------------------------------------------------------------------------
(* The Z80 thread *)

\* attr.set(row, 1): one critical section, none for a row off the screen.
SetRow(row) == IF row \in LineNos THEN <<{row}>> ELSE << >>

\* The parts of a store: text, attr or none of a line.
Keeping == [part |-> "none", line |-> 0, text |-> Start.text, attr |-> Start.attr]

\* A change begins: what to store, the marks to make, the env to set before
\* and after them.
Change(s, m, before, after) ==
  /\ zpc = "run" /\ ops < MaxOps
  /\ ops' = ops + 1
  /\ store' = s
  /\ marks' = m
  /\ env' = before
  /\ then' = after
  /\ zpc' = IF m = << >> THEN "after" ELSE "enter"
  /\ UNCHANGED <<mem, attrchg, touched, dispVars, vram_sync, needDrawFlag>>

\* _n80_mbwrite to the text memory: a text byte, or an attribute byte.
WriteText(l, t) ==
  Change([Keeping EXCEPT !.part = "text", !.line = l, !.text = t], <<{l}>>, env, env)

WriteAttr(l, a) ==
  Change([Keeping EXCEPT !.part = "attr", !.line = l, !.attr = a], <<{l}>>, env, env)

\* The modes change and attr.invalid() marks every line: the drawing function
\* for another number of lines after the marks, all else before them.
ChangeMode(m) ==
  LET changed == [env EXCEPT !.mode = m]
  IN /\ m # env.mode
     /\ \/ Change(Keeping, <<LineNos>>, changed, changed)
        \/ Change(Keeping, <<LineNos>>, env, changed)

\* cursor.move(): an enabled cursor marks the new row, then the old one, moves,
\* and shows. A row off the screen is not marked.
MoveCursor(r) ==
  IF env.enable
  THEN Change(Keeping,
              IF r # env.row THEN SetRow(r) \o SetRow(env.row) ELSE SetRow(r),
              env, [env EXCEPT !.row = r, !.blink = 1])
  ELSE Change(Keeping, << >>, env, [env EXCEPT !.row = r])

EnableCursor ==
  /\ ~env.enable
  /\ Change(Keeping, << >>, env, [env EXCEPT !.enable = TRUE])

DisableCursor ==
  LET hidden == [env EXCEPT !.enable = FALSE]
  IN /\ env.enable
     /\ Change(Keeping, SetRow(env.row), hidden, hidden)

\* renew(): the blink turns over, then an enabled cursor's line is marked.
Blink ==
  LET turned == [env EXCEPT !.blink = 1 - env.blink]
  IN Change(Keeping, IF env.enable THEN SetRow(env.row) ELSE << >>, turned, turned)

Enter ==
  /\ zpc = "enter" /\ Free
  /\ vram_sync' = "z80"
  /\ zpc' = "store"
  /\ UNCHANGED <<mem, env, attrchg, touched, store, marks, then, ops, dispVars,
                 needDrawFlag>>

Marked(chg, rows) == [l \in LineNos |-> IF l \in rows THEN 1 ELSE chg[l]]

\* Store, mark, leave.
Store ==
  /\ zpc = "store"
  /\ \/ /\ store.part = "text"
        /\ mem' = [mem EXCEPT ![store.line] = [text |-> store.text, attr |-> @.attr]]
     \/ /\ store.part = "attr"
        /\ mem' = [mem EXCEPT ![store.line] = [text |-> @.text, attr |-> store.attr]]
     \/ store.part = "none" /\ UNCHANGED mem
  /\ attrchg' = Marked(attrchg, Head(marks))
  /\ touched' = touched \cup Head(marks)
  /\ marks' = Tail(marks)
  /\ vram_sync' = "none"
  /\ zpc' = IF marks' = << >> THEN "after" ELSE "enter"
  /\ UNCHANGED <<env, store, then, ops, dispVars, needDrawFlag>>

After ==
  /\ zpc = "after"
  /\ env' = then
  /\ zpc' = "run"
  /\ UNCHANGED <<mem, attrchg, touched, store, marks, then, ops, dispVars, vram_sync,
                 needDrawFlag>>

\* The blanking interval begins.
Vsync == /\ zpc = "run"
         /\ needDrawFlag' = TRUE
         /\ UNCHANGED <<z80Vars, dispVars, vram_sync>>

\* A HALT instruction ends the thread.
Halt == /\ zpc = "run"
        /\ zpc' = "halted"
        /\ UNCHANGED <<mem, env, attrchg, touched, store, marks, then, ops, dispVars,
                       vram_sync, needDrawFlag>>
-----------------------------------------------------------------------------
(* The display thread: disp_thread_func and reflesh_screen *)

BlackFrame == [l \in LineNos |-> Black]

StartFrame ==
  /\ dpc = "wait" /\ needDrawFlag
  /\ dpc' = "line" /\ i' = 0 /\ change_attr' = 0 /\ change_prev' = 0
  /\ fb' = BlackFrame
  /\ due' = touched
  /\ UNCHANGED <<z80Vars, cacheVars, next, fbWith, lcd, lcdWith, vram_sync, needDrawFlag>>

EnterLine ==
  /\ dpc = "line" /\ i < Lines /\ Free
  /\ vram_sync' = "disp"
  /\ dpc' = "check"
  /\ UNCHANGED <<z80Vars, i, change_attr, change_prev, cacheVars, frameVars, needDrawFlag>>

\* A line neither marked nor disturbed by the one before is left black.
Skip ==
  /\ dpc = "check" /\ attrchg[i] # 1 /\ change_prev = 0
  /\ change_attr' = 0
  /\ dpc' = "leave"
  /\ UNCHANGED <<z80Vars, i, change_prev, cacheVars, frameVars, vram_sync, needDrawFlag>>

\* Mutant: the text is not copied again when the line before forces it.
CopyTextKept ==
  /\ dpc = "check" /\ (attrchg[i] = 1 \/ change_prev = 1)
  /\ textcach' = IF attrchg[i] = 1 THEN mem[i].text ELSE textcach
  /\ dpc' = "copy"
  /\ UNCHANGED <<z80Vars, i, change_attr, change_prev, attrcach, prev, evalWith, frameVars,
                 vram_sync, needDrawFlag>>

\* attr.cache(): the text is copied, then the attributes.
CopyText ==
  /\ dpc = "check" /\ (attrchg[i] = 1 \/ change_prev = 1)
  /\ textcach' = mem[i].text
  /\ dpc' = "copy"
  /\ UNCHANGED <<z80Vars, i, change_attr, change_prev, attrcach, prev, evalWith, frameVars,
                 vram_sync, needDrawFlag>>

CopyAttr ==
  /\ dpc = "copy"
  /\ attrcach' = mem[i].attr
  /\ change_attr' = 1
  /\ dpc' = "leave"
  /\ UNCHANGED <<z80Vars, i, change_prev, textcach, prev, evalWith, frameVars, vram_sync,
                 needDrawFlag>>

LeaveLine ==
  /\ dpc = "leave"
  /\ vram_sync' = "none"
  /\ IF change_attr = 1
     THEN dpc' = "color" /\ UNCHANGED i
     ELSE dpc' = "line" /\ i' = i + 1
  /\ UNCHANGED <<z80Vars, change_attr, change_prev, cacheVars, frameVars, needDrawFlag>>

\* The line that line l carries over to: the last one carries to the first.
Below(l) == IF l = Lines - 1 THEN 0 ELSE l + 1

\* The colour that attributes a leave after colour c, evaluated in env e.
ColorAfter(a, c, e) ==
  IF e.mode \in MonoModes \/ a.color = Keep THEN c ELSE a.color

\* The function they leave after f. A blinking one is hidden in one phase.
FuncAfter(a, f, e) ==
  LET set == IF e.mode \in MonoModes THEN a.mono ELSE a.func
  IN IF set = Keep THEN f
     ELSE [func |-> set, hidden |-> set \in Blinking /\ e.blink = 0]

CursorOn(l, e) == e.enable /\ e.blink = 1 /\ e.row = l

\* attr.eval(), without a lock: _movcolor, _movattr, then the cursor and the
\* carry to the next line. Each of them reads the env of its own moment.
MovColor ==
  /\ dpc = "color"
  /\ evalWith' = [evalWith EXCEPT !.carry = next[i], !.color = env.mode]
  /\ prev' = [color |-> ColorAfter(attrcach, next[i].color, env), func |-> next[i].func]
  /\ dpc' = "func"
  /\ UNCHANGED <<z80Vars, i, change_attr, change_prev, textcach, attrcach, frameVars,
                 vram_sync, needDrawFlag>>

MovAttr ==
  /\ dpc = "func"
  /\ evalWith' = [evalWith EXCEPT !.func = [mode |-> env.mode, blink |-> env.blink]]
  /\ prev' = [prev EXCEPT !.func = FuncAfter(attrcach, prev.func, env)]
  /\ dpc' = "cursor"
  /\ UNCHANGED <<z80Vars, i, change_attr, change_prev, textcach, attrcach, frameVars,
                 vram_sync, needDrawFlag>>

\* Mutant: what is carried is renewed only with its colour.
CursorAndColourCarry ==
  LET changed == next[Below(i)].color # prev.color
  IN /\ dpc = "cursor"
     /\ evalWith' = [evalWith EXCEPT !.cursor = CursorOn(i, env)]
     /\ next' = IF changed THEN [next EXCEPT ![Below(i)] = prev] ELSE next
     /\ change_prev' = IF changed THEN 1 ELSE 0
     /\ dpc' = "draw"
     /\ UNCHANGED <<z80Vars, i, change_attr, textcach, attrcach, prev, fb, fbWith, lcd,
                    lcdWith, due, vram_sync, needDrawFlag>>

CursorAndCarry ==
  /\ dpc = "cursor"
  /\ evalWith' = [evalWith EXCEPT !.cursor = CursorOn(i, env)]
  /\ next' = [next EXCEPT ![Below(i)] = prev]
  /\ change_prev' = IF next[Below(i)].color # prev.color THEN 1 ELSE 0
  /\ dpc' = "draw"
  /\ UNCHANGED <<z80Vars, i, change_attr, textcach, attrcach, prev, fb, fbWith, lcd,
                 lcdWith, due, vram_sync, needDrawFlag>>

\* fnc(i): the drawing function is the one set by now.
Draw ==
  /\ dpc = "draw"
  /\ fb' = [fb EXCEPT ![i] = [text |-> textcach, attr |-> attrcach]]
  /\ fbWith' = [fbWith EXCEPT ![i] = [eval |-> evalWith, fnc |-> env.mode]]
  /\ i' = i + 1
  /\ dpc' = "line"
  /\ UNCHANGED <<z80Vars, change_attr, change_prev, cacheVars, next, lcd, lcdWith, due,
                 vram_sync, needDrawFlag>>

\* renderDisplay()
Push ==
  /\ dpc = "line" /\ i = Lines
  /\ lcd' = fb
  /\ lcdWith' = fbWith
  /\ dpc' = "done"
  /\ UNCHANGED <<z80Vars, i, change_attr, change_prev, cacheVars, next, fb, fbWith, due,
                 vram_sync, needDrawFlag>>

\* The request is taken back, and with it any raised while the frame was made.
EndFrame ==
  /\ dpc = "done"
  /\ needDrawFlag' = FALSE
  /\ dpc' = "wait"
  /\ UNCHANGED <<z80Vars, i, change_attr, change_prev, cacheVars, frameVars, vram_sync>>
-----------------------------------------------------------------------------
EvalZero == [carry |-> CarryZero, color |-> Start.mode,
             func |-> [mode |-> Start.mode, blink |-> 1], cursor |-> FALSE]

Init ==
  /\ mem = [l \in LineNos |-> [text |-> Start.text, attr |-> Start.attr]]
  /\ env = [mode |-> Start.mode, row |-> 0, enable |-> TRUE, blink |-> 1]
  /\ attrchg = [l \in LineNos |-> 0]
  /\ vram_sync = "none"
  /\ zpc = "run" /\ store = Keeping /\ marks = << >> /\ then = env
  /\ needDrawFlag = FALSE
  /\ dpc = "wait" /\ i = 0 /\ change_attr = 0 /\ change_prev = 0
  /\ textcach = Start.text /\ attrcach = Start.attr
  /\ prev = CarryZero /\ evalWith = EvalZero
  /\ next = [l \in LineNos |-> CarryZero]
  /\ fb = BlackFrame /\ lcd = BlackFrame
  /\ fbWith = [l \in LineNos |-> [eval |-> EvalZero, fnc |-> Start.mode]]
  /\ lcdWith = fbWith
  /\ touched = {} /\ due = {}
  /\ ops = 0

Program == \/ \E l \in LineNos, t \in Texts : WriteText(l, t)
           \/ \E l \in LineNos, a \in Attrs : WriteAttr(l, a)
           \/ \E m \in Modes : ChangeMode(m)
           \/ \E r \in CursorRows : MoveCursor(r)
           \/ EnableCursor \/ DisableCursor \/ Blink

Z80 == Enter \/ Store \/ After

Disp == \/ StartFrame \/ EnterLine \/ Skip \/ CopyText \/ CopyAttr \/ LeaveLine
        \/ MovColor \/ MovAttr \/ CursorAndCarry \/ Draw \/ Push \/ EndFrame

Next == Program \/ Z80 \/ Vsync \/ Halt \/ Disp

Spec == Init /\ [][Next]_vars

\* Both threads run, the mutex goes round, and blanking intervals go on until
\* a HALT (Vrtc: FramesGoOn). Nothing obliges the program to change the screen.
FairSpec == Spec /\ SF_vars(Z80) /\ WF_vars(Disp) /\ WF_vars(Vsync)
-----------------------------------------------------------------------------
Stores == [part : {"none", "text", "attr"}, line : LineNos, text : Texts, attr : Attrs]

Z80TypeOK ==
  /\ mem \in [LineNos -> Contents]
  /\ env \in Envs /\ then \in Envs
  /\ attrchg \in [LineNos -> {0, 1}]
  /\ touched \subseteq LineNos
  /\ zpc \in {"run", "enter", "store", "after", "halted"}
  /\ store \in Stores
  /\ marks \in Seq(SUBSET LineNos)
  /\ ops \in 0 .. MaxOps

DispTypeOK ==
  /\ dpc \in {"wait", "line", "check", "copy", "leave", "color", "func", "cursor", "draw",
              "done"}
  /\ i \in 0 .. Lines
  /\ change_attr \in {0, 1} /\ change_prev \in {0, 1}
  /\ textcach \in Texts /\ attrcach \in Attrs
  /\ fb \in [LineNos -> Contents \cup {Black}]
  /\ lcd \in [LineNos -> Contents \cup {Black}]
  /\ due \subseteq LineNos

RefreshTypeOK ==
  /\ Z80TypeOK
  /\ DispTypeOK
  /\ vram_sync \in {"none", "z80", "disp"}
  /\ needDrawFlag \in BOOLEAN

(***************************************************************************)
(* The copy of a line that is drawn is whole: when attr.cache() has copied *)
(* text and attributes and the mutex is still held, both are what memory   *)
(* holds now. Without the mutex the text of one moment would be coloured   *)
(* by the attributes of another.                                           *)
(***************************************************************************)
SnapshotWhole ==
  dpc = "leave" /\ change_attr = 1 => [text |-> textcach, attr |-> attrcach] = mem[i]

(***************************************************************************)
(* No change is left out of a frame: a frame pushed to the panel shows     *)
(* every line that was marked before the frame began, whatever was marked  *)
(* or drawn meanwhile (lines not marked stay black, the buffer being       *)
(* cleared for each frame).                                                *)
(***************************************************************************)
FrameComplete ==
  dpc = "line" /\ i = Lines => \A l \in due : fb[l] # Black

(***************************************************************************)
(* The panel refines Screen: the line being copied belongs to the frame    *)
(* from the moment its copy is whole, the others when they are drawn.      *)
(***************************************************************************)
Copied(l) ==
  l = i /\ change_attr = 1 /\ dpc \in {"leave", "color", "func", "cursor", "draw"}

FrameLines ==
  [l \in LineNos |-> IF Copied(l) THEN [text |-> textcach, attr |-> attrcach]
                                  ELSE fb[l]]

AbstractScreen == INSTANCE Screen WITH frame <- FrameLines

\* Frames are made of whole lines: refinement of the abstract screen.
WholeLines == AbstractScreen!Spec

\* What is carried out of line l with all that now holds.
CarryOut(l) ==
  [color |-> ColorAfter(mem[l].attr, next[l].color, env),
   func  |-> FuncAfter(mem[l].attr, next[l].func, env)]

\* How line l ought to be drawn now.
Faithful(l) ==
  [eval |-> [carry |-> next[l], color |-> env.mode,
             func |-> [mode |-> env.mode, blink |-> env.blink],
             cursor |-> CursorOn(l, env)],
   fnc  |-> env.mode]

Settled ==
  \A l \in LineNos :
    IF l \in touched
    THEN /\ lcd[l] = mem[l]
         /\ lcdWith[l] = Faithful(l)
         /\ next[Below(l)] = CarryOut(l)
    ELSE lcd[l] = Black

(***************************************************************************)
(* Eventual consistency: when the program stops changing the screen, the   *)
(* panel comes to show, and goes on showing, every marked line as the      *)
(* memory, the modes and the cursor now are, with the colour and function  *)
(* carried in from the line above. A request for a frame that the display  *)
(* thread takes back unseen, and an env that changed between evaluation    *)
(* and drawing, cost a frame and no more. Only a HALT may leave the last   *)
(* changes undrawn: its thread raises no more requests.                    *)
(***************************************************************************)
Converges == <>(zpc = "halted") \/ <>[]Settled
=============================================================================
