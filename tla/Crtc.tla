-------------------------------- MODULE Crtc --------------------------------
(***************************************************************************)
(* The display controllers of the PC-8001 as the Z80 sees them: the CRTC   *)
(* (uPD3301) with its cursor, channel 2 of the DMA controller and the      *)
(* control port #1, together with the per-line "changed" flags through     *)
(* which they tell the display thread what to draw again.                  *)
(*                                                                         *)
(* Every action is one OUT instruction: crtc.c, cursor.c, dmac.c and the   *)
(* parts of attrib.c and fb.cpp that they call, run to completion by the   *)
(* Z80 thread.                                                             *)
(***************************************************************************)
EXTENDS Integers, Sequences

CONSTANTS
  Lines,      \* text lines the renderer knows (25)
  CmdBytes,   \* bytes the program may write to the command port
  DataBytes,  \* bytes it may write to the parameter port and control port #1
  DmaBytes,   \* bytes it may write to the two ports of the DMA controller
  CountSpan   \* values of the 16-bit parameter counter (2^16)

ASSUME CrtcAssumption ==
  /\ Lines \in Nat \ {0}
  /\ CmdBytes \subseteq 0..255
  /\ DataBytes \subseteq 0..255
  /\ DmaBytes \subseteq 0..255
  /\ CountSpan \in Nat /\ CountSpan > 5

VARIABLES
  prev_cmd,      \* the command that still waits for parameters
  param_count,   \* parameters counted since the last command
  line_mode,     \* 0: 20 lines, 1: 25 lines
  width_mode,    \* 0: 40 columns, 1: 80 columns
  scrn_mode,     \* both of them in one number
  color_mode,    \* 0: colour, 1: mono
  attr_reverse,  \* the whole screen is shown reversed
  text_vis,      \* _n80_text_vis: who keeps the text off the screen
  cursor,        \* N80CURSOR: the position drawn and the one asked for
  cur_enable,    \* the program wants a cursor
  cur_blink,     \* the phase of its blinking
  dma_low,       \* low byte of a window address that waits for its high byte
  dma_hi,        \* high byte last taken
  dma_wait_hl,   \* the flip-flop, 0: expect low, 1: expect high
  dma_begin,     \* _begin and _end: the window the DMA fetches
  dma_end,
  dma_sent,      \* history: the bytes sent for the address, from the last complete
                 \* pair on
  attrchg,       \* _attrchg: the lines to draw again
  convfunc,      \* the attribute converter, named by its colour mode
  fnc            \* the drawing function, named by its screen mode

modeVars == <<line_mode, width_mode, scrn_mode, color_mode, convfunc, fnc>>
cursorVars == <<cursor, cur_enable, cur_blink>>
dmaVars == <<dma_low, dma_hi, dma_wait_hl, dma_begin, dma_end, dma_sent>>
crtcVars == <<prev_cmd, param_count, attr_reverse, text_vis, attrchg,
              modeVars, cursorVars, dmaVars>>

LineNos == 0 .. Lines - 1

\* _OCW1, _OCW5 and _NONE
Commands == {"none", "ocw1", "ocw5"}

\* The bits of _n80_text_vis.
Blankers == {"crtc", "dmac"}
-----------------------------------------------------------------------------
(* attrib.c: the flags the display thread reads *)

\* Mutant: the first line is forgotten.
InvalidButFirst == attrchg' = [l \in LineNos |-> IF l = 0 THEN attrchg[l] ELSE 1]

\* attr.invalid(): every line is to be drawn again.
Invalid == attrchg' = [l \in LineNos |-> 1]

\* attr.set(line, 1), once for each row of rows; a row off the screen is ignored.
Set(rows) == attrchg' = [l \in LineNos |-> IF l \in rows THEN 1 ELSE attrchg[l]]
-----------------------------------------------------------------------------
(* cursor.c *)

CursorEnable == /\ cur_enable' = 1
                /\ UNCHANGED attrchg

CursorDisable == /\ cur_enable' = 0
                 /\ Set(IF cur_enable # 0 THEN {cursor.row} ELSE {})

\* The rows that a move of the enabled cursor to column x of row y dirties.
MovedRows(x, y) ==
  IF cur_enable = 0 THEN {}
  ELSE IF y # cursor.row THEN {y, cursor.row}
  ELSE IF x # cursor.col THEN {cursor.row}
  ELSE {}

\* move(), with x and y the new position as it stands after a parameter.
CursorMove(x, y) ==
  /\ cursor' = [col |-> x, row |-> y, newx |-> x, newy |-> y]
  /\ cur_blink' = IF MovedRows(x, y) = {} THEN cur_blink ELSE 1
  /\ Set(MovedRows(x, y))
-----------------------------------------------------------------------------
(* crtc.c *)

ScrnMode(line, width) == line + 2 * width

\* Mutant: the drawing function stays.
ChgCrtModeForgotten(mode) == fnc' = fnc /\ mode \in 0..3

\* chg_crt_mode(mode), which is fb.cpp's chg_bltfunc.
ChgCrtMode(mode) == fnc' = mode

Ocw1 == /\ prev_cmd' = "ocw1"
        /\ param_count' = 0
        /\ text_vis' = text_vis \cup {"crtc"}
        /\ UNCHANGED <<attr_reverse, attrchg, modeVars, cursorVars, dmaVars>>

Ocw2(cmd) == /\ attr_reverse' = cmd % 2
             /\ Invalid
             /\ text_vis' = text_vis \ {"crtc"}
             /\ UNCHANGED <<prev_cmd, param_count, modeVars, cursorVars, dmaVars>>

\* Mutant: the parameters are counted on from the command before.
Ocw5CountedOn(cmd) ==
  /\ prev_cmd' = "ocw5"
  /\ \/ cmd % 2 = 1 /\ CursorEnable
     \/ cmd % 2 = 0 /\ CursorDisable
  /\ UNCHANGED <<param_count, attr_reverse, text_vis, cursor, cur_blink, modeVars, dmaVars>>

Ocw5(cmd) == /\ prev_cmd' = "ocw5"
             /\ param_count' = 0
             /\ \/ cmd % 2 = 1 /\ CursorEnable
                \/ cmd % 2 = 0 /\ CursorDisable
             /\ UNCHANGED <<attr_reverse, text_vis, cursor, cur_blink, modeVars, dmaVars>>

OtherOcw == /\ prev_cmd' = "none"
            /\ param_count' = 0
            /\ UNCHANGED <<attr_reverse, text_vis, attrchg, modeVars, cursorVars, dmaVars>>

\* _n80_crtc_cmd: OUT to the command port; the top three bits are the command.
Cmd(cmd) == LET ocw == cmd \div 32
            IN \/ ocw = 0 /\ Ocw1
               \/ ocw = 1 /\ Ocw2(cmd)
               \/ ocw = 4 /\ Ocw5(cmd)
               \/ ocw \notin {0, 1, 4} /\ OtherOcw

Counted == (param_count + 1) % CountSpan

NoParam == /\ prev_cmd = "none"
           /\ UNCHANGED <<prev_cmd, attrchg, modeVars, cursorVars>>

\* The second of the five format parameters holds the number of text lines.
LineParam(dat) ==
  LET lines == IF dat % 128 = 24 THEN 1 ELSE 0
  IN /\ prev_cmd = "ocw1" /\ param_count = 1
     /\ IF line_mode = lines
        THEN UNCHANGED <<attrchg, modeVars>>
        ELSE /\ line_mode' = lines
             /\ scrn_mode' = ScrnMode(lines, width_mode)
             /\ Invalid
             /\ ChgCrtMode(ScrnMode(lines, width_mode))
             /\ UNCHANGED <<width_mode, color_mode, convfunc>>
     /\ UNCHANGED <<prev_cmd, cursorVars>>

OtherFormatParam ==
  /\ prev_cmd = "ocw1" /\ param_count # 1
  /\ prev_cmd' = IF param_count < 5 THEN "ocw1" ELSE "none"
  /\ UNCHANGED <<attrchg, modeVars, cursorVars>>

\* The cursor's position: x, then y; the cursor moves after each of them.
PositionParam(dat) ==
  /\ prev_cmd = "ocw5"
  /\ IF param_count = 0
     THEN /\ CursorMove(dat % 128, cursor.newy)
          /\ UNCHANGED prev_cmd
     ELSE /\ CursorMove(cursor.newx, dat % 64)
          /\ prev_cmd' = "none"
  /\ UNCHANGED <<cur_enable, modeVars>>

\* _n80_crtc_data: OUT to the parameter port.
Data(dat) == /\ NoParam \/ LineParam(dat) \/ OtherFormatParam \/ PositionParam(dat)
             /\ param_count' = Counted
             /\ UNCHANGED <<attr_reverse, text_vis, dmaVars>>

SetWidth(width) ==
  IF width_mode = width
  THEN UNCHANGED <<width_mode, scrn_mode, fnc>>
  ELSE /\ width_mode' = width
       /\ scrn_mode' = ScrnMode(line_mode, width)
       /\ ChgCrtMode(ScrnMode(line_mode, width))

SetColor(color) ==
  IF color_mode = color
  THEN UNCHANGED <<color_mode, convfunc>>
  ELSE color_mode' = color /\ convfunc' = color

\* _n80_width_mode: OUT to control port #1, width in bit 0 and mono in bit 1.
Mode(dat) ==
  LET width == dat % 2
      color == (dat \div 2) % 2
  IN /\ SetWidth(width)
     /\ SetColor(color)
     /\ IF width_mode # width \/ color_mode # color THEN Invalid ELSE UNCHANGED attrchg
     /\ UNCHANGED <<line_mode, prev_cmd, param_count, attr_reverse, text_vis,
                    cursorVars, dmaVars>>
-----------------------------------------------------------------------------
(* dmac.c *)

\* _n80_dmac_cmd: bit 2 of the mode register lets channel 2 fetch the text.
DmacCmd(dat) ==
  /\ text_vis' = IF (dat \div 4) % 2 = 1 THEN text_vis \ {"dmac"}
                                         ELSE text_vis \cup {"dmac"}
  /\ UNCHANGED <<prev_cmd, param_count, attr_reverse, attrchg, modeVars, cursorVars,
                 dmaVars>>

\* The bytes sent, dat the latest; only the last complete pair is kept.
SentOn(dat) == IF Len(dma_sent) = 3 THEN <<dma_sent[3], dat>> ELSE Append(dma_sent, dat)

\* Mutant: the window moves when the low byte comes.
DmacCh2Eager(dat) ==
  /\ IF dma_wait_hl = 0
     THEN /\ dma_low' = dat
          /\ dma_wait_hl' = 1
          /\ dma_begin' = dma_hi * 256 + dat
          /\ dma_end' = dma_hi * 256 + dat + 3000
          /\ UNCHANGED dma_hi
     ELSE /\ dma_hi' = dat
          /\ dma_wait_hl' = 0
          /\ dma_begin' = dat * 256 + dma_low
          /\ dma_end' = dat * 256 + dma_low + 3000
          /\ UNCHANGED dma_low
  /\ dma_sent' = SentOn(dat)
  /\ UNCHANGED <<prev_cmd, param_count, attr_reverse, text_vis, attrchg, modeVars,
                 cursorVars>>

\* _n80_dmac_ch2: the address arrives low byte first through a flip-flop.
DmacCh2(dat) ==
  /\ IF dma_wait_hl = 0
     THEN /\ dma_low' = dat
          /\ dma_wait_hl' = 1
          /\ UNCHANGED <<dma_hi, dma_begin, dma_end>>
     ELSE /\ dma_hi' = dat
          /\ dma_wait_hl' = 0
          /\ dma_begin' = dat * 256 + dma_low
          /\ dma_end' = dat * 256 + dma_low + 3000
          /\ UNCHANGED dma_low
  /\ dma_sent' = SentOn(dat)
  /\ UNCHANGED <<prev_cmd, param_count, attr_reverse, text_vis, attrchg, modeVars,
                 cursorVars>>
-----------------------------------------------------------------------------
PowerOnBegin == 62408   \* 0xf3c8

\* _n80_device_initialize: the device is zeroed, then each part is reset.
CrtcInit ==
  /\ prev_cmd = "none" /\ param_count = 0
  /\ scrn_mode = 0 /\ width_mode = 0 /\ line_mode = 1
  /\ color_mode = 1 /\ convfunc = 1
  /\ attr_reverse = 0 /\ text_vis = {}
  /\ cursor = [col |-> 0, row |-> 0, newx |-> 0, newy |-> 0]
  /\ cur_enable = 1 /\ cur_blink = 1
  /\ dma_low = 0 /\ dma_hi = 0 /\ dma_wait_hl = 0
  /\ dma_begin = PowerOnBegin /\ dma_end = PowerOnBegin + 3000
  /\ dma_sent = << >>
  /\ attrchg = [l \in LineNos |-> 0]
  /\ fnc = 0

\* One OUT instruction to one of these ports (_n80_iowrite).
Out == \/ \E cmd \in CmdBytes : Cmd(cmd)
       \/ \E dat \in DataBytes : Data(dat)
       \/ \E dat \in DataBytes : Mode(dat)
       \/ \E dat \in DmaBytes : DmacCmd(dat)
       \/ \E dat \in DmaBytes : DmacCh2(dat)

CrtcSpec == CrtcInit /\ [][Out]_crtcVars
-----------------------------------------------------------------------------
ModeTypeOK ==
  /\ scrn_mode \in 0..3 /\ fnc \in 0..3
  /\ line_mode \in {0, 1} /\ width_mode \in {0, 1}
  /\ color_mode \in {0, 1} /\ convfunc \in {0, 1}

CursorTypeOK ==
  /\ cursor \in [col : 0..127, row : 0..63, newx : 0..127, newy : 0..63]
  /\ cur_enable \in {0, 1}
  /\ cur_blink \in {0, 1}

DmaTypeOK ==
  /\ dma_low \in 0..255 /\ dma_hi \in 0..255 /\ dma_wait_hl \in {0, 1}
  /\ dma_begin \in Nat /\ dma_begin < 65536
  /\ dma_end \in Nat /\ dma_end < 65536 + 3000

SentTypeOK == dma_sent \in Seq(0..255) /\ Len(dma_sent) <= 3

CrtcTypeOK ==
  /\ prev_cmd \in Commands
  /\ param_count \in 0 .. CountSpan - 1
  /\ attr_reverse \in {0, 1}
  /\ text_vis \subseteq Blankers
  /\ attrchg \in [LineNos -> {0, 1}]
  /\ ModeTypeOK
  /\ CursorTypeOK
  /\ DmaTypeOK
  /\ SentTypeOK
-----------------------------------------------------------------------------
(***************************************************************************)
(* The drawing function and the attribute converter always follow the mode *)
(* registers, whatever order of OUTs changed them: fnc is the one of       *)
(* scrn_mode, scrn_mode is made of the line and the width mode (but for    *)
(* the power-on value, which no OUT has set), convfunc is the one of       *)
(* color_mode. Were they to part, the display thread would draw one mode   *)
(* while the program believes in another.                                  *)
(***************************************************************************)
PowerOnGeometry ==
  scrn_mode = 0 /\ line_mode = 1 /\ width_mode = 0

ModesAgree ==
  /\ fnc = scrn_mode
  /\ convfunc = color_mode
  /\ \/ scrn_mode = ScrnMode(line_mode, width_mode)
     \/ PowerOnGeometry

(***************************************************************************)
(* A parameter is never counted past the ones its command takes, so the    *)
(* 16-bit counter, which goes on counting stray parameters and wraps, can  *)
(* never come round to 0 or 1 while a command still reads it.              *)
(***************************************************************************)
CountIsParameter ==
  /\ prev_cmd = "ocw5" => param_count <= 1
  /\ prev_cmd = "ocw1" => param_count <= 5

(***************************************************************************)
(* The window channel 2 fetches begins at the address that was sent last   *)
(* as a whole, low byte first, counted from power on, or where power on    *)
(* put it as long as there was none: a low byte whose high byte is still   *)
(* to come leaves the window alone, and the bytes of two addresses are     *)
(* never put together, whatever else is sent to the controllers between    *)
(* them. It is always 3000 bytes.                                          *)
(***************************************************************************)
DmaWindow ==
  /\ dma_begin = IF Len(dma_sent) < 2 THEN PowerOnBegin ELSE dma_sent[2] * 256 + dma_sent[1]
  /\ dma_end = dma_begin + 3000

\* The cell on which eval draws the cursor, if it does, and the rows of such cells.
DrawnCells == IF cur_enable = 1 /\ cur_blink = 1 THEN {<<cursor.row, cursor.col>>} ELSE {}

Rows(cells) == {cell[1] : cell \in cells}

(***************************************************************************)
(* No ghost cursor: a step that takes the drawn cursor off a cell marks    *)
(* the line of that cell, and one that moves a cursor that stays enabled   *)
(* marks the line it appears on. Otherwise the old block would stay on the *)
(* screen until something else is written on its line.                     *)
(***************************************************************************)
CursorMarked ==
  LET left    == Rows(DrawnCells \ DrawnCells')
      entered == Rows(DrawnCells' \ DrawnCells)
  IN \A l \in LineNos :
       l \in left \/ (cur_enable = 1 /\ l \in entered) => attrchg'[l] = 1

NoGhostCursor == [][CursorMarked]_crtcVars

(***************************************************************************)
(* What eval and the drawing function read for every line (the screen      *)
(* mode, colour or mono, the reverse flag) changes only together with a    *)
(* mark on every line.                                                     *)
(***************************************************************************)
ModeMarked ==
  UNCHANGED <<scrn_mode, color_mode, attr_reverse>> \/ \A l \in LineNos : attrchg'[l] = 1

ModeChangeMarksAll == [][ModeMarked]_crtcVars
=============================================================================
