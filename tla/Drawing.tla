------------------------------ MODULE Drawing ------------------------------
(***************************************************************************)
(* One line on its way to the panel: copied and its attributes evaluated   *)
(* (Attrib), then drawn by the drawing function of the mode, one of four   *)
(* per variant: 40 or 80 columns, 20 or 25 lines. The M5 draws cells of    *)
(* one colour together, as one bitmap, and squeezes 80 columns into 320    *)
(* pixels; the Atom draws cell by cell and row by row, and widens 40       *)
(* columns to 640.                                                         *)
(*                                                                         *)
(* The text cache follows the evaluated attributes in memory: a cursor     *)
(* past the line turns bits of a character, and the search for the end of  *)
(* a run of one colour may look at one.                                    *)
(***************************************************************************)
EXTENDS Attrib

CONSTANTS
  Areas,     \* attribute areas: sequences of Pairs pairs [col, attr]
  TextLines, \* texts: functions from cells to characters, which are bytes
  Font,      \* characters of each set: [<<char, set, row>> -> bits]
  FontRows,  \* rows of a character (8)
  Carries,   \* what the line above may carry over: [color, func]
  Settings   \* what lines are drawn with

\* variant, mono, wide (40 columns), lines25, reverse (the whole screen), blink
\* (the phase with the cursor), cursor (its column in this line, or NoCursor),
\* and pcg (pcg_mode)
NoCursor == -1

ASSUME DrawingAssumption ==
  /\ Areas \subseteq [1..Pairs -> [col : Nat, attr : Bytes]]
  /\ TextLines \subseteq [Cells -> Bytes]
  /\ Carries \subseteq [color : SUBSET (White \union {Graph}),
                        func : SUBSET {Upper, Graph, Reversed, Secret, Under}]
  /\ Settings \subseteq
       [variant : {"m5", "atom"}, mono : BOOLEAN, wide : BOOLEAN, lines25 : BOOLEAN,
        reverse : BOOLEAN, blink : BOOLEAN, pcg : BOOLEAN,
        cursor : {NoCursor} \union 0..(2 * Cols - 1)]
  /\ FontRows \in Nat \ {0}
  /\ \A t \in TextLines, j \in Cells, from \in {"graph", "pcg", "font"}, r \in 0..(FontRows - 1) :
       Font[<<t[j], from, r>>] \subseteq 0..7

VARIABLES
  set, area, text, carry,   \* what is drawn, of Settings, Areas, TextLines, Carries
  step,                     \* "cache", "eval", "draw", "done"
  attrcach, textcach,       \* _attrcach, _textcach
  eval_attr,                \* _eval_attr
  prev,                     \* _prevcolor and _prevfunc, which the line below gets
  col,                      \* the next cell to draw
  picture                   \* lit pixels of the line: <<x, y, colour>>

vars == <<set, area, text, carry, step, attrcach, textcach, eval_attr, prev, col, picture>>

\* Rows of a line of text: in 20 lines one above and one below the character.
Rows(s) == 0..((IF s.lines25 THEN FontRows ELSE FontRows + 2) - 1)
LastRow(s) == Max(Rows(s))

\* Cells drawn, and the pixels each is wide.
Count(s) == IF s.wide THEN Cols \div 2 ELSE Cols
CellWidth(s) == IF s.variant = "m5" THEN (IF s.wide THEN 8 ELSE 4) ELSE (IF s.wide THEN 16 ELSE 8)
Width(s) == Count(s) * CellWidth(s)

\* Anything may be on the panel where the Atom draws; the M5 begins with a black
\* frame buffer.
Stale(s) == IF s.variant = "m5" THEN {{}} ELSE {{}, (0..(Width(s) - 1)) \X Rows(s) \X {White}}

Init ==
  /\ set \in Settings /\ area \in Areas /\ text \in TextLines /\ carry \in Carries
  /\ step = "cache"
  /\ attrcach = << >> /\ textcach = text
  /\ eval_attr = [j \in Cells |-> {}] /\ prev = carry
  /\ col = 0
  /\ picture \in Stale(set)
-----------------------------------------------------------------------------
inputVars == <<set, area, text, carry>>

Cache ==
  /\ step = "cache"
  /\ attrcach' = cache(area)
  /\ textcach' = text
  /\ step' = "eval"
  /\ UNCHANGED <<inputVars, eval_attr, prev, col, picture>>

CursorShown(s) == s.blink /\ s.cursor # NoCursor

Eval ==
  /\ step = "eval"
  /\ LET cells == movattr(attrcach, movcolor(attrcach, set, carry), set, carry)
         At(j) == CursorShown(set) /\ j = set.cursor
     IN /\ eval_attr' = [j \in Cells |-> IF At(j) THEN CursorCell(cells[j]) ELSE cells[j]]
        /\ textcach' = [j \in Cells |-> IF At(j + Cols) THEN CursorCell(textcach[j])
                                                        ELSE textcach[j]]
  /\ prev' = [color |-> CarriedColor(attrcach, set, carry),
              func |-> CarriedFunc(attrcach, set, carry)]
  /\ step' = "draw"
  /\ UNCHANGED <<inputVars, attrcach, col, picture>>

\* The cell in memory of the n-th cell drawn.
CellOf(s, n) == IF s.wide THEN 2 * n ELSE n

ColourOf(pac) == pac \intersect White

\* The set of characters a cell is drawn from.
CharSet(pac, s) == IF Graph \in pac THEN "graph" ELSE IF s.pcg THEN "pcg" ELSE "font"

\* The row that is underlined: the last, but for 80 columns and 25 lines on the
\* M5, where the code asks for row 9 of rows 0 to 7.
UnderlineRow(s) ==
  IF s.variant = "m5" /\ ~s.wide /\ s.lines25 THEN FontRows + 1 ELSE LastRow(s)

\* The bits of a row of a character.
Row(char, pac, s, r) ==
  LET fontRow == IF s.lines25 THEN r ELSE r - 1
      glyph == IF fontRow \in 0..(FontRows - 1) /\ Secret \notin pac
               THEN Font[<<char, CharSet(pac, s), fontRow>>] ELSE {}
      lined == IF (Under \in pac /\ r = UnderlineRow(s)) \/ (Upper \in pac /\ r = 0)
               THEN 0..7 ELSE glyph
  IN IF Reversed \in pac THEN 0..7 \ lined ELSE lined

Left(bits, n) == {b + n : b \in bits} \intersect 0..7
Right(bits, n) == {b - n : b \in bits} \intersect 0..7

\* Eight bits squeezed into the upper four, each the or of two.
halfBit(bit) ==
  (bit \intersect {7}) \union (Left(bit, 1) \intersect {6, 7}) \union (Left(bit, 2) \intersect {5, 6})
    \union (Left(bit, 3) \intersect {4, 5}) \union (Left(bit, 4) \intersect {4})

\* A run is found by looking at the next cell, also past the last one, where the
\* text begins; then it ends.
EvalAt(j) == IF j < Cols THEN eval_attr[j] ELSE textcach[j - Cols]

\* Mutant: a run goes on through cells of another colour.
sameColorCountAll(s, n) == Count(s) - n

sameColorCount(s, n) ==
  LET Same(k) == ColourOf(EvalAt(CellOf(s, n + k))) = ColourOf(EvalAt(CellOf(s, n)))
      differing == {k \in 1..Max({Count(s) - n, 2}) :
                      k >= Max({Count(s) - n, 2}) \/ ~Same(k)}
  IN Min(differing)

\* What fb.drawBitmap lights from x on: the bits of a bitmap whose rows take so
\* many bytes.
Bitmap(bytes, rowBytes, rows, x, colour) ==
  LET lit == {p \in (0..(8 * rowBytes - 1)) \X rows :
                7 - (p[1] % 8) \in bytes[rowBytes * p[2] + (p[1] \div 8)]}
  IN {<<x + p[1], p[2], colour>> : p \in lit}

\* The characters of a run, a byte each: 40 columns.
RunBytes(s, n, count) ==
  [at \in 0..(count * (LastRow(s) + 1) - 1) |->
     LET j == CellOf(s, n + (at % count)) IN Row(textcach[j], eval_attr[j], s, at \div count)]

\* Two characters to a byte, the last of an odd run alone: 80 columns.
HalfRunBytes(s, n, count) ==
  LET rowBytes == (count + 1) \div 2
      Half(k, r) == IF k < count THEN halfBit(Row(textcach[n + k], eval_attr[n + k], s, r)) ELSE {}
  IN [at \in 0..(rowBytes * (LastRow(s) + 1) - 1) |->
        LET k == 2 * (at % rowBytes)
            r == at \div rowBytes
        IN Half(k, r) \union Right(Half(k + 1, r), 4)]

\* A run on the M5. Past the right edge nothing shows, so the cell a run may
\* reach past the line is left out.
DrawRun ==
  /\ step = "draw" /\ set.variant = "m5" /\ col < Count(set)
  /\ LET found == sameColorCount(set, col)
         count == Min({found, Count(set) - col})
         colour == ColourOf(eval_attr[CellOf(set, col)])
         bytes == IF set.wide THEN RunBytes(set, col, count) ELSE HalfRunBytes(set, col, count)
         rowBytes == IF set.wide THEN count ELSE (count + 1) \div 2
     IN /\ picture' = picture \union
                        Bitmap(bytes, rowBytes, Rows(set), col * CellWidth(set), colour)
        /\ col' = col + found
  /\ UNCHANGED <<inputVars, step, attrcach, textcach, eval_attr, prev>>

\* Every bit twice.
wideBit(bits) == {2 * b : b \in bits} \union {2 * b + 1 : b \in bits}

\* A cell on the Atom: every row black, then its bits.
DrawCell ==
  /\ step = "draw" /\ set.variant = "atom" /\ col < Count(set)
  /\ LET j == CellOf(set, col)
         pac == eval_attr[j]
         left == col * CellWidth(set)
         Bits(r) == LET bits == Row(textcach[j], pac, set, r)
                    IN IF set.wide THEN wideBit(bits) ELSE bits
         lit == {p \in (0..(CellWidth(set) - 1)) \X Rows(set) : CellWidth(set) - 1 - p[1] \in Bits(p[2])}
     IN picture' = {p \in picture : p[1] \notin left..(left + CellWidth(set) - 1)}
                     \union {<<left + p[1], p[2], ColourOf(pac)>> : p \in lit}
  /\ col' = col + 1
  /\ UNCHANGED <<inputVars, step, attrcach, textcach, eval_attr, prev>>

Drawn ==
  /\ step = "draw" /\ col >= Count(set)
  /\ step' = "done"
  /\ UNCHANGED <<inputVars, attrcach, textcach, eval_attr, prev, col, picture>>

Next == Cache \/ Eval \/ DrawRun \/ DrawCell \/ Drawn

Spec == Init /\ [][Next]_vars
-----------------------------------------------------------------------------
(* Properties *)

\* The attributes of a line: the k-th of the memory applies from the k-th of
\* its columns on, counted upwards without repetitions.
ColumnsOf(a) == {a[i].col : i \in 1..Pairs}
From(a, i) == IF i <= Cardinality(ColumnsOf(a))
              THEN CHOOSE c \in ColumnsOf(a) : Cardinality({d \in ColumnsOf(a) : d < c}) = i - 1
              ELSE Cols

Colouring(a, s) == IF s.mono THEN {} ELSE {i \in 1..Pairs : 3 \in a[i].attr}
Functional(a, s) == {i \in 1..Pairs : s.mono \/ 3 \notin a[i].attr}

\* The colour and the functions of cell j.
ColourRef(a, s, c, j) ==
  LET before == {i \in Colouring(a, s) : From(a, i) <= j}
  IN CASE s.mono -> White
       [] ~s.mono /\ before # {} -> GRB2RGB(a[Max(before)].attr)
       [] ~s.mono /\ before = {} -> IF Colouring(a, s) = {} THEN {} ELSE c.color

FuncRef(a, s, c, j) ==
  LET before == {i \in Functional(a, s) : From(a, i) <= j}
  IN IF before # {} THEN FuncCode(a[Max(before)].attr, s.mono, s.blink)
     ELSE IF Functional(a, s) = {} THEN {} ELSE c.func

CellRef(j) ==
  LET plain == ColourRef(area, set, carry, j) \union FuncRef(area, set, carry, j)
      turned == (CursorShown(set) /\ set.cursor = j) # set.reverse
  IN (IF turned THEN Flip(plain, {Reversed}) ELSE plain)
       \union (IF CursorShown(set) /\ set.cursor = j THEN White ELSE {})

(***************************************************************************)
(* Every cell has the attributes that the memory gives it: for any order   *)
(* of the pairs, repeated columns and columns past the line, colour and    *)
(* functions apart, with what the line above carries over, the reversed    *)
(* screen and the cursor (_n80_attr_cache, _movcolor, _movattr and         *)
(* _n80_eval_attrib against the definition just above, which says per      *)
(* cell what the loops over the pairs amount to).                          *)
(***************************************************************************)
CellsRight == step = "draw" => \A j \in Cells : eval_attr[j] = CellRef(j)

(***************************************************************************)
(* A line carries over what its last cell has, where it sets anything at   *)
(* all: a line below that begins in mid-line continues it. Pairs past the  *)
(* line are not carried over, and cursor and reversed screen never are.    *)
(***************************************************************************)
CarryIsLastCell ==
  (step = "draw" /\ Functional(area, set) # {} /\ (set.mono \/ Colouring(area, set) # {})) =>
    IF set.mono THEN /\ prev.color = carry.color
                     /\ White \union prev.func = ColourRef(area, set, carry, Cols - 1)
                                                  \union FuncRef(area, set, carry, Cols - 1)
    ELSE prev = [color |-> ColourRef(area, set, carry, Cols - 1),
                 func |-> FuncRef(area, set, carry, Cols - 1)]

\* Whether a pixel of the line is lit: of which cell it is, and which bit or,
\* squeezed, which two bits of its row it shows.
PixelCell(s, x) == CellOf(s, x \div CellWidth(s))
PixelBits(s, x) ==
  LET at == x % CellWidth(s)
  IN CASE CellWidth(s) = 4 -> {7 - 2 * at, 6 - 2 * at}
       [] CellWidth(s) = 8 -> {7 - at}
       [] CellWidth(s) = 16 -> {7 - (at \div 2)}

BitLit(char, pac, s, b, y) ==
  LET row == IF s.lines25 THEN y ELSE y - 1
      lined == \/ Upper \in pac /\ y = 0
               \/ Under \in pac /\ y = LastRow(s) /\ ~(s.variant = "m5" /\ ~s.wide /\ s.lines25)
      shape == /\ Secret \notin pac
               /\ row \in 0..(FontRows - 1)
               /\ b \in Font[<<char, CharSet(pac, s), row>>]
  IN (lined \/ shape) # (Reversed \in pac)

PixelLit(p) ==
  LET j == PixelCell(set, p[1])
  IN \E b \in PixelBits(set, p[1]) : BitLit(text[j], eval_attr[j], set, b, p[2])

(***************************************************************************)
(* The panel shows the line: every pixel is that of its cell, its          *)
(* character, attributes and colour, in each of the eight drawing          *)
(* functions, however the runs of one colour fall, odd or even, and        *)
(* whatever was on the panel before. The underline is missing on the M5    *)
(* with 80 columns and 25 lines. A cursor past the line is left out, as it *)
(* changes a character.                                                    *)
(***************************************************************************)
LineShown ==
  (step = "done" /\ set.cursor < Cols) =>
    picture = {<<p[1], p[2], ColourOf(eval_attr[PixelCell(set, p[1])])>> :
                 p \in {q \in (0..(Width(set) - 1)) \X Rows(set) : PixelLit(q)}}
=============================================================================
