------------------------------- MODULE Attrib -------------------------------
(***************************************************************************)
(* The attributes of a line of text: how attr.cache() orders the pairs of  *)
(* column and attribute that follow the text in memory, and how            *)
(* attr.eval() makes of them the attribute of every cell, what the line    *)
(* carries over to the one below, and the cursor.                          *)
(*                                                                         *)
(* Bytes are sets of bit numbers, as only their bits matter: & is          *)
(* \intersect, | is \union, ^ is Flip.                                     *)
(***************************************************************************)
EXTENDS Integers, Sequences, SequencesExt, FiniteSetsExt

CONSTANTS
  Cols,    \* cells of a line (80)
  Pairs    \* pairs of column and attribute (20)

ASSUME AttribAssumption == Cols \in Nat \ {0} /\ Pairs \in Nat \ {0}

Bytes == SUBSET (0..7)
Cells == 0..(Cols - 1)

\* The attribute of a cell, the plane attribute code: three bits of colour and
\* these functions.
Upper == 3
Graph == 4
Reversed == 5
Secret == 6
Under == 7

White == {0, 1, 2}

Flip(byte, bits) == (byte \union bits) \ (byte \intersect bits)
-----------------------------------------------------------------------------
(* attr.cache() *)

\* Mutant: columns stay in the order of the memory.
InsertLast(cols, c) == IF c \in ToSet(cols) THEN cols ELSE Append(cols, c)

\* A column is put in its place among those before it, once.
Insert(cols, c) ==
  LET at == Min({i \in 1..Len(cols) : cols[i] > c} \union {Len(cols) + 1})
  IN IF c \in ToSet(cols) THEN cols
     ELSE [i \in 1..(Len(cols) + 1) |->
             IF i < at THEN cols[i] ELSE IF i = at THEN c ELSE cols[i - 1]]

\* The columns in ascending order, without repetitions.
Sorted(area) ==
  LET upTo[n \in 0..Pairs] == IF n = 0 THEN << >> ELSE Insert(upTo[n - 1], area[n].col)
  IN upTo[Pairs]

\* They are filled up with one past the line; the attributes stay in the order
\* of the memory.
cache(area) ==
  [i \in 1..Pairs |-> [col |-> IF i <= Len(Sorted(area)) THEN Sorted(area)[i] ELSE Cols,
                       attr |-> area[i].attr]]
-----------------------------------------------------------------------------
(* attr.eval() *)

\* What an attribute leaves of a cell is the mask, what it gives is the code.
Put(byte, mask, code) == (byte \intersect mask) \union code

\* The pairs in kind are given to cells: each from its column to the end of the
\* line. Cells before the first of them get what the line above carried over.
Spread(cached, kind, code, cells, mask, carried) ==
  LET upTo[n \in 0..Pairs] ==
        IF n = 0 THEN cells
        ELSE [j \in Cells |-> IF n \in kind /\ j >= cached[n].col
                              THEN Put(upTo[n - 1][j], mask, code[n]) ELSE upTo[n - 1][j]]
  IN [j \in Cells |-> IF kind # {} /\ j < cached[Min(kind)].col
                      THEN Put(upTo[Pairs][j], mask, carried) ELSE upTo[Pairs][j]]

\* What is carried over: of the last attribute on the line.
Carried(cached, kind, code, carried) ==
  LET onLine == {i \in kind : cached[i].col < Cols}
  IN IF onLine = {} THEN carried ELSE code[Max(onLine)]

\* Bits 7 to 5 of a colour attribute are green, red and blue, bit 4 graphic.
GRB2RGB(attr) ==
  {CASE b = 7 -> 1 [] b = 6 -> 2 [] b = 5 -> 0 [] b = 4 -> Graph :
     b \in attr \intersect {4, 5, 6, 7}}

FuncBits == {0, 2, 4, 5, 7}
chk_funcbit(attr) ==
  {CASE b = 0 -> Secret [] b = 2 -> Reversed [] b = 7 -> Graph [] b = 4 -> Upper [] b = 5 -> Under :
     b \in attr \intersect FuncBits}

\* _convmono and _convcolor
convfunc(attr, mono) == chk_funcbit(attr \intersect (IF mono THEN 0..7 \ {3} ELSE {0, 1, 2, 4, 5}))

\* An attribute that blinks is hidden in the phase without the cursor, unless
\* it is hidden anyway.
FuncCode(attr, mono, blink) ==
  convfunc(attr, mono) \union
    (IF attr \intersect {0, 1} = {1} /\ ~blink THEN {Secret} ELSE {})

\* The pairs that set a colour, those that set functions, and their codes.
Colours(attrcach, mono) == {i \in 1..Pairs : ~mono /\ 3 \in attrcach[i].attr}
Funcs(attrcach, mono) == {i \in 1..Pairs : mono \/ 3 \notin attrcach[i].attr}

ColorCodes(attrcach) == [i \in 1..Pairs |-> GRB2RGB(attrcach[i].attr)]
FuncCodes(attrcach, set) == [i \in 1..Pairs |-> FuncCode(attrcach[i].attr, set.mono, set.blink)]

\* A line in a colour mode without any colour attribute is black, whatever
\* the line above carried over.
movcolor(attrcach, set, carry) ==
  IF set.mono THEN [j \in Cells |-> White]
  ELSE Spread(attrcach, Colours(attrcach, FALSE), ColorCodes(attrcach),
              [j \in Cells |-> {}], {}, carry.color)

\* Mutant: a colour past the line is carried over as well.
CarriedColorPast(attrcach, set, carry) ==
  LET slots == Colours(attrcach, set.mono)
  IN IF slots = {} THEN carry.color ELSE ColorCodes(attrcach)[Max(slots)]

CarriedColor(attrcach, set, carry) ==
  Carried(attrcach, Colours(attrcach, set.mono), ColorCodes(attrcach), carry.color)

movattr(attrcach, cells, set, carry) ==
  LET mask == IF set.mono THEN White ELSE White \union {Graph}
      given == Spread(attrcach, Funcs(attrcach, set.mono), FuncCodes(attrcach, set),
                      cells, mask, carry.func)
  IN [j \in Cells |-> IF set.reverse THEN Flip(given[j], {Reversed}) ELSE given[j]]

CarriedFunc(attrcach, set, carry) ==
  Carried(attrcach, Funcs(attrcach, set.mono), FuncCodes(attrcach, set), carry.func)

\* The cell under the cursor, when it shows, is reversed and white.
CursorCell(byte) == Flip(byte, {Reversed}) \union White
=============================================================================
