------------------------------- MODULE Screen -------------------------------
(***************************************************************************)
(* What the display promises the program, without its locks and caches:    *)
(* every frame that reaches the panel is made of whole lines. A line of a  *)
(* frame is black, or it is what the text memory held in that line at one  *)
(* instant while the frame was being made; a text byte and an attribute    *)
(* byte written one after the other never show in the wrong order.         *)
(***************************************************************************)
CONSTANTS
  LineNos,  \* the lines of the screen
  Texts,    \* what the text part of a line may hold
  Attrs,    \* what the attribute part of a line may hold
  Black     \* a line not drawn

VARIABLES
  mem,      \* the text memory, line by line
  frame,    \* the frame being made
  lcd       \* the frame on the panel

vars == <<mem, frame, lcd>>

Contents == [text : Texts, attr : Attrs]

BlackFrame == [l \in LineNos |-> Black]

Init == /\ mem \in [LineNos -> Contents]
        /\ frame = BlackFrame
        /\ lcd = BlackFrame

\* The program changes one part of one line.
Write(l) == \E c \in Contents :
              /\ c.text = mem[l].text \/ c.attr = mem[l].attr
              /\ mem' = [mem EXCEPT ![l] = c]
              /\ UNCHANGED <<frame, lcd>>

\* A new frame is begun.
Begin == frame' = BlackFrame /\ UNCHANGED <<mem, lcd>>

\* One line of it is taken, whole.
Take(l) == frame' = [frame EXCEPT ![l] = mem[l]] /\ UNCHANGED <<mem, lcd>>

\* The frame goes to the panel.
Push == lcd' = frame /\ UNCHANGED <<mem, frame>>

Next == \/ \E l \in LineNos : Write(l) \/ Take(l)
        \/ Begin
        \/ Push

Spec == Init /\ [][Next]_vars
=============================================================================
