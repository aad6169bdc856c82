--------------------------- MODULE ConsoleProofs ---------------------------
(***************************************************************************)
(* For whatever is typed, sampled and reported, and for lists of any       *)
(* length: a saved image is of one moment, a list shows what is selected,  *)
(* no key stays down that nobody holds, none that is held is lost, and a   *)
(* typed character is never read with another's SHIFT or CTRL.             *)
(*                                                                         *)
(* The keys are wrong in between: they are right once the operations under *)
(* way are done. The invariants therefore speak of Coming, the keys that   *)
(* will be down then, which an operation carried out does not change; and  *)
(* of the flags the code keeps about each source. A character typed is     *)
(* followed operation by operation.                                        *)
(***************************************************************************)
EXTENDS Console, FiniteSetTheorems, TLAPS

(* The menus *)

\* Who has the panel while the machine is suspended, and what is saved so far.
MenuInv ==
  /\ variant \in {"m5", "atom"}
  /\ screen \in Screens
  /\ suspendMachine \in BOOLEAN
  /\ suspendMachine <=> screen # "machine"
  /\ screen \in {"files", "system", "saving"} => z80 = "asleep"
  /\ moment \in Moments
  /\ image \in [memory : Moments, sp : Moments]
  /\ screen = "saving" => image.memory = moment
  /\ ImageOfMoment

LEMMA MenuStarts == Init => MenuInv
<1> SUFFICES ASSUME Init PROVE MenuInv
  OBVIOUS
<1>1. 0 \in Moments
  BY DEF Moments
<1>2. image \in [memory : Moments, sp : Moments] /\ moment \in Moments /\ ImageOfMoment
  BY <1>1 DEF Init, ImageOfMoment
<1>3. QED
  BY <1>2 DEF Init, MenuInv, Screens

LEMMA MenuStep == MenuInv /\ [Next]_vars => MenuInv'
<1> SUFFICES ASSUME MenuInv, [Next]_vars PROVE MenuInv'
  OBVIOUS
<1> USE DEF MenuInv, ImageOfMoment, Screens
<1>1. CASE UNCHANGED <<variant, menuVars, imageVars>>
  BY <1>1 DEF menuVars, imageVars
<1>2. CASE Operate \/ Serial \/ Card \/ JoyPad \/ Report
  BY <1>1, <1>2 DEF Operate, Serial, Card, Type, JoyPad, Report
<1>3. CASE OpenMenu
  BY <1>3 DEF OpenMenu, Free, imageVars
<1>4. CASE Settled
  BY <1>4 DEF Settled, imageVars
<1>5. CASE SystemNext
  BY <1>5 DEF SystemNext, imageVars
<1>6. CASE SystemSelect
  <2>1. CASE selectIndex \in {0, 1, 2}
    BY <1>6, <2>1 DEF SystemSelect, Resume, menuVars
  <2>2. CASE selectIndex = 3
    BY <1>6, <2>2 DEF SystemSelect, Resume
  <2>3. QED
    BY <1>6, <2>1, <2>2 DEF SystemSelect
<1>7. CASE SaveSP
  BY <1>7 DEF SaveSP, Resume
<1>8. CASE FilesMove
  BY <1>8 DEF FilesMove, imageVars
<1>9. CASE FilesSelect
  BY <1>9 DEF FilesSelect, Resume
<1>10. CASE Pass
  BY <1>10 DEF Pass, menuVars, Moments
<1>11. CASE Wake
  BY <1>11 DEF Wake, menuVars
<1>12. CASE UNCHANGED vars
  BY <1>1, <1>12 DEF vars
<1>13. QED
  BY <1>2, <1>3, <1>4, <1>5, <1>6, <1>7, <1>8, <1>9, <1>10, <1>11, <1>12 DEF Next

\* Whatever is done in the menus and whenever the Z80 thread goes to sleep, a
\* saved image is of one moment.
THEOREM ImageWhole == Spec => []ImageOfMoment
<1>1. MenuInv => ImageOfMoment
  BY DEF MenuInv
<1>2. QED
  BY <1>1, MenuStarts, MenuStep, PTL DEF Spec
-----------------------------------------------------------------------------
(* The lists *)

LEMMA MaxOfTwo ==
  ASSUME NEW a \in Int, NEW b \in Int
  PROVE  Max({a, b}) = IF a >= b THEN a ELSE b
  BY DEF Max

LEMMA MinOfTwo ==
  ASSUME NEW a \in Int, NEW b \in Int
  PROVE  Min({a, b}) = IF a <= b THEN a ELSE b
  BY DEF Min

\* The selected entry is one of the list.
ListInv ==
  /\ variant \in {"m5", "atom"}
  /\ screen = "files" => selectIndex \in 0..LastEntry

LEMMA ListStarts == Init => ListInv
  BY DEF Init, ListInv

LEMMA ListStep == ListInv /\ [Next]_vars => ListInv'
<1> SUFFICES ASSUME ListInv, [Next]_vars PROVE ListInv'
  OBVIOUS
<1>1. LastEntry \in Nat
  BY ConsoleAssumption DEF LastEntry, ListInv
<1>2. variant' = variant /\ LastEntry' = LastEntry
  BY DEF Next, vars, LastEntry, Operate, Serial, Card, Type, JoyPad, Report, OpenMenu, Settled,
         SystemNext, SystemSelect, SaveSP, FilesMove, FilesSelect, Pass, Wake
<1>3. CASE UNCHANGED <<screen, selectIndex>>
  BY <1>2, <1>3 DEF ListInv
<1>4. CASE screen' # "files"
  BY <1>2, <1>4 DEF ListInv
<1>5. CASE Settled
  <2>1. 0 \in 0..LastEntry
    BY <1>1
  <2>2. variant = "m5" => 0..(FileCount - 1) = 0..LastEntry
    BY DEF LastEntry
  <2>3. QED
    BY <1>2, <1>5, <2>1, <2>2 DEF Settled, ListInv
<1>6. CASE FilesMove
  <2>1. selectIndex \in 0..LastEntry
    BY <1>6 DEF FilesMove, ListInv
  <2>2. /\ Max({0, selectIndex - 1}) \in 0..LastEntry
        /\ Min({LastEntry, selectIndex + 1}) \in 0..LastEntry
    BY <1>1, <2>1, MaxOfTwo, MinOfTwo
  <2>3. QED
    BY <1>1, <1>2, <1>6, <2>1, <2>2 DEF FilesMove, ListInv
<1>7. QED
  BY <1>3, <1>4, <1>5, <1>6
     DEF Next, vars, menuVars, Operate, Serial, Card, Type, JoyPad, Report, OpenMenu,
         SystemNext, SystemSelect, SaveSP, FilesSelect, Pass, Wake, Resume

\* What a list shows is an interval.
LEMMA ListShows ==
  ASSUME ListInv, screen = "files"
  PROVE  /\ (selectIndex \in Shown(selectIndex)) = ~(variant = "m5" /\ selectIndex = LastEntry)
         /\ Shown(selectIndex) \subseteq 0..LastEntry
         /\ Cardinality(Shown(selectIndex)) <= ListRows + 1
<1> DEFINE i == selectIndex
           start == Max({0, i - ListLead})
           cut == start + ListRows > LastEntry
           end == IF cut THEN LastEntry ELSE start + ListRows
           first == IF variant = "atom" /\ cut THEN Max({0, end - ListRows}) ELSE start
           final == IF variant = "atom" THEN end ELSE end - 1
<1>1. /\ LastEntry \in Nat /\ i \in 0..LastEntry
      /\ ListRows \in Nat /\ ListLead \in Nat /\ ListLead < ListRows
  BY ConsoleAssumption DEF ListInv, LastEntry
<1>2. start = IF 0 >= i - ListLead THEN 0 ELSE i - ListLead
  BY <1>1, MaxOfTwo
<1>3. start \in 0..LastEntry /\ start <= i /\ i <= start + ListLead
  BY <1>1, <1>2
<1>4. end \in 0..LastEntry /\ end <= start + ListRows /\ (cut \/ i < end) /\ i <= end
  BY <1>1, <1>3
<1>5. Max({0, end - ListRows}) = IF 0 >= end - ListRows THEN 0 ELSE end - ListRows
  BY <1>1, <1>4, MaxOfTwo
<1>6. Shown(i) = first..final
  BY DEF Shown
<1>7. first \in 0..LastEntry /\ first <= i /\ end - first <= ListRows
  <2>1. CASE variant = "atom" /\ cut
    <3>1. end = LastEntry /\ first = IF 0 >= end - ListRows THEN 0 ELSE end - ListRows
      BY <2>1, <1>5
    <3> HIDE DEF first, end
    <3>2. QED
      BY <3>1, <1>1, <1>3, <1>4, <2>1
  <2>2. CASE ~(variant = "atom" /\ cut)
    <3>1. first = start
      BY <2>2
    <3> HIDE DEF first, end, start
    <3>2. QED
      BY <3>1, <1>1, <1>3, <1>4
  <2>3. QED
    BY <2>1, <2>2
<1>8. /\ final <= LastEntry /\ final - first <= ListRows /\ final \in Int /\ first \in Nat
      /\ i <= final <=> ~(variant = "m5" /\ i = LastEntry)
  <2>1. final = end \/ final = end - 1
    OBVIOUS
  <2>2. variant = "atom" \/ variant = "m5"
    BY DEF ListInv
  <2>3. i < end \/ (i <= end /\ end = LastEntry)
    BY <1>4
  <2>4. (variant = "atom" => final = end) /\ (variant = "m5" => final = end - 1)
    OBVIOUS
  <2> HIDE DEF final, end, first, cut, start
  <2>5. QED
    BY <1>1, <1>4, <1>7, <2>1, <2>2, <2>3, <2>4
<1> HIDE DEF i, start, cut, end, first, final
<1>9. Cardinality(first..final) = IF first > final THEN 0 ELSE final - first + 1
  BY <1>8, FS_Interval
<1>10. Cardinality(first..final) <= ListRows + 1
  BY <1>1, <1>8, <1>9
<1>11. /\ i \in first..final <=> ~(variant = "m5" /\ i = LastEntry)
       /\ first..final \subseteq 0..LastEntry
  BY <1>1, <1>7, <1>8
<1>12. QED
  BY <1>6, <1>10, <1>11 DEF i

\* For every number of files and every height of the list, the list shows the
\* entry that is selected, and never more than fit.
THEOREM ListCorrect == Spec => []SelectionShown
<1>1. ListInv => SelectionShown
  BY ListShows DEF SelectionShown
<1>2. QED
  BY <1>1, ListStarts, ListStep, PTL DEF Spec
-----------------------------------------------------------------------------
(* The keys *)

Ops == [down : BOOLEAN, at : Int]

\* What an operation makes of the keys that are down, and what the operations
\* still to be done will have made of them in the end: the last one on a key
\* decides.
Do(op, ks) ==
  IF op.at \notin Positions THEN ks ELSE IF op.down THEN ks \union {op.at} ELSE ks \ {op.at}

Untouched(ops, p) == \A i \in 1..Len(ops) : ops[i].at # p

Presses(ops, p) ==
  \E i \in 1..Len(ops) : ops[i].at = p /\ ops[i].down /\ \A j \in (i + 1)..Len(ops) : ops[j].at # p

After(ops, ks) == {p \in Positions : Presses(ops, p) \/ (p \in ks /\ Untouched(ops, p))}

LEMMA AfterNothing ==
  ASSUME NEW ks, ks \subseteq Positions
  PROVE  After(<< >>, ks) = ks
  BY DEF After, Presses, Untouched

LEMMA AfterOne ==
  ASSUME NEW ks, ks \subseteq Positions, NEW op \in Ops
  PROVE  After(<<op>>, ks) = Do(op, ks)
  BY DEF After, Presses, Untouched, Do, Ops

LEMMA AfterBoth ==
  ASSUME NEW ks, NEW a \in Seq(Ops), NEW b \in Seq(Ops)
  PROVE  After(a \o b, ks) = After(b, After(a, ks))
<1> SUFFICES ASSUME NEW p \in Positions
             PROVE  p \in After(a \o b, ks) <=> p \in After(b, After(a, ks))
  BY DEF After
<1> DEFINE c == a \o b
<1>1. /\ c \in Seq(Ops) /\ Len(c) = Len(a) + Len(b) /\ Len(a) \in Nat /\ Len(b) \in Nat
      /\ \A i \in 1..Len(a) : c[i] = a[i]
      /\ \A i \in 1..Len(b) : c[Len(a) + i] = b[i]
  OBVIOUS
<1>2. \A i \in 1..Len(c) : i \in 1..Len(a) \/ (i - Len(a) \in 1..Len(b) /\ c[i] = b[i - Len(a)])
  BY <1>1
<1> HIDE DEF c
<1>3. Untouched(c, p) <=> Untouched(a, p) /\ Untouched(b, p)
  <2>1. ASSUME Untouched(c, p) PROVE Untouched(a, p) /\ Untouched(b, p)
    <3>1. \A i \in 1..Len(a) : i \in 1..Len(c)
      BY <1>1
    <3>2. \A i \in 1..Len(b) : Len(a) + i \in 1..Len(c)
      BY <1>1
    <3>3. QED
      BY <1>1, <2>1, <3>1, <3>2 DEF Untouched
  <2>2. ASSUME Untouched(a, p), Untouched(b, p) PROVE Untouched(c, p)
    BY <1>1, <1>2, <2>2 DEF Untouched
  <2>3. QED
    BY <2>1, <2>2
<1>4. ASSUME Presses(c, p) PROVE Presses(b, p) \/ (Presses(a, p) /\ Untouched(b, p))
  <2>1. PICK i \in 1..Len(c) :
          c[i].at = p /\ c[i].down /\ \A j \in (i + 1)..Len(c) : c[j].at # p
    BY <1>4 DEF Presses
  <2>2. CASE i \in 1..Len(a)
    <3>1. a[i].at = p /\ a[i].down
      BY <1>1, <2>1, <2>2
    <3>2. \A j \in (i + 1)..Len(a) : a[j].at # p
      <4>1. \A j \in (i + 1)..Len(a) : j \in (i + 1)..Len(c) /\ j \in 1..Len(a)
        BY <1>1, <2>2
      <4>2. QED
        BY <1>1, <2>1, <4>1
    <3>3. \A j \in 1..Len(b) : b[j].at # p
      <4>1. \A j \in 1..Len(b) : Len(a) + j \in (i + 1)..Len(c)
        BY <1>1, <2>2
      <4>2. QED
        BY <1>1, <2>1, <4>1
    <3>4. QED
      BY <2>2, <3>1, <3>2, <3>3 DEF Presses, Untouched
  <2>3. CASE i \notin 1..Len(a)
    <3>1. i - Len(a) \in 1..Len(b) /\ c[i] = b[i - Len(a)]
      BY <1>2, <2>3
    <3>2. \A j \in (i - Len(a) + 1)..Len(b) : b[j].at # p
      <4>1. \A j \in (i - Len(a) + 1)..Len(b) : Len(a) + j \in (i + 1)..Len(c) /\ j \in 1..Len(b)
        BY <1>1, <3>1
      <4>2. QED
        BY <1>1, <2>1, <4>1
    <3>3. QED
      BY <2>1, <3>1, <3>2 DEF Presses
  <2>4. QED
    BY <2>2, <2>3
<1>5. ASSUME Presses(b, p) PROVE Presses(c, p)
  <2>1. PICK i \in 1..Len(b) :
          b[i].at = p /\ b[i].down /\ \A j \in (i + 1)..Len(b) : b[j].at # p
    BY <1>5 DEF Presses
  <2>2. Len(a) + i \in 1..Len(c) /\ c[Len(a) + i] = b[i]
    BY <1>1
  <2>3. \A j \in (Len(a) + i + 1)..Len(c) : j - Len(a) \in (i + 1)..Len(b) /\ c[j] = b[j - Len(a)]
    BY <1>1, <1>2
  <2>4. QED
    BY <2>1, <2>2, <2>3 DEF Presses
<1>6. ASSUME Presses(a, p), Untouched(b, p) PROVE Presses(c, p)
  <2>1. PICK i \in 1..Len(a) :
          a[i].at = p /\ a[i].down /\ \A j \in (i + 1)..Len(a) : a[j].at # p
    BY <1>6 DEF Presses
  <2>2. i \in 1..Len(c) /\ c[i] = a[i]
    BY <1>1
  <2>3. \A j \in (i + 1)..Len(c) : c[j].at # p
    <3>1. \A j \in (i + 1)..Len(c) : j \in 1..Len(a) => j \in (i + 1)..Len(a)
      BY <1>1
    <3>2. \A j \in (i + 1)..Len(c) : j \in 1..Len(c)
      BY <1>1
    <3>3. \A k \in 1..Len(b) : b[k].at # p
      BY <1>6, Zenon DEF Untouched
    <3>4. TAKE j \in (i + 1)..Len(c)
    <3>5. CASE j \in 1..Len(a)
      <4>1. j \in (i + 1)..Len(a) /\ c[j] = a[j]
        BY <1>1, <3>1, <3>5
      <4>2. QED
        BY <2>1, <4>1
    <3>6. CASE j - Len(a) \in 1..Len(b) /\ c[j] = b[j - Len(a)]
      BY <3>3, <3>6
    <3>7. QED
      BY <1>2, <3>2, <3>5, <3>6
  <2>4. c[i].at = p /\ c[i].down
    BY <2>1, <2>2
  <2>5. QED
    BY <2>2, <2>3, <2>4, Zenon DEF Presses
<1>7. QED
  BY <1>3, <1>4, <1>5, <1>6 DEF After, c

LEMMA AfterFirst ==
  ASSUME NEW ks, ks \subseteq Positions, NEW ops \in Seq(Ops), ops # << >>
  PROVE  After(ops, ks) = After(Tail(ops), Do(Head(ops), ks))
<1>1. <<Head(ops)>> \in Seq(Ops) /\ Tail(ops) \in Seq(Ops) /\ Head(ops) \in Ops
  OBVIOUS
<1>2. ops = <<Head(ops)>> \o Tail(ops)
  OBVIOUS
<1>3. After(<<Head(ops)>> \o Tail(ops), ks) = After(Tail(ops), After(<<Head(ops)>>, ks))
  BY <1>1, AfterBoth
<1>4. QED
  BY <1>1, <1>2, <1>3, AfterOne
-----------------------------------------------------------------------------
(* The tables *)

LEMMA EntryOfTable ==
  ASSUME NEW table, NEW code, Listed(code, table)
  PROVE  \E k \in table : k[1] = code /\ Entry(code, table) = k[2]
  BY DEF Listed, Entry

\* Every code has a position, or the number for none.
LEMMA ConvertType ==
  ASSUME NEW code
  PROVE  convert_key(code) \in 0..255
<1>1. CASE code \in \h30..\h39 \/ code \in \h61..\h7A \/ code \in \hF0..\hF9
  BY <1>1 DEF convert_key
<1>2. CASE Listed(code, OtherKeys)
  <2>1. \A k \in OtherKeys : k[2] \in 0..255
    BY DEF OtherKeys, SHIFT, CTRL, GRAPH, SPACE, RETURN
  <2>2. Entry(code, OtherKeys) \in 0..255
    BY <1>2, <2>1, EntryOfTable
  <2>3. CASE ~(code \in \h30..\h39 \/ code \in \h61..\h7A \/ code \in \hF0..\hF9)
    <3>1. convert_key(code) = Entry(code, OtherKeys)
      BY <1>2, <2>3, Zenon DEF convert_key
    <3>2. QED
      BY <2>2, <3>1
  <2>4. QED
    BY <1>1, <2>3
<1>3. QED
  BY <1>1, <1>2 DEF convert_key, NoKey

LEMMA HidType ==
  ASSUME NEW code
  PROVE  hid_to_emu(code) \in 0..255
<1>1. CASE \/ code \in \h04..\h1D \/ code \in \h1E..\h26 \/ code \in \h39..\h3E
           \/ code \in \h59..\h61
  BY <1>1 DEF hid_to_emu
<1>2. CASE Listed(code, HidOthers)
  <2>1. \A k \in HidOthers : k[2] \in 0..255
    BY DEF HidOthers, SHIFT, CTRL, GRAPH, KANA, SPACE, RETURN
  <2>2. Entry(code, HidOthers) \in 0..255
    BY <1>2, <2>1, EntryOfTable
  <2>3. CASE ~(\/ code \in \h04..\h1D \/ code \in \h1E..\h26 \/ code \in \h39..\h3E
              \/ code \in \h59..\h61)
    <3>1. hid_to_emu(code) = Entry(code, HidOthers)
      BY <1>2, <2>3, Zenon DEF hid_to_emu
    <3>2. QED
      BY <2>2, <3>1
  <2>4. QED
    BY <1>1, <2>3
<1>3. QED
  BY <1>1, <1>2 DEF hid_to_emu, NoKey

\* The keys of the joypad are six different ones, none of them the blank.
LEMMA PadPositions ==
  /\ convert_key(KEY_TENKEY_0 + 8) = 8 /\ convert_key(KEY_TENKEY_0 + 2) = 2
  /\ convert_key(KEY_TENKEY_0 + 4) = 4 /\ convert_key(KEY_TENKEY_0 + 6) = 6
  /\ convert_key(KEY_GRAPH) = GRAPH /\ convert_key(\h0D) = RETURN
  /\ convert_key(\h20) = SPACE
<1>1. \A d \in 0..9 : convert_key(KEY_TENKEY_0 + d) = d
  BY DEF convert_key, KEY_TENKEY_0
<1>2. /\ <<KEY_GRAPH, GRAPH>> \in OtherKeys /\ <<\h0D, RETURN>> \in OtherKeys
      /\ <<\h20, SPACE>> \in OtherKeys
  BY DEF OtherKeys
<1>3. /\ \A k \in OtherKeys : k[1] = KEY_GRAPH => k[2] = GRAPH
      /\ \A k \in OtherKeys : k[1] = \h0D => k[2] = RETURN
      /\ \A k \in OtherKeys : k[1] = \h20 => k[2] = SPACE
  BY DEF OtherKeys, KEY_GRAPH, KEY_CTRL, KEY_SHIFT
<1>4. /\ Listed(KEY_GRAPH, OtherKeys) /\ Listed(\h0D, OtherKeys) /\ Listed(\h20, OtherKeys)
  BY <1>2 DEF Listed
<1>5. /\ Entry(KEY_GRAPH, OtherKeys) = GRAPH /\ Entry(\h0D, OtherKeys) = RETURN
      /\ Entry(\h20, OtherKeys) = SPACE
  BY <1>3, <1>4, EntryOfTable
<1>6. QED
  BY <1>1, <1>4, <1>5 DEF convert_key, KEY_GRAPH

\* The codes a Bluetooth keyboard reports as its first key.
HidCodes == (0..250) \ {165}

\* The modifiers of the Bluetooth keyboard and the kana key have their keys to
\* themselves.
LEMMA HidSpecials ==
  /\ hid_to_emu(0) = NoKey
  /\ hid_to_emu(KEY_SHIFT) = SHIFT /\ hid_to_emu(KEY_CTRL) = CTRL
  /\ hid_to_emu(KEY_GRAPH) = GRAPH /\ hid_to_emu(KEY_KANA) = KANA
  /\ \A code \in HidCodes : code \notin 1..165 => hid_to_emu(code) = NoKey
  /\ \A code \in HidCodes :
       code # KEY_KANA => hid_to_emu(code) \notin {SHIFT, CTRL, GRAPH, KANA}
<1>1. \A k \in HidOthers : k[1] # 0
  BY DEF HidOthers, KEY_LEFT, KEY_DOWN, KEY_KANA, KEY_GRAPH, KEY_CTRL, KEY_SHIFT
<1>2. /\ <<KEY_SHIFT, SHIFT>> \in HidOthers /\ <<KEY_CTRL, CTRL>> \in HidOthers
      /\ <<KEY_GRAPH, GRAPH>> \in HidOthers /\ <<KEY_KANA, KANA>> \in HidOthers
  BY DEF HidOthers
<1>3. /\ \A k \in HidOthers : k[1] = KEY_SHIFT => k[2] = SHIFT
      /\ \A k \in HidOthers : k[1] = KEY_CTRL => k[2] = CTRL
      /\ \A k \in HidOthers : k[1] = KEY_GRAPH => k[2] = GRAPH
      /\ \A k \in HidOthers : k[1] = KEY_KANA => k[2] = KANA
  BY DEF HidOthers, KEY_LEFT, KEY_DOWN, KEY_KANA, KEY_GRAPH, KEY_CTRL, KEY_SHIFT
<1>4. \A k \in HidOthers :
        k[1] \in HidCodes =>
          k[1] \in 1..165 /\ (k[1] # KEY_KANA => k[2] \notin {SHIFT, CTRL, GRAPH, KANA})
  <2>1. /\ KEY_LEFT \in 1..164 /\ KEY_DOWN \in 1..164 /\ KEY_KANA \in 1..164
        /\ KEY_SHIFT \notin HidCodes /\ KEY_CTRL \notin HidCodes /\ KEY_GRAPH \notin HidCodes
    BY DEF HidCodes, KEY_LEFT, KEY_DOWN, KEY_KANA, KEY_GRAPH, KEY_CTRL, KEY_SHIFT
  <2>2. QED
    BY <2>1 DEF HidOthers, SHIFT, CTRL, GRAPH, KANA, SPACE, RETURN
<1>5. /\ Listed(KEY_SHIFT, HidOthers) /\ Listed(KEY_CTRL, HidOthers)
      /\ Listed(KEY_GRAPH, HidOthers) /\ Listed(KEY_KANA, HidOthers) /\ ~Listed(0, HidOthers)
  BY <1>1, <1>2 DEF Listed
<1>6. /\ Entry(KEY_SHIFT, HidOthers) = SHIFT /\ Entry(KEY_CTRL, HidOthers) = CTRL
      /\ Entry(KEY_GRAPH, HidOthers) = GRAPH /\ Entry(KEY_KANA, HidOthers) = KANA
  BY <1>3, <1>5, EntryOfTable
<1>7. ASSUME NEW code \in HidCodes, code # KEY_KANA
      PROVE  hid_to_emu(code) \notin {SHIFT, CTRL, GRAPH, KANA}
  <2>1. Listed(code, HidOthers) => Entry(code, HidOthers) \notin {SHIFT, CTRL, GRAPH, KANA}
    BY <1>4, <1>7, EntryOfTable
  <2>2. QED
    BY <1>7, <2>1 DEF HidCodes, hid_to_emu, SHIFT, CTRL, GRAPH, KANA, NoKey
<1>8. ASSUME NEW code \in HidCodes, code \notin 1..165
      PROVE  hid_to_emu(code) = NoKey
  <2>1. ~Listed(code, HidOthers)
    BY <1>4, <1>8 DEF Listed
  <2>2. QED
    BY <1>8, <2>1 DEF HidCodes, hid_to_emu
<1>9. QED
  BY <1>5, <1>6, <1>7, <1>8 DEF hid_to_emu, KEY_SHIFT, KEY_CTRL, KEY_GRAPH, KEY_KANA

\* Ten-key mode turns a cursor key into a digit and leaves the others alone.
LEMMA TenKeyType ==
  ASSUME NEW code \in HidCodes
  PROVE  /\ ToTenKey(code) \in HidCodes
         /\ code # KEY_KANA => ToTenKey(code) # KEY_KANA
         /\ ToTenKey(code) \notin {KEY_DOWN, KEY_LEFT}
<1>1. \A k \in TenKeys : k[2] \in HidCodes /\ k[2] \notin {KEY_KANA, KEY_DOWN, KEY_LEFT}
  BY DEF HidCodes, TenKeys, KEY_KANA, KEY_DOWN, KEY_LEFT
<1>2. Listed(KEY_DOWN, TenKeys) /\ Listed(KEY_LEFT, TenKeys)
  BY DEF Listed, TenKeys
<1>3. QED
  BY <1>1, <1>2, EntryOfTable DEF ToTenKey
-----------------------------------------------------------------------------
(* What is down and who holds it *)

\* The keys that will be down when the operations under way are done.
Coming == After(todo, keys)

\* The keys of the joypad.
PadAt == [U |-> 8, D |-> 2, L |-> 4, R |-> 6, B |-> GRAPH, Press |-> RETURN]
PadHolds == {PadAt[n] : n \in pushed}

\* The keys the Bluetooth keyboard holds, and the SHIFT it adds to two of them.
HidHolds ==
  {hid_to_emu(last_key)} \union ModKeys(report)
    \union (IF report.key \in {KEY_DOWN, KEY_LEFT} THEN {SHIFT} ELSE {})

KanaHolds == IF kanaMode THEN {KANA} ELSE {}

SampleType == [x : 0..255, y : 0..255, press : 0..255, a : BOOLEAN, b : BOOLEAN]
ReportType == [mods : SUBSET {"shift", "ctrl", "graph"}, key : HidCodes]

KeyTypes ==
  /\ keys \subseteq Positions
  /\ todo \in Seq(Ops)
  /\ sample \in SampleType
  /\ report \in ReportType
  /\ last_key \in HidCodes
  /\ kanaMode \in BOOLEAN /\ tenkeyMode \in BOOLEAN

\* What the flags and the last key say of the sample and the report.
FlagsRight ==
  /\ pushed \subseteq PadNames
  /\ \A n \in PadNames : /\ n \in pushed => ~PadKeys(sample)[n].off
                         /\ PadKeys(sample)[n].on => n \in pushed
  /\ last_key # KEY_KANA
  /\ report.key # KEY_KANA => last_key \in {report.key, ToTenKey(report.key)}

\* Nothing will be down that nobody holds; what one source holds will be down.
KeysInv ==
  /\ KeyTypes
  /\ FlagsRight
  /\ ~tabbed => Coming \subseteq PadHolds \union HidHolds \union KanaHolds
  /\ ~tabbed /\ sources \subseteq {"pad"} => PadHolds \subseteq Coming
  /\ ~tabbed /\ sources \subseteq {"hid"} =>
       ModKeys(report) \union ({hid_to_emu(last_key)} \intersect Positions) \subseteq Coming

LEMMA OpTypes ==
  ASSUME NEW code
  PROVE  Down(code) \in Ops /\ Up(code) \in Ops /\ HidDown(code) \in Ops /\ HidUp(code) \in Ops
  BY ConvertType, HidType DEF Down, Up, HidDown, HidUp, Ops

\* Operations that release what they press leave nothing down.
LEMMA NothingLeft ==
  ASSUME NEW ks, NEW ops \in Seq(Ops),
         \A i \in 1..Len(ops) : ops[i].down => \E j \in (i + 1)..Len(ops) : ops[j].at = ops[i].at
  PROVE  After(ops, ks) \subseteq ks
  BY DEF After, Presses

LEMMA NothingLeftOfTwo ==
  ASSUME NEW ks, NEW a \in Ops, NEW b \in Ops, a.at = b.at, ~b.down
  PROVE  <<a, b>> \in Seq(Ops) /\ After(<<a, b>>, ks) \subseteq ks
<1> DEFINE ops == <<a, b>>
<1>1. ops \in Seq(Ops) /\ Len(ops) = 2 /\ ops[1] = a /\ ops[2] = b
  OBVIOUS
<1> HIDE DEF ops
<1>2. ASSUME NEW i \in 1..Len(ops), ops[i].down
      PROVE  \E j \in (i + 1)..Len(ops) : ops[j].at = ops[i].at
  <2>1. i = 1 /\ 2 \in (i + 1)..Len(ops)
    BY <1>1, <1>2
  <2>2. QED
    BY <1>1, <2>1
<1>3. After(ops, ks) \subseteq ks
  BY <1>1, <1>2, NothingLeft
<1>4. QED
  BY <1>1, <1>3 DEF ops

LEMMA NothingLeftOfFour ==
  ASSUME NEW ks, NEW a \in Ops, NEW b \in Ops, NEW c \in Ops, NEW d \in Ops,
         a.at = d.at, b.at = c.at, ~c.down, ~d.down
  PROVE  <<a, b, c, d>> \in Seq(Ops) /\ After(<<a, b, c, d>>, ks) \subseteq ks
<1> DEFINE ops == <<a, b, c, d>>
<1>1. /\ ops \in Seq(Ops) /\ Len(ops) = 4
      /\ ops[1] = a /\ ops[2] = b /\ ops[3] = c /\ ops[4] = d
  OBVIOUS
<1> HIDE DEF ops
<1>2. ASSUME NEW i \in 1..Len(ops), ops[i].down
      PROVE  \E j \in (i + 1)..Len(ops) : ops[j].at = ops[i].at
  <2>1. i \in {1, 2}
    BY <1>1, <1>2
  <2>2. CASE i = 1
    <3>1. 4 \in (i + 1)..Len(ops)
      BY <1>1, <2>2
    <3>2. QED
      BY <1>1, <2>2, <3>1
  <2>3. CASE i = 2
    <3>1. 3 \in (i + 1)..Len(ops)
      BY <1>1, <2>3
    <3>2. QED
      BY <1>1, <2>3, <3>1
  <2>4. QED
    BY <2>1, <2>2, <2>3
<1>3. After(ops, ks) \subseteq ks
  BY <1>1, <1>2, NothingLeft
<1>4. QED
  BY <1>1, <1>3 DEF ops

LEMMA TypedKeys ==
  ASSUME NEW ks, NEW code
  PROVE  keyInput(code) \in Seq(Ops) /\ After(keyInput(code), ks) \subseteq ks
<1>1. ASSUME NEW c PROVE Down(c).at = Up(c).at /\ ~Up(c).down
  BY DEF Down, Up
<1>2. ASSUME NEW c PROVE /\ <<Down(c), Up(c)>> \in Seq(Ops)
                         /\ After(<<Down(c), Up(c)>>, ks) \subseteq ks
  BY <1>1, OpTypes, NothingLeftOfTwo
<1>3. ASSUME NEW m, NEW c PROVE /\ <<Down(m), Down(c), Up(c), Up(m)>> \in Seq(Ops)
                                /\ After(<<Down(m), Down(c), Up(c), Up(m)>>, ks) \subseteq ks
  BY <1>1, OpTypes, NothingLeftOfFour
<1>4. QED
  BY <1>2, <1>3 DEF keyInput

\* What one operation carried out changes is what was coming.
LEMMA OperateKeeps ==
  ASSUME KeyTypes, Operate
  PROVE  /\ keys' \subseteq Positions /\ todo' \in Seq(Ops)
         /\ ~tabbed' => ~tabbed /\ Coming' = Coming
<1> DEFINE op == Head(todo)
<1>1. op \in Ops /\ todo' = Tail(todo) /\ todo' \in Seq(Ops) /\ keys \subseteq Positions
  BY DEF KeyTypes, Operate
<1>2. keys' \subseteq Positions
  <2>1. 1..7 \subseteq Positions
    BY DEF Positions
  <2>2. CASE op.at \in Positions
    BY <1>1, <2>2 DEF Operate, NoKey
  <2>3. CASE op.at \notin Positions
    BY <1>1, <2>1, <2>3 DEF Operate, Stray
  <2>4. QED
    BY <2>2, <2>3
<1>3. ASSUME ~tabbed' PROVE ~tabbed /\ keys' = Do(op, keys)
  <2>1. NoKey \notin Positions
    BY DEF NoKey, Positions
  <2>2. op.at \in Positions \union {NoKey}
    BY <1>3 DEF Operate
  <2>3. QED
    BY <1>3, <2>1, <2>2 DEF Operate, Do
<1>4. After(todo, keys) = After(Tail(todo), Do(op, keys))
  BY <1>1, AfterFirst DEF KeyTypes, Operate
<1>5. QED
  BY <1>1, <1>2, <1>3, <1>4 DEF Coming

(* The joypad *)

LEMMA PadFacts ==
  ASSUME NEW s \in SampleType
  PROVE  \A n \in PadNames : /\ convert_key(PadKeys(s)[n].code) = PadAt[n]
                             /\ PadAt[n] \in Positions
                             /\ PadKeys(s)[n].on => ~PadKeys(s)[n].off
<1>1. /\ PadKeys(s).U.code = KEY_TENKEY_0 + 8 /\ PadKeys(s).D.code = KEY_TENKEY_0 + 2
      /\ PadKeys(s).L.code = KEY_TENKEY_0 + 4 /\ PadKeys(s).R.code = KEY_TENKEY_0 + 6
      /\ PadKeys(s).B.code = KEY_GRAPH /\ PadKeys(s).Press.code = \h0D
  BY DEF PadKeys
<1>2. /\ PadAt.U = 8 /\ PadAt.D = 2 /\ PadAt.L = 4 /\ PadAt.R = 6
      /\ PadAt.B = GRAPH /\ PadAt.Press = RETURN
  BY DEF PadAt
<1>3. \A n \in PadNames : convert_key(PadKeys(s)[n].code) = PadAt[n]
  BY <1>1, <1>2, PadPositions DEF PadNames
<1>4. \A n \in PadNames : PadAt[n] \in Positions
  BY <1>2 DEF PadNames, Positions, GRAPH, RETURN
<1>5. s.x \in Int /\ s.y \in Int /\ s.press \in Int
  BY DEF SampleType
<1>6. /\ PadKeys(s).U.on => ~PadKeys(s).U.off
      /\ PadKeys(s).D.on => ~PadKeys(s).D.off
      /\ PadKeys(s).L.on => ~PadKeys(s).L.off
      /\ PadKeys(s).R.on => ~PadKeys(s).R.off
      /\ PadKeys(s).B.on => ~PadKeys(s).B.off
      /\ PadKeys(s).Press.on => ~PadKeys(s).Press.off
  <2>1. /\ PadKeys(s).U.on <=> s.x < 80
        /\ PadKeys(s).U.off <=> s.x > 80
        /\ PadKeys(s).D.on <=> s.x > 160
        /\ PadKeys(s).D.off <=> s.x < 160
    BY Zenon DEF PadKeys
  <2>2. /\ PadKeys(s).L.on <=> s.y < 80
        /\ PadKeys(s).L.off <=> s.y > 80
        /\ PadKeys(s).R.on <=> s.y > 160
        /\ PadKeys(s).R.off <=> s.y < 160
    BY Zenon DEF PadKeys
  <2>3. /\ PadKeys(s).B.on <=> s.b
        /\ PadKeys(s).B.off <=> ~s.b
        /\ PadKeys(s).Press.on <=> s.press = 1
        /\ PadKeys(s).Press.off <=> s.press = 0
    BY Zenon DEF PadKeys
  <2>4. /\ ~(s.x < 80 /\ s.x > 80) /\ ~(s.x > 160 /\ s.x < 160)
        /\ ~(s.y < 80 /\ s.y > 80) /\ ~(s.y > 160 /\ s.y < 160)
        /\ ~(s.press = 1 /\ s.press = 0)
    BY <1>5
  <2>5. PadKeys(s).U.on => ~PadKeys(s).U.off
    BY <2>1, <2>4
  <2>6. PadKeys(s).D.on => ~PadKeys(s).D.off
    BY <2>1, <2>4
  <2>7. PadKeys(s).L.on => ~PadKeys(s).L.off
    BY <2>2, <2>4
  <2>8. PadKeys(s).R.on => ~PadKeys(s).R.off
    BY <2>2, <2>4
  <2>9. PadKeys(s).B.on => ~PadKeys(s).B.off
    BY <2>3
  <2>10. PadKeys(s).Press.on => ~PadKeys(s).Press.off
    BY <2>3, <2>4
  <2>11. QED
    BY <2>5, <2>6, <2>7, <2>8, <2>9, <2>10
<1>7. \A n \in PadNames : PadKeys(s)[n].on => ~PadKeys(s)[n].off
  BY <1>6 DEF PadNames
<1>8. QED
  BY <1>3, <1>4, <1>7

PadSwitch(n, before, s) ==
  IF n \in PadPushed(before, s) \ before THEN <<Down(PadKeys(s)[n].code)>>
  ELSE IF n \in before \ PadPushed(before, s) THEN <<Up(PadKeys(s)[n].code)>>
  ELSE <<>>

Switched(n, before, after, ks) ==
  IF n \in after \ before THEN ks \union {PadAt[n]}
  ELSE IF n \in before \ after THEN ks \ {PadAt[n]}
  ELSE ks

LEMMA SwitchAfter ==
  ASSUME NEW ks, ks \subseteq Positions, NEW s \in SampleType, NEW before, NEW n \in PadNames
  PROVE  /\ PadSwitch(n, before, s) \in Seq(Ops)
         /\ After(PadSwitch(n, before, s), ks) = Switched(n, before, PadPushed(before, s), ks)
         /\ Switched(n, before, PadPushed(before, s), ks) \subseteq Positions
<1> DEFINE code == PadKeys(s)[n].code
<1>1. Down(code).at = PadAt[n] /\ Up(code).at = PadAt[n] /\ PadAt[n] \in Positions
  BY PadFacts DEF Down, Up
<1>2. Down(code).down /\ ~Up(code).down /\ Down(code) \in Ops /\ Up(code) \in Ops
  BY OpTypes DEF Down, Up
<1>3. Switched(n, before, PadPushed(before, s), ks) \subseteq Positions
  BY <1>1 DEF Switched
<1> HIDE DEF code
<1>4. CASE n \in PadPushed(before, s) \ before
  <2>1. PadSwitch(n, before, s) = <<Down(code)>>
    BY <1>4 DEF PadSwitch, code
  <2>2. After(<<Down(code)>>, ks) = ks \union {PadAt[n]}
    BY <1>1, <1>2, AfterOne DEF Do
  <2>3. QED
    BY <1>2, <1>3, <1>4, <2>1, <2>2 DEF Switched
<1>5. CASE n \in before \ PadPushed(before, s)
  <2>1. PadSwitch(n, before, s) = <<Up(code)>>
    BY <1>5 DEF PadSwitch, code
  <2>2. After(<<Up(code)>>, ks) = ks \ {PadAt[n]}
    BY <1>1, <1>2, AfterOne DEF Do
  <2>3. QED
    BY <1>2, <1>3, <1>5, <2>1, <2>2 DEF Switched
<1>6. CASE ~(n \in PadPushed(before, s) \ before) /\ ~(n \in before \ PadPushed(before, s))
  <2>1. PadSwitch(n, before, s) = << >> /\ Switched(n, before, PadPushed(before, s), ks) = ks
    BY <1>6 DEF PadSwitch, Switched
  <2>2. QED
    BY <2>1, AfterNothing
<1>7. QED
  BY <1>4, <1>5, <1>6

\* Button A, and the blank that is released once more.
PadBlank(before, s) ==
  IF s.a THEN <<Down(\h20), Up(\h20)>>
  ELSE IF "R" \in PadPushed(before, s) THEN <<Up(\h20)>> ELSE <<>>

LEMMA BlankAfter ==
  ASSUME NEW ks, ks \subseteq Positions, NEW s \in SampleType, NEW before
  PROVE  /\ PadBlank(before, s) \in Seq(Ops)
         /\ After(PadBlank(before, s), ks) \in {ks, ks \ {SPACE}}
<1>1. Down(\h20).at = SPACE /\ Up(\h20).at = SPACE /\ SPACE \in Positions
  BY PadPositions DEF Down, Up, SPACE, Positions
<1>2. /\ Down(\h20).down /\ ~Up(\h20).down /\ Down(\h20) \in Ops /\ Up(\h20) \in Ops
  BY OpTypes DEF Down, Up
<1>3. After(<<Up(\h20)>>, ks) = ks \ {SPACE}
  BY <1>1, <1>2, AfterOne DEF Do
<1>4. After(<<Down(\h20), Up(\h20)>>, ks) = ks \ {SPACE}
  <2> DEFINE d == Down(\h20)
             u == Up(\h20)
  <2>1. /\ d.at = SPACE /\ u.at = SPACE /\ SPACE \in Positions
        /\ d.down /\ ~u.down /\ d \in Ops /\ u \in Ops
    BY <1>1, <1>2
  <2> HIDE DEF d, u
  <2>2. /\ <<d, u>> \in Seq(Ops) /\ <<d, u>> # << >> /\ Head(<<d, u>>) = d
        /\ Tail(<<d, u>>) = <<u>>
    BY <2>1
  <2>3. Do(d, ks) = ks \union {SPACE} /\ ks \union {SPACE} \subseteq Positions
    BY <2>1 DEF Do
  <2>4. After(<<d, u>>, ks) = After(<<u>>, ks \union {SPACE})
    BY <2>2, <2>3, AfterFirst
  <2>5. After(<<u>>, ks \union {SPACE}) = Do(u, ks \union {SPACE})
    BY <2>1, <2>3, AfterOne
  <2>6. Do(u, ks \union {SPACE}) = ks \ {SPACE}
    BY <2>1 DEF Do
  <2>7. QED
    BY <2>4, <2>5, <2>6 DEF d, u
<1>5. PadBlank(before, s) \in {<< >>, <<Up(\h20)>>, <<Down(\h20), Up(\h20)>>}
  BY DEF PadBlank
<1>6. /\ << >> \in Seq(Ops) /\ <<Up(\h20)>> \in Seq(Ops) /\ <<Down(\h20), Up(\h20)>> \in Seq(Ops)
  BY <1>2
<1>7. After(<< >>, ks) = ks
  BY AfterNothing
<1>8. QED
  BY <1>3, <1>4, <1>5, <1>6, <1>7

\* What a sample leaves down: the keys it holds, and of the others none that was
\* not down.
LEMMA PadAfter ==
  ASSUME NEW ks, ks \subseteq Positions, NEW s \in SampleType, NEW before, before \subseteq PadNames
  PROVE  LET after == PadPushed(before, s)
             end == After(checkJoyPad(before, s), ks)
         IN  /\ checkJoyPad(before, s) \in Seq(Ops)
             /\ end \subseteq ks \union {PadAt[n] : n \in after}
             /\ \A n \in before \ after : PadAt[n] \notin end
             /\ \A n \in after \ before : PadAt[n] \in end
             /\ \A n \in after : PadAt[n] \in ks => PadAt[n] \in end
<1> DEFINE after == PadPushed(before, s)
           Sw(n) == PadSwitch(n, before, s)
           k1 == Switched("U", before, after, ks)
           k2 == Switched("D", before, after, k1)
           k3 == Switched("L", before, after, k2)
           k4 == Switched("R", before, after, k3)
           k5 == After(PadBlank(before, s), k4)
           k6 == Switched("B", before, after, k5)
           k7 == Switched("Press", before, after, k6)
<1>1. checkJoyPad(before, s) = Sw("U") \o Sw("D") \o Sw("L") \o Sw("R") \o PadBlank(before, s)
                                 \o Sw("B") \o Sw("Press")
  BY Zenon DEF checkJoyPad, PadSwitch, PadBlank
<1>2. /\ "U" \in PadNames /\ "D" \in PadNames /\ "L" \in PadNames /\ "R" \in PadNames
      /\ "B" \in PadNames /\ "Press" \in PadNames
  BY DEF PadNames
<1> HIDE DEF k1, k2, k3, k4, k5, k6, k7, Sw
<1>3. \A n \in PadNames : Sw(n) \in Seq(Ops)
  BY SwitchAfter DEF Sw
<1>4. \A n \in PadNames, k \in SUBSET Positions :
        /\ After(Sw(n), k) = Switched(n, before, after, k)
        /\ Switched(n, before, after, k) \in SUBSET Positions
  BY SwitchAfter DEF Sw
<1>5. PadBlank(before, s) \in Seq(Ops)
  BY BlankAfter
<1>6. After(Sw("U"), ks) = k1 /\ k1 \in SUBSET Positions
  BY <1>2, <1>4 DEF k1
<1>7. After(Sw("D"), k1) = k2 /\ k2 \in SUBSET Positions
  BY <1>2, <1>4, <1>6 DEF k2
<1>8. After(Sw("L"), k2) = k3 /\ k3 \in SUBSET Positions
  BY <1>2, <1>4, <1>7 DEF k3
<1>9. After(Sw("R"), k3) = k4 /\ k4 \in SUBSET Positions
  BY <1>2, <1>4, <1>8 DEF k4
<1>10. k5 \in {k4, k4 \ {SPACE}} /\ k5 \in SUBSET Positions
  BY <1>9, BlankAfter DEF k5
<1>11. After(Sw("B"), k5) = k6 /\ k6 \in SUBSET Positions
  BY <1>2, <1>4, <1>10 DEF k6
<1>12. After(Sw("Press"), k6) = k7
  BY <1>2, <1>4, <1>11 DEF k7
<1>13. /\ checkJoyPad(before, s) \in Seq(Ops)
       /\ After(checkJoyPad(before, s), ks) = k7
  <2> DEFINE b == PadBlank(before, s)
             s2 == Sw("U") \o Sw("D")
             s3 == s2 \o Sw("L")
             s4 == s3 \o Sw("R")
             s5 == s4 \o b
             s6 == s5 \o Sw("B")
  <2> HIDE DEF b
  <2>1. s2 \in Seq(Ops) /\ After(s2, ks) = k2
    BY <1>2, <1>3, <1>6, <1>7, AfterBoth
  <2> HIDE DEF s2
  <2>2. s3 \in Seq(Ops) /\ After(s3, ks) = k3
    BY <1>2, <1>3, <1>8, <2>1, AfterBoth
  <2> HIDE DEF s3
  <2>3. s4 \in Seq(Ops) /\ After(s4, ks) = k4
    BY <1>2, <1>3, <1>9, <2>2, AfterBoth
  <2> HIDE DEF s4
  <2>4. s5 \in Seq(Ops) /\ After(s5, ks) = k5
    BY <1>5, <2>3, AfterBoth DEF k5, b
  <2> HIDE DEF s5
  <2>5. s6 \in Seq(Ops) /\ After(s6, ks) = k6
    BY <1>2, <1>3, <1>11, <2>4, AfterBoth
  <2> HIDE DEF s6
  <2>6. s6 \o Sw("Press") \in Seq(Ops) /\ After(s6 \o Sw("Press"), ks) = k7
    BY <1>2, <1>3, <1>12, <2>5, AfterBoth
  <2>7. QED
    BY <1>1, <2>6 DEF s2, s3, s4, s5, s6, b
<1>14. after \subseteq PadNames
  BY DEF PadPushed
<1> HIDE DEF after
<1>15. /\ PadAt["U"] = 8 /\ PadAt["D"] = 2 /\ PadAt["L"] = 4 /\ PadAt["R"] = 6
       /\ PadAt["B"] = GRAPH /\ PadAt["Press"] = RETURN
  BY DEF PadAt
<1>16. \A p : p # SPACE => (p \in k5 <=> p \in k4)
  BY <1>10
<1>17. \A p : p \in k5 => p \in k4
  BY <1>10
<1>18. \A p : p \notin {PadAt[n] : n \in PadNames} => (p \in k7 => p \in ks)
  BY <1>2, <1>17 DEF k1, k2, k3, k4, k6, k7, Switched
<1>19. \A n \in PadNames : PadAt[n] \in k7 <=> (IF n \in after \ before THEN TRUE
                                                ELSE IF n \in before \ after THEN FALSE
                                                ELSE PadAt[n] \in ks)
  <2>1. \A n, m \in PadNames : n # m => PadAt[n] # PadAt[m]
    BY <1>15 DEF PadNames, GRAPH, RETURN
  <2>2. \A n \in PadNames : PadAt[n] # SPACE
    BY <1>15 DEF PadNames, GRAPH, RETURN, SPACE
  <2>3. QED
    BY <2>1, <2>2, <1>2, <1>16 DEF PadNames, k1, k2, k3, k4, k6, k7, Switched
<1>20. QED
  BY <1>13, <1>14, <1>18, <1>19 DEF after

(* The Bluetooth keyboard *)

LEMMA DoUp ==
  ASSUME NEW ks, ks \subseteq Positions, NEW code
  PROVE  After(<<HidUp(code)>>, ks) = ks \ {hid_to_emu(code)}
<1>1. HidUp(code) \in Ops /\ HidUp(code).at = hid_to_emu(code) /\ ~HidUp(code).down
  BY OpTypes DEF HidUp
<1>2. Do(HidUp(code), ks) = ks \ {hid_to_emu(code)}
  BY <1>1 DEF Do
<1>3. QED
  BY <1>1, <1>2, AfterOne

LEMMA DoDown ==
  ASSUME NEW ks, ks \subseteq Positions, NEW code
  PROVE  /\ After(<<HidDown(code)>>, ks) = ks \union ({hid_to_emu(code)} \intersect Positions)
         /\ hid_to_emu(code) \in Positions =>
              After(<<HidDown(code)>>, ks) = ks \union {hid_to_emu(code)}
<1>1. HidDown(code) \in Ops /\ HidDown(code).at = hid_to_emu(code) /\ HidDown(code).down
  BY OpTypes DEF HidDown
<1>2. Do(HidDown(code), ks) = ks \union ({hid_to_emu(code)} \intersect Positions)
  BY <1>1 DEF Do
<1>3. QED
  BY <1>1, <1>2, AfterOne

LEMMA AfterThree ==
  ASSUME NEW ks, NEW a \in Seq(Ops), NEW b \in Seq(Ops), NEW c \in Seq(Ops)
  PROVE  (a \o b) \o c \in Seq(Ops) /\ After((a \o b) \o c, ks) = After(c, After(b, After(a, ks)))
<1> DEFINE ab == a \o b
<1>1. ab \in Seq(Ops) /\ After(ab, ks) = After(b, After(a, ks))
  BY AfterBoth
<1> HIDE DEF ab
<1>2. ab \o c \in Seq(Ops) /\ After(ab \o c, ks) = After(c, After(ab, ks))
  BY <1>1, AfterBoth
<1>3. QED
  BY <1>1, <1>2 DEF ab

LEMMA DoType ==
  ASSUME NEW ks, ks \subseteq Positions, NEW op \in Ops
  PROVE  Do(op, ks) \subseteq Positions
  BY DEF Do

LEMMA AfterThreeOps ==
  ASSUME NEW ks, ks \subseteq Positions, NEW a \in Ops, NEW b \in Ops, NEW c \in Ops
  PROVE  /\ <<a, b, c>> \in Seq(Ops)
         /\ After(<<a, b, c>>, ks) = After(<<c>>, After(<<b>>, After(<<a>>, ks)))
<1>1. /\ <<a, b, c>> \in Seq(Ops) /\ <<a, b, c>> # << >>
      /\ Head(<<a, b, c>>) = a /\ Tail(<<a, b, c>>) = <<b, c>>
  OBVIOUS
<1>2. /\ <<b, c>> \in Seq(Ops) /\ <<b, c>> # << >>
      /\ Head(<<b, c>>) = b /\ Tail(<<b, c>>) = <<c>>
  OBVIOUS
<1>3. Do(a, ks) \subseteq Positions /\ Do(b, Do(a, ks)) \subseteq Positions
  BY DoType
<1>4. After(<<a, b, c>>, ks) = After(<<b, c>>, Do(a, ks))
  BY <1>1, AfterFirst
<1>5. After(<<b, c>>, Do(a, ks)) = After(<<c>>, Do(b, Do(a, ks)))
  BY <1>2, <1>3, AfterFirst
<1>6. After(<<a>>, ks) = Do(a, ks) /\ After(<<b>>, Do(a, ks)) = Do(b, Do(a, ks))
  BY <1>3, AfterOne
<1>7. QED
  BY <1>1, <1>4, <1>5, <1>6

ModPositions == {SHIFT, CTRL, GRAPH}

\* The modifiers are set as the report has them.
LEMMA ModifiersAfter ==
  ASSUME NEW ks, ks \subseteq Positions, NEW r \in ReportType
  PROVE  /\ Modifiers(r.mods) \in Seq(Ops)
         /\ After(Modifiers(r.mods), ks) = (ks \ ModPositions) \union ModKeys(r)
         /\ ModKeys(r) \subseteq ModPositions
<1> DEFINE sh == IF "shift" \in r.mods THEN HidDown(KEY_SHIFT) ELSE HidUp(KEY_SHIFT)
           ct == IF "ctrl" \in r.mods THEN HidDown(KEY_CTRL) ELSE HidUp(KEY_CTRL)
           gr == IF "graph" \in r.mods THEN HidDown(KEY_GRAPH) ELSE HidUp(KEY_GRAPH)
           k1 == IF "shift" \in r.mods THEN ks \union {SHIFT} ELSE ks \ {SHIFT}
           k2 == IF "ctrl" \in r.mods THEN k1 \union {CTRL} ELSE k1 \ {CTRL}
           k3 == IF "graph" \in r.mods THEN k2 \union {GRAPH} ELSE k2 \ {GRAPH}
<1>1. Modifiers(r.mods) = <<sh, ct, gr>>
  BY DEF Modifiers
<1>2. sh \in Ops /\ ct \in Ops /\ gr \in Ops
  BY OpTypes
<1>3. SHIFT \in Positions /\ CTRL \in Positions /\ GRAPH \in Positions
  BY DEF SHIFT, CTRL, GRAPH, Positions
<1>4. After(<<sh>>, ks) = k1 /\ k1 \subseteq Positions
  <2>1. CASE "shift" \in r.mods
    <3>1. sh = HidDown(KEY_SHIFT) /\ k1 = ks \union {SHIFT}
      BY <2>1
    <3>2. QED
      BY <1>3, <3>1, HidSpecials, DoDown
  <2>2. CASE "shift" \notin r.mods
    <3>1. sh = HidUp(KEY_SHIFT) /\ k1 = ks \ {SHIFT}
      BY <2>2
    <3>2. QED
      BY <3>1, HidSpecials, DoUp
  <2>3. QED
    BY <2>1, <2>2
<1>5. After(<<ct>>, k1) = k2 /\ k2 \subseteq Positions
  <2> HIDE DEF k1
  <2>1. CASE "ctrl" \in r.mods
    <3>1. ct = HidDown(KEY_CTRL) /\ k2 = k1 \union {CTRL}
      BY <2>1
    <3>2. QED
      BY <1>3, <1>4, <3>1, HidSpecials, DoDown
  <2>2. CASE "ctrl" \notin r.mods
    <3>1. ct = HidUp(KEY_CTRL) /\ k2 = k1 \ {CTRL}
      BY <2>2
    <3>2. QED
      BY <1>4, <3>1, HidSpecials, DoUp
  <2>3. QED
    BY <2>1, <2>2
<1>6. After(<<gr>>, k2) = k3
  <2> HIDE DEF k2
  <2>1. CASE "graph" \in r.mods
    <3>1. gr = HidDown(KEY_GRAPH) /\ k3 = k2 \union {GRAPH}
      BY <2>1
    <3>2. QED
      BY <1>3, <1>5, <3>1, HidSpecials, DoDown
  <2>2. CASE "graph" \notin r.mods
    <3>1. gr = HidUp(KEY_GRAPH) /\ k3 = k2 \ {GRAPH}
      BY <2>2
    <3>2. QED
      BY <1>5, <3>1, HidSpecials, DoUp
  <2>3. QED
    BY <2>1, <2>2
<1>7. k3 = (ks \ ModPositions) \union ModKeys(r) /\ ModKeys(r) \subseteq ModPositions
  <2>1. r.mods \subseteq {"shift", "ctrl", "graph"}
    BY DEF ReportType
  <2>2. ModKey["shift"] = SHIFT /\ ModKey["ctrl"] = CTRL /\ ModKey["graph"] = GRAPH
    BY DEF ModKey
  <2>3. ModKeys(r) \subseteq ModPositions
    BY <2>1, <2>2 DEF ModKeys, ModPositions
  <2>4. /\ SHIFT \in ModKeys(r) <=> "shift" \in r.mods
        /\ CTRL \in ModKeys(r) <=> "ctrl" \in r.mods
        /\ GRAPH \in ModKeys(r) <=> "graph" \in r.mods
    BY <2>1, <2>2 DEF ModKeys, SHIFT, CTRL, GRAPH
  <2>5. SHIFT # CTRL /\ CTRL # GRAPH /\ SHIFT # GRAPH
    BY DEF SHIFT, CTRL, GRAPH
  <2>6. QED
    BY <2>3, <2>4, <2>5 DEF ModPositions
<1> HIDE DEF sh, ct, gr, k1, k2, k3
<1>8. After(<<sh, ct, gr>>, ks) = k3 /\ <<sh, ct, gr>> \in Seq(Ops)
  BY <1>2, <1>4, <1>5, <1>6, AfterThreeOps
<1>9. QED
  BY <1>1, <1>7, <1>8

\* The key that is let go and the one pressed.
Changed(ks, last, code) ==
  (ks \ {hid_to_emu(last)}) \union (IF code \in {KEY_DOWN, KEY_LEFT} THEN {SHIFT} ELSE {})
    \union ({hid_to_emu(code)} \intersect Positions)

PressedCode(key, tenkey) == IF tenkey THEN ToTenKey(key) ELSE key

LEMMA KeyChangeAfter ==
  ASSUME NEW ks, ks \subseteq Positions, NEW key \in HidCodes, NEW last \in HidCodes,
         NEW tenkey \in BOOLEAN
  PROVE  /\ KeyChange(key, last, tenkey) \in Seq(Ops)
         /\ After(KeyChange(key, last, tenkey), ks) = Changed(ks, last, PressedCode(key, tenkey))
<1> DEFINE code == IF tenkey THEN ToTenKey(key) ELSE key
           a == IF last \in 1..165 THEN <<HidUp(last)>> ELSE <<>>
           b == IF code \in {KEY_DOWN, KEY_LEFT} THEN <<HidDown(KEY_SHIFT)>> ELSE <<>>
           c == IF code \in 1..165 THEN <<HidDown(code)>> ELSE <<>>
           k1 == ks \ {hid_to_emu(last)}
           k2 == k1 \union (IF code \in {KEY_DOWN, KEY_LEFT} THEN {SHIFT} ELSE {})
           k3 == k2 \union ({hid_to_emu(code)} \intersect Positions)
<1>1. KeyChange(key, last, tenkey) = (a \o b) \o c
  BY DEF KeyChange
<1>2. code \in HidCodes
  BY TenKeyType
<1> HIDE DEF code
<1>3. a \in Seq(Ops) /\ b \in Seq(Ops) /\ c \in Seq(Ops)
  BY OpTypes
<1>4. /\ \A k \in HidCodes : k \notin 1..165 => hid_to_emu(k) \notin Positions
      /\ SHIFT \in Positions
  BY HidSpecials DEF NoKey, Positions, SHIFT
<1>5. After(a, ks) = k1 /\ k1 \subseteq Positions
  <2>1. CASE last \in 1..165
    BY <2>1, DoUp
  <2>2. CASE last \notin 1..165
    <3>1. a = << >> /\ k1 = ks
      BY <1>4, <2>2
    <3>2. QED
      BY <3>1, AfterNothing
  <2>3. QED
    BY <2>1, <2>2
<1> HIDE DEF k1
<1>6. After(b, k1) = k2 /\ k2 \subseteq Positions
  <2>1. CASE code \in {KEY_DOWN, KEY_LEFT}
    <3>1. b = <<HidDown(KEY_SHIFT)>> /\ k2 = k1 \union {SHIFT}
      BY <2>1
    <3>2. After(<<HidDown(KEY_SHIFT)>>, k1) = k1 \union {SHIFT}
      BY <1>4, <1>5, HidSpecials, DoDown
    <3> HIDE DEF b, k2
    <3>3. QED
      BY <1>4, <1>5, <3>1, <3>2
  <2>2. CASE code \notin {KEY_DOWN, KEY_LEFT}
    BY <1>5, <2>2, AfterNothing
  <2>3. QED
    BY <2>1, <2>2
<1> HIDE DEF k2
<1>7. After(c, k2) = k3
  <2>1. CASE code \in 1..165
    BY <1>6, <2>1, DoDown
  <2>2. CASE code \notin 1..165
    <3>1. c = << >> /\ k3 = k2
      BY <1>2, <1>4, <2>2
    <3>2. QED
      BY <1>6, <3>1, AfterNothing
  <2>3. QED
    BY <2>1, <2>2
<1> HIDE DEF a, b, c, k3
<1>8. (a \o b) \o c \in Seq(Ops) /\ After((a \o b) \o c, ks) = k3
  BY <1>3, <1>5, <1>6, <1>7, AfterThree
<1>9. QED
  BY <1>1, <1>8 DEF k3, k2, k1, code, Changed, PressedCode

\* What is down after a report r is a modifier of it, its key, or was down and
\* is not what the report lets go; and the report's own keys are down.
ReportLeaves(ks, end, r, last, new, kana) ==
  /\ new \in HidCodes /\ new # KEY_KANA
  /\ r.key # KEY_KANA => new \in {r.key, ToTenKey(r.key)}
  /\ \A p \in end :
       \/ p \in ModKeys(r) \/ p = hid_to_emu(new)
       \/ p = SHIFT /\ r.key \in {KEY_DOWN, KEY_LEFT}
       \/ p = KANA /\ r.key = KEY_KANA /\ ~kana
       \/ /\ p \in ks \ ModPositions /\ p # hid_to_emu(last)
          /\ r.key = KEY_KANA => p # KANA
  /\ ModKeys(r) \subseteq end
  /\ hid_to_emu(new) \in Positions /\ (hid_to_emu(last) \in Positions => hid_to_emu(last) \in ks)
       => hid_to_emu(new) \in end

LEMMA KeyboardAfter ==
  ASSUME NEW ks, ks \subseteq Positions, NEW r \in ReportType, NEW last \in HidCodes,
         last # KEY_KANA, NEW kana \in BOOLEAN, NEW tenkey \in BOOLEAN
  PROVE  /\ keyboard(r.mods, r.key, last, kana, tenkey) \in Seq(Ops)
         /\ ReportLeaves(ks, After(keyboard(r.mods, r.key, last, kana, tenkey), ks), r, last,
                         LastKey(r.key, last, tenkey), kana)
<1> DEFINE m == Modifiers(r.mods)
           k0 == (ks \ ModPositions) \union ModKeys(r)
           new == LastKey(r.key, last, tenkey)
<1>1. r.key \in HidCodes
  BY DEF ReportType
<1>2. /\ m \in Seq(Ops) /\ After(m, ks) = k0 /\ ModKeys(r) \subseteq ModPositions
      /\ ModPositions \subseteq Positions /\ k0 \subseteq Positions
  <2>1. ModPositions \subseteq Positions
    BY DEF ModPositions, Positions, SHIFT, CTRL, GRAPH
  <2>2. m \in Seq(Ops) /\ After(m, ks) = k0 /\ ModKeys(r) \subseteq ModPositions
    BY ModifiersAfter
  <2>3. QED
    BY <2>1, <2>2
<1>3. hid_to_emu(last) \notin ModPositions \union {KANA}
  BY HidSpecials DEF ModPositions
<1>4. KANA \notin ModPositions /\ KANA \in Positions /\ SHIFT \in ModPositions
  BY DEF KANA, SHIFT, CTRL, GRAPH, ModPositions, Positions
<1> HIDE DEF m, k0
<1>5. CASE r.key = KEY_KANA
  <2> DEFINE op == IF kana THEN HidUp(r.key) ELSE HidDown(r.key)
  <2>1. keyboard(r.mods, r.key, last, kana, tenkey) = m \o <<op>>
    BY <1>5 DEF keyboard, m
  <2>2. new = last
    BY <1>5 DEF LastKey
  <2>3. <<op>> \in Seq(Ops)
    BY OpTypes
  <2>4. After(<<op>>, k0) = IF kana THEN k0 \ {KANA} ELSE k0 \union {KANA}
    <3>1. CASE kana
      <4>1. op = HidUp(r.key)
        BY <3>1
      <4>2. QED
        BY <1>2, <1>5, <3>1, <4>1, HidSpecials, DoUp
    <3>2. CASE ~kana
      <4>1. op = HidDown(r.key)
        BY <3>2
      <4>2. QED
        BY <1>2, <1>4, <1>5, <3>2, <4>1, HidSpecials, DoDown
    <3>3. QED
      BY <3>1, <3>2
  <2> HIDE DEF op
  <2>5. After(m \o <<op>>, ks) = (IF kana THEN k0 \ {KANA} ELSE k0 \union {KANA})
    BY <1>2, <2>3, <2>4, AfterBoth
  <2>6. m \o <<op>> \in Seq(Ops)
    BY <1>2, <2>3
  <2> HIDE DEF new
  <2>7. QED
    BY <1>2, <1>3, <1>4, <1>5, <2>1, <2>2, <2>5, <2>6 DEF new, k0, ReportLeaves
<1>6. CASE r.key # KEY_KANA /\ r.key = last
  <2>1. keyboard(r.mods, r.key, last, kana, tenkey) = m /\ new = last
    BY <1>2, <1>6 DEF keyboard, LastKey, m
  <2> HIDE DEF new
  <2>2. QED
    BY <1>2, <1>3, <1>4, <1>6, <2>1 DEF new, k0, ReportLeaves
<1>7. CASE r.key # KEY_KANA /\ r.key # last
  <2> DEFINE change == KeyChange(r.key, last, tenkey)
  <2>1. keyboard(r.mods, r.key, last, kana, tenkey) = m \o change
    BY <1>7 DEF keyboard, m
  <2>2. new = IF tenkey THEN ToTenKey(r.key) ELSE r.key
    BY <1>7 DEF LastKey
  <2>3. /\ new \in HidCodes /\ new # KEY_KANA /\ new \in {r.key, ToTenKey(r.key)}
        /\ new \in {KEY_DOWN, KEY_LEFT} => r.key \in {KEY_DOWN, KEY_LEFT}
    BY <1>1, <1>7, <2>2, TenKeyType
  <2>4. /\ change \in Seq(Ops)
        /\ After(change, k0) = (k0 \ {hid_to_emu(last)})
                                 \union (IF new \in {KEY_DOWN, KEY_LEFT} THEN {SHIFT} ELSE {})
                                 \union ({hid_to_emu(new)} \intersect Positions)
    <3>1. /\ change \in Seq(Ops)
          /\ After(change, k0) = Changed(k0, last, PressedCode(r.key, tenkey))
      BY <1>1, <1>2, KeyChangeAfter
    <3>2. QED
      BY <2>2, <3>1 DEF Changed, PressedCode
  <2> HIDE DEF change
  <2>5. m \o change \in Seq(Ops) /\ After(m \o change, ks) = After(change, k0)
    BY <1>2, <2>4, AfterBoth
  <2> HIDE DEF new
  <2>6. QED
    BY <1>2, <1>3, <1>4, <1>7, <2>1, <2>3, <2>4, <2>5 DEF new, k0, ReportLeaves
<1>8. QED
  BY <1>5, <1>6, <1>7
-----------------------------------------------------------------------------
(* What is down is held, and what is held is down *)

LEMMA KeysStart == Init => KeysInv
<1> SUFFICES ASSUME Init PROVE KeysInv
  OBVIOUS
<1>1. /\ keys = {} /\ todo = << >> /\ pushed = {} /\ last_key = 0 /\ ~kanaMode
      /\ sample = Centred /\ report = AllUp /\ tenkeyMode = FALSE /\ kanaMode = FALSE
  BY DEF Init
<1>2. sample \in SampleType /\ report \in ReportType
  BY <1>1 DEF SampleType, ReportType, HidCodes, Centred, AllUp
<1>3. KeyTypes
  <2>1. keys \subseteq Positions /\ todo \in Seq(Ops) /\ last_key \in HidCodes
    BY <1>1 DEF HidCodes
  <2>2. QED
    BY <1>1, <1>2, <2>1 DEF KeyTypes
<1>4. FlagsRight
  <2>1. sample.x = 120 /\ sample.y = 120 /\ sample.press = 0 /\ sample.b = FALSE
    BY <1>1 DEF Centred
  <2>2. \A n \in PadNames : ~PadKeys(sample)[n].on
    <3>1. /\ PadKeys(sample).U.on <=> sample.x < 80
          /\ PadKeys(sample).D.on <=> sample.x > 160
          /\ PadKeys(sample).L.on <=> sample.y < 80
          /\ PadKeys(sample).R.on <=> sample.y > 160
          /\ PadKeys(sample).B.on <=> sample.b
          /\ PadKeys(sample).Press.on <=> sample.press = 1
      BY Zenon DEF PadKeys
    <3>2. QED
      BY <2>1, <3>1 DEF PadNames
  <2>3. report.key = 0
    BY <1>1 DEF AllUp
  <2>4. QED
    BY <1>1, <2>2, <2>3 DEF FlagsRight, KEY_KANA
<1>5. Coming = {}
  BY <1>1, AfterNothing DEF Coming
<1>6. ModKeys(report) = {} /\ hid_to_emu(last_key) \notin Positions /\ PadHolds = {}
  <2>1. report.mods = {}
    BY <1>1 DEF AllUp
  <2>2. NoKey \notin Positions
    BY DEF NoKey, Positions
  <2>3. QED
    BY <1>1, <2>1, <2>2, HidSpecials DEF ModKeys, PadHolds
<1>7. QED
  BY <1>3, <1>4, <1>5, <1>6 DEF KeysInv

\* A character typed releases what it presses.
LEMMA TypeKeeps ==
  ASSUME KeysInv, NEW code, Type(code)
  PROVE  KeysInv'
<1>1. todo = << >> /\ todo' = keyInput(code) /\ keys' = keys /\ keys \subseteq Positions
  BY DEF Type, Free, KeysInv, KeyTypes
<1>2. todo' \in Seq(Ops) /\ Coming' \subseteq Coming
  BY <1>1, TypedKeys, AfterNothing DEF Coming
<1>3. UNCHANGED <<pushed, last_key, kanaMode, tenkeyMode, sample, report, tabbed>>
  BY DEF Type, modeVars
<1>4. "typing" \in sources'
  BY DEF Type
<1>5. UNCHANGED <<PadHolds, HidHolds, KanaHolds>>
  BY <1>3 DEF PadHolds, HidHolds, KanaHolds
<1>6. KeyTypes' /\ FlagsRight'
  BY <1>1, <1>2, <1>3 DEF KeysInv, KeyTypes, FlagsRight
<1>7. QED
  BY <1>2, <1>3, <1>4, <1>5, <1>6 DEF KeysInv

LEMMA OperateStep ==
  ASSUME KeysInv, Operate
  PROVE  KeysInv'
<1>1. /\ keys' \subseteq Positions /\ todo' \in Seq(Ops)
      /\ ~tabbed' => ~tabbed /\ Coming' = Coming
  BY OperateKeeps DEF KeysInv
<1>2. UNCHANGED <<pushed, last_key, kanaMode, tenkeyMode, sample, report, sources>>
  BY DEF Operate, modeVars
<1>3. UNCHANGED <<PadHolds, HidHolds, KanaHolds, ModKeys(report), hid_to_emu(last_key)>>
  BY <1>2 DEF PadHolds, HidHolds, KanaHolds
<1>4. KeyTypes' /\ FlagsRight'
  BY <1>1, <1>2 DEF KeysInv, KeyTypes, FlagsRight
<1>5. QED
  BY <1>1, <1>2, <1>3, <1>4 DEF KeysInv

LEMMA JoyPadStep ==
  ASSUME KeysInv, JoyPad
  PROVE  KeysInv'
<1>1. PICK s \in Samples :
        LET seen == Buttons(padButtons \/ s.a, s)
        IN /\ todo' = checkJoyPad(pushed, seen)
           /\ pushed' = PadPushed(pushed, seen)
           /\ sample' = seen
  BY DEF JoyPad
<1> DEFINE seen == Buttons(padButtons \/ s.a, s)
<1>2. seen \in SampleType
  <2>1. s \in SampleType
    BY ConsoleAssumption DEF SampleType
  <2>2. [s EXCEPT !.a = FALSE, !.b = FALSE] \in SampleType
    BY <2>1 DEF SampleType
  <2>3. seen \in {s, [s EXCEPT !.a = FALSE, !.b = FALSE]}
    BY DEF Buttons
  <2>4. QED
    BY <2>1, <2>2, <2>3
<1>3. todo' = checkJoyPad(pushed, seen) /\ pushed' = PadPushed(pushed, seen) /\ sample' = seen
  BY <1>1
<1> HIDE DEF seen
<1>4. todo = << >> /\ keys' = keys /\ keys \subseteq Positions /\ Coming = keys
  BY AfterNothing DEF JoyPad, Free, KeysInv, KeyTypes, Coming
<1>5. UNCHANGED <<last_key, kanaMode, tenkeyMode, report, tabbed>> /\ "pad" \in sources'
      /\ sources \subseteq sources'
  BY DEF JoyPad, modeVars
<1>6. pushed \subseteq PadNames /\ pushed' \subseteq PadNames
  BY <1>3 DEF KeysInv, FlagsRight, PadPushed
<1>7. /\ todo' \in Seq(Ops)
      /\ Coming' \subseteq keys \union PadHolds'
      /\ \A n \in pushed \ pushed' : PadAt[n] \notin Coming'
      /\ \A n \in pushed' \ pushed : PadAt[n] \in Coming'
      /\ \A n \in pushed' : PadAt[n] \in keys => PadAt[n] \in Coming'
  BY <1>2, <1>3, <1>4, <1>6, PadAfter DEF Coming, PadHolds
<1>8. KeyTypes'
  BY <1>2, <1>3, <1>4, <1>5, <1>7 DEF KeysInv, KeyTypes
<1>9. FlagsRight'
  <2>1. \A n \in PadNames : PadKeys(seen)[n].on => ~PadKeys(seen)[n].off
    BY <1>2, PadFacts
  <2>2. \A n \in PadNames : /\ n \in pushed' => ~PadKeys(seen)[n].off
                            /\ PadKeys(seen)[n].on => n \in pushed'
    BY <1>3, <2>1 DEF PadPushed
  <2>3. QED
    BY <1>3, <1>5, <1>6, <2>2 DEF KeysInv, FlagsRight
<1>10. UNCHANGED <<HidHolds, KanaHolds>>
  BY <1>5 DEF HidHolds, KanaHolds
<1>11. ASSUME ~tabbed' PROVE Coming' \subseteq PadHolds' \union HidHolds' \union KanaHolds'
  <2>1. keys \subseteq PadHolds \union HidHolds \union KanaHolds
    BY <1>4, <1>5, <1>11 DEF KeysInv
  <2>2. PadHolds \intersect Coming' \subseteq PadHolds'
    BY <1>7 DEF PadHolds
  <2>3. QED
    BY <1>7, <1>10, <2>1, <2>2
<1>12. ASSUME ~tabbed', sources' \subseteq {"pad"} PROVE PadHolds' \subseteq Coming'
  <2>1. PadHolds \subseteq keys
    BY <1>4, <1>5, <1>12 DEF KeysInv
  <2>2. QED
    BY <1>7, <2>1 DEF PadHolds
<1>13. ~(sources' \subseteq {"hid"})
  BY <1>5
<1>14. QED
  BY <1>8, <1>9, <1>11, <1>12, <1>13 DEF KeysInv

LEMMA ReportStep ==
  ASSUME KeysInv, Report
  PROVE  KeysInv'
<1>1. PICK r \in Reports :
        /\ todo' = keyboard(r.mods, r.key, last_key, kanaMode, tenkeyMode)
        /\ last_key' = LastKey(r.key, last_key, tenkeyMode)
        /\ kanaMode' = (kanaMode # (r.key = KEY_KANA))
        /\ report' = r
  BY DEF Report
<1>2. r \in ReportType
  BY ConsoleAssumption DEF ReportType, HidCodes
<1>3. todo = << >> /\ keys' = keys /\ keys \subseteq Positions /\ Coming = keys
  BY AfterNothing DEF Report, Free, KeysInv, KeyTypes, Coming
<1>4. /\ last_key \in HidCodes /\ last_key # KEY_KANA
      /\ kanaMode \in BOOLEAN /\ tenkeyMode \in BOOLEAN
  BY DEF KeysInv, KeyTypes, FlagsRight
<1>5. UNCHANGED <<pushed, tenkeyMode, sample, tabbed>> /\ "hid" \in sources' /\ sources \subseteq sources'
  BY DEF Report, modeVars
<1>6. /\ todo' \in Seq(Ops)
      /\ last_key' \in HidCodes /\ last_key' # KEY_KANA
      /\ r.key # KEY_KANA => last_key' \in {r.key, ToTenKey(r.key)}
      /\ \A p \in Coming' :
           \/ p \in ModKeys(r) \/ p = hid_to_emu(last_key')
           \/ p = SHIFT /\ r.key \in {KEY_DOWN, KEY_LEFT}
           \/ p = KANA /\ r.key = KEY_KANA /\ ~kanaMode
           \/ /\ p \in keys \ ModPositions /\ p # hid_to_emu(last_key)
              /\ r.key = KEY_KANA => p # KANA
      /\ ModKeys(r) \subseteq Coming'
      /\ hid_to_emu(last_key') \in Positions
            /\ (hid_to_emu(last_key) \in Positions => hid_to_emu(last_key) \in keys)
           => hid_to_emu(last_key') \in Coming'
  <2>1. Coming' = After(todo', keys)
    BY <1>3 DEF Coming
  <2>2. todo' \in Seq(Ops) /\ ReportLeaves(keys, Coming', r, last_key, last_key', kanaMode)
    BY <1>1, <1>2, <1>3, <1>4, <2>1, KeyboardAfter
  <2>3. QED
    BY <2>2 DEF ReportLeaves
<1>7. KeyTypes'
  BY <1>1, <1>2, <1>3, <1>4, <1>5, <1>6 DEF KeysInv, KeyTypes
<1>8. FlagsRight'
  BY <1>1, <1>5, <1>6 DEF KeysInv, FlagsRight
<1>9. PadHolds' = PadHolds
  BY <1>5 DEF PadHolds
<1>10. ASSUME ~tabbed' PROVE Coming' \subseteq PadHolds' \union HidHolds' \union KanaHolds'
  <2>1. keys \subseteq PadHolds \union HidHolds \union KanaHolds
    BY <1>3, <1>5, <1>10 DEF KeysInv
  <2>2. HidHolds \subseteq {hid_to_emu(last_key)} \union ModPositions
    <3>1. report \in ReportType /\ SHIFT \in ModPositions
      BY DEF KeysInv, KeyTypes, ModPositions
    <3>2. ModKeys(report) \subseteq ModPositions
      BY <1>3, <3>1, ModifiersAfter
    <3>3. QED
      BY <3>1, <3>2 DEF HidHolds
  <2>3. /\ r.key = KEY_KANA /\ ~kanaMode => KANA \in KanaHolds'
        /\ r.key # KEY_KANA => KanaHolds' = KanaHolds
        /\ KanaHolds \subseteq {KANA}
    BY <1>1, <1>4 DEF KanaHolds
  <2>4. HidHolds' = {hid_to_emu(last_key')} \union ModKeys(r)
                      \union (IF r.key \in {KEY_DOWN, KEY_LEFT} THEN {SHIFT} ELSE {})
    BY <1>1 DEF HidHolds
  <2>5. SUFFICES ASSUME NEW p \in Coming' PROVE p \in PadHolds' \union HidHolds' \union KanaHolds'
    OBVIOUS
  <2>6. CASE \/ p \in ModKeys(r) \/ p = hid_to_emu(last_key')
             \/ p = SHIFT /\ r.key \in {KEY_DOWN, KEY_LEFT}
    BY <2>4, <2>6
  <2>7. CASE p = KANA /\ r.key = KEY_KANA /\ ~kanaMode
    BY <2>3, <2>7
  <2>8. CASE /\ p \in keys \ ModPositions /\ p # hid_to_emu(last_key)
             /\ r.key = KEY_KANA => p # KANA
    BY <1>9, <2>1, <2>2, <2>3, <2>8
  <2>9. QED
    BY <1>6, <2>6, <2>7, <2>8
<1>11. ASSUME ~tabbed', sources' \subseteq {"hid"}
       PROVE  ModKeys(report') \union ({hid_to_emu(last_key')} \intersect Positions) \subseteq Coming'
  <2>1. {hid_to_emu(last_key)} \intersect Positions \subseteq keys
    BY <1>3, <1>5, <1>11 DEF KeysInv
  <2>2. QED
    BY <1>1, <1>6, <2>1
<1>12. ~(sources' \subseteq {"pad"})
  BY <1>5
<1>13. QED
  BY <1>7, <1>8, <1>10, <1>11, <1>12 DEF KeysInv

LEMMA KeysStep == KeysInv /\ [Next]_vars => KeysInv'
<1> SUFFICES ASSUME KeysInv, [Next]_vars PROVE KeysInv'
  OBVIOUS
<1>1. CASE Operate
  BY <1>1, OperateStep
<1>2. CASE Serial \/ Card
  BY <1>2, TypeKeeps DEF Serial, Card
<1>3. CASE JoyPad
  BY <1>3, JoyPadStep
<1>4. CASE Report
  BY <1>4, ReportStep
<1>5. CASE UNCHANGED <<keyVars, histVars>> /\ tenkeyMode' \in {tenkeyMode, ~tenkeyMode}
  <2>1. UNCHANGED <<keys, todo, pushed, last_key, kanaMode, sample, report, sources, tabbed>>
    BY <1>5 DEF keyVars, histVars
  <2>2. UNCHANGED <<Coming, PadHolds, HidHolds, KanaHolds, ModKeys(report), hid_to_emu(last_key)>>
    BY <2>1 DEF Coming, PadHolds, HidHolds, KanaHolds
  <2>3. tenkeyMode' \in BOOLEAN
    BY <1>5 DEF KeysInv, KeyTypes
  <2>4. KeyTypes' /\ FlagsRight'
    BY <2>1, <2>3 DEF KeysInv, KeyTypes, FlagsRight
  <2>5. QED
    BY <2>1, <2>2, <2>4 DEF KeysInv
<1>6. CASE OpenMenu \/ Settled \/ SystemNext \/ SaveSP \/ FilesMove \/ FilesSelect \/ Pass \/ Wake
  BY <1>5, <1>6 DEF OpenMenu, Settled, SystemNext, SaveSP, FilesMove, FilesSelect, Pass, Wake,
                    modeVars
<1>7. CASE SystemSelect
  BY <1>5, <1>7 DEF SystemSelect, modeVars
<1>8. CASE UNCHANGED vars
  BY <1>5, <1>8 DEF vars, modeVars
<1>9. QED
  BY <1>1, <1>2, <1>3, <1>4, <1>6, <1>7, <1>8 DEF Next

\* Whatever is typed, whatever samples and reports come, and whatever is turned
\* over in the menu meanwhile: between two inputs nothing is down that nobody
\* holds.
THEOREM NothingStaysDown == Spec => []NothingStuck
<1>1. ASSUME KeysInv PROVE NothingStuck
  <2> SUFFICES ASSUME todo = << >>, ~tabbed, report.key # KEY_KANA
               PROVE  keys \subseteq PadMay(sample) \union HidMay(report) \union KanaHolds
    BY DEF NothingStuck, KanaHolds
  <2>1. keys \subseteq PadHolds \union HidHolds \union KanaHolds
    BY <1>1, AfterNothing DEF KeysInv, KeyTypes, Coming
  <2>2. PadHolds \subseteq PadMay(sample)
    <3>1. \A n \in PadNames : convert_key(PadKeys(sample)[n].code) = PadAt[n]
      BY <1>1, PadFacts DEF KeysInv, KeyTypes
    <3>2. QED
      BY <1>1, <3>1 DEF KeysInv, FlagsRight, PadHolds, PadMay
  <2>3. HidHolds \subseteq HidMay(report)
    BY <1>1 DEF KeysInv, FlagsRight, HidHolds, HidMay, HidPositions
  <2>4. QED
    BY <2>1, <2>2, <2>3
<1>2. QED
  BY <1>1, KeysStart, KeysStep, PTL DEF Spec

\* The joypad alone or the Bluetooth keyboard alone: what is held is down.
THEOREM HeldStaysDown == Spec => []HeldIsDown
<1>1. ASSUME KeysInv PROVE HeldIsDown
  <2> SUFFICES ASSUME todo = << >>, ~tabbed
               PROVE  /\ sources = {"pad"} => PadMust(sample) \subseteq keys
                      /\ sources = {"hid"} =>
                           /\ ModKeys(report) \subseteq keys
                           /\ (report.key # KEY_KANA /\ HidPositions(report) \subseteq Positions) =>
                                HidPositions(report) \intersect keys # {}
    BY DEF HeldIsDown
  <2>1. Coming = keys
    BY <1>1, AfterNothing DEF KeysInv, KeyTypes, Coming
  <2>2. ASSUME sources = {"pad"} PROVE PadMust(sample) \subseteq keys
    <3>1. \A n \in PadNames : convert_key(PadKeys(sample)[n].code) = PadAt[n]
      BY <1>1, PadFacts DEF KeysInv, KeyTypes
    <3>2. PadMust(sample) \subseteq PadHolds
      BY <1>1, <3>1 DEF KeysInv, FlagsRight, PadHolds, PadMust
    <3>3. QED
      BY <1>1, <2>1, <2>2, <3>2 DEF KeysInv
  <2>3. ASSUME sources = {"hid"}
        PROVE  /\ ModKeys(report) \subseteq keys
               /\ (report.key # KEY_KANA /\ HidPositions(report) \subseteq Positions) =>
                    HidPositions(report) \intersect keys # {}
    <3>1. ModKeys(report) \union ({hid_to_emu(last_key)} \intersect Positions) \subseteq keys
      BY <1>1, <2>1, <2>3 DEF KeysInv
    <3>2. report.key # KEY_KANA => hid_to_emu(last_key) \in HidPositions(report)
      BY <1>1 DEF KeysInv, FlagsRight, HidPositions
    <3>3. QED
      BY <3>1, <3>2
  <2>4. QED
    BY <2>2, <2>3
<1>2. QED
  BY <1>1, KeysStart, KeysStep, PTL DEF Spec
-----------------------------------------------------------------------------
(* Characters typed one operation at a time *)

\* The key a character is typed with, if any, and what its key is called.
Combined(code) == code = 2 \/ check_shift(code) # 0
WithKey(code) == IF code = 2 THEN CTRL ELSE SHIFT

\* What a character holds down after k operations of keyInput.
HeldAfter(code, k) ==
  IF Combined(code)
  THEN (IF k \in 1..3 THEN {WithKey(code)} ELSE {}) \union (IF k = 2 THEN {CharKey(code)} ELSE {})
  ELSE IF k = 1 THEN {CharKey(code)} ELSE {}

\* A TAB may have pressed the first row of the table that follows, for good.
StrayKeys == 1..7

\* k operations of the character typed have been carried out.
Carried(ops, k) ==
  /\ k \in 0..Len(ops) /\ Len(todo) = Len(ops) - k
  /\ \A i \in 1..Len(todo) : todo[i] = ops[i + k]

TypingAt(k) ==
  /\ Carried(keyInput(typing), k)
  /\ keys \subseteq StrayKeys \union HeldAfter(typing, k)
  /\ Combined(typing) => HeldAfter(typing, k) \subseteq keys

\* Where nothing but typing has pressed keys, the matrix is what the operations
\* of the character typed have made of it so far.
TypingInv ==
  sources \subseteq {"typing"} =>
    IF todo = <<>> THEN typing = 0 /\ keys \subseteq StrayKeys
    ELSE \E k \in 0..3 : TypingAt(k)

\* A character that needs SHIFT has a key of its own, not one of the ten-key pad.
LEMMA BasePosition ==
  ASSUME NEW code, check_shift(code) # 0
  PROVE  convert_key(check_shift(code)) \in Positions \ (StrayKeys \union {SHIFT, CTRL, GRAPH})
<1> DEFINE Good(p) == p \in Positions /\ p \notin StrayKeys /\ p \notin {SHIFT, CTRL, GRAPH}
<1>1. \A c : c \in \h30..\h39 \/ c \in \h61..\h7A => Good(convert_key(c))
  BY DEF convert_key, Positions, StrayKeys, SHIFT, CTRL, GRAPH
<1>2. \A k \in ShiftedKeys :
        k[2] \in \h30..\h39 \/ k[2] \in {\h2D, \h5E, \h40, \h5B, \h5D, \h3B, \h3A, \h2C, \h2E,
                                         \h2F, \h12, \h13, \h17}
  BY DEF ShiftedKeys
<1>3. \A c \in {\h2D, \h5E, \h40, \h5B, \h5D, \h3B, \h3A, \h2C, \h2E, \h2F, \h12, \h13, \h17} :
        Good(convert_key(c))
  <2>1. \A k \in OtherKeys : Good(k[2]) \/ k[1] \in {\h09, KEY_SHIFT, KEY_CTRL, KEY_GRAPH}
    BY DEF OtherKeys, Positions, StrayKeys, SHIFT, CTRL, GRAPH, SPACE, RETURN
  <2> DEFINE Bases == {\h2D, \h5E, \h40, \h5B, \h5D, \h3B, \h3A, \h2C, \h2E, \h2F, \h12, \h13, \h17}
  <2>2. /\ <<\h2D, \h2F>> \in OtherKeys /\ <<\h5E, \h2E>> \in OtherKeys
        /\ <<\h40, \h10>> \in OtherKeys /\ <<\h5B, \h2B>> \in OtherKeys
        /\ <<\h5D, \h2D>> \in OtherKeys /\ <<\h3B, \h3B>> \in OtherKeys
        /\ <<\h3A, \h3A>> \in OtherKeys /\ <<\h2C, \h3C>> \in OtherKeys
        /\ <<\h2E, \h3D>> \in OtherKeys /\ <<\h2F, \h3E>> \in OtherKeys
        /\ <<\h12, \h41>> \in OtherKeys /\ <<\h13, \h42>> \in OtherKeys
        /\ <<\h17, \h43>> \in OtherKeys
    BY DEF OtherKeys
  <2>3. \A c \in Bases : \E k \in OtherKeys : k[1] = c
    BY <2>2
  <2> HIDE DEF Good
  <2>4. ASSUME NEW c \in Bases PROVE Good(convert_key(c))
    <3>1. Listed(c, OtherKeys)
      BY <2>3 DEF Listed
    <3>2. c \notin {\h09, KEY_SHIFT, KEY_CTRL, KEY_GRAPH}
      BY DEF KEY_SHIFT, KEY_CTRL, KEY_GRAPH
    <3>3. Good(Entry(c, OtherKeys))
      BY <2>1, <3>1, <3>2, EntryOfTable
    <3>4. convert_key(c) = Entry(c, OtherKeys)
      BY <3>1 DEF convert_key
    <3>5. QED
      BY <3>3, <3>4
  <2>5. QED
    BY <2>4
<1> HIDE DEF Good
<1>4. Good(convert_key(check_shift(code)))
  <2>1. CASE code \in \h41..\h5A
    <3>1. check_shift(code) \in \h61..\h7A
      BY <2>1 DEF check_shift
    <3>2. QED
      BY <1>1, <3>1
  <2>2. CASE code \notin \h41..\h5A /\ code \in \h21..\h29
    <3>1. check_shift(code) \in \h30..\h39
      BY <2>2 DEF check_shift
    <3>2. QED
      BY <1>1, <3>1
  <2>3. CASE code \notin \h41..\h5A /\ code \notin \h21..\h29
    <3>1. Listed(code, ShiftedKeys) /\ check_shift(code) = Entry(code, ShiftedKeys)
      BY <2>3, Zenon DEF check_shift
    <3>2. \E k \in ShiftedKeys : check_shift(code) = k[2]
      BY <3>1, EntryOfTable
    <3>3. QED
      BY <1>1, <1>2, <1>3, <3>2
  <2>4. QED
    BY <2>1, <2>2, <2>3
<1>5. QED
  BY <1>4 DEF Good

LEMMA ModifierPositions ==
  /\ convert_key(KEY_SHIFT) = SHIFT /\ convert_key(KEY_CTRL) = CTRL
<1>1. <<KEY_SHIFT, SHIFT>> \in OtherKeys /\ <<KEY_CTRL, CTRL>> \in OtherKeys
  BY DEF OtherKeys
<1>2. /\ \A k \in OtherKeys : k[1] = KEY_SHIFT => k[2] = SHIFT
      /\ \A k \in OtherKeys : k[1] = KEY_CTRL => k[2] = CTRL
  BY DEF OtherKeys, KEY_GRAPH, KEY_CTRL, KEY_SHIFT
<1>3. Listed(KEY_SHIFT, OtherKeys) /\ Listed(KEY_CTRL, OtherKeys)
  BY <1>1 DEF Listed
<1>4. Entry(KEY_SHIFT, OtherKeys) = SHIFT /\ Entry(KEY_CTRL, OtherKeys) = CTRL
  BY <1>2, <1>3, EntryOfTable
<1>5. QED
  BY <1>3, <1>4 DEF convert_key, KEY_SHIFT, KEY_CTRL

\* CTRL+B is typed with the key of a letter.
LEMMA LetterB == check_shift(2) = 0 /\ convert_key(2 + \h60) = \h12
<1>1. ~Listed(2, ShiftedKeys)
  BY DEF Listed, ShiftedKeys
<1>2. QED
  BY <1>1 DEF check_shift, convert_key

\* The operations of a character with a second key, one by one.
LEMMA CombinedOps ==
  ASSUME NEW code, Combined(code)
  PROVE  LET ops == keyInput(code) IN
         /\ Len(ops) = 4
         /\ ops[1] = [down |-> TRUE, at |-> WithKey(code)]
         /\ ops[2] = [down |-> TRUE, at |-> CharKey(code)]
         /\ ops[3] = [down |-> FALSE, at |-> CharKey(code)]
         /\ ops[4] = [down |-> FALSE, at |-> WithKey(code)]
         /\ WithKey(code) \in Positions \ StrayKeys
         /\ CharKey(code) \in Positions \ (StrayKeys \union {SHIFT, CTRL, GRAPH})
<1>1. WithKey(code) \in Positions \ StrayKeys
  BY DEF WithKey, SHIFT, CTRL, Positions, StrayKeys
<1>2. CASE code = 2
  <2>1. keyInput(code) = <<Down(KEY_CTRL), Down(2 + \h60), Up(2 + \h60), Up(KEY_CTRL)>>
    BY <1>2 DEF keyInput
  <2>2. CharKey(code) = convert_key(2 + \h60) /\ WithKey(code) = CTRL
    BY <1>2 DEF CharKey, WithKey
  <2>3. CharKey(code) \in Positions \ (StrayKeys \union {SHIFT, CTRL, GRAPH})
    BY <2>2, LetterB DEF Positions, StrayKeys, SHIFT, CTRL, GRAPH
  <2>4. QED
    BY <1>1, <2>1, <2>2, <2>3, ModifierPositions DEF Down, Up
<1>3. CASE code # 2
  <2> DEFINE base == check_shift(code)
  <2>1. base # 0
    BY <1>3 DEF Combined
  <2>2. /\ keyInput(code) = <<Down(KEY_SHIFT), Down(base), Up(base), Up(KEY_SHIFT)>>
        /\ CharKey(code) = convert_key(base) /\ WithKey(code) = SHIFT
    BY <1>3, <2>1 DEF keyInput, CharKey, WithKey
  <2>3. CharKey(code) \in Positions \ (StrayKeys \union {SHIFT, CTRL, GRAPH})
    BY <2>1, <2>2, BasePosition
  <2> HIDE DEF base
  <2>4. QED
    BY <1>1, <2>2, <2>3, ModifierPositions DEF Down, Up
<1>4. QED
  BY <1>2, <1>3

\* Those of a character with one key.
LEMMA PlainOps ==
  ASSUME NEW code, ~Combined(code)
  PROVE  LET ops == keyInput(code) IN
         /\ Len(ops) = 2
         /\ ops[1] = [down |-> TRUE, at |-> CharKey(code)]
         /\ ops[2] = [down |-> FALSE, at |-> CharKey(code)]
<1>1. code # 2 /\ check_shift(code) = 0
  BY DEF Combined
<1>2. keyInput(code) = <<Down(code), Up(code)>> /\ CharKey(code) = convert_key(code)
  BY <1>1 DEF keyInput, CharKey
<1>3. QED
  BY <1>2 DEF Down, Up

\* One more operation of the character typed.
LEMMA OneMore ==
  ASSUME KeyTypes, Operate, NEW k \in 0..3, TypingAt(k)
  PROVE  /\ k + 1 \in 1..Len(keyInput(typing))
         /\ keys' \subseteq StrayKeys \union HeldAfter(typing, k + 1)
         /\ Combined(typing) => HeldAfter(typing, k + 1) \subseteq keys'
<1> DEFINE ops == keyInput(typing)
<1>1. /\ todo # << >> /\ todo \in Seq(Ops) /\ Head(todo) = todo[1] /\ Len(todo) \in Nat \ {0}
      /\ keys \subseteq Positions /\ NoKey \notin Positions
  BY DEF Operate, KeyTypes, Positions, NoKey
<1>2. /\ keys \subseteq StrayKeys \union HeldAfter(typing, k)
      /\ Combined(typing) => HeldAfter(typing, k) \subseteq keys
      /\ k \in 0..Len(ops) /\ Len(todo) = Len(ops) - k /\ todo[1] = ops[1 + k]
  BY <1>1 DEF TypingAt, Carried
<1>3. \/ /\ todo[1].at \in Positions
         /\ keys' = IF todo[1].down THEN keys \union {todo[1].at} ELSE keys \ {todo[1].at}
      \/ todo[1].at \notin Positions /\ keys' \subseteq keys \union StrayKeys
  BY <1>1 DEF Operate, Stray, StrayKeys
<1> HIDE DEF ops
<1>4. CASE Combined(typing)
  <2>1. /\ Len(ops) = 4
        /\ ops[1] = [down |-> TRUE, at |-> WithKey(typing)]
        /\ ops[2] = [down |-> TRUE, at |-> CharKey(typing)]
        /\ ops[3] = [down |-> FALSE, at |-> CharKey(typing)]
        /\ ops[4] = [down |-> FALSE, at |-> WithKey(typing)]
        /\ WithKey(typing) \in Positions \ StrayKeys
        /\ CharKey(typing) \in Positions \ (StrayKeys \union {SHIFT, CTRL, GRAPH})
    BY <1>4, CombinedOps DEF ops
  <2>2. WithKey(typing) # CharKey(typing)
    BY <2>1 DEF WithKey
  <2>3. k + 1 \in 1..Len(ops)
    BY <1>1, <1>2, <2>1
  <2>4. CASE k = 0
    BY <1>2, <1>3, <1>4, <2>1, <2>2, <2>4 DEF HeldAfter, ops
  <2>5. CASE k = 1
    BY <1>2, <1>3, <1>4, <2>1, <2>2, <2>5 DEF HeldAfter, ops
  <2>6. CASE k = 2
    BY <1>2, <1>3, <1>4, <2>1, <2>2, <2>6 DEF HeldAfter, ops
  <2>7. CASE k = 3
    BY <1>2, <1>3, <1>4, <2>1, <2>2, <2>7 DEF HeldAfter, ops
  <2>8. QED
    BY <2>4, <2>5, <2>6, <2>7
<1>5. CASE ~Combined(typing)
  <2>1. /\ Len(ops) = 2
        /\ ops[1] = [down |-> TRUE, at |-> CharKey(typing)]
        /\ ops[2] = [down |-> FALSE, at |-> CharKey(typing)]
    BY <1>5, PlainOps DEF ops
  <2>2. k \in {0, 1}
    BY <1>1, <1>2, <2>1
  <2>3. CASE k = 0
    BY <1>2, <1>3, <1>5, <2>1, <2>3 DEF HeldAfter, ops
  <2>4. CASE k = 1
    BY <1>1, <1>2, <1>3, <1>5, <2>1, <2>4 DEF HeldAfter, ops
  <2>5. QED
    BY <2>2, <2>3, <2>4
<1>6. QED
  BY <1>4, <1>5

LEMMA TypingOperate ==
  ASSUME KeyTypes, TypingInv, Operate
  PROVE  TypingInv'
<1> SUFFICES ASSUME sources \subseteq {"typing"}
             PROVE  IF todo' = << >> THEN typing' = 0 /\ keys' \subseteq StrayKeys
                    ELSE \E k \in 0..3 : TypingAt(k)'
  BY DEF TypingInv, Operate
<1>1. /\ todo # << >> /\ todo \in Seq(Ops) /\ todo' = Tail(todo)
      /\ typing' = IF Len(todo) = 1 THEN 0 ELSE typing
  BY DEF Operate, KeyTypes
<1>2. PICK k \in 0..3 : TypingAt(k)
  BY <1>1 DEF TypingInv
<1> DEFINE ops == keyInput(typing)
<1>3. /\ k + 1 \in 1..Len(ops)
      /\ keys' \subseteq StrayKeys \union HeldAfter(typing, k + 1)
      /\ Combined(typing) => HeldAfter(typing, k + 1) \subseteq keys'
  BY <1>2, OneMore
<1>4. /\ Len(todo) = Len(ops) - k /\ \A i \in 1..Len(todo) : todo[i] = ops[i + k]
  BY <1>2 DEF TypingAt, Carried
<1>5. Len(ops) = IF Combined(typing) THEN 4 ELSE 2
  BY CombinedOps, PlainOps
<1> HIDE DEF ops
<1>6. /\ Len(todo') = Len(todo) - 1
      /\ \A i \in 1..Len(todo') : todo'[i] = todo[i + 1]
      /\ todo' \in Seq(Ops) /\ Len(todo) \in Nat \ {0}
  BY <1>1
<1>7. CASE Len(todo) = 1
  <2>1. todo' = << >> /\ typing' = 0
    BY <1>1, <1>6, <1>7
  <2>2. HeldAfter(typing, k + 1) = {}
    BY <1>4, <1>5, <1>7 DEF HeldAfter
  <2>3. QED
    BY <1>3, <2>1, <2>2
<1>8. CASE Len(todo) # 1
  <2>1. todo' # << >> /\ typing' = typing
    <3>1. Len(todo') # 0 /\ typing' = typing
      BY <1>1, <1>6, <1>8
    <3>2. QED
      BY <3>1
  <2>2. k + 1 \in 0..3
    BY <1>3, <1>4, <1>5, <1>6, <1>8
  <2>3. /\ k + 1 \in 0..Len(ops) /\ Len(todo') = Len(ops) - (k + 1)
        /\ \A i \in 1..Len(todo') : todo'[i] = ops[i + (k + 1)]
    <3>1. k + 1 \in 0..Len(ops) /\ Len(todo') = Len(ops) - (k + 1)
      BY <1>3, <1>4, <1>5, <1>6
    <3>2. ASSUME NEW i \in 1..Len(todo') PROVE todo'[i] = ops[i + (k + 1)]
      <4>1. i + 1 \in 1..Len(todo) /\ todo'[i] = todo[i + 1] /\ (i + 1) + k = i + (k + 1)
        BY <1>6
      <4>2. QED
        BY <1>4, <4>1
    <3>3. QED
      BY <3>1, <3>2
  <2>4. TypingAt(k + 1)'
    BY <1>3, <2>1, <2>3 DEF TypingAt, Carried, ops
  <2>5. QED
    BY <2>1, <2>2, <2>4
<1>9. QED
  BY <1>7, <1>8

LEMMA TypingBegins ==
  ASSUME KeyTypes, TypingInv, NEW code, Type(code)
  PROVE  TypingInv'
<1> SUFFICES ASSUME sources \subseteq {"typing"}
             PROVE  \E k \in 0..3 : TypingAt(k)'
  <2>1. todo' # << >>
    <3>1. Len(keyInput(code)) \in {2, 4} /\ todo' = keyInput(code)
      BY CombinedOps, PlainOps DEF Type
    <3>2. Len(todo') # 0
      BY <3>1
    <3>3. QED
      BY <3>2
  <2>2. sources \subseteq sources'
    BY DEF Type
  <2>3. QED
    BY <2>1, <2>2 DEF TypingInv
<1>1. todo = << >> /\ todo' = keyInput(code) /\ typing' = code /\ keys' = keys
  BY DEF Type, Free
<1>2. keys \subseteq StrayKeys
  BY <1>1 DEF TypingInv
<1>3. Len(keyInput(code)) \in {2, 4}
  BY CombinedOps, PlainOps
<1>4. HeldAfter(code, 0) = {}
  BY DEF HeldAfter
<1>5. Carried(keyInput(typing), 0)'
  BY <1>1, <1>3 DEF Carried
<1>6. TypingAt(0)'
  BY <1>1, <1>2, <1>4, <1>5 DEF TypingAt
<1>7. QED
  BY <1>6

LEMMA TypingStep == KeysInv /\ TypingInv /\ [Next]_vars => TypingInv'
<1> SUFFICES ASSUME KeysInv, TypingInv, [Next]_vars PROVE TypingInv'
  OBVIOUS
<1>1. KeyTypes
  BY DEF KeysInv
<1>2. CASE Operate
  BY <1>1, <1>2, TypingOperate
<1>3. CASE Serial \/ Card
  BY <1>1, <1>3, TypingBegins DEF Serial, Card
<1>4. CASE JoyPad \/ Report
  BY <1>4 DEF JoyPad, Report, TypingInv
<1>5. CASE UNCHANGED <<keyVars, histVars>>
  BY <1>5 DEF keyVars, histVars, TypingInv, TypingAt, Carried
<1>6. CASE \/ OpenMenu \/ Settled \/ SystemNext \/ SystemSelect \/ SaveSP
           \/ FilesMove \/ FilesSelect \/ Pass \/ Wake
  BY <1>5, <1>6 DEF OpenMenu, Settled, SystemNext, SystemSelect, SaveSP, FilesMove, FilesSelect,
                    Pass, Wake
<1>7. CASE UNCHANGED vars
  BY <1>5, <1>7 DEF vars
<1>8. QED
  BY <1>2, <1>3, <1>4, <1>6, <1>7 DEF Next

\* Whatever characters are typed, on the line or on the card: at every moment
\* between two operations the program that finds the key of a character finds
\* the SHIFT or CTRL that belongs to it, and no other.
THEOREM CharactersArrive == Spec => []TypedRight
<1>1. Init => TypingInv
  BY DEF Init, TypingInv
<1>2. ASSUME TypingInv PROVE TypedRight
  <2> SUFFICES ASSUME sources = {"typing"}, typing # 0,
                      CharKey(typing) \in keys \ {SHIFT, CTRL, GRAPH}
               PROVE  /\ (SHIFT \in keys) = (check_shift(typing) # 0)
                      /\ (CTRL \in keys) = (typing = 2)
    BY DEF TypedRight
  <2>1. PICK k \in 0..3 : TypingAt(k)
    BY <1>2 DEF TypingInv
  <2>2. /\ keys \subseteq StrayKeys \union HeldAfter(typing, k)
        /\ Combined(typing) => HeldAfter(typing, k) \subseteq keys
    BY <2>1 DEF TypingAt
  <2>3. SHIFT \notin StrayKeys /\ CTRL \notin StrayKeys /\ SHIFT # CTRL
    BY DEF SHIFT, CTRL, StrayKeys
  <2>4. CASE Combined(typing)
    <3>1. CharKey(typing) \notin StrayKeys /\ CharKey(typing) # WithKey(typing)
      BY <2>4, CombinedOps DEF WithKey
    <3>2. k = 2
      BY <2>2, <2>4, <3>1 DEF HeldAfter
    <3>3. /\ keys \subseteq StrayKeys \union {WithKey(typing), CharKey(typing)}
          /\ WithKey(typing) \in keys
      BY <2>2, <2>4, <3>2 DEF HeldAfter
    <3>4. typing = 2 => check_shift(typing) = 0
      BY LetterB
    <3>5. QED
      BY <2>3, <2>4, <3>3, <3>4 DEF WithKey, Combined
  <2>5. CASE ~Combined(typing)
    BY <2>2, <2>3, <2>5 DEF HeldAfter, Combined
  <2>6. QED
    BY <2>4, <2>5
<1>3. QED
  BY <1>1, <1>2, KeysStart, KeysStep, TypingStep, PTL DEF Spec
=============================================================================
