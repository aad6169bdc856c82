------------------------------ MODULE Console ------------------------------
(***************************************************************************)
(* The user at the machine: the main thread of both variants between what  *)
(* the user does (typing on a terminal, the I2C keyboard, the joypad, the  *)
(* Bluetooth keyboard, the button and its menus) and what the program      *)
(* finds in the key matrix and in memory.                                  *)
(*                                                                         *)
(* The main thread is sequential: it takes one input, carries out its key  *)
(* operations one by one (`todo`), and only then looks around again. The   *)
(* program runs in between. The M5 has the joypad and the menu of the      *)
(* image files, the Atom the Bluetooth keyboard and the menus of its one   *)
(* button.                                                                 *)
(***************************************************************************)
EXTENDS Keys, FiniteSetsExt

CONSTANTS
  Lines,       \* what may come over the serial line: sequences of bytes
  Cards,       \* keys of the I2C keyboard
  Samples,     \* samples of the joypad
  Reports,     \* reports of the Bluetooth keyboard: modifiers and first key
  FileCount,   \* files on the card
  ListRows,    \* entries a list shows (24 on the Atom, 13 on the M5)
  ListLead     \* entries shown before the selected one (5)

\* The axes and the stick answer with bytes. The codes 165 and from 251 on are
\* reserved: no keyboard reports one as its first key. A card without files is
\* left out: the M5 then selects the file -1.
ASSUME ConsoleAssumption ==
  /\ Samples \subseteq [x : 0..255, y : 0..255, press : 0..255, a : BOOLEAN, b : BOOLEAN]
  /\ Reports \subseteq [mods : SUBSET {"shift", "ctrl", "graph"}, key : (0..250) \ {165}]
  /\ FileCount \in Nat \ {0} /\ ListRows \in Nat /\ ListLead \in 0..(ListRows - 1)

VARIABLES
  variant,         \* the program: "m5" or "atom"
  keys,            \* positions whose bit in n80device.keys is 0
  todo,            \* key operations the main thread has begun and not finished
  pushed,          \* joyPadPushed flags
  padButtons,      \* enableJoyPadButton
  last_key,        \* _last_key: the key of the Bluetooth keyboard pressed last
  kanaMode,
  tenkeyMode,
  pcg_mode,
  suspendMachine,
  screen,          \* who has the panel, and how far the menu has come
  selectIndex,     \* the entry selected in a menu
  z80,             \* the Z80 thread: "runs" a pass or is "asleep"
  moment,          \* the program's state (memory and SP), as a moment in time
  image,           \* the saved image: moments of its memory and its SP
  \* histories
  sample,          \* the last sample of the joypad
  report,          \* the last report of the Bluetooth keyboard
  typing,          \* the character being typed, 0 if none
  sources,         \* who has pressed keys so far
  tabbed           \* a key past the matrix has been used

keyVars == <<keys, todo, pushed, padButtons, last_key, kanaMode>>
modeVars == <<tenkeyMode, pcg_mode>>
menuVars == <<suspendMachine, screen, selectIndex>>
imageVars == <<z80, moment, image>>
histVars == <<sample, report, typing, sources, tabbed>>
vars == <<variant, keyVars, modeVars, menuVars, imageVars, histVars>>

Moments == 0..2      \* counted round: bound of the model
Screens == {"machine", "opening", "files", "system", "saving"}
Centred == [x |-> 120, y |-> 120, press |-> 0, a |-> FALSE, b |-> FALSE]
AllUp == [mods |-> {}, key |-> 0]

Init ==
  /\ variant \in {"m5", "atom"}
  /\ keys = {} /\ todo = <<>>
  /\ pushed = {} /\ padButtons = FALSE
  /\ last_key = 0 /\ kanaMode = FALSE
  /\ tenkeyMode = FALSE /\ pcg_mode = FALSE
  /\ suspendMachine = FALSE /\ screen = "machine" /\ selectIndex = 0
  /\ z80 = "runs" /\ moment = 0 /\ image = [memory |-> 0, sp |-> 0]
  /\ sample = Centred /\ report = AllUp
  /\ typing = 0 /\ sources = {} /\ tabbed = FALSE
-----------------------------------------------------------------------------
(* Keys *)

\* The main thread looks around: no key operation is under way and the
\* machine, not a menu, has the panel.
Free == todo = <<>> /\ screen = "machine" /\ ~suspendMachine

\* A key past the table is whatever follows the table in memory: the first row
\* of the table after it, or something that is not the matrix at all.
Stray(op) == keys' \in {keys, IF op.down THEN keys \union 1..7 ELSE keys \ {0}}

\* onkey_down, onkey_up and their like for the Bluetooth keyboard: one bit of
\* one byte of the matrix.
Operate ==
  /\ todo # <<>>
  /\ LET op == Head(todo)
     IN \/ /\ op.at \in Positions
           /\ keys' = IF op.down THEN keys \union {op.at} ELSE keys \ {op.at}
           /\ UNCHANGED tabbed
        \/ /\ op.at = NoKey
           /\ UNCHANGED <<keys, tabbed>>
        \/ /\ op.at \notin Positions \union {NoKey}
           /\ Stray(op)
           /\ tabbed' = TRUE
  /\ todo' = Tail(todo)
  /\ typing' = IF Len(todo) = 1 THEN 0 ELSE typing
  /\ UNCHANGED <<variant, pushed, padButtons, last_key, kanaMode, modeVars, menuVars, imageVars,
                 sample, report, sources>>

Type(code) ==
  /\ Free
  /\ todo' = keyInput(code)
  /\ typing' = code
  /\ sources' = sources \union {"typing"}
  /\ UNCHANGED <<variant, keys, pushed, padButtons, last_key, kanaMode, modeVars, menuVars,
                 imageVars, sample, report, tabbed>>

\* Serial.available() in n80main
Serial == \E bytes \in Lines : Type(SerialCode(bytes))

\* checkI2cKeyboard: 0 is no key.
Card == \E byte \in Cards \ {0} : Type(CardCode(byte))

\* checkJoyPad. A joypad that is not connected answers short or with 0, and
\* nothing is done: what it held stays down.
JoyPad ==
  /\ Free /\ variant = "m5"
  /\ \E s \in Samples :
       LET seen == Buttons(padButtons \/ s.a, s)
       IN /\ s.x # 0
          /\ padButtons' = (padButtons \/ s.a)
          /\ todo' = checkJoyPad(pushed, seen)
          /\ pushed' = PadPushed(pushed, seen)
          /\ sample' = seen
  /\ sources' = sources \union {"pad"}
  /\ UNCHANGED <<variant, keys, last_key, kanaMode, modeVars, menuVars, imageVars,
                 report, typing, tabbed>>

\* gui_hid and keyboard(): a report of the Bluetooth keyboard.
Report ==
  /\ Free /\ variant = "atom"
  /\ \E r \in Reports :
       /\ todo' = keyboard(r.mods, r.key, last_key, kanaMode, tenkeyMode)
       /\ last_key' = LastKey(r.key, last_key, tenkeyMode)
       /\ kanaMode' = (kanaMode # (r.key = KEY_KANA))
       /\ report' = r
  /\ sources' = sources \union {"hid"}
  /\ UNCHANGED <<variant, keys, pushed, padButtons, modeVars, menuVars, imageVars,
                 sample, typing, tabbed>>
-----------------------------------------------------------------------------
(* Menus *)

\* The button of the Atom, short: the list of files; long: the system menu.
\* M5: button B, long, the list of images. The machine is suspended, and the
\* panel taken a little later.
OpenMenu ==
  /\ Free
  /\ suspendMachine' = TRUE
  /\ screen' = "opening"
  /\ UNCHANGED <<variant, keyVars, modeVars, selectIndex, imageVars, histVars>>

\* Mutant: the menu does not wait for the machine.
SettledAtOnce ==
  /\ screen = "opening"
  /\ screen' \in (IF variant = "m5" THEN {"files"} ELSE {"files", "system"})
  /\ selectIndex' = 0
  /\ UNCHANGED <<variant, keyVars, modeVars, suspendMachine, imageVars, histVars>>

\* The delay is over. That it outlasts a pass of the Z80 thread is what the
\* module Machine is about, and assumed here. The M5 begins with the file
\* loaded last, which may be any.
Settled ==
  /\ screen = "opening" /\ z80 = "asleep"
  /\ \/ /\ variant = "m5" /\ screen' = "files"
        /\ selectIndex' \in {0} \union 0..(FileCount - 1)
     \/ /\ variant = "atom" /\ screen' \in {"files", "system"}
        /\ selectIndex' = 0
  /\ UNCHANGED <<variant, keyVars, modeVars, suspendMachine, imageVars, histVars>>

\* Back to the machine.
Resume ==
  /\ suspendMachine' = FALSE
  /\ screen' = "machine"
  /\ selectIndex' = 0

SystemItems == 4   \* [BACK], PCG, TEN KEY MODE, MEMORY SAVE

\* systemMenu: a short press goes to the next entry.
SystemNext ==
  /\ screen = "system"
  /\ selectIndex' = (selectIndex + 1) % SystemItems
  /\ UNCHANGED <<variant, keyVars, modeVars, suspendMachine, screen, imageVars, histVars>>

\* A long press: back, a mode turned over, or the memory saved, first its bytes.
SystemSelect ==
  /\ screen = "system"
  /\ \/ selectIndex = 0 /\ Resume /\ UNCHANGED <<modeVars, image>>
     \/ /\ selectIndex = 1 /\ pcg_mode' = ~pcg_mode
        /\ UNCHANGED <<tenkeyMode, menuVars, image>>
     \/ /\ selectIndex = 2 /\ tenkeyMode' = ~tenkeyMode
        /\ UNCHANGED <<pcg_mode, menuVars, image>>
     \/ /\ selectIndex = 3
        /\ screen' = "saving"
        /\ image' = [image EXCEPT !.memory = moment]
        /\ UNCHANGED <<modeVars, suspendMachine, selectIndex>>
  /\ UNCHANGED <<variant, keyVars, z80, moment, histVars>>

\* The end of saveN80Image: RET and SP. The menu ends with it.
SaveSP ==
  /\ screen = "saving"
  /\ image' = [image EXCEPT !.sp = moment]
  /\ Resume
  /\ UNCHANGED <<variant, keyVars, modeVars, z80, moment, histVars>>

\* The entries of a list: on the Atom [BACK] and then the files.
LastEntry == IF variant = "atom" THEN FileCount ELSE FileCount - 1

\* Mutant: the list scrolls with an entry too many before the selected one.
ShownLate(i) ==
  IF variant = "atom" THEN (IF i < ListRows THEN 0..ListRows ELSE (i + 1)..(i + ListRows))
  ELSE i..(i + ListRows)

\* What the list shows when an entry is selected. The M5 leaves out the last
\* file: its end is the index of that file, and the loop stops before it.
Shown(i) ==
  LET start == Max({0, i - ListLead})
      cut == start + ListRows > LastEntry
      end == IF cut THEN LastEntry ELSE start + ListRows
      first == IF variant = "atom" /\ cut THEN Max({0, end - ListRows}) ELSE start
  IN IF variant = "atom" THEN first..end ELSE first..(end - 1)

\* chooseN80File of the Atom: one button goes round the list. M5: two buttons go
\* up and down.
FilesMove ==
  /\ screen = "files"
  /\ \/ /\ variant = "atom"
        /\ selectIndex' = IF selectIndex + 1 > LastEntry THEN 0 ELSE selectIndex + 1
     \/ /\ variant = "m5"
        /\ selectIndex' \in {Max({0, selectIndex - 1}), Min({LastEntry, selectIndex + 1})}
  /\ UNCHANGED <<variant, keyVars, modeVars, suspendMachine, screen, imageVars, histVars>>

\* The chosen entry: nothing, a tape, or an image that is loaded (here the one
\* saved: memory and SP are of its moment). The load gives the machine back.
FilesSelect ==
  /\ screen = "files"
  /\ \/ UNCHANGED moment
     \/ /\ variant = "m5" \/ selectIndex > 0
        /\ moment' = image.memory
  /\ Resume
  /\ UNCHANGED <<variant, keyVars, modeVars, z80, image, histVars>>
-----------------------------------------------------------------------------
(* The Z80 thread *)

\* The end of a pass, in which the program has moved on; at the head of the loop
\* the thread looks whether it is to sleep.
Pass ==
  /\ z80 = "runs"
  /\ moment' = (moment + 1) % 3
  /\ z80' = IF suspendMachine THEN "asleep" ELSE "runs"
  /\ UNCHANGED <<variant, keyVars, modeVars, menuVars, image, histVars>>

Wake ==
  /\ z80 = "asleep" /\ ~suspendMachine
  /\ z80' = "runs"
  /\ UNCHANGED <<variant, keyVars, modeVars, menuVars, moment, image, histVars>>

Next ==
  \/ Operate \/ Serial \/ Card \/ JoyPad \/ Report
  \/ OpenMenu \/ Settled \/ SystemNext \/ SystemSelect \/ SaveSP
  \/ FilesMove \/ FilesSelect
  \/ Pass \/ Wake

Spec == Init /\ [][Next]_vars
-----------------------------------------------------------------------------
(* Properties *)

\* The keys a sample of the joypad may hold: on the limit either is right.
PadMay(s) == {convert_key(PadKeys(s)[n].code) : n \in {m \in PadNames : ~PadKeys(s)[m].off}}
PadMust(s) == {convert_key(PadKeys(s)[n].code) : n \in {m \in PadNames : PadKeys(s)[m].on}}

ModKey == [shift |-> SHIFT, ctrl |-> CTRL, graph |-> GRAPH]
ModKeys(r) == {ModKey[m] : m \in r.mods}

\* The keys a report stands for: a cursor key itself or, in ten-key mode, a
\* digit, and with it the SHIFT that makes left of right and down of up.
HidPositions(r) == {hid_to_emu(r.key), hid_to_emu(ToTenKey(r.key))}
HidMay(r) == HidPositions(r) \union ModKeys(r)
               \union (IF r.key \in {KEY_DOWN, KEY_LEFT} THEN {SHIFT} ELSE {})

(***************************************************************************)
(* No key stays down that nobody holds. Between two inputs what is down in *)
(* the matrix is held by the joypad or the Bluetooth keyboard as each was  *)
(* seen last, or is the locked kana key: whatever was typed, mixed with    *)
(* whatever was pressed on the others, in either mode of the cursor keys   *)
(* and with the mode changed while one is held (onkey_down and onkey_up of *)
(* keyInput, checkJoyPad and keyboard). TAB is excepted: its entry is past *)
(* the table and may press anything. So is a report that begins with the   *)
(* kana key, which leaves the other keys as they are.                      *)
(***************************************************************************)
NothingStuck ==
  (todo = <<>> /\ ~tabbed /\ report.key # KEY_KANA) =>
    keys \subseteq PadMay(sample) \union HidMay(report) \union (IF kanaMode THEN {KANA} ELSE {})

(***************************************************************************)
(* A key that is held is down for the program, as long as one source only  *)
(* is in use (a typed character releases the same key of another source):  *)
(* also when the key held changes to another with the same position, and   *)
(* when ten-key mode changes the position of the key held.                 *)
(***************************************************************************)
HeldIsDown ==
  (todo = <<>> /\ ~tabbed) =>
    /\ sources = {"pad"} => PadMust(sample) \subseteq keys
    /\ sources = {"hid"} =>
         /\ ModKeys(report) \subseteq keys
         /\ (report.key # KEY_KANA /\ HidPositions(report) \subseteq Positions) =>
              HidPositions(report) \intersect keys # {}

\* The key of a typed character, and whether it takes part in the matrix.
CharKey(code) ==
  convert_key(IF code = 2 THEN code + \h60
              ELSE IF check_shift(code) # 0 THEN check_shift(code) ELSE code)

(***************************************************************************)
(* The program never reads a character nobody typed: at no moment between  *)
(* two operations is the key of a typed character down without its SHIFT   *)
(* or CTRL, or with one that is not its own (the order of the operations   *)
(* in keyInput).                                                           *)
(***************************************************************************)
TypedRight ==
  (sources = {"typing"} /\ typing # 0 /\ CharKey(typing) \in keys \ {SHIFT, CTRL, GRAPH}) =>
    /\ (SHIFT \in keys) = (check_shift(typing) # 0)
    /\ (CTRL \in keys) = (typing = 2)

(***************************************************************************)
(* A saved image is of one moment: its memory and the stack pointer at its *)
(* end belong together, though the Z80 thread ran until the menu came up   *)
(* (systemMenu, saveN80Image). So is what a load makes of it.              *)
(***************************************************************************)
ImageOfMoment == screen # "saving" => image.memory = image.sp

(***************************************************************************)
(* The list shows the entry that is selected, wherever the list stands,    *)
(* and never more entries than fit; except for the last file of the M5,    *)
(* which its list never shows (choseN80File and chooseN80File).            *)
(***************************************************************************)
SelectionShown ==
  screen = "files" =>
    /\ (selectIndex \in Shown(selectIndex)) = ~(variant = "m5" /\ selectIndex = LastEntry)
    /\ Shown(selectIndex) \subseteq 0..LastEntry
    /\ Cardinality(Shown(selectIndex)) <= ListRows + 1

(***************************************************************************)
(* What the comment in keyboard() says of the cursor keys: down and left   *)
(* are up and right with SHIFT. The code presses SHIFT with the key and    *)
(* lets it go with the next report, while the key is still held.           *)
(***************************************************************************)
ArrowShifted ==
  (todo = <<>> /\ report.key \in {KEY_DOWN, KEY_LEFT} /\ hid_to_emu(report.key) \in keys) =>
    SHIFT \in keys
=============================================================================
