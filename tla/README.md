# Verification of the M5N80 emulator

M5N80 runs the software of an NEC PC-8001 on an M5Stack (`m5n80/`) or an
M5Atom with HDMI output (`m5n80AtomHDMI/`). This directory holds TLA+ models of
its parts, TLC configurations that check them on small instances, and proofs
that TLAPS checks for every value of the constants. The devices
(`crtc.c`, `cursor.c`, `dmac.c`, `VRTC.c`, `attrib.c`, ...) are the same files in
both variants; where the variants differ the models follow `m5n80/`, except for
`BtHost`, `Keys`, `Console` and `Drawing`, which cover both or the Atom.

## The system

| part | state | operations | talks to |
|---|---|---|---|
| CRTC (`crtc.c`) | waiting command, parameter count, line, width and colour mode, reverse flag, text visibility | `cmd`, `data`, `mode` (OUT 0x50, 0x51, 0x30) | cursor, marks of lines, drawing function |
| cursor (`cursor.c`) | position drawn, position asked for, enabled, blink | `enable`, `disable`, `move` | marks of lines |
| DMA channel 2 (`dmac.c`) | address flip-flop, window, penalty | `cmd`, `ch2adr` (OUT 0x68, 0x64) | text visibility |
| VRTC (`VRTC.c`) | scan line, clocks in line and blanking interval, flag, blink counter | `blanking(T)`, `edge`, `poll` (IN 0x40) | cursor, penalty, request for a frame |
| attributes (`attrib.c`) | marks, caches, colour and function carried between lines | `set`, `invalid`, `cache`, `eval` | read by the display thread |
| text memory (`memory.c`) | 64 KB | `mbread`, `mbwrite` | marks |
| frame (`fb.cpp`) | frame buffer, drawing function | `reflesh_screen`, `renderDisplay`, `chg_bltfunc` | text memory under `vram_sync` |
| Z80 thread (`main.cpp`) | clocks since the last pacing | `z80_thread_func` | everything above |
| display thread | | `disp_thread_func` | `needDrawFlag`, `suspendMachine` |
| web thread | mailbox | handlers of the web server | main thread |
| main thread | buttons, keys | `n80main`, loads, menu, server switch | suspends the machine |
| settings (`M5N80.ino`) | a file on the card | `saveConfig`, `loadConfig` | at start, after loads, at the end |
| keyboard, joypad, serial, web typing, Bluetooth keyboard | key matrix, what each source holds | `onkey_down`, `onkey_up` and their like for HID codes | read by IN 0x00 to 0x09 |
| menus (`main.cpp`) | selected entry, `tenkeyMode`, `pcg_mode` | `systemMenu`, `chooseN80File`, `saveN80Image` | suspends the machine, reads its memory |
| calendar (`PD1990.c`) | strobe and clock as last seen, 40-bit register | OUT 0x10, 0x40, IN 0x40 | Z80 thread |
| PCG (`PCG.c`) | characters, counter, mode, turn of the halves | OUT 0x00 to 0x0f | Z80 thread, drawing |
| tape (`cmt.c`) | buffer, index, reset | OUT 0x21, IN 0x20, `selectCMTFile` | Z80 thread and main thread |
| Z80 CPU (`Z80.c`, `Z80OP*.c`, `z80mac.h`) | registers, flags, interrupt flip-flops | `step`, `reset`; `int_signal` and `nmi_signal`, which nothing calls | memory and ports |
| Bluetooth host (Atom, `hci_server.cpp`) | queues `_rx` and `_tx`, connections, L2CAP channels | `update`, `hci`, `acl`, `l2_open` ... | controller's task, HID devices |
| HID devices (Atom, `hid_server.cpp`) | state, ids of their channels, SDP handler, Wii slots | callbacks of the host, `get` | Bluetooth host, main thread |

What is hard here: four threads share state under one mutex that covers
little of it; the machine is suspended by a flag and a sleep, with no
acknowledgement; requests for frames and web commands go through single
variables that are cleared by whoever has served them, whatever came meanwhile;
lines are drawn again only if somebody marked them; time is counted by
clocks left over from one interval to the next. `PROJECT.json` lists these
hazards line by line with the properties that cover them.

## The modules

| module | models | checked by | proved in |
|---|---|---|---|
| `Crtc` | CRTC, cursor, DMA registers, marks | `MCDevices` | `DevicesProofs` |
| `Calendar` | strobe, clock and shift register of the uPD1990 | `MCDevices` | `DevicesProofs` |
| `Pcg` | characters and the counter of the i8253 | `MCDevices` | `DevicesProofs` |
| `Tape` | the tape and its replacement | `MCDevices` | `DevicesProofs` |
| `Devices` (extends the four above) | OUT and IN over all ports | `MCDevices` | `DevicesProofs` |
| `Vrtc` (extends `Crtc`) | the Z80 thread's loop as to time, blanking, penalty, blink | `MCVrtc` | `DevicesProofs` |
| `Screen` | what the display promises: frames made of whole lines | | |
| `Refresh` | display thread against the program's changes; implements `Screen` | `MCRefresh` | `RefreshProofs` |
| `Attrib` | sorting of the attribute columns, colours, functions, cursor, carry | `MCDrawing` | `DrawingProofs` |
| `Drawing` (extends `Attrib`) | one line from memory to pixels, in eight drawing functions | `MCDrawing` | `DrawingProofs` |
| `Machine` | the four threads, suspension, loads, menu, server, end of program | `MCMachine` | `MachineProofs` |
| `Mailbox` | web commands from the handlers to the main thread | `MCMailbox` | `WebProofs` |
| `Settings` | the settings file, saved and loaded, power losses, the web thread's changes | `MCSettings` | `WebProofs` |
| `Keys` | key codes, matrix positions, what each source makes of its input | `MCConsole` | `ConsoleProofs` |
| `Console` (extends `Keys`) | the main thread between inputs, menus and the program | `MCConsole` | `ConsoleProofs` |
| `BtHost` | Bluetooth host and HID devices, as functions of their state | `MCBluetooth` | `BluetoothProofs` |
| `Bluetooth` (extends `BtHost`) | the host at work: main loop, controller's task, controller and devices | `MCBluetooth` | `BluetoothProofs`, `SdpQueryProofs` |
| `Alu` | arithmetic and flags of the Z80 | `MCZ80` | |
| `Z80Main` (extends `Alu`) | main table of instructions, with and without IX and IY | `MCZ80` | |
| `Z80` (extends `Z80Main`) | the tables CB and ED, the processor as a whole | `MCZ80` | |
| `Z80Programs` (extends `Z80`) | small programs and what they must leave | `MCZ80` | |

### Crtc

Every OUT instruction to the display is one action (`Cmd`, `Data`, `Mode`,
`DmacCmd`, `DmacCh2`); it runs in the Z80 thread to its end. Variables bear the
names of the structure members of `pc-8001.h`. `attrchg` are the marks of
lines, `fnc` the drawing function, `convfunc` the attribute converter.
`_n80_text_vis` is a set of those who hide the text. `_dmaact` is written
and never read, and left out. The properties: drawing function and converter
agree with the mode registers (`ModesAgree`; the power-on value of the screen
mode is named as the exception it is); the parameter counter stays within
the parameters of the waiting command, so that its wrap at 2^16 is harmless
(`CountIsParameter`); the window is that of the address sent last as a whole, so
that half an address never shows and halves of two are never put together
(`DmaWindow`); the cursor leaves no ghost (`NoGhostCursor`); a mode change marks
all lines (`ModeChangeMarksAll`).

`DmaWindow` needs to know what was sent, which the code forgets: the history
variable `dma_sent` holds the bytes sent for the address from the last complete
pair on, counted from power on. The window follows from it alone, also while
the flip-flop waits for a high byte.

`NoGhostCursor` does not ask for a mark when a cursor that was disabled appears:
`_n80_cursor_enable` makes none, and a cursor enabled on a line that is not
marked otherwise shows at its next blink.

### Vrtc

One pass of `z80_thread_func` is three actions: the step or a slice of the
penalty (`CpuStep`, `DmaWait`, `Suspended`, `CpuHalt`), `Blanking`, `Pace`.
Between them others suspend, resume and serve the request for a frame. `elapsed`
is a history variable: clocks since the blanking interval began.
The assumptions say that a CPU step and the DMA's clocks fit in a line (67 and
20 or the longest instruction, against 250): they are what keeps `_penarty`,
which `blanking` assigns and does not add to, from being lost.

### Calendar, Pcg, Tape and Devices

`Devices` (`DevicesSpec`) is the program's side of the bus: an OUT goes to the device its port
names (`iowrite`), an IN that changes anything reads the tape (`ioread`), and
`selectCMTFile` puts in another tape with the Z80 thread asleep. The devices
share nothing, so a behaviour works with one of them (`uses`); interleaving them
would multiply states and show nothing more, and `DispatchImplementsCrtc` proves
that the dispatch adds nothing to the display.

`Calendar` keeps, as history, the bits the register held when the time was read
and those shifted in since (`tape`), and counts falling clock edges
(`falls`). `TimeShiftedOut` says that the register is the window of that tape
that starts at the falls: an edge missed, or seen twice, moves it. The
code follows the clock in `_cclk` also while the register holds, by an early
return; that is what the mutant takes away.

`Pcg` keeps the counter as the i8253 has loaded it (`counter`). `FreqOfOneLoad`:
the frequency never comes from halves of two loads, whatever mode words are
written between. Mode 1 (low half only) never updates the frequency, and the
latch command sets mode 0; both are the code's way and not errors of a load.

`Tape`: what is read is the tape inside, in order and round and round. An empty
tape plays the first byte of the tape before, which the property leaves out; a
tape longer than the buffer of 32 KB is not cut off by the code and not
modelled.

### Screen and Refresh

`Refresh` takes `reflesh_screen` apart into the steps between which the other
thread can run: entering and leaving `vram_sync`, copying text and attributes,
the two halves of the evaluation and its end, drawing, pushing, taking back the
request. The program's changes are taken apart alike: each mark is a critical
section of its own, and what is assigned before and after the marks is kept
apart (`Change`). What lines are drawn with is one record `env` (mode, cursor
row, enabled, blink). A line's attributes are abstracted to the last
colour and function they set, which is what the next line inherits; `fbWith`
records what a line was drawn with.

Left out: the column of the cursor (see `Crtc`), the window's address (taken as
0xf300, so that memory lines are screen lines), `suspendMachine` (see
`Machine`). The mode is read once by each half of the evaluation.
The M5 variant clears the frame buffer before each frame (`fb.cpp:443`): that
lines never marked stay black, and that marks are never taken back, is the
code's way. The Atom variant does not clear it.

`WholeLines` is the refinement: the abstract frame is the buffer, with the line
being drawn replaced by its copy once that is complete (`FrameLines`). `Converges`
is eventual consistency.

### Machine

The clock (`Tick`) stops for no one: a pass of the Z80 loop lasts at most
`PassMax`, a frame at most `FrameMax`, and a sleep ends no earlier than asked.
`MachineAssumption` says the sleeps are longer. These are figures the code
relies on (a pass sleeps 10 ms at most, a frame is made 20 times a second;
the sleeps are 100 ms and 1 s) and nowhere checks. A suspended or idle
thread's naps are stuttering. `fresh` says that an entry point was set by a
load and the CPU has not run since.

### Attrib and Drawing

`Refresh` abstracts a line to what it carries; here is the line itself. `Attrib`
gives `_n80_attr_cache` (the columns sorted by insertion, repeated ones once, each
paired with the attribute at its place), `_movcolor`, `_movattr` and the
converters; bytes are sets of bits. The loop over the columns is a recursive function
(`Sorted`), and so is the one over the pairs, each of which writes to the cells from its
column on (`Spread`, of which `movcolor` and `movattr` are two uses);
`CellsRight` compares them with a definition per cell that goes to the memory directly
and knows nothing of sorting.

`Drawing` draws: the M5 in runs of one colour, packed into a bitmap, two
characters to a byte with 80 columns; the Atom cell by cell, each row blackened
first and, with 40 columns, widened. `LineShown` says pixel by pixel what must be
lit. Two departures are named in it: the M5 with 80 columns and 25 lines asks for
row 9 of rows 0 to 7 and shows no underline (`fb.cpp:412`), and a cursor column
past the line turns bits of `_textcach`, which follows `_eval_attr` in memory
(`attrib.c:219`). The search for the end of a run looks one cell past the line;
what it finds is of no consequence. In colour mode a line without any colour
attribute is black, which the reference definition says too.

### Settings

`saveConfig` removes the file and writes it anew, line by line, from settings the
web thread may be changing (`setWiFi` sets network and password one after the
other and then asks for the end). A power loss leaves some beginning of the file.
`SavedWhole`: at the end the file has every setting; it needs the join of the web
thread before the last save. `NeverMixed`: network and password loaded were set
together, or the password is missing. The exception is a save that ran between
the two assignments and no later save: it is named (`torn`). Passwords are
ASCII: `%x` writes as few digits as a byte needs, which is two only because
`xorKey` sets the high bit. A start without a font ends before loading and saves
empty settings over the old ones; `Boot` has it, and `SavedWhole` does not
complain, because it speaks of settings in memory.

### Keys and Console

`Keys` translates: `keyInput`, `checkJoyPad` and `keyboard` return the sequence of
key operations they carry out. `Console` is the main thread: it takes one input,
carries out its operations one by one, and the program may scan the matrix
between any two of them. Histories keep what each source was last seen to hold
(`sample`, `report`) and what is being typed. `NothingStuck` and `HeldIsDown`
relate the matrix to them, over any mixture of sources and with the cursor keys'
mode changed in between; `TypedRight` looks between the operations. TAB maps
past the table of 80 entries (`key.c:133`); what lies there is not known, and a
press may turn any key of the first row (`Stray`). A lone ESC types what `read`
gives at the end of input, which presses SHIFT and lets it go.

Menus suspend the machine. That the delay outlasts a pass of the Z80 thread is
the subject of `Machine` and a guard here (`Settled`); with it, `ImageOfMoment` says
that a saved image and the stack pointer at its end belong together. The image
has no program counter: `saveN80Image` writes RET and SP only.
`SelectionShown`: the list shows the selected entry. The M5's list leaves out the
last file (`main.cpp:1301`), which is named.

The kana key toggles its lock with every report that begins with it, also when it
is only held; such a report leaves the other keys as they are, and
`NothingStuck` does not judge it. Left out: sorting of names, the cut at `MAX_FILES`.

### Mailbox

Each access to `webCommand` and `webCommandParam` is a step. `Order` is the
order of assignments in the handlers. `said` and `typed` are histories. The
constant `Patient` says that the user waits for the effect of one request
before the next. The specification is called `MailboxSpec`, and its parts
alike, since `WebProofs` extends `Settings` too.

### BtHost and Bluetooth

HCI, L2CAP and the HID devices call each other up and down on the main thread:
a disconnection makes the host delete channels, their destructors call the
device, which closes channels. `BtHost` keeps all their state in one record
`h`, and each function of the code is an operator from `h` to the next `h`; a
call is the application of one operator to the result of another. `Bluetooth`
is the machine around it. The main loop sends (`SendOne`, `Refused`), handles
(`HandleOne`) and fetches (`Fetch`); the controller's task puts packets into
`_rx`, which drops them when it is full (`Post`). A channel records, as history,
the signals that named it (`got`); the code notes them per device (`seen`).

Controller and devices are not in the repository. They are modelled as the
code uses them: each command is answered once and in any order with others,
pages and accepted requests may fail, a device answers signals in order, and by
itself asks for a connection, opens and closes channels, reports, or is lost
with what it had under way. A link that a device made while it was being paged
makes the page fail. All that goes wrong, and all a device does by itself but
reports, is counted against `Trouble`, the bound.

`IdsNameOwnChannels`: devices keep ids of channels that others close, and ids
are only safe because none is given twice. `SlotsHeld`: no Wii slot is lost or
shared. `SdpQueriesOpenChannel`: as long as nothing goes wrong, the SDP
query waits for both configurations. `HostTracksLink`
says what the host believes of links, and names the two cases in which it is
wrong: a packet lost to a full queue, and a page that ended after the device
had connected by itself (`connection_complete` then sets the handle to -1).
`Connects`: a device found by the inquiry gets its interrupt channel.

Left out: reassembly of fragments, roles, transaction ids, names, contents of
SDP records and Wii reports.

### Alu, Z80Main, Z80 and Z80Programs

A step of the processor is one instruction. The tables of 256 cases are regular
in the three fields of the opcode, and an action stands for a group of entries
(`LoadByte` for the 63 of LD r,r', `Arithmetic` for the 64 that follow). `reg` maps
the names of `R8` to bytes, pairs are two of them; `halt` has the codes
`_Z80HALT_76`, `_IL`, `_UI`. `Alu` gives the microcode of `z80mac.h` as functions
from operands and flags to result and flags. Memory is that of `memory.c`: stores
below 0x8000 are ignored. A read from a port may give any byte of `PortBytes`,
LD A,R any of `RandomBytes`, since `reset` fills that table at random.

The tables are modelled as they are: DD 29 adds HL to IX; RLD and RRD compute
their flags and drop them; SBC HL leaves N clear; CPI and CPD take bits 3 and 5
from the difference less the half carry; INI and the other block instructions of
the ports stop the processor.

The properties are about programs, since what can be wrong in a table is how its
entries work together. `Z80Programs` puts a program at address 0, runs it from
reset to HALT and says what it must leave: products and quotients of loops over
shifts and carries, a 16-bit difference by bytes and by words with the same flags,
decimal differences, and decimal sums whose low digits do not carry
(`ArithmeticRight`); copies that overlap and reach down into the ROM, searches,
subroutines that save all registers on a stack that crosses address 0, indexed
and bit instructions, digits, ports, the exchange with the stack, unknown
instructions (`MemoryRight`). `ProgramsEnd` says that every loop comes to its end; it
assumes that the Z80 thread goes on stepping.

Left out: the clocks of an instruction (`Vrtc` takes any), interrupts, which
nothing raises, and the mnemonics.

## What the runs show

| run | instance | shows |
|---|---|---|
| `devices` | 3 lines, one byte of every kind a command, a parameter, a mode, an address tells apart, counter of 6; register of 4 bits, 2 times, every command and edge; modes of three timers; 4 tapes of up to 3 bytes, 7 reads | display, calendar, timer and tape behind the dispatch |
| `vrtc` | 2 scan lines of 9 clocks, DMA 5, slices 2, steps of 1 and 4, blink every 2 frames | `NoPenaltyLost`, `FrameTiming`, `NoGhostCursor`, `FramesGoOn` |
| `refresh` | 2 lines, 2 texts, 2 attribute settings, 2 modes, 2 changes | `SnapshotWhole`, `WholeLines`, `Converges` |
| `machine` | pass and frame 1 tick, sleeps 2 and 3 | `LoadAlone`, `PanelAlone`, `NeverStuckSuspended`, `LoadedProgramRuns`, `PictureComesBack`, `ExitSaves` |
| `mailbox` | 3 arguments, patient user | `SentWhole`, `CommandsDone` |
| `mailbox_done` | 3 arguments, impatient user | a finding: done that is never done |
| `bluetooth` | 1 device, with and without a link key, queues of 2, 6 and 1, 1 Wii slot, trouble twice | all properties of `Bluetooth` |
| `z80` | 13 programs over edge bytes, edge words and decimal pairs | `ArithmeticRight`, `MemoryRight`, `ProgramsEnd` |
| `keys` | 8 typed inputs, 4 keys of the I2C keyboard, 7 samples, 10 reports, lists of 5 files in 3 rows | `NothingStuck`, `HeldIsDown`, `TypedRight`, `ImageOfMoment`, `SelectionShown` |
| `arrow` | the same | a finding: down that becomes up |
| `lines` | 4 cells, 3 attribute pairs in any order, 2 rows of a character, 8 settings | `CellsRight`, `CarryIsLastCell`, `LineShown` |
| `settings` | 3 networks, 3 passwords, 2 files, preferences or none, 3 changes, any number of power losses | `SavedWhole`, `NeverMixed` |

Bounds. `devices` is complete for its bytes: three lines tell on-screen, last and
off-screen rows apart, and the counter wraps after 6 so that the wrap is
reached; five bits are shifted through the calendar's register of four. The steps of `vrtc` meet ends of lines exactly, by one and by more;
all quantities are small but in the order of the real ones. Two lines in
`refresh` are the first that carry to each other, two changes the first that
interleave with each other and with a frame; `MaxOps` bounds them. `machine` has
no bound but its clock. In `mailbox` three arguments allow one request
executed, one posted and one more; a command that was typed in is not sent
again. In `bluetooth` two troubles allow a loss of link and a reconnection,
or a loss of link and of a packet, at every point of a connection, and 11
channel ids suffice for all that follows. With
one device the properties that compare devices say what one device's past can
do to its present. Two devices are not among the runs, and `Connects` would
not hold for them: `HIDSource::get` returns the first report it finds, so a
device that reports in every round keeps the SDP answer of one that comes
after it waiting.

In `z80` operands lie at and beside the places where carries, half carries, signs
and overflows change; decimal pairs have every low digit and the high digits
0, 1, 4, 5, 8 and 9. `keys` has no bound but its inputs: of
each table an entry of every kind, at the limits of the joypad's ranges and on
both sides; the program's state is a moment counted round by 3. `lines` has four
cells, the fewest with an odd run and two more runs, columns before, at and past
the end, and every pairing of five attributes, which together have every bit.
`settings` allows three changes: one before a save, one while it runs, one after
it. Every branch of every action fires.

Deadlock is checked except where the system may stop: in `refresh` a HALT
without a frame asked for leaves the display thread napping, in `mailbox` the
user need not send another request, in `z80` the processor halts, in `lines`
the line is drawn; the violation runs look for one
violation only.

Fairness. Threads are scheduled by the operating system: weak fairness of
each thread's steps. `refresh` needs strong fairness of the program's
side for the mutex (a waiter gets it in the end) and weak fairness of blanking
intervals, which `FramesGoOn` provides. `vrtc` and `machine` assume that a
suspended machine is resumed (in `machine` this follows from the main thread's
fairness) and, by strong fairness of the first pass, blanking interval and
frame, that nobody presses a button in every gap for ever. No user and no
program need do anything. In `bluetooth` the main loop goes on, the
controller takes packets and answers what it owes, and what a device said
arrives; a device need not do anything by itself.

## What the findings are

* `CommandsDone`: the page says "Done" when the command is in the mailbox;
  `processWebCommand` empties the mailbox after executing what it took, and a
  command that came meanwhile is gone.
* `ArrowShifted`: cursor down and left are up and right with SHIFT, says the
  comment in `keyboard` (`main.cpp:1264` of the Atom). SHIFT is released by the
  next report that lacks it, while the key, equal to `_last_key`, stays down.

Met while modelling, modelled as they are, and named as exceptions where a
property touches them:

* `_n80_reset_crtc` sets 25 lines but leaves the screen mode 0, which
  `pc-8001.h:99` lists as 40 columns by 20 lines; a program that then formats 25
  lines keeps the 20-line drawing function (`ModesAgree`).
* `check_open` "waits until connection is completely open" (`hci_server.cpp:563`),
  but notes the signals per device: after the SDP channel's handshake, control
  and interrupt channel are open at the first configuration signal that names
  them.
* DAA (`Z80OP1A.c:120`) corrects the two digits apart and puts them together by
  `|`: 15 + 27 gives 32; 95 + 5 sets no carry.
* `case 0xE3` of `Z80OP2B.c` has no break: EX (SP),IX exchanges and stops
  the Z80 thread.
* What the sections above say of the underline, the cursor past the line, the
  M5's last file, TAB, the empty tape, the image without a program counter and
  the start without a font.

## What is proved

All theorems are stated in the `*Proofs` modules and hold for every value of
the constants that meets the assumptions.

* `DevicesProofs`, first part: the properties of `Crtc` are inductive with the
  types, but for `DmaWindow` and the two action properties. The latter follow
  from the types and the shape of each handler. `DmaWindow` is not inductive:
  `DmaInv` adds that the flip-flop is the parity of the bytes sent, and that the
  low byte kept is the one that waits for its high byte. Second part:
  `TimeInvariant` of `Vrtc`. `NoPenaltyLost` and `FrameTiming` are not
  inductive. The invariant relates the clocks of the line, the penalty
  outstanding and the place in the pass (a line that still has a penalty to
  serve is young enough), and `elapsed` to lines and clocks.
* `DevicesProofs`, third part: `DispatchImplementsCrtc` shows that each step of
  `Devices` is a step of the display or leaves it alone, and `DisplayFollows`
  carries the theorems of the first part over. `CalendarCorrect`, `TimerCorrect` and `TapeCorrect` have
  inductive invariants of their own: the copy of the clock bit is that bit as
  it was written last; the turn of the halves and the low half are those of the
  load under way; the buffer begins with the tape inside (a longer tape before
  it may show behind), and the index stands at the number of reads modulo the
  tape's length.
* `RefreshProofs`: `RefreshInvariant` says who is inside the mutex, that a
  copy under it equals memory, which lines of the frame are drawn and that
  marks never go. `DisplayRefinesScreen` maps each step to a step of `Screen`
  or a stutter.
* `MachineProofs`: `SleepAccount`. That the sleep is over says nothing of the
  other threads unless one knows how long it was; the invariant keeps the
  account: a pass or frame under way is at least as old as the part of the
  sleep already slept, since none has begun after the suspension.
* `WebProofs`, first part: `Stages` says where both threads can be at each stage of a
  request; it needs the order in which `sendCommand` sets its two variables.
* `ConsoleProofs`, for any samples, reports and typed codes and lists of any
  length. `NothingStuck` and `HeldIsDown` speak of the moment when no key
  operation is under way; `KeysInv` speaks of `Coming`, the keys that will be down
  once those under way are done, which carrying one out does not change, and
  adds what the flags say (a button is noted as pushed as it was sampled,
  `_last_key` is a key of the last report or none). `TypedRight` looks
  between the operations: `TypingInv` names where in a character's operations the
  main thread is, and needs that a character typed with SHIFT has no key of the
  ten-key pad or of the first row. `ImageOfMoment` needs that the Z80 thread
  sleeps in every menu and saving, `SelectionShown` that the window of the
  list follows the selection.
* `WebProofs`, second part, for any networks, passwords, files and number of
  changes of the settings. `PasswordComesBack`: what is written of a password and read again is the
  password. `SavedInv` says what each line of the file being written is worth;
  network and password need to be right there only if no change can come
  any more. `PairsInv` follows a pair through memory, the save and the card.
  A power loss at any place in a line is covered by `EarlyEnd`.
* `DrawingProofs`, for lines of any number of cells and pairs, any font, text,
  attributes, carry and setting (the run has four cells and three pairs). The
  operators come first: `SortedRight` (the columns ascend, each once, and are
  those of the memory), `SpreadRight` (the last pair to reach a cell decides,
  which needs that a mask takes away what the pairs before gave), `AttrRight` and
  `CarriedRight`, which meet the reference definition; `WideBitmap` and
  `NarrowBitmap` find each pixel's bit in the bytes of a run, two characters to a
  byte with the last of an odd run alone, `CellBits` in the row of a cell. They
  are recursive functions and no RECURSIVE operators; a claim about all their
  arguments is shown by the least argument for which it fails. `DrawingInv`
  then says that the cells are right once evaluated and, for `LineShown`, that the
  pixels left of `Edge`, where the next cell goes, are those of the line; on
  the M5 there are none right of it, on the Atom what was there before. The
  cursor past the line is excepted as in the property. `DrawingAssumption` asks for
  no more than types.
* `BluetoothProofs`, for every set of devices and of Wii slots, any number of
  channels, every size of the queues and any amount of trouble (the run has one
  device and trouble twice). `BluetoothInv` has two halves. `Good` is about the host alone:
  its types, that ids in use are below the next one given (`IdsNameOwnChannels`
  is not inductive without it: a new channel would be anybody's), and that the
  slots taken are those devices have. Each operator from `h` to `h` has a lemma
  that it keeps `Good` and what it may do to the handles; as a handler is one
  operator applied to another, so are the lemmas. Those that go through channels
  or devices one after the other (`Accepted`, `InquiryDone`, `Get`) are recursive
  functions of the number done so far; that each value is good is shown by the
  smallest number for which it is not. `Follows` is for
  `HostTracksLink`, which speaks of an empty queue only: while packets wait in
  `_rx`, the last one that tells of a device tells the truth of its link, and
  where none does the host has it right; so handling the first packet, losing
  none and adding one all keep it. The two cases the property names, `lost` and
  `crossed`, are the two steps that break it.
* `SdpQueryProofs`, under the same assumptions: `SdpQueriesOpenChannel`.
  `check_open` takes whatever a device has sent of the handshake, on any of its
  channels, for the channel at hand. That is right for the SDP channel as long as
  nothing goes wrong, because the device has then no other channel and nothing
  of an earlier one is under way. `QuietInv` says this of every device, in
  two phases, until its query is over and after: it is paged once and asked for
  its name once (the command in `_tx`, what the controller owes and the answer
  in `_rx` are never there together); until the query is over it has at most the
  SDP channel, and all signals of the device, in `_tx`, owed, in `_rx` and on the air,
  are of that channel; what has been seen of the device came for it. Nearly
  every operator of the host spares the query of a device (`Spares`), and since
  `Spares` composes, a handler's lemma follows from those of its operators; the
  operators that page, ask the name, open the channel or end the query have
  lemmas of their own. What holds after trouble is not said: the property says
  nothing there either, and with control and interrupt channels beside it, one
  channel's signals do count for another (see above).

Only model-checked: everything under fairness (`FramesGoOn`, `Converges`,
`LoadedProgramRuns`, `PictureComesBack`, `ExitSaves`, `CommandsDone`,
`Connects`, `ProgramsEnd`), which is out of the prover's reach;
and the Z80, `ArithmeticRight` and `MemoryRight`, whose flags need the bitwise
operators, which are recursive.

## What is not modelled, and the plan

To prove: nothing of the safety properties the runs check is left but the Z80's.

To model:

1. The DMA window away from 0xf300: marks are made relative to 0xf300, copies
   relative to the window.
2. Two Bluetooth devices under a fair `get`; reassembly of fragments; keys left
   down when the link of the keyboard is lost (nothing in the code releases
   them).
3. Start-up: ROM files and their sizes, `init_font`.

Not modelled, and not planned: the graphics library and the transfer of frames to
the panel, HTML pages, file lists beyond `MAX_FILES` (they run past their array),
the inside of the web server, which `stopWebServer` may stop while it handles a
client, the port the beeper shares with the calendar, and sound, which is commented
out in the code.
