-------------------------------- MODULE Keys --------------------------------
(***************************************************************************)
(* The keyboard of the PC-8001 as the sources of keys see it: a matrix of  *)
(* ten rows of eight keys (n80device.keys, a bit is 0 while its key is     *)
(* down), and what characters of a terminal, codes of an I2C keyboard,     *)
(* samples of a joypad and reports of a Bluetooth keyboard press and       *)
(* release in it.                                                          *)
(*                                                                         *)
(* A key is a position, row times eight plus bit. Each source yields a     *)
(* sequence of operations: the main thread carries them out one by one,    *)
(* with delays, while the program reads the rows.                          *)
(***************************************************************************)
EXTENDS Integers, Sequences

Positions == 0..79   \* rows 0 to 9

NoKey == \hFF        \* the code has no key

\* Keys of the matrix named in the code.
SHIFT == \h46
CTRL == \h47
GRAPH == \h44
KANA == \h45
SPACE == \h4E
RETURN == \h0F

\* Codes of keys that are no characters.
KEY_SHIFT == \hFF
KEY_CTRL == \hFC
KEY_GRAPH == \hFB
KEY_TENKEY_0 == \hF0
KEY_KANA == \h87     \* these three are codes of Bluetooth keyboards
KEY_DOWN == \h51
KEY_LEFT == \h50

\* The tables and switches of the code as sets of pairs <<code, value>>.
Listed(code, table) == \E k \in table : k[1] = code
Entry(code, table) == (CHOOSE k \in table : k[1] = code)[2]
-----------------------------------------------------------------------------
(* Characters *)

\* Characters that are neither digits nor letters, and the named keys.
OtherKeys ==
  {<<\h0D, RETURN>>, <<\h12, \h41>>, <<\h13, \h42>>, <<\h15, \h40>>,
   <<\h17, \h43>>, <<\h1A, \h48>>, <<\h20, SPACE>>, <<\h09, \h50>>,
   <<\h2D, \h2F>>, <<\h5E, \h2E>>, <<\h40, \h10>>, <<\h5B, \h2B>>,
   <<\h5D, \h2D>>, <<\h3B, \h3B>>, <<\h3A, \h3A>>, <<\h2C, \h3C>>,
   <<\h2E, \h3D>>, <<\h2F, \h3E>>, <<\h7C, \h2C>>, <<KEY_SHIFT, SHIFT>>,
   <<KEY_CTRL, CTRL>>, <<KEY_GRAPH, GRAPH>>}

\* The position of a character: TAB's is 80, past the matrix.
convert_key(code) ==
  IF code \in \h30..\h39 THEN code
  ELSE IF code \in \h61..\h7A THEN code - \h50
  ELSE IF code \in \hF0..\hF9 THEN code - \hF0
  ELSE IF Listed(code, OtherKeys) THEN Entry(code, OtherKeys)
  ELSE NoKey

ShiftedKeys ==
  {<<\h3D, \h2D>>, <<\h7E, \h5E>>, <<\h60, \h40>>, <<\h7B, \h5B>>,
   <<\h7D, \h5D>>, <<\h2B, \h3B>>, <<\h2A, \h3A>>, <<\h3C, \h2C>>,
   <<\h3E, \h2E>>, <<\h3F, \h2F>>, <<\h11, \h12>>, <<\h14, \h13>>,
   <<\h18, \h17>>}

\* The character whose key gives this one with SHIFT, 0 if it needs none.
check_shift(code) ==
  IF code \in \h41..\h5A THEN code + \h20
  ELSE IF code \in \h21..\h29 THEN code + \h10
  ELSE IF Listed(code, ShiftedKeys) THEN Entry(code, ShiftedKeys)
  ELSE 0

\* onkey_down and onkey_up. The code of the [Fn] key, '=', never comes here:
\* check_shift makes '-' of it.
Down(code) == [down |-> TRUE, at |-> convert_key(code)]
Up(code) == [down |-> FALSE, at |-> convert_key(code)]

\* Mutant: the key is released after SHIFT.
keyInputLate(code) ==
  IF code = 2
  THEN <<Down(KEY_CTRL), Down(code + \h60), Up(code + \h60), Up(KEY_CTRL)>>
  ELSE IF check_shift(code) # 0
  THEN LET base == check_shift(code)
       IN <<Down(KEY_SHIFT), Down(base), Up(KEY_SHIFT), Up(base)>>
  ELSE <<Down(code), Up(code)>>

\* One character typed: CTRL+B is the one control character it knows.
keyInput(code) ==
  IF code = 2
  THEN <<Down(KEY_CTRL), Down(code + \h60), Up(code + \h60), Up(KEY_CTRL)>>
  ELSE IF check_shift(code) # 0
  THEN LET base == check_shift(code)
       IN <<Down(KEY_SHIFT), Down(base), Up(base), Up(KEY_SHIFT)>>
  ELSE <<Down(code), Up(code)>>

\* The keys of the ten-key pad stand for the digits of terminals.
TenKey(digit) == KEY_TENKEY_0 + digit - \h30

\* Escape sequences: the third byte of ESC [ x.
EscapeKeys ==
  {<<65, \h12>>, <<66, \h11>>, <<67, \h13>>, <<68, \h14>>, <<49, \h15>>,
   <<52, \h16>>, <<50, \h18>>}

\* What the bytes waiting on the serial line amount to: one character. A
\* read past the last byte gives -1, 255 as a byte. The rest is thrown away.
SerialCode(bytes) ==
  LET Read(i) == IF i <= Len(bytes) THEN bytes[i] ELSE 255
  IN CASE Read(1) = 27 /\ Read(2) = 91 ->
            IF Listed(Read(3), EscapeKeys) THEN Entry(Read(3), EscapeKeys) ELSE 0
       [] Read(1) = 27 /\ Read(2) # 91 -> Read(2)
       [] Read(1) = 127 -> \h17
       [] Read(1) \in \h30..\h39 -> TenKey(Read(1))
       [] OTHER -> Read(1)

CardKeys ==
  {<<\hB5, \h12>>, <<\hB6, \h11>>, <<\hB7, \h13>>, <<\hB4, \h14>>,
   <<\h99, \h15>>, <<\hA4, \h16>>, <<\h7F, \h18>>, <<\h08, \h17>>,
   <<\h1B, \h1A>>, <<\hAA, \h02>>}

\* A key of the I2C keyboard.
CardCode(byte) ==
  CASE Listed(byte, CardKeys) -> Entry(byte, CardKeys)
    [] byte \in \h30..\h39 -> TenKey(byte)
    [] OTHER -> byte
-----------------------------------------------------------------------------
(* The joypad *)

\* A sample of the joypad: both axes, the stick pressed, buttons A and B.
\* The keys it holds down, in the order the code looks at them, with the
\* conditions under which each is pressed and let go: neither exactly on the
\* limit of an axis. Button A is not among them.
PadKeys(s) ==
  [U |-> [code |-> KEY_TENKEY_0 + 8, on |-> s.x < 80, off |-> s.x > 80],
   D |-> [code |-> KEY_TENKEY_0 + 2, on |-> s.x > 160, off |-> s.x < 160],
   L |-> [code |-> KEY_TENKEY_0 + 4, on |-> s.y < 80, off |-> s.y > 80],
   R |-> [code |-> KEY_TENKEY_0 + 6, on |-> s.y > 160, off |-> s.y < 160],
   B |-> [code |-> KEY_GRAPH, on |-> s.b, off |-> ~s.b],
   Press |-> [code |-> \h0D, on |-> s.press = 1, off |-> s.press = 0]]

PadNames == {"U", "D", "L", "R", "B", "Press"}

\* Mutant: the key of the stick's upper end is never let go.
PadPushedStuck(pushed, s) ==
  {n \in PadNames : IF n \in pushed THEN ~(PadKeys(s)[n].off /\ n # "U")
                                    ELSE PadKeys(s)[n].on}

\* The joyPadPushed flags after a sample.
PadPushed(pushed, s) ==
  {n \in PadNames : IF n \in pushed THEN ~PadKeys(s)[n].off ELSE PadKeys(s)[n].on}

\* What a sample does. Button A types a blank; while it is up and the stick is
\* to the right, the blank is released once more.
checkJoyPad(pushed, s) ==
  LET after == PadPushed(pushed, s)
      Switch(n) == IF n \in after \ pushed THEN <<Down(PadKeys(s)[n].code)>>
                   ELSE IF n \in pushed \ after THEN <<Up(PadKeys(s)[n].code)>>
                   ELSE <<>>
      blank == IF s.a THEN <<Down(\h20), Up(\h20)>>
               ELSE IF "R" \in after THEN <<Up(\h20)>> ELSE <<>>
  IN Switch("U") \o Switch("D") \o Switch("L") \o Switch("R")
       \o blank \o Switch("B") \o Switch("Press")

\* Buttons count from the moment A has been seen down: without a joypad's
\* buttons the pins read A up, B down.
Buttons(enabled, s) == IF enabled THEN s ELSE [s EXCEPT !.a = FALSE, !.b = FALSE]
-----------------------------------------------------------------------------
(* The Bluetooth keyboard *)

HidOthers ==
  {<<\h27, \h30>>, <<\h28, RETURN>>, <<\h29, \h4F>>, <<\h2A, \h43>>,
   <<\h2B, \h50>>, <<\h2C, SPACE>>, <<\h2D, \h2F>>, <<\h2E, \h2E>>,
   <<\h2F, \h10>>, <<\h30, \h2B>>, <<\h31, \h2C>>, <<\h32, \h2D>>,
   <<\h33, \h3B>>, <<\h34, \h3A>>, <<\h35, \h2E>>, <<\h36, \h3C>>,
   <<\h37, \h3D>>, <<\h38, \h3E>>, <<\h49, \h43>>, <<\h4A, \h40>>,
   <<\h4F, \h42>>, <<KEY_LEFT, \h42>>, <<KEY_DOWN, \h41>>, <<\h52, \h41>>,
   <<\h62, \h00>>, <<\h63, \h0E>>, <<\h64, \h70>>, <<KEY_KANA, KANA>>,
   <<\h89, \h2C>>, <<KEY_SHIFT, SHIFT>>, <<KEY_CTRL, CTRL>>,
   <<KEY_GRAPH, GRAPH>>}

\* The position of a key of the Bluetooth keyboard: TAB's is 80 and that of the
\* key beside the left SHIFT (0x64) 112, past the matrix.
hid_to_emu(code) ==
  IF code \in \h04..\h1D THEN code + \h0D
  ELSE IF code \in \h1E..\h26 THEN code + \h13
  ELSE IF code \in \h39..\h3E THEN code + \h0F
  ELSE IF code \in \h59..\h61 THEN code - \h58
  ELSE IF Listed(code, HidOthers) THEN Entry(code, HidOthers)
  ELSE NoKey

HidDown(code) == [down |-> TRUE, at |-> hid_to_emu(code)]
HidUp(code) == [down |-> FALSE, at |-> hid_to_emu(code)]

\* In ten-key mode the cursor keys are 6, 4, 2 and 8 of the ten-key pad.
TenKeys == {<<\h4F, \h5E>>, <<KEY_LEFT, \h5C>>, <<KEY_DOWN, \h5A>>, <<\h52, \h60>>}
ToTenKey(code) == IF Listed(code, TenKeys) THEN Entry(code, TenKeys) ELSE code

Modifiers(mods) ==
  LET Switch(name, code) == IF name \in mods THEN HidDown(code) ELSE HidUp(code)
  IN <<Switch("shift", KEY_SHIFT), Switch("ctrl", KEY_CTRL), Switch("graph", KEY_GRAPH)>>

\* Mutant: the last key is let go after the new one is pressed.
KeyChangeLate(key, last, tenkey) ==
  LET code == IF tenkey THEN ToTenKey(key) ELSE key
  IN (IF code \in {KEY_DOWN, KEY_LEFT} THEN <<HidDown(KEY_SHIFT)>> ELSE <<>>)
     \o (IF code \in 1..165 THEN <<HidDown(code)>> ELSE <<>>)
     \o (IF last \in 1..165 THEN <<HidUp(last)>> ELSE <<>>)

\* The last key is let go and the new one pressed. 165 is within the bounds of
\* the comparison and past the table hid_to_emu: as a code it is reserved and no
\* keyboard sends it.
KeyChange(key, last, tenkey) ==
  LET code == IF tenkey THEN ToTenKey(key) ELSE key
  IN (IF last \in 1..165 THEN <<HidUp(last)>> ELSE <<>>)
     \o (IF code \in {KEY_DOWN, KEY_LEFT} THEN <<HidDown(KEY_SHIFT)>> ELSE <<>>)
     \o (IF code \in 1..165 THEN <<HidDown(code)>> ELSE <<>>)

\* What a report does (its modifiers and its first key) after the last key, with
\* the kana lock and the ten-key mode as they are.
keyboard(mods, key, last, kana, tenkey) ==
  Modifiers(mods) \o
    (IF key = KEY_KANA THEN <<IF kana THEN HidUp(key) ELSE HidDown(key)>>
     ELSE IF key # last THEN KeyChange(key, last, tenkey)
     ELSE <<>>)

\* _last_key after the report: the key as it was pressed, translated.
LastKey(key, last, tenkey) ==
  IF key = KEY_KANA \/ key = last THEN last
  ELSE IF tenkey THEN ToTenKey(key) ELSE key
=============================================================================
