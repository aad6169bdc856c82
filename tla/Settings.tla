------------------------------ MODULE Settings ------------------------------
(***************************************************************************)
(* The settings of the M5 (pc80Config): loaded from a file on the card at  *)
(* the start, changed by the main thread, which saves the file at once,    *)
(* and by the web thread, which ends the program and leaves it to the last *)
(* save. A save removes the file and writes it anew line by line from what *)
(* the settings are by then; the power may fail at any time.               *)
(*                                                                         *)
(* Strings are sequences of bytes. The copy of a string into a setting is  *)
(* taken as one step.                                                      *)
(***************************************************************************)
EXTENDS Integers, Sequences, FiniteSets

CONSTANTS
  Ssids, Passes, Files,   \* what the user may set: strings
  Prefs,                  \* [SSID, PASS] of another program in flash memory
  MaxSets                 \* bound: changes made in a run

\* WPA passphrases are ASCII.
ASSUME SettingsAssumption ==
  /\ \A p \in Passes : p \in Seq(1..127)
  /\ \A p \in Prefs : p.PASS \in Seq(1..127)
  /\ MaxSets \in Nat

Keys == <<"SSID", "PASS", "N80", "CMT">>     \* in the order of the file

VARIABLES
  config,    \* pc80Config
  card,      \* the lines of the file, each [key, val]
  part,      \* a line the file ends in without its end, if any
  out,       \* the lines the save under way has written
  phase,     \* the main thread: "off", "run", "saving", "ended"
  then,      \* what follows the save: "run" or "ended"
  web,       \* the web thread in setWiFi: "idle", "pass", "exit"
  request,   \* the password still to be set
  intFlag,
  prefs,
  sets,      \* changes made
  \* histories
  torn,      \* the save written last ran while the web thread was in setWiFi
  pairs,     \* network and password as they were set together, or loaded
  loaded     \* network and password as loaded last, and whether of a torn save

fileVars == <<card, part, out>>
webVars == <<web, request, intFlag>>
vars == <<config, fileVars, phase, then, webVars, prefs, sets, torn, pairs, loaded>>

Nothing == [SSID |-> << >>, PASS |-> << >>, N80 |-> << >>, CMT |-> << >>]
NoPart == [key |-> "", val |-> << >>]
Pair(c) == <<c.SSID, c.PASS>>

Init ==
  /\ config = Nothing
  /\ card = << >> /\ part = NoPart /\ out = << >>
  /\ phase = "off" /\ then = "run"
  /\ web = "idle" /\ request = << >> /\ intFlag = FALSE
  /\ prefs \in Prefs
  /\ sets = 0
  /\ torn = FALSE /\ pairs = {Pair(Nothing)} /\ loaded = [pair |-> Pair(Nothing), torn |-> FALSE]
-----------------------------------------------------------------------------
(* The file *)

xorKey(b) == (b + 128) % 256    \* ^ 0x80

\* Passwords are written as hexadecimal digits, as few as a byte needs: those
\* before byte i, and all of them.
DigitsBefore(pass, i) ==
  i - 1 + Cardinality({j \in 1..(i - 1) : xorKey(pass[j]) >= 16})

Encoded(pass) ==
  [n \in 1..DigitsBefore(pass, Len(pass) + 1) |->
     LET i == CHOOSE i \in 1..Len(pass) : n \in (DigitsBefore(pass, i) + 1)..DigitsBefore(pass, i + 1)
     IN IF n = DigitsBefore(pass, i + 1) THEN xorKey(pass[i]) % 16 ELSE xorKey(pass[i]) \div 16]

\* They are read two by two; a single last digit is left out.
Decoded(digits) == [i \in 1..(Len(digits) \div 2) |-> xorKey(16 * digits[2 * i - 1] + digits[2 * i])]

Line(key) == [key |-> key, val |-> IF key = "PASS" THEN Encoded(config.PASS) ELSE config[key]]

Value(line) == IF line.key = "PASS" THEN Decoded(line.val) ELSE line.val

\* The settings that lines amount to: of lines with the same key the last one
\* counts, and settings without a line are empty.
Taken(lines) ==
  [key \in DOMAIN Nothing |->
     LET at == {i \in 1..Len(lines) : lines[i].key = key}
     IN IF at = {} THEN << >>
        ELSE Value(lines[CHOOSE i \in at : \A j \in at : j <= i])]

\* Mutant: a line without its end counts.
LoadPart(lines, rest) == Taken(IF rest = NoPart THEN lines ELSE Append(lines, rest))

\* loadConfig: a line counts when its end is read.
Load(lines, rest) == Taken(lines)

\* What another program left in flash memory goes before the file.
Preferred(c) ==
  [c EXCEPT !.SSID = IF prefs.SSID # << >> THEN prefs.SSID ELSE @,
            !.PASS = IF prefs.PASS # << >> THEN prefs.PASS ELSE @]

\* saveConfig begins: the file is removed.
BeginSave(next) ==
  /\ phase' = "saving" /\ then' = next
  /\ card' = << >> /\ part' = NoPart /\ out' = << >>
  /\ torn' = (web = "pass")

\* The next line, of the settings as they are now.
WriteLine ==
  /\ phase = "saving" /\ Len(out) < Len(Keys)
  /\ out' = Append(out, Line(Keys[Len(out) + 1]))
  /\ UNCHANGED <<config, card, part, phase, then, webVars, prefs, sets, torn, pairs, loaded>>

CloseFile ==
  /\ phase = "saving" /\ Len(out) = Len(Keys)
  /\ card' = out /\ out' = << >>
  /\ phase' = then
  /\ UNCHANGED <<config, part, then, webVars, prefs, sets, torn, pairs, loaded>>
-----------------------------------------------------------------------------
(* The main thread *)

\* The start. Without the font the program ends before the settings are loaded,
\* and saves what it has.
Boot ==
  /\ phase = "off"
  /\ \/ /\ config' = Preferred(Load(card, part))
        /\ loaded' = [pair |-> Pair(Load(card, part)), torn |-> torn]
        /\ pairs' = pairs \union {Pair(Preferred(Load(card, part)))}
        /\ phase' = "run"
        /\ UNCHANGED <<fileVars, then, torn>>
     \/ /\ BeginSave("ended")
        /\ UNCHANGED <<config, pairs, loaded>>
  /\ UNCHANGED <<webVars, prefs, sets>>

\* A file chosen in the menu or on the web page: processWebCommand and
\* choseN80File.
ChooseFile ==
  /\ phase = "run" /\ sets < MaxSets
  /\ \E key \in {"N80", "CMT"}, f \in Files : config' = [config EXCEPT ![key] = f]
  /\ sets' = sets + 1
  /\ BeginSave("run")
  /\ UNCHANGED <<webVars, prefs, pairs, loaded>>

\* Mutant: the main thread does not wait for the web thread.
EndWithoutJoin ==
  /\ phase = "run" /\ (intFlag \/ web # "idle")
  /\ BeginSave("ended")
  /\ UNCHANGED <<config, webVars, prefs, sets, pairs, loaded>>

\* The end: the other threads are joined, then the settings are saved.
End ==
  /\ phase = "run" /\ intFlag /\ web = "idle"
  /\ BeginSave("ended")
  /\ UNCHANGED <<config, webVars, prefs, sets, pairs, loaded>>

\* After the end the machine restarts, and memory is empty again.
Off ==
  /\ config' = Nothing
  /\ phase' = "off" /\ then' = "run" /\ out' = << >>
  /\ web' = "idle" /\ request' = << >> /\ intFlag' = FALSE

Restart ==
  /\ phase = "ended"
  /\ Off
  /\ UNCHANGED <<card, part, prefs, sets, torn, pairs, loaded>>

\* The power fails. A file that is being written keeps some of its beginning.
PowerLoss ==
  /\ phase # "off"
  /\ \/ phase # "saving" /\ UNCHANGED <<card, part>>
     \/ /\ phase = "saving"
        /\ \E n \in 0..Len(out) :
             /\ card' = SubSeq(out, 1, n)
             /\ IF n = Len(out) THEN part' = NoPart
                ELSE \E m \in 0..Len(out[n + 1].val) :
                       part' = [key |-> out[n + 1].key, val |-> SubSeq(out[n + 1].val, 1, m)]
  /\ Off
  /\ UNCHANGED <<prefs, sets, torn, pairs, loaded>>
-----------------------------------------------------------------------------
(* The web thread: setWiFi, and deleteWiFi, which sets empty strings *)

Threads == phase = "run" \/ (phase = "saving" /\ then = "run")

SetSsid ==
  /\ Threads /\ web = "idle" /\ ~intFlag /\ sets < MaxSets
  /\ \E s \in Ssids, p \in Passes :
       /\ config' = [config EXCEPT !.SSID = s]
       /\ request' = p
  /\ web' = "pass"
  /\ sets' = sets + 1
  /\ torn' = (torn \/ phase = "saving")
  /\ UNCHANGED <<fileVars, phase, then, intFlag, prefs, pairs, loaded>>

SetPass ==
  /\ web = "pass"
  /\ config' = [config EXCEPT !.PASS = request]
  /\ web' = "exit"
  /\ torn' = (torn \/ phase = "saving")
  /\ pairs' = pairs \union {<<config.SSID, request>>}
  /\ UNCHANGED <<fileVars, phase, then, request, intFlag, prefs, sets, loaded>>

\* pc80_exit
Exit ==
  /\ web = "exit"
  /\ intFlag' = TRUE
  /\ web' = "idle"
  /\ UNCHANGED <<config, fileVars, phase, then, request, prefs, sets, torn, pairs, loaded>>

Next ==
  \/ Boot \/ ChooseFile \/ End \/ Restart \/ PowerLoss
  \/ WriteLine \/ CloseFile
  \/ SetSsid \/ SetPass \/ Exit

Spec == Init /\ [][Next]_vars
-----------------------------------------------------------------------------
(* Properties *)

(***************************************************************************)
(* Nothing set is left unsaved. While the program runs and saves nothing,  *)
(* the file has the chosen files as they are; when it has ended, it has    *)
(* every setting, also those the web thread set during an earlier save,    *)
(* and a password comes back from its digits as it was (saveConfig,        *)
(* loadConfig, xorEnc).                                                    *)
(***************************************************************************)
SavedWhole ==
  /\ phase = "run" => /\ Load(card, part).N80 = config.N80
                      /\ Load(card, part).CMT = config.CMT
  /\ phase = "ended" => Load(card, part) = config

(***************************************************************************)
(* Network and password loaded belong together: they were set together,    *)
(* or the password is missing because the power failed between the two     *)
(* lines of a save, or both are. Half a password is never loaded. A save   *)
(* that ran while the web thread was between the two is excepted, and is   *)
(* made good by the save at the end unless the power fails.                *)
(***************************************************************************)
NeverMixed ==
  \/ loaded.torn
  \/ loaded.pair \in pairs
  \/ loaded.pair[2] = << >> /\ \E p \in pairs : p[1] = loaded.pair[1]
=============================================================================
