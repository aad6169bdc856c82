----------------------------- MODULE WebProofs -----------------------------
(***************************************************************************)
(* What the web thread leaves to the main thread: commands in the mailbox  *)
(* and settings for the file, each with its own specification, as either   *)
(* part is about other variables.                                          *)
(*                                                                         *)
(* Mailbox: with a patient user a command is typed in as it was sent,      *)
(* however the two threads interleave. The invariant says where both       *)
(* threads can be at each stage of a sendCommand request; it needs the     *)
(* order of the two assignments in the handler.                            *)
(*                                                                         *)
(* Settings: for every network, password, file and number of changes       *)
(* nothing set is left unsaved, and what is loaded belongs together. The   *)
(* file on the card and the one being written are beginnings of the same   *)
(* four lines. The invariants say of either what each of its lines is      *)
(* worth: the settings as they are, for what no other thread may change    *)
(* meanwhile, and for a save the web thread did not disturb, a network and *)
(* a password that were set together.                                      *)
(***************************************************************************)
EXTENDS Mailbox, Settings, FiniteSetTheorems, TLAPS

-----------------------------------------------------------------------------
(* Mailbox *)

\* While the handler has yet to set the command, the main thread finds none.
Preparing ==
  /\ wpc = "command" \/ (wpc = "param" /\ req = "send") => mpc = "poll" /\ webCommand = "none"
  /\ wpc = "command" /\ req = "send" => webCommandParam = arg

\* Once it has, its argument stays until the command has been executed.
Posted ==
  webCommand = "send" =>
    /\ req = "send" /\ wpc \in {"say", "idle"}
    /\ mpc \in {"poll", "execute"} => webCommandParam = arg

\* The command under execution is still in the mailbox.
Executing == mpc = "execute" /\ job = "send" => webCommand = "send"

\* No other command comes while the argument is about to be emptied.
Emptying == mpc = "clearParam" => webCommand = "none"

\* A request has an argument of its own.
Requested == wpc # "idle" => arg \in Args

MailboxInv ==
  /\ MailboxTypeOK /\ Requested
  /\ Patient => Preparing /\ Posted /\ Executing /\ Emptying

LEMMA TypeStep ==
  ASSUME MailboxTypeOK, Requested, [MailboxNext]_mailboxVars
  PROVE  MailboxTypeOK' /\ Requested'
<1> USE DEF MailboxTypeOK, Commands, Requested
<1>1. CASE Requests
  BY <1>1 DEF Requests, Request, Unused, Order, mailVars, mainVars
<1>2. CASE PostCommand
  BY <1>2 DEF PostCommand, Order, mainVars
<1>3. CASE PostParam
  BY <1>3 DEF PostParam, Order, mainVars
<1>4. CASE SayDone
  BY <1>4 DEF SayDone, mailVars, mainVars
<1>5. CASE Main
  BY <1>5 DEF Main, Take, Type, LoadFile, Reply, ClearCommand, ClearParam, mailVars, handlerVars
<1>6. CASE UNCHANGED mailboxVars
  BY <1>6 DEF mailboxVars, mailVars, handlerVars, mainVars
<1> QED BY <1>1, <1>2, <1>3, <1>4, <1>5, <1>6 DEF MailboxNext, Web

\* The stages of a request, one after the other.
LEMMA StageStep ==
  ASSUME MailboxInv, Patient, [MailboxNext]_mailboxVars
  PROVE  Preparing' /\ Posted' /\ Executing' /\ Emptying'
<1> USE DEF MailboxInv, MailboxTypeOK, Commands, Preparing, Posted, Executing, Emptying
<1>1. CASE Requests
  <2>1. webCommand = "none" /\ mpc = "poll"
    BY <1>1 DEF Requests, Request, Empty
  <2> QED BY <1>1, <2>1 DEF Requests, Request, Order, mailVars, mainVars
<1>2. CASE PostCommand
  BY <1>2 DEF PostCommand, Order, mainVars
<1>3. CASE PostParam
  BY <1>3 DEF PostParam, Order, mainVars
<1>4. CASE SayDone
  BY <1>4 DEF SayDone, mailVars, mainVars
<1>5. CASE Take
  BY <1>5 DEF Take, mailVars, handlerVars
<1>6. CASE Type \/ LoadFile \/ Reply
  BY <1>6 DEF Type, LoadFile, Reply, mailVars, handlerVars
<1>7. CASE ClearCommand \/ ClearParam
  BY <1>7 DEF ClearCommand, ClearParam, handlerVars
<1>8. CASE UNCHANGED mailboxVars
  BY <1>8 DEF mailboxVars, mailVars, handlerVars, mainVars
<1> QED BY <1>1, <1>2, <1>3, <1>4, <1>5, <1>6, <1>7, <1>8 DEF MailboxNext, Web, Main

(***************************************************************************)
(* The stages of a request hold of every run.                              *)
(***************************************************************************)
THEOREM Stages == MailboxSpec => []MailboxInv
<1>1. MailboxInit => MailboxInv
  BY DEF MailboxInit, MailboxInv, MailboxTypeOK, Commands, Requested, Preparing, Posted, Executing, Emptying
<1>2. MailboxInv /\ [MailboxNext]_mailboxVars => MailboxInv'
  BY TypeStep, StageStep DEF MailboxInv
<1> QED BY <1>1, <1>2, PTL DEF MailboxSpec

(***************************************************************************)
(* The mailbox, the two threads' places and the histories keep to their    *)
(* sets, for every set of arguments.                                       *)
(***************************************************************************)
THEOREM MailboxTypeCorrect == MailboxSpec => []MailboxTypeOK
<1>1. MailboxInv => MailboxTypeOK
  BY DEF MailboxInv
<1> QED BY <1>1, Stages, PTL

(***************************************************************************)
(* A patient user's command is typed in with the argument it was sent      *)
(* with, for every number of requests and every interleaving.              *)
(***************************************************************************)
THEOREM SentCommandWhole == ASSUME Patient PROVE MailboxSpec => []SentWhole
<1>1. MailboxInv => SentWhole
  <2> SUFFICES ASSUME MailboxInv, mpc = "execute", job = "send"
               PROVE  req = "send" /\ webCommandParam = arg
    BY DEF SentWhole
  <2>1. webCommand = "send"
    BY DEF MailboxInv, Executing
  <2> QED BY <2>1 DEF MailboxInv, Posted
<1> QED BY <1>1, Stages, PTL
-----------------------------------------------------------------------------
(* Settings: the password's digits *)

Characters == 1..127
Ascii == Seq(Characters)

LEMMA AsciiFacts ==
  ASSUME NEW pass \in Ascii
  PROVE  /\ Len(pass) \in Nat
         /\ \A i \in 1..Len(pass) : pass[i] \in 1..127
         /\ pass = [i \in 1..Len(pass) |-> pass[i]]
<1>1. /\ Len(pass) \in Nat
      /\ \A i \in 1..Len(pass) : pass[i] \in Characters
      /\ pass = [i \in 1..Len(pass) |-> pass[i]]
  BY DEF Ascii
<1>2. QED
  BY <1>1 DEF Characters

\* An ASCII character is written with two digits.
LEMMA TwoDigits ==
  ASSUME NEW b \in 1..127
  PROVE  /\ xorKey(b) \in 128..255 /\ xorKey(xorKey(b)) = b
         /\ 16 * (xorKey(b) \div 16) + (xorKey(b) % 16) = xorKey(b)
<1>1. xorKey(b) = b + 128
  BY DEF xorKey
<1>2. xorKey(b + 128) = b
  BY DEF xorKey
<1>3. b + 128 \in 128..255 /\ 16 * ((b + 128) \div 16) + ((b + 128) % 16) = b + 128
  OBVIOUS
<1>4. QED
  BY <1>1, <1>2, <1>3

LEMMA DigitsOfAscii ==
  ASSUME NEW pass \in Ascii, NEW i \in 1..(Len(pass) + 1)
  PROVE  DigitsBefore(pass, i) = 2 * (i - 1)
<1>1. \A j \in 1..(i - 1) : xorKey(pass[j]) >= 16
  <2>1. ASSUME NEW j \in 1..(i - 1) PROVE pass[j] \in 1..127
    <3>1. j \in 1..Len(pass)
      BY AsciiFacts
    <3>2. QED
      BY <3>1, AsciiFacts
  <2>2. ASSUME NEW b \in 1..127 PROVE xorKey(b) >= 16
    BY DEF xorKey
  <2>3. QED
    BY <2>1, <2>2
<1>2. {j \in 1..(i - 1) : xorKey(pass[j]) >= 16} = 1..(i - 1)
  BY <1>1
<1>3. Cardinality(1..(i - 1)) = i - 1
  <2>1. i - 1 \in Nat /\ i - 1 \in Int /\ 1 \in Int
    BY AsciiFacts
  <2>2. Cardinality(1..(i - 1)) = IF 1 > i - 1 THEN 0 ELSE (i - 1) - 1 + 1
    BY <2>1, FS_Interval
  <2>3. QED
    BY <2>1, <2>2
<1>4. i \in Int
  BY AsciiFacts
<1>5. DigitsBefore(pass, i) = i - 1 + Cardinality(1..(i - 1))
  BY <1>2 DEF DigitsBefore
<1>6. QED
  BY <1>3, <1>4, <1>5

\* A password comes back from its digits as it was.
LEMMA PasswordComesBack ==
  ASSUME NEW pass \in Ascii
  PROVE  Decoded(Encoded(pass)) = pass
<1> DEFINE digits == Encoded(pass)
           n == Len(pass)
<1>1. n \in Nat /\ n + 1 \in 1..(n + 1)
  BY AsciiFacts
<1>2. DigitsBefore(pass, n + 1) = 2 * n
  BY <1>1, DigitsOfAscii
<1>3. ASSUME NEW i \in 1..n
      PROVE  /\ digits[2 * i - 1] = xorKey(pass[i]) \div 16
             /\ digits[2 * i] = xorKey(pass[i]) % 16
  <2> DEFINE Of(d, j) == d \in (DigitsBefore(pass, j) + 1)..DigitsBefore(pass, j + 1)
             Digit(d, j) == IF d = DigitsBefore(pass, j + 1)
                            THEN xorKey(pass[j]) % 16 ELSE xorKey(pass[j]) \div 16
  <2>1. \A j \in 1..n : /\ DigitsBefore(pass, j) = 2 * j - 2
                        /\ DigitsBefore(pass, j + 1) = 2 * j
    <3>1. ASSUME NEW j \in 1..n
          PROVE  j \in 1..(n + 1) /\ j + 1 \in 1..(n + 1) /\ 2 * (j - 1) = 2 * j - 2 /\ 2 * (j + 1 - 1) = 2 * j
      BY <1>1
    <3>2. QED
      BY <3>1, DigitsOfAscii
  <2>2. \A j \in 1..n : (Of(2 * i - 1, j) <=> j = i) /\ (Of(2 * i, j) <=> j = i)
    BY <1>1, <2>1
  <2>3. 2 * i - 1 \in 1..(2 * n) /\ 2 * i \in 1..(2 * n)
    BY <1>1
  <2>4. (CHOOSE j \in 1..n : Of(2 * i - 1, j)) = i /\ (CHOOSE j \in 1..n : Of(2 * i, j)) = i
    BY <2>2
  <2>5. \A d \in 1..(2 * n) : digits[d] = Digit(d, CHOOSE j \in 1..n : Of(d, j))
    BY <1>2 DEF Encoded
  <2>6. digits[2 * i - 1] = Digit(2 * i - 1, i) /\ digits[2 * i] = Digit(2 * i, i)
    BY <2>3, <2>4, <2>5
  <2>7. DigitsBefore(pass, i + 1) = 2 * i /\ 2 * i - 1 # 2 * i
    BY <1>1, <2>1
  <2>8. QED
    BY <2>6, <2>7
<1>4. Len(digits) = 2 * n
  BY <1>1, <1>2 DEF Encoded
<1>5. \A i \in 1..n : xorKey(16 * digits[2 * i - 1] + digits[2 * i]) = pass[i]
  <2>1. \A i \in 1..n : pass[i] \in 1..127
    BY AsciiFacts
  <2>2. \A b \in 1..127 : xorKey(16 * (xorKey(b) \div 16) + (xorKey(b) % 16)) = b
    BY TwoDigits
  <2>3. QED
    BY <1>3, <2>1, <2>2
<1> HIDE DEF digits
<1>6. (2 * n) \div 2 = n
  BY <1>1
<1>7. Decoded(digits) = [i \in 1..n |-> pass[i]]
  BY <1>4, <1>5, <1>6 DEF Decoded
<1>8. pass = [i \in 1..n |-> pass[i]]
  BY AsciiFacts
<1>9. QED
  BY <1>7, <1>8 DEF digits
-----------------------------------------------------------------------------
(* The file *)

KeyNames == {"SSID", "PASS", "N80", "CMT"}

\* Names of networks and files.
Strings == {<< >>} \union Ssids \union Files \union {p.SSID : p \in Prefs}

Configs == [SSID : Strings, PASS : Ascii, N80 : Strings, CMT : Strings]

\* Lines of a file.
Rows == [key : KeyNames, val : Strings \union {Encoded(p) : p \in Ascii}]

\* A beginning of a file.
WellFormed(lines) ==
  /\ lines \in Seq(Rows)
  /\ Len(lines) <= 4
  /\ \A i \in 1..Len(lines) :
       /\ lines[i].key = Keys[i]
       /\ IF i = 2 THEN Decoded(lines[i].val) \in Ascii ELSE lines[i].val \in Strings

\* Its lines are the settings as they are.
SaysNow(lines, i) == i <= Len(lines) => lines[i] = Line(Keys[i])

\* The other threads do nothing before the start and after the end.
Alone == phase \in {"off", "ended"} \/ (phase = "saving" /\ then = "ended")

SavedInv ==
  /\ config \in Configs /\ request \in Ascii /\ prefs \in Prefs
  /\ WellFormed(card) /\ WellFormed(out)
  /\ phase \in {"off", "run", "saving", "ended"} /\ then \in {"run", "ended"}
  /\ Alone => web = "idle"
  /\ phase = "saving" => /\ SaysNow(out, 3) /\ SaysNow(out, 4)
                         /\ then = "ended" => SaysNow(out, 1) /\ SaysNow(out, 2)
  /\ SavedWhole

\* Network and password of a file belong together.
Belongs(lines) ==
  /\ Len(lines) = 1 => \E p \in pairs : p[1] = lines[1].val
  /\ Len(lines) >= 2 => <<lines[1].val, Decoded(lines[2].val)>> \in pairs

PairsInv ==
  /\ Pair(Nothing) \in pairs
  /\ web # "pass" => Pair(config) \in pairs
  /\ ~torn /\ phase # "saving" => Belongs(card)
  /\ ~torn /\ phase = "saving" => web # "pass" /\ SaysNow(out, 1) /\ SaysNow(out, 2)
  /\ NeverMixed

LEMMA KeyOrder ==
  /\ Keys[1] = "SSID" /\ Keys[2] = "PASS" /\ Keys[3] = "N80" /\ Keys[4] = "CMT" /\ Len(Keys) = 4
  /\ DOMAIN Nothing = KeyNames
  /\ \A n \in 1..4 : Keys[n] \in KeyNames /\ (Keys[n] = "PASS" <=> n = 2)
  /\ \A m, n \in 1..4 : Keys[m] = Keys[n] => m = n
<1>1. Keys[1] = "SSID" /\ Keys[2] = "PASS" /\ Keys[3] = "N80" /\ Keys[4] = "CMT" /\ Len(Keys) = 4
  BY DEF Keys
<1>2. DOMAIN Nothing = KeyNames
  BY DEF Nothing, KeyNames
<1>3. \A n \in 1..4 : n = 1 \/ n = 2 \/ n = 3 \/ n = 4
  OBVIOUS
<1>4. QED
  BY <1>1, <1>2, <1>3 DEF KeyNames

LEMMA FileLength ==
  ASSUME NEW lines, WellFormed(lines)
  PROVE  lines \in Seq(Rows) /\ Len(lines) \in 0..4
<1>1. lines \in Seq(Rows)
  BY DEF WellFormed
<1>2. Len(lines) \in Nat
  BY <1>1
<1>3. Len(lines) <= 4
  BY DEF WellFormed
<1>4. \A k \in Nat : k <= 4 => k \in 0..4
  OBVIOUS
<1>5. Len(lines) \in 0..4
  BY <1>2, <1>3, <1>4, Zenon
<1>6. QED
  BY <1>1, <1>5

\* What a file says of a setting.
LEMMA FieldAt ==
  ASSUME NEW lines, WellFormed(lines), NEW n \in 1..4
  PROVE  Taken(lines)[Keys[n]] = IF n <= Len(lines) THEN Value(lines[n]) ELSE << >>
<1> DEFINE at == {i \in 1..Len(lines) : lines[i].key = Keys[n]}
<1>1. Keys[n] \in DOMAIN Nothing /\ Len(lines) \in 0..4
  BY KeyOrder, FileLength
<1>2. \A i \in 1..Len(lines) : lines[i].key = Keys[n] <=> i = n
  BY <1>1, KeyOrder DEF WellFormed
<1>3. Taken(lines)[Keys[n]] =
        IF at = {} THEN << >> ELSE Value(lines[CHOOSE i \in at : \A j \in at : j <= i])
  BY <1>1 DEF Taken
<1>4. CASE n <= Len(lines)
  <2>1. at = {n}
    BY <1>1, <1>2, <1>4
  <2> HIDE DEF at
  <2>2. (CHOOSE i \in at : \A j \in at : j <= i) = n
    BY <2>1
  <2>3. QED
    BY <1>3, <1>4, <2>1, <2>2
<1>5. CASE ~(n <= Len(lines))
  <2>1. at = {}
    BY <1>1, <1>2, <1>5
  <2>2. QED
    BY <1>3, <1>5, <2>1
<1>6. QED
  BY <1>4, <1>5

LEMMA FileFields ==
  ASSUME NEW lines, WellFormed(lines)
  PROVE  /\ Taken(lines).SSID = IF Len(lines) >= 1 THEN lines[1].val ELSE << >>
         /\ Taken(lines).PASS = IF Len(lines) >= 2 THEN Decoded(lines[2].val) ELSE << >>
         /\ Taken(lines).N80 = IF Len(lines) >= 3 THEN lines[3].val ELSE << >>
         /\ Taken(lines).CMT = IF Len(lines) >= 4 THEN lines[4].val ELSE << >>
         /\ Taken(lines) \in Configs
<1>1. Len(lines) \in 0..4 /\ 1 \in 1..4 /\ 2 \in 1..4 /\ 3 \in 1..4 /\ 4 \in 1..4
  BY FileLength
<1>2. \A n \in 1..4 :
        n <= Len(lines) => Value(lines[n]) = IF n = 2 THEN Decoded(lines[n].val) ELSE lines[n].val
  BY <1>1, KeyOrder DEF WellFormed, Value
<1>3. /\ Taken(lines)["SSID"] = IF 1 <= Len(lines) THEN lines[1].val ELSE << >>
      /\ Taken(lines)["PASS"] = IF 2 <= Len(lines) THEN Decoded(lines[2].val) ELSE << >>
      /\ Taken(lines)["N80"] = IF 3 <= Len(lines) THEN lines[3].val ELSE << >>
      /\ Taken(lines)["CMT"] = IF 4 <= Len(lines) THEN lines[4].val ELSE << >>
  <2>1. \A n \in 1..4 : Taken(lines)[Keys[n]] = IF n <= Len(lines) THEN Value(lines[n]) ELSE << >>
    BY FieldAt
  <2>2. \A n \in 1..4 :
          Taken(lines)[Keys[n]] = IF n <= Len(lines)
                                  THEN IF n = 2 THEN Decoded(lines[n].val) ELSE lines[n].val
                                  ELSE << >>
    BY <1>2, <2>1
  <2>3. QED
    BY <1>1, <2>2, KeyOrder
<1>4. << >> \in Ascii /\ << >> \in Strings
  BY DEF Ascii, Strings
<1>5. /\ Taken(lines)["SSID"] \in Strings /\ Taken(lines)["PASS"] \in Ascii
      /\ Taken(lines)["N80"] \in Strings /\ Taken(lines)["CMT"] \in Strings
  BY <1>1, <1>3, <1>4 DEF WellFormed
<1>6. Taken(lines) = [key \in KeyNames |-> Taken(lines)[key]]
  <2>1. DOMAIN Nothing = KeyNames
    BY KeyOrder
  <2>2. QED
    BY <2>1 DEF Taken
<1>7. Taken(lines) \in Configs
  BY <1>5, <1>6 DEF Configs, KeyNames
<1>8. QED
  BY <1>1, <1>3, <1>7

\* A line of the settings as they are.
LEMMA LineNow ==
  ASSUME config \in Configs, NEW n \in 1..4
  PROVE  /\ Line(Keys[n]) \in Rows /\ Line(Keys[n]).key = Keys[n]
         /\ n # 2 => Line(Keys[n]).val = config[Keys[n]] /\ config[Keys[n]] \in Strings
         /\ n = 2 => Decoded(Line(Keys[n]).val) = config.PASS /\ config.PASS \in Ascii
<1>1. config.PASS \in Ascii /\ \A m \in 1..4 : m # 2 => config[Keys[m]] \in Strings
  <2>1. /\ config["SSID"] \in Strings /\ config["N80"] \in Strings /\ config["CMT"] \in Strings
        /\ config["PASS"] \in Ascii
    BY DEF Configs
  <2>2. \A m \in 1..4 : m = 1 \/ m = 2 \/ m = 3 \/ m = 4
    OBVIOUS
  <2>3. QED
    BY <2>1, <2>2, KeyOrder
<1>2. Line(Keys[n]) = [key |-> Keys[n], val |-> IF n = 2 THEN Encoded(config.PASS) ELSE config[Keys[n]]]
  BY KeyOrder DEF Line
<1>3. Decoded(Encoded(config.PASS)) = config.PASS
  BY <1>1, PasswordComesBack
<1>4. Keys[n] \in KeyNames
  BY KeyOrder
<1>5. Line(Keys[n]) \in Rows
  BY <1>1, <1>2, <1>4 DEF Rows
<1>6. QED
  BY <1>1, <1>2, <1>3, <1>5

\* One more line, and a file that ends early.
LEMMA OneMoreLine ==
  ASSUME config \in Configs, NEW lines, WellFormed(lines), Len(lines) < 4
  PROVE  LET more == Append(lines, Line(Keys[Len(lines) + 1])) IN
         /\ WellFormed(more) /\ Len(more) = Len(lines) + 1
         /\ \A i \in 1..4 : SaysNow(lines, i) => SaysNow(more, i)
<1> DEFINE n == Len(lines) + 1
           row == Line(Keys[n])
           more == Append(lines, row)
<1>1. lines \in Seq(Rows) /\ Len(lines) \in 0..3 /\ n \in 1..4
  <2>1. lines \in Seq(Rows)
    BY FileLength
  <2>2. Len(lines) \in 0..4
    BY FileLength
  <2>3. QED
    BY <2>1, <2>2
<1>2. /\ row \in Rows /\ row.key = Keys[n]
      /\ IF n = 2 THEN Decoded(row.val) \in Ascii ELSE row.val \in Strings
  BY <1>1, LineNow
<1>3. row = Line(Keys[n])
  OBVIOUS
<1> HIDE DEF row
<1>4. /\ more \in Seq(Rows) /\ Len(more) = n
      /\ \A i \in 1..Len(lines) : more[i] = lines[i]
      /\ more[n] = row
  BY <1>1, <1>2
<1> HIDE DEF more
<1>5. \A i \in 1..n : i \in 1..Len(lines) \/ i = n
  BY <1>1
<1>6. WellFormed(more)
  <2>1. ASSUME NEW i \in 1..Len(more)
        PROVE  /\ more[i].key = Keys[i]
               /\ IF i = 2 THEN Decoded(more[i].val) \in Ascii ELSE more[i].val \in Strings
    <3>1. CASE i \in 1..Len(lines)
      BY <1>4, <3>1 DEF WellFormed
    <3>2. CASE i = n
      <4>1. more[i] = row /\ Keys[i] = Keys[n]
        BY <1>4, <3>2
      <4>2. QED
        BY <1>2, <3>2, <4>1
    <3>3. QED
      BY <1>4, <1>5, <3>1, <3>2
  <2>2. QED
    BY <1>1, <1>4, <2>1 DEF WellFormed
<1>7. ASSUME NEW i \in 1..4, SaysNow(lines, i) PROVE SaysNow(more, i)
  <2>1. CASE i <= Len(lines)
    BY <1>1, <1>4, <1>7, <2>1 DEF SaysNow
  <2>2. CASE i = n
    BY <1>3, <1>4, <2>2 DEF SaysNow
  <2>3. CASE ~(i <= Len(lines)) /\ i # n
    BY <1>1, <1>4, <2>3 DEF SaysNow
  <2>4. QED
    BY <2>1, <2>2, <2>3
<1>8. QED
  BY <1>4, <1>6, <1>7 DEF more, row

LEMMA EarlyEnd ==
  ASSUME NEW lines, WellFormed(lines), NEW n \in 0..Len(lines)
  PROVE  /\ WellFormed(SubSeq(lines, 1, n)) /\ Len(SubSeq(lines, 1, n)) = n
         /\ \A i \in 1..n : SubSeq(lines, 1, n)[i] = lines[i]
<1>1. lines \in Seq(Rows) /\ Len(lines) \in 0..4 /\ n \in 0..4
  <2>1. lines \in Seq(Rows)
    BY FileLength
  <2>2. Len(lines) \in 0..4
    BY FileLength
  <2>3. \A k \in 0..4 : \A m \in 0..k : m \in 0..4
    OBVIOUS
  <2>4. n \in 0..4
    BY <2>2, <2>3, Zenon
  <2>5. QED
    BY <2>1, <2>2, <2>4
<1>2. /\ SubSeq(lines, 1, n) \in Seq(Rows) /\ Len(SubSeq(lines, 1, n)) = n
      /\ \A i \in 1..n : SubSeq(lines, 1, n)[i] = lines[i]
  BY <1>1
<1>3. \A i \in 1..n : i \in 1..Len(lines)
  BY <1>1
<1> DEFINE cut == SubSeq(lines, 1, n)
<1> HIDE DEF cut
<1>4. WellFormed(cut)
  BY <1>1, <1>2, <1>3 DEF WellFormed, cut
<1>5. QED
  BY <1>2, <1>4 DEF cut

\* A file whose lines say all of the settings gives them back.
LEMMA WholeFile ==
  ASSUME config \in Configs, NEW lines, WellFormed(lines), Len(lines) = 4
  PROVE  /\ SaysNow(lines, 3) => Taken(lines).N80 = config.N80
         /\ SaysNow(lines, 4) => Taken(lines).CMT = config.CMT
         /\ (\A i \in 1..4 : SaysNow(lines, i)) => Taken(lines) = config
<1>1. /\ Line(Keys[1]).val = config[Keys[1]] /\ Decoded(Line(Keys[2]).val) = config.PASS
      /\ Line(Keys[3]).val = config[Keys[3]] /\ Line(Keys[4]).val = config[Keys[4]]
  <2>1. 1 \in 1..4 /\ 2 \in 1..4 /\ 3 \in 1..4 /\ 4 \in 1..4
    OBVIOUS
  <2>2. QED
    BY <2>1, LineNow
<1>2. /\ Taken(lines).SSID = lines[1].val /\ Taken(lines).PASS = Decoded(lines[2].val)
      /\ Taken(lines).N80 = lines[3].val /\ Taken(lines).CMT = lines[4].val
      /\ Taken(lines) \in Configs
  <2>1. Len(lines) >= 1 /\ Len(lines) >= 2 /\ Len(lines) >= 3 /\ Len(lines) >= 4
    OBVIOUS
  <2>2. QED
    BY <2>1, FileFields
<1>3. /\ SaysNow(lines, 3) => Taken(lines).N80 = config.N80
      /\ SaysNow(lines, 4) => Taken(lines).CMT = config.CMT
  BY <1>1, <1>2, KeyOrder DEF SaysNow
<1>4. ASSUME \A i \in 1..4 : SaysNow(lines, i)
      PROVE  Taken(lines) = config
  <2>1. /\ lines[1] = Line(Keys[1]) /\ lines[2] = Line(Keys[2])
        /\ lines[3] = Line(Keys[3]) /\ lines[4] = Line(Keys[4])
    BY <1>4 DEF SaysNow
  <2>2. /\ Taken(lines).SSID = config.SSID /\ Taken(lines).PASS = config.PASS
        /\ Taken(lines).N80 = config.N80 /\ Taken(lines).CMT = config.CMT
    BY <1>1, <1>2, <2>1, KeyOrder
  <2>3. QED
    BY <1>2, <2>2 DEF Configs
<1>5. QED
  BY <1>3, <1>4
-----------------------------------------------------------------------------
(* Nothing is left unsaved *)

LEMMA SavedStarts == Init => SavedInv
<1> SUFFICES ASSUME Init PROVE SavedInv
  OBVIOUS
<1>1. << >> \in Ascii /\ << >> \in Strings
  BY DEF Ascii, Strings
<1>2. config \in Configs
  BY <1>1 DEF Init, Nothing, Configs
<1>3. prefs \in Prefs /\ request \in Ascii
  BY <1>1 DEF Init
<1>4. WellFormed(<< >>)
  <2>1. << >> \in Seq(Rows) /\ Len(<< >>) = 0
    OBVIOUS
  <2>2. QED
    BY <2>1 DEF WellFormed
<1>5. QED
  BY <1>2, <1>3, <1>4 DEF Init, SavedInv, SavedWhole, Alone

LEMMA EmptyFile ==
  /\ WellFormed(<< >>) /\ \A i \in 1..4 : SaysNow(<< >>, i)
<1>1. << >> \in Seq(Rows) /\ Len(<< >>) = 0
  OBVIOUS
<1>2. QED
  BY <1>1 DEF WellFormed, SaysNow

\* A save begins with everything still to be written.
LEMMA SaveBegins ==
  ASSUME SavedInv, NEW next \in {"run", "ended"}, BeginSave(next),
         config' \in Configs, request' \in Ascii, prefs' \in Prefs, web' = web,
         next = "ended" => web = "idle"
  PROVE  SavedInv'
<1>1. /\ card' = << >> /\ out' = << >> /\ phase' = "saving" /\ then' = next
  BY DEF BeginSave
<1>2. WellFormed(card)' /\ WellFormed(out)'
  BY <1>1, EmptyFile
<1>3. SaysNow(out, 1)' /\ SaysNow(out, 2)' /\ SaysNow(out, 3)' /\ SaysNow(out, 4)'
  <2>1. Len(out') = 0
    BY <1>1
  <2>2. QED
    BY <2>1 DEF SaysNow
<1>4. SavedWhole'
  BY <1>1 DEF SavedWhole
<1>5. Alone' => web' = "idle"
  BY <1>1 DEF Alone
<1>6. QED
  BY <1>1, <1>2, <1>3, <1>4, <1>5 DEF SavedInv

\* A setting changed leaves the others as they are.
LEMMA OneChanged ==
  ASSUME config \in Configs
  PROVE  /\ \A key \in {"SSID", "N80", "CMT"}, f \in Strings : [config EXCEPT ![key] = f] \in Configs
         /\ \A p \in Ascii : [config EXCEPT !.PASS = p] \in Configs
<1>1. \A f \in Strings : [config EXCEPT !["SSID"] = f] \in Configs
  BY DEF Configs
<1>2. \A f \in Strings : [config EXCEPT !["N80"] = f] \in Configs
  BY DEF Configs
<1>3. \A f \in Strings : [config EXCEPT !["CMT"] = f] \in Configs
  BY DEF Configs
<1>4. \A p \in Ascii : [config EXCEPT !.PASS = p] \in Configs
  BY DEF Configs
<1>5. QED
  BY <1>1, <1>2, <1>3, <1>4

\* What the web thread sets while the main thread may be saving.
LEMMA WebChanges ==
  ASSUME SavedInv, ~Alone, UNCHANGED <<fileVars, phase, then, prefs>>,
         config' \in Configs, request' \in Ascii,
         config'.N80 = config.N80 /\ config'.CMT = config.CMT
  PROVE  SavedInv'
<1>1. ~Alone'
  BY DEF Alone, fileVars
<1>2. phase # "ended" /\ ~(phase = "saving" /\ then = "ended")
  BY DEF Alone
<1>3. UNCHANGED <<card, part, out, phase, then, prefs>>
  BY DEF fileVars
<1>4. \A i \in {3, 4} : SaysNow(out, i) => SaysNow(out, i)'
  <2>1. \A i \in {3, 4} : Line(Keys[i])' = Line(Keys[i])
    BY KeyOrder DEF Line
  <2>2. QED
    BY <1>3, <2>1 DEF SaysNow
<1>5. SavedWhole'
  BY <1>2, <1>3 DEF SavedInv, SavedWhole, Load
<1>6. WellFormed(card)' /\ WellFormed(out)'
  BY <1>3 DEF SavedInv
<1>7. QED
  BY <1>1, <1>2, <1>3, <1>4, <1>5, <1>6 DEF SavedInv

LEMMA SavedStep == SavedInv /\ [Next]_vars => SavedInv'
<1> SUFFICES ASSUME SavedInv, [Next]_vars PROVE SavedInv'
  OBVIOUS
<1>1. /\ config \in Configs /\ request \in Ascii /\ prefs \in Prefs
      /\ WellFormed(card) /\ WellFormed(out)
      /\ << >> \in Ascii /\ << >> \in Strings
  BY DEF SavedInv, Ascii, Strings
<1>2. CASE Boot
  <2>1. CASE /\ config' = Preferred(Load(card, part))
             /\ phase' = "run"
             /\ UNCHANGED <<fileVars, then, torn>>
    <3> DEFINE c == Taken(card)
    <3>1. c \in Configs /\ config' = Preferred(c)
      BY <1>1, <2>1, FileFields DEF Load
    <3>2. prefs.SSID \in Strings /\ prefs.PASS \in Ascii
      BY <1>1, SettingsAssumption DEF Strings, Ascii, Characters
    <3> HIDE DEF c
    <3>3. Preferred(c) \in Configs /\ Preferred(c).N80 = c.N80 /\ Preferred(c).CMT = c.CMT
      <4> DEFINE s == IF prefs.SSID # << >> THEN prefs.SSID ELSE c.SSID
                 p == IF prefs.PASS # << >> THEN prefs.PASS ELSE c.PASS
      <4>1. Preferred(c) = [c EXCEPT !.SSID = s, !.PASS = p]
        BY DEF Preferred
      <4>2. s \in Strings /\ p \in Ascii
        BY <3>1, <3>2 DEF Configs
      <4> HIDE DEF s, p
      <4>3. QED
        BY <3>1, <4>1, <4>2 DEF Configs
    <3>4. UNCHANGED <<card, out, part, web, request, prefs>>
      BY <1>2, <2>1 DEF Boot, fileVars, webVars
    <3>5. SavedWhole'
      BY <2>1, <3>1, <3>3, <3>4 DEF SavedWhole, Load, c
    <3>6. ~Alone'
      BY <2>1 DEF Alone
    <3>7. WellFormed(card)' /\ WellFormed(out)'
      BY <1>1, <3>4
    <3>8. QED
      BY <1>1, <2>1, <3>1, <3>3, <3>4, <3>5, <3>6, <3>7 DEF SavedInv
  <2>2. CASE BeginSave("ended") /\ UNCHANGED <<config, pairs, loaded>>
    <3>1. UNCHANGED <<web, request, prefs>> /\ web = "idle"
      BY <1>2 DEF Boot, webVars, SavedInv, Alone
    <3>2. QED
      BY <1>1, <2>2, <3>1, SaveBegins
  <2>3. QED
    BY <1>2, <2>1, <2>2 DEF Boot
<1>3. CASE ChooseFile
  <2>1. PICK key \in {"N80", "CMT"}, f \in Files : config' = [config EXCEPT ![key] = f]
    BY <1>3 DEF ChooseFile
  <2>2. f \in Strings
    BY DEF Strings
  <2>3. config' \in Configs
    BY <1>1, <2>1, <2>2, OneChanged
  <2>4. BeginSave("run") /\ UNCHANGED <<web, request, prefs>>
    BY <1>3 DEF ChooseFile, webVars
  <2>5. QED
    BY <1>1, <2>3, <2>4, SaveBegins
<1>4. CASE End
  <2>1. BeginSave("ended") /\ UNCHANGED <<config, web, request, prefs>> /\ web = "idle"
    BY <1>4 DEF End, webVars
  <2>2. QED
    BY <1>1, <2>1, SaveBegins
<1>5. ASSUME Off, UNCHANGED prefs, WellFormed(card') PROVE SavedInv'
  <2>1. /\ config' = Nothing /\ phase' = "off" /\ then' = "run" /\ out' = << >>
        /\ web' = "idle" /\ request' = << >>
    BY <1>5 DEF Off
  <2>2. config' \in Configs
    BY <1>1, <2>1 DEF Nothing, Configs
  <2>3. WellFormed(out')
    BY <2>1, EmptyFile
  <2>4. QED
    BY <1>1, <1>5, <2>1, <2>2, <2>3 DEF SavedInv, SavedWhole
<1>6. CASE Restart
  BY <1>1, <1>5, <1>6 DEF Restart
<1>7. CASE PowerLoss
  <2>1. CASE phase # "saving" /\ UNCHANGED <<card, part>>
    BY <1>1, <1>5, <1>7, <2>1 DEF PowerLoss
  <2>2. CASE \E n \in 0..Len(out) : card' = SubSeq(out, 1, n)
    <3>1. WellFormed(card')
      BY <1>1, <2>2, EarlyEnd
    <3>2. QED
      BY <1>5, <1>7, <3>1 DEF PowerLoss
  <2>3. QED
    BY <1>7, <2>1, <2>2 DEF PowerLoss
<1>8. CASE WriteLine
  <2>1. /\ phase = "saving" /\ Len(out) < 4
        /\ out' = Append(out, Line(Keys[Len(out) + 1]))
        /\ UNCHANGED <<config, card, part, phase, then, web, request, prefs>>
    BY <1>8, KeyOrder DEF WriteLine, webVars
  <2>2. WellFormed(out') /\ \A i \in 1..4 : SaysNow(out, i) => SaysNow(out', i)
    BY <1>1, <2>1, OneMoreLine
  <2>3. \A i \in 1..4 : SaysNow(out, i) => SaysNow(out, i)'
    <3>1. \A i \in 1..4 : Line(Keys[i])' = Line(Keys[i])
      BY <2>1 DEF Line
    <3>2. QED
      BY <2>2, <3>1 DEF SaysNow
  <2>4. 1 \in 1..4 /\ 2 \in 1..4 /\ 3 \in 1..4 /\ 4 \in 1..4
    OBVIOUS
  <2>5. SavedWhole' /\ (Alone' => web' = "idle")
    BY <2>1 DEF SavedInv, SavedWhole, Alone
  <2>6. WellFormed(card)'
    BY <1>1, <2>1
  <2>7. QED
    BY <1>1, <2>1, <2>2, <2>3, <2>4, <2>5, <2>6 DEF SavedInv
<1>9. CASE CloseFile
  <2>1. /\ phase = "saving" /\ Len(out) = 4 /\ card' = out /\ out' = << >> /\ phase' = then
        /\ UNCHANGED <<config, part, then, web, request, prefs>>
    BY <1>9, KeyOrder DEF CloseFile, webVars
  <2>2. /\ SaysNow(out, 3) /\ SaysNow(out, 4)
        /\ then = "ended" => SaysNow(out, 1) /\ SaysNow(out, 2) /\ web = "idle"
    BY <2>1 DEF SavedInv, Alone
  <2>3. Taken(out).N80 = config.N80 /\ Taken(out).CMT = config.CMT
    BY <1>1, <2>1, <2>2, WholeFile
  <2>4. then = "ended" => Taken(out) = config
    <3>1. then = "ended" => \A i \in 1..4 : SaysNow(out, i)
      BY <2>2
    <3>2. QED
      BY <1>1, <2>1, <3>1, WholeFile
  <2>5. SavedWhole'
    BY <2>1, <2>3, <2>4 DEF SavedWhole, Load
  <2>6. then \in {"run", "ended"}
    BY DEF SavedInv
  <2>7. WellFormed(card') /\ WellFormed(out')
    BY <1>1, <2>1, EmptyFile
  <2>8. QED
    BY <1>1, <2>1, <2>2, <2>5, <2>6, <2>7 DEF SavedInv, Alone
<1>10. CASE SetSsid
  <2>1. PICK s \in Ssids, p \in Passes : config' = [config EXCEPT !.SSID = s] /\ request' = p
    BY <1>10 DEF SetSsid
  <2>2. s \in Strings /\ p \in Ascii
    BY SettingsAssumption DEF Strings, Ascii, Characters
  <2>3. config' \in Configs /\ request' \in Ascii
    BY <1>1, <2>1, <2>2, OneChanged
  <2>4. config'.N80 = config.N80 /\ config'.CMT = config.CMT
    BY <1>1, <2>1 DEF Configs
  <2>5. ~Alone /\ UNCHANGED <<fileVars, phase, then, prefs>>
    BY <1>10 DEF SetSsid, Threads, Alone
  <2>6. QED
    BY <2>3, <2>4, <2>5, WebChanges
<1>11. CASE SetPass
  <2>1. config' = [config EXCEPT !.PASS = request] /\ request' = request /\ web = "pass"
    BY <1>11 DEF SetPass
  <2>2. config' \in Configs /\ request' \in Ascii
    BY <1>1, <2>1, OneChanged
  <2>3. config'.N80 = config.N80 /\ config'.CMT = config.CMT
    BY <1>1, <2>1 DEF Configs
  <2>4. ~Alone /\ UNCHANGED <<fileVars, phase, then, prefs>>
    BY <1>11, <2>1 DEF SetPass, SavedInv
  <2>5. QED
    BY <2>2, <2>3, <2>4, WebChanges
<1>12. CASE Exit
  <2>1. ~Alone /\ UNCHANGED <<config, request, fileVars, phase, then, prefs>>
    BY <1>12 DEF Exit, SavedInv
  <2>2. QED
    BY <1>1, <2>1, WebChanges
<1>13. CASE UNCHANGED vars
  <2>1. UNCHANGED <<config, card, part, out, phase, then, web, request, prefs>>
    BY <1>13 DEF vars, fileVars, webVars
  <2>2. QED
    BY <2>1 DEF SavedInv, SavedWhole, Alone, WellFormed, SaysNow, Line, Load
<1>14. QED
  BY <1>2, <1>3, <1>4, <1>6, <1>7, <1>8, <1>9, <1>10, <1>11, <1>12, <1>13 DEF Next

\* However often settings are changed and saved, whenever the power fails:
\* chosen files are on the card while nothing is being saved, and at the end
\* everything is.
THEOREM NothingUnsaved == Spec => []SavedWhole
<1>1. SavedInv => SavedWhole
  BY DEF SavedInv
<1>2. QED
  BY <1>1, SavedStarts, SavedStep, PTL DEF Spec
-----------------------------------------------------------------------------
(* Network and password *)

LEMMA PairsStart == Init => PairsInv
<1> SUFFICES ASSUME Init PROVE PairsInv
  OBVIOUS
<1>1. config = Nothing /\ card = << >> /\ pairs = {Pair(Nothing)} /\ loaded.pair = Pair(Nothing)
  BY DEF Init
<1>2. Len(card) = 0
  BY <1>1
<1>3. Belongs(card)
  BY <1>2 DEF Belongs
<1>4. NeverMixed
  BY <1>1 DEF NeverMixed
<1>5. phase # "saving"
  BY DEF Init
<1>6. QED
  BY <1>1, <1>3, <1>4, <1>5 DEF PairsInv

\* What an undisturbed save has written so far belongs together, and so does
\* any beginning of it.
LEMMA WrittenBelongs ==
  ASSUME SavedInv, PairsInv, phase = "saving", ~torn, NEW n \in 0..Len(out), NEW lines,
         Len(lines) = n, \A i \in 1..n : lines[i] = out[i]
  PROVE  Belongs(lines)
<1>1. /\ SaysNow(out, 1) /\ SaysNow(out, 2) /\ Pair(config) \in pairs
      /\ config \in Configs /\ WellFormed(out)
  BY DEF PairsInv, SavedInv
<1>2. /\ Line(Keys[1]).val = config.SSID /\ Decoded(Line(Keys[2]).val) = config.PASS
  <2>1. 1 \in 1..4 /\ 2 \in 1..4
    OBVIOUS
  <2>2. QED
    BY <1>1, <2>1, LineNow, KeyOrder
<1>3. Len(out) \in 0..4
  BY <1>1, FileLength
<1>4. n >= 1 => lines[1].val = config.SSID
  BY <1>1, <1>2, <1>3 DEF SaysNow
<1>5. n >= 2 => Decoded(lines[2].val) = config.PASS
  BY <1>1, <1>2, <1>3 DEF SaysNow
<1>6. <<config.SSID, config.PASS>> \in pairs
  BY <1>1 DEF Pair
<1>7. <<config.SSID, config.PASS>>[1] = config.SSID
  OBVIOUS
<1>8. n \in Nat
  BY <1>3
<1>9. QED
  BY <1>4, <1>5, <1>6, <1>7, <1>8 DEF Belongs

\* What a file that belongs together is loaded as.
LEMMA LoadedBelongs ==
  ASSUME WellFormed(card), Belongs(card), Pair(Nothing) \in pairs
  PROVE  LET loads == Pair(Taken(card)) IN
         \/ loads \in pairs
         \/ loads[2] = << >> /\ \E p \in pairs : p[1] = loads[1]
<1>1. /\ Taken(card).SSID = IF Len(card) >= 1 THEN card[1].val ELSE << >>
      /\ Taken(card).PASS = IF Len(card) >= 2 THEN Decoded(card[2].val) ELSE << >>
  BY FileFields
<1>2. Len(card) \in 0..4
  BY FileLength
<1>3. CASE Len(card) = 0
  <2>1. Taken(card).SSID = << >> /\ Taken(card).PASS = << >>
    BY <1>1, <1>3
  <2>2. Pair(Taken(card)) = Pair(Nothing)
    BY <2>1 DEF Pair, Nothing
  <2>3. QED
    BY <2>2
<1>4. CASE Len(card) = 1
  <2>1. Taken(card).SSID = card[1].val /\ Taken(card).PASS = << >>
    BY <1>1, <1>4
  <2>2. \E p \in pairs : p[1] = card[1].val
    BY <1>4 DEF Belongs
  <2>3. Pair(Taken(card))[1] = card[1].val /\ Pair(Taken(card))[2] = << >>
    BY <2>1 DEF Pair
  <2>4. QED
    BY <2>2, <2>3
<1>5. CASE Len(card) >= 2
  <2>1. Taken(card).SSID = card[1].val /\ Taken(card).PASS = Decoded(card[2].val)
    BY <1>1, <1>2, <1>5
  <2>2. <<card[1].val, Decoded(card[2].val)>> \in pairs
    BY <1>5 DEF Belongs
  <2>3. QED
    BY <2>1, <2>2 DEF Pair
<1>6. QED
  BY <1>2, <1>3, <1>4, <1>5

\* With more pairs set, what belonged together still does.
LEMMA MorePairs ==
  ASSUME pairs \subseteq pairs', UNCHANGED <<card, loaded>>
  PROVE  /\ Belongs(card) => Belongs(card)'
         /\ NeverMixed => NeverMixed'
<1>1. Belongs(card) => Belongs(card)'
  BY DEF Belongs
<1>2. NeverMixed => NeverMixed'
  BY DEF NeverMixed
<1>3. QED
  BY <1>1, <1>2

LEMMA PairsSaveBegins ==
  ASSUME PairsInv, NEW next, BeginSave(next), UNCHANGED <<web, pairs, loaded>>,
         Pair(config') = Pair(config)
  PROVE  PairsInv'
<1>1. out' = << >> /\ phase' = "saving" /\ torn' = (web = "pass")
  BY DEF BeginSave
<1>2. Len(out') = 0
  BY <1>1
<1>3. SaysNow(out, 1)' /\ SaysNow(out, 2)'
  BY <1>2 DEF SaysNow
<1>4. NeverMixed'
  BY DEF PairsInv, NeverMixed
<1>5. Pair(Nothing)' = Pair(Nothing)
  BY DEF Pair, Nothing
<1>6. ~torn' => web' # "pass"
  BY <1>1
<1>7. Pair(config)' = Pair(config')
  BY DEF Pair
<1>8. QED
  BY <1>1, <1>3, <1>4, <1>5, <1>6, <1>7 DEF PairsInv

LEMMA PairsStep == SavedInv /\ PairsInv /\ [Next]_vars => PairsInv'
<1> SUFFICES ASSUME SavedInv, PairsInv, [Next]_vars PROVE PairsInv'
  OBVIOUS
<1>1. Pair(Nothing)' = Pair(Nothing) /\ Pair(Nothing) \in pairs /\ NeverMixed
  BY DEF Pair, Nothing, PairsInv
<1>2. Pair(config)' = Pair(config')
  BY DEF Pair
<1>3. config \in Configs /\ WellFormed(card) /\ WellFormed(out)
  BY DEF SavedInv
<1>4. CASE Boot
  <2>1. CASE /\ config' = Preferred(Load(card, part))
             /\ loaded' = [pair |-> Pair(Load(card, part)), torn |-> torn]
             /\ pairs' = pairs \union {Pair(Preferred(Load(card, part)))}
             /\ phase' = "run"
             /\ UNCHANGED <<fileVars, then, torn>>
    <3>1. Pair(config') \in pairs' /\ pairs \subseteq pairs'
      BY <2>1
    <3>2. ~torn => Belongs(card)
      BY <1>4 DEF Boot, PairsInv
    <3>3. Belongs(card) => Belongs(card)'
      BY <2>1 DEF Belongs, fileVars
    <3>4. NeverMixed'
      <4>1. CASE torn
        BY <2>1, <4>1 DEF NeverMixed
      <4>2. CASE ~torn
        <5> DEFINE loads == Pair(Taken(card))
        <5>1. \/ loads \in pairs
              \/ loads[2] = << >> /\ \E p \in pairs : p[1] = loads[1]
          BY <1>1, <1>3, <3>2, <4>2, LoadedBelongs
        <5>2. loaded'.pair = loads
          BY <2>1 DEF Load
        <5> HIDE DEF loads
        <5>3. QED
          BY <3>1, <5>1, <5>2 DEF NeverMixed
      <4>3. QED
        BY <4>1, <4>2
    <3>5. QED
      BY <1>1, <1>2, <2>1, <3>1, <3>2, <3>3, <3>4 DEF PairsInv
  <2>2. CASE BeginSave("ended") /\ UNCHANGED <<config, pairs, loaded>>
    BY <1>4, <2>2, PairsSaveBegins DEF Boot, webVars
  <2>3. QED
    BY <1>4, <2>1, <2>2 DEF Boot
<1>5. CASE ChooseFile
  <2>1. PICK key \in {"N80", "CMT"}, f \in Files : config' = [config EXCEPT ![key] = f]
    BY <1>5 DEF ChooseFile
  <2>2. Pair(config') = Pair(config)
    BY <1>3, <2>1 DEF Pair, Configs
  <2>3. QED
    BY <1>5, <2>2, PairsSaveBegins DEF ChooseFile, webVars
<1>6. CASE End
  BY <1>6, PairsSaveBegins DEF End, webVars
<1>7. ASSUME Off, UNCHANGED <<pairs, loaded, torn>>, ~torn => Belongs(card') PROVE PairsInv'
  <2>1. config' = Nothing /\ phase' = "off" /\ web' = "idle"
    BY <1>7 DEF Off
  <2>2. NeverMixed'
    BY <1>1, <1>7 DEF NeverMixed
  <2>3. ~torn' => Belongs(card)'
    BY <1>7 DEF Belongs
  <2>4. QED
    BY <1>1, <1>2, <1>7, <2>1, <2>2, <2>3 DEF PairsInv
<1>8. CASE Restart
  BY <1>7, <1>8 DEF Restart, PairsInv, Belongs
<1>9. CASE PowerLoss
  <2>1. CASE phase # "saving" /\ UNCHANGED <<card, part>>
    BY <1>7, <1>9, <2>1 DEF PowerLoss, PairsInv
  <2>2. CASE phase = "saving" /\ \E n \in 0..Len(out) : card' = SubSeq(out, 1, n)
    <3>1. PICK n \in 0..Len(out) : card' = SubSeq(out, 1, n)
      BY <2>2
    <3>2. Len(card') = n /\ \A i \in 1..n : card'[i] = out[i]
      BY <1>3, <3>1, EarlyEnd
    <3>3. ~torn => Belongs(card')
      BY <2>2, <3>2, WrittenBelongs
    <3>4. QED
      BY <1>7, <1>9, <3>3 DEF PowerLoss
  <2>3. QED
    BY <1>9, <2>1, <2>2 DEF PowerLoss
<1>10. CASE WriteLine
  <2>1. /\ phase = "saving" /\ Len(out) < 4
        /\ out' = Append(out, Line(Keys[Len(out) + 1]))
        /\ UNCHANGED <<config, card, phase, web, torn, pairs, loaded>>
    BY <1>10, KeyOrder DEF WriteLine, webVars
  <2>2. \A i \in 1..4 : SaysNow(out, i) => SaysNow(out', i)
    BY <1>3, <2>1, OneMoreLine
  <2>3. \A i \in 1..4 : SaysNow(out, i) => SaysNow(out, i)'
    <3>1. \A i \in 1..4 : Line(Keys[i])' = Line(Keys[i])
      BY <2>1 DEF Line
    <3>2. QED
      BY <2>2, <3>1 DEF SaysNow
  <2>4. 1 \in 1..4 /\ 2 \in 1..4
    OBVIOUS
  <2>5. NeverMixed'
    BY <1>1, <2>1 DEF NeverMixed
  <2>6. QED
    BY <1>1, <1>2, <2>1, <2>3, <2>4, <2>5 DEF PairsInv
<1>11. CASE CloseFile
  <2>1. /\ phase = "saving" /\ card' = out /\ phase' = then
        /\ UNCHANGED <<config, web, torn, pairs, loaded>>
    BY <1>11 DEF CloseFile, webVars
  <2>2. phase' # "saving"
    BY <2>1 DEF SavedInv
  <2>3. ~torn => Belongs(out)
    <3>1. Len(out) \in 0..Len(out)
      BY <1>3, FileLength
    <3>2. QED
      BY <2>1, <3>1, WrittenBelongs
  <2>4. ~torn' => Belongs(card)'
    BY <2>1, <2>3 DEF Belongs
  <2>5. NeverMixed'
    BY <1>1, <2>1 DEF NeverMixed
  <2>6. QED
    BY <1>1, <1>2, <2>1, <2>2, <2>4, <2>5 DEF PairsInv
<1>12. CASE SetSsid
  <2>1. /\ web' = "pass" /\ torn' = (torn \/ phase = "saving")
        /\ UNCHANGED <<card, phase, pairs, loaded>>
    BY <1>12 DEF SetSsid, fileVars
  <2>2. ~torn' => ~torn /\ phase # "saving"
    BY <2>1
  <2>3. QED
    BY <1>1, <2>1, <2>2, MorePairs DEF PairsInv
<1>13. CASE SetPass
  <2>1. /\ config' = [config EXCEPT !.PASS = request] /\ torn' = (torn \/ phase = "saving")
        /\ pairs' = pairs \union {<<config.SSID, request>>}
        /\ UNCHANGED <<card, phase, loaded>>
    BY <1>13 DEF SetPass, fileVars
  <2>2. ~torn' => ~torn /\ phase # "saving"
    BY <2>1
  <2>3. Pair(config') = <<config.SSID, request>>
    BY <1>3, <2>1 DEF Pair, Configs
  <2>4. pairs \subseteq pairs' /\ Pair(config') \in pairs'
    BY <2>1, <2>3
  <2>5. QED
    BY <1>1, <1>2, <2>1, <2>2, <2>4, MorePairs DEF PairsInv
<1>14. CASE Exit
  <2>1. web = "exit" /\ UNCHANGED <<config, card, out, phase, torn, pairs, loaded>> /\ web' = "idle"
    BY <1>14 DEF Exit, fileVars
  <2>2. \A i \in {1, 2} : SaysNow(out, i) => SaysNow(out, i)'
    BY <2>1 DEF SaysNow, Line
  <2>3. QED
    BY <1>1, <1>2, <2>1, <2>2, MorePairs DEF PairsInv
<1>15. CASE UNCHANGED vars
  <2>1. UNCHANGED <<config, card, out, phase, web, torn, pairs, loaded>>
    BY <1>15 DEF vars, fileVars, webVars
  <2>2. \A i \in {1, 2} : SaysNow(out, i) => SaysNow(out, i)'
    BY <2>1 DEF SaysNow, Line
  <2>3. QED
    BY <1>1, <1>2, <2>1, <2>2, MorePairs DEF PairsInv
<1>16. QED
  BY <1>4, <1>5, <1>6, <1>8, <1>9, <1>10, <1>11, <1>12, <1>13, <1>14, <1>15 DEF Next

\* However the web thread changes network and password during saves, and
\* whenever the power fails: what is loaded was set together, or is without
\* its password, unless the web thread was in the middle of a change.
THEOREM PairsStayTogether == Spec => []NeverMixed
<1>1. PairsInv => NeverMixed
  BY DEF PairsInv
<1>2. QED
  BY <1>1, SavedStarts, SavedStep, PairsStart, PairsStep, PTL DEF Spec
=============================================================================
