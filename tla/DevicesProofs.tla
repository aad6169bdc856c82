---------------------------- MODULE DevicesProofs ----------------------------
(***************************************************************************)
(* Proofs about the display controllers, Crtc, about them with the VRTC    *)
(* and the CPU's clocks, Vrtc, and about the devices behind the ports,     *)
(* Devices.                                                                *)
(*                                                                         *)
(* Crtc: for any number of lines and any bytes written. The step lemmas    *)
(* are stated for Out alone, so that Vrtc and Devices can use them too.    *)
(*                                                                         *)
(* Vrtc: for any geometry of the frame and any lengths of the CPU's steps  *)
(* that leave the DMA time to finish within a line. The inductive          *)
(* invariant ties three clocks together: the one the program sees (line,   *)
(* hsync_state, vsync_state), the history variable elapsed, and the clocks *)
(* still owed to the DMA.                                                  *)
(*                                                                         *)
(* Devices: for every register width, every set of times, every tape,      *)
(* every program and every clock of the CPU, the dispatch over the ports   *)
(* implements the display controllers, so that their theorems hold behind  *)
(* it; the time read is the time shifted out; the frequency of the timer   *)
(* is that of one load; and the tape is read in order, round and round.    *)
(* The last three are inductive together with what the code keeps: the     *)
(* copy of the clock bit is that bit as it was written last; the turn of   *)
(* the halves and the low half are those of the load under way; the buffer *)
(* begins with the tape inside, and the index stands where the reads so    *)
(* far leave it.                                                           *)
(***************************************************************************)
EXTENDS Vrtc, Devices, SequenceTheorems, TLAPS

-----------------------------------------------------------------------------
(* The controllers *)

(***************************************************************************)
(* The bits of a byte that the controllers look at.                        *)
(***************************************************************************)
LEMMA ByteParts ==
  ASSUME NEW b \in 0..255
  PROVE  /\ b % 2 \in {0, 1} /\ (b \div 2) % 2 \in {0, 1}
         /\ b % 128 \in 0..127 /\ b % 64 \in 0..63
  OBVIOUS

(***************************************************************************)
(* The screen mode's number is in range, and determines the line mode.     *)
(***************************************************************************)
LEMMA ScrnModeRange ==
  ASSUME NEW line \in {0, 1}, NEW width \in {0, 1}
  PROVE  ScrnMode(line, width) \in 0..3
  BY DEF ScrnMode

(***************************************************************************)
(* The marks stay a function on the lines with values 0 and 1, whichever   *)
(* of attr.invalid() and attr.set() writes them.                           *)
(***************************************************************************)
LEMMA MarksType ==
  ASSUME attrchg \in [LineNos -> {0, 1}]
  PROVE  /\ Invalid => attrchg' \in [LineNos -> {0, 1}]
         /\ \A rows : Set(rows) => attrchg' \in [LineNos -> {0, 1}]
  BY DEF Invalid, Set

(***************************************************************************)
(* What an OUT leaves alone of the DMA controller keeps its type.          *)
(***************************************************************************)
LEMMA DmaKept ==
  DmaTypeOK /\ SentTypeOK /\ UNCHANGED dmaVars => DmaTypeOK' /\ SentTypeOK'
  BY DEF DmaTypeOK, SentTypeOK, dmaVars

(***************************************************************************)
(* A command byte keeps the types of the controllers' registers.           *)
(***************************************************************************)
LEMMA CmdType ==
  ASSUME NEW byte \in CmdBytes, CrtcTypeOK, Cmd(byte)
  PROVE  CrtcTypeOK'
  <1> USE DEF CrtcTypeOK, modeVars, cursorVars, ModeTypeOK, CursorTypeOK
  <1>m. /\ Invalid => attrchg' \in [LineNos -> {0, 1}]
        /\ \A rows : Set(rows) => attrchg' \in [LineNos -> {0, 1}]
    BY MarksType
  <1>d. DmaTypeOK' /\ SentTypeOK'
    BY DmaKept DEF Cmd, Ocw1, Ocw2, Ocw5, OtherOcw
  <1>s. 0 \in 0 .. CountSpan - 1
    BY CrtcAssumption DEF CrtcAssumption
  <1>1. CASE Ocw1
    BY <1>1, <1>d, <1>s DEF Ocw1, Commands, Blankers
  <1>2. CASE Ocw2(byte)
    <2>1. attr_reverse' \in {0, 1}
      BY <1>2, ByteParts, CrtcAssumption DEF Ocw2, CrtcAssumption
    <2> QED
      BY <1>2, <2>1, <1>d, <1>m DEF Ocw2
  <1>3. CASE Ocw5(byte)
    <2>1. attrchg' \in [LineNos -> {0, 1}] /\ cur_enable' \in {0, 1}
      BY <1>3, <1>m DEF Ocw5, CursorEnable, CursorDisable
    <2> QED
      BY <1>3, <2>1, <1>d, <1>s DEF Ocw5, Commands
  <1>4. CASE OtherOcw
    BY <1>4, <1>d, <1>s DEF OtherOcw, Commands
  <1> QED
    BY <1>1, <1>2, <1>3, <1>4 DEF Cmd

(***************************************************************************)
(* A parameter byte keeps the types of the controllers' registers.         *)
(***************************************************************************)
LEMMA DataType ==
  ASSUME NEW dat \in DataBytes, CrtcTypeOK, Data(dat)
  PROVE  CrtcTypeOK'
  <1> USE DEF CrtcTypeOK, modeVars, cursorVars, ModeTypeOK, CursorTypeOK
  <1>m. /\ Invalid => attrchg' \in [LineNos -> {0, 1}]
        /\ \A rows : Set(rows) => attrchg' \in [LineNos -> {0, 1}]
    BY MarksType
  <1>b. dat \in 0..255
    BY CrtcAssumption DEF CrtcAssumption
  <1>c. /\ param_count' \in 0 .. CountSpan - 1
        /\ UNCHANGED <<attr_reverse, text_vis>>
        /\ DmaTypeOK' /\ SentTypeOK'
    BY CrtcAssumption, DmaKept DEF Data, Counted, CrtcAssumption
  <1>1. CASE NoParam
    BY <1>1, <1>c DEF NoParam
  <1>2. CASE LineParam(dat)
    <2>1. (IF dat % 128 = 24 THEN 1 ELSE 0) \in {0, 1}
      OBVIOUS
    <2>2. CASE UNCHANGED <<attrchg, modeVars>>
      BY <1>2, <1>c, <2>2 DEF LineParam
    <2>3. CASE ~UNCHANGED <<attrchg, modeVars>>
      BY <1>2, <1>c, <1>m, <2>1, <2>3, ScrnModeRange DEF LineParam, ChgCrtMode
    <2> QED
      BY <2>2, <2>3
  <1>3. CASE OtherFormatParam
    BY <1>3, <1>c DEF OtherFormatParam, Commands
  <1>4. CASE PositionParam(dat)
    <2>1. PICK x \in 0..127, y \in 0..63 : CursorMove(x, y)
      <3>1. /\ dat % 128 \in 0..127 /\ dat % 64 \in 0..63
            /\ cursor.newx \in 0..127 /\ cursor.newy \in 0..63
        BY <1>b, ByteParts
      <3>2. \/ CursorMove(dat % 128, cursor.newy)
            \/ CursorMove(cursor.newx, dat % 64)
        BY <1>4 DEF PositionParam
      <3> QED
        BY <3>1, <3>2
    <2>2. attrchg' \in [LineNos -> {0, 1}]
      BY <2>1, <1>m DEF CursorMove
    <2>3. CursorTypeOK'
      BY <1>4, <2>1 DEF PositionParam, CursorMove
    <2> QED
      BY <1>4, <1>c, <2>2, <2>3 DEF PositionParam, Commands
  <1> QED
    BY <1>1, <1>2, <1>3, <1>4 DEF Data

(***************************************************************************)
(* A byte to control port #1 keeps the types of the controllers' registers.*)
(***************************************************************************)
LEMMA ModeType ==
  ASSUME NEW dat \in DataBytes, CrtcTypeOK, Mode(dat)
  PROVE  CrtcTypeOK'
  <1> USE DEF CrtcTypeOK, cursorVars, CursorTypeOK
  <1>1. dat % 2 \in {0, 1} /\ (dat \div 2) % 2 \in {0, 1}
    BY ByteParts, CrtcAssumption DEF CrtcAssumption
  <1>2. attrchg' \in [LineNos -> {0, 1}]
    BY MarksType DEF Mode
  <1>3. ModeTypeOK'
    BY <1>1, ScrnModeRange DEF Mode, SetWidth, SetColor, ChgCrtMode, ModeTypeOK
  <1> QED
    BY <1>2, <1>3, DmaKept DEF Mode

(***************************************************************************)
(* The numbers up to three.                                                *)
(***************************************************************************)
LEMMA UpToThree == \A n \in Nat : n <= 3 => n \in {0, 1, 2, 3}
  OBVIOUS

(***************************************************************************)
(* The bytes sent with one byte more: there are at most three, and when    *)
(* their number was odd, they are the two of a complete address.           *)
(***************************************************************************)
LEMMA SentType ==
  ASSUME NEW S, NEW dat \in S, dma_sent \in Seq(S), Len(dma_sent) <= 3
  PROVE  /\ SentOn(dat) \in Seq(S) /\ Len(SentOn(dat)) <= 3
         /\ Len(dma_sent) \in {1, 3} =>
               SentOn(dat) = <<dma_sent[Len(dma_sent)], dat>>
         /\ Len(dma_sent) \in {0, 2} =>
               /\ SentOn(dat) = Append(dma_sent, dat)
               /\ Len(SentOn(dat)) = Len(dma_sent) + 1
               /\ SentOn(dat)[Len(dma_sent) + 1] = dat
               /\ \A i \in 1 .. Len(dma_sent) : SentOn(dat)[i] = dma_sent[i]
  <1>1. /\ Len(dma_sent) \in Nat
        /\ \A i \in 1 .. Len(dma_sent) : dma_sent[i] \in S
    BY LenProperties, ElementOfSeq
  <1>2. CASE Len(dma_sent) = 3
    <2>1. dma_sent[3] \in S
      BY <1>1, <1>2
    <2>2. SentOn(dat) = <<dma_sent[3], dat>>
      BY <1>2 DEF SentOn
    <2>3. <<dma_sent[3], dat>> \in Seq(S) /\ Len(<<dma_sent[3], dat>>) = 2
      BY <2>1
    <2> QED
      BY <1>2, <2>2, <2>3
  <1>3. CASE Len(dma_sent) # 3
    <2>1. SentOn(dat) = Append(dma_sent, dat)
      BY <1>3 DEF SentOn
    <2>2. /\ Append(dma_sent, dat) \in Seq(S)
          /\ Len(Append(dma_sent, dat)) = Len(dma_sent) + 1
          /\ Append(dma_sent, dat)[Len(dma_sent) + 1] = dat
          /\ \A i \in 1 .. Len(dma_sent) : Append(dma_sent, dat)[i] = dma_sent[i]
      BY AppendProperties
    <2>3. ASSUME Len(dma_sent) = 1
          PROVE  Append(dma_sent, dat) = <<dma_sent[1], dat>>
      <3>1. <<dma_sent[1], dat>> \in Seq(S) /\ Len(<<dma_sent[1], dat>>) = 2
        BY <1>1, <2>3
      <3>2. \A i \in 1..2 : Append(dma_sent, dat)[i] = <<dma_sent[1], dat>>[i]
        BY <2>2, <2>3
      <3>3. Append(dma_sent, dat) \in Seq(S) /\ Len(Append(dma_sent, dat)) = 2
        BY <2>2, <2>3
      <3>4. Len(Append(dma_sent, dat)) = Len(<<dma_sent[1], dat>>)
        BY <3>1, <3>3, Zenon
      <3>5. \A i \in 1 .. Len(Append(dma_sent, dat)) :
              Append(dma_sent, dat)[i] = <<dma_sent[1], dat>>[i]
        BY <3>2, <3>3, Zenon
      <3> QED
        BY <3>1, <3>3, <3>4, <3>5, SeqEqual, Zenon
    <2>4. /\ SentOn(dat) \in Seq(S)
          /\ Len(SentOn(dat)) = Len(dma_sent) + 1
          /\ SentOn(dat)[Len(dma_sent) + 1] = dat
          /\ \A i \in 1 .. Len(dma_sent) : SentOn(dat)[i] = dma_sent[i]
          /\ Len(dma_sent) = 1 => SentOn(dat) = <<dma_sent[1], dat>>
      BY <2>1, <2>2, <2>3, Zenon
    <2>5. Len(dma_sent) \in {0, 1, 2}
      BY <1>1, <1>3, UpToThree, Zenon
    <2>6. Len(SentOn(dat)) <= 3
      BY <2>4, <2>5
    <2>7. ASSUME Len(dma_sent) \in {1, 3}
          PROVE  SentOn(dat) = <<dma_sent[Len(dma_sent)], dat>>
      BY <1>3, <2>4, <2>7, Zenon
    <2> QED
      BY <2>1, <2>4, <2>6, <2>7, Zenon
  <1> QED
    BY <1>2, <1>3

(***************************************************************************)
(* Bytes to the DMA controller keep the types too.                         *)
(***************************************************************************)
LEMMA DmaType ==
  ASSUME NEW dat \in DmaBytes, CrtcTypeOK, DmacCmd(dat) \/ DmacCh2(dat)
  PROVE  CrtcTypeOK'
  <1> USE DEF CrtcTypeOK, modeVars, cursorVars, ModeTypeOK, CursorTypeOK
  <1>1. CASE DmacCmd(dat)
    BY <1>1, DmaKept DEF DmacCmd, Blankers
  <1>2. CASE DmacCh2(dat)
    <2>1. dat \in 0..255
      BY CrtcAssumption DEF CrtcAssumption
    <2>2. DmaTypeOK'
      BY <1>2, <2>1 DEF DmacCh2, DmaTypeOK
    <2>3. SentTypeOK'
      <3> DEFINE Bytes == 0..255
      <3>1. dat \in Bytes /\ dma_sent \in Seq(Bytes) /\ Len(dma_sent) <= 3
        BY <2>1 DEF SentTypeOK
      <3> HIDE DEF Bytes
      <3>2. SentOn(dat) \in Seq(Bytes) /\ Len(SentOn(dat)) <= 3
        BY <3>1, SentType, Zenon
      <3>3. dma_sent' = SentOn(dat)
        BY <1>2 DEF DmacCh2
      <3> QED
        BY <3>2, <3>3, Zenon DEF SentTypeOK, Bytes
    <2> QED
      BY <1>2, <2>2, <2>3 DEF DmacCh2
  <1> QED
    BY <1>1, <1>2

(***************************************************************************)
(* Every OUT keeps the types of the controllers' registers.                *)
(***************************************************************************)
LEMMA OutType == CrtcTypeOK /\ Out => CrtcTypeOK'
  BY CmdType, DataType, ModeType, DmaType DEF Out

(***************************************************************************)
(* UNCHANGED crtcVars keeps the controllers' types.                        *)
(***************************************************************************)
LEMMA CrtcStutter == CrtcTypeOK /\ UNCHANGED crtcVars => CrtcTypeOK'
  BY DmaKept DEF CrtcTypeOK, ModeTypeOK, CursorTypeOK, crtcVars, modeVars, cursorVars

(***************************************************************************)
(* The controllers' registers have their types at power on.                *)
(***************************************************************************)
LEMMA CrtcInitType == CrtcInit => CrtcTypeOK
  <1> SUFFICES ASSUME CrtcInit
               PROVE  CrtcTypeOK
    OBVIOUS
  <1>1. DmaTypeOK /\ ModeTypeOK /\ CursorTypeOK
    BY DEF CrtcInit, DmaTypeOK, ModeTypeOK, CursorTypeOK, PowerOnBegin
  <1>2. SentTypeOK
    BY DEF CrtcInit, SentTypeOK
  <1> QED
    BY <1>1, <1>2, CrtcAssumption
    DEF CrtcInit, CrtcAssumption, CrtcTypeOK, Commands, Blankers

(***************************************************************************)
(* Type correctness of the controllers.                                    *)
(***************************************************************************)
THEOREM CrtcTypeCorrect == CrtcSpec => []CrtcTypeOK
  BY CrtcInitType, CrtcStutter, OutType, PTL DEF CrtcSpec
-----------------------------------------------------------------------------
(***************************************************************************)
(* One OUT keeps the drawing function and the converter in step with the   *)
(* mode registers.                                                         *)
(***************************************************************************)
LEMMA OutModes == CrtcTypeOK /\ ModesAgree /\ Out => ModesAgree'
  <1> SUFFICES ASSUME CrtcTypeOK, ModesAgree, Out
               PROVE  ModesAgree'
    OBVIOUS
  <1> USE DEF ModesAgree, PowerOnGeometry
  <1>1. CASE UNCHANGED modeVars
    BY <1>1 DEF modeVars
  <1>2. ASSUME NEW dat \in DataBytes, LineParam(dat), ~UNCHANGED modeVars
        PROVE  ModesAgree'
    <2>1. /\ scrn_mode' = ScrnMode(line_mode', width_mode')
          /\ fnc' = scrn_mode'
          /\ convfunc' = convfunc /\ color_mode' = color_mode
      BY <1>2 DEF LineParam, ChgCrtMode, modeVars
    <2> QED
      BY <2>1
  <1>3. ASSUME NEW dat \in DataBytes, Mode(dat)
        PROVE  ModesAgree'
    <2>1. convfunc' = color_mode'
      BY <1>3 DEF Mode, SetColor
    <2>2. CASE UNCHANGED <<width_mode, scrn_mode, fnc>>
      BY <1>3, <2>1, <2>2 DEF Mode
    <2>3. CASE ~UNCHANGED <<width_mode, scrn_mode, fnc>>
      BY <1>3, <2>1, <2>3 DEF Mode, SetWidth, ChgCrtMode
    <2> QED
      BY <2>2, <2>3
  <1>4. \/ UNCHANGED modeVars
        \/ \E dat \in DataBytes : LineParam(dat) \/ Mode(dat)
    BY DEF Out, Cmd, Ocw1, Ocw2, Ocw5, OtherOcw, Data, NoParam, OtherFormatParam,
           PositionParam, DmacCmd, DmacCh2
  <1> QED
    BY <1>1, <1>2, <1>3, <1>4

(***************************************************************************)
(* The drawing function and the converter follow the mode registers.       *)
(***************************************************************************)
THEOREM ModesFollow == CrtcSpec => []ModesAgree
  <1>1. CrtcInit => ModesAgree
    BY DEF CrtcInit, ModesAgree, PowerOnGeometry
  <1>2. ModesAgree /\ UNCHANGED crtcVars => ModesAgree'
    BY DEF ModesAgree, PowerOnGeometry, crtcVars, modeVars
  <1> QED
    BY <1>1, <1>2, OutModes, CrtcTypeCorrect, PTL DEF CrtcSpec
-----------------------------------------------------------------------------
(***************************************************************************)
(* One OUT never counts a parameter past those of the pending command.     *)
(***************************************************************************)
LEMMA OutCount == CrtcTypeOK /\ CountIsParameter /\ Out => CountIsParameter'
  <1> SUFFICES ASSUME CrtcTypeOK, CountIsParameter, Out
               PROVE  CountIsParameter'
    OBVIOUS
  <1> USE DEF CountIsParameter
  <1>1. ASSUME NEW byte \in CmdBytes, Cmd(byte)
        PROVE  CountIsParameter'
    BY <1>1 DEF Cmd, Ocw1, Ocw2, Ocw5, OtherOcw
  <1>2. ASSUME NEW dat \in DataBytes, Data(dat)
        PROVE  CountIsParameter'
    <2>1. param_count \in Nat /\ param_count' = (param_count + 1) % CountSpan
      BY <1>2 DEF CrtcTypeOK, Data, Counted
    <2>2. CountSpan \in Nat /\ CountSpan > 5
      BY CrtcAssumption DEF CrtcAssumption
    <2>3. param_count + 1 < CountSpan => param_count' = param_count + 1
      BY <2>1, <2>2
    <2>4. param_count + 1 >= CountSpan => param_count' = 0
      BY <2>1, <2>2 DEF CrtcTypeOK
    <2>5. CASE NoParam
      BY <2>5 DEF NoParam
    <2>6. CASE LineParam(dat)
      BY <2>6, <2>1, <2>2, <2>3, <2>4 DEF LineParam
    <2>7. CASE OtherFormatParam
      BY <2>7, <2>1, <2>2, <2>3, <2>4 DEF OtherFormatParam
    <2>8. CASE PositionParam(dat)
      BY <2>8, <2>1, <2>2, <2>3, <2>4 DEF PositionParam
    <2> QED
      BY <1>2, <2>5, <2>6, <2>7, <2>8 DEF Data
  <1>3. ASSUME UNCHANGED <<prev_cmd, param_count>>
        PROVE  CountIsParameter'
    BY <1>3
  <1> QED
    BY <1>1, <1>2, <1>3 DEF Out, Mode, DmacCmd, DmacCh2

(***************************************************************************)
(* The counter that decides what a parameter byte means never wraps while  *)
(* a command waits for parameters.                                         *)
(***************************************************************************)
THEOREM CountStaysParameter == CrtcSpec => []CountIsParameter
  <1>1. CrtcInit => CountIsParameter
    BY DEF CrtcInit, CountIsParameter
  <1>2. CountIsParameter /\ UNCHANGED crtcVars => CountIsParameter'
    BY DEF CountIsParameter, crtcVars
  <1> QED
    BY <1>1, <1>2, OutCount, CrtcTypeCorrect, PTL DEF CrtcSpec
-----------------------------------------------------------------------------
(***************************************************************************)
(* The flip-flop tells whether the number of bytes sent for the address is *)
(* odd, and the low byte is the one that waits for its high byte. Without  *)
(* it the next byte could be taken for either half, and the window would   *)
(* not follow from the bytes sent.                                         *)
(***************************************************************************)
DmaInv ==
  /\ DmaWindow
  /\ dma_wait_hl = IF Len(dma_sent) \in {0, 2} THEN 0 ELSE 1
  /\ dma_wait_hl = 1 => dma_low = dma_sent[Len(dma_sent)]

(***************************************************************************)
(* One byte more of the address.                                           *)
(***************************************************************************)
LEMMA Ch2Window ==
  ASSUME NEW dat \in DmaBytes, CrtcTypeOK, DmaInv, DmacCh2(dat)
  PROVE  DmaInv'
  <1> DEFINE Bytes == 0..255
  <1>1. dat \in Bytes
    BY CrtcAssumption DEF CrtcAssumption
  <1>2. dma_sent \in Seq(Bytes) /\ Len(dma_sent) <= 3
    BY DEF CrtcTypeOK, SentTypeOK
  <1> HIDE DEF Bytes
  <1>3. Len(dma_sent) \in {0, 1, 2, 3}
    BY <1>2, LenProperties, UpToThree, Zenon
  <1>4. dma_sent' = SentOn(dat)
    BY DEF DmacCh2
  <1>5. CASE Len(dma_sent) \in {0, 2}
    <2>1. /\ Len(SentOn(dat)) = Len(dma_sent) + 1
          /\ SentOn(dat)[Len(dma_sent) + 1] = dat
          /\ \A i \in 1 .. Len(dma_sent) : SentOn(dat)[i] = dma_sent[i]
      BY <1>1, <1>2, <1>5, SentType, Zenon
    <2>2. /\ dma_wait_hl' = 1 /\ dma_low' = dat
          /\ dma_begin' = dma_begin /\ dma_end' = dma_end
      BY <1>5 DEF DmacCh2, DmaInv
    <2>3. DmaWindow'
      <3>1. CASE Len(dma_sent) = 0
        BY <1>4, <2>1, <2>2, <3>1 DEF DmaInv, DmaWindow
      <3>2. CASE Len(dma_sent) = 2
        <4>1. Len(dma_sent') = 3 /\ dma_sent'[1] = dma_sent[1] /\ dma_sent'[2] = dma_sent[2]
          BY <1>4, <2>1, <3>2
        <4> QED
          BY <2>2, <3>2, <4>1 DEF DmaInv, DmaWindow
      <3> QED
        BY <1>5, <3>1, <3>2
    <2>4. Len(dma_sent') \notin {0, 2}
      BY <1>4, <1>5, <2>1
    <2>5. dma_low' = dma_sent'[Len(dma_sent')]
      BY <1>4, <2>1, <2>2, Zenon
    <2> QED
      BY <2>2, <2>3, <2>4, <2>5, Zenon DEF DmaInv
  <1>6. CASE Len(dma_sent) \in {1, 3}
    <2>1. dma_wait_hl = 1 /\ dma_low = dma_sent[Len(dma_sent)]
      <3>1. Len(dma_sent) \notin {0, 2}
        BY <1>6
      <3> QED
        BY <3>1, Zenon DEF DmaInv
    <2>2. dma_sent' = <<dma_low, dat>>
      <3>1. SentOn(dat) = <<dma_sent[Len(dma_sent)], dat>>
        BY <1>1, <1>2, <1>6, SentType, Zenon
      <3> QED
        BY <1>4, <2>1, <3>1, Zenon
    <2>3. /\ dma_wait_hl' = 0
          /\ dma_begin' = dat * 256 + dma_low
          /\ dma_end' = dat * 256 + dma_low + 3000
      BY <2>1 DEF DmacCh2
    <2>4. Len(dma_sent') = 2 /\ dma_sent'[1] = dma_low /\ dma_sent'[2] = dat
      BY <2>2
    <2>5. DmaWindow'
      <3>1. dma_begin' = dma_sent'[2] * 256 + dma_sent'[1]
        BY <2>3, <2>4, Zenon
      <3>2. dma_end' = dma_begin' + 3000
        BY <2>3
      <3> QED
        BY <2>4, <3>1, <3>2 DEF DmaWindow
    <2> QED
      BY <2>3, <2>4, <2>5 DEF DmaInv
  <1> QED
    BY <1>3, <1>5, <1>6

(***************************************************************************)
(* One OUT keeps the window that of the last address sent as a whole.      *)
(***************************************************************************)
LEMMA OutWindow == CrtcTypeOK /\ DmaInv /\ Out => DmaInv'
  <1> SUFFICES ASSUME CrtcTypeOK, DmaInv, Out
               PROVE  DmaInv'
    OBVIOUS
  <1>1. CASE UNCHANGED dmaVars
    BY <1>1 DEF DmaInv, DmaWindow, dmaVars
  <1>2. UNCHANGED dmaVars \/ \E dat \in DmaBytes : DmacCh2(dat)
    BY DEF Out, Cmd, Ocw1, Ocw2, Ocw5, OtherOcw, Data, Mode, DmacCmd
  <1> QED
    BY <1>1, <1>2, Ch2Window

(***************************************************************************)
(* The DMA window is that of the address sent last as a whole, for any     *)
(* bytes and any OUTs between them: half an address does not show, and the *)
(* halves of two addresses are never put together.                         *)
(***************************************************************************)
THEOREM WindowWhole == CrtcSpec => []DmaWindow
  <1>1. CrtcInit => DmaInv
    BY DEF CrtcInit, DmaInv, DmaWindow
  <1>2. DmaInv /\ UNCHANGED crtcVars => DmaInv'
    BY DEF DmaInv, DmaWindow, crtcVars, dmaVars
  <1>3. DmaInv => DmaWindow
    BY DEF DmaInv
  <1> QED
    BY <1>1, <1>2, <1>3, OutWindow, CrtcTypeCorrect, PTL DEF CrtcSpec
-----------------------------------------------------------------------------
(***************************************************************************)
(* One OUT that changes what is drawn of the cursor marks the lines where  *)
(* it was and is.                                                          *)
(***************************************************************************)
LEMMA OutCursor == CrtcTypeOK /\ Out => CursorMarked
  <1> SUFFICES ASSUME CrtcTypeOK, Out
               PROVE  CursorMarked
    OBVIOUS
  <1>1. CASE UNCHANGED cursorVars
    BY <1>1 DEF CursorMarked, DrawnCells, Rows, cursorVars
  <1>2. ASSUME CursorEnable, UNCHANGED <<cursor, cur_blink>>
        PROVE  CursorMarked
    <2>1. DrawnCells \ DrawnCells' = {}
      BY <1>2 DEF CursorEnable, DrawnCells, CrtcTypeOK, CursorTypeOK
    <2>2. CASE cur_enable = 1
      <3>1. UNCHANGED cursorVars
        BY <1>2, <2>2 DEF CursorEnable, cursorVars
      <3> QED
        BY <3>1, <1>1
    <2>3. CASE cur_enable # 1
      BY <2>1, <2>3 DEF CursorMarked, Rows
    <2> QED
      BY <2>2, <2>3
  <1>3. ASSUME CursorDisable, UNCHANGED <<cursor, cur_blink>>
        PROVE  CursorMarked
    <2>1. DrawnCells' = {}
      BY <1>3 DEF CursorDisable, DrawnCells
    <2>2. CASE cur_enable = 0
      <3>1. DrawnCells = {}
        BY <2>2 DEF DrawnCells
      <3> QED
        BY <2>1, <3>1 DEF CursorMarked, Rows
    <2>3. CASE cur_enable # 0
      <3>1. \A l \in LineNos : l = cursor.row => attrchg'[l] = 1
        BY <1>3, <2>3 DEF CursorDisable, Set
      <3>2. \A l \in Rows(DrawnCells \ DrawnCells') : l = cursor.row
        BY DEF Rows, DrawnCells
      <3> QED
        BY <2>1, <3>1, <3>2 DEF CursorMarked, Rows
    <2> QED
      BY <2>2, <2>3
  <1>4. ASSUME NEW x, NEW y, CursorMove(x, y), UNCHANGED cur_enable
        PROVE  CursorMarked
    <2>1. cursor'.row = y /\ cursor'.col = x
      BY <1>4 DEF CursorMove
    <2>2. CASE cur_enable = 0
      BY <1>4, <2>2 DEF CursorMarked, DrawnCells, Rows
    <2>3. CASE cur_enable # 0 /\ MovedRows(x, y) = {}
      <3>1. y = cursor.row /\ x = cursor.col /\ cur_blink' = cur_blink
        BY <1>4, <2>3 DEF MovedRows, CursorMove
      <3>2. DrawnCells' = DrawnCells
        BY <1>4, <2>1, <3>1 DEF DrawnCells
      <3> QED
        BY <3>2 DEF CursorMarked, Rows
    <2>4. CASE cur_enable # 0 /\ MovedRows(x, y) # {}
      <3>1. cursor.row \in MovedRows(x, y) /\ y \in MovedRows(x, y)
        BY <2>4 DEF MovedRows
      <3>2. \A l \in LineNos : l = cursor.row \/ l = y => attrchg'[l] = 1
        BY <1>4, <3>1 DEF CursorMove, Set
      <3>3. \A l \in Rows(DrawnCells \ DrawnCells') : l = cursor.row
        BY DEF Rows, DrawnCells
      <3>4. \A l \in Rows(DrawnCells' \ DrawnCells) : l = y
        BY <2>1 DEF Rows, DrawnCells
      <3> QED
        BY <3>2, <3>3, <3>4 DEF CursorMarked
    <2> QED
      BY <2>2, <2>3, <2>4
  <1>5. \/ UNCHANGED cursorVars
        \/ (CursorEnable \/ CursorDisable) /\ UNCHANGED <<cursor, cur_blink>>
        \/ UNCHANGED cur_enable /\ \E x, y : CursorMove(x, y)
    BY DEF Out, Cmd, Ocw1, Ocw2, Ocw5, OtherOcw, Data, NoParam, LineParam, OtherFormatParam,
           PositionParam, Mode, DmacCmd, DmacCh2
  <1> QED
    BY <1>1, <1>2, <1>3, <1>4, <1>5

(***************************************************************************)
(* The CRTC's commands leave no ghost of the cursor on the screen.         *)
(***************************************************************************)
THEOREM CursorLeavesNoGhost == CrtcSpec => NoGhostCursor
  <1>1. CrtcTypeOK /\ [Out]_crtcVars => [CursorMarked]_crtcVars
    BY OutCursor
  <1> QED
    BY <1>1, CrtcTypeCorrect, PTL DEF CrtcSpec, NoGhostCursor
-----------------------------------------------------------------------------
(***************************************************************************)
(* One OUT that changes a mode every line is drawn with marks every line.  *)
(***************************************************************************)
LEMMA OutMode == CrtcTypeOK /\ Out => ModeMarked
  <1>1. Invalid => ModeMarked
    BY DEF Invalid, ModeMarked
  <1>2. UNCHANGED <<scrn_mode, color_mode, attr_reverse>> => ModeMarked
    BY DEF ModeMarked
  <1>3. ASSUME NEW byte \in CmdBytes, Cmd(byte)
        PROVE  Invalid \/ UNCHANGED <<scrn_mode, color_mode, attr_reverse>>
    BY <1>3 DEF Cmd, Ocw1, Ocw2, Ocw5, OtherOcw, modeVars
  <1>4. ASSUME NEW dat \in DataBytes, Data(dat)
        PROVE  Invalid \/ UNCHANGED <<scrn_mode, color_mode, attr_reverse>>
    BY <1>4 DEF Data, NoParam, LineParam, OtherFormatParam, PositionParam, modeVars
  <1>5. ASSUME NEW dat \in DataBytes, Mode(dat)
        PROVE  Invalid \/ UNCHANGED <<scrn_mode, color_mode, attr_reverse>>
    BY <1>5 DEF Mode, SetWidth, SetColor
  <1> QED
    BY <1>1, <1>2, <1>3, <1>4, <1>5 DEF Out, DmacCmd, DmacCh2, modeVars

(***************************************************************************)
(* No mode that every line is drawn with changes without a mark on every   *)
(* line.                                                                   *)
(***************************************************************************)
THEOREM ModeChangeSeen == CrtcSpec => ModeChangeMarksAll
  <1>1. CrtcTypeOK /\ [Out]_crtcVars => [ModeMarked]_crtcVars
    BY OutMode
  <1> QED
    BY <1>1, CrtcTypeCorrect, PTL DEF CrtcSpec, ModeChangeMarksAll

-----------------------------------------------------------------------------
(* The controllers and the VRTC *)


\* The step in progress: it takes time, and leaves the DMA room in a line.
StepInv == zpc = "vrtc" => T > 0 /\ DmaT + T <= LineT

\* elapsed counts what the frame's own counters show.
ClockInv ==
  /\ Displaying =>
       /\ vrtc_flag = 0
       /\ hsync_state < LineT
       /\ elapsed = VbiT + vsync_line * LineT + hsync_state
  /\ ~Displaying =>
       /\ vrtc_flag = Blanked
       /\ vsync_state <= VbiT
       /\ elapsed = vsync_state

\* Clocks of the step in progress that no counter has seen yet.
Pending == IF zpc = "vrtc" THEN T ELSE 0

\* What the DMA is owed fits in what is left of the line, or of the interval.
DebtInv ==
  penarty > 0 =>
    /\ Displaying => hsync_state + Pending + penarty < LineT
    /\ ~Displaying => vsync_state + Pending + penarty <= VbiT

IInv == VrtcTypeOK /\ StepInv /\ ClockInv /\ DebtInv
-----------------------------------------------------------------------------
(***************************************************************************)
(* The assumptions on the constants, as the steps below use them.          *)
(***************************************************************************)
LEMMA Constants ==
  /\ ScanLines \in Nat /\ ScanLines > 0
  /\ LineT \in Nat /\ VbiT \in Nat /\ DmaT \in Nat /\ DmaT > 0
  /\ SliceT \in Nat /\ SliceT > 0
  /\ BlinkFrames \in Nat /\ BlinkFrames > 0
  /\ SyncT \in Nat
  /\ DmaT < VbiT /\ DmaT + SliceT <= LineT
  /\ \A t \in StepTs : t \in Nat /\ t > 0 /\ DmaT + t <= LineT
  BY VrtcAssumption DEF VrtcAssumption

(***************************************************************************)
(* One line more is LineT clocks more.                                     *)
(***************************************************************************)
LEMMA OneLineMore ==
  ASSUME NEW n \in Nat, NEW t \in Nat
  PROVE  /\ (n + 1) * t = n * t + t
         /\ n * t \in Nat
         /\ 0 * t = 0
  OBVIOUS

(***************************************************************************)
(* The start of the blanking interval keeps the controllers' types.        *)
(***************************************************************************)
LEMMA EdgeType ==
  ASSUME VrtcTypeOK, BlankingStart
  PROVE  CrtcTypeOK' /\ vrtc_blink' \in 0 .. BlinkFrames - 1
  <1>1. attrchg' \in [LineNos -> {0, 1}]
    BY MarksType DEF VrtcTypeOK, CrtcTypeOK, BlankingStart, Edge
  <1>2. cur_blink' \in {0, 1}
    BY DEF VrtcTypeOK, CrtcTypeOK, CursorTypeOK, BlankingStart, Edge
  <1>3. vrtc_blink' \in 0 .. BlinkFrames - 1
    BY Constants DEF VrtcTypeOK, BlankingStart, Edge
  <1> QED
    BY <1>1, <1>2, <1>3, DmaKept DEF VrtcTypeOK, CrtcTypeOK, ModeTypeOK, CursorTypeOK,
                                     BlankingStart, modeVars
-----------------------------------------------------------------------------
(***************************************************************************)
(* The invariant holds at power on: a frame starts as if an interval had   *)
(* just ended.                                                             *)
(***************************************************************************)
LEMMA InitInv == Init => IInv
  <1> SUFFICES ASSUME Init
               PROVE  IInv
    OBVIOUS
  <1>1. CrtcTypeOK
    BY CrtcInitType DEF Init
  <1>2. VrtcTypeOK
    <2>1. suspendMachine \in BOOLEAN /\ needDrawFlag \in BOOLEAN
      BY DEF Init
    <2>2. zpc \in ZPoints /\ vrtc_flag \in {0, Blanked}
      BY DEF Init, ZPoints
    <2>3. /\ vsync_line \in 0 .. ScanLines /\ vrtc_blink \in 0 .. BlinkFrames - 1
          /\ hsync_state \in Nat /\ vsync_state \in Nat /\ penarty \in 0 .. DmaT
          /\ T \in Nat /\ state \in Nat /\ elapsed \in Nat
      BY Constants DEF Init
    <2> QED
      BY <1>1, <2>1, <2>2, <2>3 DEF VrtcTypeOK
  <1>3. StepInv /\ DebtInv
    BY DEF Init, StepInv, DebtInv
  <1>4. ClockInv
    BY Constants, OneLineMore DEF Init, ClockInv, Displaying
  <1> QED
    BY <1>2, <1>3, <1>4 DEF IInv

(***************************************************************************)
(* blanking(T), in each of its five cases, keeps the invariant.            *)
(***************************************************************************)
LEMMA BlankingInv == IInv /\ Blanking => IInv'
  <1> SUFFICES ASSUME IInv, Blanking
               PROVE  IInv'
    OBVIOUS
  <1>t. /\ VrtcTypeOK /\ zpc = "vrtc" /\ zpc' = "sync"
        /\ T \in Nat /\ T > 0 /\ DmaT + T <= LineT
        /\ Pending = T /\ Pending' = 0
        /\ vsync_line \in Nat /\ hsync_state \in Nat /\ vsync_state \in Nat /\ elapsed \in Nat
        /\ penarty \in Nat /\ penarty <= DmaT
        /\ UNCHANGED <<suspendMachine, T, state>>
    BY Constants DEF IInv, StepInv, Blanking, Pending, VrtcTypeOK
  <1>s. StepInv'
    BY <1>t DEF StepInv
  <1>1. CASE WithinLine
    <2>1. VrtcTypeOK'
      BY <1>1, <1>t, CrtcStutter DEF WithinLine, VrtcTypeOK, ZPoints
    <2>2. ClockInv'
      BY <1>1, <1>t, Constants, OneLineMore DEF WithinLine, IInv, ClockInv, Displaying
    <2>3. DebtInv'
      BY <1>1, <1>t, Constants DEF WithinLine, IInv, DebtInv, Displaying
    <2> QED
      BY <1>s, <2>1, <2>2, <2>3 DEF IInv
  <1>2. CASE EndOfLine
    <2>1. hsync_state' \in Nat /\ hsync_state' + DmaT < LineT /\ penarty' \in 0 .. DmaT
      BY <1>2, <1>t, Constants DEF EndOfLine, LinePenalty, IInv, ClockInv
    <2>2. VrtcTypeOK'
      BY <1>2, <1>t, <2>1, CrtcStutter, Constants DEF EndOfLine, VrtcTypeOK, ZPoints
    <2>3. ClockInv'
      <3>1. elapsed' = VbiT + (vsync_line * LineT + LineT) + (hsync_state + T - LineT)
        BY <1>2, <1>t, Constants, OneLineMore DEF EndOfLine, IInv, ClockInv
      <3>2. (vsync_line + 1) * LineT = vsync_line * LineT + LineT
        BY <1>t, Constants, OneLineMore
      <3> QED
        BY <1>2, <1>t, <2>1, <3>1, <3>2, Constants DEF EndOfLine, IInv, ClockInv, Displaying
    <2>4. DebtInv'
      BY <1>2, <1>t, <2>1, Constants DEF EndOfLine, DebtInv, Displaying
    <2> QED
      BY <1>s, <2>2, <2>3, <2>4 DEF IInv
  <1>3. CASE BlankingStart
    <2>1. penarty' \in 0 .. DmaT
      BY <1>3, Constants DEF BlankingStart, LinePenalty
    <2>2. VrtcTypeOK'
      BY <1>3, <1>t, <2>1, EdgeType, Constants
         DEF BlankingStart, VrtcTypeOK, ZPoints, Displaying
    <2>3. ClockInv'
      BY <1>3, <1>t, Constants DEF BlankingStart, ClockInv, Displaying
    <2>4. DebtInv'
      BY <1>3, <1>t, <2>1, Constants DEF BlankingStart, DebtInv, Displaying
    <2> QED
      BY <1>s, <2>2, <2>3, <2>4 DEF IInv
  <1>4. CASE WithinBlanking
    <2>1. VrtcTypeOK'
      BY <1>4, <1>t, CrtcStutter DEF WithinBlanking, VrtcTypeOK, ZPoints
    <2>2. ClockInv'
      BY <1>4, <1>t, Constants DEF WithinBlanking, IInv, ClockInv, Displaying
    <2>3. DebtInv'
      BY <1>4, <1>t, Constants DEF WithinBlanking, IInv, DebtInv, Displaying
    <2> QED
      BY <1>s, <2>1, <2>2, <2>3 DEF IInv
  <1>5. CASE BlankingEnd
    <2>1. penarty = 0
      BY <1>5, <1>t, Constants DEF BlankingEnd, IInv, DebtInv
    <2>2. VrtcTypeOK'
      BY <1>5, <1>t, CrtcStutter, Constants DEF BlankingEnd, VrtcTypeOK, ZPoints, Blanked
    <2>3. ClockInv'
      BY <1>5, <1>t, Constants, OneLineMore DEF BlankingEnd, IInv, ClockInv, Displaying
    <2>4. DebtInv'
      BY <1>5, <2>1 DEF BlankingEnd, DebtInv
    <2> QED
      BY <1>s, <2>2, <2>3, <2>4 DEF IInv
  <1> QED
    BY <1>1, <1>2, <1>3, <1>4, <1>5 DEF Blanking

(***************************************************************************)
(* Every step of the machine keeps the invariant.                          *)
(***************************************************************************)
LEMMA NextInv == IInv /\ [Next]_vars => IInv'
  <1> SUFFICES ASSUME IInv, [Next]_vars
               PROVE  IInv'
    OBVIOUS
  <1> USE DEF IInv, StepInv, ClockInv, DebtInv, Pending, Displaying, frameVars
  <1>1. CASE Suspended
    <2>1. VrtcTypeOK'
      BY <1>1, CrtcStutter, Constants DEF Suspended, VrtcTypeOK
    <2> QED
      BY <1>1, <2>1 DEF Suspended
  <1>2. CASE DmaWait
    <2>1. /\ T' \in Nat /\ T' > 0 /\ T' <= SliceT
          /\ penarty' \in Nat /\ penarty' + T' = penarty
      BY <1>2, Constants DEF DmaWait, VrtcTypeOK
    <2>2. VrtcTypeOK'
      BY <1>2, <2>1, CrtcStutter, Constants DEF DmaWait, VrtcTypeOK, ZPoints
    <2>3. StepInv' /\ ClockInv'
      BY <1>2, <2>1, Constants DEF DmaWait, VrtcTypeOK
    <2>4. DebtInv'
      BY <1>2, <2>1, Constants DEF DmaWait, VrtcTypeOK
    <2> QED
      BY <2>2, <2>3, <2>4
  <1>3. CASE CpuStep
    <2>1. CrtcTypeOK'
      BY <1>3, OutType, CrtcStutter DEF CpuStep, VrtcTypeOK
    <2>2. VrtcTypeOK'
      BY <1>3, <2>1, Constants DEF CpuStep, VrtcTypeOK, ZPoints
    <2> QED
      BY <1>3, <2>2, Constants DEF CpuStep
  <1>4. CASE CpuHalt
    <2>1. VrtcTypeOK'
      BY <1>4, CrtcStutter DEF CpuHalt, VrtcTypeOK, ZPoints
    <2> QED
      BY <1>4, <2>1 DEF CpuHalt
  <1>5. CASE Blanking
    BY <1>5, BlankingInv
  <1>6. CASE Pace
    <2>1. VrtcTypeOK'
      BY <1>6, CrtcStutter, Constants DEF Pace, VrtcTypeOK, ZPoints
    <2> QED
      BY <1>6, <2>1 DEF Pace
  <1>7. CASE Suspend \/ Resume \/ Drawn
    <2>1. VrtcTypeOK'
      BY <1>7, CrtcStutter DEF Suspend, Resume, Drawn, VrtcTypeOK
    <2> QED
      BY <1>7, <2>1 DEF Suspend, Resume, Drawn
  <1>8. CASE UNCHANGED vars
    <2>1. VrtcTypeOK'
      BY <1>8, CrtcStutter DEF vars, timeVars, VrtcTypeOK
    <2> QED
      BY <1>8, <2>1 DEF vars, timeVars
  <1> QED
    BY <1>1, <1>2, <1>3, <1>4, <1>5, <1>6, <1>7, <1>8 DEF Next, Z80Thread

(***************************************************************************)
(* The inductive invariant of the machine's time.                          *)
(***************************************************************************)
THEOREM TimeInvariant == Spec => []IInv
  BY InitInv, NextInv, PTL DEF Spec

(***************************************************************************)
(* Type correctness of the timed machine.                                  *)
(***************************************************************************)
THEOREM VrtcTypeCorrect == Spec => []VrtcTypeOK
  <1>1. IInv => VrtcTypeOK
    BY DEF IInv
  <1> QED
    BY <1>1, TimeInvariant, PTL
-----------------------------------------------------------------------------
(***************************************************************************)
(* The display never starves the CPU: no line ends before the CPU has      *)
(* served the DMA clocks of the line before.                               *)
(***************************************************************************)
THEOREM DmaLeavesCpuTime == Spec => NoPenaltyLost
  <1>1. IInv /\ [Next]_vars => [PenaltyServed]_vars
    <2> SUFFICES ASSUME IInv, Next, vsync_line' = vsync_line + 1
                 PROVE  penarty = 0
      BY DEF PenaltyServed
    <2>t. vsync_line \in Nat /\ hsync_state \in Nat /\ T \in Nat /\ penarty \in Nat
      BY Constants DEF IInv, VrtcTypeOK
    <2>1. Blanking
      BY <2>t DEF Next, Z80Thread, Suspended, DmaWait, CpuStep, CpuHalt, Pace, Suspend,
                  Resume, Drawn, frameVars
    <2>2. EndOfLine \/ BlankingStart
      BY <2>1, <2>t DEF Blanking, WithinLine, WithinBlanking, BlankingEnd
    <2>3. Displaying /\ hsync_state + T >= LineT /\ Pending = T
      BY <2>1, <2>2 DEF Blanking, EndOfLine, BlankingStart, Pending
    <2> QED
      BY <2>t, <2>3, Constants DEF IInv, DebtInv
  <1> QED
    BY <1>1, TimeInvariant, PTL DEF Spec, NoPenaltyLost

(***************************************************************************)
(* The picture keeps its rate, for any lengths of the CPU's steps.         *)
(***************************************************************************)
THEOREM FrameRateKept == Spec => FrameTiming
  <1>1. IInv /\ [Next]_vars => [FrameInTime]_vars
    <2> SUFFICES ASSUME IInv, Next
                 PROVE  FrameInTime
      OBVIOUS
    <2>t. /\ vsync_line \in Nat /\ hsync_state \in Nat /\ vsync_state \in Nat
          /\ T \in Nat /\ elapsed \in Nat
      BY Constants DEF IInv, VrtcTypeOK
    <2>1. CASE ~Blanking
      BY <2>1 DEF Next, Z80Thread, Suspended, DmaWait, CpuStep, CpuHalt, Pace, Suspend,
                  Resume, Drawn, frameVars, FrameInTime, Blanked
    <2>2. CASE Blanking /\ (WithinLine \/ EndOfLine \/ WithinBlanking)
      BY <2>2 DEF WithinLine, EndOfLine, WithinBlanking, FrameInTime, Blanked
    <2>3. CASE Blanking /\ BlankingStart
      <3>1. vsync_line + 1 = ScanLines
        BY <2>t, <2>3, Constants DEF BlankingStart, Displaying
      <3>2. ScanLines * LineT = vsync_line * LineT + LineT
        BY <2>t, <3>1, OneLineMore, Constants
      <3>3. elapsed = VbiT + vsync_line * LineT + hsync_state /\ hsync_state < LineT
        BY <2>3 DEF BlankingStart, IInv, ClockInv
      <3>4. vsync_line * LineT \in Nat
        BY <2>t, OneLineMore, Constants
      <3>5. elapsed + T - (VbiT + ScanLines * LineT) = hsync_state + T - LineT
        BY <2>t, <3>2, <3>3, <3>4, Constants
      <3>6. hsync_state + T - LineT \in 0 .. T - 1
        BY <2>t, <2>3, <3>3, Constants DEF BlankingStart
      <3> QED
        BY <2>3, <3>5, <3>6 DEF BlankingStart, FrameInTime, Blanked
    <2>4. CASE Blanking /\ BlankingEnd
      <3>1. elapsed' - VbiT \in 1 .. T
        BY <2>t, <2>4, Constants DEF BlankingEnd, IInv, ClockInv
      <3> QED
        BY <2>4, <3>1 DEF BlankingEnd, FrameInTime, Blanked
    <2> QED
      BY <2>1, <2>2, <2>3, <2>4 DEF Blanking
  <1> QED
    BY <1>1, TimeInvariant, PTL DEF Spec, FrameTiming

(***************************************************************************)
(* In the timed machine, too, nothing leaves a ghost of the cursor: not    *)
(* the CRTC's commands, nor the blinking.                                  *)
(***************************************************************************)
THEOREM TimedCursorLeavesNoGhost == Spec => NoGhostCursor
  <1>1. IInv /\ [Next]_vars => [CursorMarked]_crtcVars
    <2> SUFFICES ASSUME IInv, Next, ~UNCHANGED crtcVars
                 PROVE  CursorMarked
      BY DEF vars
    <2>t. CrtcTypeOK
      BY DEF IInv, VrtcTypeOK
    <2>1. CASE CpuStep
      BY <2>1, <2>t, OutCursor DEF CpuStep
    <2>2. CASE BlankingStart
      <3>1. CASE UNCHANGED cur_blink
        BY <2>2, <3>1 DEF BlankingStart, CursorMarked, DrawnCells, Rows
      <3>2. CASE cur_enable # 1
        BY <2>2, <3>2 DEF BlankingStart, CursorMarked, DrawnCells, Rows
      <3>3. CASE cur_enable = 1 /\ ~UNCHANGED cur_blink
        <4>1. \A l \in LineNos : l = cursor.row => attrchg'[l] = 1
          BY <2>2, <3>3 DEF BlankingStart, Edge, Set
        <4>2. \A l \in Rows(DrawnCells \ DrawnCells') : l = cursor.row
          BY DEF Rows, DrawnCells
        <4>3. \A l \in Rows(DrawnCells' \ DrawnCells) : l = cursor.row
          BY <2>2 DEF Rows, DrawnCells, BlankingStart
        <4> QED
          BY <4>1, <4>2, <4>3 DEF CursorMarked
      <3> QED
        BY <3>1, <3>2, <3>3
    <2>3. CpuStep \/ BlankingStart
      BY DEF Next, Z80Thread, Suspended, DmaWait, CpuHalt, Blanking, WithinLine, EndOfLine,
             WithinBlanking, BlankingEnd, Pace, Suspend, Resume, Drawn
    <2> QED
      BY <2>1, <2>2, <2>3
  <1> QED
    BY <1>1, TimeInvariant, PTL DEF Spec, NoGhostCursor
-----------------------------------------------------------------------------
(* The devices behind the ports *)

\* A write to a port.
LEMMA OutTyped ==
  ASSUME uses \in Uses, NEW out \in Outs[uses]
  PROVE  out[1] \in 0..255 /\ out[2] \in 0..255 /\ ForDisplay(out[1], out[2])
  BY DevicesAssumption

\* The device a step concerns; it leaves the others alone.
LEMMA StepOfDevices ==
  ASSUME uses \in Uses, [DevicesNext]_devicesVars
  PROVE  /\ uses' \in Uses
         /\ \/ UNCHANGED crtcVars
            \/ \E port \in 0..255, v \in 0..255 : ForDisplay(port, v) /\ DisplayPort(port, v)
         /\ \/ UNCHANGED calendarVars
            \/ \E v \in 0..255 : Out10(v)
            \/ \E v \in 0..255 : Out40(v)
         /\ \/ UNCHANGED pcgVars
            \/ \E port \in 0..15, v \in 0..255 : PcgPort(port, v)
         /\ \/ UNCHANGED tapeVars
            \/ \E v \in 0..255 : cmd(v)
            \/ read
            \/ \E file \in TapeFiles : InsertTape(file)
<1>1. CASE UNCHANGED devicesVars
  BY <1>1 DEF devicesVars
<1>2. CASE ioread
  BY <1>2 DEF ioread
<1>3. CASE selectCMTFile
  BY <1>3 DEF selectCMTFile
<1>4. CASE iowrite
  <2>1. PICK out \in Outs[uses] :
          LET port == out[1]
              v == out[2]
          IN \/ DisplayPort(port, v) /\ UNCHANGED <<calendarVars, pcgVars, tapeVars>>
             \/ /\ port \div 16 = 0 /\ PcgPort(port % 16, v)
                /\ UNCHANGED <<crtcVars, calendarVars, tapeVars>>
             \/ port \div 16 = 1 /\ Out10(v) /\ UNCHANGED <<crtcVars, pcgVars, tapeVars>>
             \/ /\ port \div 16 = 2
                /\ IF port % 2 = 1 THEN cmd(v) ELSE UNCHANGED tapeVars
                /\ UNCHANGED <<crtcVars, calendarVars, pcgVars>>
             \/ port \div 16 = 4 /\ Out40(v) /\ UNCHANGED <<crtcVars, pcgVars, tapeVars>>
    BY <1>4 DEF iowrite
  <2>2. out[1] \in 0..255 /\ out[2] \in 0..255 /\ ForDisplay(out[1], out[2])
    BY OutTyped
  <2>3. out[1] % 16 \in 0..15
    BY <2>2
  <2>4. uses' \in Uses
    BY <1>4 DEF iowrite
  <2>5. out[1] % 16 \in 0..15 /\ out[1] \in 0..255 /\ out[2] \in 0..255
    BY <2>2, <2>3
  <2>6. QED
    BY <2>1, <2>2, <2>4, <2>5, Zenon
<1>5. QED
  BY <1>1, <1>2, <1>3, <1>4 DEF DevicesNext

LEMMA UsesAlways == DevicesSpec => [](uses \in Uses)
<1>1. DevicesInit => uses \in Uses
  BY DEF DevicesInit
<1>2. uses \in Uses /\ [DevicesNext]_devicesVars => (uses \in Uses)'
  BY StepOfDevices
<1>3. QED
  BY <1>1, <1>2, PTL DEF DevicesSpec
-----------------------------------------------------------------------------
(* The display *)

LEMMA DisplayStep ==
  ASSUME NEW port \in 0..255, NEW v \in 0..255, ForDisplay(port, v), DisplayPort(port, v)
  PROVE  Out
  BY DEF ForDisplay, DisplayPort, Out

\* The program that works with all devices through the dispatch of its ports
\* implements the one that only talks to the display.
THEOREM DispatchImplementsCrtc == DevicesSpec => CrtcSpec
<1>1. DevicesInit => CrtcInit
  BY DEF DevicesInit
<1>2. uses \in Uses /\ [DevicesNext]_devicesVars => [Out]_crtcVars
  BY StepOfDevices, DisplayStep
<1>3. QED
  BY <1>1, <1>2, UsesAlways, PTL DEF DevicesSpec, CrtcSpec

\* So what is proved of the display controllers alone holds behind the dispatch.
THEOREM DisplayFollows ==
  DevicesSpec => []ModesAgree /\ []CountIsParameter /\ []DmaWindow /\ ModeChangeMarksAll
  BY DispatchImplementsCrtc, ModesFollow, CountStaysParameter, WindowWhole, ModeChangeSeen, PTL
-----------------------------------------------------------------------------
(* The calendar *)

CalendarInv ==
  /\ uses \in Uses
  /\ o10 \in 0..255
  /\ falls \in Nat
  /\ tape \in Seq({0, 1})
  /\ Len(tape) = falls + RegBits
  /\ cclk = Bit(o40, CLK)
  /\ sreg = SubSeq(tape, falls + 1, falls + RegBits)
  /\ commanded => i40 = tape[falls + 1]

LEMMA BitType ==
  ASSUME NEW byte \in 0..255, NEW mask \in {2, 4, 8}
  PROVE  Bit(byte, mask) \in {0, 1}
<1>1. CASE mask = 2
  BY <1>1 DEF Bit
<1>2. CASE mask = 4
  BY <1>2 DEF Bit
<1>3. CASE mask = 8
  BY <1>3 DEF Bit
<1>4. QED
  BY <1>1, <1>2, <1>3

\* The window of a longer tape, one on.
LEMMA WindowShifts ==
  ASSUME NEW t \in Seq({0, 1}), NEW n \in Nat, Len(t) = n + RegBits, NEW d \in {0, 1}
  PROVE  /\ Append(t, d) \in Seq({0, 1})
         /\ Len(Append(t, d)) = n + 1 + RegBits
         /\ Append(Tail(SubSeq(t, n + 1, n + RegBits)), d)
              = SubSeq(Append(t, d), n + 1 + 1, n + 1 + RegBits)
<1> DEFINE w == SubSeq(t, n + 1, n + RegBits)
           l == Append(Tail(w), d)
           r == SubSeq(Append(t, d), n + 1 + 1, n + 1 + RegBits)
<1>1. RegBits \in Nat \ {0}
  BY CalendarAssumption
<1>2. w \in Seq({0, 1}) /\ Len(w) = RegBits
  BY <1>1
<1>3. \A k \in 1..RegBits : w[k] = t[n + k]
  BY <1>1
<1>4. Append(t, d) \in Seq({0, 1}) /\ Len(Append(t, d)) = n + 1 + RegBits
  BY <1>1
<1>5. l \in Seq({0, 1}) /\ Len(l) = RegBits
  <2> HIDE DEF w
  <2>1. Tail(w) \in Seq({0, 1}) /\ Len(Tail(w)) = RegBits - 1
    BY <1>1, <1>2
  <2>2. QED
    BY <1>1, <2>1
<1>6. r \in Seq({0, 1}) /\ Len(r) = RegBits
  BY <1>1, <1>4
<1>7. \A k \in 1..RegBits : l[k] = IF k = RegBits THEN d ELSE w[k + 1]
  <2> HIDE DEF w
  <2>1. Tail(w) \in Seq({0, 1}) /\ Len(Tail(w)) = RegBits - 1
    BY <1>1, <1>2
  <2>2. \A k \in 1..(RegBits - 1) : Tail(w)[k] = w[k + 1]
    BY <1>1, <1>2
  <2>3. QED
    BY <1>1, <2>1, <2>2
<1>8. \A k \in 1..RegBits : r[k] = Append(t, d)[n + 1 + k]
  BY <1>1, <1>4
<1>9. \A k \in 1..RegBits : Append(t, d)[n + 1 + k] = IF k = RegBits THEN d ELSE t[n + 1 + k]
  BY <1>1
<1>10. \A k \in 1..RegBits : l[k] = r[k]
  <2> HIDE DEF l, r, w
  <2>1. TAKE k \in 1..RegBits
  <2>2. CASE k = RegBits
    BY <2>2, <1>1, <1>7, <1>8, <1>9
  <2>3. CASE k # RegBits
    <3>1. k + 1 \in 1..RegBits /\ n + (k + 1) = n + 1 + k
      BY <2>3, <1>1
    <3>2. l[k] = w[k + 1] /\ w[k + 1] = t[n + (k + 1)]
      BY <2>3, <3>1, <1>3, <1>7
    <3>3. r[k] = t[n + 1 + k]
      BY <2>3, <1>8, <1>9
    <3>4. QED
      BY <3>1, <3>2, <3>3
  <2>4. QED
    BY <2>2, <2>3
<1>11. l = r
  <2> HIDE DEF l, r
  <2>1. QED
    BY <1>5, <1>6, <1>10
<1>12. QED
  BY <1>4, <1>11

LEMMA CalendarStarts == DevicesInit => CalendarInv
<1>1. SUFFICES ASSUME DevicesInit PROVE CalendarInv
  OBVIOUS
<1>2. RegBits \in Nat \ {0} /\ sreg \in Seq({0, 1}) /\ Len(sreg) = RegBits
  BY <1>1, CalendarAssumption DEF DevicesInit, CalendarInit
<1>3. sreg = SubSeq(sreg, 1, RegBits)
  BY <1>2
<1>4. QED
  BY <1>1, <1>2, <1>3 DEF DevicesInit, CalendarInit, CalendarInv, Bit, CLK

\* The due bit is the first of the register.
LEMMA DueBit ==
  ASSUME NEW t \in Seq({0, 1}), NEW n \in Nat, Len(t) = n + RegBits
  PROVE  SubSeq(t, n + 1, n + RegBits)[1] = t[n + 1]
  BY CalendarAssumption

LEMMA CalendarReads ==
  ASSUME CalendarInv, NEW v \in 0..255, Out40(v), uses' \in Uses, Reading(v)
  PROVE  CalendarInv'
<1>1. sreg' \in Times /\ tape' = sreg' /\ falls' = 0
  BY DEF Out40
<1>2. RegBits \in Nat \ {0} /\ sreg' \in Seq({0, 1}) /\ Len(sreg') = RegBits
  BY <1>1, CalendarAssumption
<1>3. i40' = sreg'[1]
  BY DEF Out40, Reading
<1>4. sreg' = SubSeq(tape', 0 + 1, 0 + RegBits)
  BY <1>1, <1>2
<1>5. o10' \in 0..255 /\ cclk' = Bit(o40', CLK)
  BY DEF Out40, CalendarInv, ClockSeen
<1>6. QED
  BY <1>1, <1>2, <1>3, <1>4, <1>5 DEF CalendarInv

LEMMA CalendarShifts ==
  ASSUME CalendarInv, NEW v \in 0..255, Out40(v), uses' \in Uses, ~Reading(v), Falls(v)
  PROVE  CalendarInv'
<1>1. cclk = 1 /\ Enabled(v) /\ Bit(v, CLK) = 0
  BY DEF CalendarInv, Falls
<1>2. /\ sreg' = Append(Tail(sreg), DataIn) /\ tape' = Append(tape, DataIn)
      /\ falls' = falls + 1 /\ i40' = sreg'[1]
  BY <1>1 DEF Out40
<1>3. DataIn \in {0, 1}
  BY BitType DEF DataIn, CalendarInv
<1>4. /\ tape' \in Seq({0, 1}) /\ Len(tape') = falls' + RegBits /\ falls' \in Nat
      /\ sreg' = SubSeq(tape', falls' + 1, falls' + RegBits)
  <2>1. /\ tape \in Seq({0, 1}) /\ falls \in Nat /\ Len(tape) = falls + RegBits
        /\ sreg = SubSeq(tape, falls + 1, falls + RegBits)
    BY DEF CalendarInv
  <2>2. /\ Append(tape, DataIn) \in Seq({0, 1})
        /\ Len(Append(tape, DataIn)) = falls + 1 + RegBits
        /\ Append(Tail(sreg), DataIn)
             = SubSeq(Append(tape, DataIn), falls + 1 + 1, falls + 1 + RegBits)
    BY <2>1, <1>3, WindowShifts, Zenon
  <2>3. falls + 1 \in Nat
    BY <2>1
  <2>4. QED
    BY <1>2, <2>2, <2>3, Zenon
<1>5. i40' = tape'[falls' + 1]
  BY <1>2, <1>4, DueBit
<1>6. o10' \in 0..255 /\ cclk' = Bit(o40', CLK)
  BY DEF Out40, CalendarInv, ClockSeen
<1>7. QED
  BY <1>4, <1>5, <1>6 DEF CalendarInv

LEMMA CalendarHolds ==
  ASSUME CalendarInv, NEW v \in 0..255, Out40(v), uses' \in Uses, ~Reading(v), ~Falls(v)
  PROVE  CalendarInv'
<1>1. ~(Enabled(v) /\ cclk = 1 /\ Bit(v, CLK) = 0)
  BY DEF CalendarInv, Falls
<1>2. UNCHANGED <<sreg, tape, falls>>
  BY <1>1 DEF Out40
<1>3. commanded' => (commanded /\ i40' = i40) \/ i40' = sreg'[1]
  BY <1>1 DEF Out40
<1>4. sreg[1] = tape[falls + 1]
  BY DueBit DEF CalendarInv
<1>5. o10' \in 0..255 /\ cclk' = Bit(o40', CLK)
  BY DEF Out40, CalendarInv, ClockSeen
<1>6. QED
  BY <1>2, <1>3, <1>4, <1>5 DEF CalendarInv

LEMMA CalendarStep == CalendarInv /\ [DevicesNext]_devicesVars => CalendarInv'
<1> SUFFICES ASSUME CalendarInv, [DevicesNext]_devicesVars PROVE CalendarInv'
  OBVIOUS
<1>1. uses' \in Uses
  BY StepOfDevices DEF CalendarInv
<1>2. CASE UNCHANGED calendarVars
  BY <1>1, <1>2 DEF CalendarInv, calendarVars, Bit, CLK
<1>3. ASSUME NEW v \in 0..255, Out10(v) PROVE CalendarInv'
  BY <1>1, <1>3 DEF CalendarInv, Out10, Bit, CLK
<1>4. ASSUME NEW v \in 0..255, Out40(v) PROVE CalendarInv'
  BY <1>1, <1>4, CalendarReads, CalendarShifts, CalendarHolds
<1>5. QED
  BY <1>2, <1>3, <1>4, StepOfDevices DEF CalendarInv

\* Whatever is written to the two ports, the register has moved one bit per
\* falling edge in the shift state, and port 0x40 shows the bit that is due.
THEOREM CalendarCorrect == DevicesSpec => []TimeShiftedOut
<1>1. CalendarInv => TimeShiftedOut
  BY CalendarAssumption DEF CalendarInv, TimeShiftedOut
<1>2. QED
  BY <1>1, CalendarStarts, CalendarStep, PTL DEF DevicesSpec
-----------------------------------------------------------------------------
(* The timer *)

PcgInv ==
  /\ uses \in Uses
  /\ timmr_mode \in 0..3
  /\ timmr_lo \in 0..255
  /\ half \in 0..255 \union {NoHalf}
  /\ counter \in Nat \union {Never}
  /\ timmr_mode = 2 => timmr_lo = 0
  /\ timmr_mode # 3 => half = NoHalf
  /\ timmr_mode = 3 => \/ timmr_cont = 2 /\ half = NoHalf
                       \/ timmr_cont = 1 /\ half = timmr_lo
  /\ FreqOfOneLoad

LEMMA HalfLoaded ==
  ASSUME PcgInv, NEW dat \in 0..255, Count(dat), uses' \in Uses
  PROVE  PcgInv'
<1>1. UNCHANGED timmr_mode
  BY DEF Count
<1>2. CASE timmr_mode = 3 /\ timmr_cont = 2
  <2>1. half = NoHalf
    BY <1>2 DEF PcgInv
  <2>2. /\ timmr_lo' = dat /\ timmr_cont' = 1 /\ pcg_freq' = pcg_freq
        /\ half' = dat
    BY <1>2, <2>1 DEF Count
  <2>3. counter' = counter
    BY <1>2, <2>1 DEF Count
  <2>4. QED
    BY <1>1, <1>2, <2>2, <2>3 DEF PcgInv, FreqOfOneLoad
<1>3. CASE timmr_mode = 3 /\ timmr_cont # 2
  <2>1. half = timmr_lo /\ half # NoHalf /\ half \in 0..255
    BY <1>3 DEF PcgInv, NoHalf
  <2>2. /\ timmr_lo' = timmr_lo /\ timmr_cont' = 2
        /\ pcg_freq' = Freq(dat * 256 + timmr_lo)
        /\ half' = NoHalf
    BY <1>3, <2>1 DEF Count
  <2>3. counter' = dat * 256 + half
    BY <1>3, <2>1 DEF Count
  <2>4. dat * 256 + half \in Nat /\ dat * 256 + half # Never
    BY <2>1 DEF Never
  <2>5. QED
    BY <1>1, <1>3, <2>1, <2>2, <2>3, <2>4 DEF PcgInv, FreqOfOneLoad
<1>4. CASE timmr_mode = 2
  <2>1. timmr_lo = 0 /\ half = NoHalf
    BY <1>4 DEF PcgInv
  <2>2. /\ timmr_lo' = 0 /\ pcg_freq' = Freq(dat * 256 + 0) /\ half' = NoHalf
    BY <1>4, <2>1 DEF Count
  <2>3. counter' = dat * 256
    BY <1>4 DEF Count
  <2>4. dat * 256 \in Nat /\ dat * 256 # Never /\ dat * 256 + 0 = dat * 256
    BY DEF Never
  <2>5. QED
    BY <1>1, <1>4, <2>2, <2>3, <2>4 DEF PcgInv, FreqOfOneLoad
<1>5. CASE timmr_mode \in {0, 1}
  <2>1. timmr_lo' \in 0..255 /\ pcg_freq' = pcg_freq /\ half' = NoHalf
    BY <1>5 DEF Count, PcgInv
  <2>2. counter' = counter
    BY <1>5 DEF Count
  <2>3. QED
    BY <1>1, <1>5, <2>1, <2>2 DEF PcgInv, FreqOfOneLoad
<1>6. QED
  BY <1>2, <1>3, <1>4, <1>5 DEF PcgInv

LEMMA ModeWritten ==
  ASSUME PcgInv, NEW dat \in 0..255, TimerMode(dat), uses' \in Uses
  PROVE  PcgInv'
<1>1. UNCHANGED <<pcg_freq, counter>>
  BY DEF TimerMode
<1>2. CASE dat \div 64 # 0
  BY <1>1, <1>2 DEF TimerMode, PcgInv, FreqOfOneLoad
<1>3. CASE dat \div 64 = 0
  <2>1. /\ timmr_mode' = (dat \div 16) % 4 /\ half' = NoHalf
        /\ timmr_lo' = IF timmr_mode' \in {1, 2} THEN 0 ELSE timmr_lo
        /\ timmr_cont' = FirstTurn(timmr_mode')
    BY <1>3 DEF TimerMode
  <2>2. timmr_mode' \in 0..3
    BY <2>1
  <2>3. timmr_lo' \in 0..255 /\ (timmr_mode' = 2 => timmr_lo' = 0)
    BY <2>1, <2>2 DEF PcgInv
  <2>4. timmr_mode' = 3 => timmr_cont' = 2
    BY <2>1 DEF FirstTurn
  <2>5. QED
    BY <1>1, <2>1, <2>2, <2>3, <2>4 DEF PcgInv, FreqOfOneLoad
<1>4. QED
  BY <1>2, <1>3

LEMMA PcgStep == PcgInv /\ [DevicesNext]_devicesVars => PcgInv'
<1> SUFFICES ASSUME PcgInv, [DevicesNext]_devicesVars PROVE PcgInv'
  OBVIOUS
<1>1. uses' \in Uses
  BY StepOfDevices DEF PcgInv
<1>2. CASE UNCHANGED pcgVars
  BY <1>1, <1>2 DEF PcgInv, pcgVars, timerVars, FreqOfOneLoad
<1>3. ASSUME NEW port \in 0..15, NEW v \in 0..255, PcgPort(port, v) PROVE PcgInv'
  <2>1. CASE UNCHANGED timerVars
    BY <1>1, <2>1 DEF PcgInv, timerVars, FreqOfOneLoad
  <2>2. CASE Count(v)
    BY <1>1, <2>2, HalfLoaded
  <2>3. CASE TimerMode(v)
    BY <1>1, <2>3, ModeWritten
  <2>4. QED
    BY <1>3, <2>1, <2>2, <2>3 DEF PcgPort
<1>4. QED
  BY <1>2, <1>3, StepOfDevices DEF PcgInv

\* For every clock of the CPU and every program, the frequency of the timer is
\* that of one load: never of halves of two.
THEOREM TimerCorrect == DevicesSpec => []FreqOfOneLoad
<1>1. DevicesInit => PcgInv
  BY DEF DevicesInit, PcgInit, PcgInv, FreqOfOneLoad, NoHalf, Never
<1>2. PcgInv => FreqOfOneLoad
  BY DEF PcgInv
<1>3. QED
  BY <1>1, <1>2, PcgStep, PTL DEF DevicesSpec
-----------------------------------------------------------------------------
(* The tape *)

Bytes == 0..255

\* Where the next byte is read is what is left of the bytes read so far by
\* whole tapes, and the tape is still at the beginning of the buffer.
TapeInv ==
  /\ uses \in Uses
  /\ cmt_buff \in Seq(Bytes) /\ played \in Seq(Bytes) /\ inside \in Seq(Bytes)
  /\ index \in Nat
  /\ size = Len(inside)
  /\ size <= Len(cmt_buff)
  /\ \A i \in 1..size : cmt_buff[i] = inside[i]
  /\ size # 0 => HeadAt = Len(played) % size
  /\ TapeInOrder

\* The remainder of the next number.
LEMMA NextRemainder ==
  ASSUME NEW n \in Nat, NEW s \in Nat \ {0}
  PROVE  (n + 1) % s = IF (n % s) + 1 = s THEN 0 ELSE (n % s) + 1
<1> DEFINE q == n \div s
           r == n % s
<1>1. r \in 0..(s - 1) /\ n = s * q + r /\ q \in Int
  OBVIOUS
<1>2. \A a \in Nat, k \in Int, m \in 0..(s - 1) : a = s * k + m => a % s = m
  OBVIOUS
<1> HIDE DEF q, r
<1>3. CASE r + 1 = s
  <2>1. n + 1 = s * (q + 1) + 0
    BY <1>1, <1>3
  <2>2. n + 1 \in Nat /\ q + 1 \in Int /\ 0 \in 0..(s - 1)
    BY <1>1
  <2>3. (n + 1) % s = 0
    BY <1>2, <2>1, <2>2, Zenon
  <2>4. QED
    BY <1>3, <2>3, Zenon DEF r
<1>4. CASE r + 1 # s
  <2>1. n + 1 = s * q + (r + 1)
    BY <1>1, <1>4
  <2>2. n + 1 \in Nat /\ r + 1 \in 0..(s - 1)
    BY <1>1, <1>4
  <2>3. (n + 1) % s = r + 1
    BY <1>1, <1>2, <2>1, <2>2, Zenon
  <2>4. QED
    BY <1>4, <2>3, Zenon DEF r
<1>5. QED
  BY <1>3, <1>4

\* A tape put in lies at the beginning of the buffer, whatever is behind it.
LEMMA Overwritten ==
  ASSUME NEW file \in Seq(Bytes), NEW buffer \in Seq(Bytes)
  PROVE  LET after == file \o SubSeq(buffer, Len(file) + 1, Len(buffer))
         IN  /\ after \in Seq(Bytes) /\ Len(file) <= Len(after)
             /\ \A i \in 1..Len(file) : after[i] = file[i]
<1> DEFINE rest == SubSeq(buffer, Len(file) + 1, Len(buffer))
<1>1. rest \in Seq(Bytes)
  <2>1. CASE Len(file) + 1 > Len(buffer)
    BY <2>1
  <2>2. CASE Len(file) + 1 <= Len(buffer)
    BY <2>2
  <2>3. QED
    BY <2>1, <2>2
<1> HIDE DEF rest
<1>2. /\ file \o rest \in Seq(Bytes) /\ Len(file) <= Len(file \o rest)
      /\ \A i \in 1..Len(file) : (file \o rest)[i] = file[i]
  BY <1>1
<1>3. QED
  BY <1>2 DEF rest

LEMMA TapePutIn ==
  ASSUME TapeInv, uses' \in Uses, NEW file \in TapeFiles, InsertTape(file)
  PROVE  TapeInv'
<1>1. file \in Seq(Bytes)
  BY TapeAssumption DEF Bytes
<1>2. /\ cmt_buff' \in Seq(Bytes) /\ Len(file) <= Len(cmt_buff')
      /\ \A i \in 1..Len(file) : cmt_buff'[i] = file[i]
  BY <1>1, Overwritten DEF TapeInv, InsertTape
<1>3. played' = << >> /\ inside' = file /\ index' = 0 /\ size' = Len(file)
  BY DEF InsertTape
<1>4. size' # 0 => HeadAt' = Len(played') % size'
  <2>1. HeadAt' = 0
    BY <1>3 DEF HeadAt
  <2>2. \A n \in Nat \ {0} : 0 % n = 0
    OBVIOUS
  <2>3. size' \in Nat /\ Len(played') = 0
    BY <1>1, <1>3
  <2>4. QED
    BY <2>1, <2>2, <2>3
<1>5. TapeInOrder'
  BY <1>3 DEF TapeInOrder
<1>6. QED
  BY <1>1, <1>2, <1>3, <1>4, <1>5 DEF TapeInv

\* The byte at the head is the next of the tape.
LEMMA ByteRead ==
  ASSUME TapeInv, uses' \in Uses, size # 0, index' = HeadAt + 1, UNCHANGED <<cmt_buff, size, inside>>,
         played' = Append(played, IF HeadAt < Len(cmt_buff) THEN cmt_buff[HeadAt + 1] ELSE 0)
  PROVE  TapeInv'
<1> DEFINE n == Len(played)
<1>1. n \in Nat /\ size \in Nat \ {0} /\ Len(inside) = size /\ size <= Len(cmt_buff)
  BY DEF TapeInv
<1>2. HeadAt = n % size
  BY DEF TapeInv
<1>3. HeadAt \in 0..(size - 1)
  BY <1>1 DEF HeadAt, TapeInv
<1>4. cmt_buff[HeadAt + 1] = inside[HeadAt + 1] /\ HeadAt < Len(cmt_buff)
  <2>1. HeadAt + 1 \in 1..size
    BY <1>1, <1>3
  <2>2. QED
    BY <2>1, <1>1, <1>3 DEF TapeInv
<1>5. played' = Append(played, inside[HeadAt + 1])
  BY <1>4
<1>6. inside[HeadAt + 1] \in Bytes
  BY <1>1, <1>3 DEF TapeInv
<1>7. played' \in Seq(Bytes) /\ Len(played') = n + 1
  BY <1>5, <1>6 DEF TapeInv
<1>8. HeadAt' = IF HeadAt + 1 = size THEN 0 ELSE HeadAt + 1
  BY <1>3, <1>1 DEF HeadAt
<1>9. HeadAt' = (n + 1) % size
  BY <1>1, <1>2, <1>8, NextRemainder
<1>10. TapeInOrder'
  <2> SUFFICES ASSUME NEW k \in 1..Len(played')
               PROVE  played'[k] = inside'[((k - 1) % Len(inside')) + 1]
    BY DEF TapeInOrder
  <2> inside' = inside
    OBVIOUS
  <2>1. CASE k \in 1..n
    <3>1. played'[k] = played[k]
      BY <2>1, <1>5, <1>6 DEF TapeInv
    <3>2. inside # << >>
      BY <1>1
    <3>3. played[k] = inside[((k - 1) % Len(inside)) + 1]
      BY <2>1, <3>2 DEF TapeInv, TapeInOrder
    <3>4. QED
      BY <3>1, <3>3
  <2>2. CASE k = n + 1
    <3>1. played'[k] = inside[HeadAt + 1]
      BY <2>2, <1>5, <1>6 DEF TapeInv
    <3>2. k - 1 = n
      BY <2>2, <1>1
    <3>3. QED
      BY <3>1, <3>2, <1>1, <1>2
  <2>3. QED
    BY <2>1, <2>2, <1>1, <1>7
<1>11. index' \in Nat
  BY <1>1, <1>3
<1>12. QED
  BY <1>7, <1>9, <1>10, <1>11 DEF TapeInv

\* A tape without bytes plays what the buffer held, which is no byte of it.
LEMMA NothingRead ==
  ASSUME TapeInv, uses' \in Uses, size = 0, index' = HeadAt + 1, UNCHANGED <<cmt_buff, size, inside>>,
         played' = Append(played, IF HeadAt < Len(cmt_buff) THEN cmt_buff[HeadAt + 1] ELSE 0)
  PROVE  TapeInv'
<1>1. inside = << >>
  <2>1. inside \in Seq(Bytes) /\ Len(inside) = 0
    BY DEF TapeInv
  <2>2. QED
    BY <2>1
<1>2. HeadAt = 0
  BY DEF HeadAt, TapeInv
<1>3. (IF HeadAt < Len(cmt_buff) THEN cmt_buff[HeadAt + 1] ELSE 0) \in Bytes
  <2>1. Len(cmt_buff) \in Nat /\ \A i \in 1..Len(cmt_buff) : cmt_buff[i] \in Bytes
    BY DEF TapeInv
  <2>2. 0 < Len(cmt_buff) => cmt_buff[0 + 1] \in Bytes
    BY <2>1
  <2>3. QED
    BY <1>2, <2>2 DEF Bytes
<1>4. played' \in Seq(Bytes) /\ index' \in Nat
  BY <1>2, <1>3 DEF TapeInv
<1>5. QED
  BY <1>1, <1>4 DEF TapeInv, TapeInOrder

LEMMA TapeStep == TapeInv /\ [DevicesNext]_devicesVars => TapeInv'
<1> SUFFICES ASSUME TapeInv, [DevicesNext]_devicesVars PROVE TapeInv'
  OBVIOUS
<1> uses' \in Uses
  BY StepOfDevices DEF TapeInv
<1>1. CASE UNCHANGED <<cmt_buff, size, index, played, inside>>
  BY <1>1 DEF TapeInv, TapeInOrder, HeadAt
<1>2. ASSUME NEW v \in 0..255, cmd(v) PROVE TapeInv'
  BY <1>1, <1>2 DEF cmd
<1>3. CASE read
  <2>1. CASE UNCHANGED <<index, played>>
    BY <1>1, <1>3, <2>1 DEF read
  <2>2. CASE ~UNCHANGED <<index, played>>
    BY <1>3, <2>2, ByteRead, NothingRead DEF read
  <2>3. QED
    BY <2>1, <2>2
<1>4. ASSUME NEW file \in TapeFiles, InsertTape(file) PROVE TapeInv'
  BY <1>4, TapePutIn
<1>5. CASE UNCHANGED tapeVars
  BY <1>1, <1>5 DEF tapeVars
<1>6. QED
  BY <1>2, <1>3, <1>4, <1>5, StepOfDevices DEF TapeInv

\* Whatever tapes are put in and whenever the program reads or switches the
\* motor, it reads the tape inside in order, round and round.
THEOREM TapeCorrect == DevicesSpec => []TapeInOrder
<1>1. DevicesInit => TapeInv
  BY DEF DevicesInit, TapeInit, TapeInv, TapeInOrder, HeadAt, Bytes
<1>2. TapeInv => TapeInOrder
  BY DEF TapeInv
<1>3. QED
  BY <1>1, <1>2, TapeStep, PTL DEF DevicesSpec
=============================================================================
