SPECIFICATION DevicesSpec
CONSTANTS
  Lines = 3
  CmdBytes <- MCCmdBytes
  DataBytes <- MCDataBytes
  DmaBytes <- MCDmaBytes
  CountSpan = 6
  RegBits = 4
  Times <- MCTimes
  MaxTape = 5
  Hz = 3993600
  TapeFiles <- MCTapeFiles
  MaxPlayed = 7
  Outs <- MCOuts
INVARIANTS
  ModesAgree
  CountIsParameter
  DmaWindow
  TimeShiftedOut
  FreqOfOneLoad
  TapeInOrder
PROPERTIES
  ModeChangeMarksAll
