SPECIFICATION FairSpec
CONSTANTS
  Lines = 1
  CmdBytes <- MCCmdBytes
  DataBytes = {}
  DmaBytes = {}
  CountSpan = 6
  ScanLines = 2
  LineT = 9
  VbiT = 6
  DmaT = 5
  SliceT = 2
  StepTs <- MCStepTs
  SyncT = 4
  BlinkFrames = 2
PROPERTIES
  NoPenaltyLost
  FrameTiming
  NoGhostCursor
  FramesGoOn
