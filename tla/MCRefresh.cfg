SPECIFICATION FairSpec
CONSTANTS
  Lines = 2
  Texts <- MCTexts
  Attrs <- MCAttrs
  Keep = Keep
  Blinking <- MCBlinking
  Modes <- MCModes
  MonoModes <- MCMonoModes
  Start <- MCStart
  CarryZero <- MCCarryZero
  Black = Black
  MaxOps = 2
  t1 = t1
  t2 = t2
  red = red
  white = white
  blinks = blinks
  colour = colour
  mono = mono
INVARIANTS
  SnapshotWhole
PROPERTIES
  WholeLines
  Converges
CHECK_DEADLOCK FALSE
