SPECIFICATION Spec
CONSTANTS
  Cols = 4
  Pairs = 3
  FontRows = 2
  Areas <- MCAreas
  TextLines <- MCTextLines
  Font <- MCFont
  Carries <- MCCarries
  Settings <- MCSettings
INVARIANTS
  CellsRight
  CarryIsLastCell
  LineShown
CHECK_DEADLOCK FALSE
