SPECIFICATION FairSpec
CONSTANTS
  PassMax = 1
  FrameMax = 1
  ShortWait = 2
  LoadWait = 3
INVARIANTS
  LoadAlone
  PanelAlone
  NeverStuckSuspended
PROPERTIES
  LoadedProgramRuns
  PictureComesBack
  ExitSaves
