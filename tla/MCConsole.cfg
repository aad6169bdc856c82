SPECIFICATION Spec
CONSTANTS
  Lines <- MCLines
  Cards <- MCCards
  Samples <- MCSamples
  Reports <- MCReports
  FileCount = 5
  ListRows = 3
  ListLead = 1
INVARIANTS
  NothingStuck
  HeldIsDown
  TypedRight
  ImageOfMoment
  SelectionShown
