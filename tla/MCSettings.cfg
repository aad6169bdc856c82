SPECIFICATION Spec
CONSTANTS
  Ssids <- MCSsids
  Passes <- MCPasses
  Files <- MCFiles
  Prefs <- MCPrefs
  MaxSets = 3
INVARIANTS
  SavedWhole
  NeverMixed
