SPECIFICATION FairSpec
CONSTANTS
  Dev = {d1}
  WiiDev = {d1}
  MaxCid = 11
  TxSize = 6
  SockSize = 1
  Slots = {0}
  RxSize = 2
  Trouble = 2
INVARIANTS
  IdsNameOwnChannels
  SlotsHeld
  SdpQueriesOpenChannel
  HostTracksLink
PROPERTIES
  Connects
