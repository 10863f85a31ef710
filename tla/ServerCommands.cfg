SPECIFICATION ServerSpec
CONSTANTS
  openvlbi = openvlbi
  station = station
  openvlbiset = openvlbiset
  stationset = stationset
  Names <- MCNames
  Plain <- MCPlain
  Joined <- MCJoined
  NoName = noname
  FirstName = openvlbi
  sigterm = sigterm
  sigint = sigint
  Signals <- MCSignals
  MaxContexts = 3
  MaxSections = 2
  MaxMissing = 1
SYMMETRY SignalsSymmetry
CHECK_DEADLOCK FALSE
INVARIANTS
  ServerTypeOK
  
  NoOrphan
  MutexHasUser
  ClosedByOne
  NamedTarget
  DelegateFits
  OwnSettings
