CONSTANTS
  Proc = {v1, v2}
  Nobody = Nobody
  Foreign = Foreign
  Liberties = {{}, {"busy", "foreign", "host"}, {"tailless", "host"}, {"abrupt"}}
  MaxCrashes = 2
  Pane = {pane1, pane2}
  pane1 = pane1
  pane2 = pane2
  NoRecord = NoRecord
  MaxStarts = 2
  PerSweep = 1
  ParkingSetups <- ParkingCases
  Cap = 1
  Pipe = 1
  Input = 2
  MaxOut = 2
  MaxErr = 1
SPECIFICATION PartsSpec
INVARIANTS
  ServeIsAccounted
PROPERTIES
  MutualRevival
  ParkingIsHonest
  QuietIsParked
  CallEnds
