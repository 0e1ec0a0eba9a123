SPECIFICATION Spec
CONSTANTS
  MaxFaultsWatcher = 1
  MaxStops = 1
  Publishers = {p1, p2}
  RingSize = 2
  ChanSize = 1
  MaxEvents = 3
  MaxConnects = 2
INVARIANTS
  GaplessRecovery
CHECK_DEADLOCK FALSE
