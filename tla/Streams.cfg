SPECIFICATION StreamsSpec
CONSTANTS
  Parts = {"messages", "storage", "watcher", "tags", "audio", "events"}
  Traffic <- MCTraffic
  BatchRow = {1, 2, 3, 4}
  MaxSize = 2
  QueueSize = 2
  Workers = {"w1", "w2"}
  QueueSizeStorage = 1
  MaxVersions = 2
  MaxFaultsStorage = 1
  MaxRestartsStorage = 1
  Recorder = {"r1", "r2"}
  StreamInstanceID = "r1"
  IdleTimeout = 1
  InputSize = 2
  BufferSize = 1
  ControlSize = 1
  MaxTime = 2
  MaxPackets = 3
  MaxAsks = 1
  Writeback = TRUE
  MaxWrites = 2
  MaxPatches = 1
  MaxArchives = 1
  MaxFaultsTags = 1
  MaxRestartsTags = 1
  MaxTogether = 2
  MaxFaultsWatcher = 1
  MaxStops = 1
  Publishers = {"p1", "p2"}
  RingSize = 2
  ChanSize = 1
  MaxEvents = 3
  MaxConnects = 2
INVARIANTS
  HandledInOrder
  RowsReachTheirBatch
  SavedStays
  EditsKept
  OneVoice
  EventsDelivered
PROPERTIES
  MessagesHandled
  ReachesS3
  FilesAreIngested
  CsvReachesRows
CHECK_DEADLOCK FALSE
