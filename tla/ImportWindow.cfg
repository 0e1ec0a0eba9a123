SPECIFICATION RecordsSpec
CONSTANTS
  Parts = {"transfer"}
  KeyIdentity = {"k1", "k2"}
  Net <- MCNet
  MaxSystemIdentity = 3
  MaxRowsIdentity = 1
  MaxTroublesIdentity = 1
  MaxRequestsIdentity = 1
  Recording = {1, 2}
  HeardIn <- MCHeardIn
  Transmission <- MCTransmission
  Scanner = {"p1", "p2"}
  BatchSize = 2
  EvidenceCap = 3
  MaxIdSuggestions = 3
  MaxFaultsSuggestions = 1
  Talkgroup = {"t1", "t2"}
  EventType = {"join", "off", "call"}
  WindowUnits = 2
  StaleAfter = 3
  Delay = 0
  MaxTimeUnits = 4
  MaxEvents = 2
  MaxTroublesUnits = 1
  Recorded <- MCRecorded
  ConvSite = {"c"}
  LiveStart = {4}
  MaxRowsTransfer = 2
  MaxSystemTransfer = 2
  MaxImports = 2
  MaxFaultsTransfer = 1
  Role = {"viewer", "admin"}
  Request = {1, 2}
  Updates <- MCUpdates
  MaxId = 1
  Config <- MCConfig
  MaxTx = 3
  SourcesTranscriptions = {"auto", "human", "llm"}
  Verdicts = {"verified", "empty"}
  TrAudioDir = FALSE
  Brings <- MCBrings
  Forms <- MCForms
  SourcesCallRecord = 2
  MaxRowsCallRecord = 2
  MaxFaultsCallRecord = 1
  MaxTries = 2
  SrcLists <- MCSrcLists
  Duration = 30
  Words <- MCWords
  Texts <- MCTexts
  MonthWeeks = 1
  Default = 1
  RetentionSettings = {1, 2}
  RequestSettings = {1, 2}
  MaxTimeSettings = 0
  MaxRequestsSettings = 2
  MaxFaultsSettings = 1
  RetentionPartitions = {}
  RequestPartitions = {}
  MaxTimePartitions = 4
  MaxRequestsPartitions = 0
  MaxFaultsPartitions = 1
INVARIANT ImportedUnlessNear
CHECK_DEADLOCK FALSE
