SPECIFICATION TranscribingSpec
CONSTANTS
  Parts = {"pass", "jobs", "pool"}
  Calls <- ThreeCalls
  Filters <- AllOfThree
  Handlers = {h1}
  MaxJobs = 1
  MaxLive = 0
  BatchSize = 2
  QueueSize = 2
  StoreOrdered = TRUE
  Producers = {p1, p2}
  Workers = {w1, w2}
  Capacity = 2
  RingSize = 2
  MaxEnqueues = 4
INVARIANTS
  CountsDistinctCalls
  ProgressWithinTotal
  FullPass
  CancelStopsTheJob
  WakeupsKept
  PoolCountersAddUp
  PoolRingIsLatest
PROPERTIES
  JobsStartInOrder
  SubmittedJobsEnd
  PoolIsJobService
  PoolStopReturns
CHECK_DEADLOCK FALSE
