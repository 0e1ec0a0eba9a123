SPECIFICATION FairSpec
CONSTANTS
  t1 = t1
  t2 = t2
  tr1 = tr1
  tr2 = tr2
  Txs = {t1, t2}
  Plans <- ApartPlans
  Window = 10
INVARIANTS
  RowsNotMixed
  LiveCallsAreOwn
  SecondRowRaced
  FullEndKept
PROPERTIES
  CallsDoNotHang
CHECK_DEADLOCK FALSE
