SPECIFICATION Spec
CONSTANTS
  t1 = t1
  t2 = t2
  tr1 = tr1
  tr2 = tr2
  Txs = {t1, t2}
  Plans <- TwoInstancePlans
  Window = 10
INVARIANTS
  NoLiveCallClosed
CHECK_DEADLOCK FALSE
