SPECIFICATION FairSpec
CONSTANTS
  Workers = {w1, w2}
  Tasks = {t1, t2, e1}
  Endless = {e1}
  NoTask = NoTask
  w1 = w1
  w2 = w2
  t1 = t1
  t2 = t2
  e1 = e1
CHECK_DEADLOCK FALSE
INVARIANT TypeOK
INVARIANT FifoOnce
INVARIANT NoLostWakeup
INVARIANT NobodySleepsAfterStop
PROPERTY StopReturns
PROPERTY EnqueuedIsStarted
