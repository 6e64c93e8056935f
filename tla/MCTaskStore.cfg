CONSTANTS
  t1 = t1
  t2 = t2
  w1 = w1
  w2 = w2
  Task = {t1, t2}
  Worker = {w1, w2}
  NoWorker = NoWorker
  Target <- MCTarget
  Outcome = {"completed"}
  Chan = {c1}
  Limit = {1, 2}
  MaxDelivery = 3

SPECIFICATION Spec

INVARIANTS
  PendingIsPlaced
  ResultsReachWaiters

PROPERTIES
  CancelSticks
  LateNeverConfirms
  KeepsLifecycle
