CONSTANTS
  w1 = w1
  Task = {t1}
  Worker = {w1}
  NoWorker = NoWorker
  Target <- MCTarget
  Outcome = {"completed"}
  Chan = {c1, c2}
  Limit = {1}
  MaxDelivery = 2

SPECIFICATION WaitSpec

INVARIANTS
  NoLostWakeup

PROPERTIES
  EveryCallReturns
  
