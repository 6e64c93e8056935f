CONSTANTS
  w1 = w1
  Task = {t1}
  Call = {t1}
  Worker = {w1}
  NoWorker = NoWorker
  Target <- MCTarget
  Outcome = {"completed", "canceled"}
  Chan = {}
  Limit = {1}
  MaxDelivery = 3
  MaxPosted = 0

SPECIFICATION DeliverySpec

PROPERTIES
  
  PendingIsPickedUp
