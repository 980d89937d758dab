CONSTANTS
  s1 = s1
  t1 = t1
  t2 = t2
  t3 = t3
  Session = {s1}
  Task = {t1, t2, t3}
  SessionOf <- OneSession
  Slot = {k1, k2, k3}
  NoSlot = NoSlot
  NoSession = NoSession
  max_queue_depth = 2
SPECIFICATION Spec
INVARIANTS TypeOK SlotCurrent PendingExact NoLostPermit
PROPERTIES ImplementsLock Answered Reclaimed
