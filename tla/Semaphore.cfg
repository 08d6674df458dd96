SPECIFICATION FairSpec
CONSTANTS
  p1 = p1
  p2 = p2
  w1 = w1
  w2 = w2
  w3 = w3
  NoThread = NoThread
CONSTANT Posters <- MCPosters
CONSTANT Waiters <- MCWaiters
CONSTANT Timed <- MCTimed
CONSTANT Amount <- MCAmount
INVARIANTS
  NoLostWakeup
PROPERTIES
  ImplementsSemaphore
  AllReturn
CHECK_DEADLOCK FALSE
