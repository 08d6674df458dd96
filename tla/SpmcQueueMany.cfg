SPECIFICATION FairSpec
CONSTANTS
  Capacity = 3
  MaxItems = 5
  Consumers = {c1, c2}
INVARIANTS
  DeliveredOnce
  DeliveredInOrder
  NothingLost
PROPERTIES
  EventuallyDelivered
  OvertakenOnlyIfPassed
  EmptyMeansEmpty
  FifoUntilOvertaken
