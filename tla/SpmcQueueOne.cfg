SPECIFICATION Spec
CONSTANTS
  Capacity = 3
  MaxItems = 6
  Consumers = {c1}
INVARIANTS
  NeverOvertaken
PROPERTIES
  ImplementsFifo
