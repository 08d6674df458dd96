SPECIFICATION Spec
CONSTANTS
  Capacity = 2
  MaxItems = 4
  Consumers = {c1, c2}
SYMMETRY Symmetry
INVARIANTS
  EachItemOnce
