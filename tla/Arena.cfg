SPECIFICATION Spec
CONSTANT Header = 4
CONSTANT Cap = 22
CONSTANT Page = 8
CONSTANT Align = 4
CONSTANT Sizes <- MCSizes
CONSTANT MaxBlocks = 3
CONSTANT MaxScopes = 3
INVARIANTS
  BlocksApart
  Committed
  RecordTiled
