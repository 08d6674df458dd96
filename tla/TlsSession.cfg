SPECIFICATION FairSpec
CONSTANT RecordParts = 2
CONSTANT MaxRecords = 4
CONSTANT Kinds <- AllKinds
INVARIANTS
  TlsInv
  StreamIntact
  ReadsWhatWasSent
  OnlyAlertsLost
PROPERTY SessionEnds
CHECK_DEADLOCK FALSE
