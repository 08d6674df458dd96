SPECIFICATION FairSpec

CONSTANTS
  Clients = {c1}
  Workers = {w1}
  Pools = {{w1}}
  Main = Main
  NoSocket = NoSocket
  QueueCapacity = 2
  BackoffCap = 1

PROPERTIES
  ReceiveTimesOut
