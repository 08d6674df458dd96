SPECIFICATION TalkingSpec

CONSTANTS
  Clients = {c1, c2}
  Workers = {w1}
  Pools = {{}, {w1}}
  Main = Main
  NoSocket = NoSocket
  QueueCapacity = 2
  BackoffCap = 1

INVARIANT ServerInv

PROPERTIES
  ConnectionsEnd

CHECK_DEADLOCK FALSE
