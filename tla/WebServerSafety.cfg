SPECIFICATION Spec

CONSTANTS
  Clients = {c1, c2}
  Workers = {w1, w2}
  Pools = {{w1, w2}}
  Main = Main
  NoSocket = NoSocket
  QueueCapacity = 2
  BackoffCap = 2

SYMMETRY Symmetry

INVARIANTS
  SocketsAccounted
  SessionsFreed
  RepliesFit
  CountBounded
  ServerInv
