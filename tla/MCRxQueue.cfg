SPECIFICATION Spec
CONSTANTS
  RX_0 = rx0
  RX_V2 = rxv2
  Algos = {rx0, rxv2, wow}
  Hashes = {h1, h2}
  Nodes = {n0, n1}
  Front = n0
  MaxRequests = 3
INVARIANTS
  ServedIsComplete
  ReadyIsServed
  ConfigOfJob
  StorageOwned
PROPERTIES
  ImplementsService
  RequestAnswered
  ShutdownReturns
