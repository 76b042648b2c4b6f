SPECIFICATION Spec
CONSTANTS
  h1 = h1
  h2 = h2
  RX_0 = rx0
  RX_V2 = rxv2
  Algos = {rx0, rxv2}
  Hashes <- MCHashes
  Workers = {w1, w2}
  Jobs <- MCBlobs
  NoJob = NoJob
  Configs = {"a"}
  Commands = {}
  MaxEvents = 2
PROPERTY
  ResetOncePerBlob
CHECK_DEADLOCK FALSE
