SPECIFICATION Spec
CONSTANTS
  h1 = h1
  h2 = h2
  RX_0 = rx0
  RX_V2 = rxv2
  Algos = {rx0, rxv2}
  Hashes <- MCHashes
  Workers = {w1}
  Jobs <- MCJobs
  NoJob = NoJob
  Configs = {"a"}
  Commands = {"disable", "stop", "config"}
  MaxEvents = 4
INVARIANT
  NotWhileDisabled
CHECK_DEADLOCK FALSE
