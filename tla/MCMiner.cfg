SPECIFICATION Spec
CONSTANTS
  h1 = h1
  h2 = h2
  RX_0 = rx0
  RX_V2 = rxv2
  Algos = {rx0, rxv2}
  Hashes <- MCHashes
  Workers = {w1}
  Jobs <- MCMixed
  NoJob = NoJob
  Configs = {"a", "off"}
  Commands = {"pause", "enable", "disable", "stop", "config"}
  MaxEvents = 4
INVARIANTS
  HashHasVmUnlessStopMissed
  OnlyLastHashIsStale
  PausedUnlessWanted
  MinesCurrentJob
  PausedForCause
PROPERTIES
  JoinReturns
  WantedMines
CHECK_DEADLOCK FALSE
