\* Ranges of 2 in a space of 0..5 with a "word" of 3: the range 2..3 straddles,
\* 4..5 is the last one and complete.
SPECIFICATION WorkerSpec
CONSTANTS
  Workers = {w1, w2}
  NoCall = NoCall
  ReserveCount = 2
  Mask = 5
  LowWord = 3
  Wide = 64
  MaxCounter = 4
  MaxResets = 6
  Jobs <- MCJobs
  MaxEvents = 3
SYMMETRY MCSymmetry
INVARIANTS
  RangesDisjoint
  RangesFitMask
  RangesKeepHighWord
  ExhaustionPauses
PROPERTIES
  HashedOnce
CHECK_DEADLOCK FALSE
