SPECIFICATION EventsSpec
CONSTANTS
  Workers = {w1, w2}
  MaxResults = 4
  Threads = {t1, t2}
  Size = 3
  Reserve = 2
  MaxToggles = 1
  ChunkSize = 3
  MaxBytes = 9
INVARIANTS
  DeliveredOnceInOrder
  ResultComplete
  LinesIntact
PROPERTIES
  AllDelivered
  BenchEnds
