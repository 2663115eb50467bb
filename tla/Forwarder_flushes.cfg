\* Two flushes in flight, overflow by one record and by a whole batch.
CONSTANTS
  MaxQueue = 3
  MaxBatch = 2
  MaxRecords = 6
SPECIFICATION FairSpec
INVARIANTS
  TypeOK
  HeldInOrder
  EachRecordInOnePlace
  SettledBeforeHeld
PROPERTIES
  DiscardsOnlyOverflow
  PromiseKept
  HeldIsSettled
  DrainEnds
