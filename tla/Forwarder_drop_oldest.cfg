SPECIFICATION Spec
CONSTANTS
  MaxQueue = 2
  MaxBatch = 2
  MaxRecords = 4
PROPERTIES
  OldestDropFirst
