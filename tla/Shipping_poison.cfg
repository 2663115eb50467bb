\* Record 4 cannot be stored, record 5 cannot be encoded; a batch of three is too large.
CONSTANTS
  MaxQueue = 3
  MaxBatch = 3
  MaxRecords = 5
  MaxPost = 2
  Unstorable = {4}
  Unencodable = {5}
  MaxStray = 1
SPECIFICATION ShippingSpec
INVARIANTS
  SentIsStored
  DuplicatesAreRetries
PROPERTY FitIsSettled
