\* Four batches: one with a malformed record, one that fails to convert, one
\* that fails halfway through its insert and one that is too large.
CONSTANTS
  Records <- MCRecords
  KindOf <- MCKindOf
  StampOf <- MCStampOf
  Batches <- MCBatches
  ContentOf <- AllBatches
  MaxPost = 3
  Retention = 1
  MaxClock = 3
  MaxPosts = 2
SPECIFICATION Spec
INVARIANTS
  AcknowledgedIsDurable
  GoodIsQueuedOrStored
  CopiesFromPosts
