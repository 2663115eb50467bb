CONSTANTS
  Records <- MCRecords
  KindOf <- MCKindOf
  StampOf <- MCStampOf
  Batches <- MCBatches
  ContentOf <- AllBatches
  MaxPost = 3
  Retention = 1
  MaxClock = 3
  MaxPosts = 2
SPECIFICATION Spec
INVARIANT BadRecordsSkipped
