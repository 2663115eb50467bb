\* Up to three records in windows of one time unit each, with latencies below,
\* at and above the threshold.
CONSTANTS
  Values = {0, 2, 3, 4}
  ClusterOf <- MCClusterOf
  P <- TwoThirds
  Threshold <- OneAndAHalf
  ErrorRate <- Half
  Window = 1
  Baseline = 1
  MinRequests = 2
  Retention = 2
  MaxSkew = 1
  MaxClock = 3
  MaxRecords = 3
SPECIFICATION Spec
INVARIANTS
  PercentileIsRank
  SlowdownSeen
  SummaryAmongRows
PROPERTY PruneKeepsVerdicts
