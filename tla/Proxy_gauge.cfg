CONSTANTS
  Requests = {r1, r2}
  Models = {a}
  MaxLabels = 1
  MaxChunks = 1
  Usages = {"usable"}
SPECIFICATION Spec
INVARIANT GaugeCountsServed
