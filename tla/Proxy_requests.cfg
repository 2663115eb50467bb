\* Two requests: as many as it takes to share a label, a cap or the gauge.
CONSTANTS
  Requests = {r1, r2}
  Models = {a, b}
  MaxLabels = 1
  MaxChunks = 2
  Usages = {"usable", "odd", "infinite", "negative"}
SPECIFICATION FairSpec
INVARIANTS
  TypeOK
  GaugeIsWorkInProgress
  CountedOnce
  LabelStable
  LabelsBounded
  StatusTellsEnd
  PassedThrough
PROPERTY CountedEventually
