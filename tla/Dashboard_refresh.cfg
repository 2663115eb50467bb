\* Two of the four panels; three refreshes overlap.
CONSTANTS
  Tenants = {"t1", "t2"}
  Windows = {"1h", "24h"}
  Panels = {"summary", "alerts"}
  MaxFlight = 3
  MaxActs = 4
  MaxFailures = 1
SPECIFICATION Spec
INVARIANT QuietScreenIsRight
PROPERTY SelectionIsShown
CHECK_DEADLOCK FALSE
