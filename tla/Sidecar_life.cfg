CONSTANTS
  Files <- MCFiles
  Environs <- MCEnvirons
  FlagSets <- MCFlagSets
  Targets <- MCTargets
  Worlds <- MCWorlds
  Gauges = {"kv", "waiting"}
  Pages <- MCPages
  Tenants = {"key1"}
  MaxChanges = 2
SPECIFICATION Spec
INVARIANT ReportIsComplete
PROPERTIES
  PrecedenceKept
  ReadingArrives
