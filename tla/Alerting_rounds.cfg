\* Two tenants in one loop: one ships engine snapshots only, the other records only.
CONSTANTS
  Tenants = 2
  Rules <- KvAndErrors
  Channels = {"slack"}
  Cooldown = 2
  Retention = 2
  Serving = {2}
  Scraping = {1}
  Fresh = 1
  MaxClock = 2
  MaxFailures = 1
SPECIFICATION FairSpec
INVARIANTS
  TypeOK
  CooldownKept
  RepeatsOnlyUnrecorded
PROPERTIES
  CooldownEndsByTime
  IncidentIsRecorded
