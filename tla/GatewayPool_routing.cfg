SPECIFICATION FairSpec
CONSTANTS
  Order <- MCOrder
  Instance <- MCInstance
  Static = {"host1"}
  HostNames = {"host1"}
  Leader = "host1"
  Requests = {good, bad}
  BadRequests = {bad}
  MaxMishaps = 2
INVARIANTS TypeOK OneEntryPerScheduler
PROPERTIES HealthyReturns  StaleDropped
