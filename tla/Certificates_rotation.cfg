SPECIFICATION FairSpec
CONSTANTS
  Services = {scheduler}
  Self = scheduler
  Ids = {1, 2, 3, 4}
  Manual = manual
  NoFile = nofile
  Life = 5
  SecretLife = 5
  MinWait = 1
  RetryInterval = 1
  Handshakes = {h1}
  MaxFaults = 1
  MaxAborts = 1
  MaxOutages = 1
  MaxMishaps = 2
INVARIANTS CredentialsWork RunsOnMatchingPair ExpiryNeedsMisses CacheNeverStale
PROPERTIES KeepsServing
