\* Baseline: persisted and live seeds, expiry, eviction at the limit; what the pager holds
SPECIFICATION PagerSpec
CONSTANTS
  Key <- SeedKey
  Identity <- SeedIdentity
  Event <- SeedEvent
  Pod = {"db-0", "db-1"}
  Node = {}
  Namespace = {"a", "b"}
  PersistedBaseline <- SeedPersisted
  LiveBaseline <- SeedLive
  Window = 2
  HoldDown = 0
  Inhibit = FALSE
  EscalationEnabled = FALSE
  Tiers <- OutageTiers
  StormEnabled = FALSE
  StormThreshold = 1
  StormWindow = 1
  DigestInterval = 1
  RenotifyInterval <- NeverRenotify
  RenotifyMax = 1
  BaselineTTL = 2
  MaxBaseline = 2
  DigestAlert = DigestAlert
INVARIANTS PagerExact
PROPERTIES BaselineReleasedByName
