\* Storm: digests, the threshold, the operator's view with a hold-down, and liveness
SPECIFICATION HFairSpec
CONSTANTS
  Key <- StormKey
  Identity <- StormIdentity
  Event <- StormEvent
  Pod = {"web-0", "db-0"}
  Node = {}
  Namespace = {"a"}
  PersistedBaseline <- NoBaseline
  LiveBaseline <- NoBaseline
  Window = 1
  HoldDown = 1
  Inhibit = FALSE
  EscalationEnabled = FALSE
  Tiers <- OutageTiers
  StormEnabled = TRUE
  StormThreshold = 2
  StormWindow = 2
  DigestInterval = 1
  RenotifyInterval <- NeverRenotify
  RenotifyMax = 1
  BaselineTTL = 1
  MaxBaseline = 4
INVARIANTS NewPagesBounded
PROPERTIES ImplementsAlertStream DigestReported
