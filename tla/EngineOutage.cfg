\* Node outage: inhibition, hold-down, two conditions of one node, escalation, reminders
SPECIFICATION Spec
CONSTANTS
  Key <- OutageKey
  Identity <- OutageIdentity
  Event <- OutageEvent
  Pod = {"web-0", "n1"}
  Node = {"n1"}
  Namespace = {"a"}
  PersistedBaseline <- NoBaseline
  LiveBaseline <- NoBaseline
  Window = 2
  HoldDown = 1
  Inhibit = TRUE
  EscalationEnabled = TRUE
  Tiers <- OutageTiers
  StormEnabled = FALSE
  StormThreshold = 1
  StormWindow = 1
  DigestInterval = 1
  RenotifyInterval <- OutageRenotify
  RenotifyMax = 1
  BaselineTTL = 1
  MaxBaseline = 4
INVARIANTS TypeOK CachesExact OperatorUpToDate
PROPERTIES PodQuietDuringNodeOutage ResolvedIsQuiet
