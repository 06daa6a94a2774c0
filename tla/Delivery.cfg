\* Two goroutines notify, with enrichment and without, while kwatch shuts down
SPECIFICATION FairSpec
CONSTANTS
  Caller = {c1, c2}
  Enricher = enricher
  NoJob = NoJob
  NoFan = NoFan
  Entries = 2
  Notice <- PageAndDigest
  Routes <- DigestOnly
  Fallback <- FirstToSecond
  LLM = TRUE
  ChannelCap = 1
  EnrichCap = 1
  MaxAttempts <- TwiceAndOnce
  BreakerThreshold = 1
  MaxCalls = 2
INVARIANTS NoSendOnClosed Conservation
PROPERTIES TellsOneStory EverythingSettles
