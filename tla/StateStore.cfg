SPECIFICATION FairSpec
CONSTANTS
  Version = {v1, v2}
  Unset = Unset
  NoCall = NoCall
  MaxRetries = 2
  MaxBoots = 2
  MaxSaves = 3
  MaxFaults = 1
INVARIANTS TypeOK AcknowledgedSurvives RecordedIsHanded GreetedOnce
PROPERTIES ImplementsKwatchState ReleaseHanded
CHECK_DEADLOCK FALSE
