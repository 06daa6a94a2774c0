SPECIFICATION FairSpec
CONSTANTS
  o1 = o1
  o2 = o2
  Object = {o1, o2}
  Kinds <- MCKinds
  Absent = Absent
  NoWork = NoWork
  Never = Never
  Unavailable = 1
  Sustained = 1
  rolloutGrace = 2
  Passable = {"MemoryPressure"}
  MaxBaseline = 2
  BaselineTTL = 1
  ResyncSeconds = 600
  MaxChanges = 1
INVARIANTS OnlyCurrentIsOpen WhatIsWrongIsOpen OldIssuesAreQuiet MemoryEndsWithTrouble
PROPERTIES SustainedIsTold
CHECK_DEADLOCK FALSE
