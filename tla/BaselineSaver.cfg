\* Three goroutines change the baseline while it is saved
SPECIFICATION FairSpec
CONSTANTS
  Publisher = {p1, p2, p3}
  Interval = 2
  None = None
  Off = Off
  MaxChanges = 3
INVARIANTS BaselineKept
PROPERTIES HookReturns
