CONSTANTS
  PR = {p1, p2}
  NoPR = NoPR
  MaxSignals = 3
  MaxResets = 1
  MaxAsks = 1
  MaxCrashes = 1
SPECIFICATION FairSpec
INVARIANT NoneLost
PROPERTIES CreationFirstUnlessDraining EventsHandled ShutdownAnswered
CHECK_DEADLOCK FALSE
