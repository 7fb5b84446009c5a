SPECIFICATION Spec
CONSTANTS
  root = root
  reply = reply
  None = None
  Comments = {root}
  RootText = 3
  Parent <- MCParent
  Suggestions = {root}
  MaxText <- MCMaxText
  MaxFailures = 1
  MaxRunning = 2
INVARIANTS
  NoEcho
  PolledWhileSilent
PROPERTIES
  PollingStops
  EventuallyInStep
CHECK_DEADLOCK FALSE
