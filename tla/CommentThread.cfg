SPECIFICATION Spec
CONSTANTS
  root = root
  reply = reply
  None = None
  Comments = {root, reply}
  RootText = 2
  Parent <- MCParent
  Suggestions = {root}
  MaxText <- MCMaxText
  MaxFailures = 0
  MaxRunning = 2
INVARIANTS
  MirrorsMatch
CHECK_DEADLOCK FALSE
