SPECIFICATION Spec
CONSTANTS
  p1 = p1
  p2 = p2
  c1 = c1
  c2 = c2
  c3 = c3
  None = None
  PRs = {p1, p2}
  MaxEvents = 3
  Channels = {c1, c2, c3}
  PROf <- MCPROf
  ByURL <- MCByURL
  ByChannel <- MCByChannel
INVARIANTS
  OpenKept
  LeftoversFound
  AllCleaned
PROPERTIES
  CommandEnds
CHECK_DEADLOCK FALSE
