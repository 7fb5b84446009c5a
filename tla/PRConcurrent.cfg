CONSTANTS
  User = {author, r1}
  Bot = Bot
  NoOne = NoOne
  Author = author
  Slot = {s1, s2}
  Nowhere = Nowhere
  NoSnapshot = NoSnapshot
  Kinds = {"draft", "add", "unassign", "approve", "comment", "close", "my turn", "freeze", "message"}
  Failures = {"create", "init", "firstInvite", "kick"}
  MaxEvents = 2
  MaxCrashes = 1
SPECIFICATION ClosingSpec
INVARIANTS
  Recoverable
  ClosedLeavesNothing
PROPERTIES
  ImplementsTurnsFile
  WorkflowsEnd
  ClosedIsArchived
CHECK_DEADLOCK FALSE
