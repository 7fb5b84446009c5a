CONSTANTS
  User = {author, r1}
  Bot = Bot
  NoOne = NoOne
  Author = author
  Slot = {s1}
  Nowhere = Nowhere
  NoSnapshot = NoSnapshot
  Kinds = {}
  Failures = {}
  MaxEvents = 0
  MaxCrashes = 1
SPECIFICATION Spec
PROPERTY InitTurnsOnce
CHECK_DEADLOCK FALSE
