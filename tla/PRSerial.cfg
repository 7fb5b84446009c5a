CONSTANTS
  User = {author, r1, r2}
  Bot = Bot
  NoOne = NoOne
  Author = author
  Slot = {s1}
  Nowhere = Nowhere
  NoSnapshot = NoSnapshot
  Kinds <- AllKinds
  Failures = {"create", "firstInvite", "kick", "archive"}
  MaxEvents = 3
  MaxCrashes = 0
  Forge = {"Bitbucket", "GitHub"}
SPECIFICATION ForgesSpec
INVARIANTS
  NoReviewerForgotten
  UnassignedUntracked
CHECK_DEADLOCK FALSE
