CONSTANTS
  Reviewer = {r1, r2}
  Build = {b1, b2}
  Slot = {s1, s2}
  MaxCommits = 2
  MaxEvents = 4
  MaxReplays = 1
SPECIFICATION Spec
SYMMETRY Symmetry
INVARIANTS
  Throttled
PROPERTIES
  BuildsMoveForward
CHECK_DEADLOCK FALSE
