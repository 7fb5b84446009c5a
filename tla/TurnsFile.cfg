CONSTANTS
  u1 = u1
  u2 = u2
  u3 = u3
  Bot = Bot
  NoOne = NoOne
  NoSnapshot = NoSnapshot
  User <- Users
  Snapshots <- StoredSnapshots
  KnownUsers <- AuthorKnown
SPECIFICATION Spec
SYMMETRY UserSymmetry
INVARIANTS TypeOK AuthorNeverWaits PairsAnswered ApproversActive
PROPERTY ImplementsAttention
