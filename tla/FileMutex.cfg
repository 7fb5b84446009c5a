CONSTANTS
  Proc = {p1, p2, p3}
  Mutex = {m1, m2, m3, m4}
  Nil = Nil
  Nobody = Nobody
SPECIFICATION MutexFairSpec
INVARIANTS ExclusiveUntilLate OwnersRun
PROPERTY CallsReturn
