SPECIFICATION Spec
CONSTANTS
  alice = alice
  bob = bob
  None = None
  Users = {alice}
  Friends = {bob}
  MaxEvents = 3
  MaxRunning = 2
INVARIANTS
  
  OptedOutLeavesNothing
  
PROPERTIES
  Settles
CHECK_DEADLOCK FALSE
