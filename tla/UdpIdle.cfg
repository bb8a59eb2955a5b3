SPECIFICATION Spec
CONSTANTS
  Timeout = 3
  Interval = 2
  Poll = 2
  Modulus = 32
  MaxTime = 14
INVARIANTS
  TypeOK
  ClosedInTime
PROPERTY
  ClosedWhenIdle
