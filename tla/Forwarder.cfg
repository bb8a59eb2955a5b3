SPECIFICATION FairSpec
CONSTANTS
  Candidates = 2
  MaxSessions = 3
INVARIANTS
  TypeOK
  LeavesNothing
  ServesUntilStopped
  SessionsHeld
PROPERTIES
  SessionContract
  SignalEnds
  ReapedWithNext
