SPECIFICATION FairSpec
CONSTANTS
  Clients = {c1, c2}
  Slots = {s1, s2}
  Fds = {f1, f2}
  None = None
  Other = Other
  ForeignFds = FALSE
  IdleCloses = TRUE
INVARIANT
  OwnReplies
PROPERTIES
  StopReturns
  DeadSessionGoes
