SPECIFICATION Spec
CONSTANTS
  Clients = {c1, c2, c3}
  Slots = {s1, s2, s3}
  Fds = {f1, f2, f3}
  None = None
  Other = Other
  ForeignFds = TRUE
  IdleCloses = TRUE
SYMMETRY Symmetric
INVARIANTS
  TypeOK
  NoneForgotten
  SocketsOwned
  StopLeavesNothing
  NoCrossTalk
PROPERTY
  KeepsPromise
