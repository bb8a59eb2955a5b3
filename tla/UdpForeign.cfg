SPECIFICATION Spec
CONSTANTS
  Clients = {c1}
  Slots = {s1}
  Fds = {f1}
  None = None
  Other = Other
  ForeignFds = TRUE
  IdleCloses = TRUE
INVARIANT
  OwnReplies
