SPECIFICATION Spec
CONSTANTS
  MaxBytes <- LongRequest
  BufSize = 2
  SockCap = 2
  SigpipeKills = FALSE
INVARIANTS
  TypeOK
  InOrder
  CompleteAtEnd
  OwnDescriptors
  GoneLeavesNothing
PROPERTIES
  IsPipe
  KeepsContract
