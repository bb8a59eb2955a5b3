SPECIFICATION Spec
CONSTANTS
  MaxBytes <- OneEach
  BufSize = 1
  SockCap = 1
  SigpipeKills = TRUE
INVARIANT
  EndsOnlyOnRequest
