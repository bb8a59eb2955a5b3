SPECIFICATION FairSpec
CONSTANTS
  MaxBytes <- TwoEach
  BufSize = 1
  SockCap = 1
  SigpipeKills = FALSE
PROPERTIES
  StopEnds
  PeersEnd
  Delivers
