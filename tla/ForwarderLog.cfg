SPECIFICATION FairSpec
CONSTANTS
  Candidates = 2
  MaxSessions = 2
PROPERTY
  DisconnectLogged
