SPECIFICATION CSpec
CONSTANTS
  None = None
  NoFile = NoFile
  Torn = Torn
  Persistent = TRUE
  Windows = TRUE
  Execs = {x1}
  Workers = {w1}
  Boots = {b1}
  Digests = {d1}
  Conns = {c1}
  MaxGen = 1
  MaxEpoch = 2
  MaxAttempts = 2
  MaxIds = 2
VIEW View
INVARIANTS
  CTypeOK
  OneAuthorityAcrossRestarts
  SavedCommitsSurvive
  DiskBehindMemory
