SPECIFICATION CSpec
CONSTANTS
  None = None
  NoFile = NoFile
  Torn = Torn
  Persistent = TRUE
  Windows = FALSE
  Execs = {x1}
  Workers = {w1}
  Boots = {b1}
  Digests = {d1}
  Conns = {c1}
  MaxGen = 2
  MaxEpoch = 1
  MaxAttempts = 1
  MaxIds = 1
VIEW View
PROPERTIES
  SaveIsAtomic
