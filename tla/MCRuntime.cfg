SPECIFICATION RSpec
CONSTANTS
  None = None
  NoFile = NoFile
  Torn = Torn
  Persistent = FALSE
  Windows = FALSE
  Execs = {x1, x2}
  Workers = {w1}
  Boots = {b1, b2}
  Digests = {d1}
  Conns = {b1}
  MaxGen = 1
  MaxEpoch = 1
  MaxAttempts = 2
  MaxIds = 2
SYMMETRY Symmetry
VIEW View
CHECK_DEADLOCK FALSE
INVARIANTS
  LossClassified
  NothingAfterLoss
