SPECIFICATION Spec
CONSTANTS
  None = None
  Execs = {x1}
  Workers = {w1}
  Boots = {b1}
  Digests = {d1}
  MaxGen = 9
  MaxEpoch = 1
  MaxAttempts = 3
SYMMETRY Symmetry
INVARIANTS
  EveryAttemptHasTicket
