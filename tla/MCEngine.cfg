SPECIFICATION Spec
CONSTANTS
  None = None
  Execs = {x1}
  Workers = {w1}
  Boots = {b1, b2}
  Digests = {d1, d2}
  MaxGen = 3
  MaxEpoch = 2
  MaxAttempts = 3
SYMMETRY Symmetry
VIEW View
INVARIANTS
  TypeOK
  AtMostOneAuthority
  CommitAuthorised
  CurrentIsNewest
  OwnershipStrictlyFences
  LifecyclePairs
PROPERTIES
  TerminalAbsorbing
  AuthorityMonotone
  RefusalGrantsNothing
  HistoryImmutable
  ImplementsFencedCommit
