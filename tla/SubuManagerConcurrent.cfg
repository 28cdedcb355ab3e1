\* Two concurrent invocations over two masus; gpasswd may fail.
SPECIFICATION Spec
CONSTANTS
  Tokens <- MCTokens
  Paths <- TwoOwners
  Procs = {p1, p2}
  Legacy <- TwoMasus
  Groupless <- NoGroup
  Homes = {}
  MaxId = 3
  MaxCommands = 5
  MayDie = TRUE
  GpasswdFails = TRUE
SYMMETRY ProcSymmetry
INVARIANT TypeOK
INVARIANT OwnerIsolation
INVARIANT RecordedUserHasGroup
INVARIANT LoopsWithinOwner
INVARIANT GrouplessIsUntouched
PROPERTY KeepsPolicy
CHECK_DEADLOCK FALSE
