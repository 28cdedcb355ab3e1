\* Two invocations over two masus, none dies: set_option without a lock.
SPECIFICATION Spec
CONSTANTS
  Tokens <- MCTokens
  Paths <- TwoOwners
  Procs = {p1, p2}
  Legacy <- TwoMasus
  Groupless = {}
  Homes = {}
  MaxId = 3
  MaxCommands = 5
  MayDie = FALSE
  GpasswdFails = FALSE
INVARIANT SavesOneKey
CHECK_DEADLOCK FALSE
