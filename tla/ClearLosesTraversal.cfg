\* One invocation at a time, none dies: clear incommon and traversal.
SPECIFICATION Spec
CONSTANTS
  Tokens <- MCTokens
  Paths <- OneOwner
  Procs = {p1}
  Legacy <- OneMasu
  Groupless = {}
  Homes = {}
  MaxId = 3
  MaxCommands = 5
  MayDie = FALSE
  GpasswdFails = FALSE
INVARIANT RecordedCanTraverse
CHECK_DEADLOCK FALSE
