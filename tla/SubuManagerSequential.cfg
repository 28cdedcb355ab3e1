\* One invocation at a time, any of them may die at any step.
SPECIFICATION Spec
CONSTANTS
  Tokens <- MCTokens
  Paths <- OneOwner
  Procs = {p1}
  Legacy <- OneMasu
  Groupless = {}
  Homes <- HomesPresent
  MaxId = 4
  MaxCommands = 6
  MayDie = TRUE
  GpasswdFails = FALSE
PROPERTY MakeEstablishes
PROPERTY RemoveErases
PROPERTY SetShares
PROPERTY ClearWithdraws
PROPERTY RecordedAfterUnix
PROPERTY ForgottenAfterUnix
CHECK_DEADLOCK FALSE
