\* One invocation at a time: a device that is detached and scanned again.
SPECIFICATION Spec
CONSTANTS
  D = D
  E = E
  Devices = {D, E}
  Procs = {p1}
  Local = Local
  Absent = Absent
  NoProc = NoProc
  Tokens <- MCTokens
  Paths <- MCPaths
  RefusedTokens <- MCRefused
  InitiallyMounted = {D}
  InitialTree <- MCTree
  MaxChanges = 0
  MaxCommands = 3
  MayDie = FALSE
PROPERTY SeenIsOnline
CHECK_DEADLOCK FALSE
