\* Two invocations, two devices that come and go and change.
SPECIFICATION FairSpec
CONSTANTS
  D = D
  E = E
  Devices = {D, E}
  Procs = {p1, p2}
  Local = Local
  Absent = Absent
  NoProc = NoProc
  Tokens <- MCTokens
  Paths <- MCPaths
  RefusedTokens <- MCRefused
  InitiallyMounted = {D}
  InitialTree <- MCTree
  MaxChanges = 2
  MaxCommands = 3
  MayDie = TRUE
INVARIANT TypeOK
INVARIANT LockIsOfTheWalker
INVARIANT ChainsUnbroken
INVARIANT DevicesOfNodesRecorded
PROPERTY CommitTouchesItsDevice
PROPERTY QuietScanIsExact
PROPERTY ImplementsBook
PROPERTY CommandsReturn
CHECK_DEADLOCK FALSE
