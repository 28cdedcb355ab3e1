\* An interface whose table has another name, stopped.
SPECIFICATION Spec
CONSTANTS
  None = None
  Admin = Admin
  Ifaces <- MCIfaces
  IfaceId <- MCIds
  TableOf <- MCTables
  Uids = {101, 102, 103}
  Addrs = {1, 2, 3}
  Trees <- MCTrees
  Installed <- MCInstalled
  MaxEvents = 2
  Selections <- MCSelections
  MaxMishaps = 1
CHECK_DEADLOCK FALSE
INVARIANT StopCleansRules
