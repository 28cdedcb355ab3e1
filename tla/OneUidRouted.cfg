\* Two users of one interface, deployed.
SPECIFICATION Spec
CONSTANTS
  None = None
  Admin = Admin
  Ifaces <- MCIfaces
  IfaceId <- MCIds
  TableOf <- MCTables
  Uids = {101, 102, 103}
  Addrs = {1, 2, 3}
  Trees <- MCTrees
  Installed <- MCInstalled
  MaxEvents = 2
  Selections <- MCSelections
  MaxMishaps = 1
CHECK_DEADLOCK FALSE
INVARIANT EveryBoundUidIsRouted
