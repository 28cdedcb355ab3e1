\* Two partitions under one name, nothing else happens: what open_mount mounts.
SPECIFICATION Spec
CONSTANTS
  None = None
  Nodes = {"sda1", "sdb1"}
  MapNames = {"Eagle"}
  LongerNames <- MCNoLongerNames
  Masus = {"Thomas", "Eve"}
  Holds <- MCHolds
  Subus <- MCSubus
  MaxCommands = 3
  MaxEvents = 0
INVARIANT MountsNoOtherDevice
CHECK_DEADLOCK FALSE
