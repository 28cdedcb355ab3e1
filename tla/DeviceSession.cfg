\* Two partitions, two names, two master users with two subusers each.
SPECIFICATION Spec
CONSTANTS
  None = None
  Nodes = {"sda1", "sdb1"}
  MapNames = {"Eagle", "Eagle2"}
  LongerNames <- MCLongerNames
  Masus = {"Thomas", "Eve"}
  Holds <- MCHolds
  Subus <- MCSubus
  MaxCommands = 5
  MaxEvents = 1
INVARIANT TypeOK
INVARIANT ViewsAsAsked
INVARIANT LogoutReleases
INVARIANT OpenMountsTheDevice
CHECK_DEADLOCK FALSE
