\* Two interfaces, one key, three tables and three addresses.
SPECIFICATION Spec
CONSTANTS
  None = None
  Ifaces <- MCIfaces
  Machines = {StanleyPark}
  SeedKey = SeedKey
  OtherKeys = {OtherKey}
  TableNamings <- MCNamings
  TableNumbers = {20, 21, 22}
  Hosts = {1, 2, 3}
  ForeignLines <- MCForeign
  MaxMishaps = 1
  MaxCommands = 6
INVARIANT TypeOK
INVARIANT KeyHasFile
INVARIANT InitConverges
INVARIANT StagedCovers
PROPERTY ClashesComeFromTheFile
PROPERTY FreshIsFree
PROPERTY TableNumberIsForever
CHECK_DEADLOCK FALSE
