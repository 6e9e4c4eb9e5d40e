SPECIFICATION Spec
CONSTANTS
  Top = 25
  Page = 2
  ram_paddr = 1
  startup_size = 1
  ram_size = 2
  Stored <- StoredAt
  Regions <- SomeRegions
  Reserved <- SomeReserved
  Asks <- SomeAsks
  WsSizes = {1}
  TempSize = 3
  MaxGrants = 4
  MaxLate = 3
INVARIANTS TypeOK GrantsApart SysramIsFree NoFalseFailure
PROPERTY FreeSpec
CHECK_DEADLOCK FALSE
