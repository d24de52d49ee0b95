SPECIFICATION Spec
CONSTANTS
  NoSector = NoSector
  DiskSectors = 2100000
  SectorNumbers = 536870912
  MaxPci = 3
  RomUnits = 5
  MaxVisible = 2
  BusLength = 4
  Machines <- AllMachines
INVARIANTS
  TypeOK
  SectorsExact
  LoadedIsShown
  SelectedVisible
PROPERTIES
  BootSettles
CHECK_DEADLOCK FALSE
