\* One 32KB cartridge alone on the disk; power may go at any moment.
SPECIFICATION Spec
CONSTANTS
  red = red
  blue = blue
  gold = gold
  NoRom = NoRom
  Roms = {gold}
  Battery = {gold}
  Hash <- MCHash
  RamSectors <- FullSize
  Zero = zero
  Values = {zero, v1, v2}
  MAX_SAVE_SLOTS = 2
  SECTORS_PER_SLOT = 2
  MaxRamSectors = 2
  BufferSectors = 2
  DiskSectors = 5
  SAVE_DEBOUNCE_FRAMES = 2
  IoFaults = FALSE
  CutDuringSave = TRUE
INVARIANTS
  TypeOK
PROPERTIES
  RestoresExistingSave
  ImplementsStore
