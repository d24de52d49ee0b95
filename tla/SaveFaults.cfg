\* A failing drive that ends inside the save area; blue has no battery.
SPECIFICATION FairSpec
CONSTANTS
  red = red
  blue = blue
  gold = gold
  NoRom = NoRom
  Roms = {red, blue, gold}
  Battery = {red, gold}
  Hash <- MCHash
  RamSectors <- SmallSizes
  Zero = zero
  Values = {zero, v1}
  MAX_SAVE_SLOTS = 2
  SECTORS_PER_SLOT = 3
  MaxRamSectors = 3
  BufferSectors = 3
  DiskSectors = 5
  SAVE_DEBOUNCE_FRAMES = 2
  IoFaults = TRUE
  CutDuringSave = TRUE
PROPERTIES
  SaveConfinedToSlot
  PendingResolves
