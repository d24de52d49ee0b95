\* Two 32KB cartridges: the layout the source documents.
SPECIFICATION Spec
CONSTANTS
  red = red
  blue = blue
  gold = gold
  NoRom = NoRom
  Roms = {red, gold}
  Battery = {red, gold}
  Hash <- MCHash
  RamSectors <- FullSize
  Zero = zero
  Values = {zero, v1}
  MAX_SAVE_SLOTS = 2
  SECTORS_PER_SLOT = 2
  MaxRamSectors = 2
  BufferSectors = 2
  DiskSectors = 5
  SAVE_DEBOUNCE_FRAMES = 2
  IoFaults = FALSE
  CutDuringSave = FALSE
PROPERTIES
  SaveConfinedToSlot
