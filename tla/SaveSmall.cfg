\* Three cartridges smaller than a slot share two slots.
SPECIFICATION Spec
CONSTANTS
  red = red
  blue = blue
  gold = gold
  NoRom = NoRom
  Roms = {red, blue, gold}
  Battery = {red, blue, gold}
  Hash <- MCHash
  RamSectors <- SmallSizes
  Zero = zero
  Values = {zero, v1}
  MAX_SAVE_SLOTS = 2
  SECTORS_PER_SLOT = 4
  MaxRamSectors = 4
  BufferSectors = 4
  DiskSectors = 9
  SAVE_DEBOUNCE_FRAMES = 2
  IoFaults = FALSE
  CutDuringSave = TRUE
INVARIANTS
  QuietMeansDurable
  OneSlotPerRom
PROPERTIES
  OtherImagesKept
