\* The emulated machine on families of small programs.
SPECIFICATION Spec
CONSTANTS
  DivSize = 64
  VisibleLines = 2
  Lines = 4
  IrqLength = 3
  BankLength = 3
  Cartridges <- AllCartridges
  PeekAddresses <- OverlayAddresses
INVARIANTS TypeOK TimerKeepsPace NoTornFrame OneRowPerHBlank BankedByRegisters PeekIsRead
PROPERTIES MaskHolds ReturnsWhereInterrupted DaaCorrects HaltEnds
CHECK_DEADLOCK FALSE
