\* The diskette controller's line, which has the default stub.
SPECIFICATION Spec
CONSTANTS
  Sources = {0, 1, 6}
  Masked = {}
  NoLine = NoLine
  TickRange = 8
  TICKS_PER_FRAME = 2
  MaxLag = 5
INVARIANTS NothingLeftInService
