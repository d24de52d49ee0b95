\* Lines 6 and 14 have the default stub; frames last two ticks of a clock
\* that wraps at eight.
SPECIFICATION FairSpec
CONSTANTS
  Sources = {0, 1, 6, 12, 14}
  Masked = {}
  NoLine = NoLine
  TickRange = 8
  TICKS_PER_FRAME = 2
  MaxLag = 5
INVARIANTS TypeOK
PROPERTIES OwnLineEnded PacingExact FramesGoOn KeyboardServed
