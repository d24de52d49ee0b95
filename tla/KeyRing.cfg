CONSTANTS
  Codes = {"1C", "48"}
  E0 = E0
  E1 = E1
  NoEvent = NoEvent
  KEY_BUFFER_SIZE = 4
SPECIFICATION Spec
INVARIANTS TypeOK SlotsAccounted
PROPERTIES ImplementsFifo
