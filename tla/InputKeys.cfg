CONSTANTS
  Codes = {"48", "1C"}
  E0 = E0
  E1 = E1
  NoEvent = NoEvent
  Capacity = 2
  Keys <- MCKeys
  Buttons <- MCButtons
  NoButton = "None"
  map_keycode <- MCMap
  Row <- MCRow
  Bit <- MCBit
  SelectKeys <- MCSelectKeys
  Selections <- BothRows
  MaxWire = 2
SPECIFICATION FairSpec
INVARIANTS TypeOK JoypadFollowsKeys
PROPERTIES NoStuckButton TapWakesGame
