SPECIFICATION Spec
CONSTANTS
  None = None
  Elems = {e1, e2, e3, e4}
  Maps <- MCMaps
  PageSize = 4
  MaxPageFrames = 8
  FirstKernelPage = 1
  FirstFreePage = 3
  HeapStart = 16
  HeapSize = 9
  Layouts <- MCLayouts
  Tasks <- MCTasks
  Idle = "idle"
  priority <- MCPriority
  TimeSlice = 2
  MaxEvents = 6
  MaxMiddleware = 2
  MaxFailures = 6
  MaxEntries = 20
  Built <- MCBuilt
  ScreenW = 40
  ScreenH = 30
  EdgeMargin = 4
  RelPackets <- MCRel
  AbsPackets <- MCAbs
  MaxLost = 2
  MaxStray = 1
  MaxPackets = 3
  PointDevices = {"synaptics", "stubborn", "mouse"}
  Titles <- MCTitles
  Start <- MCStart
  Values <- MCValues
  MaxChanged = 1
INVARIANT HandedOutOnce
INVARIANT QueuesExact
INVARIANT ChainsDeliver
INVARIANT OneTornPacket
INVARIANT OverlayFollowsGame
CHECK_DEADLOCK FALSE
