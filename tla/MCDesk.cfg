SPECIFICATION DeskSpec
CONSTANTS
  Null = Null
  c1 = c1
  c2 = c2
  w3 = w3
  Client = {c1, c2}
  Surface = {w1, w2, w3}
  Owner <- MCOwner
  Seat = {s1, s2}
  Device = {d1, d2}
  Width = 27
  Height = 15
  SPLIT_THRESHOLD = 4
  MIN_CELL_SIZE = 6
  Damages <- MCDamages
  MaxNodes = 8
  Fns = {f, g}
  Events = {move}
  Syms = {"b", "p"}
  VMods = {"Super"}
  Strings <- MCStrings
  OccursIn <- MCOccursIn
  None = None
  MaxChord = 2
  MaxRegistered = 4
  Connectors <- MCConnectors
  CrtcCount = 3
  Encoders <- MCEncoders
  Modes <- MCModes
  Lines <- MCLines
  Neighbours <- MCNeighbours
  NoOutput = NoOutput
  Pans <- MCPans
  Duration = 2
  FrameTimes = {1}
  Eased <- MCEased
  Scale = 8
  Pixel = 2
  ScreenWidth = 4
  Windows <- MCWindows
  Pointer = 4
  Surfaces = {a, b, c}
  Offsets <- MCOffsets
  Sizes <- MCSizes
  Places <- MCPlaces
  NoSurface = NoSurface
  MaxSubsurfaces = 2
  Pools = {p, q}
  Buffers = {b, c}
  Shown = {s}
  PoolSizes = {1, 2}
  Nothing = Nothing
  MaxRegions = 3
INVARIANTS
  MapFindsOwnSeat
  StoredIsOwn
  NobodyStaysEntered
  QueryFindsDamage
  RegisteredIsRooted
  PlanIsSound
  CursorPaintedWhereItIs
  FrameShowsOnePan
  PointerMeetsWhatIsDrawn
  
PROPERTIES
  EveryHookRuns
CHECK_DEADLOCK FALSE
