SPECIFICATION ShellSpec
CONSTANTS
  Null = Null
  Window = {w1, w2}
  Drag = {d1}
  Extent = {1}
  Grain = 3
  Reach = {0, 4}
  Places = {2}
  Far = 2
  MaxSerial = 0
INVARIANTS
  EachWindowOnce
  OneActivated
PROPERTIES
  FocusFollowsPointer
SYMMETRY LikeWindows
CHECK_DEADLOCK FALSE
