SPECIFICATION ShellSpec
CONSTANTS
  Null = Null
  Window = {w1}
  Drag = {d1, d2}
  Extent = {1}
  Grain = 2
  Reach = {0, 3}
  Places = {1}
  Far = 1
  MaxSerial = 2
INVARIANTS
  TokensNameDrags
PROPERTIES
  DragsEndWithButton
  AckGetsWhatWasSent
  WindowFollowsCursor
SYMMETRY LikeDrags
CONSTRAINT DragsMeetEarly
CHECK_DEADLOCK FALSE
