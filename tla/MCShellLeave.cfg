SPECIFICATION ShellSpec
CONSTANTS
  Null = Null
  Window = {w1}
  Drag = {}
  Extent = {2}
  Grain = 1
  Reach = {0, 1, 2}
  Places = {}
  Far = 0
  MaxSerial = 0
INVARIANTS
  NoFault
