SPECIFICATION ProgressSpec
CONSTANTS
  Null = Null
  NoOutput = NoOutput
  o1 = o1
  Output = {o1, o2}
  Damage = {d1}
  MaxVersion = 2
  Home <- MCHome
  Screens = {s1, s2}
  Bos = {b1, b2, b3}
  NoBo = NoBo
  LastBos = {NoBo}
  SharedContext = TRUE
  Window = {w1}
  Drag = {e1, e2}
  Extent = {1}
  Grain = 3
  Reach = {0, 4}
  Places = {2}
  Far = 2
  MaxSerial = 0
INVARIANTS
  NoLostWakeup
  PaintCoversDamage
  ScannedOutIsHeld
  NoDanglingFlip
PROPERTIES
  DamageIsPainted
  LagsOneRequest
  EveryFlipReturns
  EmissionEnds
CHECK_DEADLOCK FALSE
