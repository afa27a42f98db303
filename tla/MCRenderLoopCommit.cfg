SPECIFICATION LoopLiveSpec
CONSTANTS
  NoOutput = NoOutput
  o1 = o1
  Output = {o1}
  Damage = {d1}
  MaxVersion = 1
  Home <- MCHome
PROPERTIES
  CommittedIsShown
