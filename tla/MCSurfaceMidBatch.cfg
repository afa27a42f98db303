SPECIFICATION Spec
CONSTANTS
  Null = Null
  Buffer = {b1, b2}
  Callback = {c1, c2}
  Attr = {}
  Region = {r1}
  Ops = {"midBatch"}
CHECK_DEADLOCK FALSE
INVARIANTS
  NoFault
