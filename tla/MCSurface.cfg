SPECIFICATION LiveSpec
CONSTANTS
  Null = Null
  Buffer = {b1, b2}
  Callback = {c1, c2}
  Attr = {"input", "opaque"}
  Region = {}
  Ops = {"overlap", "midBatch", "earlyFrame", "noFrame", "noAttach", "detach", "destroyBuffer"}
CHECK_DEADLOCK FALSE
INVARIANTS
  FaultNeedsDisturbance
  NoStaleCallback
  FiredFirst
  ReleaseIsOwed
PROPERTIES
  FrameAnswered
  BufferReturns
