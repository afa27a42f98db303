SPECIFICATION Spec
CONSTANTS
  Null = Null
  o1 = o1
  m = m
  Object = {o1}
  Strong = {h1, h2}
  Weak = {w1}
  Thread = {t1}
  Ops = {"listener"}
  Home <- MCHome
CHECK_DEADLOCK FALSE
INVARIANTS
  NoUseAfterFree
