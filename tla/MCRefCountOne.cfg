SPECIFICATION Spec
CONSTANTS
  Null = Null
  o1 = o1
  m = m
  Object = {o1, o2}
  Strong = {h1, h2, m}
  Weak = {w1, w2}
  Thread = {t1}
  Ops = {"lock"}
  Home <- MCHome
CHECK_DEADLOCK FALSE
INVARIANTS
  WeakCountsObservers
  NoUseAfterFree
  NothingLeaks
PROPERTIES
  ImplementsOwnership
