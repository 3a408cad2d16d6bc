CONSTANTS
  Archives = {a}
  Parts = {p1, p2}
  Finalizers = {f1}
  None = None
  MaxEvents = 1
SPECIFICATION Spec
CHECK_DEADLOCK FALSE
INVARIANTS
  InterruptedIsFixable
