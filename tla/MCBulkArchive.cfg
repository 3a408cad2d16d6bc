CONSTANTS
  Archives = {a, b}
  Parts = {p1, p2}
  Finalizers = {f1, f2}
  None = None
  MaxEvents = 2
SPECIFICATION Spec
SYMMETRY Symmetry
CHECK_DEADLOCK FALSE
INVARIANTS
  MembersSurvive
  OneFinalizer
  FinalizingHasFinalizer
  CompletedIsWhole
  CompletionIsNoticed
  PermitDiscipline
