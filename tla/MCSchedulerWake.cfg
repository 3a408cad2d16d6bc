CONSTANT Callers = {c1, c2, c3, c4, c5}
SPECIFICATION WakeSpec
INVARIANTS
  OneScheduler
  NoForgottenWake
PROPERTIES
  SchedulerRests
  ImplementsContract
