SPECIFICATION Spec
CONSTANTS
  r1 = r1 r2 = r2 r3 = r3
  None = None
  Requests = {r1, r2, r3}
  Bots = {b1, b2}
  b1 = b1 b2 = b2 y1 = y1
  Types = {y1}
  Window = 2
  DayLength = 2
  DefaultLimit = 1
  Ceiling = 2
  MaxTime = 2
  RateSettings <- RateChoices
  CapSettings <- CapChoices
  SwitchSettings <- SwitchChoices
INVARIANTS TypeOK WindowKept CapKept FailsClosed LocksComeBack
SYMMETRY Symmetry
CHECK_DEADLOCK FALSE
