SPECIFICATION Spec
CONSTANTS
  r1 = r1 r2 = r2
  o1 = o1 o2 = o2
  b = b k = k
  None = None
  Requests = {r1, r2}
  Subs = {b, k}
  Base <- OneCredential
  Bare = {b}
  Owners = {o1, o2}
  Limit = 2
SYMMETRY Symmetry
INVARIANTS TypeOK OwnerVouched
PROPERTIES SuspensionStands KillSwitchHolds OnlyItsWriter
