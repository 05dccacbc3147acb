SPECIFICATION Spec
CONSTANTS
  a1 = a1 a2 = a2 a3 = a3
  o1 = o1 o2 = o2
  Agents = {a1, a2, a3}
  Owners = {o1, o2}
  MaxMoves = 1
  MaxMessages = 1
  MaxHolds = 1
SYMMETRY Symmetry
INVARIANTS TypeOK NoUnreviewedCrossing SharedRecipientReviewed AdmissionKept
CHECK_DEADLOCK FALSE
