SPECIFICATION RCSpec
CONSTANTS
  r1 = r1 r2 = r2
  Readers = {r1, r2}
  PageLimit = 2
  MaxLog = 4
SYMMETRY Symmetry
INVARIANTS RCTypeOK CursorDelivered
