SPECIFICATION Spec
CONSTANTS
  r1 = r1 r2 = r2
  a1 = a1 a2 = a2 a3 = a3
  h1 = h1 h2 = h2
  None = None
  Requests = {r1, r2}
  Agents = {a1, a2}
  Holds = {h1}
  Types = {"note", "confirm", "decline"}
  MaxLog = 2
SYMMETRY Symmetry
INVARIANTS TypeOK ClosureExplained HoldOutcomeHonest
PROPERTIES ArchivedQuiet
