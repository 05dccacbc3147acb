SPECIFICATION LiveSpec
CONSTANTS
  r1 = r1 r2 = r2 r3 = r3 r4 = r4
  h1 = h1 h2 = h2 h3 = h3
  k1 = k1 k2 = k2
  p1 = p1 p2 = p2
  d1 = d1 d2 = d2
  o1 = o1 o2 = o2
  None = None
  Requests = {r1, r2}
  Holds = {h1, h2}
  Keys = {k1}
  Payloads = {p1}
  Digests = {d1, d2}
  Owners = {o1}
  CrossKeys = {}
  NoTargetKeys = {}
  RequiredOwners <- OwnBrain
  MaxCommitFaults = 2
  Aborts = FALSE
  ContractViolations = FALSE
PROPERTIES ClaimsResolve
