SPECIFICATION Spec
CONSTANTS
  a1 = a1 a2 = a2 a3 = a3
  s1 = s1 s2 = s2
  q1 = q1 q2 = q2 q3 = q3
  w1 = w1
  None = None
  Conversation = Conversation
  Agents = {a1, a2, a3}
  Sessions = {s1, s2}
  AgentOf <- OneAgent
  Inboxes = {a1}
  MaySeeInbox <- OwnInbox
  Requests = {q1, q2, q3}
  Writes = {w1}
  MaxPerAgent = 2
  MaxRecords = 3
  InitialStatus <- OneOfEach
SYMMETRY Symmetry
INVARIANTS TypeOK CountsTrack SubscriptionsAudited PingsEntitled
CHECK_DEADLOCK FALSE
