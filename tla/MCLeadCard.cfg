CONSTANTS
  a = a
  s = s
  x = x
  q1 = q1
  q2 = q2
  forAgents = forAgents
  forSeniors = forSeniors
  p1 = p1
  p2 = p2
  v = v
  Users = {a, s, x}
  StartRole <- MCStartRole
  Creator = a
  Requests = {q1, q2}
  Statuses = {forAgents, forSeniors}
  TierOf <- MCTierOf
  Phones = {p1, p2}
  Values = {v}
  Topics <- MCTopics
  Blockable = {s}
  RoleChanges <- MCRoleChanges
  MatrixEdits <- MCMatrixEdits
  NoStatus = NoStatus
  NoValue = NoValue
SPECIFICATION Spec
SYMMETRY Interchangeable
INVARIANTS TypeOK CardAgrees WatchersAreTold
