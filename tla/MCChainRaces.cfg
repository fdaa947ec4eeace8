SPECIFICATION Spec
CONSTANTS
  agent = agent
  senior = senior
  closer = closer
  admin = admin
  manager = manager
  north = north
  south = south
  NoUser = NoUser
  NoLead = NoLead
  NoRow = NoRow
  NoOffice = NoOffice
  Matrix <- SeedMatrix
  Users <- Team
  Accounts <- TeamAccounts
  UserEdits <- TeamEdits
  Leads = {l1}
  RowIds = {r1, r2}
  Requests = {q1, q2}
  Ops = {"CREATE", "DIRECT", "REQUEST", "CLOSED_WON", "SEND_BACK", "ROUTE", "REOPEN"}
  MaxTrail = 3
  Offices = {}
SYMMETRY Symmetric
INVARIANTS TypeOK NoStrandedLead AssigneeIsLastHop AuditExplainsStatus RoutedRowHasHop TruthfulNotices
PROPERTIES TierFollowsPoint
