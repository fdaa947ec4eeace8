SPECIFICATION Spec
CONSTANTS
  agent = agent
  senior = senior
  closer = closer
  admin = admin
  manager = manager
  north = north
  south = south
  NoUser = NoUser
  NoLead = NoLead
  NoRow = NoRow
  NoOffice = NoOffice
  Matrix <- SeedMatrix
  Users <- Team
  Accounts <- TeamAccounts
  UserEdits <- NoEdits
  Leads = {l1}
  RowIds = {r1, r2}
  Requests = {q1}
  Ops = {"CREATE", "CLOSED_WON", "SEND_BACK"}
  MaxTrail = 3
  Offices = {}
SYMMETRY Symmetric
INVARIANT ClosedLeadLeavesBucket
