SPECIFICATION Spec
CONSTANTS
  agent = agent
  senior = senior
  closer = closer
  admin = admin
  manager = manager
  north = north
  south = south
  NoUser = NoUser
  NoLead = NoLead
  NoRow = NoRow
  NoOffice = NoOffice
  Matrix <- SeedMatrix
  Users <- OfficeStaff
  Accounts <- OfficeAccounts
  UserEdits <- NoEdits
  Leads = {l1}
  RowIds = {r1, r2}
  Requests = {q1, q2}
  Ops = {"CREATE", "DIRECT", "REQUEST", "ROUTE"}
  MaxTrail = 4
  Offices = {north, south}
SYMMETRY Symmetric
INVARIANT OfficeWise
PROPERTY ImplementsLedger
