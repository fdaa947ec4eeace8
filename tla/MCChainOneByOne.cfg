SPECIFICATION Spec
CONSTANTS
  agent = agent
  senior = senior
  closer = closer
  admin = admin
  manager = manager
  north = north
  south = south
  NoUser = NoUser
  NoLead = NoLead
  NoRow = NoRow
  NoOffice = NoOffice
  Matrix <- SeedMatrix
  Users <- Team
  Accounts <- TeamAccounts
  UserEdits <- NoEdits
  Leads = {l1}
  RowIds = {r1, r2, r3}
  Requests = {q1}
  Ops = {"CREATE", "DIRECT", "REQUEST", "CLOSED_WON", "CLOSED_LOST", "SEND_BACK", "ROUTE", "REOPEN"}
  MaxTrail = 5
  Offices = {}
SYMMETRY Symmetric
INVARIANTS HopChain OneHopPerRow
