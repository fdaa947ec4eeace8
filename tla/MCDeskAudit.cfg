SPECIFICATION Spec
CONSTANTS
  NoPerson = NoPerson
  NoDesk = NoDesk
  People = {ann, bob}
  Managers = {bob}
  Desks = {d1, d2}
  MaxSessions = 3
  Requests = {q1}
  SeatRequired = FALSE
  Ops = {"CLOCK_IN", "ASSIGN"}
  DeskEdits = {}
INVARIANT TakeoverIsAudited
CHECK_DEADLOCK FALSE
