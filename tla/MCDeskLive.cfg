SPECIFICATION FairSpec
CONSTANTS
  NoPerson = NoPerson
  NoDesk = NoDesk
  People = {ann, bob}
  Managers = {bob}
  Desks = {d1, d2}
  MaxSessions = 4
  Requests = {q1, q2}
  SeatRequired = FALSE
  Ops = {"CLOCK_IN"}
  DeskEdits = {}
PROPERTY EveryRequestEnds
CHECK_DEADLOCK FALSE
