SPECIFICATION Spec
CONSTANTS
  NoPerson = NoPerson
  NoDesk = NoDesk
  People = {ann, bob}
  Managers = {bob}
  Desks = {d1, d2}
  MaxSessions = 3
  Requests = {q1, q2}
  SeatRequired = TRUE
  Ops = {"CLOCK_IN", "ASSIGN", "CALL"}
  DeskEdits = {}
SYMMETRY Symmetric
INVARIANTS TypeOK TakeoverIsTold CallsAttributed
CHECK_DEADLOCK FALSE
