SPECIFICATION Spec
CONSTANTS
  NoPerson = NoPerson
  NoDesk = NoDesk
  People = {ann, bob}
  Managers = {bob}
  Desks = {d1, d2}
  MaxSessions = 4
  Requests = {q1}
  SeatRequired = FALSE
  Ops = {"CLOCK_IN", "CLOCK_OUT", "FORCE"}
  DeskEdits = {d1, d2}
SYMMETRY Symmetric
INVARIANT OneOpenSession
PROPERTY EndedSessionIsFinal
