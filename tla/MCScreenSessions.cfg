SPECIFICATION FairSpec
CONSTANTS
  Tabs = {a}
  Home = home
  Colleagues = {guest}
  Nobody = nobody
  MaxSids = 3
  MaxCalls = 2
  Mixes = {{"WORK", "START"}, {"LOAD", "START", "END"}, {"WORK", "LOAD", "LOGOUT"}}
  Unanswered = {"WORK", "LOGOUT", "START", "END"}
INVARIANTS TypeOK ColleagueIsShown BatchTokenIsAnnounced
PROPERTIES OriginalLoginReturns EndedSessionsDie
