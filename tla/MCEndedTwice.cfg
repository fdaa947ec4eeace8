SPECIFICATION Spec
CONSTANTS
  Tabs = {a}
  Home = home
  Colleagues = {guest}
  Nobody = nobody
  MaxSids = 3
  MaxCalls = 2
  Mixes = {{"WORK", "START", "END"}}
  Unanswered = {}
PROPERTY LoginSurvivesEnds
