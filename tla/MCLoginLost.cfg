SPECIFICATION Spec
CONSTANTS
  Tabs = {a}
  Home = home
  Colleagues = {guest}
  Nobody = nobody
  MaxSids = 3
  MaxCalls = 1
  Mixes = {{"WORK", "START", "END"}}
  Unanswered = {}
PROPERTY LoginSurvivesLoading
