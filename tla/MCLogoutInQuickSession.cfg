SPECIFICATION Spec
CONSTANTS
  Tabs = {a}
  Home = home
  Colleagues = {guest}
  Nobody = nobody
  MaxSids = 3
  MaxCalls = 1
  Mixes = {{"LOAD", "START", "END", "LOGOUT"}}
  Unanswered = {}
INVARIANT ShownIsActing
