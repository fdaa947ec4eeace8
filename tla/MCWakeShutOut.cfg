SPECIFICATION FairSpec
CONSTANTS
  Requests = {q1, q2}
  LiveRoles = {"ADMIN"}
  LiveKeys = {"view_own_leads", "manage_permissions", "system_lockdown", "enrich_lead"}
  NewKeys = {"enrich_lead"}
  Edits <- OneEdit
  Mixes = {{"LOCK", "NEW_KEY", "WAKE"}}
  Sources = {"desk"}
  Owner = "desk"
  WakeLimit = 1
  FailLimit = 1
  MaxKeys = 2
  MaxChanges = 1
PROPERTY AlwaysWakes
