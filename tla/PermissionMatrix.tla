-------------------------- MODULE PermissionMatrix --------------------------
(***************************************************************************)
(* The role-permission matrix: which role may call which endpoint, and     *)
(* with which row scope.                                                   *)
(***************************************************************************)

Roles == {"AGENT", "SR_AGENT", "CLOSER", "MANAGER", "ADMIN"}

Permissions == {
  "search_providers", "create_lead", "view_own_leads", "view_all_leads", "edit_lead",
  "log_activity", "request_transfer", "route_leads", "close_deal", "send_back",
  "view_reports_team", "view_reports_own", "view_api_costs", "export_data", "manage_users",
  "manage_permissions", "manage_providers", "system_lockdown", "enrich_lead",
  "view_enrichment", "edit_score_weights", "manage_dnc_optout", "view_enrichment_cost",
  "manage_custom_fields", "comment_lead", "manage_lead_access", "manage_desks",
  "manage_offices", "view_regulated_data", "run_background_report"}

\* A cell of the matrix: DENIED, or the scope the guard attaches to the caller.
Scopes == {"DENIED", "ALL", "OWN", "ASSIGNED", "VIEW"}

\* cellToPermission reads a bare `true` as scope ALL, so a role that is simply
\* granted close_deal or send_back is not limited to its own leads.
Cell(granted) == [r \in Roles |-> IF r \in granted THEN "ALL" ELSE "DENIED"]

\* PERMISSION_MATRIX, the default the seed and the boot-time sync install.
SeedMatrix ==
  [p \in Permissions |->
     CASE p \in {"view_own_leads", "log_activity", "view_reports_own", "enrich_lead",
                 "view_enrichment", "comment_lead"}
            -> Cell(Roles)
       [] p \in {"search_providers", "create_lead", "request_transfer"}
            -> Cell({"AGENT", "SR_AGENT", "MANAGER", "ADMIN"})
       [] p \in {"close_deal", "send_back"}
            -> Cell({"CLOSER", "MANAGER", "ADMIN"})
       [] p \in {"view_all_leads", "route_leads", "view_reports_team", "view_api_costs",
                 "export_data", "manage_dnc_optout", "view_enrichment_cost"}
            -> Cell({"MANAGER", "ADMIN"})
       [] p \in {"manage_permissions", "manage_providers", "system_lockdown",
                 "edit_score_weights", "manage_custom_fields", "manage_lead_access"}
            -> Cell({"ADMIN"})
       [] p \in {"manage_users", "manage_desks", "manage_offices"}
            -> [Cell({"ADMIN"}) EXCEPT !["MANAGER"] = "VIEW"]
       [] p \in {"view_regulated_data", "run_background_report"}
            -> Cell({})
       [] p = "edit_lead"
            -> [AGENT |-> "OWN", SR_AGENT |-> "ASSIGNED", CLOSER |-> "ASSIGNED",
                MANAGER |-> "ALL", ADMIN |-> "ALL"]]
=============================================================================
