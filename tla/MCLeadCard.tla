---------------------------- MODULE MCLeadCard ----------------------------
(* LeadCard with an agent, a senior agent and an administrator, and two    *)
(* requests.                                                               *)
EXTENDS LeadCard, TLC

CONSTANTS a, s, x, q1, q2, forAgents, forSeniors, p1, p2, v

MCStartRole == a :> "AGENT" @@ s :> "SR_AGENT" @@ x :> "ADMIN"
MCRoleChanges == {<<s, "ADMIN">>, <<s, "SR_AGENT">>, <<a, "CLOSER">>}
MCMatrixEdits == {<<"view_all_leads", "ADMIN", "DENIED">>}
MCTierOf == forAgents :> "AGENT" @@ forSeniors :> "SR_AGENT"
MCTopics == {{"STATUS", "DROP_STATUS"}, {"PHONE", "COMMENT"}, {"VALUE", "DROP_FIELD"},
             {"VALUE", "ACCOUNTS"}}
Interchangeable == Permutations(Requests)
=============================================================================
