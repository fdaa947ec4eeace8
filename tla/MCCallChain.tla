---------------------------- MODULE MCCallChain ----------------------------
(***************************************************************************)
(* Small instances of CallChain for TLC.                                   *)
(***************************************************************************)
EXTENDS CallChain, TLC

CONSTANTS agent, senior, closer, admin, manager, north, south

In(o, r) == [role |-> r, office |-> o, active |-> TRUE]

\* One account of each role of the chain and an administrator, all office-less.
TeamAccounts ==
  (agent :> In(NoOffice, "AGENT")) @@ (senior :> In(NoOffice, "SR_AGENT"))
    @@ (closer :> In(NoOffice, "CLOSER")) @@ (admin :> In(NoOffice, "ADMIN"))
Team == DOMAIN TeamAccounts

\* While requests are in flight the Sr Agent may be promoted.
TeamEdits == {[user |-> senior, account |-> In(NoOffice, "CLOSER")]}
NoEdits == {}

\* Two offices: an agent up north and a manager down south, either of whom may
\* create leads; a Sr Agent, a closer and an administrator who float.
OfficeAccounts ==
  (agent :> In(north, "AGENT")) @@ (senior :> In(NoOffice, "SR_AGENT"))
    @@ (closer :> In(NoOffice, "CLOSER")) @@ (manager :> In(south, "MANAGER"))
    @@ (admin :> In(NoOffice, "ADMIN"))
OfficeStaff == DOMAIN OfficeAccounts

Symmetric == Permutations(RowIds) \cup Permutations(Requests) \cup Permutations(Leads)
=============================================================================
