-------------------------- MODULE AssignmentLedger --------------------------
(***************************************************************************)
(* What the call chain promises about who holds a lead, with no queue, no  *)
(* handlers and no concurrency: the holder of a lead changes only by       *)
(* opening the lead or by one more entry of its append-only ledger, the    *)
(* entry names the new holder, and the lead is at the last desk exactly    *)
(* when that entry is a T2_TO_CLOSER one.                                  *)
(***************************************************************************)
EXTENDS Sequences

CONSTANTS Users, Leads, NoUser, Entries

VARIABLES
  holder,   \* [Leads -> Users \cup {NoUser}]
  lastDesk, \* [Leads -> BOOLEAN]: the lead is with a closer
  ledger    \* [Leads -> Seq(Entries)]

lvars == <<holder, lastDesk, ledger>>

LedgerInit ==
  /\ holder = [l \in Leads |-> NoUser]
  /\ lastDesk = [l \in Leads |-> FALSE]
  /\ ledger = [l \in Leads |-> << >>]

OpenLead(l, u) ==
  /\ holder[l] = NoUser
  /\ holder' = [holder EXCEPT ![l] = u]
  /\ UNCHANGED <<lastDesk, ledger>>

HandOver(l, e) ==
  /\ holder[l] # NoUser
  /\ ledger' = [ledger EXCEPT ![l] = Append(@, e)]
  /\ holder' = [holder EXCEPT ![l] = e.to]
  /\ lastDesk' = [lastDesk EXCEPT ![l] = (e.point = "T2_TO_CLOSER")]

LedgerNext ==
  \E l \in Leads :
    \/ \E u \in Users : OpenLead(l, u)
    \/ \E e \in Entries : HandOver(l, e)

LedgerSpec == LedgerInit /\ [][LedgerNext]_lvars
=============================================================================
