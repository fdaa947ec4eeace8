------------------------------- MODULE LeadCard -------------------------------
(***************************************************************************)
(* One lead's card: its contact number, its work status from the list of   *)
(* its tier, its custom field, its comments, the blocks an administrator   *)
(* puts on it, and the notices its watchers get.  Requests overlap: each   *)
(* reads the lead (and decides on what it read), then reads the list it    *)
(* picks from, then writes, then records and tells.  Accounts get other    *)
(* roles and the permission matrix is edited meanwhile; a request decides  *)
(* on both as they are when it begins (a cached matrix is RequestGate's).  *)
(* Moves of the lead come from the call chain (module CallChain) as single *)
(* steps.  Every account is an active one.                                 *)
(*                                                                         *)
(* Bounds: Requests at once; Topics, the sets of operations that are mixed *)
(* in one behaviour, with changes of the accounts or without; Blockable,   *)
(* the users that are ever blocked; RoleChanges and MatrixEdits, what an   *)
(* administrator may set.                                                  *)
(***************************************************************************)
EXTENDS Naturals, PermissionMatrix

CONSTANTS Users, StartRole, Creator, Requests, Statuses, TierOf, Phones, Values,
          Topics, Blockable, RoleChanges, MatrixEdits, NoStatus, NoValue

Kinds == {"STATUS", "PHONE", "VALUE", "COMMENT", "DROP_STATUS", "DROP_FIELD"}
Tiers == {"AGENT", "SR_AGENT", "CLOSER"}
Stages == {"unborn", "active", "hidden", "gone"}

ASSUME CardAssumption ==
  /\ StartRole \in [Users -> Roles] /\ Creator \in Users
  /\ TierOf \in [Statuses -> Tiers] /\ NoStatus \notin Statuses /\ NoValue \notin Values
  /\ Phones # {}   \* no lead is created without a phone
  /\ \A topic \in Topics : topic \subseteq Kinds \cup {"ACCOUNTS"}
  /\ Blockable \subseteq Users
  /\ RoleChanges \subseteq Users \X Roles                   \* <<user, new role>>
  /\ MatrixEdits \subseteq Permissions \X Roles \X Scopes   \* <<key, role, new cell>>

\* Where a request stands, what it read of the lead, what was changed behind its back
\* since (and by it, who has watched the lead ever since it wrote), and whom it told.
Request == [phase: {"idle", "read", "checked", "written", "recorded", "told"}, kind: Kinds, user: Users,
            arg: Statuses \cup Phones \cup Values \cup {NoStatus, NoValue}, tier: Tiers, phone: Phones,
            stale: SUBSET {"moved", "phoned", "valued"}, since: SUBSET Users, told: SUBSET Users]
FirstPhone == CHOOSE p \in Phones : TRUE
Idle == [phase |-> "idle", kind |-> "COMMENT", user |-> Creator, arg |-> NoValue, tier |-> "AGENT",
         phone |-> FirstPhone, stale |-> {}, since |-> {}, told |-> {}]

VARIABLES
  topic,        \* the operations of this behaviour (a bound)
  role,         \* the users' role_id
  rights,       \* the permissions table
  lead,         \* assignee, tier, work status and primary phone of the leads row
  primaryRow,   \* the number in the lead_phones row marked primary
  statusStage, fieldStage,  \* the work-status rows and the custom field
  value,        \* the lead's lead_custom_values row
  blocks,       \* the users of the lead's lead_access_blocks rows
  worked,       \* who is in its routing history or logged an activity
  reqs,
  overtaken     \* which of the card's entries were decided on a lead that has changed since

vars == <<topic, role, rights, lead, primaryRow, statusStage, fieldStage, value, blocks, worked, reqs, overtaken>>
accounts == <<role, rights>>
tables == <<statusStage, fieldStage, value>>

ScopeOf(u, p) == rights[p][role[u]]
Granted(u, p) == ScopeOf(u, p) # "DENIED"
Blocked(u) == u \in blocks /\ ~Granted(u, "manage_lead_access")
CanView(u) == Granted(u, "view_all_leads") \/ u \in {lead.assignee, Creator}
MayEdit(u) ==
  /\ Granted(u, "edit_lead")
  /\ ScopeOf(u, "edit_lead") = "OWN" => u = Creator
  /\ ScopeOf(u, "edit_lead") = "ASSIGNED" => u = lead.assignee
Watching(l, roles, matrix) ==
  {l.assignee, Creator} \cup {u \in Users : matrix["view_all_leads"][roles[u]] # "DENIED"}
Watchers(l) == Watching(l, role, rights)

Init ==
  /\ topic \in Topics
  /\ role = StartRole
  /\ rights = SeedMatrix
  /\ lead = [assignee |-> Creator, tier |-> "AGENT", workStatus |-> NoStatus, phone |-> FirstPhone]
  /\ primaryRow = FirstPhone
  /\ statusStage = [s \in Statuses |-> "unborn"]
  /\ fieldStage = "unborn"
  /\ value = NoValue
  /\ blocks = {}
  /\ worked = {Creator}
  /\ reqs = [r \in Requests |-> Idle]
  /\ overtaken = {}

-----------------------------------------------------------------------------
(* Requests: the checks                                                    *)

Args(kind) ==
  CASE kind = "STATUS" -> Statuses \cup {NoStatus} [] kind = "DROP_STATUS" -> Statuses
    [] kind = "PHONE" -> Phones                    [] kind = "VALUE" -> Values
    [] kind \in {"COMMENT", "DROP_FIELD"} -> {NoValue}

\* assertViewAccess and the edit scope; leads.service update looks at block and scope only.
MayChange(u, kind) == ~Blocked(u) /\ MayEdit(u) /\ (kind # "PHONE" => CanView(u))

\* Comments: who may view the lead, or ever worked it.
assertParticipant(u) == Granted(u, "comment_lead") /\ ~Blocked(u) /\ (CanView(u) \/ u \in worked)

\* A status or field that no lead uses, as counted now, may be dropped.
Unused(kind, s) ==
  IF kind = "DROP_STATUS" THEN statusStage[s] \in {"active", "hidden"} /\ lead.workStatus # s
  ELSE fieldStage \in {"active", "hidden"} /\ value = NoValue

Begin(r) ==
  /\ reqs[r].phase = "idle"
  /\ \E u \in Users, kind \in topic \cap Kinds : \E arg \in Args(kind) :
       /\ CASE kind \in {"STATUS", "VALUE", "PHONE"} -> MayChange(u, kind)
            [] kind = "COMMENT" -> assertParticipant(u)
            [] kind \in {"DROP_STATUS", "DROP_FIELD"} -> Granted(u, "manage_custom_fields") /\ Unused(kind, arg)
       /\ reqs' = [reqs EXCEPT ![r] =
            [Idle EXCEPT !.phase = IF kind \in {"STATUS", "VALUE"} THEN "read" ELSE "checked",
                         !.kind = kind, !.user = u, !.arg = arg, !.tier = lead.tier, !.phone = lead.phone]]
  /\ UNCHANGED <<topic, accounts, lead, primaryRow, tables, blocks, worked, overtaken>>

\* The status picked is active and of the tier the lead was read with; the field is active.
Check(r) ==
  LET q == reqs[r]
      ok == IF q.kind = "VALUE" THEN fieldStage = "active"
            ELSE q.arg # NoStatus => statusStage[q.arg] = "active" /\ TierOf[q.arg] = q.tier
  IN  /\ q.phase = "read"
      /\ reqs' = [reqs EXCEPT ![r] = IF ok THEN [@ EXCEPT !.phase = "checked"] ELSE Idle]
      /\ UNCHANGED <<topic, accounts, lead, primaryRow, tables, blocks, worked, overtaken>>

-----------------------------------------------------------------------------
(* Requests: the writes                                                    *)

\* Request r has written, and no longer needs what it read; what the others read is out of date.
Written(r, news) ==
  reqs' = [q \in Requests |->
             IF q = r THEN [reqs[r] EXCEPT !.phase = "written", !.tier = "AGENT", !.phone = FirstPhone,
                                           !.stale = {}, !.since = Watchers(lead)]
             ELSE IF reqs[q].phase \in {"read", "checked"} THEN [reqs[q] EXCEPT !.stale = @ \cup news]
             ELSE reqs[q]]
Refused(r) == reqs' = [reqs EXCEPT ![r] = Idle]
Mark(entry, whether) == overtaken' = IF whether THEN overtaken \cup {entry} ELSE overtaken \ {entry}

\* A status dropped since it was looked up violates the foreign key.
WriteStatus(r) ==
  LET q == reqs[r]
  IN  /\ q.phase = "checked" /\ q.kind = "STATUS"
      /\ \/ /\ q.arg # NoStatus => statusStage[q.arg] # "gone"
            /\ lead' = [lead EXCEPT !.workStatus = q.arg]
            /\ Mark("status", "moved" \in q.stale)
            /\ Written(r, {})
         \/ /\ q.arg # NoStatus /\ statusStage[q.arg] = "gone"
            /\ Refused(r)
            /\ UNCHANGED <<lead, overtaken>>
      /\ UNCHANGED <<topic, accounts, primaryRow, tables, blocks, worked>>

\* One transaction: the primary row only when the number differs from the one read.
WritePhone(r) ==
  LET q == reqs[r]
  IN  /\ q.phase = "checked" /\ q.kind = "PHONE"
      /\ lead' = [lead EXCEPT !.phone = q.arg]
      /\ IF q.arg # q.phone
         THEN primaryRow' = q.arg /\ worked' = worked \cup {q.user} /\ Mark("phone", FALSE)
         ELSE UNCHANGED <<primaryRow, worked>>
              /\ Mark("phone", "phone" \in overtaken \/ "phoned" \in q.stale)
      /\ Written(r, {"phoned"})
      /\ UNCHANGED <<topic, accounts, tables, blocks>>

WriteValue(r) ==
  LET q == reqs[r]
  IN  /\ q.phase = "checked" /\ q.kind = "VALUE"
      /\ \/ /\ fieldStage # "gone"
            /\ value' = q.arg
            /\ Written(r, {"valued"})
         \/ /\ fieldStage = "gone"
            /\ Refused(r)
            /\ UNCHANGED value
      /\ UNCHANGED <<topic, accounts, lead, primaryRow, statusStage, fieldStage, blocks, worked, overtaken>>

AddComment(r) ==
  /\ reqs[r].phase = "checked" /\ reqs[r].kind = "COMMENT"
  /\ Written(r, {})
  /\ UNCHANGED <<topic, accounts, lead, primaryRow, tables, blocks, worked, overtaken>>

\* ON DELETE SET NULL: a lead that took the status since the count loses it.
DropStatus(r) ==
  LET q == reqs[r]
  IN  /\ q.phase = "checked" /\ q.kind = "DROP_STATUS"
      /\ statusStage' = [statusStage EXCEPT ![q.arg] = "gone"]
      /\ lead' = [lead EXCEPT !.workStatus = IF @ = q.arg THEN NoStatus ELSE @]
      /\ overtaken' = IF lead.workStatus = q.arg THEN overtaken \ {"status"} ELSE overtaken
      /\ Refused(r)
      /\ UNCHANGED <<topic, accounts, primaryRow, fieldStage, value, blocks, worked>>

\* ON DELETE CASCADE: a value stored since the count goes with the field.
\* Faulty: the database keeps the value.
DropFieldAlone(r) ==
  LET q == reqs[r]
  IN  /\ q.phase = "checked" /\ q.kind = "DROP_FIELD"
      /\ fieldStage' = "gone"
      /\ Mark("value", "valued" \in q.stale)
      /\ Refused(r)
      /\ UNCHANGED <<topic, accounts, lead, primaryRow, statusStage, value, blocks, worked>>
DropField(r) ==
  LET q == reqs[r]
  IN  /\ q.phase = "checked" /\ q.kind = "DROP_FIELD"
      /\ fieldStage' = "gone"
      /\ value' = NoValue
      /\ Mark("value", "valued" \in q.stale)
      /\ Refused(r)
      /\ UNCHANGED <<topic, accounts, lead, primaryRow, statusStage, blocks, worked>>

\* The timeline entry of a status or a value makes its author a participant.
Record(r) ==
  /\ reqs[r].phase = "written"
  /\ reqs' = [reqs EXCEPT ![r].phase = "recorded"]
  /\ worked' = IF reqs[r].kind \in {"STATUS", "VALUE"} THEN worked \cup {reqs[r].user} ELSE worked
  /\ UNCHANGED <<topic, accounts, lead, primaryRow, tables, blocks, overtaken>>

\* notifyLeadWatchers reads the lead again.
\* Faulty: the assignee is left out.
RecipientsButAssignee(q) == (Watchers([lead EXCEPT !.assignee = Creator])) \ {q.user}
Recipients(q) == Watchers(lead) \ {q.user}

Announced(q) == q.kind = "STATUS" => q.arg # NoStatus
Tell(r) ==
  /\ reqs[r].phase = "recorded"
  /\ reqs' = [reqs EXCEPT ![r].phase = "told",
                          ![r].told = IF Announced(reqs[r]) THEN Recipients(reqs[r]) ELSE {}]
  /\ UNCHANGED <<topic, accounts, lead, primaryRow, tables, blocks, worked, overtaken>>

\* The response is sent, or the process stops wherever it was.
End(r) ==
  /\ reqs[r].phase # "idle"
  /\ Refused(r)
  /\ UNCHANGED <<topic, accounts, lead, primaryRow, tables, blocks, worked, overtaken>>

-----------------------------------------------------------------------------
(* What changes around them                                                *)

\* The call chain moves the lead: work status cleared, both ends in its history.
MovedTo(u) ==
  reqs' = [r \in Requests |->
             LET q == reqs[r]
             IN  IF q.phase \in {"read", "checked"} THEN [q EXCEPT !.stale = @ \cup {"moved"}]
                 ELSE [q EXCEPT !.since = @ \cap Watchers([lead EXCEPT !.assignee = u])]]
\* Faulty: the work status of the old tier stays.
TransferKeepsStatus(u) ==
  /\ role[u] \in Tiers /\ u # lead.assignee
  /\ lead' = [lead EXCEPT !.assignee = u, !.tier = role[u]]
  /\ worked' = worked \cup {lead.assignee, u}
  /\ Mark("status", FALSE)
  /\ MovedTo(u)
  /\ UNCHANGED <<topic, accounts, primaryRow, tables, blocks>>
Transfer(u) ==
  /\ role[u] \in Tiers /\ u # lead.assignee
  /\ lead' = [lead EXCEPT !.assignee = u, !.tier = role[u], !.workStatus = NoStatus]
  /\ worked' = worked \cup {lead.assignee, u}
  /\ Mark("status", FALSE)
  /\ MovedTo(u)
  /\ UNCHANGED <<topic, accounts, primaryRow, tables, blocks>>

\* An account gets another role, or a cell of the matrix another scope.  Who no longer
\* watches the lead has not watched it throughout.
Rewatched(watching) ==
  reqs' = [r \in Requests |->
             IF reqs[r].phase \in {"read", "checked"} THEN reqs[r]
             ELSE [reqs[r] EXCEPT !.since = @ \cap watching]]
ChangeRole ==
  /\ "ACCOUNTS" \in topic
  /\ \E change \in RoleChanges :
       LET roles == [role EXCEPT ![change[1]] = change[2]]
       IN  role' = roles /\ Rewatched(Watching(lead, roles, rights))
  /\ UNCHANGED <<topic, rights, lead, primaryRow, tables, blocks, worked, overtaken>>

\* The administrators' role keeps the permissions that could lock everyone out.
MayEditCell(edit) ==
  edit[2] = "ADMIN" /\ edit[1] \in {"manage_permissions", "system_lockdown"} => edit[3] # "DENIED"
updateCell ==
  /\ "ACCOUNTS" \in topic
  /\ \E edit \in MatrixEdits :
       LET matrix == [rights EXCEPT ![edit[1]][edit[2]] = edit[3]]
       IN  MayEditCell(edit) /\ rights' = matrix /\ Rewatched(Watching(lead, role, matrix))
  /\ UNCHANGED <<topic, role, lead, primaryRow, tables, blocks, worked, overtaken>>

\* A user is blocked once, unless the role is immune; a block may be lifted, and stays
\* when the user is made immune.
Block(u) ==
  /\ ~Granted(u, "manage_lead_access") /\ u \notin blocks
  /\ blocks' = blocks \cup {u}
  /\ UNCHANGED <<topic, accounts, lead, primaryRow, tables, worked, reqs, overtaken>>
Unblock(u) ==
  /\ u \in blocks
  /\ blocks' = blocks \ {u}
  /\ UNCHANGED <<topic, accounts, lead, primaryRow, tables, worked, reqs, overtaken>>

\* Lists are added to, and their entries hidden and shown again.
NextStage(stage) ==
  CASE stage \in {"unborn", "hidden"} -> "active" [] stage = "active" -> "hidden"
EditStatus(s) ==
  /\ "STATUS" \in topic /\ statusStage[s] # "gone"
  /\ statusStage' = [statusStage EXCEPT ![s] = NextStage(@)]
  /\ UNCHANGED <<topic, accounts, lead, primaryRow, fieldStage, value, blocks, worked, reqs, overtaken>>
EditField ==
  /\ "VALUE" \in topic /\ fieldStage # "gone"
  /\ fieldStage' = NextStage(fieldStage)
  /\ UNCHANGED <<topic, accounts, lead, primaryRow, statusStage, value, blocks, worked, reqs, overtaken>>

Next ==
  \/ \E r \in Requests :
       \/ Begin(r) \/ Check(r) \/ WriteStatus(r) \/ WritePhone(r) \/ WriteValue(r) \/ AddComment(r)
       \/ DropStatus(r) \/ DropField(r) \/ Record(r) \/ Tell(r) \/ End(r)
  \/ \E u \in Users : Transfer(u)
  \/ \E u \in Blockable : Block(u) \/ Unblock(u)
  \/ \E s \in Statuses : EditStatus(s)
  \/ EditField \/ ChangeRole \/ updateCell

Spec == Init /\ [][Next]_vars

-----------------------------------------------------------------------------
(* Properties                                                              *)

\* The state's shape, and the references the database keeps, whoever drops a list entry
\* while others pick it: no value without its field, no work status without its row.
TypeOK ==
  /\ topic \in Topics
  /\ role \in [Users -> Roles] /\ rights \in [Permissions -> [Roles -> Scopes]]
  /\ lead \in [assignee: Users, tier: Tiers, workStatus: Statuses \cup {NoStatus}, phone: Phones]
  /\ primaryRow \in Phones
  /\ statusStage \in [Statuses -> Stages] /\ fieldStage \in Stages
  /\ value \in Values \cup {NoValue}
  /\ blocks \subseteq Users /\ worked \subseteq Users
  /\ reqs \in [Requests -> Request]
  /\ value # NoValue => fieldStage \in {"active", "hidden"}
  /\ lead.workStatus # NoStatus => statusStage[lead.workStatus] \in {"active", "hidden"}

\* The card agrees with the lead: its work status is one of its tier's list, and its primary
\* phone row holds its primary phone, after any transfers, edits, drops and crashes, but for
\* an entry written by a request that was overtaken between its read and its write.
CardAgrees ==
  /\ lead.workStatus # NoStatus /\ "status" \notin overtaken => TierOf[lead.workStatus] = lead.tier
  /\ "phone" \notin overtaken => primaryRow = lead.phone

\* Whoever watched the lead the whole time from a change of its card to the end of the
\* request, through any transfer, change of role and edit of the matrix in between, has been
\* told of it, except its author.
WatchersAreTold ==
  \A r \in Requests :
    reqs[r].phase = "told" /\ Announced(reqs[r]) => reqs[r].since \ {reqs[r].user} \subseteq reqs[r].told
=============================================================================
