------------------------------ MODULE CallChain ------------------------------
(***************************************************************************)
(* The call chain of the CRM: leads, the routing queue ("Manager bucket"), *)
(* the append-only routing history and the audit entries of the chain.     *)
(*                                                                         *)
(* Every endpoint of the routing service is an asynchronous handler: it    *)
(* reads rows, awaits, checks what it read, awaits again, and finally      *)
(* commits one database transaction and sends notifications.  Handlers of  *)
(* different requests interleave at every await, and the transactions run  *)
(* at READ COMMITTED without row locks on what they read, so a commit may  *)
(* act on a check that no longer holds.  A request is therefore a record   *)
(* with a program counter, one action per awaited step; the transaction is *)
(* one atomic action because its writes are serialised by the row lock on  *)
(* the lead, which is the first thing each of them writes.                 *)
(***************************************************************************)
EXTENDS Naturals, Sequences, FiniteSets, PermissionMatrix

CONSTANTS
  Users,       \* accounts
  Leads,       \* lead ids
  RowIds,      \* routing_queue ids; their number bounds the queue rows raised
  Requests,    \* concurrently running handlers
  Offices,
  NoUser, NoLead, NoRow, NoOffice,
  Matrix,      \* the permission matrix in force
  Accounts,    \* [Users -> Account]: role, office and state of each account at start
  UserEdits,   \* the account edits an administrator may make
  Ops,         \* the endpoints in use
  MaxTrail     \* bound: no request is admitted for a lead with that many audit entries

Tiers  == {"AGENT", "SR_AGENT", "CLOSER"}
Points == {"T1_TO_SS", "T1_DIRECT", "T2_TO_CLOSER", "T3_SEND_BACK"}

\* LeadStatus; "ABSENT" stands for an id that is not in the table yet.
Statuses == {"ABSENT", "NEW", "PENDING_ROUTING", "IN_PROGRESS", "QUALIFIED",
             "CLOSED_WON", "CLOSED_LOST", "INVALID"}
ClosedStatuses == {"CLOSED_WON", "CLOSED_LOST"}
Transferable   == {"NEW", "IN_PROGRESS", "QUALIFIED"}

\* The endpoints; closing is two of them, named by the outcome they record.
Endpoints == {"CREATE", "DIRECT", "REQUEST", "CLOSED_WON", "CLOSED_LOST",
              "SEND_BACK", "ROUTE", "REOPEN"}

PermissionOf ==
  [op \in Endpoints |->
     CASE op = "CREATE"               -> "create_lead"
       [] op \in {"DIRECT", "REQUEST"} -> "request_transfer"
       [] op \in ClosedStatuses        -> "close_deal"
       [] op = "SEND_BACK"             -> "send_back"
       [] op \in {"ROUTE", "REOPEN"}   -> "route_leads"]

\* TARGET_ROLE_CODES.  TARGET_TIER gives each of these roles the tier of the
\* same name, so the tier a lead is routed to is the role of the recipient.
TargetRoles == [T1_TO_SS     |-> {"SR_AGENT"},
                T1_DIRECT    |-> {"AGENT", "SR_AGENT"},
                T2_TO_CLOSER |-> {"CLOSER"},
                T3_SEND_BACK |-> {"AGENT", "SR_AGENT"}]

Account == [role: Roles, office: Offices \cup {NoOffice}, active: BOOLEAN]

LeadRow == [status: Statuses, tier: Tiers, assignedTo: Users \cup {NoUser},
            createdBy: Users \cup {NoUser}, office: Offices \cup {NoOffice}]
NoLeadRow == [status |-> "ABSENT", tier |-> "AGENT", assignedTo |-> NoUser,
              createdBy |-> NoUser, office |-> NoOffice]

QueueRow == [status: {"UNUSED", "PENDING", "ROUTED"}, lead: Leads \cup {NoLead},
             point: Points, raisedBy: Users \cup {NoUser},
             routedBy: Users \cup {NoUser}, routedTo: Users \cup {NoUser}]
NoQueueRow == [status |-> "UNUSED", lead |-> NoLead, point |-> "T1_TO_SS",
               raisedBy |-> NoUser, routedBy |-> NoUser, routedTo |-> NoUser]

Hop == [point: Points, from: Users \cup {NoUser}, to: Users, by: Users]

AuditActions == {"LEAD_CREATED", "LEAD_ROUTED", "TRANSFER_REQUESTED", "LEAD_SENT_BACK",
                 "LEAD_REOPENED", "LEAD_CLOSED_WON", "LEAD_CLOSED_LOST"}
AuditEntry == [action: AuditActions, by: Users]

Notice == [type: {"LEAD_ROUTED", "QUEUE_PENDING", "LEAD_CLOSED", "LEAD_SENT_BACK"},
           lead: Leads \cup {NoLead}]

\* pc: "admitted" by the guards, "checked" after the lead (the queue row) was
\* read, "ready" to commit, "notify" after the commit.  role is the recipient's
\* role as read, from the lead's assignee as read, rows what is left to route.
Request == [pc: {"idle", "admitted", "targeted", "checked", "ready", "notify"},
            op: Endpoints, by: Users \cup {NoUser}, scope: Scopes,
            lead: Leads \cup {NoLead}, to: Users \cup {NoUser}, role: Roles,
            rows: SUBSET RowIds, row: RowIds \cup {NoRow},
            from: Users \cup {NoUser}, office: Offices \cup {NoOffice}]
Idle == [pc |-> "idle", op |-> "CREATE", by |-> NoUser, scope |-> "DENIED",
         lead |-> NoLead, to |-> NoUser, role |-> "AGENT", rows |-> {},
         row |-> NoRow, from |-> NoUser, office |-> NoOffice]

ASSUME ConstantsAssumption ==
  /\ NoUser \notin Users /\ NoLead \notin Leads /\ NoRow \notin RowIds
  /\ NoOffice \notin Offices
  /\ Matrix \in [Permissions -> [Roles -> Scopes]]
  /\ Accounts \in [Users -> Account]
  /\ UserEdits \subseteq [user: Users, account: Account]
  /\ Ops \subseteq Endpoints
  /\ MaxTrail \in Nat

VARIABLES
  user,     \* [Users -> Account]
  lead,     \* [Leads -> LeadRow]
  queue,    \* [RowIds -> QueueRow]
  history,  \* [Leads -> Seq(Hop)], routing_history
  audit,    \* [Leads -> Seq(AuditEntry)], the chain's audit_log entries
  inbox,    \* [Users -> SUBSET Notice], notifications ever received
  req       \* [Requests -> Request], the handlers in flight

vars == <<user, lead, queue, history, audit, inbox, req>>
chain == <<lead, queue, history, audit>>

TypeOK ==
  /\ user \in [Users -> Account]
  /\ lead \in [Leads -> LeadRow]
  /\ queue \in [RowIds -> QueueRow]
  /\ history \in [Leads -> Seq(Hop)]
  /\ audit \in [Leads -> Seq(AuditEntry)]
  /\ inbox \in [Users -> SUBSET Notice]
  /\ req \in [Requests -> Request]

Init ==
  /\ user = Accounts
  /\ lead = [l \in Leads |-> NoLeadRow]
  /\ queue = [r \in RowIds |-> NoQueueRow]
  /\ history = [l \in Leads |-> << >>]
  /\ audit = [l \in Leads |-> << >>]
  /\ inbox = [u \in Users |-> {}]
  /\ req = [s \in Requests |-> Idle]

-----------------------------------------------------------------------------
(* Helpers                                                                 *)

Exists(l)  == lead[l].status # "ABSENT"
Closed(l)  == lead[l].status \in ClosedStatuses
Pending(r) == queue[r].status = "PENDING"
Waiting(l) == \E r \in RowIds : Pending(r) /\ queue[r].lead = l
Granted(u, p) == Matrix[p][user[u].role] # "DENIED"
LastOf(seq) == seq[Len(seq)]

\* Office-wise: an account or a lead without an office floats everywhere.
SameOffice(o1, o2) == o1 = NoOffice \/ o2 = NoOffice \/ o1 = o2

At(s, op, pc) == req[s].op = op /\ req[s].pc = pc
Advance(s, changes) == req' = [req EXCEPT ![s] = changes]

\* usersWithPermission: active accounts whose role holds the permission.
Holders(p) == {u \in Users : user[u].active /\ Granted(u, p)}
Routers(l) == {u \in Holders("route_leads") : SameOffice(user[u].office, lead[l].office)}
Watchers(l, actor) ==
  (({lead[l].assignedTo, lead[l].createdBy} \cap Users)
     \cup Holders("view_all_leads")) \ {actor}

-----------------------------------------------------------------------------
(* Admission: the two global guards                                        *)

\* What a caller may send: a lead that exists, a recipient, a choice of queue
\* rows.  MaxTrail keeps the history of a lead finite.
Open(l) == Exists(l) /\ Len(audit[l]) < MaxTrail
Arguments(op) ==
  CASE op = "CREATE" -> [lead: {NoLead}, to: {NoUser}, rows: {{}}]
    [] op = "DIRECT" -> [lead: {l \in Leads : Open(l)}, to: Users, rows: {{}}]
    [] op = "ROUTE"  -> [lead: {NoLead}, to: Users,
                         rows: SUBSET {r \in RowIds : queue[r].status # "UNUSED"
                                                      /\ Open(queue[r].lead)} \ {{}}]
    [] OTHER         -> [lead: {l \in Leads : Open(l)}, to: {NoUser}, rows: {{}}]

\* JwtAuthGuard refuses inactive accounts, PermissionsGuard refuses a role
\* without the endpoint's permission and hands its scope to the handler.
Admit(s, u, op) ==
  /\ req[s].pc = "idle"
  /\ user[u].active
  /\ Granted(u, PermissionOf[op])
  /\ \E a \in Arguments(op) :
       Advance(s, [Idle EXCEPT !.pc = "admitted", !.op = op, !.by = u,
                               !.scope = Matrix[PermissionOf[op]][user[u].role],
                               !.lead = a.lead, !.to = a.to, !.rows = a.rows])
  /\ UNCHANGED <<user, lead, queue, history, audit, inbox>>

\* A failed check, a database error or a crash of the process ends the request:
\* what its transactions committed stays, nothing else happens.
Abandon(s) ==
  /\ req[s].pc # "idle"
  /\ Advance(s, Idle)
  /\ UNCHANGED <<user, lead, queue, history, audit, inbox>>

-----------------------------------------------------------------------------
(* Reads and checks                                                        *)

\* directTransfer(): the agent who holds an agent-tier lead hands it on.
MayTransfer(q) ==
  /\ q.op = "DIRECT"
  /\ lead[q.lead].assignedTo = q.by
  /\ lead[q.lead].tier = "AGENT"
  /\ lead[q.lead].status \in Transferable
  /\ q.to # q.by

\* requestTransfer(): from the Sr Agent tier to the bucket.
MayRequest(q) ==
  /\ q.op = "REQUEST"
  /\ lead[q.lead].assignedTo = q.by
  /\ lead[q.lead].status \in Transferable
  /\ lead[q.lead].tier \notin {"CLOSER", "AGENT"}

\* closeLead(): scope ALL lifts both the assignee and the tier check.
MayClose(q) ==
  /\ q.op \in ClosedStatuses
  /\ q.scope = "ALL" \/ lead[q.lead].assignedTo = q.by
  /\ ~Closed(q.lead)
  /\ lead[q.lead].tier = "CLOSER" \/ q.scope = "ALL"

\* sendBack(): neither the tier nor a pending routing decision matters.
MaySendBack(q) ==
  /\ q.op = "SEND_BACK"
  /\ q.scope = "ALL" \/ lead[q.lead].assignedTo = q.by
  /\ ~Closed(q.lead)

MayReopen(q) == q.op = "REOPEN" /\ Closed(q.lead)

\* The handlers of one lead start by reading it; only directTransfer awaits a
\* second read, of the recipient, before its transaction.
ReadLead(s) ==
  LET q == req[s] IN
  /\ q.pc = "admitted"
  /\ MayTransfer(q) \/ MayRequest(q) \/ MayClose(q) \/ MaySendBack(q) \/ MayReopen(q)
  /\ Advance(s, [q EXCEPT !.pc = IF q.op = "DIRECT" THEN "checked" ELSE "ready"])
  /\ UNCHANGED <<user, chain, inbox>>

\* create(): the lead is born in the office its creator has when read.
ReadCreator(s) ==
  /\ At(s, "CREATE", "admitted")
  /\ Advance(s, [req[s] EXCEPT !.pc = "ready", !.office = user[req[s].by].office])
  /\ UNCHANGED <<user, chain, inbox>>

\* Faulty variant of RoleFits: any recipient will do.
AnyRoleFits(point, role) == point \in Points /\ role \in Roles
RoleFits(point, role) == role \in TargetRoles[point]

ReadDirectTarget(s) ==
  LET q == req[s] IN
  /\ At(s, "DIRECT", "checked")
  /\ user[q.to].active
  /\ RoleFits("T1_DIRECT", user[q.to].role)
  /\ SameOffice(lead[q.lead].office, user[q.to].office)
  /\ Advance(s, [q EXCEPT !.pc = "ready", !.role = user[q.to].role])
  /\ UNCHANGED <<user, chain, inbox>>

\* bulkRoute(): the recipient is read once, before the first row.
\* Faulty variant: the recipient is told before anything is routed.
ReadRouteTargetTells(s) ==
  LET q == req[s] IN
  /\ At(s, "ROUTE", "admitted")
  /\ user[q.to].active
  /\ Advance(s, [q EXCEPT !.pc = "targeted", !.role = user[q.to].role])
  /\ inbox' = [inbox EXCEPT ![q.to] = @ \cup {[type |-> "LEAD_ROUTED", lead |-> NoLead]}]
  /\ UNCHANGED <<user, chain>>
ReadRouteTarget(s) ==
  LET q == req[s] IN
  /\ At(s, "ROUTE", "admitted")
  /\ user[q.to].active
  /\ Advance(s, [q EXCEPT !.pc = "targeted", !.role = user[q.to].role])
  /\ UNCHANGED <<user, chain, inbox>>

\* routeOne() takes a row that is PENDING; the hop starts at the lead's assignee.
\* Faulty variants: a settled row is taken again; the hop starts at the raiser.
AnyRow(r) == queue[r].status # "UNUSED"
Routable(r) == Pending(r)
RaiserOf(r) == queue[r].raisedBy
HolderOf(r) == lead[queue[r].lead].assignedTo

ReadQueueRow(s, r) ==
  LET q == req[s] IN
  /\ At(s, "ROUTE", "targeted")
  /\ r \in q.rows
  /\ Routable(r)
  /\ Advance(s, [q EXCEPT !.pc = "checked", !.row = r, !.from = HolderOf(r)])
  /\ UNCHANGED <<user, chain, inbox>>

\* An office-bound router routes only its office's leads (faulty: any lead).
AnyBucket(by, office) == by \in Users
OwnBucket(by, office) == SameOffice(user[by].office, office)

CheckRoute(s) ==
  LET q == req[s]
      o == lead[queue[q.row].lead].office IN
  /\ At(s, "ROUTE", "checked")
  /\ OwnBucket(q.by, o)
  /\ SameOffice(o, user[q.to].office)
  /\ RoleFits(queue[q.row].point, q.role)
  /\ Advance(s, [q EXCEPT !.pc = "ready"])
  /\ UNCHANGED <<user, chain, inbox>>

-----------------------------------------------------------------------------
(* Transactions: each writes its rows by id, looking at no status again    *)

ClosingActions == {"LEAD_CLOSED_WON", "LEAD_CLOSED_LOST"}

\* The audit entry shares the transaction (faulty: closes go unaudited).
RecordNoClose(l, action, by) ==
  audit' = IF action \in ClosingActions THEN audit
           ELSE [audit EXCEPT ![l] = Append(@, [action |-> action, by |-> by])]
Record(l, action, by) ==
  audit' = [audit EXCEPT ![l] = Append(@, [action |-> action, by |-> by])]

\* The routing_history row (faulty: only queue routings write one).
AddQueueHop(l, h) ==
  history' = IF h.point = "T1_DIRECT" THEN history
             ELSE [history EXCEPT ![l] = Append(@, h)]
AddHop(l, h) == history' = [history EXCEPT ![l] = Append(@, h)]

\* The sanctioned mutation of assigned_to and current_tier (faulty: the status
\* stays).  It also clears the lead's work status, which this module leaves out.
MovedKeepsStatus(l, q) == [lead[l] EXCEPT !.tier = q.role, !.assignedTo = q.to]
Moved(l, q) ==
  [lead[l] EXCEPT !.status = "IN_PROGRESS", !.tier = q.role, !.assignedTo = q.to]

MoveLead(l, point, q, from) ==
  /\ lead' = [lead EXCEPT ![l] = Moved(l, q)]
  /\ AddHop(l, [point |-> point, from |-> from, to |-> q.to, by |-> q.by])
  /\ Record(l, "LEAD_ROUTED", q.by)

CommitCreate(s, l) ==
  LET q == req[s] IN
  /\ At(s, "CREATE", "ready")
  /\ ~Exists(l)
  /\ lead' = [lead EXCEPT ![l] = [status |-> "NEW", tier |-> "AGENT", assignedTo |-> q.by,
                                  createdBy |-> q.by, office |-> q.office]]
  /\ Record(l, "LEAD_CREATED", q.by)
  /\ Advance(s, Idle)
  /\ UNCHANGED <<user, queue, history, inbox>>

CommitDirect(s) ==
  LET q == req[s] IN
  /\ At(s, "DIRECT", "ready")
  /\ MoveLead(q.lead, "T1_DIRECT", q, q.by)
  /\ Advance(s, [q EXCEPT !.pc = "notify"])
  /\ UNCHANGED <<user, queue, inbox>>

CommitClose(s) ==
  LET q == req[s] IN
  /\ q.op \in ClosedStatuses /\ q.pc = "ready"
  /\ lead' = [lead EXCEPT ![q.lead].status = q.op]
  /\ Record(q.lead, IF q.op = "CLOSED_WON" THEN "LEAD_CLOSED_WON" ELSE "LEAD_CLOSED_LOST", q.by)
  /\ Advance(s, [q EXCEPT !.pc = "notify"])
  /\ UNCHANGED <<user, queue, history, inbox>>

\* requestTransfer, sendBack and reopen put the lead in the bucket behind a new
\* row (faulty: it loses its assignee; it drops to the first tier).
ParkedUnassigned(l) == [lead[l] EXCEPT !.status = "PENDING_ROUTING", !.assignedTo = NoUser]
ParkedLower(l) == [lead[l] EXCEPT !.status = "PENDING_ROUTING", !.tier = "AGENT"]
Parked(l) == [lead[l] EXCEPT !.status = "PENDING_ROUTING"]

RaisingActions ==
  [REQUEST |-> "TRANSFER_REQUESTED", SEND_BACK |-> "LEAD_SENT_BACK", REOPEN |-> "LEAD_REOPENED"]

CommitRaise(s, r) ==
  LET q == req[s] IN
  /\ q.op \in DOMAIN RaisingActions /\ q.pc = "ready"
  /\ queue[r].status = "UNUSED"
  /\ lead' = [lead EXCEPT ![q.lead] = Parked(q.lead)]
  /\ queue' = [queue EXCEPT ![r] =
                 [NoQueueRow EXCEPT
                    !.status = "PENDING", !.lead = q.lead, !.raisedBy = q.by,
                    !.point = IF q.op = "REQUEST" THEN "T2_TO_CLOSER" ELSE "T3_SEND_BACK"]]
  /\ Record(q.lead, RaisingActions[q.op], q.by)
  /\ Advance(s, IF q.op = "REOPEN" THEN Idle ELSE [q EXCEPT !.pc = "notify"])
  /\ UNCHANGED <<user, history, inbox>>

\* Faulty variant of SettleRow: router and recipient change places.
SettleRowSwapped(q) ==
  queue' = [queue EXCEPT ![q.row] =
              [@ EXCEPT !.status = "ROUTED", !.routedBy = q.to, !.routedTo = q.by]]
SettleRow(q) ==
  queue' = [queue EXCEPT ![q.row] =
              [@ EXCEPT !.status = "ROUTED", !.routedBy = q.by, !.routedTo = q.to]]

\* routeOne() settles one row; bulkRoute() then goes on to the next one.
CommitRoute(s) ==
  LET q    == req[s]
      row  == queue[q.row]
      left == q.rows \ {q.row} IN
  /\ At(s, "ROUTE", "ready")
  /\ MoveLead(row.lead, row.point, q, q.from)
  /\ SettleRow(q)
  /\ Advance(s, [q EXCEPT !.pc = IF left = {} THEN "notify" ELSE "targeted",
                          !.rows = left, !.row = NoRow, !.from = NoUser])
  /\ UNCHANGED <<user, inbox>>

-----------------------------------------------------------------------------
(* Notifications, after the commit and outside its transaction             *)

Deliver(whom, type, l) ==
  [u \in Users |-> IF u \in whom THEN {[type |-> type, lead |-> l]} ELSE {}]

\* Who is told what when the handler of request q ends.
Notices(q) ==
  CASE q.op = "DIRECT"          -> Deliver({q.to} \cup Watchers(q.lead, q.by), "LEAD_ROUTED", q.lead)
    [] q.op = "ROUTE"           -> Deliver({q.to}, "LEAD_ROUTED", NoLead)
    [] q.op \in ClosedStatuses  -> Deliver(Watchers(q.lead, q.by), "LEAD_CLOSED", q.lead)
    [] q.op = "REQUEST"         -> Deliver(Routers(q.lead), "QUEUE_PENDING", q.lead)
    [] q.op = "SEND_BACK"       ->
         [u \in Users |-> Deliver(Routers(q.lead), "QUEUE_PENDING", q.lead)[u]
                          \cup Deliver(Watchers(q.lead, q.by), "LEAD_SENT_BACK", q.lead)[u]]

Notify(s) ==
  /\ req[s].pc = "notify"
  /\ inbox' = [u \in Users |-> inbox[u] \cup Notices(req[s])[u]]
  /\ Advance(s, Idle)
  /\ UNCHANGED <<user, chain>>

-----------------------------------------------------------------------------
(* Accounts                                                                *)

\* PATCH users/:id by an administrator: role, office and activity change at any
\* time; nothing else in the chain is revisited.
UpdateUser(admin, e) ==
  /\ user[admin].active
  /\ Matrix["manage_users"][user[admin].role] \notin {"DENIED", "VIEW"}
  /\ ~(e.user = admin /\ ~e.account.active)
  /\ user[e.user] # e.account
  /\ user' = [user EXCEPT ![e.user] = e.account]
  /\ UNCHANGED <<chain, inbox, req>>

-----------------------------------------------------------------------------
Read(s) ==
  \/ ReadLead(s) \/ ReadCreator(s) \/ ReadDirectTarget(s) \/ ReadRouteTarget(s)
  \/ \E r \in RowIds : ReadQueueRow(s, r)
  \/ CheckRoute(s)

Commit(s) ==
  \/ \E l \in Leads : CommitCreate(s, l)
  \/ CommitDirect(s) \/ CommitClose(s) \/ CommitRoute(s)
  \/ \E r \in RowIds : CommitRaise(s, r)

Next ==
  \/ \E s \in Requests :
       \/ \E u \in Users, op \in Ops : Admit(s, u, op)
       \/ Read(s)
       \/ Commit(s)
       \/ Notify(s)
       \/ Abandon(s)
  \/ \E admin \in Users, e \in UserEdits : UpdateUser(admin, e)

Spec == Init /\ [][Next]_vars

-----------------------------------------------------------------------------
(* What the chain guarantees under every interleaving                      *)

\* A lead that waits for a routing decision is in the bucket: every handler that
\* sets PENDING_ROUTING raises a row with it, and a row leaves the bucket only
\* in the transaction that puts its lead back IN_PROGRESS, whatever stale check
\* the other handlers in flight act on.  No lead is lost to the managers.
NoStrandedLead ==
  \A l \in Leads : lead[l].status = "PENDING_ROUTING" => Waiting(l)

\* routing_history is a faithful ledger of assignment: the assignee of a lead is
\* the recipient of its last history row (its creator before the first), and the
\* lead is at the Closer tier exactly when that last hop was T2_TO_CLOSER -- the
\* funnel report reads only the history, the work screens only the lead.
AssigneeIsLastHop ==
  \A l \in Leads : Exists(l) =>
    IF history[l] = << >>
    THEN lead[l].assignedTo = lead[l].createdBy /\ lead[l].tier = "AGENT"
    ELSE /\ lead[l].assignedTo = LastOf(history[l]).to
         /\ lead[l].tier = "CLOSER" <=> LastOf(history[l]).point = "T2_TO_CLOSER"

\* The audit trail accounts for the status of a lead: the last chain entry of a
\* lead names the transaction that gave it the status it has, so no interleaving
\* of commits leaves a status that the auditor cannot attribute.
StatusAfter ==
  [LEAD_CREATED |-> "NEW", LEAD_ROUTED |-> "IN_PROGRESS",
   TRANSFER_REQUESTED |-> "PENDING_ROUTING", LEAD_SENT_BACK |-> "PENDING_ROUTING",
   LEAD_REOPENED |-> "PENDING_ROUTING", LEAD_CLOSED_WON |-> "CLOSED_WON",
   LEAD_CLOSED_LOST |-> "CLOSED_LOST"]
AuditExplainsStatus ==
  \A l \in Leads :
    lead[l].status = IF audit[l] = << >> THEN "ABSENT"
                     ELSE StatusAfter[LastOf(audit[l]).action]

\* A queue row that says ROUTED is backed by the history: some hop of its lead
\* has its transfer point, router and recipient, even when two routers raced for
\* the row and the loser overwrote the winner's names.
RoutedRowHasHop ==
  \A r \in RowIds : queue[r].status = "ROUTED" =>
    \E i \in 1..Len(history[queue[r].lead]) :
      LET h == history[queue[r].lead][i] IN
      h.point = queue[r].point /\ h.to = queue[r].routedTo /\ h.by = queue[r].routedBy

\* Nobody is told of a transfer that did not happen: a user holding a
\* LEAD_ROUTED notice of a lead knows of at least one committed hop of it, and a
\* notice of a queue routing was caused by a committed hop to that user.
TruthfulNotices ==
  \A u \in Users, n \in Notice :
    (n \in inbox[u] /\ n.type = "LEAD_ROUTED") =>
      IF n.lead = NoLead
      THEN \E l \in Leads : \E i \in 1..Len(history[l]) :
             history[l][i].to = u /\ history[l][i].point # "T1_DIRECT"
      ELSE \E i \in 1..Len(history[n.lead]) : history[n.lead][i].point = "T1_DIRECT"

\* The tier of a lead changes only together with one more hop in its history,
\* and only to a tier the hop's transfer point leads to.
TierFollowsPoint ==
  [][\A l \in Leads : lead'[l].tier # lead[l].tier =>
       /\ Len(history'[l]) = Len(history[l]) + 1
       /\ lead'[l].tier \in TargetRoles[LastOf(history'[l]).point]]_vars

\* The chain implements the assignment ledger: under every interleaving a lead
\* changes hands only as the next entry of its append-only history says.
Ledger == INSTANCE AssignmentLedger WITH
            Entries  <- Hop,
            holder   <- [l \in Leads |-> lead[l].assignedTo],
            lastDesk <- [l \in Leads |-> lead[l].tier = "CLOSER"],
            ledger   <- history
ImplementsLedger == Ledger!LedgerSpec

\* While accounts keep their office, no interleaving takes a lead out of its
\* office: its assignee is of that office or of none, and so was every router
\* that moved it.
OfficeWise ==
  \A l \in Leads : Exists(l) =>
    /\ SameOffice(lead[l].office, user[lead[l].assignedTo].office)
    /\ \A i \in 1..Len(history[l]) :
         history[l][i].point # "T1_DIRECT" =>
           SameOffice(lead[l].office, user[history[l][i].by].office)

-----------------------------------------------------------------------------
(* What holds when one request runs at a time                              *)

\* The history is a chain: each hop starts at the user the previous one ended at.
HopChain ==
  \A l \in Leads : \A i \in 1..Len(history[l]) :
    history[l][i].from = IF i = 1 THEN lead[l].createdBy ELSE history[l][i - 1].to

\* A queue row is decided once: the hops of a lead that came out of the queue
\* are as many as its ROUTED rows.
OneHopPerRow ==
  \A l \in Leads :
    Cardinality({r \in RowIds : queue[r].status = "ROUTED" /\ queue[r].lead = l})
      = Cardinality({i \in 1..Len(history[l]) : history[l][i].point # "T1_DIRECT"})

-----------------------------------------------------------------------------
(* What the documents and the tests say, and the code does not do          *)

\* backend/test/invariants.e2e-spec.ts: no closed lead has a PENDING queue row.
\* closeLead neither looks for the lead's open rows nor settles them.
ClosedLeadLeavesBucket ==
  \A l \in Leads : Closed(l) => ~Waiting(l)

\* README, call chain invariant 4: closed leads re-enter the flow only by reopen.
\* The check that sendBack makes on the lead's status may be stale when it commits.
ClosedReentersByReopenOnly ==
  [][\A l \in Leads : Closed(l) /\ lead'[l].status \notin ClosedStatuses =>
       LastOf(audit'[l]).action = "LEAD_REOPENED"]_vars

\* "Queue row was already routed": a row is decided once and for all.  The check
\* and the write of routeOne are not one step, so two routers may both pass it.
RoutedRowIsFinal ==
  [][\A r \in RowIds : queue[r].status = "ROUTED" => queue'[r] = queue[r]]_vars

\* README, post-sale: a CLOSED_WON lead stays assigned to its Closer.  A row that
\* was left in the bucket when the deal closed can still be routed.
WonStaysWithCloser ==
  [][\A l \in Leads : lead[l].status = "CLOSED_WON" =>
       lead'[l].assignedTo = lead[l].assignedTo]_vars
=============================================================================
