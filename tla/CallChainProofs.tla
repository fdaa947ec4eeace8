--------------------------- MODULE CallChainProofs ---------------------------
(***************************************************************************)
(* Proofs about the call chain, for every set of users, leads, queue rows  *)
(* and concurrent requests, every permission matrix and every account edit.*)
(* At the end, what holds under a condition only: that leads stay in their *)
(* office while accounts keep theirs, and that the history is one chain of *)
(* hops, one per routed row, while requests run one after another.  Without*)
(* the condition each of them fails (two routers that pass the PENDING     *)
(* check of one row, an agent moved to another office while it has leads). *)
(***************************************************************************)
EXTENDS CallChain, FiniteSetTheorems, TLAPS

OneLeadOps == Endpoints \ {"CREATE", "ROUTE"}

\* Every lead row is either untouched or held by a user.
LeadsOK ==
  \A l \in Leads :
    IF Exists(l)
    THEN lead[l].assignedTo \in Users /\ lead[l].createdBy \in Users
    ELSE lead[l] = NoLeadRow /\ history[l] = << >> /\ audit[l] = << >>

\* Every queue row that was raised belongs to a lead of the table.
RowsOK ==
  \A r \in RowIds : queue[r].status # "UNUSED" =>
    queue[r].lead \in Leads /\ Exists(queue[r].lead)

\* What a request in flight carries refers to rows that exist.
RequestOK(q) ==
  q.pc # "idle" =>
    /\ q.by \in Users
    /\ q.pc = "notify" => q.op \notin {"CREATE", "REOPEN"}
    /\ q.op \in {"DIRECT", "ROUTE"} => q.to \in Users
    /\ q.op \in OneLeadOps => q.lead \in Leads /\ Exists(q.lead)
    /\ q.op = "ROUTE" =>
         /\ \A r \in q.rows : queue[r].status # "UNUSED"
         /\ q.pc \in {"checked", "ready"} =>
              q.row \in RowIds /\ queue[q.row].status # "UNUSED"
RequestsOK == \A s \in Requests : RequestOK(req[s])

\* A router or direct transfer about to write names a row that was raised and a role its
\* point admits, both as it read them.
ReadyOK ==
  \A s \in Requests :
    /\ At(s, "ROUTE", "ready") =>
         /\ queue[req[s].row].status # "UNUSED"
         /\ req[s].role \in TargetRoles[queue[req[s].row].point]
    /\ At(s, "DIRECT", "ready") => req[s].role \in TargetRoles["T1_DIRECT"]

\* The inductive invariant behind the safety properties.
Sound == TypeOK /\ LeadsOK /\ RowsOK /\ RequestsOK /\ ReadyOK

-----------------------------------------------------------------------------
\* The empty tables and idle requests satisfy the inductive invariant.
LEMMA InitSound == Init => Sound
<1> USE ConstantsAssumption
<1>1. Init => TypeOK
  BY DEF Init, TypeOK, LeadRow, NoLeadRow, QueueRow, NoQueueRow, Request, Idle, Statuses,
         Tiers, Points, Endpoints, Scopes, Roles
<1>2. Init => LeadsOK /\ RowsOK /\ RequestsOK /\ ReadyOK
  BY DEF Init, LeadsOK, RowsOK, RequestsOK, RequestOK, ReadyOK, Exists, NoLeadRow,
         NoQueueRow, Idle, At
<1> QED BY <1>1, <1>2 DEF Sound

\* The record of an idle request is well typed.
LEMMA IdleType == Idle \in Request
BY DEF Idle, Request, Endpoints, Scopes, Roles

\* Replacing one request by another keeps the type of the table of requests.
LEMMA AdvanceType ==
  ASSUME TypeOK, NEW s \in Requests, NEW q \in Request, Advance(s, q)
  PROVE  req' \in [Requests -> Request]
BY DEF TypeOK, Advance

\* A handler's read only rewrites its own request, with values of the right types.
LEMMA TypeRead ==
  ASSUME Sound, NEW s \in Requests, Read(s)
  PROVE  TypeOK'
<1> DEFINE q == req[s]
<1>0. TypeOK /\ q \in Request
  BY DEF Sound, TypeOK
<1>1. UNCHANGED <<user, chain, inbox>> /\ req' \in [Requests -> Request]
  <2>1. CASE ReadLead(s)
    <3>1. [q EXCEPT !.pc = IF q.op = "DIRECT" THEN "checked" ELSE "ready"] \in Request
      BY <1>0 DEF Request
    <3> QED BY <1>0, <2>1, <3>1, AdvanceType DEF ReadLead
  <2>2. CASE ReadCreator(s)
    <3>1. q.by \in Users
      BY <1>0, <2>2 DEF ReadCreator, At, Sound, RequestsOK, RequestOK
    <3>2. [q EXCEPT !.pc = "ready", !.office = user[q.by].office] \in Request
      BY <1>0, <3>1 DEF Request, TypeOK, Account
    <3> QED BY <1>0, <2>2, <3>2, AdvanceType DEF ReadCreator
  <2>3. CASE ReadDirectTarget(s)
    <3>1. q.to \in Users
      BY <1>0, <2>3 DEF ReadDirectTarget, At, Sound, RequestsOK, RequestOK
    <3>2. [q EXCEPT !.pc = "ready", !.role = user[q.to].role] \in Request
      BY <1>0, <3>1 DEF Request, TypeOK, Account
    <3> QED BY <1>0, <2>3, <3>2, AdvanceType DEF ReadDirectTarget
  <2>4. CASE ReadRouteTarget(s)
    <3>1. q.to \in Users
      BY <1>0, <2>4 DEF ReadRouteTarget, At, Sound, RequestsOK, RequestOK
    <3>2. [q EXCEPT !.pc = "targeted", !.role = user[q.to].role] \in Request
      BY <1>0, <3>1 DEF Request, TypeOK, Account
    <3> QED BY <1>0, <2>4, <3>2, AdvanceType DEF ReadRouteTarget
  <2>5. ASSUME NEW r \in RowIds, ReadQueueRow(s, r)
        PROVE  UNCHANGED <<user, chain, inbox>> /\ req' \in [Requests -> Request]
    <3>1. queue[r].lead \in Leads
      BY <1>0, <2>5 DEF ReadQueueRow, Routable, Pending, Sound, RowsOK
    <3>2. HolderOf(r) \in Users \cup {NoUser}
      BY <1>0, <3>1 DEF HolderOf, TypeOK, LeadRow
    <3>3. [q EXCEPT !.pc = "checked", !.row = r, !.from = HolderOf(r)] \in Request
      BY <1>0, <3>2 DEF Request
    <3> QED BY <1>0, <2>5, <3>3, AdvanceType DEF ReadQueueRow
  <2>6. CASE CheckRoute(s)
    <3>1. [q EXCEPT !.pc = "ready"] \in Request
      BY <1>0 DEF Request
    <3> QED BY <1>0, <2>6, <3>1, AdvanceType DEF CheckRoute
  <2> QED BY <2>1, <2>2, <2>3, <2>4, <2>5, <2>6 DEF Read
<1> QED BY <1>0, <1>1 DEF TypeOK, chain

\* A ready request knows everything its transaction writes.
LEMMA ReadyFacts ==
  ASSUME Sound, NEW s \in Requests, req[s].pc = "ready"
  PROVE  /\ req[s] \in Request /\ req[s].by \in Users
         /\ req[s].op = "DIRECT" =>
              req[s].to \in Users /\ req[s].lead \in Leads /\ Exists(req[s].lead)
              /\ req[s].role \in {"AGENT", "SR_AGENT"}
         /\ req[s].op \in OneLeadOps => req[s].lead \in Leads /\ Exists(req[s].lead)
         /\ req[s].op = "ROUTE" =>
              /\ req[s].to \in Users /\ req[s].row \in RowIds
              /\ queue[req[s].row].status # "UNUSED"
              /\ queue[req[s].row].lead \in Leads /\ Exists(queue[req[s].row].lead)
              /\ queue[req[s].row].point \in Points
              /\ req[s].role \in TargetRoles[queue[req[s].row].point]
              /\ req[s].role \in Tiers
<1>1. req[s] \in Request /\ req[s].by \in Users
  BY DEF Sound, TypeOK, RequestsOK, RequestOK
<1>2. req[s].op = "DIRECT" =>
        req[s].to \in Users /\ req[s].lead \in Leads /\ Exists(req[s].lead)
        /\ req[s].role \in {"AGENT", "SR_AGENT"}
  BY <1>1 DEF Sound, RequestsOK, RequestOK, ReadyOK, At, TargetRoles, OneLeadOps, Endpoints
<1>3. req[s].op \in OneLeadOps => req[s].lead \in Leads /\ Exists(req[s].lead)
  BY DEF Sound, RequestsOK, RequestOK
<1>4. ASSUME req[s].op = "ROUTE"
      PROVE  /\ req[s].to \in Users /\ req[s].row \in RowIds
             /\ queue[req[s].row].status # "UNUSED"
             /\ queue[req[s].row].lead \in Leads /\ Exists(queue[req[s].row].lead)
             /\ queue[req[s].row].point \in Points
             /\ req[s].role \in TargetRoles[queue[req[s].row].point]
             /\ req[s].role \in Tiers
  <2>1. req[s].to \in Users /\ req[s].row \in RowIds /\ queue[req[s].row].status # "UNUSED"
    BY <1>4 DEF Sound, RequestsOK, RequestOK
  <2>2. queue[req[s].row].lead \in Leads /\ Exists(queue[req[s].row].lead)
    BY <2>1 DEF Sound, RowsOK
  <2>3. queue[req[s].row].point \in Points
    BY <2>1 DEF Sound, TypeOK, QueueRow
  <2>4. req[s].role \in TargetRoles[queue[req[s].row].point]
    BY <1>4 DEF Sound, ReadyOK, At
  <2>5. req[s].role \in Tiers
    BY <2>3, <2>4 DEF Points, TargetRoles, Tiers
  <2> QED BY <2>1, <2>2, <2>3, <2>4, <2>5
<1> QED BY <1>1, <1>2, <1>3, <1>4

\* Types of the tables after each of the writes the transactions are made of.
LEMMA WriteTypes ==
  ASSUME TypeOK, NEW l \in Leads
  PROVE  /\ \A row \in LeadRow : [lead EXCEPT ![l] = row] \in [Leads -> LeadRow]
         /\ \A action \in AuditActions, u \in Users :
              Record(l, action, u) => audit' \in [Leads -> Seq(AuditEntry)]
         /\ \A h \in Hop : AddHop(l, h) => history' \in [Leads -> Seq(Hop)]
<1>1. \A row \in LeadRow : [lead EXCEPT ![l] = row] \in [Leads -> LeadRow]
  BY DEF TypeOK
<1>2. \A action \in AuditActions, u \in Users :
        Record(l, action, u) => audit' \in [Leads -> Seq(AuditEntry)]
  <2>1. \A action \in AuditActions, u \in Users : [action |-> action, by |-> u] \in AuditEntry
    BY DEF AuditEntry
  <2>2. \A e \in AuditEntry : [audit EXCEPT ![l] = Append(@, e)] \in [Leads -> Seq(AuditEntry)]
    BY DEF TypeOK
  <2> QED BY <2>1, <2>2 DEF Record
<1>3. \A h \in Hop : AddHop(l, h) => history' \in [Leads -> Seq(Hop)]
  BY DEF TypeOK, AddHop
<1> QED BY <1>1, <1>2, <1>3

\* What a move of a lead writes (row, hop, audit entry) is well typed.
LEMMA MoveTypes ==
  ASSUME TypeOK, NEW l \in Leads, NEW point \in Points, NEW q \in Request,
         NEW from \in Users \cup {NoUser}, q.to \in Users, q.by \in Users,
         q.role \in Tiers, MoveLead(l, point, q, from)
  PROVE  /\ lead' \in [Leads -> LeadRow]
         /\ history' \in [Leads -> Seq(Hop)]
         /\ audit' \in [Leads -> Seq(AuditEntry)]
<1>1. Moved(l, q) \in LeadRow
  BY DEF Moved, TypeOK, LeadRow, Statuses
<1>2. [point |-> point, from |-> from, to |-> q.to, by |-> q.by] \in Hop
  BY DEF Hop
<1>3. "LEAD_ROUTED" \in AuditActions
  BY DEF AuditActions
<1> QED BY <1>1, <1>2, <1>3, WriteTypes DEF MoveLead

\* Every transaction leaves well-typed tables and a well-typed request.
LEMMA TypeCommit ==
  ASSUME Sound, NEW s \in Requests, Commit(s)
  PROVE  TypeOK'
<1> DEFINE q == req[s]
<1>0. TypeOK /\ q \in Request
  BY DEF Sound, TypeOK
<1>1. ASSUME NEW l \in Leads, CommitCreate(s, l)
      PROVE  TypeOK'
  <2>1. q.by \in Users /\ q.office \in Offices \cup {NoOffice}
    BY <1>0, <1>1, ReadyFacts DEF CommitCreate, At, Request
  <2>2. [status |-> "NEW", tier |-> "AGENT", assignedTo |-> q.by,
         createdBy |-> q.by, office |-> q.office] \in LeadRow
    BY <2>1 DEF LeadRow, Statuses, Tiers
  <2>3. lead' \in [Leads -> LeadRow] /\ audit' \in [Leads -> Seq(AuditEntry)]
    BY <1>0, <1>1, <2>1, <2>2, WriteTypes DEF CommitCreate, AuditActions
  <2> QED BY <1>0, <1>1, <2>3, IdleType, AdvanceType DEF CommitCreate, TypeOK
<1>2. CASE CommitDirect(s)
  <2>1. q.lead \in Leads /\ q.to \in Users /\ q.by \in Users /\ q.role \in Tiers
    BY <1>2, ReadyFacts DEF CommitDirect, At, Tiers
  <2>2. "T1_DIRECT" \in Points
    BY DEF Points
  <2>3. lead' \in [Leads -> LeadRow] /\ history' \in [Leads -> Seq(Hop)]
        /\ audit' \in [Leads -> Seq(AuditEntry)]
    BY <1>0, <1>2, <2>1, <2>2, MoveTypes DEF CommitDirect
  <2>4. [q EXCEPT !.pc = "notify"] \in Request
    BY <1>0 DEF Request
  <2> QED BY <1>0, <1>2, <2>3, <2>4, AdvanceType DEF CommitDirect, TypeOK
<1>3. CASE CommitClose(s)
  <2>1. q.lead \in Leads /\ q.by \in Users
    BY <1>3, ReadyFacts DEF CommitClose, OneLeadOps, Endpoints, ClosedStatuses
  <2>2. [lead[q.lead] EXCEPT !.status = q.op] \in LeadRow
    <3>1. lead[q.lead] \in LeadRow /\ q.op \in Statuses
      BY <1>0, <1>3, <2>1 DEF CommitClose, TypeOK, Statuses, ClosedStatuses
    <3> QED BY <3>1 DEF LeadRow
  <2>3. lead' = [lead EXCEPT ![q.lead] = [lead[q.lead] EXCEPT !.status = q.op]]
    BY <1>0, <1>3, <2>1 DEF CommitClose, TypeOK
  <2>4. lead' \in [Leads -> LeadRow] /\ audit' \in [Leads -> Seq(AuditEntry)]
    BY <1>0, <1>3, <2>1, <2>2, <2>3, WriteTypes DEF CommitClose, AuditActions
  <2>5. [q EXCEPT !.pc = "notify"] \in Request
    BY <1>0 DEF Request
  <2> QED BY <1>0, <1>3, <2>4, <2>5, AdvanceType DEF CommitClose, TypeOK
<1>4. ASSUME NEW r \in RowIds, CommitRaise(s, r)
      PROVE  TypeOK'
  <2>1. q.lead \in Leads /\ q.by \in Users
    BY <1>4, ReadyFacts DEF CommitRaise, RaisingActions, OneLeadOps, Endpoints
  <2>2. Parked(q.lead) \in LeadRow
    <3>1. lead[q.lead] \in LeadRow /\ "PENDING_ROUTING" \in Statuses
      BY <1>0, <2>1 DEF TypeOK, Statuses
    <3> QED BY <3>1 DEF LeadRow, Parked
  <2>3. RaisingActions[q.op] \in AuditActions
    BY <1>4 DEF CommitRaise, RaisingActions, AuditActions
  <2>4. lead' \in [Leads -> LeadRow] /\ audit' \in [Leads -> Seq(AuditEntry)]
    BY <1>0, <1>4, <2>1, <2>2, <2>3, WriteTypes DEF CommitRaise
  <2>5. queue' \in [RowIds -> QueueRow]
    BY <1>0, <1>4, <2>1 DEF CommitRaise, TypeOK, QueueRow, NoQueueRow, Points
  <2>6. (IF q.op = "REOPEN" THEN Idle ELSE [q EXCEPT !.pc = "notify"]) \in Request
    BY <1>0, IdleType DEF Request
  <2> QED BY <1>0, <1>4, <2>4, <2>5, <2>6, AdvanceType DEF CommitRaise, TypeOK
<1>5. CASE CommitRoute(s)
  <2> DEFINE row == queue[q.row]
             next == [q EXCEPT !.pc = IF q.rows \ {q.row} = {} THEN "notify" ELSE "targeted",
                               !.rows = q.rows \ {q.row}, !.row = NoRow, !.from = NoUser]
  <2>1. /\ row.lead \in Leads /\ row.point \in Points /\ q.row \in RowIds
        /\ q.to \in Users /\ q.by \in Users /\ q.role \in Tiers
        /\ q.from \in Users \cup {NoUser}
    BY <1>0, <1>5, ReadyFacts DEF CommitRoute, At, Request
  <2>2. lead' \in [Leads -> LeadRow] /\ history' \in [Leads -> Seq(Hop)]
        /\ audit' \in [Leads -> Seq(AuditEntry)]
    BY <1>0, <1>5, <2>1, MoveTypes DEF CommitRoute
  <2>3. queue' \in [RowIds -> QueueRow]
    <3>1. queue[q.row] \in QueueRow
      BY <1>0, <2>1 DEF TypeOK
    <3>2. [queue[q.row] EXCEPT !.status = "ROUTED", !.routedBy = q.by, !.routedTo = q.to]
            \in QueueRow
      BY <2>1, <3>1 DEF QueueRow
    <3> QED BY <1>0, <1>5, <2>1, <3>2 DEF CommitRoute, SettleRow, TypeOK
  <2>4. next \in Request
    <3>1. q.rows \ {q.row} \in SUBSET RowIds
      BY <1>0 DEF Request
    <3>2. [q EXCEPT !.pc = "notify", !.rows = q.rows \ {q.row}, !.row = NoRow, !.from = NoUser]
            \in Request
      BY <1>0, <3>1 DEF Request
    <3>3. [q EXCEPT !.pc = "targeted", !.rows = q.rows \ {q.row}, !.row = NoRow, !.from = NoUser]
            \in Request
      BY <1>0, <3>1 DEF Request
    <3> QED BY <3>2, <3>3
  <2> QED BY <1>0, <1>5, <2>2, <2>3, <2>4, AdvanceType DEF CommitRoute, TypeOK
<1> QED BY <1>1, <1>2, <1>3, <1>4, <1>5 DEF Commit

\* Types are preserved by every step: admission, read, commit, notification, crash, edit.
LEMMA TypeStep == Sound /\ [Next]_vars => TypeOK'
<1> SUFFICES ASSUME Sound, [Next]_vars PROVE TypeOK'
  OBVIOUS
<1>0. TypeOK
  BY DEF Sound
<1>1. ASSUME NEW s \in Requests, NEW u \in Users, NEW op \in Ops, Admit(s, u, op)
      PROVE  TypeOK'
  <2>1. PICK a \in Arguments(op) :
          Advance(s, [Idle EXCEPT !.pc = "admitted", !.op = op, !.by = u,
                        !.scope = Matrix[PermissionOf[op]][user[u].role],
                        !.lead = a.lead, !.to = a.to, !.rows = a.rows])
    BY <1>1 DEF Admit
  <2>2. a.lead \in Leads \cup {NoLead} /\ a.to \in Users \cup {NoUser} /\ a.rows \in SUBSET RowIds
    BY DEF Arguments
  <2>3. op \in Endpoints /\ PermissionOf[op] \in Permissions
    BY ConstantsAssumption DEF PermissionOf, Endpoints, Permissions, ClosedStatuses
  <2>4. Matrix[PermissionOf[op]][user[u].role] \in Scopes
    BY ConstantsAssumption, <1>0, <2>3 DEF TypeOK, Account
  <2>5. [Idle EXCEPT !.pc = "admitted", !.op = op, !.by = u,
                     !.scope = Matrix[PermissionOf[op]][user[u].role],
                     !.lead = a.lead, !.to = a.to, !.rows = a.rows] \in Request
    BY IdleType, <2>2, <2>3, <2>4 DEF Request
  <2> QED BY <1>0, <1>1, <2>1, <2>5, AdvanceType DEF TypeOK, Admit
<1>2. ASSUME NEW s \in Requests, Notify(s)
      PROVE  TypeOK'
  <2>1. \A whom, type, l : l \in Leads \cup {NoLead} =>
          (type \in {"LEAD_ROUTED", "QUEUE_PENDING", "LEAD_CLOSED", "LEAD_SENT_BACK"} =>
             Deliver(whom, type, l) \in [Users -> SUBSET Notice])
    BY DEF Deliver, Notice
  <2>2. req[s] \in Request /\ req[s].lead \in Leads \cup {NoLead} /\ NoLead \in Leads \cup {NoLead}
    BY <1>0 DEF TypeOK, Request
  <2>3. req[s].op # "CREATE" /\ req[s].op # "REOPEN"
    BY <1>2 DEF Notify, Sound, RequestsOK, RequestOK
  <2>4. Notices(req[s]) \in [Users -> SUBSET Notice]
    BY <2>1, <2>2, <2>3 DEF Notices, Request, Endpoints, ClosedStatuses
  <2>5. inbox' \in [Users -> SUBSET Notice]
    BY <1>0, <1>2, <2>4 DEF Notify, TypeOK
  <2> QED BY <1>0, <1>2, <2>5, IdleType, AdvanceType DEF Notify, TypeOK, chain
<1>3. ASSUME NEW s \in Requests, Abandon(s)
      PROVE  TypeOK'
  BY <1>0, <1>3, IdleType, AdvanceType DEF Abandon, TypeOK
<1>4. ASSUME NEW boss \in Users, NEW e \in UserEdits, UpdateUser(boss, e)
      PROVE  TypeOK'
  BY <1>0, <1>4, ConstantsAssumption DEF UpdateUser, TypeOK, chain
<1>5. CASE UNCHANGED vars
  BY <1>0, <1>5 DEF TypeOK, vars
<1> QED BY <1>1, <1>2, <1>3, <1>4, <1>5, TypeRead, TypeCommit DEF Next

-----------------------------------------------------------------------------
(* The tables only grow: no step un-creates a lead or a row, or moves a row *)
(* to another lead or point.                                               *)
TablesGrow ==
  /\ \A l \in Leads : Exists(l) => Exists(l)'
  /\ \A r \in RowIds : queue[r].status # "UNUSED" =>
       /\ queue'[r].status # "UNUSED"
       /\ queue'[r].lead = queue[r].lead /\ queue'[r].point = queue[r].point

\* Then whatever the other requests in flight know stays true.
LEMMA OthersKeepOK ==
  ASSUME Sound, TablesGrow, NEW s \in Requests, NEW q, Advance(s, q),
         RequestOK(q)',
         (q.pc = "ready" /\ q.op = "ROUTE") =>
            queue'[q.row].status # "UNUSED" /\ q.role \in TargetRoles[queue'[q.row].point],
         (q.pc = "ready" /\ q.op = "DIRECT") => q.role \in TargetRoles["T1_DIRECT"]
  PROVE  RequestsOK' /\ ReadyOK'
<1>0. req'[s] = q /\ \A t \in Requests : t # s => req'[t] = req[t]
  BY DEF Advance, Sound, TypeOK
<1>1. ASSUME NEW t \in Requests
      PROVE  RequestOK(req[t])' /\ (At(t, "ROUTE", "ready") =>
                 /\ queue[req[t].row].status # "UNUSED"
                 /\ req[t].role \in TargetRoles[queue[req[t].row].point])'
              /\ (At(t, "DIRECT", "ready") => req[t].role \in TargetRoles["T1_DIRECT"])'
  <2>1. CASE t = s
    BY <1>0, <2>1 DEF At, RequestOK
  <2>2. CASE t # s
    <3>1. req'[t] = req[t] /\ req[t] \in Request
      BY <1>0, <2>2 DEF Sound, TypeOK
    <3>2. RequestOK(req[t])'
      BY <3>1 DEF Sound, RequestsOK, RequestOK, TablesGrow, Request
    <3>3. At(t, "ROUTE", "ready") => req[t].row \in RowIds
      BY DEF Sound, RequestsOK, RequestOK, At
    <3> QED BY <3>1, <3>2, <3>3 DEF Sound, ReadyOK, At, TablesGrow
  <2> QED BY <2>1, <2>2
<1> QED BY <1>1 DEF RequestsOK, ReadyOK

\* A step that leaves the chain's tables alone keeps the facts about leads and rows.
LEMMA FrameTables ==
  ASSUME Sound, UNCHANGED chain
  PROVE  TablesGrow /\ LeadsOK' /\ RowsOK'
BY DEF Sound, TablesGrow, LeadsOK, RowsOK, Exists, chain

\* A write to one existing lead that leaves it held by a user, with the queue
\* unchanged or with one row of an existing lead changed as the code changes it.
LEMMA GrowByWrite ==
  ASSUME Sound, TypeOK', NEW l \in Leads, NEW row \in LeadRow,
         lead' = [lead EXCEPT ![l] = row], row.status # "ABSENT",
         row.assignedTo \in Users, row.createdBy \in Users,
         \A m \in Leads : m # l => history'[m] = history[m] /\ audit'[m] = audit[m],
         \A r \in RowIds : queue[r].status # "UNUSED" =>
           /\ queue'[r].status # "UNUSED"
           /\ queue'[r].lead = queue[r].lead /\ queue'[r].point = queue[r].point,
         \A r \in RowIds : queue[r].status = "UNUSED" =>
           queue'[r] = queue[r] \/ queue'[r].lead = l
  PROVE  TablesGrow /\ LeadsOK' /\ RowsOK'
<1>1. lead'[l] = row /\ \A m \in Leads : m # l => lead'[m] = lead[m]
  BY DEF Sound, TypeOK
<1>2. \A m \in Leads : Exists(m) => Exists(m)'
  BY <1>1 DEF Exists
<1>3. Exists(l)'
  BY <1>1 DEF Exists
<1>4. LeadsOK'
  BY <1>1, <1>3 DEF LeadsOK, Exists, Sound
<1>5. RowsOK'
  BY <1>2, <1>3 DEF RowsOK, Sound
<1> QED BY <1>2, <1>4, <1>5 DEF TablesGrow

\* Every transaction keeps the facts about leads and rows, and no row ever vanishes.
LEMMA CommitTables ==
  ASSUME Sound, TypeOK', NEW s \in Requests, Commit(s)
  PROVE  TablesGrow /\ LeadsOK' /\ RowsOK'
<1> DEFINE q == req[s]
<1>0. TypeOK /\ q \in Request
  BY DEF Sound, TypeOK
<1>a. \A l \in Leads : \A action, u : Record(l, action, u) =>
        \A m \in Leads : m # l => audit'[m] = audit[m]
  BY <1>0 DEF Record, TypeOK
<1>h. \A l \in Leads : \A h : AddHop(l, h) => \A m \in Leads : m # l => history'[m] = history[m]
  BY <1>0 DEF AddHop, TypeOK
<1>m. ASSUME NEW l \in Leads, Exists(l), q.to \in Users, q.role \in Tiers
      PROVE  /\ Moved(l, q) \in LeadRow /\ Moved(l, q).status # "ABSENT"
             /\ Moved(l, q).assignedTo \in Users /\ Moved(l, q).createdBy \in Users
  <2>1. lead[l] \in LeadRow /\ lead[l].createdBy \in Users
    BY <1>0, <1>m DEF TypeOK, Sound, LeadsOK
  <2> QED BY <1>m, <2>1 DEF Moved, LeadRow, Statuses
<1>1. ASSUME NEW l \in Leads, CommitCreate(s, l)
      PROVE  TablesGrow /\ LeadsOK' /\ RowsOK'
  <2> DEFINE row == [status |-> "NEW", tier |-> "AGENT", assignedTo |-> q.by,
                     createdBy |-> q.by, office |-> q.office]
  <2>1. q.by \in Users /\ q.office \in Offices \cup {NoOffice}
    BY <1>0, <1>1, ReadyFacts DEF CommitCreate, At, Request
  <2>2. row \in LeadRow /\ row.status # "ABSENT" /\ row.assignedTo \in Users /\ row.createdBy \in Users
    BY <2>1 DEF LeadRow, Statuses, Tiers
  <2> QED BY <1>1, <1>a, <2>2, GrowByWrite DEF CommitCreate
<1>2. CASE CommitDirect(s)
  <2>1. q.lead \in Leads /\ q.to \in Users /\ q.role \in Tiers /\ Exists(q.lead)
    BY <1>2, ReadyFacts DEF CommitDirect, At, Tiers
  <2> QED BY <1>2, <1>a, <1>h, <1>m, <2>1, GrowByWrite DEF CommitDirect, MoveLead
<1>3. CASE CommitClose(s)
  <2> DEFINE row == [lead[q.lead] EXCEPT !.status = q.op]
  <2>1. q.lead \in Leads /\ Exists(q.lead) /\ q.op \in ClosedStatuses
    BY <1>3, ReadyFacts DEF CommitClose, OneLeadOps, Endpoints, ClosedStatuses
  <2>2. lead[q.lead] \in LeadRow /\ lead[q.lead].assignedTo \in Users /\ lead[q.lead].createdBy \in Users
    BY <1>0, <2>1 DEF TypeOK, Sound, LeadsOK
  <2>3. row \in LeadRow /\ row.status # "ABSENT" /\ row.assignedTo \in Users /\ row.createdBy \in Users
    BY <2>1, <2>2 DEF LeadRow, ClosedStatuses, Statuses
  <2>4. lead' = [lead EXCEPT ![q.lead] = row]
    BY <1>0, <1>3, <2>1 DEF CommitClose, TypeOK
  <2> QED BY <1>3, <1>a, <2>1, <2>3, <2>4, GrowByWrite DEF CommitClose
<1>4. ASSUME NEW r \in RowIds, CommitRaise(s, r)
      PROVE  TablesGrow /\ LeadsOK' /\ RowsOK'
  <2>1. q.lead \in Leads /\ Exists(q.lead)
    BY <1>4, ReadyFacts DEF CommitRaise, RaisingActions, OneLeadOps, Endpoints
  <2>2. lead[q.lead] \in LeadRow /\ lead[q.lead].assignedTo \in Users /\ lead[q.lead].createdBy \in Users
    BY <1>0, <2>1 DEF TypeOK, Sound, LeadsOK
  <2>3. /\ Parked(q.lead) \in LeadRow /\ Parked(q.lead).status # "ABSENT"
        /\ Parked(q.lead).assignedTo \in Users /\ Parked(q.lead).createdBy \in Users
    BY <2>2 DEF LeadRow, Parked, Statuses
  <2>4. /\ queue'[r].lead = q.lead
        /\ \A t \in RowIds : t # r => queue'[t] = queue[t]
    BY <1>0, <1>4 DEF CommitRaise, TypeOK, NoQueueRow
  <2> QED BY <1>4, <1>a, <2>1, <2>3, <2>4, GrowByWrite DEF CommitRaise
<1>5. CASE CommitRoute(s)
  <2> DEFINE row == queue[q.row]
  <2>1. /\ row.lead \in Leads /\ Exists(row.lead) /\ q.row \in RowIds /\ row.status # "UNUSED"
        /\ q.to \in Users /\ q.role \in Tiers
    BY <1>5, ReadyFacts DEF CommitRoute, At
  <2>2. queue[q.row] \in QueueRow
    BY <1>0, <2>1 DEF TypeOK
  <2>3. /\ queue'[q.row].status = "ROUTED" /\ queue'[q.row].lead = row.lead
        /\ queue'[q.row].point = row.point
        /\ \A t \in RowIds : t # q.row => queue'[t] = queue[t]
    BY <1>0, <1>5, <2>1, <2>2 DEF CommitRoute, SettleRow, TypeOK, QueueRow
  <2>4. lead' = [lead EXCEPT ![row.lead] = Moved(row.lead, q)]
    BY <1>5 DEF CommitRoute, MoveLead
  <2>5. \A m \in Leads : m # row.lead => history'[m] = history[m] /\ audit'[m] = audit[m]
    BY <1>5, <1>a, <1>h, <2>1 DEF CommitRoute, MoveLead
  <2> QED BY <1>m, <2>1, <2>3, <2>4, <2>5, GrowByWrite
<1> QED BY <1>1, <1>2, <1>3, <1>4, <1>5 DEF Commit

\* A request that ended knows nothing that could become false.
LEMMA EndedOK ==
  ASSUME Sound, TablesGrow, NEW s \in Requests, Advance(s, Idle)
  PROVE  RequestsOK' /\ ReadyOK'
<1>1. RequestOK(Idle)' /\ Idle.pc = "idle"
  BY DEF RequestOK, Idle
<1> QED BY <1>1, OthersKeepOK

\* After a read, what the handlers carry still refers to rows that exist.
LEMMA ReadRequests ==
  ASSUME Sound, NEW s \in Requests, Read(s)
  PROVE  RequestsOK' /\ ReadyOK'
<1> DEFINE q == req[s]
<1>0. q \in Request /\ RequestOK(q)
  BY DEF Sound, TypeOK, RequestsOK
<1>1. UNCHANGED chain
  BY DEF Read, ReadLead, ReadCreator, ReadDirectTarget, ReadRouteTarget, ReadQueueRow, CheckRoute
<1>2. TablesGrow
  BY <1>1, FrameTables
<1>3. \A p : RequestOK(p)' <=> RequestOK(p)
  BY <1>1 DEF RequestOK, Exists, chain
<1>4. CASE ReadLead(s)
  <2> DEFINE p == [q EXCEPT !.pc = IF q.op = "DIRECT" THEN "checked" ELSE "ready"]
  <2>1. Advance(s, p) /\ q.pc = "admitted" /\ q.op \notin {"CREATE", "ROUTE"}
    BY <1>4 DEF ReadLead, MayTransfer, MayRequest, MayClose, MaySendBack, MayReopen, ClosedStatuses
  <2>2. /\ p.op = q.op /\ p.by = q.by /\ p.to = q.to /\ p.lead = q.lead
        /\ p.pc \in {"checked", "ready"} /\ (p.pc = "ready" => q.op # "DIRECT")
    BY <1>0 DEF Request
  <2>3. RequestOK(p)
    BY <1>0, <2>1, <2>2 DEF RequestOK
  <2> HIDE DEF p
  <2> QED BY <1>2, <1>3, <2>1, <2>2, <2>3, OthersKeepOK
<1>5. CASE ReadCreator(s)
  <2> DEFINE p == [q EXCEPT !.pc = "ready", !.office = user[q.by].office]
  <2>1. Advance(s, p) /\ q.op = "CREATE" /\ q.pc = "admitted"
    BY <1>5 DEF ReadCreator, At
  <2>2. p.op = q.op /\ p.by = q.by /\ p.pc = "ready"
    BY <1>0 DEF Request
  <2>3. RequestOK(p)
    BY <1>0, <2>1, <2>2 DEF RequestOK, OneLeadOps
  <2> HIDE DEF p
  <2> QED BY <1>2, <1>3, <2>1, <2>2, <2>3, OthersKeepOK
<1>6. CASE ReadDirectTarget(s)
  <2> DEFINE p == [q EXCEPT !.pc = "ready", !.role = user[q.to].role]
  <2>1. /\ Advance(s, p) /\ q.op = "DIRECT" /\ q.pc = "checked"
        /\ user[q.to].role \in TargetRoles["T1_DIRECT"]
    BY <1>6 DEF ReadDirectTarget, At, RoleFits
  <2>2. /\ p.op = q.op /\ p.by = q.by /\ p.to = q.to /\ p.lead = q.lead /\ p.pc = "ready"
        /\ p.role = user[q.to].role
    BY <1>0 DEF Request
  <2>3. RequestOK(p)
    BY <1>0, <2>1, <2>2 DEF RequestOK
  <2> HIDE DEF p
  <2> QED BY <1>2, <1>3, <2>1, <2>2, <2>3, OthersKeepOK
<1>7. CASE ReadRouteTarget(s)
  <2> DEFINE p == [q EXCEPT !.pc = "targeted", !.role = user[q.to].role]
  <2>1. Advance(s, p) /\ q.op = "ROUTE" /\ q.pc = "admitted"
    BY <1>7 DEF ReadRouteTarget, At
  <2>2. p.op = q.op /\ p.by = q.by /\ p.to = q.to /\ p.rows = q.rows /\ p.pc = "targeted"
    BY <1>0 DEF Request
  <2>3. RequestOK(p)
    BY <1>0, <2>1, <2>2 DEF RequestOK, OneLeadOps
  <2> HIDE DEF p
  <2> QED BY <1>2, <1>3, <2>1, <2>2, <2>3, OthersKeepOK
<1>8. ASSUME NEW r \in RowIds, ReadQueueRow(s, r)
      PROVE  RequestsOK' /\ ReadyOK'
  <2> DEFINE p == [q EXCEPT !.pc = "checked", !.row = r, !.from = HolderOf(r)]
  <2>1. Advance(s, p) /\ q.op = "ROUTE" /\ q.pc = "targeted" /\ queue[r].status # "UNUSED"
    BY <1>8 DEF ReadQueueRow, At, Routable, Pending
  <2>2. /\ p.op = q.op /\ p.by = q.by /\ p.to = q.to /\ p.rows = q.rows
        /\ p.pc = "checked" /\ p.row = r
    BY <1>0 DEF Request
  <2>3. RequestOK(p)
    BY <1>0, <2>1, <2>2 DEF RequestOK, OneLeadOps
  <2> HIDE DEF p
  <2> QED BY <1>2, <1>3, <2>1, <2>2, <2>3, OthersKeepOK
<1>9. CASE CheckRoute(s)
  <2> DEFINE p == [q EXCEPT !.pc = "ready"]
  <2>1. /\ Advance(s, p) /\ q.op = "ROUTE" /\ q.pc = "checked"
        /\ q.role \in TargetRoles[queue[q.row].point]
    BY <1>9 DEF CheckRoute, At, RoleFits
  <2>2. /\ p.op = q.op /\ p.by = q.by /\ p.to = q.to /\ p.rows = q.rows
        /\ p.pc = "ready" /\ p.row = q.row /\ p.role = q.role
    BY <1>0 DEF Request
  <2>3. RequestOK(p) /\ queue[p.row].status # "UNUSED"
    BY <1>0, <2>1, <2>2 DEF RequestOK, OneLeadOps
  <2>4. queue' = queue
    BY <1>1 DEF chain
  <2> HIDE DEF p
  <2> QED BY <1>2, <1>3, <2>1, <2>2, <2>3, <2>4, OthersKeepOK
<1> QED BY <1>4, <1>5, <1>6, <1>7, <1>8, <1>9 DEF Read

\* After a commit, what the handlers carry still refers to rows that exist, also what
\* the other handlers carry.
LEMMA CommitRequests ==
  ASSUME Sound, TypeOK', NEW s \in Requests, Commit(s)
  PROVE  RequestsOK' /\ ReadyOK'
<1> DEFINE q == req[s]
<1>0. q \in Request /\ RequestOK(q)
  BY DEF Sound, TypeOK, RequestsOK
<1>1. TablesGrow
  BY CommitTables
<1>2. ASSUME NEW l \in Leads, CommitCreate(s, l)
      PROVE  RequestsOK' /\ ReadyOK'
  BY <1>1, <1>2, EndedOK DEF CommitCreate
<1>3. ASSUME Advance(s, [q EXCEPT !.pc = "notify"]), q.op \in OneLeadOps \ {"REOPEN"}, q.pc = "ready"
      PROVE  RequestsOK' /\ ReadyOK'
  <2>1. PICK p : p = [q EXCEPT !.pc = "notify"]
    OBVIOUS
  <2>2. p.op = q.op /\ p.by = q.by /\ p.to = q.to /\ p.lead = q.lead /\ p.pc = "notify"
    BY <1>0, <2>1 DEF Request
  <2>3. p.lead \in Leads /\ Exists(p.lead)
    BY <1>0, <1>3, <2>2 DEF RequestOK
  <2>4. RequestOK(p)'
    BY <1>0, <1>1, <1>3, <2>2, <2>3 DEF RequestOK, OneLeadOps, TablesGrow
  <2>5. Advance(s, p)
    BY <1>3, <2>1
  <2> QED BY <1>1, <2>2, <2>4, <2>5, OthersKeepOK
<1>4. CASE CommitDirect(s)
  BY <1>3, <1>4 DEF CommitDirect, At, OneLeadOps, Endpoints
<1>5. CASE CommitClose(s)
  BY <1>3, <1>5 DEF CommitClose, OneLeadOps, Endpoints, ClosedStatuses
<1>6. ASSUME NEW r \in RowIds, CommitRaise(s, r)
      PROVE  RequestsOK' /\ ReadyOK'
  <2>1. CASE q.op = "REOPEN"
    BY <1>1, <1>6, <2>1, EndedOK DEF CommitRaise
  <2>2. CASE q.op # "REOPEN"
    BY <1>3, <1>6, <2>2 DEF CommitRaise, RaisingActions, OneLeadOps, Endpoints
  <2> QED BY <2>1, <2>2
<1>7. CASE CommitRoute(s)
  <2> DEFINE left == q.rows \ {q.row}
  <2>1. PICK p : p = [q EXCEPT !.pc = IF left = {} THEN "notify" ELSE "targeted",
                               !.rows = left, !.row = NoRow, !.from = NoUser]
    OBVIOUS
  <2>2. Advance(s, p) /\ q.op = "ROUTE" /\ q.pc = "ready"
    BY <1>7, <2>1 DEF CommitRoute, At
  <2>3. /\ p.op = q.op /\ p.by = q.by /\ p.to = q.to /\ p.rows \subseteq q.rows
        /\ p.pc \in {"notify", "targeted"}
    BY <1>0, <2>1 DEF Request
  <2>4. p.rows \subseteq RowIds /\ \A r \in p.rows : queue[r].status # "UNUSED"
    BY <1>0, <2>2, <2>3 DEF RequestOK, Request
  <2>5. RequestOK(p)'
    BY <1>0, <1>1, <2>2, <2>3, <2>4 DEF RequestOK, OneLeadOps, TablesGrow
  <2> QED BY <1>1, <2>2, <2>3, <2>5, OthersKeepOK
<1> QED BY <1>2, <1>4, <1>5, <1>6, <1>7 DEF Commit

\* The inductive invariant is preserved by every step.
LEMMA SoundStep == Sound /\ [Next]_vars => Sound'
<1> SUFFICES ASSUME Sound, [Next]_vars PROVE Sound'
  OBVIOUS
<1>0. TypeOK /\ TypeOK'
  BY TypeStep DEF Sound
<1>1. ASSUME NEW s \in Requests, NEW u \in Users, NEW op \in Ops, Admit(s, u, op)
      PROVE  Sound'
  <2>1. PICK a \in Arguments(op) :
          Advance(s, [Idle EXCEPT !.pc = "admitted", !.op = op, !.by = u,
                        !.scope = Matrix[PermissionOf[op]][user[u].role],
                        !.lead = a.lead, !.to = a.to, !.rows = a.rows])
    BY <1>1 DEF Admit
  <2>2. PICK p : p = [Idle EXCEPT !.pc = "admitted", !.op = op, !.by = u,
                        !.scope = Matrix[PermissionOf[op]][user[u].role],
                        !.lead = a.lead, !.to = a.to, !.rows = a.rows]
    OBVIOUS
  <2>3. /\ p.op = op /\ p.by = u /\ p.lead = a.lead /\ p.to = a.to /\ p.rows = a.rows
        /\ p.pc = "admitted" /\ Advance(s, p)
    BY <2>1, <2>2 DEF Idle
  <2>4. /\ op \in {"DIRECT", "ROUTE"} => a.to \in Users
        /\ op \in OneLeadOps => a.lead \in Leads /\ Exists(a.lead)
        /\ op = "ROUTE" => \A r \in a.rows : queue[r].status # "UNUSED"
    BY DEF Arguments, OneLeadOps, Open
  <2>5. UNCHANGED chain
    BY <1>1 DEF Admit, chain
  <2>6. RequestOK(p)'
    BY <2>3, <2>4, <2>5 DEF RequestOK, chain, Exists
  <2>7. TablesGrow /\ LeadsOK' /\ RowsOK'
    BY <2>5, FrameTables
  <2> QED BY <1>0, <2>3, <2>6, <2>7, OthersKeepOK DEF Sound
<1>2. ASSUME NEW s \in Requests, Read(s)
      PROVE  Sound'
  <2>1. UNCHANGED chain
    BY <1>2 DEF Read, ReadLead, ReadCreator, ReadDirectTarget, ReadRouteTarget, ReadQueueRow, CheckRoute
  <2> QED BY <1>0, <1>2, <2>1, ReadRequests, FrameTables DEF Sound
<1>3. ASSUME NEW s \in Requests, Commit(s)
      PROVE  Sound'
  BY <1>0, <1>3, CommitTables, CommitRequests DEF Sound
<1>4. ASSUME NEW s \in Requests, Notify(s) \/ Abandon(s)
      PROVE  Sound'
  <2>1. UNCHANGED chain /\ Advance(s, Idle)
    BY <1>4 DEF Notify, Abandon, chain
  <2> QED BY <1>0, <2>1, FrameTables, EndedOK DEF Sound
<1>5. ASSUME NEW boss \in Users, NEW e \in UserEdits, UpdateUser(boss, e)
      PROVE  Sound'
  BY <1>0, <1>5, FrameTables DEF UpdateUser, Sound, RequestsOK, RequestOK, ReadyOK, At,
     Exists, chain
<1>6. CASE UNCHANGED vars
  BY <1>0, <1>6, FrameTables DEF vars, Sound, RequestsOK, RequestOK, ReadyOK, At,
     Exists, chain
<1> QED BY <1>1, <1>2, <1>3, <1>4, <1>5, <1>6 DEF Next

\* The tables, the stale reads and the checks in flight keep their types and stay
\* good enough for the blind commits of routeOne and directTransfer.
THEOREM SoundAlways == Spec => []Sound
<1>1. Init => Sound
  BY InitSound
<1>2. Sound /\ [Next]_vars => Sound'
  BY SoundStep
<1> QED BY <1>1, <1>2, PTL DEF Spec
-----------------------------------------------------------------------------
(* What a step does to the chain, whichever handler takes it: nothing, or  *)
(* one of four changes to one lead.                                        *)
Elsewhere(l) ==
  \A m \in Leads : m # l =>
    lead'[m] = lead[m] /\ history'[m] = history[m] /\ audit'[m] = audit[m]

Logged(l, action, by) == audit'[l] = Append(audit[l], [action |-> action, by |-> by])

LeadCreated(l, by) ==
  /\ ~Exists(l) /\ lead[l] = NoLeadRow /\ history[l] = << >>
  /\ lead'[l].status = "NEW" /\ lead'[l].tier = "AGENT"
  /\ lead'[l].assignedTo = by /\ lead'[l].createdBy = by
  /\ history' = history /\ queue' = queue
  /\ Logged(l, "LEAD_CREATED", by)

RowSettled(r, l, h) ==
  /\ queue[r].status # "UNUSED" /\ queue[r].lead = l /\ h.point = queue[r].point
  /\ queue'[r].status = "ROUTED" /\ queue'[r].lead = l /\ queue'[r].point = queue[r].point
  /\ queue'[r].routedTo = h.to /\ queue'[r].routedBy = h.by
  /\ \A t \in RowIds : t # r => queue'[t] = queue[t]

HopTaken(l, h, tier) ==
  /\ lead'[l].status = "IN_PROGRESS" /\ lead'[l].tier = tier
  /\ lead'[l].assignedTo = h.to /\ lead'[l].createdBy = lead[l].createdBy
  /\ history'[l] = Append(history[l], h)
  /\ Logged(l, "LEAD_ROUTED", h.by)

LeadHanded(l, h) ==
  /\ Exists(l)
  /\ \E tier \in TargetRoles[h.point] : HopTaken(l, h, tier)
  /\ \/ queue' = queue /\ h.point = "T1_DIRECT"
     \/ \E r \in RowIds : RowSettled(r, l, h)

KeepsHolder(l) ==
  /\ Exists(l)
  /\ lead'[l].tier = lead[l].tier /\ lead'[l].assignedTo = lead[l].assignedTo
  /\ lead'[l].createdBy = lead[l].createdBy
  /\ history' = history

LeadClosed(l, by) ==
  /\ KeepsHolder(l)
  /\ queue' = queue
  /\ \/ lead'[l].status = "CLOSED_WON" /\ Logged(l, "LEAD_CLOSED_WON", by)
     \/ lead'[l].status = "CLOSED_LOST" /\ Logged(l, "LEAD_CLOSED_LOST", by)

LeadParked(l, by) ==
  /\ KeepsHolder(l)
  /\ lead'[l].status = "PENDING_ROUTING"
  /\ \E action \in {"TRANSFER_REQUESTED", "LEAD_SENT_BACK", "LEAD_REOPENED"} : Logged(l, action, by)
  /\ \E r \in RowIds :
       /\ queue[r].status = "UNUSED" /\ queue'[r].status = "PENDING" /\ queue'[r].lead = l
       /\ queue'[r].point # "T1_DIRECT"
       /\ \A t \in RowIds : t # r => queue'[t] = queue[t]

ChainStep ==
  \/ UNCHANGED chain
  \/ \E l \in Leads :
       /\ Elsewhere(l)
       /\ \/ \E by \in Users : LeadCreated(l, by) \/ LeadClosed(l, by) \/ LeadParked(l, by)
          \/ \E h \in Hop : LeadHanded(l, h)

\* A move of a lead touches no other lead, and takes the hop it records.
LEMMA MoveEffect ==
  ASSUME TypeOK, NEW l \in Leads, NEW point \in Points, NEW q \in Request,
         NEW from, from \in Users \cup {NoUser}, q.to \in Users, q.by \in Users,
         MoveLead(l, point, q, from)
  PROVE  /\ Elsewhere(l)
         /\ \E h \in Hop : /\ h.point = point /\ h.to = q.to /\ h.by = q.by
                         /\ HopTaken(l, h, q.role)
<1>1. PICK h : h = [point |-> point, from |-> from, to |-> q.to, by |-> q.by]
  OBVIOUS
<1>2. h \in Hop /\ h.point = point /\ h.to = q.to /\ h.by = q.by
  BY <1>1 DEF Hop
<1>3. lead[l] \in LeadRow /\ lead'[l] = Moved(l, q) /\ \A m \in Leads : m # l => lead'[m] = lead[m]
  BY DEF MoveLead, TypeOK
<1>4. /\ lead'[l].status = "IN_PROGRESS" /\ lead'[l].tier = q.role
      /\ lead'[l].assignedTo = q.to /\ lead'[l].createdBy = lead[l].createdBy
  BY <1>3 DEF Moved, LeadRow
<1>5. history'[l] = Append(history[l], h) /\ \A m \in Leads : m # l => history'[m] = history[m]
  BY <1>1 DEF MoveLead, AddHop, TypeOK
<1>6. Logged(l, "LEAD_ROUTED", q.by) /\ \A m \in Leads : m # l => audit'[m] = audit[m]
  BY DEF MoveLead, Record, Logged, TypeOK
<1> QED BY <1>2, <1>3, <1>4, <1>5, <1>6 DEF Elsewhere, HopTaken

\* Every transaction creates, hands over, closes or parks one lead.
LEMMA CommitEffect ==
  ASSUME Sound, NEW s \in Requests, Commit(s)
  PROVE  ChainStep
<1> PICK q : q = req[s]
  OBVIOUS
<1>0. TypeOK /\ q \in Request
  BY DEF Sound, TypeOK
<1>1. ASSUME NEW l \in Leads, CommitCreate(s, l)
      PROVE  ChainStep
  <2>1. q.by \in Users
    BY <1>1, ReadyFacts DEF CommitCreate, At
  <2>2. lead[l] = NoLeadRow /\ history[l] = << >>
    BY <1>1 DEF CommitCreate, Sound, LeadsOK
  <2>3. /\ lead'[l].status = "NEW" /\ lead'[l].tier = "AGENT"
        /\ lead'[l].assignedTo = q.by /\ lead'[l].createdBy = q.by
    BY <1>0, <1>1 DEF CommitCreate, TypeOK
  <2>4. Elsewhere(l) /\ Logged(l, "LEAD_CREATED", q.by)
    BY <1>0, <1>1 DEF CommitCreate, TypeOK, Elsewhere, Record, Logged
  <2>5. LeadCreated(l, q.by)
    BY <1>1, <2>2, <2>3, <2>4 DEF CommitCreate, LeadCreated
  <2> QED BY <2>1, <2>4, <2>5 DEF ChainStep
<1>2. CASE CommitDirect(s)
  <2>1. /\ q.lead \in Leads /\ Exists(q.lead) /\ q.to \in Users /\ q.by \in Users
        /\ q.role \in TargetRoles["T1_DIRECT"] /\ "T1_DIRECT" \in Points
    BY <1>2, ReadyFacts DEF CommitDirect, At, TargetRoles, Points
  <2>2. MoveLead(q.lead, "T1_DIRECT", q, q.by) /\ queue' = queue
    BY <1>2 DEF CommitDirect
  <2>3. /\ Elsewhere(q.lead)
        /\ \E h \in Hop : /\ h.point = "T1_DIRECT" /\ h.to = q.to /\ h.by = q.by
                        /\ HopTaken(q.lead, h, q.role)
    BY <1>0, <2>1, <2>2, MoveEffect
  <2>4. \E h \in Hop : LeadHanded(q.lead, h)
    BY <2>1, <2>2, <2>3 DEF LeadHanded
  <2> QED BY <2>1, <2>3, <2>4 DEF ChainStep
<1>3. CASE CommitClose(s)
  <2>1. q.lead \in Leads /\ Exists(q.lead) /\ q.by \in Users
    BY <1>3, ReadyFacts DEF CommitClose, OneLeadOps, Endpoints, ClosedStatuses
  <2>2. lead[q.lead] \in LeadRow
    BY <1>0, <2>1 DEF TypeOK
  <2>3. lead'[q.lead].status = q.op /\ KeepsHolder(q.lead) /\ queue' = queue
    BY <1>0, <1>3, <2>1, <2>2 DEF CommitClose, KeepsHolder, TypeOK, LeadRow
  <2>4. /\ Logged(q.lead, IF q.op = "CLOSED_WON" THEN "LEAD_CLOSED_WON" ELSE "LEAD_CLOSED_LOST", q.by)
        /\ Elsewhere(q.lead)
    BY <1>0, <1>3, <2>1 DEF CommitClose, Record, Logged, Elsewhere, TypeOK
  <2>5. LeadClosed(q.lead, q.by)
    BY <1>3, <2>3, <2>4 DEF LeadClosed, CommitClose, ClosedStatuses
  <2> QED BY <2>1, <2>4, <2>5 DEF ChainStep
<1>4. ASSUME NEW r \in RowIds, CommitRaise(s, r)
      PROVE  ChainStep
  <2>1. q.lead \in Leads /\ Exists(q.lead) /\ q.by \in Users
    BY <1>4, ReadyFacts DEF CommitRaise, RaisingActions, OneLeadOps, Endpoints
  <2>2. lead[q.lead] \in LeadRow
    BY <1>0, <2>1 DEF TypeOK
  <2>3. lead'[q.lead].status = "PENDING_ROUTING" /\ KeepsHolder(q.lead)
    BY <1>0, <1>4, <2>1, <2>2 DEF CommitRaise, Parked, KeepsHolder, TypeOK, LeadRow
  <2>4. Logged(q.lead, RaisingActions[q.op], q.by) /\ Elsewhere(q.lead)
    BY <1>0, <1>4, <2>1 DEF CommitRaise, Record, Logged, Elsewhere, TypeOK
  <2>5. RaisingActions[q.op] \in {"TRANSFER_REQUESTED", "LEAD_SENT_BACK", "LEAD_REOPENED"}
    BY <1>4 DEF CommitRaise, RaisingActions
  <2>6. /\ queue[r].status = "UNUSED" /\ queue'[r].status = "PENDING" /\ queue'[r].lead = q.lead
        /\ queue'[r].point # "T1_DIRECT"
        /\ \A t \in RowIds : t # r => queue'[t] = queue[t]
    BY <1>0, <1>4 DEF CommitRaise, TypeOK, NoQueueRow
  <2>7. LeadParked(q.lead, q.by)
    BY <2>3, <2>4, <2>5, <2>6 DEF LeadParked
  <2> QED BY <2>1, <2>4, <2>7 DEF ChainStep
<1>5. CASE CommitRoute(s)
  <2> PICK l, point : l = queue[q.row].lead /\ point = queue[q.row].point
    OBVIOUS
  <2>1. /\ l \in Leads /\ Exists(l) /\ q.row \in RowIds /\ point \in Points
        /\ queue[q.row].status # "UNUSED"
        /\ q.to \in Users /\ q.by \in Users /\ q.role \in TargetRoles[point]
        /\ q.from \in Users \cup {NoUser}
    BY <1>0, <1>5, ReadyFacts DEF CommitRoute, At, Request
  <2>2. MoveLead(l, point, q, q.from) /\ SettleRow(q)
    BY <1>5 DEF CommitRoute
  <2>3. /\ Elsewhere(l)
        /\ \E h \in Hop : h.point = point /\ h.to = q.to /\ h.by = q.by /\ HopTaken(l, h, q.role)
    BY <1>0, <2>1, <2>2, MoveEffect
  <2>4. PICK h \in Hop : h.point = point /\ h.to = q.to /\ h.by = q.by /\ HopTaken(l, h, q.role)
    BY <2>3
  <2>5. RowSettled(q.row, l, h)
    <3>1. queue[q.row] \in QueueRow
      BY <1>0, <2>1 DEF TypeOK
    <3> QED BY <1>0, <2>1, <2>2, <2>4, <3>1 DEF RowSettled, SettleRow, TypeOK, QueueRow
  <2>6. LeadHanded(l, h)
    BY <2>1, <2>4, <2>5 DEF LeadHanded
  <2> QED BY <2>1, <2>3, <2>6 DEF ChainStep
<1> QED BY <1>1, <1>2, <1>3, <1>4, <1>5 DEF Commit

\* Only the transactions of the handlers write to the chain.
LEMMA OnlyCommitsWrite ==
  ASSUME [Next]_vars
  PROVE  UNCHANGED chain \/ \E s \in Requests : Commit(s)
<1>1. ASSUME NEW s \in Requests, NEW u \in Users, NEW op \in Ops, Admit(s, u, op)
      PROVE  UNCHANGED chain
  BY <1>1 DEF Admit, chain
<1>2. ASSUME NEW s \in Requests, Read(s)
      PROVE  UNCHANGED chain
  BY <1>2 DEF Read, ReadLead, ReadCreator, ReadDirectTarget, ReadRouteTarget, ReadQueueRow, CheckRoute
<1>3. ASSUME NEW s \in Requests, Notify(s) \/ Abandon(s)
      PROVE  UNCHANGED chain
  BY <1>3 DEF Notify, Abandon, chain
<1>4. ASSUME NEW boss \in Users, NEW e \in UserEdits, UpdateUser(boss, e)
      PROVE  UNCHANGED chain
  BY <1>4 DEF UpdateUser
<1>5. UNCHANGED vars => UNCHANGED chain
  BY DEF vars, chain
<1> QED BY <1>1, <1>2, <1>3, <1>4, <1>5 DEF Next

\* Every step is a ChainStep: the tables of the chain stay, or one lead changes in one
\* of those four ways.
LEMMA StepEffect ==
  ASSUME Sound, [Next]_vars
  PROVE  ChainStep
<1>1. UNCHANGED chain => ChainStep
  BY DEF ChainStep
<1> QED BY <1>1, OnlyCommitsWrite, CommitEffect

-----------------------------------------------------------------------------
(* The safety properties                                                   *)

\* The last element of a sequence after an Append, and the ones before it.
LEMMA AppendFacts ==
  ASSUME NEW S, NEW seq \in Seq(S), NEW e \in S
  PROVE  /\ Append(seq, e) # << >> /\ LastOf(Append(seq, e)) = e
         /\ Len(Append(seq, e)) = Len(seq) + 1
         /\ \A i \in 1..Len(seq) : i \in 1..Len(Append(seq, e)) /\ Append(seq, e)[i] = seq[i]
         /\ Len(seq) + 1 \in 1..Len(Append(seq, e)) /\ Append(seq, e)[Len(seq) + 1] = e
BY DEF LastOf

\* TypeOK: every table keeps its type under every interleaving of the handlers.
THEOREM TypeOKAlways == Spec => []TypeOK
<1>1. Sound => TypeOK
  BY DEF Sound
<1> QED BY <1>1, SoundAlways, PTL

\* No chain step strands a lead.
LEMMA NoStrandedLeadStep ==
  ASSUME Sound, ChainStep, NoStrandedLead
  PROVE  NoStrandedLead'
<1> SUFFICES ASSUME NEW m \in Leads, (lead[m].status = "PENDING_ROUTING")'
             PROVE  Waiting(m)'
  BY DEF NoStrandedLead
<1>1. CASE UNCHANGED chain
  BY <1>1 DEF chain, NoStrandedLead, Waiting, Pending
<1>2. ASSUME NEW l \in Leads, Elsewhere(l), NEW by \in Users, LeadCreated(l, by) \/ LeadClosed(l, by)
      PROVE  Waiting(m)'
  <2>1. m # l /\ lead'[m] = lead[m] /\ queue' = queue
    BY <1>2 DEF LeadCreated, LeadClosed, Elsewhere
  <2> QED BY <2>1 DEF NoStrandedLead, Waiting, Pending
<1>3. ASSUME NEW l \in Leads, Elsewhere(l), NEW by \in Users, LeadParked(l, by)
      PROVE  Waiting(m)'
  <2>1. PICK r \in RowIds :
          /\ queue[r].status = "UNUSED" /\ queue'[r].status = "PENDING" /\ queue'[r].lead = l
          /\ \A t \in RowIds : t # r => queue'[t] = queue[t]
    BY <1>3 DEF LeadParked
  <2>2. CASE m = l
    BY <2>1, <2>2 DEF Waiting, Pending
  <2>3. CASE m # l
    BY <1>3, <2>1, <2>3 DEF Elsewhere, NoStrandedLead, Waiting, Pending
  <2> QED BY <2>2, <2>3
<1>4. ASSUME NEW l \in Leads, Elsewhere(l), NEW h \in Hop, LeadHanded(l, h)
      PROVE  Waiting(m)'
  <2>1. m # l /\ lead'[m] = lead[m]
    BY <1>4 DEF LeadHanded, HopTaken, Elsewhere
  <2>2. PICK t \in RowIds : Pending(t) /\ queue[t].lead = m
    BY <2>1 DEF NoStrandedLead, Waiting
  <2>3. queue'[t] = queue[t]
    BY <1>4, <2>1, <2>2 DEF LeadHanded, RowSettled
  <2> QED BY <2>2, <2>3 DEF Waiting, Pending
<1> QED BY <1>1, <1>2, <1>3, <1>4 DEF ChainStep

\* NoStrandedLead: whatever the handlers of the routing service interleave, a lead
\* that waits for a routing decision has a PENDING row in the bucket.
THEOREM NoStrandedLeadAlways == Spec => []NoStrandedLead
<1>1. Init => NoStrandedLead
  BY DEF Init, NoStrandedLead, NoLeadRow
<1>2. Sound /\ NoStrandedLead /\ [Next]_vars => NoStrandedLead'
  BY StepEffect, NoStrandedLeadStep
<1> QED BY <1>1, <1>2, SoundAlways, PTL DEF Spec

\* Every chain step keeps a lead's assignee and tier in line with its last hop.
LEMMA AssigneeIsLastHopStep ==
  ASSUME Sound, ChainStep, AssigneeIsLastHop
  PROVE  AssigneeIsLastHop'
<1> DEFINE Fine(m) ==
      IF history[m] = << >>
      THEN lead[m].assignedTo = lead[m].createdBy /\ lead[m].tier = "AGENT"
      ELSE /\ lead[m].assignedTo = LastOf(history[m]).to
           /\ lead[m].tier = "CLOSER" <=> LastOf(history[m]).point = "T2_TO_CLOSER"
<1>0. \A m \in Leads : Exists(m) => Fine(m)
  BY DEF AssigneeIsLastHop
<1> SUFFICES ASSUME NEW m \in Leads, Exists(m)'
             PROVE  Fine(m)'
  BY DEF AssigneeIsLastHop
<1>1. CASE lead'[m] = lead[m] /\ history'[m] = history[m]
  <2>1. Exists(m) /\ Fine(m)
    BY <1>0, <1>1 DEF Exists
  <2> QED BY <1>1, <2>1
<1>2. CASE UNCHANGED chain
  BY <1>1, <1>2 DEF chain
<1>3. ASSUME NEW l \in Leads, Elsewhere(l), m # l
      PROVE  Fine(m)'
  BY <1>1, <1>3 DEF Elsewhere
<1>4. ASSUME NEW by \in Users, LeadCreated(m, by)
      PROVE  Fine(m)'
  BY <1>4 DEF LeadCreated
<1>5. ASSUME NEW by \in Users, LeadClosed(m, by) \/ LeadParked(m, by)
      PROVE  Fine(m)'
  <2>1. Fine(m) /\ KeepsHolder(m)
    BY <1>0, <1>5 DEF LeadClosed, LeadParked, KeepsHolder
  <2> QED BY <2>1 DEF KeepsHolder
<1>6. ASSUME NEW h \in Hop, LeadHanded(m, h)
      PROVE  Fine(m)'
  <2>1. PICK tier \in TargetRoles[h.point] : HopTaken(m, h, tier)
    BY <1>6 DEF LeadHanded
  <2>2. history'[m] # << >> /\ LastOf(history'[m]) = h
    BY <2>1, AppendFacts DEF HopTaken, Sound, TypeOK
  <2>3. tier = "CLOSER" <=> h.point = "T2_TO_CLOSER"
    BY DEF TargetRoles, Hop, Points
  <2> QED BY <2>1, <2>2, <2>3 DEF HopTaken
<1> HIDE DEF Fine
<1> QED BY <1>2, <1>3, <1>4, <1>5, <1>6 DEF ChainStep

\* AssigneeIsLastHop: the assignee and the tier of a lead are those its last
\* routing_history row says.
THEOREM AssigneeIsLastHopAlways == Spec => []AssigneeIsLastHop
<1>1. Init => AssigneeIsLastHop
  BY DEF Init, AssigneeIsLastHop, Exists, NoLeadRow
<1>2. Sound /\ AssigneeIsLastHop /\ [Next]_vars => AssigneeIsLastHop'
  BY StepEffect, AssigneeIsLastHopStep
<1> QED BY <1>1, <1>2, SoundAlways, PTL DEF Spec

\* Every chain step keeps a lead's status in line with its last audit entry.
LEMMA AuditExplainsStatusStep ==
  ASSUME Sound, ChainStep, AuditExplainsStatus
  PROVE  AuditExplainsStatus'
<1> DEFINE Told(m) == lead[m].status = IF audit[m] = << >> THEN "ABSENT"
                                      ELSE StatusAfter[LastOf(audit[m]).action]
<1>0. \A m \in Leads : Told(m)
  BY DEF AuditExplainsStatus
<1> SUFFICES ASSUME NEW m \in Leads
             PROVE  Told(m)'
  BY DEF AuditExplainsStatus
<1>1. CASE lead'[m] = lead[m] /\ audit'[m] = audit[m]
  <2>1. Told(m)
    BY <1>0
  <2> QED BY <1>1, <2>1
<1>2. ASSUME NEW action \in AuditActions, NEW by \in Users, Logged(m, action, by),
             lead'[m].status = StatusAfter[action]
      PROVE  Told(m)'
  <2>1. PICK e \in AuditEntry : e = [action |-> action, by |-> by]
    BY DEF AuditEntry
  <2>2. audit'[m] = Append(audit[m], e) /\ audit[m] \in Seq(AuditEntry) /\ e.action = action
    BY <1>2, <2>1 DEF Logged, Sound, TypeOK
  <2>3. audit'[m] # << >> /\ LastOf(audit'[m]) = e
    BY <2>2, AppendFacts
  <2> QED BY <1>2, <2>2, <2>3
<1> HIDE DEF Told
<1>3. CASE UNCHANGED chain
  BY <1>1, <1>3 DEF chain
<1>4. ASSUME NEW l \in Leads, Elsewhere(l), m # l
      PROVE  Told(m)'
  BY <1>1, <1>4 DEF Elsewhere
<1>5. ASSUME NEW by \in Users, LeadCreated(m, by) \/ LeadClosed(m, by) \/ LeadParked(m, by)
      PROVE  Told(m)'
  <2>1. PICK action \in AuditActions : Logged(m, action, by) /\ lead'[m].status = StatusAfter[action]
    BY <1>5 DEF LeadCreated, LeadClosed, LeadParked, StatusAfter, AuditActions
  <2> QED BY <1>2, <2>1
<1>6. ASSUME NEW h \in Hop, LeadHanded(m, h)
      PROVE  Told(m)'
  <2>1. Logged(m, "LEAD_ROUTED", h.by) /\ lead'[m].status = "IN_PROGRESS" /\ h.by \in Users
    BY <1>6 DEF LeadHanded, HopTaken, Hop
  <2>2. "LEAD_ROUTED" \in AuditActions /\ StatusAfter["LEAD_ROUTED"] = "IN_PROGRESS"
    BY DEF AuditActions, StatusAfter
  <2> QED BY <1>2, <2>1, <2>2
<1> QED BY <1>3, <1>4, <1>5, <1>6 DEF ChainStep

\* AuditExplainsStatus: the last audit entry of a lead's chain names the
\* transaction that gave the lead its status.
THEOREM AuditExplainsStatusAlways == Spec => []AuditExplainsStatus
<1>1. Init => AuditExplainsStatus
  BY DEF Init, AuditExplainsStatus, NoLeadRow
<1>2. Sound /\ AuditExplainsStatus /\ [Next]_vars => AuditExplainsStatus'
  BY StepEffect, AuditExplainsStatusStep
<1> QED BY <1>1, <1>2, SoundAlways, PTL DEF Spec

\* A lead's history only grows, so what is in it stays in it.
LEMMA HistoryGrows ==
  ASSUME Sound, ChainStep, NEW m \in Leads
  PROVE  /\ Len(history[m]) \in Nat /\ Len(history'[m]) \in Nat
         /\ \A i \in 1..Len(history[m]) :
              i \in 1..Len(history'[m]) /\ history'[m][i] = history[m][i]
<1>0. history[m] \in Seq(Hop)
  BY DEF Sound, TypeOK
<1>1. history'[m] = history[m] \/ \E h \in Hop : history'[m] = Append(history[m], h)
  BY DEF ChainStep, chain, Elsewhere, LeadCreated, LeadClosed, LeadParked, KeepsHolder,
         LeadHanded, HopTaken
<1>2. CASE history'[m] = history[m]
  BY <1>0, <1>2
<1>3. ASSUME NEW h \in Hop, history'[m] = Append(history[m], h)
      PROVE  /\ Len(history[m]) \in Nat /\ Len(history'[m]) \in Nat
             /\ \A i \in 1..Len(history[m]) :
                  i \in 1..Len(history'[m]) /\ history'[m][i] = history[m][i]
  BY <1>0, <1>3, AppendFacts
<1> QED BY <1>1, <1>2, <1>3

\* Every chain step keeps a hop behind each routed row; hops are never removed.
LEMMA RoutedRowHasHopStep ==
  ASSUME Sound, ChainStep, TablesGrow, RoutedRowHasHop
  PROVE  RoutedRowHasHop'
<1> DEFINE Backed(r) ==
      \E i \in 1..Len(history[queue[r].lead]) :
        LET h == history[queue[r].lead][i] IN
        h.point = queue[r].point /\ h.to = queue[r].routedTo /\ h.by = queue[r].routedBy
<1>0. \A r \in RowIds : queue[r].status = "ROUTED" => Backed(r)
  BY DEF RoutedRowHasHop
<1> SUFFICES ASSUME NEW r \in RowIds, queue'[r].status = "ROUTED"
             PROVE  Backed(r)'
  BY DEF RoutedRowHasHop
<1>1. CASE queue'[r] = queue[r]
  <2>1. queue[r].lead \in Leads /\ Backed(r)
    BY <1>0, <1>1 DEF Sound, RowsOK
  <2> QED BY <1>1, <2>1, HistoryGrows
<1>2. ASSUME NEW l \in Leads, NEW h \in Hop, LeadHanded(l, h), RowSettled(r, l, h)
      PROVE  Backed(r)'
  <2>1. history'[l] = Append(history[l], h) /\ history[l] \in Seq(Hop)
    BY <1>2 DEF LeadHanded, HopTaken, Sound, TypeOK
  <2>2. Len(history[l]) + 1 \in 1..Len(history'[l]) /\ history'[l][Len(history[l]) + 1] = h
    BY <2>1, AppendFacts
  <2>3. /\ queue'[r].lead = l /\ queue'[r].point = h.point
        /\ queue'[r].routedTo = h.to /\ queue'[r].routedBy = h.by
    BY <1>2 DEF RowSettled
  <2> QED BY <2>2, <2>3
<1> HIDE DEF Backed
<1>3. CASE UNCHANGED chain
  BY <1>1, <1>3 DEF chain
<1>4. ASSUME NEW l \in Leads, NEW by \in Users,
             LeadCreated(l, by) \/ LeadClosed(l, by) \/ LeadParked(l, by)
      PROVE  Backed(r)'
  BY <1>1, <1>4 DEF LeadCreated, LeadClosed, LeadParked
<1>5. ASSUME NEW l \in Leads, NEW h \in Hop, LeadHanded(l, h)
      PROVE  Backed(r)'
  <2>1. queue' = queue \/ \E t \in RowIds : RowSettled(t, l, h)
    BY <1>5 DEF LeadHanded
  <2>2. CASE queue' = queue
    BY <1>1, <2>2
  <2>3. ASSUME NEW t \in RowIds, RowSettled(t, l, h)
        PROVE  Backed(r)'
    <3>1. CASE t = r
      BY <1>2, <1>5, <2>3, <3>1
    <3>2. CASE t # r
      BY <1>1, <2>3, <3>2 DEF RowSettled
    <3> QED BY <3>1, <3>2
  <2> QED BY <2>1, <2>2, <2>3
<1> QED BY <1>3, <1>4, <1>5 DEF ChainStep

\* Leads and queue rows are never removed, whatever step is taken.
LEMMA StepGrows ==
  ASSUME Sound, [Next]_vars
  PROVE  TablesGrow
<1>1. TypeOK'
  BY TypeStep
<1> QED BY <1>1, OnlyCommitsWrite, FrameTables, CommitTables

\* RoutedRowHasHop: a queue row that says ROUTED is backed by a hop of its lead
\* with its point, router and recipient, also when two routers raced for the row.
THEOREM RoutedRowHasHopAlways == Spec => []RoutedRowHasHop
<1>1. Init => RoutedRowHasHop
  BY DEF Init, RoutedRowHasHop, NoQueueRow
<1>2. Sound /\ RoutedRowHasHop /\ [Next]_vars => RoutedRowHasHop'
  BY StepEffect, StepGrows, RoutedRowHasHopStep
<1> QED BY <1>1, <1>2, SoundAlways, PTL DEF Spec

\* TierFollowsPoint: no step changes the tier of a lead except by one more hop,
\* and then to a tier the transfer point of that hop leads to.
THEOREM TierFollowsPointHolds == Spec => TierFollowsPoint
<1> DEFINE Follows ==
      \A l \in Leads : lead'[l].tier # lead[l].tier =>
        /\ Len(history'[l]) = Len(history[l]) + 1
        /\ lead'[l].tier \in TargetRoles[LastOf(history'[l]).point]
<1>1. ASSUME Sound, [Next]_vars
      PROVE  Follows
  <2> SUFFICES ASSUME NEW m \in Leads, lead'[m].tier # lead[m].tier
               PROVE  /\ Len(history'[m]) = Len(history[m]) + 1
                      /\ lead'[m].tier \in TargetRoles[LastOf(history'[m]).point]
    OBVIOUS
  <2>1. ChainStep
    BY <1>1, StepEffect
  <2>2. PICK h \in Hop : LeadHanded(m, h)
    BY <2>1 DEF ChainStep, chain, Elsewhere, LeadCreated, NoLeadRow, LeadClosed, LeadParked, KeepsHolder
  <2>3. PICK tier \in TargetRoles[h.point] : HopTaken(m, h, tier)
    BY <2>2 DEF LeadHanded
  <2>4. /\ Len(history'[m]) = Len(history[m]) + 1 /\ LastOf(history'[m]) = h
    BY <1>1, <2>3, AppendFacts DEF HopTaken, Sound, TypeOK
  <2> QED BY <2>3, <2>4 DEF HopTaken
<1>2. Sound /\ [Next]_vars => [Follows]_vars
  BY <1>1
<1>3. [][Follows]_vars => TierFollowsPoint
  BY PTL DEF TierFollowsPoint
<1> HIDE DEF Follows
<1> QED BY <1>2, <1>3, SoundAlways, PTL DEF Spec

-----------------------------------------------------------------------------
(* The refinement: the call chain implements the assignment ledger.        *)

\* The initial state maps to an initial state of the assignment ledger.
LEMMA LedgerInitially == Init => Ledger!LedgerInit
<1> SUFFICES ASSUME Init PROVE Ledger!LedgerInit
  OBVIOUS
<1>1. \A l \in Leads : lead[l].assignedTo = NoUser /\ lead[l].tier # "CLOSER"
  BY DEF Init, NoLeadRow
<1>2. [l \in Leads |-> lead[l].assignedTo] = [l \in Leads |-> NoUser]
  BY <1>1
<1>3. [l \in Leads |-> lead[l].tier = "CLOSER"] = [l \in Leads |-> FALSE]
  BY <1>1, Zenon
<1> QED BY <1>2, <1>3 DEF Init, Ledger!LedgerInit

\* Every step maps to a step of the assignment ledger or to a stutter.
LEMMA LedgerStep ==
  ASSUME Sound, Sound', ChainStep
  PROVE  [Ledger!LedgerNext]_(Ledger!lvars)
<1> DEFINE holder == [l \in Leads |-> lead[l].assignedTo]
           lastDesk == [l \in Leads |-> lead[l].tier = "CLOSER"]
<1>0. history \in [Leads -> Seq(Hop)] /\ history' \in [Leads -> Seq(Hop)]
  BY DEF Sound, TypeOK
<1>1. CASE UNCHANGED chain
  BY <1>1 DEF chain, Ledger!lvars
<1>2. ASSUME NEW l \in Leads, Elsewhere(l), NEW by \in Users, LeadCreated(l, by)
      PROVE  Ledger!OpenLead(l, by)
  <2>1. holder[l] = NoUser
    BY <1>2 DEF LeadCreated, NoLeadRow
  <2>2. holder' = [holder EXCEPT ![l] = by]
    BY <1>2 DEF LeadCreated, Elsewhere
  <2>3. lastDesk' = lastDesk
    BY <1>2 DEF LeadCreated, Elsewhere, NoLeadRow
  <2>4. history' = history
    BY <1>2 DEF LeadCreated
  <2> QED BY <2>1, <2>2, <2>3, <2>4 DEF Ledger!OpenLead
<1>3. ASSUME NEW l \in Leads, Elsewhere(l), NEW by \in Users, LeadClosed(l, by) \/ LeadParked(l, by)
      PROVE  UNCHANGED Ledger!lvars
  <2>1. holder' = holder /\ lastDesk' = lastDesk /\ history' = history
    BY <1>3 DEF LeadClosed, LeadParked, KeepsHolder, Elsewhere
  <2> QED BY <2>1 DEF Ledger!lvars
<1>4. ASSUME NEW l \in Leads, Elsewhere(l), NEW h \in Hop, LeadHanded(l, h)
      PROVE  Ledger!HandOver(l, h)
  <2>1. PICK tier \in TargetRoles[h.point] : HopTaken(l, h, tier)
    BY <1>4 DEF LeadHanded
  <2>2. tier = "CLOSER" <=> h.point = "T2_TO_CLOSER"
    BY DEF TargetRoles, Hop, Points
  <2>3. holder[l] # NoUser
    BY <1>4, ConstantsAssumption DEF LeadHanded, Sound, LeadsOK
  <2>4. history' = [history EXCEPT ![l] = Append(@, h)]
    BY <1>0, <1>4, <2>1 DEF HopTaken, Elsewhere
  <2>5. holder' = [holder EXCEPT ![l] = h.to]
    BY <1>4, <2>1 DEF HopTaken, Elsewhere
  <2>6. lastDesk' = [lastDesk EXCEPT ![l] = (h.point = "T2_TO_CLOSER")]
    BY <1>4, <2>1, <2>2 DEF HopTaken, Elsewhere
  <2> QED BY <2>3, <2>4, <2>5, <2>6 DEF Ledger!HandOver
<1> QED BY <1>1, <1>2, <1>3, <1>4 DEF ChainStep, Ledger!LedgerNext

\* ImplementsLedger: under every interleaving the holder of a lead changes only by
\* opening the lead or by the next entry of its append-only history.
THEOREM ChainImplementsLedger == Spec => ImplementsLedger
<1>1. Init => Ledger!LedgerInit
  BY LedgerInitially
<1>2. Sound /\ Sound' /\ [Next]_vars => [Ledger!LedgerNext]_(Ledger!lvars)
  BY StepEffect, LedgerStep
<1> QED BY <1>1, <1>2, SoundAlways, PTL DEF Spec, ImplementsLedger, Ledger!LedgerSpec

-----------------------------------------------------------------------------
(* Notices tell of committed hops only.                                    *)

RaisedPoints == \A r \in RowIds : queue[r].status # "UNUSED" => queue[r].point # "T1_DIRECT"

DirectHop(l) == \E i \in 1..Len(history[l]) : history[l][i].point = "T1_DIRECT"
QueueHopTo(u) ==
  \E l \in Leads : \E i \in 1..Len(history[l]) :
    history[l][i].to = u /\ history[l][i].point # "T1_DIRECT"

\* A transfer about to be announced is in the history.
AnnouncedIsDone ==
  \A s \in Requests : req[s].pc = "notify" =>
    /\ req[s].op = "DIRECT" => DirectHop(req[s].lead)
    /\ req[s].op = "ROUTE" => QueueHopTo(req[s].to)

NoticesOK == RaisedPoints /\ AnnouncedIsDone /\ TruthfulNotices

\* Rows are raised only for T2_TO_CLOSER and T3_SEND_BACK, never for a direct transfer.
LEMMA RaisedPointsStep ==
  ASSUME Sound, ChainStep, RaisedPoints
  PROVE  RaisedPoints'
<1> SUFFICES ASSUME NEW t \in RowIds, queue'[t].status # "UNUSED"
             PROVE  queue'[t].point # "T1_DIRECT"
  BY DEF RaisedPoints
<1>1. CASE queue'[t] = queue[t]
  BY <1>1 DEF RaisedPoints
<1>2. ASSUME NEW l \in Leads, NEW by \in Users, LeadParked(l, by)
      PROVE  queue'[t].point # "T1_DIRECT"
  BY <1>1, <1>2 DEF LeadParked
<1>3. ASSUME NEW l \in Leads, NEW h \in Hop, LeadHanded(l, h)
      PROVE  queue'[t].point # "T1_DIRECT"
  <2>1. queue' = queue \/ \E r \in RowIds : RowSettled(r, l, h)
    BY <1>3 DEF LeadHanded
  <2>2. ASSUME NEW r \in RowIds, RowSettled(r, l, h), t = r
        PROVE  queue'[t].point # "T1_DIRECT"
    BY <2>2 DEF RowSettled, RaisedPoints
  <2> QED BY <1>1, <2>1, <2>2 DEF RowSettled
<1> QED BY <1>1, <1>2, <1>3 DEF ChainStep, chain, LeadCreated, LeadClosed

\* A hop that is in a history stays there.
LEMMA HopsStay ==
  ASSUME Sound, ChainStep
  PROVE  /\ \A l \in Leads : DirectHop(l) => DirectHop(l)'
         /\ \A u \in Users : QueueHopTo(u) => QueueHopTo(u)'
BY HistoryGrows DEF DirectHop, QueueHopTo

\* A handler that reached its notification has just committed, or was there before.
LEMMA ReachesNotify ==
  ASSUME Sound, [Next]_vars, NEW t \in Requests, req'[t].pc = "notify"
  PROVE  \/ req'[t] = req[t]
         \/ CommitDirect(t) \/ CommitRoute(t)
         \/ (CommitClose(t) \/ \E r \in RowIds : CommitRaise(t, r))
<1>0. req \in [Requests -> Request] /\ req[t] \in Request
  BY DEF Sound, TypeOK
<1>1. ASSUME NEW s \in Requests, NEW q, Advance(s, q), q.pc # "notify"
      PROVE  req'[t] = req[t]
  BY <1>0, <1>1 DEF Advance
<1>2. ASSUME NEW s \in Requests, NEW u \in Users, NEW op \in Ops, Admit(s, u, op)
      PROVE  req'[t] = req[t]
  BY <1>1, <1>2 DEF Admit, Idle
<1>3. ASSUME NEW s \in Requests, Read(s)
      PROVE  req'[t] = req[t]
  <2>1. req[s] \in Request
    BY <1>0
  <2> QED BY <1>1, <1>3, <2>1 DEF Read, ReadLead, ReadCreator, ReadDirectTarget, ReadRouteTarget,
            ReadQueueRow, CheckRoute, Request
<1>4. ASSUME NEW s \in Requests, Notify(s) \/ Abandon(s)
      PROVE  req'[t] = req[t]
  BY <1>1, <1>4 DEF Notify, Abandon, Idle
<1>5. ASSUME NEW s \in Requests, Commit(s)
      PROVE  s = t \/ req'[t] = req[t]
  BY <1>0, <1>5 DEF Commit, CommitCreate, CommitDirect, CommitClose, CommitRaise, CommitRoute, Advance
<1>6. ASSUME NEW l \in Leads, CommitCreate(t, l)
      PROVE  req'[t] = req[t]
  BY <1>1, <1>6 DEF CommitCreate, Idle
<1>7. ASSUME NEW boss \in Users, NEW e \in UserEdits, UpdateUser(boss, e)
      PROVE  req'[t] = req[t]
  BY <1>7 DEF UpdateUser
<1>8. UNCHANGED vars => req'[t] = req[t]
  BY DEF vars
<1>9. ASSUME Commit(t)
      PROVE  \/ req'[t] = req[t]
             \/ CommitDirect(t) \/ CommitRoute(t)
             \/ (CommitClose(t) \/ \E r \in RowIds : CommitRaise(t, r))
  BY <1>6, <1>9 DEF Commit
<1> QED BY <1>2, <1>3, <1>4, <1>5, <1>7, <1>8, <1>9 DEF Next

\* Every step keeps it that a handler about to notify has its hop in the history.
LEMMA AnnouncedIsDoneStep ==
  ASSUME Sound, ChainStep, [Next]_vars, RaisedPoints, AnnouncedIsDone
  PROVE  AnnouncedIsDone'
<1> SUFFICES ASSUME NEW t \in Requests, req'[t].pc = "notify"
             PROVE  /\ req'[t].op = "DIRECT" => DirectHop(req[t].lead)'
                    /\ req'[t].op = "ROUTE" => QueueHopTo(req[t].to)'
  BY DEF AnnouncedIsDone
<1> PICK q, p : q = req[t] /\ p = req'[t]
  OBVIOUS
<1>0. TypeOK /\ q \in Request
  BY DEF Sound, TypeOK
<1> DEFINE Done == /\ p.op = "DIRECT" => DirectHop(p.lead)'
                   /\ p.op = "ROUTE" => QueueHopTo(p.to)'
<1> SUFFICES Done
  BY DEF DirectHop, QueueHopTo
<1>1. CASE req'[t] = req[t]
  <2>1. /\ p.op = "DIRECT" => p.lead \in Leads /\ DirectHop(p.lead)
        /\ p.op = "ROUTE" => p.to \in Users /\ QueueHopTo(p.to)
    BY <1>1 DEF AnnouncedIsDone, Sound, RequestsOK, RequestOK, OneLeadOps, Endpoints
  <2> QED BY <2>1, HopsStay
<1>2. CASE CommitDirect(t)
  <2>1. q.lead \in Leads /\ q.op = "DIRECT" /\ history' = [history EXCEPT ![q.lead] =
          Append(@, [point |-> "T1_DIRECT", from |-> q.by, to |-> q.to, by |-> q.by])]
        /\ q.by \in Users /\ q.to \in Users
    BY <1>2, ReadyFacts DEF CommitDirect, At, MoveLead, AddHop
  <2>2. PICK h \in Hop : h = [point |-> "T1_DIRECT", from |-> q.by, to |-> q.to, by |-> q.by]
    BY <2>1 DEF Hop, Points
  <2>3. history'[q.lead] = Append(history[q.lead], h) /\ h.point = "T1_DIRECT"
        /\ history[q.lead] \in Seq(Hop)
    BY <1>0, <2>1, <2>2 DEF TypeOK
  <2>4. DirectHop(q.lead)'
    BY <2>3, AppendFacts DEF DirectHop
  <2>5. p = [q EXCEPT !.pc = "notify"]
    BY <1>0, <1>2 DEF CommitDirect, Advance, TypeOK
  <2>6. p.lead = q.lead /\ p.op = q.op
    BY <1>0, <2>5 DEF Request
  <2> QED BY <2>1, <2>4, <2>6
<1>3. CASE CommitRoute(t)
  <2> PICK l, point : l = queue[q.row].lead /\ point = queue[q.row].point
    OBVIOUS
  <2>1. /\ l \in Leads /\ point \in Points /\ q.op = "ROUTE" /\ q.by \in Users /\ q.to \in Users
        /\ q.from \in Users \cup {NoUser} /\ point # "T1_DIRECT"
        /\ history' = [history EXCEPT ![l] =
             Append(@, [point |-> point, from |-> q.from, to |-> q.to, by |-> q.by])]
    BY <1>0, <1>3, ReadyFacts DEF CommitRoute, At, MoveLead, AddHop, RaisedPoints, Request
  <2>2. PICK h \in Hop : h = [point |-> point, from |-> q.from, to |-> q.to, by |-> q.by]
    BY <2>1 DEF Hop
  <2>3. /\ history'[l] = Append(history[l], h) /\ h.point = point /\ h.to = q.to
        /\ history[l] \in Seq(Hop)
    BY <1>0, <2>1, <2>2 DEF TypeOK
  <2>4. QueueHopTo(q.to)'
    <3>1. Len(history[l]) + 1 \in 1..Len(history'[l]) /\ history'[l][Len(history[l]) + 1] = h
      BY <2>3, AppendFacts
    <3> QED BY <2>1, <2>3, <3>1 DEF QueueHopTo
  <2>5. p.to = q.to /\ p.op = q.op
    BY <1>0, <1>3 DEF CommitRoute, Advance, TypeOK, Request
  <2> QED BY <2>1, <2>4, <2>5
<1>4. CASE CommitClose(t) \/ \E r \in RowIds : CommitRaise(t, r)
  <2>1. q.op \in ClosedStatuses \cup DOMAIN RaisingActions
    BY <1>4 DEF CommitClose, CommitRaise
  <2>2. p.op = q.op \/ p = Idle
    BY <1>0, <1>4 DEF CommitClose, CommitRaise, Advance, TypeOK, Request
  <2> QED BY <2>1, <2>2 DEF ClosedStatuses, RaisingActions, Idle
<1> HIDE DEF Done
<1> QED BY <1>1, <1>2, <1>3, <1>4, ReachesNotify

\* No step tells anybody of a routing that did not happen.
LEMMA TruthfulNoticesStep ==
  ASSUME Sound, ChainStep, [Next]_vars, AnnouncedIsDone, TruthfulNotices
  PROVE  TruthfulNotices'
<1> DEFINE True(u, n) == IF n.lead = NoLead THEN QueueHopTo(u) ELSE DirectHop(n.lead)
<1>0. \A u \in Users, n \in Notice : n \in inbox[u] /\ n.type = "LEAD_ROUTED" => True(u, n)
  BY DEF TruthfulNotices, QueueHopTo, DirectHop
<1> SUFFICES ASSUME NEW u \in Users, NEW n \in Notice, n \in inbox'[u], n.type = "LEAD_ROUTED"
             PROVE  True(u, n)'
  BY DEF TruthfulNotices, QueueHopTo, DirectHop
<1>1. True(u, n) => True(u, n)'
  <2>1. n.lead \in Leads \cup {NoLead}
    BY DEF Notice
  <2> QED BY <2>1, HopsStay
<1>2. CASE n \in inbox[u]
  BY <1>0, <1>1, <1>2
<1>3. ASSUME NEW s \in Requests, Notify(s), n \in Notices(req[s])[u]
      PROVE  True(u, n)
  <2>1. /\ req[s].pc = "notify" /\ req[s] \in Request
        /\ req[s].op \notin {"CREATE", "REOPEN"}
        /\ req[s].op = "DIRECT" => req[s].lead \in Leads
    BY <1>3 DEF Notify, Sound, TypeOK, RequestsOK, RequestOK, OneLeadOps, Endpoints
  <2>2. \A whom, type, l : n \in Deliver(whom, type, l)[u] =>
          u \in whom /\ n.type = type /\ n.lead = l
    BY DEF Deliver
  <2>3. CASE req[s].op = "DIRECT"
    <3>1. n.lead = req[s].lead
      BY <1>3, <2>2, <2>3 DEF Notices
    <3> QED BY <2>1, <2>3, <3>1, ConstantsAssumption DEF AnnouncedIsDone
  <2>4. CASE req[s].op = "ROUTE"
    <3>1. n.lead = NoLead /\ u = req[s].to
      BY <1>3, <2>2, <2>4 DEF Notices, ClosedStatuses
    <3> QED BY <2>1, <2>4, <3>1 DEF AnnouncedIsDone
  <2>5. CASE req[s].op \in {"CLOSED_WON", "CLOSED_LOST", "REQUEST", "SEND_BACK"}
    <3>1. n.type # "LEAD_ROUTED"
      BY <1>3, <2>2, <2>5 DEF Notices, ClosedStatuses
    <3> QED BY <3>1
  <2> QED BY <2>1, <2>3, <2>4, <2>5 DEF Request, Endpoints
<1>4. inbox' = inbox \/ \E s \in Requests : Notify(s) /\ inbox'[u] = inbox[u] \cup Notices(req[s])[u]
  <2>1. ASSUME NEW s \in Requests, Read(s) \/ Commit(s) \/ Abandon(s)
        PROVE  inbox' = inbox
    BY <2>1 DEF Read, ReadLead, ReadCreator, ReadDirectTarget, ReadRouteTarget, ReadQueueRow,
       CheckRoute, Commit, CommitCreate, CommitDirect, CommitClose, CommitRaise, CommitRoute, Abandon
  <2>2. ASSUME NEW s \in Requests, Notify(s)
        PROVE  inbox'[u] = inbox[u] \cup Notices(req[s])[u]
    BY <2>2 DEF Notify
  <2>3. ASSUME NEW s \in Requests, NEW v \in Users, NEW op \in Ops, Admit(s, v, op)
        PROVE  inbox' = inbox
    BY <2>3 DEF Admit
  <2>4. ASSUME NEW boss \in Users, NEW e \in UserEdits, UpdateUser(boss, e)
        PROVE  inbox' = inbox
    BY <2>4 DEF UpdateUser
  <2>5. UNCHANGED vars => inbox' = inbox
    BY DEF vars
  <2> QED BY <2>1, <2>2, <2>3, <2>4, <2>5 DEF Next
<1> HIDE DEF True
<1> QED BY <1>1, <1>2, <1>3, <1>4

\* TruthfulNotices: nobody is told of a transfer that is not in the history.
THEOREM TruthfulNoticesAlways == Spec => []TruthfulNotices
<1>1. Init => NoticesOK
  BY DEF Init, NoticesOK, RaisedPoints, AnnouncedIsDone, TruthfulNotices, NoQueueRow, Idle
<1>2. Sound /\ NoticesOK /\ [Next]_vars => NoticesOK'
  BY StepEffect, RaisedPointsStep, AnnouncedIsDoneStep, TruthfulNoticesStep DEF NoticesOK
<1>3. NoticesOK => TruthfulNotices
  BY DEF NoticesOK
<1> QED BY <1>1, <1>2, <1>3, SoundAlways, PTL DEF Spec

-----------------------------------------------------------------------------
(* While accounts keep their office                                        *)

\* The administrator's edits change roles and activity, never an office.
KeepsOffices == \A e \in UserEdits : e.account.office = Accounts[e.user].office

AtHome == \A u \in Users : user[u].office = Accounts[u].office

\* What a handler that is ready to commit has checked about offices.
OfficesChecked(q) ==
  q.pc = "ready" =>
    /\ q.op = "CREATE" => q.office = user[q.by].office
    /\ q.op = "DIRECT" => SameOffice(lead[q.lead].office, user[q.to].office)
    /\ q.op = "ROUTE" =>
         LET o == lead[queue[q.row].lead].office IN
         SameOffice(user[q.by].office, o) /\ SameOffice(o, user[q.to].office)

\* The inductive invariant behind OfficeWise.
OfficesHeld ==
  /\ Sound /\ AtHome /\ OfficeWise
  /\ \A s \in Requests : OfficesChecked(req[s])

(* While requests run one after another                                    *)

OneRequest == \E s : Requests = {s}

\* What the request under way has read is still so.
HolderKnown(q) ==
  q.pc \in {"checked", "ready"} =>
    /\ q.op = "DIRECT" => lead[q.lead].assignedTo = q.by
    /\ q.op = "ROUTE" => Pending(q.row) /\ q.from = HolderOf(q.row)

RoutedRows(l) == {r \in RowIds : queue[r].status = "ROUTED" /\ queue[r].lead = l}
QueueHops(l) == {i \in 1..Len(history[l]) : history[l][i].point # "T1_DIRECT"}

\* The inductive invariant behind HopChain and OneHopPerRow.
Chained ==
  /\ Sound /\ AssigneeIsLastHop /\ RaisedPoints /\ HopChain /\ OneHopPerRow
  /\ \A l \in Leads : IsFiniteSet(RoutedRows(l))
  /\ \A s \in Requests : HolderKnown(req[s])

-----------------------------------------------------------------------------
(* What the steps write, by handler                                        *)

\* Lead l changes hands and takes hop h; nothing else about it or the others changes.
HandedOn(l, h) ==
  /\ Elsewhere(l) /\ Exists(l)
  /\ history'[l] = Append(history[l], h)
  /\ lead'[l].assignedTo = h.to
  /\ lead'[l].createdBy = lead[l].createdBy /\ lead'[l].office = lead[l].office

\* A move writes exactly the hop it was asked for.
LEMMA MoveWrites ==
  ASSUME TypeOK, NEW l \in Leads, Exists(l), NEW point \in Points, NEW q \in Request,
         NEW from \in Users \cup {NoUser}, q.to \in Users, q.by \in Users,
         MoveLead(l, point, q, from)
  PROVE  \E h \in Hop : /\ HandedOn(l, h)
                        /\ h.point = point /\ h.from = from /\ h.to = q.to /\ h.by = q.by
<1>1. PICK h : h = [point |-> point, from |-> from, to |-> q.to, by |-> q.by]
  OBVIOUS
<1>2. h \in Hop /\ h.point = point /\ h.from = from /\ h.to = q.to /\ h.by = q.by
  BY <1>1 DEF Hop
<1>3. lead[l] \in LeadRow /\ lead'[l] = Moved(l, q) /\ \A m \in Leads : m # l => lead'[m] = lead[m]
  BY DEF MoveLead, TypeOK
<1>4. /\ lead'[l].assignedTo = q.to /\ lead'[l].createdBy = lead[l].createdBy
      /\ lead'[l].office = lead[l].office
  BY <1>3 DEF Moved, LeadRow
<1>5. history'[l] = Append(history[l], h) /\ \A m \in Leads : m # l => history'[m] = history[m]
  BY <1>1 DEF MoveLead, AddHop, TypeOK
<1>6. \A m \in Leads : m # l => audit'[m] = audit[m]
  BY DEF MoveLead, Record, TypeOK
<1> QED BY <1>2, <1>3, <1>4, <1>5, <1>6 DEF Elsewhere, HandedOn

DirectHopTaken(s) ==
  /\ At(s, "DIRECT", "ready") /\ req[s].lead \in Leads
  /\ queue' = queue
  /\ \E h \in Hop : /\ HandedOn(req[s].lead, h) /\ h.point = "T1_DIRECT"
                    /\ h.from = req[s].by /\ h.to = req[s].to /\ h.by = req[s].by
RouteHopTaken(s) ==
  /\ At(s, "ROUTE", "ready") /\ req[s].row \in RowIds
  /\ queue[req[s].row].status # "UNUSED" /\ queue[req[s].row].lead \in Leads
  /\ queue'[req[s].row].status = "ROUTED"
  /\ queue'[req[s].row].lead = queue[req[s].row].lead
  /\ \A t \in RowIds : t # req[s].row => queue'[t] = queue[t]
  /\ \E h \in Hop : /\ HandedOn(queue[req[s].row].lead, h) /\ h.point = queue[req[s].row].point
                    /\ h.from = req[s].from /\ h.to = req[s].to /\ h.by = req[s].by

\* Closing and parking keep the holder, the office and the history of every lead.
HoldersStay ==
  /\ history' = history
  /\ \A l \in Leads : /\ Exists(l)' <=> Exists(l)
                      /\ lead'[l].assignedTo = lead[l].assignedTo
                      /\ lead'[l].createdBy = lead[l].createdBy
                      /\ lead'[l].office = lead[l].office

\* A new lead belongs to the request's caller and to the office read from the caller.
LeadOpened(s, l) ==
  /\ At(s, "CREATE", "ready") /\ ~Exists(l) /\ history[l] = << >>
  /\ lead'[l].assignedTo = req[s].by /\ lead'[l].createdBy = req[s].by
  /\ lead'[l].office = req[s].office
  /\ history' = history /\ queue' = queue
  /\ \A m \in Leads : m # l => lead'[m] = lead[m]

\* The row of a parked lead was free and now waits.
RowRaised ==
  \E r \in RowIds : /\ queue[r].status = "UNUSED" /\ queue'[r].status = "PENDING"
                    /\ \A t \in RowIds : t # r => queue'[t] = queue[t]

\* What a transaction writes, by handler.
LEMMA CommitWrites ==
  ASSUME Sound, NEW s \in Requests, Commit(s)
  PROVE  \/ \E l \in Leads : LeadOpened(s, l)
         \/ HoldersStay /\ (queue' = queue \/ RowRaised)
         \/ DirectHopTaken(s)
         \/ RouteHopTaken(s)
<1> DEFINE q == req[s]
<1>0. TypeOK /\ q \in Request
  BY DEF Sound, TypeOK
<1>1. ASSUME NEW l \in Leads, CommitCreate(s, l)
      PROVE  LeadOpened(s, l)
  <2>1. history[l] = << >>
    BY <1>1 DEF CommitCreate, Sound, LeadsOK
  <2> QED BY <1>0, <1>1, <2>1 DEF CommitCreate, LeadOpened, TypeOK
<1>2. CASE CommitDirect(s)
  <2>1. /\ q.lead \in Leads /\ Exists(q.lead) /\ q.to \in Users /\ q.by \in Users
        /\ "T1_DIRECT" \in Points
    BY <1>2, ReadyFacts DEF CommitDirect, At, Points
  <2>2. \E h \in Hop : /\ HandedOn(q.lead, h) /\ h.point = "T1_DIRECT"
                       /\ h.from = q.by /\ h.to = q.to /\ h.by = q.by
    BY <1>0, <1>2, <2>1, MoveWrites DEF CommitDirect
  <2>3. DirectHopTaken(s)
    BY <1>2, <2>1, <2>2 DEF CommitDirect, DirectHopTaken
  <2> QED BY <2>3
<1>3. CASE CommitClose(s)
  <2>1. q.lead \in Leads /\ Exists(q.lead) /\ q.op \in ClosedStatuses
    BY <1>3, ReadyFacts DEF CommitClose, OneLeadOps, Endpoints, ClosedStatuses
  <2>2. lead' = [lead EXCEPT ![q.lead].status = q.op] /\ lead \in [Leads -> LeadRow]
    BY <1>0, <1>3 DEF CommitClose, TypeOK
  <2>3. HoldersStay
    BY <1>3, <2>1, <2>2 DEF CommitClose, HoldersStay, Exists, ClosedStatuses, LeadRow
  <2> QED BY <1>3, <2>3 DEF CommitClose
<1>4. ASSUME NEW r \in RowIds, CommitRaise(s, r)
      PROVE  HoldersStay /\ RowRaised
  <2>1. q.lead \in Leads /\ Exists(q.lead)
    BY <1>4, ReadyFacts DEF CommitRaise, RaisingActions, OneLeadOps, Endpoints
  <2>2. lead' = [lead EXCEPT ![q.lead] = Parked(q.lead)] /\ lead \in [Leads -> LeadRow]
    BY <1>0, <1>4 DEF CommitRaise, TypeOK
  <2>3. HoldersStay
    BY <1>4, <2>1, <2>2 DEF CommitRaise, HoldersStay, Exists, Parked, LeadRow
  <2>4. RowRaised
    BY <1>0, <1>4 DEF CommitRaise, RowRaised, TypeOK, NoQueueRow
  <2> QED BY <2>3, <2>4
<1>5. CASE CommitRoute(s)
  <2> DEFINE row == queue[q.row]
  <2>1. /\ row.lead \in Leads /\ Exists(row.lead) /\ row.point \in Points /\ q.row \in RowIds
        /\ row.status # "UNUSED" /\ q.to \in Users /\ q.by \in Users
        /\ q.from \in Users \cup {NoUser}
    BY <1>0, <1>5, ReadyFacts DEF CommitRoute, At, Request
  <2>2. \E h \in Hop : /\ HandedOn(row.lead, h) /\ h.point = row.point
                       /\ h.from = q.from /\ h.to = q.to /\ h.by = q.by
    BY <1>0, <1>5, <2>1, MoveWrites DEF CommitRoute
  <2>3. row \in QueueRow
    BY <1>0, <2>1 DEF TypeOK
  <2>4. /\ queue'[q.row].status = "ROUTED" /\ queue'[q.row].lead = row.lead
        /\ \A t \in RowIds : t # q.row => queue'[t] = queue[t]
    BY <1>0, <1>5, <2>1, <2>3 DEF CommitRoute, SettleRow, TypeOK, QueueRow
  <2>5. RouteHopTaken(s)
    BY <1>5, <2>1, <2>2, <2>4 DEF CommitRoute, RouteHopTaken
  <2> QED BY <2>5
<1> QED BY <1>1, <1>2, <1>3, <1>4, <1>5 DEF Commit

\* A lead that exists keeps its office, whatever step is taken.
LEMMA OfficesStay ==
  ASSUME Sound, [Next]_vars, NEW l \in Leads, Exists(l)
  PROVE  lead'[l].office = lead[l].office
<1>1. UNCHANGED chain => lead' = lead
  BY DEF chain
<1>2. ASSUME NEW s \in Requests, Commit(s)
      PROVE  lead'[l].office = lead[l].office
  <2>1. CASE \E m \in Leads : LeadOpened(s, m)
    BY <2>1 DEF LeadOpened
  <2>2. CASE HoldersStay
    BY <2>2 DEF HoldersStay
  <2>3. CASE DirectHopTaken(s)
    BY <2>3 DEF DirectHopTaken, HandedOn, Elsewhere
  <2>4. CASE RouteHopTaken(s)
    BY <2>4 DEF RouteHopTaken, HandedOn, Elsewhere
  <2> QED BY <1>2, <2>1, <2>2, <2>3, <2>4, CommitWrites
<1> QED BY <1>1, <1>2, OnlyCommitsWrite

\* Only the handler itself changes its request.
LEMMA OwnStep ==
  ASSUME Sound, [Next]_vars, NEW t \in Requests, req'[t] # req[t]
  PROVE  \/ \E u \in Users, op \in Ops : Admit(t, u, op)
         \/ Read(t) \/ Commit(t) \/ Notify(t) \/ Abandon(t)
<1>0. req \in [Requests -> Request]
  BY DEF Sound, TypeOK
<1>1. ASSUME NEW s \in Requests, NEW q, Advance(s, q)
      PROVE  s = t
  BY <1>0, <1>1 DEF Advance
<1>2. ASSUME NEW s \in Requests, NEW u \in Users, NEW op \in Ops, Admit(s, u, op)
      PROVE  s = t
  BY <1>1, <1>2 DEF Admit
<1>3. ASSUME NEW s \in Requests, Read(s)
      PROVE  s = t
  BY <1>0, <1>3 DEF Read, ReadLead, ReadCreator, ReadDirectTarget, ReadRouteTarget, ReadQueueRow,
     CheckRoute, Advance
<1>4. ASSUME NEW s \in Requests, Commit(s)
      PROVE  s = t
  BY <1>0, <1>4 DEF Commit, CommitCreate, CommitDirect, CommitClose, CommitRaise, CommitRoute,
     Advance
<1>5. ASSUME NEW s \in Requests, Notify(s) \/ Abandon(s)
      PROVE  s = t
  BY <1>0, <1>5 DEF Notify, Abandon, Advance
<1>6. ASSUME NEW boss \in Users, NEW e \in UserEdits, UpdateUser(boss, e)
      PROVE  FALSE
  BY <1>6 DEF UpdateUser
<1>7. CASE UNCHANGED vars
  BY <1>7 DEF vars
<1> QED BY <1>2, <1>3, <1>4, <1>5, <1>6, <1>7 DEF Next

\* A handler becomes ready by its own read, or was.
LEMMA BecomesReady ==
  ASSUME Sound, [Next]_vars, NEW t \in Requests, req'[t] # req[t], req'[t].pc = "ready"
  PROVE  ReadLead(t) \/ ReadCreator(t) \/ ReadDirectTarget(t) \/ CheckRoute(t)
<1>0. req \in [Requests -> Request] /\ req[t] \in Request
  BY DEF Sound, TypeOK
<1>1. \A x : Advance(t, x) => req'[t] = x
  BY <1>0 DEF Advance
<1>2. ASSUME NEW u \in Users, NEW op \in Ops, Admit(t, u, op)
      PROVE  FALSE
  <2>1. PICK a \in Arguments(op) :
          Advance(t, [Idle EXCEPT !.pc = "admitted", !.op = op, !.by = u,
                        !.scope = Matrix[PermissionOf[op]][user[u].role],
                        !.lead = a.lead, !.to = a.to, !.rows = a.rows])
    BY <1>2 DEF Admit
  <2>2. req'[t] = [Idle EXCEPT !.pc = "admitted", !.op = op, !.by = u,
                     !.scope = Matrix[PermissionOf[op]][user[u].role],
                     !.lead = a.lead, !.to = a.to, !.rows = a.rows]
    BY <1>1, <2>1
  <2>3. req'[t].pc = "admitted"
    BY <2>2 DEF Idle
  <2> QED BY <2>3
<1>3. ASSUME Notify(t) \/ Abandon(t)
      PROVE  FALSE
  <2>1. req'[t] = Idle
    BY <1>1, <1>3 DEF Notify, Abandon
  <2> QED BY <2>1 DEF Idle
<1>4. ASSUME Commit(t)
      PROVE  FALSE
  <2>1. req'[t] # Idle
    BY DEF Idle
  <2>2. req'[t] # [req[t] EXCEPT !.pc = "notify"]
    BY <1>0 DEF Request
  <2>3. ASSUME CommitRoute(t)
        PROVE  FALSE
    <3> PICK q, left : q = req[t] /\ left = q.rows \ {q.row}
      OBVIOUS
    <3>1. req'[t] = [q EXCEPT !.pc = IF left = {} THEN "notify" ELSE "targeted",
                              !.rows = left, !.row = NoRow, !.from = NoUser]
      BY <1>1, <2>3 DEF CommitRoute
    <3>2. req'[t].pc = IF left = {} THEN "notify" ELSE "targeted"
      BY <1>0, <3>1 DEF Request
    <3> QED BY <3>2
  <2> QED BY <1>1, <1>4, <2>1, <2>2, <2>3 DEF Commit, CommitCreate, CommitDirect, CommitClose,
            CommitRaise
<1>5. ~ReadRouteTarget(t) /\ \A r \in RowIds : ~ReadQueueRow(t, r)
  BY <1>0 DEF ReadRouteTarget, ReadQueueRow, Advance, Request
<1> QED BY <1>2, <1>3, <1>4, <1>5, OwnStep DEF Read

-----------------------------------------------------------------------------
(* Office-wise                                                             *)

\* Accounts keep their offices under such edits.
LEMMA AtHomeStep ==
  ASSUME Sound, KeepsOffices, AtHome, [Next]_vars
  PROVE  AtHome' /\ \A u \in Users : user'[u].office = user[u].office
<1>0. user \in [Users -> Account]
  BY DEF Sound, TypeOK
<1>1. UNCHANGED user => AtHome' /\ \A u \in Users : user'[u].office = user[u].office
  BY DEF AtHome
<1>2. ASSUME NEW s \in Requests, NEW u \in Users, NEW op \in Ops, Admit(s, u, op)
      PROVE  UNCHANGED user
  BY <1>2 DEF Admit
<1>3. ASSUME NEW s \in Requests, Read(s) \/ Commit(s) \/ Notify(s) \/ Abandon(s)
      PROVE  UNCHANGED user
  BY <1>3 DEF Read, ReadLead, ReadCreator, ReadDirectTarget, ReadRouteTarget, ReadQueueRow,
     CheckRoute, Commit, CommitCreate, CommitDirect, CommitClose, CommitRaise, CommitRoute,
     Notify, Abandon
<1>4. ASSUME NEW boss \in Users, NEW e \in UserEdits, UpdateUser(boss, e)
      PROVE  AtHome' /\ \A u \in Users : user'[u].office = user[u].office
  <2>1. e.user \in Users /\ e.account.office = Accounts[e.user].office
    BY ConstantsAssumption DEF KeepsOffices
  <2> QED BY <1>0, <1>4, <2>1 DEF UpdateUser, AtHome
<1>5. UNCHANGED vars => UNCHANGED user
  BY DEF vars
<1> QED BY <1>1, <1>2, <1>3, <1>4, <1>5 DEF Next

\* What a ready handler has checked about offices cannot go stale while accounts keep theirs.
LEMMA OfficesCheckedStep ==
  ASSUME OfficesHeld, KeepsOffices, [Next]_vars, NEW t \in Requests
  PROVE  OfficesChecked(req[t])'
<1> PICK q, p : q = req[t] /\ p = req'[t]
  OBVIOUS
<1>0. Sound /\ TypeOK /\ q \in Request /\ OfficesChecked(q) /\ TablesGrow
  BY StepGrows DEF OfficesHeld, Sound, TypeOK
<1>1. \A u \in Users : user'[u].office = user[u].office
  BY <1>0, AtHomeStep DEF OfficesHeld
<1>2. \A l \in Leads : Exists(l) => lead'[l].office = lead[l].office
  BY <1>0, OfficesStay
<1> SUFFICES ASSUME p.pc = "ready"
             PROVE  /\ p.op = "CREATE" => p.office = user'[p.by].office
                    /\ p.op = "DIRECT" => SameOffice(lead'[p.lead].office, user'[p.to].office)
                    /\ p.op = "ROUTE" =>
                         /\ SameOffice(user'[p.by].office, lead'[queue'[p.row].lead].office)
                         /\ SameOffice(lead'[queue'[p.row].lead].office, user'[p.to].office)
  BY DEF OfficesChecked, SameOffice
<1>3. CASE p = q
  <2>1. /\ p.by \in Users
        /\ p.op = "DIRECT" => p.to \in Users /\ p.lead \in Leads /\ Exists(p.lead)
        /\ p.op = "ROUTE" => /\ p.to \in Users /\ p.row \in RowIds
                             /\ queue[p.row].status # "UNUSED"
                             /\ queue[p.row].lead \in Leads /\ Exists(queue[p.row].lead)
    BY <1>0, <1>3, ReadyFacts
  <2>2. p.op = "ROUTE" => queue'[p.row].lead = queue[p.row].lead
    BY <1>0, <2>1 DEF TablesGrow
  <2> QED BY <1>0, <1>1, <1>2, <1>3, <2>1, <2>2 DEF OfficesChecked
<1>4. CASE p # q
  <2>0. RequestOK(q)
    BY <1>0 DEF Sound, RequestsOK
  <2>1. ReadLead(t) \/ ReadCreator(t) \/ ReadDirectTarget(t) \/ CheckRoute(t)
    BY <1>0, <1>4, BecomesReady
  <2>2. UNCHANGED <<user, chain>>
    BY <2>1 DEF ReadLead, ReadCreator, ReadDirectTarget, CheckRoute
  <2>3. \A x : Advance(t, x) => p = x
    BY <1>0 DEF Advance, TypeOK
  <2>4. CASE ReadLead(t)
    <3>1. p.op = q.op /\ q.op \notin {"CREATE", "ROUTE"} /\ q.op # "DIRECT"
      BY <1>0, <2>3, <2>4 DEF ReadLead, Request, MayTransfer, MayRequest, MayClose, MaySendBack,
         MayReopen, ClosedStatuses
    <3> QED BY <3>1
  <2>5. CASE ReadCreator(t)
    <3>1. p.op = "CREATE" /\ p.by = q.by /\ p.office = user[q.by].office
      BY <1>0, <2>3, <2>5 DEF ReadCreator, At, Request
    <3> QED BY <2>2, <3>1
  <2>6. CASE ReadDirectTarget(t)
    <3>1. p.op = "DIRECT" /\ p.lead = q.lead /\ p.to = q.to
      BY <1>0, <2>3, <2>6 DEF ReadDirectTarget, At, Request
    <3>2. SameOffice(lead[q.lead].office, user[q.to].office)
      BY <2>6 DEF ReadDirectTarget
    <3> QED BY <2>2, <3>1, <3>2 DEF chain
  <2>7. CASE CheckRoute(t)
    <3>1. p.op = "ROUTE" /\ p.by = q.by /\ p.to = q.to /\ p.row = q.row
      BY <1>0, <2>3, <2>7 DEF CheckRoute, At, Request
    <3>2. /\ SameOffice(user[q.by].office, lead[queue[q.row].lead].office)
          /\ SameOffice(lead[queue[q.row].lead].office, user[q.to].office)
      BY <2>7 DEF CheckRoute, OwnBucket
    <3> QED BY <2>2, <3>1, <3>2 DEF chain
  <2> QED BY <2>1, <2>4, <2>5, <2>6, <2>7
<1> QED BY <1>3, <1>4

\* No step takes a lead out of its office.
LEMMA OfficeWiseStep ==
  ASSUME OfficesHeld, KeepsOffices, [Next]_vars, Sound'
  PROVE  OfficeWise'
<1>0. Sound /\ TypeOK /\ LeadsOK /\ OfficeWise
  BY DEF OfficesHeld, Sound
<1>1. \A u \in Users : user'[u].office = user[u].office
  BY <1>0, AtHomeStep DEF OfficesHeld
<1>2. \A o : SameOffice(o, o) /\ \A o2 : SameOffice(o, o2) => SameOffice(o2, o)
  BY DEF SameOffice
<1> SUFFICES ASSUME NEW l \in Leads, lead'[l].status # "ABSENT"
             PROVE  /\ SameOffice(lead'[l].office, user'[lead'[l].assignedTo].office)
                    /\ \A i \in 1..Len(history'[l]) : history'[l][i].point # "T1_DIRECT" =>
                         SameOffice(lead'[l].office, user'[history'[l][i].by].office)
  BY DEF OfficeWise, Exists, SameOffice
<1> DEFINE Goal == /\ SameOffice(lead'[l].office, user'[lead'[l].assignedTo].office)
                   /\ \A i \in 1..Len(history'[l]) : history'[l][i].point # "T1_DIRECT" =>
                        SameOffice(lead'[l].office, user'[history'[l][i].by].office)
<1>3. history[l] \in Seq(Hop) /\ \A h \in Hop : h.by \in Users /\ h.to \in Users
  BY <1>0 DEF TypeOK, Hop
<1>4. ASSUME Exists(l)
      PROVE  /\ lead[l].assignedTo \in Users
             /\ SameOffice(lead[l].office, user'[lead[l].assignedTo].office)
             /\ \A i \in 1..Len(history[l]) : history[l][i].point # "T1_DIRECT" =>
                  SameOffice(lead[l].office, user'[history[l][i].by].office)
  <2>1. lead[l].assignedTo \in Users
    BY <1>0, <1>4 DEF LeadsOK
  <2>2. \A i \in 1..Len(history[l]) : history[l][i].by \in Users
    BY <1>3
  <2> QED BY <1>0, <1>1, <1>4, <2>1, <2>2 DEF OfficeWise
<1>5. ASSUME /\ lead'[l].assignedTo = lead[l].assignedTo /\ lead'[l].office = lead[l].office
             /\ history'[l] = history[l] /\ Exists(l)
      PROVE  Goal
  BY <1>4, <1>5
<1>6. ASSUME NEW h \in Hop, HandedOn(l, h),
             SameOffice(lead[l].office, user[h.to].office),
             h.point # "T1_DIRECT" => SameOffice(lead[l].office, user[h.by].office)
      PROVE  Goal
  <2>1. /\ lead'[l].assignedTo = h.to /\ lead'[l].office = lead[l].office /\ Exists(l)
        /\ history'[l] = Append(history[l], h)
    BY <1>6 DEF HandedOn
  <2>2. SameOffice(lead'[l].office, user'[lead'[l].assignedTo].office)
    BY <1>1, <1>3, <1>6, <2>1
  <2>3. ASSUME NEW i \in 1..Len(history'[l]), history'[l][i].point # "T1_DIRECT"
        PROVE  SameOffice(lead'[l].office, user'[history'[l][i].by].office)
    <3>1. CASE i \in 1..Len(history[l])
      BY <1>3, <1>4, <2>1, <2>3, <3>1, AppendFacts
    <3>2. CASE i \notin 1..Len(history[l])
      <4>1. i = Len(history[l]) + 1 /\ history'[l][i] = h
        BY <1>3, <2>1, <3>2, AppendFacts
      <4> QED BY <1>1, <1>3, <1>6, <2>1, <2>3, <4>1
    <3> QED BY <3>1, <3>2
  <2> QED BY <2>2, <2>3
<1>7. ASSUME UNCHANGED chain
      PROVE  Goal
  BY <1>5, <1>7 DEF chain, Exists
<1>8. ASSUME NEW s \in Requests, Commit(s)
      PROVE  Goal
  <2> PICK q : q = req[s]
    OBVIOUS
  <2>0. OfficesChecked(q)
    BY DEF OfficesHeld
  <2>1. ASSUME NEW m \in Leads, LeadOpened(s, m)
        PROVE  Goal
    <3>1. CASE m = l
      <4>1. q.by \in Users /\ q.office = user[q.by].office
        BY <1>0, <2>0, <2>1, ReadyFacts DEF LeadOpened, At, OfficesChecked
      <4>2. /\ lead'[l].assignedTo = q.by /\ lead'[l].office = q.office
            /\ history'[l] = << >>
        BY <2>1, <3>1 DEF LeadOpened
      <4> QED BY <1>1, <1>2, <4>1, <4>2
    <3>2. CASE m # l
      BY <1>5, <2>1, <3>2 DEF LeadOpened, Exists
    <3> QED BY <3>1, <3>2
  <2>2. ASSUME HoldersStay
        PROVE  Goal
    BY <1>5, <2>2 DEF HoldersStay, Exists
  <2>3. ASSUME DirectHopTaken(s)
        PROVE  Goal
    <3>1. CASE q.lead = l
      <4>1. SameOffice(lead[l].office, user[q.to].office)
        BY <2>0, <2>3, <3>1 DEF DirectHopTaken, At, OfficesChecked
      <4>2. \E h \in Hop : HandedOn(l, h) /\ h.point = "T1_DIRECT" /\ h.to = q.to
        BY <2>3, <3>1 DEF DirectHopTaken
      <4> QED BY <1>6, <4>1, <4>2
    <3>2. CASE q.lead # l
      BY <1>5, <2>3, <3>2 DEF DirectHopTaken, HandedOn, Elsewhere, Exists
    <3> QED BY <3>1, <3>2
  <2>4. ASSUME RouteHopTaken(s)
        PROVE  Goal
    <3>1. CASE queue[q.row].lead = l
      <4>1. /\ SameOffice(user[q.by].office, lead[l].office)
            /\ SameOffice(lead[l].office, user[q.to].office)
        BY <2>0, <2>4, <3>1 DEF RouteHopTaken, At, OfficesChecked
      <4>2. \E h \in Hop : HandedOn(l, h) /\ h.to = q.to /\ h.by = q.by
        BY <2>4, <3>1 DEF RouteHopTaken
      <4> QED BY <1>2, <1>6, <4>1, <4>2
    <3>2. CASE queue[q.row].lead # l
      BY <1>5, <2>4, <3>2 DEF RouteHopTaken, HandedOn, Elsewhere, Exists
    <3> QED BY <3>1, <3>2
  <2> HIDE DEF Goal
  <2> QED BY <1>0, <1>8, <2>1, <2>2, <2>3, <2>4, CommitWrites
<1> QED BY <1>7, <1>8, OnlyCommitsWrite

\* OfficeWise: as long as no account moves to another office, every lead stays with
\* people of its office (or of none), and every router that moved it was of it too,
\* under every interleaving of any number of handlers.
THEOREM OfficeWiseAlways ==
  ASSUME KeepsOffices
  PROVE  Spec => []OfficeWise
<1>1. Init => OfficesHeld
  BY InitSound DEF Init, OfficesHeld, AtHome, OfficeWise, Exists, NoLeadRow, OfficesChecked, Idle
<1>2. OfficesHeld /\ [Next]_vars => OfficesHeld'
  <2> SUFFICES ASSUME OfficesHeld, [Next]_vars PROVE OfficesHeld'
    OBVIOUS
  <2>1. Sound' /\ AtHome'
    BY KeepsOffices, SoundStep, AtHomeStep DEF OfficesHeld
  <2>2. OfficeWise'
    BY KeepsOffices, <2>1, OfficeWiseStep
  <2>3. ASSUME NEW t \in Requests
        PROVE  OfficesChecked(req[t])'
    BY KeepsOffices, OfficesCheckedStep
  <2> QED BY <2>1, <2>2, <2>3 DEF OfficesHeld
<1>3. OfficesHeld => OfficeWise
  BY DEF OfficesHeld
<1> QED BY <1>1, <1>2, <1>3, PTL DEF Spec

-----------------------------------------------------------------------------
(* One request after another                                               *)

\* Nobody else writes between what the request under way read and its commit.
LEMMA HolderKnownStep ==
  ASSUME Chained, OneRequest, [Next]_vars, NEW t \in Requests
  PROVE  HolderKnown(req[t])'
<1> PICK q, p : q = req[t] /\ p = req'[t]
  OBVIOUS
<1>0. Sound /\ TypeOK /\ q \in Request /\ HolderKnown(q)
  BY DEF Chained, Sound, TypeOK
<1> SUFFICES ASSUME p.pc \in {"checked", "ready"}
             PROVE  /\ p.op = "DIRECT" => lead'[p.lead].assignedTo = p.by
                    /\ p.op = "ROUTE" => /\ queue'[p.row].status = "PENDING"
                                         /\ p.from = lead'[queue'[p.row].lead].assignedTo
  BY DEF HolderKnown, Pending, HolderOf
<1>1. \A x : Advance(t, x) => p = x
  BY <1>0 DEF Advance, TypeOK
<1>2. ASSUME Commit(t)
      PROVE  FALSE
  <2>1. p # Idle
    BY DEF Idle
  <2>2. p # [q EXCEPT !.pc = "notify"]
    BY <1>0 DEF Request
  <2>3. ASSUME CommitRoute(t)
        PROVE  FALSE
    <3> PICK left : left = q.rows \ {q.row}
      OBVIOUS
    <3>1. p = [q EXCEPT !.pc = IF left = {} THEN "notify" ELSE "targeted",
                        !.rows = left, !.row = NoRow, !.from = NoUser]
      BY <1>1, <2>3 DEF CommitRoute
    <3>2. p.pc = IF left = {} THEN "notify" ELSE "targeted"
      BY <1>0, <3>1 DEF Request
    <3> QED BY <3>2
  <2> QED BY <1>1, <1>2, <2>1, <2>2, <2>3 DEF Commit, CommitCreate, CommitDirect, CommitClose,
            CommitRaise
<1>3. UNCHANGED chain
  <2>1. ASSUME NEW s \in Requests, Commit(s)
        PROVE  FALSE
    <3>1. s = t
      BY DEF OneRequest
    <3> QED BY <1>2, <2>1, <3>1
  <2> QED BY <2>1, OnlyCommitsWrite
<1>4. CASE p = q
  BY <1>0, <1>3, <1>4 DEF HolderKnown, Pending, HolderOf, chain
<1>5. CASE Read(t)
  <2>1. CASE ReadLead(t)
    <3>1. p.op = q.op /\ p.lead = q.lead /\ p.by = q.by
      BY <1>0, <1>1, <2>1 DEF ReadLead, Request
    <3>2. q.op # "ROUTE" /\ (q.op = "DIRECT" => lead[q.lead].assignedTo = q.by)
      BY <2>1 DEF ReadLead, MayTransfer, MayRequest, MayClose, MaySendBack, MayReopen, ClosedStatuses
    <3> QED BY <1>3, <3>1, <3>2 DEF chain
  <2>2. CASE ReadCreator(t)
    <3>1. p.op = "CREATE"
      BY <1>0, <1>1, <2>2 DEF ReadCreator, At, Request
    <3> QED BY <3>1
  <2>3. CASE ReadDirectTarget(t)
    <3>1. p.op = "DIRECT" /\ p.lead = q.lead /\ p.by = q.by
      BY <1>0, <1>1, <2>3 DEF ReadDirectTarget, At, Request
    <3>2. lead[q.lead].assignedTo = q.by
      BY <1>0, <2>3 DEF ReadDirectTarget, At, HolderKnown
    <3> QED BY <1>3, <3>1, <3>2 DEF chain
  <2>4. CASE ReadRouteTarget(t)
    <3>1. p.pc = "targeted"
      BY <1>0, <1>1, <2>4 DEF ReadRouteTarget, At, Request
    <3> QED BY <3>1
  <2>5. ASSUME NEW r \in RowIds, ReadQueueRow(t, r)
        PROVE  /\ p.op = "ROUTE" /\ p.row = r /\ queue[r].status = "PENDING"
               /\ p.from = lead[queue[r].lead].assignedTo
    BY <1>0, <1>1, <2>5 DEF ReadQueueRow, At, Routable, Pending, HolderOf, Request
  <2>6. CASE CheckRoute(t)
    <3>1. p.op = "ROUTE" /\ p.row = q.row /\ p.from = q.from
      BY <1>0, <1>1, <2>6 DEF CheckRoute, At, Request
    <3>2. queue[q.row].status = "PENDING" /\ q.from = lead[queue[q.row].lead].assignedTo
      BY <1>0, <2>6 DEF CheckRoute, At, HolderKnown, Pending, HolderOf
    <3> QED BY <1>3, <3>1, <3>2 DEF chain
  <2>7. CASE \E r \in RowIds : ReadQueueRow(t, r)
    BY <1>3, <2>5, <2>7 DEF chain
  <2> QED BY <1>5, <2>1, <2>2, <2>3, <2>4, <2>6, <2>7 DEF Read
<1>6. ASSUME NEW u \in Users, NEW op \in Ops, Admit(t, u, op)
      PROVE  FALSE
  <2>1. PICK a \in Arguments(op) :
          Advance(t, [Idle EXCEPT !.pc = "admitted", !.op = op, !.by = u,
                        !.scope = Matrix[PermissionOf[op]][user[u].role],
                        !.lead = a.lead, !.to = a.to, !.rows = a.rows])
    BY <1>6 DEF Admit
  <2>2. p = [Idle EXCEPT !.pc = "admitted", !.op = op, !.by = u,
               !.scope = Matrix[PermissionOf[op]][user[u].role],
               !.lead = a.lead, !.to = a.to, !.rows = a.rows]
    BY <1>1, <2>1
  <2>3. p.pc = "admitted"
    BY <2>2 DEF Idle
  <2> QED BY <2>3
<1>7. ASSUME Notify(t) \/ Abandon(t)
      PROVE  FALSE
  <2>1. p = Idle
    BY <1>1, <1>7 DEF Notify, Abandon
  <2> QED BY <2>1 DEF Idle
<1> QED BY <1>0, <1>2, <1>4, <1>5, <1>6, <1>7, OwnStep

\* Every hop starts where the one before it ended.
LEMMA HopChainStep ==
  ASSUME Chained, [Next]_vars
  PROVE  HopChain'
<1>0. Sound /\ TypeOK /\ LeadsOK /\ HopChain /\ AssigneeIsLastHop
  BY DEF Chained, Sound
<1> SUFFICES ASSUME NEW l \in Leads, NEW i \in 1..Len(history'[l])
             PROVE  history'[l][i].from
                      = IF i = 1 THEN lead'[l].createdBy ELSE history'[l][i - 1].to
  BY DEF HopChain
<1> DEFINE Goal == history'[l][i].from
                     = IF i = 1 THEN lead'[l].createdBy ELSE history'[l][i - 1].to
<1>1. history[l] \in Seq(Hop)
  BY <1>0 DEF TypeOK
<1>2. ASSUME history'[l] = history[l], lead'[l].createdBy = lead[l].createdBy
      PROVE  Goal
  BY <1>0, <1>2 DEF HopChain
<1>3. ASSUME NEW h \in Hop, HandedOn(l, h), h.from = lead[l].assignedTo
      PROVE  Goal
  <2>1. /\ history'[l] = Append(history[l], h) /\ Exists(l)
        /\ lead'[l].createdBy = lead[l].createdBy
    BY <1>3 DEF HandedOn
  <2>2. CASE i \in 1..Len(history[l])
    <3>1. history'[l][i] = history[l][i]
      BY <1>1, <2>1, <2>2, AppendFacts
    <3>2. i # 1 => i - 1 \in 1..Len(history[l])
      BY <1>1, <2>2
    <3>3. i # 1 => history'[l][i - 1] = history[l][i - 1]
      BY <1>1, <2>1, <3>2, AppendFacts
    <3>4. history[l][i].from = IF i = 1 THEN lead[l].createdBy ELSE history[l][i - 1].to
      BY <1>0, <2>2 DEF HopChain
    <3> QED BY <2>1, <3>1, <3>3, <3>4
  <2>3. CASE i \notin 1..Len(history[l])
    <3>1. i = Len(history[l]) + 1 /\ history'[l][i] = h /\ Len(history[l]) \in Nat
      BY <1>1, <2>1, <2>3, AppendFacts
    <3>2. CASE history[l] = << >>
      <4>1. i = 1 /\ lead[l].assignedTo = lead[l].createdBy
        BY <1>0, <2>1, <3>1, <3>2 DEF AssigneeIsLastHop
      <4> QED BY <1>3, <2>1, <3>1, <4>1
    <3>3. CASE history[l] # << >>
      <4>1. i # 1 /\ i - 1 = Len(history[l]) /\ i - 1 \in 1..Len(history[l])
        BY <1>1, <3>1, <3>3
      <4>2. history'[l][i - 1] = LastOf(history[l])
        BY <1>1, <2>1, <4>1, AppendFacts DEF LastOf
      <4>3. lead[l].assignedTo = LastOf(history[l]).to
        BY <1>0, <2>1, <3>3 DEF AssigneeIsLastHop
      <4> QED BY <1>3, <3>1, <4>1, <4>2, <4>3
    <3> QED BY <3>2, <3>3
  <2> QED BY <2>2, <2>3
<1>4. UNCHANGED chain => Goal
  BY <1>2 DEF chain
<1>5. ASSUME NEW s \in Requests, Commit(s)
      PROVE  Goal
  <2>0. HolderKnown(req[s])
    BY DEF Chained
  <2>1. ASSUME NEW m \in Leads, LeadOpened(s, m)
        PROVE  Goal
    <3>1. CASE m = l
      BY <2>1, <3>1 DEF LeadOpened
    <3>2. CASE m # l
      BY <1>2, <2>1, <3>2 DEF LeadOpened
    <3> QED BY <3>1, <3>2
  <2>2. ASSUME HoldersStay
        PROVE  Goal
    BY <1>2, <2>2 DEF HoldersStay
  <2>3. ASSUME DirectHopTaken(s)
        PROVE  Goal
    <3>1. CASE req[s].lead = l
      BY <1>3, <2>0, <2>3, <3>1 DEF DirectHopTaken, At, HolderKnown
    <3>2. CASE req[s].lead # l
      BY <1>2, <2>3, <3>2 DEF DirectHopTaken, HandedOn, Elsewhere
    <3> QED BY <3>1, <3>2
  <2>4. ASSUME RouteHopTaken(s)
        PROVE  Goal
    <3>1. CASE queue[req[s].row].lead = l
      BY <1>3, <2>0, <2>4, <3>1 DEF RouteHopTaken, At, HolderKnown, HolderOf
    <3>2. CASE queue[req[s].row].lead # l
      BY <1>2, <2>4, <3>2 DEF RouteHopTaken, HandedOn, Elsewhere
    <3> QED BY <3>1, <3>2
  <2> HIDE DEF Goal
  <2> QED BY <1>0, <1>5, <2>1, <2>2, <2>3, <2>4, CommitWrites
<1> QED BY <1>4, <1>5, OnlyCommitsWrite

\* Appending a hop adds its index to the queue hops exactly when it came out of the queue.
LEMMA QueueHopsAfter ==
  ASSUME Sound, NEW l \in Leads, NEW h \in Hop, history'[l] = Append(history[l], h)
  PROVE  /\ IsFiniteSet(QueueHops(l)) /\ Cardinality(QueueHops(l)) \in Nat
         /\ h.point = "T1_DIRECT" => QueueHops(l)' = QueueHops(l)
         /\ h.point # "T1_DIRECT" =>
              Cardinality(QueueHops(l)') = Cardinality(QueueHops(l)) + 1
<1> DEFINE n == Len(history[l])
<1>1. history[l] \in Seq(Hop) /\ n \in Nat
  BY DEF Sound, TypeOK
<1>2. /\ Len(history'[l]) = n + 1 /\ history'[l][n + 1] = h
      /\ \A i \in 1..n : history'[l][i] = history[l][i]
  BY <1>1, AppendFacts
<1>3. IsFiniteSet(QueueHops(l)) /\ Cardinality(QueueHops(l)) \in Nat
  <2>1. IsFiniteSet(1..n)
    BY <1>1, FS_Interval
  <2>2. QueueHops(l) \in SUBSET (1..n)
    BY DEF QueueHops
  <2> QED BY <2>1, <2>2, FS_Subset, FS_CardinalityType
<1>4. QueueHops(l)' = QueueHops(l) \cup {i \in {n + 1} : h.point # "T1_DIRECT"}
  <2>1. 1..(n + 1) = (1..n) \cup {n + 1}
    BY <1>1
  <2> QED BY <1>1, <1>2, <2>1 DEF QueueHops
<1>5. h.point = "T1_DIRECT" => QueueHops(l)' = QueueHops(l)
  BY <1>4
<1>6. ASSUME h.point # "T1_DIRECT"
      PROVE  Cardinality(QueueHops(l)') = Cardinality(QueueHops(l)) + 1
  <2>1. QueueHops(l)' = QueueHops(l) \cup {n + 1} /\ n + 1 \notin QueueHops(l)
    BY <1>1, <1>4, <1>6 DEF QueueHops
  <2> QED BY <1>3, <2>1, FS_AddElement
<1> QED BY <1>3, <1>5, <1>6

\* Every step that routes a row takes one hop, and no other step routes one.
LEMMA OneHopPerRowStep ==
  ASSUME Chained, [Next]_vars, NEW l \in Leads
  PROVE  /\ IsFiniteSet(RoutedRows(l)')
         /\ Cardinality(RoutedRows(l)') = Cardinality(QueueHops(l)')
<1> DEFINE Goal == /\ IsFiniteSet(RoutedRows(l)')
                   /\ Cardinality(RoutedRows(l)') = Cardinality(QueueHops(l)')
<1>0. /\ Sound /\ TypeOK /\ RaisedPoints /\ IsFiniteSet(RoutedRows(l))
      /\ Cardinality(RoutedRows(l)) = Cardinality(QueueHops(l))
  BY DEF Chained, Sound, OneHopPerRow, RoutedRows, QueueHops
<1>1. ASSUME RoutedRows(l)' = RoutedRows(l), history'[l] = history[l]
      PROVE  Goal
  BY <1>0, <1>1 DEF QueueHops
<1>2. queue' = queue => RoutedRows(l)' = RoutedRows(l)
  BY DEF RoutedRows
<1>3. UNCHANGED chain => Goal
  BY <1>1, <1>2 DEF chain
<1>4. ASSUME NEW s \in Requests, Commit(s)
      PROVE  Goal
  <2> PICK q : q = req[s]
    OBVIOUS
  <2>0. HolderKnown(q)
    BY DEF Chained
  <2>1. ASSUME NEW m \in Leads, LeadOpened(s, m)
        PROVE  Goal
    BY <1>1, <1>2, <2>1 DEF LeadOpened
  <2>2. ASSUME HoldersStay, queue' = queue \/ RowRaised
        PROVE  Goal
    <3>1. ASSUME NEW r \in RowIds, queue[r].status = "UNUSED", queue'[r].status = "PENDING",
                 \A t \in RowIds : t # r => queue'[t] = queue[t]
          PROVE  RoutedRows(l)' = RoutedRows(l)
      <4>1. \A t \in RowIds : /\ (queue'[t].status = "ROUTED" /\ queue'[t].lead = l)
                                    <=> (queue[t].status = "ROUTED" /\ queue[t].lead = l)
        BY <3>1
      <4> QED BY <4>1 DEF RoutedRows
    <3> QED BY <1>1, <1>2, <2>2, <3>1 DEF HoldersStay, RowRaised
  <2>3. ASSUME DirectHopTaken(s)
        PROVE  Goal
    <3>1. CASE q.lead = l
      <4>1. PICK h \in Hop : HandedOn(l, h) /\ h.point = "T1_DIRECT"
        BY <2>3, <3>1 DEF DirectHopTaken
      <4>2. QueueHops(l)' = QueueHops(l)
        BY <1>0, <4>1, QueueHopsAfter DEF HandedOn
      <4>3. RoutedRows(l)' = RoutedRows(l)
        BY <1>2, <2>3 DEF DirectHopTaken
      <4> QED BY <1>0, <4>2, <4>3
    <3>2. CASE q.lead # l
      BY <1>1, <1>2, <2>3, <3>2 DEF DirectHopTaken, HandedOn, Elsewhere
    <3> QED BY <3>1, <3>2
  <2>4. ASSUME RouteHopTaken(s)
        PROVE  Goal
    <3> PICK r : r = q.row
      OBVIOUS
    <3>0. /\ r \in RowIds /\ queue[r].status = "PENDING" /\ queue'[r].status = "ROUTED"
          /\ queue'[r].lead = queue[r].lead /\ \A t \in RowIds : t # r => queue'[t] = queue[t]
      BY <2>0, <2>4 DEF RouteHopTaken, At, HolderKnown, Pending
    <3>1. CASE queue[r].lead = l
      <4>1. PICK h \in Hop : HandedOn(l, h) /\ h.point = queue[r].point
        BY <2>4, <3>1 DEF RouteHopTaken
      <4>2. h.point # "T1_DIRECT"
        BY <1>0, <3>0, <4>1 DEF RaisedPoints
      <4>3. /\ Cardinality(QueueHops(l)') = Cardinality(QueueHops(l)) + 1
        BY <1>0, <4>1, <4>2, QueueHopsAfter DEF HandedOn
      <4>4. RoutedRows(l)' = RoutedRows(l) \cup {r} /\ r \notin RoutedRows(l)
        BY <3>0, <3>1 DEF RoutedRows
      <4>5. /\ IsFiniteSet(RoutedRows(l)')
            /\ Cardinality(RoutedRows(l)') = Cardinality(RoutedRows(l)) + 1
        <5> PICK S : S = RoutedRows(l)
          OBVIOUS
        <5>1. IsFiniteSet(S \cup {r}) /\ Cardinality(S \cup {r}) = Cardinality(S) + 1
          BY <1>0, <4>4, FS_AddElement
        <5> QED BY <4>4, <5>1
      <4> QED BY <1>0, <4>3, <4>5
    <3>2. CASE queue[r].lead # l
      <4>1. RoutedRows(l)' = RoutedRows(l)
        BY <3>0, <3>2 DEF RoutedRows
      <4>2. history'[l] = history[l]
        BY <2>4, <3>2 DEF RouteHopTaken, HandedOn, Elsewhere
      <4> QED BY <1>1, <4>1, <4>2
    <3> QED BY <3>1, <3>2
  <2> HIDE DEF Goal
  <2> QED BY <1>0, <1>4, <2>1, <2>2, <2>3, <2>4, CommitWrites
<1> QED BY <1>3, <1>4, OnlyCommitsWrite

\* While one request runs at a time, the chain of hops is kept by every step.
LEMMA ChainedAlways ==
  ASSUME OneRequest
  PROVE  Spec => []Chained
<1>1. Init => Chained
  <2> SUFFICES ASSUME Init PROVE Chained
    OBVIOUS
  <2>1. Sound /\ AssigneeIsLastHop /\ RaisedPoints
    BY InitSound DEF Init, AssigneeIsLastHop, Exists, NoLeadRow, RaisedPoints, NoQueueRow
  <2>2. HopChain
    BY DEF Init, HopChain
  <2>h. \A s \in Requests : HolderKnown(req[s])
    BY DEF Init, HolderKnown, Idle
  <2>3. ASSUME NEW l \in Leads
        PROVE  RoutedRows(l) = {} /\ QueueHops(l) = {}
    BY DEF Init, RoutedRows, QueueHops, NoQueueRow
  <2>4. OneHopPerRow /\ \A l \in Leads : IsFiniteSet(RoutedRows(l))
    BY <2>3, FS_EmptySet DEF OneHopPerRow, RoutedRows, QueueHops
  <2> QED BY <2>1, <2>2, <2>h, <2>4 DEF Chained
<1>2. Chained /\ [Next]_vars => Chained'
  <2> SUFFICES ASSUME Chained, [Next]_vars PROVE Chained'
    OBVIOUS
  <2>1. Sound' /\ AssigneeIsLastHop' /\ RaisedPoints'
    BY SoundStep, StepEffect, AssigneeIsLastHopStep, RaisedPointsStep DEF Chained
  <2>2. HopChain'
    BY HopChainStep
  <2>3. ASSUME NEW t \in Requests
        PROVE  HolderKnown(req[t])'
    BY OneRequest, HolderKnownStep
  <2>4. \A l \in Leads : IsFiniteSet(RoutedRows(l)')
    BY OneHopPerRowStep
  <2>5. OneHopPerRow'
    BY OneHopPerRowStep DEF OneHopPerRow, RoutedRows, QueueHops
  <2> QED BY <2>1, <2>2, <2>3, <2>4, <2>5 DEF Chained
<1> QED BY <1>1, <1>2, PTL DEF Spec

\* HopChain: while requests run one after another, the history of a lead is a chain:
\* each hop starts at the user the previous one ended at, the first at the creator.
\* (Account edits may fall between any two steps of a request.)
THEOREM HopChainAlways ==
  ASSUME OneRequest
  PROVE  Spec => []HopChain
<1>1. Chained => HopChain
  BY DEF Chained
<1> QED BY <1>1, ChainedAlways, PTL

\* OneHopPerRow: while requests run one after another, a lead has exactly as many
\* hops out of the queue as it has routed rows, however many leads and rows there are.
THEOREM OneHopPerRowAlways ==
  ASSUME OneRequest
  PROVE  Spec => []OneHopPerRow
<1>1. Chained => OneHopPerRow
  BY DEF Chained
<1> QED BY <1>1, ChainedAlways, PTL
=============================================================================
