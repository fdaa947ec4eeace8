---------------------------- MODULE LeadCardProofs ----------------------------
(***************************************************************************)
(* Proofs about a lead's card, for every set of users and roles, every     *)
(* list of statuses, phones and values, every mix of operations and any    *)
(* number of overlapping requests.                                         *)
(***************************************************************************)
EXTENDS LeadCard, TLAPS

InFlight == {"read", "checked"}

\* What a request keeps of the lead is still true of it, unless marked stale, and what
\* it has checked of the lists can since have been hidden or dropped but not unmade.
RequestOK(q) ==
  /\ q.arg \in Args(q.kind)
  /\ q.phase = "read" => q.kind \in {"STATUS", "VALUE"}
  /\ q.phase \in InFlight /\ "moved" \notin q.stale => q.tier = lead.tier
  /\ q.phase \in InFlight /\ "phoned" \notin q.stale => q.phone = lead.phone
  /\ q.phase = "checked" /\ q.kind = "STATUS" /\ q.arg # NoStatus =>
       TierOf[q.arg] = q.tier /\ statusStage[q.arg] # "unborn"
  /\ q.phase = "checked" /\ q.kind = "VALUE" => fieldStage # "unborn"
  /\ q.phase \in {"written", "recorded"} => q.since \subseteq Watchers(lead)
  /\ q.phase = "told" /\ Announced(q) => q.since \ {q.user} \subseteq q.told
RequestsOK == \A r \in Requests : RequestOK(reqs[r])

\* The inductive invariant behind the three invariants of the card.
Sound == TypeOK /\ CardAgrees /\ RequestsOK

-----------------------------------------------------------------------------
(* The parts a step is made of                                             *)

LEMMA FirstPhoneType == FirstPhone \in Phones
BY CardAssumption DEF FirstPhone

LEMMA IdleType == Idle \in Request
BY FirstPhoneType, CardAssumption DEF Idle, Request, Kinds, Tiers

\* Whoever watches a lead is a user, and depends on its assignee alone.
LEMMA WatchersAreUsers ==
  ASSUME NEW l, l.assignee \in Users
  PROVE  Watchers(l) \subseteq Users
BY CardAssumption DEF Watchers, Watching

LEMMA SameAssignee ==
  ASSUME NEW l, NEW m, l.assignee = m.assignee
  PROVE  Watchers(l) = Watchers(m)
BY DEF Watchers, Watching

\* The kinds of a request's argument.
LEMMA ArgTypes ==
  ASSUME NEW kind \in Kinds, NEW arg \in Args(kind)
  PROVE  /\ arg \in Statuses \cup Phones \cup Values \cup {NoStatus, NoValue}
         /\ kind = "STATUS" => arg \in Statuses \cup {NoStatus}
         /\ kind = "DROP_STATUS" => arg \in Statuses
         /\ kind = "PHONE" => arg \in Phones
         /\ kind = "VALUE" => arg \in Values
BY DEF Args, Kinds

\* An idle request satisfies the invariant whatever the lead.
LEMMA IdleOK == RequestOK(Idle)
BY DEF RequestOK, Idle, InFlight, Args

\* The seed's matrix is one.
LEMMA MatrixType == SeedMatrix \in [Permissions -> [Roles -> Scopes]]
<1>1. \A granted : Cell(granted) \in [Roles -> Scopes]
  BY DEF Cell, Scopes
<1>2. [Cell({"ADMIN"}) EXCEPT !["MANAGER"] = "VIEW"] \in [Roles -> Scopes]
  BY DEF Cell, Scopes, Roles
<1>3. [AGENT |-> "OWN", SR_AGENT |-> "ASSIGNED", CLOSER |-> "ASSIGNED", MANAGER |-> "ALL", ADMIN |-> "ALL"]
        \in [Roles -> Scopes]
  BY DEF Scopes, Roles
<1> QED BY <1>1, <1>2, <1>3 DEF SeedMatrix, Permissions

\* The empty card and idle requests satisfy the invariant.
LEMMA InitSound == Init => Sound
<1> SUFFICES ASSUME Init PROVE Sound
  OBVIOUS
<1> USE CardAssumption
<1>1. TypeOK
  BY FirstPhoneType, IdleType, MatrixType DEF Init, TypeOK, Tiers, Stages
<1>2. CardAgrees
  BY DEF Init, CardAgrees
<1>3. RequestsOK
  BY IdleOK DEF Init, RequestsOK
<1> QED BY <1>1, <1>2, <1>3 DEF Sound

\* A request of the table is well typed and satisfies the invariant.
LEMMA RequestFacts ==
  ASSUME Sound, NEW r \in Requests
  PROVE  reqs[r] \in Request /\ RequestOK(reqs[r])
BY DEF Sound, TypeOK, RequestsOK
\* A step that leaves the accounts and the lead's holder, tier and number alone, and unmakes
\* no list entry.
SameAccounts == UNCHANGED <<role, rights>>
SameLead ==
  SameAccounts /\ lead'.tier = lead.tier /\ lead'.phone = lead.phone /\ lead'.assignee = lead.assignee
NothingUnmade ==
  /\ \A s \in Statuses : statusStage[s] # "unborn" => statusStage'[s] # "unborn"
  /\ fieldStage # "unborn" => fieldStage' # "unborn"

\* Such a step leaves a request as good as it was; so does a new number, for one marked stale.
LEMMA RequestStays ==
  ASSUME NEW q \in Request, RequestOK(q), NothingUnmade, SameAccounts,
         lead'.tier = lead.tier, lead'.assignee = lead.assignee,
         lead'.phone = lead.phone \/ q.phase \notin InFlight \/ "phoned" \in q.stale
  PROVE  RequestOK(q)'
<1>1. Watchers(lead)' = Watchers(lead)
  BY DEF Watchers, Watching, SameAccounts
<1>2. q.kind = "STATUS" /\ q.arg # NoStatus => q.arg \in Statuses
  BY ArgTypes DEF Request, RequestOK
<1>3. Announced(q)' = Announced(q)
  BY DEF Announced
<1> QED BY <1>1, <1>2, <1>3 DEF RequestOK, NothingUnmade, InFlight

\* The invariant of the table of requests, from that of each request after the step.
LEMMA RequestsStep ==
  ASSUME \A t \in Requests : \E q : q = reqs'[t] /\ RequestOK(q)'
  PROVE  RequestsOK'
BY DEF RequestsOK, RequestOK

\* A step that replaces one request.
LEMMA OneRequestStep ==
  ASSUME Sound, NEW r \in Requests, NEW p \in Request, reqs' = [reqs EXCEPT ![r] = p],
         RequestOK(p)', SameLead, NothingUnmade
  PROVE  RequestsOK' /\ reqs' \in [Requests -> Request]
<1>1. reqs' \in [Requests -> Request]
  BY DEF Sound, TypeOK
<1>2. ASSUME NEW t \in Requests, NEW q, q = reqs'[t]
      PROVE  RequestOK(q)'
  <2>1. CASE t = r
    BY <1>2, <2>1 DEF Sound, TypeOK
  <2>2. CASE t # r
    <3>1. q = reqs[t] /\ q \in Request /\ RequestOK(q)
      BY <1>2, <2>2, RequestFacts DEF Sound, TypeOK
    <3> QED BY <3>1, RequestStays DEF SameLead
  <2> QED BY <2>1, <2>2
<1> QED BY <1>1, <1>2, RequestsStep

LEMMA IdleStays == RequestOK(Idle)'
BY DEF RequestOK, Idle, InFlight, Args

-----------------------------------------------------------------------------
(* Each action preserves the invariant                                     *)

\* A new request has read the lead as it is.
LEMMA BeginSound ==
  ASSUME Sound, NEW r \in Requests, Begin(r)
  PROVE  Sound'
<1> DEFINE New(u, kind, arg) ==
      [Idle EXCEPT !.phase = IF kind \in {"STATUS", "VALUE"} THEN "read" ELSE "checked",
                   !.kind = kind, !.user = u, !.arg = arg, !.tier = lead.tier, !.phone = lead.phone]
<1> PICK u \in Users, kind \in topic \cap Kinds : \E arg \in Args(kind) :
      reqs' = [reqs EXCEPT ![r] = New(u, kind, arg)]
  BY DEF Begin
<1> PICK arg \in Args(kind) : reqs' = [reqs EXCEPT ![r] = New(u, kind, arg)]
  OBVIOUS
<1> PICK q : q = New(u, kind, arg)
  OBVIOUS
<1>1. kind \in Kinds
  BY CardAssumption DEF Sound, TypeOK
<1>2. q \in Request
  BY <1>1, ArgTypes, IdleType DEF Request, Sound, TypeOK
<1>3. UNCHANGED <<topic, role, rights, lead, primaryRow, statusStage, fieldStage, value, blocks, worked, overtaken>>
  BY DEF Begin, tables, accounts
<1>4. RequestOK(q)'
  BY <1>1, <1>3 DEF RequestOK, Idle, InFlight
<1>5. RequestsOK' /\ reqs' \in [Requests -> Request]
  BY <1>2, <1>3, <1>4, OneRequestStep DEF SameLead, SameAccounts, NothingUnmade
<1> QED BY <1>3, <1>5 DEF Sound, TypeOK, CardAgrees

\* A check passes on what the request has read, or refuses it.
LEMMA CheckSound ==
  ASSUME Sound, NEW r \in Requests, Check(r)
  PROVE  Sound'
<1> PICK q, p : q = reqs[r] /\ p = [q EXCEPT !.phase = "checked"]
  OBVIOUS
<1>1. q \in Request /\ RequestOK(q) /\ q.phase = "read"
  BY RequestFacts DEF Check
<1>2. UNCHANGED <<topic, role, rights, lead, primaryRow, statusStage, fieldStage, value, blocks, worked, overtaken>>
  BY DEF Check, tables, accounts
<1>3. SameLead /\ NothingUnmade
  BY <1>2 DEF SameLead, SameAccounts, NothingUnmade
<1>4. CASE reqs' = [reqs EXCEPT ![r] = Idle]
  <2>1. RequestsOK' /\ reqs' \in [Requests -> Request]
    BY <1>3, <1>4, IdleType, IdleStays, OneRequestStep
  <2> QED BY <1>2, <2>1 DEF Sound, TypeOK, CardAgrees
<1>5. CASE /\ reqs' = [reqs EXCEPT ![r] = p]
           /\ IF q.kind = "VALUE" THEN fieldStage = "active"
              ELSE q.arg # NoStatus => statusStage[q.arg] = "active" /\ TierOf[q.arg] = q.tier
  <2>1. p \in Request
    BY <1>1 DEF Request
  <2>2. RequestOK(p)'
    BY <1>1, <1>2, <1>5 DEF RequestOK, Request, InFlight
  <2>3. RequestsOK' /\ reqs' \in [Requests -> Request]
    BY <1>3, <1>5, <2>1, <2>2, OneRequestStep
  <2> QED BY <1>2, <2>3 DEF Sound, TypeOK, CardAgrees
<1> QED BY <1>4, <1>5 DEF Check
\* A request that has written no longer depends on what it read; the others are marked.
LEMMA WrittenStep ==
  ASSUME Sound, NEW r \in Requests, NEW news \in SUBSET {"moved", "phoned", "valued"},
         Written(r, news), NothingUnmade, SameAccounts, lead'.tier = lead.tier, lead'.assignee = lead.assignee,
         lead'.phone = lead.phone \/ "phoned" \in news
  PROVE  RequestsOK' /\ reqs' \in [Requests -> Request]
<1>1. Watchers(lead)' = Watchers(lead) /\ Watchers(lead) \subseteq Users
  <2>1. Watchers(lead) \subseteq Users
    BY WatchersAreUsers DEF Sound, TypeOK
  <2> QED BY <2>1 DEF Watchers, Watching, SameAccounts
<1>2. SUFFICES ASSUME NEW t \in Requests, NEW q, q = reqs'[t]
               PROVE  RequestOK(q)' /\ q \in Request
  <2>1. reqs' = [t \in Requests |-> reqs'[t]]
    BY DEF Written
  <2> QED BY <1>2, <2>1, RequestsStep
<1> PICK old : old = reqs[t]
  OBVIOUS
<1>3. old \in Request /\ RequestOK(old)
  BY RequestFacts
<1>4. CASE t = r
  <2>1. q = [old EXCEPT !.phase = "written", !.tier = "AGENT", !.phone = FirstPhone,
                        !.stale = {}, !.since = Watchers(lead)]
    BY <1>2, <1>4 DEF Written
  <2>2. q \in Request
    BY <1>1, <1>3, <2>1, FirstPhoneType DEF Request, Tiers
  <2>3. q.arg = old.arg /\ q.kind = old.kind /\ q.phase = "written" /\ q.since = Watchers(lead)
    BY <1>3, <2>1 DEF Request
  <2> QED BY <1>1, <1>3, <2>2, <2>3 DEF RequestOK, InFlight
<1>5. CASE t # r /\ old.phase \in InFlight
  <2>1. q = [old EXCEPT !.stale = @ \cup news]
    BY <1>2, <1>5 DEF Written, InFlight
  <2>2. q \in Request /\ RequestOK(q) /\ ("phoned" \in news => "phoned" \in q.stale)
    BY <1>3, <2>1 DEF Request, RequestOK, Announced
  <2> QED BY <2>2, RequestStays
<1>6. CASE t # r /\ old.phase \notin InFlight
  <2>1. q = old
    BY <1>2, <1>6 DEF Written, InFlight
  <2> QED BY <1>3, <1>6, <2>1, RequestStays
<1> QED BY <1>4, <1>5, <1>6

\* A request that ends without writing.
LEMMA RefusedStep ==
  ASSUME Sound, NEW r \in Requests, Refused(r), SameLead, NothingUnmade
  PROVE  RequestsOK' /\ reqs' \in [Requests -> Request]
BY IdleType, IdleStays, OneRequestStep DEF Refused

\* A status is stored while its row exists, and is of the lead's tier unless it moved.
LEMMA WriteStatusSound ==
  ASSUME Sound, NEW r \in Requests, WriteStatus(r)
  PROVE  Sound'
<1> PICK q : q = reqs[r]
  OBVIOUS
<1>1. q \in Request /\ RequestOK(q) /\ q.phase = "checked" /\ q.kind = "STATUS"
  BY RequestFacts DEF WriteStatus
<1>2. UNCHANGED <<topic, role, rights, primaryRow, statusStage, fieldStage, value, blocks, worked>>
  BY DEF WriteStatus, tables, accounts
<1>3. NothingUnmade
  BY <1>2 DEF NothingUnmade
<1>4. CASE /\ q.arg # NoStatus => statusStage[q.arg] # "gone"
           /\ lead' = [lead EXCEPT !.workStatus = q.arg]
           /\ Mark("status", "moved" \in q.stale)
           /\ Written(r, {})
  <2>1. SameLead /\ lead'.workStatus = q.arg
    BY <1>2, <1>4 DEF SameLead, SameAccounts, Sound, TypeOK
  <2>2. RequestsOK' /\ reqs' \in [Requests -> Request]
    BY <1>3, <1>4, <2>1, WrittenStep DEF SameLead
  <2>3. q.arg \in Statuses \cup {NoStatus}
    BY <1>1, ArgTypes DEF RequestOK, Request
  <2>4. q.arg # NoStatus => statusStage[q.arg] \in {"active", "hidden"}
    BY <1>1, <1>4, <2>3 DEF RequestOK, Sound, TypeOK, Stages
  <2>5. TypeOK'
    BY <1>2, <1>4, <2>2, <2>3, <2>4 DEF Sound, TypeOK
  <2>6. lead'.workStatus # NoStatus /\ "status" \notin overtaken' => TierOf[lead'.workStatus] = lead'.tier
    BY <1>1, <1>4, <2>1 DEF RequestOK, Mark, SameLead, InFlight
  <2>7. "phone" \notin overtaken' => primaryRow' = lead'.phone
    BY <1>2, <1>4, <2>1 DEF Sound, CardAgrees, Mark, SameLead
  <2> QED BY <2>2, <2>5, <2>6, <2>7 DEF Sound, CardAgrees
<1>5. CASE Refused(r) /\ UNCHANGED <<lead, overtaken>>
  <2>1. RequestsOK' /\ reqs' \in [Requests -> Request]
    BY <1>2, <1>3, <1>5, RefusedStep DEF SameLead, SameAccounts
  <2> QED BY <1>2, <1>5, <2>1 DEF Sound, TypeOK, CardAgrees
<1> QED BY <1>4, <1>5 DEF WriteStatus

\* A number is stored in the lead and, when it differs from the one read, in its row.
LEMMA WritePhoneSound ==
  ASSUME Sound, NEW r \in Requests, WritePhone(r)
  PROVE  Sound'
<1> PICK q : q = reqs[r]
  OBVIOUS
<1>1. q \in Request /\ RequestOK(q) /\ q.phase = "checked" /\ q.kind = "PHONE" /\ q.arg \in Phones
  BY RequestFacts, ArgTypes DEF WritePhone, RequestOK, Request
<1>2. UNCHANGED <<topic, role, rights, statusStage, fieldStage, value, blocks>>
  BY DEF WritePhone, tables, accounts
<1>3. lead' = [lead EXCEPT !.phone = q.arg] /\ Written(r, {"phoned"})
  BY DEF WritePhone
<1>4. lead'.tier = lead.tier /\ lead'.assignee = lead.assignee
      /\ lead'.workStatus = lead.workStatus /\ lead'.phone = q.arg
  BY <1>3 DEF Sound, TypeOK
<1>5. RequestsOK' /\ reqs' \in [Requests -> Request]
  BY <1>2, <1>3, <1>4, WrittenStep DEF NothingUnmade, SameAccounts
<1>6. \/ /\ q.arg # q.phone /\ primaryRow' = q.arg /\ worked' = worked \cup {q.user}
         /\ Mark("phone", FALSE)
      \/ /\ q.arg = q.phone /\ UNCHANGED <<primaryRow, worked>>
         /\ Mark("phone", "phone" \in overtaken \/ "phoned" \in q.stale)
  BY DEF WritePhone
<1>7. TypeOK'
  BY <1>1, <1>2, <1>3, <1>5, <1>6 DEF Sound, TypeOK, Request
<1>8. "status" \notin overtaken' => "status" \notin overtaken
  BY <1>6 DEF Mark
<1>9. "phone" \notin overtaken' => primaryRow' = lead'.phone
  BY <1>1, <1>4, <1>6 DEF Sound, CardAgrees, Mark, RequestOK, InFlight
<1> QED BY <1>4, <1>5, <1>7, <1>8, <1>9 DEF Sound, CardAgrees
\* A value is stored while its field exists.
LEMMA WriteValueSound ==
  ASSUME Sound, NEW r \in Requests, WriteValue(r)
  PROVE  Sound'
<1> PICK q : q = reqs[r]
  OBVIOUS
<1>1. q \in Request /\ RequestOK(q) /\ q.phase = "checked" /\ q.kind = "VALUE" /\ q.arg \in Values
  BY RequestFacts, ArgTypes DEF WriteValue, RequestOK, Request
<1>2. UNCHANGED <<topic, role, rights, lead, primaryRow, statusStage, fieldStage, blocks, worked, overtaken>>
  BY DEF WriteValue, accounts
<1>3. SameLead /\ NothingUnmade
  BY <1>2 DEF SameLead, SameAccounts, NothingUnmade
<1>4. CASE fieldStage # "gone" /\ value' = q.arg /\ Written(r, {"valued"})
  <2>1. RequestsOK' /\ reqs' \in [Requests -> Request]
    BY <1>3, <1>4, WrittenStep DEF SameLead
  <2>2. fieldStage \in {"active", "hidden"}
    BY <1>1, <1>4 DEF RequestOK, Sound, TypeOK, Stages
  <2> QED BY <1>1, <1>2, <1>4, <2>1, <2>2 DEF Sound, TypeOK, CardAgrees
<1>5. CASE Refused(r) /\ UNCHANGED value
  <2>1. RequestsOK' /\ reqs' \in [Requests -> Request]
    BY <1>3, <1>5, RefusedStep
  <2> QED BY <1>2, <1>5, <2>1 DEF Sound, TypeOK, CardAgrees
<1> QED BY <1>4, <1>5 DEF WriteValue

\* A comment changes nothing but its request.
LEMMA AddCommentSound ==
  ASSUME Sound, NEW r \in Requests, AddComment(r)
  PROVE  Sound'
<1>1. UNCHANGED <<topic, role, rights, lead, primaryRow, statusStage, fieldStage, value, blocks, worked, overtaken>>
  BY DEF AddComment, tables, accounts
<1>2. RequestsOK' /\ reqs' \in [Requests -> Request]
  BY <1>1, WrittenStep DEF AddComment, SameAccounts, NothingUnmade
<1> QED BY <1>1, <1>2 DEF Sound, TypeOK, CardAgrees

\* A dropped status leaves the lead with it.
LEMMA DropStatusSound ==
  ASSUME Sound, NEW r \in Requests, DropStatus(r)
  PROVE  Sound'
<1> PICK q : q = reqs[r]
  OBVIOUS
<1>1. q.arg \in Statuses
  BY RequestFacts, ArgTypes DEF DropStatus, RequestOK, Request
<1>2. /\ UNCHANGED <<topic, role, rights, primaryRow, fieldStage, value, blocks, worked>>
      /\ statusStage' = [statusStage EXCEPT ![q.arg] = "gone"]
      /\ lead' = [lead EXCEPT !.workStatus = IF @ = q.arg THEN NoStatus ELSE @]
      /\ overtaken' = IF lead.workStatus = q.arg THEN overtaken \ {"status"} ELSE overtaken
  BY DEF DropStatus, accounts
<1>3. /\ SameLead
      /\ lead'.workStatus = IF lead.workStatus = q.arg THEN NoStatus ELSE lead.workStatus
  BY <1>2 DEF Sound, TypeOK, SameLead, SameAccounts
<1>4. NothingUnmade
  BY <1>1, <1>2 DEF NothingUnmade, Sound, TypeOK
<1>5. RequestsOK' /\ reqs' \in [Requests -> Request]
  BY <1>3, <1>4, RefusedStep DEF DropStatus
<1>6. TypeOK'
  <2>1. lead' \in [assignee: Users, tier: Tiers, workStatus: Statuses \cup {NoStatus}, phone: Phones]
    BY <1>2 DEF Sound, TypeOK
  <2>2. statusStage' \in [Statuses -> Stages]
    BY <1>2 DEF Sound, TypeOK, Stages
  <2>3. lead'.workStatus # NoStatus => statusStage'[lead'.workStatus] \in {"active", "hidden"}
    BY <1>1, <1>2, <1>3 DEF Sound, TypeOK
  <2> QED BY <1>2, <1>5, <2>1, <2>2, <2>3 DEF Sound, TypeOK
<1>7. CardAgrees'
  BY <1>2, <1>3 DEF Sound, CardAgrees, SameLead
<1> QED BY <1>5, <1>6, <1>7 DEF Sound

\* A dropped field takes the lead's value with it.
LEMMA DropFieldSound ==
  ASSUME Sound, NEW r \in Requests, DropField(r)
  PROVE  Sound'
<1>1. /\ UNCHANGED <<topic, role, rights, lead, primaryRow, statusStage, blocks, worked>>
      /\ fieldStage' = "gone" /\ value' = NoValue
  BY DEF DropField, accounts
<1>2. SameLead /\ NothingUnmade
  BY <1>1 DEF SameLead, SameAccounts, NothingUnmade
<1>3. RequestsOK' /\ reqs' \in [Requests -> Request]
  BY <1>2, RefusedStep DEF DropField
<1>4. ("status" \in overtaken' <=> "status" \in overtaken) /\ ("phone" \in overtaken' <=> "phone" \in overtaken)
  BY DEF DropField, Mark
<1>5. TypeOK'
  BY <1>1, <1>3 DEF Sound, TypeOK, Stages
<1> QED BY <1>1, <1>3, <1>4, <1>5 DEF Sound, CardAgrees

\* Recording leaves the watchers who were there at the write.
LEMMA RecordSound ==
  ASSUME Sound, NEW r \in Requests, Record(r)
  PROVE  Sound'
<1> PICK q, p : q = reqs[r] /\ p = [q EXCEPT !.phase = "recorded"]
  OBVIOUS
<1>1. q \in Request /\ RequestOK(q) /\ q.phase = "written"
  BY RequestFacts DEF Record
<1>2. UNCHANGED <<topic, role, rights, lead, primaryRow, statusStage, fieldStage, value, blocks, overtaken>>
  BY DEF Record, tables, accounts
<1>3. SameLead /\ NothingUnmade
  BY <1>2 DEF SameLead, SameAccounts, NothingUnmade
<1>4. p \in Request /\ reqs' = [reqs EXCEPT ![r] = p]
  BY <1>1 DEF Request, Record
<1>5. RequestOK(p)'
  <2>1. p.phase = "recorded" /\ p.arg = q.arg /\ p.kind = q.kind /\ p.since = q.since
    BY <1>1 DEF Request
  <2> QED BY <1>1, <1>2, <2>1 DEF RequestOK, InFlight, Watchers, Watching
<1>6. RequestsOK' /\ reqs' \in [Requests -> Request]
  BY <1>3, <1>4, <1>5, OneRequestStep
<1>7. worked' \subseteq Users
  BY <1>1 DEF Record, Sound, TypeOK, Request
<1> QED BY <1>2, <1>6, <1>7 DEF Sound, TypeOK, CardAgrees

\* Whoever has watched since the write is among those told.
LEMMA TellSound ==
  ASSUME Sound, NEW r \in Requests, Tell(r)
  PROVE  Sound'
<1> PICK q, p : q = reqs[r]
        /\ p = [q EXCEPT !.phase = "told", !.told = IF Announced(q) THEN Recipients(q) ELSE {}]
  OBVIOUS
<1>1. q \in Request /\ RequestOK(q) /\ q.phase = "recorded"
  BY RequestFacts DEF Tell
<1>2. UNCHANGED <<topic, role, rights, lead, primaryRow, statusStage, fieldStage, value, blocks, worked, overtaken>>
  BY DEF Tell, tables, accounts
<1>3. SameLead /\ NothingUnmade
  BY <1>2 DEF SameLead, SameAccounts, NothingUnmade
<1>4. reqs' = [reqs EXCEPT ![r] = p]
  BY DEF Tell, Sound, TypeOK
<1>5. Recipients(q) \subseteq Users
  BY WatchersAreUsers DEF Recipients, Sound, TypeOK
<1>6. p \in Request
  BY <1>1, <1>5 DEF Request
<1>7. RequestOK(p)'
  <2>1. /\ p.phase = "told" /\ p.arg = q.arg /\ p.kind = q.kind /\ p.since = q.since
        /\ p.user = q.user /\ (Announced(q) => p.told = Recipients(q))
    BY <1>1 DEF Request
  <2>2. Announced(p) = Announced(q)
    BY <2>1 DEF Announced
  <2> QED BY <1>1, <2>1, <2>2 DEF RequestOK, InFlight, Recipients, Announced
<1>8. RequestsOK' /\ reqs' \in [Requests -> Request]
  BY <1>3, <1>4, <1>6, <1>7, OneRequestStep
<1> QED BY <1>2, <1>8 DEF Sound, TypeOK, CardAgrees

\* A request may end anywhere.
LEMMA EndSound ==
  ASSUME Sound, NEW r \in Requests, End(r)
  PROVE  Sound'
<1>1. UNCHANGED <<topic, role, rights, lead, primaryRow, statusStage, fieldStage, value, blocks, worked, overtaken>>
  BY DEF End, tables, accounts
<1>2. RequestsOK' /\ reqs' \in [Requests -> Request]
  BY <1>1, RefusedStep DEF End, SameLead, SameAccounts, NothingUnmade
<1> QED BY <1>1, <1>2 DEF Sound, TypeOK, CardAgrees

\* A transfer clears the work status, marks what was read, and narrows the watchers of
\* those who have written to the ones who still watch.
LEMMA TransferSound ==
  ASSUME Sound, NEW u \in Users, Transfer(u)
  PROVE  Sound'
<1>1. /\ lead' = [lead EXCEPT !.assignee = u, !.tier = role[u], !.workStatus = NoStatus]
      /\ worked' = worked \cup {lead.assignee, u} /\ Mark("status", FALSE) /\ MovedTo(u)
      /\ UNCHANGED <<topic, role, rights, primaryRow, statusStage, fieldStage, value, blocks>> /\ role[u] \in Tiers
  BY DEF Transfer, tables, accounts
<1>2. lead'.assignee = u /\ lead'.workStatus = NoStatus /\ lead'.phone = lead.phone
  BY <1>1 DEF Sound, TypeOK
<1>3. Watchers([lead EXCEPT !.assignee = u]) = Watchers(lead)'
  BY <1>1, <1>2 DEF Watchers, Watching, Sound, TypeOK
<1>4. ASSUME NEW t \in Requests, NEW q, q = reqs'[t]
      PROVE  RequestOK(q)' /\ q \in Request
  <2> PICK old : old = reqs[t]
    OBVIOUS
  <2>1. old \in Request /\ RequestOK(old)
    BY RequestFacts
  <2>2. CASE old.phase \in InFlight
    <3>1. q = [old EXCEPT !.stale = @ \cup {"moved"}]
      BY <1>1, <1>4, <2>2 DEF MovedTo, InFlight
    <3>2. /\ q \in Request /\ "moved" \in q.stale /\ q.phase = old.phase /\ q.kind = old.kind
          /\ q.arg = old.arg /\ q.tier = old.tier /\ q.phone = old.phone
          /\ ("phoned" \in q.stale <=> "phoned" \in old.stale)
      BY <2>1, <3>1 DEF Request
    <3> QED BY <1>1, <1>2, <2>1, <2>2, <3>2 DEF RequestOK, InFlight
  <2>3. CASE old.phase \notin InFlight
    <3>1. q = [old EXCEPT !.since = @ \cap Watchers([lead EXCEPT !.assignee = u])]
      BY <1>1, <1>4, <2>3 DEF MovedTo, InFlight
    <3>2. /\ q \in Request /\ q.phase = old.phase /\ q.kind = old.kind /\ q.arg = old.arg
          /\ q.user = old.user /\ q.told = old.told /\ q.since = old.since \cap Watchers(lead)'
      BY <1>3, <2>1, <3>1 DEF Request
    <3>3. Announced(q) = Announced(old)
      BY <3>2 DEF Announced
    <3> QED BY <2>1, <2>3, <3>2, <3>3 DEF RequestOK, InFlight, Announced
  <2> QED BY <2>2, <2>3
<1>5. RequestsOK' /\ reqs' \in [Requests -> Request]
  <2>1. reqs' = [t \in Requests |-> reqs'[t]]
    BY <1>1 DEF MovedTo
  <2> QED BY <1>4, <2>1, RequestsStep
<1>6. TypeOK'
  BY <1>1, <1>2, <1>5 DEF Sound, TypeOK
<1>7. CardAgrees'
  BY <1>1, <1>2 DEF Sound, CardAgrees, Mark
<1> QED BY <1>5, <1>6, <1>7 DEF Sound

\* A change of the accounts narrows the watchers of those who have written to the ones who
\* still watch, and leaves the rest of the card alone.
LEMMA AccountsSound ==
  ASSUME Sound, ChangeRole \/ updateCell
  PROVE  Sound'
<1>1. UNCHANGED <<topic, lead, primaryRow, statusStage, fieldStage, value, blocks, worked, overtaken>>
  BY DEF ChangeRole, updateCell, tables, accounts
<1>2. /\ role' \in [Users -> Roles] /\ rights' \in [Permissions -> [Roles -> Scopes]]
      /\ Rewatched(Watching(lead, role', rights'))
  <2>1. CASE ChangeRole
    <3> PICK change \in RoleChanges :
          role' = [role EXCEPT ![change[1]] = change[2]] /\ Rewatched(Watching(lead, role', rights))
      BY <2>1 DEF ChangeRole
    <3>1. change[1] \in Users /\ change[2] \in Roles /\ rights' = rights
      BY <2>1, CardAssumption DEF ChangeRole
    <3> QED BY <3>1 DEF Sound, TypeOK
  <2>2. CASE updateCell
    <3> PICK edit \in MatrixEdits :
          /\ rights' = [rights EXCEPT ![edit[1]][edit[2]] = edit[3]]
          /\ Rewatched(Watching(lead, role, rights'))
      BY <2>2 DEF updateCell
    <3>1. edit[1] \in Permissions /\ edit[2] \in Roles /\ edit[3] \in Scopes /\ role' = role
      BY <2>2, CardAssumption DEF updateCell
    <3>2. rights' \in [Permissions -> [Roles -> Scopes]]
      BY <3>1 DEF Sound, TypeOK
    <3> QED BY <3>1, <3>2 DEF Sound, TypeOK
  <2> QED BY <2>1, <2>2
<1>3. Watchers(lead)' = Watching(lead, role', rights')
  BY <1>1 DEF Watchers, Watching
<1>4. ASSUME NEW t \in Requests, NEW q, q = reqs'[t]
      PROVE  RequestOK(q)' /\ q \in Request
  <2> PICK old : old = reqs[t]
    OBVIOUS
  <2>1. old \in Request /\ RequestOK(old)
    BY RequestFacts
  <2>2. CASE old.phase \in InFlight
    <3>1. q = old
      BY <1>2, <1>4, <2>2 DEF Rewatched, InFlight
    <3> QED BY <1>1, <2>1, <2>2, <3>1 DEF RequestOK, InFlight
  <2>3. CASE old.phase \notin InFlight
    <3>1. q = [old EXCEPT !.since = @ \cap Watching(lead, role', rights')]
      BY <1>2, <1>4, <2>3 DEF Rewatched, InFlight
    <3>2. /\ q \in Request /\ q.phase = old.phase /\ q.kind = old.kind /\ q.arg = old.arg
          /\ q.user = old.user /\ q.told = old.told /\ q.since = old.since \cap Watchers(lead)'
      BY <1>3, <2>1, <3>1 DEF Request
    <3>3. Announced(q) = Announced(old)
      BY <3>2 DEF Announced
    <3> QED BY <2>1, <2>3, <3>2, <3>3 DEF RequestOK, InFlight, Announced
  <2> QED BY <2>2, <2>3
<1>5. RequestsOK' /\ reqs' \in [Requests -> Request]
  <2>1. reqs' = [t \in Requests |-> reqs'[t]]
    BY <1>2 DEF Rewatched
  <2> QED BY <1>4, <2>1, RequestsStep
<1>6. TypeOK'
  BY <1>1, <1>2, <1>5 DEF Sound, TypeOK
<1> QED BY <1>1, <1>5, <1>6 DEF Sound, CardAgrees

\* Blocks concern the checks alone.
LEMMA BlocksSound ==
  ASSUME Sound, NEW u \in Blockable, Block(u) \/ Unblock(u)
  PROVE  Sound'
<1>1. /\ UNCHANGED <<topic, role, rights, lead, primaryRow, statusStage, fieldStage, value, worked, reqs, overtaken>>
      /\ blocks' \subseteq Users
  BY CardAssumption DEF Block, Unblock, tables, accounts, Sound, TypeOK
<1>2. RequestsOK'
  BY <1>1, RequestsStep, RequestFacts, RequestStays DEF NothingUnmade, SameAccounts
<1> QED BY <1>1, <1>2 DEF Sound, TypeOK, CardAgrees

\* Editing a list never unmakes or drops an entry.
LEMMA ListsSound ==
  ASSUME Sound, EditField \/ \E s \in Statuses : EditStatus(s)
  PROVE  Sound'
<1>1. UNCHANGED <<topic, role, rights, lead, primaryRow, value, blocks, worked, reqs, overtaken>>
  BY DEF accounts, EditField, EditStatus
<1>2. \A stage \in Stages \ {"gone"} :
        /\ NextStage(stage) \in {"active", "hidden"} /\ NextStage(stage) # "unborn"
        /\ NextStage(stage) \in Stages
  BY DEF NextStage, Stages
<1>3. \/ UNCHANGED fieldStage
         /\ \E s \in Statuses : statusStage[s] # "gone" /\ statusStage' = [statusStage EXCEPT ![s] = NextStage(@)]
      \/ UNCHANGED statusStage /\ fieldStage # "gone" /\ fieldStage' = NextStage(fieldStage)
  BY DEF EditField, EditStatus
<1>4. NothingUnmade
  BY <1>2, <1>3 DEF NothingUnmade, Sound, TypeOK
<1>5. RequestsOK'
  BY <1>1, <1>4, RequestsStep, RequestFacts, RequestStays DEF SameAccounts
<1>6. TypeOK'
  BY <1>1, <1>2, <1>3 DEF Sound, TypeOK
<1> QED BY <1>1, <1>5, <1>6 DEF Sound, CardAgrees

-----------------------------------------------------------------------------
(* The theorems                                                            *)

\* The invariant is inductive.
LEMMA SoundStep == Sound /\ [Next]_vars => Sound'
<1> SUFFICES ASSUME Sound, [Next]_vars PROVE Sound'
  OBVIOUS
<1>1. CASE UNCHANGED vars
  <2>1. UNCHANGED <<topic, role, rights, lead, primaryRow, statusStage, fieldStage, value, blocks, worked, reqs, overtaken>>
    BY <1>1 DEF vars
  <2>2. RequestsOK'
    BY <2>1, RequestsStep, RequestFacts, RequestStays DEF NothingUnmade, SameAccounts
  <2> QED BY <2>1, <2>2 DEF Sound, TypeOK, CardAgrees
<1>2. CASE Next
  BY <1>2, BeginSound, CheckSound, WriteStatusSound, WritePhoneSound, WriteValueSound, AddCommentSound,
     DropStatusSound, DropFieldSound, RecordSound, TellSound, EndSound, TransferSound, BlocksSound,
     ListsSound, AccountsSound DEF Next
<1> QED BY <1>1, <1>2

LEMMA SoundAlways == Spec => []Sound
BY InitSound, SoundStep, PTL DEF Spec

\* The tables keep their types, and the database its references, whatever requests, drops
\* and changes of roles and rights overlap: no value without a field, no work status without
\* its row.
THEOREM CardTypes == Spec => []TypeOK
BY SoundAlways, PTL DEF Sound

\* CardAgrees: the work status is of the lead's tier and the primary row holds its number,
\* unless the entry was written by a request that was overtaken.
THEOREM CardAgreesAlways == Spec => []CardAgrees
BY SoundAlways, PTL DEF Sound

\* WatchersAreTold: who watched from the change of the card to the end of the request is told.
THEOREM WatchersAreToldAlways == Spec => []WatchersAreTold
<1>1. Sound => WatchersAreTold
  BY RequestFacts DEF WatchersAreTold, RequestOK
<1> QED BY <1>1, SoundAlways, PTL
=============================================================================
