-------------------------- MODULE RequestGateProofs --------------------------
(***************************************************************************)
(* Proofs about the gate and the guard in front of the handlers, for every *)
(* set of roles, permissions and wake addresses, every limit and bound,    *)
(* and any number of concurrent requests.                                  *)
(***************************************************************************)
EXTENDS RequestGate, TLAPS

\* The active key a lockdown has found has not gone without a successor; the keys that are
\* to be retired, and a key about to be shown, have been made.
RequestOK(q) ==
  /\ q.pc = "locking" => ActiveKeys # {}
  /\ q.pc = "making" => \A k \in q.doomed : key[k] # "UNUSED"
  /\ q.pc = "showing" => q.key \in RecoveryKeys /\ key[q.key] # "UNUSED"
RequestsOK == \A s \in Requests : RequestOK(req[s])

\* The inductive invariant.
Sound == TypeOK /\ LockedHasKey /\ RequestsOK

-----------------------------------------------------------------------------
(* The parts a step is made of                                             *)

LEMMA IdleType == Idle \in Request
BY GateAssumption DEF Idle, Request, Endpoints, NoEdit, EditType, NoMap, RoleMap, Cells, Absent,
   Scopes, WrongKey

LEMMA MissType == Miss \in [hit: BOOLEAN, map: RoleMap]
BY DEF Miss, NoMap, RoleMap, Cells

\* The default matrix holds scopes only.
LEMMA SeedType ==
  ASSUME NEW p \in Permissions, NEW r \in Roles
  PROVE  SeedMatrix[p][r] \in Scopes
<1>1. \A granted : Cell(granted) \in [Roles -> {"ALL", "DENIED"}]
  BY DEF Cell
<1>2. SeedMatrix[p] =
     CASE p \in {"view_own_leads", "log_activity", "view_reports_own", "enrich_lead",
                 "view_enrichment", "comment_lead"}
            -> Cell(Roles)
       [] p \in {"search_providers", "create_lead", "request_transfer"}
            -> Cell({"AGENT", "SR_AGENT", "MANAGER", "ADMIN"})
       [] p \in {"close_deal", "send_back"}
            -> Cell({"CLOSER", "MANAGER", "ADMIN"})
       [] p \in {"view_all_leads", "route_leads", "view_reports_team", "view_api_costs",
                 "export_data", "manage_dnc_optout", "view_enrichment_cost"}
            -> Cell({"MANAGER", "ADMIN"})
       [] p \in {"manage_permissions", "manage_providers", "system_lockdown",
                 "edit_score_weights", "manage_custom_fields", "manage_lead_access"}
            -> Cell({"ADMIN"})
       [] p \in {"manage_users", "manage_desks", "manage_offices"}
            -> [Cell({"ADMIN"}) EXCEPT !["MANAGER"] = "VIEW"]
       [] p \in {"view_regulated_data", "run_background_report"}
            -> Cell({})
       [] p = "edit_lead"
            -> [AGENT |-> "OWN", SR_AGENT |-> "ASSIGNED", CLOSER |-> "ASSIGNED",
                MANAGER |-> "ALL", ADMIN |-> "ALL"]
  BY DEF SeedMatrix
<1> DEFINE Office == [Cell({"ADMIN"}) EXCEPT !["MANAGER"] = "VIEW"]
           Edit == [AGENT |-> "OWN", SR_AGENT |-> "ASSIGNED", CLOSER |-> "ASSIGNED",
                    MANAGER |-> "ALL", ADMIN |-> "ALL"]
<1>3. Office[r] \in Scopes
  BY <1>1 DEF Scopes
<1>4. Edit[r] \in Scopes
  BY DEF Roles, Scopes
<1>5. \A granted : Cell(granted)[r] \in Scopes
  BY <1>1 DEF Scopes
<1> HIDE DEF Office, Edit
<1>6. SeedMatrix[p] \in {Office, Edit} \/ \E granted : SeedMatrix[p] = Cell(granted)
  BY <1>2 DEF Permissions, Office, Edit
<1> QED BY <1>3, <1>4, <1>5, <1>6

\* The counts stay within their limits, and an address whose count has a lifetime was counted.
CountersTyped ==
  /\ attempts \in [Sources -> 0..WakeLimit] /\ dated \subseteq {a \in Sources : attempts[a] > 0}
  /\ failures \in 0..FailLimit /\ stamped \in BOOLEAN

LEMMA InitSound == Init => Sound
<1> SUFFICES ASSUME Init PROVE Sound
  OBVIOUS
<1> USE GateAssumption
<1>1. row \in [LiveRoles -> RoleMap]
  BY SeedType DEF Init, RoleMap, Cells
<1>2. TypeOK
  <2>1. permCache \in [LiveRoles -> [hit: BOOLEAN, map: RoleMap]]
    BY MissType DEF Init
  <2>2. req \in [Requests -> Request]
    BY IdleType DEF Init
  <2>3. CountersTyped /\ changes \in 0..MaxChanges
    <3>1. 0 \in 0..WakeLimit /\ 0 \in 0..FailLimit /\ 0 \in 0..MaxChanges
      OBVIOUS
    <3>2. FALSE \in BOOLEAN
      OBVIOUS
    <3>3. attempts \in [Sources -> 0..WakeLimit] /\ dated = {}
      BY <3>1 DEF Init
    <3>4. stamped = FALSE
      BY DEF Init
    <3> QED BY <3>1, <3>2, <3>3, <3>4 DEF Init, CountersTyped
  <2>4. key \in [RecoveryKeys -> {"UNUSED", "ACTIVE", "RETIRED"}] /\ held \subseteq {k \in RecoveryKeys : key[k] # "UNUSED"}
    BY DEF Init
  <2>5. boot \in [pc: {"reading", "creating", "done"}, have: SUBSET (LiveRoles \X LiveKeys)]
    BY DEF Init
  <2>6. wakeShut \in BOOLEAN /\ mix \in Mixes /\ status \in {"ACTIVE", "LOCKED"}
        /\ statusCache \in {"MISS", "ACTIVE", "LOCKED"}
    BY DEF Init
  <2> QED BY <1>1, <2>1, <2>2, <2>3, <2>4, <2>5, <2>6 DEF TypeOK, CountersTyped
<1>3. LockedHasKey /\ RequestsOK
  BY DEF Init, LockedHasKey, RequestsOK, RequestOK, Idle
<1> QED BY <1>2, <1>3 DEF Sound

LEMMA RequestFacts ==
  ASSUME Sound, NEW s \in Requests
  PROVE  req[s] \in Request /\ RequestOK(req[s])
BY DEF Sound, TypeOK, RequestsOK

\* Keys are only added: an active key remains, though it need not be the same one.
KeysKept ==
  /\ ActiveKeys # {} => ActiveKeys' # {}
  /\ \A k \in RecoveryKeys : key[k] # "UNUSED" => key'[k] # "UNUSED"

\* A step that replaces one request and keeps the keys.
LEMMA AdvanceStep ==
  ASSUME Sound, KeysKept, NEW s \in Requests, NEW q \in Request, Advance(s, q), RequestOK(q)'
  PROVE  RequestsOK' /\ req' \in [Requests -> Request]
<1>1. req' \in [Requests -> Request]
  BY DEF Sound, TypeOK, Advance
<1>2. ASSUME NEW t \in Requests, NEW p, p = req'[t]
      PROVE  RequestOK(p)'
  <2>1. CASE t = s
    BY <1>2, <2>1 DEF Sound, TypeOK, Advance
  <2>2. CASE t # s
    <3>1. p = req[t] /\ RequestOK(p)
      BY <1>2, <2>2, RequestFacts DEF Sound, TypeOK, Advance
    <3>2. p.doomed \subseteq RecoveryKeys
      BY <3>1, RequestFacts DEF Request
    <3> QED BY <3>1, <3>2 DEF RequestOK, KeysKept
  <2> QED BY <2>1, <2>2
<1> QED BY <1>1, <1>2 DEF RequestsOK, RequestOK

\* The same for a step that leaves the keys alone, towards a phase that claims nothing of them.
LEMMA PlainStep ==
  ASSUME Sound, UNCHANGED key, NEW s \in Requests, NEW q \in Request, Advance(s, q),
         q.pc \notin {"locking", "making", "showing"}
  PROVE  RequestsOK' /\ req' \in [Requests -> Request]
BY AdvanceStep DEF KeysKept, ActiveKeys, RequestOK

\* A step that leaves the keys and the requests alone.
LEMMA QuietStep ==
  ASSUME Sound, UNCHANGED <<key, req>>
  PROVE  RequestsOK' /\ req' \in [Requests -> Request]
BY DEF Sound, TypeOK, RequestsOK, RequestOK, ActiveKeys
\* The tables, counters and caches are all a step leaves to show once its requests are done.
LEMMA TablesStep ==
  ASSUME Sound, req' \in [Requests -> Request], UNCHANGED mix,
         row' \in [LiveRoles -> RoleMap], permCache' \in [LiveRoles -> [hit: BOOLEAN, map: RoleMap]],
         status' \in {"ACTIVE", "LOCKED"}, statusCache' \in {"MISS", "ACTIVE", "LOCKED"},
         UNCHANGED wakeVars, UNCHANGED boot, UNCHANGED changes
  PROVE  TypeOK'
BY DEF Sound, TypeOK, wakeVars, counters

\* What stays locked keeps its key.
LEMMA LockedStep ==
  ASSUME Sound, KeysKept, status' = "LOCKED" => status = "LOCKED" \/ ActiveKeys # {}
  PROVE  LockedHasKey'
BY DEF Sound, LockedHasKey, KeysKept

LEMMA SameKeys ==
  ASSUME UNCHANGED key
  PROVE  KeysKept
BY DEF KeysKept, ActiveKeys

-----------------------------------------------------------------------------
(* Each action preserves the invariant                                     *)

\* A request comes in while the cache does not say the system is locked.
LEMMA ArriveSound ==
  ASSUME Sound, NEW s \in Requests, NEW op \in mix, NEW r \in LiveRoles, Arrive(s, op, r)
  PROVE  Sound'
<1> PICK q : q = [Idle EXCEPT !.pc = IF statusCache = "MISS" THEN "storing" ELSE "guarded",
                              !.op = op, !.role = r, !.status = status]
  OBVIOUS
<1>1. op \in Endpoints
  BY GateAssumption DEF Arrive, Sound, TypeOK
<1>2. q \in Request /\ q.pc \in {"storing", "guarded"}
  BY <1>1, IdleType DEF Request, Sound, TypeOK
<1>3. Advance(s, q) /\ UNCHANGED <<gateVars, wakeVars, boot, mix>>
  BY DEF Arrive
<1>4. RequestsOK' /\ req' \in [Requests -> Request]
  BY <1>2, <1>3, PlainStep DEF wakeVars, counters
<1>5. changes' \in 0..MaxChanges
  BY GateAssumption DEF Arrive, Room, Sound, TypeOK
<1>6. TypeOK'
  BY <1>3, <1>4, <1>5 DEF Sound, TypeOK, gateVars, wakeVars, counters
<1>7. LockedHasKey'
  BY <1>3, SameKeys, LockedStep DEF gateVars, wakeVars, counters
<1> QED BY <1>4, <1>6, <1>7 DEF Sound

\* The request that missed the cache stores what it has read.
LEMMA StoreStatusSound ==
  ASSUME Sound, NEW s \in Requests, StoreStatus(s)
  PROVE  Sound'
<1> PICK q : q = IF req[s].status = "LOCKED" THEN Idle ELSE [req[s] EXCEPT !.pc = "guarded"]
  OBVIOUS
<1>1. q \in Request /\ q.pc \in {"idle", "guarded"} /\ req[s].status \in {"ACTIVE", "LOCKED"}
  BY IdleType, RequestFacts DEF Request, Idle
<1>2. Advance(s, q) /\ statusCache' = req[s].status
      /\ UNCHANGED <<row, permCache, status, wakeVars, boot, mix, changes>>
  BY DEF StoreStatus
<1>3. RequestsOK' /\ req' \in [Requests -> Request]
  BY <1>1, <1>2, PlainStep DEF wakeVars, counters
<1>4. TypeOK'
  BY <1>1, <1>2, <1>3, TablesStep DEF Sound, TypeOK
<1>5. LockedHasKey'
  BY <1>2, SameKeys, LockedStep DEF wakeVars, counters
<1> QED BY <1>3, <1>4, <1>5 DEF Sound

\* What the guard decides on a map, its request is admitted or gone.
LEMMA JudgeStep ==
  ASSUME Sound, UNCHANGED key, NEW s \in Requests, NEW map, Judge(s, map)
  PROVE  RequestsOK' /\ req' \in [Requests -> Request]
<1> PICK q : q = IF Grants(map, PermissionOf[req[s].op])
                 THEN [req[s] EXCEPT !.pc = "admitted", !.map = NoMap, !.status = "ACTIVE"] ELSE Idle
  OBVIOUS
<1>1. q \in Request /\ q.pc \in {"idle", "admitted"}
  <2>1. NoMap \in RoleMap
    BY DEF NoMap, RoleMap, Cells
  <2> QED BY <2>1, IdleType, RequestFacts DEF Request, Idle
<1> QED BY <1>1, PlainStep DEF Judge

\* The guard decides by the cache, or reads the role's rows.
LEMMA GuardSound ==
  ASSUME Sound, NEW s \in Requests, Guard(s)
  PROVE  Sound'
<1> PICK q : q = [req[s] EXCEPT !.pc = "caching", !.map = row[req[s].role]]
  OBVIOUS
<1>1. q \in Request /\ q.pc = "caching"
  BY RequestFacts DEF Request, Sound, TypeOK
<1>2. UNCHANGED <<row, permCache, status, statusCache, key, wakeVars, boot, mix, changes>>
  BY DEF Guard, gateVars, wakeVars, counters
<1>3. RequestsOK' /\ req' \in [Requests -> Request]
  <2>1. Advance(s, q) \/ \E map : Judge(s, map)
    BY DEF Guard
  <2> QED BY <1>1, <1>2, <2>1, JudgeStep, PlainStep
<1>4. TypeOK'
  BY <1>2, <1>3, TablesStep DEF Sound, TypeOK
<1>5. LockedHasKey'
  BY <1>2, SameKeys, LockedStep
<1> QED BY <1>3, <1>4, <1>5 DEF Sound

\* The rows read after a miss go into the cache, and decide.
LEMMA CacheRowsSound ==
  ASSUME Sound, NEW s \in Requests, CacheRows(s)
  PROVE  Sound'
<1>1. UNCHANGED <<row, status, statusCache, key, wakeVars, boot, mix, changes>>
  BY DEF CacheRows, wakeVars, counters
<1>2. RequestsOK' /\ req' \in [Requests -> Request]
  BY <1>1, JudgeStep DEF CacheRows
<1>3. permCache' \in [LiveRoles -> [hit: BOOLEAN, map: RoleMap]]
  <2>1. [hit |-> TRUE, map |-> req[s].map] \in [hit: BOOLEAN, map: RoleMap]
    BY RequestFacts DEF Request
  <2> QED BY <2>1 DEF CacheRows, Sound, TypeOK
<1>4. TypeOK'
  BY <1>1, <1>2, <1>3, TablesStep DEF Sound, TypeOK
<1>5. LockedHasKey'
  BY <1>1, SameKeys, LockedStep
<1> QED BY <1>2, <1>4, <1>5 DEF Sound

\* A request that ends, whatever it was doing; the caches it has dropped are empty.
LEMMA DoneStep ==
  ASSUME Sound, NEW s \in Requests, Advance(s, Idle), UNCHANGED <<row, status, wakeVars, boot, mix, changes>>,
         permCache' \in [LiveRoles -> [hit: BOOLEAN, map: RoleMap]], statusCache' \in {"MISS", statusCache}
  PROVE  Sound'
<1>1. UNCHANGED key
  BY DEF wakeVars, counters
<1>2. RequestsOK' /\ req' \in [Requests -> Request]
  BY <1>1, IdleType, PlainStep DEF Idle
<1>3. TypeOK'
  BY <1>2, TablesStep DEF Sound, TypeOK
<1>4. LockedHasKey'
  BY <1>1, SameKeys, LockedStep
<1> QED BY <1>2, <1>3, <1>4 DEF Sound

LEMMA EndsSound ==
  ASSUME Sound, NEW s \in Requests, Serve(s) \/ Invalidate(s) \/ DropStatus(s) \/ Abandon(s)
  PROVE  Sound'
<1>1. CASE Serve(s) \/ Abandon(s)
  BY <1>1, DoneStep DEF Serve, Abandon, gateVars, Sound, TypeOK
<1>2. CASE DropStatus(s)
  BY <1>2, DoneStep DEF DropStatus, Sound, TypeOK
<1>3. CASE Invalidate(s)
  <2>1. permCache' \in [LiveRoles -> [hit: BOOLEAN, map: RoleMap]]
    BY <1>3, MissType DEF Invalidate, Sound, TypeOK
  <2> QED BY <1>3, <2>1, DoneStep DEF Invalidate
<1> QED BY <1>1, <1>2, <1>3
\* An editor's cell is a scope of a live role and permission.
LEMMA WriteCellSound ==
  ASSUME Sound, NEW s \in Requests, NEW e \in Edits, WriteCell(s, e)
  PROVE  Sound'
<1>1. e \in EditType
  BY GateAssumption
<1>2. CASE Advance(s, Idle) /\ row' = row
  BY <1>2, DoneStep DEF WriteCell, Sound, TypeOK
<1>3. CASE /\ row' = [row EXCEPT ![e.role][e.key] = e.cell]
           /\ Advance(s, [req[s] EXCEPT !.pc = "invalidating", !.edit = e])
  <2>1. [req[s] EXCEPT !.pc = "invalidating", !.edit = e] \in Request
        /\ [req[s] EXCEPT !.pc = "invalidating", !.edit = e].pc = "invalidating"
    BY <1>1, RequestFacts DEF Request
  <2>2. UNCHANGED <<permCache, status, statusCache, key, wakeVars, boot, mix, changes>>
    BY DEF WriteCell, wakeVars, counters
  <2>3. RequestsOK' /\ req' \in [Requests -> Request]
    BY <1>3, <2>1, <2>2, PlainStep
  <2>4. row' \in [LiveRoles -> RoleMap]
    BY <1>1, <1>3 DEF Sound, TypeOK, EditType, RoleMap, Cells
  <2>5. TypeOK'
    BY <2>2, <2>3, <2>4, TablesStep DEF Sound, TypeOK
  <2>6. LockedHasKey'
    BY <2>2, SameKeys, LockedStep
  <2> QED BY <2>3, <2>5, <2>6 DEF Sound
<1> QED BY <1>2, <1>3 DEF WriteCell

\* The boot-time sync writes default scopes.
LEMMA BootSound ==
  ASSUME Sound, BootRead \/ BootEnd \/ \E r \in LiveRoles, k \in LiveKeys : BootCreate(r, k)
  PROVE  Sound'
<1>1. UNCHANGED <<permCache, status, statusCache, key, wakeVars, req, mix, changes>>
  BY DEF BootRead, BootEnd, BootCreate, gateVars, wakeVars, counters
<1>2. row' \in [LiveRoles -> RoleMap]
  <2>1. ASSUME NEW r \in LiveRoles, NEW k \in LiveKeys, Seeded(r, k)
        PROVE  row' \in [LiveRoles -> RoleMap]
    <3>1. SeedMatrix[k][r] \in Cells
      BY SeedType, GateAssumption DEF Cells
    <3> QED BY <2>1, <3>1 DEF Seeded, Sound, TypeOK, RoleMap
  <2> QED BY <2>1 DEF BootRead, BootEnd, BootCreate, gateVars, Sound, TypeOK
<1>3. boot' \in [pc: {"reading", "creating", "done"}, have: SUBSET (LiveRoles \X LiveKeys)]
  <2>1. CASE BootRead \/ BootEnd
    BY <2>1 DEF BootRead, BootEnd
  <2>2. ASSUME NEW r \in LiveRoles, NEW k \in LiveKeys, BootCreate(r, k)
        PROVE  boot' \in [pc: {"reading", "creating", "done"}, have: SUBSET (LiveRoles \X LiveKeys)]
    <3>1. <<r, k>> \in LiveRoles \X LiveKeys
      OBVIOUS
    <3>2. boot' \in {[boot EXCEPT !.have = @ \cup {<<r, k>>}], [pc |-> "done", have |-> {}]}
      BY <2>2 DEF BootCreate
    <3> QED BY <3>1, <3>2 DEF Sound, TypeOK
  <2> QED BY <2>1, <2>2
<1>4. RequestsOK' /\ req' \in [Requests -> Request]
  BY <1>1, QuietStep
<1>5. TypeOK'
  BY <1>1, <1>2, <1>3, <1>4 DEF Sound, TypeOK, wakeVars, counters
<1>6. LockedHasKey'
  BY <1>1, SameKeys, LockedStep
<1> QED BY <1>4, <1>5, <1>6 DEF Sound

\* A lockdown goes on with an active key in the table.
LEMMA FindKeySound ==
  ASSUME Sound, NEW s \in Requests, FindKey(s)
  PROVE  Sound'
<1>1. CASE Advance(s, Idle)
  BY <1>1, DoneStep DEF FindKey, gateVars, Sound, TypeOK
<1>2. CASE ActiveKeys # {} /\ Advance(s, [req[s] EXCEPT !.pc = "locking"])
  <2> PICK q : q = [req[s] EXCEPT !.pc = "locking"]
    OBVIOUS
  <2>1. q \in Request /\ q.pc = "locking"
    BY RequestFacts DEF Request
  <2>2. UNCHANGED <<row, permCache, status, statusCache, key, wakeVars, boot, mix, changes>>
    BY DEF FindKey, gateVars, wakeVars, counters
  <2>3. KeysKept /\ RequestOK(q)'
    BY <1>2, <2>1, <2>2 DEF RequestOK, KeysKept, ActiveKeys
  <2>4. RequestsOK' /\ req' \in [Requests -> Request]
    BY <1>2, <2>1, <2>3, AdvanceStep
  <2>5. TypeOK'
    BY <2>2, <2>4, TablesStep DEF Sound, TypeOK
  <2>6. LockedHasKey'
    BY <2>2, <2>3, LockedStep
  <2> QED BY <2>4, <2>5, <2>6 DEF Sound
<1> QED BY <1>1, <1>2 DEF FindKey

\* The lockdown commits: the key it found, or one that replaced it, is still active.
LEMMA LockSound ==
  ASSUME Sound, NEW s \in Requests, Lock(s)
  PROVE  Sound'
<1>1. [req[s] EXCEPT !.pc = "locked"] \in Request /\ [req[s] EXCEPT !.pc = "locked"].pc = "locked"
  BY RequestFacts DEF Request
<1>2. UNCHANGED <<row, permCache, statusCache, key, wakeVars, boot, mix, changes>> /\ status' = "LOCKED"
  BY DEF Lock, wakeVars, counters
<1>3. RequestsOK' /\ req' \in [Requests -> Request]
  BY <1>1, <1>2, PlainStep DEF Lock
<1>4. TypeOK'
  BY <1>2, <1>3, TablesStep DEF Sound, TypeOK
<1>5. ActiveKeys # {}
  BY RequestFacts DEF Lock, At, RequestOK
<1>6. LockedHasKey'
  BY <1>2, <1>5, SameKeys, LockedStep
<1> QED BY <1>3, <1>4, <1>6 DEF Sound

\* The wake succeeds: nothing is claimed of an active system.
LEMMA WakeSound ==
  ASSUME Sound, NEW s \in Requests, Wake(s)
  PROVE  Sound'
<1>1. [req[s] EXCEPT !.pc = "clearing"] \in Request /\ [req[s] EXCEPT !.pc = "clearing"].pc = "clearing"
  BY RequestFacts DEF Request
<1>2. UNCHANGED <<row, permCache, statusCache, key, wakeVars, boot, mix, changes>> /\ status' = "ACTIVE"
  BY DEF Wake, wakeVars, counters
<1>3. RequestsOK' /\ req' \in [Requests -> Request]
  BY <1>1, <1>2, PlainStep DEF Wake
<1>4. TypeOK'
  BY <1>2, <1>3, TablesStep DEF Sound, TypeOK
<1>5. LockedHasKey'
  BY <1>2 DEF LockedHasKey
<1> QED BY <1>3, <1>4, <1>5 DEF Sound

\* A replacement remembers which keys it will retire.
LEMMA RetireKeysSound ==
  ASSUME Sound, NEW s \in Requests, RetireKeys(s)
  PROVE  Sound'
<1> PICK q : q = [req[s] EXCEPT !.pc = "making", !.doomed = ActiveKeys]
  OBVIOUS
<1>1. q \in Request /\ q.pc = "making" /\ q.doomed = ActiveKeys
  BY RequestFacts DEF Request, ActiveKeys
<1>2. UNCHANGED <<row, permCache, status, statusCache, key, wakeVars, boot, mix, changes>> /\ Advance(s, q)
  BY DEF RetireKeys, gateVars, wakeVars, counters
<1>3. RequestOK(q)' /\ KeysKept
  BY <1>1, <1>2, SameKeys DEF RequestOK, ActiveKeys
<1>4. RequestsOK' /\ req' \in [Requests -> Request]
  BY <1>1, <1>2, <1>3, AdvanceStep
<1>5. TypeOK'
  BY <1>2, <1>4, TablesStep DEF Sound, TypeOK
<1>6. LockedHasKey'
  BY <1>2, <1>3, LockedStep
<1> QED BY <1>4, <1>5, <1>6 DEF Sound

\* The new key is active as the doomed ones are retired, so some key is active throughout.
LEMMA CommitKeySound ==
  ASSUME Sound, NEW s \in Requests, NEW k \in RecoveryKeys, CommitKey(s, k)
  PROVE  Sound'
<1> PICK q : q = [req[s] EXCEPT !.pc = "showing", !.key = k, !.doomed = {}]
  OBVIOUS
<1>1. q \in Request /\ q.pc = "showing" /\ q.key = k
  BY RequestFacts DEF Request
<1>2. UNCHANGED <<row, permCache, status, statusCache, held, counters, wakeShut, boot, mix, changes>>
      /\ Advance(s, q)
  BY DEF CommitKey, gateVars, counters
<1>3. key' = [j \in RecoveryKeys |-> CASE j = k -> "ACTIVE"
                                       [] j \in req[s].doomed -> "RETIRED"
                                       [] OTHER -> key[j]]
  BY DEF CommitKey
<1>4. /\ key'[k] = "ACTIVE"
      /\ \A j \in RecoveryKeys : key'[j] \in {"ACTIVE", "RETIRED", key[j]}
  <2>1. k \notin req[s].doomed   \* it was not made yet when they were counted
    BY RequestFacts DEF CommitKey, At, RequestOK
  <2>2. key'[k] = "ACTIVE"
    BY <1>3, <2>1
  <2>3. ASSUME NEW j \in RecoveryKeys, j # k
        PROVE  key'[j] = IF j \in req[s].doomed THEN "RETIRED" ELSE key[j]
    BY <1>3, <2>3
  <2> QED BY <2>2, <2>3
<1>5. KeysKept
  BY <1>4 DEF KeysKept, ActiveKeys
<1>6. RequestOK(q)'
  BY <1>1, <1>4 DEF RequestOK
<1>7. RequestsOK' /\ req' \in [Requests -> Request]
  BY <1>1, <1>2, <1>5, <1>6, AdvanceStep
<1>8. key' \in [RecoveryKeys -> {"UNUSED", "ACTIVE", "RETIRED"}]
  BY <1>3, <1>4 DEF Sound, TypeOK
<1>9. held' \subseteq {j \in RecoveryKeys : key'[j] # "UNUSED"}
  BY <1>2, <1>5 DEF Sound, TypeOK, KeysKept
<1>10. TypeOK'
  BY <1>2, <1>7, <1>8, <1>9 DEF Sound, TypeOK, counters
<1>11. LockedHasKey'
  BY <1>2, <1>5, LockedStep
<1> QED BY <1>7, <1>10, <1>11 DEF Sound

\* The key that is shown was made.
LEMMA ShowKeySound ==
  ASSUME Sound, NEW s \in Requests, ShowKey(s)
  PROVE  Sound'
<1>1. /\ UNCHANGED <<row, permCache, status, statusCache, key, counters, wakeShut, boot, mix, changes>>
      /\ Advance(s, Idle) /\ held' = held \cup {req[s].key}
  BY DEF ShowKey, gateVars, counters
<1>2. RequestsOK' /\ req' \in [Requests -> Request]
  BY <1>1, IdleType, PlainStep DEF Idle
<1>3. held' \subseteq {j \in RecoveryKeys : key'[j] # "UNUSED"}
  BY <1>1, RequestFacts DEF ShowKey, At, RequestOK, Sound, TypeOK
<1>4. TypeOK'
  BY <1>1, <1>2, <1>3 DEF Sound, TypeOK, counters
<1>5. LockedHasKey'
  BY <1>1, SameKeys, LockedStep
<1> QED BY <1>2, <1>4, <1>5 DEF Sound

\* The wake counters stay within their limits, and the keys are not touched.
LEMMA CountersStep ==
  ASSUME Sound, req' \in [Requests -> Request], RequestsOK',
         UNCHANGED <<row, permCache, status, key, held, boot, mix, changes>>,
         statusCache' \in {"MISS", statusCache}, CountersTyped', wakeShut' \in BOOLEAN
  PROVE  Sound'
<1>1. TypeOK'
  BY DEF Sound, TypeOK, CountersTyped
<1>2. LockedHasKey'
  BY SameKeys, LockedStep
<1> QED BY <1>1, <1>2 DEF Sound

\* An attempt is counted up to the limit.
LEMMA TryWakeSound ==
  ASSUME Sound, NEW s \in Requests, NEW a \in Sources, NEW k \in {WrongKey} \cup held, TryWake(s, a, k)
  PROVE  Sound'
<1> PICK pc : pc = IF attempts[a] = 0 THEN "dating" ELSE "trying"
  OBVIOUS
<1> PICK q : q = IF attempts[a] >= WakeLimit THEN Idle
                 ELSE [Idle EXCEPT !.pc = pc, !.op = "WAKE", !.key = k, !.source = a]
  OBVIOUS
<1>1. k \in RecoveryKeys \cup {WrongKey}
  BY DEF Sound, TypeOK
<1>2. q \in Request /\ q.pc \in {"idle", "dating", "trying"}
  <2>1. Idle \in Request /\ Idle.pc = "idle" /\ "WAKE" \in Endpoints
    BY IdleType DEF Idle, Endpoints
  <2>2. [Idle EXCEPT !.pc = pc, !.op = "WAKE", !.key = k, !.source = a] \in Request
    BY <1>1, <2>1 DEF Request
  <2>3. [Idle EXCEPT !.pc = pc, !.op = "WAKE", !.key = k, !.source = a].pc = pc
    BY <2>1 DEF Request
  <2> QED BY <2>1, <2>2, <2>3
<1>3. /\ UNCHANGED <<row, permCache, status, statusCache, key, held, dated, failures, stamped, wakeShut, boot, mix, changes>>
      /\ Advance(s, q) /\ attempts' = [attempts EXCEPT ![a] = IF @ = WakeLimit THEN @ ELSE @ + 1]
  BY DEF TryWake, gateVars
<1>4. RequestsOK' /\ req' \in [Requests -> Request]
  BY <1>2, <1>3, PlainStep
<1>5. attempts' \in [Sources -> 0..WakeLimit] /\ \A b \in Sources : attempts'[b] >= attempts[b]
  BY <1>3, GateAssumption DEF Sound, TypeOK
<1>6. CountersTyped' /\ wakeShut' \in BOOLEAN
  <2>1. dated \subseteq {b \in Sources : attempts'[b] > 0}
    BY <1>5 DEF Sound, TypeOK
  <2> QED BY <1>3, <1>5, <2>1 DEF Sound, TypeOK, CountersTyped
<1> QED BY <1>3, <1>4, <1>6, CountersStep

\* Only what is counted gets a lifetime.
LEMMA LifetimeSound ==
  ASSUME Sound, NEW s \in Requests, DateAttempts(s) \/ StampFailures(s)
  PROVE  Sound'
<1>1. UNCHANGED <<row, permCache, status, statusCache, key, held, attempts, failures, wakeShut, boot, mix, changes>>
  BY DEF DateAttempts, StampFailures, gateVars
<1>2. \E q \in Request : q.pc \in {"trying", "shutting", "idle"} /\ Advance(s, q)
  <2>1. /\ Idle \in Request /\ Idle.pc = "idle"
        /\ \A pc \in {"trying", "shutting"} :
             [req[s] EXCEPT !.pc = pc] \in Request /\ [req[s] EXCEPT !.pc = pc].pc = pc
    BY RequestFacts, IdleType DEF Request, Idle
  <2> QED BY <2>1 DEF DateAttempts, StampFailures, Counted
<1>3. RequestsOK' /\ req' \in [Requests -> Request]
  BY <1>1, <1>2, PlainStep
<1>4. CountersTyped' /\ wakeShut' \in BOOLEAN
  <2>1. req[s].source \in Sources
    BY RequestFacts DEF Request
  <2>2. attempts \in [Sources -> 0..WakeLimit] /\ dated' \subseteq {a \in Sources : attempts[a] > 0}
    BY <2>1 DEF DateAttempts, StampFailures, Sound, TypeOK
  <2>3. failures \in 0..FailLimit
    BY DEF Sound, TypeOK
  <2>4. CASE DateAttempts(s)
    BY <1>1, <2>2, <2>3, <2>4 DEF DateAttempts, Sound, TypeOK, CountersTyped
  <2>5. CASE StampFailures(s)
    <3>1. stamped' \in BOOLEAN
      BY <2>5 DEF StampFailures
    <3> QED BY <1>1, <2>2, <2>3, <3>1 DEF Sound, TypeOK, CountersTyped
  <2> QED BY <2>4, <2>5
<1> QED BY <1>1, <1>3, <1>4, CountersStep

\* The comparison only moves its request on.
LEMMA VerifyKeySound ==
  ASSUME Sound, NEW s \in Requests, VerifyKey(s)
  PROVE  Sound'
<1> PICK pc : pc = IF Unlocks(req[s].key) THEN "waking" ELSE "failing"
  OBVIOUS
<1> PICK q : q = [req[s] EXCEPT !.pc = pc, !.key = WrongKey]
  OBVIOUS
<1>1. q \in Request /\ q.pc \in {"waking", "failing"}
  BY RequestFacts DEF Request
<1>2. UNCHANGED <<row, permCache, status, statusCache, wakeVars, boot, mix, changes>> /\ Advance(s, q)
  BY DEF VerifyKey, gateVars
<1>3. RequestsOK' /\ req' \in [Requests -> Request]
  BY <1>1, <1>2, PlainStep DEF wakeVars, counters
<1>4. TypeOK'
  BY <1>2, <1>3, TablesStep DEF Sound, TypeOK
<1>5. LockedHasKey'
  BY <1>2, SameKeys, LockedStep DEF wakeVars, counters
<1> QED BY <1>3, <1>4, <1>5 DEF Sound

\* A failure is counted up to the limit, and shuts the URL there.
LEMMA CountFailureSound ==
  ASSUME Sound, NEW s \in Requests, CountFailure(s)
  PROVE  Sound'
<1>1. UNCHANGED <<row, permCache, status, statusCache, key, held, attempts, dated, stamped, wakeShut, boot, mix, changes>>
      /\ failures' = IF failures = FailLimit THEN failures ELSE failures + 1
  BY DEF CountFailure, gateVars
<1>2. \E q \in Request : q.pc \in {"stamping", "shutting", "idle"} /\ Advance(s, q)
  <2>1. /\ Idle \in Request /\ Idle.pc = "idle"
        /\ \A pc \in {"stamping", "shutting"} :
             [req[s] EXCEPT !.pc = pc] \in Request /\ [req[s] EXCEPT !.pc = pc].pc = pc
    BY RequestFacts, IdleType DEF Request, Idle
  <2> QED BY <2>1 DEF CountFailure, Counted
<1>3. RequestsOK' /\ req' \in [Requests -> Request]
  BY <1>1, <1>2, PlainStep
<1>4. failures' \in 0..FailLimit /\ failures' > 0
  BY <1>1, GateAssumption DEF Sound, TypeOK
<1>5. CountersTyped' /\ wakeShut' \in BOOLEAN
  BY <1>1, <1>4 DEF Sound, TypeOK, CountersTyped
<1> QED BY <1>1, <1>3, <1>5, CountersStep

\* Shutting the URL and clearing the counters end their request.
LEMMA WakeEndsSound ==
  ASSUME Sound, NEW s \in Requests, ShutWake(s) \/ ClearWake(s)
  PROVE  Sound'
<1>1. /\ UNCHANGED <<row, permCache, status, key, held, boot, mix, changes>>
      /\ Advance(s, Idle) /\ statusCache' \in {"MISS", statusCache}
  BY DEF ShutWake, ClearWake, gateVars
<1>2. RequestsOK' /\ req' \in [Requests -> Request]
  BY <1>1, IdleType, PlainStep DEF Idle
<1>3. CountersTyped'
  <2>1. CASE ShutWake(s)
    BY <2>1 DEF ShutWake, counters, Sound, TypeOK, CountersTyped
  <2>2. CASE ClearWake(s)
    <3>1. /\ attempts' = [attempts EXCEPT ![req[s].source] = 0] /\ dated' = dated \ {req[s].source}
          /\ failures' = 0 /\ stamped' = FALSE
      BY <2>2 DEF ClearWake
    <3>2. 0 \in 0..WakeLimit /\ 0 \in 0..FailLimit
      BY GateAssumption
    <3>3. attempts' \in [Sources -> 0..WakeLimit] /\ dated' \subseteq {a \in Sources : attempts'[a] > 0}
      BY <3>1, <3>2 DEF Sound, TypeOK
    <3> QED BY <3>1, <3>2, <3>3 DEF CountersTyped
  <2> QED BY <2>1, <2>2
<1>4. wakeShut' \in BOOLEAN
  BY DEF ShutWake, ClearWake, Sound, TypeOK
<1> QED BY <1>1, <1>2, <1>3, <1>4, CountersStep

\* Entries expire towards what Init has in their place.
LEMMA ExpireSound ==
  ASSUME Sound, Expire
  PROVE  Sound'
<1>1. UNCHANGED <<row, status, key, held, boot, req, mix, changes>>
  BY DEF Expire, ExpireStatus, ExpirePerms, ExpireAttempts, ExpireFailures, ReopenWake, gateVars, wakeVars, counters
<1>2. RequestsOK' /\ req' \in [Requests -> Request]
  BY <1>1, QuietStep
<1>3. CASE \E r \in LiveRoles : ExpirePerms(r)
  <2>1. permCache' \in [LiveRoles -> [hit: BOOLEAN, map: RoleMap]]
    BY <1>3, MissType DEF ExpirePerms, Sound, TypeOK
  <2>2. TypeOK'
    BY <1>1, <1>2, <1>3, <2>1, TablesStep DEF ExpirePerms, Sound, TypeOK
  <2>3. LockedHasKey'
    BY <1>1, SameKeys, LockedStep
  <2> QED BY <1>2, <2>2, <2>3 DEF Sound
<1>4. CASE ExpireStatus \/ ExpireFailures \/ ReopenWake \/ \E a \in Sources : ExpireAttempts(a)
  <2>1. UNCHANGED permCache /\ statusCache' \in {"MISS", statusCache}
    BY <1>4 DEF ExpireStatus, ExpireAttempts, ExpireFailures, ReopenWake, gateVars
  <2>2. CountersTyped'
    <3>1. ASSUME NEW a \in Sources, ExpireAttempts(a)
          PROVE  CountersTyped'
      <4>1. attempts' = [attempts EXCEPT ![a] = 0] /\ dated' = dated \ {a} /\ UNCHANGED <<failures, stamped>>
        BY <3>1 DEF ExpireAttempts
      <4>2. attempts' \in [Sources -> 0..WakeLimit] /\ dated' \subseteq {b \in Sources : attempts'[b] > 0}
        BY <4>1, GateAssumption DEF Sound, TypeOK
      <4> QED BY <4>1, <4>2 DEF Sound, TypeOK, CountersTyped
    <3>2. CASE ExpireStatus \/ ReopenWake
      BY <3>2 DEF ExpireStatus, ReopenWake, wakeVars, counters, Sound, TypeOK, CountersTyped
    <3>3. CASE ExpireFailures
      <4>1. 0 \in 0..FailLimit
        BY GateAssumption
      <4> QED BY <3>3, <4>1 DEF ExpireFailures, Sound, TypeOK, CountersTyped
    <3> QED BY <1>4, <3>1, <3>2, <3>3
  <2>3. wakeShut' \in BOOLEAN
    BY <1>4 DEF ExpireStatus, ExpireAttempts, ExpireFailures, ReopenWake, wakeVars, counters, Sound, TypeOK
  <2> QED BY <1>1, <1>2, <2>1, <2>2, <2>3, CountersStep
<1> QED BY <1>3, <1>4 DEF Expire

-----------------------------------------------------------------------------
(* The theorems                                                            *)

\* The invariant is inductive.
LEMMA SoundStep == Sound /\ [Next]_vars => Sound'
<1> SUFFICES ASSUME Sound, [Next]_vars PROVE Sound'
  OBVIOUS
<1>1. CASE UNCHANGED vars
  <2>1. UNCHANGED <<row, permCache, status, statusCache, key, wakeVars, boot, req, mix, changes>>
    BY <1>1 DEF vars, gateVars, wakeVars, counters
  <2>2. RequestsOK' /\ req' \in [Requests -> Request]
    BY <2>1, QuietStep
  <2>3. TypeOK'
    BY <2>1, <2>2, TablesStep DEF Sound, TypeOK
  <2>4. LockedHasKey'
    BY <2>1, SameKeys, LockedStep
  <2> QED BY <2>2, <2>3, <2>4 DEF Sound
<1>2. ASSUME NEW s \in Requests, Ask(s)
      PROVE  Sound'
  <2>1. ASSUME NEW a \in Sources, NEW k \in {WrongKey} \cup (IF a = Owner THEN held ELSE {}), TryWake(s, a, k)
        PROVE  Sound'
    <3>1. k \in {WrongKey} \cup held
      OBVIOUS
    <3> QED BY <2>1, <3>1, TryWakeSound
  <2> QED BY <1>2, <2>1, ArriveSound DEF Ask
<1>3. ASSUME NEW s \in Requests, Work(s) \/ Abandon(s)
      PROVE  Sound'
  BY <1>3, StoreStatusSound, GuardSound, CacheRowsSound, EndsSound, WriteCellSound, FindKeySound,
     LockSound, RetireKeysSound, CommitKeySound, ShowKeySound, VerifyKeySound, CountFailureSound, LifetimeSound,
     WakeEndsSound, WakeSound DEF Work, Handle
<1> QED BY <1>1, <1>2, <1>3, BootSound, ExpireSound DEF Next

LEMMA SoundAlways == Spec => []Sound
BY InitSound, SoundStep, PTL DEF Spec

\* The tables, the caches, the counters and the requests keep their types: no cell holds
\* what is no scope, and no wake counter passes its limit.
THEOREM GateTypes == Spec => []TypeOK
BY SoundAlways, PTL DEF Sound

\* LockedHasKey: a locked system has an active recovery key at every moment, also while
\* several requests replace the keys and others lock the system.
THEOREM LockedHasKeyAlways == Spec => []LockedHasKey
BY SoundAlways, PTL DEF Sound

\* EditsStick: a cell that has a row is changed by an editor's request alone.
THEOREM EditsStickAlways == Spec => EditsStick
<1> DEFINE Kept == \A r \in LiveRoles, k \in LiveKeys :
             row[r][k] \notin {Absent, row'[r][k]} =>
               \E s \in Requests : req'[s].pc = "invalidating"
                 /\ req'[s].edit = [role |-> r, key |-> k, cell |-> row'[r][k]]
<1>1. ASSUME Sound, [Next]_vars
      PROVE  Kept
  <2> SUFFICES ASSUME NEW r \in LiveRoles, NEW k \in LiveKeys, row[r][k] \notin {Absent, row'[r][k]}
               PROVE  \E s \in Requests : req'[s].pc = "invalidating"
                        /\ req'[s].edit = [role |-> r, key |-> k, cell |-> row'[r][k]]
    OBVIOUS
  <2>1. ASSUME NEW p \in LiveRoles, NEW j \in LiveKeys, BootCreate(p, j)
        PROVE  FALSE
    <3>1. row[p] \in [LiveKeys -> Cells] /\ row \in [LiveRoles -> RoleMap]
      BY <1>1 DEF Sound, TypeOK, RoleMap
    <3>2. row[p][j] = Absent /\ row' = [row EXCEPT ![p][j] = SeedMatrix[j][p]]
      BY <2>1 DEF BootCreate, Seeded
    <3>3. CASE p = r /\ j = k
      BY <3>2, <3>3
    <3>4. CASE ~(p = r /\ j = k)
      BY <3>1, <3>2, <3>4 DEF RoleMap
    <3> QED BY <3>3, <3>4
  <2>2. ASSUME NEW s \in Requests, NEW e \in Edits, WriteCell(s, e)
        PROVE  /\ req'[s].pc = "invalidating"
               /\ req'[s].edit = [role |-> r, key |-> k, cell |-> row'[r][k]]
    <3>1. e \in EditType
      BY GateAssumption
    <3>2. row' = [row EXCEPT ![e.role][e.key] = e.cell]
          /\ Advance(s, [req[s] EXCEPT !.pc = "invalidating", !.edit = e])
      BY <2>2 DEF WriteCell
    <3>3. e.role = r /\ e.key = k /\ e.cell = row'[r][k]
      BY <1>1, <3>1, <3>2 DEF EditType, Sound, TypeOK, RoleMap
    <3>4. e = [role |-> r, key |-> k, cell |-> row'[r][k]]
      BY <3>1, <3>3 DEF EditType
    <3>5. req'[s] = [req[s] EXCEPT !.pc = "invalidating", !.edit = e]
      <4>1. req \in [Requests -> Request]
        BY <1>1 DEF Sound, TypeOK
      <4> QED BY <3>2, <4>1 DEF Advance
    <3> QED BY <1>1, <3>4, <3>5, RequestFacts DEF Request
  <2>3. CASE UNCHANGED row
    BY <2>3
  <2>4. \/ UNCHANGED row
        \/ \E p \in LiveRoles, j \in LiveKeys : BootCreate(p, j)
        \/ \E s \in Requests, e \in Edits : WriteCell(s, e)
    <3>1. ASSUME NEW s \in Requests, Ask(s) \/ StoreStatus(s) \/ Guard(s) \/ CacheRows(s) \/ Abandon(s)
          PROVE  UNCHANGED row
      BY <3>1 DEF Ask, Arrive, TryWake, StoreStatus, Guard, CacheRows, Abandon, gateVars
    <3>2. ASSUME NEW s \in Requests, Handle(s), ~ \E e \in Edits : WriteCell(s, e)
          PROVE  UNCHANGED row
      BY <3>2 DEF Handle, Serve, Invalidate, FindKey, Lock, DropStatus, RetireKeys, CommitKey, ShowKey,
         DateAttempts, VerifyKey, CountFailure, StampFailures, ShutWake, Wake, ClearWake, gateVars
    <3>3. BootRead \/ BootEnd \/ Expire => UNCHANGED row
      BY DEF BootRead, BootEnd, Expire, ExpireStatus, ExpirePerms, ExpireAttempts, ExpireFailures,
         ReopenWake, gateVars
    <3>4. UNCHANGED vars => UNCHANGED row
      BY DEF vars, gateVars
    <3> QED BY <1>1, <3>1, <3>2, <3>3, <3>4 DEF Next, Work
  <2> QED BY <2>1, <2>2, <2>3, <2>4
<1>2. Sound /\ [Next]_vars => [Kept]_vars
  BY <1>1
<1> QED BY <1>2, SoundAlways, PTL DEF Spec, EditsStick
=============================================================================
