---------------------------- MODULE RequestGate ----------------------------
(***************************************************************************)
(* What stands between a request and its handler besides its session: the  *)
(* blackout gate and the permission guard, both of which look in the cache *)
(* before they look in the database; and the four handlers that change     *)
(* what they look at: a matrix edit, a lockdown, a new recovery key, and   *)
(* the wake URL.  A cache miss is answered by a database read and stored   *)
(* afterwards, so whatever changes in between is overwritten in the cache  *)
(* by what was read before; only the time-to-live of the entry undoes it.  *)
(* The look into the cache and the read after a miss are one step: nothing *)
(* is decided in between, and what is stored is what the read returned.    *)
(* Audit entries are left out.                                             *)
(***************************************************************************)
EXTENDS Naturals, FiniteSets, PermissionMatrix

CONSTANTS
  Requests,       \* concurrently running handlers
  LiveRoles,      \* the roles and the permissions in use
  LiveKeys,
  NewKeys,        \* permissions this release ships, which have no rows yet
  Edits,          \* what an editor may write into the matrix
  Mixes,          \* the sets of endpoints that are used together; "BOOT" is the sync
  Sources,        \* addresses wake attempts come from
  Owner,          \* the one of the administrator who holds the recovery keys
  WakeLimit,      \* attempts per address and window (5 per 15 minutes)
  FailLimit,      \* failures that shut the wake URL (25 in an hour)
  MaxKeys,        \* bound: recovery keys ever made
  MaxChanges      \* bound: matrix edits and lockdowns

Absent == "ABSENT"  \* no row for the role and permission
Cells == Scopes \cup {Absent}
RoleMap == [LiveKeys -> Cells]
NoMap == [k \in LiveKeys |-> Absent]

RecoveryKeys == 1..MaxKeys  \* in order of creation
WrongKey == 0

Endpoints == {"WORK", "EDIT", "LOCK", "NEW_KEY", "WAKE"}
PermissionOf == [WORK |-> "view_own_leads", EDIT |-> "manage_permissions",
                 LOCK |-> "system_lockdown", NEW_KEY |-> "system_lockdown"]

EditType == [role: LiveRoles, key: LiveKeys, cell: Scopes]
NoEdit == [role |-> "ADMIN", key |-> "view_own_leads", cell |-> "DENIED"]

Request == [pc: {"idle", "storing", "guarded", "caching", "admitted",
                 "invalidating", "locking", "locked", "making", "showing",
                 "dating", "trying", "failing", "stamping", "shutting", "waking", "clearing"},
            op: Endpoints, role: LiveRoles, edit: EditType,
            status: {"ACTIVE", "LOCKED"}, map: RoleMap,
            key: RecoveryKeys \cup {WrongKey}, doomed: SUBSET RecoveryKeys, source: Sources]
Idle == [pc |-> "idle", op |-> "WORK", role |-> "ADMIN", edit |-> NoEdit,
         status |-> "ACTIVE", map |-> NoMap, key |-> WrongKey, doomed |-> {}, source |-> Owner]

ASSUME GateAssumption ==
  /\ LiveRoles \subseteq Roles /\ "ADMIN" \in LiveRoles
  /\ LiveKeys \subseteq Permissions /\ "view_own_leads" \in LiveKeys
  /\ Mixes \subseteq SUBSET (Endpoints \cup {"BOOT"})
  /\ \A mix \in Mixes, op \in DOMAIN PermissionOf : op \in mix => PermissionOf[op] \in LiveKeys
  /\ NewKeys \subseteq LiveKeys /\ Edits \subseteq EditType
  /\ Owner \in Sources
  /\ WakeLimit \in Nat \ {0} /\ FailLimit \in Nat \ {0}
  /\ MaxKeys \in Nat /\ MaxChanges \in Nat

VARIABLES
  row,          \* the permissions table
  permCache,    \* perm:role:*, per role
  status,       \* system_state
  statusCache,  \* system:state
  key,          \* recovery_keys
  held,         \* the keys whose raw form has reached the administrator
  attempts,     \* wake:attempts:*, per address
  dated,        \* the addresses whose count of attempts has a lifetime
  failures,     \* wake:global-fails
  stamped,      \* whether that count has a lifetime
  wakeShut,     \* wake:endpoint-locked
  boot,         \* the permission sync of the instance that starts
  req,
  mix,          \* the endpoints in use, never changed
  changes       \* edits and lockdowns so far, for the bound only

gateVars == <<row, permCache, status, statusCache>>
counters == <<attempts, dated, failures, stamped>>
wakeVars == <<key, held, counters, wakeShut>>
vars == <<gateVars, wakeVars, boot, req, mix, changes>>

TypeOK ==
  /\ row \in [LiveRoles -> RoleMap]
  /\ permCache \in [LiveRoles -> [hit: BOOLEAN, map: RoleMap]]
  /\ status \in {"ACTIVE", "LOCKED"}
  /\ statusCache \in {"MISS", "ACTIVE", "LOCKED"}
  /\ key \in [RecoveryKeys -> {"UNUSED", "ACTIVE", "RETIRED"}]
  /\ held \subseteq {k \in RecoveryKeys : key[k] # "UNUSED"}
  /\ attempts \in [Sources -> 0..WakeLimit]
  /\ dated \subseteq {a \in Sources : attempts[a] > 0}
  /\ failures \in 0..FailLimit
  /\ stamped \in BOOLEAN
  /\ wakeShut \in BOOLEAN
  /\ boot \in [pc: {"reading", "creating", "done"}, have: SUBSET (LiveRoles \X LiveKeys)]
  /\ req \in [Requests -> Request]
  /\ mix \in Mixes
  /\ changes \in 0..MaxChanges

Miss == [hit |-> FALSE, map |-> NoMap]

Init ==
  /\ row = [r \in LiveRoles |-> [k \in LiveKeys |-> IF k \in NewKeys THEN Absent ELSE SeedMatrix[k][r]]]
  /\ permCache = [r \in LiveRoles |-> Miss]
  /\ status = "ACTIVE" /\ statusCache = "MISS"
  /\ key = [k \in RecoveryKeys |-> "UNUSED"] /\ held = {}
  /\ attempts = [a \in Sources |-> 0] /\ dated = {}
  /\ failures = 0 /\ stamped = FALSE /\ wakeShut = FALSE
  /\ boot = [pc |-> "reading", have |-> {}]
  /\ req = [s \in Requests |-> Idle]
  /\ mix \in Mixes
  /\ changes = 0

-----------------------------------------------------------------------------
Advance(s, changed) == req' = [req EXCEPT ![s] = changed]
At(s, pc) == req[s].pc = pc

\* A permission without a row is not granted.
Grants(map, k) == map[k] \notin {"DENIED", Absent}
Judge(s, map) ==
  Advance(s, IF Grants(map, PermissionOf[req[s].op])
             THEN [req[s] EXCEPT !.pc = "admitted", !.map = NoMap, !.status = "ACTIVE"] ELSE Idle)

ActiveKeys == {k \in RecoveryKeys : key[k] = "ACTIVE"}

\* wake compares with the active key created last.
Unlocks(k) == k \in ActiveKeys /\ \A j \in ActiveKeys : j <= k

-----------------------------------------------------------------------------
(* The blackout gate: LockdownGate.handler, isLocked                       *)

\* Bounds: edits and lockdowns asked for, and keys left for those who ask for one.
Room(op) ==
  /\ op \in {"EDIT", "LOCK"} => changes < MaxChanges
  /\ op = "NEW_KEY" => Cardinality({t \in Requests : req[t].op = "NEW_KEY" /\ req[t].pc # "showing"})
                         < Cardinality({k \in RecoveryKeys : key[k] = "UNUSED"})

Arrive(s, op, r) ==
  /\ At(s, "idle") /\ op \in mix \ {"WAKE", "BOOT"} /\ Room(op)
  /\ statusCache # "LOCKED"
  /\ Advance(s, [Idle EXCEPT !.pc = IF statusCache = "MISS" THEN "storing" ELSE "guarded",
                             !.op = op, !.role = r, !.status = status])
  /\ changes' = IF op \in {"EDIT", "LOCK"} THEN changes + 1 ELSE changes
  /\ UNCHANGED <<gateVars, wakeVars, boot, mix>>

StoreStatus(s) ==
  /\ At(s, "storing")
  /\ statusCache' = req[s].status
  /\ Advance(s, IF req[s].status = "LOCKED" THEN Idle ELSE [req[s] EXCEPT !.pc = "guarded"])
  /\ UNCHANGED <<row, permCache, status, wakeVars, boot, mix, changes>>

(* The permission guard: PermissionsGuard, check, getRolePermissions       *)

Guard(s) ==
  LET r == req[s].role IN
  /\ At(s, "guarded")
  /\ IF permCache[r].hit THEN Judge(s, permCache[r].map)
     ELSE Advance(s, [req[s] EXCEPT !.pc = "caching", !.map = row[r]])
  /\ UNCHANGED <<gateVars, wakeVars, boot, mix, changes>>

CacheRows(s) ==
  /\ At(s, "caching")
  /\ permCache' = [permCache EXCEPT ![req[s].role] = [hit |-> TRUE, map |-> req[s].map]]
  /\ Judge(s, req[s].map)
  /\ UNCHANGED <<row, status, statusCache, wakeVars, boot, mix, changes>>

\* The handlers that change nothing modelled here.
Serve(s) ==
  /\ At(s, "admitted") /\ req[s].op = "WORK"
  /\ Advance(s, Idle)
  /\ UNCHANGED <<gateVars, wakeVars, boot, mix, changes>>

-----------------------------------------------------------------------------
(* updateCell: write the cell, then drop the role's cache entry            *)

Protected == {"manage_permissions", "system_lockdown"}

WriteCell(s, e) ==
  /\ At(s, "admitted") /\ req[s].op = "EDIT"
  /\ IF e.role = "ADMIN" /\ e.key \in Protected /\ e.cell = "DENIED"
     THEN Advance(s, Idle) /\ row' = row
     ELSE /\ row' = [row EXCEPT ![e.role][e.key] = e.cell]
          /\ Advance(s, [req[s] EXCEPT !.pc = "invalidating", !.edit = e])
  /\ UNCHANGED <<permCache, status, statusCache, wakeVars, boot, mix, changes>>

Invalidate(s) ==
  /\ At(s, "invalidating")
  /\ permCache' = [permCache EXCEPT ![req[s].edit.role] = Miss]
  /\ Advance(s, Idle)
  /\ UNCHANGED <<row, status, statusCache, wakeVars, boot, mix, changes>>

(* PermissionSyncService at boot: create the rows that were missing when it *)
(* looked.  The unique index refuses a row created meanwhile, and the sync  *)
(* ends there.  It invalidates no cache entry.                              *)

BootRead ==
  /\ boot.pc = "reading" /\ "BOOT" \in mix
  /\ boot' = [pc |-> "creating",
              have |-> {p \in LiveRoles \X LiveKeys : row[p[1]][p[2]] # Absent}]
  /\ UNCHANGED <<gateVars, wakeVars, req, mix, changes>>

Seeded(r, k) == row' = [row EXCEPT ![r][k] = SeedMatrix[k][r]]

\* Faulty: an upsert instead of a create.
BootUpsert(r, k) ==
  /\ boot.pc = "creating" /\ <<r, k>> \notin boot.have
  /\ Seeded(r, k)
  /\ boot' = [boot EXCEPT !.have = @ \cup {<<r, k>>}]
  /\ UNCHANGED <<permCache, status, statusCache, wakeVars, req, mix, changes>>

BootCreate(r, k) ==
  /\ boot.pc = "creating" /\ <<r, k>> \notin boot.have
  /\ IF row[r][k] = Absent
     THEN Seeded(r, k) /\ boot' = [boot EXCEPT !.have = @ \cup {<<r, k>>}]
     ELSE row' = row /\ boot' = [pc |-> "done", have |-> {}]
  /\ UNCHANGED <<permCache, status, statusCache, wakeVars, req, mix, changes>>

BootEnd ==
  /\ boot.pc = "creating" /\ boot.have = LiveRoles \X LiveKeys
  /\ boot' = [pc |-> "done", have |-> {}]
  /\ UNCHANGED <<gateVars, wakeVars, req, mix, changes>>

-----------------------------------------------------------------------------
(* lockdown: refused while no recovery key is active                       *)

\* Faulty: no key is asked for.
LockUnasked(s) ==
  /\ At(s, "admitted") /\ req[s].op = "LOCK"
  /\ Advance(s, [req[s] EXCEPT !.pc = "locking"])
  /\ UNCHANGED <<gateVars, wakeVars, boot, mix, changes>>

FindKey(s) ==
  /\ At(s, "admitted") /\ req[s].op = "LOCK"
  /\ Advance(s, IF ActiveKeys = {} THEN Idle ELSE [req[s] EXCEPT !.pc = "locking"])
  /\ UNCHANGED <<gateVars, wakeVars, boot, mix, changes>>

Lock(s) ==
  /\ At(s, "locking")
  /\ status' = "LOCKED"
  /\ Advance(s, [req[s] EXCEPT !.pc = "locked"])
  /\ UNCHANGED <<row, permCache, statusCache, wakeVars, boot, mix, changes>>

DropStatus(s) ==
  /\ At(s, "locked")
  /\ statusCache' = "MISS"
  /\ Advance(s, Idle)
  /\ UNCHANGED <<row, permCache, status, wakeVars, boot, mix, changes>>

(* generateRecoveryKey: one transaction retires the keys it finds active   *)
(* and creates the new one; the raw key is shown in the answer only.       *)

\* Faulty: the old keys are retired in a transaction of their own.
RetireKeysAtOnce(s) ==
  /\ At(s, "admitted") /\ req[s].op = "NEW_KEY"
  /\ key' = [k \in RecoveryKeys |-> IF key[k] = "ACTIVE" THEN "RETIRED" ELSE key[k]]
  /\ Advance(s, [req[s] EXCEPT !.pc = "making"])
  /\ UNCHANGED <<gateVars, held, counters, wakeShut, boot, mix, changes>>

RetireKeys(s) ==
  /\ At(s, "admitted") /\ req[s].op = "NEW_KEY"
  /\ Advance(s, [req[s] EXCEPT !.pc = "making", !.doomed = ActiveKeys])
  /\ UNCHANGED <<gateVars, wakeVars, boot, mix, changes>>

CommitKey(s, k) ==
  /\ At(s, "making")
  /\ key[k] = "UNUSED" /\ \A j \in 1..(k - 1) : key[j] # "UNUSED"
  /\ key' = [j \in RecoveryKeys |-> CASE j = k -> "ACTIVE"
                                      [] j \in req[s].doomed -> "RETIRED"
                                      [] OTHER -> key[j]]
  /\ Advance(s, [req[s] EXCEPT !.pc = "showing", !.key = k, !.doomed = {}])
  /\ UNCHANGED <<gateVars, held, counters, wakeShut, boot, mix, changes>>

ShowKey(s) ==
  /\ At(s, "showing")
  /\ held' = held \cup {req[s].key}
  /\ Advance(s, Idle)
  /\ UNCHANGED <<gateVars, key, counters, wakeShut, boot, mix, changes>>

-----------------------------------------------------------------------------
(* wake: public, and the only path past the gate                           *)

\* Faulty: attempts are counted and never refused.
TryWakeUnlimited(s, a, k) ==
  /\ At(s, "idle") /\ "WAKE" \in mix
  /\ ~wakeShut
  /\ attempts' = [attempts EXCEPT ![a] = @ + 1]
  /\ Advance(s, [Idle EXCEPT !.pc = "trying", !.op = "WAKE", !.key = k, !.source = a])
  /\ UNCHANGED <<gateVars, key, held, dated, failures, stamped, wakeShut, boot, mix, changes>>

\* CacheService.incrWithTtl on an address's count: INCR, and EXPIRE when it gave one;
\* the counts need not be told apart beyond the limits.
TryWake(s, a, k) ==
  /\ At(s, "idle") /\ "WAKE" \in mix
  /\ ~wakeShut
  /\ attempts' = [attempts EXCEPT ![a] = IF @ = WakeLimit THEN @ ELSE @ + 1]
  /\ Advance(s, IF attempts[a] >= WakeLimit THEN Idle
                ELSE [Idle EXCEPT !.pc = IF attempts[a] = 0 THEN "dating" ELSE "trying",
                                  !.op = "WAKE", !.key = k, !.source = a])
  /\ UNCHANGED <<gateVars, key, held, dated, failures, stamped, wakeShut, boot, mix, changes>>

\* A count that has been deleted meanwhile gets no lifetime.
DateAttempts(s) ==
  /\ At(s, "dating")
  /\ dated' = IF attempts[req[s].source] > 0 THEN dated \cup {req[s].source} ELSE dated
  /\ Advance(s, [req[s] EXCEPT !.pc = "trying"])
  /\ UNCHANGED <<gateVars, key, held, attempts, failures, stamped, wakeShut, boot, mix, changes>>

VerifyKey(s) ==
  /\ At(s, "trying")
  /\ Advance(s, [req[s] EXCEPT !.pc = IF Unlocks(req[s].key) THEN "waking" ELSE "failing", !.key = WrongKey])
  /\ UNCHANGED <<gateVars, wakeVars, boot, mix, changes>>

\* The wake URL is shut from the FailLimit-th failure on.
Counted(s, n) == Advance(s, IF n >= FailLimit THEN [req[s] EXCEPT !.pc = "shutting"] ELSE Idle)

CountFailure(s) ==
  /\ At(s, "failing")
  /\ failures' = IF failures = FailLimit THEN failures ELSE failures + 1
  /\ IF failures = 0 THEN Advance(s, [req[s] EXCEPT !.pc = "stamping"]) ELSE Counted(s, failures')
  /\ UNCHANGED <<gateVars, key, held, attempts, dated, stamped, wakeShut, boot, mix, changes>>

StampFailures(s) ==
  /\ At(s, "stamping")
  /\ stamped' = (failures > 0)
  /\ Counted(s, 1)
  /\ UNCHANGED <<gateVars, key, held, attempts, dated, failures, wakeShut, boot, mix, changes>>

ShutWake(s) ==
  /\ At(s, "shutting")
  /\ wakeShut' = TRUE
  /\ Advance(s, Idle)
  /\ UNCHANGED <<gateVars, key, held, counters, boot, mix, changes>>

Wake(s) ==
  /\ At(s, "waking")
  /\ status' = "ACTIVE"
  /\ Advance(s, [req[s] EXCEPT !.pc = "clearing"])
  /\ UNCHANGED <<row, permCache, statusCache, wakeVars, boot, mix, changes>>

ClearWake(s) ==
  /\ At(s, "clearing")
  /\ statusCache' = "MISS"
  /\ attempts' = [attempts EXCEPT ![req[s].source] = 0] /\ dated' = dated \ {req[s].source}
  /\ failures' = 0 /\ stamped' = FALSE
  /\ Advance(s, Idle)
  /\ UNCHANGED <<row, permCache, status, key, held, wakeShut, boot, mix, changes>>

-----------------------------------------------------------------------------
(* Time-to-live of the cache entries                                       *)

\* Faulty: the entry is stored for ever.
StatusStays == statusCache # "MISS" /\ UNCHANGED vars
ExpireStatus ==
  /\ statusCache # "MISS" /\ statusCache' = "MISS"
  /\ UNCHANGED <<row, permCache, status, wakeVars, boot, req, mix, changes>>

PermsStay(r) == permCache[r].hit /\ UNCHANGED vars
ExpirePerms(r) ==
  /\ permCache[r].hit /\ permCache' = [permCache EXCEPT ![r] = Miss]
  /\ UNCHANGED <<row, status, statusCache, wakeVars, boot, req, mix, changes>>

\* A count without a lifetime does not expire.
ExpireAttempts(a) ==
  /\ a \in dated /\ dated' = dated \ {a}
  /\ attempts' = [attempts EXCEPT ![a] = 0]
  /\ UNCHANGED <<gateVars, key, held, failures, stamped, wakeShut, boot, req, mix, changes>>

ExpireFailures ==
  /\ stamped /\ stamped' = FALSE /\ failures' = 0
  /\ UNCHANGED <<gateVars, key, held, attempts, dated, wakeShut, boot, req, mix, changes>>

ReopenWake ==
  /\ wakeShut /\ wakeShut' = FALSE
  /\ UNCHANGED <<gateVars, key, held, counters, boot, req, mix, changes>>

\* A failed statement, a crash, or an answer that is lost, a new key with it.
Abandon(s) ==
  /\ ~At(s, "idle")
  /\ Advance(s, Idle)
  /\ UNCHANGED <<gateVars, wakeVars, boot, mix, changes>>

-----------------------------------------------------------------------------
Handle(s) ==
  \/ Serve(s) \/ Invalidate(s) \/ \E e \in Edits : WriteCell(s, e)
  \/ FindKey(s) \/ Lock(s) \/ DropStatus(s)
  \/ RetireKeys(s) \/ \E k \in RecoveryKeys : CommitKey(s, k)
  \/ ShowKey(s)
  \/ DateAttempts(s) \/ VerifyKey(s) \/ CountFailure(s) \/ StampFailures(s) \/ ShutWake(s)
  \/ Wake(s) \/ ClearWake(s)

Work(s) ==
  \/ StoreStatus(s) \/ Guard(s) \/ CacheRows(s)
  \/ Handle(s)

Ask(s) ==
  \/ \E op \in mix, r \in LiveRoles : Arrive(s, op, r)
  \/ \E a \in Sources : \E k \in {WrongKey} \cup (IF a = Owner THEN held ELSE {}) : TryWake(s, a, k)

Expire ==
  \/ ExpireStatus \/ ExpireFailures \/ ReopenWake
  \/ \E r \in LiveRoles : ExpirePerms(r)
  \/ \E a \in Sources : ExpireAttempts(a)

Next ==
  \/ \E s \in Requests : Ask(s) \/ Work(s) \/ Abandon(s)
  \/ BootRead \/ BootEnd \/ \E r \in LiveRoles, k \in LiveKeys : BootCreate(r, k)
  \/ Expire

Spec == Init /\ [][Next]_vars

\* The administrator takes the newest key to the wake URL again in a later window,
\* and the attempt is not cut short each time.
OwnerTries(s) == \E k \in held : Unlocks(k) /\ attempts[Owner] < WakeLimit /\ TryWake(s, Owner, k)
OwnerVerifies(s) == Unlocks(req[s].key) /\ VerifyKey(s)

\* Every cache entry with a lifetime expires; a handler under way is scheduled again.
FairSpec ==
  /\ Spec
  /\ \A s \in Requests : WF_vars(Work(s))
  /\ WF_vars(ExpireStatus) /\ WF_vars(ExpireFailures) /\ WF_vars(ReopenWake)
  /\ \A r \in LiveRoles : WF_vars(ExpirePerms(r))
  /\ \A a \in Sources : WF_vars(ExpireAttempts(a))
  /\ SF_vars(\E s \in Requests : OwnerTries(s))
  /\ SF_vars(\E s \in Requests : OwnerVerifies(s))
  /\ SF_vars(\E s \in Requests : Wake(s))

-----------------------------------------------------------------------------
(* Properties                                                              *)

\* "Disabled until an active key exists": a locked system has an active recovery
\* key at every moment, also while another request replaces the keys.
LockedHasKey == status = "LOCKED" => ActiveKeys # {}

\* "The Admin owns the live matrix": the boot-time sync, which decides on the rows
\* it saw earlier, overwrites no cell an editor has written meanwhile.
EditsStick ==
  [][\A r \in LiveRoles, k \in LiveKeys :
       row[r][k] \notin {Absent, row'[r][k]} =>
         \E s \in Requests : req'[s].pc = "invalidating" /\ req'[s].edit = [role |-> r, key |-> k, cell |-> row'[r][k]]]_vars

\* An edit of the matrix governs every request in the end: what a reader stored
\* from before the edit, or a crash left uninvalidated, does not outlive its entry.
EditsTakeHold ==
  <>[](\A r \in LiveRoles : permCache[r].hit => permCache[r].map = row[r])

\* Likewise a lockdown blacks out every request in the end, and a wake lifts it,
\* whatever a request that read the state earlier has stored in the cache.
LockTakesHold == <>[](statusCache \in {"MISS", status})

\* What keeps the administrator out for good: the answer with the newest key was lost
\* after the transaction that retired the one before, or the process stopped between the
\* two commands of a count that has reached its limit.
ShutOut ==
  \/ \E k \in RecoveryKeys :
       Unlocks(k) /\ k \notin held /\ \A s \in Requests : At(s, "showing") => req[s].key # k
  \/ /\ attempts[Owner] >= WakeLimit /\ Owner \notin dated
     /\ \A s \in Requests : At(s, "dating") => req[s].source # Owner

\* After its last lockdown the system wakes and stays awake, or one of those two is the
\* reason that it does not: neither other people's wrong keys, nor the limits they run
\* into, nor a key replaced at the same time, nor any other crash keep it locked.
LockedSystemWakes == <>[](status = "ACTIVE" \/ ShutOut)

\* The same without the two exceptions, which the code does not keep.
AlwaysWakes == <>[](status = "ACTIVE")
=============================================================================
