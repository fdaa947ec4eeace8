------------------------------ MODULE Lookups ------------------------------
(***************************************************************************)
(* Everything that asks an outside provider about a person, and the call   *)
(* gate that rests on one of the answers: the person search, the           *)
(* enrichment of a lead with its identity match and its compliance         *)
(* snapshot, the regulated background report with its switch, the          *)
(* settings of the providers, the in-house opt-out list, and the check     *)
(* before a call is logged.  Handlers interleave at every await: a paid    *)
(* call is decided on counts of usage rows that are written only after the *)
(* call was answered and its answer stored.  Who may see a lead is         *)
(* LeadCard's; what the answers contain is Dossier's; usage rows of cache  *)
(* hits, which nothing counts, audit entries and notifications are left    *)
(* out, and so is the phone number's format.                               *)
(***************************************************************************)
EXTENDS Naturals, FiniteSets

CONSTANTS
  Requests,        \* concurrently running handlers
  Phones,          \* the numbers looked up; an enriched lead goes by its number
  Providers,       \* provider_settings rows
  Verifier,        \* the one of them that also does identity matches (TWILIO)
  Implemented,     \* those with an adapter in the registry
  CredentialFree,  \* those that run without credentials (MOCK, LEADTRACE_ENGINE)
  OnSearch,        \* runOnSearch
  Level,           \* enrichLevel, a function on Providers: 1 to 3, cheap to deep
  Price,           \* costPerSearchCents, a function on Providers
  SpendCap,        \* dailySpendCapCents, likewise; 0 is none
  Limit,           \* dailyRequestLimit, likewise; 0 is none
  EnrichCap,       \* enrichment_daily_cap_cents; 0 is none
  Mixes,           \* what is used together: operations, and enrich levels of the users
  Updates,         \* what the administrator may send for a provider
  MaxExpiries,     \* bound: times a cache entry expires in a day
  MaxChanges       \* bound: provider updates, opt-out edits and settings changes

Kinds == {"search", "enrich", "idmatch"}  \* the prefix of a cache and usage key
Keys == Kinds \X Providers \X Phones
Ops == {"SEARCH", "ENRICH", "CALL", "LIST", "REPORT", "CONFIGURE", "PROVIDER"}

\* A provider's row as far as activation looks at it.
ProviderSetting == [active: BOOLEAN, key: BOOLEAN, attested: BOOLEAN]
UpdateDto == [code: Providers, isActive: {"TRUE", "FALSE", "KEEP"}, key: BOOLEAN, attested: BOOLEAN]

Task == [kind: Kinds, code: Providers]
NoTask == [kind |-> "search", code |-> Verifier]

Request == [pc: {"idle", "next", "spend", "limit", "call", "store", "record",
                 "comply", "scrub", "save", "gate", "log", "attestation", "report", "file", "attest"},
            op: Ops, phone: Phones, todo: SUBSET Task, task: Task,
            blocked: BOOLEAN,   \* ENRICH: a listing was seen; CALL: the snapshot says so
            listed: BOOLEAN,    \* CALL: the number has been on the list all along
            attested: BOOLEAN]  \* CONFIGURE: the attestation it carries is long enough
Idle == [pc |-> "idle", op |-> "SEARCH", phone |-> CHOOSE n \in Phones : TRUE, todo |-> {},
         task |-> NoTask, blocked |-> FALSE, listed |-> FALSE, attested |-> FALSE]

ASSUME LookupsAssumption ==
  /\ IsFiniteSet(Requests) /\ Requests # {} /\ Phones # {}
  /\ Verifier \in Providers /\ IsFiniteSet(Providers)
  /\ Implemented \subseteq Providers /\ CredentialFree \subseteq Providers
  /\ OnSearch \subseteq Providers /\ Level \in [Providers -> 1..3]
  /\ Price \in [Providers -> Nat] /\ SpendCap \in [Providers -> Nat] /\ Limit \in [Providers -> Nat]
  /\ EnrichCap \in Nat
  /\ Mixes \subseteq [ops: SUBSET Ops, levels: SUBSET (1..3)] /\ Updates \subseteq UpdateDto
  /\ MaxExpiries \in Nat /\ MaxChanges \in Nat

VARIABLES
  setting,    \* provider_settings
  cache,      \* search_cache: the keys with an answer that has not expired
  usage,      \* provider_usage: today's live rows, per kind and provider
  optout,     \* dnc_optouts
  snapshot,   \* lead_enrichments.complianceData: what the last enrichment found
  regulated,  \* app_settings: the switch and the attestation of background reports
  req,
  stored,     \* answers stored under a key since it last expired, for CacheFirst
  mix,        \* what is in use, never changed
  expiries, changes  \* for the bounds only

tableVars == <<setting, cache, usage, optout, snapshot, regulated>>
vars == <<tableVars, req, stored, mix, expiries, changes>>

TypeOK ==
  /\ setting \in [Providers -> ProviderSetting]
  /\ \A p \in Providers : setting[p].active => p \in Implemented /\ setting[p].attested
                                               /\ (setting[p].key \/ p \in CredentialFree)
  /\ cache \subseteq Keys
  /\ usage \in [Kinds \X Providers -> Nat]
  /\ optout \subseteq Phones
  /\ snapshot \in [Phones -> {"NONE", "CALLABLE", "BLOCKED"}]
  /\ regulated \in [enabled: BOOLEAN, attested: BOOLEAN]
  /\ req \in [Requests -> Request]
  /\ stored \in [Keys -> Nat]
  /\ mix \in Mixes
  /\ expiries \in 0..MaxExpiries /\ changes \in 0..MaxChanges

\* Every provider the catalog ships is in service but those an update will activate.
Init ==
  /\ mix \in Mixes
  /\ setting = [p \in Providers |->
                  LET ready == p \in Implemented \ {u.code : u \in {u \in Updates : "PROVIDER" \in mix.ops /\ u.isActive = "TRUE"}}
                  IN  [active |-> ready, key |-> ready, attested |-> ready]]
  /\ cache = {} /\ usage = [k \in Kinds \X Providers |-> 0]
  /\ optout = {} /\ snapshot = [n \in Phones |-> "NONE"]
  /\ regulated = [enabled |-> FALSE, attested |-> FALSE]
  /\ req = [r \in Requests |-> Idle]
  /\ stored = [k \in Keys |-> 0]
  /\ expiries = 0 /\ changes = 0

-----------------------------------------------------------------------------
At(r, pc) == req[r].pc = pc
Set(r, new) == req' = [req EXCEPT ![r] = new]
Goto(r, pc) == req' = [req EXCEPT ![r].pc = pc]
TaskDone(r) == req' = [req EXCEPT ![r].pc = "next", ![r].task = NoTask]
KeyOf(r) == <<req[r].task.kind, req[r].task.code, req[r].phone>>
Changing == changes < MaxChanges /\ changes' = changes + 1

Active == {p \in Providers : setting[p].active}

\* liveCallsToday and spentTodayCents count a provider's rows of every kind ...
Calls(p) == usage[<<"search", p>>] + usage[<<"enrich", p>>] + usage[<<"idmatch", p>>]
SpentBy(p) == Price[p] * Calls(p)

\* ... and enrichmentSpendTodayCents the rows of every provider under `enrich:`
\* (and `dnc:`, which nothing writes), but not those under `idmatch:`.
\* A sum over a finite set counts its units, each told apart by whom it comes from.
Units(f, S) == UNION {{p} \X (1..f[p]) : p \in S}
Sum(f, S) == Cardinality(Units(f, S))
EnrichSpent == Sum([p \in Providers |-> Price[p] * usage[<<"enrich", p>>]], Providers)

-----------------------------------------------------------------------------
(* Which providers are asked                                               *)

\* searchPerson: every active provider flagged runOnSearch that has an adapter.
Search(r, n) ==
  LET asked == Active \cap OnSearch \cap Implemented
  IN  /\ "SEARCH" \in mix.ops /\ asked # {}
      /\ Set(r, [Idle EXCEPT !.pc = "next", !.op = "SEARCH", !.phone = n,
                             !.todo = [kind: {"search"}, code: asked]])

\* enrich: every active provider within the user's enrich level, and then, when the
\* verifier is one of them, its identity match.
Enrich(r, n, level) ==
  LET active == {p \in Active : Level[p] <= level}
  IN  /\ "ENRICH" \in mix.ops
      /\ Set(r, [Idle EXCEPT !.pc = "next", !.op = "ENRICH", !.phone = n,
                             !.todo = [kind: {"enrich"}, code: active \cap Implemented]
                                        \cup [kind: {"idmatch"}, code: active \cap {Verifier}]])

\* The cache first: a hit costs nothing and ends this provider's part.
Turns(r) == {t \in req[r].todo : t.kind = "idmatch" => req[r].todo = {t}}

\* Faulty: the cache is filled but not looked at.
LookPast(r) ==
  /\ At(r, "next")
  /\ \E t \in Turns(r) : Set(r, [req[r] EXCEPT !.todo = @ \ {t}, !.task = t, !.pc = "spend"])
  /\ UNCHANGED <<tableVars, stored, mix, expiries, changes>>

Look(r) ==
  /\ At(r, "next")
  /\ \E t \in Turns(r) :
       Set(r, IF <<t.kind, t.code, req[r].phone>> \in cache
              THEN [req[r] EXCEPT !.todo = @ \ {t}]
              ELSE [req[r] EXCEPT !.todo = @ \ {t}, !.task = t, !.pc = "spend"])
  /\ UNCHANGED <<tableVars, stored, mix, expiries, changes>>

-----------------------------------------------------------------------------
(* One paid call: caps, limit, the call, the cache, the usage row          *)

\* searchPerson refuses what would go past the provider's own cap, the
\* enrichment what comes after its common cap is used up.  The price is asked
\* of an enrichment only (enrichViaProvider), not of an identity match.
\* Faulty: the enrichments stop after the cap was passed, not when it is reached.
OverCapLate(t) ==
  CASE t.kind = "search"  -> SpendCap[t.code] > 0 /\ SpentBy(t.code) + Price[t.code] > SpendCap[t.code]
    [] t.kind = "enrich"  -> Price[t.code] > 0 /\ EnrichCap > 0 /\ EnrichSpent > EnrichCap
    [] t.kind = "idmatch" -> EnrichCap > 0 /\ EnrichSpent > EnrichCap
OverCap(t) ==
  CASE t.kind = "search"  -> SpendCap[t.code] > 0 /\ SpentBy(t.code) + Price[t.code] > SpendCap[t.code]
    [] t.kind = "enrich"  -> Price[t.code] > 0 /\ EnrichCap > 0 /\ EnrichSpent >= EnrichCap
    [] t.kind = "idmatch" -> EnrichCap > 0 /\ EnrichSpent >= EnrichCap

CheckSpend(r) ==
  /\ At(r, "spend")
  /\ IF OverCap(req[r].task) THEN TaskDone(r) ELSE Goto(r, "limit")
  /\ UNCHANGED <<tableVars, stored, mix, expiries, changes>>

\* cachedPaidCall takes the limit of the first active row it finds, not the verifier's.
\* Faulty: off by one.
OverLimitLate(p) == Limit[p] > 0 /\ Calls(p) > Limit[p]
OverLimit(p) == Limit[p] > 0 /\ Calls(p) >= Limit[p]
Limiters(t) == IF t.kind # "idmatch" THEN {t.code} ELSE Active

CheckLimit(r) ==
  /\ At(r, "limit")
  /\ \/ /\ \E p \in Limiters(req[r].task) : OverLimit(p)
        /\ TaskDone(r)
     \/ /\ \/ Limiters(req[r].task) = {}
           \/ \E p \in Limiters(req[r].task) : ~OverLimit(p)
        /\ Goto(r, "call")
  /\ UNCHANGED <<tableVars, stored, mix, expiries, changes>>

LiveCall(r) ==
  /\ At(r, "call")
  /\ Goto(r, "store")
  /\ UNCHANGED <<tableVars, stored, mix, expiries, changes>>

StoreAnswer(r) ==
  /\ At(r, "store")
  /\ cache' = cache \cup {KeyOf(r)}
  /\ stored' = [stored EXCEPT ![KeyOf(r)] = @ + 1]
  /\ Goto(r, "record")
  /\ UNCHANGED <<setting, usage, optout, snapshot, regulated, mix, expiries, changes>>

RecordUsage(r) ==
  /\ At(r, "record")
  /\ usage' = [usage EXCEPT ![<<req[r].task.kind, req[r].task.code>>] = @ + 1]
  /\ TaskDone(r)
  /\ UNCHANGED <<setting, cache, optout, snapshot, regulated, stored, mix, expiries, changes>>

\* Whatever throws on the way, the adapter or a statement, ends this provider's part
\* only: a call that fails is neither stored nor counted, and one whose answer
\* was stored may go uncounted.
Skip(r) ==
  /\ req[r].pc \in {"spend", "limit", "call", "store", "record"}
  /\ TaskDone(r)
  /\ UNCHANGED <<tableVars, stored, mix, expiries, changes>>

\* No provider is left: a search answers, an enrichment goes on.
Asked(r) ==
  /\ At(r, "next") /\ req[r].todo = {}
  /\ IF req[r].op = "SEARCH" THEN Set(r, Idle) ELSE Goto(r, "comply")
  /\ UNCHANGED <<tableVars, stored, mix, expiries, changes>>

-----------------------------------------------------------------------------
(* Compliance and the call gate                                            *)

\* buildCompliance reads the opt-out table twice: for the internal status, where any
\* listing blocks, and for the scrub, where only one with the litigator flag does.
\* When it fails the snapshot says not callable, whatever the table holds.
Comply(r) ==
  /\ At(r, "comply")
  /\ \/ Set(r, [req[r] EXCEPT !.pc = "scrub", !.blocked = req[r].phone \in optout])
     \/ Set(r, [req[r] EXCEPT !.pc = "save", !.blocked = TRUE])
  /\ UNCHANGED <<tableVars, stored, mix, expiries, changes>>

Scrub(r) ==
  /\ At(r, "scrub")
  /\ \E litigator \in BOOLEAN :
       Set(r, [req[r] EXCEPT !.pc = "save", !.blocked = @ \/ (litigator /\ req[r].phone \in optout)])
  /\ UNCHANGED <<tableVars, stored, mix, expiries, changes>>

\* The upsert of the enrichment.
SaveSnapshot(r) ==
  /\ At(r, "save")
  /\ snapshot' = [snapshot EXCEPT ![req[r].phone] = IF req[r].blocked THEN "BLOCKED" ELSE "CALLABLE"]
  /\ Set(r, Idle)
  /\ UNCHANGED <<setting, cache, usage, optout, regulated, stored, mix, expiries, changes>>

\* ActivitiesController.log for a CALL: isCallable reads the lead with its
\* snapshot, then the list, and the activity is created afterwards.
Call(r, n) ==
  /\ "CALL" \in mix.ops
  /\ Set(r, [Idle EXCEPT !.pc = "gate", !.op = "CALL", !.phone = n,
                         !.blocked = snapshot[n] = "BLOCKED", !.listed = n \in optout])

\* Faulty: the snapshot is trusted alone.
BarredBySnapshot(r) == req[r].blocked
Barred(r) == req[r].blocked \/ req[r].phone \in optout

Gate(r) ==
  /\ At(r, "gate")
  /\ IF Barred(r) THEN Set(r, Idle) ELSE Goto(r, "log")
  /\ UNCHANGED <<tableVars, stored, mix, expiries, changes>>

LogCall(r) ==
  /\ At(r, "log")
  /\ Set(r, Idle)
  /\ UNCHANGED <<tableVars, stored, mix, expiries, changes>>

\* dncAdd and dncRemove; a call in progress is no longer one to a number that
\* was listed throughout.
DncAdd(n) ==
  /\ "LIST" \in mix.ops /\ n \notin optout /\ Changing
  /\ optout' = optout \cup {n}
  /\ UNCHANGED <<setting, cache, usage, snapshot, regulated, req, stored, mix, expiries>>

DncRemove(n) ==
  /\ "LIST" \in mix.ops /\ n \in optout /\ Changing
  /\ optout' = optout \ {n}
  /\ req' = [r \in Requests |-> IF req[r].phone = n THEN [req[r] EXCEPT !.listed = FALSE] ELSE req[r]]
  /\ UNCHANGED <<setting, cache, usage, snapshot, regulated, stored, mix, expiries>>

-----------------------------------------------------------------------------
(* Settings: providers and the regulated-data module                       *)

\* ProvidersController.update.  The row it validates against is read before the
\* transaction, but credentials and attestation are never taken back.
\* Faulty: activation without an attestation on file.
MayActivateAnyway(u) ==
  /\ u.code \in Implemented
  /\ u.code \in CredentialFree \/ setting[u.code].key \/ u.key

MayActivate(u) ==
  /\ u.code \in Implemented
  /\ u.code \in CredentialFree \/ setting[u.code].key \/ u.key
  /\ setting[u.code].attested \/ u.attested

UpdateProvider(u) ==
  /\ "PROVIDER" \in mix.ops /\ Changing
  /\ u.isActive = "TRUE" => MayActivate(u)
  /\ setting' = [setting EXCEPT ![u.code] =
                   [active |-> IF u.isActive = "KEEP" THEN @.active ELSE u.isActive = "TRUE",
                    key |-> @.key \/ u.key, attested |-> @.attested \/ u.attested]]
  /\ UNCHANGED <<cache, usage, optout, snapshot, regulated, req, stored, mix, expiries>>

\* configure writes the switch and then the attestation, in two statements.
Configure(r, enabled, attested) ==
  /\ "CONFIGURE" \in mix.ops /\ Changing
  /\ enabled => attested
  /\ regulated' = [regulated EXCEPT !.enabled = enabled]
  /\ Set(r, [Idle EXCEPT !.pc = "attest", !.op = "CONFIGURE", !.attested = attested])
  /\ UNCHANGED <<setting, cache, usage, optout, snapshot, stored, mix, expiries>>

Attest(r) ==
  /\ At(r, "attest")
  /\ regulated' = [regulated EXCEPT !.attested = req[r].attested]
  /\ Set(r, Idle)
  /\ UNCHANGED <<setting, cache, usage, optout, snapshot, stored, mix, expiries, changes>>

\* run: the switch, the attestation, the report, its row.
Report(r, n) ==
  /\ "REPORT" \in mix.ops /\ regulated.enabled
  /\ Set(r, [Idle EXCEPT !.pc = "attestation", !.op = "REPORT", !.phone = n])

CheckAttestation(r) ==
  /\ At(r, "attestation")
  /\ IF regulated.attested THEN Goto(r, "report") ELSE Set(r, Idle)
  /\ UNCHANGED <<tableVars, stored, mix, expiries, changes>>

BackgroundReport(r) ==
  /\ At(r, "report")
  /\ \/ Goto(r, "file")
     \/ Set(r, Idle)
  /\ UNCHANGED <<tableVars, stored, mix, expiries, changes>>

FileReport(r) ==
  /\ At(r, "file")
  /\ Set(r, Idle)
  /\ UNCHANGED <<tableVars, stored, mix, expiries, changes>>

-----------------------------------------------------------------------------
(* Time and crashes                                                        *)

Expire(k) ==
  /\ k \in cache /\ expiries < MaxExpiries
  /\ cache' = cache \ {k}
  /\ stored' = [stored EXCEPT ![k] = 0]
  /\ expiries' = expiries + 1
  /\ UNCHANGED <<setting, usage, optout, snapshot, regulated, req, mix, changes>>

\* The counts are of rows since the start of the day.
Midnight ==
  /\ usage # [k \in Kinds \X Providers |-> 0]
  /\ usage' = [k \in Kinds \X Providers |-> 0]
  /\ expiries' = 0
  /\ UNCHANGED <<setting, cache, optout, snapshot, regulated, req, stored, mix, changes>>

\* A handler ends where it stands, by an error of its own or with the process; what it wrote stays.
Abandon(r) ==
  /\ ~At(r, "idle")
  /\ Set(r, Idle)
  /\ UNCHANGED <<tableVars, stored, mix, expiries, changes>>

Begin(r) ==
  /\ At(r, "idle")
  /\ \E n \in Phones :
       \/ Search(r, n) \/ Call(r, n) \/ Report(r, n)
       \/ \E level \in mix.levels : Enrich(r, n, level)
  /\ UNCHANGED <<tableVars, stored, mix, expiries, changes>>

Paid(r) == Look(r) \/ CheckSpend(r) \/ CheckLimit(r) \/ LiveCall(r) \/ StoreAnswer(r) \/ RecordUsage(r) \/ Skip(r)

Next ==
  \/ \E r \in Requests :
       \/ Begin(r) \/ Paid(r) \/ Asked(r) \/ Abandon(r)
       \/ Comply(r) \/ Scrub(r) \/ SaveSnapshot(r) \/ Gate(r) \/ LogCall(r)
       \/ At(r, "idle") /\ \E e, a \in BOOLEAN : Configure(r, e, a)
       \/ Attest(r) \/ CheckAttestation(r) \/ BackgroundReport(r) \/ FileReport(r)
  \/ \E n \in Phones : DncAdd(n) \/ DncRemove(n)
  \/ \E u \in Updates : UpdateProvider(u)
  \/ \E k \in Keys : Expire(k)
  \/ Midnight

Spec == Init /\ [][Next]_vars

-----------------------------------------------------------------------------
(* Properties                                                              *)

PastLimit == {"call", "store", "record"}
PastCap == PastLimit \cup {"limit"}
Charging(pcs, kinds, p) ==
  {r \in Requests : req[r].pc \in pcs /\ req[r].task.kind \in kinds /\ req[r].task.code = p}
InFlight(pcs, kinds, p) == Cardinality(Charging(pcs, kinds, p))
Concurrency == Cardinality(Requests)

\* A provider's own searches and enrichments, without the verifier's identity matches.
Live(p) == usage[<<"search", p>>] + usage[<<"enrich", p>>]

\* A provider with a daily request limit is searched and asked by enrichments at most as
\* often as the limit allows plus once for every other handler that was past its check
\* at the time, over whatever order of cache reads, counts, calls, stores, failures,
\* crashes and midnights (cachedPaidCall: the counts are of rows written after the
\* call).  Left out are identity matches, which are held against the limit of
\* whichever active provider is found first.
LimitOvershoot ==
  \A p \in Providers : Limit[p] > 0 =>
    Live(p) + InFlight(PastLimit, {"search", "enrich"}, p) < Limit[p] + Concurrency

\* What an enrichment under way has yet to record, and whom enrichments may ask at all.
Pending == [r \in Requests |-> IF req[r].pc \in PastCap /\ req[r].task.kind = "enrich"
                              THEN Price[req[r].task.code] ELSE 0]
AskedByEnrich == {p \in Providers : \E level \in mix.levels : Level[p] <= level}

\* The money goes past a cap by one call of each concurrent handler and no more: the
\* searches of a provider by less than its price for each (searchPerson refuses what
\* would not fit), and all enrichments together by less than the dearest
\* provider's price for each, not for each and provider (enrichViaProvider looks
\* at what was spent before every one of them).
SearchOvershoot ==
  \A p \in Providers : SpendCap[p] > 0 /\ Price[p] > 0 =>
    Price[p] * (usage[<<"search", p>>] + InFlight(PastCap, {"search"}, p))
      <= SpendCap[p] + Price[p] * (Concurrency - 1)
EnrichOvershoot ==
  \A dearest \in AskedByEnrich :
    EnrichCap > 0 /\ (\A q \in AskedByEnrich : Price[q] <= Price[dearest]) =>
      EnrichSpent + Sum(Pending, Requests) < EnrichCap + Price[dearest] * Concurrency
SpendOvershoot == SearchOvershoot /\ EnrichOvershoot

\* "Cache-first, always": while an answer is fresh it is not paid for again,
\* except by handlers that had missed before it was stored.
CacheFirst == \A k \in Keys : stored[k] <= Concurrency

\* A call to a number that was on the opt-out list the whole time it was being
\* logged is refused, whatever the enrichment snapshot says and whichever
\* enrichments and edits of the list run meanwhile.
ListedIsBlocked == \A r \in Requests : At(r, "log") => ~req[r].listed

\* A claim of the code (the identity match is "spend-capped"): its cost, with
\* that of the enrichments, stays below the cap up to what runs concurrently.
IdentityMatchCapped ==
  \A dearest \in AskedByEnrich :
    EnrichCap > 0 /\ (\A q \in AskedByEnrich : Price[q] <= Price[dearest]) =>
      EnrichSpent + Price[Verifier] * usage[<<"idmatch", Verifier>>]
        < EnrichCap + Price[dearest] * Concurrency
=============================================================================
