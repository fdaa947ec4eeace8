# LeadTrace: specification, model checking and proofs

LeadTrace is a web CRM for a calling operation: a NestJS back end over
PostgreSQL (through Prisma) and an optional Redis cache, with a React front end.
Leads are created by agents and travel a three-tier call chain, Agent, Sr Agent,
Closer; between tiers they wait in the managers' bucket. This directory holds
TLA+ specifications of the back end's core, their TLC instances, and TLAPS
proofs. Paths below are relative to the repository's root.

## 1. Inventory

All state lives in PostgreSQL rows; the process keeps none besides a cache. Every
endpoint is an asynchronous handler, so two requests interleave at every `await`,
and transactions run at PostgreSQL's default READ COMMITTED, with no
`SELECT ... FOR UPDATE` anywhere. "Read, check, then update by id" is therefore the pattern
behind most hazards.

| Component | State | Operations | Hard part | What makes it correct |
|---|---|---|---|---|
| Call chain (`routing/`) | `leads` (status, tier, assignee), `routing_queue`, `routing_history`, `audit_log` | direct transfer, request transfer, close, send back, route / bulk route, reopen | stale checks before by-id writes, two routers on one row, notifications after the commit | no lead is stranded, history and audit agree with the lead, offices are kept, closed leads stay closed |
| Permission matrix (`permissions/`) | `permissions` rows, cached map per role | check, edit a cell, boot sync | reader re-installs a stale map after the invalidation; sync against editors | an edit takes effect and sticks |
| Leads (`leads/`) | contact data, phones | create, update, list | duplicate check outside the transaction | owner and office from birth |
| Desk sessions (`desks/`, `activities/`) | `desks`, `desk_sessions`, `activities` | clock in / out, assign, force complete, log a call | check-then-insert at READ COMMITTED, transactions that deadlock on each other's rows | one seat per user, one user per seat, takeovers told and audited |
| Aging alerts (`routing/aging.scheduler.ts`) | `aging_alert_at` | cron every 5 minutes | crash between notify and update | every stale row is announced, once |
| Auth (`auth/`; `api.ts`, `auth.tsx`, `SessionSwitch.tsx` in the browser) | session keys in the cache, `batch_sessions`, tokens in the browser | login, refresh, logout, quick session start / end / revoke | cache and row written apart; a parked login; a page's calls and their shared refresh overlap, also with its reload | nobody acts as a colleague under another name; the parked login comes back; a revoked session dies |
| Lockdown (`lockdown/`) | `system_state`, `recovery_keys`, cached flag, wake counters | lock, wake, new key | flag read before, cached after a lock; counters anyone can fill | a locked system serves nobody and can be woken |
| Enrichment and DNC (`enrichment/`, `background/`) | `lead_enrichments`, `dnc_optouts`, `provider_usage`, `score_weights` | enrich, verify, score, gate a call, regulated report | cap checked before and counted after the paid call; a snapshot older than the list | no call to an opted-out number; bounded overspend; the score explains itself |
| Search, providers (`search/`, `providers/`) | `search_cache`, `provider_settings` | search, activate a provider | concurrent spending; answers of ten adapters merged by number | cache first; caps hold; no match is lost |
| Lead card: access blocks, comments, custom fields, work statuses, phone | one table each | block, comment, define, set | delete races a use; status of the wrong tier | the card agrees with the lead, watchers are told |
| Offices, settings, system, reports, pages of the front end | rows, host commands, views | CRUD and reading | none of their own | |

Interactions: every request passes two global guards (token, then permission with
its scope); routing calls the notification and audit services inside or after its
transaction; logging a call asks the DNC gate and the desk service; the aging cron
reads the routing queue; cache and rows are written separately.

## 2. Modules

| Module | Models | Used by |
|---|---|---|
| `PermissionMatrix` | the default role-permission matrix (30 keys) and the scope of a cell | `CallChain`, `RequestGate`, `LeadCard` |
| `CallChain` | the routing service with lead creation, account edits and notifications | `MCCallChain`, `CallChainProofs` |
| `AssignmentLedger` | abstract specification: who holds a lead, explained by an append-only ledger | refined by `CallChain` (`Ledger`) |
| `CallChainProofs` | what holds of `CallChain` under every interleaving, while accounts keep their office, and while requests run one after another; its refinement of the ledger | |
| `DeskSessions` | desk sessions, statement by statement, and the seat of a call | `MCDeskSessions` |
| `RequestGate` | the blackout gate, the permission guard, matrix edits, the boot-time sync, lockdown, recovery keys, the wake URL | `MCRequestGate` |
| `ScreenSessions` | one browser's tokens, the overlapping calls of its pages, and the sessions behind them: login, refresh, logout, quick sessions | checked directly |
| `Lookups` | paid lookups behind cache, cap and limit; compliance snapshot, opt-out list and call gate; provider settings; regulated reports | `MCLookups` |
| `ProviderAdapters` | pure operators: what each adapter makes of its provider's answer | `Dossier` |
| `Dossier` | one enrichment or search from the answers to the stored dossier or the shown list | `MCDossier` |
| `LeadCard` | one lead's phone, work status, custom field, comments, blocks and notices, while roles and rights change | `MCLeadCard` |
| `DeskSessionsProofs`, `RequestGateProofs`, `ScreenSessionsProofs`, `LookupsProofs`, `DossierProofs`, `LeadCardProofs` | the theorems about the module each is named for | |
| `FoldTheorems` | what a loop over an array preserves and brings about, whatever its body: theorems on the library's `FoldLeft` | `DossierProofs` |
| `MC*` | the TLC instances: sets, functions and symmetry | the runs |

The modules meet at the guards (`PermissionMatrix` is what the guards of all of them
read), at the lead (`LeadCard`'s `Transfer` is `CallChain`'s move as one step) and at the
paid call (`Lookups` decides whether a provider is asked, `Dossier` what its answer is
worth).

### CallChain

State: `lead`, `queue`, `history`, `audit` and `inbox` are the tables (per lead,
in insertion order, where only the order per lead matters), `user` the accounts,
`req` the handlers in flight. A handler is a record with a program counter:

    idle -> admitted -> [targeted ->] [checked ->] ready -> [notify ->] idle

`Admit` is the two guards: the account is active, its role holds the endpoint's
permission, and the scope it was granted travels with the request. The `Read`
actions are the handler's awaited reads together with the checks that follow
without an await; what they read (recipient's role, the lead's assignee) is kept
in the request and used later although it may be stale. A `Commit` action is the
whole transaction. It writes by id and looks at no status again, as in the
code. The transactions of `directTransfer`, `closeLead`, `requestTransfer`,
`sendBack` and `reopen` start by updating the lead's row and hold its lock until
they commit, so they are one step; `routeOne` also reads inside its transaction,
which is why it has reads (`ReadQueueRow`, `CheckRoute`) apart from its
`CommitRoute`. `Notify` is what follows the commit. `Abandon` ends a request at
any point: a failed check, a database error or a crash; what its earlier
transactions committed stays (a bulk routing stopped half-way).

Abstractions. Names, notes, phones, activity rows and timestamps are left out. The
audit action `LEAD_CLOSED` with its outcome is two actions, `LEAD_CLOSED_WON` and
`LEAD_CLOSED_LOST`. A bulk routing takes its rows in any order. The two office reads
of `routeOne` are one step, and the calls to the notification service after one commit
are one step. The work status a move clears is `LeadCard`'s. `T1_TO_SS` exists in the
schema and the tables but no handler raises it any more (`requestTransfer` refuses the
AGENT tier).

### DeskSessions

State: `session` (the rows), `deskOn`, `told`, `audit`, `calls`, `req`. clockIn and
assignSeat are one action per statement: `ReadOwn`, `CloseOwn`, `ReadSeat`,
`TakeSeat`, `OpenSeat`. What a transaction writes becomes visible in its commit,
so the writes are applied by `OpenSeat`; from the update until the commit its
rows are locked (`Held`), and a statement that wants a locked row waits
(`BlockedBy`). Two transactions that wait for each other are resolved by the
database, which fails one of them (`DeadlockAbort`). clockOut and forceComplete
are a read and an update by id; their notification and audit entry, like those of
assignSeat, come after the commit and a crash may lose them.

### RequestGate

State: `row` and `permCache` (the matrix and its cached map per role), `status` and
`statusCache` (the lockdown flag and its cached copy), `key` and `held` (recovery keys in
order of creation, and those whose raw form reached the administrator), the two wake
counters and whether each has a lifetime (`dated`, `stamped`), the shut-down of the wake
URL, the sync of a starting instance, and the requests. A request passes
`LockdownGate` (`Arrive`, `StoreStatus`), the permission guard (`Guard`, `CacheRows`) and
then its handler. A cache miss and the read that answers it are one step, what is read is
stored in a later one: that is the window in which an edit or a lockdown is overwritten in
the cache. `generateRecoveryKey` is one transaction of two statements at READ COMMITTED,
so `RetireKeys` fixes which keys it retires and `CommitKey` applies both; the raw key
reaches the administrator in the answer (`ShowKey`) or never. A counter is incremented and
given its lifetime in two steps, as `incrWithTtl` does on Redis (`TryWake` and
`DateAttempts`, `CountFailure` and `StampFailures`). `Abandon` ends a request wherever it
stands: between the two commands of a counter, or with the key committed and the answer
lost. `Mixes` are the sets of endpoints used together in one behaviour.

### ScreenSessions

State: on the server `session` (the cache entries), `lapsed` and `row` (`batch_sessions`);
on the client `disk` (localStorage), `mem` (a tab's variables), what the tab shows,
whether it offers the session menu or the banner (`menu`; `busy` while a start is under
way), and which tabs' pages have asked to be reloaded (`leaving`); `MaxCalls` calls per tab
side by side, each with its own program counter; the refresh of the page a tab has and the
one of the page it left; and the owner's revocation.

A call is `Send`, `Authenticate`, and then its handler. What its answer does in the page is
one step, since JavaScript runs it without an await. A 401 (`Denied`) ends a quick session,
if there is one, or begins a refresh or joins the one in flight (`AskRefresh`); when that is
answered (`Rotate`, `RefreshFails`), all that waited go on. So two calls answered 401, the
banner beside a poll, or a refresh that was sent before a quick session began are
behaviours of the model. `startBatchSession` is `OpenBatch` (cache entry), `RecordBatch`
(row), `TellOwner`, `EnterBatch` (the answer, the parked login, the request to reload);
`endBatchSession` and `revokeBatchSession` are found, written and dropped in three steps,
and `LeaveBatch` restores the login. A page goes on between `location.reload()` and its
unloading, its polls only; then `Reload` loads the next one (`LoadPage`, `FirstCall`), and
the server completes what the old page no longer waits for (`Orphaned`, `lost`). `Fail` is a
call that fails on the way or a server that stops between two steps.

Abstractions. An answer is handled when the server gives it. A failed call that clears the
tokens after it has ended a quick session does so in that step. A refused login is left out;
its 401 is treated by `api` like that of any call. A 401 that comes between the answer of a refresh and the reset of
`refreshInFlight` (`api.ts:125`) counts as having joined it. A page's switch is the one
drawn, or the one it would draw now.

### Lookups, ProviderAdapters, Dossier

`Lookups` has the requests that overlap. A request keeps the set of providers still to be
asked (`todo`); each of them is looked up in the cache (`Look`), held against cap
(`CheckSpend`) and limit (`CheckLimit`), called, stored and counted, one awaited statement
per action, and `Skip` is the `catch` that ends one provider's part only. The rest of an
enrichment is `Comply`, `Scrub` and `SaveSnapshot`; a logged call is `Call`, `Gate`
and `LogCall`. Money is in cents per row, counts are functions on providers; a sum over
providers is the cardinality of its units (`Sum`), which the proofs can reason about.

`Dossier` takes one request at a time and has the data instead. An `Answer` says what a
provider knows of the person: which numbers it lists (the lead's own, another, junk), line
type, whether the number is good, whether the rest is known, who owns the property, a
match score. `ProviderAdapters` translates the ten adapters (and the two synthetic ones)
into operators from answers to enrichments and matches; `Dossier` merges them
(`mergeEnrichments`, `mergeMatches`), verifies, places, scores and stores. `Histories` are
the counts of won and closed leads, from which the conversion takes its base rate once
ten are closed. Percentages are integers, and rounding is that of `Math.round`. The loops
over arrays are folds; the stable sorts and filters are `Arranged`, the positions asked for, those of higher key first and
then the earlier ones. `MaxShown` is the number of matches a search shows at most, 25 in the
code. The code pushes an item per rule on a list,
each rule once; here the items are a function on the rules, nil where no item was pushed.

### LeadCard

State: the users' roles and the permission matrix; the lead's assignee, tier, work status
and primary phone; the primary phone's own row; the stages of the work-status rows and of
the custom field; the field's value, the blocks, who worked the lead; and the requests. A
request checks, reads the list it picks from, writes, records and tells in separate steps;
it decides on role and rights as they are when it begins, as the guard and the access checks
do. Every account is an active one. `stale` and `overtaken` only remember whether the lead
changed between a request's read and its write, so that the properties can speak of the
writes that were not overtaken; `since` is who has watched the lead ever since the write.

## 3. Runs

| Run | Instance | Shows |
|---|---|---|
| `chain_races` | 1 lead, 2 queue rows, 2 handlers, 4 accounts, seven endpoints, the Sr Agent promoted at any time, 3 audit entries before the last admission | types, `NoStrandedLead`, `AssigneeIsLastHop`, `AuditExplainsStatus`, `RoutedRowHasHop`, `TruthfulNotices`, `TierFollowsPoint` survive every race |
| `chain_one_by_one` | 1 handler, 3 rows, 5 audit entries, all eight endpoints | `HopChain`, `OneHopPerRow`: what the code gives up only to races |
| `chain_offices` | 2 offices, 5 accounts, 1 lead, 2 rows, 2 handlers; create, direct, request, route; 4 audit entries | `OfficeWise`; `CallChain` implements `AssignmentLedger` |
| `closed_in_bucket` | violated | a close leaves PENDING rows behind |
| `desk_races` | 2 people, 2 desks, 3 sessions, 2 requests that clock in, assign or log a call; a seat required | `TakeoverIsTold`, `CallsAttributed` under rollback and interleaving |
| `desk_live` | 4 sessions, 2 clock-ins at a time | `EveryRequestEnds` under `FairSpec` |
| `desk_one_by_one` | 4 sessions, 1 request, desks switched on and off | `OneOpenSession`, `EndedSessionIsFinal`: again, what only races break |
| `gate` | 2 requests, one role, 4 permissions of which one is new, 2 keys, one edit or lockdown; edits with ordinary work and a sync, or lockdowns with keys and wakes; crashes and lost answers everywhere | `LockedHasKey`, `EditsStick`; under fairness `EditsTakeHold`, `LockTakesHold`, `LockedSystemWakes` (up to the two windows it names) |
| `screen_sessions` | 1 tab with 2 calls at once, its user and a colleague, 3 sessions; work beside a start, a start and ends beside page loads, or work, page loads and logouts; each call failing at will | `ColleagueIsShown`, `BatchTokenIsAnnounced`, `OriginalLoginReturns`; `EndedSessionsDie` |
| `lookups` | 2 requests, 1 number, 3 providers (a dear one searched and enriched under a cap, a free one under a limit, the verifier), 2 changes; four mixes of operations | `LimitOvershoot`, `SpendOvershoot`, `CacheFirst`, `ListedIsBlocked`; types include that an active provider has credentials and an attestation |
| `dossier` | 7 rosters that use every adapter, 4 number lists, 2 kinds of lead, one weight edited, 9 or 10 leads closed, 2 matches shown at most | `ScoredPhoneIsLeads`, `ScoreIsItemized`, `NoMatchIsLost`; types include the ranges of accuracy, score, conversion and of a match's confidence |
| `card` | 2 requests, 3 users, a status per tier, 2 numbers, a field; beside values also three changes of role and an edit of the matrix | `CardAgrees`, `WatchersAreTold`; types include the foreign keys |

### Counterexamples to repeat by hand

The code breaks some further statements of its own comments and documents. Their
configurations are kept, each with one property that TLC refutes within seconds
(`tlc -config <cfg> <module>`):

| Configuration, module | What it shows |
|---|---|
| `MCClosedReenters.cfg`, `MCCallChain` | A send-back overwrites a concurrent close: a closed lead re-enters the queue without a reopen (README.md:80 of the repository says only Reopen can) |
| `MCRoutedTwice.cfg`, `MCCallChain` | Two routers settle one row, the second overwrites the first (`routing.service.ts:334` refuses a row that was already routed) |
| `MCWonReassigned.cfg`, `MCCallChain` | A leftover row takes a won lead from its Closer (README.md:175: "stays assigned to its Closer") |
| `MCDeskTwoUsers.cfg`, `MCDeskSessions` | Two concurrent clock-ins at one free desk leave two open sessions (`desks.service.ts:16`: "one open session per desk") |
| `MCDeskAudit.cfg`, `MCDeskSessions` | A takeover by assignment writes no takeover entry (`desks.service.ts:16-18`) |
| `MCWakeShutOut.cfg`, `MCRequestGate` | The administrator is shut out for good: the answer with the new key is lost after the transaction that retired the old one, or the process stops between `INCR` and `EXPIRE` when the address's attempts are used up (`AlwaysWakes`; `lockdown.service.ts:59-66`, `cache.service.ts:74-75`) |
| `MCRefreshAfterStart.cfg`, `ScreenSessions` | A refresh that was sent before a quick session began is answered after it: `setTokens` (`api.ts:120`) replaces the quick session's token, and after the reload the screen shows the colleague and acts as the home user |
| `MCEndedTwice.cfg`, `ScreenSessions` | Two calls end one quick session (two 401s, or the banner and a poll): the second finds nothing parked and sets the tokens to null (`api.ts:61-68`), so the login is gone (`api.ts:22`: "expiry restores the original login") |
| `MCLoginLost.cfg`, `ScreenSessions` | A page loaded in a quick session that has been ended elsewhere: its first call restores the login and the error it throws clears it again (`auth.tsx:60-61`, against `api.ts:22` and `:139`) |
| `MCLogoutInQuickSession.cfg`, `ScreenSessions` | A logout inside a quick session keeps its flag and its user in storage: after the next login and a reload the screen shows the colleague and acts as the home user (`auth.tsx:78-87`) |
| `MCIdentityMatchCap.cfg`, `MCLookups` | Identity matches are not counted into the enrichment cap they are held against (`enrichment.service.ts:295-299`) |
| `MCBatchDataPrimary.cfg`, `MCDossier` | BatchData's first listed number becomes primary although the lead's own is listed later (`batchdata.provider.ts:149` says the own phone is ensured) |

### Noted while modelling

The chain and the desks:

- By the default matrix a Closer's `close_deal` has scope ALL, so the assignee and tier
  checks of `closeLead` bind no role.
- `directTransfer` moves leads behind `request_transfer`, although README.md:71 of the
  repository names `routeOne` as the only place.
- Two concurrent clock-ins of one user leave two open sessions the way two users do.
- An account that moves to another office keeps its leads, and its requests under way
  commit for the office it had (`OfficeWise` is claimed of accounts that stay).
- Calls need a seat only where the setting is on, which `desks.service.ts:20` leaves out.

Sessions: two tabs of one browser share the stored tokens and not their memory. With
`Tabs = {a, b}` and four sessions TLC refutes `ShownIsActing` and `OriginalLoginReturns`: a second tab that
opens a quick session too parks the first one's token as the login to come back to.
`ColleagueIsShown` is the part that no overlap breaks: the reverse of
`MCRefreshAfterStart.cfg`, a screen that acts as the colleague under the home user's name,
cannot happen.

Lookups and dossier:

- A paid identity match that finds nothing returns null, which the cache's Json column
  refuses, so it is neither stored nor counted (`enrichment.service.ts:339`).
- A search match of BatchData without a score gets confidence 1, and its enrichment
  saturates scores given in percent; the engine's confidence is .75 always.
- README.md:85 of the repository calls a match's confidence a score from 0 to 100. One of
  BatchData under a number is cut at 99 by the merge, like every other; one without a number
  shows whatever score the vendor sends, however large (`batchdata.provider.ts:135`).
- Endato never learns the line type of the lead's own number, so that number earns no
  points from it alone.
- Agreement of two providers can lower the accuracy: two at 90 make 85
  (`mergeEnrichments` takes eight tenths of the average).
- `mergeMatches` counts several people of ONE provider who share a number as
  cross-verification, and keeps only one of them (`search.service.ts:112`).
- When edited weights sum to more than 100 the clamp is not itemised, unlike the cap
  (`scoring.service.ts:82`); `ScoreIsItemized` states it with the clamp.
- The dossier status FAILED exists in the schema and is never stored.

The card:

- A work status set while the lead is being moved can belong to the old tier's list; two
  phone edits can leave the lead and its primary row with different numbers; a
  value stored between the count and the delete of a field is deleted with it. These are
  the overtaken writes `CardAgrees` leaves out.
- A block stays when its user is given a role that no block binds, and binds again when he
  loses it (`lead-access.service.ts` looks at row and role anew each time).
- Blocked users are still told of what happens on the lead they are blocked from.
- A former participant may add a comment to a lead whose comments he may not list.

### Bounds

`MaxTrail` (no request is admitted for a lead with that many audit entries) and the
number of `RowIds` bound a lead's life; handlers already admitted still finish, so a trail
can be longer. Two handlers suffice for every race in the hazard list, since each is
between two commits, or one commit and one check; three entries before the last admission
let a lead be created, moved or parked, and moved again, with both handlers then in
flight. One lead is enough where no property relates two leads and handlers touch one lead
at a time. With one account per role plus the administrator, each transfer point has a
fitting recipient and an unfitting one. In the desk runs `MaxSessions` bounds the sessions
ever opened; four are the least in which two users swap seats, which is where their
transactions deadlock.

In `gate` one edit or lockdown is enough, because the question is what a reader from
before it leaves behind; two keys let one replace the other while a third request would
only repeat the second. Counters stop at their limits, where the code stops telling them
apart. In `screen_sessions` three sessions are a login, a quick session and the login's
rotation; two calls are what it takes for a start beside a refresh, for two ends of one quick
session, and for an end beside a poll. `Mixes` says which calls meet, and `Unanswered` which
of them may fail on the way; a tab has one refresh at most of a page it has left, and a
page finds a slot free for its first call. Logouts are kept apart from quick sessions,
since `OriginalLoginReturns` is not claimed of a logout beside a start. In `lookups` `Mixes`
keeps apart what shares no state. With prices of two and one and a common cap of one cent
for enrichments, two of them reach four cents, the most the bound allows, so a check that
is dropped or off by one breaks it; the searches' cap of three cents is passed by one call of two. One
expiry lets an answer be paid for a second time rightly, and `Midnight` is not bounded. One
provider asked by a search and by an enrichment at once, which share its count but no
cache, is left to the proof. In `dossier`
one request at a time is no restriction of what is computed: requests share only the
weights, which one query reads. Each roster has at most three providers, so that every
pair of primary-phone conventions meets (the engine's and the vendors', the one-number
providers' and the listing ones'). Nine leads closed and ten, all won, are the two
sides of the conversion's threshold, and bring it to its ceiling. `MaxShown` is two there,
so that the matches of three people overflow the list and the cut really happens. In `card` `Topics` keeps apart operations on different
parts of the card; transfers, blocks and notices go with all of them, and changes of the
accounts (`RoleChanges`, `MatrixEdits`) with the field's values, whose requests read, check,
record and tell like the others.

Symmetry is used over leads, rows, requests and desks, which the specifications treat
alike, and in no run with a liveness property.

Deadlock. It is checked in every run but three. `desk_races` and `desk_live` may stop because the
bounded supply of session ids is used up while every way to get up is switched off by
`Ops`; `lookups` when its changes are used up and the regulated module is off. They say
`CHECK_DEADLOCK FALSE`. That no transaction waits for ever is `EveryRequestEnds`.

### Fairness

Three runs assume any.

- `desk_live`: `SF_vars(Work(s))` for each request. Node runs every ready continuation, and
  the database answers or fails each statement. It is strong, not weak, because a request
  waiting for a locked row is disabled whenever some other transaction holds the row: with
  weak fairness TLC shows a waiter passed over for ever by clock-ins that lock the row and
  fail. PostgreSQL rules that out, it queues the waiters of a row in order.
- `gate`: weak fairness of the handlers' steps and of the expiry of each cache entry and
  counter, which Redis or the timestamps of the in-process map enforce. `LockedSystemWakes`
  also assumes an administrator who takes the newest key he has to the wake URL again in a
  later window (`OwnerTries`), and an attempt that is not cut short every time
  (`OwnerVerifies`, `Wake`): strong fairness, since other people's attempts disable each
  of the three for a while. A counter left without its lifetime expires under no fairness: that is
  one of the two windows of `ShutOut`.
- `screen_sessions`: weak fairness of the end of each quick session's window, the
  time-to-live of its entry.

Nobody is otherwise assumed to send a request, and failing is never forced.

Mutants. Every property of a passing run is paired with a plausible bug
(`PROJECT.json`, "mutants"); the faulty variants stand next to the definitions
they replace and are commented as such.

## 4. Proofs

Every theorem is about the specification with all the constants left open: any users,
leads, desks, keys, providers, permission matrix and edits, any number of requests in
flight, any bound. What they assume of the constants is the named assumption of each
module (`ConstantsAssumption`, `DeskAssumption` and so on: members are of their types, the
sets that are counted are finite), and, where a theorem has a hypothesis of its own, what
its `ASSUME` says. `LeadCard` assumes that there is a phone number at all, since a lead is
created with one (`leads.service.ts:45`). `Dossier` assumes that weights are natural numbers
and that the scores of a carrier match are percentages; a provider's answer may list any
numbers, in any order and any number of times.

| Module | Theorem | States of the specification |
|---|---|---|
| `CallChainProofs` | `SoundAlways` | the inductive invariant `Sound` |
| | `TypeOKAlways` | `TypeOK`, a conjunct of `Sound` |
| | `NoStrandedLeadAlways`, `AssigneeIsLastHopAlways`, `AuditExplainsStatusAlways`, `RoutedRowHasHopAlways`, `TruthfulNoticesAlways` | the invariants of `chain_races` |
| | `TierFollowsPointHolds` | the action property `TierFollowsPoint` |
| | `ChainImplementsLedger` | the refinement: initial states map to initial states, every step to a step or a stutter |
| | `OfficeWiseAlways` | `OfficeWise`, if no edit moves an account to another office (`KeepsOffices`) |
| | `HopChainAlways`, `OneHopPerRowAlways` | `HopChain`, `OneHopPerRow`, with one handler at a time (`OneRequest`) |
| `DeskSessionsProofs` | `DeskTypes`, `TakeoverIsToldAlways`, `CallsAttributedAlways` | the invariants of `desk_races` |
| | `OneOpenSessionAlways`, `EndedSessionIsFinalAlways` | `OneOpenSession` and the action property `EndedSessionIsFinal`, with one request at a time (`OneByOne`) |
| `RequestGateProofs` | `GateTypes`, `LockedHasKeyAlways` | `TypeOK`, `LockedHasKey` |
| | `EditsStickAlways` | the action property `EditsStick` |
| `ScreenSessionsProofs` | `ScreenTypes`, `BatchTokenIsAnnouncedAlways` | `TypeOK`, `BatchTokenIsAnnounced`, for any number of tabs |
| | `ColleagueIsShownAlways` | `ColleagueIsShown`, for any number of tabs and of overlapping calls |
| | `OriginalLoginReturnsAlways` | the action property `OriginalLoginReturns`, in one tab (`OneTab`), where no logout meets the start of a quick session (`NoLogoutBesideStart`) |
| `LookupsProofs` | `LookupsTypes`, `ListedIsBlockedAlways` | `TypeOK` with the rule for providers in service, `ListedIsBlocked` |
| | `LimitOvershootAlways`, `SpendOvershootAlways`, `CacheFirstAlways` | `LimitOvershoot`, `SpendOvershoot`, `CacheFirst` |
| `FoldTheorems` | `FoldSteps`, `FoldType`, `FoldReaches` | of a loop, not of a specification: its states exist and its result is the last; it stays in a set its body stays in; what one element brings about and the later ones preserve holds of its result |
| `DossierProofs` | `InvariantAlways` | the inductive invariant `DossierInv` |
| | `TypesAlways`, `ScoredPhoneIsLeadsAlways`, `ScoreIsItemizedAlways`, `NoMatchIsLostAlways` | the invariants of `dossier`, for any rosters, answers, crowds, number lists, weights and `MaxShown` |
| `LeadCardProofs` | `CardTypes`, `CardAgreesAlways`, `WatchersAreToldAlways` | the invariants of `card` |

### The arguments

Hardly any of the properties is inductive: what the tables are to become depends on what
the requests in flight have read. Each module strengthens them with what is true of a
request at each of its program counters, shows that the result holds initially and is
preserved by every action, and derives the properties from it. All of the strengthened
invariants were also model-checked, on the run's instance (`Dossier`'s,
slow to evaluate, on that instance without its three-provider roster).

- `CallChain`. `Sound` adds to the types what is true of a handler at each counter
  (`RequestsOK`: a ready router holds a row that is used, a lead that exists, a
  recipient), of rows (`RowsOK`) and of leads (`LeadsOK`: an absent lead has no history,
  an existing one has an assignee). Then the actions are summarised: a step leaves the
  chain's tables alone, or changes a single lead in one of four ways (`LeadCreated`,
  `LeadHanded`, `LeadClosed`, `LeadParked`; `ChainStep`). This is proved once, action by
  action (`OnlyCommitsWrite`, `CommitEffect`, `StepEffect`); each property is then proved
  over the four cases instead of over some twenty actions.
- `OfficeWise`. `OfficesHeld` adds that accounts are where they started and that a handler
  ready to commit has compared the offices it is about to join (`OfficesChecked`). What it
  compared cannot go stale: leads never change office, and accounts do not by hypothesis.
- `HopChain`, `OneHopPerRow`. `Chained` adds that the holder a handler has read is still
  the holder (`HolderKnown`), which two routers of one lead falsify, and counts routed rows
  against hops with the library's facts on cardinality.
- `DeskSessions`. `Sound` says which sessions a request may be about to end (`SessionsOK`,
  `RequestOK`): ids are used in order, so what a transaction has read stays a session of
  the same user and desk (`Grows`) however many others commit. `Alone` adds, for one
  request at a time, that it knows every open session of its user and of its desk
  (`Knows`), so that the one it opens is the only one.
- `RequestGate`. `LockedHasKey` needs that a request between its check and its lock has an
  active key, and that the keys a generation is to retire, and the key it is to show, have
  been made (`RequestOK`); a generation retires and adds in one commit.
- `ScreenSessions`. `Sound` says of every place a token can be in (storage, a tab's memory,
  a call's answer, a refresh under way) what session it can be of, so that a quick session's
  token is always one that was recorded and told, and a refresh always answers a login's; and
  of every page that works with a quick session's token, whom it shows (`Fits`): while its
  first call is under way nobody, so that no earlier name survives a load. Each action is one
  of a few kinds of step of one tab (`TabStep`, `CallStep`, `PageStep`). `Parks` adds, for the
  one tab, that while a quick session is being started none is there and the menu admits no
  second start, without which a second start would park the first one's token.
- `Lookups`. The bounds are inductive only with what is under way: they charge a provider
  with what was recorded and with a call for each handler past its check (`Charging`,
  `Pending`), and `AskedOnce` counts an answer's stores with the handlers that missed before.
  A handler that passes a check adds one call to a number that the check found below the
  bound; one that records moves its call from the second summand to the first; and the second
  is bounded by what each handler may have under way. For the common cap the summands are
  sums of money over providers and over handlers (`SumRaise`, `SumBound`).
- Loops (`FoldTheorems`). That a loop has a state after each element is proved from the
  fold's definition by induction over the prefixes of the list. The library's induction
  theorems take an operator; here the prefixes that have a state are a set of numbers which
  holds 0 and, with a number, the next (`SetInduction`). From the states, `FoldType` and
  `FoldReaches` follow by the same induction, and a module with a loop instantiates them
  with its body.
- Sorts and filters (`Arrangement`). An arrangement puts each position at its rank, the
  number of positions before it. Ranks grow along the order, so that two positions never
  share one, and they fill an interval; hence each element that was asked for is there
  once, the ones of higher key first.
- `Dossier`: the phone. `DossierInv` says what each stage leaves for the next: the types of
  what the adapters and the merge compute, and that, unless BatchData answered, a list of
  phones has a primary one and calls none primary but the lead's own (`OwnLed`). Every
  other adapter puts the own number first (`OwnBefore`, `OwnAlone`), `JoinPhone` preserves
  the claim whichever of two equal numbers it keeps, the sort keeps the elements. So the
  phone that is scored is the lead's (`ScoredIsListed`, `OwnIsScored`).
- `Dossier`: the score. `Balanced` says of a tally that its score is the sum of its items. It is
  preserved by `Itemize` for a key whose item is nil, so the tally is followed rule by
  rule, with the keys that are still nil (`TallyBalances`). What the sections before hand
  to the score (`InputsOK`: weights are natural numbers, a person has no part that there is
  not) is preserved by each action.
- `Dossier`: the matches. A match is kept (`Kept`) when the collected lists hold it, or
  one of its number at no lower confidence. Collecting it brings that about and collecting
  others preserves it (`CollectKeeps`), so all are kept (`FoldReaches`); the boost of
  cross-verified matches raises confidences only (`AllAreListed`). The sorted list is cut
  at `MaxShown`: a match that fell off has that many before it that are no less confident
  (`CutList`, `MostConfident`).
- `LeadCard`. `RequestsOK` says what a request past its check may still rely on (what it read
  of the lead's tier and number holds unless another commit has moved or renumbered the lead
  since; a status was picked from the list of the tier it read), and that those due to be told
  (`since`) watch the lead from the write on and are among the told once it has told.

### What the hypotheses leave out

They are not technical. Without them the properties fail, and TLC shows it:

- with two handlers the second router of a row starts its hop at a holder who has gone
  (`MCRoutedTwice.cfg`), which breaks `HopChain` and `OneHopPerRow`;
- two desk requests find the same seat free (`MCDeskTwoUsers.cfg`), which breaks
  `OneOpenSession`, and an end by id overwrites another, which breaks `EndedSessionIsFinal`;
- an account that moves to another office breaks `OfficeWise`;
- two tabs break `OriginalLoginReturns`, and so does a logout while a start is under way: who
  logs in on that page is offered the menu again, and a second start parks the first one's
  token.

### Only model-checked

- `EveryRequestEnds`, `EditsTakeHold`, `LockTakesHold`, `LockedSystemWakes` and
  `EndedSessionsDie`: liveness under fairness, which needs ENABLED.
- The violated properties, which TLC refutes.

Nothing is claimed, by either tool, of the exact numbers that `Dossier`'s loops compute
beyond what its invariants say of them.

## 5. What is not modelled

Listed in `PROJECT.json` with a reason each. In short:

- Aging alerts: one cron job over the chain's queue rows, to be composed with them.
- Offices, settings, system and reports: rows without transitions, host commands, reading.
- The pages of the front end: views over the API, which re-checks everything.
- Of the modelled parts: texts, names, addresses, file layouts and HTTP; the
  duplicate-phone warning of a creation; the limit of five wrong batch IDs; the delay of a
  wake attempt; usage rows of cache hits, which nothing counts.

## 6. Plan

1. `Aging`: the cron over queue rows that come and go; an old row is eventually
   announced (weak fairness of the cron), "flagged once" under a crash between
   alert and stamp, pause during lockdown.
2. Two tabs in `ScreenSessions`, with the properties that do survive.
3. Sharper forms of the conditional theorems: `HopChain` and `OneHopPerRow` for any number
   of handlers of which no two route one lead, `OneOpenSession` for any number of which no
   two are about one user or one desk.
