---------------------------- MODULE LookupsProofs ----------------------------
(***************************************************************************)
(* Proofs about the paid calls and the call gate, for every catalog of     *)
(* providers with any prices, levels, caps and limits, and any finite      *)
(* number of concurrent handlers.                                          *)
(***************************************************************************)
EXTENDS Lookups, FiniteSetTheorems, TLAPS

-----------------------------------------------------------------------------
(* Finite sets and sums                                                    *)

\* Two sets that differ in one element at most.
LEMMA ExchangeOne ==
  ASSUME NEW S, NEW T, NEW x, IsFiniteSet(S), T \ {x} = S \ {x}
  PROVE  /\ IsFiniteSet(T) /\ Cardinality(S) \in Nat /\ Cardinality(T) \in Nat
         /\ x \in S /\ x \notin T => Cardinality(T) = Cardinality(S) - 1
         /\ x \notin S /\ x \in T => Cardinality(T) = Cardinality(S) + 1
         /\ (x \in S <=> x \in T) => T = S
<1>1. CASE x \in S /\ x \notin T
  <2>1. T = S \ {x}
    BY <1>1
  <2> QED BY <1>1, <2>1, FS_RemoveElement, FS_CardinalityType
<1>2. CASE x \notin S /\ x \in T
  <2>1. T = S \cup {x}
    BY <1>2
  <2> QED BY <1>2, <2>1, FS_AddElement, FS_CardinalityType
<1>3. CASE x \in S <=> x \in T
  <2>1. T = S
    BY <1>3
  <2> QED BY <1>3, <2>1, FS_CardinalityType
<1> QED BY <1>1, <1>2, <1>3

\* The units of a natural-valued function on a finite set can be counted.
LEMMA SumType ==
  ASSUME NEW S, IsFiniteSet(S), NEW f \in [S -> Nat]
  PROVE  IsFiniteSet(Units(f, S)) /\ Sum(f, S) \in Nat
<1> DEFINE blocks == [p \in S |-> {p} \X (1..f[p])]
           B == {{p} \X (1..f[p]) : p \in S}
<1>1. blocks \in Surjection(S, B)
  BY DEF Surjection
<1> HIDE DEF blocks, B
<1>2. IsFiniteSet(B)
  BY <1>1, FS_Surjection
<1>3. ASSUME NEW p \in S
      PROVE  IsFiniteSet({p} \X (1..f[p]))
  <2>1. f[p] \in Int /\ 1 \in Int
    OBVIOUS
  <2>2. IsFiniteSet(1..f[p])
    BY <2>1, FS_Interval
  <2>3. IsFiniteSet({p})
    BY FS_Singleton
  <2> QED BY <2>2, <2>3, FS_Product
<1>4. IsFiniteSet(UNION B)
  <2>1. \A b \in B : IsFiniteSet(b)
    BY <1>3 DEF B
  <2> QED BY <1>2, <2>1, FS_UNION
<1> QED BY <1>4, FS_CardinalityType DEF Units, Sum, B

\* A function that is larger everywhere has the larger sum.
LEMMA SumMonotone ==
  ASSUME NEW S, IsFiniteSet(S), NEW f \in [S -> Nat], NEW g \in [S -> Nat], \A p \in S : f[p] <= g[p]
  PROVE  Sum(f, S) <= Sum(g, S)
<1>1. Units(f, S) \subseteq Units(g, S)
  <2> SUFFICES ASSUME NEW p \in S, NEW u \in {p} \X (1..f[p])
               PROVE  u \in {p} \X (1..g[p])
    BY DEF Units
  <2>1. 1..f[p] \subseteq 1..g[p]
    OBVIOUS
  <2> QED BY <2>1
<1> QED BY <1>1, SumType, FS_Subset DEF Sum

\* Raising the function at one place raises the sum by as much.
LEMMA SumRaise ==
  ASSUME NEW S, IsFiniteSet(S), NEW f \in [S -> Nat], NEW g \in [S -> Nat], NEW p \in S, NEW d \in Nat,
         g[p] = f[p] + d, \A q \in S \ {p} : g[q] = f[q]
  PROVE  Sum(g, S) = Sum(f, S) + d
<1> DEFINE more == {p} \X ((f[p] + 1)..(f[p] + d))
<1>2. IsFiniteSet(more) /\ Cardinality(more) = d
  <2> PICK a, b, high : a = f[p] + 1 /\ b = f[p] + d /\ high = a..b
    OBVIOUS
  <2>1. a \in Int /\ b \in Int /\ (a > b => d = 0) /\ (~(a > b) => b - a + 1 = d)
    OBVIOUS
  <2>2. IsFiniteSet(high) /\ Cardinality(high) = d
    BY <2>1, FS_Interval
  <2>3. IsFiniteSet({p}) /\ Cardinality({p}) = 1
    BY FS_Singleton
  <2>4. IsFiniteSet({p} \X high) /\ Cardinality({p} \X high) = Cardinality({p}) * Cardinality(high)
    BY <2>2, <2>3, FS_Product, Zenon
  <2> QED BY <2>2, <2>3, <2>4
<1>3. Units(g, S) = Units(f, S) \cup more
  <2>1. 1..g[p] = (1..f[p]) \cup ((f[p] + 1)..(f[p] + d))
    OBVIOUS
  <2> PICK low, high : low = 1..f[p] /\ high = (f[p] + 1)..(f[p] + d)
    OBVIOUS
  <2>2. {p} \X (low \cup high) = ({p} \X low) \cup ({p} \X high)
    OBVIOUS
  <2>3. {p} \X (1..g[p]) = ({p} \X (1..f[p])) \cup more
    BY <2>1, <2>2
  <2>4. \A q \in S \ {p} : {q} \X (1..g[q]) = {q} \X (1..f[q])
    OBVIOUS
  <2> HIDE DEF more
  <2>5. ASSUME NEW u
        PROVE  u \in Units(g, S) <=> u \in Units(f, S) \/ u \in more
    BY <2>3, <2>4 DEF Units
  <2> QED BY <2>5
<1>4. Units(f, S) \cap more = {}
  <2> SUFFICES ASSUME NEW q \in S, NEW u \in {q} \X (1..f[q]), u \in more
               PROVE  FALSE
    BY DEF Units
  <2>1. u[1] = p /\ u[2] \in (f[p] + 1)..(f[p] + d) /\ u[1] = q /\ u[2] \in 1..f[q]
    OBVIOUS
  <2> QED BY <2>1
<1> HIDE DEF more
<1>5. Cardinality(Units(f, S) \cup more) = Cardinality(Units(f, S)) + d
  <2> PICK U : U = Units(f, S)
    OBVIOUS
  <2>1. IsFiniteSet(U) /\ Cardinality(U) \in Nat
    BY SumType DEF Sum
  <2>2. Cardinality(U \cup more) = Cardinality(U) + Cardinality(more) - Cardinality(U \cap more)
    BY <1>2, <2>1, FS_Union
  <2>3. Cardinality({}) = 0 /\ U \cap more = {}
    BY <1>4, FS_EmptySet
  <2>4. Cardinality(U \cup more) = Cardinality(U) + d - 0
    BY <1>2, <2>2, <2>3, Zenon
  <2>5. Cardinality(U \cup more) = Cardinality(U) + d
    BY <2>1, <2>4
  <2> QED BY <2>5
<1> QED BY <1>3, <1>5 DEF Sum

\* Nothing sums up to nothing.
LEMMA SumZero ==
  ASSUME NEW S, NEW f \in [S -> {0}]
  PROVE  Sum(f, S) = 0
<1>1. \A p \in S : 1..f[p] = {}
  OBVIOUS
<1>2. Units(f, S) = {}
  BY <1>1 DEF Units
<1> QED BY <1>2, FS_EmptySet DEF Sum

\* A function bounded by d sums up to at most d for each place.
LEMMA SumBound ==
  ASSUME NEW S, IsFiniteSet(S), NEW f \in [S -> Nat], NEW d \in Nat, \A p \in S : f[p] <= d
  PROVE  Sum(f, S) <= d * Cardinality(S)
<1> PICK high : high = 1..d
  OBVIOUS
<1>1. IsFiniteSet(high) /\ Cardinality(high) = d
  <2> PICK a : a = 1
    OBVIOUS
  <2>1. a \in Int /\ d \in Int /\ (a > d => d = 0) /\ (~(a > d) => d - a + 1 = d)
    OBVIOUS
  <2> QED BY <2>1, FS_Interval
<1>2. IsFiniteSet(S \X high) /\ Cardinality(S \X high) = Cardinality(S) * Cardinality(high)
  BY <1>1, FS_Product, Zenon
<1>3. Units(f, S) \subseteq S \X high
  <2> SUFFICES ASSUME NEW p \in S, NEW u \in {p} \X (1..f[p])
               PROVE  u \in S \X high
    BY DEF Units
  <2>1. 1..f[p] \subseteq high
    OBVIOUS
  <2> QED BY <2>1
<1>4. Sum(f, S) <= Cardinality(S \X high)
  BY <1>2, <1>3, FS_Subset DEF Sum
<1>5. Cardinality(S) \in Nat
  BY FS_CardinalityType
<1>6. Cardinality(S \X high) = d * Cardinality(S)
  <2> PICK n : n = Cardinality(S)
    OBVIOUS
  <2>1. n * d = d * n
    BY <1>5
  <2> QED BY <1>1, <1>2, <2>1
<1> QED BY <1>4, <1>6

-----------------------------------------------------------------------------
(* The inductive invariant                                                 *)

\* Who is asked: an identity match goes to the verifier, and what an enrichment asks is
\* within the level of some user.
TaskOK(t) ==
  /\ t.kind = "idmatch" => t.code = Verifier
  /\ t.kind # "search" => \E level \in mix.levels : Level[t.code] <= level

\* A number that was listed throughout is still listed, and its call does not get past the gate.
RequestOK(q) ==
  /\ TaskOK(q.task) /\ \A t \in q.todo : TaskOK(t)
  /\ q.pc = "gate" /\ q.listed => q.phone \in optout
  /\ q.pc = "log" => ~q.listed
RequestsOK == \A r \in Requests : RequestOK(req[r])

\* Where a handler stands that may yet store an answer, or record a call.
InAsk == {"spend", "limit", "call", "store"}  \* past the cache, the answer not yet stored
PaidPcs == InAsk \cup PastLimit
Asking(k) == {r \in Requests : req[r].pc \in InAsk /\ KeyOf(r) = k}

\* An answer was stored once for each handler that missed before, and those who
\* missed may still store theirs; what is not in the cache was not stored.
AskedOnce ==
  \A k \in Keys : /\ k \notin cache => stored[k] = 0
                 /\ stored[k] + Cardinality(Asking(k)) <= Concurrency

\* The inductive invariant.
Typed == TypeOK /\ RequestsOK
Sound == Typed /\ LimitOvershoot /\ SearchOvershoot /\ EnrichOvershoot /\ AskedOnce
-----------------------------------------------------------------------------
(* Types and the call gate                                                 *)

LEMMA IdleType == Idle \in Request
BY LookupsAssumption DEF Idle, Request, Ops, NoTask, Task, Kinds

LEMMA IdleOK == RequestOK(Idle)
BY DEF RequestOK, TaskOK, Idle, NoTask

LEMMA InitTyped == Init => Typed
<1> SUFFICES ASSUME Init PROVE Typed
  OBVIOUS
<1> USE LookupsAssumption
<1>1. setting \in [Providers -> ProviderSetting]
      /\ \A p \in Providers : setting[p].active => p \in Implemented /\ setting[p].attested
                                                   /\ (setting[p].key \/ p \in CredentialFree)
  <2> PICK shipped : shipped = Implemented \ {u.code : u \in {u \in Updates : "PROVIDER" \in mix.ops /\ u.isActive = "TRUE"}}
    OBVIOUS
  <2> DEFINE ready == [p \in Providers |-> p \in shipped]
  <2>1. ready \in [Providers -> BOOLEAN]
    OBVIOUS
  <2>2. \A p \in Providers : ready[p] => p \in Implemented
    OBVIOUS
  <2>3. setting = [p \in Providers |-> [active |-> ready[p], key |-> ready[p], attested |-> ready[p]]]
    BY DEF Init
  <2> HIDE DEF ready
  <2> QED BY <2>1, <2>2, <2>3 DEF ProviderSetting
<1>2. /\ cache \subseteq Keys /\ optout \subseteq Phones /\ mix \in Mixes
      /\ usage \in [Kinds \X Providers -> Nat] /\ stored \in [Keys -> Nat]
      /\ expiries \in 0..MaxExpiries /\ changes \in 0..MaxChanges
  BY DEF Init
<1>3. snapshot \in [Phones -> {"NONE", "CALLABLE", "BLOCKED"}] /\ regulated \in [enabled: BOOLEAN, attested: BOOLEAN]
  BY DEF Init
<1>4. req \in [Requests -> Request] /\ RequestsOK
  BY IdleType, IdleOK DEF Init, RequestsOK
<1> QED BY <1>1, <1>2, <1>3, <1>4 DEF Typed, TypeOK

LEMMA RequestFacts ==
  ASSUME Typed, NEW r \in Requests
  PROVE  req[r] \in Request /\ RequestOK(req[r])
BY DEF Typed, TypeOK, RequestsOK

\* A step that replaces one request, and leaves the list and the mix alone.
LEMMA SetStep ==
  ASSUME Typed, NEW r \in Requests, NEW q \in Request, RequestOK(q), req' = [req EXCEPT ![r] = q],
         UNCHANGED <<optout, mix>>
  PROVE  RequestsOK' /\ req' \in [Requests -> Request]
<1>1. req' \in [Requests -> Request]
  BY DEF Typed, TypeOK
<1>2. ASSUME NEW t \in Requests, NEW p, p = req'[t]
      PROVE  RequestOK(p)
  BY <1>2, RequestFacts DEF Typed, TypeOK
<1>3. ASSUME NEW p, RequestOK(p)
      PROVE  RequestOK(p)'
  BY <1>3 DEF RequestOK, TaskOK
<1>4. ASSUME NEW t \in Requests, NEW p, p = req'[t]
      PROVE  RequestOK(p)'
  BY <1>2, <1>3, <1>4
<1> QED BY <1>1, <1>4 DEF RequestsOK, RequestOK, TaskOK

\* A step that moves its request on, or ends it, and touches no table.
LEMMA MoveStep ==
  ASSUME Typed, NEW r \in Requests, NEW q \in Request, RequestOK(q), Set(r, q),
         UNCHANGED <<tableVars, stored, mix, expiries, changes>>
  PROVE  Typed'
<1>1. RequestsOK' /\ req' \in [Requests -> Request]
  BY SetStep DEF Set, tableVars
<1> QED BY <1>1 DEF Typed, TypeOK, tableVars

Pcs == {"idle", "next", "spend", "limit", "call", "store", "record", "comply", "scrub", "save",
        "gate", "log", "attestation", "report", "file", "attest"}

LEMMA GotoStep ==
  ASSUME Typed, NEW r \in Requests, NEW pc \in Pcs \ {"gate", "log"}, Goto(r, pc), UNCHANGED <<optout, mix>>
  PROVE  RequestsOK' /\ req' \in [Requests -> Request]
<1> PICK q : q = [req[r] EXCEPT !.pc = pc]
  OBVIOUS
<1>1. q \in Request /\ RequestOK(q)
  BY RequestFacts DEF Request, RequestOK, Pcs
<1> QED BY <1>1, SetStep DEF Goto, Typed, TypeOK

LEMMA TaskDoneStep ==
  ASSUME Typed, NEW r \in Requests, TaskDone(r), UNCHANGED <<optout, mix>>
  PROVE  RequestsOK' /\ req' \in [Requests -> Request]
<1> PICK q : q = [req[r] EXCEPT !.pc = "next", !.task = NoTask]
  OBVIOUS
<1>1. q \in Request /\ RequestOK(q)
  <2>1. NoTask \in Task /\ TaskOK(NoTask)
    BY LookupsAssumption DEF NoTask, Task, Kinds, TaskOK
  <2> QED BY <2>1, RequestFacts DEF Request, RequestOK
<1>2. req' = [req EXCEPT ![r] = q]
  BY DEF TaskDone, Typed, TypeOK
<1> QED BY <1>1, <1>2, SetStep

\* Handlers that begin: who is asked is active, and within the user's level.
LEMMA BeginTyped ==
  ASSUME Typed, NEW r \in Requests, Begin(r)
  PROVE  Typed'
<1> PICK n \in Phones : Search(r, n) \/ Call(r, n) \/ Report(r, n) \/ \E level \in mix.levels : Enrich(r, n, level)
  BY DEF Begin
<1>1. UNCHANGED <<tableVars, stored, mix, expiries, changes>>
  BY DEF Begin
<1>2. CASE Search(r, n)
  <2> PICK q, todo : /\ todo = [kind: {"search"}, code: Active \cap OnSearch \cap Implemented]
                     /\ q = [Idle EXCEPT !.pc = "next", !.op = "SEARCH", !.phone = n, !.todo = todo]
    OBVIOUS
  <2>1. todo \subseteq Task /\ \A t \in todo : TaskOK(t)
    BY DEF Task, Kinds, Active, TaskOK
  <2>2. q \in Request /\ RequestOK(q)
    BY <2>1, IdleType, IdleOK DEF Request, Ops, RequestOK
  <2>3. Set(r, q)
    BY <1>2 DEF Search
  <2> QED BY <1>1, <2>2, <2>3, MoveStep
<1>3. ASSUME NEW level \in mix.levels, Enrich(r, n, level)
      PROVE  Typed'
  <2> PICK q, active, todo :
        /\ active = {p \in Active : Level[p] <= level}
        /\ todo = [kind: {"enrich"}, code: active \cap Implemented] \cup [kind: {"idmatch"}, code: active \cap {Verifier}]
        /\ q = [Idle EXCEPT !.pc = "next", !.op = "ENRICH", !.phone = n, !.todo = todo]
    OBVIOUS
  <2>1. todo \subseteq Task /\ \A t \in todo : TaskOK(t)
    BY DEF Task, Kinds, Active, TaskOK
  <2>2. q \in Request /\ RequestOK(q)
    BY <2>1, IdleType, IdleOK DEF Request, Ops, RequestOK
  <2>3. Set(r, q)
    BY <1>3 DEF Enrich
  <2> QED BY <1>1, <2>2, <2>3, MoveStep
<1>4. CASE Call(r, n)
  <2> PICK q : q = [Idle EXCEPT !.pc = "gate", !.op = "CALL", !.phone = n,
                                !.blocked = snapshot[n] = "BLOCKED", !.listed = n \in optout]
    OBVIOUS
  <2>1. (snapshot[n] = "BLOCKED") \in BOOLEAN /\ (n \in optout) \in BOOLEAN
    OBVIOUS
  <2>2. q \in Request /\ RequestOK(q)
    BY <2>1, IdleType, IdleOK DEF Request, Ops, RequestOK
  <2>3. Set(r, q)
    BY <1>4 DEF Call
  <2> QED BY <1>1, <2>2, <2>3, MoveStep
<1>5. CASE Report(r, n)
  <2> PICK q : q = [Idle EXCEPT !.pc = "attestation", !.op = "REPORT", !.phone = n]
    OBVIOUS
  <2>1. q \in Request /\ RequestOK(q)
    BY IdleType, IdleOK DEF Request, Ops, RequestOK
  <2>2. Set(r, q)
    BY <1>5 DEF Report
  <2> QED BY <1>1, <2>1, <2>2, MoveStep
<1> QED BY <1>2, <1>3, <1>4, <1>5

\* A paid call, step by step.
LEMMA PaidTyped ==
  ASSUME Typed, NEW r \in Requests, Paid(r)
  PROVE  Typed'
<1>1. CASE Look(r)
  <2> PICK t \in Turns(r) : Set(r, IF <<t.kind, t.code, req[r].phone>> \in cache
                                    THEN [req[r] EXCEPT !.todo = @ \ {t}]
                                    ELSE [req[r] EXCEPT !.todo = @ \ {t}, !.task = t, !.pc = "spend"])
    BY <1>1 DEF Look
  <2>1. t \in req[r].todo /\ t \in Task /\ TaskOK(t)
    BY RequestFacts DEF Turns, Request, RequestOK
  <2>2. [req[r] EXCEPT !.todo = @ \ {t}] \in Request /\ RequestOK([req[r] EXCEPT !.todo = @ \ {t}])
    BY RequestFacts DEF Request, RequestOK
  <2>3. /\ [req[r] EXCEPT !.todo = @ \ {t}, !.task = t, !.pc = "spend"] \in Request
        /\ RequestOK([req[r] EXCEPT !.todo = @ \ {t}, !.task = t, !.pc = "spend"])
    BY <2>1, RequestFacts DEF Request, RequestOK
  <2> QED BY <1>1, <2>2, <2>3, MoveStep DEF Look
<1>2. CASE CheckSpend(r) \/ CheckLimit(r) \/ LiveCall(r) \/ Skip(r)
  <2>1. TaskDone(r) \/ \E pc \in {"limit", "call", "store"} : Goto(r, pc)
    BY <1>2 DEF CheckSpend, CheckLimit, LiveCall, Skip
  <2>2. UNCHANGED <<tableVars, stored, mix, expiries, changes>>
    BY <1>2 DEF CheckSpend, CheckLimit, LiveCall, Skip
  <2>3. RequestsOK' /\ req' \in [Requests -> Request]
    BY <2>1, <2>2, GotoStep, TaskDoneStep DEF tableVars, Pcs
  <2> QED BY <2>2, <2>3 DEF Typed, TypeOK, tableVars
<1>3. CASE StoreAnswer(r)
  <2>1. RequestsOK' /\ req' \in [Requests -> Request]
    BY <1>3, GotoStep DEF StoreAnswer, Pcs
  <2>2. KeyOf(r) \in Keys
    BY RequestFacts DEF KeyOf, Keys, Request, Task
  <2>3. cache' \subseteq Keys /\ stored' \in [Keys -> Nat]
    BY <1>3, <2>2 DEF StoreAnswer, Typed, TypeOK
  <2> QED BY <1>3, <2>1, <2>3 DEF StoreAnswer, Typed, TypeOK
<1>4. CASE RecordUsage(r)
  <2>1. RequestsOK' /\ req' \in [Requests -> Request]
    BY <1>4, TaskDoneStep DEF RecordUsage
  <2>2. usage' \in [Kinds \X Providers -> Nat]
    BY <1>4, RequestFacts DEF RecordUsage, Request, Task, Typed, TypeOK
  <2> QED BY <1>4, <2>1, <2>2 DEF RecordUsage, Typed, TypeOK
<1> QED BY <1>1, <1>2, <1>3, <1>4 DEF Paid
\* A handler that ends, or an enrichment that goes on to its compliance snapshot.
LEMMA HandlerTyped ==
  ASSUME Typed, NEW r \in Requests,
         Asked(r) \/ Abandon(r) \/ Comply(r) \/ Scrub(r) \/ SaveSnapshot(r)
  PROVE  Typed'
<1>1. CASE Abandon(r)
  BY <1>1, IdleType, IdleOK, MoveStep DEF Abandon
<1>2. CASE Asked(r)
  <2>1. Set(r, Idle) \/ Goto(r, "comply")
    BY <1>2 DEF Asked
  <2>2. UNCHANGED <<tableVars, stored, mix, expiries, changes>>
    BY <1>2 DEF Asked
  <2>3. RequestsOK' /\ req' \in [Requests -> Request]
    BY <2>1, <2>2, IdleType, IdleOK, SetStep, GotoStep DEF Set, tableVars, Pcs
  <2> QED BY <2>2, <2>3 DEF Typed, TypeOK, tableVars
<1>3. CASE Comply(r) \/ Scrub(r)
  <2>1. UNCHANGED <<tableVars, stored, mix, expiries, changes>>
    BY <1>3 DEF Comply, Scrub
  <2>2. \E pc \in {"scrub", "save"}, b \in BOOLEAN : Set(r, [req[r] EXCEPT !.pc = pc, !.blocked = b])
    <3>1. CASE Comply(r)
      <4>1. (req[r].phone \in optout) \in BOOLEAN
        OBVIOUS
      <4> QED BY <3>1, <4>1 DEF Comply
    <3>2. CASE Scrub(r)
      <4> PICK litigator \in BOOLEAN :
            Set(r, [req[r] EXCEPT !.pc = "save", !.blocked = @ \/ (litigator /\ req[r].phone \in optout)])
        BY <3>2 DEF Scrub
      <4>1. (req[r].blocked \/ (litigator /\ req[r].phone \in optout)) \in BOOLEAN
        OBVIOUS
      <4> QED BY <4>1
    <3> QED BY <1>3, <3>1, <3>2
  <2> PICK pc \in {"scrub", "save"}, b \in BOOLEAN : Set(r, [req[r] EXCEPT !.pc = pc, !.blocked = b])
    BY <2>2
  <2>3. [req[r] EXCEPT !.pc = pc, !.blocked = b] \in Request /\ RequestOK([req[r] EXCEPT !.pc = pc, !.blocked = b])
    BY RequestFacts DEF Request, RequestOK
  <2> QED BY <2>1, <2>3, MoveStep
<1>4. CASE SaveSnapshot(r)
  <2>1. RequestsOK' /\ req' \in [Requests -> Request]
    BY <1>4, IdleType, IdleOK, SetStep DEF SaveSnapshot, Set
  <2>2. snapshot' \in [Phones -> {"NONE", "CALLABLE", "BLOCKED"}]
    BY <1>4 DEF SaveSnapshot, Typed, TypeOK
  <2> QED BY <1>4, <2>1, <2>2 DEF SaveSnapshot, Typed, TypeOK
<1> QED BY <1>1, <1>2, <1>3, <1>4

\* The gate refuses a number that is listed when it looks.
LEMMA GateTyped ==
  ASSUME Typed, NEW r \in Requests, Gate(r) \/ LogCall(r)
  PROVE  Typed'
<1>1. UNCHANGED <<tableVars, stored, mix, expiries, changes>>
  BY DEF Gate, LogCall
<1>2. CASE Set(r, Idle)
  BY <1>1, <1>2, IdleType, IdleOK, MoveStep
<1>3. CASE At(r, "gate") /\ ~Barred(r) /\ Goto(r, "log")
  <2> PICK q : q = [req[r] EXCEPT !.pc = "log"]
    OBVIOUS
  <2>1. ~req[r].listed
    BY <1>3, RequestFacts DEF At, Barred, RequestOK
  <2>2. q \in Request /\ RequestOK(q)
    BY <2>1, RequestFacts DEF Request, RequestOK
  <2> QED BY <1>1, <1>3, <2>2, MoveStep DEF Goto, Set
<1> QED BY <1>2, <1>3 DEF Gate, LogCall

\* Who leaves the list takes the claim of every call under way with it.
LEMMA ListTyped ==
  ASSUME Typed, NEW n \in Phones, DncAdd(n) \/ DncRemove(n)
  PROVE  Typed'
<1>1. /\ UNCHANGED <<setting, cache, usage, snapshot, regulated, stored, mix, expiries>>
      /\ changes' \in 0..MaxChanges /\ optout' \subseteq Phones
  BY LookupsAssumption DEF DncAdd, DncRemove, Changing, Typed, TypeOK
<1>2. ASSUME NEW t \in Requests, NEW q, q = req'[t]
      PROVE  q \in Request /\ RequestOK(q)'
  <2>1. CASE DncAdd(n)
    <3>1. q = req[t] /\ optout' = optout \cup {n}
      BY <1>2, <2>1 DEF DncAdd
    <3> QED BY <1>1, <3>1, RequestFacts DEF RequestOK, TaskOK
  <2>2. CASE DncRemove(n) /\ req[t].phone = n
    <3>1. q = [req[t] EXCEPT !.listed = FALSE]
      BY <1>2, <2>2 DEF DncRemove
    <3> QED BY <1>1, <3>1, RequestFacts DEF RequestOK, TaskOK, Request
  <2>3. CASE DncRemove(n) /\ req[t].phone # n
    <3>1. q = req[t] /\ optout' = optout \ {n}
      BY <1>2, <2>3 DEF DncRemove
    <3> QED BY <1>1, <2>3, <3>1, RequestFacts DEF RequestOK, TaskOK
  <2> QED BY <2>1, <2>2, <2>3
<1>3. RequestsOK'
  BY <1>2 DEF RequestsOK, RequestOK, TaskOK
<1>4. req' \in [Requests -> Request]
  <2>1. req' = [t \in Requests |-> req'[t]]
    BY DEF DncAdd, DncRemove, Typed, TypeOK
  <2> QED BY <1>2, <2>1
<1> QED BY <1>1, <1>3, <1>4 DEF Typed, TypeOK

LEMMA SameRequests ==
  ASSUME Typed, UNCHANGED <<req, optout, mix>>
  PROVE  RequestsOK' /\ req' \in [Requests -> Request]
BY DEF Typed, TypeOK, RequestsOK, RequestOK, TaskOK

\* Credentials and attestation are checked on the way into service and never taken back.
LEMMA UpdateProviderTyped ==
  ASSUME Typed, NEW u \in Updates, UpdateProvider(u)
  PROVE  Typed'
<1> PICK s : s = setting[u.code]
  OBVIOUS
<1>1. u \in UpdateDto
  BY LookupsAssumption
<1>2. s \in ProviderSetting
  BY <1>1 DEF UpdateDto, Typed, TypeOK
<1> PICK new : new = [active |-> IF u.isActive = "KEEP" THEN s.active ELSE u.isActive = "TRUE",
                      key |-> s.key \/ u.key, attested |-> s.attested \/ u.attested]
  OBVIOUS
<1>3. setting' = [setting EXCEPT ![u.code] = new]
  BY DEF UpdateProvider
<1>4. new \in ProviderSetting
  <2>1. (IF u.isActive = "KEEP" THEN s.active ELSE u.isActive = "TRUE") \in BOOLEAN
    BY <1>2 DEF ProviderSetting
  <2>2. (s.key \/ u.key) \in BOOLEAN /\ (s.attested \/ u.attested) \in BOOLEAN
    OBVIOUS
  <2> QED BY <2>1, <2>2 DEF ProviderSetting
<1>5. new.active => u.code \in Implemented /\ new.attested /\ (new.key \/ u.code \in CredentialFree)
  <2>1. CASE u.isActive = "KEEP"
    BY <1>1, <2>1 DEF UpdateDto, Typed, TypeOK
  <2>2. CASE u.isActive = "TRUE"
    BY <2>2 DEF UpdateProvider, MayActivate
  <2>3. CASE u.isActive = "FALSE"
    BY <2>3
  <2> QED BY <1>1, <2>1, <2>2, <2>3 DEF UpdateDto
<1>6. setting' \in [Providers -> ProviderSetting]
  BY <1>3, <1>4 DEF Typed, TypeOK
<1>7. \A p \in Providers : setting'[p].active => p \in Implemented /\ setting'[p].attested
                                                /\ (setting'[p].key \/ p \in CredentialFree)
  BY <1>1, <1>3, <1>5 DEF UpdateDto, Typed, TypeOK
<1>8. UNCHANGED <<cache, usage, optout, snapshot, regulated, req, stored, mix, expiries>> /\ changes' \in 0..MaxChanges
  BY LookupsAssumption DEF UpdateProvider, Changing, Typed, TypeOK
<1>9. RequestsOK' /\ req' \in [Requests -> Request]
  BY <1>8, SameRequests
<1> QED BY <1>6, <1>7, <1>8, <1>9 DEF Typed, TypeOK

\* The switch of the background reports, its attestation, and the reports.
LEMMA RegulatedTyped ==
  ASSUME Typed, NEW r \in Requests,
         \/ \E e, a \in BOOLEAN : Configure(r, e, a)
         \/ Attest(r) \/ CheckAttestation(r) \/ BackgroundReport(r) \/ FileReport(r)
  PROVE  Typed'
<1>1. ASSUME NEW e \in BOOLEAN, NEW a \in BOOLEAN, Configure(r, e, a)
      PROVE  Typed'
  <2> PICK q : q = [Idle EXCEPT !.pc = "attest", !.op = "CONFIGURE", !.attested = a]
    OBVIOUS
  <2>1. q \in Request /\ RequestOK(q)
    BY IdleType, IdleOK DEF Request, Ops, RequestOK
  <2>2. RequestsOK' /\ req' \in [Requests -> Request]
    BY <1>1, <2>1, SetStep DEF Configure, Set
  <2>3. regulated' = [regulated EXCEPT !.enabled = e] /\ regulated \in [enabled: BOOLEAN, attested: BOOLEAN]
    BY <1>1 DEF Configure, Typed, TypeOK
  <2>4. regulated' \in [enabled: BOOLEAN, attested: BOOLEAN]
    BY <2>3
  <2>5. changes < MaxChanges /\ changes' = changes + 1
    BY <1>1, Zenon DEF Configure, Changing
  <2>6. changes' \in 0..MaxChanges
    BY <2>5, LookupsAssumption DEF Typed, TypeOK
  <2> QED BY <1>1, <2>2, <2>4, <2>6 DEF Configure, Typed, TypeOK
<1>2. CASE Attest(r)
  <2>1. RequestsOK' /\ req' \in [Requests -> Request]
    BY <1>2, IdleType, IdleOK, SetStep DEF Attest, Set
  <2>2. regulated' \in [enabled: BOOLEAN, attested: BOOLEAN]
    BY <1>2, RequestFacts DEF Attest, Request, Typed, TypeOK
  <2> QED BY <1>2, <2>1, <2>2 DEF Attest, Typed, TypeOK
<1>3. CASE CheckAttestation(r) \/ BackgroundReport(r) \/ FileReport(r)
  <2>1. Set(r, Idle) \/ \E pc \in {"report", "file"} : Goto(r, pc)
    BY <1>3 DEF CheckAttestation, BackgroundReport, FileReport
  <2>2. UNCHANGED <<tableVars, stored, mix, expiries, changes>>
    BY <1>3 DEF CheckAttestation, BackgroundReport, FileReport
  <2>3. RequestsOK' /\ req' \in [Requests -> Request]
    BY <2>1, <2>2, IdleType, IdleOK, SetStep, GotoStep DEF Set, tableVars, Pcs
  <2> QED BY <2>2, <2>3 DEF Typed, TypeOK, tableVars
<1> QED BY <1>1, <1>2, <1>3

\* Entries expire, and the counts of the day with the day.
LEMMA TimeTyped ==
  ASSUME Typed, Midnight \/ \E k \in Keys : Expire(k)
  PROVE  Typed'
<1>1. UNCHANGED <<setting, optout, snapshot, regulated, req, mix, changes>>
  BY DEF Midnight, Expire
<1>2. RequestsOK' /\ req' \in [Requests -> Request]
  BY <1>1, SameRequests
<1>3. /\ cache' \subseteq Keys /\ usage' \in [Kinds \X Providers -> Nat] /\ stored' \in [Keys -> Nat]
      /\ expiries' \in 0..MaxExpiries
  BY LookupsAssumption DEF Midnight, Expire, Typed, TypeOK
<1> QED BY <1>1, <1>2, <1>3 DEF Typed, TypeOK

\* The first part of the invariant is inductive on its own.
LEMMA TypedStep == Typed /\ [Next]_vars => Typed'
<1> SUFFICES ASSUME Typed, [Next]_vars PROVE Typed'
  OBVIOUS
<1>1. CASE UNCHANGED vars
  <2>1. UNCHANGED <<setting, cache, usage, optout, snapshot, regulated, req, stored, mix, expiries, changes>>
    BY <1>1 DEF vars, tableVars
  <2>2. RequestsOK' /\ req' \in [Requests -> Request]
    BY <2>1, SameRequests
  <2> QED BY <2>1, <2>2 DEF Typed, TypeOK
<1>2. CASE Next
  BY <1>2, BeginTyped, PaidTyped, HandlerTyped, GateTyped, RegulatedTyped, ListTyped,
     UpdateProviderTyped, TimeTyped DEF Next
<1> QED BY <1>1, <1>2

LEMMA TypedAlways == Spec => []Typed
BY InitTyped, TypedStep, PTL DEF Spec

\* The tables and requests keep their types, and no provider is in service that is not
\* implemented, without credentials where it needs them, or without an attestation.
THEOREM LookupsTypes == Spec => []TypeOK
BY TypedAlways, PTL DEF Typed

\* ListedIsBlocked: no call is logged to a number that was on the list the whole time.
THEOREM ListedIsBlockedAlways == Spec => []ListedIsBlocked
<1>1. Typed => ListedIsBlocked
  BY RequestFacts DEF ListedIsBlocked, At, RequestOK
<1> QED BY <1>1, TypedAlways, PTL

-----------------------------------------------------------------------------
(* What a step does to the paid calls under way                            *)

\* As far as the counts go, a handler is its place, its task and its number.
Same(t) == req'[t].pc = req[t].pc /\ req'[t].task = req[t].task /\ req'[t].phone = req[t].phone

\* The steps that move a paid call: a cache miss, and a check that passes or a call that is made.
Missed(r) ==
  /\ req[r].pc = "next" /\ req'[r].pc = "spend" /\ KeyOf(r)' \notin cache
  /\ UNCHANGED <<usage, cache, stored>>
Passes(r) == (CheckSpend(r) \/ CheckLimit(r) \/ LiveCall(r)) /\ req'[r].pc # "next"
Harmless ==
  /\ UNCHANGED <<usage, cache, stored>>
  /\ \A t \in Requests : Same(t) \/ req'[t].pc \notin PaidPcs

LEMMA SetSame ==
  ASSUME Typed, NEW r \in Requests, NEW q, Set(r, q)
  PROVE  req'[r] = q /\ \A t \in Requests \ {r} : Same(t)
BY DEF Set, Same, Typed, TypeOK

LEMMA GotoSame ==
  ASSUME Typed, NEW r \in Requests, NEW pc, Goto(r, pc)
  PROVE  /\ req'[r].pc = pc /\ req'[r].task = req[r].task /\ req'[r].phone = req[r].phone
         /\ \A t \in Requests \ {r} : Same(t)
BY RequestFacts DEF Goto, Same, Typed, TypeOK, Request

LEMMA TaskDoneSame ==
  ASSUME Typed, NEW r \in Requests, TaskDone(r)
  PROVE  req'[r].pc = "next" /\ \A t \in Requests \ {r} : Same(t)
BY RequestFacts DEF TaskDone, Same, Typed, TypeOK, Request

LEMMA EndsHarmless ==
  ASSUME Typed, NEW r \in Requests, req'[r].pc \notin PaidPcs, \A t \in Requests \ {r} : Same(t),
         UNCHANGED <<usage, cache, stored>>
  PROVE  Harmless
BY DEF Harmless

\* Every step leaves the paid calls alone or ends one, but for these.
LEMMA StepKinds ==
  ASSUME Typed, Next
  PROVE  \/ Harmless
         \/ \E r \in Requests : /\ \A t \in Requests \ {r} : Same(t)
                                /\ Missed(r) \/ Passes(r) \/ StoreAnswer(r) \/ RecordUsage(r)
         \/ (\E k \in Keys : Expire(k)) \/ Midnight
<1> DEFINE Goal == \/ Harmless
                   \/ \E r \in Requests : /\ \A t \in Requests \ {r} : Same(t)
                                          /\ Missed(r) \/ Passes(r) \/ StoreAnswer(r) \/ RecordUsage(r)
                   \/ (\E k \in Keys : Expire(k)) \/ Midnight
<1>1. ASSUME NEW r \in Requests, Begin(r)
      PROVE  Goal
  <2> PICK n \in Phones : Search(r, n) \/ Call(r, n) \/ Report(r, n) \/ \E level \in mix.levels : Enrich(r, n, level)
    BY <1>1 DEF Begin
  <2>1. ASSUME NEW q, NEW pc \in {"next", "gate", "attestation"}, Set(r, q), q.pc = pc
        PROVE  Goal
    BY <1>1, <2>1, SetSame, EndsHarmless DEF Begin, tableVars, PaidPcs, InAsk, PastLimit
  <2>2. CASE Search(r, n)
    <3> PICK q : q = [Idle EXCEPT !.pc = "next", !.op = "SEARCH", !.phone = n,
                                  !.todo = [kind: {"search"}, code: Active \cap OnSearch \cap Implemented]]
      OBVIOUS
    <3>1. Set(r, q) /\ q.pc = "next"
      BY <2>2, IdleType DEF Search, Request
    <3> QED BY <2>1, <3>1
  <2>3. CASE Call(r, n)
    <3> PICK q : q = [Idle EXCEPT !.pc = "gate", !.op = "CALL", !.phone = n,
                                  !.blocked = snapshot[n] = "BLOCKED", !.listed = n \in optout]
      OBVIOUS
    <3>1. Set(r, q) /\ q.pc = "gate"
      BY <2>3, IdleType DEF Call, Request
    <3> QED BY <2>1, <3>1
  <2>4. CASE Report(r, n)
    <3> PICK q : q = [Idle EXCEPT !.pc = "attestation", !.op = "REPORT", !.phone = n]
      OBVIOUS
    <3>1. Set(r, q) /\ q.pc = "attestation"
      BY <2>4, IdleType DEF Report, Request
    <3> QED BY <2>1, <3>1
  <2>5. ASSUME NEW level \in mix.levels, Enrich(r, n, level)
        PROVE  Goal
    <3> PICK active, q :
          /\ active = {p \in Active : Level[p] <= level}
          /\ q = [Idle EXCEPT !.pc = "next", !.op = "ENRICH", !.phone = n,
                              !.todo = [kind: {"enrich"}, code: active \cap Implemented]
                                         \cup [kind: {"idmatch"}, code: active \cap {Verifier}]]
      OBVIOUS
    <3>1. Set(r, q) /\ q.pc = "next"
      BY <2>5, IdleType DEF Enrich, Request
    <3> QED BY <2>1, <3>1
  <2> QED BY <2>2, <2>3, <2>4, <2>5
<1>2. ASSUME NEW r \in Requests, Look(r)
      PROVE  Goal
  <2>1. UNCHANGED <<usage, cache, stored>> /\ req[r].pc = "next"
    BY <1>2 DEF Look, tableVars, At
  <2> PICK t \in Turns(r) : Set(r, IF <<t.kind, t.code, req[r].phone>> \in cache
                                    THEN [req[r] EXCEPT !.todo = @ \ {t}]
                                    ELSE [req[r] EXCEPT !.todo = @ \ {t}, !.task = t, !.pc = "spend"])
    BY <1>2 DEF Look
  <2>2. CASE <<t.kind, t.code, req[r].phone>> \in cache
    <3> PICK q : q = [req[r] EXCEPT !.todo = @ \ {t}]
      OBVIOUS
    <3>1. Set(r, q) /\ q.pc = "next"
      BY <2>1, <2>2, RequestFacts DEF Request
    <3>2. req'[r].pc = "next" /\ \A u \in Requests \ {r} : Same(u)
      BY <3>1, SetSame
    <3> QED BY <2>1, <3>2, EndsHarmless DEF PaidPcs, InAsk, PastLimit
  <2>3. CASE <<t.kind, t.code, req[r].phone>> \notin cache
    <3> PICK q : q = [req[r] EXCEPT !.todo = @ \ {t}, !.task = t, !.pc = "spend"]
      OBVIOUS
    <3>1. Set(r, q) /\ q.pc = "spend" /\ q.task = t /\ q.phone = req[r].phone
      BY <2>3, RequestFacts DEF Request
    <3>2. req'[r] = q /\ \A u \in Requests \ {r} : Same(u)
      BY <3>1, SetSame
    <3>3. KeyOf(r)' = <<t.kind, t.code, req[r].phone>>
      BY <3>1, <3>2 DEF KeyOf
    <3> QED BY <2>1, <2>3, <3>1, <3>2, <3>3 DEF Missed
  <2> QED BY <2>2, <2>3
<1>3. ASSUME NEW r \in Requests, CheckSpend(r) \/ CheckLimit(r) \/ LiveCall(r) \/ Skip(r)
      PROVE  Goal
  <2>1. UNCHANGED <<usage, cache, stored>>
    BY <1>3 DEF CheckSpend, CheckLimit, LiveCall, Skip, tableVars
  <2>2. \/ TaskDone(r)
        \/ (CheckSpend(r) \/ CheckLimit(r) \/ LiveCall(r)) /\ \E pc \in {"limit", "call", "store"} : Goto(r, pc)
    BY <1>3 DEF CheckSpend, CheckLimit, LiveCall, Skip
  <2>3. CASE TaskDone(r)
    BY <2>1, <2>3, TaskDoneSame, EndsHarmless DEF PaidPcs, InAsk, PastLimit
  <2>4. ASSUME NEW pc \in {"limit", "call", "store"}, Goto(r, pc), CheckSpend(r) \/ CheckLimit(r) \/ LiveCall(r)
        PROVE  Goal
    BY <2>4, GotoSame DEF Passes
  <2> QED BY <2>2, <2>3, <2>4
<1>4. ASSUME NEW r \in Requests, StoreAnswer(r)
      PROVE  Goal
  BY <1>4, GotoSame DEF StoreAnswer
<1>5. ASSUME NEW r \in Requests, RecordUsage(r)
      PROVE  Goal
  BY <1>5, TaskDoneSame DEF RecordUsage
<1>6. ASSUME NEW r \in Requests, NEW q, Set(r, q), q.pc \notin PaidPcs, UNCHANGED <<usage, cache, stored>>
      PROVE  Goal
  BY <1>6, SetSame, EndsHarmless
<1>7. ASSUME NEW r \in Requests, NEW pc \in Pcs \ PaidPcs, Goto(r, pc), UNCHANGED <<usage, cache, stored>>
      PROVE  Goal
  BY <1>7, GotoSame, EndsHarmless
<1>8. Idle.pc \notin PaidPcs
  BY DEF Idle, PaidPcs, InAsk, PastLimit
<1>9. ASSUME NEW r \in Requests,
             \/ Asked(r) \/ Abandon(r) \/ SaveSnapshot(r) \/ Gate(r) \/ LogCall(r)
             \/ Attest(r) \/ CheckAttestation(r) \/ BackgroundReport(r) \/ FileReport(r)
      PROVE  Goal
  <2>1. UNCHANGED <<usage, cache, stored>>
    BY <1>9 DEF Asked, Abandon, SaveSnapshot, Gate, LogCall, Attest, CheckAttestation, BackgroundReport,
                FileReport, tableVars
  <2>2. Set(r, Idle) \/ \E pc \in {"comply", "log", "report", "file"} : Goto(r, pc)
    BY <1>9 DEF Asked, Abandon, SaveSnapshot, Gate, LogCall, Attest, CheckAttestation, BackgroundReport, FileReport
  <2> QED BY <1>6, <1>7, <1>8, <2>1, <2>2 DEF Pcs, PaidPcs, InAsk, PastLimit
<1>10. ASSUME NEW r \in Requests, Comply(r) \/ Scrub(r)
       PROVE  Goal
  <2>1. UNCHANGED <<usage, cache, stored>>
    BY <1>10 DEF Comply, Scrub, tableVars
  <2>2. ASSUME NEW pc \in {"scrub", "save"}, NEW b, Set(r, [req[r] EXCEPT !.pc = pc, !.blocked = b])
        PROVE  Goal
    <3> PICK q : q = [req[r] EXCEPT !.pc = pc, !.blocked = b]
      OBVIOUS
    <3>1. Set(r, q) /\ q.pc = pc
      BY <2>2, RequestFacts DEF Request
    <3> QED BY <1>6, <2>1, <3>1 DEF PaidPcs, InAsk, PastLimit
  <2>3. CASE Comply(r)
    BY <2>2, <2>3 DEF Comply
  <2>4. CASE Scrub(r)
    BY <2>2, <2>4 DEF Scrub
  <2> QED BY <1>10, <2>3, <2>4
<1>11. ASSUME NEW r \in Requests, NEW e \in BOOLEAN, NEW a \in BOOLEAN, Configure(r, e, a)
       PROVE  Goal
  <2> PICK q : q = [Idle EXCEPT !.pc = "attest", !.op = "CONFIGURE", !.attested = a]
    OBVIOUS
  <2>1. Set(r, q) /\ q.pc = "attest"
    BY <1>11, IdleType DEF Configure, Request
  <2> QED BY <1>6, <1>11, <2>1 DEF Configure, PaidPcs, InAsk, PastLimit
<1>12. ASSUME UNCHANGED <<usage, cache, stored>>, \A t \in Requests : Same(t)
       PROVE  Goal
  BY <1>12 DEF Harmless
<1>13. ASSUME NEW n \in Phones, DncAdd(n) \/ DncRemove(n)
       PROVE  Goal
  <2>1. \A t \in Requests : Same(t)
    BY <1>13, RequestFacts DEF DncAdd, DncRemove, Same, Request, Typed, TypeOK
  <2> QED BY <1>12, <1>13, <2>1 DEF DncAdd, DncRemove
<1>14. ASSUME NEW u \in Updates, UpdateProvider(u)
       PROVE  Goal
  BY <1>12, <1>14 DEF UpdateProvider, Same
<1>15. ASSUME (\E k \in Keys : Expire(k)) \/ Midnight
       PROVE  Goal
  BY <1>15
<1> HIDE DEF Goal
<1>16. ASSUME NEW r \in Requests, Paid(r)
       PROVE  Goal
  BY <1>2, <1>3, <1>4, <1>5, <1>16 DEF Paid
<1>17. ASSUME NEW r \in Requests,
              \/ Begin(r) \/ Paid(r) \/ Asked(r) \/ Abandon(r)
              \/ Comply(r) \/ Scrub(r) \/ SaveSnapshot(r) \/ Gate(r) \/ LogCall(r)
              \/ \E e, a \in BOOLEAN : Configure(r, e, a)
              \/ Attest(r) \/ CheckAttestation(r) \/ BackgroundReport(r) \/ FileReport(r)
       PROVE  Goal
  BY <1>1, <1>9, <1>10, <1>11, <1>16, <1>17
<1>18. Goal
  BY <1>13, <1>14, <1>15, <1>17 DEF Next
<1> QED BY <1>18 DEF Goal

-----------------------------------------------------------------------------
(* The counts                                                              *)

LEMMA PassMoves ==
  ASSUME Typed, NEW r \in Requests, Passes(r)
  PROVE  /\ req'[r].task = req[r].task /\ req'[r].phone = req[r].phone
         /\ \/ CheckSpend(r) /\ req[r].pc = "spend" /\ req'[r].pc = "limit" /\ ~OverCap(req[r].task)
            \/ /\ CheckLimit(r) /\ req[r].pc = "limit" /\ req'[r].pc = "call"
               /\ \/ Limiters(req[r].task) = {}
                  \/ \E p \in Limiters(req[r].task) : ~OverLimit(p)
            \/ req[r].pc = "call" /\ req'[r].pc = "store"
         /\ UNCHANGED <<usage, cache, stored>>
<1>1. CASE CheckSpend(r)
  <2>1. Goto(r, "limit") /\ ~OverCap(req[r].task) /\ req[r].pc = "spend" /\ UNCHANGED <<usage, cache, stored>>
    BY <1>1, TaskDoneSame DEF Passes, CheckSpend, At, tableVars
  <2> QED BY <1>1, <2>1, GotoSame
<1>2. CASE CheckLimit(r)
  <2>1. /\ Goto(r, "call") /\ req[r].pc = "limit" /\ UNCHANGED <<usage, cache, stored>>
        /\ \/ Limiters(req[r].task) = {}
           \/ \E p \in Limiters(req[r].task) : ~OverLimit(p)
    BY <1>2, TaskDoneSame DEF Passes, CheckLimit, At, tableVars
  <2> QED BY <1>2, <2>1, GotoSame
<1>3. CASE LiveCall(r)
  <2>1. Goto(r, "store") /\ req[r].pc = "call" /\ UNCHANGED <<usage, cache, stored>>
    BY <1>3 DEF LiveCall, At, tableVars
  <2> QED BY <2>1, GotoSame
<1> QED BY <1>1, <1>2, <1>3 DEF Passes

LEMMA RecordMoves ==
  ASSUME Typed, NEW r \in Requests, RecordUsage(r)
  PROVE  /\ req[r].pc = "record" /\ req'[r].pc = "next" /\ req[r].task \in Task
         /\ UNCHANGED <<cache, stored>>
BY TaskDoneSame, RequestFacts DEF RecordUsage, At, Request

LEMMA StoreMoves ==
  ASSUME Typed, NEW r \in Requests, StoreAnswer(r)
  PROVE  /\ req[r].pc = "store" /\ req'[r].pc = "record"
         /\ req'[r].task = req[r].task /\ req'[r].phone = req[r].phone
         /\ UNCHANGED usage
BY GotoSame DEF StoreAnswer, At

\* No set of handlers is larger than that of all handlers.
LEMMA ConcurrencyBounds ==
  ASSUME NEW S, S \subseteq Requests
  PROVE  /\ IsFiniteSet(S) /\ Cardinality(S) \in Nat /\ Concurrency \in Nat \ {0}
         /\ Cardinality(S) <= Concurrency
<1>1. IsFiniteSet(Requests) /\ Requests # {}
  BY LookupsAssumption
<1>2. Cardinality(Requests) \in Nat /\ Cardinality(Requests) # 0
  BY <1>1, FS_CardinalityType, FS_EmptySet
<1> QED BY <1>1, <1>2, FS_Subset, FS_CardinalityType DEF Concurrency

\* What a step does to the handlers charged to a provider, with its recorded calls: nothing or
\* less, one moves from the handlers to the record, or one more passes the check.
LEMMA ChargeStep ==
  ASSUME Typed, Next, NEW pcs \in {PastLimit, PastCap}, NEW kinds \in SUBSET Kinds, NEW p \in Providers,
         NEW n, n = Cardinality(Charging(pcs, kinds, p)), NEW m, m = Cardinality(Charging(pcs, kinds, p))'
  PROVE  /\ n \in Nat /\ m \in Nat /\ n <= Concurrency /\ m <= Concurrency
         /\ \/ m <= n /\ \A k \in Kinds : usage'[<<k, p>>] <= usage[<<k, p>>]
            \/ \E r \in Requests :
                 /\ RecordUsage(r) /\ req[r].task.code = p
                 /\ m = IF req[r].task.kind \in kinds THEN n - 1 ELSE n
            \/ \E r \in Requests :
                 /\ req[r].task.kind \in kinds /\ req[r].task.code = p /\ UNCHANGED usage /\ m = n + 1
                 /\ \/ pcs = PastLimit /\ CheckLimit(r) /\ req'[r].pc = "call"
                    \/ pcs = PastCap /\ CheckSpend(r) /\ req'[r].pc = "limit"
<1> PICK old, new : old = Charging(pcs, kinds, p) /\ new = Charging(pcs, kinds, p)'
  OBVIOUS
<1>1. /\ \A t \in Requests : t \in old <=> req[t].pc \in pcs /\ req[t].task.kind \in kinds /\ req[t].task.code = p
      /\ \A t \in Requests : t \in new <=> req'[t].pc \in pcs /\ req'[t].task.kind \in kinds /\ req'[t].task.code = p
      /\ old \subseteq Requests /\ new \subseteq Requests
  BY DEF Charging
<1>2. n = Cardinality(old) /\ m = Cardinality(new)
  OBVIOUS
<1>3. n \in Nat /\ m \in Nat /\ n <= Concurrency /\ m <= Concurrency /\ IsFiniteSet(old) /\ IsFiniteSet(new)
  BY <1>1, <1>2, ConcurrencyBounds
<1>4. \A k \in Kinds : usage[<<k, p>>] \in Nat
  BY DEF Typed, TypeOK
<1> DEFINE Less == m <= n /\ \A k \in Kinds : usage'[<<k, p>>] <= usage[<<k, p>>]
<1>5. ASSUME UNCHANGED usage, new \subseteq old
      PROVE  Less
  <2>1. m <= n
    BY <1>2, <1>3, <1>5, FS_Subset
  <2> QED BY <1>4, <1>5, <2>1
<1>6. CASE Harmless
  <2>1. new \subseteq old
    BY <1>1, <1>6 DEF Harmless, Same, PaidPcs, InAsk, PastLimit, PastCap
  <2> QED BY <1>3, <1>5, <1>6, <2>1 DEF Harmless
<1>7. ASSUME NEW r \in Requests, \A t \in Requests \ {r} : Same(t)
      PROVE  /\ r \in old /\ r \notin new => m = n - 1
             /\ r \notin old /\ r \in new => m = n + 1
             /\ (r \in old <=> r \in new) => new = old
  <2>1. new \ {r} = old \ {r}
    BY <1>1, <1>7 DEF Same
  <2> QED BY <1>2, <1>3, <2>1, ExchangeOne
<1>8. ASSUME NEW r \in Requests, \A t \in Requests \ {r} : Same(t), Missed(r)
      PROVE  Less
  <2>1. r \notin old /\ r \notin new
    BY <1>1, <1>8 DEF Missed, PastLimit, PastCap
  <2> QED BY <1>5, <1>7, <1>8, <2>1 DEF Missed
<1>9. ASSUME NEW r \in Requests, \A t \in Requests \ {r} : Same(t), StoreAnswer(r)
      PROVE  Less
  <2>1. r \in old <=> r \in new
    BY <1>1, <1>9, StoreMoves DEF PastLimit, PastCap
  <2> QED BY <1>5, <1>7, <1>9, <2>1, StoreMoves
<1>10. ASSUME NEW r \in Requests, \A t \in Requests \ {r} : Same(t), RecordUsage(r)
       PROVE  \/ Less
              \/ req[r].task.code = p /\ m = IF req[r].task.kind \in kinds THEN n - 1 ELSE n
  <2>1. r \notin new /\ (r \in old <=> req[r].task.kind \in kinds /\ req[r].task.code = p)
    BY <1>1, <1>10, RecordMoves DEF PastLimit, PastCap
  <2>2. CASE req[r].task.code = p
    BY <1>7, <1>10, <1>2, <2>1, <2>2
  <2>3. CASE req[r].task.code # p
    <3>1. new = old
      BY <1>7, <1>10, <2>1, <2>3
    <3>2. \A k \in Kinds : usage'[<<k, p>>] = usage[<<k, p>>]
      BY <1>10, <2>3 DEF RecordUsage, Typed, TypeOK
    <3> QED BY <1>2, <1>3, <1>4, <3>1, <3>2
  <2> QED BY <2>2, <2>3
<1>11. ASSUME NEW r \in Requests, \A t \in Requests \ {r} : Same(t), Passes(r)
       PROVE  \/ Less
              \/ /\ req[r].task.kind \in kinds /\ req[r].task.code = p /\ UNCHANGED usage /\ m = n + 1
                 /\ \/ pcs = PastLimit /\ CheckLimit(r) /\ req'[r].pc = "call"
                    \/ pcs = PastCap /\ CheckSpend(r) /\ req'[r].pc = "limit"
  <2>1. CASE r \in old <=> r \in new
    BY <1>5, <1>7, <1>11, <2>1, PassMoves
  <2>2. CASE ~(r \in old <=> r \in new)
    <3>1. /\ r \notin old /\ r \in new /\ req[r].task.kind \in kinds /\ req[r].task.code = p /\ UNCHANGED usage
          /\ \/ pcs = PastLimit /\ CheckLimit(r) /\ req'[r].pc = "call"
             \/ pcs = PastCap /\ CheckSpend(r) /\ req'[r].pc = "limit"
      BY <1>1, <1>11, <2>2, PassMoves DEF PastLimit, PastCap
    <3> QED BY <1>7, <1>11, <3>1
  <2> QED BY <2>1, <2>2
<1>12. ASSUME (\E k \in Keys : Expire(k)) \/ Midnight
       PROVE  Less
  <2>1. UNCHANGED req
    BY <1>12 DEF Expire, Midnight
  <2>2. new = old
    BY <1>1, <2>1
  <2>3. \A k \in Kinds : usage'[<<k, p>>] <= usage[<<k, p>>]
    BY <1>4, <1>12 DEF Expire, Midnight
  <2> QED BY <1>2, <1>3, <2>2, <2>3
<1> QED BY <1>3, <1>6, <1>8, <1>9, <1>10, <1>11, <1>12, StepKinds

-----------------------------------------------------------------------------
(* The daily request limit                                                 *)

LEMMA CallsType ==
  ASSUME Typed, NEW p \in Providers
  PROVE  /\ Calls(p) \in Nat /\ Price[p] \in Nat /\ SpendCap[p] \in Nat /\ Limit[p] \in Nat
         /\ \A k \in Kinds : usage[<<k, p>>] \in Nat
BY LookupsAssumption DEF Typed, TypeOK, Calls, Kinds

LEMMA CallsTypeAfter ==
  ASSUME Typed', NEW p \in Providers
  PROVE  \A k \in Kinds : usage'[<<k, p>>] \in Nat
BY DEF Typed, TypeOK

\* One more row is one more call of its kind and provider.
LEMMA CallsRecorded ==
  ASSUME Typed, NEW r \in Requests, RecordUsage(r), NEW p \in Providers, req[r].task.code = p
  PROVE  \A j \in Kinds : usage'[<<j, p>>] = IF j = req[r].task.kind THEN usage[<<j, p>>] + 1 ELSE usage[<<j, p>>]
<1> PICK k \in Kinds : k = req[r].task.kind
  BY RequestFacts DEF Request, Task
<1>1. usage' = [usage EXCEPT ![<<k, p>>] = @ + 1]
  BY DEF RecordUsage
<1>2. <<k, p>> \in Kinds \X Providers /\ usage \in [Kinds \X Providers -> Nat]
  BY DEF Typed, TypeOK
<1> QED BY <1>1, <1>2

\* A search or an enrichment is held against its provider's own limit, which counts
\* the identity matches as well.
LEMMA LimitStep ==
  ASSUME Typed, Typed', LimitOvershoot, Next
  PROVE  LimitOvershoot'
<1> SUFFICES ASSUME NEW p \in Providers, Limit[p] > 0
             PROVE  Live(p)' + InFlight(PastLimit, {"search", "enrich"}, p)' < Limit[p] + Concurrency
  BY DEF LimitOvershoot, Concurrency
<1> PICK n, m : /\ n = Cardinality(Charging(PastLimit, {"search", "enrich"}, p))
                /\ m = Cardinality(Charging(PastLimit, {"search", "enrich"}, p))'
  OBVIOUS
<1>1. InFlight(PastLimit, {"search", "enrich"}, p) = n /\ InFlight(PastLimit, {"search", "enrich"}, p)' = m
  BY DEF InFlight
<1>2. Live(p) + n < Limit[p] + Concurrency
  BY <1>1 DEF LimitOvershoot
<1>3. /\ n \in Nat /\ m \in Nat /\ n <= Concurrency /\ m <= Concurrency
      /\ \/ m <= n /\ \A k \in Kinds : usage'[<<k, p>>] <= usage[<<k, p>>]
         \/ \E r \in Requests :
              /\ RecordUsage(r) /\ req[r].task.code = p
              /\ m = IF req[r].task.kind \in {"search", "enrich"} THEN n - 1 ELSE n
         \/ \E r \in Requests :
              /\ req[r].task.kind \in {"search", "enrich"} /\ req[r].task.code = p
              /\ UNCHANGED usage /\ CheckLimit(r) /\ req'[r].pc = "call"
  <2>1. PastLimit # PastCap
    BY DEF PastLimit, PastCap
  <2>2. {"search", "enrich"} \in SUBSET Kinds
    BY DEF Kinds
  <2> QED BY <2>1, <2>2, ChargeStep
<1>4. /\ Calls(p) \in Nat /\ Live(p) \in Nat /\ Live(p)' \in Nat /\ Limit[p] \in Nat /\ Concurrency \in Nat
      /\ Live(p) <= Calls(p)
  BY CallsType, CallsTypeAfter, ConcurrencyBounds DEF Live, Calls, Kinds
<1>5. CASE m <= n /\ \A k \in Kinds : usage'[<<k, p>>] <= usage[<<k, p>>]
  <2>1. Live(p)' <= Live(p)
    BY <1>5, CallsType, CallsTypeAfter DEF Live, Kinds
  <2> QED BY <1>1, <1>2, <1>3, <1>4, <1>5, <2>1
<1>6. ASSUME NEW r \in Requests, RecordUsage(r), req[r].task.code = p,
             m = IF req[r].task.kind \in {"search", "enrich"} THEN n - 1 ELSE n
      PROVE  Live(p)' + m < Limit[p] + Concurrency
  <2>1. Live(p)' = IF req[r].task.kind \in {"search", "enrich"} THEN Live(p) + 1 ELSE Live(p)
    <3> PICK kind \in Kinds : kind = req[r].task.kind
      BY RequestFacts DEF Request, Task
    <3>1. /\ usage'[<<"search", p>>] = IF kind = "search" THEN usage[<<"search", p>>] + 1 ELSE usage[<<"search", p>>]
          /\ usage'[<<"enrich", p>>] = IF kind = "enrich" THEN usage[<<"enrich", p>>] + 1 ELSE usage[<<"enrich", p>>]
          /\ usage[<<"search", p>>] \in Nat /\ usage[<<"enrich", p>>] \in Nat
      BY <1>6, CallsRecorded, CallsType DEF Kinds
    <3>2. /\ Live(p)' = usage'[<<"search", p>>] + usage'[<<"enrich", p>>]
          /\ Live(p) = usage[<<"search", p>>] + usage[<<"enrich", p>>]
      BY DEF Live
    <3> QED BY <3>1, <3>2
  <2> QED BY <1>2, <1>3, <1>4, <1>6, <2>1
<1>7. ASSUME NEW r \in Requests, req[r].task.kind \in {"search", "enrich"}, req[r].task.code = p,
             UNCHANGED usage, CheckLimit(r), req'[r].pc = "call"
      PROVE  Live(p)' + m < Limit[p] + Concurrency
  <2>1. Limiters(req[r].task) = {p}
    BY <1>7 DEF Limiters
  <2>2. ~OverLimit(p)
    BY <1>7, <2>1, PassMoves DEF Passes
  <2>3. Calls(p) < Limit[p]
    BY <1>4, <2>2 DEF OverLimit
  <2>4. Live(p)' = Live(p)
    BY <1>7 DEF Live
  <2> QED BY <1>3, <1>4, <2>3, <2>4
<1> QED BY <1>1, <1>3, <1>5, <1>6, <1>7

-----------------------------------------------------------------------------
(* A provider's own spend cap                                              *)

\* A search counts what its provider cost so far, by whatever kind of call, before it calls.
LEMMA SearchStep ==
  ASSUME Typed, Typed', SearchOvershoot, Next
  PROVE  SearchOvershoot'
<1> SUFFICES ASSUME NEW p \in Providers, SpendCap[p] > 0, Price[p] > 0
             PROVE  Price[p] * (usage'[<<"search", p>>] + InFlight(PastCap, {"search"}, p)')
                      <= SpendCap[p] + Price[p] * (Concurrency - 1)
  BY DEF SearchOvershoot, Concurrency
<1> PICK n, m : n = Cardinality(Charging(PastCap, {"search"}, p)) /\ m = Cardinality(Charging(PastCap, {"search"}, p))'
  OBVIOUS
<1> PICK price, cap, most : price = Price[p] /\ cap = SpendCap[p] /\ most = Concurrency
  OBVIOUS
<1> PICK calls, after : calls = usage[<<"search", p>>] /\ after = usage'[<<"search", p>>]
  OBVIOUS
<1>0. InFlight(PastCap, {"search"}, p) = n /\ InFlight(PastCap, {"search"}, p)' = m
  BY DEF InFlight
<1>1. price * (calls + n) <= cap + price * (most - 1)
  BY <1>0 DEF SearchOvershoot
<1>2. /\ n \in Nat /\ m \in Nat /\ n <= most /\ m <= most
      /\ \/ m <= n /\ \A k \in Kinds : usage'[<<k, p>>] <= usage[<<k, p>>]
         \/ \E r \in Requests :
              /\ RecordUsage(r) /\ req[r].task.code = p
              /\ m = IF req[r].task.kind \in {"search"} THEN n - 1 ELSE n
         \/ \E r \in Requests :
              /\ req[r].task.kind \in {"search"} /\ req[r].task.code = p /\ UNCHANGED usage
              /\ CheckSpend(r) /\ req'[r].pc = "limit"
  <2>1. PastLimit # PastCap
    BY DEF PastLimit, PastCap
  <2>2. {"search"} \in SUBSET Kinds
    BY DEF Kinds
  <2> QED BY <2>1, <2>2, ChargeStep
<1>3. calls \in Nat /\ after \in Nat /\ price \in Nat /\ cap \in Nat /\ most \in Nat
  BY CallsType, CallsTypeAfter, ConcurrencyBounds DEF Kinds
<1>4. ASSUME NEW a \in Nat, NEW b \in Nat, a <= b
      PROVE  price * a <= price * b
  BY <1>3, <1>4
<1>5. ASSUME after + m <= calls + n
      PROVE  price * (after + m) <= cap + price * (most - 1)
  <2> PICK a, b : a = after + m /\ b = calls + n
    OBVIOUS
  <2>1. a \in Nat /\ b \in Nat /\ a <= b
    BY <1>2, <1>3, <1>5
  <2>2. price * a <= price * b
    BY <1>4, <2>1
  <2> QED BY <1>1, <1>3, <2>1, <2>2
<1>6. CASE m <= n /\ \A k \in Kinds : usage'[<<k, p>>] <= usage[<<k, p>>]
  <2>1. after <= calls
    BY <1>6 DEF Kinds
  <2>2. after + m <= calls + n
    BY <1>2, <1>3, <1>6, <2>1
  <2> QED BY <1>0, <1>5, <2>2
<1>7. ASSUME NEW r \in Requests, RecordUsage(r), req[r].task.code = p,
             m = IF req[r].task.kind \in {"search"} THEN n - 1 ELSE n
      PROVE  after + m <= calls + n
  <2>1. after = IF req[r].task.kind = "search" THEN calls + 1 ELSE calls
    BY <1>7, CallsRecorded DEF Kinds
  <2> QED BY <1>2, <1>3, <1>7, <2>1
<1>8. ASSUME NEW r \in Requests, req[r].task.kind \in {"search"}, req[r].task.code = p, UNCHANGED usage,
             CheckSpend(r), req'[r].pc = "limit"
      PROVE  price * (after + m) <= cap + price * (most - 1)
  <2>1. ~OverCap(req[r].task)
    BY <1>8, PassMoves DEF Passes
  <2>2. ~(SpendCap[p] > 0 /\ SpentBy(p) + Price[p] > SpendCap[p])
    BY <1>8, <2>1 DEF OverCap
  <2> PICK all : all = Calls(p)
    OBVIOUS
  <2>3. all \in Nat /\ calls <= all /\ price * all + price <= cap
    <3>1. all \in Nat /\ calls <= all
      BY CallsType DEF Calls, Kinds
    <3>2. price * all \in Nat
      BY <1>3, <3>1
    <3> QED BY <1>3, <2>2, <3>1, <3>2 DEF SpentBy
  <2>4. after = calls
    BY <1>8
  <2>5. price * m <= price * most /\ price * calls <= price * all
    BY <1>2, <1>3, <1>4, <2>3
  <2>6. price * (calls + m) = price * calls + price * m /\ price * (most - 1) = price * most - price
    BY <1>2, <1>3
  <2>7. price * calls \in Int /\ price * m \in Int /\ price * most \in Int /\ price * all \in Int
    BY <1>2, <1>3, <2>3
  <2> PICK w, x, y, z : w = price * all /\ x = price * calls /\ y = price * m /\ z = price * most
    OBVIOUS
  <2>8. w + price <= cap /\ x <= w /\ y <= z /\ w \in Int /\ x \in Int /\ y \in Int /\ z \in Int
    BY <2>3, <2>5, <2>7
  <2>9. x + y <= cap + (z - price)
    BY <1>3, <2>8
  <2> QED BY <2>4, <2>6, <2>9
<1> QED BY <1>0, <1>2, <1>5, <1>6, <1>7, <1>8

-----------------------------------------------------------------------------
(* The cap all enrichments share                                           *)

Spent == [p \in Providers |-> Price[p] * usage[<<"enrich", p>>]]

LEMMA SpentType ==
  ASSUME Typed
  PROVE  Spent \in [Providers -> Nat] /\ EnrichSpent = Sum(Spent, Providers)
<1>1. ASSUME NEW p \in Providers
      PROVE  Price[p] * usage[<<"enrich", p>>] \in Nat
  <2> PICK price, used : price = Price[p] /\ used = usage[<<"enrich", p>>]
    OBVIOUS
  <2>1. price \in Nat /\ used \in Nat
    BY CallsType DEF Kinds
  <2> QED BY <2>1
<1> QED BY <1>1 DEF Spent, EnrichSpent

LEMMA SpentTypeAfter ==
  ASSUME Typed'
  PROVE  Spent' \in [Providers -> Nat] /\ EnrichSpent' = Sum(Spent', Providers)
<1>1. ASSUME NEW p \in Providers
      PROVE  Price[p] * usage'[<<"enrich", p>>] \in Nat
  <2> PICK price, used : price = Price[p] /\ used = usage'[<<"enrich", p>>]
    OBVIOUS
  <2>1. price \in Nat /\ used \in Nat
    BY CallsTypeAfter, LookupsAssumption DEF Kinds
  <2> QED BY <2>1
<1>2. EnrichSpent' = Sum(Spent', Providers)
  BY DEF EnrichSpent, Spent, Sum, Units
<1> QED BY <1>1, <1>2 DEF Spent

\* What an enrichment has yet to record is the price of a provider enrichments may ask.
LEMMA PendingType ==
  ASSUME Typed, NEW d \in Nat, \A q \in AskedByEnrich : Price[q] <= d
  PROVE  Pending \in [Requests -> Nat] /\ \A r \in Requests : Pending[r] <= d
<1>1. ASSUME NEW r \in Requests
      PROVE  Pending[r] \in Nat /\ Pending[r] <= d
  <2>1. req[r].task \in Task /\ TaskOK(req[r].task) /\ Price[req[r].task.code] \in Nat
    BY RequestFacts, LookupsAssumption DEF Request, RequestOK, Task
  <2>2. CASE req[r].task.kind = "enrich"
    <3>1. req[r].task.code \in AskedByEnrich
      BY <2>1, <2>2 DEF TaskOK, Task, AskedByEnrich
    <3> QED BY <2>1, <3>1 DEF Pending
  <2>3. CASE req[r].task.kind # "enrich"
    BY <2>3 DEF Pending
  <2> QED BY <2>2, <2>3
<1> QED BY <1>1 DEF Pending

LEMMA PendingTypeAfter ==
  ASSUME Typed', UNCHANGED mix, NEW d \in Nat, \A q \in AskedByEnrich : Price[q] <= d
  PROVE  Pending' \in [Requests -> Nat] /\ \A r \in Requests : Pending'[r] <= d
<1>1. ASSUME NEW r \in Requests
      PROVE  Pending'[r] \in Nat /\ Pending'[r] <= d
  <2>1. req'[r].task \in Task /\ TaskOK(req'[r].task) /\ Price[req'[r].task.code] \in Nat
    BY LookupsAssumption DEF Request, RequestOK, RequestsOK, Task, TaskOK, Typed, TypeOK
  <2>2. CASE req'[r].task.kind = "enrich"
    <3>1. req'[r].task.code \in AskedByEnrich
      BY <2>1, <2>2 DEF TaskOK, Task, AskedByEnrich
    <3> QED BY <2>1, <3>1 DEF Pending
  <2>3. CASE req'[r].task.kind # "enrich"
    BY <2>3 DEF Pending
  <2> QED BY <2>2, <2>3
<1> QED BY <1>1 DEF Pending

LEMMA OneMore ==
  ASSUME NEW price \in Nat, NEW n \in Nat
  PROVE  price * (n + 1) = price * n + price
OBVIOUS

\* A recorded call moves its price from the handler to the rows.
LEMMA EnrichRecorded ==
  ASSUME Typed, Typed', UNCHANGED mix, NEW r \in Requests, RecordUsage(r), req[r].task.kind = "enrich",
         NEW d \in Nat, \A q \in AskedByEnrich : Price[q] <= d
  PROVE  Sum(Spent', Providers) + Sum(Pending', Requests) = Sum(Spent, Providers) + Sum(Pending, Requests)
<1> PICK p \in Providers : p = req[r].task.code
  BY RequestFacts DEF Request, Task
<1> PICK s, t, b, c, price : s = Spent /\ t = Spent' /\ b = Pending /\ c = Pending' /\ price = Price[p]
  OBVIOUS
<1>1. /\ s \in [Providers -> Nat] /\ t \in [Providers -> Nat] /\ b \in [Requests -> Nat] /\ c \in [Requests -> Nat]
      /\ price \in Nat /\ IsFiniteSet(Providers) /\ IsFiniteSet(Requests)
  BY SpentType, SpentTypeAfter, PendingType, PendingTypeAfter, CallsType, LookupsAssumption
<1>2. t[p] = s[p] + price /\ \A q \in Providers \ {p} : t[q] = s[q]
  <2>1. ASSUME NEW q \in Providers
        PROVE  t[q] = IF q = p THEN s[p] + price ELSE s[q]
    <3>1. usage'[<<"enrich", q>>] = IF q = p THEN usage[<<"enrich", p>>] + 1 ELSE usage[<<"enrich", q>>]
      BY DEF RecordUsage, Typed, TypeOK, Kinds
    <3> PICK used : used = usage[<<"enrich", p>>]
      OBVIOUS
    <3>2. used \in Nat
      BY CallsType DEF Kinds
    <3>3. price * (used + 1) = price * used + price
      BY <1>1, <3>2, OneMore
    <3>4. t[q] = Price[q] * usage'[<<"enrich", q>>] /\ s[q] = Price[q] * usage[<<"enrich", q>>] /\ s[p] = price * used
      BY DEF Spent
    <3> QED BY <3>1, <3>3, <3>4
  <2> QED BY <1>1, <2>1
<1>3. b[r] = c[r] + price /\ \A u \in Requests \ {r} : b[u] = c[u]
  <2>1. b[r] = price /\ c[r] = 0
    BY RecordMoves DEF Pending, PastCap, PastLimit
  <2>2. \A u \in Requests \ {r} : Same(u)
    BY TaskDoneSame DEF RecordUsage
  <2> QED BY <1>1, <2>1, <2>2 DEF Pending, Same
<1>4. Sum(t, Providers) = Sum(s, Providers) + price
  BY <1>1, <1>2, SumRaise
<1>5. Sum(b, Requests) = Sum(c, Requests) + price
  BY <1>1, <1>3, SumRaise
<1>6. Sum(s, Providers) \in Nat /\ Sum(c, Requests) \in Nat
  BY <1>1, SumType
<1> QED BY <1>1, <1>4, <1>5, <1>6

\* An enrichment looks at what all of them spent before each call that costs anything.
LEMMA EnrichStep ==
  ASSUME Typed, Typed', EnrichOvershoot, Next, UNCHANGED mix
  PROVE  EnrichOvershoot'
<1> SUFFICES ASSUME NEW dearest \in AskedByEnrich, EnrichCap > 0,
                    \A q \in AskedByEnrich : Price[q] <= Price[dearest]
             PROVE  Sum(Spent', Providers) + Sum(Pending', Requests) < EnrichCap + Price[dearest] * Concurrency
  <2>1. AskedByEnrich' = AskedByEnrich /\ EnrichSpent' = Sum(Spent', Providers)
    BY SpentTypeAfter DEF AskedByEnrich
  <2>2. Sum(Pending, Requests)' = Sum(Pending', Requests)
    BY DEF Sum, Units
  <2> QED BY <2>1, <2>2 DEF EnrichOvershoot, Concurrency
<1> PICK price : price = Price[dearest]
  OBVIOUS
<1> PICK s, t, b, c : s = Spent /\ t = Spent' /\ b = Pending /\ c = Pending'
  OBVIOUS
<1>1. /\ s \in [Providers -> Nat] /\ t \in [Providers -> Nat] /\ b \in [Requests -> Nat] /\ c \in [Requests -> Nat]
      /\ \A r \in Requests : c[r] <= price
      /\ price \in Nat /\ IsFiniteSet(Providers) /\ IsFiniteSet(Requests)
  <2>1. price \in Nat
    BY LookupsAssumption DEF AskedByEnrich
  <2> QED BY <2>1, SpentType, SpentTypeAfter, PendingType, PendingTypeAfter, LookupsAssumption
<1> PICK bound : bound = EnrichCap + price * Concurrency
  OBVIOUS
<1>2. /\ Sum(s, Providers) \in Nat /\ Sum(t, Providers) \in Nat /\ Sum(b, Requests) \in Nat /\ Sum(c, Requests) \in Nat
      /\ EnrichCap \in Nat /\ Concurrency \in Nat /\ price * Concurrency \in Nat
  <2>1. Concurrency \in Nat
    BY ConcurrencyBounds
  <2>2. price * Concurrency \in Nat
    BY <1>1, <2>1
  <2> QED BY <1>1, <2>1, <2>2, SumType, LookupsAssumption
<1>3. Sum(s, Providers) + Sum(b, Requests) < bound
  BY SpentType DEF EnrichOvershoot
<1> DEFINE Goal == Sum(t, Providers) + Sum(c, Requests) < bound
<1>4. ASSUME \A p \in Providers : t[p] <= s[p], \A u \in Requests : c[u] <= b[u]
      PROVE  Goal
  <2>1. Sum(t, Providers) <= Sum(s, Providers)
    BY <1>1, <1>4, SumMonotone
  <2>2. Sum(c, Requests) <= Sum(b, Requests)
    BY <1>1, <1>4, SumMonotone
  <2> QED BY <1>2, <1>3, <2>1, <2>2
<1>5. /\ UNCHANGED usage => t = s
      /\ \A u \in Requests : /\ Same(u) => c[u] = b[u]
                             /\ req'[u].pc \notin PastCap => c[u] = 0
                             /\ req'[u].task.kind # "enrich" => c[u] = 0
                             /\ Price[req'[u].task.code] = 0 => c[u] = 0
  BY DEF Spent, Pending, Same
<1>6. ASSUME UNCHANGED usage, NEW r \in Requests, \A u \in Requests \ {r} : Same(u), c[r] <= b[r]
      PROVE  Goal
  BY <1>1, <1>4, <1>5, <1>6
<1>7. ASSUME Harmless
      PROVE  Goal
  <2>1. PastCap \subseteq PaidPcs
    BY DEF PastCap, PastLimit, PaidPcs, InAsk
  <2> QED BY <1>1, <1>4, <1>5, <1>7, <2>1 DEF Harmless
<1>8. ASSUME NEW r \in Requests, \A u \in Requests \ {r} : Same(u), Missed(r)
      PROVE  Goal
  <2>1. c[r] = 0
    BY <1>5, <1>8 DEF Missed, PastCap, PastLimit
  <2> QED BY <1>1, <1>6, <1>8, <2>1 DEF Missed
<1>9. ASSUME NEW r \in Requests, \A u \in Requests \ {r} : Same(u), Passes(r)
      PROVE  Goal
  <2>1. UNCHANGED usage
    BY <1>9, PassMoves
  <2>2. CASE CheckSpend(r) /\ req[r].task.kind = "enrich" /\ Price[req[r].task.code] > 0
    <3>1. ~OverCap(req[r].task)
      BY <1>9, <2>2, PassMoves DEF CheckSpend, CheckLimit, At
    <3>2. ~(EnrichSpent >= EnrichCap)
      BY <2>2, <3>1 DEF OverCap
    <3>3. Sum(t, Providers) < EnrichCap
      BY <1>2, <1>5, <2>1, <3>2, SpentType
    <3>4. Sum(c, Requests) <= price * Concurrency
      BY <1>1, SumBound DEF Concurrency
    <3> QED BY <1>2, <3>3, <3>4
  <2>3. CASE CheckSpend(r) /\ (req[r].task.kind # "enrich" \/ ~(Price[req[r].task.code] > 0))
    <3>1. req'[r].task = req[r].task /\ Price[req[r].task.code] \in Nat
      BY <1>9, PassMoves, RequestFacts, LookupsAssumption DEF Request, Task
    <3>2. c[r] = 0
      BY <1>5, <2>3, <3>1
    <3> QED BY <1>1, <1>6, <1>9, <2>1, <3>2
  <2>4. CASE ~CheckSpend(r)
    <3>1. req[r].pc \in PastCap /\ req'[r].task = req[r].task
      BY <1>9, <2>4, PassMoves DEF PastCap, PastLimit
    <3>2. c[r] <= b[r]
      BY <1>1, <3>1 DEF Pending
    <3> QED BY <1>6, <1>9, <2>1, <3>2
  <2> QED BY <2>2, <2>3, <2>4
<1>10. ASSUME NEW r \in Requests, \A u \in Requests \ {r} : Same(u), StoreAnswer(r)
       PROVE  Goal
  <2>1. req[r].pc \in PastCap /\ req'[r].task = req[r].task /\ UNCHANGED usage
    BY <1>10, StoreMoves DEF PastCap, PastLimit
  <2>2. c[r] <= b[r]
    BY <1>1, <2>1 DEF Pending
  <2> QED BY <1>6, <1>10, <2>1, <2>2
<1>11. ASSUME NEW r \in Requests, \A u \in Requests \ {r} : Same(u), RecordUsage(r)
       PROVE  Goal
  <2>1. CASE req[r].task.kind = "enrich"
    <3>1. Sum(t, Providers) + Sum(c, Requests) = Sum(s, Providers) + Sum(b, Requests)
      BY <1>1, <1>11, <2>1, EnrichRecorded
    <3> QED BY <1>3, <3>1
  <2>2. CASE req[r].task.kind # "enrich"
    <3>1. \A p \in Providers : usage'[<<"enrich", p>>] = usage[<<"enrich", p>>]
      BY <1>11, <2>2 DEF RecordUsage, Typed, TypeOK
    <3>2. t = s
      BY <3>1 DEF Spent
    <3>3. c[r] = 0
      BY <1>5, <1>11, RecordMoves DEF PastCap, PastLimit
    <3> QED BY <1>1, <1>4, <1>5, <1>11, <3>2, <3>3
  <2> QED BY <2>1, <2>2
<1>12. ASSUME (\E k \in Keys : Expire(k)) \/ Midnight
       PROVE  Goal
  <2>1. \A u \in Requests : Same(u)
    BY <1>12 DEF Expire, Midnight, Same
  <2>2. \A p \in Providers : t[p] <= s[p]
    <3>1. CASE UNCHANGED usage
      BY <1>1, <1>5, <3>1
    <3>2. CASE Midnight
      <4>1. ASSUME NEW p \in Providers
            PROVE  t[p] = 0
        <5> PICK cost : cost = Price[p]
          OBVIOUS
        <5>1. usage'[<<"enrich", p>>] = 0 /\ cost \in Nat
          BY <3>2, LookupsAssumption DEF Midnight, Kinds
        <5>2. cost * 0 = 0
          BY <5>1
        <5> QED BY <5>1, <5>2 DEF Spent
      <4> QED BY <1>1, <4>1
    <3> QED BY <1>12, <3>1, <3>2 DEF Expire
  <2> QED BY <1>1, <1>4, <1>5, <2>1, <2>2
<1> HIDE DEF Goal
<1>13. ASSUME NEW r \in Requests, \A u \in Requests \ {r} : Same(u),
              Missed(r) \/ Passes(r) \/ StoreAnswer(r) \/ RecordUsage(r)
       PROVE  Goal
  BY <1>8, <1>9, <1>10, <1>11, <1>13
<1>14. Goal
  BY <1>7, <1>12, <1>13, StepKinds
<1>15. Sum(Spent', Providers) + Sum(Pending', Requests) < bound
  BY <1>14 DEF Goal
<1> QED BY <1>15

-----------------------------------------------------------------------------
(* One answer per key                                                      *)

\* Who looks in the cache after an answer is stored finds it.
LEMMA AskedStep ==
  ASSUME Typed, Typed', AskedOnce, Next
  PROVE  AskedOnce'
<1> SUFFICES ASSUME NEW k \in Keys
             PROVE  /\ k \notin cache' => stored'[k] = 0
                    /\ stored'[k] + Cardinality(Asking(k))' <= Concurrency
  BY DEF AskedOnce, Concurrency
<1> PICK old, new : old = Asking(k) /\ new = Asking(k)'
  OBVIOUS
<1> PICK n, m : n = Cardinality(old) /\ m = Cardinality(new)
  OBVIOUS
<1>1. /\ \A t \in Requests : t \in old <=> req[t].pc \in InAsk /\ <<req[t].task.kind, req[t].task.code, req[t].phone>> = k
      /\ \A t \in Requests : t \in new <=> req'[t].pc \in InAsk /\ <<req'[t].task.kind, req'[t].task.code, req'[t].phone>> = k
      /\ old \subseteq Requests /\ new \subseteq Requests
  BY DEF Asking, KeyOf
<1>2. /\ IsFiniteSet(old) /\ IsFiniteSet(new) /\ n \in Nat /\ m \in Nat /\ Concurrency \in Nat
      /\ n <= Concurrency /\ m <= Concurrency
  BY <1>1, ConcurrencyBounds
<1>3. /\ stored[k] \in Nat /\ stored'[k] \in Nat
      /\ k \notin cache => stored[k] = 0
      /\ stored[k] + n <= Concurrency
  BY DEF AskedOnce, Typed, TypeOK
<1> DEFINE Fewer == m <= n /\ UNCHANGED <<cache, stored>>
           Goal == /\ k \notin cache' => stored'[k] = 0
                   /\ stored'[k] + m <= Concurrency
<1>4. ASSUME UNCHANGED <<cache, stored>>, new \subseteq old
      PROVE  Goal
  <2>1. m <= n
    BY <1>2, <1>4, FS_Subset
  <2> QED BY <1>2, <1>3, <1>4, <2>1
<1>5. ASSUME NEW r \in Requests, \A t \in Requests \ {r} : Same(t)
      PROVE  /\ r \in old /\ r \notin new => m = n - 1
             /\ (r \in old <=> r \in new) => new = old
  <2>1. new \ {r} = old \ {r}
    BY <1>1, <1>5 DEF Same
  <2> QED BY <1>2, <2>1, ExchangeOne
<1>6. ASSUME Harmless
      PROVE  Goal
  <2>1. new \subseteq old
    BY <1>1, <1>6 DEF Harmless, Same, PaidPcs
  <2> QED BY <1>4, <1>6, <2>1 DEF Harmless
<1>7. ASSUME NEW r \in Requests, \A t \in Requests \ {r} : Same(t), Missed(r)
      PROVE  Goal
  <2>1. r \notin old /\ (r \in new => k \notin cache) /\ UNCHANGED <<cache, stored>>
    BY <1>1, <1>7 DEF Missed, KeyOf, InAsk
  <2>2. CASE r \in new
    BY <1>2, <1>3, <2>1, <2>2
  <2>3. CASE r \notin new
    BY <1>4, <1>5, <1>7, <2>1, <2>3
  <2> QED BY <2>2, <2>3
<1>8. ASSUME NEW r \in Requests, \A t \in Requests \ {r} : Same(t), Passes(r)
      PROVE  Goal
  <2>1. (r \in old <=> r \in new) /\ UNCHANGED <<cache, stored>>
    BY <1>1, <1>8, PassMoves DEF InAsk
  <2> QED BY <1>4, <1>5, <1>8, <2>1
<1>9. ASSUME NEW r \in Requests, \A t \in Requests \ {r} : Same(t), StoreAnswer(r)
      PROVE  Goal
  <2>1. r \notin new /\ (r \in old <=> KeyOf(r) = k)
    BY <1>1, <1>9, StoreMoves DEF InAsk, KeyOf
  <2>2. /\ cache' = cache \cup {KeyOf(r)}
        /\ stored'[k] = IF KeyOf(r) = k THEN stored[k] + 1 ELSE stored[k]
    BY <1>9 DEF StoreAnswer, Typed, TypeOK
  <2>3. CASE KeyOf(r) = k
    <3>1. m = n - 1
      BY <1>5, <1>9, <2>1, <2>3
    <3> QED BY <1>2, <1>3, <2>2, <2>3, <3>1
  <2>4. CASE KeyOf(r) # k
    <3>1. new = old
      BY <1>5, <1>9, <2>1, <2>4
    <3> QED BY <1>2, <1>3, <2>2, <2>4, <3>1
  <2> QED BY <2>3, <2>4
<1>10. ASSUME NEW r \in Requests, \A t \in Requests \ {r} : Same(t), RecordUsage(r)
       PROVE  Goal
  <2>1. r \notin new /\ r \notin old /\ UNCHANGED <<cache, stored>>
    BY <1>1, <1>10, RecordMoves DEF InAsk
  <2> QED BY <1>4, <1>5, <1>10, <2>1
<1>11. ASSUME Midnight
       PROVE  Goal
  <2>1. new = old /\ UNCHANGED <<cache, stored>>
    BY <1>1, <1>11 DEF Midnight
  <2> QED BY <1>4, <2>1
<1>12. ASSUME NEW j \in Keys, Expire(j)
       PROVE  Goal
  <2>1. new = old
    BY <1>1, <1>12 DEF Expire
  <2>2. /\ cache' = cache \ {j}
        /\ stored'[k] = IF j = k THEN 0 ELSE stored[k]
    BY <1>12 DEF Expire, Typed, TypeOK
  <2> QED BY <1>2, <1>3, <2>1, <2>2
<1> HIDE DEF Goal
<1>13. Goal
  BY <1>6, <1>7, <1>8, <1>9, <1>10, <1>11, <1>12, StepKinds
<1> QED BY <1>13 DEF Goal

-----------------------------------------------------------------------------
(* The theorems                                                            *)

\* In the beginning nobody runs and nothing is recorded.
LEMMA InitSound == Init => Sound
<1> SUFFICES ASSUME Init PROVE Sound
  OBVIOUS
<1>1. Typed
  BY InitTyped
<1>2. Concurrency \in Nat \ {0}
  BY ConcurrencyBounds
<1>3. \A pcs, kinds, p : "idle" \notin pcs => Charging(pcs, kinds, p) = {}
  BY IdleType DEF Init, Charging, Idle
<1>4. "idle" \notin PastLimit /\ "idle" \notin PastCap /\ "idle" \notin InAsk /\ Cardinality({}) = 0
  BY FS_EmptySet DEF PastLimit, PastCap, InAsk
<1>5. ASSUME NEW p \in Providers
      PROVE  /\ Price[p] \in Nat /\ SpendCap[p] \in Nat /\ Limit[p] \in Nat
             /\ \A k \in Kinds : usage[<<k, p>>] = 0
  BY LookupsAssumption DEF Init
<1>6. LimitOvershoot
  <2> SUFFICES ASSUME NEW p \in Providers, Limit[p] > 0
               PROVE  Live(p) + InFlight(PastLimit, {"search", "enrich"}, p) < Limit[p] + Concurrency
    BY DEF LimitOvershoot
  <2>1. Live(p) = 0
    <3>1. usage[<<"search", p>>] = 0 /\ usage[<<"enrich", p>>] = 0
      BY <1>5 DEF Kinds
    <3> QED BY <3>1 DEF Live
  <2>2. InFlight(PastLimit, {"search", "enrich"}, p) = 0
    BY <1>3, <1>4 DEF InFlight
  <2> QED BY <1>2, <1>5, <2>1, <2>2
<1>7. SearchOvershoot
  <2> SUFFICES ASSUME NEW p \in Providers, SpendCap[p] > 0, Price[p] > 0
               PROVE  Price[p] * (usage[<<"search", p>>] + InFlight(PastCap, {"search"}, p))
                        <= SpendCap[p] + Price[p] * (Concurrency - 1)
    BY DEF SearchOvershoot
  <2> PICK price, cap, most, n, calls :
        /\ price = Price[p] /\ cap = SpendCap[p] /\ most = Concurrency
        /\ n = InFlight(PastCap, {"search"}, p) /\ calls = usage[<<"search", p>>]
    OBVIOUS
  <2>1. n = 0 /\ calls = 0
    BY <1>3, <1>4, <1>5 DEF InFlight, Kinds
  <2>2. price \in Nat /\ cap \in Nat
    BY <1>5
  <2>3. most \in Nat \ {0}
    BY <1>2
  <2>4. price * (calls + n) = 0 /\ price * (most - 1) \in Nat
    BY <2>1, <2>2, <2>3
  <2> QED BY <2>2, <2>4
<1>8. EnrichOvershoot
  <2>1. Spent \in [Providers -> {0}]
    <3>1. ASSUME NEW p \in Providers
          PROVE  Spent[p] = 0
      <4> PICK price : price = Price[p]
        OBVIOUS
      <4>1. price \in Nat /\ usage[<<"enrich", p>>] = 0
        BY <1>5 DEF Kinds
      <4>2. price * 0 = 0
        BY <4>1
      <4> QED BY <4>1, <4>2 DEF Spent
    <3> QED BY <3>1 DEF Spent
  <2>2. Pending \in [Requests -> {0}]
    BY <1>4, IdleType DEF Init, Pending, Idle
  <2>3. EnrichSpent = 0 /\ Sum(Pending, Requests) = 0
    BY <1>1, <2>1, <2>2, SumZero, SpentType
  <2>4. ASSUME NEW p \in AskedByEnrich, EnrichCap > 0
        PROVE  0 + 0 < EnrichCap + Price[p] * Concurrency
    <3> PICK price, most : price = Price[p] /\ most = Concurrency
      OBVIOUS
    <3>1. price \in Nat /\ most \in Nat /\ EnrichCap \in Nat
      BY <1>2, <1>5, LookupsAssumption DEF AskedByEnrich
    <3>2. price * most \in Nat
      BY <3>1
    <3> QED BY <2>4, <3>1, <3>2
  <2> QED BY <2>3, <2>4 DEF EnrichOvershoot
<1>9. AskedOnce
  <2>1. \A k : Asking(k) = {}
    BY <1>4, IdleType DEF Init, Asking, Idle
  <2>2. \A k \in Keys : stored[k] = 0
    BY DEF Init
  <2> QED BY <1>2, <1>4, <2>1, <2>2 DEF AskedOnce
<1> QED BY <1>1, <1>6, <1>7, <1>8, <1>9 DEF Sound

LEMMA MixKept == Next => UNCHANGED mix
BY DEF Next, Begin, Paid, Look, CheckSpend, CheckLimit, LiveCall, StoreAnswer, RecordUsage, Skip, Asked,
       Abandon, Comply, Scrub, SaveSnapshot, Gate, LogCall, Configure, Attest, CheckAttestation,
       BackgroundReport, FileReport, DncAdd, DncRemove, UpdateProvider, Expire, Midnight

LEMMA SoundStep == Sound /\ [Next]_vars => Sound'
<1> SUFFICES ASSUME Sound, [Next]_vars PROVE Sound'
  OBVIOUS
<1>1. Typed'
  BY TypedStep DEF Sound
<1>2. CASE Next
  BY <1>1, <1>2, MixKept, LimitStep, SearchStep, EnrichStep, AskedStep DEF Sound
<1>3. CASE UNCHANGED vars
  <2>1. UNCHANGED <<usage, req, cache, stored, mix>>
    BY <1>3 DEF vars, tableVars
  <2>2. LimitOvershoot' /\ SearchOvershoot'
    BY <2>1 DEF Sound, LimitOvershoot, SearchOvershoot, InFlight, Charging, Concurrency, Live
  <2>3. Pending' = Pending /\ EnrichSpent' = EnrichSpent /\ AskedByEnrich' = AskedByEnrich
    BY <2>1 DEF Pending, EnrichSpent, AskedByEnrich, Sum, Units
  <2>4. EnrichOvershoot'
    BY <2>3 DEF Sound, EnrichOvershoot, Sum, Units, Concurrency
  <2>5. AskedOnce'
    BY <2>1 DEF Sound, AskedOnce, Asking, KeyOf, Concurrency
  <2> QED BY <1>1, <2>2, <2>4, <2>5 DEF Sound
<1> QED BY <1>2, <1>3

LEMMA SoundAlways == Spec => []Sound
BY InitSound, SoundStep, PTL DEF Spec

\* LimitOvershoot: whatever runs concurrently, a provider's searches and enrichments exceed
\* its daily limit by less than one call of each handler.
THEOREM LimitOvershootAlways == Spec => []LimitOvershoot
BY SoundAlways, PTL DEF Sound

\* SpendOvershoot: a provider's searches exceed its spend cap, and all enrichments their
\* common one, by less than one call of each handler.
THEOREM SpendOvershootAlways == Spec => []SpendOvershoot
<1>1. Sound => SpendOvershoot
  BY DEF Sound, SpendOvershoot
<1> QED BY <1>1, SoundAlways, PTL

\* CacheFirst: while an answer is fresh, it was stored at most once by each handler that had missed.
THEOREM CacheFirstAlways == Spec => []CacheFirst
<1>1. Sound => CacheFirst
  <2> SUFFICES ASSUME Sound, NEW k \in Keys
               PROVE  stored[k] <= Concurrency
    BY DEF CacheFirst
  <2>1. Asking(k) \subseteq Requests
    BY DEF Asking
  <2>2. Cardinality(Asking(k)) \in Nat /\ Concurrency \in Nat
    BY <2>1, ConcurrencyBounds
  <2>3. stored[k] \in Nat /\ stored[k] + Cardinality(Asking(k)) <= Concurrency
    BY DEF Sound, Typed, TypeOK, AskedOnce
  <2> QED BY <2>2, <2>3
<1> QED BY <1>1, SoundAlways, PTL
=============================================================================
