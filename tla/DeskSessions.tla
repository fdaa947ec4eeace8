---------------------------- MODULE DeskSessions ----------------------------
(***************************************************************************)
(* Batch-ID desk sessions: who sits at which desk of the call floor, and   *)
(* which session a logged call is attributed to.                           *)
(*                                                                         *)
(* clockIn and assignSeat each run one interactive transaction of several  *)
(* statements at READ COMMITTED.  No constraint of the schema backs what   *)
(* they read, so the transactions of two requests interleave between any   *)
(* two statements; what one has written is invisible to the others until   *)
(* it commits, and a row it has updated stays locked until then.  The      *)
(* model therefore has one action per statement and applies the writes of  *)
(* a transaction in its commit; Held is the set of rows it has locked.     *)
(***************************************************************************)
EXTENDS Naturals, FiniteSets

CONSTANTS
  People,        \* active accounts
  Managers,      \* those with a writable manage_desks permission
  Desks,
  Requests,      \* concurrently running handlers
  NoPerson, NoDesk,
  SeatRequired,  \* the require_desk_for_calls setting
  Ops,           \* the endpoints in use
  MaxSessions,   \* bound: the number of sessions ever opened
  DeskEdits      \* the desks an administrator may switch on and off

SessionIds == 1..MaxSessions  \* desk_sessions ids, handed out in order
NoSession == 0

Ends == {"CLOCK_OUT", "TAKEOVER", "FORCED"}

Endpoints == {"CLOCK_IN", "ASSIGN", "CLOCK_OUT", "FORCE", "CALL"}

Session == [state: {"UNUSED", "OPEN"} \cup Ends, desk: Desks \cup {NoDesk},
            user: People \cup {NoPerson}, endedBy: People \cup {NoPerson}]
NoSessionRow == [state |-> "UNUSED", desk |-> NoDesk, user |-> NoPerson, endedBy |-> NoPerson]

Notice == [type: {"DESK_TAKEOVER", "DESK_ASSIGNED", "DESK_FORCED"}, to: People, desk: Desks]
AuditEntry == [action: {"DESK_CLOCK_IN", "DESK_TAKEOVER", "DESK_ASSIGNED", "DESK_CLOCK_OUT",
                        "DESK_SESSION_FORCED"}, session: SessionIds]
Call == [by: People, seat: SessionIds \cup {NoSession}]

\* who sits down (or gets up): the caller, or the user a manager assigns.  mine is
\* the session to end, seat the one to take over, opened the one just created.
Request == [pc: {"idle", "seating", "closing", "looking", "taking", "opening", "ending",
                 "telling", "auditing", "calling"},
            op: Endpoints,
            by: People \cup {NoPerson}, who: People \cup {NoPerson},
            desk: Desks \cup {NoDesk}, mine: SessionIds \cup {NoSession},
            seat: SessionIds \cup {NoSession}, opened: SessionIds \cup {NoSession}]
Idle == [pc |-> "idle", op |-> "CALL", by |-> NoPerson, who |-> NoPerson, desk |-> NoDesk,
         mine |-> NoSession, seat |-> NoSession, opened |-> NoSession]

ASSUME DeskAssumption ==
  /\ NoPerson \notin People /\ NoDesk \notin Desks
  /\ Managers \subseteq People
  /\ SeatRequired \in BOOLEAN
  /\ Ops \subseteq Endpoints
  /\ DeskEdits \subseteq Desks
  /\ MaxSessions \in Nat /\ IsFiniteSet(Requests)

VARIABLES
  session,  \* [SessionIds -> Session]
  deskOn,   \* [Desks -> BOOLEAN], is_active
  told,     \* SUBSET Notice
  audit,    \* SUBSET AuditEntry
  calls,    \* SUBSET Call, the CALL activities
  req       \* [Requests -> Request]

vars == <<session, deskOn, told, audit, calls, req>>

TypeOK ==
  /\ session \in [SessionIds -> Session]
  /\ deskOn \in [Desks -> BOOLEAN]
  /\ told \subseteq Notice
  /\ audit \subseteq AuditEntry
  /\ calls \subseteq Call
  /\ req \in [Requests -> Request]

Init ==
  /\ session = [i \in SessionIds |-> NoSessionRow]
  /\ deskOn = [d \in Desks |-> TRUE]
  /\ told = {} /\ audit = {} /\ calls = {}
  /\ req = [s \in Requests |-> Idle]

-----------------------------------------------------------------------------
Open(i) == session[i].state = "OPEN"
Ended(i) == session[i].state \in Ends

\* What findFirst may return: an arbitrary match, NoSession when there is none.
First(found) == IF found = {} THEN {NoSession} ELSE found

\* The open sessions of a user, of a desk (faulty: none is ever found; anybody's
\* is; ended ones count too).
NoneOf(u) == {i \in SessionIds : FALSE /\ session[i].user = u}
AnyoneOf(u) == {i \in SessionIds : Open(i) /\ u \in People}
EverOf(u) == {i \in SessionIds : session[i].user = u}
OpenOf(u) == {i \in SessionIds : Open(i) /\ session[i].user = u}
NoneAt(d) == {i \in SessionIds : FALSE /\ session[i].desk = d}
OpenAt(d) == {i \in SessionIds : Open(i) /\ session[i].desk = d}

\* The row locks of a transaction under way, and the row it updates next.
Held(s) ==
  LET q == req[s] IN
  (CASE q.pc \in {"looking", "taking"} -> {q.mine}
     [] q.pc = "opening"               -> {q.mine, q.seat}
     [] OTHER                          -> {}) \ {NoSession}
Wanted(s) ==
  LET q == req[s] IN
  CASE q.pc \in {"closing", "ending"} -> {q.mine}
    [] q.pc = "taking"                -> {q.seat}
    [] OTHER                          -> {}
BlockedBy(s) == {t \in Requests \ {s} : Wanted(s) \cap Held(t) # {}}

Advance(s, changes) == req' = [req EXCEPT ![s] = changes]

\* Bound: a seat is asked for only while an id is left for each one asked for.
Room ==
  Cardinality({t \in Requests : req[t].pc \in {"seating", "closing", "looking", "taking", "opening"}})
    < Cardinality({i \in SessionIds : session[i].state = "UNUSED"})

-----------------------------------------------------------------------------
(* clockIn (by = who) and assignSeat                                       *)

\* The desk, and the user a manager assigns, are read before the transaction.
AskSeat(s, u, who, d) ==
  /\ req[s].pc = "idle" /\ Room
  /\ u = who \/ u \in Managers
  /\ deskOn[d]
  /\ \E op \in Ops \cap {"CLOCK_IN", "ASSIGN"} :
       /\ op = "CLOCK_IN" => u = who
       /\ op = "ASSIGN" => u \in Managers
       /\ Advance(s, [Idle EXCEPT !.pc = "seating", !.op = op, !.by = u, !.who = who, !.desk = d])
  /\ UNCHANGED <<session, deskOn, told, audit, calls>>

\* The user's own open session: none, one at this very desk (then there is nothing
\* to do; assignSeat goes on to announce it), or one elsewhere, to be ended.
ReadOwn(s) ==
  LET q == req[s] IN
  /\ q.pc = "seating"
  /\ \E i \in First(OpenOf(q.who)) :
       Advance(s, CASE i = NoSession -> [q EXCEPT !.pc = "looking"]
                    [] i \in OpenAt(q.desk) ->
                         IF q.op = "ASSIGN" THEN [q EXCEPT !.pc = "telling", !.opened = i] ELSE Idle
                    [] OTHER -> [q EXCEPT !.pc = "closing", !.mine = i])
  /\ UNCHANGED <<session, deskOn, told, audit, calls>>

CloseOwn(s) ==
  /\ req[s].pc = "closing" /\ BlockedBy(s) = {}
  /\ Advance(s, [req[s] EXCEPT !.pc = "looking"])
  /\ UNCHANGED <<session, deskOn, told, audit, calls>>

\* The desk's occupant; the row this transaction has ended no longer counts.
ReadSeat(s) ==
  LET q == req[s] IN
  /\ q.pc = "looking"
  /\ \E j \in First(OpenAt(q.desk) \ {q.mine}) :
       Advance(s, [q EXCEPT !.pc = IF j = NoSession THEN "opening" ELSE "taking", !.seat = j])
  /\ UNCHANGED <<session, deskOn, told, audit, calls>>

TakeSeat(s) ==
  /\ req[s].pc = "taking" /\ BlockedBy(s) = {}
  /\ Advance(s, [req[s] EXCEPT !.pc = "opening"])
  /\ UNCHANGED <<session, deskOn, told, audit, calls>>

\* The taken-over user is told in the same transaction (faulty: by clockIn only).
TakeoverNoticesClockIn(q) ==
  IF q.seat = NoSession \/ q.op = "ASSIGN" THEN {}
  ELSE {[type |-> "DESK_TAKEOVER", to |-> session[q.seat].user, desk |-> q.desk]}
TakeoverNotices(q) ==
  IF q.seat = NoSession THEN {}
  ELSE {[type |-> "DESK_TAKEOVER", to |-> session[q.seat].user, desk |-> q.desk]}

\* Only clockIn audits inside its transaction (faulty: a takeover of nobody, too).
SeatAuditAlways(q, i) ==
  IF q.op = "ASSIGN" THEN {}
  ELSE {[action |-> "DESK_CLOCK_IN", session |-> i], [action |-> "DESK_TAKEOVER", session |-> q.seat]}
SeatAudit(q, i) ==
  IF q.op = "ASSIGN" THEN {}
  ELSE {[action |-> "DESK_CLOCK_IN", session |-> i]}
       \cup (IF q.seat = NoSession THEN {} ELSE {[action |-> "DESK_TAKEOVER", session |-> q.seat]})

\* create, and the commit of everything the transaction has written.
NextId(i) ==
  session[i].state = "UNUSED" /\ \A j \in 1..(i - 1) : session[j].state # "UNUSED"

OpenSeat(s, i) ==
  LET q == req[s] IN
  /\ q.pc = "opening"
  /\ NextId(i)
  /\ session' = [j \in SessionIds |->
       CASE j = i -> [state |-> "OPEN", desk |-> q.desk, user |-> q.who, endedBy |-> NoPerson]
         [] j = q.mine -> [session[j] EXCEPT !.state = "CLOCK_OUT", !.endedBy = q.by]
         [] j = q.seat -> [session[j] EXCEPT !.state = "TAKEOVER", !.endedBy = q.by]
         [] OTHER -> session[j]]
  /\ told' = told \cup TakeoverNotices(q)
  /\ audit' = audit \cup SeatAudit(q, i)
  /\ Advance(s, IF q.op = "ASSIGN" THEN [q EXCEPT !.pc = "telling", !.opened = i] ELSE Idle)
  /\ UNCHANGED <<deskOn, calls>>

\* Two transactions that wait for each other's rows: the database fails one of them
\* (faulty: it resolves the deadlock of nobody).
NeverAborts(s) == req[s].pc = "idle" /\ Advance(s, Idle) /\ UNCHANGED vars
DeadlockAbort(s) ==
  /\ \E ring \in SUBSET Requests :
       /\ s \in ring
       /\ \A t \in ring : BlockedBy(t) \cap ring # {} /\ \E p \in ring : t \in BlockedBy(p)
  /\ Advance(s, Idle)
  /\ UNCHANGED <<session, deskOn, told, audit, calls>>

-----------------------------------------------------------------------------
(* clockOut and forceComplete: a read, then an update by id                *)

AskClockOut(s, u) ==
  /\ "CLOCK_OUT" \in Ops
  /\ req[s].pc = "idle"
  /\ \E i \in OpenOf(u) :
       Advance(s, [Idle EXCEPT !.pc = "ending", !.op = "CLOCK_OUT", !.by = u, !.mine = i])
  /\ UNCHANGED <<session, deskOn, told, audit, calls>>

AskForce(s, u, i) ==
  /\ "FORCE" \in Ops
  /\ req[s].pc = "idle"
  /\ u \in Managers
  /\ Open(i)
  /\ Advance(s, [Idle EXCEPT !.pc = "ending", !.op = "FORCE", !.by = u, !.mine = i])
  /\ UNCHANGED <<session, deskOn, told, audit, calls>>

EndSession(s) ==
  LET q == req[s] IN
  /\ q.pc = "ending" /\ BlockedBy(s) = {}
  /\ session' = [session EXCEPT ![q.mine].endedBy = q.by,
                                ![q.mine].state = IF q.op = "FORCE" THEN "FORCED" ELSE "CLOCK_OUT"]
  /\ Advance(s, [q EXCEPT !.pc = IF q.op = "FORCE" THEN "telling" ELSE "auditing", !.opened = q.mine])
  /\ UNCHANGED <<deskOn, told, audit, calls>>

\* After the commit of assignSeat and forceComplete: notify, then audit.
Tell(s) ==
  LET q == req[s]
      row == session[q.opened] IN
  /\ q.pc = "telling"
  /\ told' = told \cup
       {IF q.op = "ASSIGN" THEN [type |-> "DESK_ASSIGNED", to |-> q.who, desk |-> q.desk]
        ELSE [type |-> "DESK_FORCED", to |-> row.user, desk |-> row.desk]}
  /\ Advance(s, [q EXCEPT !.pc = "auditing"])
  /\ UNCHANGED <<session, deskOn, audit, calls>>

LateAudit(s) ==
  LET q == req[s] IN
  /\ q.pc = "auditing"
  /\ audit' = audit \cup
       {[action |-> CASE q.op = "ASSIGN" -> "DESK_ASSIGNED" [] q.op = "FORCE" -> "DESK_SESSION_FORCED"
                      [] q.op = "CLOCK_OUT" -> "DESK_CLOCK_OUT",
         session |-> q.opened]}
  /\ Advance(s, Idle)
  /\ UNCHANGED <<session, deskOn, told, calls>>

-----------------------------------------------------------------------------
(* Logging a call                                                          *)

AskCall(s, u) ==
  /\ "CALL" \in Ops
  /\ req[s].pc = "idle"
  /\ \E i \in First(OpenOf(u)) :
       /\ i = NoSession => ~SeatRequired
       /\ Advance(s, [Idle EXCEPT !.pc = "calling", !.by = u, !.mine = i])
  /\ UNCHANGED <<session, deskOn, told, audit, calls>>

LogCall(s) ==
  /\ req[s].pc = "calling"
  /\ calls' = calls \cup {[by |-> req[s].by, seat |-> req[s].mine]}
  /\ Advance(s, Idle)
  /\ UNCHANGED <<session, deskOn, told, audit>>

\* PATCH desks/:id; sessions open at the desk are left alone.
UpdateDesk(d) ==
  /\ deskOn' = [deskOn EXCEPT ![d] = ~@]
  /\ UNCHANGED <<session, told, audit, calls, req>>

\* A database error or a crash: the transaction under way is rolled back.
Abandon(s) ==
  /\ req[s].pc # "idle"
  /\ Advance(s, Idle)
  /\ UNCHANGED <<session, deskOn, told, audit, calls>>

-----------------------------------------------------------------------------
Work(s) ==
  \/ ReadOwn(s) \/ CloseOwn(s) \/ ReadSeat(s) \/ TakeSeat(s)
  \/ \E i \in SessionIds : OpenSeat(s, i)
  \/ DeadlockAbort(s)
  \/ EndSession(s) \/ Tell(s) \/ LateAudit(s) \/ LogCall(s)

Ask(s) ==
  \E u \in People :
    \/ \E who \in People, d \in Desks : AskSeat(s, u, who, d)
    \/ AskClockOut(s, u)
    \/ \E i \in SessionIds : AskForce(s, u, i)
    \/ AskCall(s, u)

Next ==
  \/ \E s \in Requests : Ask(s) \/ Work(s) \/ Abandon(s)
  \/ \E d \in DeskEdits : UpdateDesk(d)

Spec == Init /\ [][Next]_vars

\* A handler under way is scheduled again and the database answers it; nobody has
\* to send a request, and nothing has to fail.  Fairness is strong because a row
\* lock is: PostgreSQL queues those who wait for a row, so a transaction is not
\* passed over for ever by later ones that lock the row and fail.
FairSpec == Spec /\ \A s \in Requests : SF_vars(Work(s))

-----------------------------------------------------------------------------
(* Under every interleaving                                                *)

\* A user whose seat was taken over has been told: the notice is written by the
\* transaction that ends the session, whatever crashes or overtakes it.
TakeoverIsTold ==
  \A i \in SessionIds : session[i].state = "TAKEOVER" =>
    [type |-> "DESK_TAKEOVER", to |-> session[i].user, desk |-> session[i].desk] \in told

\* A call is attributed to a session of the very user who made it, and, when the
\* setting asks for it, never to none, although the session may end meanwhile.
CallsAttributed ==
  \A c \in calls :
    IF c.seat = NoSession THEN ~SeatRequired ELSE session[c.seat].user = c.by

\* Every request comes to an end, also when two users swap seats at the same time
\* and each transaction waits for the row the other has locked.
EveryRequestEnds == \A s \in Requests : req[s].pc # "idle" ~> req[s].pc = "idle"

-----------------------------------------------------------------------------
(* What holds when one request runs at a time, and the races break         *)

\* "one open session per user (switching desks auto-closes the old one)"
OneOpenPerUser ==
  \A i, j \in SessionIds :
    Open(i) /\ Open(j) /\ session[i].user = session[j].user => i = j

\* "one open session per desk"
OneOpenPerDesk ==
  \A i, j \in SessionIds :
    Open(i) /\ Open(j) /\ session[i].desk = session[j].desk => i = j

\* Clock-ins, switches, seat assignments and forced ends, one after another in any number,
\* never leave a user with two open sessions nor a desk with two.
OneOpenSession == OneOpenPerUser /\ OneOpenPerDesk

\* "Session is already completed": how a session ended, and by whom, is final.
EndedSessionIsFinal ==
  [][\A i \in SessionIds : Ended(i) => session'[i] = session[i]]_vars

-----------------------------------------------------------------------------
(* What the comment says, and the code does not do                          *)

\* "the previous user is notified, and everything is audited": assignSeat has the
\* same semantics by its comment, but writes no DESK_TAKEOVER entry.
TakeoverIsAudited ==
  \A i \in SessionIds : session[i].state = "TAKEOVER" =>
    [action |-> "DESK_TAKEOVER", session |-> i] \in audit
=============================================================================
