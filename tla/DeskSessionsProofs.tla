------------------------- MODULE DeskSessionsProofs -------------------------
(***************************************************************************)
(* Proofs about the desk sessions, for any people, desks and settings.     *)
(* What is said of notices and calls holds for any number of requests      *)
(* whose statements interleave, what is said of open and ended sessions    *)
(* for requests that come one after another, in any number and order, each *)
(* of which may fail at any statement.                                     *)
(***************************************************************************)
EXTENDS DeskSessions, TLAPS

-----------------------------------------------------------------------------
(* The inductive invariant, for any number of requests                     *)

Given(i) == i # NoSession => session[i].state # "UNUSED"
SeatSteps == {"seating", "closing", "looking", "taking", "opening"}

\* What a request remembers of sessions are sessions that exist, the seat it takes over is one
\* at its desk, and the session it logs a call for one of the caller.
RequestOK(q) ==
  /\ Given(q.mine) /\ Given(q.seat) /\ Given(q.opened)
  /\ q.seat # NoSession => session[q.seat].desk = q.desk
  /\ q.pc \in SeatSteps =>
       q.op \in {"CLOCK_IN", "ASSIGN"} /\ q.by \in People /\ q.who \in People /\ q.desk \in Desks
  /\ q.pc = "ending" => q.op \in {"CLOCK_OUT", "FORCE"} /\ q.by \in People /\ q.mine # NoSession
  /\ q.pc \in {"telling", "auditing"} =>
       /\ q.op \in {"ASSIGN", "FORCE", "CLOCK_OUT"} /\ q.opened # NoSession
       /\ q.op = "ASSIGN" => q.who \in People /\ q.desk \in Desks
  /\ q.pc = "calling" =>
       q.by \in People /\ IF q.mine = NoSession THEN ~SeatRequired ELSE session[q.mine].user = q.by

SessionsOK ==
  \A i \in SessionIds : session[i].state # "UNUSED" => session[i].user \in People /\ session[i].desk \in Desks
CallsOK == \A c \in calls : Given(c.seat)

Sound ==
  /\ TypeOK /\ SessionsOK /\ CallsOK
  /\ TakeoverIsTold /\ CallsAttributed
  /\ \A s \in Requests : RequestOK(req[s])

-----------------------------------------------------------------------------
(* Steps                                                                   *)

\* A session keeps its user and its desk.
Grows ==
  \A i \in SessionIds : session[i].state # "UNUSED" =>
    session'[i].state # "UNUSED" /\ session'[i].user = session[i].user /\ session'[i].desk = session[i].desk

LEMMA SessionIdFacts == NoSession \notin SessionIds
BY DEF NoSession, SessionIds

LEMMA Keeps ==
  ASSUME Grows, NEW q \in Request, RequestOK(q)
  PROVE  RequestOK(q)'
<1>1. q.mine \in SessionIds \cup {NoSession} /\ q.seat \in SessionIds \cup {NoSession}
      /\ q.opened \in SessionIds \cup {NoSession}
  BY DEF Request
<1>2. /\ Given(q.mine)' /\ Given(q.seat)' /\ Given(q.opened)'
      /\ q.seat # NoSession => session'[q.seat].desk = q.desk
      /\ q.mine # NoSession => session'[q.mine].user = session[q.mine].user
  BY <1>1 DEF RequestOK, Given, Grows
<1> HIDE DEF SeatSteps
<1> QED BY <1>2 DEF RequestOK

LEMMA RequestFacts ==
  ASSUME Sound, NEW s \in Requests
  PROVE  TypeOK /\ SessionsOK /\ req[s] \in Request /\ RequestOK(req[s])
BY DEF Sound, TypeOK

\* Any step of a request: what it adds is typed, whoever it takes over from is told, and a call
\* it logs is of the session of the caller.
LEMMA StepSound ==
  ASSUME Sound, Grows, SessionsOK', session' \in [SessionIds -> Session],
         deskOn' = deskOn, told \subseteq told', told' \subseteq Notice, audit' \subseteq AuditEntry,
         \A i \in SessionIds : session'[i].state = "TAKEOVER" =>
           \/ session[i].state = "TAKEOVER"
           \/ [type |-> "DESK_TAKEOVER", to |-> session'[i].user, desk |-> session'[i].desk] \in told',
         calls' \subseteq Call,
         \A c \in calls' \ calls :
           Given(c.seat)' /\ IF c.seat = NoSession THEN ~SeatRequired ELSE session'[c.seat].user = c.by,
         NEW s \in Requests, NEW q \in Request, RequestOK(q)', Advance(s, q)
  PROVE  Sound'
<1>1. TypeOK'
  BY DEF Sound, TypeOK, Advance
<1>2. TakeoverIsTold'
  <2> SUFFICES ASSUME NEW i \in SessionIds, session'[i].state = "TAKEOVER"
               PROVE  [type |-> "DESK_TAKEOVER", to |-> session'[i].user, desk |-> session'[i].desk] \in told'
    BY DEF TakeoverIsTold
  <2>1. CASE session[i].state = "TAKEOVER"
    <3>1. [type |-> "DESK_TAKEOVER", to |-> session[i].user, desk |-> session[i].desk] \in told
      BY <2>1 DEF Sound, TakeoverIsTold
    <3>2. session'[i].user = session[i].user /\ session'[i].desk = session[i].desk
      BY <2>1 DEF Grows
    <3> QED BY <3>1, <3>2
  <2> QED BY <2>1
<1>3. ASSUME NEW c \in calls'
      PROVE  Given(c.seat)' /\ IF c.seat = NoSession THEN ~SeatRequired ELSE session'[c.seat].user = c.by
  <2>1. CASE c \in calls
    <3>1. Given(c.seat) /\ (IF c.seat = NoSession THEN ~SeatRequired ELSE session[c.seat].user = c.by)
      BY <2>1 DEF Sound, CallsOK, CallsAttributed
    <3>2. c.seat \in SessionIds \cup {NoSession}
      BY <2>1 DEF Sound, TypeOK, Call
    <3> QED BY <3>1, <3>2 DEF Given, Grows
  <2> QED BY <1>3, <2>1
<1>4. ASSUME NEW t \in Requests, NEW x, x = req'[t]
      PROVE  RequestOK(x)'
  <2> PICK r : r = req[t]
    OBVIOUS
  <2>1. r \in Request /\ RequestOK(r)
    BY RequestFacts
  <2>2. RequestOK(r)'
    BY <2>1, Keeps
  <2>3. x = r \/ x = q
    BY <1>4 DEF Sound, TypeOK, Advance
  <2> QED BY <2>2, <2>3
<1>5. \A t \in Requests : RequestOK(req[t])'
  <2> SUFFICES ASSUME NEW t \in Requests
               PROVE  RequestOK(req[t])'
    OBVIOUS
  <2> PICK x : x = req'[t]
    OBVIOUS
  <2>1. RequestOK(x)'
    BY <1>4
  <2> QED BY <2>1 DEF RequestOK, Given
<1> QED BY <1>1, <1>2, <1>3, <1>5 DEF Sound, CallsOK, CallsAttributed

\* A step that changes no session and logs no call.
LEMMA QuietSound ==
  ASSUME Sound, UNCHANGED <<session, deskOn, calls>>, NEW s \in Requests, NEW q \in Request, RequestOK(q), Advance(s, q),
         NEW n, n \subseteq Notice, told' = told \cup n, NEW a, a \subseteq AuditEntry, audit' = audit \cup a
  PROVE  Sound'
<1>1. TypeOK /\ SessionsOK
  BY DEF Sound
<1>2. Grows /\ SessionsOK' /\ session' \in [SessionIds -> Session]
  BY <1>1 DEF Grows, SessionsOK, TypeOK
<1>3. RequestOK(q)'
  BY <1>2, Keeps
<1>4. told' \subseteq Notice /\ audit' \subseteq AuditEntry /\ calls' \subseteq Call
  BY <1>1 DEF TypeOK
<1> QED BY <1>2, <1>3, <1>4, StepSound

LEMMA MoveSound ==
  ASSUME Sound, UNCHANGED <<session, deskOn, told, audit, calls>>, NEW s \in Requests, NEW q \in Request,
         RequestOK(q), Advance(s, q)
  PROVE  Sound'
<1> PICK n, a : n = {} /\ a = {}
  OBVIOUS
<1>1. n \subseteq Notice /\ told' = told \cup n /\ a \subseteq AuditEntry /\ audit' = audit \cup a
  OBVIOUS
<1> QED BY <1>1, QuietSound

LEMMA IdleOK == Idle \in Request /\ RequestOK(Idle) /\ RequestOK(Idle)'
BY DEF Idle, Request, RequestOK, Given, Endpoints, SeatSteps

-----------------------------------------------------------------------------
(* Every action                                                            *)

LEMMA AskSound ==
  ASSUME Sound, NEW s \in Requests, Ask(s)
  PROVE  Sound'
<1>1. TypeOK /\ Idle \in Request /\ Managers \subseteq People /\ Ops \subseteq Endpoints
  BY IdleOK, DeskAssumption DEF Sound
<1> PICK u \in People :
       \/ \E who \in People, d \in Desks : AskSeat(s, u, who, d)
       \/ AskClockOut(s, u)
       \/ \E i \in SessionIds : AskForce(s, u, i)
       \/ AskCall(s, u)
  BY DEF Ask
<1>2. ASSUME NEW who \in People, NEW d \in Desks, AskSeat(s, u, who, d)
      PROVE  Sound'
  <2> PICK op \in {"CLOCK_IN", "ASSIGN"} :
         Advance(s, [Idle EXCEPT !.pc = "seating", !.op = op, !.by = u, !.who = who, !.desk = d])
    BY <1>2 DEF AskSeat
  <2> PICK q : q = [Idle EXCEPT !.pc = "seating", !.op = op, !.by = u, !.who = who, !.desk = d]
    OBVIOUS
  <2>1. /\ q \in Request /\ q.pc = "seating" /\ q.op = op /\ q.by = u /\ q.who = who /\ q.desk = d
        /\ q.mine = NoSession /\ q.seat = NoSession /\ q.opened = NoSession
    BY <1>1 DEF Request, Idle, Endpoints
  <2>2. RequestOK(q)
    BY <2>1 DEF RequestOK, Given
  <2> QED BY <1>2, <2>1, <2>2, MoveSound DEF AskSeat
<1>3. ASSUME NEW i \in SessionIds, Open(i), NEW op \in {"CLOCK_OUT", "FORCE"},
             Advance(s, [Idle EXCEPT !.pc = "ending", !.op = op, !.by = u, !.mine = i]),
             UNCHANGED <<session, deskOn, told, audit, calls>>
      PROVE  Sound'
  <2> PICK q : q = [Idle EXCEPT !.pc = "ending", !.op = op, !.by = u, !.mine = i]
    OBVIOUS
  <2>1. /\ q \in Request /\ q.pc = "ending" /\ q.op = op /\ q.by = u
        /\ q.mine = i /\ q.seat = NoSession /\ q.opened = NoSession
    BY <1>1 DEF Request, Idle, Endpoints
  <2>2. RequestOK(q)
    BY <1>3, <2>1, SessionIdFacts DEF RequestOK, Given, Open, SeatSteps
  <2> QED BY <1>3, <2>1, <2>2, MoveSound
<1>4. CASE AskClockOut(s, u)
  BY <1>3, <1>4 DEF AskClockOut, OpenOf
<1>5. CASE \E i \in SessionIds : AskForce(s, u, i)
  BY <1>3, <1>5 DEF AskForce
<1>6. CASE AskCall(s, u)
  <2> PICK i \in First(OpenOf(u)) :
         /\ i = NoSession => ~SeatRequired
         /\ Advance(s, [Idle EXCEPT !.pc = "calling", !.by = u, !.mine = i])
    BY <1>6 DEF AskCall
  <2>1. i = NoSession \/ (i \in SessionIds /\ Open(i) /\ session[i].user = u)
    BY DEF First, OpenOf
  <2> PICK q : q = [Idle EXCEPT !.pc = "calling", !.by = u, !.mine = i]
    OBVIOUS
  <2>2. q \in Request /\ q.pc = "calling" /\ q.by = u /\ q.mine = i /\ q.seat = NoSession /\ q.opened = NoSession
    BY <1>1, <2>1 DEF Request, Idle
  <2>3. RequestOK(q)
    BY <2>1, <2>2, SessionIdFacts DEF RequestOK, Given, Open, SeatSteps
  <2> QED BY <1>6, <2>2, <2>3, MoveSound DEF AskCall
<1> QED BY <1>2, <1>4, <1>5, <1>6

\* The statements of a seating before its commit.
LEMMA SeatingSound ==
  ASSUME Sound, NEW s \in Requests, ReadOwn(s) \/ CloseOwn(s) \/ ReadSeat(s) \/ TakeSeat(s)
  PROVE  Sound'
<1> PICK q : q = req[s]
  OBVIOUS
<1>1. /\ q \in Request /\ RequestOK(q) /\ q.pc \in SeatSteps
      /\ UNCHANGED <<session, deskOn, told, audit, calls>>
  BY RequestFacts DEF ReadOwn, CloseOwn, ReadSeat, TakeSeat, SeatSteps
<1>2. ASSUME NEW pc \in SeatSteps, Advance(s, [q EXCEPT !.pc = pc])
      PROVE  Sound'
  <2> PICK r : r = [q EXCEPT !.pc = pc]
    OBVIOUS
  <2>1. r \in Request /\ RequestOK(r)
    BY <1>1 DEF Request, RequestOK, SeatSteps
  <2> QED BY <1>1, <1>2, <2>1, MoveSound
<1>3. CASE ReadOwn(s)
  <2> PICK i \in First(OpenOf(q.who)) :
         Advance(s, CASE i = NoSession -> [q EXCEPT !.pc = "looking"]
                      [] i \in OpenAt(q.desk) ->
                           IF q.op = "ASSIGN" THEN [q EXCEPT !.pc = "telling", !.opened = i] ELSE Idle
                      [] OTHER -> [q EXCEPT !.pc = "closing", !.mine = i])
    BY <1>3 DEF ReadOwn
  <2>1. i = NoSession \/ (i \in SessionIds /\ Given(i))
    BY DEF First, OpenOf, Open, Given
  <2>2. CASE i = NoSession
    <3>1. Advance(s, [q EXCEPT !.pc = "looking"])
      BY <2>2, SessionIdFacts DEF OpenAt
    <3> QED BY <1>2, <3>1 DEF SeatSteps
  <2>3. CASE i \in OpenAt(q.desk) /\ q.op = "ASSIGN"
    <3> PICK r : r = [q EXCEPT !.pc = "telling", !.opened = i]
      OBVIOUS
    <3>1. i \in SessionIds /\ Given(i) /\ i # NoSession
      BY <2>3, SessionIdFacts DEF OpenAt, Open, Given
    <3>2. r \in Request /\ RequestOK(r) /\ Advance(s, r)
      BY <1>1, <2>3, <3>1 DEF Request, RequestOK, SeatSteps
    <3> QED BY <1>1, <3>2, MoveSound
  <2>4. CASE i \in OpenAt(q.desk) /\ q.op # "ASSIGN"
    <3>1. Advance(s, Idle)
      BY <2>4, SessionIdFacts DEF OpenAt
    <3> QED BY <1>1, <3>1, IdleOK, MoveSound
  <2>5. CASE i # NoSession /\ i \notin OpenAt(q.desk)
    <3> PICK r : r = [q EXCEPT !.pc = "closing", !.mine = i]
      OBVIOUS
    <3>1. r \in Request /\ RequestOK(r) /\ Advance(s, r)
      BY <1>1, <2>1, <2>5 DEF Request, RequestOK, SeatSteps
    <3> QED BY <1>1, <3>1, MoveSound
  <2> QED BY <2>2, <2>3, <2>4, <2>5
<1>4. CASE ReadSeat(s)
  <2> PICK j \in First(OpenAt(q.desk) \ {q.mine}) :
         Advance(s, [q EXCEPT !.pc = IF j = NoSession THEN "opening" ELSE "taking", !.seat = j])
    BY <1>4 DEF ReadSeat
  <2> PICK pc \in {"opening", "taking"} : pc = IF j = NoSession THEN "opening" ELSE "taking"
    OBVIOUS
  <2> PICK r : r = [q EXCEPT !.pc = pc, !.seat = j]
    OBVIOUS
  <2>1. j = NoSession \/ (j \in SessionIds /\ Given(j) /\ session[j].desk = q.desk)
    BY DEF First, OpenAt, Open, Given
  <2>2. r \in Request /\ RequestOK(r) /\ Advance(s, r)
    <3>1. j \in SessionIds \cup {NoSession} /\ Given(j)
      BY <2>1 DEF Given
    <3> QED BY <1>1, <2>1, <3>1 DEF Request, RequestOK, SeatSteps
  <2> QED BY <1>1, <2>2, MoveSound
<1>5. CASE CloseOwn(s) \/ TakeSeat(s)
  <2>1. Advance(s, [q EXCEPT !.pc = "looking"]) \/ Advance(s, [q EXCEPT !.pc = "opening"])
    BY <1>5 DEF CloseOwn, TakeSeat
  <2>2. CASE Advance(s, [q EXCEPT !.pc = "looking"])
    BY <1>2, <2>2 DEF SeatSteps
  <2>3. CASE Advance(s, [q EXCEPT !.pc = "opening"])
    BY <1>2, <2>3 DEF SeatSteps
  <2> QED BY <2>1, <2>2, <2>3
<1> QED BY <1>3, <1>4, <1>5

\* The commit of a seating.
LEMMA OpenSeatSound ==
  ASSUME Sound, NEW s \in Requests, NEW i \in SessionIds, OpenSeat(s, i)
  PROVE  Sound'
<1> PICK q : q = req[s]
  OBVIOUS
<1>1. /\ TypeOK /\ SessionsOK /\ q \in Request /\ RequestOK(q) /\ q.pc = "opening" /\ session[i].state = "UNUSED"
      /\ UNCHANGED <<deskOn, calls>> /\ told' = told \cup TakeoverNotices(q) /\ audit' = audit \cup SeatAudit(q, i)
      /\ q.op \in {"CLOCK_IN", "ASSIGN"} /\ q.by \in People /\ q.who \in People /\ q.desk \in Desks
  BY RequestFacts DEF OpenSeat, NextId, RequestOK, SeatSteps
<1>2. \A j \in SessionIds : session'[j] =
        CASE j = i -> [state |-> "OPEN", desk |-> q.desk, user |-> q.who, endedBy |-> NoPerson]
          [] j = q.mine -> [session[j] EXCEPT !.state = "CLOCK_OUT", !.endedBy = q.by]
          [] j = q.seat -> [session[j] EXCEPT !.state = "TAKEOVER", !.endedBy = q.by]
          [] OTHER -> session[j]
  BY DEF OpenSeat
<1>3. ASSUME NEW j \in SessionIds
      PROVE  /\ session'[j] \in Session
             /\ j = i => session'[j].state = "OPEN" /\ session'[j].user = q.who /\ session'[j].desk = q.desk
             /\ j # i => /\ session'[j].user = session[j].user /\ session'[j].desk = session[j].desk
                         /\ session[j].state # "UNUSED" => session'[j].state # "UNUSED"
                         /\ session'[j].state # "UNUSED" => session[j].state # "UNUSED"
                         /\ session'[j].state = "TAKEOVER" => session[j].state = "TAKEOVER" \/ j = q.seat
  <2>1. session[j] \in Session
    BY <1>1 DEF TypeOK
  <2>2. j \in {q.mine, q.seat} => session[j].state # "UNUSED"
    BY <1>1, SessionIdFacts DEF RequestOK, Given
  <2>3. CASE j = i
    <3>1. session'[j] = [state |-> "OPEN", desk |-> q.desk, user |-> q.who, endedBy |-> NoPerson]
      BY <1>1, <1>2, <2>2, <2>3
    <3> QED BY <1>1, <2>3, <3>1 DEF Session
  <2>4. CASE j # i
    <3>1. \/ session'[j] = [session[j] EXCEPT !.state = "CLOCK_OUT", !.endedBy = q.by] /\ j = q.mine
          \/ session'[j] = [session[j] EXCEPT !.state = "TAKEOVER", !.endedBy = q.by] /\ j = q.seat
          \/ session'[j] = session[j]
      BY <1>2, <2>4
    <3> QED BY <1>1, <2>1, <2>2, <2>4, <3>1 DEF Session, Ends
  <2> QED BY <2>3, <2>4
<1>4. session' \in [SessionIds -> Session]
  BY <1>3 DEF OpenSeat
<1>5. Grows
  BY <1>1, <1>3 DEF Grows
<1>6. SessionsOK'
  BY <1>1, <1>3 DEF SessionsOK
<1>7. told' \subseteq Notice /\ audit' \subseteq AuditEntry /\ calls' \subseteq Call
  <2>1. TakeoverNotices(q) \subseteq Notice
    <3>1. q.seat # NoSession => q.seat \in SessionIds /\ session[q.seat].user \in People
      BY <1>1 DEF RequestOK, Given, SessionsOK, Request
    <3> QED BY <1>1, <3>1 DEF TakeoverNotices, Notice
  <2>2. SeatAudit(q, i) \subseteq AuditEntry
    BY <1>1 DEF SeatAudit, AuditEntry, Request
  <2> QED BY <1>1, <2>1, <2>2 DEF TypeOK
<1>8. ASSUME NEW j \in SessionIds, session'[j].state = "TAKEOVER"
      PROVE  \/ session[j].state = "TAKEOVER"
             \/ [type |-> "DESK_TAKEOVER", to |-> session'[j].user, desk |-> session'[j].desk] \in told'
  <2>1. CASE j = q.seat /\ j # i
    <3>1. session'[j].user = session[q.seat].user /\ session'[j].desk = q.desk /\ q.seat # NoSession
      BY <1>1, <1>3, <2>1, SessionIdFacts DEF RequestOK
    <3> QED BY <1>1, <3>1 DEF TakeoverNotices
  <2> QED BY <1>3, <1>8, <2>1
<1>9. \E r \in Request : RequestOK(r)' /\ Advance(s, r)
  <2>1. CASE q.op = "ASSIGN"
    <3> PICK r : r = [q EXCEPT !.pc = "telling", !.opened = i]
      OBVIOUS
    <3>1. /\ r \in Request /\ Advance(s, r) /\ r.pc = "telling" /\ r.opened = i /\ r.op = "ASSIGN"
          /\ r.mine = q.mine /\ r.seat = q.seat /\ r.who = q.who /\ r.desk = q.desk
      BY <1>1, <2>1 DEF OpenSeat, Request
    <3>2. RequestOK(q)'
      BY <1>1, <1>5, Keeps
    <3>3. session'[i].state = "OPEN" /\ i # NoSession
      BY <1>3, SessionIdFacts
    <3>4. RequestOK(r)'
      BY <1>1, <3>1, <3>2, <3>3 DEF RequestOK, Given, SeatSteps
    <3> QED BY <3>1, <3>4
  <2>2. CASE q.op # "ASSIGN"
    BY <2>2, IdleOK DEF OpenSeat
  <2> QED BY <2>1, <2>2
<1> PICK r \in Request : RequestOK(r)' /\ Advance(s, r)
  BY <1>9
<1> QED BY <1>1, <1>4, <1>5, <1>6, <1>7, <1>8, StepSound

\* The end of a session by its user or a manager.
LEMMA EndSound ==
  ASSUME Sound, NEW s \in Requests, EndSession(s)
  PROVE  Sound'
<1> PICK q, i : q = req[s] /\ i = req[s].mine
  OBVIOUS
<1>1. /\ TypeOK /\ SessionsOK /\ q \in Request /\ RequestOK(q) /\ q.pc = "ending" /\ i = q.mine /\ i \in SessionIds
      /\ session[i].state # "UNUSED" /\ q.op \in {"CLOCK_OUT", "FORCE"} /\ q.by \in People
      /\ UNCHANGED <<deskOn, told, audit, calls>>
  BY RequestFacts DEF EndSession, RequestOK, Given, Request
<1> PICK state \in {"FORCED", "CLOCK_OUT"} : state = IF q.op = "FORCE" THEN "FORCED" ELSE "CLOCK_OUT"
  OBVIOUS
<1>2. session' = [session EXCEPT ![i].endedBy = q.by, ![i].state = state]
  BY DEF EndSession
<1>3. ASSUME NEW j \in SessionIds
      PROVE  /\ session'[j] \in Session
             /\ session'[j].user = session[j].user /\ session'[j].desk = session[j].desk
             /\ session'[j].state = IF j = i THEN state ELSE session[j].state
  BY <1>1, <1>2 DEF TypeOK, Session, Ends
<1>4. session' \in [SessionIds -> Session]
  BY <1>1, <1>2, <1>3 DEF TypeOK
<1>5. Grows /\ SessionsOK'
  BY <1>1, <1>3 DEF Grows, SessionsOK
<1> PICK pc \in {"telling", "auditing"} : pc = IF q.op = "FORCE" THEN "telling" ELSE "auditing"
  OBVIOUS
<1> PICK r : r = [q EXCEPT !.pc = pc, !.opened = i]
  OBVIOUS
<1>6. /\ r \in Request /\ Advance(s, r) /\ r.pc = pc /\ r.op = q.op /\ r.opened = i
      /\ r.mine = q.mine /\ r.seat = q.seat /\ r.desk = q.desk
  BY <1>1 DEF EndSession, Request
<1>7. RequestOK(r)'
  <2>1. RequestOK(q)' /\ i # NoSession
    BY <1>1, <1>5, Keeps, SessionIdFacts
  <2> QED BY <1>1, <1>3, <1>6, <2>1 DEF RequestOK, Given, SeatSteps
<1>8. told' \subseteq Notice /\ audit' \subseteq AuditEntry /\ calls' \subseteq Call
  BY <1>1 DEF TypeOK
<1>9. \A j \in SessionIds : session'[j].state = "TAKEOVER" => session[j].state = "TAKEOVER"
  BY <1>3
<1> QED BY <1>1, <1>4, <1>5, <1>6, <1>7, <1>8, <1>9, StepSound

LEMMA AfterSound ==
  ASSUME Sound, NEW s \in Requests, Tell(s) \/ LateAudit(s)
  PROVE  Sound'
<1> PICK q, i : q = req[s] /\ i = req[s].opened
  OBVIOUS
<1>1. /\ SessionsOK /\ q \in Request /\ RequestOK(q) /\ q.pc \in {"telling", "auditing"} /\ i = q.opened
      /\ i \in SessionIds /\ session[i].user \in People /\ session[i].desk \in Desks
  BY RequestFacts DEF Tell, LateAudit, RequestOK, Given, Request, SessionsOK
<1>2. CASE Tell(s)
  <2> PICK n : n = IF q.op = "ASSIGN" THEN [type |-> "DESK_ASSIGNED", to |-> q.who, desk |-> q.desk]
                   ELSE [type |-> "DESK_FORCED", to |-> session[i].user, desk |-> session[i].desk]
    OBVIOUS
  <2> PICK r, a, b : r = [q EXCEPT !.pc = "auditing"] /\ a = {n} /\ b = {}
    OBVIOUS
  <2>1. n \in Notice
    BY <1>1 DEF Notice, RequestOK
  <2>2. r \in Request /\ RequestOK(r) /\ Advance(s, r)
    BY <1>1, <1>2 DEF Tell, Request, RequestOK, SeatSteps
  <2>3. a \subseteq Notice /\ told' = told \cup a /\ b \subseteq AuditEntry /\ audit' = audit \cup b
    BY <1>2, <2>1 DEF Tell
  <2> QED BY <1>2, <2>2, <2>3, QuietSound DEF Tell
<1>3. CASE LateAudit(s)
  <2> PICK a, b : b = {} /\ a =
        {[action |-> CASE q.op = "ASSIGN" -> "DESK_ASSIGNED" [] q.op = "FORCE" -> "DESK_SESSION_FORCED"
                       [] q.op = "CLOCK_OUT" -> "DESK_CLOCK_OUT",
          session |-> i]}
    OBVIOUS
  <2>1. a \subseteq AuditEntry
    BY <1>1 DEF AuditEntry, RequestOK
  <2>2. a \subseteq AuditEntry /\ audit' = audit \cup a /\ b \subseteq Notice /\ told' = told \cup b
    BY <1>3, <2>1 DEF LateAudit
  <2> QED BY <1>3, <2>2, IdleOK, QuietSound DEF LateAudit
<1> QED BY <1>2, <1>3

LEMMA LogCallSound ==
  ASSUME Sound, NEW s \in Requests, LogCall(s)
  PROVE  Sound'
<1> PICK q, c : q = req[s] /\ c = [by |-> req[s].by, seat |-> req[s].mine]
  OBVIOUS
<1>1. /\ TypeOK /\ SessionsOK /\ q \in Request /\ RequestOK(q) /\ q.pc = "calling"
      /\ calls' = calls \cup {c} /\ UNCHANGED <<session, deskOn, told, audit>>
  BY RequestFacts DEF LogCall
<1>2. c \in Call /\ c.seat = q.mine /\ c.by = q.by /\ q.by \in People
  BY <1>1 DEF Call, RequestOK, Request
<1>3. Grows /\ SessionsOK' /\ session' \in [SessionIds -> Session]
  BY <1>1 DEF Grows, SessionsOK, TypeOK
<1>4. told' \subseteq Notice /\ audit' \subseteq AuditEntry /\ calls' \subseteq Call
  BY <1>1, <1>2 DEF TypeOK
<1>5. \A d \in calls' \ calls :
        Given(d.seat)' /\ IF d.seat = NoSession THEN ~SeatRequired ELSE session'[d.seat].user = d.by
  BY <1>1, <1>2 DEF RequestOK, Given
<1>6. \A j \in SessionIds : session'[j].state = "TAKEOVER" => session[j].state = "TAKEOVER"
  BY <1>1
<1> QED BY <1>1, <1>3, <1>4, <1>5, <1>6, IdleOK, StepSound DEF LogCall

LEMMA UpdateDeskSound ==
  ASSUME Sound, NEW d \in DeskEdits, UpdateDesk(d)
  PROVE  Sound'
<1>1. TypeOK'
  BY DeskAssumption DEF Sound, TypeOK, UpdateDesk
<1>2. UNCHANGED <<session, told, audit, calls, req>>
  BY DEF UpdateDesk
<1>3. \A s \in Requests : RequestOK(req[s])'
  BY <1>2 DEF Sound, RequestOK, Given
<1> QED BY <1>1, <1>2, <1>3 DEF Sound, SessionsOK, CallsOK, Given, TakeoverIsTold, CallsAttributed

LEMMA InitSound == Init => Sound
BY IdleOK DEF Init, Sound, TypeOK, SessionsOK, CallsOK, TakeoverIsTold, CallsAttributed, NoSessionRow, Session

LEMMA SoundStep == Sound /\ [Next]_vars => Sound'
<1> SUFFICES ASSUME Sound, [Next]_vars PROVE Sound'
  OBVIOUS
<1>1. CASE UNCHANGED vars
  <2>1. \A s \in Requests : RequestOK(req[s])'
    BY <1>1 DEF vars, Sound, RequestOK, Given
  <2> QED BY <1>1, <2>1 DEF vars, Sound, TypeOK, SessionsOK, CallsOK, Given, TakeoverIsTold, CallsAttributed
<1>2. ASSUME NEW s \in Requests, DeadlockAbort(s) \/ Abandon(s)
      PROVE  Sound'
  BY <1>2, IdleOK, MoveSound DEF DeadlockAbort, Abandon
<1>3. ASSUME NEW s \in Requests, Work(s)
      PROVE  Sound'
  BY <1>2, <1>3, SeatingSound, OpenSeatSound, EndSound, AfterSound, LogCallSound DEF Work
<1>4. CASE Next
  BY <1>2, <1>3, <1>4, AskSound, UpdateDeskSound DEF Next
<1> QED BY <1>1, <1>4

LEMMA SoundAlways == Spec => []Sound
BY InitSound, SoundStep, PTL DEF Spec

\* The rows, notices, audit entries and calls keep their types, whatever statements of
\* whatever requests interleave: nothing is written about nobody or no session.
THEOREM DeskTypes == Spec => []TypeOK
BY SoundAlways, PTL DEF Sound

\* TakeoverIsTold: a session ended by a takeover has its notice, however many
\* transactions overtake one another.
THEOREM TakeoverIsToldAlways == Spec => []TakeoverIsTold
BY SoundAlways, PTL DEF Sound

\* CallsAttributed: a call is attributed to a session of its caller, and to none only
\* when the setting does not ask for a seat.
THEOREM CallsAttributedAlways == Spec => []CallsAttributed
BY SoundAlways, PTL DEF Sound

-----------------------------------------------------------------------------
(* Requests that come one after another                                    *)

\* With two, both may find the same seat free: what follows is claimed of one at a time.
OneByOne == \E s : Requests = {s}

\* The request under way knows every open session of its user and of its desk, and the
\* sessions it is to end are still open.
Knows(q) ==
  /\ q.pc = "seating" => q.mine = NoSession
  /\ q.pc \in {"closing", "looking", "taking", "opening", "ending"} /\ q.mine # NoSession => Open(q.mine)
  /\ q.pc \in {"taking", "opening"} /\ q.seat # NoSession => Open(q.seat)
  /\ q.pc \in {"closing", "looking", "taking", "opening"} => OpenOf(q.who) \subseteq {q.mine}
  /\ q.pc \in {"taking", "opening"} => OpenAt(q.desk) \subseteq {q.mine, q.seat}

Alone == Sound /\ OneOpenSession /\ \A s \in Requests : Knows(req[s])

LEMMA AloneInit == Init => Alone
<1>1. Init => OneOpenSession /\ \A s \in Requests : Knows(req[s])
  BY DEF Init, OneOpenSession, OneOpenPerUser, OneOpenPerDesk, Open, NoSessionRow, Knows, Idle
<1> QED BY <1>1, InitSound DEF Alone

\* A step that changes no session and moves the request on to q.
LEMMA AloneMoves ==
  ASSUME Alone, OneByOne, Sound', NEW s \in Requests, NEW q, Knows(q), Advance(s, q), UNCHANGED session
  PROVE  Alone'
<1>1. ASSUME NEW t \in Requests, NEW x, x = req'[t]
      PROVE  Knows(x)'
  <2>1. x = q
    BY <1>1 DEF OneByOne, Advance, Alone, Sound, TypeOK
  <2> QED BY <2>1 DEF Knows, Open, OpenOf, OpenAt
<1>2. ASSUME NEW t \in Requests
      PROVE  Knows(req[t])'
  <2> PICK x : x = req'[t]
    OBVIOUS
  <2>1. Knows(x)'
    BY <1>1
  <2> QED BY <2>1 DEF Knows, Open, OpenOf, OpenAt
<1>3. OneOpenSession'
  BY DEF Alone, OneOpenSession, OneOpenPerUser, OneOpenPerDesk, Open
<1> QED BY <1>2, <1>3 DEF Alone

LEMMA IdleKnows == Knows(Idle) /\ Knows(Idle)'
BY DEF Knows, Idle

LEMMA AloneAsks ==
  ASSUME Alone, OneByOne, Sound', NEW s \in Requests, Ask(s)
  PROVE  Alone'
<1> PICK u \in People :
       \/ \E who \in People, d \in Desks : AskSeat(s, u, who, d)
       \/ AskClockOut(s, u)
       \/ \E i \in SessionIds : AskForce(s, u, i)
       \/ AskCall(s, u)
  BY DEF Ask
<1>1. \E q : Knows(q) /\ Advance(s, q) /\ UNCHANGED session
  <2>1. ASSUME NEW op, NEW i \in SessionIds, Open(i),
               Advance(s, [Idle EXCEPT !.pc = "ending", !.op = op, !.by = u, !.mine = i]), UNCHANGED session
        PROVE  \E q : Knows(q) /\ Advance(s, q) /\ UNCHANGED session
    <3> PICK q : q = [Idle EXCEPT !.pc = "ending", !.op = op, !.by = u, !.mine = i]
      OBVIOUS
    <3>1. q.pc = "ending" /\ q.mine = i
      BY DEF Idle
    <3> QED BY <2>1, <3>1 DEF Knows
  <2>2. CASE AskClockOut(s, u)
    BY <2>1, <2>2 DEF AskClockOut, OpenOf
  <2>3. CASE \E i \in SessionIds : AskForce(s, u, i)
    BY <2>1, <2>3 DEF AskForce
  <2>4. ASSUME NEW who \in People, NEW d \in Desks, AskSeat(s, u, who, d)
        PROVE  \E q : Knows(q) /\ Advance(s, q) /\ UNCHANGED session
    <3> PICK op : Advance(s, [Idle EXCEPT !.pc = "seating", !.op = op, !.by = u, !.who = who, !.desk = d])
      BY <2>4 DEF AskSeat
    <3> PICK q : q = [Idle EXCEPT !.pc = "seating", !.op = op, !.by = u, !.who = who, !.desk = d]
      OBVIOUS
    <3>1. q.pc = "seating" /\ q.mine = NoSession
      BY DEF Idle
    <3> QED BY <2>4, <3>1 DEF AskSeat, Knows
  <2>5. CASE AskCall(s, u)
    <3> PICK i : Advance(s, [Idle EXCEPT !.pc = "calling", !.by = u, !.mine = i])
      BY <2>5 DEF AskCall
    <3> PICK q : q = [Idle EXCEPT !.pc = "calling", !.by = u, !.mine = i]
      OBVIOUS
    <3>1. q.pc = "calling"
      BY DEF Idle
    <3> QED BY <2>5, <3>1 DEF AskCall, Knows
  <2> QED BY <2>2, <2>3, <2>4, <2>5
<1> QED BY <1>1, AloneMoves

LEMMA AloneSeating ==
  ASSUME Alone, OneByOne, Sound', NEW s \in Requests, ReadOwn(s) \/ CloseOwn(s) \/ ReadSeat(s) \/ TakeSeat(s)
  PROVE  Alone'
<1> PICK q : q = req[s]
  OBVIOUS
<1>1. /\ q \in Request /\ RequestOK(q) /\ Knows(q) /\ UNCHANGED session /\ OneOpenSession
  BY RequestFacts DEF Alone, ReadOwn, CloseOwn, ReadSeat, TakeSeat
<1>2. CASE ReadOwn(s)
  <2> PICK i \in First(OpenOf(q.who)) :
         Advance(s, CASE i = NoSession -> [q EXCEPT !.pc = "looking"]
                      [] i \in OpenAt(q.desk) ->
                           IF q.op = "ASSIGN" THEN [q EXCEPT !.pc = "telling", !.opened = i] ELSE Idle
                      [] OTHER -> [q EXCEPT !.pc = "closing", !.mine = i])
    BY <1>2 DEF ReadOwn
  <2> PICK l, m, n : /\ l = [q EXCEPT !.pc = "looking"] /\ m = [q EXCEPT !.pc = "telling", !.opened = i]
                     /\ n = [q EXCEPT !.pc = "closing", !.mine = i]
    OBVIOUS
  <2>1. /\ l.pc = "looking" /\ l.who = q.who /\ l.mine = q.mine
        /\ m.pc = "telling" /\ n.pc = "closing" /\ n.who = q.who /\ n.mine = i
    BY <1>1 DEF Request
  <2>2. CASE i = NoSession
    <3>1. OpenOf(q.who) = {} /\ Advance(s, l)
      BY <2>2, SessionIdFacts DEF First, OpenOf, OpenAt
    <3>2. q.mine = NoSession
      BY <1>1, <1>2 DEF ReadOwn, Knows
    <3>3. Knows(l)
      BY <2>1, <3>1, <3>2 DEF Knows
    <3> QED BY <1>1, <3>1, <3>3, AloneMoves
  <2>3. CASE i \in OpenAt(q.desk)
    <3>1. Advance(s, m) \/ Advance(s, Idle)
      BY <2>3, SessionIdFacts DEF OpenAt
    <3> QED BY <1>1, <2>1, <3>1, IdleKnows, AloneMoves DEF Knows
  <2>4. CASE i # NoSession /\ i \notin OpenAt(q.desk)
    <3>1. Advance(s, n) /\ i \in OpenOf(q.who)
      BY <2>4 DEF First
    <3>2. Open(i) /\ OpenOf(q.who) \subseteq {i}
      BY <1>1, <3>1 DEF OpenOf, OneOpenSession, OneOpenPerUser
    <3>3. Knows(n)
      BY <2>1, <3>2 DEF Knows
    <3> QED BY <1>1, <3>1, <3>3, AloneMoves
  <2> QED BY <2>2, <2>3, <2>4
<1>3. CASE ReadSeat(s)
  <2> PICK j \in First(OpenAt(q.desk) \ {q.mine}) :
         Advance(s, [q EXCEPT !.pc = IF j = NoSession THEN "opening" ELSE "taking", !.seat = j])
    BY <1>3 DEF ReadSeat
  <2> PICK pc \in {"opening", "taking"} : pc = IF j = NoSession THEN "opening" ELSE "taking"
    OBVIOUS
  <2> PICK r : r = [q EXCEPT !.pc = pc, !.seat = j]
    OBVIOUS
  <2>1. /\ r.pc = pc /\ r.who = q.who /\ r.desk = q.desk /\ r.mine = q.mine /\ r.seat = j /\ q.pc = "looking"
    BY <1>1, <1>3 DEF Request, ReadSeat
  <2>2. j # NoSession => Open(j)
    BY DEF First, OpenAt
  <2>3. OpenAt(q.desk) \subseteq {q.mine, j}
    <3>1. CASE OpenAt(q.desk) \ {q.mine} = {}
      BY <3>1
    <3>2. CASE OpenAt(q.desk) \ {q.mine} # {}
      BY <1>1, <3>2 DEF First, OpenAt, OneOpenSession, OneOpenPerDesk
    <3> QED BY <3>1, <3>2
  <2>4. Knows(r)
    BY <1>1, <2>1, <2>2, <2>3 DEF Knows
  <2> QED BY <1>1, <2>4, AloneMoves
<1>4. CASE CloseOwn(s) \/ TakeSeat(s)
  <2> PICK pc \in {"looking", "opening"} : /\ Advance(s, [q EXCEPT !.pc = pc])
                                           /\ pc = "looking" => q.pc = "closing"
                                           /\ pc = "opening" => q.pc = "taking"
    BY <1>4 DEF CloseOwn, TakeSeat
  <2> PICK r : r = [q EXCEPT !.pc = pc]
    OBVIOUS
  <2>1. r.pc = pc /\ r.who = q.who /\ r.desk = q.desk /\ r.mine = q.mine /\ r.seat = q.seat
    BY <1>1 DEF Request
  <2>2. Knows(r)
    BY <1>1, <2>1 DEF Knows
  <2> QED BY <1>1, <2>2, AloneMoves
<1> QED BY <1>2, <1>3, <1>4

\* What a commit does to the sessions: the new one is open, the two that are ended are not.
LEMMA OpenSeatOpens ==
  ASSUME Sound, NEW s \in Requests, NEW i \in SessionIds, OpenSeat(s, i), NEW q, q = req[s]
  PROVE  /\ \A j \in SessionIds : /\ Open(j)' => j = i \/ (Open(j) /\ j \notin {q.mine, q.seat})
                                  /\ Ended(j) /\ j \notin {q.mine, q.seat} => session'[j] = session[j]
                                  /\ j # i => session'[j].user = session[j].user /\ session'[j].desk = session[j].desk
         /\ session'[i].user = q.who /\ session'[i].desk = q.desk
<1>1. TypeOK /\ RequestOK(q) /\ session[i].state = "UNUSED"
  BY RequestFacts DEF OpenSeat, NextId
<1>2. ASSUME NEW j \in SessionIds
      PROVE  session'[j] =
        CASE j = i -> [state |-> "OPEN", desk |-> q.desk, user |-> q.who, endedBy |-> NoPerson]
          [] j = q.mine -> [session[j] EXCEPT !.state = "CLOCK_OUT", !.endedBy = q.by]
          [] j = q.seat -> [session[j] EXCEPT !.state = "TAKEOVER", !.endedBy = q.by]
          [] OTHER -> session[j]
  BY DEF OpenSeat
<1>3. i \notin {q.mine, q.seat}
  BY <1>1, SessionIdFacts DEF RequestOK, Given
<1>4. session'[i] = [state |-> "OPEN", desk |-> q.desk, user |-> q.who, endedBy |-> NoPerson]
  BY <1>2, <1>3
<1>5. ASSUME NEW j \in SessionIds, j # i
      PROVE  /\ Open(j)' => Open(j) /\ j \notin {q.mine, q.seat}
             /\ j \notin {q.mine, q.seat} => session'[j] = session[j]
             /\ session'[j].user = session[j].user /\ session'[j].desk = session[j].desk
  <2>1. session[j] \in Session
    BY <1>1 DEF TypeOK
  <2>2. CASE j \notin {q.mine, q.seat}
    <3>1. session'[j] = session[j]
      BY <1>2, <1>5, <2>2
    <3> QED BY <2>2, <3>1 DEF Open
  <2>3. CASE j \in {q.mine, q.seat}
    <3>1. \/ session'[j] = [session[j] EXCEPT !.state = "CLOCK_OUT", !.endedBy = q.by]
          \/ session'[j] = [session[j] EXCEPT !.state = "TAKEOVER", !.endedBy = q.by]
      BY <1>2, <1>5, <2>3
    <3> QED BY <2>1, <2>3, <3>1 DEF Session, Open
  <2> QED BY <2>2, <2>3
<1>6. ~Ended(i)
  BY <1>1 DEF Ended, Ends
<1> QED BY <1>4, <1>5, <1>6

LEMMA AloneOpens ==
  ASSUME Alone, OneByOne, Sound', NEW s \in Requests, NEW i \in SessionIds, OpenSeat(s, i)
  PROVE  Alone'
<1> PICK q : q = req[s]
  OBVIOUS
<1>1. /\ Sound /\ q \in Request /\ Knows(q) /\ q.pc = "opening" /\ OneOpenSession
  BY RequestFacts DEF Alone, OpenSeat
<1>2. /\ \A j \in SessionIds : /\ Open(j)' => j = i \/ (Open(j) /\ j \notin {q.mine, q.seat})
                               /\ j # i => session'[j].user = session[j].user /\ session'[j].desk = session[j].desk
      /\ session'[i].user = q.who /\ session'[i].desk = q.desk
  BY <1>1, OpenSeatOpens
<1>3. \A j \in SessionIds : Open(j)' /\ j # i => session[j].user # q.who /\ session[j].desk # q.desk
  BY <1>1, <1>2 DEF Knows, OpenOf, OpenAt
<1>4. ASSUME NEW j \in SessionIds, NEW k \in SessionIds, Open(j)', Open(k)', j # k
      PROVE  session'[j].user # session'[k].user /\ session'[j].desk # session'[k].desk
  BY <1>1, <1>2, <1>3, <1>4 DEF OneOpenSession, OneOpenPerUser, OneOpenPerDesk
<1>5. OneOpenSession'
  BY <1>4 DEF OneOpenSession, OneOpenPerUser, OneOpenPerDesk
<1>6. ASSUME NEW t \in Requests
      PROVE  Knows(req[t])'
  <2>1. \E x : Advance(s, x) /\ x.pc \in {"telling", "idle"}
    <3>1. [q EXCEPT !.pc = "telling", !.opened = i].pc = "telling" /\ Idle.pc = "idle"
      BY <1>1 DEF Request, Idle
    <3> QED BY <3>1 DEF OpenSeat
  <2>2. req'[t].pc \in {"telling", "idle"}
    BY <2>1 DEF Advance, OneByOne, Alone, Sound, TypeOK
  <2> QED BY <2>2 DEF Knows
<1> QED BY <1>5, <1>6 DEF Alone

LEMMA AloneEnds ==
  ASSUME Alone, OneByOne, Sound', NEW s \in Requests, EndSession(s)
  PROVE  Alone'
<1> PICK q : q = req[s]
  OBVIOUS
<1>1. TypeOK /\ q \in Request /\ OneOpenSession
  BY RequestFacts DEF Alone
<1> PICK state \in {"FORCED", "CLOCK_OUT"} :
       session' = [session EXCEPT ![q.mine].endedBy = q.by, ![q.mine].state = state]
  BY DEF EndSession
<1>2. \A j \in SessionIds : /\ session'[j].user = session[j].user /\ session'[j].desk = session[j].desk
                            /\ Open(j)' => Open(j)
  BY <1>1 DEF TypeOK, Session, Open
<1>3. OneOpenSession'
  BY <1>1, <1>2 DEF OneOpenSession, OneOpenPerUser, OneOpenPerDesk
<1>4. ASSUME NEW t \in Requests
      PROVE  Knows(req[t])'
  <2> PICK pc \in {"telling", "auditing"} : Advance(s, [q EXCEPT !.pc = pc, !.opened = q.mine])
    BY DEF EndSession
  <2>1. [q EXCEPT !.pc = pc, !.opened = q.mine].pc = pc
    BY <1>1 DEF Request
  <2>2. req'[t].pc = pc
    BY <2>1, <1>1 DEF Advance, OneByOne, TypeOK
  <2> QED BY <2>2 DEF Knows
<1> QED BY <1>3, <1>4 DEF Alone

LEMMA AloneAfter ==
  ASSUME Alone, OneByOne, Sound', NEW s \in Requests,
         Tell(s) \/ LateAudit(s) \/ LogCall(s) \/ DeadlockAbort(s) \/ Abandon(s)
  PROVE  Alone'
<1>1. CASE Tell(s)
  <2> PICK q : q = [req[s] EXCEPT !.pc = "auditing"]
    OBVIOUS
  <2>1. q.pc = "auditing" /\ Advance(s, q) /\ UNCHANGED session
    BY <1>1, RequestFacts DEF Tell, Request, Alone
  <2>2. Knows(q)
    BY <2>1 DEF Knows
  <2> QED BY <2>1, <2>2, AloneMoves
<1>2. CASE Advance(s, Idle) /\ UNCHANGED session
  BY <1>2, IdleKnows, AloneMoves
<1> QED BY <1>1, <1>2 DEF LateAudit, LogCall, DeadlockAbort, Abandon

LEMMA AloneRests ==
  ASSUME Alone, Sound', UNCHANGED <<session, req>>
  PROVE  Alone'
BY DEF Alone, OneOpenSession, OneOpenPerUser, OneOpenPerDesk, Open, OpenOf, OpenAt, Knows

LEMMA AloneStep ==
  ASSUME OneByOne
  PROVE  Alone /\ [Next]_vars => Alone'
<1> SUFFICES ASSUME Alone, [Next]_vars PROVE Alone'
  OBVIOUS
<1>1. Sound'
  BY SoundStep DEF Alone
<1>2. CASE UNCHANGED vars
  BY <1>1, <1>2, AloneRests DEF vars
<1>3. ASSUME NEW s \in Requests, Work(s)
      PROVE  Alone'
  BY <1>1, <1>3, AloneSeating, AloneOpens, AloneEnds, AloneAfter DEF Work
<1>4. ASSUME NEW d \in DeskEdits, UpdateDesk(d)
      PROVE  Alone'
  BY <1>1, <1>4, AloneRests DEF UpdateDesk
<1>5. CASE Next
  BY <1>1, <1>3, <1>4, <1>5, AloneAsks, AloneAfter DEF Next
<1> QED BY <1>2, <1>5

LEMMA AloneAlways ==
  ASSUME OneByOne
  PROVE  Spec => []Alone
BY AloneInit, AloneStep, PTL DEF Spec

\* A step ends sessions that are open only.
LEMMA EndsOpenOnly ==
  ASSUME Alone, [Next]_vars, NEW i \in SessionIds, Ended(i)
  PROVE  session'[i] = session[i]
<1>1. Sound /\ TypeOK /\ ~Open(i) /\ session[i].state # "UNUSED"
  BY DEF Alone, Sound, Ended, Ends, Open
<1>2. ASSUME NEW s \in Requests, NEW j \in SessionIds, OpenSeat(s, j)
      PROVE  session'[i] = session[i]
  <2> PICK q : q = req[s]
    OBVIOUS
  <2>1. i \notin {q.mine, q.seat}
    <3>1. q.pc = "opening" /\ Knows(q)
      BY <1>2 DEF OpenSeat, Alone
    <3> QED BY <1>1, <3>1, SessionIdFacts DEF Knows
  <2> QED BY <1>1, <1>2, <2>1, OpenSeatOpens
<1>3. ASSUME NEW s \in Requests, EndSession(s)
      PROVE  session'[i] = session[i]
  <2> PICK q : q = req[s]
    OBVIOUS
  <2>1. i # q.mine
    <3>1. q.pc = "ending" /\ Knows(q)
      BY <1>3 DEF EndSession, Alone
    <3> QED BY <1>1, <3>1, SessionIdFacts DEF Knows
  <2> PICK state : session' = [session EXCEPT ![q.mine].endedBy = q.by, ![q.mine].state = state]
    BY <1>3 DEF EndSession
  <2> QED BY <1>1, <2>1 DEF TypeOK
<1>4. ASSUME NEW s \in Requests, Ask(s) \/ Abandon(s)
      PROVE  session'[i] = session[i]
  BY <1>4 DEF Ask, AskSeat, AskClockOut, AskForce, AskCall, Abandon
<1>5. ASSUME NEW s \in Requests, Work(s)
      PROVE  session'[i] = session[i]
  BY <1>2, <1>3, <1>5
     DEF Work, ReadOwn, CloseOwn, ReadSeat, TakeSeat, DeadlockAbort, Tell, LateAudit, LogCall
<1>6. ASSUME NEW d \in DeskEdits, UpdateDesk(d)
      PROVE  session'[i] = session[i]
  BY <1>6 DEF UpdateDesk
<1>7. CASE UNCHANGED vars
  BY <1>7 DEF vars
<1> QED BY <1>4, <1>5, <1>6, <1>7 DEF Next

\* OneOpenSession: clock-ins, switches, assignments, forced ends and calls that come one
\* after another leave nobody with two open sessions and no desk with two, wherever each of
\* them fails.
THEOREM OneOpenSessionAlways ==
  ASSUME OneByOne
  PROVE  Spec => []OneOpenSession
<1>1. Alone => OneOpenSession
  BY DEF Alone
<1> QED BY <1>1, AloneAlways, PTL

\* EndedSessionIsFinal: and how a session ended, and by whom, never changes.
THEOREM EndedSessionIsFinalAlways ==
  ASSUME OneByOne
  PROVE  Spec => EndedSessionIsFinal
<1>1. Alone /\ [Next]_vars => [\A i \in SessionIds : Ended(i) => session'[i] = session[i]]_vars
  BY EndsOpenOnly
<1> QED BY <1>1, AloneAlways, PTL DEF Spec, EndedSessionIsFinal
=============================================================================
