------------------------ MODULE ScreenSessionsProofs ------------------------
(***************************************************************************)
(* Proofs about the tokens of a browser and the sessions behind them, for  *)
(* any users, any number of sessions, tabs and calls of a page beside each *)
(* other, and every choice of calls that are used together or fail on the  *)
(* way.  Only what is said of the parked login asks for one tab, and for   *)
(* no logout beside the start of a quick session.                          *)
(***************************************************************************)
EXTENDS ScreenSessions, TLAPS

-----------------------------------------------------------------------------
(* The inductive invariant                                                 *)

Used(i) == i # NoSid => session[i].state # "UNUSED" /\ session[i].user # Nobody
Announced(i) == i # NoSid /\ session[i].batch => row[i] # "NONE" /\ i \in told
LoginToken(i) == i # NoSid => /\ session[i].state # "UNUSED"
                              /\ session[i].user = Home /\ ~session[i].batch
Batch(i) == i # NoSid /\ session[i].batch

\* What a browser keeps as an access token was given out by the server, and a quick
\* session's is announced; what it keeps as a refresh token is of a login.
DiskOK(d) ==
  /\ \A i \in {d.access, d.batch, d.keptAccess} : Used(i) /\ Announced(i)
  /\ LoginToken(d.refresh) /\ LoginToken(d.keptRefresh)
  /\ d.batch # NoSid /\ Batch(d.access) => d.access = d.batch
MemOK(m) == Used(m.access) /\ Announced(m.access) /\ LoginToken(m.refresh)

\* A quick session is stored before its row, its row before the notice, the notice before
\* the answer; of a page that is gone only what the server does for it goes on.
CallOK(c) ==
  /\ c.pc \in {"recording", "telling"} => c.sid # NoSid /\ Used(c.sid)
  /\ c.pc = "telling" => row[c.sid] # "NONE"
  /\ c.pc = "answering" /\ c.kind = "START" =>
       c.sid # NoSid /\ Used(c.sid) /\ row[c.sid] # "NONE" /\ c.sid \in told
  /\ c.pc \in {"closing", "dropping"} => c.kind = "END"
  /\ c.lost => c.kind \notin {"WORK", "LOAD"} /\ c.pc \notin {"denied", "waiting", "answering"}
  /\ "START" = c.kind => "START" \in mix
  /\ "LOGOUT" \in {c.kind, c.for} => "LOGOUT" \in mix
RefreshOK(f) == f.pc # "none" => f.token # NoSid /\ LoginToken(f.token)

\* A page with user u, tokens m and calls r: while its first call is under way it shows
\* nobody, and, unless it is being left, with a quick session's token it shows its user.
Loads(c) == c.pc # "idle" /\ ~c.lost /\ "LOAD" \in {c.kind, c.for}
Fits(u, m, r, left) ==
  /\ ~left /\ Batch(m.access) => u \in {Nobody, session[m.access].user}
  /\ \A s \in Slots : Loads(r[s]) =>
       /\ u = Nobody
       /\ ~left /\ Batch(m.access) /\ r[s].kind = "LOAD" => r[s].who \in {Nobody, session[m.access].user}
  /\ \A s, q \in Slots : Loads(r[s]) /\ Loads(r[q]) => s = q

Sound ==
  /\ TypeOK /\ DiskOK(disk)
  /\ \A t \in Tabs : /\ MemOK(mem[t]) /\ Fits(shown[t], mem[t], call[t], t \in leaving)
                     /\ \A s \in Slots : CallOK(call[t][s])
                     /\ \A p \in Pages : RefreshOK(refresh[t][p])

-----------------------------------------------------------------------------
(* The server                                                              *)

ServerTyped ==
  /\ session \in [Sids -> Session] /\ lapsed \subseteq Sids
  /\ row \in [Sids -> {"NONE", "OPEN", "ENDED", "EXPIRED", "REVOKED"}] /\ told \subseteq Sids

\* What the server gave out stays what it is: a session keeps its user and its kind, a
\* row stays stored and a notice stays sent.
Grows ==
  /\ \A i \in Sids : session[i].state # "UNUSED" =>
       session'[i].state # "UNUSED" /\ session'[i].user = session[i].user /\ session'[i].batch = session[i].batch
  /\ \A i \in Sids : row[i] # "NONE" => row'[i] # "NONE"
  /\ told \subseteq told'

LEMMA SidFacts == NoSid \notin Sids /\ Sids \subseteq Token /\ NoSid \in Token /\ Token = Sids \cup {NoSid}
BY ScreenAssumption DEF NoSid, Sids, Token

LEMMA OpenedGrows ==
  ASSUME TypeOK, NEW i \in Sids, Fresh(i), NEW u \in Users \cup {Nobody}, NEW b \in BOOLEAN, Opened(i, u, b),
         UNCHANGED <<lapsed, row, told>>
  PROVE  /\ Grows /\ ServerTyped'
         /\ session'[i].state = "LIVE" /\ session'[i].user = u /\ session'[i].batch = b
<1>1. [state |-> "LIVE", user |-> u, batch |-> b] \in Session
  BY DEF Session
<1>2. session' \in [Sids -> Session]
  BY <1>1 DEF Opened, TypeOK
<1> QED BY <1>2 DEF Opened, Fresh, Grows, ServerTyped, TypeOK

LEMMA GoneGrows ==
  ASSUME TypeOK, NEW i, session' = [session EXCEPT ![i].state = "GONE"], NEW l, l \subseteq Sids, lapsed' = l,
         UNCHANGED <<row, told>>
  PROVE  Grows /\ ServerTyped'
<1>1. \A j \in Sids : /\ session'[j] \in Session
                      /\ session'[j].user = session[j].user /\ session'[j].batch = session[j].batch
                      /\ session[j].state # "UNUSED" => session'[j].state # "UNUSED"
  BY DEF TypeOK, Session
<1>2. session' \in [Sids -> Session]
  BY <1>1 DEF TypeOK
<1> QED BY <1>1, <1>2 DEF Grows, ServerTyped, TypeOK

LEMMA DroppedGrows ==
  ASSUME TypeOK, NEW i, Dropped(i), UNCHANGED <<row, told>>
  PROVE  Grows /\ ServerTyped'
<1> PICK l : l = lapsed'
  OBVIOUS
<1>1. l \subseteq Sids /\ session' = [session EXCEPT ![i].state = "GONE"]
  BY DEF Dropped, TypeOK
<1> QED BY <1>1, GoneGrows

LEMMA RowGrows ==
  ASSUME TypeOK, NEW i, NEW s \in {"OPEN", "ENDED", "EXPIRED", "REVOKED"}, row' = [row EXCEPT ![i] = s],
         UNCHANGED <<session, lapsed, told>>
  PROVE  Grows /\ ServerTyped'
BY DEF Grows, ServerTyped, TypeOK

LEMMA SameGrows ==
  ASSUME TypeOK, UNCHANGED server
  PROVE  Grows /\ ServerTyped'
BY DEF Grows, ServerTyped, TypeOK, server

\* Whatever was true of a token, a call, a refresh or a page stays true of it.
LEMMA TokenKeeps ==
  ASSUME TypeOK, Grows, NEW i \in Token
  PROVE  /\ Used(i) => Used(i)'
         /\ Used(i) /\ i # NoSid => session'[i].user = session[i].user /\ session'[i].batch = session[i].batch
         /\ Used(i) /\ Announced(i) => Announced(i)'
         /\ LoginToken(i) => LoginToken(i)'
BY SidFacts DEF Grows, Used, Announced, LoginToken

LEMMA Keeps ==
  ASSUME TypeOK, Grows, UNCHANGED mix
  PROVE  /\ \A d \in Disk : DiskOK(d) => DiskOK(d)'
         /\ \A m \in Tokens : MemOK(m) => MemOK(m)'
         /\ \A c \in Call : CallOK(c) => CallOK(c)'
         /\ \A f \in Refresh : RefreshOK(f) => RefreshOK(f)'
         /\ \A u, r, left : \A m \in Tokens : MemOK(m) /\ Fits(u, m, r, left) => Fits(u, m, r, left)'
<1>1. ASSUME NEW d \in Disk, DiskOK(d)
      PROVE  DiskOK(d)'
  <2>1. d.access \in Token /\ d.batch \in Token /\ d.keptAccess \in Token /\ d.refresh \in Token /\ d.keptRefresh \in Token
    BY DEF Disk
  <2>2. Batch(d.access)' => Batch(d.access)
    BY <1>1, <2>1, TokenKeeps DEF DiskOK, Batch
  <2> QED BY <1>1, <2>1, <2>2, TokenKeeps DEF DiskOK
<1>2. ASSUME NEW m \in Tokens, MemOK(m)
      PROVE  MemOK(m)'
  BY <1>2, TokenKeeps DEF Tokens, MemOK
<1>3. ASSUME NEW c \in Call, CallOK(c)
      PROVE  CallOK(c)'
  <2>1. c.sid \in Token
    BY DEF Call
  <2>2. c.sid # NoSid /\ row[c.sid] # "NONE" => row'[c.sid] # "NONE"
    BY <2>1, SidFacts DEF Grows
  <2>3. c.sid \in told => c.sid \in told'
    BY DEF Grows
  <2>4. Used(c.sid) => Used(c.sid)'
    BY <2>1, TokenKeeps
  <2> QED BY <1>3, <2>2, <2>3, <2>4 DEF CallOK
<1>4. ASSUME NEW f \in Refresh, RefreshOK(f)
      PROVE  RefreshOK(f)'
  BY <1>4, TokenKeeps DEF Refresh, RefreshOK
<1>5. ASSUME NEW u, NEW r, NEW left, NEW m \in Tokens, MemOK(m), Fits(u, m, r, left)
      PROVE  Fits(u, m, r, left)'
  <2>1. m.access \in Token /\ Used(m.access)
    BY <1>5 DEF Tokens, MemOK
  <2>2. Batch(m.access)' => Batch(m.access) /\ session'[m.access].user = session[m.access].user
    BY <2>1, TokenKeeps DEF Batch
  <2> QED BY <1>5, <2>2 DEF Fits
<1> QED BY <1>1, <1>2, <1>3, <1>4, <1>5

-----------------------------------------------------------------------------
(* Steps of a tab                                                          *)

LEMMA TabFacts ==
  ASSUME Sound, NEW t \in Tabs
  PROVE  /\ TypeOK /\ disk \in Disk /\ DiskOK(disk)
         /\ mem[t] \in Tokens /\ MemOK(mem[t]) /\ shown[t] \in Users \cup {Nobody}
         /\ menu[t] \in {"menu", "busy", "banner"}
         /\ Fits(shown[t], mem[t], call[t], t \in leaving)
         /\ call[t] \in [Slots -> Call] /\ \A s \in Slots : call[t][s] \in Call /\ CallOK(call[t][s])
         /\ refresh[t] \in [Pages -> Refresh] /\ \A p \in Pages : refresh[t][p] \in Refresh /\ RefreshOK(refresh[t][p])
BY DEF Sound, TypeOK

LEMMA Unchanged ==
  ASSUME TypeOK, NEW t \in Tabs
  PROVE  /\ mem = [mem EXCEPT ![t] = mem[t]] /\ shown = [shown EXCEPT ![t] = shown[t]]
         /\ menu = [menu EXCEPT ![t] = menu[t]] /\ call = [call EXCEPT ![t] = call[t]]
         /\ refresh = [refresh EXCEPT ![t] = refresh[t]]
         /\ leaving = IF t \in leaving THEN leaving \cup {t} ELSE leaving \ {t}
BY DEF TypeOK

\* What a step leaves of tab t and of the storage, and that it is sound.
Becomes(t, d, m, u, g, l, r, f) ==
  /\ disk' = d /\ mem' = [mem EXCEPT ![t] = m] /\ shown' = [shown EXCEPT ![t] = u]
  /\ menu' = [menu EXCEPT ![t] = g] /\ leaving' = IF l THEN leaving \cup {t} ELSE leaving \ {t}
  /\ call' = [call EXCEPT ![t] = r] /\ refresh' = [refresh EXCEPT ![t] = f]
  /\ UNCHANGED <<revoker, mix>>
Fine(d, m, u, g, l, r, f) ==
  /\ d \in Disk /\ DiskOK(d) /\ m \in Tokens /\ MemOK(m) /\ u \in Users \cup {Nobody}
  /\ g \in {"menu", "busy", "banner"} /\ l \in BOOLEAN
  /\ r \in [Slots -> Call] /\ \A s \in Slots : CallOK(r[s])
  /\ f \in [Pages -> Refresh] /\ \A p \in Pages : RefreshOK(f[p])
  /\ Fits(u, m, r, l)

LEMMA TabStep ==
  ASSUME Sound, Grows, ServerTyped', NEW t \in Tabs, NEW d, NEW m, NEW u, NEW g, NEW l, NEW r, NEW f,
         Becomes(t, d, m, u, g, l, r, f), Fine(d, m, u, g, l, r, f)'
  PROVE  Sound'
<1> USE DEF Becomes, Fine
<1>1. TypeOK
  BY DEF Sound
<1>2. TypeOK'
  BY <1>1 DEF TypeOK, ServerTyped
<1>3. ASSUME NEW x \in Tabs, NEW a, a = mem'[x], NEW b, b = call'[x], NEW c, c = refresh'[x],
             NEW v, v = shown'[x], NEW k, k = (x \in leaving')
      PROVE  /\ MemOK(a)' /\ Fits(v, a, b, k)'
             /\ \A s \in Slots : CallOK(b[s])'
             /\ \A p \in Pages : RefreshOK(c[p])'
  <2>1. CASE x = t
    <3>1. a = m /\ b = r /\ c = f /\ v = u /\ k = l
      BY <1>1, <1>3, <2>1 DEF TypeOK
    <3> QED BY <3>1
  <2>2. CASE x # t
    <3>1. a = mem[x] /\ b = call[x] /\ c = refresh[x] /\ v = shown[x] /\ k = (x \in leaving)
      BY <1>1, <1>3, <2>2 DEF TypeOK
    <3>2. /\ a \in Tokens /\ MemOK(a) /\ Fits(v, a, b, k)
          /\ \A s \in Slots : b[s] \in Call /\ CallOK(b[s])
          /\ \A p \in Pages : c[p] \in Refresh /\ RefreshOK(c[p])
      BY <3>1, TabFacts
    <3> QED BY <1>1, <3>2, Keeps
  <2> QED BY <2>1, <2>2
<1>4. \A x \in Tabs : (/\ MemOK(mem[x]) /\ Fits(shown[x], mem[x], call[x], x \in leaving)
                       /\ \A s \in Slots : CallOK(call[x][s])
                       /\ \A p \in Pages : RefreshOK(refresh[x][p]))'
  <2> SUFFICES ASSUME NEW x \in Tabs
               PROVE  (/\ MemOK(mem[x]) /\ Fits(shown[x], mem[x], call[x], x \in leaving)
                       /\ \A s \in Slots : CallOK(call[x][s])
                       /\ \A p \in Pages : RefreshOK(refresh[x][p]))'
    OBVIOUS
  <2> PICK a, b, c, v, k : a = mem'[x] /\ b = call'[x] /\ c = refresh'[x] /\ v = shown'[x] /\ k = (x \in leaving')
    OBVIOUS
  <2>1. MemOK(a)' /\ Fits(v, a, b, k)' /\ (\A s \in Slots : CallOK(b[s])') /\ \A p \in Pages : RefreshOK(c[p])'
    BY <1>3
  <2> QED BY <2>1 DEF MemOK, CallOK, RefreshOK, Fits, Used, Announced, LoginToken, Batch
<1>5. DiskOK(disk)'
  BY DEF DiskOK, Used, Announced, LoginToken, Batch
<1> QED BY <1>2, <1>4, <1>5 DEF Sound

(* What becomes of one call *)

Pcs == {"idle", "sent", "denied", "waiting", "served", "recording", "telling", "answering", "closing", "dropping"}

LEMMA CallFacts ==
  /\ NoCall \in Call /\ CallOK(NoCall)' /\ ~Loads(NoCall)
  /\ NoCall.pc = "idle" /\ NoCall.kind = "WORK" /\ NoCall.for = "END" /\ ~NoCall.lost
  /\ \A kind \in Kinds, i \in Token :
       /\ Sent(kind, i) \in Call
       /\ Sent(kind, i).pc = "sent" /\ Sent(kind, i).kind = kind /\ Sent(kind, i).for = "END"
       /\ ~Sent(kind, i).lost /\ Sent(kind, i).who = Nobody /\ Sent(kind, i).token = i
<1>1. NoCall \in Call /\ NoCall.pc = "idle" /\ NoCall.kind = "WORK" /\ NoCall.for = "END" /\ ~NoCall.lost
  BY SidFacts DEF NoCall, Call, Kinds
<1>2. CallOK(NoCall)' /\ ~Loads(NoCall)
  BY <1>1 DEF CallOK, Loads
<1>3. ASSUME NEW kind \in Kinds, NEW i \in Token
      PROVE  /\ Sent(kind, i) \in Call
             /\ Sent(kind, i).pc = "sent" /\ Sent(kind, i).kind = kind /\ Sent(kind, i).for = "END"
             /\ ~Sent(kind, i).lost /\ Sent(kind, i).who = Nobody /\ Sent(kind, i).token = i
  BY SidFacts DEF Sent, NoCall, Call, Kinds
<1> QED BY <1>1, <1>2, <1>3

LEMMA PcFacts ==
  ASSUME NEW c \in Call, NEW pc \in Pcs, NEW e, e = [c EXCEPT !.pc = pc]
  PROVE  /\ e \in Call /\ e.pc = pc /\ e.kind = c.kind /\ e.for = c.for /\ e.who = c.who
         /\ e.token = c.token /\ e.sid = c.sid /\ e.again = c.again /\ e.lost = c.lost
BY DEF Call, Pcs

\* The call is over, or still the one it was.
Follows(c, e) ==
  Loads(e) => /\ Loads(c)
              /\ e.kind = "LOAD" => e.who = Nobody \/ (c.kind = "LOAD" /\ e.who = c.who)

LEMMA FitsFollows ==
  ASSUME TypeOK, Grows, UNCHANGED mix, NEW m \in Tokens, MemOK(m), NEW u, NEW r, NEW left, Fits(u, m, r, left),
         NEW q, \A s \in Slots : Follows(r[s], q[s])
  PROVE  Fits(u, m, q, left)' /\ Fits(u, m, q, left)
<1>1. Fits(u, m, q, left)
  BY DEF Fits, Follows
<1> QED BY <1>1, Keeps

LEMMA CallStep ==
  ASSUME Sound, Grows, ServerTyped', NEW t \in Tabs, NEW s \in Slots,
         NEW c \in Call, CallOK(c)', Follows(call[t][s], c), Step(t, s, c),
         NEW g \in {"menu", "busy", "banner"}, menu' = [menu EXCEPT ![t] = g],
         NEW f \in [Pages -> Refresh], \A p \in Pages : RefreshOK(f[p])', refresh' = [refresh EXCEPT ![t] = f],
         UNCHANGED <<disk, mem, shown, leaving, revoker, mix>>
  PROVE  Sound'
<1>1. TypeOK /\ MemOK(mem[t]) /\ mem[t] \in Tokens
  BY TabFacts
<1> PICK d, m, u, l, r : /\ d = disk /\ m = mem[t] /\ u = shown[t] /\ l = (t \in leaving)
                         /\ r = [call[t] EXCEPT ![s] = c]
  OBVIOUS
<1>2. d \in Disk /\ m \in Tokens /\ u \in Users \cup {Nobody} /\ l \in BOOLEAN /\ DiskOK(d)' /\ MemOK(m)'
  BY <1>1, TabFacts, Keeps
<1>3. r \in [Slots -> Call] /\ call' = [call EXCEPT ![t] = r]
  BY <1>1 DEF Step, TypeOK
<1>4. \A x \in Slots : CallOK(r[x])'
  <2> SUFFICES ASSUME NEW x \in Slots PROVE CallOK(r[x])'
    OBVIOUS
  <2> PICK y : y = call[t][x]
    OBVIOUS
  <2>1. y \in Call /\ CallOK(y)'
    BY <1>1, TabFacts, Keeps
  <2>2. r[x] = IF x = s THEN c ELSE y
    BY <1>1, TabFacts
  <2> QED BY <2>1, <2>2
<1>5. Fits(u, m, r, l)'
  <2> PICK o : o = call[t]
    OBVIOUS
  <2>1. \A x \in Slots : Follows(o[x], r[x])
    BY TabFacts DEF Follows
  <2>2. Fits(u, m, o, l)
    BY TabFacts
  <2> QED BY <1>1, <2>1, <2>2, FitsFollows
<1>6. /\ disk' = d /\ mem' = [mem EXCEPT ![t] = m] /\ shown' = [shown EXCEPT ![t] = u]
      /\ leaving' = IF l THEN leaving \cup {t} ELSE leaving \ {t}
      /\ UNCHANGED <<revoker, mix>>
  BY <1>1, Unchanged
<1>7. Becomes(t, d, m, u, g, l, r, f)
  BY <1>3, <1>6 DEF Becomes
<1>8. Fine(d, m, u, g, l, r, f)'
  BY <1>2, <1>3, <1>4, <1>5 DEF Fine
<1> QED BY <1>7, <1>8, TabStep

\* A call that moves on, or is over, and leaves the browser alone.
LEMMA MoveStep ==
  ASSUME Sound, Grows, ServerTyped', NEW t \in Tabs, NEW s \in Slots,
         NEW c \in Call, CallOK(c)', Follows(call[t][s], c), Step(t, s, c),
         UNCHANGED <<client, refresh, revoker, mix>>
  PROVE  Sound'
<1>1. TypeOK
  BY DEF Sound
<1> PICK g, f : g = menu[t] /\ f = refresh[t]
  OBVIOUS
<1>2. g \in {"menu", "busy", "banner"} /\ menu' = [menu EXCEPT ![t] = g]
  BY <1>1, TabFacts, Unchanged DEF client
<1>3. f \in [Pages -> Refresh] /\ refresh' = [refresh EXCEPT ![t] = f]
  BY <1>1, TabFacts, Unchanged
<1>4. \A p \in Pages : RefreshOK(f[p])'
  <2> SUFFICES ASSUME NEW p \in Pages PROVE RefreshOK(f[p])'
    OBVIOUS
  <2> PICK x : x = refresh[t][p]
    OBVIOUS
  <2>1. x \in Refresh /\ RefreshOK(x)'
    BY <1>1, TabFacts, Keeps
  <2> QED BY <2>1
<1> QED BY <1>2, <1>3, <1>4, CallStep DEF client

LEMMA OverStep ==
  ASSUME Sound, Grows, ServerTyped', NEW t \in Tabs, NEW s \in Slots, Step(t, s, NoCall),
         UNCHANGED <<client, refresh, revoker, mix>>
  PROVE  Sound'
BY CallFacts, MoveStep DEF Follows

LEMMA PcStep ==
  ASSUME Sound, Grows, ServerTyped', NEW t \in Tabs, NEW s \in Slots, call[t][s].pc # "idle",
         NEW pc \in Pcs, Step(t, s, [call[t][s] EXCEPT !.pc = pc]),
         pc \in {"recording", "telling"} => FALSE, pc \in {"closing", "dropping", "answering"} => call[t][s].kind = "END",
         pc \in {"denied", "waiting", "answering"} => ~call[t][s].lost,
         UNCHANGED <<client, refresh, revoker, mix>>
  PROVE  Sound'
<1> PICK c, e : c = call[t][s] /\ e = [c EXCEPT !.pc = pc]
  OBVIOUS
<1>1. c \in Call /\ CallOK(c) /\ TypeOK
  BY TabFacts
<1>2. CallOK(c)'
  BY <1>1, Keeps
<1>3. /\ e \in Call /\ e.pc = pc /\ e.kind = c.kind /\ e.for = c.for /\ e.who = c.who
      /\ e.token = c.token /\ e.sid = c.sid /\ e.again = c.again /\ e.lost = c.lost
  BY <1>1, PcFacts
<1>4. CallOK(e)'
  BY <1>2, <1>3 DEF CallOK
<1>5. Follows(c, e)
  BY <1>3 DEF Follows, Loads
<1> QED BY <1>3, <1>4, <1>5, MoveStep

LEMMA EndingStep ==
  ASSUME Sound, Grows, ServerTyped', NEW t \in Tabs, NEW s \in Slots, call[t][s].pc # "idle",
         Step(t, s, Ending(call[t][s])), call[t][s].kind = "END", UNCHANGED <<client, refresh, revoker, mix>>
  PROVE  Sound'
<1>1. CASE call[t][s].lost
  BY <1>1, OverStep DEF Ending
<1>2. CASE ~call[t][s].lost
  BY <1>2, PcStep DEF Ending, Pcs
<1> QED BY <1>1, <1>2

\* Tokens of a login, or none, are kept in memory and in storage.
LEMMA SetStep ==
  ASSUME Sound, Grows, ServerTyped', NEW t \in Tabs, NEW i \in Token, LoginToken(i)', SetTokens(t, i),
         NEW u \in Users \cup {Nobody}, shown' = [shown EXCEPT ![t] = u],
         NEW g \in {"menu", "busy", "banner"}, menu' = [menu EXCEPT ![t] = g],
         NEW r \in [Slots -> Call], \A s \in Slots : CallOK(r[s])', call' = [call EXCEPT ![t] = r],
         \A s \in Slots : Loads(r[s]) => Loads(call[t][s]) /\ u = Nobody,
         NEW f \in [Pages -> Refresh], \A p \in Pages : RefreshOK(f[p])', refresh' = [refresh EXCEPT ![t] = f],
         UNCHANGED <<leaving, revoker, mix>>
  PROVE  Sound'
<1>1. Used(i)' /\ Announced(i)' /\ ~Batch(i)'
  BY ScreenAssumption DEF LoginToken, Used, Announced, Batch, Users
<1> PICK l \in BOOLEAN : (l = TRUE /\ t \in leaving) \/ (l = FALSE /\ t \notin leaving)
  OBVIOUS
<1>0. leaving' = leaving
  OBVIOUS
<1>6. l \in BOOLEAN /\ leaving' = IF l THEN leaving \cup {t} ELSE leaving \ {t}
  <2>1. CASE l = TRUE /\ t \in leaving
    BY <1>0, <2>1
  <2>2. CASE l = FALSE /\ t \notin leaving
    BY <1>0, <2>2
  <2> QED BY <2>1, <2>2
<1> PICK d, m : d = [disk EXCEPT !.access = i, !.refresh = i] /\ m = [access |-> i, refresh |-> i]
  OBVIOUS
<1>2. DiskOK(disk) /\ disk \in Disk /\ TypeOK
  BY TabFacts
<1>3. d \in Disk /\ DiskOK(d)'
  <2> PICK old : old = disk
    OBVIOUS
  <2>1. old \in Disk /\ DiskOK(old)'
    BY <1>2, Keeps
  <2>2. d = [old EXCEPT !.access = i, !.refresh = i]
    OBVIOUS
  <2>3. d \in Disk /\ d.access = i /\ d.refresh = i /\ d.batch = old.batch /\ d.keptAccess = old.keptAccess /\ d.keptRefresh = old.keptRefresh
    BY <2>1, <2>2 DEF Disk
  <2> QED BY <1>1, <2>1, <2>3 DEF DiskOK
<1>4. m \in Tokens /\ MemOK(m)' /\ m.access = i
  BY <1>1 DEF Tokens, MemOK
<1>5. disk' = d /\ mem' = [mem EXCEPT ![t] = m]
  BY DEF SetTokens
<1>7. Fits(u, m, r, l)'
  <2>1. Fits(shown[t], mem[t], call[t], t \in leaving)
    BY TabFacts
  <2> QED BY <1>1, <1>4, <2>1 DEF Fits
<1>8. UNCHANGED <<revoker, mix>>
  OBVIOUS
<1>9. Becomes(t, d, m, u, g, l, r, f)
  BY <1>5, <1>6, <1>8 DEF Becomes
<1>10. Fine(d, m, u, g, l, r, f)'
  BY <1>3, <1>4, <1>6, <1>7 DEF Fine
<1> QED BY <1>9, <1>10, TabStep

LEMMA NoLogin == LoginToken(NoSid) /\ LoginToken(NoSid)'
BY DEF LoginToken

\* The refreshes of a tab that a step leaves alone.
LEMMA RefreshesKept ==
  ASSUME Sound, Grows, NEW t \in Tabs, UNCHANGED <<refresh, mix>>
  PROVE  \E f \in [Pages -> Refresh] : (\A p \in Pages : RefreshOK(f[p])') /\ refresh' = [refresh EXCEPT ![t] = f]
<1>1. TypeOK
  BY DEF Sound
<1> PICK f : f = refresh[t]
  OBVIOUS
<1>2. f \in [Pages -> Refresh] /\ refresh' = [refresh EXCEPT ![t] = f]
  BY <1>1, TabFacts, Unchanged
<1>3. \A p \in Pages : RefreshOK(f[p])'
  <2> SUFFICES ASSUME NEW p \in Pages PROVE RefreshOK(f[p])'
    OBVIOUS
  <2> PICK x : x = refresh[t][p]
    OBVIOUS
  <2>1. x \in Refresh /\ RefreshOK(x)'
    BY <1>1, TabFacts, Keeps
  <2> QED BY <2>1
<1> QED BY <1>2, <1>3

\* The calls of a tab when one of them becomes another.
LEMMA CallsWith ==
  ASSUME Sound, Grows, NEW t \in Tabs, NEW s \in Slots, NEW c \in Call, CallOK(c)', UNCHANGED mix, Step(t, s, c)
  PROVE  \E r \in [Slots -> Call] :
           /\ \A x \in Slots : CallOK(r[x])' /\ r[x] = IF x = s THEN c ELSE call[t][x]
           /\ call' = [call EXCEPT ![t] = r]
<1>1. TypeOK
  BY DEF Sound
<1> PICK r : r = [call[t] EXCEPT ![s] = c]
  OBVIOUS
<1>2. r \in [Slots -> Call] /\ \A x \in Slots : r[x] = IF x = s THEN c ELSE call[t][x]
  BY TabFacts
<1>3. ASSUME NEW x \in Slots
      PROVE  CallOK(r[x])'
  <2> PICK y : y = call[t][x]
    OBVIOUS
  <2>1. y \in Call /\ CallOK(y)'
    BY <1>1, TabFacts, Keeps
  <2>2. r[x] = IF x = s THEN c ELSE y
    BY <1>2
  <2> QED BY <2>1, <2>2
<1>4. call' = [call EXCEPT ![t] = r]
  BY <1>1 DEF Step, TypeOK
<1> QED BY <1>2, <1>3, <1>4

LEMMA GiveUpStep ==
  ASSUME Sound, Grows, ServerTyped', NEW t \in Tabs, NEW s \in Slots, call[t][s].pc # "idle", GiveUp(t, s),
         UNCHANGED <<refresh, revoker, mix>>
  PROVE  Sound'
<1>1. TypeOK /\ call[t][s] \in Call /\ CallOK(call[t][s])
  BY TabFacts
<1>2. UNCHANGED <<leaving, revoker, mix>>
  BY DEF GiveUp
<1>3. CASE call[t][s].lost
  BY <1>2, <1>3, OverStep DEF GiveUp, client
<1>4. CASE ~call[t][s].lost /\ call[t][s].kind = "END"
  BY <1>2, <1>4, EndingStep DEF GiveUp, client, SignsOut
<1> PICK f \in [Pages -> Refresh] : (\A p \in Pages : RefreshOK(f[p])') /\ refresh' = [refresh EXCEPT ![t] = f]
  BY RefreshesKept
<1>5. CASE ~call[t][s].lost /\ SignsOut(call[t][s])
  <2>1. SetTokens(t, NoSid) /\ Show(t, Nobody) /\ Step(t, s, NoCall) /\ menu' = menu
    BY <1>5 DEF GiveUp, SignsOut
  <2> PICK g : g = menu[t]
    OBVIOUS
  <2>2. g \in {"menu", "busy", "banner"} /\ menu' = [menu EXCEPT ![t] = g]
    BY <2>1, <1>1 DEF TypeOK
  <2>5. shown' = [shown EXCEPT ![t] = Nobody] /\ SetTokens(t, NoSid)
    BY <2>1 DEF Show
  <2>6. NoCall \in Call /\ CallOK(NoCall)' /\ UNCHANGED mix
    BY <1>2, CallFacts
  <2> PICK r \in [Slots -> Call] :
         /\ \A x \in Slots : CallOK(r[x])' /\ r[x] = IF x = s THEN NoCall ELSE call[t][x]
         /\ call' = [call EXCEPT ![t] = r]
    BY <2>1, <2>6, CallsWith
  <2>4. \A x \in Slots : Loads(r[x]) => Loads(call[t][x])
    BY CallFacts
  <2> QED BY <1>2, <2>2, <2>4, <2>5, NoLogin, SidFacts, SetStep
<1>6. CASE ~call[t][s].lost /\ call[t][s].kind # "END" /\ ~SignsOut(call[t][s])
  <2>1. Step(t, s, NoCall) /\ Usable(t, call[t][s]) /\ UNCHANGED <<disk, mem, shown, leaving>>
    BY <1>2, <1>6 DEF GiveUp
  <2> PICK g : g = IF call[t][s].kind = "START" /\ menu[t] = "busy" THEN "menu" ELSE menu[t]
    OBVIOUS
  <2>2. g \in {"menu", "busy", "banner"} /\ menu' = [menu EXCEPT ![t] = g]
    BY <2>1, TabFacts DEF Usable
  <2>3. Follows(call[t][s], NoCall)
    BY CallFacts DEF Follows
  <2> QED BY <1>2, <2>1, <2>2, <2>3, CallFacts, CallStep
<1> QED BY <1>3, <1>4, <1>5, <1>6

-----------------------------------------------------------------------------
(* Every action                                                            *)

\* A new call of a page that is not its first.
LEMMA SendSound ==
  ASSUME Sound, NEW t \in Tabs, NEW s \in Slots, BannerEnds(t, s) \/ \E kind \in mix : Send(t, s, kind)
  PROVE  Sound'
<1>1. TypeOK /\ mem[t] \in Tokens /\ mix \subseteq Kinds
  BY TabFacts, ScreenAssumption DEF TypeOK
<1>2. UNCHANGED <<server, disk, mem, shown, leaving, refresh, revoker, mix>>
  BY DEF Send, BannerEnds, client
<1>3. Grows /\ ServerTyped'
  BY <1>1, <1>2, SameGrows
<1> PICK f \in [Pages -> Refresh] : (\A p \in Pages : RefreshOK(f[p])') /\ refresh' = [refresh EXCEPT ![t] = f]
  BY <1>2, <1>3, RefreshesKept
<1>4. ASSUME NEW kind \in Kinds \ {"LOAD"}, kind \in {"START", "LOGOUT"} => kind \in mix,
             Step(t, s, Sent(kind, mem[t].access)),
             NEW g \in {"menu", "busy", "banner"}, menu' = [menu EXCEPT ![t] = g]
      PROVE  Sound'
  <2> PICK c : c = Sent(kind, mem[t].access)
    OBVIOUS
  <2>1. c \in Call /\ c.pc = "sent" /\ c.kind = kind /\ c.for = "END" /\ ~c.lost
    BY <1>1, CallFacts DEF Tokens
  <2>2. CallOK(c)'
    BY <1>2, <1>4, <2>1 DEF CallOK
  <2>3. Follows(call[t][s], c)
    BY <1>4, <2>1 DEF Follows, Loads
  <2> QED BY <1>2, <1>3, <1>4, <2>1, <2>2, <2>3, CallStep
<1>5. CASE BannerEnds(t, s)
  <2> PICK g : g = menu[t]
    OBVIOUS
  <2>1. g \in {"menu", "busy", "banner"} /\ menu' = [menu EXCEPT ![t] = g]
    BY <1>1, <1>5, TabFacts, Unchanged DEF BannerEnds, client
  <2> QED BY <1>4, <1>5, <2>1 DEF BannerEnds, Kinds
<1>6. ASSUME NEW kind \in mix, Send(t, s, kind)
      PROVE  Sound'
  <2> PICK g : g = IF kind = "START" THEN "busy" ELSE menu[t]
    OBVIOUS
  <2>1. g \in {"menu", "busy", "banner"} /\ menu' = [menu EXCEPT ![t] = g]
    BY <1>1, <1>6, TabFacts, Unchanged DEF Send
  <2>2. kind \in Kinds \ {"LOAD"}
    BY <1>1, <1>6 DEF Send, Offered, Kinds
  <2> QED BY <1>4, <1>6, <2>1, <2>2 DEF Send
<1> QED BY <1>5, <1>6

LEMMA AuthenticateSound ==
  ASSUME Sound, NEW t \in Tabs, NEW s \in Slots, Authenticate(t, s) \/ FindBatch(t, s)
  PROVE  Sound'
<1>1. UNCHANGED <<server, client, refresh, revoker, mix>> /\ call[t][s].pc # "idle"
  BY DEF Authenticate, FindBatch, At
<1>2. TypeOK /\ Grows /\ ServerTyped'
  BY <1>1, TabFacts, SameGrows
<1> PICK c : c = call[t][s]
  OBVIOUS
<1>3. CASE Step(t, s, [c EXCEPT !.pc = "served"])
  BY <1>1, <1>2, <1>3, PcStep DEF Pcs
<1>4. CASE Step(t, s, Ending(c)) /\ c.kind = "END"
  BY <1>1, <1>2, <1>4, EndingStep
<1>5. CASE Step(t, s, NoCall)
  BY <1>1, <1>2, <1>5, OverStep
<1>6. CASE Step(t, s, [c EXCEPT !.pc = "denied"]) /\ ~c.lost
  BY <1>1, <1>2, <1>6, PcStep DEF Pcs
<1>7. CASE Step(t, s, [c EXCEPT !.pc = "closing"]) /\ c.kind = "END"
  BY <1>1, <1>2, <1>7, PcStep DEF Pcs
<1>8. CASE Authenticate(t, s)
  <2>1. CASE Valid(c.token)
    BY <1>3, <1>8, <2>1 DEF Authenticate
  <2>2. CASE ~Valid(c.token) /\ c.kind = "END"
    BY <1>4, <1>8, <2>2 DEF Authenticate
  <2>3. CASE ~Valid(c.token) /\ c.kind # "END"
    BY <1>5, <1>6, <1>8, <2>3 DEF Authenticate
  <2> QED BY <2>1, <2>2, <2>3
<1>9. CASE FindBatch(t, s)
  BY <1>4, <1>7, <1>9 DEF FindBatch
<1> QED BY <1>8, <1>9

LEMMA LoginSound ==
  ASSUME Sound, NEW t \in Tabs, Login(t)
  PROVE  Sound'
<1>1. TypeOK
  BY TabFacts
<1> PICK i \in Sids : Fresh(i) /\ Opened(i, Home, FALSE) /\ SetTokens(t, i)
  BY DEF Login
<1>2. UNCHANGED <<lapsed, row, told, leaving, call, refresh, revoker, mix>>
  BY DEF Login
<1>3. /\ Grows /\ ServerTyped'
      /\ session'[i].state = "LIVE" /\ session'[i].user = Home /\ session'[i].batch = FALSE
  BY <1>1, <1>2, OpenedGrows DEF Users
<1>4. LoginToken(i)' /\ i \in Token
  BY <1>3, SidFacts DEF LoginToken
<1> PICK f \in [Pages -> Refresh] : (\A p \in Pages : RefreshOK(f[p])') /\ refresh' = [refresh EXCEPT ![t] = f]
  BY <1>2, <1>3, RefreshesKept
<1> PICK g, r : g = Drawn(disk) /\ r = call[t]
  OBVIOUS
<1>5. g \in {"menu", "busy", "banner"} /\ menu' = [menu EXCEPT ![t] = g] /\ shown' = [shown EXCEPT ![t] = Home] /\ Home \in Users
  BY DEF Login, Show, Draw, Drawn, Users
<1>6. r \in [Slots -> Call] /\ call' = [call EXCEPT ![t] = r]
  BY <1>1, <1>2, TabFacts, Unchanged
<1>7. \A s \in Slots : CallOK(r[s])'
  <2> SUFFICES ASSUME NEW s \in Slots PROVE CallOK(r[s])'
    OBVIOUS
  <2> PICK x : x = call[t][s]
    OBVIOUS
  <2>1. x \in Call /\ CallOK(x)'
    BY <1>1, <1>2, <1>3, TabFacts, Keeps
  <2> QED BY <2>1
<1>8. \A s \in Slots : ~Loads(r[s])
  BY DEF Login, Loading, Loads, At
<1>9. UNCHANGED <<leaving, revoker, mix>>
  BY <1>2
<1> QED BY <1>3, <1>4, <1>5, <1>6, <1>7, <1>8, <1>9, SetStep

\* The calls of a tab, its refreshes and its menu change, nothing else of the browser.
LEMMA PageStep ==
  ASSUME Sound, Grows, ServerTyped', NEW t \in Tabs,
         NEW r \in [Slots -> Call], \A x \in Slots : CallOK(r[x])', \A x \in Slots : Follows(call[t][x], r[x]),
         call' = [call EXCEPT ![t] = r],
         NEW g \in {"menu", "busy", "banner"}, menu' = [menu EXCEPT ![t] = g],
         NEW f \in [Pages -> Refresh], \A p \in Pages : RefreshOK(f[p])', refresh' = [refresh EXCEPT ![t] = f],
         UNCHANGED <<disk, mem, shown, leaving, revoker, mix>>
  PROVE  Sound'
<1>1. TypeOK /\ MemOK(mem[t]) /\ mem[t] \in Tokens
  BY TabFacts
<1> PICK d, m, u, l : d = disk /\ m = mem[t] /\ u = shown[t] /\ l = (t \in leaving)
  OBVIOUS
<1>2. d \in Disk /\ m \in Tokens /\ u \in Users \cup {Nobody} /\ l \in BOOLEAN /\ DiskOK(d)' /\ MemOK(m)'
  BY <1>1, TabFacts, Keeps
<1>3. Fits(u, m, r, l)'
  <2> PICK o : o = call[t]
    OBVIOUS
  <2>1. \A x \in Slots : Follows(o[x], r[x])
    OBVIOUS
  <2>2. Fits(u, m, o, l)
    BY TabFacts
  <2> QED BY <1>1, <2>1, <2>2, FitsFollows
<1>4. /\ disk' = d /\ mem' = [mem EXCEPT ![t] = m] /\ shown' = [shown EXCEPT ![t] = u]
      /\ leaving' = IF l THEN leaving \cup {t} ELSE leaving \ {t}
      /\ UNCHANGED <<revoker, mix>>
  BY <1>1, Unchanged
<1>5. Becomes(t, d, m, u, g, l, r, f)
  BY <1>4 DEF Becomes
<1>6. Fine(d, m, u, g, l, r, f)'
  BY <1>2, <1>3 DEF Fine
<1> QED BY <1>5, <1>6, TabStep

\* The calls of a tab that a step leaves alone.
LEMMA CallsKept ==
  ASSUME Sound, Grows, NEW t \in Tabs, UNCHANGED <<call, mix>>
  PROVE  \E r \in [Slots -> Call] : /\ \A x \in Slots : CallOK(r[x])' /\ r[x] = call[t][x]
                                    /\ call' = [call EXCEPT ![t] = r]
<1>1. TypeOK
  BY DEF Sound
<1> PICK r : r = call[t]
  OBVIOUS
<1>2. r \in [Slots -> Call] /\ call' = [call EXCEPT ![t] = r]
  BY <1>1, TabFacts, Unchanged
<1>3. ASSUME NEW x \in Slots
      PROVE  CallOK(r[x])'
  <2> PICK y : y = call[t][x]
    OBVIOUS
  <2>1. y \in Call /\ CallOK(y)'
    BY <1>1, TabFacts, Keeps
  <2> QED BY <2>1
<1> QED BY <1>2, <1>3

\* A tab's refreshes when one of them changes.
LEMMA RefreshesWith ==
  ASSUME Sound, Grows, NEW t \in Tabs, NEW p \in Pages, NEW e \in Refresh, RefreshOK(e)', UNCHANGED mix,
         refresh' = [refresh EXCEPT ![t][p] = e]
  PROVE  \E f \in [Pages -> Refresh] : (\A q \in Pages : RefreshOK(f[q])') /\ refresh' = [refresh EXCEPT ![t] = f]
<1>1. TypeOK
  BY DEF Sound
<1> PICK f : f = [refresh[t] EXCEPT ![p] = e]
  OBVIOUS
<1>2. f \in [Pages -> Refresh] /\ (\A q \in Pages : f[q] = IF q = p THEN e ELSE refresh[t][q])
  BY TabFacts
<1>3. refresh' = [refresh EXCEPT ![t] = f]
  BY <1>1 DEF TypeOK
<1>4. ASSUME NEW q \in Pages
      PROVE  RefreshOK(f[q])'
  <2> PICK x : x = refresh[t][q]
    OBVIOUS
  <2>1. x \in Refresh /\ RefreshOK(x)'
    BY <1>1, TabFacts, Keeps
  <2>2. f[q] = IF q = p THEN e ELSE x
    BY <1>2
  <2> QED BY <2>1, <2>2
<1> QED BY <1>2, <1>3, <1>4

\* The memory and the storage of a tab change, and one of its calls is over; what it shows
\* fits them.
LEMMA NewTokens ==
  ASSUME Sound, Grows, ServerTyped', NEW t \in Tabs,
         NEW d \in Disk, DiskOK(d)', disk' = d, NEW m \in Tokens, MemOK(m)', mem' = [mem EXCEPT ![t] = m],
         NEW u \in Users \cup {Nobody}, shown' = [shown EXCEPT ![t] = u],
         NEW l \in BOOLEAN, leaving' = IF l THEN leaving \cup {t} ELSE leaving \ {t},
         NEW r \in [Slots -> Call], \A x \in Slots : CallOK(r[x])', call' = [call EXCEPT ![t] = r],
         NEW f \in [Pages -> Refresh], \A p \in Pages : RefreshOK(f[p])', refresh' = [refresh EXCEPT ![t] = f],
         Fits(u, m, r, l)',
         UNCHANGED <<menu, revoker, mix>>
  PROVE  Sound'
<1> PICK g : g = menu[t]
  OBVIOUS
<1>1. g \in {"menu", "busy", "banner"} /\ menu' = [menu EXCEPT ![t] = g]
  BY TabFacts, Unchanged
<1>2. Becomes(t, d, m, u, g, l, r, f)
  BY <1>1 DEF Becomes
<1>3. Fine(d, m, u, g, l, r, f)'
  BY <1>1 DEF Fine
<1> QED BY <1>2, <1>3, TabStep

LEMMA DeniedSound ==
  ASSUME Sound, NEW t \in Tabs, NEW s \in Slots, Denied(t, s)
  PROVE  Sound'
<1>1. UNCHANGED <<server, revoker, mix>> /\ call[t][s].pc = "denied"
  BY DEF Denied, At
<1>2. TypeOK /\ Grows /\ ServerTyped'
  BY <1>1, TabFacts, SameGrows
<1> PICK c : c = call[t][s]
  OBVIOUS
<1>3. c \in Call /\ CallOK(c) /\ c.pc = "denied" /\ ~c.lost
  BY <1>1, TabFacts DEF CallOK
<1>4. CASE /\ Step(t, s, [Sent("END", mem[t].access) EXCEPT
                            !.for = IF c.kind \in {"LOAD", "LOGOUT"} THEN c.kind ELSE "END", !.who = c.who])
           /\ UNCHANGED <<client, refresh>>
  <2> PICK e : e = [Sent("END", mem[t].access) EXCEPT
                      !.for = IF c.kind \in {"LOAD", "LOGOUT"} THEN c.kind ELSE "END", !.who = c.who]
    OBVIOUS
  <2>1. mem[t].access \in Token
    BY TabFacts DEF Tokens
  <2>2. /\ e \in Call /\ e.pc = "sent" /\ e.kind = "END" /\ ~e.lost
        /\ e.for = IF c.kind \in {"LOAD", "LOGOUT"} THEN c.kind ELSE "END"
    <3> PICK x, k : x = Sent("END", mem[t].access) /\ k = IF c.kind \in {"LOAD", "LOGOUT"} THEN c.kind ELSE "END"
      OBVIOUS
    <3>1. x \in Call /\ x.pc = "sent" /\ x.kind = "END" /\ ~x.lost
      BY <2>1, CallFacts DEF Kinds
    <3>2. e = [x EXCEPT !.for = k, !.who = c.who] /\ k \in {"END", "LOAD", "LOGOUT"} /\ c.who \in Users \cup {Nobody}
      BY <1>3 DEF Call
    <3> QED BY <3>1, <3>2 DEF Call
  <2>3. CallOK(e)'
    BY <1>1, <1>3, <2>2 DEF CallOK
  <2>4. Follows(c, e)
    BY <1>3, <2>2 DEF Follows, Loads
  <2>5. UNCHANGED <<client, refresh, revoker, mix>> /\ Step(t, s, e)
    BY <1>1, <1>4
  <2> QED BY <1>2, <2>2, <2>3, <2>4, <2>5, MoveStep
<1>5. CASE GiveUp(t, s) /\ refresh' = refresh
  BY <1>1, <1>2, <1>5, GiveUpStep
<1>6. ASSUME refresh[t]["here"].pc # "none" \/ mem[t].refresh # NoSid,
             Step(t, s, [c EXCEPT !.pc = "waiting"]), UNCHANGED client,
             refresh' = IF refresh[t]["here"].pc # "none" THEN refresh
                        ELSE [refresh EXCEPT ![t]["here"] = [pc |-> "sent", token |-> mem[t].refresh]]
      PROVE  Sound'
  <2>1. CASE refresh[t]["here"].pc # "none"
    <3>1. UNCHANGED <<client, refresh, revoker, mix>>
      BY <1>1, <1>6, <2>1
    <3> QED BY <1>2, <1>3, <1>6, <3>1, PcStep DEF Pcs
  <2>2. CASE refresh[t]["here"].pc = "none"
    <3> PICK e, h : e = [c EXCEPT !.pc = "waiting"] /\ h = [pc |-> "sent", token |-> mem[t].refresh]
      OBVIOUS
    <3>1. e \in Call /\ e.pc = "waiting" /\ e.kind = c.kind /\ e.for = c.for /\ e.who = c.who /\ e.sid = c.sid /\ e.lost = c.lost
      BY <1>3, PcFacts DEF Pcs
    <3>2. CallOK(e)'
      BY <1>1, <1>3, <3>1 DEF CallOK
    <3>3. Follows(c, e)
      BY <1>3, <3>1 DEF Follows, Loads
    <3>4. LoginToken(mem[t].refresh) /\ mem[t].refresh \in Token /\ h.pc = "sent" /\ h.token = mem[t].refresh
      BY TabFacts DEF MemOK, Tokens
    <3>5. LoginToken(h.token) /\ h \in Refresh /\ RefreshOK(h)
      BY <1>6, <2>2, <3>4 DEF RefreshOK, Refresh
    <3>6. RefreshOK(h)' /\ refresh' = [refresh EXCEPT ![t]["here"] = h] /\ "here" \in Pages /\ mix' = mix
      BY <1>1, <1>2, <1>6, <2>2, <3>5, Keeps DEF Pages
    <3> PICK f \in [Pages -> Refresh] : (\A q \in Pages : RefreshOK(f[q])') /\ refresh' = [refresh EXCEPT ![t] = f]
      BY <1>2, <3>5, <3>6, RefreshesWith
    <3> PICK g : g = menu[t]
      OBVIOUS
    <3>7. UNCHANGED <<disk, mem, shown, leaving, revoker, mix>>
      BY <1>1, <1>6 DEF client
    <3>8. g \in {"menu", "busy", "banner"} /\ menu' = [menu EXCEPT ![t] = g]
      BY <1>2, <1>6 DEF TypeOK, client
    <3>9. Step(t, s, e)
      BY <1>6
    <3> QED BY <1>2, <3>1, <3>2, <3>3, <3>7, <3>8, <3>9, CallStep
  <2> QED BY <2>1, <2>2
<1> QED BY <1>4, <1>5, <1>6 DEF Denied, AskRefresh

LEMMA FailSound ==
  ASSUME Sound, NEW t \in Tabs, NEW s \in Slots, Fail(t, s) \/ Logout(t, s)
  PROVE  Sound'
<1>1. CASE Fail(t, s)
  <2>1. UNCHANGED <<server, refresh, revoker, mix>> /\ call[t][s].pc # "idle" /\ GiveUp(t, s)
    BY <1>1 DEF Fail
  <2>2. Grows /\ ServerTyped'
    BY <2>1, TabFacts, SameGrows
  <2>3. UNCHANGED <<refresh, revoker, mix>>
    BY <2>1
  <2> QED BY <2>1, <2>2, <2>3, GiveUpStep
<1>2. CASE Logout(t, s)
  <2>1. UNCHANGED <<row, told, refresh, revoker, mix>> /\ call[t][s].pc # "idle" /\ GiveUp(t, s) /\ Dropped(call[t][s].token)
    BY <1>2 DEF Logout, At
  <2>2. Grows /\ ServerTyped'
    BY <2>1, TabFacts, DroppedGrows
  <2>3. UNCHANGED <<refresh, revoker, mix>>
    BY <2>1
  <2> QED BY <2>1, <2>2, <2>3, GiveUpStep
<1> QED BY <1>1, <1>2

LEMMA AnswerSound ==
  ASSUME Sound, NEW t \in Tabs, NEW s \in Slots, Answer(t, s)
  PROVE  Sound'
<1>1. UNCHANGED <<server, disk, mem, leaving, refresh, revoker, mix>> /\ Step(t, s, NoCall)
      /\ call[t][s].pc = "served" /\ call[t][s].kind \in {"WORK", "LOAD"}
  BY DEF Answer, At
<1>2. TypeOK /\ Grows /\ ServerTyped'
  BY <1>1, TabFacts, SameGrows
<1>3. CASE call[t][s].kind # "LOAD"
  <2>1. UNCHANGED <<client, refresh, revoker, mix>>
    BY <1>1, <1>3 DEF Answer, client
  <2> QED BY <1>1, <1>2, <2>1, OverStep
<1>4. CASE call[t][s].kind = "LOAD"
  <2>1. Show(t, call[t][s].who) /\ Draw(t)
    BY <1>4 DEF Answer
  <2> PICK u, d, m, o : u = call[t][s].who /\ d = disk /\ m = mem[t] /\ o = call[t]
    OBVIOUS
  <2> PICK g : g = Drawn(disk)
    OBVIOUS
  <2> PICK l \in BOOLEAN : (l = TRUE /\ t \in leaving) \/ (l = FALSE /\ t \notin leaving)
    OBVIOUS
  <2>2. g \in {"menu", "busy", "banner"} /\ menu' = [menu EXCEPT ![t] = g] /\ shown' = [shown EXCEPT ![t] = u]
    BY <2>1 DEF Draw, Drawn, Show
  <2>3. call[t][s] \in Call /\ CallOK(call[t][s]) /\ u \in Users \cup {Nobody}
    BY TabFacts DEF Call
  <2>4. Loads(call[t][s])
    BY <1>1, <1>4, <2>3 DEF Loads, CallOK
  <2>5. NoCall \in Call /\ CallOK(NoCall)' /\ ~Loads(NoCall) /\ UNCHANGED mix
    BY <1>1, CallFacts
  <2> PICK r \in [Slots -> Call] :
         /\ \A x \in Slots : CallOK(r[x])' /\ r[x] = IF x = s THEN NoCall ELSE call[t][x]
         /\ call' = [call EXCEPT ![t] = r]
    BY <1>1, <1>2, <2>5, CallsWith
  <2>6. d \in Disk /\ DiskOK(d)' /\ m \in Tokens /\ MemOK(m) /\ MemOK(m)'
    BY <1>1, <1>2, TabFacts, Keeps
  <2>7. Fits(u, m, r, l)
    <3>1. Fits(shown[t], m, o, t \in leaving)
      BY TabFacts
    <3>2. \A x \in Slots : ~Loads(r[x])
      BY <2>4, <2>5, <3>1 DEF Fits
    <3>3. ~l /\ Batch(m.access) => u \in {Nobody, session[m.access].user}
      BY <1>4, <2>4, <3>1 DEF Fits
    <3> QED BY <3>2, <3>3 DEF Fits
  <2>8. Fits(u, m, r, l)'
    BY <1>1, <1>2, <2>6, <2>7, Keeps
  <2> PICK f \in [Pages -> Refresh] : (\A p \in Pages : RefreshOK(f[p])') /\ refresh' = [refresh EXCEPT ![t] = f]
    BY <1>1, <1>2, RefreshesKept
  <2>9. leaving' = IF l THEN leaving \cup {t} ELSE leaving \ {t}
    <3>1. leaving' = leaving
      BY <1>1
    <3>2. CASE l = TRUE /\ t \in leaving
      BY <3>1, <3>2
    <3>3. CASE l = FALSE /\ t \notin leaving
      BY <3>1, <3>3
    <3> QED BY <3>2, <3>3
  <2>10. mem' = [mem EXCEPT ![t] = m] /\ disk' = d /\ UNCHANGED <<revoker, mix>>
    BY <1>1, <1>2, Unchanged
  <2>11. Becomes(t, d, m, u, g, l, r, f)
    BY <2>2, <2>9, <2>10 DEF Becomes
  <2>12. Fine(d, m, u, g, l, r, f)'
    BY <2>2, <2>3, <2>6, <2>8 DEF Fine
  <2> QED BY <1>2, <2>11, <2>12, TabStep
<1> QED BY <1>3, <1>4

\* The start and the end of a quick session, as the server does them.
LEMMA OpenBatchSound ==
  ASSUME Sound, NEW t \in Tabs, NEW s \in Slots, NEW v \in Users \cup {Nobody}, OpenBatch(t, s, v)
  PROVE  Sound'
<1>1. UNCHANGED <<lapsed, row, told, refresh, revoker, mix>> /\ call[t][s].pc = "served" /\ call[t][s].kind = "START"
  BY DEF OpenBatch, At
<1> PICK c : c = call[t][s]
  OBVIOUS
<1>2. TypeOK /\ c \in Call /\ CallOK(c)
  BY TabFacts
<1>3. ASSUME session' = session
      PROVE  Grows /\ ServerTyped' /\ UNCHANGED <<refresh, revoker, mix>>
  BY <1>1, <1>2, <1>3, SameGrows DEF server
<1>4. ASSUME Step(t, s, IF c.lost THEN NoCall ELSE [c EXCEPT !.pc = "denied"]), UNCHANGED <<session, client>>
      PROVE  Sound'
  <2>1. UNCHANGED <<client, refresh, revoker, mix>> /\ Grows /\ ServerTyped'
    BY <1>1, <1>3, <1>4
  <2>2. CASE c.lost
    BY <1>4, <2>1, <2>2, OverStep
  <2>3. CASE ~c.lost
    BY <1>1, <1>4, <2>1, <2>3, PcStep DEF Pcs
  <2> QED BY <2>2, <2>3
<1>5. ASSUME GiveUp(t, s), session' = session
      PROVE  Sound'
  <2>1. UNCHANGED <<refresh, revoker, mix>> /\ Grows /\ ServerTyped' /\ call[t][s].pc # "idle"
    BY <1>1, <1>3, <1>5
  <2> QED BY <1>5, <2>1, GiveUpStep
<1>6. ASSUME v # Nobody, NEW i \in Sids, Fresh(i), Opened(i, v, TRUE),
             Step(t, s, [c EXCEPT !.pc = "recording", !.sid = i]), UNCHANGED client
      PROVE  Sound'
  <2>1. UNCHANGED <<lapsed, row, told>> /\ UNCHANGED <<client, refresh, revoker, mix>>
    BY <1>1, <1>6
  <2>2. Grows /\ ServerTyped' /\ session'[i].state = "LIVE" /\ session'[i].user = v /\ i # NoSid /\ i \in Token
    BY <1>2, <1>6, <2>1, OpenedGrows, SidFacts
  <2> PICK e : e = [c EXCEPT !.pc = "recording", !.sid = i]
    OBVIOUS
  <2>3. e \in Call /\ e.pc = "recording" /\ e.sid = i /\ e.kind = c.kind /\ e.for = c.for /\ e.who = c.who /\ e.lost = c.lost
    BY <1>2, <2>2 DEF Call
  <2>4. CallOK(c)' /\ Used(i)'
    BY <1>2, <1>6, <2>1, <2>2, Keeps DEF Used
  <2>5. CallOK(e)'
    BY <1>1, <2>2, <2>3, <2>4 DEF CallOK
  <2>6. Follows(c, e)
    BY <1>1, <2>3 DEF Follows, Loads
  <2>7. Step(t, s, e)
    BY <1>6
  <2> QED BY <2>1, <2>2, <2>3, <2>5, <2>6, <2>7, MoveStep
<1> QED BY <1>4, <1>5, <1>6 DEF OpenBatch

LEMMA RecordSound ==
  ASSUME Sound, NEW t \in Tabs, NEW s \in Slots, RecordBatch(t, s) \/ TellOwner(t, s)
  PROVE  Sound'
<1> PICK c, i : c = call[t][s] /\ i = c.sid
  OBVIOUS
<1>1. TypeOK /\ c \in Call /\ CallOK(c) /\ i \in Token
  BY TabFacts DEF Call
<1>2. UNCHANGED <<client, refresh, revoker, mix>> /\ UNCHANGED <<session, lapsed>> /\ c.pc \in {"recording", "telling"}
  BY DEF RecordBatch, TellOwner, At
<1>3. i # NoSid /\ i \in Sids
  BY <1>1, <1>2, SidFacts DEF CallOK
<1>4. CASE RecordBatch(t, s)
  <2>1. row' = [row EXCEPT ![i] = "OPEN"] /\ UNCHANGED <<session, lapsed, told>> /\ Step(t, s, [c EXCEPT !.pc = "telling"])
        /\ c.pc = "recording"
    BY <1>4 DEF RecordBatch, At
  <2>2. Grows /\ ServerTyped' /\ row'[i] # "NONE"
    BY <1>1, <1>3, <2>1, RowGrows DEF TypeOK
  <2> PICK e : e = [c EXCEPT !.pc = "telling"]
    OBVIOUS
  <2>3. /\ e \in Call /\ e.pc = "telling" /\ e.kind = c.kind /\ e.for = c.for /\ e.who = c.who
        /\ e.sid = i /\ e.lost = c.lost
    BY <1>1, PcFacts DEF Pcs
  <2>4. CallOK(c)' /\ Step(t, s, e)
    BY <1>1, <1>2, <2>1, <2>2, Keeps
  <2>5. CallOK(e)'
    BY <2>1, <2>2, <2>3, <2>4 DEF CallOK
  <2>6. Follows(c, e)
    BY <2>1, <2>3 DEF Follows, Loads
  <2> QED BY <1>2, <2>2, <2>3, <2>4, <2>5, <2>6, MoveStep
<1>5. CASE TellOwner(t, s)
  <2>1. told' = told \cup {i} /\ row' = row /\ Step(t, s, Ending(c)) /\ c.pc = "telling"
    BY <1>5 DEF TellOwner, At
  <2>2. Grows /\ ServerTyped'
    BY <1>1, <1>2, <1>3, <2>1 DEF Grows, ServerTyped, TypeOK
  <2>3. CASE c.lost
    BY <1>2, <2>1, <2>2, <2>3, OverStep DEF Ending
  <2>4. CASE ~c.lost
    <3> PICK e : e = [c EXCEPT !.pc = "answering"]
      OBVIOUS
    <3>1. /\ e \in Call /\ e.pc = "answering" /\ e.kind = c.kind /\ e.for = c.for /\ e.who = c.who
          /\ e.sid = i /\ e.lost = c.lost
      BY <1>1, PcFacts DEF Pcs
    <3>2. CallOK(c)' /\ Step(t, s, e)
      BY <1>1, <1>2, <2>1, <2>2, <2>4, Keeps DEF Ending
    <3>3. CallOK(e)'
      BY <2>1, <2>4, <3>1, <3>2 DEF CallOK
    <3>4. Follows(c, e)
      BY <2>1, <3>1 DEF Follows, Loads
    <3> QED BY <1>2, <2>2, <3>1, <3>2, <3>3, <3>4, MoveStep
  <2> QED BY <2>3, <2>4
<1> QED BY <1>4, <1>5

LEMMA CloseSound ==
  ASSUME Sound, NEW t \in Tabs, NEW s \in Slots, CloseBatch(t, s) \/ DropBatch(t, s)
  PROVE  Sound'
<1>1. TypeOK /\ call[t][s] \in Call /\ CallOK(call[t][s])
  BY TabFacts
<1>2. UNCHANGED <<client, refresh, revoker, mix>> /\ call[t][s].pc \in {"closing", "dropping"}
  BY DEF CloseBatch, DropBatch, At
<1>3. call[t][s].kind = "END"
  BY <1>1, <1>2 DEF CallOK
<1>4. CASE CloseBatch(t, s)
  <2> PICK i, v : i = call[t][s].token /\ v = IF Over(i) THEN "EXPIRED" ELSE "ENDED"
    OBVIOUS
  <2>1. row' = [row EXCEPT ![i] = v] /\ v \in {"OPEN", "ENDED", "EXPIRED", "REVOKED"} /\ UNCHANGED <<session, lapsed, told>>
    BY <1>4 DEF CloseBatch
  <2>2. Grows /\ ServerTyped'
    BY <1>1, <2>1, RowGrows
  <2>3. Step(t, s, [call[t][s] EXCEPT !.pc = "dropping"])
    BY <1>4 DEF CloseBatch
  <2> QED BY <1>2, <1>3, <2>2, <2>3, PcStep DEF Pcs
<1>5. CASE DropBatch(t, s)
  <2>1. Grows /\ ServerTyped' /\ Step(t, s, Ending(call[t][s]))
    BY <1>1, <1>5, DroppedGrows DEF DropBatch
  <2> QED BY <1>2, <1>3, <2>1, EndingStep
<1> QED BY <1>4, <1>5

\* A quick session is begun and ended in the browser.
LEMMA EnterSound ==
  ASSUME Sound, NEW t \in Tabs, NEW s \in Slots, EnterBatch(t, s)
  PROVE  Sound'
<1> PICK c, i : c = call[t][s] /\ i = c.sid
  OBVIOUS
<1>1. TypeOK /\ c \in Call /\ CallOK(c) /\ i \in Token /\ disk \in Disk /\ DiskOK(disk)
  BY TabFacts DEF Call
<1>2. /\ UNCHANGED <<server, shown, menu, refresh, revoker, mix>> /\ Step(t, s, NoCall)
      /\ c.pc = "answering" /\ c.kind = "START"
      /\ disk' = Parked(i) /\ leaving' = leaving \cup {t}
  BY DEF EnterBatch, At
<1>3. Grows /\ ServerTyped' /\ UNCHANGED mix
  BY <1>1, <1>2, SameGrows
<1>4. Used(i) /\ Announced(i) /\ i # NoSid
  BY <1>1, <1>2 DEF CallOK, Announced
<1> PICK d, m, u : d = Parked(i) /\ m = [access |-> i, refresh |-> NoSid] /\ u = shown[t]
  OBVIOUS
<1>5. /\ d.access = i /\ d.refresh = NoSid /\ d.batch = i
      /\ d.keptAccess = disk.access /\ d.keptRefresh = disk.refresh
  BY DEF Parked
<1>6. d \in Disk
  BY <1>1, SidFacts DEF Parked, Disk
<1>7. DiskOK(d)
  BY <1>1, <1>4, <1>5, NoLogin DEF DiskOK
<1>8. m \in Tokens /\ MemOK(m)
  BY <1>1, <1>4, SidFacts, NoLogin DEF Tokens, MemOK
<1>9. DiskOK(d)' /\ MemOK(m)' /\ u \in Users \cup {Nobody}
  BY <1>1, <1>3, <1>6, <1>7, <1>8, TabFacts, Keeps
<1>10. NoCall \in Call /\ CallOK(NoCall)' /\ ~Loads(NoCall)
  BY CallFacts
<1> PICK r \in [Slots -> Call] :
       /\ \A x \in Slots : CallOK(r[x])' /\ r[x] = IF x = s THEN NoCall ELSE call[t][x]
       /\ call' = [call EXCEPT ![t] = r]
  BY <1>2, <1>3, <1>10, CallsWith
<1>11. Fits(u, m, r, TRUE)
  <2>1. Fits(u, mem[t], call[t], t \in leaving)
    BY TabFacts
  <2> QED BY <1>10, <2>1 DEF Fits
<1>12. Fits(u, m, r, TRUE)'
  BY <1>1, <1>3, <1>8, <1>11, Keeps
<1> PICK f \in [Pages -> Refresh] : (\A p \in Pages : RefreshOK(f[p])') /\ refresh' = [refresh EXCEPT ![t] = f]
  BY <1>2, <1>3, RefreshesKept
<1>13. /\ disk' = d /\ mem' = [mem EXCEPT ![t] = m] /\ shown' = [shown EXCEPT ![t] = u]
       /\ UNCHANGED <<menu, revoker, mix>>
  BY <1>1, <1>2, Unchanged DEF EnterBatch
<1>14. leaving' = IF TRUE THEN leaving \cup {t} ELSE leaving \ {t}
  BY <1>2
<1> QED
  <2> PICK l \in BOOLEAN : l = TRUE
    OBVIOUS
  <2>1. Fits(u, m, r, l)' /\ leaving' = IF l THEN leaving \cup {t} ELSE leaving \ {t}
    BY <1>12, <1>14
  <2> QED BY <1>3, <1>6, <1>8, <1>9, <1>13, <2>1, NewTokens

LEMMA LeaveSound ==
  ASSUME Sound, NEW t \in Tabs, NEW s \in Slots, LeaveBatch(t, s)
  PROVE  Sound'
<1> PICK c : c = call[t][s]
  OBVIOUS
<1> PICK d : d = IF Forgets(c) THEN EmptyDisk ELSE Restored
  OBVIOUS
<1> PICK opening \in BOOLEAN : opening <=> (c.for = "LOAD" /\ c.who = Nobody)
  OBVIOUS
<1> PICK asks \in BOOLEAN : asks <=> (opening /\ (refresh[t]["here"].pc # "none" \/ d.refresh # NoSid))
  OBVIOUS
<1> PICK m, e : /\ m = [access |-> d.access, refresh |-> d.refresh]
                /\ e = IF asks THEN [NoCall EXCEPT !.pc = "waiting", !.kind = "LOAD"] ELSE NoCall
  OBVIOUS
<1>1. TypeOK /\ c \in Call /\ CallOK(c) /\ disk \in Disk /\ DiskOK(disk)
  BY TabFacts
<1>2. /\ c.pc = "answering" /\ c.kind = "END" /\ disk' = d /\ mem' = [mem EXCEPT ![t] = m]
      /\ shown' = (IF Forgets(c) THEN [shown EXCEPT ![t] = Nobody] ELSE shown)
      /\ leaving' = (IF opening THEN leaving ELSE leaving \cup {t}) /\ Step(t, s, e)
      /\ refresh' = IF asks /\ refresh[t]["here"].pc = "none"
                    THEN [refresh EXCEPT ![t]["here"] = [pc |-> "sent", token |-> d.refresh]] ELSE refresh
  BY DEF LeaveBatch, At
<1>3. UNCHANGED <<server, menu, revoker, mix>>
  BY DEF LeaveBatch
<1>4. Grows /\ ServerTyped' /\ UNCHANGED mix
  BY <1>1, <1>3, SameGrows
<1>5. d \in Disk /\ DiskOK(d) /\ d.batch = NoSid
  <2>1. CASE Forgets(c)
    <3>1. d.access = NoSid /\ d.refresh = NoSid /\ d.batch = NoSid /\ d.keptAccess = NoSid /\ d.keptRefresh = NoSid /\ d \in Disk
      BY <2>1, SidFacts DEF EmptyDisk, Disk
    <3> QED BY <3>1, NoLogin DEF DiskOK, Used, Announced
  <2>2. CASE ~Forgets(c)
    <3>1. /\ d.access = disk.keptAccess /\ d.refresh = disk.keptRefresh
          /\ d.batch = NoSid /\ d.keptAccess = NoSid /\ d.keptRefresh = NoSid /\ d \in Disk
      BY <1>1, <2>2, SidFacts DEF Restored, EmptyDisk, Disk
    <3> QED BY <1>1, <3>1, NoLogin DEF DiskOK, Used, Announced
  <2> QED BY <2>1, <2>2
<1>6. m \in Tokens /\ MemOK(m) /\ LoginToken(d.refresh) /\ d.refresh \in Token
  BY <1>5 DEF DiskOK, MemOK, Tokens, Disk
<1>7. DiskOK(d)' /\ MemOK(m)' /\ LoginToken(d.refresh)'
  BY <1>1, <1>4, <1>5, <1>6, Keeps, TokenKeeps
<1>8. /\ e \in Call /\ ~e.lost /\ e.pc \in {"idle", "waiting"} /\ e.kind \in {"WORK", "LOAD"} /\ e.for = "END" /\ e.who = Nobody
      /\ e.kind = "LOAD" => opening
      /\ e.kind = "WORK" => e.pc = "idle"
  BY SidFacts DEF NoCall, Call, Kinds
<1>9. CallOK(e)'
  BY <1>8 DEF CallOK
<1>10. Loads(e) => Loads(c) /\ opening
  BY <1>1, <1>2, <1>8 DEF Loads, CallOK
<1>11. opening => Loads(c)
  BY <1>1, <1>2 DEF Loads, CallOK
<1> PICK r \in [Slots -> Call] :
       /\ \A x \in Slots : CallOK(r[x])' /\ r[x] = IF x = s THEN e ELSE call[t][x]
       /\ call' = [call EXCEPT ![t] = r]
  BY <1>2, <1>4, <1>8, <1>9, CallsWith
<1> PICK u : u = IF Forgets(c) THEN Nobody ELSE shown[t]
  OBVIOUS
<1>12. u \in Users \cup {Nobody} /\ shown' = [shown EXCEPT ![t] = u]
  BY <1>1, <1>2, TabFacts, Unchanged
<1> PICK l \in BOOLEAN : (l = TRUE /\ (~opening \/ t \in leaving)) \/ (l = FALSE /\ opening /\ t \notin leaving)
  OBVIOUS
<1>13. leaving' = IF l THEN leaving \cup {t} ELSE leaving \ {t}
  <2>1. CASE ~opening
    BY <1>2, <2>1
  <2>2. CASE opening /\ t \in leaving
    BY <1>2, <2>2
  <2>3. CASE opening /\ t \notin leaving
    BY <1>2, <2>3
  <2> QED BY <2>1, <2>2, <2>3
<1>14. Fits(u, m, r, l)
  <2>1. Fits(shown[t], mem[t], call[t], t \in leaving)
    BY TabFacts
  <2>2. \A x \in Slots : Loads(r[x]) => Loads(call[t][x])
    BY <1>10
  <2>3. Loads(c) => u = Nobody
    BY <2>1 DEF Fits
  <2>4. \A x \in Slots : Loads(r[x]) => u = Nobody
    BY <2>1, <2>2 DEF Fits
  <2>5. \A x, q \in Slots : Loads(r[x]) /\ Loads(r[q]) => x = q
    BY <2>1, <2>2 DEF Fits
  <2>6. ~l => u = Nobody
    BY <1>11, <2>3
  <2>7. \A x \in Slots : ~l /\ Loads(r[x]) => x = s
    BY <1>11, <2>1, <2>2 DEF Fits
  <2>8. \A x \in Slots : ~l /\ Loads(r[x]) => r[x].who = Nobody
    BY <1>8, <2>7
  <2> QED BY <2>4, <2>5, <2>6, <2>8 DEF Fits
<1>15. Fits(u, m, r, l)'
  BY <1>1, <1>4, <1>6, <1>14, Keeps
<1>16. \E f \in [Pages -> Refresh] : (\A p \in Pages : RefreshOK(f[p])') /\ refresh' = [refresh EXCEPT ![t] = f]
  <2>1. CASE asks /\ refresh[t]["here"].pc = "none"
    <3> PICK h : h = [pc |-> "sent", token |-> d.refresh]
      OBVIOUS
    <3>1. h \in Refresh /\ h.token = d.refresh /\ d.refresh # NoSid
      BY <1>6, <2>1 DEF Refresh
    <3>2. RefreshOK(h)'
      BY <1>7, <3>1 DEF RefreshOK
    <3>3. refresh' = [refresh EXCEPT ![t]["here"] = h] /\ "here" \in Pages
      BY <1>2, <2>1 DEF Pages
    <3> QED BY <1>4, <3>1, <3>2, <3>3, RefreshesWith
  <2>2. CASE ~(asks /\ refresh[t]["here"].pc = "none")
    <3>1. UNCHANGED <<refresh, mix>>
      BY <1>2, <1>4, <2>2
    <3> QED BY <1>4, <3>1, RefreshesKept
  <2> QED BY <2>1, <2>2
<1> PICK f \in [Pages -> Refresh] : (\A p \in Pages : RefreshOK(f[p])') /\ refresh' = [refresh EXCEPT ![t] = f]
  BY <1>16
<1>17. disk' = d /\ mem' = [mem EXCEPT ![t] = m] /\ UNCHANGED <<menu, revoker, mix>>
  BY <1>2, <1>3
<1> PICK g : g = menu[t]
  OBVIOUS
<1>18. g \in {"menu", "busy", "banner"} /\ menu' = [menu EXCEPT ![t] = g]
  BY <1>1, <1>17 DEF TypeOK
<1>19. Becomes(t, d, m, u, g, l, r, f)
  BY <1>12, <1>13, <1>17, <1>18 DEF Becomes
<1>20. Fine(d, m, u, g, l, r, f)'
  BY <1>5, <1>6, <1>7, <1>12, <1>15, <1>18 DEF Fine
<1> QED BY <1>4, <1>19, <1>20, TabStep

LEMMA FirstCallFacts ==
  ASSUME TypeOK, DiskOK(disk), NEW c, c = FirstCall(disk)
  PROVE  /\ c \in Call /\ ~c.lost /\ c.pc \in {"idle", "sent", "waiting"}
         /\ c.for # "LOGOUT" /\ c.kind \in {"WORK", "LOAD", "END"}
         /\ c.who # Nobody => disk.batch # NoSid /\ c.who = session[disk.batch].user
<1>1. disk \in Disk
  BY DEF TypeOK
<1>2. disk.access \in Token /\ disk.batch \in Token
  BY <1>1 DEF Disk
<1>3. CASE disk.batch # NoSid /\ Over(disk.batch)
  <2> PICK x : x = Sent("END", disk.access)
    OBVIOUS
  <2>1. x \in Call /\ x.pc = "sent" /\ x.kind = "END" /\ ~x.lost /\ x.who = Nobody
    BY <1>2, CallFacts DEF Kinds
  <2>2. c = [x EXCEPT !.for = "LOAD"]
    BY <1>3 DEF FirstCall, Refreshable
  <2> QED BY <2>1, <2>2 DEF Call
<1>4. CASE disk.batch # NoSid /\ ~Over(disk.batch)
  <2> PICK x, u : x = Sent("LOAD", disk.access) /\ u = session[disk.batch].user
    OBVIOUS
  <2>1. x \in Call /\ x.pc = "sent" /\ x.kind = "LOAD" /\ ~x.lost /\ x.for = "END"
    BY <1>2, CallFacts DEF Kinds
  <2>2. c = [x EXCEPT !.who = u]
    BY <1>4 DEF FirstCall, Refreshable
  <2>3. u \in Users \cup {Nobody}
    BY <1>2, <1>4, SidFacts DEF TypeOK, Session
  <2> QED BY <1>4, <2>1, <2>2, <2>3 DEF Call
<1>5. CASE Refreshable(disk)
  <2>1. c = [NoCall EXCEPT !.pc = "waiting", !.kind = "LOAD"]
    BY <1>5 DEF FirstCall, Refreshable
  <2>2. NoCall \in Call /\ NoCall.for = "END" /\ ~NoCall.lost /\ NoCall.who = Nobody
    BY CallFacts DEF NoCall
  <2> QED BY <2>1, <2>2 DEF Call, Kinds
<1>6. CASE disk.batch = NoSid /\ disk.refresh = NoSid
  <2>1. c = NoCall
    BY <1>6 DEF FirstCall, Refreshable
  <2> QED BY <2>1, CallFacts DEF NoCall
<1> QED BY <1>3, <1>4, <1>5, <1>6 DEF Refreshable

LEMMA OrphanedFacts ==
  ASSUME NEW c \in Call, CallOK(c), NEW e, e = Orphaned(c)
  PROVE  e \in Call /\ CallOK(e) /\ ~Loads(e)
<1>1. CASE c.kind \in {"WORK", "LOAD"} \/ c.pc \in {"denied", "waiting", "answering"}
  <2>1. e = NoCall
    BY <1>1 DEF Orphaned
  <2>2. CallOK(NoCall)
    BY CallFacts DEF CallOK
  <2> QED BY <2>1, <2>2, CallFacts
<1>2. CASE ~(c.kind \in {"WORK", "LOAD"} \/ c.pc \in {"denied", "waiting", "answering"})
  <2>1. e = [c EXCEPT !.lost = TRUE, !.for = "END", !.who = Nobody, !.again = FALSE]
    BY <1>2 DEF Orphaned
  <2>2. e \in Call /\ e.lost /\ e.for = "END" /\ e.pc = c.pc /\ e.kind = c.kind /\ e.sid = c.sid
    BY <2>1 DEF Call
  <2>3. CallOK(e)
    BY <1>2, <2>2 DEF CallOK
  <2> QED BY <2>2, <2>3 DEF Loads
<1> QED BY <1>1, <1>2

LEMMA ReloadSound ==
  ASSUME Sound, NEW t \in Tabs, Reload(t)
  PROVE  Sound'
<1>1. TypeOK /\ disk \in Disk /\ DiskOK(disk)
  BY TabFacts
<1>2. UNCHANGED <<server, revoker, mix>>
  BY DEF Reload
<1>3. Grows /\ ServerTyped' /\ UNCHANGED mix
  BY <1>1, <1>2, SameGrows
<1> PICK d, m, g, l, u : /\ d = disk /\ m = [access |-> disk.access, refresh |-> disk.refresh]
                         /\ g = Drawn(disk) /\ l = FALSE /\ u = Nobody
  OBVIOUS
<1> PICK z \in Slots :
       call' = [call EXCEPT ![t] = [x \in Slots |-> IF x = z THEN FirstCall(disk) ELSE Orphaned(call[t][x])]]
  BY DEF Reload, LoadPage
<1> PICK r : r = [x \in Slots |-> IF x = z THEN FirstCall(disk) ELSE Orphaned(call[t][x])]
  OBVIOUS
<1> PICK f : f = [here |-> IF Refreshable(disk) THEN [pc |-> "sent", token |-> disk.refresh] ELSE NoRefresh,
                  left |-> IF refresh[t]["here"].pc # "none" THEN refresh[t]["here"] ELSE refresh[t]["left"]]
  OBVIOUS
<1>4. /\ disk' = d /\ mem' = [mem EXCEPT ![t] = m] /\ shown' = [shown EXCEPT ![t] = u]
      /\ menu' = [menu EXCEPT ![t] = g] /\ refresh' = [refresh EXCEPT ![t] = f]
      /\ UNCHANGED <<revoker, mix>> /\ leaving' = leaving \ {t}
  BY <1>2 DEF Reload, LoadPage, Show, Draw
<1>5. d \in Disk /\ DiskOK(d)' /\ g \in {"menu", "busy", "banner"} /\ u \in Users \cup {Nobody}
  BY <1>1, <1>3, Keeps DEF Drawn
<1>6. m \in Tokens /\ MemOK(m) /\ m.access = disk.access
  BY <1>1 DEF Tokens, MemOK, DiskOK, Disk
<1>7. MemOK(m)'
  BY <1>1, <1>3, <1>6, Keeps
<1> PICK c : c = FirstCall(disk)
  OBVIOUS
<1>8. /\ c \in Call /\ ~c.lost /\ c.pc \in {"idle", "sent", "waiting"}
      /\ c.for # "LOGOUT" /\ c.kind \in {"WORK", "LOAD", "END"}
      /\ c.who # Nobody => disk.batch # NoSid /\ c.who = session[disk.batch].user
  BY <1>1, FirstCallFacts
<1>9. CallOK(c)
  BY <1>8 DEF CallOK
<1>10. \A x \in Slots : r[x] \in Call /\ CallOK(r[x]) /\ (x # z => ~Loads(r[x]))
  <2> SUFFICES ASSUME NEW x \in Slots PROVE r[x] \in Call /\ CallOK(r[x]) /\ (x # z => ~Loads(r[x]))
    OBVIOUS
  <2> PICK y, e : y = call[t][x] /\ e = Orphaned(y)
    OBVIOUS
  <2>1. y \in Call /\ CallOK(y)
    BY TabFacts
  <2>2. e \in Call /\ CallOK(e) /\ ~Loads(e)
    BY <2>1, OrphanedFacts
  <2>3. r[x] = IF x = z THEN c ELSE e
    OBVIOUS
  <2> QED BY <1>8, <1>9, <2>2, <2>3
<1>11. r \in [Slots -> Call] /\ \A x \in Slots : CallOK(r[x])'
  <2>1. r \in [Slots -> Call]
    BY <1>10
  <2>2. ASSUME NEW x \in Slots
        PROVE  CallOK(r[x])'
    <3> PICK y : y = r[x]
      OBVIOUS
    <3>1. y \in Call /\ CallOK(y)
      BY <1>10
    <3>2. CallOK(y)'
      BY <1>1, <1>3, <3>1, Keeps
    <3> QED BY <3>2
  <2> QED BY <2>1, <2>2
<1>12. Fits(u, m, r, l)
  <2>1. r[z] = c
    OBVIOUS
  <2>2. c.who # Nobody /\ Batch(m.access) => c.who = session[m.access].user
    BY <1>1, <1>6, <1>8 DEF DiskOK
  <2> QED BY <1>10, <2>1, <2>2 DEF Fits
<1>13. Fits(u, m, r, l)'
  BY <1>1, <1>3, <1>6, <1>12, Keeps
<1>14. f \in [Pages -> Refresh] /\ \A p \in Pages : RefreshOK(f[p])
  <2> PICK h, k : /\ h = (IF Refreshable(disk) THEN [pc |-> "sent", token |-> disk.refresh] ELSE NoRefresh)
                  /\ k = IF refresh[t]["here"].pc # "none" THEN refresh[t]["here"] ELSE refresh[t]["left"]
    OBVIOUS
  <2>1. h \in Refresh /\ RefreshOK(h)
    BY <1>1, SidFacts DEF Refreshable, NoRefresh, Refresh, RefreshOK, DiskOK, Disk
  <2>2. k \in Refresh /\ RefreshOK(k)
    <3>1. \A p \in Pages : refresh[t][p] \in Refresh /\ RefreshOK(refresh[t][p])
      BY TabFacts
    <3> QED BY <3>1 DEF Pages
  <2>3. f = [here |-> h, left |-> k]
    OBVIOUS
  <2> QED BY <2>1, <2>2, <2>3 DEF Pages
<1>15. \A p \in Pages : RefreshOK(f[p])'
  <2> SUFFICES ASSUME NEW p \in Pages PROVE RefreshOK(f[p])'
    OBVIOUS
  <2> PICK x : x = f[p]
    OBVIOUS
  <2>1. x \in Refresh /\ RefreshOK(x)
    BY <1>14
  <2>2. RefreshOK(x)'
    BY <1>1, <1>3, <2>1, Keeps
  <2> QED BY <2>2
<1>16. Becomes(t, d, m, u, g, l, r, f)
  BY <1>4 DEF Becomes
<1>17. Fine(d, m, u, g, l, r, f)'
  BY <1>5, <1>6, <1>7, <1>11, <1>13, <1>14, <1>15 DEF Fine
<1> QED BY <1>3, <1>16, <1>17, TabStep

\* One refresh of a tab changes, nothing else of the browser.
LEMMA RefreshStep ==
  ASSUME Sound, Grows, ServerTyped', NEW t \in Tabs, NEW p \in Pages, NEW e \in Refresh, RefreshOK(e)',
         Refreshing(t, p, e), UNCHANGED <<client, call, revoker, mix>>
  PROVE  Sound'
<1>1. TypeOK /\ UNCHANGED mix /\ refresh' = [refresh EXCEPT ![t][p] = e]
  BY DEF Sound, Refreshing
<1> PICK f \in [Pages -> Refresh] : (\A q \in Pages : RefreshOK(f[q])') /\ refresh' = [refresh EXCEPT ![t] = f]
  BY <1>1, RefreshesWith
<1>2. UNCHANGED <<call, mix>>
  OBVIOUS
<1> PICK r \in [Slots -> Call] : (\A x \in Slots : CallOK(r[x])' /\ r[x] = call[t][x]) /\ call' = [call EXCEPT ![t] = r]
  BY <1>2, CallsKept
<1> PICK g : g = menu[t]
  OBVIOUS
<1>3. g \in {"menu", "busy", "banner"} /\ menu' = [menu EXCEPT ![t] = g]
  BY <1>1 DEF TypeOK, client
<1>4. UNCHANGED <<disk, mem, shown, leaving, revoker, mix>>
  BY DEF client
<1>5. \A x \in Slots : Follows(call[t][x], r[x])
  BY DEF Follows
<1> QED BY <1>3, <1>4, <1>5, PageStep

LEMMA FindSessionSound ==
  ASSUME Sound, NEW t \in Tabs, NEW p \in Pages, FindSession(t, p) \/ DropOld(t, p)
  PROVE  Sound'
<1>1. TypeOK /\ refresh[t][p] \in Refresh /\ RefreshOK(refresh[t][p])
  BY TabFacts
<1>2. UNCHANGED <<client, call, revoker, mix>> /\ UNCHANGED mix /\ refresh[t][p].pc # "none"
  BY DEF FindSession, DropOld
<1>3. Grows /\ ServerTyped'
  BY <1>1, SameGrows, DroppedGrows DEF FindSession, DropOld
<1> PICK h : h = refresh[t][p]
  OBVIOUS
<1>4. RefreshOK(h)'
  BY <1>1, <1>2, <1>3, Keeps
<1>5. ASSUME NEW pc \in {"found", "dropped"}, Refreshing(t, p, [h EXCEPT !.pc = pc])
      PROVE  Sound'
  <2> PICK e : e = [h EXCEPT !.pc = pc]
    OBVIOUS
  <2>1. e \in Refresh /\ e.token = h.token
    BY <1>1 DEF Refresh
  <2>2. RefreshOK(e)' /\ Refreshing(t, p, e)
    BY <1>2, <1>4, <1>5, <2>1 DEF RefreshOK
  <2> QED BY <1>2, <1>3, <2>1, <2>2, RefreshStep
<1> QED BY <1>5 DEF FindSession, DropOld

LEMMA NoRefreshFacts == NoRefresh \in Refresh /\ RefreshOK(NoRefresh)'
BY SidFacts DEF NoRefresh, Refresh, RefreshOK

\* The calls that waited for a refresh go on, and the page they opened is through.
LEMMA RotateSound ==
  ASSUME Sound, NEW t \in Tabs, NEW p \in Pages, Rotate(t, p)
  PROVE  Sound'
<1> PICK v, h : h = refresh[t][p] /\ v = session[h.token].user
  OBVIOUS
<1>1. TypeOK /\ h \in Refresh /\ RefreshOK(h) /\ h.pc = "dropped"
  BY TabFacts DEF Rotate
<1>2. v = Home /\ v \in Users \cup {Nobody}
  BY <1>1 DEF RefreshOK, LoginToken, Users
<1>3. Refreshing(t, p, NoRefresh) /\ UNCHANGED <<lapsed, row, told>> /\ UNCHANGED <<revoker, mix>>
  BY DEF Rotate
<1> PICK i \in Sids : /\ Fresh(i) /\ Opened(i, v, FALSE)
                      /\ IF p = "left" THEN UNCHANGED <<client, call>>
                         ELSE /\ SetTokens(t, i) /\ Resent(t, i) /\ leaving' = leaving
                              /\ IF \E s \in Slots : Waiting(t, s) /\ Opening(call[t][s])
                                 THEN Show(t, v) /\ Draw(t) ELSE UNCHANGED <<shown, menu>>
  BY DEF Rotate
<1>4. Grows /\ ServerTyped' /\ session'[i].state = "LIVE" /\ session'[i].user = v /\ session'[i].batch = FALSE
  BY <1>1, <1>2, <1>3, OpenedGrows
<1>5. CASE p = "left"
  <2>1. UNCHANGED <<client, call, revoker, mix>>
    BY <1>3, <1>5
  <2> QED BY <1>3, <1>4, <2>1, NoRefreshFacts, RefreshStep
<1>6. CASE p # "left"
  <2>1. SetTokens(t, i) /\ Resent(t, i) /\ UNCHANGED <<leaving, revoker, mix>> /\ i \in Token /\ LoginToken(i)' /\ UNCHANGED mix
    BY <1>2, <1>3, <1>4, <1>6, SidFacts DEF LoginToken
  <2> PICK f \in [Pages -> Refresh] : (\A q \in Pages : RefreshOK(f[q])') /\ refresh' = [refresh EXCEPT ![t] = f]
    BY <1>3, <1>4, <2>1, NoRefreshFacts, RefreshesWith DEF Refreshing
  <2> PICK r : r = [s \in Slots |->
                      CASE ~Waiting(t, s) -> call[t][s]
                        [] Waiting(t, s) /\ Opening(call[t][s]) -> NoCall
                        [] Waiting(t, s) /\ ~Opening(call[t][s]) ->
                             [call[t][s] EXCEPT !.pc = "sent", !.token = i, !.again = TRUE]]
    OBVIOUS
  <2>2. call' = [call EXCEPT ![t] = r]
    BY <2>1 DEF Resent
  <2>3. \A s \in Slots : /\ r[s] \in Call /\ CallOK(r[s])' /\ (Loads(r[s]) => Loads(call[t][s]))
                         /\ Waiting(t, s) /\ Opening(call[t][s]) => Loads(call[t][s]) /\ ~Loads(r[s])
    <3> SUFFICES ASSUME NEW s \in Slots
                 PROVE  /\ r[s] \in Call /\ CallOK(r[s])' /\ (Loads(r[s]) => Loads(call[t][s]))
                        /\ Waiting(t, s) /\ Opening(call[t][s]) => Loads(call[t][s]) /\ ~Loads(r[s])
      OBVIOUS
    <3> PICK c, e : c = call[t][s] /\ e = [c EXCEPT !.pc = "sent", !.token = i, !.again = TRUE]
      OBVIOUS
    <3>1. c \in Call /\ CallOK(c) /\ (Waiting(t, s) <=> c.pc = "waiting")
      BY TabFacts DEF Waiting, At
    <3>2. CallOK(c)'
      BY <1>1, <1>4, <2>1, <3>1, Keeps
    <3>3. /\ e \in Call /\ e.pc = "sent" /\ e.kind = c.kind /\ e.for = c.for /\ e.lost = c.lost
      BY <2>1, <3>1 DEF Call
    <3>4. CallOK(e)' /\ (c.pc = "waiting" => (Loads(e) => Loads(c)))
      BY <3>2, <3>3 DEF CallOK, Loads
    <3>5. c.pc = "waiting" /\ Opening(c) => Loads(c)
      BY <3>1 DEF CallOK, Loads, Opening
    <3>6. r[s] = CASE ~Waiting(t, s) -> c
                   [] Waiting(t, s) /\ Opening(c) -> NoCall
                   [] Waiting(t, s) /\ ~Opening(c) -> e
      OBVIOUS
    <3>7. CASE ~Waiting(t, s)
      BY <3>1, <3>2, <3>6, <3>7
    <3>8. CASE Waiting(t, s) /\ Opening(c)
      BY <3>1, <3>5, <3>6, <3>8, CallFacts
    <3>9. CASE Waiting(t, s) /\ ~Opening(c)
      BY <3>1, <3>3, <3>4, <3>6, <3>9
    <3> QED BY <3>7, <3>8, <3>9
  <2>4. r \in [Slots -> Call]
    BY <2>3
  <2>5. Fits(shown[t], mem[t], call[t], t \in leaving)
    BY TabFacts
  <2>6. CASE \E s \in Slots : Waiting(t, s) /\ Opening(call[t][s])
    <3> PICK g : g = Drawn(disk)
      OBVIOUS
    <3>1. \A s \in Slots : ~Loads(r[s])
      BY <2>3, <2>5, <2>6 DEF Fits
    <3>2. g \in {"menu", "busy", "banner"} /\ menu' = [menu EXCEPT ![t] = g] /\ shown' = [shown EXCEPT ![t] = v]
      BY <1>6, <2>6 DEF Draw, Drawn, Show
    <3> QED BY <1>2, <1>4, <2>1, <2>2, <2>3, <2>4, <3>1, <3>2, SetStep
  <2>7. CASE ~\E s \in Slots : Waiting(t, s) /\ Opening(call[t][s])
    <3> PICK g, u : g = menu[t] /\ u = shown[t]
      OBVIOUS
    <3>1. UNCHANGED <<shown, menu>>
      BY <1>6, <2>7
    <3>2. g \in {"menu", "busy", "banner"} /\ menu' = [menu EXCEPT ![t] = g]
          /\ shown' = [shown EXCEPT ![t] = u] /\ u \in Users \cup {Nobody}
      BY <1>1, <3>1 DEF TypeOK
    <3>3. \A s \in Slots : Loads(r[s]) => Loads(call[t][s]) /\ u = Nobody
      BY <2>3, <2>5 DEF Fits
    <3> QED BY <1>4, <2>1, <2>2, <2>3, <2>4, <3>2, <3>3, SetStep
  <2> QED BY <2>6, <2>7
<1> QED BY <1>5, <1>6

LEMMA RefreshFailsSound ==
  ASSUME Sound, NEW t \in Tabs, NEW p \in Pages, RefreshFails(t, p)
  PROVE  Sound'
<1>1. UNCHANGED <<server, revoker, mix>> /\ Refreshing(t, p, NoRefresh)
  BY DEF RefreshFails
<1>2. TypeOK /\ Grows /\ ServerTyped' /\ UNCHANGED mix
  BY <1>1, TabFacts, SameGrows
<1>3. CASE p = "left"
  <2>1. UNCHANGED <<client, call, revoker, mix>>
    BY <1>1, <1>3 DEF RefreshFails
  <2> QED BY <1>1, <1>2, <2>1, NoRefreshFacts, RefreshStep
<1>4. CASE p # "left"
  <2> PICK signsOut \in BOOLEAN : signsOut <=> \E s \in Slots : Waiting(t, s) /\ SignsOut(call[t][s])
    OBVIOUS
  <2>1. /\ SetTokens(t, NoSid) \/ (~signsOut /\ UNCHANGED <<disk, mem>>)
        /\ shown' = (IF signsOut THEN [shown EXCEPT ![t] = Nobody] ELSE shown)
        /\ menu' = (IF menu[t] = "busy" /\ \E s \in Slots : Waiting(t, s) /\ call[t][s].kind = "START"
                    THEN [menu EXCEPT ![t] = "menu"] ELSE menu)
        /\ leaving' = leaving
    BY <1>4 DEF RefreshFails
  <2> PICK f \in [Pages -> Refresh] : (\A q \in Pages : RefreshOK(f[q])') /\ refresh' = [refresh EXCEPT ![t] = f]
    BY <1>1, <1>2, NoRefreshFacts, RefreshesWith DEF Refreshing
  <2> PICK r : r = [s \in Slots |-> IF Waiting(t, s) THEN NoCall ELSE call[t][s]]
    OBVIOUS
  <2>2. call' = [call EXCEPT ![t] = r]
    BY <1>4 DEF RefreshFails
  <2>3. \A s \in Slots : /\ r[s] \in Call /\ CallOK(r[s])' /\ (Loads(r[s]) => Loads(call[t][s]))
                         /\ Follows(call[t][s], r[s])
    <3> SUFFICES ASSUME NEW s \in Slots
                 PROVE  /\ r[s] \in Call /\ CallOK(r[s])' /\ (Loads(r[s]) => Loads(call[t][s]))
                        /\ Follows(call[t][s], r[s])
      OBVIOUS
    <3> PICK c : c = call[t][s]
      OBVIOUS
    <3>1. c \in Call /\ CallOK(c)
      BY TabFacts
    <3>2. CallOK(c)' /\ NoCall \in Call /\ CallOK(NoCall)' /\ ~Loads(NoCall)
      BY <1>2, <3>1, Keeps, CallFacts
    <3>3. r[s] = IF Waiting(t, s) THEN NoCall ELSE c
      OBVIOUS
    <3> QED BY <3>1, <3>2, <3>3 DEF Follows
  <2>4. r \in [Slots -> Call]
    BY <2>3
  <2>5. Fits(shown[t], mem[t], call[t], t \in leaving) /\ shown[t] \in Users \cup {Nobody}
    BY TabFacts
  <2> PICK g : g = IF menu[t] = "busy" /\ \E s \in Slots : Waiting(t, s) /\ call[t][s].kind = "START" THEN "menu" ELSE menu[t]
    OBVIOUS
  <2>6. g \in {"menu", "busy", "banner"} /\ menu' = [menu EXCEPT ![t] = g]
    BY <1>2, <2>1 DEF TypeOK
  <2>7. UNCHANGED <<leaving, revoker, mix>>
    BY <1>1, <2>1
  <2>8. CASE SetTokens(t, NoSid)
    <3> PICK u : u = IF signsOut THEN Nobody ELSE shown[t]
      OBVIOUS
    <3>1. u \in Users \cup {Nobody} /\ shown' = [shown EXCEPT ![t] = u]
      BY <1>2, <2>1, <2>5 DEF TypeOK
    <3>2. \A s \in Slots : Loads(r[s]) => Loads(call[t][s]) /\ u = Nobody
      BY <2>3, <2>5 DEF Fits
    <3>3. NoSid \in Token /\ LoginToken(NoSid)'
      BY SidFacts, NoLogin
    <3> QED BY <1>2, <2>2, <2>3, <2>4, <2>6, <2>7, <2>8, <3>1, <3>2, <3>3, SetStep
  <2>9. CASE ~signsOut /\ UNCHANGED <<disk, mem>>
    <3>1. UNCHANGED <<disk, mem, shown, leaving, revoker, mix>>
      BY <1>1, <2>1, <2>9
    <3> QED BY <1>2, <2>2, <2>3, <2>4, <2>6, <3>1, PageStep
  <2> QED BY <2>1, <2>8, <2>9
<1> QED BY <1>3, <1>4

\* The owner's revocation and the passing of time leave the browser alone.
LEMMA OutsideSound ==
  ASSUME Sound, Revoke \/ DropRevoked \/ RevokeFails \/ \E i \in Sids : FindOpen(i) \/ Lapse(i) \/ Elapse(i)
  PROVE  Sound' /\ UNCHANGED <<client, call, refresh, mix>>
<1>1. TypeOK
  BY DEF Sound
<1>2. /\ Grows /\ ServerTyped' /\ UNCHANGED <<client, call, refresh, mix>>
      /\ revoker' \in [pc: {"idle", "found", "dropping"}, sid: Token]
  <2>1. CASE Revoke
    <3>1. row' = [row EXCEPT ![revoker.sid] = "REVOKED"] /\ UNCHANGED <<session, lapsed, told>>
      BY <2>1 DEF Revoke
    <3>2. revoker' \in [pc: {"idle", "found", "dropping"}, sid: Token] /\ UNCHANGED <<client, call, refresh, mix>>
      BY <1>1, <2>1 DEF Revoke, TypeOK
    <3> QED BY <1>1, <3>1, <3>2, RowGrows
  <2>2. CASE DropRevoked
    BY <1>1, <2>2, DroppedGrows, SidFacts DEF DropRevoked
  <2>3. CASE RevokeFails
    BY <1>1, <2>3, SameGrows, SidFacts DEF RevokeFails
  <2>4. ASSUME NEW i \in Sids, FindOpen(i)
        PROVE  /\ Grows /\ ServerTyped' /\ UNCHANGED <<client, call, refresh, mix>>
               /\ revoker' \in [pc: {"idle", "found", "dropping"}, sid: Token]
    BY <1>1, <2>4, SameGrows, SidFacts DEF FindOpen
  <2>5. ASSUME NEW i \in Sids, Lapse(i)
        PROVE  /\ Grows /\ ServerTyped' /\ UNCHANGED <<client, call, refresh, mix>>
               /\ revoker' \in [pc: {"idle", "found", "dropping"}, sid: Token]
    <3>1. UNCHANGED <<row, told>> /\ UNCHANGED <<client, call, refresh, mix>> /\ revoker' = revoker
      BY <2>5 DEF Lapse
    <3>2. CASE i \in lapsed
      BY <1>1, <2>5, <3>1, <3>2, DroppedGrows DEF Lapse, TypeOK
    <3>3. CASE i \notin lapsed
      BY <1>1, <2>5, <3>1, <3>3 DEF Lapse, TypeOK, Grows, ServerTyped
    <3> QED BY <3>2, <3>3
  <2>6. ASSUME NEW i \in Sids, Elapse(i)
        PROVE  /\ Grows /\ ServerTyped' /\ UNCHANGED <<client, call, refresh, mix>>
               /\ revoker' \in [pc: {"idle", "found", "dropping"}, sid: Token]
    <3>1. /\ session' = [session EXCEPT ![i].state = "GONE"] /\ UNCHANGED <<row, told>>
          /\ UNCHANGED <<client, call, refresh, mix>> /\ revoker' = revoker
      BY <2>6 DEF Elapse
    <3> PICK l : l = lapsed \cup {i}
      OBVIOUS
    <3>2. l \subseteq Sids /\ lapsed' = l
      BY <1>1, <2>6 DEF Elapse, TypeOK
    <3>3. Grows /\ ServerTyped'
      BY <1>1, <3>1, <3>2, GoneGrows
    <3> QED BY <1>1, <3>1, <3>3 DEF TypeOK
  <2> QED BY <2>1, <2>2, <2>3, <2>4, <2>5, <2>6
<1>3. TypeOK'
  BY <1>1, <1>2 DEF TypeOK, ServerTyped, client
<1>4. \A t \in Tabs : (/\ MemOK(mem[t]) /\ Fits(shown[t], mem[t], call[t], t \in leaving)
                       /\ \A s \in Slots : CallOK(call[t][s])
                       /\ \A p \in Pages : RefreshOK(refresh[t][p]))'
  <2> SUFFICES ASSUME NEW t \in Tabs
               PROVE  (/\ MemOK(mem[t]) /\ Fits(shown[t], mem[t], call[t], t \in leaving)
                       /\ \A s \in Slots : CallOK(call[t][s])
                       /\ \A p \in Pages : RefreshOK(refresh[t][p]))'
    OBVIOUS
  <2> PICK m, u, r, f, l : m = mem[t] /\ u = shown[t] /\ r = call[t] /\ f = refresh[t] /\ l = (t \in leaving)
    OBVIOUS
  <2>1. /\ m \in Tokens /\ MemOK(m) /\ Fits(u, m, r, l)
        /\ \A s \in Slots : r[s] \in Call /\ CallOK(r[s])
        /\ \A p \in Pages : f[p] \in Refresh /\ RefreshOK(f[p])
    BY TabFacts
  <2>2. MemOK(m)' /\ Fits(u, m, r, l)' /\ (\A s \in Slots : CallOK(r[s])') /\ \A p \in Pages : RefreshOK(f[p])'
    BY <1>1, <1>2, <2>1, Keeps
  <2>3. m = mem'[t] /\ u = shown'[t] /\ r = call'[t] /\ f = refresh'[t] /\ l = (t \in leaving')
    BY <1>2 DEF client
  <2> QED BY <2>2, <2>3 DEF MemOK, CallOK, RefreshOK, Fits, Used, Announced, LoginToken, Batch
<1>5. DiskOK(disk)'
  <2> PICK d : d = disk
    OBVIOUS
  <2>1. d \in Disk /\ DiskOK(d) /\ d = disk'
    BY <1>2 DEF Sound, TypeOK, client
  <2>2. DiskOK(d)'
    BY <1>1, <1>2, <2>1, Keeps
  <2> QED BY <2>1, <2>2 DEF DiskOK, Used, Announced, LoginToken, Batch
<1> QED BY <1>2, <1>3, <1>4, <1>5 DEF Sound

LEMMA InitSound == Init => Sound
<1> SUFFICES ASSUME Init PROVE Sound
  OBVIOUS
<1> PICK c, f, m : c = NoCall /\ f = NoRefresh /\ m = NoTokens
  OBVIOUS
<1>1. c \in Call /\ f \in Refresh /\ m \in Tokens /\ EmptyDisk \in Disk
  BY CallFacts, NoRefreshFacts, SidFacts DEF NoTokens, Tokens, EmptyDisk, Disk
<1>2. ~Loads(c) /\ CallOK(c) /\ RefreshOK(f) /\ MemOK(m) /\ ~Batch(m.access)
  BY NoLogin, CallFacts DEF CallOK, NoRefresh, RefreshOK, NoTokens, MemOK, Used, Announced, Batch
<1>3. DiskOK(EmptyDisk)
  BY NoLogin DEF EmptyDisk, DiskOK, Used, Announced
<1>4. TypeOK
  <2>1. session \in [Sids -> Session] /\ row \in [Sids -> {"NONE", "OPEN", "ENDED", "EXPIRED", "REVOKED"}]
    BY DEF Init, Session
  <2>2. /\ lapsed = {} /\ told = {} /\ disk = EmptyDisk /\ leaving = {} /\ mix \in Mixes
        /\ mem = [t \in Tabs |-> m] /\ shown = [t \in Tabs |-> Nobody] /\ menu = [t \in Tabs |-> "menu"]
        /\ call = [t \in Tabs |-> [s \in Slots |-> c]] /\ refresh = [t \in Tabs |-> [p \in Pages |-> f]]
        /\ revoker = [pc |-> "idle", sid |-> NoSid]
    BY DEF Init
  <2> QED BY <1>1, <2>1, <2>2, SidFacts DEF TypeOK
<1>5. ASSUME NEW t \in Tabs
      PROVE  /\ MemOK(mem[t]) /\ Fits(shown[t], mem[t], call[t], t \in leaving)
             /\ \A s \in Slots : CallOK(call[t][s])
             /\ \A p \in Pages : RefreshOK(refresh[t][p])
  <2>1. /\ mem[t] = m /\ shown[t] = Nobody /\ \A s \in Slots : call[t][s] = c
        /\ \A p \in Pages : refresh[t][p] = f
    BY DEF Init
  <2> QED BY <1>2, <2>1 DEF Fits
<1>6. DiskOK(disk)
  BY <1>3 DEF Init
<1> QED BY <1>4, <1>5, <1>6 DEF Sound

LEMMA SoundStep == Sound /\ [Next]_vars => Sound'
<1> SUFFICES ASSUME Sound, [Next]_vars PROVE Sound'
  OBVIOUS
<1>1. CASE UNCHANGED vars
  BY <1>1 DEF vars, server, client, Sound, TypeOK, DiskOK, MemOK, CallOK, RefreshOK, Fits, Used, Announced, LoginToken, Batch
<1>2. ASSUME NEW t \in Tabs, Login(t) \/ Reload(t)
      PROVE  Sound'
  BY <1>2, LoginSound, ReloadSound
<1>3. ASSUME NEW t \in Tabs, NEW s \in Slots, BannerEnds(t, s) \/ \E kind \in mix : Send(t, s, kind)
      PROVE  Sound'
  BY <1>3, SendSound
<1>4. ASSUME NEW t \in Tabs, NEW s \in Slots, Serve(t, s)
      PROVE  Sound'
  <2>1. CASE Authenticate(t, s) \/ FindBatch(t, s)
    BY <2>1, AuthenticateSound
  <2>2. CASE Denied(t, s)
    BY <2>2, DeniedSound
  <2>3. CASE Answer(t, s)
    BY <2>3, AnswerSound
  <2>4. CASE Logout(t, s) \/ Fail(t, s)
    BY <2>4, FailSound
  <2>5. CASE RecordBatch(t, s) \/ TellOwner(t, s)
    BY <2>5, RecordSound
  <2>6. CASE EnterBatch(t, s)
    BY <2>6, EnterSound
  <2>7. CASE \E u \in Users \cup {Nobody} : OpenBatch(t, s, u)
    BY <2>7, OpenBatchSound
  <2>8. CASE CloseBatch(t, s) \/ DropBatch(t, s)
    BY <2>8, CloseSound
  <2>9. CASE LeaveBatch(t, s)
    BY <2>9, LeaveSound
  <2> QED BY <1>4, <2>1, <2>2, <2>3, <2>4, <2>5, <2>6, <2>7, <2>8, <2>9 DEF Serve
<1>5. ASSUME NEW t \in Tabs, NEW p \in Pages, FindSession(t, p) \/ DropOld(t, p) \/ Rotate(t, p) \/ RefreshFails(t, p)
      PROVE  Sound'
  BY <1>5, FindSessionSound, RotateSound, RefreshFailsSound
<1>6. CASE Revoke \/ DropRevoked \/ RevokeFails \/ \E i \in Sids : FindOpen(i) \/ Lapse(i) \/ Elapse(i)
  BY <1>6, OutsideSound
<1> QED BY <1>1, <1>2, <1>3, <1>4, <1>5, <1>6 DEF Next

LEMMA SoundAlways == Spec => []Sound
<1>1. Init => Sound
  BY InitSound
<1>2. Sound /\ [Next]_vars => Sound'
  BY SoundStep
<1> QED BY <1>1, <1>2, PTL DEF Spec

-----------------------------------------------------------------------------
(* Theorems                                                                *)

\* Sessions, tokens, calls and refreshes keep their types, however the calls of a page,
\* its refreshes, reloads and failures follow each other.
THEOREM ScreenTypes == Spec => []TypeOK
<1>1. Sound => TypeOK
  BY DEF Sound
<1> QED BY <1>1, SoundAlways, PTL

\* Whatever calls, refreshes and second ends of a quick session run beside each other, a
\* page that sends a quick session's token, and is not about to be reloaded, shows that
\* session's user or nobody yet.
THEOREM ColleagueIsShownAlways == Spec => []ColleagueIsShown
<1>1. Sound => ColleagueIsShown
  <2> SUFFICES ASSUME Sound, NEW t \in Tabs \ leaving, mem[t].access # NoSid, session[mem[t].access].batch
               PROVE  shown[t] \in {Nobody, session[mem[t].access].user}
    BY DEF ColleagueIsShown
  <2>1. Fits(shown[t], mem[t], call[t], t \in leaving)
    BY TabFacts
  <2> QED BY <2>1 DEF Fits, Batch
<1> QED BY <1>1, SoundAlways, PTL

\* No access token a browser keeps, in use or parked, is of a quick session whose row is
\* not stored or whose owner has not been told, whatever failed on the way.
THEOREM BatchTokenIsAnnouncedAlways == Spec => []BatchTokenIsAnnounced
<1>1. Sound => BatchTokenIsAnnounced
  <2> SUFFICES ASSUME Sound, NEW i \in {disk.access, disk.batch, disk.keptAccess} \cup {mem[t].access : t \in Tabs},
                      i # NoSid, session[i].batch
               PROVE  row[i] # "NONE" /\ i \in told
    BY DEF BatchTokenIsAnnounced
  <2>1. CASE i \in {disk.access, disk.batch, disk.keptAccess}
    BY <2>1 DEF Sound, DiskOK, Announced
  <2>2. ASSUME NEW t \in Tabs, i = mem[t].access
        PROVE  row[i] # "NONE" /\ i \in told
    BY <2>2 DEF Sound, MemOK, Announced
  <2> QED BY <2>1, <2>2
<1> QED BY <1>1, SoundAlways, PTL

-----------------------------------------------------------------------------
(* The parked login, with one tab and no logout beside the start of a      *)
(* quick session                                                           *)

OneTab == \E t : Tabs = {t}
NoLogoutBesideStart == \A m \in Mixes : "START" \in m => "LOGOUT" \notin m

\* While a quick session is being started there is none, and the menu shows it and admits
\* no second start.
Starting(c) == c.kind = "START" /\ c.pc # "idle" /\ ~c.lost
Parks ==
  \A t \in Tabs :
    /\ menu[t] = "menu" => ~InBatchMode
    /\ \A s \in Slots : Starting(call[t][s]) => ~InBatchMode /\ menu[t] = "busy" /\ shown[t] # Nobody
    /\ \A s, q \in Slots : Starting(call[t][s]) /\ Starting(call[t][q]) => s = q

\* A step that begins no quick session, and no start of one.
Calm(t) ==
  /\ disk'.batch # NoSid => disk.batch # NoSid
  /\ \A s \in Slots : Starting(call'[t][s]) => Starting(call[t][s]) /\ menu'[t] = menu[t] /\ shown'[t] # Nobody
  /\ menu'[t] = "menu" => menu[t] = "menu" \/ disk.batch = NoSid

LEMMA CalmParks ==
  ASSUME Parks, OneTab, NEW t \in Tabs, Calm(t)
  PROVE  Parks'
<1> SUFFICES ASSUME NEW z \in Tabs
             PROVE  (/\ menu[z] = "menu" => ~InBatchMode
                     /\ \A s \in Slots : Starting(call[z][s]) => ~InBatchMode /\ menu[z] = "busy" /\ shown[z] # Nobody
                     /\ \A s, q \in Slots : Starting(call[z][s]) /\ Starting(call[z][q]) => s = q)'
  BY DEF Parks
<1>1. z = t
  BY DEF OneTab
<1>2. /\ menu[t] = "menu" => disk.batch = NoSid
      /\ \A s \in Slots : Starting(call[t][s]) => disk.batch = NoSid /\ menu[t] = "busy" /\ shown[t] # Nobody
      /\ \A s, q \in Slots : Starting(call[t][s]) /\ Starting(call[t][q]) => s = q
  BY DEF Parks, InBatchMode
<1>3. /\ menu'[t] = "menu" => disk'.batch = NoSid
      /\ \A s \in Slots : Starting(call'[t][s]) => disk'.batch = NoSid /\ menu'[t] = "busy" /\ shown'[t] # Nobody
      /\ \A s, q \in Slots : Starting(call'[t][s]) /\ Starting(call'[t][q]) => s = q
  BY <1>2 DEF Calm
<1> QED BY <1>1, <1>3 DEF InBatchMode, Starting

\* One call becomes another that is no start, or stays the start it was.
LEMMA SlotFacts ==
  ASSUME TypeOK, NEW t \in Tabs, NEW s \in Slots, NEW e, Step(t, s, e)
  PROVE  \A x \in Slots : call'[t][x] = IF x = s THEN e ELSE call[t][x]
BY DEF Step, TypeOK

LEMMA CalmCall ==
  ASSUME Sound, Parks, NEW t \in Tabs, NEW s \in Slots, NEW e, Step(t, s, e), Starting(e) => Starting(call[t][s]),
         UNCHANGED client
  PROVE  Calm(t)
<1>1. \A x \in Slots : call'[t][x] = IF x = s THEN e ELSE call[t][x]
  BY SlotFacts DEF Sound
<1>2. disk' = disk /\ menu' = menu /\ shown' = shown
  BY DEF client
<1> QED BY <1>1, <1>2 DEF Calm, Parks

LEMMA NoStart == ~Starting(NoCall)
BY CallFacts DEF Starting

\* A page's first call, and a logout, are not beside a start.
LEMMA AloneFacts ==
  ASSUME Sound, Parks, NoLogoutBesideStart, NEW t \in Tabs, NEW s \in Slots,
         Loads(call[t][s]) \/ "LOGOUT" \in {call[t][s].kind, call[t][s].for}
  PROVE  \A x \in Slots : ~Starting(call[t][x])
<1>1. ASSUME NEW x \in Slots, Starting(call[t][x])
      PROVE  FALSE
  <2>1. CallOK(call[t][x]) /\ CallOK(call[t][s]) /\ Fits(shown[t], mem[t], call[t], t \in leaving) /\ mix \in Mixes
    BY TabFacts DEF TypeOK
  <2>2. shown[t] # Nobody
    BY <1>1 DEF Parks
  <2>3. ~Loads(call[t][s])
    BY <2>1, <2>2 DEF Fits
  <2>4. "START" \in mix
    BY <1>1, <2>1 DEF CallOK, Starting
  <2>5. "LOGOUT" \in mix
    BY <2>1, <2>3 DEF CallOK
  <2> QED BY <2>1, <2>4, <2>5 DEF NoLogoutBesideStart
<1> QED BY <1>1

LEMMA CalmGiveUp ==
  ASSUME Sound, Parks, NoLogoutBesideStart, NEW t \in Tabs, NEW s \in Slots, call[t][s].pc # "idle", GiveUp(t, s)
  PROVE  Calm(t)
<1> PICK c : c = call[t][s]
  OBVIOUS
<1>1. TypeOK /\ c \in Call
  BY TabFacts
<1>2. leaving' = leaving
  BY DEF GiveUp
<1>3. CASE c.lost
  <2>1. Step(t, s, NoCall) /\ UNCHANGED client
    BY <1>2, <1>3 DEF GiveUp, client
  <2> QED BY <2>1, NoStart, CalmCall
<1>4. CASE ~c.lost /\ c.kind = "END"
  <2>1. Step(t, s, Ending(c)) /\ UNCHANGED client
    BY <1>2, <1>4 DEF GiveUp, client, SignsOut
  <2>2. ~Starting(Ending(c))
    BY <1>1, <1>4 DEF Ending, Starting, Call
  <2> QED BY <2>1, <2>2, CalmCall
<1>5. CASE ~c.lost /\ SignsOut(c)
  <2>1. SetTokens(t, NoSid) /\ Step(t, s, NoCall) /\ menu' = menu
    BY <1>5 DEF GiveUp, SignsOut
  <2>2. Loads(c) \/ "LOGOUT" \in {c.kind, c.for}
    BY <1>5 DEF Loads, SignsOut
  <2>3. \A x \in Slots : ~Starting(call[t][x])
    BY <2>2, AloneFacts
  <2>4. \A x \in Slots : call'[t][x] = IF x = s THEN NoCall ELSE call[t][x]
    BY <1>1, <2>1, SlotFacts
  <2>5. disk'.batch = disk.batch
    BY <1>1, <2>1 DEF SetTokens, TypeOK, Disk
  <2> QED BY <2>1, <2>3, <2>4, <2>5, NoStart DEF Calm
<1>6. CASE ~c.lost /\ c.kind # "END" /\ ~SignsOut(c)
  <2>1. Step(t, s, NoCall) /\ Usable(t, c) /\ UNCHANGED <<disk, shown>>
    BY <1>6 DEF GiveUp
  <2>2. \A x \in Slots : call'[t][x] = IF x = s THEN NoCall ELSE call[t][x]
    BY <1>1, <2>1, SlotFacts
  <2>3. menu'[t] = IF c.kind = "START" /\ menu[t] = "busy" THEN "menu" ELSE menu[t]
    BY <1>1, <2>1 DEF Usable, TypeOK
  <2>4. c.kind = "START" => Starting(c)
    BY <1>6 DEF Starting
  <2>5. CASE c.kind = "START"
    <3>1. disk.batch = NoSid /\ \A x \in Slots : Starting(call[t][x]) => x = s
      BY <2>4, <2>5 DEF Parks, InBatchMode
    <3> QED BY <2>1, <2>2, <3>1, NoStart DEF Calm
  <2>6. CASE c.kind # "START"
    BY <2>1, <2>2, <2>3, <2>6, NoStart DEF Calm, Parks
  <2> QED BY <2>5, <2>6
<1> QED BY <1>3, <1>4, <1>5, <1>6

LEMMA CalmServe ==
  ASSUME Sound, Parks, NoLogoutBesideStart, NEW t \in Tabs, NEW s \in Slots, Serve(t, s), ~EnterBatch(t, s)
  PROVE  Calm(t)
<1> PICK c : c = call[t][s]
  OBVIOUS
<1>1. TypeOK /\ c \in Call /\ CallOK(c)
  BY TabFacts
<1>2. ASSUME NEW pc \in Pcs, c.pc # "idle", Step(t, s, [c EXCEPT !.pc = pc]), UNCHANGED client
      PROVE  Calm(t)
  <2> PICK e : e = [c EXCEPT !.pc = pc]
    OBVIOUS
  <2>1. e.kind = c.kind /\ e.lost = c.lost
    BY <1>1, PcFacts
  <2>2. Starting(e) => Starting(c)
    BY <1>2, <2>1 DEF Starting
  <2> QED BY <1>2, <2>2, CalmCall
<1>3. ASSUME Step(t, s, NoCall), UNCHANGED client
      PROVE  Calm(t)
  BY <1>3, NoStart, CalmCall
<1>4. ASSUME c.pc # "idle", Step(t, s, Ending(c)), UNCHANGED client
      PROVE  Calm(t)
  BY <1>2, <1>3, <1>4 DEF Ending, Pcs
<1>5. CASE Authenticate(t, s)
  <2>1. UNCHANGED client /\ c.pc # "idle"
    BY <1>5 DEF Authenticate, At
  <2>2. Step(t, s, [c EXCEPT !.pc = "served"]) \/ Step(t, s, Ending(c)) \/ Step(t, s, NoCall) \/ Step(t, s, [c EXCEPT !.pc = "denied"])
    BY <1>5 DEF Authenticate
  <2> QED BY <1>2, <1>3, <1>4, <2>1, <2>2 DEF Pcs
<1>6. CASE Denied(t, s)
  <2>1. c.pc = "denied"
    BY <1>6 DEF Denied, At
  <2>2. CASE GiveUp(t, s)
    BY <2>1, <2>2, CalmGiveUp
  <2>3. CASE Step(t, s, [c EXCEPT !.pc = "waiting"]) /\ UNCHANGED client
    BY <1>2, <2>1, <2>3 DEF Pcs
  <2>4. CASE /\ Step(t, s, [Sent("END", mem[t].access) EXCEPT
                              !.for = IF c.kind \in {"LOAD", "LOGOUT"} THEN c.kind ELSE "END", !.who = c.who])
             /\ UNCHANGED client
    <3> PICK e, x, k : /\ x = Sent("END", mem[t].access) /\ k = (IF c.kind \in {"LOAD", "LOGOUT"} THEN c.kind ELSE "END")
                       /\ e = [x EXCEPT !.for = k, !.who = c.who]
      OBVIOUS
    <3>1. x \in Call /\ x.kind = "END"
      BY TabFacts, CallFacts DEF Tokens, Kinds
    <3>2. ~Starting(e)
      BY <3>1 DEF Starting, Call
    <3>3. Step(t, s, e)
      BY <2>4
    <3> QED BY <2>4, <3>2, <3>3, CalmCall
  <2> QED BY <1>6, <2>2, <2>3, <2>4 DEF Denied, AskRefresh
<1>7. CASE Answer(t, s)
  <2>1. c.pc = "served" /\ c.kind \in {"WORK", "LOAD"} /\ Step(t, s, NoCall) /\ UNCHANGED <<disk, mem, leaving>>
    BY <1>7 DEF Answer, At
  <2>2. CASE c.kind = "LOAD"
    <3>1. Loads(c)
      BY <1>1, <2>1, <2>2 DEF Loads, CallOK
    <3>2. \A x \in Slots : ~Starting(call[t][x])
      BY <3>1, AloneFacts
    <3>3. \A x \in Slots : call'[t][x] = IF x = s THEN NoCall ELSE call[t][x]
      BY <1>1, <2>1, SlotFacts
    <3>4. menu'[t] = Drawn(disk)
      BY <1>1, <1>7, <2>2 DEF Answer, Draw, TypeOK
    <3> QED BY <2>1, <3>2, <3>3, <3>4, NoStart DEF Calm, Drawn
  <2>3. CASE c.kind # "LOAD"
    <3>1. UNCHANGED client
      BY <1>7, <2>1, <2>3 DEF Answer, client
    <3> QED BY <1>3, <2>1, <3>1
  <2> QED BY <2>2, <2>3
<1>8. CASE Logout(t, s) \/ Fail(t, s)
  BY <1>8, CalmGiveUp DEF Logout, Fail, At
<1>9. CASE RecordBatch(t, s) \/ TellOwner(t, s) \/ FindBatch(t, s) \/ CloseBatch(t, s) \/ DropBatch(t, s)
  <2>1. UNCHANGED client /\ c.pc # "idle"
    BY <1>9 DEF RecordBatch, TellOwner, FindBatch, CloseBatch, DropBatch, At
  <2>2. \/ Step(t, s, [c EXCEPT !.pc = "telling"]) \/ Step(t, s, [c EXCEPT !.pc = "closing"])
        \/ Step(t, s, [c EXCEPT !.pc = "dropping"]) \/ Step(t, s, Ending(c))
    BY <1>9 DEF RecordBatch, TellOwner, FindBatch, CloseBatch, DropBatch
  <2> QED BY <1>2, <1>4, <2>1, <2>2 DEF Pcs
<1>10. ASSUME NEW u \in Users \cup {Nobody}, OpenBatch(t, s, u)
       PROVE  Calm(t)
  <2>1. c.pc = "served" /\ c.kind = "START"
    BY <1>10 DEF OpenBatch, At
  <2>2. CASE GiveUp(t, s)
    BY <2>1, <2>2, CalmGiveUp
  <2>3. CASE (Step(t, s, NoCall) \/ Step(t, s, [c EXCEPT !.pc = "denied"])) /\ UNCHANGED client
    BY <1>2, <1>3, <2>1, <2>3 DEF Pcs
  <2>4. ASSUME NEW i \in Sids, Step(t, s, [c EXCEPT !.pc = "recording", !.sid = i]), UNCHANGED client
        PROVE  Calm(t)
    <3> PICK e : e = [c EXCEPT !.pc = "recording", !.sid = i]
      OBVIOUS
    <3>1. e.kind = c.kind /\ e.lost = c.lost
      BY <1>1 DEF Call
    <3>2. Starting(e) => Starting(c)
      BY <2>1, <3>1 DEF Starting
    <3> QED BY <2>4, <3>2, CalmCall
  <2>5. \/ GiveUp(t, s)
        \/ (Step(t, s, NoCall) \/ Step(t, s, [c EXCEPT !.pc = "denied"])) /\ UNCHANGED client
        \/ \E i \in Sids : Step(t, s, [c EXCEPT !.pc = "recording", !.sid = i]) /\ UNCHANGED client
    BY <1>10 DEF OpenBatch
  <2> QED BY <2>2, <2>3, <2>4, <2>5
<1>11. CASE LeaveBatch(t, s)
  <2>1. /\ c.pc = "answering" /\ c.kind = "END" /\ menu' = menu
        /\ shown' = IF Forgets(c) THEN [shown EXCEPT ![t] = Nobody] ELSE shown
    BY <1>11 DEF LeaveBatch, At
  <2>2. disk'.batch = NoSid
    BY <1>11 DEF LeaveBatch, EmptyDisk, Restored
  <2> PICK e : e \in {[NoCall EXCEPT !.pc = "waiting", !.kind = "LOAD"], NoCall} /\ Step(t, s, e)
    BY <1>11 DEF LeaveBatch
  <2>3. ~Starting(e)
    <3>1. NoCall.kind = "WORK" /\ [NoCall EXCEPT !.pc = "waiting", !.kind = "LOAD"].kind = "LOAD"
      BY DEF NoCall
    <3> QED BY <3>1 DEF Starting
  <2>4. \A x \in Slots : call'[t][x] = IF x = s THEN e ELSE call[t][x]
    BY <1>1, SlotFacts
  <2>5. CASE Forgets(c)
    <3>1. Loads(c) \/ "LOGOUT" \in {c.kind, c.for}
      BY <1>1, <2>1, <2>5 DEF Forgets, Loads, CallOK
    <3>2. \A x \in Slots : ~Starting(call[t][x])
      BY <3>1, AloneFacts
    <3> QED BY <2>1, <2>2, <2>3, <2>4, <3>2 DEF Calm
  <2>6. CASE ~Forgets(c)
    BY <2>1, <2>2, <2>3, <2>4, <2>6 DEF Calm, Parks
  <2> QED BY <2>5, <2>6
<1> QED BY <1>5, <1>6, <1>7, <1>8, <1>9, <1>10, <1>11 DEF Serve

LEMMA CalmRefresh ==
  ASSUME Sound, Parks, NoLogoutBesideStart, NEW t \in Tabs, NEW p \in Pages,
         FindSession(t, p) \/ DropOld(t, p) \/ Rotate(t, p) \/ RefreshFails(t, p)
  PROVE  Calm(t)
<1>1. TypeOK
  BY DEF Sound
<1>2. CASE UNCHANGED <<client, call>>
  BY <1>2 DEF Calm, Parks, client
<1>3. CASE Rotate(t, p) /\ p # "left"
  <2> PICK i \in Sids :
         /\ SetTokens(t, i) /\ Resent(t, i)
         /\ IF \E s \in Slots : Waiting(t, s) /\ Opening(call[t][s])
            THEN Show(t, session[refresh[t][p].token].user) /\ Draw(t) ELSE UNCHANGED <<shown, menu>>
    BY <1>3 DEF Rotate
  <2>1. disk'.batch = disk.batch
    BY <1>1 DEF SetTokens, TypeOK, Disk
  <2>2. \A s \in Slots : Starting(call'[t][s]) => Starting(call[t][s])
    <3> SUFFICES ASSUME NEW s \in Slots, Starting(call'[t][s]) PROVE Starting(call[t][s])
      OBVIOUS
    <3> PICK c, e : c = call[t][s] /\ e = [c EXCEPT !.pc = "sent", !.token = i, !.again = TRUE]
      OBVIOUS
    <3>1. c \in Call /\ (Waiting(t, s) <=> c.pc = "waiting")
      BY TabFacts DEF Waiting, At
    <3>2. e.kind = c.kind /\ e.lost = c.lost
      BY <3>1 DEF Call
    <3>3. call'[t][s] = CASE ~Waiting(t, s) -> c
                          [] Waiting(t, s) /\ Opening(c) -> NoCall
                          [] Waiting(t, s) /\ ~Opening(c) -> e
      BY <1>1 DEF Resent, TypeOK
    <3>4. call'[t][s] \in {c, NoCall} \/ (call'[t][s] = e /\ c.pc = "waiting")
      BY <3>1, <3>3
    <3>5. CASE call'[t][s] = e /\ c.pc = "waiting"
      BY <3>2, <3>5 DEF Starting
    <3> QED BY <3>4, <3>5, NoStart
  <2>3. CASE \E s \in Slots : Waiting(t, s) /\ Opening(call[t][s])
    <3> PICK s \in Slots : Waiting(t, s) /\ Opening(call[t][s])
      BY <2>3
    <3>1. Loads(call[t][s])
      BY TabFacts DEF Waiting, At, Opening, CallOK, Loads
    <3>2. \A x \in Slots : ~Starting(call[t][x])
      BY <3>1, AloneFacts
    <3>3. menu'[t] = Drawn(disk)
      BY <1>1, <2>3 DEF Draw, TypeOK
    <3> QED BY <2>1, <2>2, <3>2, <3>3 DEF Calm, Drawn
  <2>4. CASE ~\E s \in Slots : Waiting(t, s) /\ Opening(call[t][s])
    <3>1. menu' = menu /\ shown' = shown
      BY <2>4
    <3> QED BY <2>1, <2>2, <3>1 DEF Calm, Parks
  <2> QED BY <2>3, <2>4
<1>4. CASE RefreshFails(t, p) /\ p # "left"
  <2> PICK signsOut \in BOOLEAN : signsOut <=> \E s \in Slots : Waiting(t, s) /\ SignsOut(call[t][s])
    OBVIOUS
  <2>1. /\ SetTokens(t, NoSid) \/ UNCHANGED <<disk, mem>>
        /\ shown' = (IF signsOut THEN [shown EXCEPT ![t] = Nobody] ELSE shown)
        /\ menu' = (IF menu[t] = "busy" /\ \E s \in Slots : Waiting(t, s) /\ call[t][s].kind = "START"
                    THEN [menu EXCEPT ![t] = "menu"] ELSE menu)
        /\ call' = [call EXCEPT ![t] = [s \in Slots |-> IF Waiting(t, s) THEN NoCall ELSE call[t][s]]]
    BY <1>4 DEF RefreshFails
  <2>2. disk'.batch = disk.batch
    BY <1>1, <2>1 DEF SetTokens, TypeOK, Disk
  <2>3. \A s \in Slots : call'[t][s] = IF Waiting(t, s) THEN NoCall ELSE call[t][s]
    BY <1>1, <2>1 DEF TypeOK
  <2>4. CASE signsOut
    <3> PICK s \in Slots : Waiting(t, s) /\ SignsOut(call[t][s])
      BY <2>4
    <3>1. Loads(call[t][s]) \/ "LOGOUT" \in {call[t][s].kind, call[t][s].for}
      BY TabFacts DEF Waiting, At, SignsOut, CallOK, Loads
    <3>2. \A x \in Slots : ~Starting(call[t][x])
      BY <3>1, AloneFacts
    <3>3. \A x \in Slots : Waiting(t, x) => call[t][x].kind # "START"
      BY <3>2, TabFacts DEF Waiting, At, Starting, CallOK
    <3>4. menu' = menu
      BY <2>1, <3>3
    <3> QED BY <2>2, <2>3, <3>2, <3>4, NoStart DEF Calm
  <2>5. CASE ~signsOut
    <3>1. shown' = shown
      BY <2>1, <2>5
    <3>2. CASE \E s \in Slots : Waiting(t, s) /\ call[t][s].kind = "START"
      <4> PICK s \in Slots : Waiting(t, s) /\ call[t][s].kind = "START"
        BY <3>2
      <4>1. Starting(call[t][s])
        BY TabFacts DEF Waiting, At, Starting, CallOK
      <4>2. disk.batch = NoSid /\ \A x \in Slots : Starting(call[t][x]) => x = s
        BY <4>1 DEF Parks, InBatchMode
      <4> QED BY <2>2, <2>3, <4>2, NoStart DEF Calm
    <3>3. CASE ~\E s \in Slots : Waiting(t, s) /\ call[t][s].kind = "START"
      <4>1. menu' = menu
        BY <2>1, <3>3
      <4> QED BY <2>2, <2>3, <3>1, <4>1, NoStart DEF Calm, Parks
    <3> QED BY <3>2, <3>3
  <2> QED BY <2>4, <2>5
<1> QED BY <1>2, <1>3, <1>4 DEF FindSession, DropOld, Rotate, RefreshFails

LEMMA CalmPage ==
  ASSUME Sound, Parks, NEW t \in Tabs, Login(t) \/ Reload(t)
  PROVE  Calm(t)
<1>1. TypeOK
  BY DEF Sound
<1>2. CASE Login(t)
  <2>1. shown[t] = Nobody /\ call' = call
    BY <1>2 DEF Login
  <2>2. disk'.batch = disk.batch
    BY <1>1, <1>2 DEF Login, SetTokens, TypeOK, Disk
  <2>3. menu'[t] = Drawn(disk)
    BY <1>1, <1>2 DEF Login, Draw, TypeOK
  <2> QED BY <2>1, <2>2, <2>3 DEF Calm, Parks, Drawn
<1>3. CASE Reload(t)
  <2> PICK z \in Slots : call' = [call EXCEPT ![t] = [x \in Slots |-> IF x = z THEN FirstCall(disk) ELSE Orphaned(call[t][x])]]
    BY <1>3 DEF Reload, LoadPage
  <2>1. \A x \in Slots : ~Starting(call'[t][x])
    <3> SUFFICES ASSUME NEW x \in Slots PROVE ~Starting(call'[t][x])
      OBVIOUS
    <3> PICK c, y, e : c = FirstCall(disk) /\ y = call[t][x] /\ e = Orphaned(y)
      OBVIOUS
    <3>1. c.kind # "START"
      BY <1>1, TabFacts, FirstCallFacts
    <3>2. e = NoCall \/ e.lost
      <4>1. y \in Call
        BY TabFacts
      <4> QED BY <4>1 DEF Orphaned, Call
    <3>3. call'[t][x] = IF x = z THEN c ELSE e
      BY <1>1 DEF TypeOK
    <3> QED BY <3>1, <3>2, <3>3, NoStart DEF Starting
  <2>2. menu'[t] = Drawn(disk) /\ disk' = disk
    BY <1>1, <1>3 DEF Reload, LoadPage, Draw, TypeOK
  <2> QED BY <2>1, <2>2 DEF Calm, Drawn
<1> QED BY <1>2, <1>3

LEMMA ParksStep ==
  ASSUME Sound, Parks, OneTab, NoLogoutBesideStart, [Next]_vars
  PROVE  Parks'
<1>1. TypeOK
  BY DEF Sound
<1>2. CASE UNCHANGED <<disk, menu, shown, call>>
  BY <1>2 DEF Parks, InBatchMode
<1>3. ASSUME NEW t \in Tabs, Login(t) \/ Reload(t)
      PROVE  Parks'
  BY <1>3, CalmPage, CalmParks
<1>4. ASSUME NEW t \in Tabs, NEW s \in Slots, Serve(t, s)
      PROVE  Parks'
  <2>1. CASE ~EnterBatch(t, s)
    BY <1>4, <2>1, CalmServe, CalmParks
  <2>2. CASE EnterBatch(t, s)
    <3>1. At(t, s, "answering") /\ call[t][s].kind = "START" /\ Step(t, s, NoCall) /\ menu' = menu
      BY <2>2 DEF EnterBatch
    <3>2. Starting(call[t][s])
      BY <3>1, TabFacts DEF Starting, CallOK, At
    <3>3. menu[t] = "busy" /\ \A x \in Slots : Starting(call[t][x]) => x = s
      BY <3>2 DEF Parks
    <3>4. \A x \in Slots : ~Starting(call'[t][x])
      BY <1>1, <3>1, <3>3, SlotFacts, NoStart
    <3> SUFFICES ASSUME NEW z \in Tabs
                 PROVE  (/\ menu[z] = "menu" => ~InBatchMode
                         /\ \A x \in Slots : Starting(call[z][x]) => ~InBatchMode /\ menu[z] = "busy" /\ shown[z] # Nobody
                         /\ \A x, q \in Slots : Starting(call[z][x]) /\ Starting(call[z][q]) => x = q)'
      BY DEF Parks
    <3>5. z = t
      BY DEF OneTab
    <3>6. menu'[t] # "menu"
      BY <3>1, <3>3
    <3> QED BY <3>4, <3>5, <3>6 DEF Starting
  <2> QED BY <2>1, <2>2
<1>5. ASSUME NEW t \in Tabs, NEW p \in Pages, FindSession(t, p) \/ DropOld(t, p) \/ Rotate(t, p) \/ RefreshFails(t, p)
      PROVE  Parks'
  BY <1>5, CalmRefresh, CalmParks
<1>6. ASSUME NEW t \in Tabs, NEW s \in Slots, BannerEnds(t, s) \/ \E kind \in mix : Send(t, s, kind)
      PROVE  Parks'
  <2> PICK kind \in Kinds : /\ Step(t, s, Sent(kind, mem[t].access))
                            /\ menu' = IF kind = "START" THEN [menu EXCEPT ![t] = "busy"] ELSE menu
                            /\ kind = "START" => menu[t] = "menu" \/ (menu[t] = "banner" /\ ~InBatchMode)
                            /\ kind = "START" => shown[t] # Nobody
    BY <1>1, <1>6, ScreenAssumption DEF BannerEnds, Send, Offered, TypeOK, Kinds, client
  <2>1. UNCHANGED <<disk, shown>>
    BY <1>6 DEF BannerEnds, Send, client
  <2> PICK e : e = Sent(kind, mem[t].access)
    OBVIOUS
  <2>2. e.kind = kind
    BY TabFacts, CallFacts DEF Tokens
  <2>3. \A x \in Slots : call'[t][x] = IF x = s THEN e ELSE call[t][x]
    BY <1>1, SlotFacts
  <2>4. CASE kind # "START"
    <3>1. ~Starting(e)
      BY <2>2, <2>4 DEF Starting
    <3>2. Calm(t)
      BY <2>1, <2>3, <2>4, <3>1 DEF Calm, Parks
    <3> QED BY <3>2, CalmParks
  <2>5. CASE kind = "START"
    <3>1. menu'[t] = "busy" /\ ~InBatchMode /\ menu[t] # "busy" /\ shown[t] # Nobody
      BY <1>1, <2>5 DEF TypeOK, Parks
    <3>2. \A x \in Slots : Starting(call'[t][x]) => x = s
      BY <2>3, <3>1 DEF Parks
    <3>3. disk'.batch = NoSid /\ shown'[t] # Nobody
      BY <2>1, <3>1 DEF InBatchMode
    <3> SUFFICES ASSUME NEW z \in Tabs
                 PROVE  (/\ menu[z] = "menu" => ~InBatchMode
                         /\ \A x \in Slots : Starting(call[z][x]) => ~InBatchMode /\ menu[z] = "busy" /\ shown[z] # Nobody
                         /\ \A x, q \in Slots : Starting(call[z][x]) /\ Starting(call[z][q]) => x = q)'
      BY DEF Parks
    <3>4. z = t
      BY DEF OneTab
    <3> QED BY <3>1, <3>2, <3>3, <3>4 DEF InBatchMode, Starting
  <2> QED BY <2>4, <2>5
<1>7. CASE Revoke \/ DropRevoked \/ RevokeFails \/ \E i \in Sids : FindOpen(i) \/ Lapse(i) \/ Elapse(i)
  <2>1. UNCHANGED <<disk, menu, shown, call>>
    BY <1>7, OutsideSound DEF client
  <2> QED BY <1>2, <2>1
<1>8. CASE UNCHANGED vars
  <2>1. UNCHANGED <<disk, menu, shown, call>>
    BY <1>8 DEF vars, client
  <2> QED BY <1>2, <2>1
<1> QED BY <1>3, <1>4, <1>5, <1>6, <1>7, <1>8 DEF Next

\* One step of OriginalLoginReturns.
Returns ==
  /\ InBatchMode' /\ ~InBatchMode =>
       disk'.keptAccess = disk.access /\ disk'.keptRefresh = disk.refresh
  /\ InBatchMode' /\ InBatchMode =>
       disk'.batch = disk.batch /\ disk'.keptAccess = disk.keptAccess /\ disk'.keptRefresh = disk.keptRefresh
  /\ ~InBatchMode' /\ InBatchMode =>
       IF \E t \in Tabs, s \in Slots : Forgets(call[t][s]) /\ call'[t][s] = NoCall
       THEN disk'.access = NoSid /\ disk'.refresh = NoSid
       ELSE disk'.access = disk.keptAccess /\ disk'.refresh = disk.keptRefresh

LEMMA ReturnsStep ==
  ASSUME Sound, Parks, [Next]_vars
  PROVE  Returns
<1>1. TypeOK /\ disk \in Disk
  BY DEF Sound, TypeOK
<1>2. ASSUME disk'.batch = disk.batch, disk'.keptAccess = disk.keptAccess, disk'.keptRefresh = disk.keptRefresh
      PROVE  Returns
  BY <1>2 DEF Returns, InBatchMode
<1>3. ASSUME NEW t \in Tabs, NEW i, SetTokens(t, i)
      PROVE  Returns
  BY <1>1, <1>2, <1>3 DEF SetTokens, Disk
<1>4. ASSUME NEW t \in Tabs, NEW s \in Slots, GiveUp(t, s)
      PROVE  Returns
  BY <1>2, <1>3, <1>4 DEF GiveUp
<1>5. CASE UNCHANGED disk
  BY <1>2, <1>5
<1>6. ASSUME NEW t \in Tabs, NEW s \in Slots, EnterBatch(t, s)
      PROVE  Returns
  <2>1. Starting(call[t][s])
    BY <1>6, TabFacts DEF EnterBatch, Starting, CallOK, At
  <2>2. ~InBatchMode
    BY <2>1 DEF Parks
  <2>3. disk'.keptAccess = disk.access /\ disk'.keptRefresh = disk.refresh
    BY <1>6 DEF EnterBatch, Parked
  <2> QED BY <2>2, <2>3 DEF Returns
<1>7. ASSUME NEW t \in Tabs, NEW s \in Slots, LeaveBatch(t, s)
      PROVE  Returns
  <2> PICK c, d : c = call[t][s] /\ d = IF Forgets(c) THEN EmptyDisk ELSE Restored
    OBVIOUS
  <2>1. disk' = d
    BY <1>7 DEF LeaveBatch
  <2>2. d.batch = NoSid
    BY DEF EmptyDisk, Restored
  <2> PICK e : Step(t, s, e) /\ (Forgets(c) => e = NoCall)
    BY <1>7 DEF LeaveBatch, Forgets
  <2>3. \A x \in Slots : call'[t][x] = IF x = s THEN e ELSE call[t][x]
    BY <1>1, SlotFacts
  <2>4. \A z \in Tabs : z # t => call'[z] = call[z]
    BY <1>1 DEF Step, TypeOK
  <2>5. ~Forgets(NoCall)
    BY DEF Forgets, NoCall
  <2>6. CASE Forgets(c)
    <3>1. \E z \in Tabs, x \in Slots : Forgets(call[z][x]) /\ call'[z][x] = NoCall
      BY <2>3, <2>6
    <3>2. disk'.access = NoSid /\ disk'.refresh = NoSid
      BY <2>1, <2>6 DEF EmptyDisk
    <3> QED BY <2>1, <2>2, <3>1, <3>2 DEF Returns, InBatchMode
  <2>7. CASE ~Forgets(c)
    <3>1. ~\E z \in Tabs, x \in Slots : Forgets(call[z][x]) /\ call'[z][x] = NoCall
      <4> SUFFICES ASSUME NEW z \in Tabs, NEW x \in Slots, Forgets(call[z][x]), call'[z][x] = NoCall PROVE FALSE
        OBVIOUS
      <4>1. CASE z = t /\ x = s
        BY <2>7, <4>1
      <4>2. CASE ~(z = t /\ x = s)
        <5>1. call'[z][x] = call[z][x]
          BY <2>3, <2>4, <4>2
        <5> QED BY <2>5, <5>1
      <4> QED BY <4>1, <4>2
    <3>2. disk'.access = disk.keptAccess /\ disk'.refresh = disk.keptRefresh
      BY <2>1, <2>7 DEF Restored, EmptyDisk
    <3> QED BY <2>1, <2>2, <3>1, <3>2 DEF Returns, InBatchMode
  <2> QED BY <2>6, <2>7
<1>8. ASSUME NEW t \in Tabs, Login(t) \/ Reload(t)
      PROVE  Returns
  BY <1>3, <1>5, <1>8 DEF Login, Reload, LoadPage
<1>9. ASSUME NEW t \in Tabs, NEW s \in Slots, Serve(t, s)
      PROVE  Returns
  <2>1. CASE Denied(t, s) \/ Logout(t, s) \/ Fail(t, s)
    BY <1>4, <1>5, <2>1 DEF Denied, AskRefresh, Logout, Fail, client
  <2>2. CASE \E u \in Users \cup {Nobody} : OpenBatch(t, s, u)
    BY <1>4, <1>5, <2>2 DEF OpenBatch, client
  <2>3. CASE \/ Authenticate(t, s) \/ Answer(t, s) \/ RecordBatch(t, s) \/ TellOwner(t, s)
             \/ FindBatch(t, s) \/ CloseBatch(t, s) \/ DropBatch(t, s)
    BY <1>5, <2>3 DEF Authenticate, Answer, RecordBatch, TellOwner, FindBatch, CloseBatch, DropBatch, client
  <2> QED BY <1>6, <1>7, <1>9, <2>1, <2>2, <2>3 DEF Serve
<1>10. ASSUME NEW t \in Tabs, NEW p \in Pages, FindSession(t, p) \/ DropOld(t, p) \/ Rotate(t, p) \/ RefreshFails(t, p)
       PROVE  Returns
  BY <1>3, <1>5, <1>10 DEF FindSession, DropOld, Rotate, RefreshFails, client
<1>11. ASSUME NEW t \in Tabs, NEW s \in Slots, BannerEnds(t, s) \/ \E kind \in mix : Send(t, s, kind)
       PROVE  Returns
  BY <1>5, <1>11 DEF BannerEnds, Send, client
<1>12. CASE Revoke \/ DropRevoked \/ RevokeFails \/ \E i \in Sids : FindOpen(i) \/ Lapse(i) \/ Elapse(i)
  <2>1. UNCHANGED disk
    BY <1>12, OutsideSound DEF client
  <2> QED BY <1>5, <2>1
<1>13. CASE UNCHANGED vars
  BY <1>5, <1>13 DEF vars, client
<1> QED BY <1>8, <1>9, <1>10, <1>11, <1>12, <1>13 DEF Next

\* A quick session parks exactly the login the storage held, nothing touches it while the
\* session lasts, and the end puts exactly it back, or clears it for a page's first call or
\* a logout: in one tab, in which no logout runs beside a start.
THEOREM OriginalLoginReturnsAlways ==
  ASSUME OneTab, NoLogoutBesideStart
  PROVE  Spec => OriginalLoginReturns
<1>1. Init => Parks
  <2>1. ASSUME Init PROVE Parks
    BY <2>1, NoStart DEF Init, Parks, InBatchMode, EmptyDisk
  <2> QED BY <2>1
<1>2. Sound /\ Parks /\ [Next]_vars => Parks'
  BY ParksStep
<1>3. Sound /\ Parks /\ [Next]_vars => [Returns]_vars
  BY ReturnsStep
<1>4. Spec => [][Returns]_vars
  BY <1>1, <1>2, <1>3, SoundAlways, PTL DEF Spec
<1> QED BY <1>4 DEF OriginalLoginReturns, Returns
=============================================================================
