--------------------------- MODULE ScreenSessions ---------------------------
(***************************************************************************)
(* One browser and the sessions behind it: login, refresh rotation,        *)
(* logout, and the quick sessions in which a colleague works as himself on *)
(* this screen until his batch ID's window ends.                           *)
(*                                                                         *)
(* The tokens live twice on the client, in the memory of each tab and in   *)
(* the storage the tabs share; on the server a session is a cache entry,   *)
(* and a quick session also a row, written one after the other.  The calls *)
(* of a page run beside each other, share one refresh, and go on for a     *)
(* while on a page that has asked to be reloaded; when the next one loads, *)
(* the server goes on with what the old page no longer waits for.  An      *)
(* answer is handled when the server gives it, and the permissions asked   *)
(* for after a login or a refresh are part of that step.                   *)
(***************************************************************************)
EXTENDS Naturals

CONSTANTS
  Tabs,
  Home,        \* the user who logs in on this browser
  Colleagues,  \* those who may start a quick session on it
  Nobody,
  MaxSids,     \* bound: sessions ever created
  MaxCalls,    \* bound: calls of a tab at one time
  Mixes,       \* the sets of calls that are used together
  Unanswered   \* the calls that may fail on the way

Users == {Home} \cup Colleagues
Sids == 1..MaxSids  \* session ids, handed out in order; they stand for their tokens
NoSid == 0
Token == Sids \cup {NoSid}
Slots == 1..MaxCalls

Kinds == {"WORK", "LOAD", "LOGOUT", "START", "END"}

Session == [state: {"UNUSED", "LIVE", "GONE"}, user: Users \cup {Nobody}, batch: BOOLEAN]
Tokens == [access: Token, refresh: Token]
NoTokens == [access |-> NoSid, refresh |-> NoSid]

\* localStorage; `batch` is the quick session whose user and window are kept there.
Disk == [access: Token, refresh: Token, batch: Token, keptAccess: Token, keptRefresh: Token]
EmptyDisk == [access |-> NoSid, refresh |-> NoSid, batch |-> NoSid, keptAccess |-> NoSid, keptRefresh |-> NoSid]

\* A call: the token it was sent with, the session it creates, the user a page's first
\* call will show, and for the end of a quick session what asked for it.
Call == [pc: {"idle", "sent", "denied", "waiting", "served", "recording", "telling", "answering",
              "closing", "dropping"},
         kind: Kinds, for: {"END", "LOAD", "LOGOUT"}, who: Users \cup {Nobody},
         token: Token, sid: Token, again: BOOLEAN, lost: BOOLEAN]
NoCall == [pc |-> "idle", kind |-> "WORK", for |-> "END", who |-> Nobody,
           token |-> NoSid, sid |-> NoSid, again |-> FALSE, lost |-> FALSE]

\* The refresh in flight of the page a tab has, and of the page it left.
Pages == {"here", "left"}
Refresh == [pc: {"none", "sent", "found", "dropped"}, token: Token]
NoRefresh == [pc |-> "none", token |-> NoSid]

ASSUME ScreenAssumption ==
  /\ Nobody \notin Users /\ Home \notin Colleagues
  /\ MaxSids \in Nat /\ MaxCalls \in Nat
  /\ Mixes \subseteq SUBSET Kinds /\ Unanswered \subseteq Kinds

VARIABLES
  session,  \* session:* cache entries
  lapsed,   \* the sessions whose access token has expired
  row,      \* batch_sessions
  told,     \* the quick sessions whose owner has been notified
  disk,
  mem,      \* the tokens each tab holds in memory
  shown,    \* the user each tab shows
  menu,     \* the session menu, also while it waits for a start, or the banner
  leaving,  \* the tabs whose page has asked to be reloaded
  call, refresh,
  revoker,  \* the owner's revocation, from somewhere else
  mix       \* the calls in use, never changed

server == <<session, lapsed, row, told>>
client == <<disk, mem, shown, menu, leaving>>
vars == <<server, client, call, refresh, revoker, mix>>

TypeOK ==
  /\ session \in [Sids -> Session]
  /\ lapsed \subseteq Sids
  /\ row \in [Sids -> {"NONE", "OPEN", "ENDED", "EXPIRED", "REVOKED"}]
  /\ told \subseteq Sids
  /\ disk \in Disk
  /\ mem \in [Tabs -> Tokens]
  /\ shown \in [Tabs -> Users \cup {Nobody}]
  /\ menu \in [Tabs -> {"menu", "busy", "banner"}]
  /\ leaving \subseteq Tabs
  /\ call \in [Tabs -> [Slots -> Call]]
  /\ refresh \in [Tabs -> [Pages -> Refresh]]
  /\ revoker \in [pc: {"idle", "found", "dropping"}, sid: Token]
  /\ mix \in Mixes

Init ==
  /\ session = [i \in Sids |-> [state |-> "UNUSED", user |-> Nobody, batch |-> FALSE]]
  /\ lapsed = {} /\ row = [i \in Sids |-> "NONE"] /\ told = {}
  /\ disk = EmptyDisk
  /\ mem = [t \in Tabs |-> NoTokens] /\ shown = [t \in Tabs |-> Nobody]
  /\ menu = [t \in Tabs |-> "menu"] /\ leaving = {}
  /\ call = [t \in Tabs |-> [s \in Slots |-> NoCall]]
  /\ refresh = [t \in Tabs |-> [p \in Pages |-> NoRefresh]]
  /\ revoker = [pc |-> "idle", sid |-> NoSid]
  /\ mix \in Mixes

-----------------------------------------------------------------------------
Live(i) == i \in Sids /\ session[i].state = "LIVE"
Fresh(i) == session[i].state = "UNUSED" /\ \A j \in 1..(i - 1) : session[j].state # "UNUSED"
Room == \E i \in Sids : Fresh(i)  \* bound

Opened(i, u, batch) ==
  session' = [session EXCEPT ![i] = [state |-> "LIVE", user |-> u, batch |-> batch]]
\* The entry is deleted; whether the token of a login that is gone has expired is no matter.
Dropped(i) ==
  /\ session' = [session EXCEPT ![i].state = "GONE"]
  /\ lapsed' = IF session[i].batch THEN lapsed ELSE lapsed \ {i}

\* validateAccess: the token has not expired and its session is in the cache.
Valid(i) == Live(i) /\ i \notin lapsed

\* The window of a quick session is over when its entry and its token expire.
Over(i) == i \in lapsed /\ session[i].batch

InBatchMode == disk.batch # NoSid

At(t, s, pc) == call[t][s].pc = pc
Step(t, s, changed) == call' = [call EXCEPT ![t][s] = changed]
Show(t, u) == shown' = [shown EXCEPT ![t] = u]
Refreshing(t, p, changed) == refresh' = [refresh EXCEPT ![t][p] = changed]

\* setTokens: in memory and in storage.
SetTokens(t, i) ==
  /\ mem' = [mem EXCEPT ![t] = [access |-> i, refresh |-> i]]
  /\ disk' = [disk EXCEPT !.access = i, !.refresh = i]

Sent(kind, i) == [NoCall EXCEPT !.pc = "sent", !.kind = kind, !.token = i]

\* A new call takes the first slot free.
Idle(t, s) == At(t, s, "idle") /\ \A r \in 1..(s - 1) : ~At(t, r, "idle")

\* The page is not drawn for a user before its first call, or what that led to, is through.
Loading(t) == \E s \in Slots : ~At(t, s, "idle") /\ ~call[t][s].lost /\ "LOAD" \in {call[t][s].kind, call[t][s].for}

\* SessionSwitch: the menu, or the banner of the quick session.
Drawn(d) == IF d.batch # NoSid THEN "banner" ELSE "menu"
Draw(t) == menu' = [menu EXCEPT ![t] = Drawn(disk)]
\* A start that came to nothing leaves the menu usable again.
Usable(t, c) == menu' = [menu EXCEPT ![t] = IF c.kind = "START" /\ menu[t] = "busy" THEN "menu" ELSE menu[t]]

(* A page is loaded: the tab takes its tokens from storage, and asks for    *)
(* the permissions of the quick session or ends it when its window is over, *)
(* refreshes the login, or shows the login form.                           *)

Refreshable(d) == d.batch = NoSid /\ d.refresh # NoSid

FirstCall(d) ==
  CASE d.batch # NoSid /\ Over(d.batch)  -> [Sent("END", d.access) EXCEPT !.for = "LOAD"]
    [] d.batch # NoSid /\ ~Over(d.batch) -> [Sent("LOAD", d.access) EXCEPT !.who = session[d.batch].user]
    [] Refreshable(d)                    -> [NoCall EXCEPT !.pc = "waiting", !.kind = "LOAD"]
    [] d.batch = NoSid /\ d.refresh = NoSid -> NoCall

\* What is left of a call when its page is gone: what the server still does for it.
Orphaned(c) ==
  IF c.kind \in {"WORK", "LOAD"} \/ c.pc \in {"denied", "waiting", "answering"} THEN NoCall
  ELSE [c EXCEPT !.lost = TRUE, !.for = "END", !.who = Nobody, !.again = FALSE]

LoadPage(t) ==
  /\ mem' = [mem EXCEPT ![t] = [access |-> disk.access, refresh |-> disk.refresh]]
  /\ Show(t, Nobody) /\ Draw(t) /\ leaving' = leaving \ {t} /\ disk' = disk
  /\ \E s \in Slots :
       /\ Orphaned(call[t][s]) = NoCall /\ \A r \in 1..(s - 1) : Orphaned(call[t][r]) # NoCall
       /\ call' = [call EXCEPT ![t] = [r \in Slots |-> IF r = s THEN FirstCall(disk) ELSE Orphaned(call[t][r])]]
  /\ "none" \in {refresh[t][p].pc : p \in Pages}  \* bound
  /\ refresh' = [refresh EXCEPT ![t] =
       [here |-> IF Refreshable(disk) THEN [pc |-> "sent", token |-> disk.refresh] ELSE NoRefresh,
        left |-> IF refresh[t]["here"].pc # "none" THEN refresh[t]["here"] ELSE refresh[t]["left"]]]

-----------------------------------------------------------------------------
(* Calls                                                                   *)

Login(t) ==
  /\ shown[t] = Nobody /\ ~Loading(t) /\ t \notin leaving
  /\ \E i \in Sids : Fresh(i) /\ Opened(i, Home, FALSE) /\ SetTokens(t, i)
  /\ Show(t, Home) /\ Draw(t)
  /\ UNCHANGED <<lapsed, row, told, leaving, call, refresh, revoker, mix>>

\* The switch as it was drawn, or as the storage would have it drawn now.
Offered(t) ==
  (IF menu[t] = "menu" \/ (menu[t] = "banner" /\ ~InBatchMode) THEN {"START"} ELSE {})
    \cup (IF menu[t] = "banner" \/ InBatchMode THEN {"END"} ELSE {})

\* On a page that is being left only the polls go on.
Send(t, s, kind) ==
  /\ Idle(t, s) /\ shown[t] # Nobody /\ kind \in mix \cap ({"WORK", "LOGOUT"} \cup Offered(t))
  /\ t \in leaving => kind = "WORK"
  /\ kind = "START" => Room
  /\ Step(t, s, Sent(kind, mem[t].access))
  /\ menu' = IF kind = "START" THEN [menu EXCEPT ![t] = "busy"] ELSE menu
  /\ UNCHANGED <<server, disk, mem, shown, leaving, refresh, revoker, mix>>

\* As the page itself has asked, or by the user.
Reload(t) ==
  /\ t \in leaving \/ "LOAD" \in mix \/ (shown[t] = Nobody /\ ~Loading(t))
  /\ LoadPage(t)
  /\ UNCHANGED <<server, revoker, mix>>

\* The end of a quick session goes on whatever the answer is.
Ending(c) == IF c.lost THEN NoCall ELSE [c EXCEPT !.pc = "answering"]

\* JwtAuthGuard.
Authenticate(t, s) ==
  LET c == call[t][s] IN
  /\ At(t, s, "sent")
  /\ Step(t, s, CASE Valid(c.token) -> [c EXCEPT !.pc = "served"]
                  [] ~Valid(c.token) /\ c.kind = "END" -> Ending(c)
                  [] ~Valid(c.token) /\ c.kind # "END" -> IF c.lost THEN NoCall ELSE [c EXCEPT !.pc = "denied"])
  /\ UNCHANGED <<server, client, refresh, revoker, mix>>

\* A logout signs the tab out even when it fails, and so does a page's first call.
SignsOut(c) == c.kind = "LOGOUT" \/ (c.kind = "LOAD" /\ c.who # Nobody)

\* A call fails, and is done with.
GiveUp(t, s) ==
  LET c == call[t][s] IN
  /\ leaving' = leaving
  /\ CASE c.lost -> Step(t, s, NoCall) /\ UNCHANGED <<disk, mem, shown, menu>>
       [] ~c.lost /\ c.kind = "END" -> Step(t, s, Ending(c)) /\ UNCHANGED <<disk, mem, shown, menu>>
       [] ~c.lost /\ SignsOut(c) -> SetTokens(t, NoSid) /\ Show(t, Nobody) /\ Step(t, s, NoCall) /\ menu' = menu
       [] ~c.lost /\ c.kind # "END" /\ ~SignsOut(c) ->
            Step(t, s, NoCall) /\ Usable(t, c) /\ UNCHANGED <<disk, mem, shown>>

\* Beginning a refresh, or joining the one the page has in flight; with no token to
\* refresh with the call fails at once.
AskRefresh(t, s) ==
  \/ /\ refresh[t]["here"].pc # "none" \/ mem[t].refresh # NoSid
     /\ Step(t, s, [call[t][s] EXCEPT !.pc = "waiting"])
     /\ refresh' = IF refresh[t]["here"].pc # "none" THEN refresh
                   ELSE [refresh EXCEPT ![t]["here"] = [pc |-> "sent", token |-> mem[t].refresh]]
     /\ UNCHANGED client
  \/ /\ refresh[t]["here"].pc = "none" /\ mem[t].refresh = NoSid
     /\ GiveUp(t, s) /\ refresh' = refresh

\* api: the first 401 of a call ends a quick session; elsewhere it asks for a refresh.
Denied(t, s) ==
  LET c == call[t][s] IN
  /\ At(t, s, "denied")
  /\ \/ /\ InBatchMode /\ ~c.again
        /\ Step(t, s, [Sent("END", mem[t].access) EXCEPT
                         !.for = IF c.kind \in {"LOAD", "LOGOUT"} THEN c.kind ELSE "END", !.who = c.who])
        /\ UNCHANGED <<client, refresh>>
     \/ ~InBatchMode /\ ~c.again /\ AskRefresh(t, s)
     \/ c.again /\ GiveUp(t, s) /\ refresh' = refresh
  /\ UNCHANGED <<server, revoker, mix>>

\* Calls that change no session; the page of a quick session has its permissions.
Answer(t, s) ==
  LET c == call[t][s] IN
  /\ At(t, s, "served") /\ c.kind \in {"WORK", "LOAD"}
  /\ IF c.kind = "LOAD" THEN Show(t, c.who) /\ Draw(t) ELSE UNCHANGED <<shown, menu>>
  /\ Step(t, s, NoCall)
  /\ UNCHANGED <<server, disk, mem, leaving, refresh, revoker, mix>>

Logout(t, s) ==
  LET c == call[t][s] IN
  /\ At(t, s, "served") /\ c.kind = "LOGOUT"
  /\ Dropped(c.token)
  /\ GiveUp(t, s)
  /\ UNCHANGED <<row, told, refresh, revoker, mix>>

\* The call fails on the way, or the server stops between two of its steps.
Fail(t, s) ==
  /\ call[t][s].pc \in {"sent", "served", "recording", "telling", "closing", "dropping"}
  /\ call[t][s].kind \in Unanswered
  /\ GiveUp(t, s)
  /\ UNCHANGED <<server, refresh, revoker, mix>>

(* startBatchSession: the cache entry, the row, the notification, the answer *)

\* A batch ID that is nobody's is answered 401, one's own is refused.
OpenBatch(t, s, u) ==
  LET c == call[t][s] IN
  /\ At(t, s, "served") /\ c.kind = "START"
  /\ \/ /\ u = Nobody /\ Step(t, s, IF c.lost THEN NoCall ELSE [c EXCEPT !.pc = "denied"])
        /\ UNCHANGED <<session, client>>
     \/ (u = session[c.token].user \/ ~Room) /\ GiveUp(t, s) /\ session' = session
     \/ /\ u \notin {Nobody, session[c.token].user}
        /\ \E i \in Sids : /\ Fresh(i) /\ Opened(i, u, TRUE)
                           /\ Step(t, s, [c EXCEPT !.pc = "recording", !.sid = i])
        /\ UNCHANGED client
  /\ UNCHANGED <<lapsed, row, told, refresh, revoker, mix>>

\* Faulty: the row is stored, and the session it was for forgotten.
RecordForgets(t, s) ==
  /\ At(t, s, "recording")
  /\ row' = [row EXCEPT ![call[t][s].sid] = "OPEN"]
  /\ Step(t, s, [call[t][s] EXCEPT !.pc = "telling", !.sid = NoSid])
  /\ UNCHANGED <<session, lapsed, told, client, refresh, revoker, mix>>

RecordBatch(t, s) ==
  /\ At(t, s, "recording")
  /\ row' = [row EXCEPT ![call[t][s].sid] = "OPEN"]
  /\ Step(t, s, [call[t][s] EXCEPT !.pc = "telling"])
  /\ UNCHANGED <<session, lapsed, told, client, refresh, revoker, mix>>

\* Faulty: the owner is told by somebody else, later.
SkipTelling(t, s) ==
  /\ At(t, s, "telling")
  /\ Step(t, s, Ending(call[t][s]))
  /\ UNCHANGED <<server, client, refresh, revoker, mix>>

TellOwner(t, s) ==
  /\ At(t, s, "telling")
  /\ told' = told \cup {call[t][s].sid}
  /\ Step(t, s, Ending(call[t][s]))
  /\ UNCHANGED <<session, lapsed, row, client, refresh, revoker, mix>>

\* startBatchMode parks what is in storage as the login to come back to.
Parked(i) == [access |-> i, refresh |-> NoSid, batch |-> i,
              keptAccess |-> disk.access, keptRefresh |-> disk.refresh]

\* Faulty: the page goes on as it is.
EnterAtOnce(t, s) ==
  LET i == call[t][s].sid IN
  /\ At(t, s, "answering") /\ call[t][s].kind = "START"
  /\ disk' = Parked(i) /\ mem' = [mem EXCEPT ![t] = [access |-> i, refresh |-> NoSid]]
  /\ Step(t, s, NoCall)
  /\ UNCHANGED <<server, shown, menu, leaving, refresh, revoker, mix>>

EnterBatch(t, s) ==
  LET i == call[t][s].sid IN
  /\ At(t, s, "answering") /\ call[t][s].kind = "START"
  /\ disk' = Parked(i) /\ mem' = [mem EXCEPT ![t] = [access |-> i, refresh |-> NoSid]]
  /\ leaving' = leaving \cup {t} /\ Step(t, s, NoCall)
  /\ UNCHANGED <<server, shown, menu, refresh, revoker, mix>>

(* endBatchSession, and the restoring of the parked login                  *)

FindBatch(t, s) ==
  LET c == call[t][s] IN
  /\ At(t, s, "served") /\ c.kind = "END"
  /\ Step(t, s, IF row[c.token] = "OPEN" THEN [c EXCEPT !.pc = "closing"] ELSE Ending(c))
  /\ UNCHANGED <<server, client, refresh, revoker, mix>>

CloseBatch(t, s) ==
  LET i == call[t][s].token IN
  /\ At(t, s, "closing")
  /\ row' = [row EXCEPT ![i] = IF Over(i) THEN "EXPIRED" ELSE "ENDED"]
  /\ Step(t, s, [call[t][s] EXCEPT !.pc = "dropping"])
  /\ UNCHANGED <<session, lapsed, told, client, refresh, revoker, mix>>

DropBatch(t, s) ==
  /\ At(t, s, "dropping")
  /\ Dropped(call[t][s].token)
  /\ Step(t, s, Ending(call[t][s]))
  /\ UNCHANGED <<row, told, client, refresh, revoker, mix>>

\* Faulty: the access token of the quick session stays in storage.
HalfRestored == [EmptyDisk EXCEPT !.access = disk.access, !.refresh = disk.keptRefresh]

\* endBatchMode: when another has ended the quick session already nothing is parked.
Restored == [EmptyDisk EXCEPT !.access = disk.keptAccess, !.refresh = disk.keptRefresh]

\* A page's first call, or a logout, that was answered 401 in the quick session clears
\* the tokens that have just come back.
Forgets(c) == c.for = "LOGOUT" \/ (c.for = "LOAD" /\ c.who # Nobody)

\* The page asks to be reloaded, unless it was being loaded when it found the window
\* over: it then goes on with the original login.
LeaveBatch(t, s) ==
  LET c == call[t][s]
      d == IF Forgets(c) THEN EmptyDisk ELSE Restored
      opening == c.for = "LOAD" /\ c.who = Nobody
      asks == opening /\ (refresh[t]["here"].pc # "none" \/ d.refresh # NoSid) IN
  /\ At(t, s, "answering") /\ c.kind = "END"
  /\ disk' = d /\ mem' = [mem EXCEPT ![t] = [access |-> d.access, refresh |-> d.refresh]]
  /\ shown' = IF Forgets(c) THEN [shown EXCEPT ![t] = Nobody] ELSE shown
  /\ leaving' = IF opening THEN leaving ELSE leaving \cup {t}
  /\ Step(t, s, IF asks THEN [NoCall EXCEPT !.pc = "waiting", !.kind = "LOAD"] ELSE NoCall)
  /\ refresh' = IF asks /\ refresh[t]["here"].pc = "none"
                THEN [refresh EXCEPT ![t]["here"] = [pc |-> "sent", token |-> d.refresh]] ELSE refresh
  /\ UNCHANGED <<server, menu, revoker, mix>>

\* The banner counts down and ends the session by itself.
BannerEnds(t, s) ==
  /\ Idle(t, s) /\ shown[t] # Nobody /\ menu[t] = "banner" /\ t \notin leaving /\ Over(disk.batch)
  /\ Step(t, s, Sent("END", mem[t].access))
  /\ UNCHANGED <<server, client, refresh, revoker, mix>>

-----------------------------------------------------------------------------
(* refreshSession: one at a time in a page                                 *)

FindSession(t, p) ==
  /\ refresh[t][p].pc = "sent" /\ Live(refresh[t][p].token) /\ Room
  /\ Refreshing(t, p, [refresh[t][p] EXCEPT !.pc = "found"])
  /\ UNCHANGED <<server, client, call, revoker, mix>>

\* Rotation: the old session is dropped, then the new one is stored and answered.
DropOld(t, p) ==
  /\ refresh[t][p].pc = "found"
  /\ Dropped(refresh[t][p].token)
  /\ Refreshing(t, p, [refresh[t][p] EXCEPT !.pc = "dropped"])
  /\ UNCHANGED <<row, told, client, call, revoker, mix>>

Waiting(t, s) == At(t, s, "waiting")
Opening(c) == c.kind = "LOAD" /\ c.who = Nobody

\* The calls that waited are sent again, and a page that was being loaded shows the user
\* of the answer; the page a tab has left does nothing.
Resent(t, i) ==
  call' = [call EXCEPT ![t] = [s \in Slots |->
    CASE ~Waiting(t, s) -> call[t][s]
      [] Waiting(t, s) /\ Opening(call[t][s]) -> NoCall
      [] Waiting(t, s) /\ ~Opening(call[t][s]) ->
           [call[t][s] EXCEPT !.pc = "sent", !.token = i, !.again = TRUE]]]

Rotate(t, p) ==
  LET u == session[refresh[t][p].token].user IN
  /\ refresh[t][p].pc = "dropped"
  /\ \E i \in Sids :
       /\ Fresh(i) /\ Opened(i, u, FALSE)
       /\ IF p = "left" THEN UNCHANGED <<client, call>>
          ELSE /\ SetTokens(t, i) /\ Resent(t, i) /\ leaving' = leaving
               /\ IF \E s \in Slots : Waiting(t, s) /\ Opening(call[t][s])
                  THEN Show(t, u) /\ Draw(t) ELSE UNCHANGED <<shown, menu>>
  /\ Refreshing(t, p, NoRefresh)
  /\ UNCHANGED <<lapsed, row, told, revoker, mix>>

\* A refused or failed refresh forgets the tokens; without any answer they are kept,
\* unless one of the calls that waited clears them.
RefreshFails(t, p) ==
  LET signsOut == \E s \in Slots : Waiting(t, s) /\ SignsOut(call[t][s]) IN
  /\ refresh[t][p].pc # "none"
  /\ IF p = "left" THEN UNCHANGED <<client, call>>
     ELSE /\ SetTokens(t, NoSid) \/ (~signsOut /\ UNCHANGED <<disk, mem>>)
          /\ shown' = IF signsOut THEN [shown EXCEPT ![t] = Nobody] ELSE shown
          /\ menu' = IF menu[t] = "busy" /\ \E s \in Slots : Waiting(t, s) /\ call[t][s].kind = "START"
                     THEN [menu EXCEPT ![t] = "menu"] ELSE menu
          /\ call' = [call EXCEPT ![t] = [s \in Slots |-> IF Waiting(t, s) THEN NoCall ELSE call[t][s]]]
          /\ leaving' = leaving
  /\ Refreshing(t, p, NoRefresh)
  /\ UNCHANGED <<server, revoker, mix>>

-----------------------------------------------------------------------------
(* The owner of the identity revokes a quick session                       *)

FindOpen(i) ==
  /\ revoker.pc = "idle" /\ row[i] = "OPEN"
  /\ revoker' = [pc |-> "found", sid |-> i]
  /\ UNCHANGED <<server, client, call, refresh, mix>>

Revoke ==
  /\ revoker.pc = "found"
  /\ row' = [row EXCEPT ![revoker.sid] = "REVOKED"]
  /\ revoker' = [revoker EXCEPT !.pc = "dropping"]
  /\ UNCHANGED <<session, lapsed, told, client, call, refresh, mix>>

DropRevoked ==
  /\ revoker.pc = "dropping"
  /\ Dropped(revoker.sid)
  /\ revoker' = [pc |-> "idle", sid |-> NoSid]
  /\ UNCHANGED <<row, told, client, call, refresh, mix>>

RevokeFails ==
  /\ revoker.pc # "idle"
  /\ revoker' = [pc |-> "idle", sid |-> NoSid]
  /\ UNCHANGED <<server, client, call, refresh, mix>>

-----------------------------------------------------------------------------
(* Expiry                                                                  *)

\* The access token of a login, after minutes; its session, after days.
Lapse(i) ==
  /\ Live(i) /\ ~session[i].batch
  /\ IF i \in lapsed THEN Dropped(i) ELSE lapsed' = lapsed \cup {i} /\ session' = session
  /\ UNCHANGED <<row, told, client, call, refresh, revoker, mix>>

\* Faulty: the cache entry of a quick session has the lifetime of a login.
TokenElapses(i) ==
  /\ session[i].batch /\ i \notin lapsed
  /\ lapsed' = lapsed \cup {i}
  /\ UNCHANGED <<session, row, told, client, call, refresh, revoker, mix>>

\* The window of a quick session: its token and its cache entry.
Elapse(i) ==
  /\ session[i].batch /\ i \notin lapsed
  /\ lapsed' = lapsed \cup {i} /\ session' = [session EXCEPT ![i].state = "GONE"]
  /\ UNCHANGED <<row, told, client, call, refresh, revoker, mix>>

Serve(t, s) ==
  \/ Authenticate(t, s) \/ Denied(t, s) \/ Answer(t, s) \/ Logout(t, s) \/ Fail(t, s)
  \/ RecordBatch(t, s) \/ TellOwner(t, s) \/ EnterBatch(t, s) \/ \E u \in Users \cup {Nobody} : OpenBatch(t, s, u)
  \/ FindBatch(t, s) \/ CloseBatch(t, s) \/ DropBatch(t, s) \/ LeaveBatch(t, s)

Next ==
  \/ \E t \in Tabs :
       \/ Login(t) \/ Reload(t)
       \/ \E s \in Slots : BannerEnds(t, s) \/ Serve(t, s) \/ \E kind \in mix : Send(t, s, kind)
       \/ \E p \in Pages : FindSession(t, p) \/ DropOld(t, p) \/ Rotate(t, p) \/ RefreshFails(t, p)
  \/ Revoke \/ DropRevoked \/ RevokeFails \/ \E i \in Sids : FindOpen(i) \/ Lapse(i) \/ Elapse(i)

Spec == Init /\ [][Next]_vars

\* Every window elapses.
FairSpec == Spec /\ \A i \in Sids : WF_vars(Elapse(i))

-----------------------------------------------------------------------------
(* Properties                                                              *)

\* Nobody works as a colleague under another name: a page that sends the token of a
\* quick session, and is not about to be reloaded, shows its user, or nobody yet, whatever
\* refreshes, failures, second ends and reloads came in between.
ColleagueIsShown ==
  \A t \in Tabs \ leaving :
    mem[t].access # NoSid /\ session[mem[t].access].batch => shown[t] \in {Nobody, session[mem[t].access].user}

\* "Expiry restores the original login": a quick session parks exactly the tokens the
\* storage held when it began, nothing touches them while it lasts, and the call that ends
\* it puts exactly these back, or clears them when it was asked for by a page's first call
\* or a logout.
OriginalLoginReturns ==
  [][/\ InBatchMode' /\ ~InBatchMode =>
          disk'.keptAccess = disk.access /\ disk'.keptRefresh = disk.refresh
     /\ InBatchMode' /\ InBatchMode =>
          disk'.batch = disk.batch /\ disk'.keptAccess = disk.keptAccess /\ disk'.keptRefresh = disk.keptRefresh
     /\ ~InBatchMode' /\ InBatchMode =>
          IF \E t \in Tabs, s \in Slots : Forgets(call[t][s]) /\ call'[t][s] = NoCall
          THEN disk'.access = NoSid /\ disk'.refresh = NoSid
          ELSE disk'.access = disk.keptAccess /\ disk'.refresh = disk.keptRefresh
    ]_vars

\* No screen holds a token of a quick session whose owner cannot see and revoke it,
\* or was not told, whatever failed while it was being opened.
BatchTokenIsAnnounced ==
  \A i \in {disk.access, disk.batch, disk.keptAccess} \cup {mem[t].access : t \in Tabs} :
    i # NoSid /\ session[i].batch => row[i] # "NONE" /\ i \in told

\* A quick session that its screen has ended or its owner has revoked stops being
\* accepted in the end, also when the deletion of its entry is lost: once its row is
\* ended nobody deletes the entry any more, only its lifetime does.
EndedSessionsDie ==
  LET accepted == {i \in Sids : row[i] \in {"ENDED", "EXPIRED", "REVOKED"} /\ Live(i)} IN
  accepted # {} ~> accepted = {}

(* What the code does not keep to                                          *)

\* Who the screen shows is who its requests act as: a refresh answered after a quick
\* session has begun, or a logout within one, leaves a page that shows the colleague and
\* acts as the login.
ShownIsActing ==
  \A t \in Tabs \ leaving :
    shown[t] # Nobody /\ mem[t].access # NoSid => session[mem[t].access].user = shown[t]

\* The storage keeps a login that is alive, unless a refresh or one of the calls excused
\* takes it away.
KeepsLogin(excused) ==
  Live(disk.refresh) \/ (InBatchMode /\ Live(disk.keptRefresh)) =>
    \/ disk'.refresh # NoSid \/ disk'.keptRefresh # NoSid
    \/ \E t \in Tabs : refresh[t]["here"].pc # "none"
    \/ \E t \in Tabs, s \in Slots : excused \cap {call[t][s].kind, call[t][s].for} # {}

\* A page's first call that is answered 401 in a quick session clears the login that has
\* just come back.
LoginSurvivesLoading == [][KeepsLogin({"LOGOUT"})]_vars

\* The second of two calls that end the same quick session finds nothing parked.
LoginSurvivesEnds == [][KeepsLogin({"LOGOUT", "LOAD"})]_vars
=============================================================================
