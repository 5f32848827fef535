-------------------------------- MODULE PassApi --------------------------------
(***************************************************************************)
(* The frontend's API client and the sessions it lives in: request,         *)
(* tryRefresh, saveSession and clearSession of pass-api.js over the server   *)
(* of module Sessions. The tokens are in localStorage, shared by every call *)
(* and tab of a device. A call answered 401 reads them, asks for a refresh  *)
(* and stores the answer; calls, answers and sign-outs interleave, and the  *)
(* network may lose a request or an answer.                                *)
(***************************************************************************)
EXTENDS Sessions

CONSTANTS User, Device,  \* who uses the client, and its getDeviceId()
          Calls          \* calls under way at once; bounds a run

VARIABLES
  stored,   \* pass_tokens: the pair stored, named by its refresh token, or None
  lapsed,   \* pairs whose access token has expired
  call,     \* calls under way
  \* History, read by no action of the code:
  over,     \* sessions the client signed out of
  crossed   \* sessions disturbed on the client's side: refreshed by two calls at
            \* once or while the client signed out, or with an answer lost

clientVars == <<stored, lapsed, call, over, crossed>>
allVars    == <<vars, clientVars>>

\* `pair` is what the request carries, `old` the token it asks to exchange, `h` the
\* handler at work on it and `new` what that issued. Between "refresh" and "granted"
\* the call waits in tryRefresh; "login" and "logout" are calls of those requests.
Call == [kind : {"get", "me", "login", "logout"},
         pc : {"asked", "refresh", "served", "granted"},
         pair : Tokens \cup {None}, old : Tokens \cup {None},
         h : Handlers \cup {None}, new : Tokens \cup {None}, retried : BOOLEAN]

ASSUME ClientAssumption == User \in Users /\ Device \in Devices
ASSUME NoCallAssumption == None \notin Call \cup Handlers

ClientInit ==
  /\ Init
  /\ stored = None /\ lapsed = {} /\ call = [c \in Calls |-> None] /\ over = {} /\ crossed = {}

Is(c, pc) == call[c] # None /\ call[c].pc = pc

SessionsOf(t) == IF t = None THEN {} ELSE {token[t].session}

\* Call c is somewhere in tryRefresh with a token of session s.
Renewing(c, s) == call[c] # None /\ s \in SessionsOf(call[c].old)

Renewed == {s \in Tokens : \E c \in Calls : Renewing(c, s)}

-----------------------------------------------------------------------------
\* request(): the access token stored now goes along.
Ask(c, kind) ==
  /\ call[c] = None
  /\ call' = [call EXCEPT ![c] = [kind |-> kind, pc |-> "asked", old |-> None,
                                  pair |-> IF kind = "login" THEN None ELSE stored,
                                  h |-> None, new |-> None, retried |-> FALSE]]
  /\ UNCHANGED <<vars, stored, lapsed, over, crossed>>

\* The guard's verdict on the access token, and JwtStrategy's on the account.
Admitted(p) == p # None /\ p \notin lapsed /\ account[User] = "active"

\* clearSession(), which ends a logout whatever became of the request, and what the
\* pages do when me() ends in a 401; the call itself is over. The answers of
\* refreshes still under way will be stored all the same.
SignOut(c) ==
  /\ stored' = None
  /\ over' = over \cup SessionsOf(stored)
  /\ crossed' = crossed \cup {s \in Tokens : \E d \in Calls \ {c} : Renewing(d, s)}

End(c, status) ==
  /\ call' = [call EXCEPT ![c] = None]
  /\ IF call[c].kind = "logout" \/ (call[c].kind = "me" /\ status = 401)
       THEN SignOut(c) ELSE UNCHANGED <<stored, over, crossed>>

Answered(c) ==
  /\ Is(c, "asked") /\ call[c].kind \in {"get", "me"}
  /\ Admitted(call[c].pair)
  /\ End(c, 200)
  /\ UNCHANGED <<vars, lapsed>>

\* tryRefresh() reads the tokens stored by now, not those the request went with.
ExchangeOwn(c) == call[c].pair                                    \* mutant
ToExchange(c) == stored

\* 401: the first time the client tries to refresh.
Denied(c) ==
  /\ Is(c, "asked") /\ call[c].kind # "login"
  /\ ~Admitted(call[c].pair)
  /\ IF call[c].retried \/ ToExchange(c) = None
       THEN End(c, 401)
       ELSE /\ call' = [call EXCEPT ![c].pc = "refresh", ![c].pair = None, ![c].old = ToExchange(c)]
            /\ crossed' = crossed \cup (SessionsOf(ToExchange(c)) \cap Renewed)
            /\ UNCHANGED <<stored, over>>
  /\ UNCHANGED <<vars, lapsed>>

-----------------------------------------------------------------------------
\* The request reaches the server, which begins a handler of Sessions.
Serve(c, h) ==
  /\ \/ Is(c, "refresh") /\ Refresh(h, call[c].old, Device)
     \/ Is(c, "asked") /\ call[c].kind = "logout" /\ Admitted(call[c].pair) /\ Logout(h, User, Device)
     \/ Is(c, "asked") /\ call[c].kind = "login" /\ Login(h, User, Device)
  /\ call' = [call EXCEPT ![c].pc = "served", ![c].pair = None, ![c].h = h]
  /\ UNCHANGED <<stored, lapsed, over, crossed>>

Grant(h, t) ==
  call' = [c \in Calls |-> IF Is(c, "served") /\ call[c].h = h
             THEN [call[c] EXCEPT !.pc = "granted", !.h = None, !.new = t] ELSE call[c]]

\* A handler's next statement; with its last one it answers.
Work(h) ==
  /\ \/ Rotate(h) /\ UNCHANGED call
     \/ \E t \in Tokens : Issue(h, t) /\ Grant(h, t)
     \/ Revoke(h) /\ Grant(h, None)
  /\ UNCHANGED <<stored, lapsed, over, crossed>>

StoreFirst(c) == stored' = IF stored = None THEN call[c].new ELSE stored  \* mutant
StoreNew(c) == stored' = call[c].new

\* r.ok: the tokens are stored and the request is sent again.
Refreshed(c) ==
  /\ Is(c, "granted") /\ call[c].kind \in {"get", "me", "logout"} /\ call[c].new # None
  /\ StoreNew(c)
  /\ call' = [call EXCEPT ![c].pc = "asked", ![c].pair = call[c].new, ![c].old = None,
                          ![c].new = None, ![c].retried = TRUE]
  /\ UNCHANGED <<vars, lapsed, over, crossed>>

\* saveSession() after a login: another session's tokens are overwritten, and a call
\* of that session that is still under way acts on the new one.
LoggedIn(c) ==
  /\ Is(c, "granted") /\ call[c].kind = "login"
  /\ StoreNew(c)
  /\ over' = over \cup SessionsOf(stored)
  /\ crossed' = crossed \cup Renewed \cup {s \in SessionsOf(call[c].new) : Renewed # {}}
  /\ call' = [call EXCEPT ![c] = None]
  /\ UNCHANGED <<vars, lapsed>>

LoggedOut(c) ==
  /\ Is(c, "granted") /\ call[c].kind = "logout" /\ call[c].new = None
  /\ End(c, 200)
  /\ UNCHANGED <<vars, lapsed>>

\* The server refuses the refresh, and the call ends with the 401 it had; or the
\* password or PIN.
Refused(c) ==
  /\ \/ Is(c, "refresh") /\ ~Valid(call[c].old)
     \/ Is(c, "asked") /\ call[c].kind = "login"
  /\ End(c, 401)
  /\ UNCHANGED <<vars, lapsed>>

\* fetch fails, or the server answers 500: in tryRefresh that is no answer, and the
\* call ends with its 401; elsewhere it ends without a status.
Lost(c) ==
  /\ MayFail /\ call[c] # None
  /\ call' = [call EXCEPT ![c] = None]
  /\ IF call[c].kind = "logout" \/ (call[c].kind = "me" /\ call[c].old # None)
       THEN /\ stored' = None
            /\ over' = over \cup SessionsOf(stored)
       ELSE UNCHANGED <<stored, over>>
  /\ crossed' = crossed \cup SessionsOf(call[c].old)
                  \cup IF stored' # stored THEN Renewed ELSE {}
  /\ UNCHANGED <<vars, lapsed>>

\* The server's process dies under a handler; its call gets no answer.
Crash(h) ==
  /\ CutShort(h)
  /\ UNCHANGED <<stored, lapsed, over>>
  /\ crossed' = crossed \cup UNION {SessionsOf(call[c].old) : c \in {d \in Calls : Is(d, "served") /\ call[d].h = h}}
  /\ call' = [c \in Calls |-> IF Is(c, "served") /\ call[c].h = h
                THEN [call[c] EXCEPT !.h = None] ELSE call[c]]

\* Fifteen minutes go by: longer than a refreshed request takes. Tokens nobody can
\* send any more are left alone.
Lapse(t) ==
  /\ t \notin lapsed
  /\ t = stored \/ \E c \in Calls : call[c] # None /\ call[c].pair = t
  /\ \A c \in Calls : call[c] # None /\ call[c].retried => call[c].pair # t
  /\ lapsed' = lapsed \cup {t}
  /\ UNCHANGED <<vars, stored, call, over, crossed>>

\* Another device of the user logs out of everything.
Elsewhere(h) ==
  /\ Logout(h, User, None)
  /\ UNCHANGED clientVars

ClientNext ==
  \/ \E c \in Calls :
       \/ \E kind \in {"get", "me", "login", "logout"} : Ask(c, kind)
       \/ Answered(c) \/ Denied(c) \/ Refreshed(c) \/ LoggedIn(c) \/ LoggedOut(c) \/ Refused(c)
       \/ Lost(c)
       \/ \E h \in Handlers : Serve(c, h)
  \/ \E h \in Handlers : Work(h) \/ Crash(h) \/ Elsewhere(h)
  \/ \E t \in Tokens : Lapse(t)

ClientSpec == ClientInit /\ [][ClientNext]_allVars

-----------------------------------------------------------------------------
ClientTypeOK ==
  /\ stored \in Tokens \cup {None} /\ lapsed \subseteq Tokens
  /\ call \in [Calls -> Call \cup {None}]
  /\ over \subseteq Tokens /\ crossed \subseteq Tokens

\* A session the client signed out of is not signed in again by itself: no answer
\* puts its tokens back, unless a refresh of it was under way just then
\* (pass-api.js 92, 109-123, 241-249).
SignedOutStays == SessionsOf(stored) \cap over \subseteq crossed

\* The token stored is the one the server takes: through refreshes, logins and
\* lapses, the client never holds a token that its own refreshes revoked, unless
\* two of them crossed or an answer was lost (109-123; auth.service.ts 276-309).
StoredIsCurrent ==
  \A s \in SessionsOf(stored) \ (ended \cup crossed) :
    (\A c \in Calls : ~Renewing(c, s)) => Live(stored)

\* Only a logout, or a login, takes a working session from the user: a 401 signs out
\* only when the server would refuse a refresh as well, unless refreshes crossed or
\* an answer was lost (92-97, 241-249).
SignedOutForCause ==
  [][stored # None /\ stored' = None =>
       \/ \E c \in Calls : call[c] # None /\ call[c].kind = "logout" /\ call'[c] = None
       \/ ~Valid(stored)
       \/ SessionsOf(stored) \subseteq crossed']_allVars
-----------------------------------------------------------------------------
\* Inductive form, in named parts.

\* All tokens are of the one user and device.
OwnInv ==
  /\ account[User] = "active"
  /\ \A t \in Tokens : Exists(t) =>
       token[t].user = User /\ token[t].device = Device /\ ~token[t].expired
  /\ \A h \in Handlers : job[h] # None =>
       /\ job[h].user = User /\ job[h].pc # "delete"
       /\ job[h].pc \in {"rotate", "issue"} => job[h].device = Device

Mentioned ==
  {stored} \cup lapsed \cup over \cup crossed
    \cup UNION {{call[c].pair, call[c].old, call[c].new} : c \in {d \in Calls : call[d] # None}}

KnownInv == \A t \in Mentioned \ {None} : Exists(t)

\* What a call holds, by how far it has come.
CallInv ==
  \A c \in Calls : call[c] # None =>
    LET k == call[c] IN
    /\ k.pc = "asked" => k.old = None
    /\ k.pc = "asked" /\ k.retried => k.pair \notin lapsed \cup {None}
    /\ k.pc = "refresh" => k.old # None
    /\ k.old = None /\ k.pc # "asked" => k.kind \in {"login", "logout"}
    /\ k.old # None => k.kind # "login"
    /\ k.pc # "granted" => k.new = None
    /\ k.pc = "granted" => (k.new = None <=> k.kind = "logout" /\ k.old = None)
    /\ k.pc = "granted" /\ k.old # None => token[k.new].session = token[k.old].session

\* Every refresh the server works on is a call's, unless that call was lost.
ServedInv ==
  /\ \A c \in Calls : Is(c, "served") /\ call[c].h # None =>
       LET j == job[call[c].h] IN
       /\ j # None /\ j.token = call[c].old
       /\ call[c].old = None => j.pc = IF call[c].kind = "login" THEN "issue" ELSE "revoke"
       /\ \A d \in Calls : Is(d, "served") /\ call[d].h = call[c].h => c = d
  /\ \A h \in Handlers, s \in Tokens : Refreshing(h, s) =>
       s \in crossed \/ \E c \in Calls : Is(c, "served") /\ call[c].h = h

\* A session that was not crossed is renewed by one call at most, and with the token
\* stored, which is live until the server rotates it.
RenewingInv ==
  /\ \A c, d \in Calls : \A s \in Tokens : Renewing(c, s) /\ Renewing(d, s) => c = d \/ s \in crossed
  /\ \A c \in Calls : \A s \in Tokens : Renewing(c, s) =>
       \/ stored = call[c].old
       \/ s \in crossed /\ SessionsOf(stored) \subseteq crossed
  /\ \A c \in Calls : \A s \in over : Renewing(c, s) => s \in crossed
  /\ \A c \in Calls : \A s \in Tokens \ (ended \cup crossed) :
       Renewing(c, s) /\ Is(c, "refresh") => Live(call[c].old)

\* The token an answer carries is live and new to everyone; a login's is the first
\* and only one of its session.
GrantedInv ==
  \A c \in Calls : Is(c, "granted") /\ call[c].new # None =>
    LET t == call[c].new IN
    /\ t # stored /\ t \notin lapsed
    /\ \A d \in Calls : call[d] # None => t \notin {call[d].pair, call[d].old} /\ (t = call[d].new => c = d)
    /\ Live(t) \/ token[t].session \in ended \cup crossed
    /\ call[c].kind = "login" =>
         /\ t \notin over \cup crossed
         /\ \A u \in Tokens : Exists(u) => (token[u].session = t <=> u = t)

ClientInv ==
  /\ OwnInv
  /\ KnownInv
  /\ CallInv
  /\ ServedInv
  /\ RenewingInv
  /\ GrantedInv
  /\ SignedOutStays
  /\ StoredIsCurrent
=============================================================================
