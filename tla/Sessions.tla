------------------------------- MODULE Sessions -------------------------------
(***************************************************************************)
(* Refresh tokens: AuthService.refresh, issueTokens and logout, and         *)
(* UsersService.deleteAccount. A login opens a session, each refresh is     *)
(* meant to replace the session's token by a new one, and logging out, a    *)
(* refresh from another device or the deletion of the account revoke the    *)
(* tokens. As everywhere in the backend, each `await this.prisma...` is one *)
(* atomic statement and requests interleave between statements.            *)
(***************************************************************************)
CONSTANTS Users, Devices,
          Tokens,     \* refresh tokens that can be issued; bounds a run
          Handlers,   \* requests the server may be running at once
          MayFail,    \* whether a handler may be cut short between statements
          None

VARIABLES
  account,    \* User.status
  token,      \* the refresh-token table: the row of each token, or None
  job,        \* what each handler is doing and has read, or None
  \* History, read by no action of the code:
  raced,      \* sessions refreshed by two handlers at once, or ended meanwhile
  ended       \* sessions that a logout, a mismatch or a deletion ended

vars == <<account, token, job, raced, ended>>

\* `session` is history, no column: the first token of the login the row descends from.
Row == [user : Users, device : Devices \cup {None}, session : Tokens,
        revoked : BOOLEAN, expired : BOOLEAN]

\* `token` is the one being exchanged, None in any other request; `device` is
\* the device of the tokens to issue or to revoke, None for any.
Job == [pc : {"rotate", "issue", "revoke", "delete"},
        user : Users, device : Devices \cup {None}, token : Tokens \cup {None}]

ASSUME MayFailAssumption == MayFail \in BOOLEAN
ASSUME NoneAssumption == None \notin Row \cup Job \cup Tokens

Init ==
  /\ account = [u \in Users |-> "active"]
  /\ token = [t \in Tokens |-> None]
  /\ job = [h \in Handlers |-> None]
  /\ raced = {} /\ ended = {}

At(h, pc) == job[h] # None /\ job[h].pc = pc

Done(h) == job' = [job EXCEPT ![h] = None]

Exists(t) == token[t] # None

Live(t) == Exists(t) /\ ~token[t].revoked

\* Handler h is exchanging a token of session s.
Refreshing(h, s) ==
  /\ job[h] # None /\ job[h].token # None
  /\ token[job[h].token].session = s

-----------------------------------------------------------------------------
Start(h, j) ==
  /\ job[h] = None
  /\ job' = [job EXCEPT ![h] = j]

\* Both logins end with issueTokens(); the password or PIN and its counters are
\* another module's.
Login(h, u, d) ==
  /\ account[u] = "active"
  /\ Start(h, [pc |-> "issue", user |-> u, device |-> d, token |-> None])
  /\ UNCHANGED <<account, token, raced, ended>>

\* The checks of refresh() on the row it finds.
ValidThoughRevoked(t) == Exists(t) /\ ~token[t].expired /\ account[token[t].user] = "active"  \* mutant
Valid(t) ==
  /\ Live(t)
  /\ ~token[t].expired
  /\ account[token[t].user] = "active"

\* The new token is bound to the old one's device, not to the request's.
BoundToRequest(row, d) == d                         \* mutant
NextDevice(row, d) == row.device

\* refresh(): a request from another device than the token's has every token of
\* the user revoked.
Refresh(h, t, d) ==
  LET row == token[t]
      elsewhere == d # None /\ row.device # None /\ d # row.device IN
  /\ Valid(t)
  /\ IF elsewhere
       THEN /\ Start(h, [pc |-> "revoke", user |-> row.user, device |-> None, token |-> None])
            /\ UNCHANGED raced
       ELSE /\ Start(h, [pc |-> "rotate", user |-> row.user,
                          device |-> NextDevice(row, d), token |-> t])
            /\ raced' = raced \cup
                 {s \in {row.session} : \E g \in Handlers : Refreshing(g, s)}
  /\ UNCHANGED <<account, token, ended>>

RotateKeepsOld(h) ==                                \* mutant
  At(h, "rotate") /\ job' = [job EXCEPT ![h].pc = "issue"]
    /\ UNCHANGED <<account, token, raced, ended>>

\* The old row is revoked by id, whether or not it still was live.
Rotate(h) ==
  /\ At(h, "rotate")
  /\ token' = [token EXCEPT ![job[h].token].revoked = TRUE]
  /\ job' = [job EXCEPT ![h].pc = "issue"]
  /\ UNCHANGED <<account, raced, ended>>

\* History, no column of the table: the session the new token descends from.
SessionOf(j, t) == IF j.token = None THEN t ELSE token[j.token].session

\* issueTokens(): the jti makes every token new.
Issue(h, t) ==
  LET j == job[h] IN
  /\ At(h, "issue")
  /\ ~Exists(t)
  /\ token' = [token EXCEPT ![t] =
       [user |-> j.user, device |-> j.device, revoked |-> FALSE, expired |-> FALSE,
        session |-> SessionOf(j, t)]]
  /\ Done(h)
  /\ UNCHANGED <<account, raced, ended>>

\* logout() behind JwtAuthGuard: one device's tokens, or with `all` or without
\* a device every token of the user.
Logout(h, u, d) ==
  /\ account[u] = "active"
  /\ Start(h, [pc |-> "revoke", user |-> u, device |-> d, token |-> None])
  /\ UNCHANGED <<account, token, raced, ended>>

\* deleteAccount() behind the same guard.
DeleteAccount(h, u) ==
  /\ account[u] = "active"
  /\ Start(h, [pc |-> "delete", user |-> u, device |-> None, token |-> None])
  /\ UNCHANGED <<account, token, raced, ended>>

MarkDeleted(h) ==
  /\ At(h, "delete")
  /\ account' = [account EXCEPT ![job[h].user] = "deleted"]
  /\ job' = [job EXCEPT ![h].pc = "revoke"]
  /\ UNCHANGED <<token, raced, ended>>

\* The tokens an updateMany of the handler selects, live or not.
Selected(h, t) ==
  /\ Exists(t)
  /\ token[t].user = job[h].user
  /\ job[h].device \in {None, token[t].device}

RevokeDeletes(h) ==                                 \* mutant
  /\ At(h, "revoke")
  /\ token' = [t \in Tokens |-> IF Selected(h, t) THEN None ELSE token[t]]
  /\ Done(h)
  /\ UNCHANGED <<account, raced, ended>>

\* The updateMany that ends logout(), a mismatch and deleteAccount().
Revoke(h) ==
  LET sessions == {token[t].session : t \in {x \in Tokens : Selected(h, x)}} IN
  /\ At(h, "revoke")
  /\ token' = [t \in Tokens |->
       IF Selected(h, t) THEN [token[t] EXCEPT !.revoked = TRUE] ELSE token[t]]
  /\ ended' = ended \cup sessions
  /\ raced' = raced \cup {s \in sessions : \E g \in Handlers : Refreshing(g, s)}
  /\ Done(h)
  /\ UNCHANGED account

\* Time passes: expiresAt is reached.
Expire(t) ==
  /\ Exists(t) /\ ~token[t].expired
  /\ token' = [token EXCEPT ![t].expired = TRUE]
  /\ UNCHANGED <<account, job, raced, ended>>

\* The process dies or a statement fails: the writes already made stay.
CutShort(h) ==
  /\ MayFail
  /\ job[h] # None
  /\ Done(h)
  /\ UNCHANGED <<account, token, raced, ended>>

Next ==
  \/ \E h \in Handlers :
       \/ \E u \in Users, d \in Devices \cup {None} : Login(h, u, d) \/ Logout(h, u, d)
       \/ \E t \in Tokens, d \in Devices \cup {None} : Refresh(h, t, d)
       \/ \E u \in Users : DeleteAccount(h, u)
       \/ \E t \in Tokens : Issue(h, t)
       \/ Rotate(h) \/ MarkDeleted(h) \/ Revoke(h) \/ CutShort(h)
  \/ \E t \in Tokens : Expire(t)

Spec == Init /\ [][Next]_vars

-----------------------------------------------------------------------------
\* Rows stay: the token a refresh found is there when it writes, since nothing
\* deletes a token.
TokensStay == \A h \in Handlers : job[h] # None /\ job[h].token # None => Exists(job[h].token)

TypeOK ==
  /\ account \in [Users -> {"active", "deleted"}]
  /\ token \in [Tokens -> Row \cup {None}]
  /\ job \in [Handlers -> Job \cup {None}]
  /\ raced \subseteq Tokens
  /\ ended \subseteq Tokens
  /\ TokensStay

\* Single-use rotation: unless two refreshes of a session overlapped, it has one
\* live token at most, so a token once exchanged is worth nothing
\* (auth.service.ts 303-307).
OneLivePerSession ==
  \A t, u \in Tokens :
    Live(t) /\ Live(u) /\ token[t].session = token[u].session /\ token[t].session \notin raced
      => t = u

\* Revocation reaches every token of a session: ended while nobody refreshes
\* it, a session never has a live token again, whatever refreshes arrive later
\* (294-298, 315-330; users.service.ts 31-34).
EndedForGood ==
  \A t \in Tokens : Exists(t) /\ token[t].session \in ended \ raced => ~Live(t)

\* A session stays with the user and the device it was opened for, through any
\* chain of refreshes (292-293, 307).
SessionBound ==
  \A t \in Tokens : Exists(t) =>
    LET first == token[t].session IN
    /\ Exists(first)
    /\ token[t].user = token[first].user
    /\ token[t].device = token[first].device

-----------------------------------------------------------------------------
\* Inductive form, in named parts.

\* A handler that exchanges a token issues for the token's user and device.
ExchangeInv ==
  \A h \in Handlers :
    /\ At(h, "rotate") => job[h].token # None
    /\ job[h] # None /\ job[h].token # None =>
         /\ job[h].pc \in {"rotate", "issue"}
         /\ Exists(job[h].token)
         /\ job[h].user = token[job[h].token].user
         /\ job[h].device = token[job[h].token].device

\* A session nobody races on has one refresh at most, which holds its only live
\* token, or none once that is rotated; none runs on a session that has ended.
AloneInv ==
  \A s \in Tokens \ raced :
    /\ \A g, h \in Handlers : Refreshing(g, s) /\ Refreshing(h, s) => g = h
    /\ \A h \in Handlers : Refreshing(h, s) =>
         /\ s \notin ended
         /\ \A t \in Tokens :
              Live(t) /\ token[t].session = s => At(h, "rotate") /\ t = job[h].token

EndedExist == \A s \in ended : Exists(s)

RotationInv ==
  /\ ExchangeInv
  /\ AloneInv
  /\ EndedExist
  /\ SessionBound
  /\ OneLivePerSession
  /\ EndedForGood
=============================================================================
