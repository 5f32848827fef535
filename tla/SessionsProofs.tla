---------------------------- MODULE SessionsProofs ----------------------------
(***************************************************************************)
(* Proofs about Sessions.tla and PassApi.tla, for any sets of users,       *)
(* devices, tokens, handlers and calls.                                    *)
(***************************************************************************)
EXTENDS PassApi, TLAPS

USE MayFailAssumption, NoneAssumption

\* The row of a token that exists, and the job of a handler at work.
LEMMA RowFields ==
  ASSUME TypeOK, NEW t \in Tokens, Exists(t)
  PROVE  /\ token[t] \in Row
         /\ token[t].user \in Users
         /\ token[t].device \in Devices \cup {None}
         /\ token[t].session \in Tokens
         /\ token[t].revoked \in BOOLEAN
BY DEF TypeOK, Row, Exists

LEMMA JobFields ==
  ASSUME TypeOK, NEW h \in Handlers, job[h] # None
  PROVE  /\ job[h] \in Job
         /\ job[h].user \in Users
         /\ job[h].device \in Devices \cup {None}
         /\ job[h].token \in Tokens \cup {None}
BY DEF TypeOK, Job

\* A step that deletes no token leaves every handler the one it exchanges.
LEMMA TokensKept ==
  ASSUME TypeOK, NEW h \in Handlers,
         \A t \in Tokens : Exists(t) => token'[t] # None,
         \A g \in Handlers : g # h => job'[g] = job[g],
         job'[h] # None /\ job'[h].token # None => job'[h].token \in Tokens /\ Exists(job'[h].token)
  PROVE  TokensStay'
<1>1. \A g \in Handlers : job[g] # None /\ job[g].token # None =>
        job[g].token \in Tokens /\ Exists(job[g].token)
  BY JobFields DEF TypeOK, TokensStay
<1>. QED
  BY <1>1 DEF TokensStay, Exists

-----------------------------------------------------------------------------
\* A handler starts that exchanges no token: login, logout, deletion, or a
\* refresh from another device.
LEMMA StartOther ==
  ASSUME TypeOK, RotationInv, NEW h \in Handlers, NEW j \in Job, Start(h, j),
         j.token = None, j.pc # "rotate", UNCHANGED <<account, token, raced, ended>>
  PROVE  (TypeOK /\ RotationInv)'
<1>2. job[h] = None /\ \A g \in Handlers : job'[g] = IF g = h THEN j ELSE job[g]
  BY DEF TypeOK, Start
<1>0. TokensStay'
  BY <1>2, TokensKept DEF Exists
<1>1. TypeOK'
  BY <1>0 DEF TypeOK, Start
<1>3. /\ \A g \in Handlers, s \in Tokens : Refreshing(g, s)' <=> Refreshing(g, s)
      /\ \A g \in Handlers : At(g, "rotate")' <=> At(g, "rotate")
      /\ \A t \in Tokens : (Live(t)' <=> Live(t)) /\ (Exists(t)' <=> Exists(t))
      /\ \A g \in Handlers : job'[g] # None /\ job'[g].token # None =>
           job'[g] = job[g] /\ job[g] # None
      /\ \A g \in Handlers : At(g, "rotate") => job'[g] = job[g]
  BY <1>2 DEF Refreshing, At, Live, Exists
<1>4. token' = token /\ raced' = raced /\ ended' = ended
  OBVIOUS
<1>5. OneLivePerSession'
  BY <1>3, <1>4 DEF RotationInv, OneLivePerSession
<1>6. EndedForGood' /\ SessionBound' /\ EndedExist'
  BY <1>3, <1>4 DEF RotationInv, EndedForGood, SessionBound, EndedExist, Exists, Live
<1>7. ExchangeInv'
  BY <1>3, <1>4 DEF RotationInv, ExchangeInv, Exists
<1>8. AloneInv'
  BY <1>3, <1>4 DEF RotationInv, AloneInv
<1>. QED
  BY <1>1, <1>5, <1>6, <1>7, <1>8 DEF RotationInv

LEMMA LoginInv ==
  ASSUME TypeOK, RotationInv, NEW h \in Handlers, NEW u \in Users,
         NEW d \in Devices \cup {None}, Login(h, u, d)
  PROVE  (TypeOK /\ RotationInv)'
<1>. DEFINE j == [pc |-> "issue", user |-> u, device |-> d, token |-> None]
<1>1. j \in Job /\ Start(h, j)
  BY DEF Job, Login
<1>. QED
  BY <1>1, StartOther DEF Login

LEMMA LogoutInv ==
  ASSUME TypeOK, RotationInv, NEW h \in Handlers, NEW u \in Users,
         NEW d \in Devices \cup {None}, Logout(h, u, d)
  PROVE  (TypeOK /\ RotationInv)'
<1>. DEFINE j == [pc |-> "revoke", user |-> u, device |-> d, token |-> None]
<1>1. j \in Job /\ Start(h, j)
  BY DEF Job, Logout
<1>. QED
  BY <1>1, StartOther DEF Logout

LEMMA DeleteInv ==
  ASSUME TypeOK, RotationInv, NEW h \in Handlers, NEW u \in Users, DeleteAccount(h, u)
  PROVE  (TypeOK /\ RotationInv)'
<1>. DEFINE j == [pc |-> "delete", user |-> u, device |-> None, token |-> None]
<1>1. j \in Job /\ Start(h, j)
  BY DEF Job, DeleteAccount
<1>. QED
  BY <1>1, StartOther DEF DeleteAccount

\* The refresh of a live token: the only live one of its session.
LEMMA RefreshInv ==
  ASSUME TypeOK, RotationInv, NEW h \in Handlers, NEW t \in Tokens,
         NEW d \in Devices \cup {None}, Refresh(h, t, d)
  PROVE  (TypeOK /\ RotationInv)'
<1>. DEFINE row == token[t]
            elsewhere == d # None /\ row.device # None /\ d # row.device
            jr == [pc |-> "revoke", user |-> row.user, device |-> None, token |-> None]
            jx == [pc |-> "rotate", user |-> row.user, device |-> row.device, token |-> t]
<1>1. Live(t) /\ Exists(t) /\ row \in Row /\ jr \in Job /\ jx \in Job /\ t # None
  BY RowFields DEF Refresh, Valid, Live, Job
<1>2. CASE elsewhere
  <2>1. Start(h, jr) /\ UNCHANGED <<account, token, raced, ended>>
    BY <1>2 DEF Refresh
  <2>. QED
    BY <1>1, <2>1, StartOther
<1>3. CASE ~elsewhere
  <2>1. /\ Start(h, jx)
        /\ raced' = raced \cup {s \in {row.session} : \E g \in Handlers : Refreshing(g, s)}
        /\ UNCHANGED <<account, token, ended>>
    BY <1>3 DEF Refresh, NextDevice
  <2>2. PICK s \in Tokens : s = row.session
    BY <1>1, RowFields
  <2>3. job[h] = None /\ \A g \in Handlers : job'[g] = IF g = h THEN jx ELSE job[g]
    BY <2>1 DEF TypeOK, Start
  <2>0. TokensStay'
    <3>1. jx.token = t /\ Exists(t)
      BY DEF Refresh, Valid, Live
    <3>. QED
      BY <2>1, <2>3, <3>1, TokensKept DEF Exists
  <2>4. TypeOK'
    BY <1>1, <2>0, <2>1, <2>2 DEF TypeOK, Start
  <2>5. /\ raced \subseteq raced'
        /\ \A x \in Tokens : (Live(x)' <=> Live(x)) /\ (Exists(x)' <=> Exists(x))
    BY <2>1 DEF Live, Exists
  <2>6. OneLivePerSession' /\ EndedForGood' /\ SessionBound'
    <3>1. OneLivePerSession'
      BY <2>1, <2>5 DEF RotationInv, OneLivePerSession
    <3>2. EndedForGood'
      BY <2>1, <2>5 DEF RotationInv, EndedForGood, Exists
    <3>3. SessionBound'
      BY <2>1 DEF RotationInv, SessionBound, Exists
    <3>. QED
      BY <3>1, <3>2, <3>3
  <2>7. \A g \in Handlers, x \in Tokens :
          Refreshing(g, x)' <=> (IF g = h THEN x = s ELSE Refreshing(g, x))
    BY <1>1, <2>1, <2>2, <2>3 DEF Refreshing
  <2>8. \A g \in Handlers : At(g, "rotate")' <=> g = h \/ At(g, "rotate")
    BY <1>1, <2>3 DEF At
  <2>9. AloneInv'
    <3>1. SUFFICES ASSUME NEW x \in Tokens, x \notin raced'
                   PROVE  /\ \A f, g \in Handlers : Refreshing(f, x)' /\ Refreshing(g, x)' => f = g
                          /\ \A g \in Handlers : Refreshing(g, x)' =>
                               /\ x \notin ended'
                               /\ \A y \in Tokens : Live(y)' /\ token'[y].session = x =>
                                                      At(g, "rotate")' /\ y = job'[g].token
      BY DEF AloneInv
    <3>2. CASE x = s
      <4>1. \A g \in Handlers : Refreshing(g, x)' => g = h
        BY <2>1, <2>2, <2>7, <3>1, <3>2
      <4>2. \A y \in Tokens : Live(y)' /\ token'[y].session = x => y = t
        BY <1>1, <2>1, <2>2, <2>5, <3>1, <3>2 DEF RotationInv, OneLivePerSession
      <4>3. x \notin ended'
        BY <1>1, <2>1, <2>2, <2>5, <3>1, <3>2 DEF RotationInv, EndedForGood
      <4>. QED
        BY <2>3, <2>8, <4>1, <4>2, <4>3
    <3>3. CASE x # s
      BY <2>1, <2>3, <2>5, <2>7, <2>8, <3>1, <3>3 DEF RotationInv, AloneInv
    <3>. QED
      BY <3>2, <3>3
  <2>10. ASSUME NEW g \in Handlers
         PROVE  /\ At(g, "rotate")' => job'[g].token # None
                /\ job'[g] # None /\ job'[g].token # None =>
                     /\ job'[g].pc \in {"rotate", "issue"}
                     /\ token'[job'[g].token] # None
                     /\ job'[g].user = token'[job'[g].token].user
                     /\ job'[g].device = token'[job'[g].token].device
    <3>1. CASE g = h
      BY <1>1, <2>1, <2>3, <3>1 DEF Exists
    <3>2. CASE g # h
      BY <2>1, <2>3, <2>8, <3>2 DEF RotationInv, ExchangeInv, Exists
    <3>. QED
      BY <3>1, <3>2
  <2>11. ExchangeInv' /\ EndedExist'
    BY <2>1, <2>5, <2>10 DEF RotationInv, ExchangeInv, EndedExist, Exists
  <2>. QED
    BY <2>4, <2>6, <2>9, <2>11 DEF RotationInv
<1>. QED
  BY <1>2, <1>3

-----------------------------------------------------------------------------
\* Steps that create no token and give none back: they keep every session's
\* bounds, as long as they race on, or end, no more than they say.
LEMMA NoNewToken ==
  ASSUME TypeOK, RotationInv, TypeOK', ended' = ended, raced' = raced,
         \A t \in Tokens :
           /\ Exists(t)' <=> Exists(t)
           /\ Exists(t) => /\ token'[t].session = token[t].session
                           /\ token'[t].user = token[t].user
                           /\ token'[t].device = token[t].device
                           /\ token[t].revoked => token'[t].revoked
  PROVE  OneLivePerSession' /\ EndedForGood' /\ SessionBound' /\ EndedExist'
<1>1. \A t \in Tokens : Live(t)' => Live(t)
  BY DEF Live
<1>2. OneLivePerSession'
  BY <1>1 DEF RotationInv, OneLivePerSession, Live
<1>3. EndedForGood'
  BY <1>1 DEF RotationInv, EndedForGood
<1>4. SessionBound'
  BY RowFields DEF RotationInv, SessionBound
<1>5. EndedExist'
  <2>1. \A s \in ended : s \in Tokens
    BY DEF TypeOK
  <2>. QED
    BY <2>1 DEF RotationInv, EndedExist
<1>. QED
  BY <1>2, <1>3, <1>4, <1>5

\* The row exchanged is revoked, and nothing else about any row changes.
Rotated(h, x) ==
  /\ job[h] # None /\ job[h].token = x /\ job[h].pc = "rotate" /\ Exists(x)
  /\ job'[h] # None /\ job'[h].pc = "issue" /\ job'[h].token = x
  /\ job'[h].user = job[h].user /\ job'[h].device = job[h].device
  /\ \A g \in Handlers : g # h => job'[g] = job[g]
  /\ \A t \in Tokens :
       /\ Exists(t)' <=> Exists(t)
       /\ Exists(t) => /\ token'[t].session = token[t].session
                       /\ token'[t].user = token[t].user
                       /\ token'[t].device = token[t].device
                       /\ token[t].revoked => token'[t].revoked
                       /\ token'[t].expired = token[t].expired
       /\ Live(t)' <=> Live(t) /\ t # x
  /\ UNCHANGED <<account, raced, ended>>

LEMMA RotateEffect ==
  ASSUME TypeOK, RotationInv, NEW h \in Handlers, Rotate(h)
  PROVE  TypeOK' /\ \E x \in Tokens : Rotated(h, x)
<1>1. job[h] # None /\ job[h] \in Job /\ job[h].pc = "rotate" /\ job[h].token # None
  BY JobFields DEF RotationInv, ExchangeInv, Rotate, At
<1>2. PICK x \in Tokens : x = job[h].token
  BY <1>1, JobFields
<1>3. token[x] \in Row
  BY <1>1, <1>2, RowFields DEF RotationInv, ExchangeInv
<1>4. [token[x] EXCEPT !.revoked = TRUE] \in Row
  BY <1>3 DEF Row
<1>5. /\ \A t \in Tokens : token'[t] = IF t = x THEN [token[x] EXCEPT !.revoked = TRUE] ELSE token[t]
      /\ UNCHANGED <<account, raced, ended>>
  BY <1>2 DEF TypeOK, Rotate
<1>6. [job[h] EXCEPT !.pc = "issue"] \in Job
  BY <1>1 DEF Job
<1>7. \A g \in Handlers : job'[g] = IF g = h THEN [job[h] EXCEPT !.pc = "issue"] ELSE job[g]
  BY DEF TypeOK, Rotate
<1>0. TokensStay'
  <2>1. job'[h].token = x /\ Exists(x)
    BY <1>1, <1>2, <1>7 DEF Job, RotationInv, ExchangeInv
  <2>2. \A t \in Tokens : Exists(t) => token'[t] # None
    BY <1>4, <1>5, NoneAssumption DEF Exists
  <2>. QED
    BY <1>7, <2>1, <2>2, TokensKept
<1>8. TypeOK'
  BY <1>0, <1>2, <1>4, <1>6 DEF TypeOK, Rotate
<1>9. \A t \in Tokens :
        /\ Exists(t)' <=> Exists(t)
        /\ Exists(t) => /\ token'[t].session = token[t].session
                        /\ token'[t].user = token[t].user
                        /\ token'[t].device = token[t].device
                        /\ token[t].revoked => token'[t].revoked
                        /\ token'[t].expired = token[t].expired
        /\ Live(t)' <=> Live(t) /\ t # x
  <2>1. PICK new \in Row : new = [token[x] EXCEPT !.revoked = TRUE]
    BY <1>4
  <2>2. /\ new # None /\ new.revoked
        /\ new.session = token[x].session /\ new.user = token[x].user
        /\ new.device = token[x].device /\ new.expired = token[x].expired
    <3>1. new # None
      OBVIOUS
    <3>. QED
      BY <1>3, <2>1, <3>1 DEF Row
  <2>3. \A t \in Tokens : token'[t] = IF t = x THEN new ELSE token[t]
    BY <1>5, <2>1
  <2>4. token[x] # None
    BY <1>3
  <2>. QED
    BY <2>2, <2>3, <2>4 DEF Exists, Live
<1>10. /\ job'[h] # None /\ job'[h].pc = "issue" /\ job'[h].token = x
       /\ job'[h].user = job[h].user /\ job'[h].device = job[h].device
  <2>1. job'[h] \in Job /\ job'[h] = [job[h] EXCEPT !.pc = "issue"]
    BY <1>6, <1>7
  <2>2. job'[h] # None
    BY <2>1
  <2>. QED
    BY <1>1, <1>2, <2>1, <2>2 DEF Job
<1>. QED
  BY <1>1, <1>2, <1>3, <1>5, <1>7, <1>8, <1>9, <1>10 DEF Exists, Rotated

LEMMA RotateInv ==
  ASSUME TypeOK, RotationInv, NEW h \in Handlers, Rotate(h)
  PROVE  (TypeOK /\ RotationInv)'
<1>1. PICK x \in Tokens : Rotated(h, x)
  BY RotateEffect
<1>2. TypeOK'
  BY RotateEffect
<1>3. OneLivePerSession' /\ EndedForGood' /\ SessionBound' /\ EndedExist'
  BY <1>1, <1>2, NoNewToken DEF Rotated
<1>4. ExchangeInv'
  <2>1. ASSUME NEW g \in Handlers
        PROVE  /\ At(g, "rotate")' => job'[g].token # None
               /\ job'[g] # None /\ job'[g].token # None =>
                    /\ job'[g].pc \in {"rotate", "issue"}
                    /\ token'[job'[g].token] # None
                    /\ job'[g].user = token'[job'[g].token].user
                    /\ job'[g].device = token'[job'[g].token].device
    <3>1. CASE g = h
      BY <1>1, <3>1 DEF RotationInv, ExchangeInv, At, Exists, Rotated
    <3>2. CASE g # h
      BY <1>1, <3>2, JobFields DEF RotationInv, ExchangeInv, At, Exists, Rotated
    <3>. QED
      BY <3>1, <3>2
  <2>. QED
    BY <2>1 DEF ExchangeInv, Exists
<1>5. \A g \in Handlers, s \in Tokens : Refreshing(g, s)' <=> Refreshing(g, s)
  BY <1>1, JobFields DEF RotationInv, ExchangeInv, Refreshing, Rotated
<1>6. AloneInv'
  <2>1. SUFFICES ASSUME NEW s \in Tokens, s \notin raced, NEW g \in Handlers, Refreshing(g, s)
                 PROVE  \A t \in Tokens : Live(t)' /\ token'[t].session = s =>
                                            At(g, "rotate")' /\ t = job'[g].token
    BY <1>1, <1>5 DEF RotationInv, AloneInv, Rotated
  <2>2. CASE g = h
    BY <1>1, <2>1, <2>2 DEF RotationInv, AloneInv, Live, Exists, Rotated
  <2>3. CASE g # h
    BY <1>1, <2>1, <2>3 DEF RotationInv, AloneInv, Live, At, Rotated
  <2>. QED
    BY <2>2, <2>3
<1>. QED
  BY <1>2, <1>3, <1>4, <1>6 DEF RotationInv

\* A row comes that was not there, in the session of the row exchanged or in one of
\* its own.
Issued(h, x) ==
  /\ job[h] # None /\ job[h].pc = "issue" /\ ~Exists(x)
  /\ \A t \in Tokens : t # x => (Exists(t)' <=> Exists(t)) /\ (Live(t)' <=> Live(t)) /\ token'[t] = token[t]
  /\ Exists(x)' /\ Live(x)' /\ ~token'[x].expired /\ token'[x].session \in Tokens
  /\ token'[x].user = job[h].user /\ token'[x].device = job[h].device
  /\ \A t \in Tokens : Exists(t) => token[t].session # x
  /\ job[h].token = None => token'[x].session = x
  /\ job[h].token # None =>
       LET z == token'[x].session IN
       /\ job[h].token \in Tokens /\ Exists(job[h].token) /\ z = token[job[h].token].session
       /\ Refreshing(h, z)
       /\ z # x /\ Exists(z)
       /\ job[h].user = token[z].user /\ job[h].device = token[z].device
  /\ \A g \in Handlers : job'[g] = IF g = h THEN None ELSE job[g]
  /\ UNCHANGED <<account, raced, ended>>

LEMMA IssueEffect ==
  ASSUME TypeOK, RotationInv, NEW h \in Handlers, NEW x \in Tokens, Issue(h, x)
  PROVE  TypeOK' /\ Issued(h, x)
<1>. DEFINE s == IF job[h].token = None THEN x ELSE token[job[h].token].session
            row == [user |-> job[h].user, device |-> job[h].device, revoked |-> FALSE,
                    expired |-> FALSE, session |-> s]
<1>1. job[h] # None /\ job[h] \in Job /\ job[h].pc = "issue" /\ ~Exists(x)
  BY JobFields DEF Issue, At
<1>2. PICK z \in Tokens : z = s
  <2>1. job[h].token # None => job[h].token \in Tokens /\ Exists(job[h].token)
    BY <1>1, JobFields DEF RotationInv, ExchangeInv
  <2>. QED
    BY <2>1, RowFields
<1>3. row \in Row
  BY <1>1, <1>2, JobFields DEF Row
<1>4. PICK new \in Row : new = row
  BY <1>3
<1>5. /\ new.user = job[h].user /\ new.device = job[h].device /\ new.session = z
      /\ ~new.revoked /\ ~new.expired /\ new # None
  BY <1>2, <1>4
<1>6. \A t \in Tokens : token'[t] = IF t = x THEN new ELSE token[t]
  BY <1>4 DEF TypeOK, Issue, SessionOf
<1>7. UNCHANGED <<account, raced, ended>> /\ \A g \in Handlers : job'[g] = IF g = h THEN None ELSE job[g]
  BY DEF TypeOK, Issue, Done
<1>0. TokensStay'
  <2>1. \A t \in Tokens : Exists(t) => token'[t] # None
    BY <1>5, <1>6 DEF Exists
  <2>. QED
    BY <1>7, <2>1, TokensKept
<1>8. TypeOK'
  BY <1>0, <1>3 DEF TypeOK, Issue, SessionOf, Done
<1>9. /\ \A t \in Tokens : t # x => /\ Exists(t)' <=> Exists(t)
                                    /\ Live(t)' <=> Live(t)
                                    /\ token'[t] = token[t]
      /\ Exists(x)' /\ Live(x)' /\ token'[x] = new
  BY <1>5, <1>6 DEF Exists, Live
\* Nobody belongs to a session not opened yet.
<1>10. \A t \in Tokens : Exists(t) => token[t].session # x
  BY <1>1 DEF RotationInv, SessionBound
<1>11. job[h].token = None => z = x
  BY <1>2
<1>12. job[h].token # None =>
         /\ job[h].token \in Tokens /\ Exists(job[h].token) /\ z = token[job[h].token].session
         /\ Refreshing(h, z)
         /\ z # x /\ Exists(z)
         /\ job[h].user = token[z].user /\ job[h].device = token[z].device
  BY <1>1, <1>2, <1>10, JobFields DEF RotationInv, ExchangeInv, SessionBound, Refreshing
<1>. QED
  BY <1>1, <1>2, <1>5, <1>7, <1>8, <1>9, <1>10, <1>11, <1>12 DEF Issued

LEMMA IssueInv ==
  ASSUME TypeOK, RotationInv, NEW h \in Handlers, NEW x \in Tokens, Issue(h, x)
  PROVE  (TypeOK /\ RotationInv)'
<1>1. TypeOK' /\ Issued(h, x)
  BY IssueEffect
<1>2. PICK z \in Tokens : z = token'[x].session
  BY <1>1 DEF Issued
<1>3. /\ \A t \in Tokens : t # x => (Exists(t)' <=> Exists(t)) /\ (Live(t)' <=> Live(t)) /\ token'[t] = token[t]
      /\ Exists(x)' /\ Live(x)'
      /\ \A t \in Tokens : Exists(t) => token[t].session # x
      /\ job[h].token = None => z = x
      /\ job[h].token # None =>
           /\ job[h].token \in Tokens /\ Exists(job[h].token) /\ z = token[job[h].token].session
           /\ Refreshing(h, z) /\ z # x /\ Exists(z)
           /\ job[h].user = token[z].user /\ job[h].device = token[z].device
  BY <1>1, <1>2 DEF Issued
\* Nor has any live token of this session a place beside the new one.
<1>4. ASSUME NEW t \in Tokens, Live(t), token[t].session = z, z \notin raced
       PROVE  FALSE
  <2>1. job[h].token # None
    BY <1>3, <1>4 DEF Live
  <2>. QED
    BY <1>1, <1>3, <1>4, <2>1 DEF RotationInv, AloneInv, At, Issued
<1>5. z \in ended => z \in raced
  <2>1. job[h].token = None => z \notin ended
    BY <1>1, <1>3 DEF RotationInv, EndedExist, Issued
  <2>2. job[h].token # None => z \notin ended \/ z \in raced
    BY <1>3 DEF RotationInv, AloneInv
  <2>. QED
    BY <2>1, <2>2
<1>6. SessionBound'
  <2>1. SUFFICES ASSUME NEW t \in Tokens, Exists(t)'
                 PROVE  LET first == token'[t].session IN
                        /\ token'[first] # None
                        /\ token'[t].user = token'[first].user
                        /\ token'[t].device = token'[first].device
    BY DEF SessionBound, Exists
  <2>2. CASE t = x
    BY <1>1, <1>2, <1>3, <2>2 DEF Exists, Issued
  <2>3. CASE t # x
    BY <1>3, <2>1, <2>3, RowFields DEF RotationInv, SessionBound, Exists
  <2>. QED
    BY <2>2, <2>3
<1>7. OneLivePerSession'
  BY <1>2, <1>1, <1>3, <1>4 DEF RotationInv, OneLivePerSession, Issued
<1>8. EndedForGood' /\ EndedExist'
  <2>1. EndedForGood'
    BY <1>2, <1>1, <1>3, <1>5 DEF RotationInv, EndedForGood, Issued
  <2>2. EndedExist'
    BY <1>1, <1>3 DEF TypeOK, RotationInv, EndedExist, Issued
  <2>. QED
    BY <2>1, <2>2
<1>9. \A g \in Handlers : job'[g] # None =>
         /\ job'[g] = job[g] /\ g # h
         /\ job[g].token # None =>
              job[g].token \in Tokens /\ job[g].token # x /\ token'[job[g].token] = token[job[g].token]
  BY <1>1, <1>3, JobFields DEF RotationInv, ExchangeInv, Issued
<1>10. ExchangeInv'
  BY <1>9 DEF RotationInv, ExchangeInv, At, Exists
<1>11. AloneInv'
  <2>1. \A g \in Handlers, y \in Tokens : Refreshing(g, y)' => Refreshing(g, y) /\ g # h
    BY <1>9 DEF Refreshing
  <2>2. SUFFICES ASSUME NEW y \in Tokens, y \notin raced, NEW g \in Handlers, Refreshing(g, y), g # h,
                        job'[g] = job[g]
                 PROVE  \A t \in Tokens : Live(t)' /\ token'[t].session = y =>
                                            At(g, "rotate")' /\ t = job'[g].token
    BY <1>1, <1>9, <2>1 DEF RotationInv, AloneInv, Refreshing, Issued
  <2>3. y # z
    <3>1. CASE job[h].token = None
      BY <1>3, <2>2, <3>1, JobFields DEF RotationInv, ExchangeInv, Refreshing
    <3>2. CASE job[h].token # None
      BY <1>3, <2>2, <3>2 DEF RotationInv, AloneInv
    <3>. QED
      BY <3>1, <3>2
  <2>. QED
    BY <1>1, <1>2, <1>3, <2>2, <2>3 DEF RotationInv, AloneInv, At, Issued
<1>. QED
  BY <1>1, <1>6, <1>7, <1>8, <1>10, <1>11 DEF RotationInv, Issued

LEMMA MarkDeletedInv ==
  ASSUME TypeOK, RotationInv, NEW h \in Handlers, MarkDeleted(h)
  PROVE  (TypeOK /\ RotationInv)'
<1>1. job[h] # None /\ job[h] \in Job /\ job[h].pc = "delete" /\ job[h].token = None
  BY JobFields DEF RotationInv, ExchangeInv, MarkDeleted, At
<1>2. PICK j \in Job : j = [job[h] EXCEPT !.pc = "revoke"]
  BY <1>1 DEF Job
<1>3. j.pc = "revoke" /\ j.token = None
  BY <1>1, <1>2 DEF Job
<1>4. /\ \A g \in Handlers : job'[g] = IF g = h THEN j ELSE job[g]
      /\ UNCHANGED <<token, raced, ended>>
  BY <1>2 DEF TypeOK, MarkDeleted
<1>0. TokensStay'
  BY <1>3, <1>4, TokensKept DEF Exists
<1>5. TypeOK'
  BY <1>0, <1>2 DEF TypeOK, MarkDeleted
<1>6. /\ \A g \in Handlers, s \in Tokens : Refreshing(g, s)' <=> Refreshing(g, s)
      /\ \A g \in Handlers : At(g, "rotate")' <=> At(g, "rotate")
      /\ \A g \in Handlers : job'[g] # None /\ job'[g].token # None =>
           job'[g] = job[g] /\ job[g] # None
      /\ \A g \in Handlers : At(g, "rotate") => job'[g] = job[g]
  BY <1>1, <1>3, <1>4 DEF Refreshing, At
<1>7. \A t \in Tokens : (Live(t)' <=> Live(t)) /\ (Exists(t)' <=> Exists(t))
  BY <1>4 DEF Live, Exists
<1>8. OneLivePerSession' /\ EndedForGood' /\ SessionBound' /\ EndedExist'
  BY <1>4, <1>5, <1>7, NoNewToken
<1>9. ExchangeInv'
  BY <1>4, <1>6 DEF RotationInv, ExchangeInv, Exists
<1>10. AloneInv'
  BY <1>4, <1>6, <1>7 DEF RotationInv, AloneInv
<1>. QED
  BY <1>5, <1>8, <1>9, <1>10 DEF RotationInv

LEMMA CutShortInv ==
  ASSUME TypeOK, RotationInv, NEW h \in Handlers, CutShort(h)
  PROVE  (TypeOK /\ RotationInv)'
<1>1. /\ \A g \in Handlers : job'[g] = IF g = h THEN None ELSE job[g]
      /\ UNCHANGED <<token, raced, ended>>
  BY DEF TypeOK, CutShort, Done
<1>0. TokensStay'
  BY <1>1, TokensKept DEF Exists
<1>2. TypeOK'
  BY <1>0 DEF TypeOK, CutShort, Done
<1>3. /\ \A g \in Handlers, s \in Tokens : Refreshing(g, s)' => Refreshing(g, s) /\ job'[g] = job[g]
      /\ \A g \in Handlers : \A pc : At(g, pc)' => At(g, pc) /\ job'[g] = job[g]
      /\ \A g \in Handlers : job'[g] # None => job'[g] = job[g] /\ job[g] # None
  BY <1>1 DEF Refreshing, At
<1>4. \A t \in Tokens : (Live(t)' <=> Live(t)) /\ (Exists(t)' <=> Exists(t))
  BY <1>1 DEF Live, Exists
<1>5. OneLivePerSession' /\ EndedForGood' /\ SessionBound' /\ EndedExist'
  BY <1>1, <1>2, <1>4, NoNewToken
<1>6. ExchangeInv'
  BY <1>1, <1>3 DEF RotationInv, ExchangeInv, Exists
<1>7. AloneInv'
  BY <1>1, <1>3, <1>4 DEF RotationInv, AloneInv, At, Refreshing
<1>. QED
  BY <1>2, <1>5, <1>6, <1>7 DEF RotationInv

LEMMA ExpireInv ==
  ASSUME TypeOK, RotationInv, NEW x \in Tokens, Expire(x)
  PROVE  (TypeOK /\ RotationInv)'
<1>1. token[x] \in Row
  BY RowFields DEF Expire
<1>2. PICK new \in Row : new = [token[x] EXCEPT !.expired = TRUE]
  BY <1>1 DEF Row
<1>3. /\ new # None /\ new.revoked = token[x].revoked
      /\ new.session = token[x].session /\ new.user = token[x].user
      /\ new.device = token[x].device
  <2>1. new # None
    OBVIOUS
  <2>. QED
    BY <1>1, <1>2, <2>1 DEF Row
<1>4. /\ \A t \in Tokens : token'[t] = IF t = x THEN new ELSE token[t]
      /\ UNCHANGED <<account, job, raced, ended>>
  BY <1>2 DEF TypeOK, Expire
<1>0. TokensStay'
  <2>1. \A g \in Handlers : job[g] # None /\ job[g].token # None =>
          job[g].token \in Tokens /\ Exists(job[g].token)
    BY JobFields DEF TypeOK, TokensStay
  <2>. QED
    BY <1>3, <1>4, <2>1 DEF TokensStay, Exists
<1>5. TypeOK'
  BY <1>0, <1>2 DEF TypeOK, Expire
<1>6. \A t \in Tokens :
        /\ Exists(t)' <=> Exists(t)
        /\ token'[t].session = token[t].session
        /\ token'[t].user = token[t].user
        /\ token'[t].device = token[t].device
        /\ token[t].revoked => token'[t].revoked
        /\ Live(t)' <=> Live(t)
  BY <1>3, <1>4 DEF Expire, Exists, Live
<1>7. OneLivePerSession' /\ EndedForGood' /\ SessionBound' /\ EndedExist'
  BY <1>4, <1>5, <1>6, NoNewToken
<1>8. \A g \in Handlers, s \in Tokens : Refreshing(g, s)' <=> Refreshing(g, s)
  BY <1>4, <1>6, JobFields DEF Refreshing
<1>9. ExchangeInv'
  BY <1>4, <1>6, JobFields DEF RotationInv, ExchangeInv, Exists, At
<1>10. AloneInv'
  BY <1>4, <1>6, <1>8 DEF RotationInv, AloneInv, At
<1>. QED
  BY <1>5, <1>7, <1>9, <1>10 DEF RotationInv

\* The tokens selected are revoked, and nothing else about any row changes.
Revoked(h) ==
  LET sessions == {token[t].session : t \in {x \in Tokens : Selected(h, x)}} IN
  /\ job[h] # None /\ job[h].pc = "revoke"
  /\ \A s \in sessions : s \in Tokens /\ Exists(s)
  /\ \A t \in Tokens :
       /\ Exists(t)' <=> Exists(t)
       /\ Exists(t) => /\ token'[t].session = token[t].session
                       /\ token'[t].user = token[t].user
                       /\ token'[t].device = token[t].device
                       /\ token'[t].expired = token[t].expired
       /\ Live(t)' <=> Live(t) /\ ~Selected(h, t)
  /\ ended' = ended \cup sessions
  /\ raced' = raced \cup {s \in sessions : \E g \in Handlers : Refreshing(g, s)}
  /\ \A g \in Handlers : job'[g] = IF g = h THEN None ELSE job[g]
  /\ account' = account

LEMMA RevokeEffect ==
  ASSUME TypeOK, RotationInv, NEW h \in Handlers, Revoke(h)
  PROVE  TypeOK' /\ Revoked(h)
<1>. DEFINE sessions == {token[t].session : t \in {x \in Tokens : Selected(h, x)}}
<1>1. \A s \in sessions : s \in Tokens /\ Exists(s)
  BY RowFields DEF RotationInv, SessionBound, Selected
<1>3. \A t \in Tokens : Exists(t) => [token[t] EXCEPT !.revoked = TRUE] \in Row
  <2>1. SUFFICES ASSUME NEW t \in Tokens, Exists(t) PROVE [token[t] EXCEPT !.revoked = TRUE] \in Row
    OBVIOUS
  <2>2. token[t] \in Row
    BY <2>1, RowFields
  <2>. QED
    BY <2>2 DEF Row
<1>4. /\ \A t \in Tokens : token'[t] = IF Selected(h, t) THEN [token[t] EXCEPT !.revoked = TRUE]
                                                         ELSE token[t]
      /\ token' \in [Tokens -> Row \cup {None}]
  BY <1>3 DEF TypeOK, Revoke, Selected
<1>5. /\ ended' = ended \cup sessions
      /\ raced' = raced \cup {s \in sessions : \E g \in Handlers : Refreshing(g, s)}
      /\ account' = account
      /\ \A g \in Handlers : job'[g] = IF g = h THEN None ELSE job[g]
  BY DEF TypeOK, Revoke, Done
<1>0. TokensStay'
  <2>1. \A t \in Tokens : Exists(t) => token'[t] # None
    BY <1>3, <1>4, NoneAssumption DEF Exists
  <2>. QED
    BY <1>5, <2>1, TokensKept
<1>6. TypeOK'
  BY <1>0, <1>1, <1>4, <1>5 DEF TypeOK, Revoke, Done
<1>7. \A t \in Tokens :
        /\ Exists(t)' <=> Exists(t)
        /\ Exists(t) => /\ token'[t].session = token[t].session
                        /\ token'[t].user = token[t].user
                        /\ token'[t].device = token[t].device
                        /\ token'[t].expired = token[t].expired
        /\ Live(t)' <=> Live(t) /\ ~Selected(h, t)
  <2>1. SUFFICES ASSUME NEW t \in Tokens
                 PROVE  /\ Exists(t)' <=> Exists(t)
                        /\ Exists(t) => /\ token'[t].session = token[t].session
                                        /\ token'[t].user = token[t].user
                                        /\ token'[t].device = token[t].device
                                        /\ token'[t].expired = token[t].expired
                        /\ Live(t)' <=> Live(t) /\ ~Selected(h, t)
    OBVIOUS
  <2>2. CASE Selected(h, t)
    <3>1. token[t] \in Row /\ Exists(t)
      BY <2>2, RowFields DEF Selected
    <3>2. PICK new \in Row : new = [token[t] EXCEPT !.revoked = TRUE]
      BY <1>3, <3>1
    <3>3. new # None
      OBVIOUS
    <3>4. /\ new.revoked /\ new.session = token[t].session /\ new.user = token[t].user
          /\ new.device = token[t].device /\ new.expired = token[t].expired
      BY <3>1, <3>2 DEF Row
    <3>. QED
      BY <1>4, <2>2, <3>1, <3>2, <3>3, <3>4 DEF Exists, Live
  <2>3. CASE ~Selected(h, t)
    BY <1>4, <2>3 DEF Exists, Live
  <2>. QED
    BY <2>2, <2>3
<1>8. job[h] # None /\ job[h].pc = "revoke"
  BY DEF Revoke, At
<1>. QED
  BY <1>1, <1>5, <1>6, <1>7, <1>8 DEF Revoked

\* The updateMany reaches all the tokens of a session or none of them.
LEMMA RevokeInv ==
  ASSUME TypeOK, RotationInv, NEW h \in Handlers, Revoke(h)
  PROVE  (TypeOK /\ RotationInv)'
<1>. DEFINE sessions == {token[t].session : t \in {x \in Tokens : Selected(h, x)}}
<1>1. TypeOK' /\ Revoked(h)
  BY RevokeEffect
<1>2. \A s \in sessions : s \in Tokens /\ Exists(s)
  BY <1>1 DEF Revoked
<1>3. ASSUME NEW t \in Tokens, Exists(t), token[t].session \in sessions
      PROVE  Selected(h, t)
  <2>1. PICK x \in Tokens : Selected(h, x) /\ token[x].session = token[t].session
    BY <1>3
  <2>2. token[x].user = token[t].user /\ token[x].device = token[t].device
    BY <1>3, <2>1 DEF RotationInv, SessionBound, Selected
  <2>. QED
    BY <1>3, <2>1, <2>2 DEF Selected
<1>4. OneLivePerSession'
  BY <1>1 DEF RotationInv, OneLivePerSession, Live, Revoked
<1>5. EndedForGood'
  BY <1>3, <1>1 DEF RotationInv, EndedForGood, Revoked
<1>6. SessionBound'
  BY <1>1, RowFields DEF RotationInv, SessionBound, Revoked
<1>7. EndedExist'
  BY <1>2, <1>1 DEF TypeOK, RotationInv, EndedExist, Revoked
<1>8. \A g \in Handlers : job'[g] # None =>
         /\ job'[g] = job[g]
         /\ job[g].token # None => /\ job[g].token \in Tokens /\ Exists(job[g].token)
                                   /\ token'[job[g].token].session = token[job[g].token].session
                                   /\ token'[job[g].token].user = token[job[g].token].user
                                   /\ token'[job[g].token].device = token[job[g].token].device
                                   /\ token'[job[g].token] # None
  BY <1>1, JobFields DEF RotationInv, ExchangeInv, Exists, Revoked
<1>9. ExchangeInv'
  BY <1>8 DEF RotationInv, ExchangeInv, At, Exists
<1>10. \A g \in Handlers, s \in Tokens : Refreshing(g, s)' => Refreshing(g, s) /\ job'[g] = job[g]
  BY <1>8 DEF Refreshing
<1>11. AloneInv'
  <2>1. SUFFICES ASSUME NEW s \in Tokens, s \notin raced',
                        NEW g \in Handlers, Refreshing(g, s)'
                 PROVE  /\ \A f \in Handlers : Refreshing(f, s)' => f = g
                        /\ s \notin ended'
                        /\ \A t \in Tokens : Live(t)' /\ token'[t].session = s =>
                                               At(g, "rotate")' /\ t = job'[g].token
    BY  DEF AloneInv
  <2>2. s \notin raced /\ s \notin sessions /\ Refreshing(g, s) /\ job'[g] = job[g]
    BY <1>1, <1>10, <2>1 DEF Revoked
  <2>. QED
    BY <1>1, <1>10, <2>2 DEF RotationInv, AloneInv, At, Live, Revoked
<1>. QED
  BY <1>1, <1>4, <1>5, <1>6, <1>7, <1>9, <1>11 DEF RotationInv, Revoked

LEMMA NextInv ==
  ASSUME TypeOK, RotationInv, [Next]_vars
  PROVE  (TypeOK /\ RotationInv)'
<1>1. CASE UNCHANGED vars
  <2>1. TypeOK'
    BY <1>1 DEF TypeOK, TokensStay, Exists, vars
  <2>2. ExchangeInv' /\ AloneInv' /\ EndedExist'
    BY <1>1 DEF RotationInv, ExchangeInv, AloneInv, EndedExist, Refreshing, Exists, Live, At, vars
  <2>3. SessionBound' /\ OneLivePerSession' /\ EndedForGood'
    BY <1>1 DEF RotationInv, SessionBound, OneLivePerSession, EndedForGood, Exists, Live, vars
  <2>. QED
    BY <2>1, <2>2, <2>3 DEF RotationInv
<1>2. CASE Next
  BY <1>2, LoginInv, LogoutInv, DeleteInv, RefreshInv, IssueInv, RotateInv, MarkDeletedInv,
     RevokeInv, CutShortInv, ExpireInv DEF Next
<1>. QED
  BY <1>1, <1>2

LEMMA Invariants == Spec => [](TypeOK /\ RotationInv)
<1>1. Init => TypeOK /\ RotationInv
  BY DEF Init, TypeOK, TokensStay, RotationInv, ExchangeInv, AloneInv, EndedExist, SessionBound,
         OneLivePerSession, EndedForGood, Refreshing, Exists, Live, At
<1>. QED
  BY <1>1, NextInv, PTL DEF Spec

\* Type correctness of the token table, the accounts and the requests' jobs.
THEOREM TypeCorrect == Spec => []TypeOK
BY Invariants, PTL

\* Rotation is single-use as long as two refreshes of a session do not overlap:
\* the session has one live token at most (AuthService.refresh 303-307).
THEOREM SingleUseUnlessRaced == Spec => []OneLivePerSession
<1>1. RotationInv => OneLivePerSession
  BY DEF RotationInv
<1>. QED
  BY <1>1, Invariants, PTL

\* A session ended while nobody refreshes it has no live token ever after
\* (the updateMany of refresh 294-298, logout 315-330, deleteAccount).
THEOREM RevocationIsFinal == Spec => []EndedForGood
<1>1. RotationInv => EndedForGood
  BY DEF RotationInv
<1>. QED
  BY <1>1, Invariants, PTL

\* Every token descends from a login of the same user on the same device.
THEOREM SessionsStayBound == Spec => []SessionBound
<1>1. RotationInv => SessionBound
  BY DEF RotationInv
<1>. QED
  BY <1>1, Invariants, PTL
-----------------------------------------------------------------------------
\* The client of PassApi, over the sessions.

LEMMA CallFields ==
  ASSUME ClientTypeOK, NEW c \in Calls, call[c] # None
  PROVE  /\ call[c] \in Call
         /\ call[c].kind \in {"get", "me", "login", "logout"}
         /\ call[c].pc \in {"asked", "refresh", "served", "granted"}
         /\ call[c].pair \in Tokens \cup {None}
         /\ call[c].old \in Tokens \cup {None}
         /\ call[c].h \in Handlers \cup {None}
         /\ call[c].new \in Tokens \cup {None}
         /\ call[c].retried \in BOOLEAN
BY DEF ClientTypeOK, Call

\* What the client holds names tokens there are.
LEMMA Known ==
  ASSUME ClientTypeOK, KnownInv
  PROVE  /\ stored # None => stored \in Tokens /\ Exists(stored)
         /\ \A t \in lapsed \cup over \cup crossed : t \in Tokens /\ Exists(t)
         /\ \A c \in Calls : call[c] # None =>
              /\ call[c].pair # None => call[c].pair \in Tokens /\ Exists(call[c].pair)
              /\ call[c].old # None => call[c].old \in Tokens /\ Exists(call[c].old)
              /\ call[c].new # None => call[c].new \in Tokens /\ Exists(call[c].new)
<1>1. \A t \in lapsed \cup over \cup crossed : t \in Tokens /\ t # None /\ t \in Mentioned
  BY DEF ClientTypeOK, Mentioned
<1>2. \A c \in Calls : call[c] # None =>
        {call[c].pair, call[c].old, call[c].new} \subseteq Mentioned
  BY DEF Mentioned
<1>3. \A c \in Calls : call[c] # None =>
        {call[c].pair, call[c].old, call[c].new} \subseteq Tokens \cup {None}
  BY CallFields
<1>4. stored \in Mentioned
  BY DEF Mentioned
<1>. QED
  BY <1>1, <1>2, <1>3, <1>4 DEF KnownInv, ClientTypeOK

\* The same, to be shown of the next state.
LEMMA KnownNext ==
  ASSUME ClientTypeOK',
         (stored # None => Exists(stored))',
         (\A t \in lapsed \cup over \cup crossed : Exists(t))',
         (\A c \in Calls : call[c] # None =>
              /\ call[c].pair # None => Exists(call[c].pair)
              /\ call[c].old # None => Exists(call[c].old)
              /\ call[c].new # None => Exists(call[c].new))'
  PROVE  KnownInv'
BY DEF KnownInv, Mentioned

LEMMA SessionKnown ==
  ASSUME TypeOK, RotationInv, NEW t \in Tokens, Exists(t)
  PROVE  /\ token[t].session \in Tokens
         /\ Exists(token[t].session)
         /\ SessionsOf(t) = {token[t].session}
BY RowFields DEF RotationInv, SessionBound, SessionsOf

LEMMA RenewingKnown ==
  ASSUME TypeOK, RotationInv, ClientTypeOK, KnownInv, NEW c \in Calls, NEW s, Renewing(c, s)
  PROVE  /\ call[c] # None /\ call[c].old \in Tokens /\ Exists(call[c].old)
         /\ s = token[call[c].old].session
         /\ s \in Tokens /\ Exists(s)
<1>1. call[c] # None /\ call[c].old # None /\ s = token[call[c].old].session
  BY DEF Renewing, SessionsOf
<1>. QED
  BY <1>1, Known, SessionKnown

-----------------------------------------------------------------------------
(***************************************************************************)
(* The client of PassApi.tla on that server. ClientInv ties each call to   *)
(* the handler that serves it, to the token it exchanges and to the one it *)
(* is granted; below, one lemma for each step the client can take.         *)
(***************************************************************************)
\* Without a step of the server.
LEMMA ServerStands ==
  ASSUME UNCHANGED vars
  PROVE  /\ \A t \in Tokens : (Exists(t)' <=> Exists(t)) /\ (Live(t)' <=> Live(t))
         /\ \A h \in Handlers, s \in Tokens : Refreshing(h, s)' <=> Refreshing(h, s)
         /\ token' = token /\ job' = job /\ ended' = ended
         /\ OwnInv => OwnInv'
BY DEF vars, Exists, Live, Refreshing, OwnInv

\* A call ends, and leaves the tokens stored or has them cleared.
LEMMA Ending ==
  ASSUME TypeOK, RotationInv, ClientTypeOK, ClientInv, UNCHANGED <<vars, lapsed>>,
         NEW c \in Calls, call[c] # None, call' = [call EXCEPT ![c] = None],
         crossed \subseteq crossed', crossed' \subseteq crossed \cup Renewed,
         \/ stored' = stored /\ over' = over
         \/ /\ stored' = None /\ over' = over \cup SessionsOf(stored)
            /\ \A d \in Calls \ {c}, s \in Tokens : Renewing(d, s) => s \in crossed',
         \A s \in Tokens : Renewing(c, s) =>
           \/ s \in crossed'
           \/ Is(c, "refresh") /\ (s \in ended \/ stored' = None \/ Live(call[c].old))
  PROVE  ClientTypeOK' /\ ClientInv'
<1>1. \A d \in Calls : call'[d] = IF d = c THEN None ELSE call[d]
  BY DEF ClientTypeOK
<1>2. stored # None => SessionsOf(stored) \subseteq Tokens /\ \A s \in SessionsOf(stored) : Exists(s)
  BY Known, SessionKnown DEF ClientInv
<1>3. stored = None => SessionsOf(stored) = {}
  BY DEF SessionsOf
<1>4. ClientTypeOK'
  BY <1>2, <1>3 DEF ClientTypeOK, Renewed
<1>5. /\ \A d \in Calls : call'[d] # None => d # c /\ call'[d] = call[d]
      /\ \A d \in Calls, s \in Tokens : Renewing(d, s)' <=> d # c /\ Renewing(d, s)
      /\ \A d \in Calls : \A pc : Is(d, pc)' <=> d # c /\ Is(d, pc)
  BY <1>1 DEF Renewing, Is, SessionsOf, vars
<1>6. \A s \in Renewed : s \in Tokens /\ Exists(s) /\ \E d \in Calls : Renewing(d, s)
  BY RenewingKnown DEF Renewed, ClientInv
<1>7. OwnInv'
  BY ServerStands DEF ClientInv
<1>8. KnownInv'
  <2>1. (stored # None => Exists(stored))'
    BY Known, ServerStands DEF ClientInv, ClientTypeOK
  <2>2. \A t \in crossed' \cup over' \cup lapsed' : t \in Tokens /\ Exists(t)
    BY Known, <1>2, <1>3, <1>6 DEF ClientInv
  <2>3. (\A d \in Calls : call[d] # None =>
              /\ call[d].pair # None => Exists(call[d].pair)
              /\ call[d].old # None => Exists(call[d].old)
              /\ call[d].new # None => Exists(call[d].new))'
    BY <1>5, Known, ServerStands DEF ClientInv
  <2>. QED
    BY <1>4, <2>1, <2>2, <2>3, ServerStands, KnownNext
<1>9. CallInv'
  BY <1>5, ServerStands DEF ClientInv, CallInv
<1>10. ServedInv'
  <2>1. \A h \in Handlers, s \in Tokens : Refreshing(h, s)' =>
          s \in crossed' \/ \E d \in Calls : Is(d, "served")' /\ call'[d].h = h
    <3>1. SUFFICES ASSUME NEW h \in Handlers, NEW s \in Tokens, Refreshing(h, s), s \notin crossed'
                   PROVE  \E d \in Calls : Is(d, "served")' /\ call'[d].h = h
      BY ServerStands
    <3>2. PICK d \in Calls : Is(d, "served") /\ call[d].h = h
      BY <3>1 DEF ClientInv, ServedInv
    <3>3. d # c
      <4>1. SUFFICES ASSUME d = c PROVE FALSE
        OBVIOUS
      <4>2. job[h].token = call[c].old /\ job[h].token # None /\ token[job[h].token].session = s
        BY <3>1, <3>2, <4>1, NoCallAssumption DEF ClientInv, ServedInv, Refreshing
      <4>3. Renewing(c, s)
        BY <4>2 DEF Renewing, SessionsOf
      <4>. QED
        BY <3>1, <3>2, <4>1, <4>3 DEF Is
    <3>. QED
      BY <3>2, <3>3, <1>5, <1>1
  <2>. QED
    BY <2>1, <1>5, ServerStands DEF ClientInv, ServedInv
<1>11. RenewingInv'
  <2>1. \A d, e \in Calls : \A s \in Tokens : Renewing(d, s)' /\ Renewing(e, s)' => d = e \/ s \in crossed'
    BY <1>5 DEF ClientInv, RenewingInv
  <2>2. \A d \in Calls : \A s \in Tokens : Renewing(d, s)' =>
          stored' = call'[d].old \/ (s \in crossed' /\ SessionsOf(stored)' \subseteq crossed')
    BY <1>1, <1>5, ServerStands DEF ClientInv, RenewingInv, SessionsOf
  <2>3. \A d \in Calls : \A s \in over' : Renewing(d, s)' => s \in crossed'
    BY <1>2, <1>3, <1>5, Known DEF ClientInv, RenewingInv
  <2>4. \A d \in Calls : \A s \in Tokens \ (ended' \cup crossed') :
          Renewing(d, s)' /\ Is(d, "refresh")' => (Live(call[d].old))'
    <3>1. SUFFICES ASSUME NEW d \in Calls, NEW s \in Tokens \ (ended' \cup crossed'),
                          Renewing(d, s)', Is(d, "refresh")'
                   PROVE  (Live(call[d].old))'
      OBVIOUS
    <3>2. PICK t \in Tokens : t = call[d].old
      BY <1>5, <3>1, RenewingKnown DEF ClientInv
    <3>3. Live(t) /\ call'[d] = call[d]
      BY <1>1, <1>5, <3>1, <3>2, ServerStands DEF ClientInv, RenewingInv
    <3>4. Live(t)'
      BY <3>3, ServerStands
    <3>. QED
      BY <3>2, <3>3, <3>4
  <2>. QED
    BY <2>1, <2>2, <2>3, <2>4 DEF RenewingInv
<1>12. GrantedInv'
  <2>. SUFFICES ASSUME NEW d \in Calls, Is(d, "granted")', call'[d].new # None
                PROVE (LET t == call[d].new IN
                  /\ t # stored /\ t \notin lapsed
                  /\ \A e \in Calls : call[e] # None => t \notin {call[e].pair, call[e].old} /\ (t = call[e].new => d = e)
                  /\ Live(t) \/ token[t].session \in ended \cup crossed
                  /\ call[d].kind = "login" =>
                       /\ t \notin over \cup crossed
                       /\ \A u \in Tokens : Exists(u) => (token[u].session = t <=> u = t))'
    BY DEF GrantedInv
  <2>1. d # c /\ call'[d] = call[d] /\ Is(d, "granted")
    BY <1>1, <1>5
  <2>2. PICK t \in Tokens : t = call[d].new /\ Exists(t)
    BY <2>1, Known DEF ClientInv, Is
  <2>3. /\ t # stored /\ t \notin lapsed
        /\ \A e \in Calls : call[e] # None => t \notin {call[e].pair, call[e].old} /\ (t = call[e].new => d = e)
        /\ Live(t) \/ token[t].session \in ended \cup crossed
        /\ call[d].kind = "login" =>
             /\ t \notin over \cup crossed
             /\ \A u \in Tokens : Exists(u) => (token[u].session = t <=> u = t)
    BY <2>1, <2>2 DEF ClientInv, GrantedInv
  <2>4. call[d].kind = "login" => t \notin over' \cup crossed'
    <3>1. SUFFICES ASSUME call[d].kind = "login" PROVE t \notin SessionsOf(stored) /\ t \notin Renewed
      BY <2>3, <1>2, <1>3
    <3>2. t \notin SessionsOf(stored)
      BY <2>3, <3>1, Known DEF SessionsOf, ClientInv
    <3>3. t \notin Renewed
      BY <2>3, <3>1, <1>6, RenewingKnown DEF ClientInv
    <3>. QED
      BY <3>2, <3>3
  <2>5. t # None
    OBVIOUS
  <2>. QED
    BY <1>5, <2>1, <2>2, <2>3, <2>4, <2>5, ServerStands
<1>13. SignedOutStays'
  BY <1>2, ServerStands DEF ClientInv, SignedOutStays, SessionsOf
<1>14. StoredIsCurrent'
  <2>1. SUFFICES ASSUME stored' = stored, stored # None,
                        NEW s \in Tokens, s \in SessionsOf(stored), s \notin ended \cup crossed',
                        \A d \in Calls : ~Renewing(d, s)'
                 PROVE  Live(stored)
    BY <1>2, <1>3, Known, ServerStands DEF ClientInv, StoredIsCurrent, SessionsOf, vars
  <2>2. CASE Renewing(c, s)
    BY <2>1, <2>2 DEF ClientInv, RenewingInv
  <2>3. CASE ~Renewing(c, s)
    BY <1>5, <2>1, <2>3 DEF ClientInv, StoredIsCurrent
  <2>. QED
    BY <2>2, <2>3
<1>. QED
  BY <1>4, <1>7, <1>8, <1>9, <1>10, <1>11, <1>12, <1>13, <1>14 DEF ClientInv

\* End(): the call has no refresh under way, or one the server has not taken.
LEMMA EndInv ==
  ASSUME TypeOK, RotationInv, ClientTypeOK, ClientInv, UNCHANGED <<vars, lapsed>>,
         NEW c \in Calls, call[c] # None, Is(c, "refresh") \/ call[c].old = None,
         NEW status, End(c, status)
  PROVE  ClientTypeOK' /\ ClientInv'
<1>1. call' = [call EXCEPT ![c] = None]
  BY DEF End
<1>2. \A s \in Tokens : Renewing(c, s) =>
        \/ s \in crossed
        \/ Is(c, "refresh") /\ (s \in ended \/ stored' = None \/ Live(call[c].old))
  BY DEF ClientInv, RenewingInv, Renewing, SessionsOf
<1>3. CASE SignOut(c)
  <2>1. /\ stored' = None /\ over' = over \cup SessionsOf(stored)
        /\ crossed' = crossed \cup {s \in Tokens : \E d \in Calls \ {c} : Renewing(d, s)}
    BY <1>3 DEF SignOut
  <2>. QED
    BY <1>1, <1>2, <2>1, Ending DEF Renewed
<1>4. CASE UNCHANGED <<stored, over, crossed>>
  BY <1>1, <1>2, <1>4, Ending
<1>. QED
  BY <1>3, <1>4 DEF End

\* The answer comes, and with it the call is over.
LEMMA AnsweredInv ==
  ASSUME TypeOK, RotationInv, ClientTypeOK, ClientInv, NEW c \in Calls, Answered(c)
  PROVE  ClientTypeOK' /\ ClientInv'
BY EndInv DEF Answered, Is, ClientInv, CallInv

\* Logout clears what is stored, whatever the server said.
LEMMA LoggedOutInv ==
  ASSUME TypeOK, RotationInv, ClientTypeOK, ClientInv, NEW c \in Calls, LoggedOut(c)
  PROVE  ClientTypeOK' /\ ClientInv'
BY EndInv DEF LoggedOut, Is, ClientInv, CallInv

\* The server refuses the refresh: the user is signed out.
LEMMA RefusedInv ==
  ASSUME TypeOK, RotationInv, ClientTypeOK, ClientInv, NEW c \in Calls, Refused(c)
  PROVE  ClientTypeOK' /\ ClientInv'
BY EndInv DEF Refused, Is, ClientInv, CallInv

\* A request is lost on its way.
LEMMA LostInv ==
  ASSUME TypeOK, RotationInv, ClientTypeOK, ClientInv, NEW c \in Calls, Lost(c)
  PROVE  ClientTypeOK' /\ ClientInv'
<1>1. call[c] # None /\ call' = [call EXCEPT ![c] = None] /\ UNCHANGED <<vars, lapsed>>
  BY DEF Lost
<1>2. /\ crossed' = crossed \cup SessionsOf(call[c].old) \cup IF stored' # stored THEN Renewed ELSE {}
      /\ \/ stored' = None /\ over' = over \cup SessionsOf(stored)
         \/ UNCHANGED <<stored, over>>
  BY DEF Lost
<1>3. \A s \in SessionsOf(call[c].old) : s \in Renewed /\ s \in crossed'
  <2>1. \A s \in SessionsOf(call[c].old) : Renewing(c, s)
    BY <1>1 DEF Renewing
  <2>. QED
    BY <1>2, <2>1, RenewingKnown DEF Renewed, ClientInv
<1>4. \A s \in Tokens : Renewing(c, s) => s \in crossed'
  BY <1>3 DEF Renewing
<1>5. crossed' \subseteq crossed \cup Renewed
  BY <1>2, <1>3
<1>6. \/ stored' = stored /\ over' = over
      \/ /\ stored' = None /\ over' = over \cup SessionsOf(stored)
         /\ \A d \in Calls \ {c}, s \in Tokens : Renewing(d, s) => s \in crossed'
  <2>1. CASE stored' = stored
    BY <1>2, <2>1 DEF SessionsOf
  <2>2. CASE stored' # stored
    BY <1>2, <2>2 DEF Renewed
  <2>. QED
    BY <2>1, <2>2
<1>. QED
  BY <1>1, <1>2, <1>4, <1>5, <1>6, Ending

\* Login stores the token it was granted, of a session just begun.
LEMMA LoggedInInv ==
  ASSUME TypeOK, RotationInv, ClientTypeOK, ClientInv, NEW c \in Calls, LoggedIn(c)
  PROVE  ClientTypeOK' /\ ClientInv'
<1>1. /\ call[c] # None /\ call[c].old = None /\ call[c].new # None
      /\ Is(c, "granted") /\ call[c].kind = "login"
  BY DEF LoggedIn, Is, ClientInv, CallInv
<1>2. PICK t \in Tokens : t = call[c].new /\ t # None /\ Exists(t)
  BY <1>1, Known DEF ClientInv
<1>3. /\ t # stored /\ t \notin lapsed
      /\ \A d \in Calls : call[d] # None => t # call[d].old /\ (t = call[d].new => c = d)
      /\ Live(t) \/ token[t].session \in ended \cup crossed
      /\ t \notin over \cup crossed
      /\ \A u \in Tokens : Exists(u) => (token[u].session = t <=> u = t)
  BY <1>1, <1>2 DEF ClientInv, GrantedInv
<1>4. token[t].session = t /\ SessionsOf(t) = {t}
  BY <1>2, <1>3, SessionKnown
<1>5. /\ stored' = t /\ over' = over \cup SessionsOf(stored)
      /\ crossed' = crossed \cup Renewed \cup {s \in {t} : Renewed # {}}
      /\ call' = [call EXCEPT ![c] = None]
      /\ UNCHANGED <<vars, lapsed>>
  BY <1>2, <1>4 DEF LoggedIn, StoreNew
<1>6. /\ \A d \in Calls : call'[d] = IF d = c THEN None ELSE call[d]
      /\ token' = token
  BY <1>5 DEF ClientTypeOK, vars
<1>7. stored # None => SessionsOf(stored) \subseteq Tokens /\ \A s \in SessionsOf(stored) : Exists(s) /\ s # t
  BY <1>3, Known, SessionKnown DEF ClientInv
<1>8. stored = None => SessionsOf(stored) = {}
  BY DEF SessionsOf
<1>9. \A s \in Renewed : s \in Tokens /\ Exists(s) /\ s # t
  BY <1>3, RenewingKnown DEF Renewed, ClientInv
<1>10. ClientTypeOK'
  <2>1. stored' \in Tokens \cup {None} /\ over' \subseteq Tokens /\ crossed' \subseteq Tokens
    BY <1>5, <1>7, <1>8, <1>9 DEF ClientTypeOK
  <2>. QED
    BY <1>5, <2>1 DEF ClientTypeOK
<1>11. /\ \A d \in Calls : call'[d] # None => d # c /\ call'[d] = call[d]
       /\ \A d \in Calls, s \in Tokens : Renewing(d, s)' => Renewing(d, s) /\ s \in crossed' /\ t \in crossed'
       /\ \A d \in Calls : \A pc : Is(d, pc)' <=> d # c /\ Is(d, pc)
  BY <1>5, <1>6 DEF Renewing, Is, SessionsOf, Renewed
<1>12. SessionsOf(stored)' = {t}
  BY <1>2, <1>4, <1>5, <1>6 DEF SessionsOf
<1>13. OwnInv'
  BY <1>5, ServerStands DEF ClientInv
<1>14. KnownInv'
  <2>1. \A s \in crossed' \cup over' \cup lapsed' : s \in Tokens /\ Exists(s)
    BY Known, <1>2, <1>5, <1>7, <1>8, <1>9 DEF ClientInv
  <2>2. (\A d \in Calls : call[d] # None =>
              /\ call[d].pair # None => Exists(call[d].pair)
              /\ call[d].old # None => Exists(call[d].old)
              /\ call[d].new # None => Exists(call[d].new))'
    BY <1>5, <1>11, Known, ServerStands DEF ClientInv
  <2>3. (stored # None => Exists(stored))'
    BY <1>2, <1>5, ServerStands
  <2>. QED
    BY <1>5, <1>10, <2>1, <2>2, <2>3, ServerStands, KnownNext
<1>15. CallInv'
  BY <1>5, <1>11, ServerStands DEF ClientInv, CallInv
<1>16. ServedInv'
  <2>1. \A h \in Handlers, s \in Tokens : Refreshing(h, s)' =>
          s \in crossed' \/ \E d \in Calls : Is(d, "served")' /\ call'[d].h = h
    BY <1>1, <1>5, <1>6, <1>11, ServerStands DEF ClientInv, ServedInv, Is
  <2>. QED
    BY <1>5, <1>11, <2>1, ServerStands DEF ClientInv, ServedInv
<1>17. RenewingInv'
  <2>1. \A d, e \in Calls : \A s \in Tokens : Renewing(d, s)' /\ Renewing(e, s)' => d = e \/ s \in crossed'
    BY <1>11
  <2>2. \A d \in Calls : \A s \in Tokens : Renewing(d, s)' =>
          stored' = call'[d].old \/ (s \in crossed' /\ SessionsOf(stored)' \subseteq crossed')
    BY <1>11, <1>12
  <2>3. \A d \in Calls : \A s \in over' : Renewing(d, s)' => s \in crossed'
    BY <1>10, <1>11 DEF ClientTypeOK
  <2>4. \A d \in Calls : \A s \in Tokens \ (ended' \cup crossed') :
          Renewing(d, s)' /\ Is(d, "refresh")' => (Live(call[d].old))'
    BY <1>11
  <2>. QED
    BY <2>1, <2>2, <2>3, <2>4 DEF RenewingInv
<1>18. GrantedInv'
  <2>. SUFFICES ASSUME NEW d \in Calls, Is(d, "granted")', call'[d].new # None
                PROVE (LET x == call[d].new IN
                  /\ x # stored /\ x \notin lapsed
                  /\ \A e \in Calls : call[e] # None => x \notin {call[e].pair, call[e].old} /\ (x = call[e].new => d = e)
                  /\ Live(x) \/ token[x].session \in ended \cup crossed
                  /\ call[d].kind = "login" =>
                       /\ x \notin over \cup crossed
                       /\ \A u \in Tokens : Exists(u) => (token[u].session = x <=> u = x))'
    BY DEF GrantedInv
  <2>1. d # c /\ call'[d] = call[d] /\ Is(d, "granted")
    BY <1>6, <1>11
  <2>2. PICK x \in Tokens : x = call[d].new /\ Exists(x) /\ x # None
    BY <2>1, Known DEF ClientInv, Is
  <2>3. /\ x # stored /\ x \notin lapsed /\ x # t
        /\ \A e \in Calls : call[e] # None => x \notin {call[e].pair, call[e].old} /\ (x = call[e].new => d = e)
        /\ Live(x) \/ token[x].session \in ended \cup crossed
        /\ call[d].kind = "login" =>
             /\ x \notin over \cup crossed
             /\ \A u \in Tokens : Exists(u) => (token[u].session = x <=> u = x)
    BY <1>1, <1>2, <2>1, <2>2 DEF ClientInv, GrantedInv
  <2>4. call[d].kind = "login" => x \notin over' \cup crossed'
    <3>1. SUFFICES ASSUME call[d].kind = "login" PROVE x \notin SessionsOf(stored) /\ x \notin Renewed
      BY <1>5, <2>3
    <3>2. x \notin SessionsOf(stored)
      BY <2>3, <3>1, Known DEF SessionsOf, ClientInv
    <3>3. x \notin Renewed
      BY <2>3, <3>1, <1>9, RenewingKnown DEF ClientInv, Renewed
    <3>. QED
      BY <3>2, <3>3
  <2>5. Live(x)' \/ token'[x].session \in ended' \cup crossed'
    BY <1>5, <2>3, ServerStands
  <2>6. \A e \in Calls : call'[e] # None => x \notin {call'[e].pair, call'[e].old} /\ (x = call'[e].new => d = e)
    BY <1>11, <2>3
  <2>7. \A u \in Tokens : Exists(u)' <=> Exists(u)
    BY <1>5, ServerStands
  <2>. QED
    BY <1>5, <1>6, <2>1, <2>2, <2>3, <2>4, <2>5, <2>6, <2>7
<1>19. SignedOutStays'
  BY <1>3, <1>5, <1>7, <1>8, <1>12 DEF SignedOutStays
<1>20. StoredIsCurrent'
  <2>1. Live(t)' \/ t \in ended' \cup crossed'
    BY <1>3, <1>4, <1>5, ServerStands
  <2>. QED
    BY <1>5, <1>12, <2>1 DEF StoredIsCurrent
<1>. QED
  BY <1>10, <1>13, <1>14, <1>15, <1>16, <1>17, <1>18, <1>19, <1>20 DEF ClientInv

\* GrantedInv, to be shown of one call in the next state.
GrantedAs(d, x) ==
  /\ x # stored /\ x \notin lapsed
  /\ \A e \in Calls : call[e] # None => x \notin {call[e].pair, call[e].old} /\ (x = call[e].new => d = e)
  /\ Live(x) \/ token[x].session \in ended \cup crossed
  /\ call[d].kind = "login" =>
       /\ x \notin over \cup crossed
       /\ \A u \in Tokens : Exists(u) => (token[u].session = x <=> u = x)

\* What the invariant says of one call, before a step and after it.
LEMMA GrantedNow ==
  ASSUME ClientTypeOK, KnownInv, GrantedInv, NEW d \in Calls, Is(d, "granted"), call[d].new # None
  PROVE  call[d].new \in Tokens /\ Exists(call[d].new) /\ GrantedAs(d, call[d].new)
BY Known DEF GrantedInv, GrantedAs, Is

LEMMA GrantedNext ==
  ASSUME ClientTypeOK',
         \A d \in Calls, x \in Tokens : Is(d, "granted")' /\ x = call'[d].new => GrantedAs(d, x)'
  PROVE  GrantedInv'
<1>1. \A d \in Calls : Is(d, "granted")' /\ call'[d].new # None => call'[d].new \in Tokens
  BY DEF ClientTypeOK, Call, Is
<1>. QED
  BY <1>1 DEF GrantedInv, GrantedAs

\* A call is asked, with the pair stored.
LEMMA AskInv ==
  ASSUME TypeOK, RotationInv, ClientTypeOK, ClientInv, NEW c \in Calls,
         NEW kind \in {"get", "me", "login", "logout"}, Ask(c, kind)
  PROVE  ClientTypeOK' /\ ClientInv'
<1>. DEFINE p == IF kind = "login" THEN None ELSE stored
            new == [kind |-> kind, pc |-> "asked", old |-> None, pair |-> p,
                    h |-> None, new |-> None, retried |-> FALSE]
<1>1. new \in Call
  BY DEF Call, ClientTypeOK
<1>2. PICK k \in Call : k = new
  BY <1>1
<1>3. /\ k # None /\ k.kind = kind /\ k.pc = "asked" /\ k.old = None /\ k.pair \in {None, stored}
      /\ k.new = None /\ ~k.retried
  BY <1>2, NoCallAssumption
<1>4. /\ \A d \in Calls : call'[d] = IF d = c THEN k ELSE call[d]
      /\ call[c] = None
      /\ UNCHANGED <<vars, stored, lapsed, over, crossed>>
  BY <1>2 DEF Ask, ClientTypeOK
<1>5. ClientTypeOK'
  BY <1>1 DEF Ask, ClientTypeOK
<1>6. token' = token
  BY <1>4 DEF vars
<1>7. /\ \A d \in Calls, s \in Tokens : Renewing(d, s)' <=> Renewing(d, s)
      /\ \A d \in Calls, s \in Tokens : Renewing(d, s) => call'[d] = call[d]
      /\ \A d \in Calls : \A pc : Is(d, pc) => call'[d] = call[d] /\ Is(d, pc)'
      /\ \A d \in Calls : \A pc \in {"refresh", "served", "granted"} : Is(d, pc)' => call'[d] = call[d] /\ Is(d, pc)
  BY <1>3, <1>4, <1>6 DEF Renewing, Is, SessionsOf
<1>8. OwnInv'
  BY <1>4, ServerStands DEF ClientInv
<1>9. KnownInv'
  <2>1. (\A d \in Calls : call[d] # None =>
              /\ call[d].pair # None => Exists(call[d].pair)
              /\ call[d].old # None => Exists(call[d].old)
              /\ call[d].new # None => Exists(call[d].new))'
    <3>1. \A d \in Calls : call'[d] # None =>
              /\ call'[d].pair # None => call'[d].pair \in Tokens /\ Exists(call'[d].pair)
              /\ call'[d].old # None => call'[d].old \in Tokens /\ Exists(call'[d].old)
              /\ call'[d].new # None => call'[d].new \in Tokens /\ Exists(call'[d].new)
      BY <1>3, <1>4, Known DEF ClientInv
    <3>. QED
      BY <3>1, <1>4, ServerStands
  <2>2. (stored # None => Exists(stored))' /\ (\A t \in lapsed \cup over \cup crossed : Exists(t))'
    BY <1>4, Known, ServerStands DEF ClientInv
  <2>. QED
    BY <1>5, <2>1, <2>2, KnownNext
<1>10. CallInv'
  BY <1>3, <1>4, <1>6 DEF ClientInv, CallInv
<1>11. ServedInv'
  BY <1>4, <1>7, ServerStands DEF ClientInv, ServedInv
<1>12. RenewingInv'
  <2>1. \A d \in Calls : Is(d, "refresh")' => Is(d, "refresh") /\ call'[d] = call[d]
    BY <1>7
  <2>2. \A d \in Calls, s \in Tokens : Renewing(d, s) => call[d].old \in Tokens
    BY RenewingKnown DEF ClientInv
  <2>3. SessionsOf(stored)' = SessionsOf(stored)
    BY <1>4, <1>6 DEF SessionsOf
  <2>4. \A d \in Calls, s \in Tokens : Renewing(d, s)' /\ Is(d, "refresh")' =>
          (Live(call[d].old)' <=> Live(call[d].old))
    BY <1>7, <2>1, <2>2, <1>4, ServerStands
  <2>. QED
    BY <1>4, <1>5, <1>7, <2>1, <2>3, <2>4 DEF ClientInv, RenewingInv, ClientTypeOK, vars
<1>13. GrantedInv'
  <2>1. SUFFICES ASSUME NEW d \in Calls, NEW x \in Tokens, Is(d, "granted")', x = call'[d].new
                 PROVE  GrantedAs(d, x)'
    BY <1>5, GrantedNext
  <2>2. x = call[d].new /\ Is(d, "granted") /\ call'[d] = call[d] /\ GrantedAs(d, x)
    BY <1>7, <2>1, GrantedNow DEF ClientInv
  <2>. QED
    BY <1>3, <1>4, <1>6, <2>2, ServerStands DEF GrantedAs
<1>14. SignedOutStays' /\ StoredIsCurrent'
  BY <1>4, <1>6, <1>7, Known, SessionKnown, ServerStands DEF ClientInv, SignedOutStays, StoredIsCurrent, SessionsOf
<1>. QED
  BY <1>5, <1>8, <1>9, <1>10, <1>11, <1>12, <1>13, <1>14 DEF ClientInv

\* A 401: the call exchanges its token, or is over.
LEMMA DeniedInv ==
  ASSUME TypeOK, RotationInv, ClientTypeOK, ClientInv, NEW c \in Calls, Denied(c)
  PROVE  ClientTypeOK' /\ ClientInv'
<1>1. /\ call[c] # None /\ call[c].pc = "asked" /\ call[c].kind # "login" /\ call[c].old = None
      /\ call[c].new = None /\ UNCHANGED <<vars, lapsed>>
  BY DEF Denied, Is, ClientInv, CallInv
<1>2. CASE call[c].retried \/ stored = None
  BY <1>1, <1>2, EndInv DEF Denied, ToExchange
<1>3. CASE ~(call[c].retried \/ stored = None)
  <2>1. /\ ~call[c].retried /\ stored \in Tokens /\ Exists(stored)
        /\ call' = [call EXCEPT ![c].pc = "refresh", ![c].pair = None, ![c].old = stored]
        /\ crossed' = crossed \cup (SessionsOf(stored) \cap Renewed)
        /\ UNCHANGED <<stored, over>>
    BY <1>3, Known DEF Denied, ToExchange, ClientInv
  <2>2. call'[c] \in Call /\ call'[c] = [call[c] EXCEPT !.pc = "refresh", !.pair = None, !.old = stored]
    BY <2>1, <1>1, CallFields DEF ClientTypeOK, Call
  <2>3. PICK k \in Call : k = call'[c]
    BY <2>2
  <2>4. /\ k # None /\ k.kind = call[c].kind /\ k.pc = "refresh" /\ k.old = stored /\ k.pair = None
        /\ k.new = None /\ k.retried = call[c].retried
    <3>1. call[c] \in Call
      BY <1>1, CallFields
    <3>. QED
      BY <1>1, <2>2, <2>3, <3>1, NoCallAssumption DEF Call
  <2>5. \A d \in Calls : call'[d] = IF d = c THEN k ELSE call[d]
    BY <2>1, <2>3 DEF ClientTypeOK
  <2>6. PICK s \in Tokens : s = token[stored].session /\ Exists(s) /\ SessionsOf(stored) = {s}
    BY <2>1, SessionKnown
  <2>7. ClientTypeOK'
    BY <1>1, <2>1, <2>2, <2>6 DEF ClientTypeOK
  <2>8. token' = token /\ stored' = stored /\ SessionsOf(stored)' = {s}
    BY <1>1, <2>1, <2>6 DEF vars, SessionsOf
  <2>9. /\ \A d \in Calls, x \in Tokens : Renewing(d, x)' <=> IF d = c THEN x = s ELSE Renewing(d, x)
        /\ \A d \in Calls : d # c => call'[d] = call[d]
        /\ \A d \in Calls : \A pc : Is(d, pc)' <=> IF d = c THEN pc = "refresh" ELSE Is(d, pc)
        /\ \A d \in Calls, x \in Tokens : Renewing(d, x) => d # c
    <3>1. \A d \in Calls, x \in Tokens : Renewing(d, x) => d # c
      BY <1>1 DEF Renewing, SessionsOf
    <3>2. \A x \in Tokens : Renewing(c, x)' <=> x = s
      BY <2>1, <2>4, <2>5, <2>6, <2>8 DEF Renewing, SessionsOf
    <3>3. \A d \in Calls, x \in Tokens : d # c => (Renewing(d, x)' <=> Renewing(d, x))
      BY <2>5, <2>8 DEF Renewing, SessionsOf
    <3>4. \A d \in Calls : \A pc : Is(d, pc)' <=> IF d = c THEN pc = "refresh" ELSE Is(d, pc)
      BY <2>4, <2>5 DEF Is
    <3>. QED
      BY <2>5, <3>1, <3>2, <3>3, <3>4
  <2>10. crossed \subseteq crossed' /\ \A d \in Calls : Renewing(d, s) => s \in crossed'
    BY <2>1, <2>6 DEF Renewed
  <2>11. OwnInv'
    BY <1>1, ServerStands DEF ClientInv
  <2>12. KnownInv'
    <3>1. \A d \in Calls : call'[d] # None =>
              /\ call'[d].pair # None => call'[d].pair \in Tokens /\ Exists(call'[d].pair)
              /\ call'[d].old # None => call'[d].old \in Tokens /\ Exists(call'[d].old)
              /\ call'[d].new # None => call'[d].new \in Tokens /\ Exists(call'[d].new)
      BY <2>1, <2>4, <2>5, Known DEF ClientInv
    <3>2. (\A d \in Calls : call[d] # None =>
              /\ call[d].pair # None => Exists(call[d].pair)
              /\ call[d].old # None => Exists(call[d].old)
              /\ call[d].new # None => Exists(call[d].new))'
      BY <3>1, <1>1, ServerStands
    <3>3. (stored # None => Exists(stored))' /\ (\A t \in lapsed \cup over \cup crossed : Exists(t))'
      BY <1>1, <2>1, <2>6, Known, ServerStands DEF ClientInv
    <3>. QED
      BY <2>7, <3>2, <3>3, KnownNext
  <2>13. CallInv'
    <3>1. lapsed' = lapsed
      BY <1>1
    <3>2. \A d \in Calls : call'[d] # None => IF d = c THEN call'[d] = k ELSE call'[d] = call[d] /\ call[d] # None
      BY <2>5
    <3>3. call[c].kind # "login" /\ stored # None
      BY <1>1, <1>3
    <3>. QED
      BY <2>4, <2>8, <3>1, <3>2, <3>3 DEF ClientInv, CallInv
  <2>14. ServedInv'
    <3>1. \A d \in Calls : Is(d, "served")' <=> Is(d, "served")
      BY <1>1, <2>9 DEF Is
    <3>2. \A d \in Calls : Is(d, "served") => call'[d] = call[d]
      BY <1>1, <2>9 DEF Is
    <3>. QED
      BY <1>1, <2>10, <3>1, <3>2, ServerStands DEF ClientInv, ServedInv
  <2>15. RenewingInv'
    <3>1. \A d, e \in Calls : \A x \in Tokens : Renewing(d, x)' /\ Renewing(e, x)' => d = e \/ x \in crossed'
      BY <2>9, <2>10 DEF ClientInv, RenewingInv
    <3>2. \A d \in Calls : \A x \in Tokens : Renewing(d, x)' =>
            stored' = call'[d].old \/ (x \in crossed' /\ SessionsOf(stored)' \subseteq crossed')
      BY <2>4, <2>5, <2>6, <2>8, <2>9, <2>10 DEF ClientInv, RenewingInv
    <3>3. \A d \in Calls : \A x \in over' : Renewing(d, x)' => x \in crossed'
      BY <2>1, <2>6, <2>9, <2>10 DEF ClientInv, RenewingInv, SignedOutStays, ClientTypeOK
    <3>4. \A d \in Calls : \A x \in Tokens \ (ended' \cup crossed') :
            Renewing(d, x)' /\ Is(d, "refresh")' => (Live(call[d].old))'
      <4>1. SUFFICES ASSUME NEW d \in Calls, NEW x \in Tokens \ (ended' \cup crossed'),
                            Renewing(d, x)', Is(d, "refresh")'
                     PROVE  (Live(call[d].old))'
        OBVIOUS
      <4>2. PICK t \in Tokens : t = call'[d].old
        BY <2>1, <2>4, <2>5, <2>9, <4>1, RenewingKnown DEF ClientInv
      <4>3. ended' = ended
        BY <1>1 DEF vars
      <4>4. CASE d = c
        <5>1. x = s /\ t = stored /\ \A e \in Calls : ~Renewing(e, s)
          BY <2>4, <2>5, <2>9, <2>10, <4>1, <4>2, <4>4
        <5>2. Live(t)
          BY <2>6, <2>10, <4>1, <4>3, <5>1 DEF ClientInv, StoredIsCurrent
        <5>. QED
          BY <1>1, <4>2, <5>2, ServerStands
      <4>5. CASE d # c
        <5>1. Live(t)
          BY <2>9, <2>10, <4>1, <4>2, <4>3, <4>5 DEF ClientInv, RenewingInv
        <5>. QED
          BY <1>1, <4>2, <5>1, ServerStands
      <4>. QED
        BY <4>4, <4>5
    <3>. QED
      BY <3>1, <3>2, <3>3, <3>4 DEF RenewingInv
  <2>16. GrantedInv'
    <3>1. SUFFICES ASSUME NEW d \in Calls, NEW x \in Tokens, Is(d, "granted")', x = call'[d].new
                   PROVE  GrantedAs(d, x)'
      BY <2>7, GrantedNext
    <3>2. x = call[d].new /\ Is(d, "granted") /\ d # c /\ call'[d] = call[d] /\ GrantedAs(d, x) /\ x # None
      BY <2>9, <3>1, GrantedNow DEF ClientInv
    <3>3. call[d].kind = "login" => x # s
      BY <2>1, <2>6, <3>2 DEF GrantedAs
    <3>4. \A e \in Calls : call'[e] # None => x \notin {call'[e].pair, call'[e].old} /\ (x = call'[e].new => d = e)
      BY <2>4, <2>5, <3>2 DEF GrantedAs
    <3>5. call[d].kind = "login" => x \notin over' \cup crossed'
      BY <2>1, <2>6, <3>2, <3>3 DEF GrantedAs
    <3>6. Live(x)' \/ token'[x].session \in ended' \cup crossed'
      BY <1>1, <2>8, <2>10, <3>2, ServerStands DEF GrantedAs
    <3>7. \A u \in Tokens : Exists(u)' <=> Exists(u)
      BY <1>1, ServerStands
    <3>8. x # stored' /\ x \notin lapsed'
      BY <1>1, <2>1, <3>2 DEF GrantedAs
    <3>9. call[d].kind = "login" => \A u \in Tokens : Exists(u) => (token[u].session = x <=> u = x)
      BY <3>2 DEF GrantedAs
    <3>. QED
      BY <2>8, <3>2, <3>4, <3>5, <3>6, <3>7, <3>8, <3>9 DEF GrantedAs
  <2>17. SignedOutStays'
    BY <2>1, <2>6, <2>8, <2>10 DEF ClientInv, SignedOutStays
  <2>18. StoredIsCurrent'
    <3>1. \E d \in Calls : Renewing(d, s)'
      BY <2>9
    <3>. QED
      BY <2>8, <3>1 DEF StoredIsCurrent
  <2>. QED
    BY <2>7, <2>11, <2>12, <2>13, <2>14, <2>15, <2>16, <2>17, <2>18 DEF ClientInv
<1>. QED
  BY <1>2, <1>3

\* An access token lapses.
LEMMA LapseInv ==
  ASSUME TypeOK, RotationInv, ClientTypeOK, ClientInv, NEW t \in Tokens, Lapse(t)
  PROVE  ClientTypeOK' /\ ClientInv'
<1>1. /\ UNCHANGED <<vars, stored, call, over, crossed>>
      /\ lapsed' = lapsed \cup {t}
      /\ t = stored \/ \E c \in Calls : call[c] # None /\ call[c].pair = t
      /\ \A c \in Calls : call[c] # None /\ call[c].retried => call[c].pair # t
  BY DEF Lapse
<1>2. Exists(t) /\ t # None
  BY <1>1, Known DEF ClientInv
<1>3. token' = token /\ ClientTypeOK'
  BY <1>1 DEF ClientTypeOK, vars
<1>4. OwnInv'
  BY <1>1, ServerStands DEF ClientInv
<1>5. KnownInv'
  <2>1. /\ (stored # None => Exists(stored))' /\ (\A x \in lapsed \cup over \cup crossed : Exists(x))'
        /\ (\A d \in Calls : call[d] # None =>
              /\ call[d].pair # None => Exists(call[d].pair)
              /\ call[d].old # None => Exists(call[d].old)
              /\ call[d].new # None => Exists(call[d].new))'
    BY <1>1, <1>2, Known, ServerStands DEF ClientInv
  <2>. QED
    BY <1>3, <2>1, KnownNext
<1>6. CallInv'
  BY <1>1, <1>3 DEF ClientInv, CallInv
<1>7. ServedInv'
  BY <1>1, ServerStands DEF ClientInv, ServedInv, Is
<1>8. RenewingInv' /\ SignedOutStays' /\ StoredIsCurrent'
  BY <1>1 DEF ClientInv, RenewingInv, SignedOutStays, StoredIsCurrent, Renewing, SessionsOf, Is, Live, Exists, vars
<1>9. GrantedInv'
  <2>1. SUFFICES ASSUME NEW d \in Calls, NEW x \in Tokens, Is(d, "granted")', x = call'[d].new
                 PROVE  GrantedAs(d, x)'
    BY <1>3, GrantedNext
  <2>2. x = call[d].new /\ Is(d, "granted") /\ GrantedAs(d, x) /\ x # None /\ x # t
    <3>1. x = call[d].new /\ Is(d, "granted")
      BY <1>1, <2>1 DEF Is
    <3>2. GrantedAs(d, x)
      BY <3>1, GrantedNow DEF ClientInv
    <3>. QED
      BY <1>1, <3>1, <3>2 DEF GrantedAs
  <2>. QED
    BY <1>1, <1>3, <2>2, ServerStands DEF GrantedAs, vars
<1>. QED
  BY <1>3, <1>4, <1>5, <1>6, <1>7, <1>8, <1>9 DEF ClientInv

\* The refresh succeeded: its token is stored, and the request asked again.
LEMMA RefreshedInv ==
  ASSUME TypeOK, RotationInv, ClientTypeOK, ClientInv, NEW c \in Calls, Refreshed(c)
  PROVE  ClientTypeOK' /\ ClientInv'
<1>1. /\ call[c] # None /\ call[c].kind \in {"get", "me", "logout"} /\ call[c].new # None
      /\ call[c].pc = "granted" /\ Is(c, "granted") /\ call[c].old # None
      /\ UNCHANGED <<vars, lapsed, over, crossed>>
  BY DEF Refreshed, Is, ClientInv, CallInv
<1>2. PICK t \in Tokens : t = call[c].new /\ t # None /\ Exists(t) /\ GrantedAs(c, t)
  BY <1>1, GrantedNow DEF ClientInv
<1>3. PICK s \in Tokens : s = token[t].session /\ SessionsOf(t) = {s} /\ Renewing(c, s)
  BY <1>1, <1>2, SessionKnown, Known DEF ClientInv, CallInv, Renewing, SessionsOf
<1>4. /\ stored' = t
      /\ call' = [call EXCEPT ![c].pc = "asked", ![c].pair = t, ![c].old = None,
                              ![c].new = None, ![c].retried = TRUE]
  BY <1>2 DEF Refreshed, StoreNew
<1>5. call'[c] = [call[c] EXCEPT !.pc = "asked", !.pair = t, !.old = None, !.new = None, !.retried = TRUE]
  BY <1>4 DEF ClientTypeOK
<1>6. call'[c] \in Call
  BY <1>1, <1>5, CallFields DEF Call
<1>7. PICK k \in Call : k = call'[c]
  BY <1>6
<1>8. /\ k # None /\ k.kind = call[c].kind /\ k.pc = "asked" /\ k.old = None /\ k.pair = t
      /\ k.new = None
  <2>1. call[c] \in Call
    BY <1>1, CallFields
  <2>. QED
    BY <1>5, <1>7, <2>1, NoCallAssumption DEF Call
<1>9. \A d \in Calls : call'[d] = IF d = c THEN k ELSE call[d]
  BY <1>4, <1>7 DEF ClientTypeOK
<1>10. ClientTypeOK'
  BY <1>1, <1>4, <1>6 DEF ClientTypeOK
<1>11. token' = token /\ SessionsOf(stored)' = {s} /\ crossed' = crossed /\ over' = over /\ lapsed' = lapsed
       /\ ended' = ended
  BY <1>1, <1>2, <1>3, <1>4 DEF vars, SessionsOf
<1>12. /\ \A d \in Calls, x \in Tokens : Renewing(d, x)' => d # c /\ Renewing(d, x)
       /\ \A d \in Calls, x \in Tokens : d # c /\ Renewing(d, x) => Renewing(d, x)'
       /\ \A d \in Calls : d # c => call'[d] = call[d]
  BY <1>8, <1>9, <1>11 DEF Renewing, SessionsOf
<1>13. \A d \in Calls : \A pc : Is(d, pc)' <=> IF d = c THEN pc = "asked" ELSE Is(d, pc)
  BY <1>8, <1>9 DEF Is
<1>14. OwnInv'
  BY <1>1, ServerStands DEF ClientInv
<1>15. KnownInv'
  <2>1. \A d \in Calls : call'[d] # None =>
            /\ call'[d].pair # None => call'[d].pair \in Tokens /\ Exists(call'[d].pair)
            /\ call'[d].old # None => call'[d].old \in Tokens /\ Exists(call'[d].old)
            /\ call'[d].new # None => call'[d].new \in Tokens /\ Exists(call'[d].new)
    BY <1>2, <1>8, <1>9, Known DEF ClientInv
  <2>2. (\A d \in Calls : call[d] # None =>
            /\ call[d].pair # None => Exists(call[d].pair)
            /\ call[d].old # None => Exists(call[d].old)
            /\ call[d].new # None => Exists(call[d].new))'
    BY <2>1, <1>1, ServerStands
  <2>3. (stored # None => Exists(stored))' /\ (\A x \in lapsed \cup over \cup crossed : Exists(x))'
    BY <1>1, <1>2, <1>4, Known, ServerStands DEF ClientInv
  <2>. QED
    BY <1>10, <2>2, <2>3, KnownNext
<1>16. CallInv'
  <2>1. \A d \in Calls : call'[d] # None => IF d = c THEN call'[d] = k ELSE call'[d] = call[d] /\ call[d] # None
    BY <1>9
  <2>2. t \notin lapsed \cup {None}
    BY <1>2 DEF GrantedAs
  <2>. QED
    BY <1>8, <1>11, <2>1, <2>2 DEF ClientInv, CallInv
<1>17. ServedInv'
  <2>1. \A d \in Calls : Is(d, "served")' <=> Is(d, "served")
    BY <1>1, <1>13 DEF Is
  <2>2. \A d \in Calls : Is(d, "served") => call'[d] = call[d]
    BY <1>1, <1>12 DEF Is
  <2>. QED
    BY <1>1, <2>1, <2>2, ServerStands DEF ClientInv, ServedInv
<1>18. RenewingInv'
  <2>1. \A d, e \in Calls : \A x \in Tokens : Renewing(d, x)' /\ Renewing(e, x)' => d = e \/ x \in crossed'
    BY <1>11, <1>12 DEF ClientInv, RenewingInv
  <2>2. \A d \in Calls : \A x \in Tokens : Renewing(d, x)' =>
          stored' = call'[d].old \/ (x \in crossed' /\ SessionsOf(stored)' \subseteq crossed')
    <3>1. SUFFICES ASSUME NEW d \in Calls, NEW x \in Tokens, Renewing(d, x), d # c
                   PROVE  x \in crossed /\ s \in crossed
      BY <1>11, <1>12
    <3>2. stored = call[d].old \/ (x \in crossed /\ SessionsOf(stored) \subseteq crossed)
      BY <3>1 DEF ClientInv, RenewingInv
    <3>3. stored = call[c].old \/ (s \in crossed /\ SessionsOf(stored) \subseteq crossed)
      BY <1>3 DEF ClientInv, RenewingInv
    <3>4. stored = call[d].old => x \in SessionsOf(stored)
      BY <3>1 DEF Renewing
    <3>5. stored = call[c].old => s \in SessionsOf(stored)
      BY <1>3 DEF Renewing
    <3>6. x = s => s \in crossed
      BY <1>3, <3>1 DEF ClientInv, RenewingInv
    <3>7. stored = call[c].old /\ stored = call[d].old => x = s
      BY <3>1, <1>3 DEF Renewing, SessionsOf
    <3>. QED
      BY <3>2, <3>3, <3>4, <3>5, <3>6, <3>7
  <2>3. \A d \in Calls : \A x \in over' : Renewing(d, x)' => x \in crossed'
    BY <1>11, <1>12 DEF ClientInv, RenewingInv, ClientTypeOK
  <2>4. \A d \in Calls : \A x \in Tokens \ (ended' \cup crossed') :
          Renewing(d, x)' /\ Is(d, "refresh")' => (Live(call[d].old))'
    <3>1. SUFFICES ASSUME NEW d \in Calls, NEW x \in Tokens \ (ended' \cup crossed'),
                          Renewing(d, x)', Is(d, "refresh")'
                   PROVE  (Live(call[d].old))'
      OBVIOUS
    <3>2. PICK y \in Tokens : y = call'[d].old /\ y = call[d].old
      BY <1>12, <3>1, RenewingKnown DEF ClientInv
    <3>3. Live(y)
      BY <1>11, <1>12, <1>13, <3>1, <3>2 DEF ClientInv, RenewingInv
    <3>. QED
      BY <1>1, <3>2, <3>3, ServerStands
  <2>. QED
    BY <2>1, <2>2, <2>3, <2>4 DEF RenewingInv
<1>19. GrantedInv'
  <2>1. SUFFICES ASSUME NEW d \in Calls, NEW x \in Tokens, Is(d, "granted")', x = call'[d].new
                 PROVE  GrantedAs(d, x)'
    BY <1>10, GrantedNext
  <2>2. x = call[d].new /\ Is(d, "granted") /\ d # c /\ call'[d] = call[d] /\ GrantedAs(d, x) /\ x # None /\ x # t
    <3>1. x = call[d].new /\ Is(d, "granted") /\ d # c /\ call'[d] = call[d]
      BY <1>12, <1>13, <2>1
    <3>2. GrantedAs(d, x)
      BY <3>1, GrantedNow DEF ClientInv
    <3>3. x # t
      BY <1>1, <1>2, <3>1, <3>2 DEF GrantedAs
    <3>. QED
      BY <3>1, <3>2, <3>3
  <2>3. \A e \in Calls : call'[e] # None => x \notin {call'[e].pair, call'[e].old} /\ (x = call'[e].new => d = e)
    BY <1>8, <1>9, <2>2 DEF GrantedAs
  <2>. QED
    BY <1>1, <1>4, <1>11, <2>2, <2>3, ServerStands DEF GrantedAs
<1>20. SignedOutStays'
  BY <1>3, <1>11 DEF ClientInv, RenewingInv, SignedOutStays
<1>21. StoredIsCurrent'
  <2>1. Live(t)' \/ s \in ended' \cup crossed'
    BY <1>1, <1>2, <1>3, <1>11, ServerStands DEF GrantedAs
  <2>. QED
    BY <1>4, <1>11, <2>1 DEF StoredIsCurrent
<1>. QED
  BY <1>10, <1>14, <1>15, <1>16, <1>17, <1>18, <1>19, <1>20, <1>21 DEF ClientInv

\* A handler starts, for a call of the client or for another device.
LEMMA StartOwn ==
  ASSUME TypeOK, ClientInv, NEW h \in Handlers, NEW j \in Job, Start(h, j),
         j.user = User, j.pc # "delete", j.pc \in {"rotate", "issue"} => j.device = Device,
         UNCHANGED <<account, token, ended>>
  PROVE  /\ OwnInv'
         /\ job[h] = None /\ \A g \in Handlers : job'[g] = IF g = h THEN j ELSE job[g]
         /\ \A g \in Handlers, s \in Tokens : g # h => (Refreshing(g, s)' <=> Refreshing(g, s))
         /\ \A t \in Tokens : (Exists(t)' <=> Exists(t)) /\ (Live(t)' <=> Live(t))
         /\ \A c \in Calls : Is(c, "served") /\ call[c].h # None => call[c].h # h
<1>1. job[h] = None /\ \A g \in Handlers : job'[g] = IF g = h THEN j ELSE job[g]
  BY DEF Start, TypeOK
<1>2. \A t \in Tokens : (Exists(t)' <=> Exists(t)) /\ (Live(t)' <=> Live(t))
  BY DEF Exists, Live
<1>3. OwnInv'
  BY <1>1, <1>2 DEF ClientInv, OwnInv
<1>4. \A c \in Calls : Is(c, "served") /\ call[c].h # None => call[c].h # h
  BY <1>1 DEF ClientInv, ServedInv
<1>5. \A g \in Handlers, s \in Tokens : g # h => (Refreshing(g, s)' <=> Refreshing(g, s))
  BY <1>1 DEF Refreshing
<1>. QED
  BY <1>1, <1>2, <1>3, <1>4, <1>5

\* Another device of the user begins.
LEMMA ElsewhereInv ==
  ASSUME TypeOK, RotationInv, ClientTypeOK, ClientInv, NEW h \in Handlers, Elsewhere(h)
  PROVE  ClientTypeOK' /\ ClientInv'
<1>. DEFINE j == [pc |-> "revoke", user |-> User, device |-> None, token |-> None]
<1>1. j \in Job /\ Start(h, j) /\ UNCHANGED <<account, token, raced, ended, stored, lapsed, call, over, crossed>>
  BY ClientAssumption DEF Elsewhere, Logout, Job, clientVars
<1>2. /\ OwnInv' /\ job[h] = None /\ \A g \in Handlers : job'[g] = IF g = h THEN j ELSE job[g]
      /\ \A g \in Handlers, s \in Tokens : g # h => (Refreshing(g, s)' <=> Refreshing(g, s))
      /\ \A c \in Calls : Is(c, "served") /\ call[c].h # None => call[c].h # h
  BY <1>1, StartOwn
<1>3. ClientTypeOK' /\ KnownInv' /\ CallInv' /\ RenewingInv' /\ GrantedInv' /\ SignedOutStays' /\ StoredIsCurrent'
  <2>1. ClientTypeOK' /\ KnownInv' /\ CallInv'
    BY <1>1 DEF ClientTypeOK, ClientInv, KnownInv, Mentioned, CallInv, Exists
  <2>2. RenewingInv' /\ SignedOutStays' /\ StoredIsCurrent'
    BY <1>1 DEF ClientInv, RenewingInv, SignedOutStays, StoredIsCurrent, Renewing, SessionsOf, Is, Live, Exists
  <2>3. GrantedInv'
    BY <1>1 DEF ClientInv, GrantedInv, Is, Live, Exists
  <2>. QED
    BY <2>1, <2>2, <2>3
<1>4. ServedInv'
  <2>1. \A s \in Tokens : ~Refreshing(h, s)'
    BY <1>2 DEF Refreshing
  <2>2. \A c \in Calls : Is(c, "served")' <=> Is(c, "served")
    BY <1>1 DEF Is
  <2>3. \A c \in Calls : Is(c, "served") /\ call[c].h # None => call[c].h \in Handlers
    BY CallFields DEF Is
  <2>. QED
    BY <1>1, <1>2, <2>1, <2>2, <2>3 DEF ClientInv, ServedInv
<1>. QED
  BY <1>2, <1>3, <1>4 DEF ClientInv

Taken(c, h) == call' = [call EXCEPT ![c].pc = "served", ![c].pair = None, ![c].h = h]

\* The server begins on a call's request.
LEMMA Serving ==
  ASSUME TypeOK, RotationInv, ClientTypeOK, ClientInv, NEW c \in Calls, NEW h \in Handlers,
         NEW j \in Job, Start(h, j),
         j.user = User, j.pc # "delete", j.pc \in {"rotate", "issue"} => j.device = Device,
         UNCHANGED <<account, token, ended, stored, lapsed, over, crossed>>,
         call[c] # None, call[c].pc \in {"asked", "refresh"}, j.token = call[c].old,
         call[c].old = None =>
           /\ call[c].kind \in {"login", "logout"}
           /\ j.pc = IF call[c].kind = "login" THEN "issue" ELSE "revoke",
         Taken(c, h)
  PROVE  ClientTypeOK' /\ ClientInv'
<1>1. /\ OwnInv' /\ job[h] = None /\ \A g \in Handlers : job'[g] = IF g = h THEN j ELSE job[g]
      /\ \A g \in Handlers, s \in Tokens : g # h => (Refreshing(g, s)' <=> Refreshing(g, s))
      /\ \A d \in Calls : Is(d, "served") /\ call[d].h # None => call[d].h # h
      /\ \A t \in Tokens : (Exists(t)' <=> Exists(t)) /\ (Live(t)' <=> Live(t))
  BY StartOwn
<1>2. call'[c] = [call[c] EXCEPT !.pc = "served", !.pair = None, !.h = h] /\ call'[c] \in Call
  <2>1. call'[c] = [call[c] EXCEPT !.pc = "served", !.pair = None, !.h = h]
    BY DEF ClientTypeOK, Taken
  <2>2. PICK a \in Call : a = call[c]
    BY CallFields
  <2>3. [a EXCEPT !.pc = "served", !.pair = None, !.h = h] \in Call
    BY DEF Call
  <2>. QED
    BY <2>1, <2>2, <2>3
<1>3. PICK k \in Call : k = call'[c]
  BY <1>2
<1>4. /\ k # None /\ k.kind = call[c].kind /\ k.pc = "served" /\ k.old = call[c].old /\ k.pair = None
      /\ k.h = h /\ k.new = None
  <2>1. call[c] \in Call /\ call[c].new = None
    BY CallFields DEF ClientInv, CallInv
  <2>. QED
    BY <1>2, <1>3, <2>1, NoCallAssumption DEF Call
<1>5. \A d \in Calls : call'[d] = IF d = c THEN k ELSE call[d]
  BY <1>3 DEF ClientTypeOK, Taken
<1>6. ClientTypeOK'
  BY <1>2 DEF ClientTypeOK, Taken
<1>7. /\ \A d \in Calls, x \in Tokens : Renewing(d, x)' <=> Renewing(d, x)
      /\ \A d \in Calls : call'[d] # None => call'[d].old = call[d].old /\ call[d] # None
      /\ \A d \in Calls : d # c => call'[d] = call[d]
  BY <1>4, <1>5 DEF Renewing, SessionsOf
<1>8. \A d \in Calls : \A pc : Is(d, pc)' <=> IF d = c THEN pc = "served" ELSE Is(d, pc)
  <2>1. \A pc : Is(c, pc)' <=> pc = "served"
    BY <1>4, <1>5 DEF Is
  <2>2. \A d \in Calls : d # c => \A pc : Is(d, pc)' <=> Is(d, pc)
    BY <1>7 DEF Is
  <2>. QED
    BY <2>1, <2>2
<1>9. SessionsOf(stored)' = SessionsOf(stored)
  BY DEF SessionsOf
<1>10. KnownInv'
  <2>1. \A d \in Calls : call'[d] # None =>
            /\ call'[d].pair # None => call'[d].pair \in Tokens /\ Exists(call'[d].pair)
            /\ call'[d].old # None => call'[d].old \in Tokens /\ Exists(call'[d].old)
            /\ call'[d].new # None => call'[d].new \in Tokens /\ Exists(call'[d].new)
    BY <1>4, <1>5, Known DEF ClientInv
  <2>2. (\A d \in Calls : call[d] # None =>
            /\ call[d].pair # None => Exists(call[d].pair)
            /\ call[d].old # None => Exists(call[d].old)
            /\ call[d].new # None => Exists(call[d].new))'
    BY <1>1, <2>1
  <2>3. (stored # None => Exists(stored))' /\ (\A x \in lapsed \cup over \cup crossed : Exists(x))'
    BY <1>1, Known DEF ClientInv
  <2>. QED
    BY <1>6, <2>2, <2>3, KnownNext
<1>11. CallInv'
  <2>1. \A d \in Calls : call'[d] # None => IF d = c THEN call'[d] = k ELSE call'[d] = call[d] /\ call[d] # None
    BY <1>5
  <2>2. k.old # None => k.kind # "login"
    BY <1>4 DEF ClientInv, CallInv
  <2>. QED
    BY <1>4, <2>1, <2>2 DEF ClientInv, CallInv
<1>12. ServedInv'
  <2>1. ASSUME NEW d \in Calls, Is(d, "served")', call'[d].h # None
        PROVE  /\ job'[call'[d].h] # None /\ job'[call'[d].h].token = call'[d].old
               /\ call'[d].old = None =>
                    job'[call'[d].h].pc = IF call'[d].kind = "login" THEN "issue" ELSE "revoke"
               /\ \A e \in Calls : Is(e, "served")' /\ call'[e].h = call'[d].h => d = e
    <3>1. CASE d = c
      BY <1>1, <1>4, <1>5, <1>8, <3>1, NoCallAssumption
    <3>2. CASE d # c
      <4>1. /\ Is(d, "served") /\ call'[d] = call[d] /\ call[d].h \in Handlers /\ call[d].h # h
            /\ call[d].h # None
        BY <1>1, <1>7, <1>8, <2>1, <3>2, CallFields DEF Is
      <4>2. \A e \in Calls : Is(e, "served")' /\ call'[e].h = call[d].h => d = e
        BY <1>4, <1>5, <1>8, <4>1 DEF ClientInv, ServedInv
      <4>. QED
        BY <1>1, <4>1, <4>2 DEF ClientInv, ServedInv
    <3>. QED
      BY <3>1, <3>2
  <2>2. ASSUME NEW g \in Handlers, NEW s \in Tokens, Refreshing(g, s)'
        PROVE  s \in crossed' \/ \E d \in Calls : Is(d, "served")' /\ call'[d].h = g
    <3>1. CASE g = h
      BY <1>4, <1>5, <1>8, <3>1
    <3>2. CASE g # h
      <4>1. s \in crossed \/ \E d \in Calls : Is(d, "served") /\ call[d].h = g
        BY <1>1, <2>2, <3>2 DEF ClientInv, ServedInv
      <4>2. \A d \in Calls : Is(d, "served") => d # c
        BY DEF Is
      <4>. QED
        BY <1>7, <1>8, <4>1, <4>2
    <3>. QED
      BY <3>1, <3>2
  <2>. QED
    BY <2>1, <2>2 DEF ServedInv
<1>13. RenewingInv'
  <2>1. \A d, e \in Calls : \A x \in Tokens : Renewing(d, x)' /\ Renewing(e, x)' => d = e \/ x \in crossed'
    BY <1>7 DEF ClientInv, RenewingInv
  <2>2. \A d \in Calls : \A x \in Tokens : Renewing(d, x)' =>
          stored' = call'[d].old \/ (x \in crossed' /\ SessionsOf(stored)' \subseteq crossed')
    BY <1>7, <1>9 DEF ClientInv, RenewingInv, Renewing
  <2>3. \A d \in Calls : \A x \in over' : Renewing(d, x)' => x \in crossed'
    BY <1>7 DEF ClientInv, RenewingInv, ClientTypeOK
  <2>4. \A d \in Calls : \A x \in Tokens \ (ended' \cup crossed') :
          Renewing(d, x)' /\ Is(d, "refresh")' => (Live(call[d].old))'
    <3>1. SUFFICES ASSUME NEW d \in Calls, NEW x \in Tokens \ (ended' \cup crossed'),
                          Renewing(d, x)', Is(d, "refresh")'
                   PROVE  (Live(call[d].old))'
      OBVIOUS
    <3>2. d # c /\ Is(d, "refresh")
      BY <1>8, <3>1
    <3>3. PICK y \in Tokens : y = call'[d].old /\ y = call[d].old
      BY <1>7, <3>1, <3>2, RenewingKnown DEF ClientInv
    <3>4. Live(y)
      BY <1>7, <3>1, <3>2, <3>3 DEF ClientInv, RenewingInv
    <3>. QED
      BY <1>1, <3>3, <3>4
  <2>. QED
    BY <2>1, <2>2, <2>3, <2>4 DEF RenewingInv
<1>14. GrantedInv'
  <2>1. SUFFICES ASSUME NEW d \in Calls, NEW x \in Tokens, Is(d, "granted")', x = call'[d].new
                 PROVE  GrantedAs(d, x)'
    BY <1>6, GrantedNext
  <2>2. x = call[d].new /\ Is(d, "granted") /\ d # c /\ call'[d] = call[d] /\ GrantedAs(d, x) /\ x # None
    BY <1>7, <1>8, <2>1, GrantedNow DEF ClientInv
  <2>3. \A e \in Calls : call'[e] # None => x \notin {call'[e].pair, call'[e].old} /\ (x = call'[e].new => d = e)
    BY <1>4, <1>5, <2>2 DEF GrantedAs
  <2>. QED
    BY <1>1, <2>2, <2>3 DEF GrantedAs
<1>15. SignedOutStays' /\ StoredIsCurrent'
  <2>1. \A x \in SessionsOf(stored) : x \in Tokens /\ stored \in Tokens
    BY Known, SessionKnown DEF ClientInv, SessionsOf
  <2>. QED
    BY <1>1, <1>7, <1>9, <2>1 DEF ClientInv, SignedOutStays, StoredIsCurrent
<1>. QED
  BY <1>1, <1>6, <1>10, <1>11, <1>12, <1>13, <1>14, <1>15 DEF ClientInv

\* A handler begins on any call's request.
LEMMA ServeInv ==
  ASSUME TypeOK, RotationInv, ClientTypeOK, ClientInv, NEW c \in Calls, NEW h \in Handlers, Serve(c, h)
  PROVE  ClientTypeOK' /\ ClientInv'
<1>1. /\ Taken(c, h)
      /\ UNCHANGED <<stored, lapsed, over, crossed>>
  BY DEF Serve, Taken
<1>2. CASE Is(c, "refresh") /\ Refresh(h, call[c].old, Device)
  <2>1. PICK t \in Tokens : t = call[c].old /\ t # None /\ Exists(t) /\ call[c] # None
    BY <1>2, Known DEF Is, ClientInv, CallInv
  <2>. DEFINE j == [pc |-> "rotate", user |-> token[t].user, device |-> token[t].device, token |-> t]
  <2>2. token[t].user = User /\ token[t].device = Device
    BY <2>1 DEF ClientInv, OwnInv
  <2>3. j \in Job
    BY <2>1, RowFields DEF Job
  <2>4. Start(h, j) /\ UNCHANGED <<account, token, ended>>
    BY <1>2, <2>1, <2>2 DEF Refresh, NextDevice
  <2>5. j.user = User /\ j.pc = "rotate" /\ j.device = Device /\ j.token = call[c].old
    BY <2>1, <2>2
  <2>. HIDE DEF j
  <2>. QED
    BY <1>1, <1>2, <2>1, <2>3, <2>4, <2>5, Serving DEF Is
<1>3. CASE Is(c, "asked") /\ call[c].kind = "logout" /\ Logout(h, User, Device)
  <2>. DEFINE j == [pc |-> "revoke", user |-> User, device |-> Device, token |-> None]
  <2>1. j \in Job /\ Start(h, j) /\ UNCHANGED <<account, token, ended>>
    BY <1>3, ClientAssumption DEF Logout, Job
  <2>2. call[c].old = None
    BY <1>3 DEF ClientInv, CallInv, Is
  <2>3. j.user = User /\ j.pc = "revoke" /\ j.token = None
    OBVIOUS
  <2>. HIDE DEF j
  <2>. QED
    BY <1>1, <1>3, <2>1, <2>2, <2>3, Serving DEF Is
<1>4. CASE Is(c, "asked") /\ call[c].kind = "login" /\ Login(h, User, Device)
  <2>. DEFINE j == [pc |-> "issue", user |-> User, device |-> Device, token |-> None]
  <2>1. j \in Job /\ Start(h, j) /\ UNCHANGED <<account, token, ended>>
    BY <1>4, ClientAssumption DEF Login, Job
  <2>2. call[c].old = None
    BY <1>4 DEF ClientInv, CallInv, Is
  <2>3. j.user = User /\ j.pc = "issue" /\ j.device = Device /\ j.token = None
    OBVIOUS
  <2>. HIDE DEF j
  <2>. QED
    BY <1>1, <1>4, <2>1, <2>2, <2>3, Serving DEF Is
<1>. QED
  BY <1>2, <1>3, <1>4 DEF Serve

ServedBy(c, h) == Is(c, "served") /\ call[c].h = h

\* Who is granted what: the call of the handler, if it still waits.
GrantedTo(h, t) ==
  /\ ClientTypeOK'
  /\ \A c \in Calls : ~ServedBy(c, h) => call'[c] = call[c]
  /\ \A c \in Calls : ServedBy(c, h) =>
       /\ call'[c] # None /\ call'[c].pc = "granted" /\ call'[c].new = t
       /\ call'[c].kind = call[c].kind /\ call'[c].old = call[c].old /\ call'[c].pair = call[c].pair

\* The answer goes to the one call that waits for the handler.
LEMMA GrantEffect ==
  ASSUME ClientTypeOK, NEW h \in Handlers, NEW t \in Tokens \cup {None}, Grant(h, t),
         UNCHANGED <<stored, lapsed, over, crossed>>
  PROVE  GrantedTo(h, t)
<1>1. ASSUME NEW c \in Calls
      PROVE  /\ call'[c] \in Call \cup {None}
             /\ ~ServedBy(c, h) => call'[c] = call[c]
             /\ ServedBy(c, h) =>
                  /\ call'[c] # None /\ call'[c].pc = "granted" /\ call'[c].new = t
                  /\ call'[c].kind = call[c].kind /\ call'[c].old = call[c].old /\ call'[c].pair = call[c].pair
  <2>1. CASE ServedBy(c, h)
    <3>1. call'[c] = [call[c] EXCEPT !.pc = "granted", !.h = None, !.new = t]
      BY <2>1 DEF Grant, ServedBy
    <3>2. PICK a \in Call : a = call[c]
      BY <2>1, CallFields DEF ServedBy, Is
    <3>3. PICK k \in Call : k = [a EXCEPT !.pc = "granted", !.h = None, !.new = t]
      BY DEF Call
    <3>4. k # None /\ k.pc = "granted" /\ k.new = t /\ k.kind = a.kind /\ k.old = a.old /\ k.pair = a.pair
      BY <3>3, NoCallAssumption DEF Call
    <3>. QED
      BY <2>1, <3>1, <3>2, <3>3, <3>4
  <2>2. CASE ~ServedBy(c, h)
    BY <2>2 DEF Grant, ServedBy, ClientTypeOK
  <2>. QED
    BY <2>1, <2>2
<1>2. call' \in [Calls -> Call \cup {None}]
  BY <1>1 DEF Grant
<1>. QED
  BY <1>1, <1>2 DEF GrantedTo, ClientTypeOK

\* What stays as it was in a step that leaves every row where and whose it is.
KeptRows ==
  \A t \in Tokens :
    /\ Exists(t)' <=> Exists(t)
    /\ Exists(t) => /\ token'[t].session = token[t].session
                    /\ token'[t].user = token[t].user
                    /\ token'[t].device = token[t].device
                    /\ token'[t].expired = token[t].expired
    /\ Live(t)' => Live(t)

\* With the rows kept, every token remains of its session.
LEMMA KeptSessions ==
  ASSUME ClientTypeOK, KnownInv, KeptRows
  PROVE  /\ \A t \in Tokens : Exists(t) => (SessionsOf(t))' = SessionsOf(t)
         /\ UNCHANGED stored => SessionsOf(stored)' = SessionsOf(stored)
         /\ \A c \in Calls : \A s : call'[c] # None /\ call[c] # None /\ call'[c].old = call[c].old =>
              (Renewing(c, s)' <=> Renewing(c, s))
<1>1. \A t \in Tokens : Exists(t) => (IF t = None THEN {} ELSE {token'[t].session}) = SessionsOf(t)
  BY DEF KeptRows, SessionsOf
<1>. QED
  BY <1>1, Known DEF SessionsOf, Renewing

\* The old token is revoked: it is stored, or on its way, only while the call that
\* exchanges it waits.
LEMMA RotatingInv ==
  ASSUME TypeOK, RotationInv, ClientTypeOK, ClientInv, NEW h \in Handlers, Rotate(h),
         UNCHANGED <<call, stored, lapsed, over, crossed>>
  PROVE  ClientTypeOK' /\ ClientInv'
<1>1. PICK x \in Tokens : Rotated(h, x)
  BY RotateEffect
<1>2. PICK s \in Tokens : s = token[x].session /\ SessionsOf(x) = {s}
  BY <1>1, SessionKnown DEF Rotated
<1>3. /\ \A t \in Tokens : Live(t)' <=> Live(t) /\ t # x
      /\ UNCHANGED <<account, raced, ended>>
      /\ KeptRows
  BY <1>1 DEF Rotated, KeptRows
<1>4. Refreshing(h, s)
  BY <1>1, <1>2 DEF Rotated, Refreshing
\* The call that exchanges it, if it was not lost.
<1>5. s \in crossed \/ \E c \in Calls : Is(c, "served") /\ call[c].old = x
  <2>1. ASSUME s \notin crossed PROVE \E c \in Calls : Is(c, "served") /\ call[c].old = x
    <3>1. PICK c \in Calls : Is(c, "served") /\ call[c].h = h
      BY <1>4, <2>1 DEF ClientInv, ServedInv
    <3>2. h # None
      BY NoCallAssumption
    <3>. QED
      BY <1>1, <3>1, <3>2 DEF ClientInv, ServedInv, Rotated
  <2>. QED
    BY <2>1
<1>6. s \in crossed \/ \E c \in Calls : Is(c, "served") /\ call[c].old = x /\ Renewing(c, s)
  BY <1>2, <1>5 DEF Renewing, Is
<1>7. ClientTypeOK' /\ KnownInv'
  <2>1. ClientTypeOK'
    BY DEF ClientTypeOK
  <2>2. Mentioned' = Mentioned
    BY DEF Mentioned
  <2>3. \A t \in Mentioned \ {None} : t \in Tokens
    BY CallFields DEF Mentioned, ClientTypeOK
  <2>. QED
    BY <1>3, <2>1, <2>2, <2>3 DEF ClientInv, KnownInv, KeptRows
<1>8. OwnInv'
  <2>1. \A t \in Tokens : Exists(t)' =>
          token'[t].user = User /\ token'[t].device = Device /\ ~token'[t].expired
    BY <1>3 DEF ClientInv, OwnInv, KeptRows
  <2>2. \A g \in Handlers : job'[g] # None =>
          /\ job'[g].user = User /\ job'[g].pc # "delete"
          /\ job'[g].pc \in {"rotate", "issue"} => job'[g].device = Device
    BY <1>1 DEF ClientInv, OwnInv, Rotated
  <2>. QED
    BY <1>3, <2>1, <2>2 DEF ClientInv, OwnInv
<1>9. \A c \in Calls, y \in Tokens : Renewing(c, y)' <=> Renewing(c, y)
  BY KeptSessions, <1>3 DEF ClientInv, Renewing
<1>10. \A c \in Calls : \A pc : Is(c, pc)' <=> Is(c, pc)
  BY DEF Is
<1>11. CallInv'
  <2>1. \A c \in Calls : call[c] # None /\ call[c].pc = "granted" /\ call[c].old # None =>
          token'[call[c].new].session = token'[call[c].old].session
    BY <1>3, Known DEF ClientInv, CallInv, KeptRows
  <2>. QED
    BY <2>1 DEF ClientInv, CallInv
<1>12. ServedInv'
  <2>1. ASSUME NEW c \in Calls, Is(c, "served"), call[c].h # None
        PROVE  /\ job'[call[c].h] # None /\ job'[call[c].h].token = call[c].old
               /\ call[c].old = None => job'[call[c].h].pc = IF call[c].kind = "login" THEN "issue" ELSE "revoke"
    <3>1. call[c].h \in Handlers
      BY <2>1, CallFields DEF Is
    <3>2. /\ job[call[c].h] # None /\ job[call[c].h].token = call[c].old
          /\ call[c].old = None => job[call[c].h].pc = IF call[c].kind = "login" THEN "issue" ELSE "revoke"
      BY <2>1 DEF ClientInv, ServedInv
    <3>3. CASE call[c].h = h
      BY <1>1, <3>2, <3>3 DEF Rotated
    <3>4. CASE call[c].h # h
      BY <1>1, <3>1, <3>2, <3>4 DEF Rotated
    <3>. QED
      BY <3>3, <3>4
  <2>2. \A g \in Handlers, y \in Tokens : Refreshing(g, y)' => Refreshing(g, y)
    BY <1>1, <1>3, JobFields DEF Refreshing, RotationInv, ExchangeInv, Rotated, KeptRows
  <2>. QED
    BY <1>10, <2>1, <2>2 DEF ClientInv, ServedInv
<1>13. RenewingInv'
  <2>1. \A c, d \in Calls : \A y \in Tokens : Renewing(c, y)' /\ Renewing(d, y)' => c = d \/ y \in crossed'
    BY <1>9 DEF ClientInv, RenewingInv
  <2>2. \A c \in Calls : \A y \in Tokens : Renewing(c, y)' =>
          stored' = call'[c].old \/ (y \in crossed' /\ SessionsOf(stored)' \subseteq crossed')
    BY <1>3, <1>9, KeptSessions DEF ClientInv, RenewingInv
  <2>3. \A c \in Calls : \A y \in over' : Renewing(c, y)' => y \in crossed'
    BY <1>9 DEF ClientInv, RenewingInv, ClientTypeOK
  <2>4. \A c \in Calls : \A y \in Tokens \ (ended' \cup crossed') :
          Renewing(c, y)' /\ Is(c, "refresh")' => (Live(call[c].old))'
    <3>1. SUFFICES ASSUME NEW c \in Calls, NEW y \in Tokens \ (ended \cup crossed),
                          Renewing(c, y), Is(c, "refresh")
                   PROVE  (Live(call[c].old))'
      BY <1>3, <1>9, <1>10
    <3>2. PICK z \in Tokens : z = call[c].old /\ y = token[z].session
      BY <3>1, RenewingKnown DEF ClientInv
    <3>3. Live(z)
      BY <3>1, <3>2 DEF ClientInv, RenewingInv
    <3>4. z # x
      <4>1. SUFFICES ASSUME z = x PROVE FALSE
        OBVIOUS
      <4>2. PICK d \in Calls : Is(d, "served") /\ Renewing(d, s)
        BY <1>2, <1>6, <3>1, <3>2, <4>1
      <4>. QED
        BY <1>2, <3>1, <3>2, <4>1, <4>2 DEF ClientInv, RenewingInv, Is
    <3>. QED
      BY <1>3, <3>2, <3>3, <3>4
  <2>. QED
    BY <2>1, <2>2, <2>3, <2>4 DEF RenewingInv
<1>14. GrantedInv'
  <2>1. SUFFICES ASSUME NEW c \in Calls, NEW y \in Tokens, Is(c, "granted")', y = call'[c].new
                 PROVE  GrantedAs(c, y)'
    BY <1>7, GrantedNext
  <2>2. y = call[c].new /\ Is(c, "granted") /\ GrantedAs(c, y) /\ Exists(y)
    BY <1>10, <2>1, GrantedNow DEF ClientInv
  <2>3. (Live(y) /\ y # x) \/ token[y].session \in ended \cup crossed
    BY <1>2, <1>5, <2>2 DEF GrantedAs, Is
  <2>. QED
    BY <1>3, <2>2, <2>3 DEF GrantedAs, KeptRows
<1>15. SignedOutStays'
  BY <1>3, KeptSessions DEF ClientInv, SignedOutStays
<1>16. StoredIsCurrent'
  <2>1. SUFFICES ASSUME NEW y \in SessionsOf(stored) \ (ended \cup crossed), \A c \in Calls : ~Renewing(c, y)
                 PROVE  Live(stored)'
    <3>1. SessionsOf(stored) \subseteq Tokens
      BY Known, SessionKnown DEF ClientInv, SessionsOf
    <3>. QED
      BY <1>3, <1>9, <3>1, KeptSessions DEF ClientInv, StoredIsCurrent
  <2>2. PICK z \in Tokens : z = stored /\ y = token[z].session
    BY <2>1, Known DEF ClientInv, SessionsOf
  <2>3. Live(z) /\ z # x
    BY <1>2, <1>6, <2>1, <2>2 DEF ClientInv, StoredIsCurrent
  <2>. QED
    BY <1>3, <2>2, <2>3
<1>. QED
  BY <1>7, <1>8, <1>11, <1>12, <1>13, <1>14, <1>15, <1>16 DEF ClientInv

\* The rows a logout revokes: with them their sessions have ended.
LEMMA RevokingInv ==
  ASSUME TypeOK, RotationInv, ClientTypeOK, ClientInv, NEW h \in Handlers, Revoke(h), Grant(h, None),
         UNCHANGED <<stored, lapsed, over, crossed>>
  PROVE  ClientTypeOK' /\ ClientInv'
<1>1. Revoked(h)
  BY RevokeEffect
<1>2. GrantedTo(h, None)
  BY GrantEffect
<1>3. /\ KeptRows /\ account' = account /\ ended \subseteq ended'
      /\ \A t \in Tokens : Live(t) => Live(t)' \/ token[t].session \in ended'
      /\ \A g \in Handlers : job'[g] = IF g = h THEN None ELSE job[g]
  BY <1>1 DEF Revoked, KeptRows, Live, Selected
<1>4. \A t \in Tokens : Live(t) \/ (Exists(t) /\ token[t].session \in ended \cup crossed) =>
        Live(t)' \/ token'[t].session \in ended' \cup crossed'
  BY <1>3 DEF Live, KeptRows
\* Only a logout waits for such a handler.
<1>5. \A c \in Calls : ServedBy(c, h) => call[c] # None /\ call[c].kind = "logout" /\ call[c].old = None
  <2>1. SUFFICES ASSUME NEW c \in Calls, ServedBy(c, h)
                 PROVE  call[c] # None /\ call[c].kind = "logout" /\ call[c].old = None
    OBVIOUS
  <2>2. h # None /\ call[c].h # None /\ call[c] # None /\ call[c].pc = "served" /\ Is(c, "served")
    BY <2>1, NoCallAssumption DEF ServedBy, Is
  <2>3. job[h].token = call[c].old /\ (call[c].old = None => job[h].pc = IF call[c].kind = "login" THEN "issue" ELSE "revoke")
    BY <2>1, <2>2 DEF ClientInv, ServedInv, ServedBy
  <2>4. job[h].token = None
    BY <1>1 DEF Revoked, RotationInv, ExchangeInv
  <2>5. call[c].kind \in {"login", "logout"}
    BY <2>2, <2>3, <2>4 DEF ClientInv, CallInv
  <2>. QED
    BY <1>1, <2>2, <2>3, <2>4, <2>5 DEF Revoked
<1>6. ClientTypeOK'
  BY <1>2 DEF GrantedTo
<1>7. /\ \A c \in Calls : (call'[c] # None <=> call[c] # None)
      /\ \A c \in Calls : call[c] # None =>
           /\ call'[c].old = call[c].old /\ call'[c].pair = call[c].pair /\ call'[c].kind = call[c].kind
           /\ call'[c].new \in {None, call[c].new}
      /\ \A c \in Calls, s \in Tokens : Renewing(c, s)' <=> Renewing(c, s)
      /\ \A c \in Calls : Is(c, "refresh")' => Is(c, "refresh")
      /\ \A c \in Calls : Is(c, "served")' => Is(c, "served") /\ call'[c] = call[c] /\ call[c].h # h
      /\ \A c \in Calls : call'[c] # None /\ call'[c].new # None => call'[c] = call[c]
  <2>1. \A c \in Calls : ServedBy(c, h) => call[c] # None
    BY DEF ServedBy, Is
  <2>2. /\ \A c \in Calls : (call'[c] # None <=> call[c] # None)
        /\ \A c \in Calls : call[c] # None =>
             /\ call'[c].old = call[c].old /\ call'[c].pair = call[c].pair /\ call'[c].kind = call[c].kind
             /\ call'[c].new \in {None, call[c].new}
        /\ \A c \in Calls : call'[c] # None /\ call'[c].new # None => call'[c] = call[c]
    BY <1>2, <2>1 DEF GrantedTo
  <2>3. \A c \in Calls : Is(c, "refresh")' => Is(c, "refresh")
    BY <1>2 DEF GrantedTo, Is
  <2>4. \A c \in Calls : Is(c, "served")' => Is(c, "served") /\ call'[c] = call[c] /\ call[c].h # h
    BY <1>2 DEF GrantedTo, Is, ServedBy
  <2>5. \A c \in Calls, s \in Tokens : Renewing(c, s)' <=> Renewing(c, s)
    BY <1>3, <2>2, KeptSessions DEF ClientInv, Renewing
  <2>. QED
    BY <2>2, <2>3, <2>4, <2>5
<1>8. OwnInv'
  <2>1. \A t \in Tokens : Exists(t)' =>
          token'[t].user = User /\ token'[t].device = Device /\ ~token'[t].expired
    BY <1>3 DEF ClientInv, OwnInv, KeptRows
  <2>. QED
    BY <1>3, <2>1 DEF ClientInv, OwnInv
<1>9. KnownInv'
  <2>1. \A c \in Calls : call'[c] # None =>
            /\ call'[c].pair # None => call'[c].pair \in Tokens /\ Exists(call'[c].pair)
            /\ call'[c].old # None => call'[c].old \in Tokens /\ Exists(call'[c].old)
            /\ call'[c].new # None => call'[c].new \in Tokens /\ Exists(call'[c].new)
    BY <1>7, Known DEF ClientInv
  <2>2. (\A c \in Calls : call[c] # None =>
            /\ call[c].pair # None => Exists(call[c].pair)
            /\ call[c].old # None => Exists(call[c].old)
            /\ call[c].new # None => Exists(call[c].new))'
    BY <1>3, <2>1 DEF KeptRows
  <2>3. (stored # None => Exists(stored))' /\ (\A t \in lapsed \cup over \cup crossed : Exists(t))'
    BY <1>3, Known DEF ClientInv, KeptRows
  <2>. QED
    BY <1>6, <2>2, <2>3, KnownNext
<1>10. CallInv'
  <2>1. \A c \in Calls : call[c] # None /\ call[c].pc = "granted" /\ call[c].old # None =>
          token'[call[c].new].session = token'[call[c].old].session
    BY <1>3, Known DEF ClientInv, CallInv, KeptRows
  <2>2. \A c \in Calls : call'[c] # None =>
          IF ServedBy(c, h)
            THEN call'[c].pc = "granted" /\ call'[c].new = None /\ call'[c].kind = "logout" /\ call'[c].old = None
            ELSE call'[c] = call[c]
    BY <1>2, <1>5 DEF GrantedTo
  <2>. QED
    BY <2>1, <2>2 DEF ClientInv, CallInv
<1>11. ServedInv'
  <2>1. \A c \in Calls : Is(c, "served")' /\ call'[c].h # None =>
          /\ Is(c, "served") /\ call'[c] = call[c]
          /\ call[c].h \in Handlers /\ job'[call[c].h] = job[call[c].h]
    BY <1>3, <1>7, CallFields DEF Is
  <2>2. ASSUME NEW g \in Handlers, NEW s \in Tokens, Refreshing(g, s)'
        PROVE  s \in crossed' \/ \E c \in Calls : Is(c, "served")' /\ call'[c].h = g
    <3>1. g # h /\ Refreshing(g, s)
      BY <1>3, <2>2, JobFields DEF Refreshing, RotationInv, ExchangeInv, KeptRows
    <3>2. s \in crossed \/ \E c \in Calls : Is(c, "served") /\ call[c].h = g
      BY <3>1 DEF ClientInv, ServedInv
    <3>3. \A c \in Calls : Is(c, "served") /\ call[c].h = g => call'[c] = call[c] /\ Is(c, "served")'
      BY <1>2, <3>1 DEF GrantedTo, ServedBy, Is
    <3>. QED
      BY <3>2, <3>3
  <2>. QED
    BY <2>1, <2>2 DEF ClientInv, ServedInv
<1>12. RenewingInv'
  <2>1. \A c, d \in Calls : \A y \in Tokens : Renewing(c, y)' /\ Renewing(d, y)' => c = d \/ y \in crossed'
    BY <1>7 DEF ClientInv, RenewingInv
  <2>2. \A c \in Calls : \A y \in Tokens : Renewing(c, y)' =>
          stored' = call'[c].old \/ (y \in crossed' /\ SessionsOf(stored)' \subseteq crossed')
    <3>1. \A c \in Calls : \A y \in Tokens : Renewing(c, y) => call[c] # None
      BY DEF Renewing
    <3>. QED
      BY <1>3, <1>7, <3>1, KeptSessions DEF ClientInv, RenewingInv
  <2>3. \A c \in Calls : \A y \in over' : Renewing(c, y)' => y \in crossed'
    BY <1>7 DEF ClientInv, RenewingInv, ClientTypeOK
  <2>4. \A c \in Calls : \A y \in Tokens \ (ended' \cup crossed') :
          Renewing(c, y)' /\ Is(c, "refresh")' => (Live(call[c].old))'
    <3>1. SUFFICES ASSUME NEW c \in Calls, NEW y \in Tokens \ (ended' \cup crossed'),
                          Renewing(c, y), Is(c, "refresh")
                   PROVE  (Live(call[c].old))'
      BY <1>7
    <3>2. PICK z \in Tokens : z = call[c].old /\ z = call'[c].old /\ y = token[z].session
      BY <1>7, <3>1, RenewingKnown DEF ClientInv
    <3>3. Live(z)
      BY <1>3, <3>1, <3>2 DEF ClientInv, RenewingInv
    <3>. QED
      BY <1>3, <3>1, <3>2, <3>3
  <2>. QED
    BY <2>1, <2>2, <2>3, <2>4 DEF RenewingInv
<1>13. GrantedInv'
  <2>1. SUFFICES ASSUME NEW c \in Calls, NEW y \in Tokens, Is(c, "granted")', y = call'[c].new
                 PROVE  GrantedAs(c, y)'
    BY <1>6, GrantedNext
  <2>2. y # None /\ call'[c] = call[c] /\ Is(c, "granted")
    BY <1>7, <2>1 DEF Is
  <2>3. y = call[c].new /\ GrantedAs(c, y) /\ Exists(y)
    BY <2>1, <2>2, GrantedNow DEF ClientInv
  <2>4. \A e \in Calls : call'[e] # None => y \notin {call'[e].pair, call'[e].old} /\ (y = call'[e].new => c = e)
    BY <1>7, <2>2, <2>3 DEF GrantedAs
  <2>5. Live(y)' \/ token'[y].session \in ended' \cup crossed'
    BY <1>4, <2>3 DEF GrantedAs
  <2>. QED
    BY <1>3, <2>2, <2>3, <2>4, <2>5 DEF GrantedAs, KeptRows
<1>14. SignedOutStays'
  BY <1>3, KeptSessions DEF ClientInv, SignedOutStays
<1>15. StoredIsCurrent'
  <2>1. SUFFICES ASSUME NEW y \in SessionsOf(stored) \ (ended' \cup crossed), \A c \in Calls : ~Renewing(c, y)
                 PROVE  Live(stored)'
    <3>1. SessionsOf(stored) \subseteq Tokens
      BY Known, SessionKnown DEF ClientInv, SessionsOf
    <3>. QED
      BY <1>3, <1>7, <3>1, KeptSessions DEF ClientInv, StoredIsCurrent
  <2>2. PICK z \in Tokens : z = stored /\ y = token[z].session
    BY <2>1, Known DEF ClientInv, SessionsOf
  <2>3. Live(z)
    BY <1>3, <2>1, <2>2 DEF ClientInv, StoredIsCurrent
  <2>. QED
    BY <1>3, <2>1, <2>2, <2>3
<1>. QED
  BY <1>6, <1>8, <1>9, <1>10, <1>11, <1>12, <1>13, <1>14, <1>15 DEF ClientInv

\* A token comes that nobody has heard of, and the call that waits is granted it.
LEMMA IssuingInv ==
  ASSUME TypeOK, RotationInv, ClientTypeOK, ClientInv, NEW h \in Handlers, NEW t \in Tokens,
         Issue(h, t), Grant(h, t), UNCHANGED <<stored, lapsed, over, crossed>>
  PROVE  ClientTypeOK' /\ ClientInv'
<1>1. Issued(h, t)
  BY IssueEffect
<1>2. GrantedTo(h, t)
  BY GrantEffect
<1>3. PICK z \in Tokens : z = token'[t].session
  BY <1>1 DEF Issued
<1>4. /\ job[h] # None /\ job[h].pc = "issue" /\ ~Exists(t) /\ t # None
      /\ \A u \in Tokens : u # t => (Exists(u)' <=> Exists(u)) /\ (Live(u)' <=> Live(u)) /\ token'[u] = token[u]
      /\ Exists(t)' /\ Live(t)'
      /\ \A u \in Tokens : Exists(u) => token[u].session # t
      /\ job[h].token = None => z = t
      /\ job[h].token # None =>
           /\ job[h].token \in Tokens /\ Exists(job[h].token) /\ z = token[job[h].token].session
           /\ Refreshing(h, z) /\ z # t
      /\ \A g \in Handlers : job'[g] = IF g = h THEN None ELSE job[g]
      /\ UNCHANGED <<account, raced, ended>>
  BY <1>1, <1>3 DEF Issued
<1>5. /\ t # stored /\ t \notin lapsed \cup over \cup crossed
      /\ \A c \in Calls : call[c] # None => t # call[c].pair /\ t # call[c].old /\ t # call[c].new
  BY <1>4, Known DEF ClientInv
\* Rows there were stay as they were, and so do the sessions the client knows of.
<1>6. \A u \in Tokens : Exists(u) => u # t /\ Exists(u)' /\ token'[u] = token[u] /\ (Live(u)' <=> Live(u))
  BY <1>4
<1>7. SessionsOf(stored)' = SessionsOf(stored)
  <2>1. stored # None => token'[stored] = token[stored]
    BY <1>6, Known DEF ClientInv
  <2>. QED
    BY <2>1 DEF SessionsOf
\* Whom it is granted to.
<1>8. ASSUME NEW c \in Calls, ServedBy(c, h)
      PROVE  /\ call[c] # None /\ Is(c, "served") /\ job[h].token = call[c].old
             /\ call[c].old = None => call[c].kind = "login"
             /\ call[c].old # None => call[c].kind # "login"
             /\ \A d \in Calls : ServedBy(d, h) => d = c
  <2>1. h # None /\ call[c].h = h /\ call[c] # None /\ call[c].pc = "served" /\ Is(c, "served")
    BY <1>8, NoCallAssumption DEF ServedBy, Is
  <2>2. /\ job[h].token = call[c].old
        /\ call[c].old = None => job[h].pc = IF call[c].kind = "login" THEN "issue" ELSE "revoke"
        /\ \A d \in Calls : ServedBy(d, h) => d = c
    BY <2>1 DEF ClientInv, ServedInv, ServedBy
  <2>3. call[c].old # None => call[c].kind # "login"
    BY <2>1 DEF ClientInv, CallInv
  <2>. QED
    BY <1>4, <2>1, <2>2, <2>3
<1>9. ClientTypeOK'
  BY <1>2 DEF GrantedTo
<1>10. /\ \A c \in Calls : (call'[c] # None <=> call[c] # None)
       /\ \A c \in Calls : call[c] # None =>
            /\ call'[c].old = call[c].old /\ call'[c].pair = call[c].pair /\ call'[c].kind = call[c].kind
            /\ call'[c].new = (IF ServedBy(c, h) THEN t ELSE call[c].new)
       /\ \A c \in Calls : ~ServedBy(c, h) => call'[c] = call[c]
  <2>1. \A c \in Calls : ServedBy(c, h) => call[c] # None
    BY DEF ServedBy, Is
  <2>. QED
    BY <1>2, <2>1 DEF GrantedTo
<1>11. \A c \in Calls, s \in Tokens : Renewing(c, s)' <=> Renewing(c, s)
  <2>1. \A c \in Calls : call[c] # None /\ call[c].old # None => token'[call[c].old] = token[call[c].old]
    BY <1>6, Known DEF ClientInv
  <2>. QED
    BY <1>10, <2>1 DEF Renewing, SessionsOf
<1>12. /\ \A c \in Calls : Is(c, "refresh")' => Is(c, "refresh")
       /\ \A c \in Calls : Is(c, "served")' => Is(c, "served") /\ call'[c] = call[c] /\ call[c].h # h
       /\ \A c \in Calls : Is(c, "served") /\ call[c].h # h => Is(c, "served")' /\ call'[c] = call[c]
       /\ \A c \in Calls : Is(c, "granted")' =>
            ServedBy(c, h) \/ (Is(c, "granted") /\ call'[c] = call[c])
  <2>1. SUFFICES ASSUME NEW c \in Calls
                 PROVE  /\ Is(c, "refresh")' => Is(c, "refresh")
                        /\ Is(c, "served")' => Is(c, "served") /\ call'[c] = call[c] /\ call[c].h # h
                        /\ Is(c, "served") /\ call[c].h # h => Is(c, "served")' /\ call'[c] = call[c]
                        /\ Is(c, "granted")' => ServedBy(c, h) \/ (Is(c, "granted") /\ call'[c] = call[c])
    OBVIOUS
  <2>2. CASE ServedBy(c, h)
    BY <1>2, <2>2 DEF GrantedTo, Is, ServedBy
  <2>3. CASE ~ServedBy(c, h)
    BY <1>10, <2>3 DEF Is, ServedBy
  <2>. QED
    BY <2>2, <2>3
<1>13. OwnInv'
  <2>1. job[h].user = User /\ job[h].device = Device
    BY <1>4 DEF ClientInv, OwnInv
  <2>2. token'[t].user = User /\ token'[t].device = Device /\ ~token'[t].expired
    BY <1>1, <2>1 DEF Issued
  <2>3. \A u \in Tokens : Exists(u)' =>
          token'[u].user = User /\ token'[u].device = Device /\ ~token'[u].expired
    BY <1>4, <2>2 DEF ClientInv, OwnInv
  <2>. QED
    BY <1>4, <2>3 DEF ClientInv, OwnInv
<1>14. KnownInv'
  <2>1. \A u \in Tokens : Exists(u) \/ u = t => Exists(u)'
    BY <1>4
  <2>2. \A c \in Calls : call'[c] # None =>
            /\ call'[c].pair # None => call'[c].pair \in Tokens /\ Exists(call'[c].pair)
            /\ call'[c].old # None => call'[c].old \in Tokens /\ Exists(call'[c].old)
            /\ call'[c].new # None => call'[c].new \in Tokens /\ (Exists(call'[c].new) \/ call'[c].new = t)
    BY <1>10, Known DEF ClientInv
  <2>3. (\A c \in Calls : call[c] # None =>
            /\ call[c].pair # None => Exists(call[c].pair)
            /\ call[c].old # None => Exists(call[c].old)
            /\ call[c].new # None => Exists(call[c].new))'
    BY <2>1, <2>2
  <2>4. (stored # None => Exists(stored))' /\ (\A u \in lapsed \cup over \cup crossed : Exists(u))'
    BY <2>1, Known DEF ClientInv
  <2>. QED
    BY <1>9, <2>3, <2>4, KnownNext
<1>15. CallInv'
  <2>1. ASSUME NEW c \in Calls, ServedBy(c, h)
        PROVE  /\ call'[c].pc = "granted" /\ call'[c].new # None
               /\ call'[c].old = None => call'[c].kind = "login"
               /\ call'[c].old # None => call'[c].kind # "login"
               /\ call'[c].old # None => token'[call'[c].new].session = token'[call'[c].old].session
    <3>1. call'[c].pc = "granted" /\ call'[c].new = t /\ call'[c].old = call[c].old /\ call'[c].kind = call[c].kind
      BY <1>2, <2>1 DEF GrantedTo
    <3>2. call[c].old # None => z = token[call[c].old].session /\ token'[call[c].old] = token[call[c].old]
      BY <1>4, <1>6, <1>8, <2>1
    <3>. QED
      BY <1>3, <1>4, <1>8, <2>1, <3>1, <3>2
  <2>2. \A c \in Calls : call[c] # None /\ call[c].pc = "granted" /\ call[c].old # None =>
          token'[call[c].new].session = token'[call[c].old].session
    BY <1>6, Known DEF ClientInv, CallInv
  <2>3. \A c \in Calls : ~ServedBy(c, h) => call'[c] = call[c]
    BY <1>10
  <2>. QED
    BY <2>1, <2>2, <2>3 DEF ClientInv, CallInv
<1>16. ServedInv'
  <2>1. \A c \in Calls : Is(c, "served")' /\ call'[c].h # None =>
          /\ Is(c, "served") /\ call'[c] = call[c]
          /\ call[c].h \in Handlers /\ job'[call[c].h] = job[call[c].h]
    BY <1>4, <1>12, CallFields DEF Is
  <2>2. ASSUME NEW g \in Handlers, NEW s \in Tokens, Refreshing(g, s)'
        PROVE  s \in crossed' \/ \E c \in Calls : Is(c, "served")' /\ call'[c].h = g
    <3>1. g # h /\ Refreshing(g, s)
      BY <1>4, <1>6, <2>2, JobFields DEF Refreshing, RotationInv, ExchangeInv
    <3>2. s \in crossed \/ \E c \in Calls : Is(c, "served") /\ call[c].h = g
      BY <3>1 DEF ClientInv, ServedInv
    <3>. QED
      BY <1>12, <3>1, <3>2
  <2>. QED
    BY <2>1, <2>2 DEF ClientInv, ServedInv
<1>17. RenewingInv'
  <2>1. \A c, d \in Calls : \A y \in Tokens : Renewing(c, y)' /\ Renewing(d, y)' => c = d \/ y \in crossed'
    BY <1>11 DEF ClientInv, RenewingInv
  <2>2. \A c \in Calls : \A y \in Tokens : Renewing(c, y)' =>
          stored' = call'[c].old \/ (y \in crossed' /\ SessionsOf(stored)' \subseteq crossed')
    <3>1. \A c \in Calls : \A y \in Tokens : Renewing(c, y) => call[c] # None
      BY DEF Renewing
    <3>. QED
      BY <1>7, <1>10, <1>11, <3>1 DEF ClientInv, RenewingInv
  <2>3. \A c \in Calls : \A y \in over' : Renewing(c, y)' => y \in crossed'
    BY <1>11 DEF ClientInv, RenewingInv, ClientTypeOK
  <2>4. \A c \in Calls : \A y \in Tokens \ (ended' \cup crossed') :
          Renewing(c, y)' /\ Is(c, "refresh")' => (Live(call[c].old))'
    <3>1. SUFFICES ASSUME NEW c \in Calls, NEW y \in Tokens \ (ended \cup crossed),
                          Renewing(c, y), Is(c, "refresh")
                   PROVE  (Live(call[c].old))'
      BY <1>4, <1>11, <1>12
    <3>2. PICK u \in Tokens : u = call[c].old /\ u = call'[c].old /\ Exists(u)
      BY <1>10, <3>1, RenewingKnown DEF ClientInv
    <3>3. Live(u)
      BY <3>1, <3>2 DEF ClientInv, RenewingInv
    <3>. QED
      BY <1>6, <3>2, <3>3
  <2>. QED
    BY <2>1, <2>2, <2>3, <2>4 DEF RenewingInv
<1>18. GrantedInv'
  <2>1. SUFFICES ASSUME NEW c \in Calls, NEW y \in Tokens, Is(c, "granted")', y = call'[c].new
                 PROVE  GrantedAs(c, y)'
    BY <1>9, GrantedNext
  <2>2. CASE ServedBy(c, h)
    <3>1. y = t /\ call[c] # None
      BY <1>8, <1>10, <2>1, <2>2
    <3>2. \A e \in Calls : call'[e] # None => t \notin {call'[e].pair, call'[e].old} /\ (t = call'[e].new => c = e)
      <4>1. SUFFICES ASSUME NEW e \in Calls, call[e] # None
                     PROVE  t \notin {call'[e].pair, call'[e].old} /\ (t = call'[e].new => c = e)
        BY <1>10
      <4>2. t # call[e].pair /\ t # call[e].old /\ t # call[e].new
        BY <1>5, <4>1
      <4>3. ServedBy(e, h) => c = e
        BY <1>8, <2>2
      <4>. QED
        BY <1>10, <4>1, <4>2, <4>3
    <3>3. call'[c].kind = "login" => z = t
      BY <1>4, <1>8, <1>10, <2>2
    <3>4. call'[c].kind = "login" => \A u \in Tokens : Exists(u)' => (token'[u].session = t <=> u = t)
      BY <1>3, <1>4, <3>3
    <3>. QED
      BY <1>4, <1>5, <3>1, <3>2, <3>4 DEF GrantedAs
  <2>3. CASE ~ServedBy(c, h)
    <3>1. Is(c, "granted") /\ call'[c] = call[c] /\ call[c] # None
      BY <1>12, <2>3, <2>1 DEF Is
    <3>2. y = call[c].new /\ y # None /\ GrantedAs(c, y) /\ Exists(y)
      BY <2>1, <3>1, GrantedNow DEF ClientInv
    <3>3. y # t /\ token'[y] = token[y] /\ (Live(y)' <=> Live(y))
      BY <1>6, <3>2
    <3>4. \A e \in Calls : call'[e] # None => y \notin {call'[e].pair, call'[e].old} /\ (y = call'[e].new => c = e)
      BY <1>10, <3>2, <3>3 DEF GrantedAs
    \* Nobody exchanges a token that was only granted.
    <3>5. call[c].kind = "login" => z # y
      <4>1. SUFFICES ASSUME call[c].kind = "login", z = y PROVE FALSE
        OBVIOUS
      <4>2. /\ y \notin crossed /\ \A e \in Calls : call[e] # None => y # call[e].old
            /\ \A u \in Tokens : Exists(u) => (token[u].session = y <=> u = y)
        BY <3>2, <4>1 DEF GrantedAs
      <4>3. job[h].token = y /\ Refreshing(h, y)
        BY <1>4, <3>3, <4>1, <4>2
      <4>4. PICK e \in Calls : ServedBy(e, h)
        BY <4>2, <4>3 DEF ClientInv, ServedInv, ServedBy
      <4>. QED
        BY <1>8, <4>2, <4>3, <4>4
    <3>6. call[c].kind = "login" => \A u \in Tokens : Exists(u)' => (token'[u].session = y <=> u = y)
      BY <1>3, <1>4, <3>2, <3>3, <3>5 DEF GrantedAs
    <3>. QED
      BY <1>4, <3>1, <3>2, <3>3, <3>4, <3>6 DEF GrantedAs
  <2>. QED
    BY <2>2, <2>3
<1>19. SignedOutStays'
  BY <1>7 DEF ClientInv, SignedOutStays
<1>20. StoredIsCurrent'
  <2>1. SUFFICES ASSUME NEW y \in SessionsOf(stored) \ (ended \cup crossed), \A c \in Calls : ~Renewing(c, y)
                 PROVE  Live(stored)'
    <3>1. SessionsOf(stored) \subseteq Tokens
      BY Known, SessionKnown DEF ClientInv, SessionsOf
    <3>. QED
      BY <1>4, <1>7, <1>11, <3>1 DEF ClientInv, StoredIsCurrent
  <2>2. PICK u \in Tokens : u = stored /\ Exists(u)
    BY <2>1, Known DEF ClientInv, SessionsOf
  <2>3. Live(u)
    BY <2>1, <2>2 DEF ClientInv, StoredIsCurrent
  <2>. QED
    BY <1>6, <2>2, <2>3
<1>. QED
  BY <1>9, <1>13, <1>14, <1>15, <1>16, <1>17, <1>18, <1>19, <1>20 DEF ClientInv

\* A handler goes on, whichever its step.
LEMMA WorkInv ==
  ASSUME TypeOK, RotationInv, ClientTypeOK, ClientInv, NEW h \in Handlers, Work(h)
  PROVE  ClientTypeOK' /\ ClientInv'
BY RotatingInv, IssuingInv, RevokingInv DEF Work

\* The session of the request that died is crossed.
LEMMA CrashInv ==
  ASSUME TypeOK, RotationInv, ClientTypeOK, ClientInv, NEW h \in Handlers, Crash(h)
  PROVE  ClientTypeOK' /\ ClientInv'
<1>. DEFINE X == UNION {SessionsOf(call[c].old) : c \in {d \in Calls : ServedBy(d, h)}}
<1>1. /\ UNCHANGED <<account, token, raced, ended, stored, lapsed, over>>
      /\ crossed' = crossed \cup X
      /\ \A g \in Handlers : job'[g] = IF g = h THEN None ELSE job[g]
  BY DEF Crash, CutShort, Done, TypeOK, ServedBy
<1>2. ASSUME NEW c \in Calls
      PROVE  /\ call'[c] \in Call \cup {None}
             /\ call'[c] # None <=> call[c] # None
             /\ call[c] # None =>
                  /\ call'[c].kind = call[c].kind /\ call'[c].pc = call[c].pc /\ call'[c].pair = call[c].pair
                  /\ call'[c].old = call[c].old /\ call'[c].new = call[c].new /\ call'[c].retried = call[c].retried
                  /\ call'[c].h = IF ServedBy(c, h) THEN None ELSE call[c].h
  <2>1. CASE ServedBy(c, h)
    <3>1. call'[c] = [call[c] EXCEPT !.h = None]
      BY <2>1 DEF Crash, ServedBy
    <3>2. PICK a \in Call : a = call[c]
      BY <2>1, CallFields DEF ServedBy, Is
    <3>3. PICK k \in Call : k = [a EXCEPT !.h = None]
      BY DEF Call
    <3>4. /\ k # None /\ a # None /\ k.kind = a.kind /\ k.pc = a.pc /\ k.pair = a.pair /\ k.old = a.old
          /\ k.new = a.new /\ k.retried = a.retried /\ k.h = None
      BY <3>3, NoCallAssumption DEF Call
    <3>. QED
      BY <2>1, <3>1, <3>2, <3>3, <3>4
  <2>2. CASE ~ServedBy(c, h)
    BY <2>2 DEF Crash, ServedBy, ClientTypeOK
  <2>. QED
    BY <2>1, <2>2
<1>3. X \subseteq Renewed /\ \A c \in Calls, s \in Tokens : ServedBy(c, h) /\ Renewing(c, s) => s \in crossed'
  <2>1. \A c \in Calls : ServedBy(c, h) => call[c] # None
    BY DEF ServedBy, Is
  <2>2. X \subseteq Renewed
    <3>1. SUFFICES ASSUME NEW c \in Calls, ServedBy(c, h), NEW s \in SessionsOf(call[c].old) PROVE s \in Renewed
      OBVIOUS
    <3>2. Renewing(c, s)
      BY <2>1, <3>1 DEF Renewing
    <3>. QED
      BY <3>2, RenewingKnown DEF Renewed, ClientInv
  <2>3. ASSUME NEW c \in Calls, NEW s \in Tokens, ServedBy(c, h), Renewing(c, s) PROVE s \in crossed'
    <3>1. s \in SessionsOf(call[c].old)
      BY <2>3 DEF Renewing
    <3>. QED
      BY <1>1, <2>3, <3>1
  <2>. QED
    BY <2>2, <2>3
<1>. HIDE DEF X
<1>4. \A s \in X : s \in Tokens /\ Exists(s) /\ \E c \in Calls : Renewing(c, s)
  BY <1>3, RenewingKnown DEF Renewed, ClientInv
<1>5. ClientTypeOK'
  <2>1. call' \in [Calls -> Call \cup {None}]
    BY <1>2 DEF Crash
  <2>. QED
    BY <1>1, <1>4, <2>1 DEF ClientTypeOK
<1>6. /\ \A t \in Tokens : (Exists(t)' <=> Exists(t)) /\ (Live(t)' <=> Live(t))
      /\ SessionsOf(stored)' = SessionsOf(stored)
      /\ \A g \in Handlers, s \in Tokens : Refreshing(g, s)' => g # h /\ Refreshing(g, s)
      /\ token' = token
  BY <1>1 DEF Exists, Live, SessionsOf, Refreshing
<1>7. /\ \A c \in Calls, s \in Tokens : Renewing(c, s)' <=> Renewing(c, s)
      /\ \A c \in Calls : \A pc : Is(c, pc)' <=> Is(c, pc)
  <2>1. \A c \in Calls, s \in Tokens : Renewing(c, s)' <=> Renewing(c, s)
    BY <1>2, <1>6 DEF Renewing, SessionsOf
  <2>2. \A c \in Calls : \A pc : Is(c, pc)' <=> Is(c, pc)
    BY <1>2 DEF Is
  <2>. QED
    BY <2>1, <2>2
<1>8. OwnInv'
  <2>1. \A t \in Tokens : Exists(t) =>
          token'[t].user = User /\ token'[t].device = Device /\ ~token'[t].expired
    BY <1>6 DEF ClientInv, OwnInv
  <2>. QED
    BY <1>1, <1>6, <2>1 DEF ClientInv, OwnInv
<1>9. KnownInv'
  <2>1. \A c \in Calls : call'[c] # None =>
            /\ call'[c].pair # None => call'[c].pair \in Tokens /\ Exists(call'[c].pair)
            /\ call'[c].old # None => call'[c].old \in Tokens /\ Exists(call'[c].old)
            /\ call'[c].new # None => call'[c].new \in Tokens /\ Exists(call'[c].new)
    BY <1>2, Known DEF ClientInv
  <2>2. (\A c \in Calls : call[c] # None =>
            /\ call[c].pair # None => Exists(call[c].pair)
            /\ call[c].old # None => Exists(call[c].old)
            /\ call[c].new # None => Exists(call[c].new))'
    BY <1>6, <2>1
  <2>3. (stored # None => Exists(stored))' /\ (\A u \in lapsed \cup over \cup crossed : Exists(u))'
    BY <1>1, <1>4, <1>6, Known DEF ClientInv
  <2>. QED
    BY <1>5, <2>2, <2>3, KnownNext
<1>10. CallInv'
  <2>1. lapsed' = lapsed
    BY <1>1
  <2>. QED
    BY <1>2, <1>6, <2>1 DEF ClientInv, CallInv
<1>11. ServedInv'
  <2>1. ASSUME NEW c \in Calls, Is(c, "served")', call'[c].h # None
        PROVE  /\ Is(c, "served") /\ call'[c].h = call[c].h /\ call[c].h # None
               /\ call'[c].old = call[c].old /\ call'[c].kind = call[c].kind
               /\ call[c].h \in Handlers /\ job'[call[c].h] = job[call[c].h]
    <3>1. Is(c, "served") /\ call[c] # None
      BY <1>7, <2>1 DEF Is
    <3>2. ~ServedBy(c, h) /\ call'[c].h = call[c].h /\ call[c].h # h /\ call[c].h \in Handlers
      BY <1>2, <2>1, <3>1, CallFields DEF ServedBy
    <3>. QED
      BY <1>1, <1>2, <2>1, <3>1, <3>2
  <2>2. ASSUME NEW g \in Handlers, NEW s \in Tokens, Refreshing(g, s)'
        PROVE  s \in crossed' \/ \E c \in Calls : Is(c, "served")' /\ call'[c].h = g
    <3>1. g # h /\ (s \in crossed \/ \E c \in Calls : Is(c, "served") /\ call[c].h = g)
      BY <1>6, <2>2 DEF ClientInv, ServedInv
    <3>2. \A c \in Calls : Is(c, "served") /\ call[c].h = g => Is(c, "served")' /\ call'[c].h = g
      BY <1>2, <1>7, <3>1 DEF Is, ServedBy
    <3>. QED
      BY <1>1, <3>1, <3>2
  <2>3. ASSUME NEW c \in Calls, Is(c, "served")', call'[c].h # None,
               NEW d \in Calls, Is(d, "served")', call'[d].h = call'[c].h
        PROVE  c = d
    BY <2>1, <2>3 DEF ClientInv, ServedInv
  <2>4. ASSUME NEW c \in Calls, Is(c, "served")', call'[c].h # None
        PROVE  /\ job'[call'[c].h] # None /\ job'[call'[c].h].token = call'[c].old
               /\ call'[c].old = None => job'[call'[c].h].pc = IF call'[c].kind = "login" THEN "issue" ELSE "revoke"
    BY <2>1, <2>4 DEF ClientInv, ServedInv
  <2>. QED
    BY <2>2, <2>3, <2>4 DEF ServedInv
<1>12. RenewingInv'
  <2>1. \A c, d \in Calls : \A y \in Tokens : Renewing(c, y)' /\ Renewing(d, y)' => c = d \/ y \in crossed'
    BY <1>1, <1>7 DEF ClientInv, RenewingInv
  <2>2. \A c \in Calls : \A y \in Tokens : Renewing(c, y)' =>
          stored' = call'[c].old \/ (y \in crossed' /\ SessionsOf(stored)' \subseteq crossed')
    <3>1. \A c \in Calls : \A y \in Tokens : Renewing(c, y) => call[c] # None
      BY DEF Renewing
    <3>. QED
      BY <1>1, <1>2, <1>6, <1>7, <3>1 DEF ClientInv, RenewingInv
  <2>3. \A c \in Calls : \A y \in over' : Renewing(c, y)' => y \in crossed'
    BY <1>1, <1>7 DEF ClientInv, RenewingInv, ClientTypeOK
  <2>4. \A c \in Calls : \A y \in Tokens \ (ended' \cup crossed') :
          Renewing(c, y)' /\ Is(c, "refresh")' => (Live(call[c].old))'
    <3>1. SUFFICES ASSUME NEW c \in Calls, NEW y \in Tokens \ (ended \cup crossed),
                          Renewing(c, y), Is(c, "refresh")
                   PROVE  (Live(call[c].old))'
      BY <1>1, <1>7
    <3>2. PICK u \in Tokens : u = call[c].old /\ u = call'[c].old
      BY <1>2, <3>1, RenewingKnown DEF ClientInv
    <3>3. Live(u)
      BY <3>1, <3>2 DEF ClientInv, RenewingInv
    <3>. QED
      BY <1>6, <3>2, <3>3
  <2>. QED
    BY <2>1, <2>2, <2>3, <2>4 DEF RenewingInv
<1>13. GrantedInv'
  <2>1. SUFFICES ASSUME NEW c \in Calls, NEW y \in Tokens, Is(c, "granted")', y = call'[c].new
                 PROVE  GrantedAs(c, y)'
    BY <1>5, GrantedNext
  <2>2. Is(c, "granted") /\ call[c] # None /\ y = call[c].new /\ y # None /\ call'[c].kind = call[c].kind
    BY <1>2, <1>7, <2>1 DEF Is
  <2>3. GrantedAs(c, y) /\ Exists(y)
    BY <2>2, GrantedNow DEF ClientInv
  <2>4. \A e \in Calls : call'[e] # None => y \notin {call'[e].pair, call'[e].old} /\ (y = call'[e].new => c = e)
    BY <1>2, <2>3 DEF GrantedAs
  <2>5. call[c].kind = "login" => y \notin crossed'
    BY <1>1, <1>4, <2>3, RenewingKnown DEF GrantedAs, ClientInv
  <2>. QED
    BY <1>1, <1>6, <2>2, <2>3, <2>4, <2>5 DEF GrantedAs
<1>14. SignedOutStays'
  BY <1>1, <1>6 DEF ClientInv, SignedOutStays
<1>15. StoredIsCurrent'
  <2>1. \A y \in SessionsOf(stored) : y \in Tokens /\ stored \in Tokens
    BY Known, SessionKnown DEF ClientInv, SessionsOf
  <2>. QED
    BY <1>1, <1>6, <1>7, <2>1 DEF ClientInv, StoredIsCurrent
<1>. QED
  BY <1>5, <1>8, <1>9, <1>10, <1>11, <1>12, <1>13, <1>14, <1>15 DEF ClientInv

\* To the server, the client does what handlers of Sessions do.
LEMMA ClientSteps ==
  ASSUME ClientTypeOK, ClientInv, [ClientNext]_allVars
  PROVE  [Next]_vars
<1>1. CASE UNCHANGED allVars
  BY <1>1 DEF allVars
<1>2. ASSUME NEW c \in Calls, NEW h \in Handlers, Serve(c, h) PROVE Next
  <2>1. CASE Is(c, "refresh") /\ Refresh(h, call[c].old, Device)
    <3>1. call[c].old \in Tokens
      BY <2>1, Known DEF Is, ClientInv, CallInv
    <3>. QED
      BY <2>1, <3>1, ClientAssumption DEF Next
  <2>2. CASE Logout(h, User, Device)
    BY <2>2, ClientAssumption DEF Next
  <2>3. CASE Login(h, User, Device)
    BY <2>3, ClientAssumption DEF Next
  <2>. QED
    BY <1>2, <2>1, <2>2, <2>3 DEF Serve
<1>3. ASSUME NEW h \in Handlers, Work(h) \/ Crash(h) \/ Elsewhere(h) PROVE Next
  <2>1. CASE Work(h)
    BY <2>1 DEF Work, Next
  <2>2. CASE Crash(h)
    BY <2>2 DEF Crash, Next
  <2>3. CASE Elsewhere(h)
    BY <2>3, ClientAssumption DEF Elsewhere, Next
  <2>. QED
    BY <1>3, <2>1, <2>2, <2>3
<1>4. ASSUME NEW c \in Calls,
             \/ \E kind \in {"get", "me", "login", "logout"} : Ask(c, kind)
             \/ Answered(c) \/ Denied(c) \/ Refreshed(c) \/ LoggedIn(c) \/ LoggedOut(c) \/ Refused(c)
             \/ Lost(c)
      PROVE  UNCHANGED vars
  BY <1>4 DEF Ask, Answered, Denied, Refreshed, LoggedIn, LoggedOut, Refused, Lost
<1>5. ASSUME NEW t \in Tokens, Lapse(t) PROVE UNCHANGED vars
  BY <1>5 DEF Lapse
<1>. QED
  BY <1>1, <1>2, <1>3, <1>4, <1>5 DEF ClientNext

AllInv == TypeOK /\ RotationInv /\ ClientTypeOK /\ ClientInv

\* Every step of the client, of the server and of other devices keeps the invariant.
LEMMA ClientNextInv ==
  ASSUME AllInv, [ClientNext]_allVars
  PROVE  AllInv'
<1>1. (TypeOK /\ RotationInv)'
  BY ClientSteps, NextInv DEF AllInv
<1>2. CASE UNCHANGED allVars
  <2>1. /\ UNCHANGED <<stored, lapsed, call, over, crossed, account, token, job, ended>>
    BY <1>2 DEF allVars, clientVars, vars
  <2>2. ClientTypeOK' /\ OwnInv' /\ KnownInv' /\ CallInv'
    BY <2>1 DEF AllInv, ClientTypeOK, ClientInv, OwnInv, KnownInv, Mentioned, CallInv, Exists
  <2>3. ServedInv' /\ RenewingInv'
    BY <2>1 DEF AllInv, ClientInv, ServedInv, RenewingInv, Renewing, Refreshing, SessionsOf, Is, Live, Exists
  <2>4. GrantedInv' /\ SignedOutStays' /\ StoredIsCurrent'
    BY <2>1 DEF AllInv, ClientInv, GrantedInv, SignedOutStays, StoredIsCurrent, Renewing, SessionsOf, Is, Live, Exists
  <2>. QED
    BY <1>1, <2>2, <2>3, <2>4 DEF AllInv, ClientInv
<1>3. CASE ClientNext
  <2>1. ClientTypeOK' /\ ClientInv'
    BY <1>3, AskInv, AnsweredInv, DeniedInv, RefreshedInv, LoggedInInv, LoggedOutInv, RefusedInv, LostInv,
       ServeInv, WorkInv, CrashInv, ElsewhereInv, LapseInv DEF ClientNext, AllInv
  <2>. QED
    BY <1>1, <2>1 DEF AllInv
<1>. QED
  BY <1>2, <1>3

\* So it holds throughout.
LEMMA ClientInvariants == ClientSpec => []AllInv
<1>1. ClientInit => AllInv
  <2>1. ClientInit => TypeOK /\ RotationInv
    BY DEF ClientInit, Init, TypeOK, TokensStay, RotationInv, ExchangeInv, AloneInv, EndedExist, SessionBound,
           OneLivePerSession, EndedForGood, Refreshing, Exists, Live, At
  <2>2. ClientInit => ClientTypeOK /\ OwnInv /\ KnownInv /\ CallInv /\ SignedOutStays /\ StoredIsCurrent
    BY ClientAssumption DEF ClientInit, Init, ClientTypeOK, OwnInv, KnownInv, Mentioned, CallInv, Exists,
           SignedOutStays, StoredIsCurrent, SessionsOf
  <2>3. ClientInit => ServedInv /\ RenewingInv /\ GrantedInv
    BY DEF ClientInit, Init, ServedInv, RenewingInv, GrantedInv, Is, Renewing, Refreshing
  <2>. QED
    BY <2>1, <2>2, <2>3 DEF AllInv, ClientInv
<1>. QED
  BY <1>1, ClientNextInv, PTL DEF ClientSpec

\* What is stored and what calls hold keep their types.
THEOREM ClientTypeCorrect == ClientSpec => []ClientTypeOK
<1>1. AllInv => ClientTypeOK
  BY DEF AllInv
<1>. QED
  BY <1>1, ClientInvariants, PTL

\* The client uses the server as Sessions describes it, so that what is proved of
\* its tokens holds whatever the client does.
THEOREM ClientKeepsToSessions == ClientSpec => Spec
<1>1. ClientInit => Init
  BY DEF ClientInit
<1>2. AllInv /\ [ClientNext]_allVars => [Next]_vars
  BY ClientSteps DEF AllInv
<1>. QED
  BY <1>1, <1>2, ClientInvariants, PTL DEF ClientSpec, Spec

\* A session the client signed out of is not signed in again by itself, unless a
\* refresh of it was under way (pass-api.js 92, 109-123, 241-249).
THEOREM SignedOutForGood == ClientSpec => []SignedOutStays
<1>1. AllInv => SignedOutStays
  BY DEF AllInv, ClientInv
<1>. QED
  BY <1>1, ClientInvariants, PTL

\* The token stored is the one the server takes, unless the session has ended or was
\* crossed (pass-api.js 109-123; auth.service.ts 276-309).
THEOREM StoredStaysCurrent == ClientSpec => []StoredIsCurrent
<1>1. AllInv => StoredIsCurrent
  BY DEF AllInv, ClientInv
<1>. QED
  BY <1>1, ClientInvariants, PTL

\* Only a logout takes a session from the user that the server would still refresh
\* (pass-api.js 92-97, 241-249).
THEOREM SignsOutForCause == ClientSpec => SignedOutForCause
<1>. DEFINE Caused ==
       stored # None /\ stored' = None =>
         \/ \E c \in Calls : call[c] # None /\ call[c].kind = "logout" /\ call'[c] = None
         \/ ~Valid(stored)
         \/ SessionsOf(stored) \subseteq crossed'
<1>1. ASSUME AllInv, ClientNext, stored # None, stored' = None
      PROVE  \/ \E c \in Calls : call[c] # None /\ call[c].kind = "logout" /\ call'[c] = None
             \/ ~Valid(stored)
             \/ SessionsOf(stored) \subseteq crossed'
  <2>. USE <1>1
  <2>1. PICK c \in Calls : Denied(c) \/ LoggedOut(c) \/ Refused(c) \/ Lost(c)
    <3>1. \A c \in Calls : ~Answered(c)
      BY DEF Answered, End
    <3>2. \A c \in Calls : ~Refreshed(c) /\ ~LoggedIn(c)
      BY DEF Refreshed, LoggedIn, StoreNew, AllInv, ClientInv, CallInv, Is
    <3>3. \A c \in Calls : /\ \A kind \in {"get", "me", "login", "logout"} : ~Ask(c, kind)
                           /\ \A h \in Handlers : ~Serve(c, h)
      BY DEF Ask, Serve
    <3>4. /\ \A h \in Handlers : ~Work(h) /\ ~Crash(h) /\ ~Elsewhere(h)
          /\ \A t \in Tokens : ~Lapse(t)
      BY DEF Work, Crash, Elsewhere, Lapse, clientVars
    <3>. QED
      BY <3>1, <3>2, <3>3, <3>4 DEF ClientNext
  <2>2. call[c] # None /\ call'[c] = None
    BY <2>1 DEF Denied, LoggedOut, Refused, Lost, End, Is, SignOut, ToExchange, AllInv, ClientTypeOK
  <2>3. CASE call[c].kind = "logout"
    BY <2>2, <2>3
  <2>4. CASE call[c].kind # "logout"
    <3>1. call[c].kind = "me"
      BY <2>1, <2>4 DEF Denied, LoggedOut, Refused, Lost, End
    \* A request sent again carries a token the guard admits.
    <3>2. ~Denied(c)
      <4>1. SUFFICES ASSUME Denied(c) PROVE FALSE
        OBVIOUS
      <4>2. call[c].retried /\ ~Admitted(call[c].pair) /\ call[c].pc = "asked"
        BY <2>2, <4>1 DEF Denied, ToExchange, Is
      <4>. QED
        BY <2>2, <4>2 DEF Admitted, AllInv, ClientInv, CallInv, OwnInv
    <3>3. \/ Is(c, "refresh") /\ ~Valid(call[c].old) /\ crossed \subseteq crossed'
          \/ SessionsOf(call[c].old) \subseteq crossed' /\ crossed \subseteq crossed' /\ call[c].old # None
      BY <2>1, <3>1, <3>2 DEF LoggedOut, Refused, Lost, End, SignOut
    <3>4. call[c].old # None
      BY <2>2, <3>3 DEF AllInv, ClientInv, CallInv, Is
    <3>5. Renewing(c, token[call[c].old].session) /\ token[call[c].old].session \in Tokens
      BY <2>2, <3>4, Known, SessionKnown DEF AllInv, ClientInv, Renewing, SessionsOf
    <3>6. stored = call[c].old \/ SessionsOf(stored) \subseteq crossed
      BY <3>5 DEF AllInv, ClientInv, RenewingInv
    <3>. QED
      BY <3>3, <3>6
  <2>. QED
    BY <2>3, <2>4
<1>2. ASSUME AllInv, [ClientNext]_allVars PROVE [Caused]_allVars
  BY <1>1, <1>2
<1>. HIDE DEF Caused
<1>3. ClientSpec => [][Caused]_allVars
  BY <1>2, ClientInvariants, PTL DEF ClientSpec
<1>. QED
  BY <1>3 DEF SignedOutForCause, Caused
=============================================================================
