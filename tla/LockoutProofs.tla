----------------------------- MODULE LockoutProofs -----------------------------
(***************************************************************************)
(* Proofs about Lockout: a credential on which no logins overlap counts every *)
(* wrong secret, locks at the MaxTries-th and admits nobody while locked; and *)
(* one on which they overlap still locks before there are more wrong secrets  *)
(* than multisets of counts. The latter ranks the counts the logins hold: the *)
(* numbers of logins above each count, compared from the lowest count on,     *)
(* never go down and go up with each wrong secret, and what ranks there are   *)
(* is counted with Pascal's triangle.                                        *)
(***************************************************************************)
EXTENDS Lockout, FiniteSetTheorems, WellFoundedInduction, TLAPS

USE CredsAssumption, TriesAssumption, MayFailAssumption, NoneAssumption

\* The four parts of the invariant that speak of one credential, of one login.
CredInv(c) ==
  /\ row[c] # None => row[c].tries < MaxTries
  /\ c \notin raced =>
       /\ \A g, h \in Handlers : Trying(g, c) /\ Trying(h, c) => g = h
       /\ \A h \in Handlers : Trying(h, c) => job[h].tries = row[c].tries
       /\ row[c] # None => row[c].tries = failed[c] /\ failed[c] < MaxTries
       /\ \A h \in Handlers : Trying(h, c) => c \in active /\ ~row[c].locked

LoginInv(h) == job[h] # None => job[h].tries < MaxTries

LEMMA InParts ==
  LockoutInv <=> /\ TypeOK
                 /\ \A c \in Creds : CredInv(c)
                 /\ \A h \in Handlers : LoginInv(h)
BY DEF LockoutInv, BelowInv, LoneInv, CountsUnlessRaced, CredInv, LoginInv

LEMMA FromParts ==
  ASSUME TypeOK', \A c \in Creds : CredInv(c)', \A h \in Handlers : LoginInv(h)'
  PROVE  LockoutInv'
BY DEF LockoutInv, BelowInv, LoneInv, CountsUnlessRaced, CredInv, LoginInv

LEMMA JobFields ==
  ASSUME TypeOK, NEW h \in Handlers, job[h] # None
  PROVE  /\ job[h] \in Job /\ job[h].cred \in Creds /\ job[h].tries \in Nat
         /\ job[h].right \in BOOLEAN
         /\ row[job[h].cred] \in Row /\ row[job[h].cred] # None
<1>1. job[h] \in Job /\ row[job[h].cred] # None  BY DEF TypeOK
<1> QED  BY <1>1 DEF TypeOK, Job

LEMMA RowFields ==
  ASSUME TypeOK, NEW c \in Creds, row[c] # None
  PROVE  row[c] \in Row /\ row[c].tries \in Nat /\ row[c].locked \in BOOLEAN
<1>1. row[c] \in Row  BY DEF TypeOK
<1> QED  BY <1>1 DEF Row

\* A credential whose row a step does not touch.
LEMMA Kept ==
  ASSUME NEW c \in Creds, CredInv(c), c \notin raced' => c \notin raced,
         row'[c] = row[c], failed'[c] = failed[c],
         \A h \in Handlers : Trying(h, c)' => Trying(h, c) /\ job'[h] = job[h],
         c \notin raced' /\ (\E h \in Handlers : Trying(h, c)) /\ c \in active => c \in active'
  PROVE  CredInv(c)'
<1>1. CASE c \in raced'  BY <1>1 DEF CredInv
<1>2. CASE c \notin raced'
  <2>1. \A g, h \in Handlers : Trying(g, c)' /\ Trying(h, c)' => g = h  BY <1>2 DEF CredInv
  <2>2. \A h \in Handlers : Trying(h, c)' => job'[h].tries = row'[c].tries  BY <1>2 DEF CredInv
  <2>3. \A h \in Handlers : Trying(h, c)' => c \in active' /\ ~row'[c].locked
    BY <1>2 DEF CredInv
  <2> QED  BY <1>2, <2>1, <2>2, <2>3 DEF CredInv
<1> QED  BY <1>1, <1>2

\* A credential whose count begins anew.
LEMMA BegunAnew ==
  ASSUME NEW c \in Creds, row'[c] # None, row'[c].tries = 0, failed'[c] = 0,
         c \notin raced' => \A h \in Handlers : ~Trying(h, c)'
  PROVE  CredInv(c)'
BY DEF CredInv

LEMMA DoneJobs ==
  ASSUME TypeOK, NEW h \in Handlers, Done(h)
  PROVE  /\ job' \in [Handlers -> Job \cup {None}] /\ job'[h] = None
         /\ \A g \in Handlers : job'[g] # None => g # h /\ job'[g] = job[g]
         /\ \A g \in Handlers, c \in Creds :
              Trying(g, c)' => g # h /\ Trying(g, c) /\ job'[g] = job[g]
BY DEF TypeOK, Done, Trying

LEMMA InitInv == Init => LockoutInv
<1> SUFFICES ASSUME Init PROVE LockoutInv  OBVIOUS
<1>1. Fresh \in Row  BY DEF Fresh, Row
<1>2. \A c \in Creds : row[c] = None \/ row[c] = Fresh  BY DEF Init
<1>3. TypeOK  BY <1>1 DEF Init, TypeOK
<1>4. \A h \in Handlers : job[h] = None  BY DEF Init
<1>5. \A c \in Creds : CredInv(c)
  <2> SUFFICES ASSUME NEW c \in Creds PROVE CredInv(c)  OBVIOUS
  <2>1. failed[c] = 0  BY DEF Init
  <2>2. row[c] # None => row[c].tries = 0  BY <1>2 DEF Fresh
  <2> QED  BY <1>4, <2>1, <2>2 DEF CredInv, Trying
<1>6. \A h \in Handlers : LoginInv(h)  BY <1>4 DEF LoginInv
<1> QED  BY <1>3, <1>5, <1>6, InParts

-----------------------------------------------------------------------------
LEMMA AttemptStep ==
  ASSUME LockoutInv, NEW h \in Handlers, NEW c \in Creds, NEW right \in BOOLEAN,
         Attempt(h, c, right)
  PROVE  LockoutInv'
<1> DEFINE j == [cred |-> c, right |-> right, tries |-> row[c].tries]
<1>1. /\ TypeOK /\ \A d \in Creds : CredInv(d)
      /\ \A g \in Handlers : LoginInv(g)
  BY InParts
<1>2. /\ job[h] = None /\ row[c] # None /\ c \in active /\ ~row[c].locked
      /\ job' = [job EXCEPT ![h] = j] /\ UNCHANGED <<row, active, failed>>
      /\ raced' = IF Overlapped(h, c) THEN raced \cup {c} ELSE raced
  BY DEF Attempt, Admitted
<1>3. row[c].tries \in Nat  BY <1>1, <1>2, RowFields
<1>4. j \in Job /\ j # None  BY <1>3 DEF Job
<1>5. /\ job'[h] = j /\ job' \in [Handlers -> Job \cup {None}]
      /\ \A g \in Handlers : g # h => job'[g] = job[g]
  BY <1>1, <1>2, <1>4 DEF TypeOK
<1>6. TypeOK'
  <2>1. \A g \in Handlers : job'[g] # None => row'[job'[g].cred] # None
    BY <1>1, <1>2, <1>5 DEF TypeOK
  <2> QED  BY <1>1, <1>2, <1>5, <2>1 DEF TypeOK
<1>7. \A g \in Handlers : LoginInv(g)'
  BY <1>1, <1>2, <1>5 DEF LoginInv, CredInv
<1>8. ASSUME NEW d \in Creds, d # c PROVE CredInv(d)'
  <2>1. \A g \in Handlers : Trying(g, d)' => Trying(g, d) /\ job'[g] = job[g]
    BY <1>5, <1>8 DEF Trying
  <2> QED  BY <1>1, <1>2, <1>8, <2>1, Kept
<1>9. CredInv(c)'
  <2>1. CASE c \in raced'  BY <1>1, <1>2, <2>1 DEF CredInv
  <2>2. CASE c \notin raced'
    <3>1. \A g \in Handlers \ {h} : ~Trying(g, c)  BY <1>2, <2>2 DEF Overlapped
    <3>2. \A g \in Handlers : Trying(g, c)' => g = h  BY <1>5, <3>1 DEF Trying
    <3>3. c \notin raced  BY <1>2, <2>2
    <3> QED  BY <1>1, <1>2, <1>5, <3>2, <3>3 DEF CredInv
  <2> QED  BY <2>1, <2>2
<1> QED  BY <1>6, <1>7, <1>8, <1>9, FromParts

\* A login's write to c: its row and count begin anew, or, with one more failure,
\* go on; no other credential is touched.
LEMMA OthersKept ==
  ASSUME LockoutInv, NEW h \in Handlers, Done(h), NEW c \in Creds, NEW d \in Creds, d # c,
         row'[d] = row[d], failed'[d] = failed[d], active' = active,
         d \notin raced' => d \notin raced
  PROVE  CredInv(d)'
<1>1. TypeOK /\ CredInv(d)  BY InParts
<1>2. \A g \in Handlers : Trying(g, d)' => Trying(g, d) /\ job'[g] = job[g]
  BY <1>1, DoneJobs
<1> QED  BY <1>1, <1>2, Kept

LEMMA WriteAnew ==
  ASSUME LockoutInv, NEW h \in Handlers, NEW c \in Creds, NEW r \in Row, r.tries = 0,
         row' = [row EXCEPT ![c] = r], Anew(h, c), Done(h), UNCHANGED active
  PROVE  LockoutInv'
<1>1. TypeOK /\ \A g \in Handlers : LoginInv(g)  BY InParts
<1>2. /\ job' \in [Handlers -> Job \cup {None}]
      /\ \A g \in Handlers : job'[g] # None => g # h /\ job'[g] = job[g]
      /\ \A g \in Handlers, d \in Creds :
           Trying(g, d)' => g # h /\ Trying(g, d) /\ job'[g] = job[g]
  BY <1>1, DoneJobs
<1>3. /\ row'[c] = r /\ r # None
      /\ \A d \in Creds : d # c => row'[d] = row[d]
  BY <1>1 DEF TypeOK
<1>4. /\ failed'[c] = 0 /\ failed' \in [Creds -> Nat]
      /\ \A d \in Creds : d # c => failed'[d] = failed[d]
  BY <1>1 DEF Anew, TypeOK
<1>5. raced' = IF Overlapped(h, c) THEN raced \cup {c} ELSE raced \ {c}  BY DEF Anew
<1>6. TypeOK'
  <2>1. row' \in [Creds -> Row \cup {None}]  BY <1>1 DEF TypeOK
  <2>2. \A g \in Handlers : job'[g] # None => row'[job'[g].cred] # None
    BY <1>1, <1>2, <1>3 DEF TypeOK, Job
  <2> QED  BY <1>1, <1>2, <1>4, <1>5, <2>1, <2>2 DEF TypeOK
<1>7. CredInv(c)'
  <2>1. c \notin raced' => \A g \in Handlers : ~Trying(g, c)'
    BY <1>1, <1>2, <1>5 DEF Overlapped
  <2> QED  BY <1>1, <1>3, <1>4, <2>1, BegunAnew
<1>8. ASSUME NEW d \in Creds, d # c PROVE CredInv(d)'
  <2>1. d \notin raced' => d \notin raced  BY <1>5, <1>8
  <2> QED  BY <1>1, <1>3, <1>4, <1>8, <2>1, OthersKept
<1>9. \A g \in Handlers : LoginInv(g)'  BY <1>1, <1>2 DEF LoginInv
<1> QED  BY <1>6, <1>7, <1>8, <1>9, FromParts

LEMMA FailStep == ASSUME LockoutInv, NEW h \in Handlers, Fail(h) PROVE LockoutInv'
<1> SUFFICES ASSUME NEW c \in Creds, c = job[h].cred, NEW n, n = NewTries(job[h])
             PROVE  LockoutInv'
  BY InParts, JobFields DEF Fail
<1>1. /\ TypeOK /\ job[h] # None /\ row[c] # None
      /\ row[c] \in Row /\ job[h].tries \in Nat
      /\ CredInv(c) /\ \A g \in Handlers : LoginInv(g)
  BY InParts, JobFields DEF Fail
<1>2. n \in Nat /\ n = job[h].tries + 1 /\ (Locks(n) <=> n >= MaxTries)
  BY <1>1 DEF NewTries, Locks
<1>3. CASE Locks(n)
  <2>1. [tries |-> 0, locked |-> TRUE] \in Row  BY DEF Row
  <2>2. /\ row' = [row EXCEPT ![c] = [tries |-> 0, locked |-> TRUE]]
        /\ Anew(h, c) /\ Done(h) /\ UNCHANGED active
    BY <1>3 DEF Fail
  <2> QED  BY <1>1, <2>1, <2>2, WriteAnew
<1>4. CASE ~Locks(n)
  <2>1. /\ row' = [row EXCEPT ![c] = [row[c] EXCEPT !.tries = n]]
        /\ failed' = [failed EXCEPT ![c] = failed[c] + 1]
        /\ UNCHANGED <<raced, active>> /\ Done(h)
    BY <1>4 DEF Fail
  <2>2. /\ job' \in [Handlers -> Job \cup {None}]
        /\ \A g \in Handlers : job'[g] # None => g # h /\ job'[g] = job[g]
        /\ \A g \in Handlers, d \in Creds :
             Trying(g, d)' => g # h /\ Trying(g, d) /\ job'[g] = job[g]
    BY <1>1, <2>1, DoneJobs
  <2>3. /\ [row[c] EXCEPT !.tries = n] \in Row
        /\ [row[c] EXCEPT !.tries = n].tries = n
    BY <1>1, <1>2 DEF Row
  <2>4. /\ row'[c] # None /\ row'[c].tries = n
        /\ \A d \in Creds : d # c => row'[d] = row[d]
    BY <1>1, <2>1, <2>3 DEF TypeOK
  <2>5. /\ failed' \in [Creds -> Nat] /\ failed[c] \in Nat /\ failed'[c] = failed[c] + 1
        /\ \A d \in Creds : d # c => failed'[d] = failed[d]
    BY <1>1, <2>1 DEF TypeOK
  <2>6. TypeOK'
    <3>1. row' \in [Creds -> Row \cup {None}]  BY <1>1, <2>1, <2>3 DEF TypeOK
    <3>2. \A g \in Handlers : job'[g] # None => row'[job'[g].cred] # None
      BY <1>1, <2>2, <2>4 DEF TypeOK, Job
    <3> QED  BY <1>1, <2>1, <2>2, <2>5, <3>1, <3>2 DEF TypeOK
  <2>7. CredInv(c)'
    <3>1. CASE c \in raced'  BY <1>2, <1>4, <2>4, <3>1 DEF CredInv
    <3>2. CASE c \notin raced'
      <4>1. Trying(h, c) /\ c \notin raced  BY <1>1, <2>1, <3>2 DEF Trying
      <4>2. job[h].tries = row[c].tries /\ row[c].tries = failed[c]
        BY <1>1, <4>1 DEF CredInv
      <4>3. \A g \in Handlers : ~Trying(g, c)'  BY <1>1, <2>2, <4>1 DEF CredInv
      <4> QED  BY <1>2, <1>4, <2>4, <2>5, <4>2, <4>3 DEF CredInv
    <3> QED  BY <3>1, <3>2
  <2>8. ASSUME NEW d \in Creds, d # c PROVE CredInv(d)'
    BY <1>1, <2>1, <2>4, <2>5, <2>8, OthersKept
  <2>9. \A g \in Handlers : LoginInv(g)'  BY <1>1, <2>2 DEF LoginInv
  <2> QED  BY <2>6, <2>7, <2>8, <2>9, FromParts
<1> QED  BY <1>3, <1>4

LEMMA SucceedStep == ASSUME LockoutInv, NEW h \in Handlers, Succeed(h) PROVE LockoutInv'
<1> SUFFICES ASSUME NEW c \in Creds, c = job[h].cred PROVE LockoutInv'
  BY InParts, JobFields DEF Succeed
<1> DEFINE r == [tries |-> 0, locked |-> c \in Pins /\ row[c].locked]
<1>1. job[h] # None /\ row' = [row EXCEPT ![c] = r] /\ Anew(h, c) /\ Done(h) /\ UNCHANGED active
  BY DEF Succeed
<1>2. r \in Row /\ r.tries = 0  BY DEF Row
<1> QED  BY <1>1, <1>2, WriteAnew

LEMMA SetupStep == ASSUME LockoutInv, NEW c \in Creds, SetupPin(c) PROVE LockoutInv'
<1>1. TypeOK /\ CredInv(c) /\ (\A d \in Creds : CredInv(d)) /\ \A g \in Handlers : LoginInv(g)
  BY InParts
<1>2. Fresh \in Row /\ Fresh.tries = 0 /\ Fresh # None
  <2>1. Fresh \in Row  BY DEF Fresh, Row
  <2>2. Fresh.tries = 0  BY DEF Fresh
  <2> QED  BY <2>1, <2>2
<1>3. /\ row'[c] = Fresh /\ row' \in [Creds -> Row \cup {None}] /\ UNCHANGED <<job, active>>
      /\ \A d \in Creds : d # c => row'[d] = row[d]
  BY <1>1, <1>2 DEF SetupPin, TypeOK
<1>4. /\ failed'[c] = 0 /\ failed' \in [Creds -> Nat]
      /\ \A d \in Creds : d # c => failed'[d] = failed[d]
  BY <1>1 DEF SetupPin, TypeOK
<1>5. raced' = IF \E h \in Handlers : Trying(h, c) THEN raced \cup {c} ELSE raced \ {c}
  BY DEF SetupPin
<1>6. \A g \in Handlers, d \in Creds : Trying(g, d)' <=> Trying(g, d)  BY <1>3 DEF Trying
<1>7. TypeOK'
  <2>1. \A h \in Handlers : job[h] # None => row'[job[h].cred] # None
    BY <1>1, <1>2, <1>3 DEF TypeOK, Job
  <2> QED  BY <1>1, <1>3, <1>4, <1>5, <2>1 DEF TypeOK
<1>8. CredInv(c)'  BY <1>2, <1>3, <1>4, <1>5, <1>6, BegunAnew
<1>9. ASSUME NEW d \in Creds, d # c PROVE CredInv(d)'
  <2>1. d \notin raced' => d \notin raced  BY <1>5, <1>9
  <2>2. row'[d] = row[d] /\ failed'[d] = failed[d] /\ active' = active /\ job' = job
    BY <1>3, <1>4, <1>9
  <2> QED  BY <1>1, <1>6, <2>1, <2>2, Kept
<1>10. \A g \in Handlers : LoginInv(g)'  BY <1>1, <1>3 DEF LoginInv
<1> QED  BY <1>7, <1>8, <1>9, <1>10, FromParts

LEMMA UnlockStep == ASSUME LockoutInv, NEW c \in Creds, Unlock(c) PROVE LockoutInv'
<1>1. TypeOK /\ CredInv(c) /\ (\A d \in Creds : CredInv(d)) /\ \A g \in Handlers : LoginInv(g)
  BY InParts
<1>2. /\ row[c] # None /\ row[c].locked /\ UNCHANGED <<active, job, failed, raced>>
      /\ row' = [row EXCEPT ![c] = [row[c] EXCEPT !.locked = FALSE]]
  BY DEF Unlock, history
<1>3. row[c] \in Row  BY <1>1, <1>2, RowFields
<1>4. /\ [row[c] EXCEPT !.locked = FALSE] \in Row
      /\ [row[c] EXCEPT !.locked = FALSE].tries = row[c].tries
  BY <1>3 DEF Row
<1>5. /\ row'[c] # None /\ row'[c].tries = row[c].tries /\ row' \in [Creds -> Row \cup {None}]
      /\ \A d \in Creds : d # c => row'[d] = row[d]
  BY <1>1, <1>2, <1>4 DEF TypeOK
<1>6. \A g \in Handlers, d \in Creds : Trying(g, d)' <=> Trying(g, d)  BY <1>2 DEF Trying
<1>7. TypeOK'
  <2>1. \A h \in Handlers : job[h] # None => row'[job[h].cred] # None
    BY <1>1, <1>2, <1>5 DEF TypeOK, Job
  <2> QED  BY <1>1, <1>2, <1>5, <2>1 DEF TypeOK
<1>8. CredInv(c)'
  <2>1. c \notin raced => \A h \in Handlers : ~Trying(h, c)  BY <1>1, <1>2 DEF CredInv
  <2> QED  BY <1>1, <1>2, <1>5, <1>6, <2>1 DEF CredInv
<1>9. ASSUME NEW d \in Creds, d # c PROVE CredInv(d)'
  BY <1>1, <1>2, <1>5, <1>6, <1>9, Kept
<1>10. \A g \in Handlers : LoginInv(g)'  BY <1>1, <1>2 DEF LoginInv
<1> QED  BY <1>7, <1>8, <1>9, <1>10, FromParts

LEMMA DeactivateStep == ASSUME LockoutInv, NEW C \in SUBSET Creds, Deactivate(C) PROVE LockoutInv'
<1>1. TypeOK /\ (\A d \in Creds : CredInv(d)) /\ \A g \in Handlers : LoginInv(g)  BY InParts
<1>2. /\ UNCHANGED <<row, job, failed>> /\ active' = active \ C
      /\ raced' = raced \cup {c \in C : \E h \in Handlers : Trying(h, c)}
  BY DEF Deactivate
<1>3. TypeOK'  BY <1>1, <1>2 DEF TypeOK
<1>4. \A g \in Handlers, d \in Creds : Trying(g, d)' <=> Trying(g, d)  BY <1>2 DEF Trying
<1>5. ASSUME NEW d \in Creds PROVE CredInv(d)'
  BY <1>1, <1>2, <1>4, Kept
<1>6. \A g \in Handlers : LoginInv(g)'  BY <1>1, <1>2 DEF LoginInv
<1> QED  BY <1>3, <1>5, <1>6, FromParts

LEMMA CutShortStep == ASSUME LockoutInv, NEW h \in Handlers, CutShort(h) PROVE LockoutInv'
<1>1. TypeOK /\ (\A d \in Creds : CredInv(d)) /\ \A g \in Handlers : LoginInv(g)  BY InParts
<1>2. Done(h) /\ UNCHANGED <<row, active, failed, raced>>  BY DEF CutShort, history
<1>3. /\ job' \in [Handlers -> Job \cup {None}]
      /\ \A g \in Handlers : job'[g] # None => g # h /\ job'[g] = job[g]
      /\ \A g \in Handlers, d \in Creds :
           Trying(g, d)' => g # h /\ Trying(g, d) /\ job'[g] = job[g]
  BY <1>1, <1>2, DoneJobs
<1>4. TypeOK'  BY <1>1, <1>2, <1>3 DEF TypeOK
<1>5. ASSUME NEW d \in Creds PROVE CredInv(d)'  BY <1>1, <1>2, <1>3, Kept
<1>6. \A g \in Handlers : LoginInv(g)'  BY <1>1, <1>3 DEF LoginInv
<1> QED  BY <1>4, <1>5, <1>6, FromParts

-----------------------------------------------------------------------------
LEMMA LockoutInvariant == Spec => []LockoutInv
<1>1. ASSUME LockoutInv, [Next]_vars PROVE LockoutInv'
  <2>1. CASE Next
    <3>1. active \subseteq Creds  BY <1>1 DEF LockoutInv, TypeOK
    <3> QED
      BY <1>1, <2>1, <3>1, AttemptStep, FailStep, SucceedStep, SetupStep, UnlockStep,
         DeactivateStep, CutShortStep
      DEF Next
  <2>2. CASE UNCHANGED vars
    BY <1>1, <2>2
    DEF vars, LockoutInv, TypeOK, BelowInv, LoneInv, CountsUnlessRaced, Trying
  <2> QED  BY <1>1, <2>1, <2>2
<1> QED  BY <1>1, InitInv, PTL DEF Spec

\* The rows of passwords and PINs and every login keep their types.
THEOREM TypeCorrect == Spec => []TypeOK
<1>1. LockoutInv => TypeOK  BY DEF LockoutInv
<1> QED  BY <1>1, LockoutInvariant, PTL

\* Where no logins overlap, the MaxTries-th wrong secret in a row locks the
\* credential and nobody gets in while it is locked (auth.service.ts 172-271).
THEOREM LockoutWorks == Spec => []CountsUnlessRaced
<1>1. LockoutInv => CountsUnlessRaced  BY DEF LockoutInv
<1> QED  BY <1>1, LockoutInvariant, PTL

-----------------------------------------------------------------------------
\* Numbers: induction, factorials and the ways to choose.

\* The order of the numbers, in which every set of them has a least member.
Descent == OpToRel(<, Nat)

\* What holds of 0 and passes from each number to the next holds of all.
LEMMA SetInduction ==
  ASSUME NEW S, 0 \in S, \A n \in Nat : n \in S => n + 1 \in S
  PROVE  Nat \subseteq S
<1>1. IsWellFoundedOn(Descent, Nat)  BY NatLessThanWellFounded DEF Descent
<1>2. \A x, y \in Nat : x < y => <<x, y>> \in Descent  BY DEF OpToRel, Descent
<1> SUFFICES ASSUME Nat \ S # {} PROVE FALSE  OBVIOUS
<1>3. PICK m \in Nat \ S : \A k \in Nat \ S : ~ (<<k, m>> \in Descent)
  BY <1>1, WFMin
<1>4. m - 1 \in Nat /\ m - 1 < m  OBVIOUS
<1>5. m - 1 \in S  BY <1>2, <1>3, <1>4
<1>6. (m - 1) + 1 \in S  BY <1>4, <1>5
<1> QED  BY <1>6

\* f begins with a and goes on by G, up to m.
Follows(f, a, G, m) == f[0] = a /\ \A n \in Nat : n < m => f[n + 1] = G[<<n, f[n]>>]

\* The same without end.
GoesOn(f, D, a, G) ==
  f \in [Nat -> D] /\ f[0] = a /\ \A n \in Nat : f[n + 1] = G[<<n, f[n]>>]

\* There is such a sequence: it is put together from its beginnings.
LEMMA Sequence ==
  ASSUME NEW D, NEW a \in D, NEW G \in [Nat \X D -> D]
  PROVE  \E f : GoesOn(f, D, a, G)
<1> DEFINE S == {m \in Nat : \E f \in [Nat -> D] : Follows(f, a, G, m)}
<1>1. \A m \in Nat : m \in S
  <2>1. 0 \in S
    <3>1. [n \in Nat |-> a] \in [Nat -> D] /\ Follows([n \in Nat |-> a], a, G, 0)
      BY DEF Follows
    <3> QED  BY <3>1
  <2>2. ASSUME NEW m \in Nat, m \in S PROVE m + 1 \in S
    <3>1. PICK f \in [Nat -> D] : Follows(f, a, G, m)  BY <2>2
    <3> DEFINE g == [n \in Nat |-> IF n = m + 1 THEN G[<<m, f[m]>>] ELSE f[n]]
    <3>2. g \in [Nat -> D] /\ g[m + 1] = G[<<m, f[m]>>] /\ \A n \in Nat : n # m + 1 => g[n] = f[n]
      OBVIOUS
    <3> HIDE DEF g
    <3>3. g[0] = a  BY <3>1, <3>2 DEF Follows
    <3>4. ASSUME NEW n \in Nat, n < m + 1 PROVE g[n + 1] = G[<<n, g[n]>>]
      <4>1. g[n] = f[n]  BY <3>2, <3>4
      <4>2. CASE n = m  BY <3>2, <4>1, <4>2
      <4>3. CASE n < m
        <5>1. g[n + 1] = f[n + 1]  BY <3>2, <4>3
        <5> QED  BY <3>1, <4>1, <4>3, <5>1 DEF Follows
      <4> QED  BY <3>4, <4>2, <4>3
    <3>5. Follows(g, a, G, m + 1)  BY <3>3, <3>4 DEF Follows
    <3> QED  BY <3>2, <3>5
  <2> HIDE DEF S
  <2> QED  BY <2>1, <2>2, SetInduction
\* Two that go on alike agree as far as both go.
<1>2. ASSUME NEW m \in Nat, NEW k \in Nat, NEW f \in [Nat -> D], NEW g \in [Nat -> D],
             Follows(f, a, G, m), Follows(g, a, G, k)
      PROVE  \A n \in Nat : n =< m /\ n =< k => f[n] = g[n]
  <2> DEFINE A == {n \in Nat : n =< m /\ n =< k => f[n] = g[n]}
  <2>1. 0 \in A  BY <1>2 DEF Follows
  <2>2. ASSUME NEW n \in Nat, n \in A PROVE n + 1 \in A
    <3> SUFFICES ASSUME n + 1 =< m, n + 1 =< k PROVE f[n + 1] = g[n + 1]  OBVIOUS
    <3>1. f[n] = g[n] /\ n < m /\ n < k  BY <2>2
    <3> QED  BY <1>2, <3>1 DEF Follows
  <2>3. Nat \subseteq A
    <3> HIDE DEF A
    <3> QED  BY <2>1, <2>2, SetInduction
  <2> QED  BY <2>3
<1> DEFINE P(m) == CHOOSE f \in [Nat -> D] : Follows(f, a, G, m)
           F == [n \in Nat |-> P(n)[n]]
<1>3. \A m \in Nat : P(m) \in [Nat -> D] /\ Follows(P(m), a, G, m)
  BY <1>1
<1> HIDE DEF P
<1>4. F \in [Nat -> D]  BY <1>3
<1>5. F[0] = a  BY <1>3 DEF Follows
<1>6. ASSUME NEW n \in Nat PROVE F[n + 1] = G[<<n, F[n]>>]
  <2>1. P(n)[n] = P(n + 1)[n]  BY <1>2, <1>3
  <2>2. P(n + 1)[n + 1] = G[<<n, P(n + 1)[n]>>]  BY <1>3 DEF Follows
  <2> QED  BY <2>1, <2>2
<1> QED  BY <1>4, <1>5, <1>6 DEF GoesOn

\* The factorial of Combinatorics is the factorial.
LEMMA FactorialIs ==
  /\ factorial \in [Nat -> Nat \ {0}]
  /\ factorial[0] = 1
  /\ \A n \in Nat : factorial[n + 1] = (n + 1) * factorial[n]
<1> DEFINE D == Nat \ {0}
           G == [x \in Nat \X D |-> (x[1] + 1) * x[2]]
           Step(f) == [n \in Nat |-> IF n = 0 THEN 1 ELSE n * f[n - 1]]
<1>1. G \in [Nat \X D -> D]
  <2> SUFFICES ASSUME NEW n \in Nat, NEW d \in D PROVE (n + 1) * d \in D  OBVIOUS
  <2> QED  OBVIOUS
<1>2. PICK f \in [Nat -> D] : f[0] = 1 /\ \A n \in Nat : f[n + 1] = G[<<n, f[n]>>]
  <2>1. PICK E, H, e : E = D /\ H = G /\ e = 1  OBVIOUS
  <2>2. e \in E /\ H \in [Nat \X E -> E]  BY <1>1, <2>1
  <2> HIDE DEF D, G
  <2>3. \E f : GoesOn(f, E, e, H)
    BY <2>2, Sequence
  <2> QED  BY <2>1, <2>3 DEF GoesOn
<1>3. \A n \in Nat : f[n + 1] = (n + 1) * f[n]  BY <1>2
<1>4. f = Step(f)
  <2>1. \A n \in Nat : f[n] = Step(f)[n]
    <3> SUFFICES ASSUME NEW n \in Nat, n # 0 PROVE f[n] = n * f[n - 1]  BY <1>2
    <3>1. n - 1 \in Nat /\ (n - 1) + 1 = n  OBVIOUS
    <3>2. f[(n - 1) + 1] = ((n - 1) + 1) * f[n - 1]  BY <1>3, <3>1
    <3> QED  BY <3>1, <3>2
  <2> QED  BY <2>1
<1>5. factorial = Step(factorial)
  BY <1>4 DEF factorial
<1>6. factorial[0] = 1 /\ \A n \in Nat : factorial[n + 1] = (n + 1) * factorial[n]
  <2>1. \A n \in Nat : factorial[n] = IF n = 0 THEN 1 ELSE n * factorial[n - 1]
    BY <1>5
  <2>2. \A n \in Nat : n + 1 \in Nat /\ n + 1 # 0 /\ (n + 1) - 1 = n  OBVIOUS
  <2> QED  BY <2>1, <2>2
<1>7. \A n \in Nat : factorial[n] \in D
  <2> DEFINE S == {n \in Nat : factorial[n] \in D}
  <2>1. 0 \in S  BY <1>6
  <2>2. ASSUME NEW n \in Nat, n \in S PROVE n + 1 \in S
    <3>1. PICK d \in D : d = factorial[n]  BY <2>2
    <3>2. (n + 1) * d \in D  OBVIOUS
    <3> QED  BY <1>6, <3>1, <3>2
  <2>3. Nat \subseteq S
    <3> HIDE DEF S
    <3> QED  BY <2>1, <2>2, SetInduction
  <2> QED  BY <2>3
<1>8. factorial \in [Nat -> D]
  <2>1. factorial = [n \in Nat |-> factorial[n]]  BY <1>5
  <2> QED  BY <1>7, <2>1
<1> QED  BY <1>6, <1>8

\* The binomials, by how many of each kind there are.
Ways(j, q) == choose(q + j, j)

\* What \div does where it divides.
LEMMA Exactly ==
  ASSUME NEW b \in Nat, NEW d \in Nat \ {0}
  PROVE  (b * d) \div d = b
OBVIOUS

\* The arithmetic of Pascal's rule, its factorials multiplied out.
LEMMA PascalSum ==
  ASSUME NEW F \in Nat, NEW Q \in Nat, NEW J \in Nat, NEW P \in Nat,
         NEW b1 \in Nat, NEW b2 \in Nat, NEW N \in Nat,
         b1 * (F * (P * Q)) = N, b2 * ((J * F) * Q) = N
  PROVE  (b1 + b2) * ((J * F) * (P * Q)) = (J + P) * N
<1>1. b1 * ((J * F) * (P * Q)) = J * (b1 * (F * (P * Q)))  OBVIOUS
<1>2. b2 * ((J * F) * (P * Q)) = P * (b2 * ((J * F) * Q))  OBVIOUS
<1>3. (b1 + b2) * ((J * F) * (P * Q)) = b1 * ((J * F) * (P * Q)) + b2 * ((J * F) * (P * Q))
  OBVIOUS
<1>4. (J + P) * N = J * N + P * N  OBVIOUS
<1> QED  BY <1>1, <1>2, <1>3, <1>4

\* b is the quotient of factorials that `choose` computes, with no remainder.
Divides(b, j, q) == b * (factorial[j] * factorial[q]) = factorial[j + q]

LEMMA WaysIs ==
  ASSUME NEW j \in Nat, NEW q \in Nat, NEW b \in Nat, Divides(b, j, q)
  PROVE  Ways(j, q) = b
<1>1. PICK d \in Nat \ {0} : d = factorial[j] * factorial[q]
  <2>1. PICK x \in Nat \ {0}, y \in Nat \ {0} : x = factorial[j] /\ y = factorial[q]
    BY FactorialIs
  <2> QED  BY <2>1
<1>2. (q + j) - j = q /\ q + j = j + q  OBVIOUS
<1>3. Ways(j, q) = factorial[j + q] \div d  BY <1>1, <1>2 DEF Ways, choose
<1>4. factorial[j + q] = b * d  BY <1>1 DEF Divides
<1> QED  BY <1>3, <1>4, Exactly

\* The factorials do divide.
LEMMA WaysExist ==
  \A s \in Nat : \A j, q \in Nat : j + q = s => \E b \in Nat \ {0} : Divides(b, j, q)
<1> DEFINE S == {s \in Nat : \A j, q \in Nat : j + q = s => \E b \in Nat \ {0} : Divides(b, j, q)}
<1>1. ASSUME NEW n \in Nat PROVE Divides(1, 0, n) /\ Divides(1, n, 0)
  <2>1. PICK x \in Nat \ {0} : x = factorial[n]  BY FactorialIs
  <2>2. n + 0 = n /\ 0 + n = n /\ 1 * (1 * x) = x /\ 1 * (x * 1) = x  OBVIOUS
  <2> QED  BY FactorialIs, <2>1, <2>2 DEF Divides
<1>2. 0 \in S
  <2>1. \A j, q \in Nat : j + q = 0 => j = 0 /\ q = 0  OBVIOUS
  <2> QED  BY <1>1, <2>1
<1>3. ASSUME NEW s \in Nat, s \in S PROVE s + 1 \in S
  <2> SUFFICES ASSUME NEW j \in Nat, NEW q \in Nat, j + q = s + 1
               PROVE  \E b \in Nat \ {0} : Divides(b, j, q)
    OBVIOUS
  <2>1. CASE j = 0 \/ q = 0  BY <1>1, <2>1
  <2>2. CASE j # 0 /\ q # 0
    <3>1. PICK i \in Nat, p \in Nat : j = i + 1 /\ q = p + 1
      <4>1. j - 1 \in Nat /\ q - 1 \in Nat /\ j = (j - 1) + 1 /\ q = (q - 1) + 1  BY <2>2
      <4> QED  BY <4>1
    <3>2. i + q = s /\ j + p = s  BY <3>1
    <3>3. PICK b1 \in Nat \ {0}, b2 \in Nat \ {0} : Divides(b1, i, q) /\ Divides(b2, j, p)
      BY <1>3, <3>2
    <3>4. PICK F \in Nat \ {0}, Q \in Nat \ {0}, N \in Nat \ {0} :
             F = factorial[i] /\ Q = factorial[p] /\ N = factorial[s]
      BY FactorialIs
    <3>5. factorial[j] = j * F /\ factorial[q] = q * Q /\ factorial[s + 1] = (s + 1) * N
      BY FactorialIs, <3>1, <3>4
    <3>6. b1 * (F * (q * Q)) = N /\ b2 * ((j * F) * Q) = N
      BY <3>2, <3>3, <3>4, <3>5 DEF Divides
    <3>7. (b1 + b2) * ((j * F) * (q * Q)) = (j + q) * N
      BY <3>6, PascalSum
    <3>8. Divides(b1 + b2, j, q) /\ b1 + b2 \in Nat \ {0}
      BY <3>5, <3>7 DEF Divides
    <3> QED  BY <3>8
  <2> QED  BY <2>1, <2>2
<1>4. Nat \subseteq S
  <2> HIDE DEF S
  <2> QED  BY <1>2, <1>3, SetInduction
<1> QED  BY <1>4

\* Pascal's triangle.
LEMMA Triangle ==
  /\ \A j, q \in Nat : Ways(j, q) \in Nat
  /\ \A n \in Nat : Ways(0, n) = 1 /\ Ways(n, 0) = 1
  /\ \A j, q \in Nat : Ways(j + 1, q + 1) = Ways(j, q + 1) + Ways(j + 1, q)
<1>1. ASSUME NEW j \in Nat, NEW q \in Nat
      PROVE  \E b \in Nat \ {0} : Divides(b, j, q) /\ Ways(j, q) = b
  <2>1. PICK b \in Nat \ {0} : Divides(b, j, q)
    <3>1. j + q \in Nat  OBVIOUS
    <3> QED  BY <3>1, WaysExist
  <2> QED  BY <2>1, WaysIs
<1>2. ASSUME NEW n \in Nat PROVE Ways(0, n) = 1 /\ Ways(n, 0) = 1
  <2>1. PICK x \in Nat \ {0} : x = factorial[n]  BY FactorialIs
  <2>2. n + 0 = n /\ 0 + n = n /\ 1 * (1 * x) = x /\ 1 * (x * 1) = x  OBVIOUS
  <2>3. Divides(1, 0, n) /\ Divides(1, n, 0)
    BY FactorialIs, <2>1, <2>2 DEF Divides
  <2> QED  BY <2>3, WaysIs
<1>3. ASSUME NEW i \in Nat, NEW p \in Nat
      PROVE  Ways(i + 1, p + 1) = Ways(i, p + 1) + Ways(i + 1, p)
  <2>1. PICK j \in Nat, q \in Nat, s \in Nat : j = i + 1 /\ q = p + 1 /\ s = i + q
    OBVIOUS
  <2>2. s = j + p /\ s + 1 = j + q  BY <2>1
  <2>3. PICK b1 \in Nat \ {0}, b2 \in Nat \ {0} :
          Divides(b1, i, q) /\ Divides(b2, j, p) /\ Ways(i, q) = b1 /\ Ways(j, p) = b2
    BY <1>1
  <2>4. PICK F \in Nat \ {0}, Q \in Nat \ {0}, N \in Nat \ {0} :
           F = factorial[i] /\ Q = factorial[p] /\ N = factorial[s]
    BY FactorialIs
  <2>5. factorial[j] = j * F /\ factorial[q] = q * Q /\ factorial[s + 1] = (s + 1) * N
    BY FactorialIs, <2>1, <2>4
  <2>6. b1 * (F * (q * Q)) = N /\ b2 * ((j * F) * Q) = N
    BY <2>1, <2>2, <2>3, <2>4, <2>5 DEF Divides
  <2>7. (b1 + b2) * ((j * F) * (q * Q)) = (j + q) * N
    BY <2>6, PascalSum
  <2>8. Divides(b1 + b2, j, q)
    BY <2>2, <2>5, <2>7 DEF Divides
  <2>9. Ways(j, q) = b1 + b2
    BY <2>8, WaysIs
  <2> QED  BY <2>1, <2>3, <2>9
<1> QED  BY <1>1, <1>2, <1>3

LEMMA WaysNat == \A j, q \in Nat : Ways(j, q) \in Nat
BY Triangle

LEMMA WaysEdge == \A n \in Nat : Ways(0, n) = 1 /\ Ways(n, 0) = 1
BY Triangle

LEMMA Pascal ==
  ASSUME NEW j \in Nat, NEW q \in Nat
  PROVE  Ways(j + 1, q + 1) = Ways(j, q + 1) + Ways(j + 1, q)
BY Triangle

\* How much one member more adds to the ways to choose n.
Gain(j, n) == Ways(j + 1, n) - Ways(j, n)

\* More to choose from, more ways.
LEMMA WaysGrow ==
  /\ \A j, m, n \in Nat : m =< n => Ways(j, m) =< Ways(j, n)
  /\ \A j, n \in Nat : Gain(j, n) \in Nat /\ Gain(j, n + 1) = Ways(j + 1, n)
  /\ \A j, m, n \in Nat : m =< n => Gain(j, m) =< Gain(j, n)
<1>1. ASSUME NEW j \in Nat, NEW n \in Nat PROVE Ways(j, n) =< Ways(j, n + 1)
  <2>1. CASE j = 0  BY <2>1, WaysEdge
  <2>2. CASE j # 0
    <3>1. PICK i \in Nat : j = i + 1
      <4>1. j - 1 \in Nat /\ j = (j - 1) + 1  BY <2>2
      <4> QED  BY <4>1
    <3>2. Ways(j, n + 1) = Ways(i, n + 1) + Ways(j, n)  BY <3>1, Pascal
    <3>3. Ways(i, n + 1) \in Nat  BY WaysNat
    <3>4. Ways(j, n) \in Nat  BY WaysNat
    <3> QED  BY <3>2, <3>3, <3>4
  <2> QED  BY <2>1, <2>2
<1>2. ASSUME NEW j \in Nat, NEW m \in Nat PROVE \A n \in Nat : m =< n => Ways(j, m) =< Ways(j, n)
  <2> DEFINE S == {d \in Nat : Ways(j, m) =< Ways(j, m + d)}
  <2>1. 0 \in S
    <3>1. m + 0 = m /\ Ways(j, m) \in Nat  BY WaysNat
    <3> QED  BY <3>1
  <2>2. ASSUME NEW d \in Nat, d \in S PROVE d + 1 \in S
    <3>1. Ways(j, m + d) =< Ways(j, (m + d) + 1)  BY <1>1
    <3>2. (m + d) + 1 = m + (d + 1)  OBVIOUS
    <3>3. Ways(j, m) \in Nat  BY WaysNat
    <3>4. Ways(j, m + d) \in Nat  BY WaysNat
    <3>5. Ways(j, m + (d + 1)) \in Nat  BY WaysNat
    <3> QED  BY <2>2, <3>1, <3>2, <3>3, <3>4, <3>5
  <2>3. Nat \subseteq S
    <3> HIDE DEF S
    <3> QED  BY <2>1, <2>2, SetInduction
  <2> SUFFICES ASSUME NEW n \in Nat, m =< n PROVE Ways(j, m) =< Ways(j, n)  OBVIOUS
  <2>4. n - m \in Nat /\ m + (n - m) = n  OBVIOUS
  <2>5. Ways(j, m) =< Ways(j, m + (n - m))  BY <2>3, <2>4
  <2> QED  BY <2>4, <2>5
<1>3. ASSUME NEW j \in Nat, NEW n \in Nat PROVE Gain(j, n + 1) = Ways(j + 1, n)
  <2>1. Ways(j + 1, n + 1) = Ways(j, n + 1) + Ways(j + 1, n)  BY Pascal
  <2>2. Ways(j, n + 1) \in Nat  BY WaysNat
  <2>3. Ways(j + 1, n) \in Nat  BY WaysNat
  <2> QED  BY <2>1, <2>2, <2>3 DEF Gain
<1>4. \A j \in Nat : Gain(j, 0) = 0
  BY WaysEdge DEF Gain
<1>5. \A n \in Nat : n = 0 \/ \E i \in Nat : n = i + 1
  <2>1. \A n \in Nat : n # 0 => n - 1 \in Nat /\ n = (n - 1) + 1  OBVIOUS
  <2> QED  BY <2>1
<1>6. ASSUME NEW j \in Nat, NEW n \in Nat PROVE Gain(j, n) \in Nat
  <2>1. CASE n = 0  BY <1>4, <2>1
  <2>2. ASSUME NEW i \in Nat, n = i + 1 PROVE Gain(j, n) \in Nat
    <3>1. Ways(j + 1, i) \in Nat  BY WaysNat
    <3> QED  BY <1>3, <2>2, <3>1
  <2> QED  BY <1>5, <2>1, <2>2
<1>7. ASSUME NEW j \in Nat, NEW m \in Nat, NEW n \in Nat, m =< n PROVE Gain(j, m) =< Gain(j, n)
  <2>1. CASE m = 0
    <3>1. Gain(j, m) = 0 /\ Gain(j, n) \in Nat  BY <1>4, <1>6, <2>1
    <3> QED  BY <3>1
  <2>2. CASE m # 0
    <3>1. PICK a \in Nat, b \in Nat : m = a + 1 /\ n = b + 1
      BY <1>5, <1>7, <2>2
    <3>2. a =< b  BY <1>7, <3>1
    <3>3. Gain(j, m) = Ways(j + 1, a)  BY <1>3, <3>1
    <3>4. Gain(j, n) = Ways(j + 1, b)  BY <1>3, <3>1
    <3>5. Ways(j + 1, a) =< Ways(j + 1, b)
      <4>1. j + 1 \in Nat  OBVIOUS
      <4> QED  BY <1>2, <3>2, <4>1
    <3> QED  BY <3>3, <3>4, <3>5
  <2> QED  BY <2>1, <2>2
<1> QED  BY <1>2, <1>3, <1>6, <1>7

\* The rank of q among the sequences of numbers, the last ones weighing most.
Ranked(R, q) ==
  R \in [Nat -> Nat] /\ R[0] = 0 /\ \A j \in Nat : R[j + 1] = R[j] + Gain(j, q[j + 1])

\* Every sequence has a rank.
LEMMA RankExists ==
  ASSUME NEW q \in [Nat -> Nat]
  PROVE  \E R : Ranked(R, q)
<1> DEFINE G == [x \in Nat \X Nat |-> x[2] + Gain(x[1], q[x[1] + 1])]
<1>1. G \in [Nat \X Nat -> Nat]
  <2> SUFFICES ASSUME NEW n \in Nat, NEW r \in Nat PROVE r + Gain(n, q[n + 1]) \in Nat  OBVIOUS
  <2>1. q[n + 1] \in Nat  OBVIOUS
  <2>2. Gain(n, q[n + 1]) \in Nat  BY <2>1, WaysGrow
  <2> QED  BY <2>2
<1>2. PICK E, H, e : E = Nat /\ H = G /\ e = 0  OBVIOUS
<1>3. e \in E /\ H \in [Nat \X E -> E]  BY <1>1, <1>2
<1>4. PICK R : GoesOn(R, E, e, H)
  <2> HIDE DEF G
  <2> QED  BY <1>3, Sequence
<1>5. R \in [Nat -> Nat] /\ R[0] = 0 /\ \A j \in Nat : R[j + 1] = R[j] + Gain(j, q[j + 1])
  BY <1>2, <1>4 DEF GoesOn
<1> QED  BY <1>5 DEF Ranked

\* A sequence that grows has a rank below the number of ways to its last member.
Growing(q) == q \in [Nat -> Nat] /\ \A j \in Nat : q[j] =< q[j + 1]

LEMMA RankBelow ==
  ASSUME NEW q, Growing(q), NEW R, Ranked(R, q)
  PROVE  \A j \in Nat : R[j] < Ways(j, q[j])
<1> DEFINE S == {j \in Nat : R[j] < Ways(j, q[j])}
<1>1. 0 \in S
  <2>1. q[0] \in Nat  BY DEF Growing
  <2> QED  BY <2>1, WaysEdge DEF Ranked
<1>2. ASSUME NEW j \in Nat, j \in S PROVE j + 1 \in S
  <2>1. PICK m \in Nat, n \in Nat : m = q[j] /\ n = q[j + 1] /\ m =< n
    BY DEF Growing
  <2>2. Ways(j, m) =< Ways(j, n)  BY <2>1, WaysGrow
  <2>3. R[j] \in Nat /\ R[j + 1] = R[j] + (Ways(j + 1, n) - Ways(j, n))
    BY <2>1 DEF Ranked, Gain
  <2>4. R[j] < Ways(j, m)  BY <1>2, <2>1
  <2>5. Ways(j, m) \in Nat  BY WaysNat
  <2>6. Ways(j, n) \in Nat  BY WaysNat
  <2>7. Ways(j + 1, n) \in Nat  BY WaysNat
  <2>8. R[j + 1] < Ways(j + 1, n)
    BY <2>2, <2>3, <2>4, <2>5, <2>6, <2>7
  <2> QED  BY <2>1, <2>8
<1>3. Nat \subseteq S
  <2> HIDE DEF S
  <2> QED  BY <1>1, <1>2, SetInduction
<1> QED  BY <1>3

\* A sequence nowhere lower ranks no lower.
LEMMA RankMonotone ==
  ASSUME NEW q \in [Nat -> Nat], NEW p \in [Nat -> Nat], \A j \in Nat : q[j] =< p[j],
         NEW R, Ranked(R, q), NEW Q, Ranked(Q, p)
  PROVE  \A k \in Nat : R[k] =< Q[k]
<1> DEFINE S == {k \in Nat : R[k] =< Q[k]}
<1>1. 0 \in S  BY DEF Ranked
<1>2. ASSUME NEW k \in Nat, k \in S PROVE k + 1 \in S
  <2>1. PICK m \in Nat, n \in Nat : m = q[k + 1] /\ n = p[k + 1] /\ m =< n
    OBVIOUS
  <2>2. Gain(k, m) \in Nat /\ Gain(k, n) \in Nat /\ Gain(k, m) =< Gain(k, n)
    BY <2>1, WaysGrow
  <2>3. /\ R[k] \in Nat /\ Q[k] \in Nat
        /\ R[k + 1] = R[k] + Gain(k, m) /\ Q[k + 1] = Q[k] + Gain(k, n)
    BY <2>1 DEF Ranked
  <2>4. R[k] =< Q[k]  BY <1>2
  <2> QED  BY <2>2, <2>3, <2>4
<1>3. Nat \subseteq S
  <2> HIDE DEF S
  <2> QED  BY <1>1, <1>2, SetInduction
<1> QED  BY <1>3

\* The last member that differs decides.
LEMMA RankGrows ==
  ASSUME NEW q, Growing(q), NEW p \in [Nat -> Nat],
         NEW R, Ranked(R, q), NEW Q, Ranked(Q, p),
         NEW i \in Nat, NEW k \in Nat, i + 1 =< k, q[i + 1] < p[i + 1],
         \A j \in Nat : i + 1 < j /\ j =< k => q[j] = p[j]
  PROVE  R[k] < Q[k]
<1>1. R[i + 1] < Q[i + 1]
  <2>1. PICK m \in Nat, n \in Nat : m = q[i + 1] /\ p[i + 1] = n + 1 /\ m =< n
    <3>1. q[i + 1] \in Nat /\ p[i + 1] \in Nat  BY DEF Growing
    <3>2. p[i + 1] - 1 \in Nat /\ p[i + 1] = (p[i + 1] - 1) + 1 /\ q[i + 1] =< p[i + 1] - 1
      BY <3>1
    <3> QED  BY <3>1, <3>2
  <2>2. R[i + 1] < Ways(i + 1, m)
    <3>1. i + 1 \in Nat  OBVIOUS
    <3> QED  BY <2>1, <3>1, RankBelow
  <2>3. Ways(i + 1, m) =< Ways(i + 1, n)
    <3>1. i + 1 \in Nat  OBVIOUS
    <3> QED  BY <2>1, <3>1, WaysGrow
  <2>4. Q[i] \in Nat /\ Q[i + 1] = Q[i] + Gain(i, n + 1) /\ R[i + 1] \in Nat
    BY <2>1 DEF Ranked
  <2>5. Gain(i, n + 1) = Ways(i + 1, n)  BY WaysGrow
  <2>6. \A h \in Nat : Ways(h, m) \in Nat /\ Ways(h, n) \in Nat  BY WaysNat
  <2>7. Ways(i + 1, m) \in Nat /\ Ways(i + 1, n) \in Nat
    <3>1. PICK h \in Nat : h = i + 1  OBVIOUS
    <3> QED  BY <2>6, <3>1
  <2> QED  BY <2>2, <2>3, <2>4, <2>5, <2>6, <2>7
<1> DEFINE S == {d \in Nat : (i + 1) + d =< k => R[(i + 1) + d] < Q[(i + 1) + d]}
<1>2. 0 \in S
  <2>1. (i + 1) + 0 = i + 1  OBVIOUS
  <2> QED  BY <1>1, <2>1
<1>3. ASSUME NEW d \in Nat, d \in S PROVE d + 1 \in S
  <2> SUFFICES ASSUME (i + 1) + (d + 1) =< k
               PROVE  R[(i + 1) + (d + 1)] < Q[(i + 1) + (d + 1)]
    OBVIOUS
  <2>1. PICK j \in Nat : j = (i + 1) + d  OBVIOUS
  <2>2. j + 1 = (i + 1) + (d + 1) /\ j =< k /\ i + 1 < j + 1 /\ j + 1 =< k  BY <2>1
  <2>3. R[j] < Q[j]  BY <1>3, <2>1, <2>2
  <2>4. q[j + 1] = p[j + 1] /\ p[j + 1] \in Nat  BY <2>2
  <2>5. Gain(j, p[j + 1]) \in Nat  BY <2>4, WaysGrow
  <2>6. /\ R[j] \in Nat /\ Q[j] \in Nat
        /\ R[j + 1] = R[j] + Gain(j, p[j + 1]) /\ Q[j + 1] = Q[j] + Gain(j, p[j + 1])
    BY <2>4 DEF Ranked
  <2> QED  BY <2>2, <2>3, <2>5, <2>6
<1>4. Nat \subseteq S
  <2> HIDE DEF S
  <2> QED  BY <1>2, <1>3, SetInduction
<1>5. k - (i + 1) \in Nat /\ (i + 1) + (k - (i + 1)) = k  OBVIOUS
<1> QED  BY <1>4, <1>5

-----------------------------------------------------------------------------
\* Logins that overlap.

\* The highest count that does not lock.
Last == MaxTries - 1

\* Of the counts H the logins hold, those are above v; and above the last ones
\* below the limit.
HeldAbove(H, v) == {h \in Handlers : H[h] > v}

Above(H) == [j \in Nat |-> Cardinality(HeldAbove(H, Last - j))]

\* So many wrong secrets can have led to H.
Reaches(H, n) == \E R : Ranked(R, Above(H)) /\ n =< R[Last]

\* Part of a set of logins is no larger, and smaller unless it is all of it.
LEMMA Counting ==
  ASSUME NEW A \in SUBSET Handlers
  PROVE  /\ IsFiniteSet(A) /\ Cardinality(A) \in Nat
         /\ \A B \in SUBSET A : Cardinality(B) =< Cardinality(A)
         /\ \A B \in SUBSET A : B # A => Cardinality(B) < Cardinality(A)
<1>1. IsFiniteSet(A) /\ Cardinality(A) \in Nat
  BY HandlersAssumption, FS_Subset, FS_CardinalityType
<1>2. \A B \in SUBSET A :
        /\ IsFiniteSet(B) /\ Cardinality(B) \in Nat /\ Cardinality(B) =< Cardinality(A)
        /\ (Cardinality(A) = Cardinality(B) => B = A)
  BY <1>1, FS_Subset, FS_CardinalityType
<1> QED  BY <1>1, <1>2

\* The lower the count, the more logins hold one above it.
LEMMA AboveGrows ==
  ASSUME NEW H \in [Handlers -> Nat]
  PROVE  Growing(Above(H)) /\ \A j \in Nat : Above(H)[j] =< Cardinality(Handlers)
<1>1. ASSUME NEW j \in Nat
      PROVE  /\ Cardinality(HeldAbove(H, Last - j)) \in Nat
             /\ Cardinality(HeldAbove(H, Last - j)) =< Cardinality(Handlers)
  BY Counting DEF HeldAbove
<1>2. ASSUME NEW j \in Nat
      PROVE  Cardinality(HeldAbove(H, Last - j)) =< Cardinality(HeldAbove(H, Last - (j + 1)))
  <2>1. Last - (j + 1) < Last - j /\ Last - j \in Int /\ Last - (j + 1) \in Int  BY DEF Last
  <2>2. HeldAbove(H, Last - j) \subseteq HeldAbove(H, Last - (j + 1))
    BY <2>1 DEF HeldAbove
  <2>3. HeldAbove(H, Last - (j + 1)) \in SUBSET Handlers  BY DEF HeldAbove
  <2> QED  BY <2>2, <2>3, Counting
<1>3. Above(H) \in [Nat -> Nat]  BY <1>1 DEF Above
<1>4. \A j \in Nat : Above(H)[j] =< Above(H)[j + 1]  BY <1>2 DEF Above
<1> QED  BY <1>1, <1>3, <1>4 DEF Above, Growing

\* Whatever logins hold, none is too few.
LEMMA NoneReaches ==
  ASSUME NEW H \in [Handlers -> Nat] PROVE Reaches(H, 0)
<1>1. PICK R : Ranked(R, Above(H))  BY AboveGrows, RankExists DEF Growing
<1>2. Last \in Nat  BY DEF Last
<1>3. 0 =< R[Last]  BY <1>1, <1>2 DEF Ranked
<1> QED  BY <1>1, <1>3 DEF Reaches

\* Counts that are no lower are as far.
LEMMA HigherReaches ==
  ASSUME NEW H \in [Handlers -> Nat], NEW G \in [Handlers -> Nat],
         \A h \in Handlers : H[h] =< G[h],
         NEW n \in Nat, Reaches(H, n)
  PROVE  Reaches(G, n)
<1>1. PICK R : Ranked(R, Above(H)) /\ n =< R[Last]  BY DEF Reaches
<1>2. PICK Q : Ranked(Q, Above(G))  BY AboveGrows, RankExists DEF Growing
<1>3. ASSUME NEW j \in Nat PROVE Above(H)[j] =< Above(G)[j]
  <2>1. Last - j \in Int  BY DEF Last
  <2>2. /\ HeldAbove(H, Last - j) \subseteq HeldAbove(G, Last - j)
        /\ HeldAbove(G, Last - j) \in SUBSET Handlers
    BY <2>1 DEF HeldAbove
  <2> QED  BY <2>2, Counting DEF Above
<1>4. Last \in Nat  BY DEF Last
<1>5. R[Last] =< Q[Last]
  BY <1>1, <1>2, <1>3, <1>4, AboveGrows, RankMonotone DEF Growing
<1>6. n =< Q[Last]  BY <1>1, <1>2, <1>4, <1>5 DEF Ranked
<1> QED  BY <1>2, <1>6 DEF Reaches

\* One login more above w, and the same above less, is one step farther.
LEMMA FailureReaches ==
  ASSUME NEW H \in [Handlers -> Nat], NEW G \in [Handlers -> Nat],
         NEW w \in Nat, w < Last, NEW h \in Handlers, H[h] =< w, G[h] > w,
         \A g \in Handlers : H[g] > w => G[g] > w,
         \A g \in Handlers, v \in Int : v < w => (H[g] > v <=> G[g] > v),
         NEW n \in Nat, Reaches(H, n)
  PROVE  Reaches(G, n + 1)
<1>1. PICK R : Ranked(R, Above(H)) /\ n =< R[Last]  BY DEF Reaches
<1>2. PICK Q : Ranked(Q, Above(G))  BY AboveGrows, RankExists DEF Growing
<1>3. PICK i \in Nat : i = Last - w - 1 /\ i + 1 =< Last /\ Last - (i + 1) = w
  <2>1. /\ Last - w - 1 \in Nat /\ (Last - w - 1) + 1 =< Last
        /\ Last - ((Last - w - 1) + 1) = w
    BY DEF Last
  <2> QED  BY <2>1
<1>4. Above(H)[i + 1] < Above(G)[i + 1]
  <2>1. /\ HeldAbove(H, w) \subseteq HeldAbove(G, w) /\ HeldAbove(G, w) \in SUBSET Handlers
        /\ h \in HeldAbove(G, w) /\ h \notin HeldAbove(H, w)
    BY DEF HeldAbove
  <2>2. Cardinality(HeldAbove(H, w)) < Cardinality(HeldAbove(G, w))  BY <2>1, Counting
  <2> QED  BY <1>3, <2>2 DEF Above
<1>5. ASSUME NEW j \in Nat, i + 1 < j PROVE Above(H)[j] = Above(G)[j]
  <2>1. Last - j \in Int /\ Last - j < w  BY <1>3, <1>5 DEF Last
  <2>2. HeldAbove(H, Last - j) = HeldAbove(G, Last - j)  BY <2>1 DEF HeldAbove
  <2> QED  BY <2>2 DEF Above
<1>6. Last \in Nat  BY DEF Last
<1>7. Growing(Above(H)) /\ Above(G) \in [Nat -> Nat]  BY AboveGrows DEF Growing
<1>8. R[Last] < Q[Last]
  <2>1. PICK p, q, k : p = Above(G) /\ q = Above(H) /\ k = Last  OBVIOUS
  <2>2. Growing(q) /\ p \in [Nat -> Nat]  BY <1>7, <2>1
  <2>3. Ranked(R, q) /\ Ranked(Q, p)  BY <1>1, <1>2, <2>1
  <2>4. q[i + 1] < p[i + 1]  BY <1>4, <2>1
  <2>5. \A j \in Nat : i + 1 < j /\ j =< k => q[j] = p[j]  BY <1>5, <2>1
  <2>6. k \in Nat /\ i + 1 =< k  BY <1>3, <1>6, <2>1
  <2>7. R[k] < Q[k]  BY ONLY <2>2, <2>3, <2>4, <2>5, <2>6, RankGrows, i \in Nat
  <2> QED  BY <2>1, <2>7
<1>9. n + 1 =< Q[Last]
  <2>1. R[Last] \in Nat /\ Q[Last] \in Nat  BY <1>1, <1>2, <1>6 DEF Ranked
  <2> QED  BY <1>1, <1>8, <2>1
<1> QED  BY <1>2, <1>9 DEF Reaches

\* And no further than there are ways to choose the counts.
LEMMA ReachesBelow ==
  ASSUME NEW H \in [Handlers -> Nat], NEW n \in Nat, Reaches(H, n)
  PROVE  n < choose(MaxTries + Cardinality(Handlers) - 1, Cardinality(Handlers))
<1>1. PICK R : Ranked(R, Above(H)) /\ n =< R[Last]  BY DEF Reaches
<1>2. PICK m \in Nat : m = Cardinality(Handlers)  BY Counting
<1>3. PICK k \in Nat : k = Last  BY DEF Last
<1>4. Above(H)[k] \in Nat /\ Above(H)[k] =< m  BY <1>2, AboveGrows DEF Growing
<1>5. R[k] < Ways(k, Above(H)[k])  BY <1>1, AboveGrows, RankBelow
<1>6. Ways(k, Above(H)[k]) =< Ways(k, m)  BY <1>4, WaysGrow
<1>7. n < Ways(k, m)
  <2>1. R[k] \in Nat  BY <1>1 DEF Ranked
  <2>2. Ways(k, m) \in Nat  BY WaysNat
  <2>3. Ways(k, Above(H)[k]) \in Nat  BY <1>4, WaysNat
  <2> QED  BY <1>1, <1>3, <1>5, <1>6, <2>1, <2>2, <2>3
<1>8. Ways(k, m) = Ways(m, k)
  <2>1. PICK s \in Nat : s = k + m  OBVIOUS
  <2>2. PICK b \in Nat \ {0} : Divides(b, k, m)  BY <2>1, WaysExist
  <2>3. PICK x \in Nat, y \in Nat : x = factorial[k] /\ y = factorial[m]  BY FactorialIs
  <2>4. x * y = y * x /\ k + m = m + k  OBVIOUS
  <2>5. Divides(b, m, k)  BY <2>2, <2>3, <2>4 DEF Divides
  <2> QED  BY <2>2, <2>5, WaysIs
<1>9. k + m = MaxTries + m - 1  BY <1>3 DEF Last
<1> QED  BY <1>2, <1>7, <1>8, <1>9 DEF Ways

\* The counts the logins hold: what a login on c has read, at most what c's row
\* holds; a login not on c would read that.
HeldBy(c) ==
  [h \in Handlers |-> IF Trying(h, c) /\ job[h].tries < row[c].tries
                        THEN job[h].tries ELSE row[c].tries]

\* The wrong secrets on c are as many as lead to the counts held.
GuessInv(c) ==
  /\ row[c] = None => failed[c] = 0
  /\ row[c] # None => Reaches(HeldBy(c), failed[c])

\* The counts held are numbers.
LEMMA HeldIs ==
  ASSUME TypeOK, NEW c \in Creds, row[c] # None
  PROVE  HeldBy(c) \in [Handlers -> Nat]
<1>1. row[c].tries \in Nat  BY RowFields
<1>2. \A h \in Handlers : Trying(h, c) => job[h].tries \in Nat  BY JobFields DEF Trying
<1> QED  BY <1>1, <1>2 DEF HeldBy

\* The same of the next state.
LEMMA HeldIsNext ==
  ASSUME TypeOK', NEW c \in Creds, row'[c] # None
  PROVE  /\ HeldBy(c)' \in [Handlers -> Nat]
         /\ row'[c].tries \in Nat
         /\ \A h \in Handlers : Trying(h, c)' => job'[h].tries \in Nat
<1>1. row'[c].tries \in Nat
  <2>1. row'[c] \in Row  BY DEF TypeOK
  <2> QED  BY <2>1 DEF Row
<1>2. \A h \in Handlers : Trying(h, c)' => job'[h].tries \in Nat
  BY DEF Trying, TypeOK, Job
<1>3. HeldBy(c)' \in [Handlers -> Nat]  BY <1>1, <1>2 DEF HeldBy
<1> QED  BY <1>1, <1>2, <1>3

\* A credential that a step writes no secret to: a login may start on it, with the
\* count that is there, or end.
LEMMA GuessKept ==
  ASSUME TypeOK, TypeOK', NEW c \in Creds, GuessInv(c), failed'[c] = failed[c],
         row'[c] = None <=> row[c] = None,
         row[c] # None => row'[c].tries = row[c].tries,
         \A h \in Handlers : Trying(h, c)' =>
           \/ Trying(h, c) /\ job'[h] = job[h]
           \/ row[c] # None /\ job'[h].tries = row[c].tries
  PROVE  GuessInv(c)'
<1>1. CASE row[c] = None  BY <1>1 DEF GuessInv
<1>2. CASE row[c] # None
  <2>1. HeldBy(c) \in [Handlers -> Nat] /\ HeldBy(c)' \in [Handlers -> Nat]
    BY <1>2, HeldIs, HeldIsNext
  <2>2. PICK t \in Nat : t = row[c].tries /\ t = row'[c].tries  BY <1>2, RowFields
  <2>3. ASSUME NEW h \in Handlers PROVE HeldBy(c)[h] =< HeldBy(c)'[h]
    <3>1. HeldBy(c)[h] = IF Trying(h, c) /\ job[h].tries < t THEN job[h].tries ELSE t
      BY <2>2 DEF HeldBy
    <3>2. HeldBy(c)'[h] = IF Trying(h, c)' /\ job'[h].tries < t THEN job'[h].tries ELSE t
      BY <2>2 DEF HeldBy
    <3>3. CASE Trying(h, c)' /\ job'[h].tries < t
      <4>1. Trying(h, c) /\ job'[h] = job[h]  BY <2>2, <3>3
      <4> QED  BY <2>1, <3>1, <3>2, <3>3, <4>1
    <3>4. CASE ~(Trying(h, c)' /\ job'[h].tries < t)
      <4>1. HeldBy(c)'[h] = t  BY <3>2, <3>4
      <4>2. CASE Trying(h, c) /\ job[h].tries < t
        <5>1. job[h].tries \in Nat  BY <4>2, JobFields DEF Trying
        <5> QED  BY <2>2, <3>1, <4>1, <4>2, <5>1
      <4>3. CASE ~(Trying(h, c) /\ job[h].tries < t)  BY <2>2, <3>1, <4>1, <4>3
      <4> QED  BY <4>2, <4>3
    <3> QED  BY <3>3, <3>4
  <2>4. failed[c] \in Nat  BY DEF TypeOK
  <2>5. Reaches(HeldBy(c), failed[c])  BY <1>2 DEF GuessInv
  <2>6. Reaches(HeldBy(c)', failed[c])
    <3>1. PICK H, G, n : H = HeldBy(c) /\ G = HeldBy(c)' /\ n = failed[c]  OBVIOUS
    <3>2. H \in [Handlers -> Nat] /\ G \in [Handlers -> Nat] /\ n \in Nat
      BY <2>1, <2>4, <3>1
    <3>3. \A h \in Handlers : H[h] =< G[h]  BY <2>3, <3>1
    <3>4. Reaches(H, n)  BY <2>5, <3>1
    <3>5. Reaches(G, n)  BY ONLY <3>2, <3>3, <3>4, HigherReaches
    <3> QED  BY <3>1, <3>5
  <2>7. Reaches(HeldBy(c), failed[c])'
    <3>1. PICK G, n : G = HeldBy(c)' /\ n = failed[c] /\ Reaches(G, n) /\ n = failed'[c]  BY <2>6
    <3> QED  BY <3>1 DEF Reaches, Above, HeldAbove
  <2> QED  BY <1>2, <2>7 DEF GuessInv
<1> QED  BY <1>1, <1>2

\* A credential whose count begins anew.
LEMMA GuessAnew ==
  ASSUME TypeOK', NEW c \in Creds, row'[c] # None, failed'[c] = 0
  PROVE  GuessInv(c)'
<1>1. HeldBy(c)' \in [Handlers -> Nat]  BY HeldIsNext
<1>2. Reaches(HeldBy(c), failed[c])'
  <2>1. PICK G : G = HeldBy(c)' /\ G \in [Handlers -> Nat]  BY <1>1
  <2>2. Reaches(G, 0)  BY <2>1, NoneReaches
  <2> QED  BY <2>1, <2>2 DEF Reaches, Above, HeldAbove
<1> QED  BY <1>2 DEF GuessInv

\* At first nobody has failed.
LEMMA InitGuess == ASSUME Init, NEW c \in Creds PROVE GuessInv(c)
<1>1. TypeOK  BY InitInv DEF LockoutInv
<1>2. failed[c] = 0  BY DEF Init
<1>3. CASE row[c] = None  BY <1>2, <1>3 DEF GuessInv
<1>4. CASE row[c] # None
  <2>1. HeldBy(c) \in [Handlers -> Nat]  BY <1>1, <1>4, HeldIs
  <2>2. Reaches(HeldBy(c), 0)  BY <2>1, NoneReaches
  <2> QED  BY <1>2, <1>4, <2>2 DEF GuessInv
<1> QED  BY <1>3, <1>4

\* One more wrong secret that does not lock: the login leaves the count it has
\* read, or the row's, for one above it.
LEMMA FailGuess ==
  ASSUME LockoutInv, TypeOK', \A d \in Creds : GuessInv(d),
         NEW h \in Handlers, Fail(h), ~Locks(NewTries(job[h])), NEW c \in Creds, c = job[h].cred
  PROVE  GuessInv(c)'
<1>1. TypeOK /\ job[h] # None /\ row[c] # None /\ row[c] \in Row
  BY JobFields DEF LockoutInv, Fail
<1>2. PICK a \in Nat, t \in Nat, n \in Nat : a = job[h].tries /\ t = row[c].tries /\ n = failed[c]
  <2>1. job[h].tries \in Nat  BY <1>1, JobFields
  <2>2. row[c].tries \in Nat  BY <1>1, RowFields
  <2>3. failed[c] \in Nat  BY <1>1 DEF TypeOK
  <2> QED  BY <2>1, <2>2, <2>3
<1>3. a + 1 < MaxTries  BY <1>2 DEF NewTries, Locks
<1>4. /\ row' = [row EXCEPT ![c] = [row[c] EXCEPT !.tries = a + 1]]
      /\ failed' = [failed EXCEPT ![c] = failed[c] + 1]
      /\ Done(h)
  BY <1>2 DEF Fail, NewTries
<1>5. row'[c] # None /\ row'[c].tries = a + 1
  <2>1. /\ [row[c] EXCEPT !.tries = a + 1] \in Row
        /\ [row[c] EXCEPT !.tries = a + 1].tries = a + 1
    BY <1>1 DEF Row
  <2> QED  BY <1>1, <1>4, <2>1 DEF TypeOK
<1>6. failed'[c] = n + 1  BY <1>1, <1>2, <1>4 DEF TypeOK
<1>7. \A g \in Handlers : Trying(g, c)' => g # h /\ Trying(g, c) /\ job'[g] = job[g]
  BY <1>1, <1>4, DoneJobs
<1>8. \A g \in Handlers : g # h => (Trying(g, c)' <=> Trying(g, c)) /\ job'[g] = job[g]
  BY <1>1, <1>4 DEF Done, Trying, TypeOK
<1>9. Trying(h, c)  BY <1>1 DEF Trying
<1>10. PICK H, G : H = HeldBy(c) /\ G = HeldBy(c)'
                   /\ H \in [Handlers -> Nat] /\ G \in [Handlers -> Nat]
  BY <1>1, <1>5, HeldIs, HeldIsNext
<1>11. PICK r \in [Handlers -> Nat], T \in SUBSET Handlers :
         /\ T = {g \in Handlers : Trying(g, c)} /\ \A g \in T : r[g] = job[g].tries
  <2>1. \A g \in Handlers : Trying(g, c) => job[g].tries \in Nat
    BY <1>1, JobFields DEF Trying
  <2>2. PICK r : r = [g \in Handlers |-> IF Trying(g, c) THEN job[g].tries ELSE 0]  OBVIOUS
  <2>3. PICK T : T = {g \in Handlers : Trying(g, c)}  OBVIOUS
  <2>4. r \in [Handlers -> Nat]  BY <2>1, <2>2
  <2>5. T \in SUBSET Handlers /\ \A g \in T : r[g] = job[g].tries  BY <2>2, <2>3
  <2> QED  BY <2>3, <2>4, <2>5
<1>12. \A g \in Handlers : H[g] = IF g \in T /\ r[g] < t THEN r[g] ELSE t
  BY <1>2, <1>10, <1>11 DEF HeldBy
<1>13. \A g \in Handlers : G[g] = IF g # h /\ g \in T /\ r[g] < a + 1 THEN r[g] ELSE a + 1
  <2>1. ASSUME NEW g \in Handlers
        PROVE G[g] = IF Trying(g, c)' /\ job'[g].tries < a + 1 THEN job'[g].tries ELSE a + 1
    BY <1>5, <1>10 DEF HeldBy
  <2>2. ASSUME NEW g \in Handlers, g # h
        PROVE  (Trying(g, c)' <=> g \in T) /\ (g \in T => job'[g].tries = r[g])
    BY <1>8, <1>11, <2>2
  <2>3. ~Trying(h, c)'  BY <1>7
  <2> QED  BY <2>1, <2>2, <2>3
<1>14. h \in T /\ r[h] = a  BY <1>2, <1>9, <1>11
<1>15. PICK w \in Nat : w = IF a < t THEN a ELSE t  OBVIOUS
<1>16. w < Last /\ H[h] =< w /\ G[h] > w
  BY <1>3, <1>12, <1>13, <1>14, <1>15 DEF Last
<1>17. \A g \in Handlers : H[g] > w => G[g] > w
  BY <1>12, <1>13, <1>14, <1>15
<1>18. \A g \in Handlers, v \in Int : v < w => (H[g] > v <=> G[g] > v)
  BY <1>12, <1>13, <1>14, <1>15
<1>19. Reaches(H, n)  BY <1>1, <1>2, <1>10 DEF GuessInv
<1>20. Reaches(G, n + 1)
  BY ONLY <1>10, <1>16, <1>17, <1>18, <1>19, w \in Nat, n \in Nat, h \in Handlers, FailureReaches
<1>21. Reaches(HeldBy(c), failed[c])'
  <2>1. PICK K, m : K = HeldBy(c)' /\ m = n + 1 /\ m = failed'[c] /\ Reaches(K, m)
    BY <1>6, <1>10, <1>20
  <2> QED  BY <2>1 DEF Reaches, Above, HeldAbove
<1> QED  BY <1>5, <1>21 DEF GuessInv

\* A credential other than the one a login writes to.
LEMMA OthersGuess ==
  ASSUME TypeOK, TypeOK', NEW h \in Handlers, Done(h), NEW d \in Creds, GuessInv(d),
         row'[d] = row[d], failed'[d] = failed[d]
  PROVE  GuessInv(d)'
<1>1. \A g \in Handlers : Trying(g, d)' => Trying(g, d) /\ job'[g] = job[g]
  BY DoneJobs
<1> QED  BY <1>1, GuessKept

\* Every step keeps the guesses within what the counts held allow.
LEMMA GuessStep ==
  ASSUME LockoutInv, LockoutInv', \A d \in Creds : GuessInv(d), Next
  PROVE  \A d \in Creds : GuessInv(d)'
<1>1. TypeOK /\ TypeOK'  BY DEF LockoutInv
<1> SUFFICES ASSUME NEW d \in Creds PROVE GuessInv(d)'  OBVIOUS
<1>2. GuessInv(d)  OBVIOUS
<1>3. ASSUME NEW h \in Handlers, NEW c \in Creds, NEW right \in BOOLEAN, Attempt(h, c, right)
      PROVE  GuessInv(d)'
  <2>1. row' = row /\ failed' = failed /\ row[c] # None  BY <1>3 DEF Attempt, Admitted
  <2>2. ASSUME NEW g \in Handlers, Trying(g, d)'
        PROVE  \/ Trying(g, d) /\ job'[g] = job[g]
               \/ row[d] # None /\ job'[g].tries = row[d].tries
    <3>1. CASE g = h
      <4>1. job'[h] = [cred |-> c, right |-> right, tries |-> row[c].tries]
        BY <1>1, <1>3 DEF Attempt, TypeOK
      <4> QED  BY <2>1, <2>2, <3>1, <4>1 DEF Trying
    <3>2. CASE g # h
      <4>1. job'[g] = job[g]  BY <1>1, <1>3, <3>2 DEF Attempt, TypeOK
      <4> QED  BY <2>2, <4>1 DEF Trying
    <3> QED  BY <3>1, <3>2
  <2> QED  BY <1>1, <1>2, <2>1, <2>2, GuessKept
<1>4. ASSUME NEW h \in Handlers, NEW c \in Creds, c = job[h].cred, Fail(h) \/ Succeed(h)
      PROVE  GuessInv(d)'
  <2>1. Done(h) /\ job[h] # None /\ row[c] # None  BY <1>1, <1>4, JobFields DEF Fail, Succeed
  <2>2. CASE d # c
    <3>1. failed'[d] = failed[d] /\ row'[d] = row[d]
      BY <1>1, <1>4, <2>2 DEF Fail, Succeed, Anew, TypeOK
    <3> QED  BY <1>1, <1>2, <2>1, <3>1, OthersGuess
  <2>3. CASE d = c /\ Fail(h) /\ ~Locks(NewTries(job[h]))
    BY <1>1, <1>4, <2>3, FailGuess
  <2>4. CASE d = c /\ (Succeed(h) \/ Locks(NewTries(job[h])))
    <3>1. Anew(h, c)  BY <1>4, <2>4 DEF Fail, Succeed
    <3>2. failed'[d] = 0  BY <1>1, <2>4, <3>1 DEF Anew, TypeOK
    <3>3. \E r \in Row : row' = [row EXCEPT ![c] = r]
      <4>1. [tries |-> 0, locked |-> TRUE] \in Row  BY DEF Row
      <4>2. [tries |-> 0, locked |-> c \in Pins /\ row[c].locked] \in Row  BY DEF Row
      <4>3. CASE Succeed(h)  BY <1>4, <4>2, <4>3 DEF Succeed
      <4>4. CASE Fail(h) /\ Locks(NewTries(job[h]))  BY <1>4, <4>1, <4>4 DEF Fail
      <4> QED  BY <1>4, <2>4, <4>3, <4>4
    <3>4. row'[d] # None  BY <1>1, <2>4, <3>3 DEF TypeOK
    <3> QED  BY <1>1, <3>2, <3>4, GuessAnew
  <2> QED  BY <1>4, <2>2, <2>3, <2>4
<1>5. ASSUME NEW h \in Handlers, CutShort(h) PROVE GuessInv(d)'
  BY <1>1, <1>2, <1>5, OthersGuess DEF CutShort, history
<1>6. ASSUME NEW c \in Creds, SetupPin(c) PROVE GuessInv(d)'
  <2>1. CASE d # c
    <3>1. row'[d] = row[d] /\ failed'[d] = failed[d] /\ job' = job
      BY <1>1, <1>6, <2>1 DEF SetupPin, TypeOK
    <3>2. \A g \in Handlers : Trying(g, d)' => Trying(g, d) /\ job'[g] = job[g]
      BY <3>1 DEF Trying
    <3> QED  BY <1>1, <1>2, <3>1, <3>2, GuessKept
  <2>2. CASE d = c
    <3>1. Fresh \in Row  BY DEF Fresh, Row
    <3>2. row'[d] # None /\ failed'[d] = 0
      BY <1>1, <1>6, <2>2, <3>1 DEF SetupPin, TypeOK
    <3> QED  BY <1>1, <3>2, GuessAnew
  <2> QED  BY <2>1, <2>2
<1>7. ASSUME NEW c \in Creds, Unlock(c) PROVE GuessInv(d)'
  <2>1. /\ row[c] # None /\ UNCHANGED <<job, failed>>
        /\ row' = [row EXCEPT ![c] = [row[c] EXCEPT !.locked = FALSE]]
    BY <1>7 DEF Unlock, history
  <2>2. row[c] \in Row  BY <1>1, <2>1, RowFields
  <2>3. /\ [row[c] EXCEPT !.locked = FALSE] \in Row
        /\ [row[c] EXCEPT !.locked = FALSE].tries = row[c].tries
    BY <2>2 DEF Row
  <2>4. (row'[d] = None <=> row[d] = None) /\ (row[d] # None => row'[d].tries = row[d].tries)
    BY <1>1, <2>1, <2>3 DEF TypeOK
  <2>5. \A g \in Handlers : Trying(g, d)' => Trying(g, d) /\ job'[g] = job[g]
    BY <2>1 DEF Trying
  <2>6. failed'[d] = failed[d]  BY <2>1
  <2> QED  BY <1>1, <1>2, <2>4, <2>5, <2>6, GuessKept
<1>8. ASSUME NEW C \in SUBSET Creds, Deactivate(C) PROVE GuessInv(d)'
  <2>1. row' = row /\ failed' = failed /\ job' = job  BY <1>8 DEF Deactivate
  <2>2. \A g \in Handlers : Trying(g, d)' => Trying(g, d) /\ job'[g] = job[g]
    BY <2>1 DEF Trying
  <2> QED  BY <1>1, <1>2, <2>1, <2>2, GuessKept
<1>9. \A h \in Handlers : Fail(h) \/ Succeed(h) => job[h].cred \in Creds
  BY <1>1, JobFields DEF Fail, Succeed
<1>10. active \subseteq Creds  BY <1>1 DEF TypeOK
<1>11. CASE \E h \in Handlers, c \in Creds, right \in BOOLEAN : Attempt(h, c, right)
  BY <1>3, <1>11
<1>12. CASE \E h \in Handlers : Fail(h) \/ Succeed(h)  BY <1>4, <1>9, <1>12
<1>13. CASE \E h \in Handlers : CutShort(h)  BY <1>5, <1>13
<1>14. CASE \E c \in Creds : SetupPin(c) \/ Unlock(c)  BY <1>6, <1>7, <1>14
<1>15. CASE \E C \in SUBSET active \ {{}} : Deactivate(C)  BY <1>8, <1>10, <1>15
<1> QED  BY <1>11, <1>12, <1>13, <1>14, <1>15 DEF Next

\* And that is the bound.
LEMMA GuessFew ==
  ASSUME TypeOK, \A c \in Creds : GuessInv(c)
  PROVE  GuessesBounded
<1> SUFFICES ASSUME NEW c \in Creds
             PROVE  failed[c] < choose(MaxTries + Cardinality(Handlers) - 1, Cardinality(Handlers))
  BY DEF GuessesBounded
<1>1. failed[c] \in Nat  BY DEF TypeOK
<1>2. CASE row[c] = None
  <2>1. PICK H \in [Handlers -> Nat] : H = [h \in Handlers |-> 0]  OBVIOUS
  <2>2. Reaches(H, 0)  BY NoneReaches
  <2>3. failed[c] = 0  BY <1>2 DEF GuessInv
  <2> QED  BY <2>2, <2>3, ReachesBelow
<1>3. CASE row[c] # None
  <2>1. HeldBy(c) \in [Handlers -> Nat]  BY <1>3, HeldIs
  <2>2. Reaches(HeldBy(c), failed[c])  BY <1>3 DEF GuessInv
  <2> QED  BY <1>1, <2>1, <2>2, ReachesBelow
<1> QED  BY <1>2, <1>3

\* However logins overlap, a credential takes fewer wrong secrets before it locks,
\* is reset or succeeds than there are multisets of one count below MaxTries per
\* login (auth.service.ts 187-194, 246-253).
THEOREM GuessesAreBounded == Spec => []GuessesBounded
<1> DEFINE Inv == TypeOK /\ \A c \in Creds : GuessInv(c)
<1>1. Init => Inv  BY InitInv, InitGuess DEF LockoutInv
<1>2. Inv /\ LockoutInv /\ LockoutInv' /\ [Next]_vars => Inv'
  <2> SUFFICES ASSUME Inv, LockoutInv, LockoutInv', [Next]_vars PROVE Inv'  OBVIOUS
  <2>1. TypeOK'  BY DEF LockoutInv
  <2>2. CASE Next  BY <2>1, <2>2, GuessStep
  <2>3. CASE UNCHANGED vars
    <3>1. row' = row /\ failed' = failed /\ job' = job  BY <2>3 DEF vars
    <3>2. ASSUME NEW d \in Creds PROVE GuessInv(d)'
      <4>1. \A g \in Handlers : Trying(g, d)' => Trying(g, d) /\ job'[g] = job[g]
        BY <3>1 DEF Trying
      <4> QED  BY <2>1, <3>1, <4>1, GuessKept
    <3> QED  BY <2>1, <3>2
  <2> QED  BY <2>2, <2>3
<1>3. Inv => GuessesBounded  BY GuessFew
<1> QED  BY <1>1, <1>2, <1>3, LockoutInvariant, PTL DEF Spec
=============================================================================
