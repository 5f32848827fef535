------------------------------- MODULE OtpProofs -------------------------------
(***************************************************************************)
(* Proofs about Otp: whatever requests overlap or are cut short, an account *)
(* is opened with a code sent to its own e-mail, no code opens two, and the *)
(* number of guesses a code takes is bounded.                              *)
(***************************************************************************)
EXTENDS Otp, FiniteSetTheorems, TLAPS

USE PurposesAssumption, BoundsAssumption, HandlersAssumption, MayFailAssumption, NoneAssumption

LEMMA JobFields ==
  ASSUME TypeOK, NEW h \in Handlers, job[h] # None
  PROVE  /\ job[h] \in Job
         /\ job[h].pc \in {"create", "verify", "count", "consume", "open"}
         /\ job[h].target \in Targets /\ job[h].purpose \in Purposes
         /\ job[h].guess \in Codes \cup {None} /\ job[h].phone \in Phones \cup {None}
         /\ job[h].strong \in BOOLEAN /\ job[h].code \in Codes \cup {None}
<1>1. job[h] \in Job  BY DEF TypeOK
<1> QED  BY <1>1 DEF Job

LEMMA RowFields ==
  ASSUME TypeOK, NEW c \in 1 .. issued
  PROVE  /\ code[c] \in Row
         /\ code[c].target \in Targets /\ code[c].purpose \in Purposes
         /\ code[c].attempts \in Nat /\ code[c].consumed \in BOOLEAN
         /\ code[c].recent \in BOOLEAN /\ code[c].live \in BOOLEAN
<1>1. code[c] \in Row  BY DEF TypeOK
<1> QED  BY <1>1 DEF Row

LEMMA StartJob ==
  ASSUME TypeOK, NEW h \in Handlers, NEW j \in Job, Start(h, j)
  PROVE  job' \in [Handlers -> Job \cup {None}]
BY DEF TypeOK, Start

LEMMA DoneJob ==
  ASSUME TypeOK, NEW h \in Handlers, Done(h)
  PROVE  job' \in [Handlers -> Job \cup {None}]
BY DEF TypeOK, Done

LEMMA InitInv == Init => OtpInv
<1> SUFFICES ASSUME Init PROVE OtpInv  OBVIOUS
<1> USE DEF Init
<1>1. TypeOK
  <2>1. 1 .. issued = {}  OBVIOUS
  <2>2. code \in [1 .. issued -> Row]  BY <2>1
  <2> QED  BY <2>2 DEF TypeOK
<1>2. \A h \in Handlers : job[h] = None  OBVIOUS
<1>3. 1 .. issued = {}  OBVIOUS
<1>4. JobInv  BY <1>2 DEF JobInv
<1>5. OpenedInv  BY DEF OpenedInv
<1>6. RecentInv  BY <1>2, <1>3 DEF RecentInv, OneRecent, Requested, At
<1>7. AttemptsInv  BY <1>3 DEF AttemptsInv
<1> QED  BY <1>1, <1>4, <1>5, <1>6, <1>7 DEF OtpInv

-----------------------------------------------------------------------------
LEMMA TypeStep == ASSUME TypeOK, JobInv, [Next]_vars PROVE TypeOK'
<1>1. ASSUME NEW h \in Handlers, NEW t \in Targets, NEW p \in Purposes, RequestOtp(h, t, p)
      PROVE  TypeOK'
  <2> DEFINE j == [pc |-> "create", target |-> t, purpose |-> p, guess |-> None,
                   phone |-> None, strong |-> FALSE, code |-> None]
  <2>1. j \in Job  BY DEF Job
  <2>2. Start(h, j)  BY <1>1 DEF RequestOtp
  <2>3. job' \in [Handlers -> Job \cup {None}]  BY <2>1, <2>2, StartJob
  <2>4. raced' \subseteq Targets \X Purposes  BY <1>1 DEF RequestOtp, TypeOK
  <2> QED  BY <1>1, <2>3, <2>4 DEF RequestOtp, TypeOK
<1>2. ASSUME NEW h \in Handlers, CreateCode(h) PROVE TypeOK'
  <2> USE <1>2 DEF CreateCode
  <2>1. job[h] # None  BY DEF At
  <2>2. issued' \in 0 .. MaxCodes /\ issued' = issued + 1  BY DEF TypeOK
  <2> DEFINE new == [target |-> job[h].target, purpose |-> job[h].purpose, attempts |-> 0,
                     consumed |-> FALSE, recent |-> TRUE, live |-> TRUE]
  <2>3. new \in Row  BY <2>1, JobFields DEF Row
  <2>4. \A c \in 1 .. issued' : c # issued' => c \in 1 .. issued  BY <2>2 DEF TypeOK
  <2>5. \A c \in 1 .. issued' : (IF c = issued' THEN new ELSE code[c]) \in Row
    BY <2>3, <2>4 DEF TypeOK
  <2>6. code' = [c \in 1 .. issued' |-> IF c = issued' THEN new ELSE code[c]]  OBVIOUS
  <2> HIDE DEF new
  <2>7. code' \in [1 .. issued' -> Row]  BY <2>5, <2>6
  <2> QED  BY <2>2, <2>7, DoneJob DEF TypeOK, history
<1>3. ASSUME NEW h \in Handlers, NEW t \in Targets, NEW p \in Purposes,
             NEW g \in Codes \cup {None}, Verify(h, t, p, g)
      PROVE  TypeOK'
  <2> DEFINE j == [pc |-> "verify", target |-> t, purpose |-> p, guess |-> g,
                   phone |-> None, strong |-> FALSE, code |-> None]
  <2>1. j \in Job  BY DEF Job
  <2>2. Start(h, j)  BY <1>3 DEF Verify
  <2>3. job' \in [Handlers -> Job \cup {None}]  BY <2>1, <2>2, StartJob
  <2> QED  BY <1>3, <2>3 DEF Verify, TypeOK, history
<1>4. ASSUME NEW h \in Handlers, NEW t \in Targets, NEW phone \in Phones,
             NEW g \in Codes \cup {None}, NEW strong \in BOOLEAN, Signup(h, t, phone, g, strong)
      PROVE  TypeOK'
  <2> DEFINE j == [pc |-> "verify", target |-> t, purpose |-> "register", guess |-> g,
                   phone |-> phone, strong |-> strong, code |-> None]
  <2>1. j \in Job  BY DEF Job
  <2>2. Start(h, j)  BY <1>4 DEF Signup
  <2>3. job' \in [Handlers -> Job \cup {None}]  BY <2>1, <2>2, StartJob
  <2> QED  BY <1>4, <2>3 DEF Signup, TypeOK, history
<1>5. ASSUME NEW h \in Handlers, ReadCode(h) PROVE TypeOK'
  <2>1. job[h] # None  BY <1>5 DEF ReadCode, At
  <2> DEFINE found == Candidates(job[h].target, job[h].purpose)
  <2>2. CASE Done(h)  BY <1>5, <2>2, DoneJob DEF ReadCode, TypeOK, history
  <2>3. ASSUME NEW c \in found,
               job' = [job EXCEPT ![h].code = c,
                                  ![h].pc = IF job[h].guess = c THEN "consume" ELSE "count"]
        PROVE  job' \in [Handlers -> Job \cup {None}]
    <3>1. c \in Codes  BY DEF Candidates, TypeOK, Codes
    <3>2. [job[h] EXCEPT !.code = c,
                         !.pc = IF job[h].guess = c THEN "consume" ELSE "count"] \in Job
      BY <2>1, <3>1, JobFields DEF Job
    <3> QED  BY <2>3, <3>2 DEF TypeOK
  <2>4. Done(h) \/ \E c \in found :
          job' = [job EXCEPT ![h].code = c,
                             ![h].pc = IF job[h].guess = c THEN "consume" ELSE "count"]
    BY <1>5 DEF ReadCode
  <2> QED  BY <1>5, <2>2, <2>3, <2>4 DEF ReadCode, TypeOK, history
<1>6. ASSUME NEW h \in Handlers, CountAttempt(h) PROVE TypeOK'
  <2>1. job[h] # None /\ job[h].code \in 1 .. issued  BY <1>6 DEF CountAttempt, At, JobInv
  <2>2. [code[job[h].code] EXCEPT !.attempts = @ + 1] \in Row  BY <2>1, RowFields DEF Row
  <2>3. code' \in [1 .. issued -> Row]  BY <1>6, <2>1, <2>2 DEF CountAttempt, TypeOK
  <2> QED  BY <1>6, <2>3, DoneJob DEF CountAttempt, TypeOK, history
<1>7. ASSUME NEW h \in Handlers, Consume(h) PROVE TypeOK'
  <2>1. job[h] # None /\ job[h].code \in 1 .. issued  BY <1>7 DEF Consume, At, JobInv
  <2>2. [code[job[h].code] EXCEPT !.consumed = TRUE] \in Row  BY <2>1, RowFields DEF Row
  <2>3. code' \in [1 .. issued -> Row]  BY <1>7, <2>1, <2>2 DEF Consume, TypeOK
  <2>4. [job[h] EXCEPT !.pc = "open"] \in Job  BY <2>1, JobFields DEF Job
  <2>5. CASE Goto(h, "open")
    BY <1>7, <2>3, <2>4, <2>5 DEF Consume, Goto, TypeOK, history
  <2>6. CASE Done(h)
    BY <1>7, <2>3, <2>6, DoneJob DEF Consume, TypeOK, history
  <2> QED  BY <1>7, <2>5, <2>6 DEF Consume
<1>8. ASSUME NEW h \in Handlers, OpenAccount(h) PROVE TypeOK'
  <2>1. job[h] # None /\ job[h].code \in 1 .. issued /\ job[h].strong
    BY <1>8 DEF OpenAccount, At, JobInv
  <2>2. job[h].phone \in Phones /\ job[h].target \in Targets
    BY <2>1, JobFields DEF JobInv
  <2>3. job[h].code \in Codes  BY <2>1 DEF TypeOK, Codes
  <2>4. [email |-> job[h].target, phone |-> job[h].phone] \in Account  BY <2>2 DEF Account
  <2>5. accounts' \subseteq Account /\ openedBy' \subseteq Account \X Codes
    BY <1>8, <2>3, <2>4 DEF OpenAccount, TypeOK
  <2> QED  BY <1>8, <2>5, DoneJob DEF OpenAccount, TypeOK
<1>9. ASSUME NEW c \in 1 .. issued, Age(c) \/ Expire(c) PROVE TypeOK'
  <2>1. /\ [code[c] EXCEPT !.recent = FALSE] \in Row
        /\ [code[c] EXCEPT !.live = FALSE] \in Row
    BY RowFields DEF Row
  <2>2. code' \in [1 .. issued -> Row]  BY <1>9, <2>1 DEF Age, Expire, TypeOK
  <2> QED  BY <1>9, <2>2 DEF Age, Expire, TypeOK, history
<1>10. ASSUME NEW h \in Handlers, CutShort(h) PROVE TypeOK'
  BY <1>10, DoneJob DEF CutShort, TypeOK, history
<1>11. CASE UNCHANGED vars  BY <1>11 DEF vars, TypeOK
<1> QED  BY <1>1, <1>2, <1>3, <1>4, <1>5, <1>6, <1>7, <1>8, <1>9, <1>10, <1>11 DEF Next
-----------------------------------------------------------------------------
\* What any step may do to the rows there are: never their target and purpose,
\* never back from consumed or to recent.
Evolves ==
  /\ issued \in Nat /\ issued' \in Nat /\ issued =< issued'
  /\ \A c \in 1 .. issued :
       /\ code'[c].target = code[c].target /\ code'[c].purpose = code[c].purpose
       /\ code[c].consumed => code'[c].consumed
       /\ code'[c].recent => code[c].recent

LEMMA RowsEvolve == ASSUME TypeOK, JobInv, [Next]_vars PROVE Evolves
<1>1. issued \in Nat /\ 1 .. issued = DOMAIN code  BY DEF TypeOK
<1>2. ASSUME UNCHANGED <<issued, code>> PROVE Evolves  BY <1>1, <1>2 DEF Evolves
<1>3. ASSUME NEW h \in Handlers, CreateCode(h) PROVE Evolves
  BY <1>1, <1>3 DEF CreateCode, Evolves
<1>4. ASSUME NEW h \in Handlers, CountAttempt(h) PROVE Evolves
  <2>1. job[h].code \in 1 .. issued  BY <1>4 DEF CountAttempt, At, JobInv
  <2>2. code' = [code EXCEPT ![job[h].code] = [code[job[h].code] EXCEPT !.attempts = @ + 1]]
    BY <1>4 DEF CountAttempt
  <2>3. \A c \in 1 .. issued : code[c] \in Row  BY DEF TypeOK
  <2> QED  BY <1>1, <1>4, <2>1, <2>2, <2>3 DEF CountAttempt, Evolves, Row
<1>5. ASSUME NEW h \in Handlers, Consume(h) PROVE Evolves
  <2>1. job[h].code \in 1 .. issued  BY <1>5 DEF Consume, At, JobInv
  <2>2. code' = [code EXCEPT ![job[h].code] = [code[job[h].code] EXCEPT !.consumed = TRUE]]
    BY <1>5 DEF Consume
  <2>3. \A c \in 1 .. issued : code[c] \in Row  BY DEF TypeOK
  <2> QED  BY <1>1, <1>5, <2>1, <2>2, <2>3 DEF Consume, Evolves, Row
<1>6. ASSUME NEW c \in 1 .. issued, Age(c) \/ Expire(c) PROVE Evolves
  <2>1. \/ code' = [code EXCEPT ![c] = [code[c] EXCEPT !.recent = FALSE]]
        \/ code' = [code EXCEPT ![c] = [code[c] EXCEPT !.live = FALSE]]
    BY <1>6 DEF Age, Expire
  <2>2. \A d \in 1 .. issued : code[d] \in Row  BY DEF TypeOK
  <2>3. issued' = issued  BY <1>6 DEF Age, Expire
  <2> QED  BY <1>1, <2>1, <2>2, <2>3 DEF Evolves, Row
<1> QED
  BY <1>2, <1>3, <1>4, <1>5, <1>6
  DEF Next, vars, history, RequestOtp, Verify, Signup, ReadCode, OpenAccount, CutShort

-----------------------------------------------------------------------------
\* JobInv, of one handler.
JobOk(h) ==
  job[h] # None =>
    /\ job[h].pc \in {"count", "consume", "open"} =>
         /\ job[h].code \in 1 .. issued
         /\ code[job[h].code].target = job[h].target
         /\ code[job[h].code].purpose = job[h].purpose
    /\ job[h].strong => job[h].phone # None /\ job[h].purpose = "register"
    /\ job[h].pc = "open" => job[h].strong /\ code[job[h].code].consumed

LEMMA KeptJob ==
  ASSUME TypeOK, JobInv, Evolves, NEW h \in Handlers, job'[h] = job[h]
  PROVE  JobOk(h)'
<1>1. JobOk(h)  BY DEF JobInv, JobOk
<1>2. 1 .. issued \subseteq 1 .. issued'  BY DEF Evolves
<1> SUFFICES ASSUME job[h] # None PROVE JobOk(h)'  BY DEF JobOk
<1>3. job[h].pc \in {"count", "consume", "open"} => job[h].code \in 1 .. issued
  BY <1>1 DEF JobOk
<1> QED  BY <1>1, <1>2, <1>3 DEF JobOk, Evolves

LEMMA JobStep == ASSUME TypeOK, JobInv, [Next]_vars PROVE JobInv'
<1>1. Evolves  BY RowsEvolve
<1> SUFFICES ASSUME NEW g \in Handlers PROVE JobOk(g)'
  BY DEF JobInv, JobOk
<1>2. JobOk(g)  BY DEF JobInv, JobOk
<1>3. CASE job'[g] = job[g]  BY <1>1, <1>3, KeptJob
<1>4. CASE job'[g] = None  BY <1>4 DEF JobOk
<1>5. ASSUME NEW h \in Handlers, NEW t \in Targets, NEW p \in Purposes, RequestOtp(h, t, p)
      PROVE  JobOk(g)'
  BY <1>3, <1>5 DEF RequestOtp, Start, JobOk, TypeOK
<1>6. ASSUME NEW h \in Handlers, NEW t \in Targets, NEW p \in Purposes,
             NEW c \in Codes \cup {None}, Verify(h, t, p, c)
      PROVE  JobOk(g)'
  BY <1>3, <1>6 DEF Verify, Start, JobOk, TypeOK
<1>7. ASSUME NEW h \in Handlers, NEW t \in Targets, NEW phone \in Phones,
             NEW c \in Codes \cup {None}, NEW strong \in BOOLEAN, Signup(h, t, phone, c, strong)
      PROVE  JobOk(g)'
  BY <1>3, <1>7 DEF Signup, Start, JobOk, TypeOK
<1>8. ASSUME NEW h \in Handlers, Done(h) PROVE JobOk(g)'
  BY <1>3, <1>4, <1>8 DEF Done, TypeOK
<1>9. ASSUME NEW h \in Handlers, ReadCode(h) PROVE JobOk(g)'
  <2> DEFINE found == Candidates(job[h].target, job[h].purpose)
  <2>1. CASE Done(h)  BY <1>8, <2>1
  <2>2. ASSUME NEW c \in found,
               job' = [job EXCEPT ![h].code = c,
                                  ![h].pc = IF job[h].guess = c THEN "consume" ELSE "count"]
        PROVE  JobOk(g)'
    <3>1. c \in 1 .. issued /\ code[c].target = job[h].target /\ code[c].purpose = job[h].purpose
      BY DEF Candidates
    <3>2. CASE g # h  BY <1>3, <2>2, <3>2 DEF TypeOK
    <3>3. CASE g = h
      <4>1. job[g] \in Job  BY <1>9, <3>3, JobFields DEF ReadCode, At
      <4>2. job'[g] = [job[g] EXCEPT !.code = c,
                                     !.pc = IF job[g].guess = c THEN "consume" ELSE "count"]
        BY <2>2, <3>3 DEF TypeOK
      <4>3. /\ job'[g].code = c /\ job'[g].pc \in {"consume", "count"}
            /\ job'[g].target = job[g].target /\ job'[g].purpose = job[g].purpose
            /\ job'[g].strong = job[g].strong /\ job'[g].phone = job[g].phone
        BY <4>1, <4>2 DEF Job
      <4>4. UNCHANGED <<issued, code>>  BY <1>9 DEF ReadCode
      <4>5. job[g] # None  BY <1>9, <3>3 DEF ReadCode, At
      <4> QED  BY <1>2, <3>1, <3>3, <4>3, <4>4, <4>5 DEF JobOk
    <3> QED  BY <3>2, <3>3
  <2>3. Done(h) \/ \E c \in found :
          job' = [job EXCEPT ![h].code = c,
                             ![h].pc = IF job[h].guess = c THEN "consume" ELSE "count"]
    BY <1>9 DEF ReadCode
  <2> QED  BY <2>1, <2>2, <2>3
<1>10. ASSUME NEW h \in Handlers, Consume(h) PROVE JobOk(g)'
  <2>1. CASE Done(h)  BY <1>8, <2>1
  <2>2. CASE job[h].strong /\ Goto(h, "open")
    <3>1. CASE g # h  BY <1>3, <2>2, <3>1 DEF Goto, TypeOK
    <3>2. CASE g = h
      <4>1. job[g] \in Job /\ job[g] # None /\ job[g].pc = "consume"
        BY <1>10, <3>2, JobFields DEF Consume, At
      <4>2. job'[g] = [job[g] EXCEPT !.pc = "open"]  BY <2>2, <3>2 DEF Goto, TypeOK
      <4>3. /\ job'[g].code = job[g].code /\ job'[g].strong = job[g].strong
            /\ job'[g].target = job[g].target /\ job'[g].purpose = job[g].purpose
            /\ job'[g].phone = job[g].phone
        BY <4>1, <4>2 DEF Job
      <4>4. job[g].code \in 1 .. issued  BY <1>2, <4>1 DEF JobOk
      <4>5. issued' = issued /\ code'[job[g].code].consumed
        <5>1. code[job[g].code] \in Row  BY <4>4, RowFields
        <5>2. code'[job[g].code] = [code[job[g].code] EXCEPT !.consumed = TRUE]
          BY <1>10, <3>2, <4>4 DEF Consume, TypeOK
        <5> QED  BY <1>10, <5>1, <5>2 DEF Consume, Row
      <4>6. /\ code'[job[g].code].target = code[job[g].code].target
            /\ code'[job[g].code].purpose = code[job[g].code].purpose
        BY <1>1, <4>4 DEF Evolves
      <4> QED  BY <1>2, <2>2, <3>2, <4>1, <4>3, <4>4, <4>5, <4>6 DEF JobOk
    <3> QED  BY <3>1, <3>2
  <2> QED  BY <1>10, <2>1, <2>2 DEF Consume
<1>11. CASE UNCHANGED job  BY <1>3, <1>11
<1>12. ASSUME NEW h \in Handlers,
              CreateCode(h) \/ CountAttempt(h) \/ OpenAccount(h) \/ CutShort(h)
       PROVE  JobOk(g)'
  BY <1>8, <1>12 DEF CreateCode, CountAttempt, OpenAccount, CutShort
<1>13. ASSUME NEW c \in 1 .. issued, Age(c) \/ Expire(c) PROVE JobOk(g)'
  BY <1>11, <1>13 DEF Age, Expire
<1>14. CASE UNCHANGED vars  BY <1>11, <1>14 DEF vars
<1> QED  BY <1>5, <1>6, <1>7, <1>9, <1>10, <1>12, <1>13, <1>14 DEF Next

-----------------------------------------------------------------------------
LEMMA OpenedStep == ASSUME TypeOK, JobInv, OpenedInv, [Next]_vars PROVE OpenedInv'
<1>1. Evolves  BY RowsEvolve
<1>2. 1 .. issued \subseteq 1 .. issued'  BY <1>1 DEF Evolves
<1>3. ASSUME NEW x \in openedBy
      PROVE  /\ x[2] \in 1 .. issued'
             /\ code'[x[2]].target = x[1].email
             /\ code'[x[2]].purpose = "register" /\ code'[x[2]].consumed
  BY <1>1, <1>2 DEF OpenedInv, Evolves
<1>4. CASE UNCHANGED <<accounts, openedBy>>
  BY <1>2, <1>3, <1>4 DEF OpenedInv
<1>5. ASSUME NEW h \in Handlers, OpenAccount(h) PROVE OpenedInv'
  <2> DEFINE a == [email |-> job[h].target, phone |-> job[h].phone]
             c == job[h].code
  <2>1. /\ c \in 1 .. issued /\ code[c].target = a.email
        /\ code[c].purpose = "register" /\ code[c].consumed
    BY <1>5 DEF OpenAccount, At, JobInv
  <2>2. CASE ~Free(a.email, a.phone)  BY <1>4, <1>5, <2>2 DEF OpenAccount
  <2>3. CASE Free(a.email, a.phone)
    <3>1. accounts' = accounts \cup {a} /\ openedBy' = openedBy \cup {<<a, c>>}
      BY <1>5, <2>3 DEF OpenAccount
    <3>2. \A b \in accounts : b.email # a.email  BY <2>3 DEF Free, Taken
    <3>3. issued' = issued /\ code' = code  BY <1>5 DEF OpenAccount
    <3> HIDE DEF a, c
    <3>4. \A x \in openedBy' :
            /\ x[1] \in accounts' /\ x[2] \in 1 .. issued'
            /\ code'[x[2]].target = x[1].email
            /\ code'[x[2]].purpose = "register" /\ code'[x[2]].consumed
      BY <2>1, <3>1, <3>3 DEF OpenedInv
    <3>5. \A b \in accounts' : \E d \in 1 .. issued' : <<b, d>> \in openedBy'
      BY <2>1, <3>1, <3>3 DEF OpenedInv
    <3>6. \A b, d \in accounts' : b.email = d.email => b = d
      BY <3>1, <3>2 DEF OpenedInv
    <3> QED  BY <3>4, <3>5, <3>6 DEF OpenedInv
  <2> QED  BY <2>2, <2>3
<1>6. ASSUME NEW h \in Handlers,
             CreateCode(h) \/ ReadCode(h) \/ CountAttempt(h) \/ Consume(h) \/ CutShort(h)
      PROVE  OpenedInv'
  BY <1>4, <1>6 DEF CreateCode, ReadCode, CountAttempt, Consume, CutShort, history
<1>7. ASSUME NEW h \in Handlers, NEW t \in Targets,
             \/ \E p \in Purposes : RequestOtp(h, t, p)
             \/ \E p \in Purposes, g \in Codes \cup {None} : Verify(h, t, p, g)
             \/ \E phone \in Phones, g \in Codes \cup {None}, strong \in BOOLEAN :
                  Signup(h, t, phone, g, strong)
      PROVE  OpenedInv'
  BY <1>4, <1>7 DEF RequestOtp, Verify, Signup, history
<1>8. ASSUME NEW c \in 1 .. issued, Age(c) \/ Expire(c) PROVE OpenedInv'
  BY <1>4, <1>8 DEF Age, Expire, history
<1>9. CASE UNCHANGED vars  BY <1>4, <1>9 DEF vars
<1> QED  BY <1>5, <1>6, <1>7, <1>8, <1>9 DEF Next

-----------------------------------------------------------------------------
LEMMA RequestedKept ==
  ASSUME NEW g \in Handlers, NEW t, NEW p, job'[g] = job[g] \/ job'[g] = None,
         Requested(g, t, p)'
  PROVE  Requested(g, t, p)
BY DEF Requested, At

\* Steps that begin no request for a code and create none.
LEMMA RecentQuiet ==
  ASSUME RecentInv, Evolves, UNCHANGED <<issued, raced>>,
         \A g \in Handlers, t \in Targets, p \in Purposes :
           Requested(g, t, p)' => Requested(g, t, p)
  PROVE  RecentInv'
<1>1. \A c \in 1 .. issued :
        /\ code'[c].target = code[c].target /\ code'[c].purpose = code[c].purpose
        /\ code[c].consumed => code'[c].consumed
        /\ code'[c].recent => code[c].recent
  BY DEF Evolves
<1>2. OneRecent'  BY <1>1 DEF RecentInv, OneRecent
<1>3. ASSUME NEW t \in Targets, NEW p \in Purposes, <<t, p>> \notin raced'
      PROVE  /\ \A g, h \in Handlers : Requested(g, t, p)' /\ Requested(h, t, p)' => g = h
             /\ \A h \in Handlers : Requested(h, t, p)' => HoldsOff(t, p)' = {}
  <2>1. HoldsOff(t, p)' \subseteq HoldsOff(t, p)  BY <1>1 DEF HoldsOff
  <2> QED  BY <1>3, <2>1 DEF RecentInv
<1> QED  BY <1>2, <1>3 DEF RecentInv

LEMMA RecentRequest ==
  ASSUME TypeOK, RecentInv, NEW h \in Handlers, NEW t \in Targets, NEW p \in Purposes,
         RequestOtp(h, t, p)
  PROVE  RecentInv'
<1>1. /\ job' = [job EXCEPT ![h] = [pc |-> "create", target |-> t, purpose |-> p,
                                    guess |-> None, phone |-> None, strong |-> FALSE,
                                    code |-> None]]
      /\ job[h] = None /\ HoldsOff(t, p) = {} /\ UNCHANGED <<issued, code>>
  BY DEF RequestOtp, Start
<1>2. raced \subseteq raced'  BY DEF RequestOtp
<1>3. \A g \in Handlers, u \in Targets, q \in Purposes :
        Requested(g, u, q)' => Requested(g, u, q) \/ (g = h /\ u = t /\ q = p)
  BY <1>1 DEF Requested, At, TypeOK
<1>4. <<t, p>> \notin raced' => \A g \in Handlers : ~Requested(g, t, p)
  BY DEF RequestOtp
<1>5. OneRecent'  BY <1>1, <1>2 DEF RecentInv, OneRecent
<1>6. ASSUME NEW u \in Targets, NEW q \in Purposes, <<u, q>> \notin raced'
      PROVE  /\ \A f, g \in Handlers : Requested(f, u, q)' /\ Requested(g, u, q)' => f = g
             /\ \A g \in Handlers : Requested(g, u, q)' => HoldsOff(u, q)' = {}
  <2>1. HoldsOff(u, q)' = HoldsOff(u, q)  BY <1>1 DEF HoldsOff
  <2>2. <<u, q>> \notin raced  BY <1>2, <1>6
  <2>3. CASE u = t /\ q = p  BY <1>1, <1>3, <1>4, <1>6, <2>1, <2>3
  <2>4. CASE ~(u = t /\ q = p)  BY <1>3, <2>1, <2>2, <2>4 DEF RecentInv
  <2> QED  BY <2>3, <2>4
<1> QED  BY <1>5, <1>6 DEF RecentInv

LEMMA RecentCreate ==
  ASSUME TypeOK, RecentInv, NEW h \in Handlers, CreateCode(h)
  PROVE  RecentInv'
<1> DEFINE t == job[h].target
           p == job[h].purpose
           new == [target |-> t, purpose |-> p, attempts |-> 0,
                   consumed |-> FALSE, recent |-> TRUE, live |-> TRUE]
<1>1. /\ issued \in Nat /\ issued' = issued + 1 /\ raced' = raced
      /\ code' = [c \in 1 .. issued' |-> IF c = issued' THEN new ELSE code[c]]
  BY DEF CreateCode, TypeOK, history
<1>2. t \in Targets /\ p \in Purposes /\ Requested(h, t, p)
  BY JobFields DEF CreateCode, At, Requested
<1>3. \A g \in Handlers, u \in Targets, q \in Purposes :
        Requested(g, u, q)' => Requested(g, u, q) /\ g # h
  BY DEF CreateCode, Done, Requested, At, TypeOK
<1>4. /\ code'[issued'] = new
      /\ \A c \in 1 .. issued' : c = issued' \/ (c \in 1 .. issued /\ code'[c] = code[c])
  BY <1>1
<1>5. new.target = t /\ new.purpose = p  OBVIOUS
<1> HIDE DEF t, p, new
<1>6. OneRecent'
  <2> SUFFICES ASSUME NEW c \in 1 .. issued', NEW d \in 1 .. issued',
                      code'[c].recent, code'[d].recent, ~code'[c].consumed, ~code'[d].consumed,
                      code'[c].target = code'[d].target, code'[c].purpose = code'[d].purpose,
                      <<code'[c].target, code'[c].purpose>> \notin raced
               PROVE  c = d
    BY <1>1 DEF OneRecent
  <2>1. CASE c # issued' /\ d # issued'  BY <1>4, <2>1 DEF RecentInv, OneRecent
  <2>2. ASSUME <<t, p>> \notin raced PROVE HoldsOff(t, p) = {}
    BY <1>2, <2>2 DEF RecentInv
  <2>3. CASE c = issued' /\ d # issued'
    BY <1>4, <1>5, <2>2, <2>3 DEF HoldsOff
  <2>4. CASE d = issued' /\ c # issued'
    BY <1>4, <1>5, <2>2, <2>4 DEF HoldsOff
  <2> QED  BY <2>1, <2>3, <2>4
<1>7. ASSUME NEW u \in Targets, NEW q \in Purposes, <<u, q>> \notin raced'
      PROVE  /\ \A f, g \in Handlers : Requested(f, u, q)' /\ Requested(g, u, q)' => f = g
             /\ \A g \in Handlers : Requested(g, u, q)' => HoldsOff(u, q)' = {}
  <2>1. \A f, g \in Handlers : Requested(f, u, q) /\ Requested(g, u, q) => f = g
    BY <1>1, <1>7 DEF RecentInv
  <2>2. CASE u = t /\ q = p  BY <1>2, <1>3, <2>1, <2>2
  <2>3. CASE ~(u = t /\ q = p)
    <3>1. HoldsOff(u, q)' \subseteq HoldsOff(u, q)
      BY <1>4, <1>5, <2>3 DEF HoldsOff
    <3> QED  BY <1>1, <1>3, <1>7, <2>1, <3>1 DEF RecentInv
  <2> QED  BY <2>2, <2>3
<1> QED  BY <1>6, <1>7 DEF RecentInv

LEMMA RecentStep == ASSUME TypeOK, JobInv, RecentInv, [Next]_vars PROVE RecentInv'
<1>1. Evolves  BY RowsEvolve
<1>2. ASSUME NEW h \in Handlers, Done(h) PROVE \A g \in Handlers : job'[g] = job[g] \/ job'[g] = None
  BY <1>2 DEF Done, TypeOK
<1>3. ASSUME UNCHANGED <<issued, raced>>,
             \A g \in Handlers : job'[g] = job[g] \/ job'[g] = None \/ job'[g].pc # "create"
      PROVE  RecentInv'
  <2>1. \A g \in Handlers, t \in Targets, p \in Purposes : Requested(g, t, p)' => Requested(g, t, p)
    BY <1>3 DEF Requested, At
  <2> QED  BY <1>1, <1>3, <2>1, RecentQuiet
<1>4. ASSUME NEW h \in Handlers, NEW t \in Targets, NEW p \in Purposes, RequestOtp(h, t, p)
      PROVE  RecentInv'
  BY <1>4, RecentRequest
<1>5. ASSUME NEW h \in Handlers, CreateCode(h) PROVE RecentInv'
  BY <1>5, RecentCreate
<1>6. ASSUME NEW h \in Handlers, NEW j \in Job, j.pc = "verify", Start(h, j),
             UNCHANGED <<issued, raced>>
      PROVE  RecentInv'
  <2>1. \A g \in Handlers : job'[g] = job[g] \/ job'[g].pc # "create"
    BY <1>6 DEF Start, TypeOK
  <2> QED  BY <1>3, <1>6, <2>1
<1>12. ASSUME NEW h \in Handlers, NEW t \in Targets, NEW p \in Purposes,
              NEW g \in Codes \cup {None}, Verify(h, t, p, g)
       PROVE  RecentInv'
  <2> DEFINE j == [pc |-> "verify", target |-> t, purpose |-> p, guess |-> g,
                   phone |-> None, strong |-> FALSE, code |-> None]
  <2>1. j \in Job /\ j.pc = "verify"  BY DEF Job
  <2>2. Start(h, j) /\ UNCHANGED <<issued, raced>>  BY <1>12 DEF Verify, history
  <2> QED  BY <1>6, <2>1, <2>2
<1>13. ASSUME NEW h \in Handlers, NEW t \in Targets, NEW phone \in Phones,
              NEW g \in Codes \cup {None}, NEW strong \in BOOLEAN,
              Signup(h, t, phone, g, strong)
       PROVE  RecentInv'
  <2> DEFINE j == [pc |-> "verify", target |-> t, purpose |-> "register", guess |-> g,
                   phone |-> phone, strong |-> strong, code |-> None]
  <2>1. j \in Job /\ j.pc = "verify"  BY DEF Job
  <2>2. Start(h, j) /\ UNCHANGED <<issued, raced>>  BY <1>13 DEF Signup, history
  <2> QED  BY <1>6, <2>1, <2>2
<1>7. ASSUME NEW h \in Handlers, CountAttempt(h) \/ OpenAccount(h) \/ CutShort(h) PROVE RecentInv'
  <2>1. UNCHANGED <<issued, raced>> /\ Done(h)
    BY <1>7 DEF CountAttempt, OpenAccount, CutShort, history
  <2> QED  BY <1>2, <1>3, <2>1
<1>8. ASSUME NEW h \in Handlers, ReadCode(h) PROVE RecentInv'
  <2>1. UNCHANGED <<issued, raced>>  BY <1>8 DEF ReadCode, history
  <2>2. CASE Done(h)  BY <1>2, <1>3, <2>1, <2>2
  <2>3. ASSUME NEW c, job' = [job EXCEPT ![h].code = c,
                                         ![h].pc = IF job[h].guess = c THEN "consume" ELSE "count"]
        PROVE  RecentInv'
    <3>1. job[h] \in Job  BY <1>8, JobFields DEF ReadCode, At
    <3>2. job'[h].pc # "create"
      <4>1. job'[h] = [job[h] EXCEPT !.code = c,
                                     !.pc = IF job[h].guess = c THEN "consume" ELSE "count"]
        BY <2>3 DEF TypeOK
      <4> QED  BY <3>1, <4>1 DEF Job
    <3>3. \A g \in Handlers : g # h => job'[g] = job[g]  BY <2>3 DEF TypeOK
    <3> QED  BY <1>3, <2>1, <3>2, <3>3
  <2> QED  BY <1>8, <2>2, <2>3 DEF ReadCode
<1>9. ASSUME NEW h \in Handlers, Consume(h) PROVE RecentInv'
  <2>1. UNCHANGED <<issued, raced>>  BY <1>9 DEF Consume, history
  <2>2. CASE Done(h)  BY <1>2, <1>3, <2>1, <2>2
  <2>3. CASE Goto(h, "open")
    <3>1. job[h] \in Job  BY <1>9, JobFields DEF Consume, At
    <3>2. job'[h].pc # "create"  BY <2>3, <3>1 DEF Goto, TypeOK, Job
    <3>3. \A g \in Handlers : g # h => job'[g] = job[g]  BY <2>3 DEF Goto, TypeOK
    <3> QED  BY <1>3, <2>1, <3>2, <3>3
  <2> QED  BY <1>9, <2>2, <2>3 DEF Consume
<1>10. ASSUME NEW c \in 1 .. issued, Age(c) \/ Expire(c) PROVE RecentInv'
  BY <1>3, <1>10 DEF Age, Expire, history
<1>11. CASE UNCHANGED vars  BY <1>3, <1>11 DEF vars
<1> QED  BY <1>4, <1>5, <1>7, <1>8, <1>9, <1>10, <1>11, <1>12, <1>13 DEF Next
-----------------------------------------------------------------------------
LEMMA HandlersCount ==
  /\ Cardinality(Handlers) \in Nat
  /\ \A S \in SUBSET Handlers :
       IsFiniteSet(S) /\ Cardinality(S) \in Nat /\ Cardinality(S) =< Cardinality(Handlers)
BY FS_Subset, FS_CardinalityType

\* AttemptsInv, of one code.
Bounded(c) ==
  code[c].attempts + Cardinality(Counting(c)) < MaxAttempts + Cardinality(Handlers)

LEMMA FewerCounting ==
  ASSUME TypeOK, AttemptsInv, NEW c \in 1 .. issued,
         code'[c].attempts = code[c].attempts, Counting(c)' \subseteq Counting(c)
  PROVE  Bounded(c)'
<1>1. code[c].attempts \in Nat  BY RowFields
<1>2. Counting(c) \in SUBSET Handlers  BY DEF Counting
<1>3. /\ IsFiniteSet(Counting(c)) /\ Cardinality(Counting(c)) \in Nat
      /\ Cardinality(Handlers) \in Nat
  BY <1>2, HandlersCount
<1>4. Counting(c)' \in SUBSET Handlers /\ Counting(c)' \in SUBSET Counting(c)
  BY <1>2
<1>5. Cardinality(Counting(c)') \in Nat /\ Cardinality(Counting(c)') =< Cardinality(Counting(c))
  BY <1>3, <1>4, HandlersCount, FS_Subset
<1>6. Bounded(c)  BY DEF AttemptsInv, Bounded
<1>7. Cardinality(Counting(c))' = Cardinality(Counting(c)')  OBVIOUS
<1> QED  BY <1>1, <1>3, <1>5, <1>6, <1>7 DEF Bounded

\* However many handlers are counting, the bound holds of a code that may be guessed.
LEMMA GuessableBounded ==
  ASSUME NEW c, code'[c].attempts \in Nat, code'[c].attempts < MaxAttempts
  PROVE  Bounded(c)'
<1>1. Counting(c)' \in SUBSET Handlers  BY DEF Counting
<1>2. /\ Cardinality(Counting(c)') \in Nat /\ Cardinality(Handlers) \in Nat
      /\ Cardinality(Counting(c)') =< Cardinality(Handlers)
  BY <1>1, HandlersCount
<1> QED  BY <1>2 DEF Bounded

LEMMA AttemptsStep == ASSUME TypeOK, JobInv, AttemptsInv, [Next]_vars PROVE AttemptsInv'
<1> SUFFICES ASSUME NEW c \in 1 .. issued' PROVE Bounded(c)'
  BY DEF AttemptsInv, Bounded
<1>1. ASSUME issued' = issued, code'[c].attempts = code[c].attempts,
             \A g \in Handlers : \/ job'[g] = job[g] \/ job'[g] = None
                                 \/ job'[g].pc # "count" \/ job'[g].code # c
      PROVE  Bounded(c)'
  <2>1. Counting(c)' \subseteq Counting(c)  BY <1>1 DEF Counting, At
  <2> QED  BY <1>1, <2>1, FewerCounting
<1>2. ASSUME UNCHANGED <<issued, code>>, NEW h \in Handlers, NEW j, j = None \/ j.pc # "count",
             job' = [job EXCEPT ![h] = j]
      PROVE  Bounded(c)'
  <2>1. \A g \in Handlers : job'[g] = job[g] \/ job'[g] = None \/ job'[g].pc # "count"
    BY <1>2 DEF TypeOK
  <2> QED  BY <1>1, <1>2, <2>1
<1>3. ASSUME NEW h \in Handlers, NEW t \in Targets, NEW p \in Purposes, RequestOtp(h, t, p)
      PROVE  Bounded(c)'
  <2> DEFINE j == [pc |-> "create", target |-> t, purpose |-> p, guess |-> None,
                   phone |-> None, strong |-> FALSE, code |-> None]
  <2>1. j.pc # "count"  OBVIOUS
  <2>2. job' = [job EXCEPT ![h] = j] /\ UNCHANGED <<issued, code>>
    BY <1>3 DEF RequestOtp, Start
  <2> QED  BY <1>2, <2>1, <2>2
<1>4. ASSUME NEW h \in Handlers, NEW t \in Targets, NEW p \in Purposes,
             NEW g \in Codes \cup {None}, Verify(h, t, p, g)
      PROVE  Bounded(c)'
  <2> DEFINE j == [pc |-> "verify", target |-> t, purpose |-> p, guess |-> g,
                   phone |-> None, strong |-> FALSE, code |-> None]
  <2>1. j.pc # "count"  OBVIOUS
  <2>2. job' = [job EXCEPT ![h] = j] /\ UNCHANGED <<issued, code>>
    BY <1>4 DEF Verify, Start
  <2> QED  BY <1>2, <2>1, <2>2
<1>5. ASSUME NEW h \in Handlers, NEW t \in Targets, NEW phone \in Phones,
             NEW g \in Codes \cup {None}, NEW strong \in BOOLEAN, Signup(h, t, phone, g, strong)
      PROVE  Bounded(c)'
  <2> DEFINE j == [pc |-> "verify", target |-> t, purpose |-> "register", guess |-> g,
                   phone |-> phone, strong |-> strong, code |-> None]
  <2>1. j.pc # "count"  OBVIOUS
  <2>2. job' = [job EXCEPT ![h] = j] /\ UNCHANGED <<issued, code>>
    BY <1>5 DEF Signup, Start
  <2> QED  BY <1>2, <2>1, <2>2
<1>6. ASSUME NEW h \in Handlers, CreateCode(h) PROVE Bounded(c)'
  <2>1. issued \in Nat /\ issued' = issued + 1  BY <1>6 DEF CreateCode, TypeOK
  <2>2. CASE c = issued'
    <3>1. code'[c].attempts = 0  BY <1>6, <2>2 DEF CreateCode
    <3> QED  BY <3>1, GuessableBounded
  <2>3. CASE c # issued'
    <3>1. c \in 1 .. issued  BY <2>1, <2>3
    <3>2. code'[c].attempts = code[c].attempts  BY <1>6, <2>3 DEF CreateCode
    <3>3. Counting(c)' \subseteq Counting(c)  BY <1>6 DEF CreateCode, Done, Counting, At, TypeOK
    <3> QED  BY <3>1, <3>2, <3>3, FewerCounting
  <2> QED  BY <2>2, <2>3
<1>7. ASSUME NEW h \in Handlers, ReadCode(h) PROVE Bounded(c)'
  <2>1. UNCHANGED <<issued, code>>  BY <1>7 DEF ReadCode
  <2>2. CASE Done(h)  BY <1>2, <2>1, <2>2 DEF Done
  <2>3. CASE Guessable(c)
    <3>1. code[c].attempts \in Nat  BY <2>1, RowFields
    <3> QED  BY <2>1, <2>3, <3>1, GuessableBounded DEF Guessable
  <2>4. ASSUME NEW d, d # c, job' = [job EXCEPT ![h].code = d,
                       ![h].pc = IF job[h].guess = d THEN "consume" ELSE "count"]
        PROVE  Bounded(c)'
    <3>1. job[h] \in Job  BY <1>7, JobFields DEF ReadCode, At
    <3>2. job'[h] = [job[h] EXCEPT !.code = d,
                                   !.pc = IF job[h].guess = d THEN "consume" ELSE "count"]
      BY <2>4 DEF TypeOK
    <3>3. job'[h].code = d  BY <3>1, <3>2 DEF Job
    <3>4. \A g \in Handlers : g # h => job'[g] = job[g]  BY <2>4 DEF TypeOK
    <3> QED  BY <1>1, <2>1, <2>4, <3>3, <3>4
  <2> DEFINE found == Candidates(job[h].target, job[h].purpose)
  <2>5. CASE \E d \in found : (\A e \in found : e =< d) /\ Guessable(d)
    <3>1. PICK d \in found :
            /\ \A e \in found : e =< d
            /\ job' = [job EXCEPT ![h].code = d,
                                  ![h].pc = IF job[h].guess = d THEN "consume" ELSE "count"]
      BY <1>7, <2>5 DEF ReadCode
    <3>2. PICK e \in found : (\A f \in found : f =< e) /\ Guessable(e)  BY <2>5
    <3>3. d \in Int /\ e \in Int  BY DEF Candidates
    <3>4. d = e  BY <3>1, <3>2, <3>3
    <3> QED  BY <2>3, <2>4, <3>1, <3>2, <3>4
  <2> QED  BY <1>7, <2>2, <2>5 DEF ReadCode
<1>8. ASSUME NEW h \in Handlers, CountAttempt(h) PROVE Bounded(c)'
  <2> DEFINE d == job[h].code
  <2>1. d \in 1 .. issued /\ issued' = issued /\ Done(h)
    BY <1>8 DEF CountAttempt, At, JobInv
  <2>2. code' = [code EXCEPT ![d] = [code[d] EXCEPT !.attempts = @ + 1]]
    BY <1>8 DEF CountAttempt
  <2>3. \A g \in Handlers : job'[g] = job[g] \/ job'[g] = None  BY <2>1 DEF Done, TypeOK
  <2>4. CASE c # d
    <3>1. code'[c].attempts = code[c].attempts  BY <2>1, <2>2, <2>4 DEF TypeOK
    <3> QED  BY <1>1, <2>1, <2>3, <3>1
  <2>5. CASE c = d
    <3>1. code[c] \in Row /\ code[c].attempts \in Nat  BY <2>1, <2>5, RowFields
    <3>2. code'[c].attempts = code[c].attempts + 1
      BY <2>1, <2>2, <2>5, <3>1 DEF TypeOK, Row
    <3>3. h \in Counting(c)  BY <1>8, <2>5 DEF CountAttempt, Counting
    <3>4. Counting(c)' = Counting(c) \ {h}
      BY <2>1 DEF Done, Counting, At, TypeOK
    <3>5. Counting(c) \in SUBSET Handlers  BY DEF Counting
    <3>6. IsFiniteSet(Counting(c)) /\ Cardinality(Counting(c)) \in Nat  BY <3>5, HandlersCount
    <3>7. Cardinality(Counting(c) \ {h}) = Cardinality(Counting(c)) - 1
      BY <3>3, <3>6, FS_RemoveElement
    <3>8. Bounded(c)  BY <2>1, <2>5 DEF AttemptsInv, Bounded
    <3>9. Cardinality(Counting(c))' = Cardinality(Counting(c)) - 1  BY <3>4, <3>7
    <3> QED  BY <3>1, <3>2, <3>6, <3>8, <3>9, HandlersCount DEF Bounded
  <2> QED  BY <2>4, <2>5
<1>9. ASSUME NEW h \in Handlers, Consume(h) PROVE Bounded(c)'
  <2>1. /\ job[h].code \in 1 .. issued /\ issued' = issued
        /\ code' = [code EXCEPT ![job[h].code] = [code[job[h].code] EXCEPT !.consumed = TRUE]]
    BY <1>9 DEF Consume, At, JobInv
  <2>2. code[c] \in Row  BY <2>1, RowFields
  <2>3. code'[c].attempts = code[c].attempts  BY <2>1, <2>2 DEF TypeOK, Row
  <2>4. CASE Done(h)
    <3>1. \A g \in Handlers : job'[g] = job[g] \/ job'[g] = None  BY <2>4 DEF Done, TypeOK
    <3> QED  BY <1>1, <2>1, <2>3, <3>1
  <2>5. CASE Goto(h, "open")
    <3>1. job[h] \in Job  BY <1>9, JobFields DEF Consume, At
    <3>2. job'[h] = [job[h] EXCEPT !.pc = "open"]  BY <2>5 DEF Goto, TypeOK
    <3>3. job'[h].pc # "count"  BY <3>1, <3>2 DEF Job
    <3>4. \A g \in Handlers : g # h => job'[g] = job[g]  BY <2>5 DEF Goto, TypeOK
    <3> QED  BY <1>1, <2>1, <2>3, <3>3, <3>4
  <2> QED  BY <1>9, <2>4, <2>5 DEF Consume
<1>10. ASSUME NEW h \in Handlers, OpenAccount(h) \/ CutShort(h) PROVE Bounded(c)'
  <2>1. UNCHANGED <<issued, code>> /\ job' = [job EXCEPT ![h] = None]
    BY <1>10 DEF OpenAccount, CutShort, Done
  <2> QED  BY <1>2, <2>1
<1>11. ASSUME NEW d \in 1 .. issued, Age(d) \/ Expire(d) PROVE Bounded(c)'
  <2>1. UNCHANGED <<issued, job>>  BY <1>11 DEF Age, Expire
  <2>2. code[d] \in Row  BY RowFields
  <2>3. \/ code' = [code EXCEPT ![d] = [code[d] EXCEPT !.recent = FALSE]]
        \/ code' = [code EXCEPT ![d] = [code[d] EXCEPT !.live = FALSE]]
    BY <1>11 DEF Age, Expire
  <2>4. \/ code'[d] = [code[d] EXCEPT !.recent = FALSE]
        \/ code'[d] = [code[d] EXCEPT !.live = FALSE]
    BY <2>3 DEF TypeOK
  <2>5. code'[d].attempts = code[d].attempts  BY <2>2, <2>4 DEF Row
  <2>6. c # d => code'[c] = code[c]  BY <2>1, <2>3 DEF TypeOK
  <2> QED  BY <1>1, <2>1, <2>5, <2>6
<1>12. CASE UNCHANGED vars  BY <1>1, <1>12 DEF vars
<1> QED
  BY <1>3, <1>4, <1>5, <1>6, <1>7, <1>8, <1>9, <1>10, <1>11, <1>12 DEF Next

-----------------------------------------------------------------------------
LEMMA OtpInvariant == Spec => []OtpInv
<1>1. OtpInv /\ [Next]_vars => OtpInv'
  BY TypeStep, JobStep, OpenedStep, RecentStep, AttemptsStep DEF OtpInv
<1> QED  BY <1>1, InitInv, PTL DEF Spec

\* The code table, the accounts and every handler keep their types.
THEOREM TypeCorrect == Spec => []TypeOK
<1>1. OtpInv => TypeOK  BY DEF OtpInv
<1> QED  BY <1>1, OtpInvariant, PTL

\* signup() opens an account only with a consumed "register" code of the
\* account's own e-mail (auth.service.ts:144-163), whatever overlaps or fails.
THEOREM AccountsProven == Spec => []AccountProven
<1>1. OtpInv => AccountProven
  <2> SUFFICES ASSUME OtpInv, NEW a \in accounts
               PROVE  \E c \in 1 .. issued :
                        /\ <<a, c>> \in openedBy
                        /\ code[c].target = a.email /\ code[c].purpose = "register"
                        /\ code[c].consumed
    BY DEF AccountProven
  <2>1. PICK c \in 1 .. issued : <<a, c>> \in openedBy  BY DEF OtpInv, OpenedInv
  <2> QED  BY <2>1 DEF OtpInv, OpenedInv
<1> QED  BY <1>1, OtpInvariant, PTL

\* One code opens one account, though verifyOtp() can accept it twice
\* (auth.service.ts:97-122): the account is the one of the code's target.
THEOREM CodesOpenOne == Spec => []CodeOpensOne
<1>1. OtpInv => CodeOpensOne
  <2> SUFFICES ASSUME OtpInv, NEW x \in openedBy, NEW y \in openedBy, x[2] = y[2]
               PROVE  x = y
    BY DEF CodeOpensOne
  <2>1. x[1] \in accounts /\ y[1] \in accounts /\ x[1].email = y[1].email
    BY DEF OtpInv, OpenedInv
  <2>2. x[1] = y[1]  BY <2>1 DEF OtpInv, OpenedInv
  <2>3. x = <<x[1], x[2]>> /\ y = <<y[1], y[2]>>  BY DEF OtpInv, TypeOK
  <2> QED  BY <2>2, <2>3
<1> QED  BY <1>1, OtpInvariant, PTL

\* The wrong guesses of a code stay below OTP_MAX_ATTEMPTS and one for each
\* request that may be running (auth.service.ts:106-115).
THEOREM AttemptsAreBounded == Spec => []AttemptsBounded
<1>1. OtpInv => AttemptsBounded
  <2> SUFFICES ASSUME OtpInv, NEW c \in 1 .. issued
               PROVE  code[c].attempts < MaxAttempts + Cardinality(Handlers)
    BY DEF AttemptsBounded
  <2>1. Counting(c) \in SUBSET Handlers  BY DEF Counting
  <2>2. Cardinality(Counting(c)) \in Nat /\ Cardinality(Handlers) \in Nat
    BY <2>1, HandlersCount
  <2>3. code[c].attempts \in Nat  BY RowFields DEF OtpInv
  <2> QED  BY <2>2, <2>3 DEF OtpInv, AttemptsInv
<1> QED  BY <1>1, OtpInvariant, PTL

\* A target has one recent unconsumed code for a purpose, unless two requests
\* for it overlapped (auth.service.ts:49-66).
THEOREM OneRecentCode == Spec => []OneRecent
<1>1. OtpInv => OneRecent  BY DEF OtpInv, RecentInv
<1> QED  BY <1>1, OtpInvariant, PTL
=============================================================================
