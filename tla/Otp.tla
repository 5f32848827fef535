---------------------------------- MODULE Otp ----------------------------------
(***************************************************************************)
(* One-time codes and the accounts they open: AuthService.requestOtp,       *)
(* verifyOtp and signup. A code is issued for a target and a purpose, at    *)
(* most one every 30 seconds, is worth MaxAttempts guesses, and is consumed *)
(* by the right one; signup consumes a "register" code of its e-mail and    *)
(* creates the account. Each `await this.prisma...` is one atomic statement *)
(* and requests interleave between statements.                             *)
(***************************************************************************)
EXTENDS Integers, FiniteSets

CONSTANTS Targets,      \* e-mail addresses a code may be sent to
          Phones,       \* phone numbers given at signup
          Purposes,     \* the purposes in use, "register" among them
          Handlers,     \* requests the server may be running at once
          MaxAttempts,  \* OTP_MAX_ATTEMPTS
          MaxCodes,     \* codes that can be issued; bounds a run
          MayFail,      \* whether a handler may be cut short between statements
          None

ASSUME PurposesAssumption == "register" \in Purposes
ASSUME BoundsAssumption   == MaxAttempts \in Nat \ {0} /\ MaxCodes \in Nat
ASSUME HandlersAssumption == IsFiniteSet(Handlers)
ASSUME MayFailAssumption  == MayFail \in BOOLEAN

VARIABLES
  issued,    \* how many codes there are: 1..issued, in order of creation
  code,      \* the auth_codes row of each
  accounts,  \* the users table: e-mail and phone
  job,       \* what each handler is doing and has read, or None
  \* History, read by no action of the code:
  openedBy,  \* <<e-mail, code>>: the code with which each account was opened
  raced      \* <<target, purpose>>: two requests for a code overlapped

vars    == <<issued, code, accounts, job, openedBy, raced>>
history == <<openedBy, raced>>

Codes == 1 .. MaxCodes

\* Time passes over a row twice: `recent` ends 30 s after its creation, `live`
\* when expiresAt is reached.
Row == [target : Targets, purpose : Purposes, attempts : Nat, consumed : BOOLEAN,
        recent : BOOLEAN, live : BOOLEAN]

Account == [email : Targets, phone : Phones]

\* `guess` is the code whose digits the request carries, None for any others;
\* `phone` and `strong` are signup's, None and FALSE in a plain verification.
Job == [pc : {"create", "verify", "count", "consume", "open"},
        target : Targets, purpose : Purposes, guess : Codes \cup {None},
        phone : Phones \cup {None}, strong : BOOLEAN, code : Codes \cup {None}]

ASSUME NoneAssumption == None \notin Job \cup Phones \cup Codes

Init ==
  /\ issued = 0 /\ code = <<>>
  /\ accounts = {}
  /\ job = [h \in Handlers |-> None]
  /\ openedBy = {} /\ raced = {}

At(h, pc) == job[h] # None /\ job[h].pc = pc

Start(h, j) == job[h] = None /\ job' = [job EXCEPT ![h] = j]

Goto(h, pc) == job' = [job EXCEPT ![h].pc = pc]

Done(h) == job' = [job EXCEPT ![h] = None]

Taken(email, phone) == \E a \in accounts : a.email = email \/ a.phone = phone

-----------------------------------------------------------------------------
Requested(h, t, p) == At(h, "create") /\ job[h].target = t /\ job[h].purpose = p

\* Codes that hold off another request for the same target and purpose.
HoldsOffNone(t, p) == {}                                          \* mutant
HoldsOff(t, p) ==
  {c \in 1 .. issued : /\ code[c].target = t /\ code[c].purpose = p
                       /\ ~code[c].consumed /\ code[c].recent}

RequestOtp(h, t, p) ==
  /\ p = "reset_pin" => \E a \in accounts : a.email = t
  /\ HoldsOff(t, p) = {}
  /\ Start(h, [pc |-> "create", target |-> t, purpose |-> p, guess |-> None,
               phone |-> None, strong |-> FALSE, code |-> None])
  /\ raced' = IF \E g \in Handlers : Requested(g, t, p) THEN raced \cup {<<t, p>>} ELSE raced
  /\ UNCHANGED <<issued, code, accounts, openedBy>>

CreateCode(h) ==
  /\ At(h, "create")
  /\ issued < MaxCodes
  /\ issued' = issued + 1
  /\ code' = [c \in 1 .. issued' |->
       IF c = issued'
         THEN [target |-> job[h].target, purpose |-> job[h].purpose, attempts |-> 0,
               consumed |-> FALSE, recent |-> TRUE, live |-> TRUE]
         ELSE code[c]]
  /\ Done(h)
  /\ UNCHANGED <<accounts, history>>

\* The verification endpoint.
Verify(h, t, p, g) ==
  /\ Start(h, [pc |-> "verify", target |-> t, purpose |-> p, guess |-> g,
               phone |-> None, strong |-> FALSE, code |-> None])
  /\ UNCHANGED <<issued, code, accounts, history>>

\* signup() up to its call of verifyOtp().
Signup(h, t, phone, g, strong) ==
  /\ ~Taken(t, phone)
  /\ Start(h, [pc |-> "verify", target |-> t, purpose |-> "register", guess |-> g,
               phone |-> phone, strong |-> strong, code |-> None])
  /\ UNCHANGED <<issued, code, accounts, history>>

\* The codes verifyOtp() may read: the newest counts.
CandidatesOfAnyTarget(t, p) == {c \in 1 .. issued : ~code[c].consumed /\ code[c].live}   \* mutant
Candidates(t, p) ==
  {c \in 1 .. issued : /\ code[c].target = t /\ code[c].purpose = p
                       /\ ~code[c].consumed /\ code[c].live}

\* The attempts a code allows before it is refused unread.
GuessableForEver(c) == TRUE                                       \* mutant
Guessable(c) == code[c].attempts < MaxAttempts

\* verifyOtp()'s read: no code, or none that may be guessed, is an error.
ReadCode(h) ==
  LET found == Candidates(job[h].target, job[h].purpose) IN
  /\ At(h, "verify")
  /\ IF \E c \in found : (\A d \in found : d =< c) /\ Guessable(c)
       THEN \E c \in found :
              /\ \A d \in found : d =< c
              /\ job' = [job EXCEPT ![h].code = c,
                                    ![h].pc = IF job[h].guess = c THEN "consume" ELSE "count"]
       ELSE Done(h)
  /\ UNCHANGED <<issued, code, accounts, history>>

\* A wrong guess is counted, by an increment the database makes.
CountAttempt(h) ==
  /\ At(h, "count")
  /\ code' = [code EXCEPT ![job[h].code].attempts = @ + 1]
  /\ Done(h)
  /\ UNCHANGED <<issued, accounts, history>>

\* The right guess; a signup goes on, unless its password is too weak.
Consume(h) ==
  /\ At(h, "consume")
  /\ code' = [code EXCEPT ![job[h].code].consumed = TRUE]
  /\ IF job[h].strong THEN Goto(h, "open") ELSE Done(h)
  /\ UNCHANGED <<issued, accounts, history>>

\* The unique keys refuse an e-mail or a phone taken since.
FreePhone(email, phone) == \A a \in accounts : a.phone # phone    \* mutant
Free(email, phone) == ~Taken(email, phone)

OpenAccount(h) ==
  LET j == job[h] IN
  /\ At(h, "open")
  /\ IF Free(j.target, j.phone)
       THEN /\ accounts' = accounts \cup {[email |-> j.target, phone |-> j.phone]}
            /\ openedBy' = openedBy \cup {<<[email |-> j.target, phone |-> j.phone], j.code>>}
       ELSE UNCHANGED <<accounts, openedBy>>
  /\ Done(h)
  /\ UNCHANGED <<issued, code, raced>>

\* Time passes, for the oldest row first; a code outlives the 30 seconds, as by
\* the default OTP_TTL_SECONDS of 180.
Age(c) ==
  /\ code[c].recent /\ \A d \in 1 .. c - 1 : ~code[d].recent
  /\ code' = [code EXCEPT ![c].recent = FALSE]
  /\ UNCHANGED <<issued, accounts, job, history>>

Expire(c) ==
  /\ code[c].live /\ ~code[c].recent /\ \A d \in 1 .. c - 1 : ~code[d].live
  /\ code' = [code EXCEPT ![c].live = FALSE]
  /\ UNCHANGED <<issued, accounts, job, history>>

\* The process dies or a statement fails: the writes already made stay.
CutShort(h) ==
  /\ MayFail
  /\ job[h] # None
  /\ Done(h)
  /\ UNCHANGED <<issued, code, accounts, history>>

Next ==
  \/ \E h \in Handlers :
       \/ \E t \in Targets, p \in Purposes : RequestOtp(h, t, p)
       \/ \E t \in Targets, p \in Purposes, g \in Codes \cup {None} : Verify(h, t, p, g)
       \/ \E t \in Targets, phone \in Phones, g \in Codes \cup {None}, strong \in BOOLEAN :
            Signup(h, t, phone, g, strong)
       \/ CreateCode(h) \/ ReadCode(h) \/ CountAttempt(h) \/ Consume(h) \/ OpenAccount(h)
       \/ CutShort(h)
  \/ \E c \in 1 .. issued : Age(c) \/ Expire(c)

Spec == Init /\ [][Next]_vars

-----------------------------------------------------------------------------
TypeOK ==
  /\ issued \in 0 .. MaxCodes
  /\ code \in [1 .. issued -> Row]
  /\ accounts \subseteq Account
  /\ job \in [Handlers -> Job \cup {None}]
  /\ openedBy \subseteq Account \X Codes
  /\ raced \subseteq Targets \X Purposes

\* A code takes fewer than MaxAttempts wrong guesses and one for each request
\* that may be running: every request past the check at auth.service.ts:106
\* adds one, and no more get past it once the count is there.
AttemptsBounded ==
  \A c \in 1 .. issued : code[c].attempts < MaxAttempts + Cardinality(Handlers)

\* An account was opened with a consumed "register" code sent to its own e-mail
\* (auth.service.ts:144-163).
AccountProven ==
  \A a \in accounts : \E c \in 1 .. issued :
    /\ <<a, c>> \in openedBy
    /\ code[c].target = a.email /\ code[c].purpose = "register" /\ code[c].consumed

\* A code opens one account, even if overlapping signups and verifications
\* accept it several times (134-163).
CodeOpensOne == \A x, y \in openedBy : x[2] = y[2] => x = y

\* One code in 30 seconds: unless requests for it overlapped, a target has one
\* recent unconsumed code for a purpose (auth.service.ts:49-66).
OneRecent ==
  \A c, d \in 1 .. issued :
    /\ code[c].recent /\ code[d].recent /\ ~code[c].consumed /\ ~code[d].consumed
    /\ code[c].target = code[d].target /\ code[c].purpose = code[d].purpose
    /\ <<code[c].target, code[c].purpose>> \notin raced
    => c = d

-----------------------------------------------------------------------------
\* Inductive form, in named parts.

\* A handler past verifyOtp()'s read acts on a code of its target and purpose;
\* one about to open an account has consumed it.
JobInv ==
  \A h \in Handlers : job[h] # None =>
    /\ job[h].pc \in {"count", "consume", "open"} =>
         /\ job[h].code \in 1 .. issued
         /\ code[job[h].code].target = job[h].target
         /\ code[job[h].code].purpose = job[h].purpose
    /\ job[h].strong => job[h].phone # None /\ job[h].purpose = "register"
    /\ job[h].pc = "open" => job[h].strong /\ code[job[h].code].consumed

OpenedInv ==
  /\ \A x \in openedBy :
       /\ x[1] \in accounts /\ x[2] \in 1 .. issued
       /\ code[x[2]].target = x[1].email
       /\ code[x[2]].purpose = "register" /\ code[x[2]].consumed
  /\ \A a \in accounts : \E c \in 1 .. issued : <<a, c>> \in openedBy
  /\ \A a, b \in accounts : a.email = b.email => a = b

\* Whoever is about to create a code found none that holds it off, and is alone
\* unless requests raced.
RecentInv ==
  /\ \A t \in Targets, p \in Purposes : <<t, p>> \notin raced =>
       /\ \A g, h \in Handlers : Requested(g, t, p) /\ Requested(h, t, p) => g = h
       /\ \A h \in Handlers : Requested(h, t, p) => HoldsOff(t, p) = {}
  /\ OneRecent

\* Handlers that have found code c guessable and count their wrong guess next.
Counting(c) == {h \in Handlers : At(h, "count") /\ job[h].code = c}

AttemptsInv ==
  \A c \in 1 .. issued :
    code[c].attempts + Cardinality(Counting(c)) < MaxAttempts + Cardinality(Handlers)

OtpInv ==
  /\ TypeOK
  /\ JobInv
  /\ OpenedInv
  /\ RecentInv
  /\ AttemptsInv
=============================================================================
