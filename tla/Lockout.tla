-------------------------------- MODULE Lockout --------------------------------
(***************************************************************************)
(* Wrong passwords and PINs: AuthService.loginPassword, loginByPin and      *)
(* setupPin. A login reads the credential's row, compares the secret (bcrypt, *)
(* asynchronous) and writes the row back from what it read: MaxTries wrong   *)
(* ones lock it for ten minutes, a right one starts the count anew. Logins   *)
(* interleave between the read and the write.                              *)
(***************************************************************************)
EXTENDS Integers, FiniteSets, Combinatorics

CONSTANTS Passwords,    \* users rows, as far as they hold a password
          Pins,         \* device_pins rows, one per user and device
          Handlers,     \* requests the server may be running at once
          MaxTries,     \* wrong ones that lock a credential; 5 in the code
          MayFail,      \* whether a login may be cut short before its write
          None

Creds == Passwords \cup Pins

VARIABLES
  row,       \* the row of each credential, None for a PIN not set up
  active,    \* credentials whose user's status is "active"
  job,       \* what each login has read, or None
  \* History, read by no action of the code:
  failed,    \* wrong ones written since the last success, lock or setup
  raced      \* credentials on which logins overlap, or did since they last began anew

vars    == <<row, active, job, failed, raced>>
history == <<failed, raced>>

\* `locked` ends when lockedUntil is reached.
Row == [tries : Nat, locked : BOOLEAN]

\* `tries` is the count as read, `right` what the comparison will say.
Job == [cred : Creds, right : BOOLEAN, tries : Nat]

ASSUME CredsAssumption    == Passwords \cap Pins = {}
ASSUME TriesAssumption    == MaxTries \in Nat \ {0}
ASSUME HandlersAssumption == IsFiniteSet(Handlers)
ASSUME MayFailAssumption  == MayFail \in BOOLEAN
ASSUME NoneAssumption     == None \notin Row \cup Job

Fresh == [tries |-> 0, locked |-> FALSE]

Init ==
  /\ row = [c \in Creds |-> IF c \in Passwords THEN Fresh ELSE None]
  /\ active = Creds
  /\ job = [h \in Handlers |-> None]
  /\ failed = [c \in Creds |-> 0] /\ raced = {}

\* Login h has read c's row and not yet written it.
Trying(h, c) == job[h] # None /\ job[h].cred = c

Overlapped(h, c) == \E g \in Handlers \ {h} : Trying(g, c)

Done(h) == job' = [job EXCEPT ![h] = None]

\* The count begins anew at zero; logins still under way have read the old one.
Anew(h, c) ==
  /\ failed' = [failed EXCEPT ![c] = 0]
  /\ raced' = IF Overlapped(h, c) THEN raced \cup {c} ELSE raced \ {c}

-----------------------------------------------------------------------------
\* What a login asks of the row before it compares.
AdmittedThoughLocked(c) == row[c] # None /\ c \in active          \* mutant
Admitted(c) == row[c] # None /\ c \in active /\ ~row[c].locked

Attempt(h, c, right) ==
  /\ job[h] = None
  /\ Admitted(c)
  /\ job' = [job EXCEPT ![h] = [cred |-> c, right |-> right, tries |-> row[c].tries]]
  /\ raced' = IF Overlapped(h, c) THEN raced \cup {c} ELSE raced
  /\ UNCHANGED <<row, active, failed>>

\* The count is the one read, plus one, whatever the row holds by now.
FailedFromZero(j) == 1                                            \* mutant
NewTries(j) == j.tries + 1

Locks(n) == n >= MaxTries

Fail(h) ==
  LET j == job[h] IN
  /\ j # None /\ ~j.right
  /\ IF Locks(NewTries(j))
       THEN /\ row' = [row EXCEPT ![j.cred] = [tries |-> 0, locked |-> TRUE]]
            /\ Anew(h, j.cred)
       ELSE /\ row' = [row EXCEPT ![j.cred].tries = NewTries(j)]
            /\ failed' = [failed EXCEPT ![j.cred] = @ + 1]
            /\ UNCHANGED raced
  /\ Done(h)
  /\ UNCHANGED active

\* A right password clears the lock too, a right PIN does not. What follows is
\* a login of Sessions.
Succeed(h) ==
  LET j == job[h] IN
  /\ j # None /\ j.right
  /\ row' = [row EXCEPT ![j.cred] =
       [tries |-> 0, locked |-> j.cred \in Pins /\ row[j.cred].locked]]
  /\ Anew(h, j.cred)
  /\ Done(h)
  /\ UNCHANGED active

\* One upsert, behind JwtAuthGuard, which has found the user active. A deletion
\* while the new PIN is hashed is left out: nobody gets to use that PIN.
SetupPin(c) ==
  /\ c \in Pins \cap active
  /\ row' = [row EXCEPT ![c] = Fresh]
  /\ failed' = [failed EXCEPT ![c] = 0]
  /\ raced' = IF \E h \in Handlers : Trying(h, c) THEN raced \cup {c} ELSE raced \ {c}
  /\ UNCHANGED <<active, job>>

\* lockedUntil is reached.
Unlock(c) ==
  /\ row[c] # None /\ row[c].locked
  /\ row' = [row EXCEPT ![c].locked = FALSE]
  /\ UNCHANGED <<active, job, history>>

\* UsersService.deleteAccount: a user's password and PINs are refused from now on.
Deactivate(C) ==
  /\ active' = active \ C
  /\ raced' = raced \cup {c \in C : \E h \in Handlers : Trying(h, c)}
  /\ UNCHANGED <<row, job, failed>>

\* The process dies or the write fails: nothing was counted.
CutShort(h) ==
  /\ MayFail
  /\ job[h] # None
  /\ Done(h)
  /\ UNCHANGED <<row, active, history>>

Next ==
  \/ \E h \in Handlers :
       \/ \E c \in Creds, right \in BOOLEAN : Attempt(h, c, right)
       \/ Fail(h) \/ Succeed(h) \/ CutShort(h)
  \/ \E c \in Creds : SetupPin(c) \/ Unlock(c)
  \/ \E C \in SUBSET active \ {{}} : Deactivate(C)

Spec == Init /\ [][Next]_vars

-----------------------------------------------------------------------------
TypeOK ==
  /\ row \in [Creds -> Row \cup {None}]
  /\ active \subseteq Creds
  /\ job \in [Handlers -> Job \cup {None}]
  /\ failed \in [Creds -> Nat]
  /\ raced \subseteq Creds
  /\ \A h \in Handlers : job[h] # None => row[job[h].cred] # None

\* Overlapping logins lose counts, as each writes what it read plus one, but
\* not without end: before it locks, a credential takes fewer wrong secrets than
\* there are multisets of Handlers counts below MaxTries, that is MaxTries - 1
\* when logins do not overlap and 14 for two at a time and five tries
\* (auth.service.ts 187-194, 246-253).
GuessesBounded ==
  LET n == Cardinality(Handlers) IN
  \A c \in Creds : failed[c] < choose(MaxTries + n - 1, n)

\* Unless logins overlap on it, a credential's count is the number of wrong
\* secrets since it last began anew, so the MaxTries-th locks it; and only a
\* credential neither locked nor its user inactive admits anybody, at the moment
\* of the write as well as of the read (174-204, 233-263).
CountsUnlessRaced ==
  \A c \in Creds \ raced :
    /\ row[c] # None => row[c].tries = failed[c] /\ failed[c] < MaxTries
    /\ \A h \in Handlers : Trying(h, c) => c \in active /\ ~row[c].locked

-----------------------------------------------------------------------------
\* Inductive form: of a credential not raced on, one login is under way at most,
\* which has read the count that is there.
LoneInv ==
  \A c \in Creds \ raced :
    /\ \A g, h \in Handlers : Trying(g, c) /\ Trying(h, c) => g = h
    /\ \A h \in Handlers : Trying(h, c) => job[h].tries = row[c].tries

\* A login acts on a count that never locks by itself.
BelowInv ==
  /\ \A c \in Creds : row[c] # None => row[c].tries < MaxTries
  /\ \A h \in Handlers : job[h] # None => job[h].tries < MaxTries

LockoutInv ==
  /\ TypeOK
  /\ BelowInv
  /\ LoneInv
  /\ CountsUnlessRaced
=============================================================================
