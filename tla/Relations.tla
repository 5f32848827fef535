------------------------------ MODULE Relations ------------------------------
(***************************************************************************)
(* RelationsService.request, respond and revoke as the HTTP handlers run   *)
(* them: each `await this.prisma...` is one atomic statement, no statement *)
(* shares a transaction with another, and handlers interleave between      *)
(* statements. A handler keeps what it read (job) and acts on it later; it *)
(* may also be cut short between two statements, by a crash of the process *)
(* or a failed statement.                                                  *)
(***************************************************************************)
EXTENDS RelationStore, Integers, FiniteSets

CONSTANTS Handlers,   \* requests the server may be running at once
          MayFail     \* whether a handler may be cut short between two statements

ASSUME MayFailAssumption == MayFail \in BOOLEAN
ASSUME HandlersAssumption == IsFiniteSet(Handlers)

VARIABLES
  rel,        \* the relation table: the row at each key, or None
  job,        \* what each handler is doing and has read, or None
  \* History, read by no action of the code:
  asked,      \* edges whose `from` user asked, since the relation was at rest
  accepted,   \* <<user, edge>>: who confirmed the request at edge, since then
  answers,    \* answers written to each edge since it was last requested
  disturbed   \* relations on which two handlers overlapped or one was cut short

vars    == <<rel, job, asked, accepted, answers, disturbed>>
history == <<asked, accepted, answers, disturbed>>

\* `found` is what request() remembers of `existing`; `subtype` is the body's
\* in request(), the one of the row read in respond().
Job == [pc : {"request", "confirm", "reject", "mirror", "revoke", "revokeReverse"},
        by : Users, edge : Edges, subtype : Subtypes \cup {None}, found : BOOLEAN]

ASSUME JobAssumption == None \notin Job

Init ==
  /\ rel = [e \in Edges |-> None]
  /\ job = [h \in Handlers |-> None]
  /\ asked = {} /\ accepted = {} /\ disturbed = {}
  /\ answers = [e \in Edges |-> 0]

Busy(h, e) == job[h] # None /\ job[h].edge \in Both(e)

StatusOf(e) == IF rel[e] = None THEN "none" ELSE rel[e].status

Idle(e) == \A h \in Handlers : ~Busy(h, e)

\* Nobody is at work on the relation and nothing is asked for or agreed: what
\* was asked and accepted before counts no more.
AtRest(e) == Idle(e) /\ \A d \in Both(e) : StatusOf(d) \notin {"pending", "confirmed"}

-----------------------------------------------------------------------------
\* The handler's reads and checks are over; j is what it carries to its writes.
Start(h, j) ==
  /\ job[h] = None
  /\ job' = [job EXCEPT ![h] = j]
  /\ disturbed' = disturbed \cup
       (IF \E g \in Handlers : Busy(g, j.edge) THEN Both(j.edge) ELSE {})
  /\ IF AtRest(j.edge)
       THEN /\ asked' = asked \ Both(j.edge)
            /\ accepted' = {a \in accepted : a[2] \notin Both(j.edge)}
       ELSE UNCHANGED <<asked, accepted>>
  /\ UNCHANGED <<rel, answers>>

At(h, pc) == job[h] # None /\ job[h].pc = pc

Goto(h, pc) == job' = [job EXCEPT ![h].pc = pc]

Done(h) == job' = [job EXCEPT ![h] = None]

SetStatus(e, s) == rel' = [rel EXCEPT ![e].status = s]

\* Only a confirmed row stops a new request.
RequestableAlways(e) == TRUE                        \* mutant
Requestable(e) == StatusOf(e) # "confirmed"

\* The addressee answers a pending request.
AnswerableByBoth(u, e) == StatusOf(e) = "pending" /\ u \in {e.from, e.to}    \* mutant
AnswerableAgain(u, e)  == rel[e] # None /\ e.to = u                          \* mutant
Answerable(u, e) ==
  /\ rel[e] # None
  /\ e.to = u
  /\ rel[e].status = "pending"

Request(h, u, v, k, s) ==
  LET e == [from |-> u, to |-> v, kind |-> k] IN
  /\ u # v
  /\ Requestable(e)
  /\ Start(h, [pc |-> "request", by |-> u, edge |-> e, subtype |-> s, found |-> rel[e] # None])

\* update by id, whatever the row holds by now; or create, which the unique
\* key refuses when another handler created the row since.
RequestWrite(h) ==
  LET e == job[h].edge IN
  /\ At(h, "request")
  /\ IF job[h].found \/ rel[e] = None
       THEN /\ rel' = [rel EXCEPT ![e] = [status |-> "pending", subtype |-> job[h].subtype]]
            /\ asked' = asked \cup {e}
            /\ answers' = [answers EXCEPT ![e] = 0]
       ELSE UNCHANGED <<rel, asked, answers>>
  /\ Done(h)
  /\ UNCHANGED <<accepted, disturbed>>

Respond(h, u, e, pc) ==
  /\ Answerable(u, e)
  /\ Start(h, [pc |-> pc, by |-> u, edge |-> e, subtype |-> rel[e].subtype, found |-> TRUE])

Answered(h) == answers' = [answers EXCEPT ![job[h].edge] = @ + 1]

RejectWrite(h) ==
  /\ At(h, "reject")
  /\ SetStatus(job[h].edge, "rejected")
  /\ Answered(h)
  /\ Done(h)
  /\ UNCHANGED <<asked, accepted, disturbed>>

ConfirmWrite(h) ==
  /\ At(h, "confirm")
  /\ SetStatus(job[h].edge, "confirmed")
  /\ accepted' = accepted \cup {<<job[h].by, job[h].edge>>}
  /\ Answered(h)
  /\ Goto(h, "mirror")
  /\ UNCHANGED <<asked, disturbed>>

MirrorForgotten(h) == At(h, "mirror") /\ Done(h) /\ UNCHANGED <<rel, history>>   \* mutant

\* The upsert of the reverse row: an existing row keeps its subtype.
MirrorWrite(h) ==
  LET e == job[h].edge
      r == Rev(e)
      mirrored == [status |-> "confirmed", subtype |-> MirrorSubtype(e.kind, job[h].subtype)] IN
  /\ At(h, "mirror")
  /\ rel' = [rel EXCEPT ![r] = IF @ = None THEN mirrored ELSE [@ EXCEPT !.status = "confirmed"]]
  /\ Done(h)
  /\ UNCHANGED history

\* revoke(): either side, from any status.
Revoke(h, u, e) ==
  /\ rel[e] # None
  /\ u \in {e.from, e.to}
  /\ Start(h, [pc |-> "revoke", by |-> u, edge |-> e, subtype |-> None, found |-> TRUE])

RevokeDeletes(h) ==                                                      \* mutant
  /\ At(h, "revoke")
  /\ rel' = [rel EXCEPT ![job[h].edge] = None]
  /\ Done(h)
  /\ UNCHANGED history

RevokeWrite(h) ==
  /\ At(h, "revoke")
  /\ SetStatus(job[h].edge, "revoked")
  /\ Goto(h, "revokeReverse")
  /\ UNCHANGED history

ReverseForgotten(h) == At(h, "revokeReverse") /\ Done(h) /\ UNCHANGED <<rel, history>>   \* mutant

\* updateMany on the reverse key: nothing happens when there is no such row.
RevokeReverseWrite(h) ==
  LET r == Rev(job[h].edge) IN
  /\ At(h, "revokeReverse")
  /\ IF rel[r] # None THEN SetStatus(r, "revoked") ELSE UNCHANGED rel
  /\ Done(h)
  /\ UNCHANGED history

\* The process dies or a statement fails: the writes already made stay.
CutShort(h) ==
  /\ MayFail
  /\ job[h] # None
  /\ disturbed' = disturbed \cup Both(job[h].edge)
  /\ Done(h)
  /\ UNCHANGED <<rel, asked, accepted, answers>>

Write(h) ==
  \/ RequestWrite(h)
  \/ RejectWrite(h)
  \/ ConfirmWrite(h)
  \/ MirrorWrite(h)
  \/ RevokeWrite(h)
  \/ RevokeReverseWrite(h)

Next ==
  \E h \in Handlers :
    \/ \E u, v \in Users, k \in Kinds, s \in Subtypes \cup {None} : Request(h, u, v, k, s)
    \/ \E u \in Users, e \in Edges, pc \in {"confirm", "reject"} : Respond(h, u, e, pc)
    \/ \E u \in Users, e \in Edges : Revoke(h, u, e)
    \/ Write(h)
    \/ CutShort(h)

\* Users need not ask for anything and nothing need fail; the event loop does
\* resume a handler whose statement has returned.
Fairness == \A h \in Handlers : WF_vars(Write(h))

Spec == Init /\ [][Next]_vars /\ Fairness

-----------------------------------------------------------------------------
\* Rows stay: what a handler found is there when it writes, since nothing
\* deletes a relation.
RowsStay ==
  \A h \in Handlers :
    job[h] # None /\ (job[h].found \/ job[h].pc # "request") => rel[job[h].edge] # None

TypeOK ==
  /\ rel \in [Edges -> Row \cup {None}]
  /\ job \in [Handlers -> Job \cup {None}]
  /\ asked \subseteq Edges
  /\ accepted \subseteq Users \X Edges
  /\ answers \in [Edges -> Nat]
  /\ disturbed \subseteq Edges
  /\ RowsStay

Confirmed(e) == StatusOf(e) = "confirmed"

\* Whatever overlaps or fails, a row is confirmed only if one of the two
\* people asked for the relation and the other confirmed that very request,
\* both since the relation was last at rest: no interleaving lets anybody see
\* a stranger's posts, nor do a request and an answer given before a
\* revocation bring a relation back (relations.service.ts 63-64, with the
\* mirror write of 75-88).
BothActed ==
  \A e \in Edges : Confirmed(e) =>
    \E d \in Both(e) : d \in asked /\ <<d.to, d>> \in accepted

\* As long as no two handlers overlap on a relation and none is cut short,
\* its directions are confirmed together or not at all once the handler is
\* done, however handlers interleave on the other relations.
MutualUnlessDisturbed ==
  \A e \in Edges : e \notin disturbed /\ Idle(e) => (Confirmed(e) <=> Confirmed(Rev(e)))

\* respond() reads the row at line 61 and writes its answer at 66 whatever the
\* row is by then, so overlapping handlers answer one request several times,
\* the last one winning. They are at most as many as the server runs at once:
\* only who read the request while it was pending answers it, however answers,
\* revocations and new requests overlap.
AnswersBounded == \A e \in Edges : answers[e] =< Cardinality(Handlers)

\* A direction confirmed alone does not stay so: unless the relation is
\* disturbed, the handler that wrote it gets to write the other.
OneWayHeals ==
  \A e \in Edges :
    (Confirmed(e) /\ ~Confirmed(Rev(e)) /\ e \notin disturbed)
      ~> (e \in disturbed \/ (Confirmed(e) <=> Confirmed(Rev(e))))

-----------------------------------------------------------------------------
\* Inductive forms, from which the invariants above are proved.

\* AnswersBounded with the reason: a pending request has no answer yet, and
\* whoever is still to answer read it pending.
Answering(e) ==
  {h \in Handlers : (At(h, "confirm") \/ At(h, "reject")) /\ job[h].edge = e}

AnswersInv ==
  \A e \in Edges :
    /\ StatusOf(e) = "pending" => answers[e] = 0
    /\ answers[e] + Cardinality(Answering(e)) =< Cardinality(Handlers)

\* BothActed with the reason it keeps holding: only a requested row is pending,
\* and a handler about to confirm acts for the addressee of such a row.
ConsentInv ==
  /\ BothActed
  /\ \A e \in Edges : StatusOf(e) = "pending" => e \in asked
  /\ \A h \in Handlers : At(h, "confirm") => job[h].edge \in asked /\ job[h].by = job[h].edge.to
  /\ \A h \in Handlers : At(h, "mirror") =>
       job[h].edge \in asked /\ <<job[h].edge.to, job[h].edge>> \in accepted

\* Some handler has made the first of its two writes to the relation.
HalfWritten(e) ==
  \E h \in Handlers : Busy(h, e) /\ job[h].pc \in {"mirror", "revokeReverse"}

\* What the handler read is still so.
StillTrue(h) ==
  LET e == job[h].edge IN
  CASE At(h, "request")                     -> e.from # e.to /\ ~Confirmed(e)
    [] At(h, "confirm") \/ At(h, "reject")  -> StatusOf(e) = "pending"
    [] At(h, "mirror")                      -> StatusOf(e) = "confirmed"
    [] At(h, "revoke")                      -> rel[e] # None
    [] At(h, "revokeReverse")               -> StatusOf(e) = "revoked"

\* An undisturbed relation has one handler at most, which acts on what is still
\* true, and its directions differ only between that handler's two writes.
SoloInv ==
  /\ \A e \in disturbed : Rev(e) \in disturbed
  /\ \A e \in Edges \ disturbed : \A g, h \in Handlers : Busy(g, e) /\ Busy(h, e) => g = h
  /\ \A h \in Handlers : job[h] # None /\ job[h].edge \notin disturbed => StillTrue(h)
  /\ \A e \in Edges \ disturbed : ~HalfWritten(e) => (Confirmed(e) <=> Confirmed(Rev(e)))

-----------------------------------------------------------------------------
\* The refinement: an operation takes effect at its first write, so the second
\* write a handler still owes counts as made.
Promised ==
  [e \in Edges |->
     IF e \in disturbed THEN "unspecified"
     ELSE IF \E h \in Handlers : At(h, "mirror") /\ Rev(job[h].edge) = e THEN "confirmed"
     ELSE IF rel[e] # None /\ \E h \in Handlers : At(h, "revokeReverse") /\ Rev(job[h].edge) = e
       THEN "revoked"
     ELSE StatusOf(e)]

Promise == INSTANCE Relationship WITH bond <- Promised

\* Each relation that nobody disturbs behaves as if every request, answer and
\* revocation were one atomic step.
KeepsPromise == Promise!Spec
=============================================================================
