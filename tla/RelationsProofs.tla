--------------------------- MODULE RelationsProofs ---------------------------
(***************************************************************************)
(* Proofs about Relations.tla, for any sets of users, kinds, subtypes and  *)
(* handlers.                                                               *)
(***************************************************************************)
EXTENDS Relations, FiniteSetTheorems, TLAPS

USE KindsAssumption, NoneAssumption, MirrorAssumption, JobAssumption, MayFailAssumption

\* The two directions of a relation: turning a key round twice gives it back.
LEMMA RevFacts ==
  ASSUME NEW e \in Edges
  PROVE  Rev(e) \in Edges /\ Rev(Rev(e)) = e /\ Both(Rev(e)) = Both(e)
BY DEF Edges, Rev, Both

\* The job of a handler at work.
LEMMA JobFields ==
  ASSUME TypeOK, NEW h \in Handlers, job[h] # None
  PROVE  /\ job[h] \in Job
         /\ job[h].by \in Users
         /\ job[h].edge \in Edges
         /\ job[h].subtype \in Subtypes \cup {None}
BY DEF TypeOK, Job

LEMMA StartTypeOK ==
  ASSUME TypeOK, NEW h \in Handlers, NEW j \in Job, Start(h, j),
         j.found \/ j.pc # "request" => rel[j.edge] # None
  PROVE  TypeOK'
<1>1. Both(j.edge) \subseteq Edges
  BY RevFacts DEF Both, Job
<1>2. RowsStay'
  BY DEF TypeOK, RowsStay, Start
<1>. QED
  BY <1>1, <1>2 DEF TypeOK, Start

LEMMA RequestTypeOK ==
  ASSUME TypeOK, NEW h \in Handlers, NEW u \in Users, NEW v \in Users, NEW k \in Kinds,
         NEW s \in Subtypes \cup {None}, Request(h, u, v, k, s)
  PROVE  TypeOK'
<1>. DEFINE e == [from |-> u, to |-> v, kind |-> k]
            j == [pc |-> "request", by |-> u, edge |-> e, subtype |-> s, found |-> rel[e] # None]
<1>1. j \in Job
  BY DEF Job, Edges
<1>2. Start(h, j)
  BY DEF Request
<1>. QED
  BY <1>1, <1>2, StartTypeOK

LEMMA RespondTypeOK ==
  ASSUME TypeOK, NEW h \in Handlers, NEW u \in Users, NEW e \in Edges,
         NEW pc \in {"confirm", "reject"}, Respond(h, u, e, pc)
  PROVE  TypeOK'
<1>. DEFINE j == [pc |-> pc, by |-> u, edge |-> e, subtype |-> rel[e].subtype, found |-> TRUE]
<1>1. rel[e] \in Row
  BY DEF Respond, Answerable, TypeOK
<1>2. j \in Job /\ rel[j.edge] # None
  BY <1>1 DEF Job, Row, Respond, Answerable
<1>3. Start(h, j)
  BY DEF Respond
<1>. QED
  BY <1>2, <1>3, StartTypeOK

LEMMA RevokeTypeOK ==
  ASSUME TypeOK, NEW h \in Handlers, NEW u \in Users, NEW e \in Edges, Revoke(h, u, e)
  PROVE  TypeOK'
<1>. DEFINE j == [pc |-> "revoke", by |-> u, edge |-> e, subtype |-> None, found |-> TRUE]
<1>1. j \in Job /\ rel[j.edge] # None
  BY DEF Job, Revoke
<1>2. Start(h, j)
  BY DEF Revoke
<1>. QED
  BY <1>1, <1>2, StartTypeOK

\* A handler about to write has read a row, but for request().
LEMMA AtWrite ==
  ASSUME TypeOK, NEW h \in Handlers, Write(h)
  PROVE  /\ job[h] \in Job
         /\ job[h].by \in Users
         /\ job[h].edge \in Edges
         /\ Rev(job[h].edge) \in Edges
         /\ job[h].subtype \in Subtypes \cup {None}
         /\ ~RequestWrite(h) => rel[job[h].edge] \in Row
<1>1. job[h] # None
  BY DEF Write, RequestWrite, RejectWrite, ConfirmWrite, MirrorWrite, RevokeWrite,
         RevokeReverseWrite, At
<1>2. ~RequestWrite(h) => job[h].pc # "request"
  BY DEF Write, RejectWrite, ConfirmWrite, MirrorWrite, RevokeWrite, RevokeReverseWrite, At
<1>3. job[h].edge \in Edges
  BY <1>1, JobFields
<1>. QED
  BY <1>1, <1>2, <1>3, JobFields, RevFacts DEF TypeOK, RowsStay

\* A job that goes on to its second write is still a job.
LEMMA GotoType ==
  ASSUME TypeOK, NEW h \in Handlers, job[h] # None,
         NEW pc \in {"mirror", "revokeReverse"}, Goto(h, pc)
  PROVE  job' \in [Handlers -> Job \cup {None}]
<1>1. job[h] \in Job
  BY DEF TypeOK
<1>2. [job[h] EXCEPT !.pc = pc] \in Job
  BY <1>1 DEF Job
<1>. QED
  BY <1>2 DEF TypeOK, Goto

\* Only the two answers count as answers, and only a request resets the count.
LEMMA AnswersEffect ==
  ASSUME TypeOK, NEW h \in Handlers, Write(h)
  PROVE  \A e \in Edges :
           answers'[e] = IF RequestWrite(h) /\ e = job[h].edge /\ (job[h].found \/ rel[e] = None)
                           THEN 0
                         ELSE IF (ConfirmWrite(h) \/ RejectWrite(h)) /\ e = job[h].edge
                           THEN answers[e] + 1
                         ELSE answers[e]
<1>1. ConfirmWrite(h) \/ RejectWrite(h) => ~RequestWrite(h)
  BY DEF ConfirmWrite, RejectWrite, RequestWrite, At
<1>2. CASE RequestWrite(h)
  BY <1>1, <1>2 DEF TypeOK, RequestWrite
<1>3. CASE ConfirmWrite(h) \/ RejectWrite(h)
  BY <1>1, <1>3 DEF TypeOK, ConfirmWrite, RejectWrite, Answered
<1>4. CASE ~RequestWrite(h) /\ ~ConfirmWrite(h) /\ ~RejectWrite(h)
  BY <1>4 DEF Write, MirrorWrite, RevokeWrite, RevokeReverseWrite, history
<1>. QED
  BY <1>2, <1>3, <1>4

\* The types of the table and the histories after a write; RowsStay apart.
LEMMA WriteTypes ==
  ASSUME TypeOK, NEW h \in Handlers, Write(h)
  PROVE  /\ rel' \in [Edges -> Row \cup {None}]
         /\ job' \in [Handlers -> Job \cup {None}]
         /\ asked' \subseteq Edges
         /\ accepted' \subseteq Users \X Edges
         /\ disturbed' \subseteq Edges
         /\ \A e \in Edges : rel[e] # None => rel'[e] # None
<1>1. /\ job[h] \in Job
      /\ job[h].by \in Users
      /\ job[h].edge \in Edges
      /\ Rev(job[h].edge) \in Edges
      /\ job[h].subtype \in Subtypes \cup {None}
  BY AtWrite
<1>2. ASSUME NEW s \in Statuses, NEW e \in Edges, rel[e] \in Row, SetStatus(e, s)
      PROVE  /\ rel' \in [Edges -> Row \cup {None}]
             /\ \A d \in Edges : rel[d] # None => rel'[d] # None
  <2>1. [rel[e] EXCEPT !.status = s] \in Row
    BY <1>2 DEF Row
  <2>2. rel' = [rel EXCEPT ![e] = [rel[e] EXCEPT !.status = s]]
    BY <1>2 DEF SetStatus
  <2>. QED
    BY <2>1, <2>2 DEF TypeOK
<1>3. CASE RequestWrite(h)
  BY <1>1, <1>3 DEF TypeOK, RequestWrite, Done, Row, Statuses
<1>4. CASE RejectWrite(h)
  <2>1. rel[job[h].edge] \in Row
    BY <1>4, AtWrite DEF RejectWrite, RequestWrite, At
  <2>. QED
    BY <1>1, <1>2, <1>4, <2>1 DEF TypeOK, RejectWrite, Done, Statuses, history
<1>5. CASE ConfirmWrite(h)
  <2>1. rel[job[h].edge] \in Row
    BY <1>5, AtWrite DEF ConfirmWrite, RequestWrite, At
  <2>2. job' \in [Handlers -> Job \cup {None}]
    BY <1>5, GotoType DEF ConfirmWrite, At
  <2>. QED
    BY <1>1, <1>2, <1>5, <2>1, <2>2 DEF TypeOK, ConfirmWrite, Statuses
<1>6. CASE MirrorWrite(h)
  <2>1. MirrorSubtype(job[h].edge.kind, job[h].subtype) \in Subtypes \cup {None}
    BY <1>1 DEF Edges
  <2>. QED
    BY <1>1, <1>6, <2>1 DEF TypeOK, MirrorWrite, Done, Row, Statuses, history
<1>7. CASE RevokeWrite(h)
  <2>1. rel[job[h].edge] \in Row
    BY <1>7, AtWrite DEF RevokeWrite, RequestWrite, At
  <2>2. job' \in [Handlers -> Job \cup {None}]
    BY <1>7, GotoType DEF RevokeWrite, At
  <2>. QED
    BY <1>1, <1>2, <1>7, <2>1, <2>2 DEF TypeOK, RevokeWrite, Statuses, history
<1>8. CASE RevokeReverseWrite(h)
  <2>1. CASE rel[Rev(job[h].edge)] # None
    BY <1>1, <1>2, <1>8, <2>1 DEF TypeOK, RevokeReverseWrite, Done, Statuses, history
  <2>2. CASE rel[Rev(job[h].edge)] = None
    BY <1>1, <1>8, <2>2 DEF TypeOK, RevokeReverseWrite, Done, history
  <2>. QED
    BY <2>1, <2>2
<1>. QED
  BY <1>3, <1>4, <1>5, <1>6, <1>7, <1>8 DEF Write

\* The counts of answers stay counts.
LEMMA AnswersType ==
  ASSUME TypeOK, NEW h \in Handlers, Write(h)
  PROVE  answers' \in [Edges -> Nat]
<1>1. answers \in [Edges -> Nat]
  BY DEF TypeOK
<1>2. CASE RequestWrite(h)
  BY <1>1, <1>2 DEF RequestWrite
<1>3. CASE Answered(h)
  <2>1. job[h].edge \in Edges
    BY AtWrite
  <2>. QED
    BY <1>1, <1>3, <2>1 DEF Answered
<1>4. CASE UNCHANGED answers
  BY <1>1, <1>4
<1>. QED
  BY <1>2, <1>3, <1>4 DEF Write, RejectWrite, ConfirmWrite, MirrorWrite, RevokeWrite,
                          RevokeReverseWrite, history

LEMMA WriteTypeOK ==
  ASSUME TypeOK, NEW h \in Handlers, Write(h)
  PROVE  TypeOK'
<1>1. ASSUME NEW g \in Handlers, job'[g] # None, g # h
      PROVE  job'[g] = job[g]
  BY <1>1 DEF TypeOK, Write, RequestWrite, RejectWrite, ConfirmWrite, MirrorWrite,
              RevokeWrite, RevokeReverseWrite, Done, Goto
<1>2. job'[h] # None => job'[h].edge = job[h].edge /\ job[h].edge \in Edges /\ ~RequestWrite(h)
  <2>1. CASE ConfirmWrite(h)
    <3>1. job'[h] = [job[h] EXCEPT !.pc = "mirror"] /\ job[h].edge \in Edges /\ job[h] \in Job
      BY <2>1, AtWrite DEF TypeOK, ConfirmWrite, Goto
    <3>2. ~RequestWrite(h)
      BY <2>1 DEF ConfirmWrite, RequestWrite, At
    <3>. QED
      BY <3>1, <3>2 DEF Job
  <2>2. CASE RevokeWrite(h)
    <3>1. job'[h] = [job[h] EXCEPT !.pc = "revokeReverse"] /\ job[h].edge \in Edges /\ job[h] \in Job
      BY <2>2, AtWrite DEF TypeOK, RevokeWrite, Goto
    <3>2. ~RequestWrite(h)
      BY <2>2 DEF RevokeWrite, RequestWrite, At
    <3>. QED
      BY <3>1, <3>2 DEF Job
  <2>3. CASE ~ConfirmWrite(h) /\ ~RevokeWrite(h)
    BY <2>3 DEF TypeOK, Write, RequestWrite, RejectWrite, MirrorWrite, RevokeReverseWrite, Done
  <2>. QED
    BY <2>1, <2>2, <2>3
<1>3. \A g \in Handlers : job[g] # None => job[g].edge \in Edges
  BY JobFields
<1>4. RowsStay'
  BY <1>1, <1>2, <1>3, WriteTypes, AtWrite DEF TypeOK, RowsStay
<1>. QED
  BY <1>4, WriteTypes, AnswersType DEF TypeOK

LEMMA CutShortTypeOK ==
  ASSUME TypeOK, NEW h \in Handlers, CutShort(h)
  PROVE  TypeOK'
<1>1. Both(job[h].edge) \subseteq Edges
  BY JobFields, RevFacts DEF CutShort, Both
<1>2. RowsStay'
  BY DEF TypeOK, RowsStay, CutShort, Done
<1>. QED
  BY <1>1, <1>2 DEF TypeOK, CutShort, Done

LEMMA NextTypeOK ==
  ASSUME TypeOK, [Next]_vars
  PROVE  TypeOK'
<1>1. CASE UNCHANGED vars
  BY <1>1 DEF TypeOK, RowsStay, vars
<1>2. CASE Next
  BY <1>2, RequestTypeOK, RespondTypeOK, RevokeTypeOK, WriteTypeOK, CutShortTypeOK DEF Next
<1>. QED
  BY <1>1, <1>2

\* Type correctness: the table holds rows or nothing, handlers hold well-formed
\* jobs (RelationsService.request, respond, revoke).
THEOREM TypeCorrect == Spec => []TypeOK
<1>1. Init => TypeOK
  BY DEF Init, TypeOK, RowsStay
<1>. QED
  BY <1>1, NextTypeOK, PTL DEF Spec
-----------------------------------------------------------------------------
\* What each write does to the statuses, the only part of a row the safety
\* properties speak of.
LEMMA SetStatusEffect ==
  ASSUME TypeOK, NEW e \in Edges, rel[e] \in Row, NEW s \in Statuses, SetStatus(e, s)
  PROVE  \A d \in Edges : StatusOf(d)' = IF d = e THEN s ELSE StatusOf(d)
<1>1. rel' = [rel EXCEPT ![e] = [rel[e] EXCEPT !.status = s]]
  BY DEF SetStatus
<1>2. [rel[e] EXCEPT !.status = s] \in Row /\ [rel[e] EXCEPT !.status = s].status = s
  BY DEF Row
<1>. QED
  BY <1>1, <1>2 DEF TypeOK, StatusOf

LEMMA RequestEffect ==
  ASSUME TypeOK, NEW h \in Handlers, RequestWrite(h)
  PROVE  \A d \in Edges :
           StatusOf(d)' = IF d = job[h].edge /\ (job[h].found \/ rel[d] = None)
                            THEN "pending" ELSE StatusOf(d)
<1>1. job[h].edge \in Edges /\ job[h].subtype \in Subtypes \cup {None}
  BY JobFields DEF RequestWrite, At
<1>2. [status |-> "pending", subtype |-> job[h].subtype] \in Row
  BY <1>1 DEF Row, Statuses
<1>. QED
  BY <1>1, <1>2 DEF TypeOK, RequestWrite, StatusOf

LEMMA RejectEffect ==
  ASSUME TypeOK, NEW h \in Handlers, RejectWrite(h)
  PROVE  \A d \in Edges : StatusOf(d)' = IF d = job[h].edge THEN "rejected" ELSE StatusOf(d)
<1>1. rel[job[h].edge] \in Row /\ job[h].edge \in Edges
  BY AtWrite DEF Write, RejectWrite, RequestWrite, At
<1>. QED
  BY <1>1, SetStatusEffect DEF RejectWrite, Statuses

LEMMA ConfirmEffect ==
  ASSUME TypeOK, NEW h \in Handlers, ConfirmWrite(h)
  PROVE  \A d \in Edges : StatusOf(d)' = IF d = job[h].edge THEN "confirmed" ELSE StatusOf(d)
<1>1. rel[job[h].edge] \in Row /\ job[h].edge \in Edges
  BY AtWrite DEF Write, ConfirmWrite, RequestWrite, At
<1>. QED
  BY <1>1, SetStatusEffect DEF ConfirmWrite, Statuses

LEMMA MirrorEffect ==
  ASSUME TypeOK, NEW h \in Handlers, MirrorWrite(h)
  PROVE  \A d \in Edges : StatusOf(d)' = IF d = Rev(job[h].edge) THEN "confirmed" ELSE StatusOf(d)
<1>. DEFINE r == Rev(job[h].edge)
            mirrored == [status |-> "confirmed",
                         subtype |-> MirrorSubtype(job[h].edge.kind, job[h].subtype)]
<1>1. r \in Edges
  BY AtWrite DEF Write
<1>2. mirrored.status = "confirmed" /\ mirrored # None
  <2>1. job[h].edge.kind \in Kinds /\ job[h].subtype \in Subtypes \cup {None}
    BY AtWrite DEF Write, Edges
  <2>2. mirrored \in Row
    BY <2>1 DEF Row, Statuses
  <2>. QED
    BY <2>2
<1>3. CASE rel[r] = None
  <2>1. rel' = [rel EXCEPT ![r] = mirrored]
    BY <1>3 DEF MirrorWrite
  <2>. QED
    BY <1>1, <1>2, <2>1 DEF TypeOK, StatusOf
<1>4. CASE rel[r] # None
  <2>1. rel' = [rel EXCEPT ![r] = [rel[r] EXCEPT !.status = "confirmed"]]
    BY <1>4 DEF MirrorWrite
  <2>2. rel[r] \in Row
    BY <1>1, <1>4 DEF TypeOK
  <2>. QED
    BY <1>1, <2>1, <2>2, SetStatusEffect DEF SetStatus, Statuses
<1>. QED
  BY <1>3, <1>4

LEMMA RevokeEffect ==
  ASSUME TypeOK, NEW h \in Handlers, RevokeWrite(h)
  PROVE  \A d \in Edges : StatusOf(d)' = IF d = job[h].edge THEN "revoked" ELSE StatusOf(d)
<1>1. rel[job[h].edge] \in Row /\ job[h].edge \in Edges
  BY AtWrite DEF Write, RevokeWrite, RequestWrite, At
<1>. QED
  BY <1>1, SetStatusEffect DEF RevokeWrite, Statuses

LEMMA RevokeReverseEffect ==
  ASSUME TypeOK, NEW h \in Handlers, RevokeReverseWrite(h)
  PROVE  \A d \in Edges :
           StatusOf(d)' = IF d = Rev(job[h].edge) /\ rel[d] # None
                            THEN "revoked" ELSE StatusOf(d)
<1>1. Rev(job[h].edge) \in Edges
  BY AtWrite DEF Write
<1>2. CASE rel[Rev(job[h].edge)] # None
  BY <1>1, <1>2, SetStatusEffect DEF TypeOK, RevokeReverseWrite, Statuses
<1>3. CASE rel[Rev(job[h].edge)] = None
  BY <1>1, <1>3 DEF RevokeReverseWrite, StatusOf
<1>. QED
  BY <1>2, <1>3

\* A write changes the job of its own handler only: it ends it, or moves it on.
LEMMA JobEffect ==
  ASSUME TypeOK, NEW h \in Handlers, Write(h)
  PROVE  /\ \A g \in Handlers : g # h => job'[g] = job[g]
         /\ ConfirmWrite(h) => job'[h] = [job[h] EXCEPT !.pc = "mirror"]
         /\ RevokeWrite(h) => job'[h] = [job[h] EXCEPT !.pc = "revokeReverse"]
         /\ ~ConfirmWrite(h) /\ ~RevokeWrite(h) => job'[h] = None
BY DEF TypeOK, Write, RequestWrite, RejectWrite, ConfirmWrite, MirrorWrite, RevokeWrite,
       RevokeReverseWrite, Done, Goto
-----------------------------------------------------------------------------
LEMMA StartConsent ==
  ASSUME TypeOK, ConsentInv, NEW h \in Handlers, NEW j \in Job, Start(h, j),
         j.pc = "confirm" => StatusOf(j.edge) = "pending" /\ j.edge \in asked /\ j.by = j.edge.to,
         j.pc # "mirror"
  PROVE  ConsentInv'
<1>1. PICK e \in Edges : e = j.edge
  BY DEF Job
<1>2. \A d \in Edges : StatusOf(d)' = StatusOf(d)
  BY DEF Start, StatusOf
<1>3. \A g \in Handlers : job'[g] = IF g = h THEN j ELSE job[g]
  BY DEF Start, TypeOK
<1>4. CASE ~AtRest(e)
  <2>1. asked' = asked /\ accepted' = accepted
    BY <1>1, <1>4 DEF Start
  <2>. QED
    BY <1>2, <1>3, <2>1 DEF ConsentInv, BothActed, Confirmed, At
<1>5. CASE AtRest(e)
  <2>1. /\ asked' = asked \ Both(e)
        /\ accepted' = {a \in accepted : a[2] \notin Both(e)}
    BY <1>1, <1>5 DEF Start
  <2>2. \A d \in Edges : StatusOf(d) \in {"pending", "confirmed"} => d \notin Both(e)
    BY <1>5 DEF AtRest
  <2>3. \A g \in Handlers : job[g] # None => job[g].edge \notin Both(e)
    BY <1>5 DEF AtRest, Idle, Busy
  <2>4. j.pc # "confirm"
    BY <1>1, <2>2 DEF Both
  <2>5. ASSUME NEW x \in Edges, Confirmed(x)'
        PROVE  \E d \in Both(x) : d \in asked' /\ <<d.to, d>> \in accepted'
    <3>1. Confirmed(x) /\ x \notin Both(e)
      BY <1>2, <2>2, <2>5 DEF Confirmed
    <3>2. PICK d \in Both(x) : d \in asked /\ <<d.to, d>> \in accepted
      BY <3>1 DEF ConsentInv, BothActed
    <3>3. d \notin Both(e)
      BY <3>1, RevFacts DEF Both
    <3>. QED
      BY <2>1, <3>2, <3>3
  <2>6. \A d \in Edges : StatusOf(d)' = "pending" => d \in asked'
    BY <1>2, <2>1, <2>2 DEF ConsentInv
  <2>7. \A g \in Handlers : At(g, "confirm")' => job'[g].edge \in asked' /\ job'[g].by = job'[g].edge.to
    BY <1>3, <2>1, <2>3, <2>4 DEF ConsentInv, At
  <2>8. ASSUME NEW g \in Handlers, At(g, "mirror")'
        PROVE  job'[g].edge \in asked' /\ <<job'[g].edge.to, job'[g].edge>> \in accepted'
    BY <1>3, <2>1, <2>3, <2>8 DEF ConsentInv, At
  <2>. QED
    BY <2>5, <2>6, <2>7, <2>8 DEF ConsentInv, BothActed
<1>. QED
  BY <1>4, <1>5

LEMMA WriteConsent ==
  ASSUME TypeOK, ConsentInv, NEW h \in Handlers, Write(h)
  PROVE  ConsentInv'
<1>. DEFINE e == job[h].edge
<1>1. e \in Edges /\ Rev(e) \in Edges /\ Both(Rev(e)) = Both(e) /\ e \in Both(e) /\ Rev(e) \in Both(e)
  BY AtWrite, RevFacts DEF Both
<1>2. asked \subseteq asked' /\ accepted \subseteq accepted'
  BY DEF Write, RequestWrite, RejectWrite, ConfirmWrite, MirrorWrite, RevokeWrite,
         RevokeReverseWrite, history
<1>3. \A g \in Handlers : g # h => job'[g] = job[g]
  BY JobEffect
<1>4. ASSUME job'[h] = None
      PROVE  /\ \A g \in Handlers : At(g, "confirm")' =>
                  job[g].edge \in asked' /\ job'[g].edge = job[g].edge
                    /\ job'[g].by = job[g].edge.to
             /\ \A g \in Handlers : At(g, "mirror")' =>
                  job'[g] = job[g] /\ job[g].edge \in asked'
                    /\ <<job[g].edge.to, job[g].edge>> \in accepted'
  BY <1>2, <1>3, <1>4 DEF ConsentInv, At
<1>5. CASE RequestWrite(h)
  <2>1. job'[h] = None
    BY <1>5, JobEffect DEF RequestWrite, ConfirmWrite, RevokeWrite, At
  <2>2. \A d \in Edges : StatusOf(d)' = "pending" => d \in asked'
    BY <1>2, <1>5, RequestEffect DEF ConsentInv, RequestWrite
  <2>3. \A d \in Edges : Confirmed(d)' => Confirmed(d)
    BY <1>5, RequestEffect DEF Confirmed
  <2>. QED
    BY <1>2, <1>4, <2>1, <2>2, <2>3 DEF ConsentInv, BothActed
<1>6. CASE RejectWrite(h)
  <2>1. job'[h] = None
    BY <1>6, JobEffect DEF RejectWrite, ConfirmWrite, RevokeWrite, At
  <2>2. \A d \in Edges : StatusOf(d)' \in {"rejected", StatusOf(d)}
    BY <1>6, RejectEffect
  <2>. QED
    BY <1>2, <1>4, <2>1, <2>2 DEF ConsentInv, BothActed, Confirmed
<1>7. CASE ConfirmWrite(h)
  <2>1. e \in asked /\ <<e.to, e>> \in accepted'
    BY <1>7 DEF ConsentInv, ConfirmWrite
  <2>2. \A d \in Edges : StatusOf(d)' = IF d = e THEN "confirmed" ELSE StatusOf(d)
    BY <1>7, ConfirmEffect
  <2>3. job'[h].edge = e /\ job'[h].pc = "mirror"
    BY <1>7, JobEffect, AtWrite DEF Job
  <2>4. BothActed'
    BY <1>1, <1>2, <2>1, <2>2 DEF ConsentInv, BothActed, Confirmed
  <2>. QED
    BY <1>2, <1>3, <2>1, <2>2, <2>3, <2>4 DEF ConsentInv, At
<1>8. CASE MirrorWrite(h)
  <2>1. job'[h] = None
    BY <1>8, JobEffect DEF MirrorWrite, ConfirmWrite, RevokeWrite, At
  <2>2. e \in asked /\ <<e.to, e>> \in accepted
    BY <1>8 DEF ConsentInv, MirrorWrite
  <2>3. \A d \in Edges : StatusOf(d)' = IF d = Rev(e) THEN "confirmed" ELSE StatusOf(d)
    BY <1>8, MirrorEffect
  <2>4. BothActed'
    BY <1>1, <1>2, <2>2, <2>3 DEF ConsentInv, BothActed, Confirmed
  <2>. QED
    BY <1>2, <1>4, <2>1, <2>3, <2>4 DEF ConsentInv
<1>9. CASE RevokeWrite(h)
  <2>1. job'[h].pc = "revokeReverse"
    BY <1>9, JobEffect, AtWrite DEF Job
  <2>2. \A d \in Edges : StatusOf(d)' \in {"revoked", StatusOf(d)}
    BY <1>9, RevokeEffect
  <2>. QED
    BY <1>2, <1>3, <2>1, <2>2 DEF ConsentInv, BothActed, Confirmed, At
<1>10. CASE RevokeReverseWrite(h)
  <2>1. job'[h] = None
    BY <1>10, JobEffect DEF RevokeReverseWrite, ConfirmWrite, RevokeWrite, At
  <2>2. \A d \in Edges : StatusOf(d)' \in {"revoked", StatusOf(d)}
    BY <1>10, RevokeReverseEffect
  <2>. QED
    BY <1>2, <1>4, <2>1, <2>2 DEF ConsentInv, BothActed, Confirmed
<1>. QED
  BY <1>5, <1>6, <1>7, <1>8, <1>9, <1>10 DEF Write

LEMMA NextConsent ==
  ASSUME TypeOK, ConsentInv, [Next]_vars
  PROVE  ConsentInv'
<1>1. CASE UNCHANGED vars
  BY <1>1 DEF ConsentInv, BothActed, Confirmed, StatusOf, At, vars
<1>2. ASSUME NEW h \in Handlers, NEW u \in Users, NEW v \in Users, NEW k \in Kinds,
             NEW s \in Subtypes \cup {None}, Request(h, u, v, k, s)
      PROVE  ConsentInv'
  <2>. DEFINE e == [from |-> u, to |-> v, kind |-> k]
              j == [pc |-> "request", by |-> u, edge |-> e, subtype |-> s, found |-> rel[e] # None]
  <2>1. j \in Job /\ Start(h, j)
    BY <1>2 DEF Job, Edges, Request
  <2>. QED
    BY <2>1, StartConsent
<1>3. ASSUME NEW h \in Handlers, NEW u \in Users, NEW e \in Edges,
             NEW pc \in {"confirm", "reject"}, Respond(h, u, e, pc)
      PROVE  ConsentInv'
  <2>. DEFINE j == [pc |-> pc, by |-> u, edge |-> e, subtype |-> rel[e].subtype, found |-> TRUE]
  <2>1. rel[e] \in Row
    BY <1>3 DEF Respond, Answerable, TypeOK
  <2>2. j \in Job /\ Start(h, j)
    BY <1>3, <2>1 DEF Job, Row, Respond
  <2>3. StatusOf(e) = "pending" /\ e \in asked /\ u = e.to
    BY <1>3 DEF Respond, Answerable, ConsentInv, StatusOf
  <2>. QED
    BY <2>2, <2>3, StartConsent
<1>4. ASSUME NEW h \in Handlers, NEW u \in Users, NEW e \in Edges, Revoke(h, u, e)
      PROVE  ConsentInv'
  <2>. DEFINE j == [pc |-> "revoke", by |-> u, edge |-> e, subtype |-> None, found |-> TRUE]
  <2>1. j \in Job /\ Start(h, j)
    BY <1>4 DEF Job, Revoke
  <2>. QED
    BY <2>1, StartConsent
<1>5. ASSUME NEW h \in Handlers, CutShort(h)
      PROVE  ConsentInv'
  BY <1>5 DEF TypeOK, CutShort, Done, ConsentInv, BothActed, Confirmed, StatusOf, At
<1>. QED
  BY <1>1, <1>2, <1>3, <1>4, <1>5, WriteConsent DEF Next

\* A pending row was asked for, and a handler about to confirm or to mirror acts
\* for the addressee of such a row: what respond() checked at lines 61-64 is what
\* its two writes, at 66 and at 75, rely on.
THEOREM ConsentIsChecked == Spec => []ConsentInv
<1>1. Init => TypeOK /\ ConsentInv
  BY DEF Init, TypeOK, RowsStay, ConsentInv, BothActed, Confirmed, StatusOf, At
<1>2. TypeOK /\ ConsentInv /\ [Next]_vars => (TypeOK /\ ConsentInv)'
  BY NextTypeOK, NextConsent
<1>. QED
  BY <1>1, <1>2, PTL DEF Spec

\* Whatever requests overlap or fail, a relation is confirmed only when one of
\* the two asked for it and the other, the addressee, accepted that request
\* (RelationsService.respond's checks and its mirror write).
THEOREM Consent == Spec => []BothActed
<1>1. ConsentInv => BothActed
  BY DEF ConsentInv
<1>. QED
  BY <1>1, ConsentIsChecked, PTL
-----------------------------------------------------------------------------
\* What a handler must have found to start.
LEMMA StartSolo ==
  ASSUME TypeOK, SoloInv, NEW h \in Handlers, NEW j \in Job, Start(h, j),
         j.pc \in {"request", "confirm", "reject", "revoke"},
         j.pc = "request" => j.edge.from # j.edge.to /\ ~Confirmed(j.edge),
         j.pc \in {"confirm", "reject"} => StatusOf(j.edge) = "pending",
         j.pc = "revoke" => rel[j.edge] # None
  PROVE  SoloInv'
<1>1. /\ \A e \in Edges : StatusOf(e)' = StatusOf(e)
      /\ rel' = rel
      /\ disturbed \subseteq disturbed'
      /\ job[h] = None
  BY DEF Start, StatusOf
<1>2. \A g \in Handlers : job'[g] = IF g = h THEN j ELSE job[g]
  BY DEF Start, TypeOK
<1>3. j.edge \in Edges /\ j # None
  BY DEF Job
<1>4. \A e \in disturbed' : Rev(e) \in disturbed'
  <2>1. \A e \in Both(j.edge) : Rev(e) \in Both(j.edge)
    BY <1>3, RevFacts DEF Both
  <2>. QED
    BY <2>1 DEF Start, SoloInv
<1>5. ASSUME NEW e \in Edges, e \notin disturbed', NEW f \in Handlers, NEW g \in Handlers,
             Busy(f, e)', Busy(g, e)'
      PROVE  f = g
  <2>1. CASE f # h /\ g # h
    BY <1>1, <1>2, <1>5, <2>1 DEF SoloInv, Busy
  <2>2. ASSUME NEW k \in Handlers, k # h, Busy(k, e)', Busy(h, e)'
        PROVE  FALSE
    <3>1. Busy(k, e) /\ j.edge \in Both(e)
      BY <1>2, <2>2 DEF Busy
    <3>2. Both(j.edge) = Both(e) /\ e \in Both(e)
      BY <3>1, RevFacts DEF Both
    <3>. QED
      BY <1>5, <3>1, <3>2 DEF Start, Busy
  <2>. QED
    BY <1>5, <2>1, <2>2
<1>6. ASSUME NEW g \in Handlers, job'[g] # None, job'[g].edge \notin disturbed'
      PROVE  StillTrue(g)'
  <2>1. CASE g = h
    BY <1>1, <1>2, <1>3, <2>1 DEF StillTrue, At, Confirmed
  <2>2. CASE g # h
    <3>1. StillTrue(g) /\ job'[g] = job[g] /\ job[g].edge \in Edges
      BY <1>1, <1>2, <1>6, <2>2, JobFields DEF SoloInv
    <3>. QED
      BY <1>1, <3>1 DEF StillTrue, At, Confirmed
  <2>. QED
    BY <2>1, <2>2
<1>7. ASSUME NEW e \in Edges, e \notin disturbed', ~HalfWritten(e)'
      PROVE  Confirmed(e)' <=> Confirmed(Rev(e))'
  <2>1. ~HalfWritten(e)
    BY <1>1, <1>2, <1>7 DEF HalfWritten, Busy
  <2>. QED
    BY <1>1, <1>7, <2>1, RevFacts DEF SoloInv, Confirmed
<1>. QED
  BY <1>4, <1>5, <1>6, <1>7 DEF SoloInv

\* A write touches the two directions of its handler's relation only.
LEMMA WriteLocal ==
  ASSUME TypeOK, NEW h \in Handlers, Write(h)
  PROVE  /\ disturbed' = disturbed
         /\ \A d \in Edges \ Both(job[h].edge) : rel'[d] = rel[d] /\ StatusOf(d)' = StatusOf(d)
         /\ job[h] # None
         /\ job'[h] # None => job'[h].edge = job[h].edge /\ job'[h].pc \in {"mirror", "revokeReverse"}
<1>1. disturbed' = disturbed /\ job[h] # None
  BY DEF Write, RequestWrite, RejectWrite, ConfirmWrite, MirrorWrite, RevokeWrite,
         RevokeReverseWrite, history, At
<1>2. \A d \in Edges \ Both(job[h].edge) : rel'[d] = rel[d]
  BY AtWrite DEF TypeOK, Write, RequestWrite, RejectWrite, ConfirmWrite, MirrorWrite,
                 RevokeWrite, RevokeReverseWrite, SetStatus, Both
<1>3. job'[h] # None => job'[h].edge = job[h].edge /\ job'[h].pc \in {"mirror", "revokeReverse"}
  BY JobEffect, AtWrite DEF Job
<1>. QED
  BY <1>1, <1>2, <1>3 DEF StatusOf

\* The handler alone on its undisturbed relation: what each write leaves behind.
LEMMA WriteAlone ==
  ASSUME TypeOK, SoloInv, NEW h \in Handlers, Write(h),
         NEW e \in Edges, e = job[h].edge, e \notin disturbed
  PROVE  /\ job'[h] # None => StillTrue(h)'
         /\ job'[h] = None => (Confirmed(e)' <=> Confirmed(Rev(e))')
<1>1. e \in Edges /\ Rev(e) \in Edges /\ job[h] # None /\ StillTrue(h)
  BY AtWrite, WriteLocal DEF SoloInv
<1>2. Busy(h, e)
  BY <1>1 DEF Busy, Both
<1>3. job[h].pc \notin {"mirror", "revokeReverse"} => (Confirmed(e) <=> Confirmed(Rev(e)))
  BY <1>1, <1>2 DEF SoloInv, HalfWritten
<1>4. CASE RequestWrite(h)
  <2>1. ~Confirmed(e) /\ ~Confirmed(Rev(e)) /\ job'[h] = None
    BY <1>1, <1>3, <1>4, JobEffect DEF RequestWrite, ConfirmWrite, RevokeWrite, StillTrue, At
  <2>. QED
    BY <1>1, <1>4, <2>1, RequestEffect DEF Confirmed
<1>5. CASE RejectWrite(h)
  <2>1. ~Confirmed(e) /\ ~Confirmed(Rev(e)) /\ job'[h] = None
    BY <1>1, <1>3, <1>5, JobEffect DEF RejectWrite, ConfirmWrite, RevokeWrite, StillTrue, At, Confirmed
  <2>. QED
    BY <1>1, <1>5, <2>1, RejectEffect DEF Confirmed
<1>6. CASE ConfirmWrite(h)
  <2>1. job'[h] # None /\ job'[h].pc = "mirror" /\ job'[h].edge = e
    <3>1. job'[h] = [job[h] EXCEPT !.pc = "mirror"] /\ job[h] \in Job
      BY <1>6, JobEffect, AtWrite
    <3>2. [job[h] EXCEPT !.pc = "mirror"] \in Job
      BY <3>1 DEF Job
    <3>3. job'[h] # None
      BY <3>1, <3>2
    <3>. QED
      BY <3>1, <3>3 DEF Job
  <2>2. StatusOf(e)' = "confirmed"
    BY <1>1, <1>6, ConfirmEffect
  <2>3. rel'[e] # None /\ rel'[e].status = "confirmed"
    BY <2>2 DEF StatusOf
  <2>. QED
    BY <2>1, <2>3 DEF StillTrue, At, StatusOf, Confirmed
<1>7. CASE MirrorWrite(h)
  <2>1. Confirmed(e) /\ job'[h] = None
    BY <1>1, <1>7, JobEffect DEF MirrorWrite, ConfirmWrite, RevokeWrite, StillTrue, At, Confirmed
  <2>. QED
    BY <1>1, <1>7, <2>1, MirrorEffect DEF Confirmed
<1>8. CASE RevokeWrite(h)
  <2>1. job'[h] # None /\ job'[h].pc = "revokeReverse" /\ job'[h].edge = e
    <3>1. job'[h] = [job[h] EXCEPT !.pc = "revokeReverse"] /\ job[h] \in Job
      BY <1>8, JobEffect, AtWrite
    <3>2. [job[h] EXCEPT !.pc = "revokeReverse"] \in Job
      BY <3>1 DEF Job
    <3>3. job'[h] # None
      BY <3>1, <3>2
    <3>. QED
      BY <3>1, <3>3 DEF Job
  <2>2. StatusOf(e)' = "revoked"
    BY <1>1, <1>8, RevokeEffect
  <2>3. rel'[e] # None /\ rel'[e].status = "revoked"
    BY <2>2 DEF StatusOf
  <2>. QED
    BY <2>1, <2>3 DEF StillTrue, At, StatusOf, Confirmed
<1>9. CASE RevokeReverseWrite(h)
  <2>1. StatusOf(e) = "revoked" /\ job'[h] = None
    BY <1>1, <1>9, JobEffect DEF RevokeReverseWrite, ConfirmWrite, RevokeWrite, StillTrue, At
  <2>2. ~Confirmed(e)' /\ ~Confirmed(Rev(e))'
    BY <1>1, <1>9, <2>1, RevokeReverseEffect DEF Confirmed, StatusOf
  <2>. QED
    BY <2>1, <2>2
<1>. QED
  BY <1>4, <1>5, <1>6, <1>7, <1>8, <1>9 DEF Write

LEMMA WriteSolo ==
  ASSUME TypeOK, SoloInv, NEW h \in Handlers, Write(h)
  PROVE  SoloInv'
<1>1. PICK e \in Edges : e = job[h].edge
  BY AtWrite
<1>2. /\ disturbed' = disturbed
      /\ \A d \in Edges \ Both(e) : rel'[d] = rel[d] /\ StatusOf(d)' = StatusOf(d)
      /\ job'[h] # None => job'[h].edge = e /\ job'[h].pc \in {"mirror", "revokeReverse"}
      /\ job[h] # None
  BY <1>1, WriteLocal
<1>3. \A g \in Handlers : g # h => job'[g] = job[g]
  BY JobEffect
<1>4. \A d \in disturbed' : Rev(d) \in disturbed'
  BY <1>2 DEF SoloInv
<1>5. \A d \in Edges, g \in Handlers : Busy(g, d)' => Busy(g, d)
  BY <1>1, <1>2, <1>3 DEF Busy
<1>6. \A d \in Edges \ disturbed' : \A f, g \in Handlers : Busy(f, d)' /\ Busy(g, d)' => f = g
  BY <1>2, <1>5 DEF SoloInv
<1>7. ASSUME NEW g \in Handlers, job'[g] # None, job'[g].edge \notin disturbed'
      PROVE  StillTrue(g)'
  <2>1. CASE g = h
    BY <1>1, <1>2, <1>7, <2>1, WriteAlone
  <2>2. CASE g # h
    <3>1. job'[g] = job[g] /\ job[g] # None /\ StillTrue(g)
      BY <1>2, <1>3, <1>7, <2>2 DEF SoloInv
    <3>2. PICK d \in Edges : d = job[g].edge
      BY <3>1, JobFields
    <3>3. d \notin Both(e)
      <4>1. SUFFICES ASSUME d \in Both(e) PROVE FALSE
        OBVIOUS
      <4>2. Busy(g, d) /\ Busy(h, d) /\ d \notin disturbed
        BY <1>1, <1>2, <1>7, <3>1, <3>2, <4>1, RevFacts DEF Busy, Both
      <4>. QED
        BY <2>2, <4>2 DEF SoloInv
    <3>4. rel'[d] = rel[d] /\ StatusOf(d)' = StatusOf(d)
      BY <1>2, <3>3
    <3>. QED
      BY <3>1, <3>2, <3>4 DEF StillTrue, At, Confirmed
  <2>. QED
    BY <2>1, <2>2
<1>8. ASSUME NEW d \in Edges, d \notin disturbed', ~HalfWritten(d)'
      PROVE  Confirmed(d)' <=> Confirmed(Rev(d))'
  <2>1. CASE d \in Both(e)
    <3>1. e \notin disturbed /\ Both(d) = Both(e)
      BY <1>2, <1>8, <2>1, RevFacts DEF SoloInv, Both
    <3>2. job'[h] = None
      <4>1. SUFFICES ASSUME job'[h] # None PROVE FALSE
        OBVIOUS
      <4>2. Busy(h, d)' /\ job'[h].pc \in {"mirror", "revokeReverse"}
        BY <1>2, <3>1, <4>1 DEF Busy, Both
      <4>. QED
        BY <1>8, <4>2 DEF HalfWritten
    <3>3. Confirmed(e)' <=> Confirmed(Rev(e))'
      BY <1>1, <3>1, <3>2, WriteAlone
    <3>. QED
      BY <2>1, <3>3, RevFacts DEF Both, Confirmed
  <2>2. CASE d \notin Both(e)
    <3>1. Rev(d) \in Edges \ Both(e) /\ d \notin disturbed
      BY <1>2, <1>8, <2>2, RevFacts DEF Both
    <3>2. ~HalfWritten(d)
      <4>1. SUFFICES ASSUME HalfWritten(d) PROVE FALSE
        OBVIOUS
      <4>2. PICK g \in Handlers : Busy(g, d) /\ job[g].pc \in {"mirror", "revokeReverse"}
        BY <4>1 DEF HalfWritten
      <4>3. g # h
        BY <1>1, <2>2, <4>2, RevFacts DEF Busy, Both
      <4>. QED
        BY <1>3, <1>8, <4>2, <4>3 DEF HalfWritten, Busy
    <3>. QED
      BY <1>2, <2>2, <3>1, <3>2 DEF SoloInv, Confirmed
  <2>. QED
    BY <2>1, <2>2
<1>. QED
  BY <1>4, <1>6, <1>7, <1>8 DEF SoloInv

LEMMA CutShortSolo ==
  ASSUME TypeOK, SoloInv, NEW h \in Handlers, CutShort(h)
  PROVE  SoloInv'
<1>1. PICK e \in Edges : e = job[h].edge
  BY JobFields DEF CutShort
<1>2. /\ rel' = rel
      /\ disturbed' = disturbed \cup Both(e)
      /\ \A d \in Edges : StatusOf(d)' = StatusOf(d)
  BY <1>1 DEF CutShort, StatusOf
<1>3. \A g \in Handlers : job'[g] = IF g = h THEN None ELSE job[g]
  BY DEF TypeOK, CutShort, Done
<1>4. \A d \in disturbed' : Rev(d) \in disturbed'
  BY <1>2, RevFacts DEF SoloInv, Both
<1>5. \A d \in Edges, g \in Handlers : Busy(g, d)' => Busy(g, d)
  BY <1>3 DEF Busy
<1>6. \A g \in Handlers : job'[g] # None /\ job'[g].edge \notin disturbed' => StillTrue(g)'
  <2>1. SUFFICES ASSUME NEW g \in Handlers, job'[g] # None, job'[g].edge \notin disturbed'
                 PROVE  StillTrue(g)'
    OBVIOUS
  <2>2. job'[g] = job[g] /\ job[g] # None /\ job[g].edge \in Edges /\ StillTrue(g)
    BY <1>2, <1>3, <2>1, JobFields DEF SoloInv
  <2>. QED
    BY <1>2, <2>2 DEF StillTrue, At, Confirmed
<1>7. ASSUME NEW d \in Edges, d \notin disturbed', ~HalfWritten(d)'
      PROVE  Confirmed(d)' <=> Confirmed(Rev(d))'
  <2>1. ~HalfWritten(d)
    <3>1. SUFFICES ASSUME HalfWritten(d) PROVE FALSE
      OBVIOUS
    <3>2. PICK g \in Handlers : Busy(g, d) /\ job[g].pc \in {"mirror", "revokeReverse"}
      BY <3>1 DEF HalfWritten
    <3>3. g # h
      BY <1>1, <1>2, <1>7, <3>2, RevFacts DEF Busy, Both
    <3>. QED
      BY <1>3, <1>7, <3>2, <3>3 DEF HalfWritten, Busy
  <2>. QED
    BY <1>2, <1>7, <2>1, RevFacts DEF SoloInv, Confirmed
<1>. QED
  BY <1>2, <1>4, <1>5, <1>6, <1>7 DEF SoloInv

LEMMA NextSolo ==
  ASSUME TypeOK, SoloInv, [Next]_vars
  PROVE  SoloInv'
<1>1. CASE UNCHANGED vars
  BY <1>1 DEF SoloInv, HalfWritten, StillTrue, Confirmed, StatusOf, Busy, At, vars
<1>2. ASSUME NEW h \in Handlers, NEW u \in Users, NEW v \in Users, NEW k \in Kinds,
             NEW s \in Subtypes \cup {None}, Request(h, u, v, k, s)
      PROVE  SoloInv'
  <2>. DEFINE e == [from |-> u, to |-> v, kind |-> k]
              j == [pc |-> "request", by |-> u, edge |-> e, subtype |-> s, found |-> rel[e] # None]
  <2>1. j \in Job /\ Start(h, j) /\ j.edge.from # j.edge.to /\ ~Confirmed(j.edge)
    BY <1>2 DEF Job, Edges, Request, Requestable, Confirmed
  <2>. QED
    BY <2>1, StartSolo
<1>3. ASSUME NEW h \in Handlers, NEW u \in Users, NEW e \in Edges,
             NEW pc \in {"confirm", "reject"}, Respond(h, u, e, pc)
      PROVE  SoloInv'
  <2>. DEFINE j == [pc |-> pc, by |-> u, edge |-> e, subtype |-> rel[e].subtype, found |-> TRUE]
  <2>1. rel[e] \in Row
    BY <1>3 DEF Respond, Answerable, TypeOK
  <2>2. j \in Job /\ Start(h, j) /\ StatusOf(j.edge) = "pending"
    BY <1>3, <2>1 DEF Job, Row, Respond, Answerable, StatusOf
  <2>. QED
    BY <2>2, StartSolo
<1>4. ASSUME NEW h \in Handlers, NEW u \in Users, NEW e \in Edges, Revoke(h, u, e)
      PROVE  SoloInv'
  <2>. DEFINE j == [pc |-> "revoke", by |-> u, edge |-> e, subtype |-> None, found |-> TRUE]
  <2>1. j \in Job /\ Start(h, j) /\ rel[j.edge] # None
    BY <1>4 DEF Job, Revoke
  <2>. QED
    BY <2>1, StartSolo
<1>. QED
  BY <1>1, <1>2, <1>3, <1>4, WriteSolo, CutShortSolo DEF Next

LEMMA SoloAlways == Spec => [](TypeOK /\ SoloInv)
<1>1. Init => TypeOK /\ SoloInv
  BY DEF Init, TypeOK, RowsStay, SoloInv, HalfWritten, Confirmed, StatusOf, Busy, At, Edges, Rev
<1>2. TypeOK /\ SoloInv /\ [Next]_vars => (TypeOK /\ SoloInv)'
  BY NextTypeOK, NextSolo
<1>. QED
  BY <1>1, <1>2, PTL DEF Spec

\* While nobody overlaps or fails on a relation, one handler at most is at it, acts
\* on what it read as long as that is so, and alone keeps its two directions apart,
\* between its two writes (request, respond and revoke read before they write).
THEOREM UndisturbedIsAtomic == Spec => []SoloInv
BY SoloAlways, PTL

\* While nobody overlaps or fails on a relation, its two directions are
\* confirmed together once the handler is done, whatever happens to others
\* (the mirror of respond() and the second update of revoke()).
THEOREM MutualSafety == Spec => []MutualUnlessDisturbed
<1>1. TypeOK /\ SoloInv => MutualUnlessDisturbed
  BY DEF SoloInv, MutualUnlessDisturbed, Idle, HalfWritten
<1>. QED
  BY <1>1, SoloAlways, PTL

-----------------------------------------------------------------------------
\* How many handlers are still to answer an edge.
LEMMA Counting ==
  ASSUME NEW A \in SUBSET Handlers
  PROVE  /\ Cardinality(Handlers) \in Nat
         /\ Cardinality(A) \in Nat /\ Cardinality(A) =< Cardinality(Handlers)
         /\ \A B \in SUBSET A : Cardinality(B) \in Nat /\ Cardinality(B) =< Cardinality(A)
         /\ \A h \in A : Cardinality(A \ {h}) = Cardinality(A) - 1
<1>1. IsFiniteSet(A)
  BY HandlersAssumption, FS_Subset
<1>2. \A B \in SUBSET A : Cardinality(B) \in Nat /\ Cardinality(B) =< Cardinality(A)
  BY <1>1, FS_Subset, FS_CardinalityType
<1>3. \A h \in A : Cardinality(A \ {h}) = Cardinality(A) - 1
  BY <1>1, FS_RemoveElement
<1>. QED
  BY <1>1, <1>2, <1>3, HandlersAssumption, FS_Subset, FS_CardinalityType

LEMMA AnsweringHandlers == \A e : Answering(e) \subseteq Handlers /\ Answering(e)' \subseteq Handlers
BY DEF Answering

\* Who starts to answer read a pending row, which has no answer yet.
LEMMA StartAnswers ==
  ASSUME TypeOK, AnswersInv, NEW h \in Handlers, NEW j \in Job, Start(h, j),
         j.pc \in {"confirm", "reject"} => StatusOf(j.edge) = "pending"
  PROVE  AnswersInv'
<1>. SUFFICES ASSUME NEW e \in Edges
              PROVE  /\ StatusOf(e)' = "pending" => answers'[e] = 0
                     /\ answers'[e] + Cardinality(Answering(e)') =< Cardinality(Handlers)
  BY DEF AnswersInv
<1>1. StatusOf(e)' = StatusOf(e) /\ answers'[e] = answers[e]
  BY DEF Start, StatusOf
<1>2. \A g \in Handlers : job'[g] = IF g = h THEN j ELSE job[g]
  BY DEF Start, TypeOK
<1>3. job[h] = None
  BY DEF Start
<1>4. CASE j.pc \in {"confirm", "reject"} /\ j.edge = e
  <2>1. answers'[e] = 0
    BY <1>1, <1>4 DEF AnswersInv
  <2>. QED
    BY <2>1, AnsweringHandlers, Counting
<1>5. CASE ~(j.pc \in {"confirm", "reject"} /\ j.edge = e)
  <2>1. Answering(e)' = Answering(e)
    BY <1>2, <1>3, <1>5 DEF Answering, At
  <2>. QED
    BY <1>1, <2>1 DEF AnswersInv
<1>. QED
  BY <1>4, <1>5

\* Who writes an answer is no longer to write one.
LEMMA WriteAnswers ==
  ASSUME TypeOK, AnswersInv, NEW h \in Handlers, Write(h)
  PROVE  AnswersInv'
<1>. DEFINE answering == ConfirmWrite(h) \/ RejectWrite(h)
<1>. SUFFICES ASSUME NEW e \in Edges
              PROVE  /\ StatusOf(e)' = "pending" => answers'[e] = 0
                     /\ answers'[e] + Cardinality(Answering(e)') =< Cardinality(Handlers)
  BY DEF AnswersInv
<1>1. job'[h] = None \/ job'[h].pc \in {"mirror", "revokeReverse"}
  BY JobEffect, AtWrite DEF Job
<1>2. \A g \in Handlers : g # h => job'[g] = job[g]
  BY JobEffect
<1>3. Answering(e)' = Answering(e) \ {h}
  BY <1>1, <1>2 DEF Answering, At
<1>4. answers[e] \in Nat /\ answers[e] + Cardinality(Answering(e)) =< Cardinality(Handlers)
  BY DEF TypeOK, AnswersInv
<1>5. /\ Cardinality(Handlers) \in Nat
      /\ Cardinality(Answering(e)) \in Nat
      /\ Cardinality(Answering(e)') \in Nat
      /\ Cardinality(Answering(e)') =< Cardinality(Answering(e))
      /\ Cardinality(Answering(e)') =< Cardinality(Handlers)
      /\ h \in Answering(e) => Cardinality(Answering(e)') = Cardinality(Answering(e)) - 1
  <2>1. Answering(e) \ {h} \in SUBSET Answering(e) /\ Answering(e) \in SUBSET Handlers
        /\ Answering(e) \ {h} \in SUBSET Handlers
    BY AnsweringHandlers
  <2>. QED
    BY <1>3, <2>1, Counting
<1>6. CASE RequestWrite(h) /\ e = job[h].edge /\ (job[h].found \/ rel[e] = None)
  <2>1. answers'[e] = 0
    BY <1>6, AnswersEffect
  <2>. QED
    BY <1>5, <2>1
<1>7. CASE answering /\ e = job[h].edge
  <2>1. ~RequestWrite(h)
    BY <1>7 DEF ConfirmWrite, RejectWrite, RequestWrite, At
  <2>2. answers'[e] = answers[e] + 1
    BY <1>7, <2>1, AnswersEffect
  <2>3. StatusOf(e)' # "pending"
    BY <1>7, ConfirmEffect, RejectEffect
  <2>4. h \in Answering(e)
    BY <1>7 DEF ConfirmWrite, RejectWrite, Answering
  <2>. QED
    BY <1>4, <1>5, <2>2, <2>3, <2>4
<1>8. CASE /\ ~(RequestWrite(h) /\ e = job[h].edge /\ (job[h].found \/ rel[e] = None))
           /\ ~(answering /\ e = job[h].edge)
  <2>1. answers'[e] = answers[e]
    BY <1>8, AnswersEffect
  <2>2. StatusOf(e)' = "pending" => StatusOf(e) = "pending"
    BY <1>8, RequestEffect, RejectEffect, ConfirmEffect, MirrorEffect, RevokeEffect,
       RevokeReverseEffect DEF Write
  <2>. QED
    BY <1>4, <1>5, <2>1, <2>2 DEF AnswersInv
<1>. QED
  BY <1>6, <1>7, <1>8

LEMMA CutShortAnswers ==
  ASSUME TypeOK, AnswersInv, NEW h \in Handlers, CutShort(h)
  PROVE  AnswersInv'
<1>. SUFFICES ASSUME NEW e \in Edges
              PROVE  /\ StatusOf(e)' = "pending" => answers'[e] = 0
                     /\ answers'[e] + Cardinality(Answering(e)') =< Cardinality(Handlers)
  BY DEF AnswersInv
<1>1. StatusOf(e)' = StatusOf(e) /\ answers'[e] = answers[e]
  BY DEF CutShort, StatusOf
<1>2. \A g \in Handlers : job'[g] = IF g = h THEN None ELSE job[g]
  BY DEF TypeOK, CutShort, Done
<1>3. Answering(e)' \subseteq Answering(e)
  BY <1>2 DEF Answering, At
<1>4. /\ Cardinality(Handlers) \in Nat /\ Cardinality(Answering(e)) \in Nat
      /\ Cardinality(Answering(e)') \in Nat
      /\ Cardinality(Answering(e)') =< Cardinality(Answering(e))
  BY <1>3, AnsweringHandlers, Counting
<1>5. answers[e] \in Nat /\ answers[e] + Cardinality(Answering(e)) =< Cardinality(Handlers)
  BY DEF TypeOK, AnswersInv
<1>6. StatusOf(e) = "pending" => answers[e] = 0
  BY DEF AnswersInv
<1>7. answers'[e] + Cardinality(Answering(e)') =< Cardinality(Handlers)
  BY <1>1, <1>4, <1>5
<1>. QED
  BY <1>1, <1>6, <1>7

LEMMA NextAnswers ==
  ASSUME TypeOK, AnswersInv, [Next]_vars
  PROVE  AnswersInv'
<1>1. CASE UNCHANGED vars
  <2>1. \A e \in Edges : StatusOf(e)' = StatusOf(e) /\ answers'[e] = answers[e]
                          /\ Answering(e)' = Answering(e)
    BY <1>1 DEF vars, StatusOf, Answering, At
  <2>. QED
    BY <2>1 DEF AnswersInv
<1>2. ASSUME NEW h \in Handlers, NEW u \in Users, NEW v \in Users, NEW k \in Kinds,
             NEW s \in Subtypes \cup {None}, Request(h, u, v, k, s)
      PROVE  AnswersInv'
  <2>. DEFINE e == [from |-> u, to |-> v, kind |-> k]
              j == [pc |-> "request", by |-> u, edge |-> e, subtype |-> s, found |-> rel[e] # None]
  <2>1. j \in Job /\ Start(h, j)
    BY <1>2 DEF Job, Edges, Request
  <2>. QED
    BY <2>1, StartAnswers
<1>3. ASSUME NEW h \in Handlers, NEW u \in Users, NEW e \in Edges,
             NEW pc \in {"confirm", "reject"}, Respond(h, u, e, pc)
      PROVE  AnswersInv'
  <2>. DEFINE j == [pc |-> pc, by |-> u, edge |-> e, subtype |-> rel[e].subtype, found |-> TRUE]
  <2>1. rel[e] \in Row
    BY <1>3 DEF Respond, Answerable, TypeOK
  <2>2. j \in Job /\ Start(h, j)
    BY <1>3, <2>1 DEF Job, Row, Respond
  <2>3. StatusOf(e) = "pending"
    BY <1>3 DEF Respond, Answerable, StatusOf
  <2>. QED
    BY <2>2, <2>3, StartAnswers
<1>4. ASSUME NEW h \in Handlers, NEW u \in Users, NEW e \in Edges, Revoke(h, u, e)
      PROVE  AnswersInv'
  <2>. DEFINE j == [pc |-> "revoke", by |-> u, edge |-> e, subtype |-> None, found |-> TRUE]
  <2>1. j \in Job /\ Start(h, j)
    BY <1>4 DEF Job, Revoke
  <2>. QED
    BY <2>1, StartAnswers
<1>. QED
  BY <1>1, <1>2, <1>3, <1>4, WriteAnswers, CutShortAnswers DEF Next

LEMMA AnswersAlways == Spec => [](TypeOK /\ AnswersInv)
<1>1. Init => TypeOK /\ AnswersInv
  <2>1. Init => TypeOK
    BY DEF Init, TypeOK, RowsStay
  <2>2. ASSUME Init PROVE AnswersInv
    <3>1. \A e \in Edges : answers[e] = 0 /\ Answering(e) = {}
      BY <2>2 DEF Init, Answering, At
    <3>2. Cardinality({}) = 0 /\ Cardinality(Handlers) \in Nat
      BY FS_EmptySet, Counting
    <3>3. ASSUME NEW e \in Edges
          PROVE  answers[e] = 0 /\ answers[e] + Cardinality(Answering(e)) =< Cardinality(Handlers)
      <4>1. answers[e] = 0 /\ Cardinality(Answering(e)) = 0
        BY <3>1, <3>2
      <4>. QED
        BY <3>2, <4>1
    <3>. QED
      BY <3>3 DEF AnswersInv
  <2>. QED
    BY <2>1, <2>2
<1>2. TypeOK /\ AnswersInv /\ [Next]_vars => (TypeOK /\ AnswersInv)'
  BY NextTypeOK, NextAnswers
<1>. QED
  BY <1>1, <1>2, PTL DEF Spec

\* Between two requests an edge is answered at most as often as the server runs
\* requests at once, whatever overlaps: respond() turns away everybody who reads
\* the row after the first answer (line 64), though not those who read before.
THEOREM AnswersAreBounded == Spec => []AnswersBounded
<1>1. TypeOK /\ AnswersInv => AnswersBounded
  <2>. SUFFICES ASSUME TypeOK, AnswersInv, NEW e \in Edges
                PROVE  answers[e] =< Cardinality(Handlers)
    BY DEF AnswersBounded
  <2>1. Cardinality(Answering(e)) \in Nat /\ Cardinality(Handlers) \in Nat
    BY AnsweringHandlers, Counting
  <2>2. answers[e] \in Nat /\ answers[e] + Cardinality(Answering(e)) =< Cardinality(Handlers)
    BY DEF TypeOK, AnswersInv
  <2>. QED
    BY <2>1, <2>2
<1>. QED
  BY <1>1, AnswersAlways, PTL
-----------------------------------------------------------------------------
\* The refinement. Instantiating Relationship renames what it takes from
\* RelationStore; the definitions are the same.
LEMMA SameStore ==
  /\ Promise!Edges = Edges
  /\ \A e \in Edges : Promise!Rev(e) = Rev(e) /\ Promise!Both(e) = Both(e)
BY DEF Promise!Edges, Edges, Promise!Rev, Rev, Promise!Both, Both

\* Some handler owes the write pc to d, the reverse of its job's edge.
Owed(d, pc) == \E g \in Handlers : At(g, pc) /\ Rev(job[g].edge) = d

PromisedAt(d) ==
  IF d \in disturbed THEN "unspecified"
  ELSE IF Owed(d, "mirror") THEN "confirmed"
  ELSE IF rel[d] # None /\ Owed(d, "revokeReverse") THEN "revoked"
  ELSE StatusOf(d)

LEMMA PromisedIs ==
  ASSUME NEW d \in Edges
  PROVE  /\ Promised[d] = PromisedAt(d)
         /\ Promised'[d] = PromisedAt(d)'
BY DEF Promised, PromisedAt, Owed

\* On an undisturbed relation only its one handler can owe a write.
LEMMA OwedAlone ==
  ASSUME TypeOK, SoloInv, NEW h \in Handlers, NEW e \in Edges, job[h] # None,
         job[h].edge = e, e \notin disturbed, NEW d \in Both(e), NEW pc
  PROVE  Owed(d, pc) <=> At(h, pc) /\ Rev(e) = d
<1>1. ASSUME NEW g \in Handlers, At(g, pc), Rev(job[g].edge) = d
      PROVE  g = h
  <2>1. job[g] # None /\ job[g].edge \in Edges
    BY <1>1, JobFields DEF At
  <2>2. job[g].edge \in Both(e)
    BY <1>1, <2>1, RevFacts DEF Both
  <2>3. Busy(g, e) /\ Busy(h, e)
    BY <2>1, <2>2 DEF Busy, Both
  <2>. QED
    BY <2>3 DEF SoloInv
<1>. QED
  BY <1>1 DEF Owed

\* Nothing is promised anew of the relations a write does not touch.
LEMMA PromisedElsewhere ==
  ASSUME TypeOK, NEW h \in Handlers, Write(h), NEW d \in Edges \ Both(job[h].edge)
  PROVE  Promised'[d] = Promised[d]
<1>1. PICK e \in Edges : e = job[h].edge
  BY AtWrite
<1>2. /\ disturbed' = disturbed
      /\ rel'[d] = rel[d] /\ StatusOf(d)' = StatusOf(d)
      /\ job'[h] # None => job'[h].edge = e
  BY <1>1, WriteLocal
<1>3. \A g \in Handlers : g # h => job'[g] = job[g]
  BY JobEffect
<1>4. Rev(e) # d
  BY <1>1 DEF Both
<1>5. \A pc : Owed(d, pc)' <=> Owed(d, pc)
  BY <1>1, <1>2, <1>3, <1>4 DEF Owed, At
<1>. QED
  BY <1>2, <1>5, PromisedIs DEF PromisedAt

\* A handler's start is a stutter of the promise, or disturbs the relation.
LEMMA StartRefines ==
  ASSUME TypeOK, NEW h \in Handlers, NEW j \in Job, Start(h, j),
         j.pc \in {"request", "confirm", "reject", "revoke"}
  PROVE  [Promise!Next]_Promised
<1>1. PICK e \in Edges : e = j.edge
  BY DEF Job
<1>2. /\ rel' = rel
      /\ \A d \in Edges : StatusOf(d)' = StatusOf(d)
      /\ \A g \in Handlers : job'[g] = IF g = h THEN j ELSE job[g]
      /\ job[h] = None
  BY DEF TypeOK, Start, StatusOf
<1>3. \A d \in Edges, pc \in {"mirror", "revokeReverse"} : Owed(d, pc)' <=> Owed(d, pc)
  BY <1>2 DEF Owed, At
<1>4. CASE \E g \in Handlers : Busy(g, e)
  <2>1. disturbed' = disturbed \cup Both(e)
    BY <1>1, <1>4 DEF Start
  <2>2. \A d \in Edges : Promised'[d] = IF d \in Both(e) THEN "unspecified" ELSE Promised[d]
    BY <1>2, <1>3, <2>1, PromisedIs DEF PromisedAt
  <2>3. Promised' = [d \in Edges |-> IF d \in Both(e) THEN "unspecified" ELSE Promised[d]]
    BY <2>2 DEF Promised
  <2>4. Promise!Disturb(e)
    BY <2>3, SameStore DEF Promise!Disturb
  <2>. QED
    BY <2>4, SameStore DEF Promise!Next
<1>5. CASE ~\E g \in Handlers : Busy(g, e)
  <2>1. disturbed' = disturbed
    BY <1>1, <1>5 DEF Start
  <2>2. \A d \in Edges : Promised'[d] = Promised[d]
    BY <1>2, <1>3, <2>1, PromisedIs DEF PromisedAt
  <2>. QED
    BY <2>2 DEF Promised
<1>. QED
  BY <1>4, <1>5

LEMMA CutShortRefines ==
  ASSUME TypeOK, NEW h \in Handlers, CutShort(h)
  PROVE  [Promise!Next]_Promised
<1>1. PICK e \in Edges : e = job[h].edge
  BY JobFields DEF CutShort
<1>2. /\ rel' = rel
      /\ disturbed' = disturbed \cup Both(e)
      /\ \A d \in Edges : StatusOf(d)' = StatusOf(d)
      /\ \A g \in Handlers : job'[g] = IF g = h THEN None ELSE job[g]
  BY <1>1 DEF TypeOK, CutShort, Done, StatusOf
<1>3. \A d \in Edges \ Both(e) : \A pc : Owed(d, pc)' <=> Owed(d, pc)
  BY <1>1, <1>2 DEF Owed, At, Both
<1>4. \A d \in Edges : Promised'[d] = IF d \in Both(e) THEN "unspecified" ELSE Promised[d]
  BY <1>2, <1>3, PromisedIs DEF PromisedAt
<1>5. Promised' = [d \in Edges |-> IF d \in Both(e) THEN "unspecified" ELSE Promised[d]]
  BY <1>4 DEF Promised
<1>6. Promise!Disturb(e)
  BY <1>5, SameStore DEF Promise!Disturb
<1>. QED
  BY <1>6, SameStore DEF Promise!Next

\* On a relation disturbed already, a write changes nothing that is promised.
LEMMA DisturbedWriteRefines ==
  ASSUME TypeOK, SoloInv, NEW h \in Handlers, Write(h), job[h].edge \in disturbed
  PROVE  UNCHANGED Promised
<1>1. PICK e \in Edges : e = job[h].edge
  BY AtWrite
<1>2. \A d \in Both(e) : d \in Edges /\ d \in disturbed /\ d \in disturbed'
  BY <1>1, WriteLocal, RevFacts DEF SoloInv, Both
<1>3. \A d \in Edges : Promised'[d] = Promised[d]
  BY <1>1, <1>2, PromisedElsewhere, PromisedIs DEF PromisedAt
<1>. QED
  BY <1>3 DEF Promised

\* The handler that made its first write is at its second.
LEMMA GotoAt ==
  ASSUME TypeOK, NEW h \in Handlers, job[h] # None,
         NEW pc \in {"mirror", "revokeReverse"}, Goto(h, pc)
  PROVE  At(h, pc)'
<1>1. job[h] \in Job
  BY DEF TypeOK
<1>2. [job[h] EXCEPT !.pc = pc] \in Job /\ [job[h] EXCEPT !.pc = pc].pc = pc
  BY <1>1 DEF Job
<1>3. [job[h] EXCEPT !.pc = pc] # None
  BY <1>2
<1>4. job'[h] = [job[h] EXCEPT !.pc = pc]
  BY DEF TypeOK, Goto
<1>. QED
  BY <1>2, <1>3, <1>4 DEF At

\* The promise of an undisturbed relation, before and after its handler writes.
LEMMA PromisedAlone ==
  ASSUME TypeOK, SoloInv, NEW h \in Handlers, Write(h),
         NEW e \in Edges, e = job[h].edge, e \notin disturbed, NEW d \in Both(e)
  PROVE  /\ Promised[d] = IF At(h, "mirror") /\ d = Rev(e) THEN "confirmed"
                          ELSE IF rel[d] # None /\ At(h, "revokeReverse") /\ d = Rev(e) THEN "revoked"
                          ELSE StatusOf(d)
         /\ Promised'[d] = IF At(h, "mirror")' /\ d = Rev(e) THEN "confirmed"
                           ELSE IF rel'[d] # None /\ At(h, "revokeReverse")' /\ d = Rev(e)
                             THEN "revoked"
                           ELSE StatusOf(d)'
<1>1. d \in Edges /\ d \notin disturbed /\ job[h] # None /\ disturbed' = disturbed
  BY WriteLocal, RevFacts DEF SoloInv, Both
<1>2. \A pc : Owed(d, pc) <=> At(h, pc) /\ d = Rev(e)
  BY <1>1, OwedAlone
<1>3. \A pc : Owed(d, pc)' <=> At(h, pc)' /\ d = Rev(e)
  <2>1. \A g \in Handlers : \A pc : g # h => ~(At(g, pc)' /\ Rev(job'[g].edge) = d)
    <3>1. SUFFICES ASSUME NEW g \in Handlers, g # h, job[g] # None, Rev(job[g].edge) = d
                   PROVE  FALSE
      BY JobEffect DEF At
    <3>2. job[g].edge \in Both(e) /\ job[g].edge \in Edges
      BY <3>1, JobFields, RevFacts DEF Both
    <3>3. Busy(g, e) /\ Busy(h, e)
      BY <1>1, <3>1, <3>2 DEF Busy, Both
    <3>. QED
      BY <3>1, <3>3 DEF SoloInv
  <2>2. \A pc : At(h, pc)' => job'[h].edge = e
    BY WriteLocal DEF At
  <2>. QED
    BY <2>1, <2>2 DEF Owed
<1>. QED
  BY <1>1, <1>2, <1>3, PromisedIs DEF PromisedAt

LEMMA AloneWriteRefines ==
  ASSUME TypeOK, SoloInv, NEW h \in Handlers, Write(h), job[h].edge \notin disturbed
  PROVE  [Promise!Next]_Promised
<1>1. PICK e \in Edges : e = job[h].edge
  BY AtWrite
<1>2. Rev(e) \in Edges /\ e \in Both(e) /\ Rev(e) \in Both(e) /\ StillTrue(h) /\ e \notin disturbed
  BY <1>1, AtWrite, WriteLocal DEF SoloInv, Both
<1>3. \A d \in Edges \ Both(e) : Promised'[d] = Promised[d]
  BY <1>1, PromisedElsewhere
<1>4. /\ \A d \in Both(e) : job[h].pc \notin {"mirror", "revokeReverse"} => Promised[d] = StatusOf(d)
      /\ \A d \in Both(e) : job'[h] = None => Promised'[d] = StatusOf(d)'
  BY <1>1, <1>2, PromisedAlone DEF At
<1>5. DOMAIN Promised = Edges /\ DOMAIN Promised' = Edges
  BY DEF Promised
<1>6. ASSUME NEW s, ~(\E d \in Both(e) : d # e /\ Promised'[d] # Promised[d]), Promised'[e] = s
      PROVE  Promised' = [Promised EXCEPT ![e] = s]
  <2>1. \A d \in Edges : Promised'[d] = IF d = e THEN s ELSE Promised[d]
    BY <1>3, <1>6
  <2>. QED
    BY <2>1 DEF Promised
<1>7. CASE RequestWrite(h)
  <2>1. /\ e.from # e.to /\ ~Confirmed(e) /\ job'[h] = None
        /\ job[h].pc = "request"
    BY <1>1, <1>2, <1>7, JobEffect DEF RequestWrite, ConfirmWrite, RevokeWrite, StillTrue, At
  <2>2. Promised[e] = StatusOf(e) /\ StatusOf(e) \notin {"confirmed", "unspecified"}
    <3>1. StatusOf(e) # "unspecified"
      BY DEF TypeOK, StatusOf, Row, Statuses
    <3>. QED
      BY <1>2, <1>4, <2>1, <3>1 DEF Confirmed
  <2>3. \A d \in Both(e) : d # e => Promised'[d] = Promised[d]
    BY <1>1, <1>2, <1>4, <1>7, <2>1, RequestEffect DEF Both
  <2>4. Promised'[e] \in {"pending", Promised[e]}
    BY <1>1, <1>2, <1>4, <1>7, <2>1, RequestEffect
  <2>5. CASE Promised'[e] = "pending"
    <3>1. Promise!Ask(e)
      BY <1>6, <2>1, <2>2, <2>3, <2>5 DEF Promise!Ask
    <3>. QED
      BY <3>1, SameStore DEF Promise!Next
  <2>6. CASE Promised'[e] = Promised[e]
    <3>1. \A d \in Edges : Promised'[d] = Promised[d]
      BY <1>3, <2>3, <2>6
    <3>. QED
      BY <3>1 DEF Promised
  <2>. QED
    BY <2>4, <2>5, <2>6
<1>8. CASE RejectWrite(h)
  <2>1. StatusOf(e) = "pending" /\ job'[h] = None /\ job[h].pc = "reject"
    BY <1>1, <1>2, <1>8, JobEffect DEF RejectWrite, ConfirmWrite, RevokeWrite, StillTrue, At
  <2>2. Promised'[e] = "rejected" /\ \A d \in Both(e) : d # e => Promised'[d] = Promised[d]
    BY <1>1, <1>2, <1>4, <1>8, <2>1, RejectEffect DEF Both
  <2>3. Promise!Decline(e)
    BY <1>2, <1>4, <1>6, <2>1, <2>2 DEF Promise!Decline
  <2>. QED
    BY <2>3, SameStore DEF Promise!Next
<1>9. CASE ConfirmWrite(h)
  <2>1. StatusOf(e) = "pending" /\ job[h].pc = "confirm"
    BY <1>1, <1>2, <1>9 DEF ConfirmWrite, StillTrue, At
  <2>2. At(h, "mirror")'
    BY <1>9, GotoAt DEF ConfirmWrite, At
  <2>3. Promised'[Rev(e)] = "confirmed"
    BY <1>1, <1>2, <2>2, PromisedAlone
  <2>4. Promised'[e] = "confirmed"
    BY <1>1, <1>2, <1>9, <2>2, PromisedAlone, ConfirmEffect DEF At
  <2>5. \A d \in Edges : Promised'[d] = IF d \in Both(e) THEN "confirmed" ELSE Promised[d]
    BY <1>3, <2>3, <2>4 DEF Both
  <2>6. Promised' = [d \in Edges |-> IF d \in Both(e) THEN "confirmed" ELSE Promised[d]]
    BY <2>5 DEF Promised
  <2>7. Promise!Accept(e)
    BY <1>2, <1>4, <2>1, <2>6, SameStore DEF Promise!Accept
  <2>. QED
    BY <2>7, SameStore DEF Promise!Next
<1>10. CASE MirrorWrite(h)
  <2>1. StatusOf(e) = "confirmed" /\ At(h, "mirror") /\ job'[h] = None
    BY <1>1, <1>2, <1>10, JobEffect DEF MirrorWrite, ConfirmWrite, RevokeWrite, StillTrue, At
  <2>2. Promised[Rev(e)] = "confirmed" /\ Promised[e] = "confirmed"
    BY <1>1, <1>2, <2>1, PromisedAlone DEF At
  <2>3. Promised'[Rev(e)] = "confirmed" /\ Promised'[e] = "confirmed"
    BY <1>1, <1>2, <1>4, <1>10, <2>1, MirrorEffect
  <2>4. \A d \in Edges : Promised'[d] = Promised[d]
    BY <1>3, <2>2, <2>3 DEF Both
  <2>. QED
    BY <2>4 DEF Promised
<1>11. CASE RevokeWrite(h)
  <2>1. rel[e] # None /\ job[h].pc = "revoke"
    BY <1>1, <1>2, <1>11 DEF RevokeWrite, StillTrue, At
  <2>2. At(h, "revokeReverse")'
    BY <1>11, GotoAt DEF RevokeWrite, At
  <2>3. StatusOf(e)' = "revoked" /\ \A d \in Both(e) : d # e => StatusOf(d)' = StatusOf(d)
    BY <1>1, <1>2, <1>11, RevokeEffect DEF Both
  <2>4. Promised'[e] = "revoked"
    BY <1>1, <1>2, <2>2, <2>3, PromisedAlone DEF At
  <2>5. Promised'[Rev(e)] = IF Promised[Rev(e)] = "none" THEN "none" ELSE "revoked"
    <3>1. Promised[Rev(e)] = StatusOf(Rev(e))
      BY <1>2, <1>4, <2>1
    <3>2. StatusOf(Rev(e)) = "none" <=> rel[Rev(e)] = None
      BY <1>2 DEF TypeOK, StatusOf, Row, Statuses
    <3>3. CASE Rev(e) = e
      BY <2>1, <2>4, <3>1, <3>2, <3>3
    <3>4. CASE Rev(e) # e
      <4>1. StatusOf(Rev(e))' = StatusOf(Rev(e)) /\ (rel'[Rev(e)] = None <=> rel[Rev(e)] = None)
        BY <1>1, <1>2, <1>11, <2>3, <3>4 DEF TypeOK, RevokeWrite, SetStatus
      <4>. QED
        BY <1>1, <1>2, <2>2, <3>1, <3>2, <4>1, PromisedAlone DEF At
    <3>. QED
      BY <3>3, <3>4
  <2>6. Promised[e] = StatusOf(e) /\ StatusOf(e) \notin {"none", "unspecified"}
    BY <1>2, <1>4, <2>1 DEF TypeOK, StatusOf, Row, Statuses
  <2>7. \A d \in Edges : Promised'[d] = IF d \in Both(e) /\ Promised[d] # "none"
                                         THEN "revoked" ELSE Promised[d]
    BY <1>3, <2>4, <2>5, <2>6 DEF Both
  <2>8. Promised' = [d \in Edges |-> IF d \in Both(e) /\ Promised[d] # "none"
                                       THEN "revoked" ELSE Promised[d]]
    BY <2>7 DEF Promised
  <2>9. Promise!End(e)
    BY <1>2, <2>6, <2>8, SameStore DEF Promise!End
  <2>. QED
    BY <2>9, SameStore DEF Promise!Next
<1>12. CASE RevokeReverseWrite(h)
  <2>1. StatusOf(e) = "revoked" /\ rel[e] # None /\ At(h, "revokeReverse") /\ job'[h] = None
    BY <1>1, <1>2, <1>12, JobEffect
       DEF RevokeReverseWrite, ConfirmWrite, RevokeWrite, StillTrue, StatusOf, At
  <2>2. Promised[Rev(e)] = IF rel[Rev(e)] # None THEN "revoked" ELSE "none"
    BY <1>1, <1>2, <2>1, PromisedAlone DEF At, StatusOf
  <2>3. Promised[e] = "revoked"
    BY <1>1, <1>2, <2>1, PromisedAlone DEF At
  <2>4. Promised'[e] = "revoked"
    BY <1>1, <1>2, <1>4, <1>12, <2>1, RevokeReverseEffect
  <2>5. Promised'[Rev(e)] = IF rel[Rev(e)] # None THEN "revoked" ELSE "none"
    <3>1. StatusOf(Rev(e))' = IF rel[Rev(e)] # None THEN "revoked" ELSE StatusOf(Rev(e))
      BY <1>1, <1>2, <1>12, RevokeReverseEffect
    <3>. QED
      BY <1>2, <1>4, <2>1, <3>1 DEF StatusOf
  <2>6. \A d \in Edges : Promised'[d] = Promised[d]
    BY <1>3, <2>2, <2>3, <2>4, <2>5 DEF Both
  <2>. QED
    BY <2>6 DEF Promised
<1>. QED
  BY <1>7, <1>8, <1>9, <1>10, <1>11, <1>12 DEF Write

LEMMA NextRefines ==
  ASSUME TypeOK, SoloInv, [Next]_vars
  PROVE  [Promise!Next]_Promised
<1>1. CASE UNCHANGED vars
  <2>1. \A d \in Edges : Promised'[d] = Promised[d]
    BY <1>1, PromisedIs DEF PromisedAt, Owed, At, StatusOf, vars
  <2>. QED
    BY <2>1 DEF Promised
<1>2. ASSUME NEW h \in Handlers, NEW u \in Users, NEW v \in Users, NEW k \in Kinds,
             NEW s \in Subtypes \cup {None}, Request(h, u, v, k, s)
      PROVE  [Promise!Next]_Promised
  <2>. DEFINE e == [from |-> u, to |-> v, kind |-> k]
              j == [pc |-> "request", by |-> u, edge |-> e, subtype |-> s, found |-> rel[e] # None]
  <2>1. j \in Job /\ Start(h, j)
    BY <1>2 DEF Job, Edges, Request
  <2>. QED
    BY <2>1, StartRefines
<1>3. ASSUME NEW h \in Handlers, NEW u \in Users, NEW e \in Edges,
             NEW pc \in {"confirm", "reject"}, Respond(h, u, e, pc)
      PROVE  [Promise!Next]_Promised
  <2>. DEFINE j == [pc |-> pc, by |-> u, edge |-> e, subtype |-> rel[e].subtype, found |-> TRUE]
  <2>1. rel[e] \in Row
    BY <1>3 DEF Respond, Answerable, TypeOK
  <2>2. j \in Job /\ Start(h, j)
    BY <1>3, <2>1 DEF Job, Row, Respond
  <2>. QED
    BY <2>2, StartRefines
<1>4. ASSUME NEW h \in Handlers, NEW u \in Users, NEW e \in Edges, Revoke(h, u, e)
      PROVE  [Promise!Next]_Promised
  <2>. DEFINE j == [pc |-> "revoke", by |-> u, edge |-> e, subtype |-> None, found |-> TRUE]
  <2>1. j \in Job /\ Start(h, j)
    BY <1>4 DEF Job, Revoke
  <2>. QED
    BY <2>1, StartRefines
<1>5. ASSUME NEW h \in Handlers, Write(h)
      PROVE  [Promise!Next]_Promised
  BY <1>5, DisturbedWriteRefines, AloneWriteRefines
<1>. QED
  BY <1>1, <1>2, <1>3, <1>4, <1>5, CutShortRefines DEF Next

\* Every relation that nobody disturbs behaves as if asking, answering and
\* ending were atomic and kept its two directions together: the service
\* implements Relationship.tla.
THEOREM Refinement == Spec => KeepsPromise
<1>1. Init => Promise!Init
  <2>1. ASSUME Init, NEW d \in Edges
        PROVE  Promised[d] = "none"
    BY <2>1, PromisedIs DEF Init, PromisedAt, Owed, At, StatusOf
  <2>. QED
    BY <2>1, SameStore DEF Promise!Init, Promised
<1>2. TypeOK /\ SoloInv /\ [Next]_vars => [Promise!Next]_Promised
  BY NextRefines
<1>. QED
  BY <1>1, <1>2, SoloAlways, PTL DEF Spec, KeepsPromise, Promise!Spec
=============================================================================
