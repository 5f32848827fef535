------------------------------ MODULE ChatProofs -------------------------------
(***************************************************************************)
(* Proofs about Chat and Gateway: however sends, reads, deletions and        *)
(* failures overlap, the summary is of the right conversation and no older   *)
(* than it must be, reads are the recipient's, rooms hold who asked to be    *)
(* in them, no receipt counts a message another has counted, and no message  *)
(* is told before it is shown or by two handlers.                           *)
(***************************************************************************)
EXTENDS Gateway, FiniteSetTheorems, TLAPS

USE NoneAssumption, PairsAssumption

Pcs == {"open", "send", "summarise", "mark", "erase", "found", "sent", "marked"}

\* The handlers ChatInv says something about.
Writing == {"summarise", "mark", "erase"}

LEMMA JobFields ==
  ASSUME TypeOK, NEW h \in Handlers, job[h] # None
  PROVE  /\ job[h] \in Job /\ job[h].pc \in Pcs /\ job[h].conv \in Pairs
         /\ job[h].user \in Users /\ job[h].row \in Nat /\ job[h].found \in SUBSET Nat
         /\ job[h].caller \in Callers \cup {None}
<1>1. job[h] \in Job  BY DEF TypeOK
<1> QED  BY <1>1 DEF Job, Pcs

LEMMA StartEffect ==
  ASSUME TypeOK, NEW h \in Handlers, NEW pc \in Pcs, NEW p \in Pairs, NEW u \in Users,
         NEW row \in Nat, NEW found \in SUBSET Nat, NEW c \in Callers \cup {None},
         Start(h, pc, p, u, row, found, c)
  PROVE  /\ job' \in [Handlers -> Job \cup {None}]
         /\ job[h] = None /\ job'[h] # None
         /\ job'[h].pc = pc /\ job'[h].conv = p /\ job'[h].user = u
         /\ job'[h].row = row /\ job'[h].found = found /\ job'[h].caller = c
         /\ \A g \in Handlers : g # h => job'[g] = job[g]
<1> DEFINE x == [pc |-> pc, conv |-> p, user |-> u, row |-> row, found |-> found, caller |-> c]
<1>1. x \in Job  BY DEF Job, Pcs
<1>2. x # None  BY <1>1
<1>3. job[h] = None /\ job' = [job EXCEPT ![h] = x]  BY DEF Start
<1>4. job'[h] = x /\ \A g \in Handlers : g # h => job'[g] = job[g]  BY <1>3 DEF TypeOK
<1>5. job' \in [Handlers -> Job \cup {None}]  BY <1>1, <1>3 DEF TypeOK
<1> QED  BY <1>2, <1>3, <1>4, <1>5

LEMMA GotoEffect ==
  ASSUME TypeOK, NEW h \in Handlers, NEW pc \in Pcs, job[h] # None, Goto(h, pc)
  PROVE  /\ job' \in [Handlers -> Job \cup {None}]
         /\ job'[h] # None /\ job'[h].pc = pc
         /\ job'[h].conv = job[h].conv /\ job'[h].user = job[h].user
         /\ job'[h].row = job[h].row /\ job'[h].found = job[h].found
         /\ job'[h].caller = job[h].caller
         /\ \A g \in Handlers : g # h => job'[g] = job[g]
<1> DEFINE x == [job[h] EXCEPT !.pc = pc]
<1>1. job[h] \in Job  BY JobFields
<1>2. /\ x \in Job /\ x.pc = pc /\ x.conv = job[h].conv /\ x.user = job[h].user
      /\ x.row = job[h].row /\ x.found = job[h].found /\ x.caller = job[h].caller
  BY <1>1 DEF Job, Pcs
<1>3. job' = [job EXCEPT ![h] = x]  BY DEF Goto
<1>4. job'[h] = x /\ \A g \in Handlers : g # h => job'[g] = job[g]  BY <1>3 DEF TypeOK
<1>5. job' \in [Handlers -> Job \cup {None}]  BY <1>2, <1>3 DEF TypeOK
<1>6. x # None  BY <1>2
<1> QED  BY <1>2, <1>4, <1>5, <1>6

LEMMA DoneEffect ==
  ASSUME TypeOK, NEW h \in Handlers, Done(h)
  PROVE  /\ job' \in [Handlers -> Job \cup {None}]
         /\ job'[h] = None /\ \A g \in Handlers : g # h => job'[g] = job[g]
BY DEF TypeOK, Done

LEMMA FinishEffect ==
  ASSUME TypeOK, NEW h \in Handlers, NEW pc \in Pcs \ Writing, job[h] # None, Finish(h, pc)
  PROVE  /\ job' \in [Handlers -> Job \cup {None}]
         /\ job'[h] = None \/ job'[h].pc \notin Writing
         /\ \A g \in Handlers : g # h => job'[g] = job[g]
BY GotoEffect, DoneEffect DEF Finish

-----------------------------------------------------------------------------
\* A step that writes no row but conversations' summaries to none, and leaves its
\* handler without one to write.
LEMMA Quiet ==
  ASSUME ChatInv, NEW h \in Handlers,
         job' \in [Handlers -> Job \cup {None}],
         \A g \in Handlers : g # h => job'[g] = job[g],
         job'[h] = None \/ job'[h].pc \notin Writing,
         UNCHANGED <<message, sent, reads, shown, after, missed>>,
         raced \subseteq raced', raced' \subseteq Pairs \X Users,
         conv' \in [Pairs -> Nat \cup {None}],
         \A p \in Pairs : conv'[p] = conv[p] \/ conv'[p] = 0
  PROVE  ChatInv'
<1> USE DEF ChatInv
<1>1. \A g \in Handlers, pc \in Writing : At(g, pc)' => At(g, pc) /\ job'[g] = job[g]
  BY DEF At
<1>2. TypeOK'  BY DEF TypeOK
<1>3. SendingInv'  BY <1>1 DEF SendingInv, At, Writing
<1>4. AfterInv'  BY DEF AfterInv
<1>5. MarkingInv'
  <2>1. \A g \in Handlers : At(g, "mark")' => At(g, "mark") /\ job'[g] = job[g]
    BY <1>1 DEF Writing
  <2>2. \A g \in Handlers : \A u, p : Marking(g, u, p)' => Marking(g, u, p)
    BY <2>1 DEF Marking
  <2> QED  BY <2>1, <2>2 DEF MarkingInv
<1>6. ErasingInv'  BY <1>1 DEF ErasingInv, Writing
<1>7. SummaryFresh'  BY DEF SummaryFresh
<1>8. ReadByRecipient' /\ MissedOnlyWhenRaced'  BY DEF ReadByRecipient, MissedOnlyWhenRaced
<1> QED  BY <1>2, <1>3, <1>4, <1>5, <1>6, <1>7, <1>8

LEMMA MessageTyped ==
  ASSUME TypeOK, NEW m \in 1 .. sent
  PROVE  message[m] \in MessageRow /\ message[m].conv \in Pairs /\ message[m].sender \in Users
BY DEF TypeOK, MessageRow

\* message.create: the new row is nobody's summary yet, and has been read by nobody.
LEMMA Creating ==
  ASSUME ChatInv, NEW h \in Handlers, CreateMessage(h)
  PROVE  ChatInv'
<1> USE DEF ChatInv
<1> DEFINE m == sent + 1
<1>1. /\ job[h] # None /\ job[h].conv \in Pairs /\ job[h].user \in Users /\ sent \in Nat
      /\ job[h] \in Job
  BY JobFields DEF CreateMessage, At, TypeOK
<1>2. /\ sent' = m /\ m \in Nat /\ m \notin 1 .. sent /\ 1 .. m = (1 .. sent) \cup {m}
      /\ UNCHANGED <<conv, reads, shown, raced, missed>>
  BY <1>1 DEF CreateMessage
<1>3. /\ message' = [i \in 1 .. m |-> IF i = m
              THEN [conv |-> job[h].conv, sender |-> job[h].user, deleted |-> FALSE]
              ELSE message[i]]
      /\ after' = [i \in 1 .. m |-> IF i = m THEN shown ELSE after[i]]
      /\ job' = [job EXCEPT ![h].pc = "summarise", ![h].row = m]
  BY DEF CreateMessage
<1>4. \A i \in 1 .. sent : message'[i] = message[i] /\ after'[i] = after[i]
  BY <1>2, <1>3
<1>5. /\ message'[m] = [conv |-> job[h].conv, sender |-> job[h].user, deleted |-> FALSE]
      /\ after'[m] = shown
  BY <1>2, <1>3
<1>6. /\ job' \in [Handlers -> Job \cup {None}] /\ job'[h] # None
      /\ job'[h].pc = "summarise" /\ job'[h].row = m /\ job'[h].conv = job[h].conv
      /\ \A g \in Handlers : g # h => job'[g] = job[g]
  <2> DEFINE x == [job[h] EXCEPT !.pc = "summarise", !.row = m]
  <2>1. /\ x \in Job /\ x.pc = "summarise" /\ x.row = m /\ x.conv = job[h].conv
    BY <1>1, <1>2 DEF Job
  <2>2. job' = [job EXCEPT ![h] = x]  BY <1>3
  <2>3. job'[h] = x /\ \A g \in Handlers : g # h => job'[g] = job[g]  BY <2>2 DEF TypeOK
  <2>4. job' \in [Handlers -> Job \cup {None}]  BY <2>1, <2>2 DEF TypeOK
  <2>5. x # None  BY <2>1
  <2> QED  BY <2>1, <2>3, <2>4, <2>5
<1>7. TypeOK'
  <2>1. message' \in [1 .. m -> MessageRow]
    BY <1>1, <1>3, MessageTyped, <1>2 DEF MessageRow
  <2>2. shown \subseteq 1 .. m /\ \A i \in 1 .. sent : after[i] \subseteq 1 .. m
    BY <1>2 DEF TypeOK
  <2>3. after' \in [1 .. m -> SUBSET (1 .. m)]
    BY <1>3, <1>2, <2>2
  <2>4. reads \subseteq (1 .. m) \X Users /\ missed \subseteq (1 .. m) \X Users
    BY <1>2 DEF TypeOK
  <2> QED  BY <1>2, <1>6, <2>1, <2>2, <2>3, <2>4 DEF TypeOK
<1>8. SendingInv'
  <2> SUFFICES ASSUME NEW g \in Handlers, At(g, "summarise")'
               PROVE  /\ job'[g].row \in (1 .. sent') \ shown'
                      /\ message'[job'[g].row].conv = job'[g].conv
                      /\ \A k \in Handlers :
                           At(k, "summarise")' /\ job'[k].row = job'[g].row => k = g
    BY DEF SendingInv, At
  <2>0. \A k \in Handlers : k # h /\ At(k, "summarise")' =>
           At(k, "summarise") /\ job'[k] = job[k] /\ job[k].row \in (1 .. sent) \ shown
    BY <1>6 DEF At, SendingInv
  <2>1. CASE g = h
    <3>1. m \notin shown  BY <1>2 DEF TypeOK
    <3>2. \A k \in Handlers : k # h /\ At(k, "summarise")' => job'[k].row # m
      BY <2>0, <1>2
    <3> QED  BY <2>1, <3>1, <3>2, <1>2, <1>5, <1>6
  <2>2. CASE g # h
    <3>1. At(g, "summarise") /\ job'[g] = job[g] /\ job[g].row \in (1 .. sent) \ shown
      BY <2>0, <2>2
    <3>2. message[job[g].row].conv = job[g].conv
      BY <3>1 DEF SendingInv
    <3>3. ASSUME NEW k \in Handlers, At(k, "summarise")', job'[k].row = job'[g].row, k # g
          PROVE  FALSE
      <4>1. k # h  BY <3>1, <3>3, <1>2, <1>6
      <4> QED  BY <4>1, <2>0, <3>1, <3>3 DEF SendingInv
    <3> QED  BY <3>1, <3>2, <3>3, <1>2, <1>4
  <2> QED  BY <2>1, <2>2
<1>9. AfterInv'
  BY <1>2, <1>4, <1>5 DEF AfterInv, TypeOK
<1>10. MarkingInv'
  <2>1. \A g \in Handlers : At(g, "mark")' => At(g, "mark") /\ job'[g] = job[g]
    BY <1>6 DEF At
  <2>2. \A g \in Handlers : \A u, p : Marking(g, u, p)' => Marking(g, u, p)
    BY <2>1 DEF Marking
  <2> QED  BY <2>1, <2>2, <1>2, <1>4 DEF MarkingInv
<1>11. ErasingInv'
  BY <1>2, <1>6 DEF ErasingInv, At
<1>12. SummaryFresh'
  <2> SUFFICES ASSUME NEW p \in Pairs, conv[p] # None, conv[p] # 0
               PROVE  /\ conv[p] \in shown /\ message'[conv[p]].conv = p
                      /\ \A i \in shown : message'[i].conv = p => conv[p] \notin after'[i]
    BY <1>2 DEF SummaryFresh
  <2>1. shown \subseteq 1 .. sent  BY DEF TypeOK
  <2> QED  BY <2>1, <1>4 DEF SummaryFresh
<1>13. ReadByRecipient'
  BY <1>2, <1>4 DEF ReadByRecipient, TypeOK
<1>14. MissedOnlyWhenRaced'
  <2>1. \A x \in missed : x[1] \in 1 .. sent  BY DEF TypeOK
  <2> QED  BY <2>1, <1>2, <1>4 DEF MissedOnlyWhenRaced
<1> QED  BY <1>7, <1>8, <1>9, <1>10, <1>11, <1>12, <1>13, <1>14

\* conversation.update: what is shown now was shown after nothing of itself.
LEMMA Summarising ==
  ASSUME ChatInv, NEW h \in Handlers, Summarise(h)
  PROVE  ChatInv'
<1> USE DEF ChatInv
<1> DEFINE r == job[h].row
           p == job[h].conv
<1>1. job[h] # None /\ p \in Pairs /\ r \in Nat /\ "sent" \in Pcs \ Writing
  BY JobFields DEF Summarise, At, Pcs, Writing
<1>2. /\ conv' = [conv EXCEPT ![p] = r] /\ shown' = shown \cup {r}
      /\ UNCHANGED <<message, sent, reads, after, raced, missed>>
  BY DEF Summarise
<1>3. /\ job' \in [Handlers -> Job \cup {None}]
      /\ job'[h] = None \/ job'[h].pc \notin Writing
      /\ \A g \in Handlers : g # h => job'[g] = job[g]
  BY <1>1, FinishEffect DEF Summarise
<1>4. r \in (1 .. sent) \ shown /\ message[r].conv = p
  BY DEF SendingInv, Summarise
<1>5. \A g \in Handlers, pc \in Writing : At(g, pc)' => g # h /\ At(g, pc) /\ job'[g] = job[g]
  BY <1>3 DEF At
<1>6. TypeOK'
  <2>1. conv' \in [Pairs -> Nat \cup {None}]  BY <1>1, <1>2 DEF TypeOK
  <2>2. shown' \subseteq 1 .. sent'  BY <1>2, <1>4 DEF TypeOK
  <2> QED  BY <1>2, <1>3, <2>1, <2>2 DEF TypeOK
<1>7. SendingInv'
  <2> SUFFICES ASSUME NEW g \in Handlers, At(g, "summarise")'
               PROVE  /\ job'[g].row \in (1 .. sent') \ shown'
                      /\ message'[job'[g].row].conv = job'[g].conv
                      /\ \A k \in Handlers :
                           At(k, "summarise")' /\ job'[k].row = job'[g].row => k = g
    BY DEF SendingInv, At
  <2>1. \A k \in Handlers : At(k, "summarise")' => k # h /\ At(k, "summarise") /\ job'[k] = job[k]
    BY <1>5 DEF Writing
  <2>2. job[g].row # r
    BY <2>1 DEF SendingInv, Summarise
  <2> QED  BY <2>1, <2>2, <1>2 DEF SendingInv
<1>8. AfterInv'  BY <1>2 DEF AfterInv
<1>9. MarkingInv'
  <2>1. \A g \in Handlers : At(g, "mark")' => At(g, "mark") /\ job'[g] = job[g]
    BY <1>5 DEF Writing
  <2>2. \A g \in Handlers : \A u, q : Marking(g, u, q)' => Marking(g, u, q)
    BY <2>1 DEF Marking
  <2> QED  BY <2>1, <2>2, <1>2 DEF MarkingInv
<1>10. ErasingInv'  BY <1>2, <1>5 DEF ErasingInv, Writing
<1>11. SummaryFresh'
  <2> SUFFICES ASSUME NEW q \in Pairs, conv'[q] # None, conv'[q] # 0
               PROVE  /\ conv'[q] \in shown' /\ message[conv'[q]].conv = q
                      /\ \A i \in shown' : message[i].conv = q => conv'[q] \notin after[i]
    BY <1>2 DEF SummaryFresh
  <2>1. CASE q = p
    <3>1. conv'[q] = r  BY <2>1, <1>1, <1>2 DEF TypeOK
    <3>2. \A i \in shown' : r \notin after[i]
      BY <1>2, <1>4 DEF AfterInv, TypeOK
    <3> QED  BY <2>1, <3>1, <3>2, <1>2, <1>4
  <2>2. CASE q # p
    <3>1. conv'[q] = conv[q]  BY <2>2, <1>1, <1>2 DEF TypeOK
    <3> QED  BY <2>2, <3>1, <1>2, <1>4 DEF SummaryFresh
  <2> QED  BY <2>1, <2>2
<1>12. ReadByRecipient' /\ MissedOnlyWhenRaced'
  BY <1>2 DEF ReadByRecipient, MissedOnlyWhenRaced
<1> QED  BY <1>6, <1>7, <1>8, <1>9, <1>10, <1>11, <1>12

\* findMany of the unread: nobody else marks there, or the reader has raced.
LEMMA Finding ==
  ASSUME ChatInv, NEW h \in Handlers, NEW u \in Users, NEW p \in Pairs,
         NEW c \in Callers \cup {None}, MarkRead(h, u, p, c)
  PROVE  ChatInv'
<1> USE DEF ChatInv
<1>1. UNCHANGED <<conv, message, sent, reads, shown, after, missed>>
  BY DEF MarkRead
<1>2. raced \subseteq raced' /\ raced' \subseteq Pairs \X Users
  BY DEF MarkRead, TypeOK
<1>3. CASE Start(h, "marked", p, u, 0, {}, c)
  <2>1. "marked" \in Pcs /\ {} \in SUBSET Nat /\ 0 \in Nat  BY DEF Pcs
  <2>2. /\ job' \in [Handlers -> Job \cup {None}]
        /\ job'[h] = None \/ job'[h].pc \notin Writing
        /\ \A g \in Handlers : g # h => job'[g] = job[g]
    BY <1>3, <2>1, StartEffect DEF Writing
  <2> QED  BY <1>1, <1>2, <2>2, Quiet DEF TypeOK
<1>4. CASE Start(h, "mark", p, u, 0, Unread(u, p), c)
  <2>1. Unread(u, p) \in SUBSET Nat /\ "mark" \in Pcs  BY DEF Unread, Pcs
  <2>2. /\ job' \in [Handlers -> Job \cup {None}]
        /\ job'[h] # None /\ job'[h].pc = "mark" /\ job'[h].conv = p /\ job'[h].user = u
        /\ job'[h].found = Unread(u, p) /\ job[h] = None
        /\ \A g \in Handlers : g # h => job'[g] = job[g]
    BY <1>4, <2>1, StartEffect
  <2>3. \A g \in Handlers, pc \in Writing \ {"mark"} : At(g, pc)' => At(g, pc) /\ job'[g] = job[g]
    BY <2>2 DEF At, Writing
  <2>4. \A g \in Handlers : g # h /\ At(g, "mark")' => At(g, "mark") /\ job'[g] = job[g]
    BY <2>2 DEF At
  <2>5. TypeOK'  BY <1>1, <1>2, <2>2 DEF TypeOK
  <2>6. SendingInv'  BY <1>1, <2>3 DEF SendingInv, Writing
  <2>7. AfterInv'  BY <1>1 DEF AfterInv
  <2>8. ErasingInv'  BY <1>1, <2>3 DEF ErasingInv, Writing
  <2>9. SummaryFresh'  BY <1>1 DEF SummaryFresh
  <2>10. ReadByRecipient' /\ MissedOnlyWhenRaced'
    BY <1>1, <1>2 DEF ReadByRecipient, MissedOnlyWhenRaced
  <2>11. MarkingInv'
    <3> SUFFICES ASSUME NEW g \in Handlers, At(g, "mark")'
                 PROVE  /\ job'[g].user \in job'[g].conv
                        /\ \A m \in job'[g].found : /\ m \in 1 .. sent
                                                    /\ message[m].conv = job'[g].conv
                                                    /\ message[m].sender # job'[g].user
                        /\ <<job'[g].conv, job'[g].user>> \notin raced' =>
                             /\ \A m \in job'[g].found : <<m, job'[g].user>> \notin reads
                             /\ \A k \in Handlers :
                                  At(k, "mark")' /\ job'[k].user = job'[g].user
                                    /\ job'[k].conv = job'[g].conv => k = g
      BY <1>1 DEF MarkingInv, Marking
    <3>1. \A k \in Handlers : k # h /\ At(k, "mark")' /\ job'[k].user = u /\ job'[k].conv = p
             => <<p, u>> \in raced'
      BY <2>4 DEF MarkRead, Marking
    <3>2. CASE g = h
      <4>1. job'[g].user \in job'[g].conv  BY <3>2, <2>2 DEF MarkRead, Member
      <4>2. \A m \in Unread(u, p) : /\ m \in 1 .. sent /\ message[m].conv = p
                                    /\ message[m].sender # u /\ <<m, u>> \notin reads
        BY DEF Unread
      <4> QED  BY <3>1, <3>2, <4>1, <4>2, <2>2
    <3>3. CASE g # h
      <4>1. At(g, "mark") /\ job'[g] = job[g]  BY <3>3, <2>4
      <4>2. /\ job[g].user \in job[g].conv
            /\ \A m \in job[g].found : /\ m \in 1 .. sent
                                        /\ message[m].conv = job[g].conv
                                        /\ message[m].sender # job[g].user
            /\ <<job[g].conv, job[g].user>> \notin raced =>
                 /\ \A m \in job[g].found : <<m, job[g].user>> \notin reads
                 /\ \A k \in Handlers : Marking(k, job[g].user, job[g].conv) => k = g
        BY <4>1 DEF MarkingInv
      <4>3. ASSUME <<job'[g].conv, job'[g].user>> \notin raced', NEW k \in Handlers,
                   At(k, "mark")', job'[k].user = job'[g].user, job'[k].conv = job'[g].conv
            PROVE  k = g
        <5>1. <<job[g].conv, job[g].user>> \notin raced  BY <4>1, <4>3, <1>2
        <5>2. CASE k = h
          BY <5>2, <4>1, <4>3, <3>1, <3>3, <2>2
        <5>3. CASE k # h
          <6>1. Marking(k, job[g].user, job[g].conv)  BY <5>3, <4>1, <4>3, <2>4 DEF Marking
          <6> QED  BY <6>1, <5>1, <4>2
        <5> QED  BY <5>2, <5>3
      <4> QED  BY <4>1, <4>2, <4>3, <1>2
    <3> QED  BY <3>2, <3>3
  <2> QED  BY <2>5, <2>6, <2>7, <2>8, <2>9, <2>10, <2>11
<1> QED  BY <1>3, <1>4 DEF MarkRead

\* createMany: all of the rows or, where another marked one of them, none.
LEMMA Marks ==
  ASSUME ChatInv, NEW h \in Handlers, Mark(h)
  PROVE  ChatInv'
<1> USE DEF ChatInv
<1> DEFINE new == job[h].found \X {job[h].user}
<1>1. /\ At(h, "mark") /\ job[h] # None /\ job[h].conv \in Pairs /\ job[h].user \in Users
      /\ "marked" \in Pcs \ Writing
  BY JobFields DEF Mark, At, Pcs, Writing
<1>2. UNCHANGED <<conv, message, sent, shown, after, raced>>
  BY DEF Mark
<1>3. /\ job' \in [Handlers -> Job \cup {None}]
      /\ job'[h] = None \/ job'[h].pc \notin Writing
      /\ \A g \in Handlers : g # h => job'[g] = job[g]
  BY <1>1, FinishEffect, DoneEffect DEF Mark
<1>4. \/ new \cap reads = {} /\ reads' = reads \cup new /\ missed' = missed
      \/ new \cap reads # {} /\ reads' = reads /\ missed' = missed \cup new
  BY DEF Mark
<1>5. \A x \in new : /\ x \in (1 .. sent) \X Users /\ x[2] = job[h].user
                     /\ message[x[1]].conv = job[h].conv /\ message[x[1]].sender # x[2]
                     /\ x[2] \in job[h].conv
  BY <1>1 DEF MarkingInv
<1>6. \A g \in Handlers, pc \in Writing : At(g, pc)' => g # h /\ At(g, pc) /\ job'[g] = job[g]
  BY <1>3 DEF At
<1>7. TypeOK'
  <2>1. reads' \subseteq (1 .. sent) \X Users /\ missed' \subseteq (1 .. sent) \X Users
    BY <1>4, <1>5 DEF TypeOK
  <2> QED  BY <1>2, <1>3, <2>1 DEF TypeOK
<1>8. SendingInv'  BY <1>2, <1>6 DEF SendingInv, Writing
<1>9. AfterInv'  BY <1>2 DEF AfterInv
<1>10. ErasingInv'  BY <1>2, <1>6 DEF ErasingInv, Writing
<1>11. SummaryFresh'  BY <1>2 DEF SummaryFresh
<1>12. ReadByRecipient'
  BY <1>2, <1>4, <1>5 DEF ReadByRecipient
<1>13. MissedOnlyWhenRaced'
  <2>1. CASE new \cap reads = {}
    <3>1. missed' \ reads' \subseteq missed \ reads  BY <2>1, <1>4
    <3> QED  BY <3>1, <1>2 DEF MissedOnlyWhenRaced
  <2>2. CASE new \cap reads # {}
    <3>1. PICK m \in job[h].found : <<m, job[h].user>> \in reads  BY <2>2
    <3>2. <<job[h].conv, job[h].user>> \in raced  BY <3>1, <1>1 DEF MarkingInv
    <3>3. \A x \in new : <<message[x[1]].conv, x[2]>> \in raced  BY <3>2, <1>5
    <3>4. missed' \ reads' \subseteq (missed \ reads) \cup new  BY <2>2, <1>4
    <3> QED  BY <3>3, <3>4, <1>2 DEF MissedOnlyWhenRaced
  <2> QED  BY <2>1, <2>2
<1>14. MarkingInv'
  <2> SUFFICES ASSUME NEW g \in Handlers, At(g, "mark")'
               PROVE  /\ job'[g].user \in job'[g].conv
                      /\ \A m \in job'[g].found : /\ m \in 1 .. sent
                                                  /\ message[m].conv = job'[g].conv
                                                  /\ message[m].sender # job'[g].user
                      /\ <<job'[g].conv, job'[g].user>> \notin raced =>
                           /\ \A m \in job'[g].found : <<m, job'[g].user>> \notin reads'
                           /\ \A k \in Handlers :
                                At(k, "mark")' /\ job'[k].user = job'[g].user
                                  /\ job'[k].conv = job'[g].conv => k = g
    BY <1>2 DEF MarkingInv, Marking
  <2>1. g # h /\ At(g, "mark") /\ job'[g] = job[g]  BY <1>6 DEF Writing
  <2>2. /\ job[g].user \in job[g].conv
        /\ \A m \in job[g].found : /\ m \in 1 .. sent
                                    /\ message[m].conv = job[g].conv
                                    /\ message[m].sender # job[g].user
        /\ <<job[g].conv, job[g].user>> \notin raced =>
             /\ \A m \in job[g].found : <<m, job[g].user>> \notin reads
             /\ \A k \in Handlers : Marking(k, job[g].user, job[g].conv) => k = g
    BY <2>1 DEF MarkingInv
  <2>3. ASSUME <<job[g].conv, job[g].user>> \notin raced
        PROVE  \A m \in job[g].found : <<m, job[g].user>> \notin new
    <3>1. ~(job[h].user = job[g].user /\ job[h].conv = job[g].conv)
      BY <2>1, <2>2, <2>3, <1>1 DEF Marking
    <3> QED  BY <3>1, <2>2, <1>5
  <2>4. ASSUME <<job[g].conv, job[g].user>> \notin raced
        PROVE  \A k \in Handlers : At(k, "mark")' /\ job'[k].user = job[g].user
                                      /\ job'[k].conv = job[g].conv => k = g
    <3>1. \A k \in Handlers : At(k, "mark")' => At(k, "mark") /\ job'[k] = job[k]
      BY <1>6 DEF Writing
    <3> QED  BY <3>1, <2>2, <2>4 DEF Marking
  <2> QED  BY <2>1, <2>2, <2>3, <2>4, <1>4
<1> QED  BY <1>7, <1>8, <1>9, <1>10, <1>11, <1>12, <1>13, <1>14

\* deleteMessage's read: a message that is there.
LEMMA Deleting ==
  ASSUME ChatInv, NEW h \in Handlers, NEW u \in Users, NEW m \in 1 .. sent,
         DeleteMessage(h, u, m)
  PROVE  ChatInv'
<1> USE DEF ChatInv
<1>1. UNCHANGED <<conv, message, sent, reads, shown, after, raced, missed>>
  BY DEF DeleteMessage
<1>2. message[m].conv \in Pairs /\ m \in Nat /\ "erase" \in Pcs /\ {} \in SUBSET Nat
  BY MessageTyped DEF Pcs
<1>3. /\ job' \in [Handlers -> Job \cup {None}]
      /\ job'[h].pc = "erase" /\ job'[h].row = m
      /\ \A g \in Handlers : g # h => job'[g] = job[g]
  BY <1>2, StartEffect DEF DeleteMessage
<1>4. \A g \in Handlers, pc \in Writing \ {"erase"} : At(g, pc)' => At(g, pc) /\ job'[g] = job[g]
  BY <1>3 DEF At, Writing
<1>5. TypeOK'  BY <1>1, <1>3 DEF TypeOK
<1>6. SendingInv'  BY <1>1, <1>4 DEF SendingInv, Writing
<1>7. AfterInv'  BY <1>1 DEF AfterInv
<1>8. MarkingInv'
  <2>1. \A g \in Handlers : At(g, "mark")' => At(g, "mark") /\ job'[g] = job[g]
    BY <1>4 DEF Writing
  <2>2. \A g \in Handlers : \A v, q : Marking(g, v, q)' => Marking(g, v, q)
    BY <2>1 DEF Marking
  <2> QED  BY <2>1, <2>2, <1>1 DEF MarkingInv
<1>9. ErasingInv'  BY <1>1, <1>3 DEF ErasingInv, At
<1>10. SummaryFresh' /\ ReadByRecipient' /\ MissedOnlyWhenRaced'
  BY <1>1 DEF SummaryFresh, ReadByRecipient, MissedOnlyWhenRaced
<1> QED  BY <1>5, <1>6, <1>7, <1>8, <1>9, <1>10

\* message.update: the row keeps its conversation and its sender.
LEMMA Erasing ==
  ASSUME ChatInv, NEW h \in Handlers, EraseMessage(h)
  PROVE  ChatInv'
<1> USE DEF ChatInv
<1>1. UNCHANGED <<conv, sent, reads, shown, after, raced, missed>>
  BY DEF EraseMessage
<1>2. job[h].row \in 1 .. sent /\ message' = [message EXCEPT ![job[h].row].deleted = TRUE]
  BY DEF EraseMessage, ErasingInv
<1>3. /\ job' \in [Handlers -> Job \cup {None}]
      /\ job'[h] = None /\ \A g \in Handlers : g # h => job'[g] = job[g]
  BY DoneEffect DEF EraseMessage
<1>4. /\ message' \in [1 .. sent -> MessageRow]
      /\ \A i \in 1 .. sent : /\ message'[i].conv = message[i].conv
                               /\ message'[i].sender = message[i].sender
  <2> DEFINE r == job[h].row
             x == [message[r] EXCEPT !.deleted = TRUE]
  <2>1. message[r] \in MessageRow /\ message \in [1 .. sent -> MessageRow]
    BY <1>2 DEF TypeOK
  <2>2. x \in MessageRow /\ x.conv = message[r].conv /\ x.sender = message[r].sender
    BY <2>1 DEF MessageRow
  <2>3. message' = [message EXCEPT ![r] = x]  BY <1>2
  <2> HIDE DEF x, r
  <2> QED  BY <2>1, <2>2, <2>3
<1>5. \A g \in Handlers, pc \in Writing : At(g, pc)' => At(g, pc) /\ job'[g] = job[g]
  BY <1>3 DEF At
<1>6. TypeOK'  BY <1>1, <1>3, <1>4 DEF TypeOK
<1>7. SendingInv'  BY <1>1, <1>4, <1>5 DEF SendingInv, Writing
<1>8. AfterInv'  BY <1>1 DEF AfterInv
<1>9. MarkingInv'
  <2>1. \A g \in Handlers : At(g, "mark")' => At(g, "mark") /\ job'[g] = job[g]
    BY <1>5 DEF Writing
  <2>2. \A g \in Handlers : \A v, q : Marking(g, v, q)' => Marking(g, v, q)
    BY <2>1 DEF Marking
  <2> QED  BY <2>1, <2>2, <1>1, <1>4 DEF MarkingInv
<1>10. ErasingInv'  BY <1>1, <1>5 DEF ErasingInv, Writing
<1>11. SummaryFresh'
  BY <1>1, <1>4 DEF SummaryFresh, TypeOK
<1>12. ReadByRecipient'
  BY <1>1, <1>4 DEF ReadByRecipient, TypeOK
<1>13. MissedOnlyWhenRaced'
  <2>1. \A x \in missed : x[1] \in 1 .. sent  BY DEF TypeOK
  <2> QED  BY <2>1, <1>1, <1>4 DEF MissedOnlyWhenRaced
<1> QED  BY <1>6, <1>7, <1>8, <1>9, <1>10, <1>11, <1>12, <1>13

\* The calls that write nothing yet, and the ends of handlers.
LEMMA Starting ==
  ASSUME ChatInv, NEW h \in Handlers, NEW pc \in Pcs \ Writing, NEW p \in Pairs,
         NEW u \in Users, NEW c \in Callers \cup {None}, Start(h, pc, p, u, 0, {}, c),
         UNCHANGED <<conv, message, sent, reads, shown, after, raced, missed>>
  PROVE  ChatInv'
<1>1. TypeOK  BY DEF ChatInv
<1>2. /\ job' \in [Handlers -> Job \cup {None}] /\ job'[h].pc \notin Writing
      /\ \A g \in Handlers : g # h => job'[g] = job[g]
  BY <1>1, StartEffect
<1> QED  BY <1>1, <1>2, Quiet DEF TypeOK

LEMMA Ending ==
  ASSUME ChatInv, NEW h \in Handlers, Done(h),
         UNCHANGED <<message, sent, reads, shown, after, raced, missed>>,
         conv' \in [Pairs -> Nat \cup {None}],
         \A p \in Pairs : conv'[p] = conv[p] \/ conv'[p] = 0
  PROVE  ChatInv'
<1>1. TypeOK  BY DEF ChatInv
<1>2. /\ job' \in [Handlers -> Job \cup {None}] /\ job'[h] = None
      /\ \A g \in Handlers : g # h => job'[g] = job[g]
  BY <1>1, DoneEffect
<1> QED  BY <1>1, <1>2, Quiet DEF TypeOK

LEMMA ChatInvStart == ChatInit => ChatInv
BY DEF ChatInit, ChatInv, TypeOK, SendingInv, AfterInv, MarkingInv, ErasingInv,
       SummaryFresh, ReadByRecipient, MissedOnlyWhenRaced, At

LEMMA ChatInvStep ==
  ASSUME ChatInv, [ChatNext]_chatVars
  PROVE  ChatInv'
<1>1. CASE UNCHANGED chatVars
  BY <1>1 DEF chatVars, ChatInv, TypeOK, SendingInv, AfterInv, MarkingInv, ErasingInv,
       SummaryFresh, ReadByRecipient, MissedOnlyWhenRaced, At, Marking
<1>2. CASE ChatNext
  <2>0. conv \in [Pairs -> Nat \cup {None}]  BY DEF ChatInv, TypeOK
  <2> SUFFICES ASSUME NEW h \in Handlers,
                      \/ RestCall(h) \/ Statement(h) \/ CutShort(h)
                      \/ \E u \in Users, p \in Pairs, c \in Callers : Call(h, u, p, c)
                      \/ Returned(h) /\ Done(h)
                         /\ UNCHANGED <<conv, message, sent, reads, shown, after, raced, missed>>
               PROVE  ChatInv'
    BY <1>2 DEF ChatNext
  <2>1. ASSUME NEW u \in Users, NEW p \in Pairs, NEW c \in Callers \cup {None},
               \/ OpenConversation(h, u, p) \/ GetConversation(h, u, p, c)
               \/ SendMessage(h, u, p, c)
        PROVE  ChatInv'
    <3>1. \E pc \in Pcs \ Writing, d \in Callers \cup {None} : Start(h, pc, p, u, 0, {}, d)
      BY <2>1 DEF OpenConversation, GetConversation, SendMessage, Pcs, Writing
    <3>2. UNCHANGED <<conv, message, sent, reads, shown, after, raced, missed>>
      BY <2>1 DEF OpenConversation, GetConversation, SendMessage
    <3> QED  BY <3>1, <3>2, Starting
  <2>2. CASE RestCall(h)
    BY <2>1, <2>2, Finding, Deleting DEF RestCall
  <2>3. CASE \E u \in Users, p \in Pairs, c \in Callers : Call(h, u, p, c)
    BY <2>1, <2>3, Finding DEF Call
  <2>4. CASE CreateConversation(h)
    BY <2>0, <2>4, Ending DEF CreateConversation
  <2>5. CASE Statement(h)
    BY <2>4, <2>5, Creating, Summarising, Marks, Erasing DEF Statement
  <2>6. CASE CutShort(h)
    BY <2>0, <2>6, Ending DEF CutShort
  <2>7. CASE Returned(h) /\ Done(h)
             /\ UNCHANGED <<conv, message, sent, reads, shown, after, raced, missed>>
    BY <2>0, <2>7, Ending
  <2> QED  BY <2>2, <2>3, <2>5, <2>6, <2>7
<1> QED  BY <1>1, <1>2

-----------------------------------------------------------------------------
\* Conversations, messages, reads and what handlers hold keep their types.
THEOREM TypeCorrect == ChatSpec => []TypeOK
<1>1. ChatInv => TypeOK  BY DEF ChatInv
<1> QED  BY <1>1, ChatInvStart, ChatInvStep, PTL DEF ChatSpec

\* Whatever overlaps or fails, a conversation shows a message of its own, and never
\* one whose send was over before the send of another message it has shown
\* (chat.service.ts 114-134).
THEOREM SummaryIsFresh == ChatSpec => []SummaryFresh
<1>1. ChatInv => SummaryFresh  BY DEF ChatInv
<1> QED  BY <1>1, ChatInvStart, ChatInvStep, PTL DEF ChatSpec

\* A message is marked read for its recipient only (136-156).
THEOREM RecipientsRead == ChatSpec => []ReadByRecipient
<1>1. ChatInv => ReadByRecipient  BY DEF ChatInv
<1> QED  BY <1>1, ChatInvStart, ChatInvStep, PTL DEF ChatSpec

\* markRead leaves unread what it found only where another call of the same reader
\* overlapped it (142-154).
THEOREM MissedAreRaced == ChatSpec => []MissedOnlyWhenRaced
<1>1. ChatInv => MissedOnlyWhenRaced  BY DEF ChatInv
<1> QED  BY <1>1, ChatInvStart, ChatInvStep, PTL DEF ChatSpec

-----------------------------------------------------------------------------
\* The gateway adds nothing to what the service does: its steps are calls of it,
\* returns from it, or steps of its own.
Shape ==
  /\ sock \in [Sockets -> {"new", "verifying", "open", "closed"}]
  /\ user \in [Sockets -> Users \cup {None}]
  /\ room \in [Pairs -> SUBSET Sockets]

\* A join under way is a member's, and its socket is that member's still or has
\* closed; while it is open it wants the room, or a leave has overtaken the join.
JoinInv ==
  \A h \in Handlers : At(h, "found") =>
    /\ job[h].caller \in Sockets /\ job[h].user \in job[h].conv
    /\ sock[job[h].caller] \in {"open", "closed"}
    /\ sock[job[h].caller] = "open" =>
         /\ user[job[h].caller] = job[h].user
         /\ <<job[h].caller, job[h].conv>> \in wants \cup crossed

RoomInv == Shape /\ JoinInv /\ RoomsAsAsked

ChatRest == <<conv, message, sent, reads, shown, after, raced, missed>>

LEMMA GatewayStep ==
  ASSUME Shape, [Next]_vars
  PROVE  [ChatNext]_chatVars
<1>1. CASE UNCHANGED vars  BY <1>1 DEF vars
<1>2. CASE \E s \in Sockets : \/ Connect(s) \/ Disconnect(s)
                              \/ \E u \in Users : Verified(s, u)
                              \/ \E p \in Pairs : LeaveConversation(s, p)
  BY <1>2 DEF Connect, Disconnect, Verified, LeaveConversation
<1>3. ASSUME NEW h \in Handlers, RestCall(h) \/ Statement(h) \/ CutShort(h)
      PROVE  ChatNext
  BY <1>3 DEF ChatNext
<1>4. ASSUME NEW h \in Handlers, NEW s \in Sockets, NEW p \in Pairs,
             JoinConversation(h, s, p) \/ WsSend(h, s, p) \/ WsMarkRead(h, s, p)
      PROVE  ChatNext
  <2>1. user[s] \in Users  BY <1>4 DEF Shape, JoinConversation, WsSend, WsMarkRead, Authenticated
  <2>2. Call(h, user[s], p, s)  BY <1>4 DEF JoinConversation, WsSend, WsMarkRead, Call
  <2> QED  BY <2>1, <2>2 DEF ChatNext, Sockets
<1>5. ASSUME NEW h \in Handlers, Join(h) \/ Notify(h) \/ TellRead(h)
      PROVE  ChatNext
  <2>1. Returned(h) /\ Done(h) /\ UNCHANGED ChatRest
    BY <1>5 DEF Join, Notify, TellRead, Returned, ChatRest
  <2> QED  BY <2>1 DEF ChatNext, ChatRest
<1>6. ASSUME NEW h \in Handlers, Announce(h)  PROVE UNCHANGED chatVars
  BY <1>6 DEF Announce
<1> QED  BY <1>1, <1>2, <1>3, <1>4, <1>5, <1>6 DEF Next, Resume, CutOff

\* A step that starts no join leaves the joins that stay under way as they are.
LEMMA NoNewJoin ==
  ASSUME TypeOK, NEW h \in Handlers, RestCall(h) \/ Statement(h) \/ CutShort(h)
  PROVE  \A g \in Handlers : At(g, "found")' => At(g, "found") /\ job'[g] = job[g]
<1>1. ASSUME /\ \A g \in Handlers : g # h => job'[g] = job[g]
             /\ job'[h] = None \/ job'[h].pc # "found"
      PROVE  \A g \in Handlers : At(g, "found")' => At(g, "found") /\ job'[g] = job[g]
  BY <1>1 DEF At
<1>2. ASSUME NEW pc \in Pcs \ {"found"}, NEW p \in Pairs, NEW u \in Users, NEW row \in Nat,
             NEW found \in SUBSET Nat, Start(h, pc, p, u, row, found, None)
      PROVE  \A g \in Handlers : At(g, "found")' => At(g, "found") /\ job'[g] = job[g]
  BY <1>1, <1>2, StartEffect
<1>3. ASSUME Done(h)
      PROVE  \A g \in Handlers : At(g, "found")' => At(g, "found") /\ job'[g] = job[g]
  BY <1>1, <1>3, DoneEffect
<1>4. ASSUME NEW pc \in Pcs \ {"found"}, job[h] # None, Finish(h, pc)
      PROVE  \A g \in Handlers : At(g, "found")' => At(g, "found") /\ job'[g] = job[g]
  BY <1>1, <1>3, <1>4, GotoEffect DEF Finish
<1>5. CASE RestCall(h)
  <2>1. ASSUME NEW u \in Users, NEW p \in Pairs, OpenConversation(h, u, p) \/ SendMessage(h, u, p, None)
        PROVE  \E pc \in Pcs \ {"found"} : Start(h, pc, p, u, 0, {}, None)
    BY <2>1 DEF OpenConversation, SendMessage, Pcs
  <2>2. ASSUME NEW u \in Users, NEW p \in Pairs, MarkRead(h, u, p, None)
        PROVE  Start(h, "mark", p, u, 0, Unread(u, p), None) /\ Unread(u, p) \in SUBSET Nat
    BY <2>2 DEF MarkRead, Unread, TypeOK
  <2>3. ASSUME NEW u \in Users, NEW m \in 1 .. sent, DeleteMessage(h, u, m)
        PROVE  /\ Start(h, "erase", message[m].conv, u, m, {}, None)
               /\ message[m].conv \in Pairs /\ m \in Nat
    BY <2>3, MessageTyped DEF DeleteMessage, TypeOK
  <2>4. 0 \in Nat /\ {} \in SUBSET Nat /\ "mark" \in Pcs \ {"found"} /\ "erase" \in Pcs \ {"found"}
    BY DEF Pcs
  <2> QED  BY <1>2, <1>5, <2>1, <2>2, <2>3, <2>4 DEF RestCall
<1>6. CASE CreateMessage(h)
  <2> DEFINE x == [job[h] EXCEPT !.pc = "summarise", !.row = sent + 1]
  <2>1. job[h] # None /\ job' = [job EXCEPT ![h] = x]  BY <1>6 DEF CreateMessage, At
  <2>2. x.pc = "summarise"  BY <2>1, JobFields DEF Job
  <2> HIDE DEF x
  <2>3. job'[h] = x /\ \A g \in Handlers : g # h => job'[g] = job[g]  BY <2>1 DEF TypeOK
  <2> QED  BY <1>1, <2>2, <2>3
<1>7. CASE Summarise(h)  BY <1>4, <1>7 DEF Summarise, At, Pcs
<1>8. CASE Mark(h)       BY <1>3, <1>4, <1>8 DEF Mark, At, Pcs
<1>9. CASE CreateConversation(h) \/ EraseMessage(h) \/ CutShort(h)
  BY <1>3, <1>9 DEF CreateConversation, EraseMessage, CutShort
<1> QED  BY <1>5, <1>6, <1>7, <1>8, <1>9 DEF Statement

LEMMA RoomInvStart == Init => RoomInv
BY DEF Init, ChatInit, RoomInv, Shape, JoinInv, RoomsAsAsked, At

\* The socket's own steps, and the two that touch rooms from a handler.
LEMMA Connecting ==
  ASSUME RoomInv, NEW s \in Sockets, Connect(s) \/ \E u \in Users : Verified(s, u)
  PROVE  RoomInv'
<1> USE DEF RoomInv, Shape
<1>1. /\ sock[s] \in {"new", "verifying"}
      /\ \A t \in Sockets : t # s => sock'[t] = sock[t] /\ user'[t] = user[t]
      /\ UNCHANGED <<job, room, wants, crossed>>
  BY DEF Connect, Verified, chatVars
<1>2. Shape'  BY DEF Connect, Verified
<1>3. JoinInv'
  <2>1. \A h \in Handlers : At(h, "found") => job[h].caller # s  BY <1>1 DEF JoinInv
  <2> QED  BY <1>1, <2>1 DEF JoinInv, At
<1>4. RoomsAsAsked'
  <2>1. \A p \in Pairs : s \notin room[p]  BY <1>1 DEF RoomsAsAsked
  <2> QED  BY <1>1, <2>1 DEF RoomsAsAsked
<1> QED  BY <1>2, <1>3, <1>4

LEMMA Disconnecting ==
  ASSUME RoomInv, NEW s \in Sockets, Disconnect(s)
  PROVE  RoomInv'
<1> USE DEF RoomInv, Shape
<1>1. /\ sock'[s] = "closed" /\ UNCHANGED job
      /\ \A t \in Sockets : t # s => sock'[t] = sock[t] /\ user'[t] = user[t]
  BY DEF Disconnect, chatVars
<1>2. /\ \A p \in Pairs : room'[p] = room[p] \ {s}
      /\ \A t, p : t # s /\ <<t, p>> \in wants \cup crossed => <<t, p>> \in wants' \cup crossed'
  BY DEF Disconnect
<1>3. Shape'  BY DEF Disconnect
<1>4. JoinInv'  BY <1>1, <1>2 DEF JoinInv, At
<1>5. RoomsAsAsked'
  <2> SUFFICES ASSUME NEW p \in Pairs, NEW t \in room'[p]
               PROVE  /\ sock'[t] = "open" /\ user'[t] \in p
                      /\ <<t, p>> \in wants' \cup crossed'
    BY DEF RoomsAsAsked
  <2>1. t \in room[p] /\ t # s /\ t \in Sockets  BY <1>2
  <2>2. sock[t] = "open" /\ user[t] \in p /\ <<t, p>> \in wants \cup crossed
    BY <2>1 DEF RoomsAsAsked
  <2> QED  BY <2>1, <2>2, <1>1, <1>2
<1> QED  BY <1>3, <1>4, <1>5

LEMMA Leaving ==
  ASSUME RoomInv, TypeOK, NEW s \in Sockets, NEW q \in Pairs, LeaveConversation(s, q)
  PROVE  RoomInv'
<1> USE DEF RoomInv, Shape
<1>1. /\ UNCHANGED <<job, sock, user>> /\ wants' = wants \ {<<s, q>>}
      /\ crossed \subseteq crossed'
      /\ (\E h \in Handlers : Joining(h, s, q)) => <<s, q>> \in crossed'
      /\ room' = [room EXCEPT ![q] = @ \ {s}]
  BY DEF LeaveConversation, chatVars
<1>2. Shape'  BY <1>1
<1>3. JoinInv'
  <2> SUFFICES ASSUME NEW h \in Handlers, At(h, "found")
               PROVE  <<job[h].caller, job[h].conv>> \in wants \cup crossed
                        => <<job[h].caller, job[h].conv>> \in wants' \cup crossed'
    BY <1>1 DEF JoinInv, At
  <2>1. CASE job[h].caller = s /\ job[h].conv = q  BY <1>1, <2>1 DEF Joining
  <2>2. CASE ~(job[h].caller = s /\ job[h].conv = q)  BY <1>1, <2>2
  <2> QED  BY <2>1, <2>2
<1>4. RoomsAsAsked'
  <2> SUFFICES ASSUME NEW p \in Pairs, NEW t \in room'[p]
               PROVE  t \in room[p] /\ <<t, p>> # <<s, q>>
    BY <1>1 DEF RoomsAsAsked
  <2> QED  BY <1>1
<1> QED  BY <1>2, <1>3, <1>4

LEMMA RoomQuiet ==
  ASSUME RoomInv, UNCHANGED <<sock, user, room, crossed>>, wants \subseteq wants',
         \A g \in Handlers : At(g, "found")' => At(g, "found") /\ job'[g] = job[g]
  PROVE  RoomInv'
BY DEF RoomInv, Shape, JoinInv, RoomsAsAsked

LEMMA AskingToJoin ==
  ASSUME RoomInv, TypeOK, NEW h \in Handlers, NEW s \in Sockets, NEW p \in Pairs,
         JoinConversation(h, s, p)
  PROVE  RoomInv'
<1> USE DEF RoomInv, Shape
<1>1. /\ UNCHANGED <<sock, user, room, crossed>> /\ wants' = wants \cup {<<s, p>>}
      /\ sock[s] = "open" /\ user[s] \in Users /\ user[s] \in p
      /\ Start(h, "found", p, user[s], 0, {}, s)
  BY DEF JoinConversation, GetConversation, Authenticated, Member
<1>2. 0 \in Nat /\ {} \in SUBSET Nat /\ "found" \in Pcs /\ s \in Callers \cup {None}
  BY DEF Pcs, Sockets
<1>3. /\ job'[h].conv = p /\ job'[h].user = user[s] /\ job'[h].caller = s
      /\ \A g \in Handlers : g # h => job'[g] = job[g]
  BY <1>1, <1>2, StartEffect
<1>4. JoinInv'  BY <1>1, <1>3 DEF JoinInv, At
<1> QED  BY <1>1, <1>4 DEF RoomsAsAsked

LEMMA Entering ==
  ASSUME RoomInv, TypeOK, NEW h \in Handlers, Join(h)
  PROVE  RoomInv'
<1> USE DEF RoomInv, Shape
<1> DEFINE s == job[h].caller
           q == job[h].conv
<1>1. /\ UNCHANGED <<sock, user, wants, crossed>> /\ Done(h) /\ job[h] # None
      /\ room' = IF sock[s] = "open" THEN [room EXCEPT ![q] = @ \cup {s}] ELSE room
  BY DEF Join, At
<1>2. s \in Sockets /\ q \in Pairs /\ job[h].user \in q
      /\ (sock[s] = "open" => user[s] = job[h].user /\ <<s, q>> \in wants \cup crossed)
  BY <1>1, JobFields DEF Join, JoinInv
<1>3. JoinInv'
  <2>1. \A g \in Handlers : At(g, "found")' => At(g, "found") /\ job'[g] = job[g]
    BY <1>1, DoneEffect DEF At
  <2> QED  BY <1>1, <2>1 DEF JoinInv
<1> HIDE DEF s, q
<1>4. Shape'  BY <1>1, <1>2
<1>5. RoomsAsAsked'
  <2> SUFFICES ASSUME NEW p \in Pairs, NEW t \in room'[p]
               PROVE  sock[t] = "open" /\ user[t] \in p /\ <<t, p>> \in wants \cup crossed
    BY <1>1 DEF RoomsAsAsked
  <2>1. t \in room[p] \/ (sock[s] = "open" /\ t = s /\ p = q)  BY <1>1, <1>2
  <2>2. CASE t \in room[p]  BY <2>2 DEF RoomsAsAsked
  <2>3. CASE sock[s] = "open" /\ t = s /\ p = q  BY <2>3, <1>2
  <2> QED  BY <2>1, <2>2, <2>3
<1> QED  BY <1>3, <1>4, <1>5

LEMMA RoomInvStep ==
  ASSUME RoomInv, TypeOK, [Next]_vars
  PROVE  RoomInv'
<1>1. CASE UNCHANGED vars
  BY <1>1, RoomQuiet DEF vars, chatVars, gateVars, At
<1>2. ASSUME NEW h \in Handlers, UNCHANGED <<sock, user, room, crossed, wants>>,
             RestCall(h) \/ Statement(h) \/ CutShort(h)
      PROVE  RoomInv'
  BY <1>2, NoNewJoin, RoomQuiet
<1>3. ASSUME NEW h \in Handlers, NEW s \in Sockets, NEW p \in Pairs,
             WsSend(h, s, p) \/ WsMarkRead(h, s, p)
      PROVE  RoomInv'
  <2>1. user[s] \in Users /\ s \in Callers \cup {None}
    BY <1>3 DEF RoomInv, Shape, WsSend, WsMarkRead, Authenticated, Sockets
  <2>2. \E pc \in Pcs \ {"found"}, found \in SUBSET Nat : Start(h, pc, p, user[s], 0, found, s)
    <3>1. Unread(user[s], p) \in SUBSET Nat /\ {} \in SUBSET Nat
      BY DEF Unread, TypeOK
    <3>2. CASE WsSend(h, s, p)
      <4>1. Start(h, "send", p, user[s], 0, {}, s)  BY <3>2 DEF WsSend, SendMessage
      <4> QED  BY <4>1, <3>1 DEF Pcs
    <3>3. CASE WsMarkRead(h, s, p)
      <4>1. \/ Start(h, "mark", p, user[s], 0, Unread(user[s], p), s)
            \/ Start(h, "marked", p, user[s], 0, {}, s)
        BY <3>3 DEF WsMarkRead, MarkRead
      <4> QED  BY <4>1, <3>1 DEF Pcs
    <3> QED  BY <1>3, <3>2, <3>3
  <2>3. 0 \in Nat  OBVIOUS
  <2>4. \A g \in Handlers : At(g, "found")' => At(g, "found") /\ job'[g] = job[g]
    BY <2>1, <2>2, <2>3, StartEffect DEF At
  <2> QED  BY <1>3, <2>4, RoomQuiet DEF WsSend, WsMarkRead, gateVars
<1>4. ASSUME NEW h \in Handlers, Announce(h) \/ Notify(h) \/ TellRead(h)
      PROVE  RoomInv'
  <2>1. \A g \in Handlers : At(g, "found")' => At(g, "found") /\ job'[g] = job[g]
    BY <1>4, DoneEffect DEF Announce, Notify, TellRead, At, chatVars
  <2> QED  BY <1>4, <2>1, RoomQuiet DEF Announce, Notify, TellRead
<1>5. CASE Next
  BY <1>2, <1>3, <1>4, <1>5, Connecting, Disconnecting, Leaving, AskingToJoin, Entering
     DEF Next, Resume, CutOff, gateVars
<1> QED  BY <1>1, <1>5

\* A room holds connected members of its conversation who asked to be there last,
\* whatever joins, leaves, and disconnections overlap, save a leave that overtook
\* its join; and the gateway drives the service by calls of it only, so what is
\* proved of the service holds beneath the gateway (chat.gateway.ts 66-133).
LEMMA GatewayInv == Spec => [](ChatInv /\ RoomInv)
<1>1. ChatInv => TypeOK  BY DEF ChatInv
<1>2. RoomInv => Shape  BY DEF RoomInv
<1>3. Init => ChatInv /\ RoomInv  BY ChatInvStart, RoomInvStart DEF Init
<1>4. ChatInv /\ RoomInv /\ [Next]_vars => ChatInv' /\ RoomInv'
  BY <1>1, <1>2, GatewayStep, ChatInvStep, RoomInvStep
<1> QED  BY <1>3, <1>4, PTL DEF Spec

\* Who is in a room is connected, a member, and asked last to be in it, save where
\* a leave overtook the join (66-85).
THEOREM RoomsKept == Spec => []RoomsAsAsked
<1>1. RoomInv => RoomsAsAsked  BY DEF RoomInv
<1> QED  BY <1>1, GatewayInv, PTL

\* Beneath the gateway the service behaves as module Chat says: its sockets do to
\* conversations nothing but what calls of the service do (53-133).
THEOREM GatewayImplementsChat == Spec => ChatSpec
<1>1. RoomInv => Shape  BY DEF RoomInv
<1>2. Init => ChatInit  BY DEF Init
<1> QED  BY <1>1, <1>2, GatewayInv, GatewayStep, PTL DEF Spec, ChatSpec
-----------------------------------------------------------------------------
\* What handlers are about to tell of a reader in a conversation is marked read
\* there, and no two are about to tell the same message.
ToldInv ==
  \A p \in Pairs, u \in Users :
    /\ ToTell(p, u) \subseteq Read(p, u)
    /\ \A g, h \in Handlers :
         Told(g, p, u) /\ Told(h, p, u) /\ job[g].found \cap job[h].found # {} => g = h

ReceiptInv == receipts \in [Pairs \X Users -> Nat] /\ ToldInv /\ ReceiptsExact

LEMMA ReadFinite ==
  ASSUME TypeOK, NEW p, NEW u
  PROVE  /\ IsFiniteSet(Read(p, u)) /\ Cardinality(Read(p, u)) \in Nat
         /\ \A S \in SUBSET Read(p, u) :
              IsFiniteSet(S) /\ Cardinality(S) \in Nat /\ Cardinality(S) <= Cardinality(Read(p, u))
<1>1. sent \in Nat  BY DEF TypeOK
<1>2. IsFiniteSet(1 .. sent)  BY <1>1, FS_Interval
<1>3. Read(p, u) \in SUBSET (1 .. sent)  BY DEF Read
<1>4. IsFiniteSet(Read(p, u))  BY <1>2, <1>3, FS_Subset
<1>5. \A S \in SUBSET Read(p, u) :
        IsFiniteSet(S) /\ Cardinality(S) <= Cardinality(Read(p, u))
  BY <1>4, FS_Subset
<1> QED  BY <1>4, <1>5, FS_CardinalityType

\* No row goes, no message changes its conversation, nobody unreads.
LEMMA RowsGrow ==
  ASSUME TypeOK, [ChatNext]_chatVars
  PROVE  /\ 1 .. sent \subseteq 1 .. sent' /\ reads \subseteq reads'
         /\ \A m \in 1 .. sent : message'[m].conv = message[m].conv
<1> DEFINE Goal == /\ 1 .. sent \subseteq 1 .. sent' /\ reads \subseteq reads'
                   /\ \A m \in 1 .. sent : message'[m].conv = message[m].conv
<1>1. ASSUME UNCHANGED <<message, sent, reads>>  PROVE Goal
  BY <1>1
<1>2. ASSUME NEW h \in Handlers, Mark(h)  PROVE Goal
  BY <1>2 DEF Mark
<1>3. ASSUME NEW h \in Handlers, CreateMessage(h)  PROVE Goal
  <2>1. sent \in Nat /\ sent' = sent + 1 /\ reads' = reads
    BY <1>3 DEF CreateMessage, TypeOK
  <2>2. \A m \in 1 .. sent : m \in 1 .. sent + 1 /\ m # sent + 1  BY <2>1
  <2>3. \A m \in 1 .. sent : message'[m] = message[m]  BY <1>3, <2>2 DEF CreateMessage
  <2> QED  BY <2>1, <2>2, <2>3
<1>4. ASSUME NEW h \in Handlers, EraseMessage(h)  PROVE Goal
  <2>1. UNCHANGED <<sent, reads>>  BY <1>4 DEF EraseMessage
  <2>2. ASSUME NEW m \in 1 .. sent  PROVE message'[m].conv = message[m].conv
    <3> DEFINE x == [message[job[h].row] EXCEPT !.deleted = TRUE]
    <3>1. message' = [message EXCEPT ![job[h].row] = x]  BY <1>4 DEF EraseMessage
    <3>2. CASE m = job[h].row
      <4>1. message[m] \in MessageRow  BY MessageTyped
      <4>2. x.conv = message[m].conv  BY <3>2, <4>1 DEF MessageRow
      <4> HIDE DEF x
      <4>3. message'[m] = x  BY <3>1, <3>2 DEF TypeOK
      <4> QED  BY <4>2, <4>3
    <3>3. CASE m # job[h].row  BY <3>1, <3>3 DEF TypeOK
    <3> QED  BY <3>2, <3>3
  <2> QED  BY <2>1, <2>2
<1>5. ASSUME NEW h \in Handlers, CreateConversation(h) \/ Summarise(h) \/ CutShort(h) \/ RestCall(h)
      PROVE  Goal
  BY <1>1, <1>5
     DEF CreateConversation, Summarise, CutShort, RestCall, OpenConversation, SendMessage, MarkRead,
         DeleteMessage
<1>6. ASSUME NEW h \in Handlers, NEW u \in Users, NEW p \in Pairs, NEW c \in Callers, Call(h, u, p, c)
      PROVE  Goal
  BY <1>1, <1>6 DEF Call, GetConversation, SendMessage, MarkRead
<1> HIDE DEF Goal
<1>7. Goal
  BY <1>1, <1>2, <1>3, <1>4, <1>5, <1>6 DEF ChatNext, Statement, chatVars
<1> QED  BY <1>7 DEF Goal

\* A step that tells nothing and gives no handler anything more to tell.
LEMMA ToldQuiet ==
  ASSUME ReceiptInv, TypeOK, TypeOK', [ChatNext]_chatVars, UNCHANGED receipts,
         \A g \in Handlers : At(g, "marked")' =>
           (At(g, "marked") /\ job'[g] = job[g]) \/ job'[g].found = {}
  PROVE  ReceiptInv'
<1>1. ASSUME NEW p, NEW u  PROVE Read(p, u) \subseteq Read(p, u)'
  BY RowsGrow DEF Read
<1>2. ASSUME NEW p \in Pairs, NEW u \in Users  PROVE ToTell(p, u)' \subseteq ToTell(p, u)
  BY DEF ToTell, Told
<1>3. ToldInv'
  <2> SUFFICES ASSUME NEW p \in Pairs, NEW u \in Users
               PROVE  /\ ToTell(p, u)' \subseteq Read(p, u)'
                      /\ \A g, h \in Handlers :
                           Told(g, p, u)' /\ Told(h, p, u)' /\ job'[g].found \cap job'[h].found # {}
                             => g = h
    BY DEF ToldInv
  <2>1. ToTell(p, u)' \subseteq Read(p, u)'  BY <1>1, <1>2 DEF ReceiptInv, ToldInv
  <2>2. \A g, h \in Handlers :
          Told(g, p, u)' /\ Told(h, p, u)' /\ job'[g].found \cap job'[h].found # {} => g = h
    BY DEF ReceiptInv, ToldInv, Told
  <2> QED  BY <2>1, <2>2
<1>4. ReceiptsExact'
  <2> SUFFICES ASSUME NEW p \in Pairs, NEW u \in Users
               PROVE  receipts[p, u] + Cardinality(ToTell(p, u)') <= Cardinality(Read(p, u)')
    BY DEF ReceiptsExact
  <2>1. PICK A, B, C, D : /\ A = ToTell(p, u)' /\ B = ToTell(p, u)
                          /\ C = Read(p, u) /\ D = Read(p, u)'
    OBVIOUS
  <2>2. A \in SUBSET B /\ B \in SUBSET C /\ C \in SUBSET D
    BY <1>1, <1>2, <2>1 DEF ReceiptInv, ToldInv
  <2>3. IsFiniteSet(C) /\ Cardinality(C) \in Nat /\ IsFiniteSet(B) /\ Cardinality(B) \in Nat
    BY <2>1, <2>2, ReadFinite
  <2>4. IsFiniteSet(D) /\ Cardinality(D) \in Nat
    <3>1. IsFiniteSet(Read(p, u)') /\ Cardinality(Read(p, u)') \in Nat
      <4>1. sent' \in Nat  BY DEF TypeOK
      <4>2. IsFiniteSet(1 .. sent')  BY <4>1, FS_Interval
      <4>3. Read(p, u)' \in SUBSET (1 .. sent')  BY DEF Read
      <4> QED  BY <4>2, <4>3, FS_Subset, FS_CardinalityType
    <3> QED  BY <2>1, <3>1
  <2>5. Cardinality(A) \in Nat /\ Cardinality(A) <= Cardinality(B)
    BY <2>2, <2>3, FS_Subset, FS_CardinalityType
  <2>6. Cardinality(C) <= Cardinality(D)  BY <2>2, <2>4, FS_Subset
  <2>7. receipts[p, u] \in Nat /\ receipts[p, u] + Cardinality(B) <= Cardinality(C)
    BY <2>1 DEF ReceiptInv, ReceiptsExact
  <2>8. \A r, a, b, c, d \in Nat : a <= b /\ c <= d /\ r + b <= c => r + a <= d  OBVIOUS
  <2>9. receipts[p, u] + Cardinality(A) <= Cardinality(D)
    BY <2>3, <2>4, <2>5, <2>6, <2>7, <2>8
  <2> QED  BY <2>1, <2>9
<1> QED  BY <1>3, <1>4 DEF ReceiptInv
\* What a handler marked and will tell was unread until then.
LEMMA MarkedTold ==
  ASSUME ReceiptInv, ChatInv, TypeOK', NEW h \in Handlers, Mark(h), UNCHANGED receipts
  PROVE  ReceiptInv'
<1>1. TypeOK /\ At(h, "mark") /\ job[h] # None /\ "marked" \in Pcs
  BY DEF ChatInv, Mark, At, Pcs
<1>2. [ChatNext]_chatVars  BY DEF ChatNext, Statement
<1>3. CASE Done(h)
  <2>1. \A g \in Handlers : At(g, "marked")' => At(g, "marked") /\ job'[g] = job[g]
    BY <1>1, <1>3, DoneEffect DEF At
  <2> QED  BY <1>1, <1>2, <2>1, ToldQuiet
<1>4. CASE ~Done(h)
  <2> DEFINE q == job[h].conv
             w == job[h].user
             new == job[h].found
  <2>1. /\ (new \X {w}) \cap reads = {} /\ reads' = reads \cup (new \X {w})
        /\ Goto(h, "marked") /\ UNCHANGED <<message, sent>>
    BY <1>4 DEF Mark, Finish
  <2>2. /\ job'[h] # None /\ job'[h].pc = "marked" /\ job'[h].conv = q /\ job'[h].user = w
        /\ job'[h].found = new /\ \A g \in Handlers : g # h => job'[g] = job[g]
    BY <1>1, <2>1, GotoEffect
  <2>3. q \in Pairs /\ w \in Users  BY <1>1, JobFields
  <2>4. \A m \in new : m \in 1 .. sent /\ message[m].conv = q
    BY <1>1 DEF ChatInv, MarkingInv
  <2>5. PICK b, v, F : b = q /\ v = w /\ F = new  OBVIOUS
  <2>6. ASSUME NEW p, NEW u
        PROVE  Read(p, u)' = IF p = b /\ u = v THEN Read(p, u) \cup F ELSE Read(p, u)
    BY <2>1, <2>4, <2>5 DEF Read
  <2>7. F \cap Read(b, v) = {}  BY <2>1, <2>5 DEF Read
  <2>8. ASSUME NEW p, NEW u, NEW g \in Handlers
        PROVE  Told(g, p, u)' <=> IF g = h THEN p = b /\ u = v ELSE Told(g, p, u)
    BY <2>2, <2>5 DEF Told, At
  <2>9. \A p, u : ~Told(h, p, u)  BY <1>1 DEF Told, At
  <2>10. ASSUME NEW p, NEW u
         PROVE  ToTell(p, u)' = IF p = b /\ u = v THEN ToTell(p, u) \cup F ELSE ToTell(p, u)
    <3>1. \A m : m \in ToTell(p, u)' <=> \E g \in Handlers : Told(g, p, u)' /\ m \in job'[g].found
      BY DEF ToTell
    <3>2. \A m : m \in ToTell(p, u) <=> \E g \in Handlers : Told(g, p, u) /\ m \in job[g].found
      BY DEF ToTell
    <3>3. \A m : m \in ToTell(p, u)' <=> m \in ToTell(p, u) \/ (p = b /\ u = v /\ m \in F)
      <4> HIDE DEF q, w
      <4> QED  BY <3>1, <3>2, <2>2, <2>5, <2>8, <2>9
    <3> QED  BY <3>3
  <2> HIDE DEF q, w, new
  <2>11. b \in Pairs /\ v \in Users  BY <2>3, <2>5
  <2>12. ToldInv'
    <3> SUFFICES ASSUME NEW p \in Pairs, NEW u \in Users
                 PROVE  /\ ToTell(p, u)' \subseteq Read(p, u)'
                        /\ \A g, k \in Handlers :
                             Told(g, p, u)' /\ Told(k, p, u)' /\ job'[g].found \cap job'[k].found # {}
                               => g = k
      BY DEF ToldInv
    <3>1. ToTell(p, u)' \subseteq Read(p, u)'  BY <2>6, <2>10 DEF ReceiptInv, ToldInv
    <3>2. ASSUME NEW g \in Handlers, g # h, Told(g, b, v)  PROVE job[g].found \cap F = {}
      <4>1. job[g].found \subseteq ToTell(b, v)  BY <3>2 DEF ToTell
      <4> QED  BY <4>1, <2>7, <2>11 DEF ReceiptInv, ToldInv
    <3>3. ASSUME NEW g \in Handlers, NEW k \in Handlers, Told(g, p, u)', Told(k, p, u)',
                 job'[g].found \cap job'[k].found # {}
          PROVE  g = k
      <4>1. CASE g # h /\ k # h
        BY <4>1, <3>3, <2>2, <2>8 DEF ReceiptInv, ToldInv
      <4>2. CASE g = h /\ k # h
        BY <4>2, <3>2, <3>3, <2>2, <2>5, <2>8
      <4>3. CASE k = h /\ g # h
        BY <4>3, <3>2, <3>3, <2>2, <2>5, <2>8
      <4> QED  BY <4>1, <4>2, <4>3
    <3> QED  BY <3>1, <3>3
  <2>13. ReceiptsExact'
    <3> SUFFICES ASSUME NEW p \in Pairs, NEW u \in Users
                 PROVE  receipts[p, u] + Cardinality(ToTell(p, u)') <= Cardinality(Read(p, u)')
      BY DEF ReceiptsExact
    <3>1. receipts[p, u] + Cardinality(ToTell(p, u)) <= Cardinality(Read(p, u))
      BY DEF ReceiptInv, ReceiptsExact
    <3>2. CASE ~(p = b /\ u = v)  BY <3>1, <3>2, <2>6, <2>10
    <3>3. CASE p = b /\ u = v
      <4>1. PICK T, R : T = ToTell(b, v) /\ R = Read(b, v)  OBVIOUS
      <4>2. T \in SUBSET R /\ F \cap R = {}
        BY <4>1, <2>7, <2>11 DEF ReceiptInv, ToldInv
      <4>3. IsFiniteSet(R) /\ Cardinality(R) \in Nat /\ IsFiniteSet(T) /\ Cardinality(T) \in Nat
        BY <1>1, <4>1, <4>2, ReadFinite
      <4>4. IsFiniteSet(F) /\ Cardinality(F) \in Nat
        <5>1. sent \in Nat /\ F \in SUBSET (1 .. sent)
          BY <1>1, <2>4, <2>5 DEF TypeOK
        <5>2. IsFiniteSet(1 .. sent)  BY <5>1, FS_Interval
        <5> QED  BY <5>1, <5>2, FS_Subset, FS_CardinalityType
      <4>5. Cardinality(R \cup F) = Cardinality(R) + Cardinality(F)
        <5>1. R \cap F = {}  BY <4>2
        <5>2. Cardinality(R \cup F) = Cardinality(R) + Cardinality(F) - 0
          BY <4>3, <4>4, <5>1, FS_Union, FS_EmptySet
        <5> QED  BY <5>2, <4>3, <4>4
      <4>6. Cardinality(T \cup F) = Cardinality(T) + Cardinality(F)
        <5>1. T \cap F = {}  BY <4>2
        <5>2. Cardinality(T \cup F) = Cardinality(T) + Cardinality(F) - 0
          BY <4>3, <4>4, <5>1, FS_Union, FS_EmptySet
        <5> QED  BY <5>2, <4>3, <4>4
      <4>7. ToTell(p, u)' = T \cup F /\ Read(p, u)' = R \cup F
        BY <3>3, <4>1, <2>6, <2>10
      <4>8. receipts[p, u] \in Nat /\ receipts[p, u] + Cardinality(T) <= Cardinality(R)
        BY <3>1, <3>3, <4>1 DEF ReceiptInv
      <4>9. receipts[p, u] + Cardinality(T \cup F) <= Cardinality(R \cup F)
        <5>1. \A r, t, c, f \in Nat : r + t <= c => r + (t + f) <= c + f  OBVIOUS
        <5> QED  BY <4>3, <4>4, <4>5, <4>6, <4>8, <5>1
      <4> QED  BY <4>7, <4>9
    <3> QED  BY <3>2, <3>3
  <2> QED  BY <2>12, <2>13 DEF ReceiptInv
<1> QED  BY <1>3, <1>4

\* The receipt is of what only this handler had to tell.
LEMMA Telling ==
  ASSUME ReceiptInv, TypeOK, NEW h \in Handlers, TellRead(h)
  PROVE  ReceiptInv'
<1>1. /\ Told(h, job[h].conv, job[h].user) /\ Done(h) /\ UNCHANGED <<message, sent, reads>>
      /\ job[h].conv \in Pairs /\ job[h].user \in Users
  BY JobFields DEF TellRead, Told, At
<1>2. PICK b, v, F : b = job[h].conv /\ v = job[h].user /\ F = job[h].found  OBVIOUS
<1>3. b \in Pairs /\ v \in Users /\ Told(h, b, v)  BY <1>1, <1>2
<1>4. receipts' = [receipts EXCEPT ![<<b, v>>] = @ + Cardinality(F)]
  BY <1>2 DEF TellRead
<1>5. \A g \in Handlers : \A p, u :
        Told(g, p, u)' <=> g # h /\ Told(g, p, u)
  BY <1>1, DoneEffect DEF Told, At
<1>6. \A g \in Handlers : g # h => job'[g] = job[g]  BY <1>1, DoneEffect
<1>7. \A p, u : Read(p, u)' = Read(p, u)  BY <1>1 DEF Read
<1>8. \A p, u : ToTell(p, u)' \subseteq ToTell(p, u)
  BY <1>5, <1>6 DEF ToTell
<1>9. F \subseteq ToTell(b, v) /\ ToTell(b, v)' \cap F = {}
  <2>1. F \subseteq ToTell(b, v)  BY <1>2, <1>3 DEF ToTell
  <2>2. ASSUME NEW g \in Handlers, Told(g, b, v)'  PROVE job'[g].found \cap F = {}
    <3>1. g # h /\ Told(g, b, v) /\ job'[g] = job[g]  BY <1>5, <1>6, <2>2
    <3> QED  BY <3>1, <1>2, <1>3 DEF ReceiptInv, ToldInv
  <2> QED  BY <2>1, <2>2 DEF ToTell
<1>10. ToldInv'
  <2> SUFFICES ASSUME NEW p \in Pairs, NEW u \in Users
               PROVE  /\ ToTell(p, u)' \subseteq Read(p, u)'
                      /\ \A g, k \in Handlers :
                           Told(g, p, u)' /\ Told(k, p, u)' /\ job'[g].found \cap job'[k].found # {}
                             => g = k
    BY DEF ToldInv
  <2>1. ToTell(p, u)' \subseteq Read(p, u)'  BY <1>7, <1>8 DEF ReceiptInv, ToldInv
  <2> QED  BY <2>1, <1>5, <1>6 DEF ReceiptInv, ToldInv
<1>11. ASSUME NEW p \in Pairs, NEW u \in Users
       PROVE  /\ receipts'[p, u] \in Nat
              /\ receipts'[p, u] + Cardinality(ToTell(p, u)') <= Cardinality(Read(p, u)')
  <2>1. PICK T, U, R : T = ToTell(p, u) /\ U = ToTell(p, u)' /\ R = Read(p, u)  OBVIOUS
  <2>2. T \in SUBSET R /\ U \in SUBSET T /\ U \in SUBSET R
    BY <1>8, <2>1 DEF ReceiptInv, ToldInv
  <2>3. /\ IsFiniteSet(R) /\ Cardinality(R) \in Nat
        /\ IsFiniteSet(T) /\ Cardinality(T) \in Nat
        /\ IsFiniteSet(U) /\ Cardinality(U) \in Nat
    BY <2>1, <2>2, ReadFinite
  <2>4. receipts[p, u] \in Nat /\ receipts[p, u] + Cardinality(T) <= Cardinality(R)
    BY <2>1 DEF ReceiptInv, ReceiptsExact
  <2>5. Cardinality(U) <= Cardinality(T)  BY <2>2, <2>3, FS_Subset
  <2>6. <<p, u>> \in Pairs \X Users /\ receipts \in [Pairs \X Users -> Nat]  BY DEF ReceiptInv
  <2>7. CASE ~(p = b /\ u = v)
    <3>1. receipts'[p, u] = receipts[p, u]
      <4>1. <<p, u>> # <<b, v>>  BY <2>7
      <4> QED  BY <1>4, <2>6, <4>1
    <3>2. receipts[p, u] + Cardinality(U) <= Cardinality(R)
      <4>1. \A r, a, t, c \in Nat : a <= t /\ r + t <= c => r + a <= c  OBVIOUS
      <4> QED  BY <2>3, <2>4, <2>5, <4>1
    <3> QED  BY <3>1, <3>2, <2>1, <2>4, <1>7
  <2>8. CASE p = b /\ u = v
    <3>1. F \subseteq T /\ U \cap F = {} /\ U \subseteq T
      BY <1>8, <1>9, <2>1, <2>8
    <3>2. IsFiniteSet(F) /\ Cardinality(F) \in Nat
      BY <3>1, <2>3, FS_Subset, FS_CardinalityType
    <3>3. Cardinality(U \cup F) = Cardinality(U) + Cardinality(F)
      <4>1. Cardinality(U \cup F) = Cardinality(U) + Cardinality(F) - 0
        BY <3>1, <3>2, <2>3, FS_Union, FS_EmptySet
      <4> QED  BY <4>1, <2>3, <3>2
    <3>4. Cardinality(U \cup F) <= Cardinality(T)
      <4>1. U \cup F \in SUBSET T  BY <3>1
      <4> QED  BY <4>1, <2>3, FS_Subset
    <3>5. receipts'[p, u] = receipts[p, u] + Cardinality(F)
      BY <1>4, <2>6, <2>8
    <3>6. receipts'[p, u] \in Nat /\ receipts'[p, u] + Cardinality(U) <= Cardinality(R)
      <4>1. \A r, a, f, t, c \in Nat :
              a + f <= t /\ r + t <= c => r + f \in Nat /\ (r + f) + a <= c
        OBVIOUS
      <4>2. Cardinality(U) + Cardinality(F) <= Cardinality(T)  BY <3>3, <3>4
      <4>3. /\ receipts[p, u] + Cardinality(F) \in Nat
            /\ (receipts[p, u] + Cardinality(F)) + Cardinality(U) <= Cardinality(R)
        BY <4>1, <4>2, <3>2, <2>3, <2>4
      <4> QED  BY <4>3, <3>5
    <3> QED  BY <3>6, <2>1, <1>7
  <2> QED  BY <2>7, <2>8
<1>12. receipts' \in [Pairs \X Users -> Nat]
  <2>1. receipts'[<<b, v>>] \in Nat  BY <1>3, <1>11
  <2> QED  BY <2>1, <1>3, <1>4 DEF ReceiptInv
<1>13. ReceiptsExact'  BY <1>11 DEF ReceiptsExact
<1> QED  BY <1>10, <1>12, <1>13 DEF ReceiptInv
LEMMA ReceiptInvStart == Init => ReceiptInv
<1> SUFFICES ASSUME Init  PROVE ReceiptInv
  OBVIOUS
<1>1. /\ job = [h \in Handlers |-> None] /\ sent = 0 /\ reads = {}
      /\ receipts = [x \in Pairs \X Users |-> 0]
  BY DEF Init, ChatInit
<1>2. \A p, u : ToTell(p, u) = {} /\ Read(p, u) = {} /\ \A h \in Handlers : ~Told(h, p, u)
  BY <1>1 DEF ToTell, Read, Told, At
<1>3. \A x \in Pairs \X Users : receipts[x] = 0  BY <1>1
<1>4. receipts \in [Pairs \X Users -> Nat]
  <2>1. DOMAIN receipts = Pairs \X Users  BY <1>1
  <2> QED  BY <1>1, <1>3, <2>1
<1>5. ToldInv  BY <1>2 DEF ToldInv
<1>6. ReceiptsExact
  <2>1. Cardinality({}) = 0  BY FS_EmptySet
  <2> SUFFICES ASSUME NEW p \in Pairs, NEW u \in Users
               PROVE  receipts[p, u] + Cardinality(ToTell(p, u)) <= Cardinality(Read(p, u))
    BY DEF ReceiptsExact
  <2>2. receipts[p, u] = 0  BY <1>3
  <2>3. Cardinality(ToTell(p, u)) = 0 /\ Cardinality(Read(p, u)) = 0  BY <1>2, <2>1
  <2>4. 0 + 0 <= 0  OBVIOUS
  <2> QED  BY <2>2, <2>3, <2>4, Zenon
<1> QED  BY <1>4, <1>5, <1>6 DEF ReceiptInv

\* Only marking gives a handler something to tell.
LEMMA NothingToTell ==
  ASSUME TypeOK, NEW h \in Handlers,
         RestCall(h) \/ CutShort(h) \/ CreateConversation(h) \/ CreateMessage(h) \/ Summarise(h)
           \/ EraseMessage(h)
  PROVE  \A g \in Handlers : At(g, "marked")' => At(g, "marked") /\ job'[g] = job[g]
<1> DEFINE Goal == \A g \in Handlers : At(g, "marked")' => At(g, "marked") /\ job'[g] = job[g]
<1> SUFFICES Goal
  OBVIOUS
<1>1. ASSUME /\ \A g \in Handlers : g # h => job'[g] = job[g]
             /\ job'[h] = None \/ job'[h].pc # "marked"
      PROVE  Goal
  BY <1>1 DEF At
<1> HIDE DEF Goal
<1>2. ASSUME NEW pc \in Pcs \ {"marked"}, NEW p \in Pairs, NEW u \in Users, NEW row \in Nat,
             NEW found \in SUBSET Nat, Start(h, pc, p, u, row, found, None)
      PROVE  Goal
  BY <1>1, <1>2, StartEffect
<1>3. ASSUME Done(h)  PROVE Goal
  BY <1>1, <1>3, DoneEffect
<1>4. CASE RestCall(h)
  <2>1. ASSUME NEW u \in Users, NEW p \in Pairs, OpenConversation(h, u, p) \/ SendMessage(h, u, p, None)
        PROVE  \E pc \in Pcs \ {"marked"} : Start(h, pc, p, u, 0, {}, None)
    BY <2>1 DEF OpenConversation, SendMessage, Pcs
  <2>2. ASSUME NEW u \in Users, NEW p \in Pairs, MarkRead(h, u, p, None)
        PROVE  Start(h, "mark", p, u, 0, Unread(u, p), None) /\ Unread(u, p) \in SUBSET Nat
    BY <2>2 DEF MarkRead, Unread, TypeOK
  <2>3. ASSUME NEW u \in Users, NEW m \in 1 .. sent, DeleteMessage(h, u, m)
        PROVE  /\ Start(h, "erase", message[m].conv, u, m, {}, None)
               /\ message[m].conv \in Pairs /\ m \in Nat
    BY <2>3, MessageTyped DEF DeleteMessage, TypeOK
  <2>4. 0 \in Nat /\ {} \in SUBSET Nat /\ "mark" \in Pcs \ {"marked"} /\ "erase" \in Pcs \ {"marked"}
    BY DEF Pcs
  <2> QED  BY <1>2, <1>4, <2>1, <2>2, <2>3, <2>4 DEF RestCall
<1>5. CASE CreateMessage(h)
  <2> DEFINE x == [job[h] EXCEPT !.pc = "summarise", !.row = sent + 1]
  <2>1. job[h] # None /\ job' = [job EXCEPT ![h] = x]  BY <1>5 DEF CreateMessage, At
  <2>2. x.pc = "summarise"  BY <2>1, JobFields DEF Job
  <2> HIDE DEF x
  <2>3. job'[h] = x /\ \A g \in Handlers : g # h => job'[g] = job[g]  BY <2>1 DEF TypeOK
  <2> QED  BY <1>1, <2>2, <2>3
<1>6. CASE Summarise(h)
  <2>1. CASE Done(h)  BY <1>3, <2>1
  <2>2. CASE Goto(h, "sent")
    <3>1. job[h] # None /\ "sent" \in Pcs  BY <1>6 DEF Summarise, At, Pcs
    <3>2. job'[h].pc = "sent" /\ \A g \in Handlers : g # h => job'[g] = job[g]
      BY <2>2, <3>1, GotoEffect
    <3> QED  BY <1>1, <3>2
  <2> QED  BY <1>6, <2>1, <2>2 DEF Summarise, Finish
<1>7. CASE CreateConversation(h) \/ EraseMessage(h) \/ CutShort(h)
  BY <1>3, <1>7 DEF CreateConversation, EraseMessage, CutShort
<1> QED  BY <1>4, <1>5, <1>6, <1>7

LEMMA ReceiptInvStep ==
  ASSUME ReceiptInv, ChatInv, ChatInv', RoomInv, [Next]_vars
  PROVE  ReceiptInv'
<1>1. TypeOK /\ TypeOK' /\ Shape  BY DEF ChatInv, RoomInv
<1>2. [ChatNext]_chatVars  BY <1>1, GatewayStep
<1> DEFINE Untold == \A g \in Handlers : At(g, "marked")' =>
                       (At(g, "marked") /\ job'[g] = job[g]) \/ job'[g].found = {}
<1>3. ASSUME UNCHANGED receipts, Untold  PROVE ReceiptInv'
  BY <1>1, <1>2, <1>3, ToldQuiet
<1>4. CASE UNCHANGED vars  BY <1>3, <1>4 DEF vars, gateVars, chatVars, At
<1>5. ASSUME NEW s \in Sockets, \/ Connect(s) \/ Disconnect(s)
                                \/ \E u \in Users : Verified(s, u)
                                \/ \E p \in Pairs : LeaveConversation(s, p)
      PROVE  ReceiptInv'
  BY <1>3, <1>5 DEF Connect, Disconnect, Verified, LeaveConversation, chatVars, At
<1>6. ASSUME NEW h \in Handlers, UNCHANGED receipts,
             RestCall(h) \/ Statement(h) \/ CutShort(h)
      PROVE  ReceiptInv'
  <2>1. CASE Mark(h)  BY <1>1, <1>6, <2>1, MarkedTold
  <2>2. CASE ~Mark(h)
    <3>1. Untold  BY <1>1, <1>6, <2>2, NothingToTell DEF Statement
    <3> QED  BY <1>3, <1>6, <3>1
  <2> QED  BY <2>1, <2>2
<1>7. ASSUME NEW h \in Handlers, NEW s \in Sockets, NEW p \in Pairs,
             JoinConversation(h, s, p) \/ WsSend(h, s, p) \/ WsMarkRead(h, s, p)
      PROVE  ReceiptInv'
  <2>1. user[s] \in Users /\ s \in Callers \cup {None}
    BY <1>1, <1>7 DEF Shape, JoinConversation, WsSend, WsMarkRead, Authenticated, Sockets
  <2>2. PICK pc \in Pcs, found \in SUBSET Nat :
          /\ Start(h, pc, p, user[s], 0, found, s)
          /\ pc = "marked" => found = {}
    <3>1. Unread(user[s], p) \in SUBSET Nat /\ {} \in SUBSET Nat
      BY <1>1 DEF Unread, TypeOK
    <3>2. CASE JoinConversation(h, s, p)
      <4>1. Start(h, "found", p, user[s], 0, {}, s)  BY <3>2 DEF JoinConversation, GetConversation
      <4> QED  BY <4>1, <3>1 DEF Pcs
    <3>3. CASE WsSend(h, s, p)
      <4>1. Start(h, "send", p, user[s], 0, {}, s)  BY <3>3 DEF WsSend, SendMessage
      <4> QED  BY <4>1, <3>1 DEF Pcs
    <3>4. CASE WsMarkRead(h, s, p)
      <4>1. \/ Start(h, "mark", p, user[s], 0, Unread(user[s], p), s)
            \/ Start(h, "marked", p, user[s], 0, {}, s)
        BY <3>4 DEF WsMarkRead, MarkRead
      <4> QED  BY <4>1, <3>1 DEF Pcs
    <3> QED  BY <1>7, <3>2, <3>3, <3>4
  <2>3. 0 \in Nat  OBVIOUS
  <2>4. Untold  BY <1>1, <2>1, <2>2, <2>3, StartEffect DEF At
  <2> QED  BY <1>3, <1>7, <2>4 DEF JoinConversation, WsSend, WsMarkRead, gateVars
<1>8. ASSUME NEW h \in Handlers, Join(h) \/ Announce(h) \/ Notify(h)
      PROVE  ReceiptInv'
  <2>1. UNCHANGED job \/ Done(h)  BY <1>8 DEF Join, Announce, Notify, chatVars
  <2>2. Untold  BY <1>1, <2>1, DoneEffect DEF At
  <2> QED  BY <1>3, <1>8, <2>2 DEF Join, Announce, Notify
<1>9. ASSUME NEW h \in Handlers, TellRead(h)  PROVE ReceiptInv'
  BY <1>1, <1>9, Telling
<1> HIDE DEF Untold
<1>10. CASE Next
  BY <1>5, <1>6, <1>7, <1>8, <1>9, <1>10 DEF Next, Resume, CutOff, gateVars
<1> QED  BY <1>4, <1>10

\* What the rooms were told somebody has read never exceeds what is marked read, with
\* what handlers are about to tell: however calls of one reader overlap, no message is
\* counted twice (chat.gateway.ts 119-133, chat.service.ts 136-154).
THEOREM ReceiptsAreExact == Spec => []ReceiptsExact
<1>1. Init => ReceiptInv  BY ReceiptInvStart
<1>2. ChatInv /\ ChatInv' /\ RoomInv /\ ReceiptInv /\ [Next]_vars => ReceiptInv'
  BY ReceiptInvStep
<1>3. ReceiptInv => ReceiptsExact  BY DEF ReceiptInv
<1> QED  BY <1>1, <1>2, <1>3, GatewayInv, PTL DEF Spec

-----------------------------------------------------------------------------
\* A handler that has a message to tell is alone with it: its message is shown in
\* the conversation list, and the other member has not been told. So whether a
\* message is in `announced` says how far the handler has come with it.
TellInv ==
  /\ notified \subseteq announced /\ announced \subseteq shown
  /\ \A h \in Handlers : At(h, "sent") =>
       /\ job[h].row \in shown \ notified
       /\ \A g \in Handlers : At(g, "sent") /\ job[g].row = job[h].row => g = h

LEMMA TellQuiet ==
  ASSUME TellInv, notified' = notified, announced' = announced, shown \subseteq shown',
         \A g \in Handlers : At(g, "sent")' => At(g, "sent") /\ job'[g].row = job[g].row
  PROVE  TellInv'
BY DEF TellInv

\* A call that starts or is cut short, and every statement but the summary, give
\* nobody a message to tell.
LEMMA NoNewSent ==
  ASSUME ChatInv, NEW h \in Handlers, RestCall(h) \/ CutShort(h) \/ Statement(h), ~Summarise(h)
  PROVE  /\ \A g \in Handlers : At(g, "sent")' => At(g, "sent") /\ job'[g].row = job[g].row
         /\ shown' = shown
<1>1. TypeOK  BY DEF ChatInv
<1>2. shown' = shown
  BY DEF RestCall, OpenConversation, SendMessage, MarkRead, DeleteMessage, CutShort, Statement,
         CreateConversation, CreateMessage, Mark, EraseMessage
<1>3. ASSUME /\ \A g \in Handlers : g # h => job'[g] = job[g]
             /\ job'[h] = None \/ job'[h].pc # "sent"
      PROVE  \A g \in Handlers : At(g, "sent")' => At(g, "sent") /\ job'[g].row = job[g].row
  BY <1>3 DEF At
<1>4. ASSUME NEW pc \in Pcs \ {"sent"}, NEW p \in Pairs, NEW u \in Users, NEW row \in Nat,
             NEW found \in SUBSET Nat, NEW c \in Callers \cup {None}, Start(h, pc, p, u, row, found, c)
      PROVE  /\ \A g \in Handlers : g # h => job'[g] = job[g]
             /\ job'[h].pc # "sent"
  BY <1>1, <1>4, StartEffect
<1>5. CASE CutShort(h) \/ CreateConversation(h) \/ EraseMessage(h)
  <2>1. Done(h)  BY <1>5 DEF CutShort, CreateConversation, EraseMessage
  <2>2. /\ \A g \in Handlers : g # h => job'[g] = job[g]
        /\ job'[h] = None
    BY <1>1, <2>1, DoneEffect
  <2> QED  BY <1>2, <1>3, <2>2
<1>6. CASE CreateMessage(h)
  <2>1. job' = [job EXCEPT ![h].pc = "summarise", ![h].row = sent + 1] /\ job[h] \in Job
    BY <1>1, <1>6 DEF CreateMessage, At, TypeOK
  <2>2. \A g \in Handlers : g # h => job'[g] = job[g]  BY <1>1, <2>1 DEF TypeOK
  <2>3. job'[h].pc = "summarise"  BY <1>1, <2>1 DEF TypeOK, Job
  <2> QED  BY <1>2, <1>3, <2>2, <2>3
<1>7. CASE Mark(h)
  <2>1. (Done(h) \/ Goto(h, "marked")) /\ job[h] # None /\ "marked" \in Pcs
    BY <1>7 DEF Mark, Finish, At, Pcs
  <2>2. /\ \A g \in Handlers : g # h => job'[g] = job[g]
        /\ job'[h] = None \/ job'[h].pc # "sent"
    BY <1>1, <2>1, DoneEffect, GotoEffect
  <2> QED  BY <1>2, <1>3, <2>2
<1>8. CASE RestCall(h)
  <2>1. "open" \in Pcs /\ "send" \in Pcs /\ "mark" \in Pcs /\ "erase" \in Pcs  BY DEF Pcs
  <2>2. ASSUME NEW u \in Users, NEW p \in Pairs,
               OpenConversation(h, u, p) \/ SendMessage(h, u, p, None)
        PROVE  /\ \A g \in Handlers : g # h => job'[g] = job[g]
               /\ job'[h].pc # "sent"
    BY <2>1, <2>2, <1>4 DEF OpenConversation, SendMessage
  <2>3. ASSUME NEW u \in Users, NEW p \in Pairs, MarkRead(h, u, p, None)
        PROVE  /\ \A g \in Handlers : g # h => job'[g] = job[g]
               /\ job'[h].pc # "sent"
    <3>1. Unread(u, p) \in SUBSET Nat  BY <1>1 DEF Unread, TypeOK
    <3> QED  BY <2>1, <2>3, <3>1, <1>4 DEF MarkRead
  <2>4. ASSUME NEW u \in Users, NEW m \in 1 .. sent, DeleteMessage(h, u, m)
        PROVE  /\ \A g \in Handlers : g # h => job'[g] = job[g]
               /\ job'[h].pc # "sent"
    <3>1. message[m].conv \in Pairs /\ m \in Nat  BY <1>1, MessageTyped DEF TypeOK
    <3> QED  BY <2>1, <2>4, <3>1, <1>4 DEF DeleteMessage
  <2> QED  BY <1>2, <1>3, <1>8, <2>2, <2>3, <2>4 DEF RestCall
<1> QED  BY <1>5, <1>6, <1>7, <1>8 DEF Statement

\* The summary shows the message, which was nobody's to tell before.
LEMMA TellShown ==
  ASSUME ChatInv, TellInv, NEW h \in Handlers, Summarise(h),
         notified' = notified, announced' = announced
  PROVE  TellInv'
<1>1. TypeOK /\ SendingInv  BY DEF ChatInv
<1>2. PICK m : m = job[h].row  OBVIOUS
<1>3. At(h, "summarise") /\ job[h] # None /\ m \notin shown /\ shown' = shown \cup {m}
  BY <1>1, <1>2 DEF Summarise, SendingInv, At
<1>4. (Done(h) \/ Goto(h, "sent")) /\ "sent" \in Pcs  BY DEF Summarise, Finish, Pcs
<1>5. /\ \A g \in Handlers : g # h => job'[g] = job[g]
      /\ job'[h] = None \/ job'[h].row = m
  BY <1>1, <1>2, <1>3, <1>4, DoneEffect, GotoEffect
<1>6. m \notin notified /\ notified \subseteq shown  BY <1>3 DEF TellInv
<1>7. \A g \in Handlers : At(g, "sent")' =>
        IF g = h THEN job'[g].row = m ELSE At(g, "sent") /\ job'[g].row = job[g].row
  BY <1>5 DEF At
<1>8. \A g \in Handlers : At(g, "sent") => job[g].row \in shown \ notified /\ job[g].row # m
  BY <1>3 DEF TellInv
<1>9. \A g \in Handlers : At(g, "sent")' =>
        /\ job'[g].row \in shown' \ notified'
        /\ \A i \in Handlers : At(i, "sent")' /\ job'[i].row = job'[g].row => i = g
  <2> SUFFICES ASSUME NEW g \in Handlers, At(g, "sent")'
               PROVE  /\ job'[g].row \in shown' \ notified'
                      /\ \A i \in Handlers : At(i, "sent")' /\ job'[i].row = job'[g].row => i = g
    OBVIOUS
  <2>1. job'[g].row \in shown' \ notified'  BY <1>3, <1>6, <1>7, <1>8
  <2>2. ASSUME NEW i \in Handlers, At(i, "sent")', job'[i].row = job'[g].row PROVE i = g
    BY <1>7, <1>8, <2>2 DEF TellInv
  <2> QED  BY <2>1, <2>2
<1>10. notified' \subseteq announced' /\ announced' \subseteq shown'  BY <1>3 DEF TellInv
<1> QED  BY <1>9, <1>10 DEF TellInv

LEMMA TellStep ==
  ASSUME ChatInv, RoomInv, TellInv, Next
  PROVE  TellInv'
<1>1. TypeOK /\ Shape  BY DEF ChatInv, RoomInv
<1>2. CASE \E s \in Sockets : \/ Connect(s) \/ Disconnect(s)
                              \/ \E u \in Users : Verified(s, u)
                              \/ \E p \in Pairs : LeaveConversation(s, p)
  <2>1. UNCHANGED <<announced, notified, shown, job>>
    BY <1>2 DEF Connect, Disconnect, Verified, LeaveConversation, chatVars
  <2>2. \A g \in Handlers : At(g, "sent")' => At(g, "sent") /\ job'[g].row = job[g].row
    BY <2>1 DEF At
  <2> QED  BY <2>1, <2>2, TellQuiet
<1>3. ASSUME NEW h \in Handlers, RestCall(h) \/ CutShort(h) \/ Statement(h),
             UNCHANGED <<announced, notified>>
      PROVE  TellInv'
  <2>1. CASE Summarise(h)  BY <1>3, <2>1, TellShown
  <2>2. CASE ~Summarise(h)
    <3>1. /\ \A g \in Handlers : At(g, "sent")' => At(g, "sent") /\ job'[g].row = job[g].row
          /\ shown' = shown
      BY <1>3, <2>2, NoNewSent
    <3> QED  BY <1>3, <3>1, TellQuiet
  <2> QED  BY <2>1, <2>2
<1>4. ASSUME NEW h \in Handlers, NEW s \in Sockets, NEW p \in Pairs,
             JoinConversation(h, s, p) \/ WsSend(h, s, p) \/ WsMarkRead(h, s, p)
      PROVE  TellInv'
  <2>1. user[s] \in Users /\ s \in Callers \cup {None}
    BY <1>1, <1>4 DEF Shape, Sockets, JoinConversation, WsSend, WsMarkRead, Authenticated
  <2>2. Unread(user[s], p) \in SUBSET Nat  BY <1>1 DEF Unread, TypeOK
  <2>3. UNCHANGED <<announced, notified, shown>>
    BY <1>4 DEF JoinConversation, WsSend, WsMarkRead, gateVars, GetConversation, SendMessage, MarkRead
  <2>4. PICK pc \in Pcs \ {"sent"}, found \in SUBSET Nat : Start(h, pc, p, user[s], 0, found, s)
    <3>1. "found" \in Pcs \ {"sent"} /\ "send" \in Pcs \ {"sent"} /\ "mark" \in Pcs \ {"sent"}
          /\ "marked" \in Pcs \ {"sent"}
      BY DEF Pcs
    <3>2. CASE JoinConversation(h, s, p) \/ WsSend(h, s, p)
      BY <3>1, <3>2 DEF JoinConversation, WsSend, GetConversation, SendMessage
    <3>3. CASE WsMarkRead(h, s, p)
      BY <2>2, <3>1, <3>3 DEF WsMarkRead, MarkRead
    <3> QED  BY <1>4, <3>2, <3>3
  <2>5. /\ \A g \in Handlers : g # h => job'[g] = job[g]
        /\ job'[h].pc # "sent"
    <3>1. 0 \in Nat  OBVIOUS
    <3> QED  BY <1>1, <2>1, <2>4, <3>1, StartEffect
  <2>6. \A g \in Handlers : At(g, "sent")' => At(g, "sent") /\ job'[g].row = job[g].row
    BY <2>5 DEF At
  <2> QED  BY <2>3, <2>6, TellQuiet
<1>5. ASSUME NEW h \in Handlers, Join(h) \/ TellRead(h) PROVE TellInv'
  <2>1. Done(h) /\ UNCHANGED <<announced, notified, shown>>  BY <1>5 DEF Join, TellRead
  <2>2. \A g \in Handlers : At(g, "sent")' => At(g, "sent") /\ job'[g].row = job[g].row
    BY <1>1, <2>1, DoneEffect DEF At
  <2> QED  BY <2>1, <2>2, TellQuiet
<1>6. ASSUME NEW h \in Handlers, Announce(h) PROVE TellInv'
  <2>1. /\ At(h, "sent") /\ announced' = announced \cup {job[h].row}
        /\ UNCHANGED <<notified, shown, job>>
    BY <1>6 DEF Announce, chatVars
  <2> QED  BY <2>1 DEF TellInv, At
<1>7. ASSUME NEW h \in Handlers, Notify(h) PROVE TellInv'
  <2>1. /\ At(h, "sent") /\ job[h].row \in announced /\ notified' = notified \cup {job[h].row}
        /\ UNCHANGED <<announced, shown>> /\ Done(h)
    BY <1>7 DEF Notify
  <2>2. \A g \in Handlers : At(g, "sent")' => g # h /\ At(g, "sent") /\ job'[g].row = job[g].row
    BY <1>1, <2>1, DoneEffect DEF At
  <2>3. \A g \in Handlers : At(g, "sent")' => job'[g].row # job[h].row
    BY <2>1, <2>2 DEF TellInv
  <2> QED  BY <2>1, <2>2, <2>3 DEF TellInv
<1> QED
  BY <1>2, <1>3, <1>4, <1>5, <1>6, <1>7 DEF Next, Resume, CutOff, gateVars

\* The variables RoomInv, ReceiptInv and TellInv say nothing of.
RestTyped ==
  /\ dropped \subseteq 1 .. sent
  /\ wants \subseteq Sockets \X Pairs /\ crossed \subseteq Sockets \X Pairs

LEMMA RestStep ==
  ASSUME ChatInv, TellInv, RestTyped, Next
  PROVE  RestTyped'
<1>1. TypeOK /\ SendingInv  BY DEF ChatInv
<1>2. ASSUME NEW h \in Handlers, RestCall(h) \/ CutShort(h) \/ Statement(h)
      PROVE  sent' \in {sent, sent + 1}
  <2>1. CASE RestCall(h) \/ CutShort(h)
    BY <2>1 DEF RestCall, OpenConversation, SendMessage, MarkRead, DeleteMessage, CutShort
  <2>2. CASE Statement(h)
    BY <2>2 DEF Statement, CreateConversation, CreateMessage, Summarise, Mark, EraseMessage
  <2> QED  BY <1>2, <2>1, <2>2
<1>3. 1 .. sent \subseteq 1 .. sent'
  <2>1. CASE \E s \in Sockets : \/ Connect(s) \/ Disconnect(s)
                                \/ \E u \in Users : Verified(s, u)
                                \/ \E p \in Pairs : LeaveConversation(s, p)
    BY <2>1 DEF Connect, Disconnect, Verified, LeaveConversation, chatVars
  <2>2. ASSUME NEW h \in Handlers, NEW s \in Sockets, NEW p \in Pairs,
               JoinConversation(h, s, p) \/ WsSend(h, s, p) \/ WsMarkRead(h, s, p)
        PROVE  sent' = sent
    BY <2>2 DEF JoinConversation, WsSend, WsMarkRead, GetConversation, SendMessage, MarkRead
  <2>3. ASSUME NEW h \in Handlers, Join(h) \/ Announce(h) \/ Notify(h) \/ TellRead(h)
        PROVE  sent' = sent
    BY <2>3 DEF Join, Announce, Notify, TellRead, chatVars
  <2>4. \/ sent' = sent
        \/ \E h \in Handlers : RestCall(h) \/ CutShort(h) \/ Statement(h)
    BY <2>1, <2>2, <2>3
    DEF Next, Resume, CutOff, Connect, Disconnect, Verified, LeaveConversation, chatVars
  <2>5. sent' \in {sent, sent + 1} /\ sent \in Nat  BY <1>1, <1>2, <2>4 DEF TypeOK
  <2> QED  BY <2>5
<1>4. wants' \subseteq Sockets \X Pairs /\ crossed' \subseteq Sockets \X Pairs
  <2>1. ASSUME NEW s \in Sockets, NEW p \in Pairs, LeaveConversation(s, p)
        PROVE  wants' \subseteq Sockets \X Pairs /\ crossed' \subseteq Sockets \X Pairs
    BY <2>1 DEF LeaveConversation, RestTyped
  <2>2. ASSUME NEW s \in Sockets, Disconnect(s)
        PROVE  wants' \subseteq Sockets \X Pairs /\ crossed' \subseteq Sockets \X Pairs
    BY <2>2 DEF Disconnect, RestTyped
  <2>3. ASSUME NEW h \in Handlers, NEW s \in Sockets, NEW p \in Pairs, JoinConversation(h, s, p)
        PROVE  wants' \subseteq Sockets \X Pairs /\ crossed' \subseteq Sockets \X Pairs
    BY <2>3 DEF JoinConversation, RestTyped
  <2>4. ASSUME UNCHANGED <<wants, crossed>>
        PROVE  wants' \subseteq Sockets \X Pairs /\ crossed' \subseteq Sockets \X Pairs
    BY <2>4 DEF RestTyped
  <2>5. \A h \in Handlers : Join(h) \/ Announce(h) \/ Notify(h) \/ TellRead(h) \/ CutOff(h)
                            => UNCHANGED <<wants, crossed>>
    BY DEF Join, Announce, Notify, TellRead, CutOff
  <2>6. \A s \in Sockets : Connect(s) \/ (\E u \in Users : Verified(s, u))
                           => UNCHANGED <<wants, crossed>>
    BY DEF Connect, Verified
  <2>7. \A h \in Handlers, s \in Sockets, p \in Pairs :
          WsSend(h, s, p) \/ WsMarkRead(h, s, p) => UNCHANGED <<wants, crossed>>
    BY DEF WsSend, WsMarkRead, gateVars
  <2>8. UNCHANGED gateVars => UNCHANGED <<wants, crossed>>  BY DEF gateVars
  <2> QED  BY <2>1, <2>2, <2>3, <2>4, <2>5, <2>6, <2>7, <2>8 DEF Next, Resume
<1>5. ASSUME NEW h \in Handlers, CutOff(h) PROVE dropped' \subseteq 1 .. sent
  <2>1. At(h, "summarise") \/ At(h, "sent") => job[h].row \in 1 .. sent
    BY <1>1 DEF SendingInv, TellInv, TypeOK
  <2> QED  BY <1>5, <2>1 DEF CutOff, RestTyped
<1>6. dropped' = dropped \/ \E h \in Handlers : CutOff(h)
  BY DEF Next, Resume, Connect, Disconnect, Verified, LeaveConversation,
         JoinConversation, WsSend, WsMarkRead, Join, Announce, Notify, TellRead, gateVars
<1>7. dropped' \subseteq 1 .. sent  BY <1>5, <1>6 DEF RestTyped
<1> QED  BY <1>3, <1>4, <1>7 DEF RestTyped

LEMMA GatewayAlways == Spec => [](ChatInv /\ RoomInv /\ ReceiptInv /\ TellInv /\ RestTyped)
<1>1. Init => ReceiptInv /\ TellInv /\ RestTyped
  <2>1. Init => TellInv /\ RestTyped  BY DEF Init, ChatInit, TellInv, RestTyped, At
  <2> QED  BY <2>1, ReceiptInvStart
<1>2. /\ ChatInv /\ ChatInv' /\ RoomInv /\ ReceiptInv /\ TellInv /\ RestTyped /\ [Next]_vars
      => ReceiptInv' /\ TellInv' /\ RestTyped'
  <2> SUFFICES ASSUME ChatInv, ChatInv', RoomInv, ReceiptInv, TellInv, RestTyped, [Next]_vars
               PROVE  ReceiptInv' /\ TellInv' /\ RestTyped'
    OBVIOUS
  <2>1. ReceiptInv'  BY ReceiptInvStep
  <2>2. CASE Next  BY <2>1, <2>2, TellStep, RestStep
  <2>3. CASE UNCHANGED vars
    <3>1. UNCHANGED <<announced, notified, shown, job, dropped, wants, crossed, sent>>
      BY <2>3 DEF vars, gateVars, chatVars
    <3>2. \A g \in Handlers : At(g, "sent")' => At(g, "sent") /\ job'[g].row = job[g].row
      BY <3>1 DEF At
    <3>3. TellInv'  BY <3>1, <3>2, TellQuiet
    <3> QED  BY <2>1, <3>1, <3>3 DEF RestTyped
  <2> QED  BY <2>2, <2>3
<1> QED  BY <1>1, <1>2, GatewayInv, PTL DEF Spec

\* Sockets, rooms, what they were told and what they asked for keep their types: no
\* message is announced, notified or given up that was not stored.
THEOREM GateTypeCorrect == Spec => []GateTypeOK
<1>1. ASSUME ChatInv, RoomInv, ReceiptInv, TellInv, RestTyped PROVE GateTypeOK
  <2>1. shown \subseteq 1 .. sent  BY <1>1 DEF ChatInv, TypeOK
  <2> QED  BY <1>1, <2>1 DEF RoomInv, Shape, ReceiptInv, TellInv, RestTyped, GateTypeOK
<1> QED  BY <1>1, GatewayAlways, PTL

\* A message reaches its room before its other member's own, and either only when
\* the conversation list shows it; no two handlers tell one message, and none tells a
\* member again (chat.gateway.ts 90-114).
THEOREM ToldOnce == Spec => []TellInv
BY GatewayAlways, PTL
=============================================================================
