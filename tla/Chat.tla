--------------------------------- MODULE Chat ----------------------------------
(***************************************************************************)
(* Conversations of two: ChatService. Opening one, sending into it, marking *)
(* its messages read and deleting one are each a read with its checks and   *)
(* one or two writes, a database statement at a time. A call comes from the *)
(* REST controller, which answers and is done, or from a caller that goes   *)
(* on with what the call returned (the gateway, module Gateway).            *)
(***************************************************************************)
EXTENDS Integers, FiniteSets

CONSTANTS Users,
          Pairs,        \* the conversations there may be: sets of two users
          Handlers,     \* calls the service may be running at once
          Callers,      \* who waits for a result, beside the REST controller
          MaxMessages,  \* messages that can be created; bounds a run
          MayFail,      \* whether a handler may be cut short between statements
          None          \* no conversation, no job; as a caller, the REST controller

VARIABLES
  conv,     \* conversations, by their unique key: the message lastMessage and
            \* lastAt were taken from (0 before the first), or None
  message,  \* messages rows: message[m] for m in 1..sent, by order of creation
  sent,
  reads,    \* message_reads rows: <<message, reader>>
  job,      \* what each handler is doing and has read, or None
  \* History, read by no action of the code:
  shown,    \* messages whose conversation has been updated with them
  after,    \* after[m]: what was shown when m was created
  raced,    \* <<conversation, reader>> on which two markRead calls overlapped
  missed    \* what a markRead found and the unique key kept it from marking

chatVars == <<conv, message, sent, reads, job, shown, after, raced, missed>>

MessageRow == [conv : Pairs, sender : Users, deleted : BOOLEAN]

\* `row` is the message a handler is about, `found` the unread ones it found.
Job == [pc : {"open", "send", "summarise", "mark", "erase", "found", "sent", "marked"},
        conv : Pairs, user : Users, row : Nat, found : SUBSET Nat,
        caller : Callers \cup {None}]

ASSUME PairsAssumption   == Pairs \subseteq SUBSET Users
ASSUME BoundAssumption   == MaxMessages \in Nat
ASSUME MayFailAssumption == MayFail \in BOOLEAN
ASSUME NoneAssumption    == None \notin Job \cup Nat \cup Callers

ChatInit ==
  /\ conv = [p \in Pairs |-> None]
  /\ message = <<>> /\ sent = 0 /\ reads = {}
  /\ job = [h \in Handlers |-> None]
  /\ shown = {} /\ after = <<>> /\ raced = {} /\ missed = {}

At(h, pc) == job[h] # None /\ job[h].pc = pc

Start(h, pc, p, u, row, found, c) ==
  /\ job[h] = None
  /\ job' = [job EXCEPT ![h] = [pc |-> pc, conv |-> p, user |-> u, row |-> row,
                                found |-> found, caller |-> c]]

Goto(h, pc) == job' = [job EXCEPT ![h].pc = pc]

Done(h) == job' = [job EXCEPT ![h] = None]

\* The call returns: the controller answers, another caller goes on.
Finish(h, pc) == IF job[h].caller = None THEN Done(h) ELSE Goto(h, pc)

-----------------------------------------------------------------------------
\* The check every operation on a conversation begins with.
MemberUnchecked(u, p) == conv[p] # None                           \* mutant
Member(u, p) == conv[p] # None /\ u \in p

\* The pair is sorted for the unique key; a conversation found is returned as it is.
OpenConversation(h, u, p) ==
  /\ u \in p
  /\ conv[p] = None
  /\ Start(h, "open", p, u, 0, {}, None)
  /\ UNCHANGED <<conv, message, sent, reads, shown, after, raced, missed>>

\* The unique key refuses a second conversation of the two.
CreateConversation(h) ==
  LET p == job[h].conv IN
  /\ At(h, "open")
  /\ conv' = IF conv[p] = None THEN [conv EXCEPT ![p] = 0] ELSE conv
  /\ Done(h)
  /\ UNCHANGED <<message, sent, reads, shown, after, raced, missed>>

\* Called by the gateway for its check.
GetConversation(h, u, p, c) ==
  /\ Member(u, p)
  /\ Start(h, "found", p, u, 0, {}, c)
  /\ UNCHANGED <<conv, message, sent, reads, shown, after, raced, missed>>

SendMessage(h, u, p, c) ==
  /\ sent + Cardinality({g \in Handlers : At(g, "send")}) < MaxMessages
  /\ Member(u, p)
  /\ Start(h, "send", p, u, 0, {}, c)
  /\ UNCHANGED <<conv, message, sent, reads, shown, after, raced, missed>>

CreateMessage(h) ==
  LET m == sent + 1 IN
  /\ At(h, "send")
  /\ sent' = m
  /\ message' = [i \in 1 .. m |-> IF i = m
       THEN [conv |-> job[h].conv, sender |-> job[h].user, deleted |-> FALSE]
       ELSE message[i]]
  /\ after' = [i \in 1 .. m |-> IF i = m THEN shown ELSE after[i]]
  /\ job' = [job EXCEPT ![h].pc = "summarise", ![h].row = m]
  /\ UNCHANGED <<conv, reads, shown, raced, missed>>

\* conversation.update: lastMessage and lastAt of the message just created.
Summarise(h) ==
  /\ At(h, "summarise")
  /\ conv' = [conv EXCEPT ![job[h].conv] = job[h].row]
  /\ shown' = shown \cup {job[h].row}
  /\ Finish(h, "sent")
  /\ UNCHANGED <<message, sent, reads, after, raced, missed>>

-----------------------------------------------------------------------------
\* A deleted message is still unread (36-44, 142-149).
UnreadAgain(u, p) == {m \in 1 .. sent : message[m].conv = p /\ message[m].sender # u}   \* mutant
UnreadAnyones(u, p) == {m \in 1 .. sent : message[m].conv = p /\ <<m, u>> \notin reads}  \* mutant
Unread(u, p) == {m \in 1 .. sent : /\ message[m].conv = p
                                   /\ message[m].sender # u
                                   /\ <<m, u>> \notin reads}

Marking(h, u, p) == At(h, "mark") /\ job[h].user = u /\ job[h].conv = p

\* The check and the unread messages; with none the call returns at once.
MarkRead(h, u, p, c) ==
  /\ Member(u, p)
  /\ \/ Unread(u, p) # {} /\ Start(h, "mark", p, u, 0, Unread(u, p), c)
     \/ Unread(u, p) = {} /\ c # None /\ Start(h, "marked", p, u, 0, {}, c)
  /\ raced' = IF \E g \in Handlers : Marking(g, u, p) THEN raced \cup {<<p, u>>} ELSE raced
  /\ UNCHANGED <<conv, message, sent, reads, shown, after, missed>>

\* createMany is one statement: a row that is there already fails all of it.
MarkSkips(h) ==                                                   \* mutant
  LET new == job[h].found \X {job[h].user} IN
  /\ At(h, "mark")
  /\ reads' = reads \cup new /\ missed' = missed
  /\ Finish(h, "marked")
  /\ UNCHANGED <<conv, message, sent, shown, after, raced>>
Mark(h) ==
  LET new == job[h].found \X {job[h].user} IN
  /\ At(h, "mark")
  /\ \/ /\ new \cap reads = {}
        /\ reads' = reads \cup new /\ missed' = missed
        /\ Finish(h, "marked")
     \/ /\ new \cap reads # {}
        /\ reads' = reads /\ missed' = missed \cup new
        /\ Done(h)
  /\ UNCHANGED <<conv, message, sent, shown, after, raced>>

\* The sender's own, not yet deleted.
DeleteMessage(h, u, m) ==
  /\ ~message[m].deleted /\ message[m].sender = u
  /\ Start(h, "erase", message[m].conv, u, m, {}, None)
  /\ UNCHANGED <<conv, message, sent, reads, shown, after, raced, missed>>

\* The text is replaced in the message, not in its conversation's lastMessage.
EraseAndStepBack(h) ==                                            \* mutant
  /\ At(h, "erase")
  /\ message' = [message EXCEPT ![job[h].row].deleted = TRUE]
  /\ conv' = [conv EXCEPT ![job[h].conv] = job[h].row - 1]
  /\ Done(h)
  /\ UNCHANGED <<sent, reads, shown, after, raced, missed>>
EraseMessage(h) ==
  /\ At(h, "erase")
  /\ message' = [message EXCEPT ![job[h].row].deleted = TRUE]
  /\ Done(h)
  /\ UNCHANGED <<conv, sent, reads, shown, after, raced, missed>>

-----------------------------------------------------------------------------
\* What a caller waited for has been returned to it.
Returned(h) == At(h, "found") \/ At(h, "sent") \/ At(h, "marked")

\* The process dies or a statement fails: the writes already made stay.
CutShort(h) ==
  /\ MayFail
  /\ job[h] # None
  /\ Done(h)
  /\ UNCHANGED <<conv, message, sent, reads, shown, after, raced, missed>>

\* A statement of a call that is under way.
Statement(h) ==
  \/ CreateConversation(h) \/ CreateMessage(h) \/ Summarise(h)
  \/ Mark(h) \/ EraseMessage(h)

\* Calls of the REST controller.
RestCall(h) ==
  \/ \E u \in Users, p \in Pairs :
       OpenConversation(h, u, p) \/ SendMessage(h, u, p, None) \/ MarkRead(h, u, p, None)
  \/ \E u \in Users, m \in 1 .. sent : DeleteMessage(h, u, m)

\* Calls of those who go on with the result.
Call(h, u, p, c) ==
  GetConversation(h, u, p, c) \/ SendMessage(h, u, p, c) \/ MarkRead(h, u, p, c)

ChatNext ==
  \E h \in Handlers :
    \/ RestCall(h) \/ Statement(h) \/ CutShort(h)
    \/ \E u \in Users, p \in Pairs, c \in Callers : Call(h, u, p, c)
    \/ Returned(h) /\ Done(h) /\ UNCHANGED <<conv, message, sent, reads, shown, after, raced, missed>>

ChatSpec == ChatInit /\ [][ChatNext]_chatVars

-----------------------------------------------------------------------------
TypeOK ==
  /\ conv \in [Pairs -> Nat \cup {None}]
  /\ sent \in Nat /\ message \in [1 .. sent -> MessageRow]
  /\ reads \subseteq (1 .. sent) \X Users
  /\ job \in [Handlers -> Job \cup {None}]
  /\ shown \subseteq 1 .. sent /\ after \in [1 .. sent -> SUBSET (1 .. sent)]
  /\ raced \subseteq Pairs \X Users /\ missed \subseteq (1 .. sent) \X Users

\* However sends overlap or fail, the conversation list shows a message of its
\* own conversation, and never one whose send was over before the send of another
\* message, shown since, stored its row: of two sends in a row the second stays
\* (chat.service.ts 120-126).
SummaryFresh ==
  \A p \in Pairs : conv[p] # None /\ conv[p] # 0 =>
    /\ conv[p] \in shown /\ message[conv[p]].conv = p
    /\ \A m \in shown : message[m].conv = p => conv[p] \notin after[m]

\* A message is read by the other member of its conversation, never by its sender
\* or by anyone else, whoever calls what (136-154).
ReadByRecipient ==
  \A r \in reads : /\ r[2] \in message[r[1]].conv
                   /\ r[2] # message[r[1]].sender

\* What markRead found unread is read when it has returned, unless another call of
\* the same reader overlapped it there and took part of it (142-154).
MissedOnlyWhenRaced ==
  \A x \in missed \ reads : <<message[x[1]].conv, x[2]>> \in raced

-----------------------------------------------------------------------------
\* Inductive form: a message is shown by the handler that created it, once; what a
\* handler found to mark is unread still, unless the reader raced there.
SendingInv ==
  \A h \in Handlers : At(h, "summarise") =>
    /\ job[h].row \in (1 .. sent) \ shown
    /\ message[job[h].row].conv = job[h].conv
    /\ \A g \in Handlers : At(g, "summarise") /\ job[g].row = job[h].row => g = h

AfterInv == \A m \in 1 .. sent : m \notin after[m] /\ after[m] \subseteq shown

MarkingInv ==
  \A h \in Handlers : At(h, "mark") =>
    /\ job[h].user \in job[h].conv
    /\ \A m \in job[h].found : /\ m \in 1 .. sent
                               /\ message[m].conv = job[h].conv
                               /\ message[m].sender # job[h].user
    /\ <<job[h].conv, job[h].user>> \notin raced =>
         /\ \A m \in job[h].found : <<m, job[h].user>> \notin reads
         /\ \A g \in Handlers : Marking(g, job[h].user, job[h].conv) => g = h

ErasingInv == \A h \in Handlers : At(h, "erase") => job[h].row \in 1 .. sent

ChatInv ==
  /\ TypeOK
  /\ SendingInv /\ AfterInv /\ MarkingInv /\ ErasingInv
  /\ SummaryFresh /\ ReadByRecipient /\ MissedOnlyWhenRaced
=============================================================================
