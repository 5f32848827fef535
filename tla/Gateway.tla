------------------------------- MODULE Gateway ---------------------------------
(***************************************************************************)
(* The chat's sockets: ChatGateway over ChatService. A socket is verified   *)
(* after it has connected; from then on it joins and leaves the rooms of    *)
(* conversations and sends and reads messages by calls of module Chat,      *)
(* going on with the result when the call returns: it enters the room,      *)
(* tells the room, tells the other member. REST calls tell nobody.          *)
(* The event loop runs whatever returned first, so all of these interleave. *)
(***************************************************************************)
EXTENDS Chat

VARIABLES
  sock,      \* sock[s]: "new", "verifying", "open" or "closed"
  user,      \* user[s]: who the token said, None until it is verified
  room,      \* room[p]: the sockets in the room of conversation p
  announced, \* messages their room was told of (message:new)
  notified,  \* messages whose other member was told of (message:notify)
  receipts,  \* receipts[p, u]: sum of the counts rooms were told u has read in p
  \* History, read by no action of the code:
  wants,     \* rooms by the last request of the socket: <<socket, conversation>>
  crossed,   \* leaves that overtook a join under way
  dropped    \* messages whose handler was cut short before telling everyone

gateVars == <<sock, user, room, announced, notified, receipts, wants, crossed, dropped>>
vars     == <<chatVars, gateVars>>

\* The gateway's callers are its sockets. A socket object serves one connection.
Sockets == Callers

Init ==
  /\ ChatInit
  /\ sock = [s \in Sockets |-> "new"] /\ user = [s \in Sockets |-> None]
  /\ room = [p \in Pairs |-> {}]
  /\ announced = {} /\ notified = {} /\ receipts = [x \in Pairs \X Users |-> 0]
  /\ wants = {} /\ crossed = {} /\ dropped = {}

-----------------------------------------------------------------------------
Connect(s) ==
  /\ sock[s] = "new"
  /\ sock' = [sock EXCEPT ![s] = "verifying"]
  /\ UNCHANGED <<chatVars, user, room, announced, notified, receipts, wants, crossed, dropped>>

\* verifyAsync has returned: the socket is in the room of its user while it is open.
Verified(s, u) ==
  /\ sock[s] = "verifying"
  /\ sock' = [sock EXCEPT ![s] = "open"]
  /\ user' = [user EXCEPT ![s] = u]
  /\ UNCHANGED <<chatVars, room, announced, notified, receipts, wants, crossed, dropped>>

\* The token is refused, or the connection is lost: the socket leaves its rooms;
\* handlers it started go on, but nothing joins a closed socket to a room.
Disconnect(s) ==
  /\ sock[s] \in {"verifying", "open"}
  /\ sock' = [sock EXCEPT ![s] = "closed"]
  /\ user' = [user EXCEPT ![s] = None]
  /\ room' = [p \in Pairs |-> room[p] \ {s}]
  /\ wants' = wants \ ({s} \X Pairs) /\ crossed' = crossed \ ({s} \X Pairs)
  /\ UNCHANGED <<chatVars, announced, notified, receipts, dropped>>

\* A socket not yet verified is refused.
Authenticated(s) == sock[s] = "open" /\ user[s] # None

-----------------------------------------------------------------------------
Joining(h, s, p) == At(h, "found") /\ job[h].caller = s /\ job[h].conv = p

\* The request, up to the check it waits for.
JoinConversation(h, s, p) ==
  /\ Authenticated(s)
  /\ GetConversation(h, user[s], p, s)
  /\ wants' = wants \cup {<<s, p>>}
  /\ UNCHANGED <<sock, user, room, announced, notified, receipts, crossed, dropped>>

\* client.join, once the check has returned.
Join(h) ==
  LET s == job[h].caller IN
  /\ At(h, "found")
  /\ room' = IF sock[s] = "open" THEN [room EXCEPT ![job[h].conv] = @ \cup {s}] ELSE room
  /\ Done(h)
  /\ UNCHANGED <<conv, message, sent, reads, shown, after, raced, missed>>
  /\ UNCHANGED <<sock, user, announced, notified, receipts, wants, crossed, dropped>>

\* Leaving waits for nothing, and asks for no token.
LeaveForgotten(s, p) ==                                           \* mutant
  /\ sock[s] \in {"verifying", "open"}
  /\ wants' = wants \ {<<s, p>>}
  /\ UNCHANGED <<chatVars, sock, user, room, announced, notified, receipts, crossed, dropped>>
LeaveConversation(s, p) ==
  /\ sock[s] \in {"verifying", "open"}
  /\ room' = [room EXCEPT ![p] = @ \ {s}]
  /\ wants' = wants \ {<<s, p>>}
  /\ crossed' = IF \E h \in Handlers : Joining(h, s, p) THEN crossed \cup {<<s, p>>} ELSE crossed
  /\ UNCHANGED <<chatVars, sock, user, announced, notified, receipts, dropped>>

-----------------------------------------------------------------------------
WsSend(h, s, p) ==
  /\ Authenticated(s)
  /\ SendMessage(h, user[s], p, s)
  /\ UNCHANGED gateVars

\* message:new to the room, then getConversation again for the other member.
AnnounceOnly(h) ==                                                \* mutant
  /\ At(h, "sent")
  /\ announced' = announced \cup {job[h].row}
  /\ Done(h)
  /\ UNCHANGED <<conv, message, sent, reads, shown, after, raced, missed>>
  /\ UNCHANGED <<sock, user, room, notified, receipts, wants, crossed, dropped>>
Announce(h) ==
  /\ At(h, "sent") /\ job[h].row \notin announced
  /\ announced' = announced \cup {job[h].row}
  /\ UNCHANGED <<chatVars, sock, user, room, notified, receipts, wants, crossed, dropped>>

\* message:notify to the other member's own room.
Notify(h) ==
  /\ At(h, "sent") /\ job[h].row \in announced
  /\ notified' = notified \cup {job[h].row}
  /\ Done(h)
  /\ UNCHANGED <<conv, message, sent, reads, shown, after, raced, missed>>
  /\ UNCHANGED <<sock, user, room, announced, receipts, wants, crossed, dropped>>

WsMarkRead(h, s, p) ==
  /\ Authenticated(s)
  /\ MarkRead(h, user[s], p, s)
  /\ UNCHANGED gateVars

\* message:read to the room, with the count the call returned.
TellRead(h) ==
  /\ At(h, "marked")
  /\ receipts' = [receipts EXCEPT ![<<job[h].conv, job[h].user>>] = @ + Cardinality(job[h].found)]
  /\ Done(h)
  /\ UNCHANGED <<conv, message, sent, reads, shown, after, raced, missed>>
  /\ UNCHANGED <<sock, user, room, announced, notified, wants, crossed, dropped>>

-----------------------------------------------------------------------------
CutOff(h) ==
  /\ CutShort(h)
  /\ dropped' = IF job[h].caller # None /\ (At(h, "summarise") \/ At(h, "sent"))
                  THEN dropped \cup {job[h].row} ELSE dropped
  /\ UNCHANGED <<sock, user, room, announced, notified, receipts, wants, crossed>>

\* What the server does next in a handler, unless it is cut short.
Resume(h) ==
  \/ Statement(h) /\ UNCHANGED gateVars
  \/ Join(h) \/ Announce(h) \/ Notify(h) \/ TellRead(h)

Next ==
  \/ \E s \in Sockets : \/ Connect(s) \/ Disconnect(s)
                        \/ \E u \in Users : Verified(s, u)
                        \/ \E p \in Pairs : LeaveConversation(s, p)
  \/ \E h \in Handlers :
       \/ RestCall(h) /\ UNCHANGED gateVars
       \/ \E s \in Sockets, p \in Pairs :
            JoinConversation(h, s, p) \/ WsSend(h, s, p) \/ WsMarkRead(h, s, p)
       \/ Resume(h)
       \/ CutOff(h)

\* The event loop comes back to a handler whose call or statement has returned.
Fairness == \A h \in Handlers : WF_vars(Resume(h))

Spec == Init /\ [][Next]_vars /\ Fairness

-----------------------------------------------------------------------------
GateTypeOK ==
  /\ sock \in [Sockets -> {"new", "verifying", "open", "closed"}]
  /\ user \in [Sockets -> Users \cup {None}]
  /\ room \in [Pairs -> SUBSET Sockets]
  /\ announced \subseteq 1 .. sent /\ notified \subseteq 1 .. sent /\ dropped \subseteq 1 .. sent
  /\ receipts \in [Pairs \X Users -> Nat]
  /\ wants \subseteq Sockets \X Pairs /\ crossed \subseteq Sockets \X Pairs

\* Who is in a conversation's room is connected, a member, and asked to be there
\* last: joins that wait for their check put nobody in who has gone or left in the
\* meantime, save a leave that overtook the join itself (66-85).
RoomsAsAsked ==
  \A p \in Pairs : \A s \in room[p] :
    /\ sock[s] = "open" /\ user[s] \in p
    /\ <<s, p>> \in wants \cup crossed

Told(h, p, u) == At(h, "marked") /\ job[h].conv = p /\ job[h].user = u

ToTell(p, u) == UNION {job[h].found : h \in {g \in Handlers : Told(g, p, u)}}

Read(p, u) == {m \in 1 .. sent : message[m].conv = p /\ <<m, u>> \in reads}

\* What the rooms were told somebody has read never exceeds what is marked read,
\* with what handlers are about to tell: no message is counted twice (119-133).
ReceiptsExact ==
  \A p \in Pairs, u \in Users :
    receipts[p, u] + Cardinality(ToTell(p, u)) <= Cardinality(Read(p, u))

\* A message a socket sent reaches its room and its other member, in the end, unless
\* the handler is cut short after storing it (90-114).
StoredByGateway(m) == \E h \in Handlers :
  At(h, "summarise") /\ job[h].caller # None /\ job[h].row = m

StoredIsTold ==
  \A m \in 1 .. MaxMessages :
    StoredByGateway(m) ~> (m \in announced \cap notified \/ m \in dropped)
=============================================================================
