-------------------------------- MODULE Paging --------------------------------
(***************************************************************************)
(* Reading a list page by page, newest first: PostsService.feed, whatever   *)
(* its filter, and ChatService.listMessages. A request is a few statements: *)
(* the feed reads the reader's friends, then their friends, then the posts  *)
(* of these; the message list checks membership and reads. Both fetch one   *)
(* row more than the page and answer with a cursor below which the next     *)
(* request reads; they differ in the row it is taken from. Between any two  *)
(* statements rows are created and deleted and friendships begin and end.   *)
(***************************************************************************)
EXTENDS Integers, FiniteSets

CONSTANTS Lists,      \* what is read: feeds by their filter, or "messages"
          People, Reader,
          Ties,       \* <<from, to>>: keys at which a friendship's row may be
          Contents,   \* posts and messages that may be written
          Limits,     \* page sizes, once the handler has clamped the request's
          MaxId,      \* rows that can be created; bounds a run
          None

\* `wide`: the post's audience is extended or public, not only friends.
Row == [author : People, wide : BOOLEAN]

ASSUME ListsAssumption    == Lists \subseteq {"all", "friends", "extended", "self", "messages"}
ASSUME PeopleAssumption   == Reader \in People /\ Ties \subseteq People \X People
ASSUME ContentsAssumption == Contents \subseteq Row /\ None \notin Row
ASSUME LimitsAssumption   == Limits \subseteq Nat \ {0}
ASSUME MaxIdAssumption    == MaxId \in Nat

VARIABLES
  friend,    \* the keys whose row is a confirmed friendship
  created,   \* how many rows there are: their ids are 1..created, in that order
  row,       \* the row of each id, or None: not yet written, or deleted
  list,      \* which list the reader goes through
  reader,    \* "idle" and "done", or the statement a request does next
  near, far, \* friends and friends' friends, as the request read them
  cursor,    \* the cursor of the reader's next request
  shown,     \* ids the reader has been given
  \* History, read by no action of the code:
  held,      \* friendships there ever since the request read the friends
  wanted,    \* ids listed when the reader began, and ever since (see Kept)
  passed     \* the cursors the reader has been given

table   == <<friend, created, row, list>>
request == <<reader, near, far, cursor, shown>>
history == <<held, wanted, passed>>
vars    == <<table, request, history>>

Ids == 1 .. MaxId

NoCursor == MaxId + 1    \* every id is below it

Init ==
  /\ friend = {} /\ created = 0 /\ row = [i \in Ids |-> None]
  /\ list \in Lists
  /\ reader = "idle" /\ near = {} /\ far = {} /\ cursor = NoCursor /\ shown = {}
  /\ held = {} /\ wanted = {} /\ passed = {}

-----------------------------------------------------------------------------
\* The two relation queries of feed(), on the friendships at hand.
FriendsOf(ties) == {p \in People : <<Reader, p>> \in ties}

FriendsOfFriends(ties, friends) ==
  {p \in People : \E f \in friends : <<f, p>> \in ties} \ (friends \cup {Reader})

\* The `where` of the row query, but for the cursor: an extended author's posts
\* only with a wide audience, everybody else's all.
Matches(i, friends, extended) ==
  /\ row[i] # None
  /\ \/ list = "messages"
     \/ list # "extended" /\ row[i].author = Reader
     \/ list \in {"all", "friends"} /\ row[i].author \in friends
     \/ list \in {"all", "extended"} /\ row[i].author \in extended /\ row[i].wide

\* `id: { lt: cursor }`.
FromCursor(c) == {i \in Ids : Matches(i, near, far) /\ i =< c}           \* mutant
CursorIgnored(c) == {i \in Ids : Matches(i, near, far)}                  \* mutant
SkipsOne(c) == {i \in Ids : Matches(i, near, far) /\ i < c - 1}          \* mutant
Below(c) == {i \in Ids : Matches(i, near, far) /\ i < c}

\* `orderBy: { id: 'desc' }, take: n`: the newest n rows, or all if fewer. The
\* set has one member.
Newest(n, rows) ==
  {s \in SUBSET rows : /\ \A i \in s, j \in rows \ s : j < i
                       /\ Cardinality(s) = n \/ (s = rows /\ Cardinality(s) < n)}

\* What the list would show if a request were one moment.
Listed(i, ties) == Matches(i, FriendsOf(ties), FriendsOfFriends(ties, FriendsOf(ties)))

\* A wanted row stays one while it is listed, and while a request is between its
\* two relation queries, listed by friendships that both of them find.
Kept(i) == Listed(i, friend) /\ (reader = "fof" => Listed(i, held))

-----------------------------------------------------------------------------
\* The reader asks for the first page, again after it has reached the end.
Open ==
  /\ reader \in {"idle", "done"}
  /\ reader' = "request"
  /\ cursor' = NoCursor /\ shown' = {} /\ passed' = {}
  /\ wanted' = {i \in Ids : Listed(i, friend)}
  /\ UNCHANGED <<table, near, far, held>>

\* feed()'s first query; two filters need no other.
ReadFriends ==
  /\ list # "messages" /\ reader = "request"
  /\ near' = FriendsOf(friend)
  /\ IF list \in {"all", "extended"}
       THEN reader' = "fof" /\ held' = friend
       ELSE reader' = "rows" /\ UNCHANGED held
  /\ UNCHANGED <<table, far, cursor, shown, wanted, passed>>

\* Its second, with the answer that ends it when there are no authors.
ReadFriendsOfFriends ==
  /\ reader = "fof"
  /\ far' = FriendsOfFriends(friend, near)
  /\ reader' = IF list = "extended" /\ far' = {} THEN "done" ELSE "rows"
  /\ held' = {}
  /\ UNCHANGED <<table, near, cursor, shown, wanted, passed>>

\* listMessages() finds the reader in the conversation, where nobody leaves.
FindConversation ==
  /\ list = "messages" /\ reader = "request"
  /\ reader' = "rows"
  /\ UNCHANGED <<table, near, far, cursor, shown, history>>

\* The feed goes on below the last post it gave, the message list below the row
\* it fetched beyond the page.
CursorBeyondPage(fetched, slice) == fetched             \* mutant
CursorRows(fetched, slice) == IF list = "messages" THEN fetched ELSE slice

ReadRows(limit) ==
  /\ reader = "rows"
  /\ \E fetched \in Newest(limit + 1, Below(cursor)) : \E slice \in Newest(limit, fetched) :
       /\ shown' = shown \cup slice
       /\ IF Cardinality(fetched) > limit
            THEN /\ cursor' \in CursorRows(fetched, slice)
                 /\ \A i \in CursorRows(fetched, slice) : cursor' =< i
                 /\ passed' = passed \cup {cursor'}
                 /\ reader' = "request"
            ELSE reader' = "done" /\ UNCHANGED <<cursor, passed>>
  /\ near' = {} /\ far' = {}
  /\ UNCHANGED <<table, held, wanted>>

-----------------------------------------------------------------------------
Create(content) ==
  /\ created < MaxId
  /\ created' = created + 1
  /\ row' = [row EXCEPT ![created + 1] = content]
  /\ UNCHANGED <<friend, list, request, history>>

\* `deletedAt` is set: no query finds the row again.
Delete(i) ==
  /\ row[i] # None
  /\ row' = [row EXCEPT ![i] = None]
  /\ wanted' = wanted \ {i}
  /\ UNCHANGED <<friend, created, list, request, held, passed>>

\* respond() or revoke() writes a row; both directions have one of their own.
\* Who reads messages asks for no friendships.
ChangeTie(t) ==
  /\ list # "messages"
  /\ friend' = IF t \in friend THEN friend \ {t} ELSE friend \cup {t}
  /\ held' = held \cap friend'
  /\ UNCHANGED <<created, row, list, request, passed>>
  /\ wanted' = {i \in wanted : Kept(i)'}

\* A request's next statement.
Read ==
  \/ ReadFriends
  \/ ReadFriendsOfFriends
  \/ FindConversation
  \/ \E limit \in Limits : ReadRows(limit)

Next ==
  \/ Open
  \/ Read
  \/ \E content \in Contents : Create(content)
  \/ \E i \in Ids : Delete(i)
  \/ \E t \in Ties : ChangeTie(t)

\* The event loop resumes a request whose statement has returned, and the reader
\* goes on asking for the next page while there is one.
Fairness == WF_vars(Read)

Spec == Init /\ [][Next]_vars /\ Fairness

-----------------------------------------------------------------------------
TypeOK ==
  /\ friend \subseteq Ties /\ held \subseteq friend
  /\ created \in 0 .. MaxId
  /\ row \in [Ids -> Row \cup {None}] /\ \A i \in Ids : i > created => row[i] = None
  /\ list \in Lists
  /\ reader \in {"idle", "request", "fof", "rows", "done"}
  /\ near \subseteq People /\ far \subseteq People
  /\ cursor \in 1 .. NoCursor
  /\ shown \subseteq Ids /\ wanted \subseteq Ids /\ passed \subseteq Ids

\* A reader who reached the end of a feed was given every post that was listed
\* all along, whatever came, went and changed page sizes meanwhile, as long as
\* each request's two relation queries could find its author the same way
\* (posts.service.ts 57-119).
Complete == reader = "done" /\ list # "messages" => wanted \subseteq shown

\* Of the messages that were there all along a reader misses none but those at
\* the page boundaries, whose ids the cursors were (chat.service.ts 91-110).
LostAtBoundaries == reader = "done" /\ list = "messages" => wanted \subseteq shown \cup passed

\* No row is given twice, even if it was hidden and revealed between two pages:
\* none the reader has been given is among those the row query would find.
NeverTwice == reader = "rows" => shown \cap Below(cursor) = {}

\* New rows and changing friendships do not keep a reader from reaching the end.
Ends == reader = "request" ~> reader = "done"

-----------------------------------------------------------------------------
\* Inductive form, in named parts: the reader has been given rows from the cursor
\* on, and of the wanted ones all that are there.
ShownFromCursor == reader # "done" => \A i \in shown : cursor =< i

\* Every wanted row is listed; once friends are read, by one of them.
WantedListed ==
  /\ \A i \in wanted : Kept(i)
  /\ reader = "fof" => list \in {"all", "extended"} /\ FriendsOf(held) \subseteq near
  /\ reader = "fof" /\ list = "extended" => \A i \in wanted : row[i].author \notin near
  /\ reader = "rows" => \A i \in wanted : Matches(i, near, far)

NoneLeftBehind ==
  reader # "done" => \A i \in wanted : i < cursor \/ i \in shown \/ (list = "messages" /\ i \in passed)
=============================================================================
