# Formal model of PASS

TLA+ modules for the backend under `src/backend` (NestJS services over Prisma, a
socket gateway) and for the two stateful parts of the frontend under
`src/frontend/lib` (the API client and the QR scanner), the TLC runs that check them
on small instances, and TLAPS proofs of the properties that matter most for every
value of the constants.

The backend has no transactions around its handlers: with one exception
(`ContactsService.sync`) every `await this.prisma...` is a statement of its own,
and between two of them other requests run. Most of what can go wrong in it goes
wrong there, so **one database statement is one atomic step** in every module, a
handler keeps what it read in a record (`job[h]`) until it acts on it, and a
handler may be cut short between two statements (a crash of the process, a failed
statement) wherever the run says `MayFail = TRUE`. In the frontend nothing is
preempted either: there a step is what runs between two awaits, frames or timers.

Paths below are relative to `src/backend/src` unless they say otherwise.

## 1. Inventory

| Component | State | Operations | Interacts with | What makes it hard | What makes it correct |
|---|---|---|---|---|---|
| **Relations** `relations/relations.service.ts` | `relations` rows, one per (from, to, kind): status, subtype | `request`, `respond`, `revoke`; lists | feed and graph queries read confirmed rows | two rows per relation, written by two statements; status checked, then written by id | nobody is confirmed without both people acting; both directions agree |
| **Sessions** `auth/auth.service.ts` 276-369, `users/users.service.ts` 25-36 | `refresh_tokens`, `users.status` | `refresh`, `issueTokens`, `logout`, `deleteAccount` | logins end in `issueTokens`; the client refreshes on a 401 | check, revoke, issue are three statements | single use, device binding, revocation is final |
| **One-time codes and signup** `auth/auth.service.ts` 37-167 | `auth_codes`, `users` | `requestOtp`, `verifyOtp`, `signup` | signup calls `verifyOtp` | cooldown, attempts and duplicates are checked, then acted on later | an account belongs to who proved the e-mail; guesses are bounded |
| **Feed and message paging** `posts/posts.service.ts` 52-119, `chat/chat.service.ts` 80-112 | `posts` / `messages`; the reader's cursor | `feed`, `listMessages`, `create`, `delete` | the feed reads relations | rows come and go between two pages, relations between the queries of one; look-ahead row and cursor | nothing skipped, nothing twice, the end is reached |
| **Password and PIN login** `auth/auth.service.ts` 172-271 | failure counters, `lockedUntil` | `loginPassword`, `setupPin`, `loginByPin` | end in `issueTokens` | the counter is written from a value read earlier | five failures lock |
| **Posts** `posts/posts.service.ts` 155-219 | `post_likes`, `post_comments`, two counters | `toggleLike`, `addComment`, `deleteComment` | - | row and counter are two statements | a counter equals the rows it counts |
| **Chat and gateway** `chat/*.ts` | conversations, messages, reads; socket rooms | `getOrCreate`, `sendMessage`, `markRead`, `deleteMessage`; socket events | the gateway calls the service and emits | emission order, summary of the last message, checks awaited between a request and its effect | each message reaches its room and its other member; rooms hold who asked to be there; reads are the recipient's |
| **Graph queries** `graph-query/graph-query.service.ts` | none | `expand`, `findPath`, `getNeighbors`; `friendsOfFriends` of relations | read relations | one query per layer, while edges change | layers are distances and the path is shortest while the graph stands still; a chain of rows that were there, whatever changes |
| **Contact sync** `contacts/contacts.service.ts` | `contact_links` | `sync`, `markInvited`, `remove` | reads users | users read before the transaction | a link points to the owner of the number |
| **Saved graphs** `graphs/graphs.service.ts` | `user_graphs` | `get`, `save` | the client | last writer wins | - |
| **API client** `src/frontend/lib/pass-api.js`, `auth-guard.js` | tokens in localStorage | `request`, `tryRefresh`, `clearTokens` | Sessions | several 401s at once; a late refresh after logout | signed out stays signed out |
| **QR scanner** `src/frontend/lib/scanner.js` | stream, loop id, options, the decoder's promise | `openScanner`, `closeScanner`, frames, the timer of a scan | the pages | opens, closes, promises, frames and timers share three variables | closed means off; a scan goes to who opened it |
| **Profile, pages, wiring** | - | - | - | single statements, presentation, start-up | - |

`PROJECT.json` lists these with their sources and status, and under `hazards` each
line where something hard to test can go wrong, with the properties that watch it.

## 2. Plan

The order was: what decides who may see whom (`Relations`, with its abstract
specification), who is signed in (`Sessions`, `Otp`, `Lockout`), what readers are given
(`Paging`, `Posts`), then the conversations (`Chat`, and `Gateway` composed with it), the
searches (`GraphQuery`), and the frontend's side of sessions (`PassApi` composed with
`Sessions`) and of the camera (`Scanner`). All of these are there; those in section 6
have proofs.

What is left, by what it would add:

1. `Paging` and `GraphQuery` over the handlers of `Relations` instead of any change of a row.
2. Contact sync beside signups: who of two overlapping syncs of an owner writes last.
3. An abstract specification of a session as its user sees it, which the client beside
   the server implements as the gateway implements `Chat`.

## 3. Modules

| Module | Models | Notes |
|---|---|---|
| `RelationStore` | the relation table, its keys, `mirrorSubtype` and its tables | constants and pure operators |
| `Relations` | `request`, `respond`, `revoke`, statement by statement | EXTENDS `RelationStore` |
| `Relationship` | what two people are promised: ask, accept, decline, end, each atomic | the abstract specification `Relations` implements |
| `RelationClaims` | what comments and documents say of relations, as they say it | for the violation run |
| `Sessions` | refresh-token rotation, logout, deletion | |
| `Otp` | codes, attempts, consumption, signup | |
| `Paging` | the queries and cursors of feed and messages | `list` says which, and the feed's filter |
| `Lockout` | the failure counters and locks of passwords and PINs | a login it admits is a `Login` of `Sessions` |
| `Posts` | likes, comments and the two counters of a post | |
| `Chat` | `ChatService`: conversations of two, sends, reads, deletions | |
| `Gateway` | sockets, rooms and what they are told, over the calls of `Chat` | EXTENDS `Chat`, which it implements |
| `GraphQuery` | `expand`, `findPath`, `friendsOfFriends`, layer by layer | |
| `PassApi` | the API client: tokens stored, 401s, refreshes, sign-outs | EXTENDS `Sessions`, its server |
| `Scanner` | the QR scanner's promises, frames and timers | |
| `MC_*` | values for TLC: sets, symmetry | |
| `*Proofs` | theorems and lemmas | one module per part; `PagesProofs` is of `Paging` and `Scanner` |

**Relations.** `rel` is the table, keyed by the unique key (from, to, kind); rows are
never deleted, so the key stands for the row's id. `Request`, `Respond` and `Revoke`
are everything a handler does before its first write (read, checks, early returns);
`RequestWrite`, `ConfirmWrite` + `MirrorWrite`, `RejectWrite`, `RevokeWrite` +
`RevokeReverseWrite` are its writes. `asked`, `accepted`, `answers` and `disturbed` are
history: who asked and who confirmed, both forgotten when a handler starts on a relation at
rest (`AtRest`: nobody at work, nothing pending or confirmed); how often a request was
answered; and on which relations two handlers overlapped or one was cut short. Users, kinds and subtypes are constants; names and birth order are left out.

**Sessions.** A row's `session` is history, no column: the first token of the login it
descends from (`SessionOf`). `TypeOK` includes `TokensStay`: `Rotate` revokes by id, so the
token a refresh found must still have its row. `Refresh`
is the read with all its checks, `Rotate` the revocation by id, `Issue` the insert. A
device mismatch, a logout and a deletion share `Revoke`, the one `updateMany`. Access
tokens are stateless and left out; so is what a login checks before `issueTokens`.

**Otp.** Codes are numbered in order of creation, which is the order `verifyOtp` sorts by.
A request carries the code whose digits it guesses, or none: every collision of digits,
and the fixed demo code, is some choice of the guess. `Age` and `Expire` are the two times
a row lives by: 30 seconds for the cooldown, `expiresAt` for verification. The cooldown
is switched off in test environments and modelled as it runs outside them.
`Consume` and, for signup, the password check after it are one step: the check
awaits nothing.

**Paging.** Ids grow in order of creation, as the comment at `posts/posts.service.ts:113`
says of cuids. A request of the feed is three statements, `ReadFriends` (58),
`ReadFriendsOfFriends` (67, for two of the filters) and `ReadRows` (94); one of the message
list is `FindConversation` and `ReadRows`. `near` and `far` are the friends and their friends
as they were read. `ReadRows` fetches one row more than the page and takes the cursor from
the last row given (feed) or from the row beyond (messages). `Create`, `Delete` and
`ChangeTie` (a write of `respond` or `revoke`) come between any two statements. `wanted`,
`held` and `passed` are history: the rows that were listed when the reader began and ever
since; the friendships that have held since the request read the friends, by which a wanted
row must also be listed until the friends' friends are read (`Kept`); the cursors given.

**Lockout.** One module for both credentials, as the two handlers differ only where a
right password clears the lock and a right PIN does not. `Attempt` is the read with its
checks; bcrypt's verdict is the parameter `right`. `Fail` and `Succeed` are the write,
which uses the count that was read. `failed` and `raced` are history: wrong secrets since
the count last began anew, and credentials on which logins overlapped.

**Posts.** `ToggleLike`, `AddComment` and `DeleteComment` are the reads; `Like`, `Unlike`,
`CreateComment` and `RemoveComment` write the row; `CountLike` and `CountComment` the
counter, which the database increments itself. A like's row has a unique key and is
deleted, so the loser of a race fails there; a comment's row is only marked, so it does
not. `drifted` is history: the counters a handler cut short, or a second deletion of
one comment, has put off for good.

**Chat.** A conversation is its unique key, the pair; `conv[p]` is the message that
`lastMessage` and `lastAt` were taken from. Messages are numbered as created. `SendMessage`,
`MarkRead` and `DeleteMessage` are the reads with their checks; `CreateMessage` and
`Summarise`, `Mark`, and `EraseMessage` the writes. `Mark` is a `createMany` without
`skipDuplicates`: one row that is there already fails all of it. A call has a `caller`, who
goes on with the result, or is a REST request, which is answered and done. `shown` and
`after` are history: what was shown when a message was created tells which sends were over
by then. `raced` and `missed` record overlapping `markRead`s and what they left unread.

**Gateway.** The callers of `Chat` are sockets. Each event of a socket is a call of `Chat` and
a continuation: `JoinConversation` and `Join`, `WsSend` and then `Announce` and `Notify` (two
steps, as the service is asked for the conversation in between), `WsMarkRead` and `TellRead`.
`LeaveConversation` waits for nothing, so it may overtake a `Join`. A socket is verified a
while after it connected, and never opens again once closed. Who is listening in a room when
it is told is left out: `announced` and `notified` say that it was told.

**GraphQuery.** `edge` are the confirmed rows. A search is a record with its layers; each
layer is one query (`Rows`, `Targets`), `ChangeRow` any write of `Relations` between two of
them. `PathLayer` chooses each user's parent among its rows, as the order of rows is the
database's. `Path` walks back from the target. `graph` is history: the rows at each query.

**PassApi.** `stored` is what localStorage holds, shared by all calls and tabs: a pair of
tokens is named by its refresh token. `Denied` is the first 401 of a request: the token it
exchanges is the one stored *then*, not the one the request went with. The server's half is
`Sessions`, statement by statement (`Serve`, `Work`). `Lost` and `Crash` lose requests and
answers; `Elsewhere` is a logout from another device; `Lapse` the fifteen minutes of an
access token. `over` and `crossed` are history: sessions signed out of, and sessions two
refreshes met on, or a refresh and a sign-out, or whose answer was lost.

**Scanner.** An open has a number, given to its chain of promises, its stream, its loop and
its timer; `stream` and `scanLoopId` are the shared variables they all write. `TickOn` and
`Detect` are a frame without and with a code in the picture.

## 4. Runs

| Run | Instance | Shows |
|---|---|---|
| `relations_pair` | 2 users, 2 handlers, 1 kind, failures | consent, given anew for every relation; one request answered no more often than requests overlap; mutual confirmation of undisturbed relations, the refinement `KeepsPromise`; one-way moments end |
| `sessions` | 1 user, 2 devices, 3 tokens, 2 handlers, failures | single use unless raced, final revocation, device binding |
| `otp` | 2 e-mails, 2 phones, 2 codes of 1 guess, 2 handlers, failures | proven accounts, one account per code, bounded guesses, the cooldown |
| `paging_feed` | 3 rows, pages of 1 or 2, 3 friendships, every filter and the message list | what a reader misses (feed: nothing it could find throughout; messages: the page boundaries), no repeats, the end is reached |
| `lockout` | a password, a PIN, 3 handlers, 3 tries, failures | how many wrong secrets overlapping logins get; without overlap, every one counts |
| `posts` | 2 users, 1 post, 3 likes, 2 comments, 2 handlers, failures | counters equal rows, up to what is about to be counted |
| `chat` | 2 members, an outsider, 2 messages, 2 handlers, failures | the later of two sends in a row is shown, reads are the recipient's, `markRead` misses only where it overlapped |
| `gateway` | the same, 1 socket, 1 message | rooms hold who asked to be there, receipts count nothing twice, a stored message is told |
| `graph` | 4 users, every graph, 2 kinds, 1 change during a search | layers are distances, paths are shortest; chains whatever changes |
| `client` | 1 user, 1 device, 2 calls, 3 tokens, 1 handler, failures | signed out stays signed out, the stored token works, only a dead session or the user signs out |
| `scanner` | 4 opens | closed means off, a scan goes to its opener, an open scanner goes on looking |
| `claim_mutual` | 2 users, 2 handlers, no failures | *violated*: relation left confirmed in one direction |

**Bounds.** Two handlers are enough for every race listed under hazards: each is a check
of one request and a write of another. Two people make a relation, and no statement
touches the rows of two relations. Three tokens are a login and two refreshes, the
least with which a session forks. Two codes make "the newest" differ from "any", and one
guess per code (`MaxAttempts = 1`) lets two overlapping requests pass the limit. Three
rows with pages of one or two give up to three pages, with rows created meanwhile; a reader,
a friend and a third person who may be a friend's friend, a friend or both are the least whose
way to the reader can change between two queries. No property of relations reads a subtype,
so `relations_pair` has none; `MirrorTwice` tries the tables by which they are mirrored.
Three logins and three tries let counts be lost twice over; the bound of
`GuessesBounded` is then the largest count TLC meets, and one less is violated. Three
likes by two people are a like, its removal and another like while others toggle; two
comments are one to delete and one beside it. One post is enough: a handler touches one.
Two messages are the least with an older and a newer one, two handlers let their statements
interleave, and the third user is one whom every check must keep out; one conversation is
enough, since no statement touches two. In `gateway` one socket meets everything a room
can do to it (its own join and leave, its closing) while the other handler works for the
REST controller or for the same socket; a second socket would only wait beside it. Four
users make a path of three rows and a choice between paths; `findPath` is asked with 0 (the
default depth) and with its maximum, `expand` with less and more than its clamp allows; one
row changed falls between any two layers. Three tokens let a client refresh twice, or log in
anew after a refresh; two calls are enough for refreshes to cross, and the server works at
one request at a time in that run since `sessions` is about its own interleavings. Four
opens of the scanner leave behind a chain, a stream, a loop and a timer at once.
Symmetry (`Swaps`) exchanges values no action compares by name (targets, phones, tokens,
calls, handlers, the users of a graph); runs with liveness use none.
Five runs do not check deadlock, as the system may stop at their bounds: `sessions` with
every token issued and every account deleted, `lockout` with every user deleted, `posts`
with the post deleted and no comment left, `gateway` with its socket closed and everything
sent, read and deleted, `graph` with its search answered and its change made.

**Fairness.** Only steps of the system are fair. `Relations` assumes weak fairness of each
handler's next statement: the event loop resumes a handler whose statement has returned.
It is what `OneWayHeals` needs; cutting a handler short stays possible and marks the
relation disturbed. `Paging` assumes weak fairness of `Read`, a request's next statement and
the reader's asking for the next page while there is one; `Ends` says that is enough whatever
is created and whoever befriends whom meanwhile. It needs no assumption on the writers: the
cursor only goes down. `Gateway` assumes weak fairness of what a handler
does next (`Resume`), for `StoredIsTold`: the event loop comes back to a handler whose call has
returned. Nothing of a user, a socket or the network is fair: they need do nothing.

## 5. What the checks found

- A relation can stay confirmed in one direction with nothing at work
  (`claim_mutual`): statuses are checked at 39 and 64 of `relations/relations.service.ts` and
  written by id later, with no condition and no transaction.

Read off the model, most of them the condition a property of a passing run needs:

- When the other direction's row exists already, its old subtype stays
  (`relations/relations.service.ts:78`), and the two directions are not each other's mirror.
- "Single-use rotation" (`src/backend/README.md:106`) holds only while refreshes of a
  session do not overlap (`OneLivePerSession` excepts `raced`).
- A refresh past its checks issues a token after its session was revoked (`EndedForGood` is
  of sessions ended with no refresh under way).
- An answer is written by id at `relations/relations.service.ts:66` whatever the row is by
  then, so overlapping handlers may answer one request several times, the last one winning,
  and a confirmation may follow a revocation. `AnswersBounded` is what the check at 64 is
  worth under overlap.
- `listMessages` takes its cursor from the row beyond the page and queries strictly below
  it: the message at every page boundary is never given. `LostAtBoundaries` says that no other
  is lost.
- `feed` reads friends at `posts/posts.service.ts:58` and their friends at 67. An author who
  is a friend's friend at 58 and, by another friend or as a friend himself, still within two
  hops at 67 may be found by neither query; his posts above the next cursor are then skipped
  for good. `Complete` excepts just him: it asks that until 67 he can be found by friendships
  there at both. Likewise a page may show an author by two friendships that never existed at
  one moment.
- "Five failures lock for ten minutes" (`src/backend/README.md:105`) is exact only for
  logins that do not overlap: counters are written from the value read at
  `auth/auth.service.ts:174` or 233, and with two logins at a time it may be the fifteenth
  wrong secret that locks instead of the fifth (`GuessesBounded`: with n at a time and five
  tries, the C(4+n, n)-th). A right password read before the lock undoes the lock.
- `commentCount` goes down twice when its author deletes a comment twice at once;
  `likeCount` does not, thanks to the deleted row (`posts/posts.service.ts:166`, 210).
  Either stays wrong after a crash between row and counter.
- Two `markRead`s of one reader that overlap meet at the unique key, and the later one
  marks nothing, messages newer than the other's included (`chat/chat.service.ts:152`,
  `MissedOnlyWhenRaced`); the gateway then tells no receipt.
- Two sends that overlap may leave the older message in the conversation list (123), and a
  deleted message's text stays there (162): `SummaryFresh` says what does hold.
- A `conversation:leave` that arrives while the same socket's join waits for its check
  leaves the socket in the room (`chat/chat.gateway.ts:74`, `crossed`).
- Client refreshes that cross each use the same token: all but one are refused, and a
  refused `me()` signs the user out of a session that works
  (`src/frontend/lib/pass-api.js:92`, `SignedOutForCause`). The answer of a refresh that
  arrives after a sign-out signs the user in again (120, `SignedOutStays`); and a `me()`
  of an earlier session that ends in a 401 signs out the one that has followed it.
- A scanner closed before the camera answers turns it on behind the closed overlay
  (`src/frontend/lib/scanner.js:261`); the timer of an earlier scan hands its text to
  whoever has opened the scanner since, and closes it (339). Once the decoder has failed to
  load, its promise is kept and every later open fails too, although the hint at 363 says
  to try again.

What holds, each with the condition it holds under, is stated in the modules:
`MutualUnlessDisturbed`, `OneLivePerSession`, `EndedForGood`, `OneRecent`, `CountsUnlessRaced`,
`CommentsCounted`, `MissedOnlyWhenRaced` and the properties of `PassApi` and `Scanner` hold of
whatever no two requests, refreshes or opens crossed on; `BothActed`, `AnswersBounded`,
`SessionBound`, `LostAtBoundaries`, `NeverTwice`, `AccountProven`, `CodeOpensOne`,
`AttemptsBounded`, `SummaryFresh`, `ReadByRecipient`, `ReceiptsExact`, `PathHeld` and
`LayersSound` hold whatever overlaps or fails.

## 6. Proofs

| Module | Theorems | Inductive invariant |
|---|---|---|
| `RelationsProofs` | `TypeCorrect`, `ConsentIsChecked`, `Consent`, `UndisturbedIsAtomic`, `MutualSafety`, `AnswersAreBounded`, `Refinement` | `TypeOK` (with `RowsStay`), `ConsentInv`, `SoloInv`, `AnswersInv` |
| `SessionsProofs` | `TypeCorrect`, `SingleUseUnlessRaced`, `RevocationIsFinal`, `SessionsStayBound` | `TypeOK` (with `TokensStay`), `RotationInv` |
| | of the client: `ClientTypeCorrect`, `ClientKeepsToSessions`, `SignedOutForGood`, `StoredStaysCurrent`, `SignsOutForCause` | `ClientInv`, with `RotationInv` |
| `OtpProofs` | `TypeCorrect`, `AccountsProven`, `CodesOpenOne`, `AttemptsAreBounded`, `OneRecentCode` | `OtpInv` |
| `PagesProofs` | `TypeCorrect`, `NoRepeatInvariant`, `NoRepeats`, `FeedComplete`, `LostOnlyAtBoundaries` | `NoRepeatInv`, with it `ListInv` |
| | of the scanner: `ScannerTypeCorrect`, `ClosedIsOff`, `ScansGoToOpener`, `LoopGoesOn` | `ScannerInv` |
| `LockoutProofs` | `TypeCorrect`, `LockoutWorks`, `GuessesAreBounded` | `LockoutInv`; with it `GuessInv` |
| `PostsProofs` | `TypeCorrect`, `LikesAreCounted`, `CommentsAreCounted` | `CountersInv` |
| `ChatProofs` | `TypeCorrect`, `SummaryIsFresh`, `RecipientsRead`, `MissedAreRaced` | `ChatInv` |
| | of the gateway: `GateTypeCorrect`, `RoomsKept`, `GatewayImplementsChat`, `ReceiptsAreExact`, `ToldOnce` | `ChatInv` with `RoomInv`, `ReceiptInv`, `TellInv` |
| `GraphQueryProofs` | `TypeCorrect`, `LayersStaySound`, `LayersAreWho`, `PathsHeld`, `PathsAreShortest` | `GraphInv`; with it `ExactInv` |

All hold for any set of users, handlers, tokens, codes and page sizes, under the named
assumptions of the modules: the "no value" constant is none of the values, kinds are
among those the service knows and its mirror stays among the subtypes, page sizes and
`MaxAttempts` are positive, `MaxTries` too, passwords are not PINs, `Handlers` is finite
(where it is counted), a reader is one of the people, friendships and rows are theirs, the client's user and device exist, a conversation's members are users, the depths of searches are
positive. TLC checks `ConsentInv` and `SoloInv` in `relations_pair`; the other inductive
invariants are in no run, as their proofs say more than an instance would.

The provers have no induction of their own here, but the library proves that `<` on the
naturals is well-founded: a set that contains 0 and each number's successor contains all
numbers, as the least one outside it would have a predecessor inside (`SetInduction`). That is
how the proofs reach the functions the modules define by recursion, the distances of
`GraphQuery` and the factorials behind `choose`.

- **Consent.** A confirmed row needs more than itself to stay explained: `ConsentInv` adds
  that a pending row was asked for, and that a handler between check and write acts
  for the addressee of a row that was asked for. Status alone is not inductive, since
  a handler writes from what it read. What was asked and accepted is forgotten of relations
  at rest only, where no handler and no row needs it.
- **Answers.** `AnswersInv` says that a pending request has no answer yet, and counts with the
  answers written those that handlers are still to write: only a handler that reads the
  request while it is pending adds to them, so together they never exceed `Handlers`.
- **Mutual confirmation.** `SoloInv` says of an undisturbed relation that it has one
  handler, that what this handler read is still true, and that the directions differ only
  between its two writes.
- **Refinement.** `Promised` counts an operation as done at its first write: the second
  write a handler still owes is taken as made. A disturbed relation maps to "unspecified",
  so the promise is about all the others, at the same time as disturbances happen.
- **Sessions.** `AloneInv` says that a session nobody raced on has one refresh at a time,
  which holds its only live token until it revokes it, and none once the session has
  ended.
- **Otp.** `JobInv` ties what a handler has read to the row it will write; `OpenedInv`
  each account to its code; `RecentInv` says that whoever is about to create a code found
  none that holds it off; `AttemptsInv` bounds a code's attempts together with the
  handlers that will count one.
- **Paging.** `NoneLeftBehind` says that what the reader wants is below the cursor or
  was given (or, of messages, is a cursor itself), `ShownFromCursor` that what was given is at
  the cursor or above. `WantedListed` carries a wanted row from query to query: listed by
  friendships of which the first ones were read at 58, it is found by what is read at 67
  (`FoundTheSameWay`), and then by the row query whatever friendships do.
- **Lockout.** `LoneInv` says that a credential not raced on has one login at a time, which
  has read the count that is there; then what it writes is that count plus one.
- **Guesses.** Where logins overlap, a login on a credential holds the count it has read, or
  the row's if that is less, and one not on it holds the row's. A wrong secret replaces the
  count held by its login with one above it: other logins may rise with the row, none falls
  below what was replaced. So, of the numbers of logins above 0, above 1 and so on, the first
  to change has grown. `Reaches` says that there have been no more wrong secrets than there are
  such profiles below the present one in that (lexicographic) order. The rank of a profile is
  a sum of binomials (`Ranked`), whose steps are Pascal's rule; the highest rank is one less
  than the binomial of `GuessesBounded`.
- **Posts.** The counters are proved with what handlers owe them on both sides of the
  equation, so that every step moves both sides alike. `LikeIdsInv` (ids are used once)
  says that the row `Unlike` deletes is one row of the right post; `RemovingInv` that of a
  post whose comments have not drifted, one handler at most is deleting a comment, which is
  still there.
- **Chat.** `SendingInv` says that the message a handler is about to show is its own and
  has not been shown: so what was shown when it was created does not contain it, which is
  `SummaryFresh` one step later. `MarkingInv` says that unless its reader raced there, one
  handler marks, and what it found is unread still.
- **Gateway.** `JoinInv` follows a join through its wait: its socket is still that member's,
  or has closed, and while it is open wants the room or has been overtaken. Every step of
  the gateway maps to a call of the service, a return from it, or a stutter
  (`GatewayImplementsChat`), so `ChatInv` carries over.
- **Receipts.** `ReceiptInv` says that what handlers are still to tell of is read already, and
  that no two of them found one message: `Mark` of a message marked meanwhile fails as a whole.
  Then a receipt told moves as many from `ToTell` to `receipts`.
- **Told once.** The gateway awaits `getConversation` between telling the room and telling the
  member; `Gateway` says how far a handler has come by whether its message is in `announced`.
  `TellInv` proves that this is one handler's business: no two hold the same message, and
  one that is held is shown in the conversation list and not yet notified.
- **Client.** Every step of the client beside the server is one of `Sessions` or a stutter
  (`ClientKeepsToSessions`), so `RotationInv` carries over. `ClientInv` ties each call to its
  handler (`ServedInv`) and says that a session nobody crossed is renewed by one call at most,
  with the token stored (`RenewingInv`), whose answer is live and new to everyone
  (`GrantedInv`). While none renews it, the token stored is then the live one.
- **Scanner.** An open that was not crossed is under way alone and is the last one
  (`AloneInv`), so the shared variables hold what it has started (`HeldInv`) and no timer or
  frame is another's (`OnceInv`).
- **GraphQuery.** `SearchInv` says that a search has asked once for each of its layers and
  that the rows it keeps lead to users it has found: a new layer is disjoint from the old
  ones, and its rows are of the graph it was asked of. `ExactInv` adds that a layer is *all*
  the new users those rows lead to, save that a path search keeps its target alone
  (`LayersExact`), why a search has ended (`EndedFor`), and that `tree` has a row for every user
  found (`TreeInv`). In a graph that stands still the layers are then the distances, by
  induction over them; and going back along the rows of `tree` goes down one layer at a time
  and ends at the one searched from.

Only model-checked: the liveness properties `OneWayHeals`, `Ends` and `StoredIsTold`, as
liveness under fairness is out of the prover's reach. Every other property of the passing
runs has its theorem.

## 7. Not modelled

- **Contact sync.** One read of the users, then one transaction that overwrites each link
  with what was read: a link is as old as its sync, by construction, and nothing in the
  repository promises more. **Saved graphs**: one upsert per save, the last one wins.
- **User profile**: single statements; `deleteAccount` is in `Sessions`. **Application wiring**,
  the sample data and `integration-check.cjs`: start-up and scripts.
- **Frontend pages and widgets**: presentation. `chat-popup.js` works on demonstration data
  and calls no server; `auth-guard.js` is switched off in its source.
- Within modelled components: read-only lists (`listConversations` and the other lists;
  `getNeighbors` is `expand`'s first layer), typing events, which touch no state, the
  client's endpoint methods, which name paths and bodies, and its socket (`connectChat`),
  whose other end is `Gateway`; `deleteMe`, whose part is `Sessions.DeleteAccount`; the
  fourteen days of a refresh token; an `onScan` that reopens the scanner; posts' `update`,
  which changes a text.
- Everywhere: access tokens on the server, the digits and delivery of codes, texts and
  display data, the clamping of page sizes (`Limits` are the sizes after it), and isolation below one statement:
  each Prisma call is taken as atomic.
