--------------------------------- MODULE Posts ---------------------------------
(***************************************************************************)
(* Likes and comments: PostsService.toggleLike, addComment and              *)
(* deleteComment. A post carries two counters beside the rows they count; a *)
(* row comes or goes in one statement and its counter moves in the next. As *)
(* everywhere, requests interleave between statements.                     *)
(***************************************************************************)
EXTENDS Integers, FiniteSets

CONSTANTS Users, Ids,      \* accounts; ids of posts
          Handlers,        \* requests the server may be running at once
          MaxLikes,        \* like rows, and comments, that can be created; these
          MaxComments,     \*   bound a run
          MayFail,         \* whether a handler may be cut short between statements
          None

VARIABLES
  post,          \* "none", "live" or "deleted"
  likes,         \* post_likes rows
  liked,         \* how many like rows there have been: their ids are 1..liked
  likeCount,     \* posts.like_count
  comment,       \* post_comments rows: comment[c] for c in 1..commented
  commented,
  commentCount,  \* posts.comment_count
  job,           \* what each handler is doing and has read, or None
  \* History, read by no action of the code:
  drifted        \* <<counter, post>>: a handler was cut short between row and
                 \* counter, or two deleted one comment

likeVars    == <<likes, liked, likeCount>>
commentVars == <<comment, commented, commentCount>>
vars        == <<post, likeVars, commentVars, job, drifted>>

LikeRow == [id : Nat, post : Ids, user : Users]

CommentRow == [post : Ids, user : Users, deleted : BOOLEAN]

\* `row` is the id of the like or comment that was read, None if there was none.
Job == [pc : {"like", "countLike", "unlike", "uncountLike",
              "comment", "countComment", "remove", "uncountComment"},
        post : Ids, user : Users, row : Nat \cup {None}]

ASSUME HandlersAssumption == IsFiniteSet(Handlers)
ASSUME BoundsAssumption   == MaxLikes \in Nat /\ MaxComments \in Nat
ASSUME MayFailAssumption  == MayFail \in BOOLEAN
ASSUME NoneAssumption     == None \notin Job \cup Nat

Init ==
  /\ post = [p \in Ids |-> "none"]
  /\ likes = {} /\ liked = 0 /\ likeCount = [p \in Ids |-> 0]
  /\ comment = <<>> /\ commented = 0 /\ commentCount = [p \in Ids |-> 0]
  /\ job = [h \in Handlers |-> None]
  /\ drifted = {}

At(h, pc) == job[h] # None /\ job[h].pc = pc

Start(h, pc, p, u, row) ==
  /\ job[h] = None
  /\ job' = [job EXCEPT ![h] = [pc |-> pc, post |-> p, user |-> u, row |-> row]]

Goto(h, pc) == job' = [job EXCEPT ![h].pc = pc]

Done(h) == job' = [job EXCEPT ![h] = None]

-----------------------------------------------------------------------------
Publish(p) ==
  /\ post[p] = "none"
  /\ post' = [post EXCEPT ![p] = "live"]
  /\ UNCHANGED <<likeVars, commentVars, job, drifted>>

\* Deleting a post twice writes deletedAt twice; its likes and comments stay.
Delete(p) ==
  /\ post[p] = "live"
  /\ post' = [post EXCEPT ![p] = "deleted"]
  /\ UNCHANGED <<likeVars, commentVars, job, drifted>>

LikesBy(p, u) == {l \in likes : l.post = p /\ l.user = u}

\* The reads of the post and, after it, of the user's like: a Delete between the
\* two might as well come after both.
ToggleLike(h, u, p) ==
  /\ post[p] = "live"
  /\ \/ LikesBy(p, u) = {} /\ Start(h, "like", p, u, None)
     \/ \E l \in LikesBy(p, u) : Start(h, "unlike", p, u, l.id)
  /\ UNCHANGED <<post, likeVars, commentVars, drifted>>

\* The unique key refuses a second like of the user.
Like(h) ==
  LET j == job[h] IN
  /\ At(h, "like")
  /\ liked < MaxLikes
  /\ IF LikesBy(j.post, j.user) = {}
       THEN /\ liked' = liked + 1
            /\ likes' = likes \cup {[id |-> liked + 1, post |-> j.post, user |-> j.user]}
            /\ Goto(h, "countLike")
       ELSE Done(h) /\ UNCHANGED <<likes, liked>>
  /\ UNCHANGED <<post, likeCount, commentVars, drifted>>

\* delete by id, which fails when the row is gone.
UnlikeGone(h) ==                                                  \* mutant
  /\ At(h, "unlike")
  /\ likes' = {l \in likes : l.id # job[h].row}
  /\ Goto(h, "uncountLike")
  /\ UNCHANGED <<post, liked, likeCount, commentVars, drifted>>
Unlike(h) ==
  LET row == {l \in likes : l.id = job[h].row} IN
  /\ At(h, "unlike")
  /\ likes' = likes \ row
  /\ IF row # {} THEN Goto(h, "uncountLike") ELSE Done(h)
  /\ UNCHANGED <<post, liked, likeCount, commentVars, drifted>>

\* increment and decrement are the database's own.
CountLike(h) ==
  /\ \/ At(h, "countLike")   /\ likeCount' = [likeCount EXCEPT ![job[h].post] = @ + 1]
     \/ At(h, "uncountLike") /\ likeCount' = [likeCount EXCEPT ![job[h].post] = @ - 1]
  /\ Done(h)
  /\ UNCHANGED <<post, likes, liked, commentVars, drifted>>

-----------------------------------------------------------------------------
AddComment(h, u, p) ==
  /\ post[p] = "live"
  /\ Start(h, "comment", p, u, None)
  /\ UNCHANGED <<post, likeVars, commentVars, drifted>>

CreateComment(h) ==
  /\ At(h, "comment")
  /\ commented < MaxComments
  /\ commented' = commented + 1
  /\ comment' = [c \in 1 .. commented' |->
       IF c = commented' THEN [post |-> job[h].post, user |-> job[h].user, deleted |-> FALSE]
                         ELSE comment[c]]
  /\ Goto(h, "countComment")
  /\ UNCHANGED <<post, likeVars, commentCount, drifted>>

\* Handler h has read comment c and not yet deleted it.
Removing(h, c) == At(h, "remove") /\ job[h].row = c

DeletableTwice(u, c) == comment[c].user = u                       \* mutant
Deletable(u, c) == ~comment[c].deleted /\ comment[c].user = u

DeleteComment(h, u, c) ==
  /\ Deletable(u, c)
  /\ Start(h, "remove", comment[c].post, u, c)
  /\ drifted' = IF \E g \in Handlers : Removing(g, c)
                  THEN drifted \cup {<<"comments", comment[c].post>>} ELSE drifted
  /\ UNCHANGED <<post, likeVars, commentVars>>

\* By id, whether or not another request has deleted it since.
RemoveComment(h) ==
  /\ At(h, "remove")
  /\ comment' = [comment EXCEPT ![job[h].row].deleted = TRUE]
  /\ Goto(h, "uncountComment")
  /\ UNCHANGED <<post, likeVars, commented, commentCount, drifted>>

CountComment(h) ==
  /\ \/ At(h, "countComment")   /\ commentCount' = [commentCount EXCEPT ![job[h].post] = @ + 1]
     \/ At(h, "uncountComment") /\ commentCount' = [commentCount EXCEPT ![job[h].post] = @ - 1]
  /\ Done(h)
  /\ UNCHANGED <<post, likeVars, comment, commented, drifted>>

-----------------------------------------------------------------------------
\* The counter a handler owes its next statement to.
Owes(h) ==
  IF At(h, "countLike") \/ At(h, "uncountLike") THEN {<<"likes", job[h].post>>}
  ELSE IF At(h, "countComment") \/ At(h, "uncountComment") THEN {<<"comments", job[h].post>>}
  ELSE {}

\* The process dies or a statement fails: the writes already made stay.
CutShort(h) ==
  /\ MayFail
  /\ job[h] # None
  /\ drifted' = drifted \cup Owes(h)
  /\ Done(h)
  /\ UNCHANGED <<post, likeVars, commentVars>>

Next ==
  \/ \E p \in Ids : Publish(p) \/ Delete(p)
  \/ \E h \in Handlers :
       \/ \E u \in Users, p \in Ids : ToggleLike(h, u, p) \/ AddComment(h, u, p)
       \/ \E u \in Users, c \in 1 .. commented : DeleteComment(h, u, c)
       \/ Like(h) \/ Unlike(h) \/ CountLike(h)
       \/ CreateComment(h) \/ RemoveComment(h) \/ CountComment(h)
       \/ CutShort(h)

Spec == Init /\ [][Next]_vars

-----------------------------------------------------------------------------
TypeOK ==
  /\ post \in [Ids -> {"none", "live", "deleted"}]
  /\ likes \subseteq LikeRow /\ liked \in Nat
  /\ likeCount \in [Ids -> Int]
  /\ commented \in Nat /\ comment \in [1 .. commented -> CommentRow]
  /\ commentCount \in [Ids -> Int]
  /\ job \in [Handlers -> Job \cup {None}]
  /\ drifted \subseteq {"likes", "comments"} \X Ids

\* Handlers whose next statement moves a counter of p.
Owing(pc, p) == {h \in Handlers : At(h, pc) /\ job[h].post = p}

LikesOf(p) == {l \in likes : l.post = p}

CommentsOf(p) == {c \in 1 .. commented : comment[c].post = p /\ ~comment[c].deleted}

\* However toggles of a like overlap, a post's counter is its like rows, less
\* those about to be counted and with those about to be uncounted: a toggle that
\* loses a race fails at its row and leaves the counter alone. Only a handler cut
\* short between the two makes it drift (posts.service.ts 158-180).
LikesCounted ==
  \A p \in Ids : <<"likes", p>> \notin drifted =>
    likeCount[p] + Cardinality(Owing("countLike", p))
      = Cardinality(LikesOf(p)) + Cardinality(Owing("uncountLike", p))

\* The same of comments, unless two requests deleted one comment at once: there
\* the row does not stop the second (185-219).
CommentsCounted ==
  \A p \in Ids : <<"comments", p>> \notin drifted =>
    commentCount[p] + Cardinality(Owing("countComment", p))
      = Cardinality(CommentsOf(p)) + Cardinality(Owing("uncountComment", p))

-----------------------------------------------------------------------------
\* Inductive form: like ids are used once; a comment is being deleted by one
\* handler, and is still there, unless its post's counter has drifted.
LikeIdsInv ==
  /\ IsFiniteSet(likes)
  /\ \A l \in likes : l.id \in 1 .. liked
  /\ \A l, m \in likes : l.id = m.id => l = m
  /\ \A h \in Handlers : At(h, "unlike") =>
       /\ job[h].row \in 1 .. liked
       /\ \A l \in likes : l.id = job[h].row => l.post = job[h].post

RemovingInv ==
  \A h \in Handlers : At(h, "remove") =>
    /\ job[h].row \in 1 .. commented
    /\ comment[job[h].row].post = job[h].post
    /\ <<"comments", job[h].post>> \notin drifted =>
         /\ ~comment[job[h].row].deleted
         /\ \A g \in Handlers : Removing(g, job[h].row) => g = h

CountersInv ==
  /\ TypeOK
  /\ LikeIdsInv
  /\ RemovingInv
  /\ LikesCounted
  /\ CommentsCounted
=============================================================================
