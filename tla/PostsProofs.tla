------------------------------ MODULE PostsProofs ------------------------------
(***************************************************************************)
(* Proofs about Posts: a counter equals the rows it counts, for any number   *)
(* of overlapping requests, unless a request was cut short between row and   *)
(* counter or two deleted one comment.                                      *)
(***************************************************************************)
EXTENDS Posts, FiniteSetTheorems, TLAPS

USE NoneAssumption

Pcs == {"like", "countLike", "unlike", "uncountLike",
        "comment", "countComment", "remove", "uncountComment"}

LikesCountedOf(p) ==
  <<"likes", p>> \notin drifted =>
    likeCount[p] + Cardinality(Owing("countLike", p))
      = Cardinality(LikesOf(p)) + Cardinality(Owing("uncountLike", p))

CommentsCountedOf(p) ==
  <<"comments", p>> \notin drifted =>
    commentCount[p] + Cardinality(Owing("countComment", p))
      = Cardinality(CommentsOf(p)) + Cardinality(Owing("uncountComment", p))

\* What RemovingInv says of handler h about to delete comment c.
MayRemove(h, c) ==
  /\ c \in 1 .. commented
  /\ comment[c].post = job[h].post
  /\ <<"comments", job[h].post>> \notin drifted =>
       ~comment[c].deleted /\ \A g \in Handlers : Removing(g, c) => g = h

LEMMA RemovingParts ==
  RemovingInv <=> \A h \in Handlers : \A c : Removing(h, c) => MayRemove(h, c)
BY DEF RemovingInv, MayRemove, Removing

LEMMA RemovingFromParts ==
  ASSUME \A h \in Handlers : \A c : Removing(h, c)' => MayRemove(h, c)'
  PROVE  RemovingInv'
<1> SUFFICES ASSUME NEW h \in Handlers, At(h, "remove")',
                    NEW c, c = job'[h].row
             PROVE  MayRemove(h, c)'
  BY DEF RemovingInv, MayRemove, Removing
<1> QED  BY DEF Removing

LEMMA InParts ==
  CountersInv <=> /\ TypeOK /\ LikeIdsInv /\ RemovingInv
                  /\ \A p \in Ids : LikesCountedOf(p)
                  /\ \A p \in Ids : CommentsCountedOf(p)
BY DEF CountersInv, LikesCounted, CommentsCounted, LikesCountedOf, CommentsCountedOf

LEMMA FromParts ==
  ASSUME TypeOK', LikeIdsInv', RemovingInv',
         \A p \in Ids : LikesCountedOf(p)', \A p \in Ids : CommentsCountedOf(p)'
  PROVE  CountersInv'
BY DEF CountersInv, LikesCounted, CommentsCounted, LikesCountedOf, CommentsCountedOf

LEMMA JobFields ==
  ASSUME TypeOK, NEW h \in Handlers, job[h] # None
  PROVE  /\ job[h] \in Job /\ job[h].pc \in Pcs /\ job[h].post \in Ids
         /\ job[h].user \in Users /\ job[h].row \in Nat \cup {None}
<1>1. job[h] \in Job  BY DEF TypeOK
<1> QED  BY <1>1 DEF Job, Pcs

LEMMA GotoJob ==
  ASSUME TypeOK, NEW h \in Handlers, job[h] # None, NEW pc \in Pcs, Goto(h, pc)
  PROVE  \E x \in Job : /\ x # None /\ x.pc = pc /\ x.post = job[h].post
                        /\ x.row = job[h].row
                        /\ job' = [job EXCEPT ![h] = x]
<1> DEFINE x == [job[h] EXCEPT !.pc = pc]
<1>1. job[h] \in Job /\ h \in DOMAIN job  BY JobFields DEF TypeOK
<1>2. x \in Job /\ x.pc = pc /\ x.post = job[h].post /\ x.row = job[h].row
  BY <1>1 DEF Job, Pcs
<1>3. job' = [job EXCEPT ![h] = x]  BY <1>1 DEF Goto
<1> QED  BY <1>2, <1>3

\* What a handler's step does to the sets of handlers owing a counter.
LEMMA JobStep ==
  ASSUME TypeOK, NEW h \in Handlers, NEW x \in Job \cup {None},
         job' = [job EXCEPT ![h] = x]
  PROVE  /\ job' \in [Handlers -> Job \cup {None}]
         /\ job'[h] = x /\ \A g \in Handlers : g # h => job'[g] = job[g]
         /\ \A k \in Pcs, p \in Ids :
              Owing(k, p)' = IF x # None /\ x.pc = k /\ x.post = p
                               THEN Owing(k, p) \cup {h} ELSE Owing(k, p) \ {h}
<1>1. /\ job' \in [Handlers -> Job \cup {None}]
      /\ job'[h] = x /\ \A g \in Handlers : g # h => job'[g] = job[g]
  BY DEF TypeOK
<1>2. ASSUME NEW k \in Pcs, NEW p \in Ids
      PROVE  Owing(k, p)' = IF x # None /\ x.pc = k /\ x.post = p
                              THEN Owing(k, p) \cup {h} ELSE Owing(k, p) \ {h}
  <2>1. \A g \in Handlers : g \in Owing(k, p)' <=>
          job'[g] # None /\ job'[g].pc = k /\ job'[g].post = p
    BY DEF Owing, At
  <2>2. \A g \in Handlers : g \in Owing(k, p) <=>
          job[g] # None /\ job[g].pc = k /\ job[g].post = p
    BY DEF Owing, At
  <2>3. Owing(k, p)' \subseteq Handlers /\ Owing(k, p) \subseteq Handlers  BY DEF Owing
  <2> QED  BY <1>1, <2>1, <2>2, <2>3
<1> QED  BY <1>1, <1>2

LEMMA OwingKept ==
  ASSUME NEW h \in Handlers, \A g \in Handlers : g # h => job'[g] = job[g],
         NEW k, NEW p, ~(At(h, k) /\ job[h].post = p), ~(At(h, k)' /\ job'[h].post = p)
  PROVE  Owing(k, p)' = Owing(k, p)
<1>1. \A g \in Handlers : g \in Owing(k, p)' <=> g \in Owing(k, p)  BY DEF Owing, At
<1>2. Owing(k, p)' \subseteq Handlers /\ Owing(k, p) \subseteq Handlers  BY DEF Owing
<1> QED  BY <1>1, <1>2

LEMMA OwingFinite ==
  ASSUME NEW k, NEW p
  PROVE  IsFiniteSet(Owing(k, p)) /\ Cardinality(Owing(k, p)) \in Nat
<1>1. IsFiniteSet(Owing(k, p))
  BY HandlersAssumption, FS_Subset DEF Owing
<1> QED  BY <1>1, FS_CardinalityType

LEMMA OwingGained ==
  ASSUME NEW h \in Handlers, \A g \in Handlers : g # h => job'[g] = job[g],
         NEW k, NEW p, ~(At(h, k) /\ job[h].post = p), At(h, k)' /\ job'[h].post = p
  PROVE  Cardinality(Owing(k, p)') = Cardinality(Owing(k, p)) + 1
<1>1. \A g \in Handlers : g \in Owing(k, p)' <=> g \in Owing(k, p) \cup {h}  BY DEF Owing, At
<1>2. Owing(k, p)' \subseteq Handlers /\ Owing(k, p) \subseteq Handlers  BY DEF Owing
<1>3. Owing(k, p)' = Owing(k, p) \cup {h} /\ h \notin Owing(k, p)  BY <1>1, <1>2 DEF Owing
<1> QED  BY <1>3, OwingFinite, FS_AddElement

LEMMA OwingLost ==
  ASSUME NEW h \in Handlers, \A g \in Handlers : g # h => job'[g] = job[g],
         NEW k, NEW p, At(h, k) /\ job[h].post = p, ~(At(h, k)' /\ job'[h].post = p)
  PROVE  Cardinality(Owing(k, p)') = Cardinality(Owing(k, p)) - 1
<1>1. \A g \in Handlers : g \in Owing(k, p)' <=> g \in Owing(k, p) \ {h}  BY DEF Owing, At
<1>2. Owing(k, p)' \subseteq Handlers /\ Owing(k, p) \subseteq Handlers  BY DEF Owing
<1>3. Owing(k, p)' = Owing(k, p) \ {h} /\ h \in Owing(k, p)  BY <1>1, <1>2 DEF Owing
<1> QED  BY <1>3, OwingFinite, FS_RemoveElement

LEMMA LikesOfFinite ==
  ASSUME LikeIdsInv, NEW p
  PROVE  IsFiniteSet(LikesOf(p)) /\ Cardinality(LikesOf(p)) \in Nat
<1>1. IsFiniteSet(LikesOf(p))  BY FS_Subset DEF LikeIdsInv, LikesOf
<1> QED  BY <1>1, FS_CardinalityType

LEMMA CommentsOfFinite ==
  ASSUME TypeOK, NEW p
  PROVE  IsFiniteSet(CommentsOf(p)) /\ Cardinality(CommentsOf(p)) \in Nat
<1>1. IsFiniteSet(1 .. commented)  BY FS_Interval DEF TypeOK
<1>2. IsFiniteSet(CommentsOf(p))  BY <1>1, FS_Subset DEF CommentsOf
<1> QED  BY <1>2, FS_CardinalityType

-----------------------------------------------------------------------------
\* A step that leaves one half of the module alone.
LEMMA LikesUntouched ==
  ASSUME CountersInv, UNCHANGED likeVars, drifted \subseteq drifted',
         \A h \in Handlers : At(h, "unlike")' => At(h, "unlike") /\ job'[h] = job[h],
         \A p \in Ids : <<"likes", p>> \notin drifted' =>
           /\ Owing("countLike", p)' = Owing("countLike", p)
           /\ Owing("uncountLike", p)' = Owing("uncountLike", p)
  PROVE  LikeIdsInv' /\ \A p \in Ids : LikesCountedOf(p)'
<1>1. LikeIdsInv /\ \A p \in Ids : LikesCountedOf(p)  BY InParts
<1>2. LikeIdsInv'  BY <1>1 DEF LikeIdsInv, likeVars
<1>3. ASSUME NEW p \in Ids PROVE LikesCountedOf(p)'
  <2>1. LikesOf(p)' = LikesOf(p) /\ likeCount' = likeCount  BY DEF LikesOf, likeVars
  <2> QED  BY <1>1, <2>1 DEF LikesCountedOf
<1> QED  BY <1>2, <1>3

LEMMA CommentsUntouched ==
  ASSUME CountersInv, UNCHANGED commentVars, drifted \subseteq drifted',
         \A h \in Handlers : At(h, "remove")' => At(h, "remove") /\ job'[h] = job[h],
         \A p \in Ids : <<"comments", p>> \notin drifted' =>
           /\ Owing("countComment", p)' = Owing("countComment", p)
           /\ Owing("uncountComment", p)' = Owing("uncountComment", p)
  PROVE  RemovingInv' /\ \A p \in Ids : CommentsCountedOf(p)'
<1>1. RemovingInv /\ \A p \in Ids : CommentsCountedOf(p)  BY InParts
<1>2. RemovingInv'
  <2> SUFFICES ASSUME NEW h \in Handlers, NEW c, Removing(h, c)'
               PROVE  MayRemove(h, c)'
    BY RemovingFromParts
  <2>1. At(h, "remove") /\ job'[h] = job[h] /\ comment' = comment /\ commented' = commented
    BY DEF commentVars, Removing
  <2>2. \A g \in Handlers : Removing(g, c)' => Removing(g, c)
    BY DEF Removing
  <2>3. Removing(h, c)  BY <2>2
  <2>4. MayRemove(h, c)  BY <1>1, <2>3, RemovingParts
  <2> QED  BY <2>1, <2>2, <2>4 DEF MayRemove
<1>3. ASSUME NEW p \in Ids PROVE CommentsCountedOf(p)'
  <2>1. CommentsOf(p)' = CommentsOf(p) /\ commentCount' = commentCount
    BY DEF CommentsOf, commentVars
  <2> QED  BY <1>1, <2>1 DEF CommentsCountedOf
<1> QED  BY <1>2, <1>3

\* A handler at pc k, moving to x (or done), owes no counter of the other half.
LikePcs    == {"like", "countLike", "unlike", "uncountLike"}
CommentPcs == {"comment", "countComment", "remove", "uncountComment"}

LEMMA LikesAside ==
  ASSUME CountersInv, UNCHANGED <<likeVars, drifted>>,
         NEW h \in Handlers, NEW x \in Job \cup {None}, job' = [job EXCEPT ![h] = x],
         job[h] # None => job[h].pc \in CommentPcs,
         x # None => x.pc \in CommentPcs
  PROVE  LikeIdsInv' /\ \A p \in Ids : LikesCountedOf(p)'
<1>1. TypeOK  BY InParts
<1>2. /\ job'[h] = x /\ \A g \in Handlers : g # h => job'[g] = job[g]
      /\ \A k \in Pcs, p \in Ids :
           Owing(k, p)' = IF x # None /\ x.pc = k /\ x.post = p
                            THEN Owing(k, p) \cup {h} ELSE Owing(k, p) \ {h}
  BY <1>1, JobStep
<1>3. \A g \in Handlers : At(g, "unlike")' => At(g, "unlike") /\ job'[g] = job[g]
  BY <1>2 DEF At, CommentPcs
<1>4. \A k \in {"countLike", "uncountLike"}, p \in Ids : Owing(k, p)' = Owing(k, p)
  <2> TAKE k \in {"countLike", "uncountLike"}, p \in Ids
  <2>1. k \notin CommentPcs  BY DEF CommentPcs
  <2>2. ~At(h, k) /\ ~At(h, k)'  BY <1>2, <2>1 DEF At
  <2> QED  BY <1>2, <2>2, OwingKept
<1> QED  BY <1>3, <1>4, LikesUntouched

LEMMA CommentsAside ==
  ASSUME CountersInv, UNCHANGED <<commentVars, drifted>>,
         NEW h \in Handlers, NEW x \in Job \cup {None}, job' = [job EXCEPT ![h] = x],
         job[h] # None => job[h].pc \in LikePcs,
         x # None => x.pc \in LikePcs
  PROVE  RemovingInv' /\ \A p \in Ids : CommentsCountedOf(p)'
<1>1. TypeOK  BY InParts
<1>2. /\ job'[h] = x /\ \A g \in Handlers : g # h => job'[g] = job[g]
      /\ \A k \in Pcs, p \in Ids :
           Owing(k, p)' = IF x # None /\ x.pc = k /\ x.post = p
                            THEN Owing(k, p) \cup {h} ELSE Owing(k, p) \ {h}
  BY <1>1, JobStep
<1>3. \A g \in Handlers : At(g, "remove")' => At(g, "remove") /\ job'[g] = job[g]
  BY <1>2 DEF At, LikePcs
<1>4. \A k \in {"countComment", "uncountComment"}, p \in Ids : Owing(k, p)' = Owing(k, p)
  <2> TAKE k \in {"countComment", "uncountComment"}, p \in Ids
  <2>1. k \notin LikePcs  BY DEF LikePcs
  <2>2. ~At(h, k) /\ ~At(h, k)'  BY <1>2, <2>1 DEF At
  <2> QED  BY <1>2, <2>2, OwingKept
<1> QED  BY <1>3, <1>4, CommentsUntouched

-----------------------------------------------------------------------------
LEMMA InitInv == Init => CountersInv
<1> SUFFICES ASSUME Init PROVE CountersInv  OBVIOUS
<1>1. \A h \in Handlers : job[h] = None  BY DEF Init
<1>2. comment \in [1 .. commented -> CommentRow]  BY DEF Init
<1>3. TypeOK  BY <1>2 DEF Init, TypeOK
<1>4. LikeIdsInv  BY <1>1, FS_EmptySet DEF Init, LikeIdsInv, At
<1>5. RemovingInv  BY <1>1 DEF RemovingInv, At
<1>6. \A k, p : Owing(k, p) = {}  BY <1>1 DEF Owing, At
<1>7. \A p : LikesOf(p) = {} /\ CommentsOf(p) = {}  BY DEF Init, LikesOf, CommentsOf
<1>8. \A p \in Ids : likeCount[p] = 0 /\ commentCount[p] = 0  BY DEF Init
<1>9. \A p \in Ids : LikesCountedOf(p) /\ CommentsCountedOf(p)
  BY <1>6, <1>7, <1>8, FS_EmptySet DEF LikesCountedOf, CommentsCountedOf
<1> QED  BY <1>3, <1>4, <1>5, <1>9, InParts

-----------------------------------------------------------------------------
\* A post comes or goes: no row, counter or handler moves.
LEMMA PostStep ==
  ASSUME CountersInv, UNCHANGED <<likeVars, commentVars, job, drifted>>,
         post' \in [Ids -> {"none", "live", "deleted"}]
  PROVE  CountersInv'
<1>1. TypeOK  BY InParts
<1>2. TypeOK'  BY <1>1 DEF TypeOK, likeVars, commentVars
<1>3. \A h \in Handlers : \A k : At(h, k)' <=> At(h, k)  BY DEF At
<1>4. \A k, p : Owing(k, p)' = Owing(k, p)  BY <1>3 DEF Owing
<1>5. LikeIdsInv' /\ \A p \in Ids : LikesCountedOf(p)'  BY <1>3, <1>4, LikesUntouched
<1>6. RemovingInv' /\ \A p \in Ids : CommentsCountedOf(p)'  BY <1>3, <1>4, CommentsUntouched
<1> QED  BY <1>2, <1>5, <1>6, FromParts

LEMMA PublishStep ==
  ASSUME CountersInv, NEW p \in Ids, Publish(p) \/ Delete(p)
  PROVE  CountersInv'
<1>1. TypeOK  BY InParts
<1>2. post' \in [Ids -> {"none", "live", "deleted"}]  BY <1>1 DEF TypeOK, Publish, Delete
<1> QED  BY <1>2, PostStep DEF Publish, Delete

\* A handler's first step; `row` is what it has read.
LEMMA StartJob ==
  ASSUME NEW h \in Handlers, NEW pc \in Pcs, NEW p \in Ids, NEW u \in Users,
         NEW row \in Nat \cup {None}, Start(h, pc, p, u, row)
  PROVE  \E x \in Job : /\ x # None /\ x.pc = pc /\ x.post = p /\ x.row = row
                        /\ job[h] = None /\ job' = [job EXCEPT ![h] = x]
<1> DEFINE x == [pc |-> pc, post |-> p, user |-> u, row |-> row]
<1>1. x \in Job  BY DEF Job, Pcs
<1> QED  BY <1>1 DEF Start

LEMMA ToggleLikeStep ==
  ASSUME CountersInv, NEW h \in Handlers, NEW u \in Users, NEW p \in Ids, ToggleLike(h, u, p)
  PROVE  CountersInv'
<1>1. TypeOK /\ LikeIdsInv  BY InParts
<1>2. UNCHANGED <<post, likeVars, commentVars, drifted>>  BY DEF ToggleLike
<1>3. PICK pc \in {"like", "unlike"}, row \in Nat \cup {None} :
        /\ Start(h, pc, p, u, row)
        /\ pc = "unlike" => \E l \in LikesBy(p, u) : row = l.id
  BY <1>1 DEF ToggleLike, LikesBy, TypeOK, LikeRow
<1>4. PICK x \in Job : /\ x # None /\ x.pc = pc /\ x.post = p /\ x.row = row
                       /\ job[h] = None /\ job' = [job EXCEPT ![h] = x]
  BY <1>3, StartJob DEF Pcs
<1>5. /\ job' \in [Handlers -> Job \cup {None}]
      /\ job'[h] = x /\ \A g \in Handlers : g # h => job'[g] = job[g]
      /\ \A k \in Pcs, q \in Ids :
           Owing(k, q)' = IF x # None /\ x.pc = k /\ x.post = q
                            THEN Owing(k, q) \cup {h} ELSE Owing(k, q) \ {h}
  BY <1>1, <1>4, JobStep
<1>6. TypeOK'  BY <1>1, <1>2, <1>5 DEF TypeOK, likeVars, commentVars
<1>7. RemovingInv' /\ \A q \in Ids : CommentsCountedOf(q)'
  BY <1>2, <1>4, CommentsAside DEF LikePcs
<1>8. LikeIdsInv'
  <2>1. ASSUME NEW g \in Handlers, At(g, "unlike")'
        PROVE  /\ job'[g].row \in 1 .. liked
               /\ \A l \in likes : l.id = job'[g].row => l.post = job'[g].post
    <3>1. CASE g = h
      <4>1. pc = "unlike"  BY <1>4, <1>5, <2>1, <3>1 DEF At
      <4>2. PICK l \in LikesBy(p, u) : row = l.id  BY <1>3, <4>1
      <4> QED  BY <1>1, <1>4, <1>5, <3>1, <4>2 DEF LikesBy, LikeIdsInv
    <3>2. CASE g # h  BY <1>1, <1>5, <2>1, <3>2 DEF LikeIdsInv, At
    <3> QED  BY <3>1, <3>2
  <2> QED  BY <1>1, <1>2, <2>1 DEF LikeIdsInv, likeVars
<1>9. ASSUME NEW q \in Ids PROVE LikesCountedOf(q)'
  <2>1. ASSUME NEW k \in {"countLike", "uncountLike"} PROVE Owing(k, q)' = Owing(k, q)
    <3>1. ~At(h, k) /\ ~At(h, k)'  BY <1>4, <1>5 DEF At
    <3> QED  BY <1>5, <3>1, OwingKept
  <2>2. LikesOf(q)' = LikesOf(q) /\ likeCount' = likeCount /\ drifted' = drifted
    BY <1>2 DEF LikesOf, likeVars
  <2>3. LikesCountedOf(q)  BY InParts
  <2> QED  BY <2>1, <2>2, <2>3 DEF LikesCountedOf
<1> QED  BY <1>6, <1>7, <1>8, <1>9, FromParts

LEMMA AddCommentStep ==
  ASSUME CountersInv, NEW h \in Handlers, NEW u \in Users, NEW p \in Ids, AddComment(h, u, p)
  PROVE  CountersInv'
<1>1. TypeOK  BY InParts
<1>2. UNCHANGED <<post, likeVars, commentVars, drifted>> /\ Start(h, "comment", p, u, None)
  BY DEF AddComment
<1>3. PICK x \in Job : /\ x # None /\ x.pc = "comment"
                       /\ job[h] = None /\ job' = [job EXCEPT ![h] = x]
  BY <1>2, StartJob DEF Pcs
<1>4. /\ job' \in [Handlers -> Job \cup {None}]
      /\ job'[h] = x /\ \A g \in Handlers : g # h => job'[g] = job[g]
      /\ \A k \in Pcs, q \in Ids :
           Owing(k, q)' = IF x # None /\ x.pc = k /\ x.post = q
                            THEN Owing(k, q) \cup {h} ELSE Owing(k, q) \ {h}
  BY <1>1, <1>3, JobStep
<1>5. TypeOK'  BY <1>1, <1>2, <1>4 DEF TypeOK, likeVars, commentVars
<1>6. LikeIdsInv' /\ \A q \in Ids : LikesCountedOf(q)'
  BY <1>2, <1>3, LikesAside DEF CommentPcs
<1>7. \A g \in Handlers : At(g, "remove")' => At(g, "remove") /\ job'[g] = job[g]
  BY <1>3, <1>4 DEF At
<1>8. ASSUME NEW q \in Ids
      PROVE  /\ Owing("countComment", q)' = Owing("countComment", q)
             /\ Owing("uncountComment", q)' = Owing("uncountComment", q)
  <2>1. ASSUME NEW k \in {"countComment", "uncountComment"} PROVE Owing(k, q)' = Owing(k, q)
    <3>1. ~At(h, k) /\ ~At(h, k)'  BY <1>3, <1>4 DEF At
    <3> QED  BY <1>4, <3>1, OwingKept
  <2> QED  BY <2>1
<1>9. RemovingInv' /\ \A q \in Ids : CommentsCountedOf(q)'
  BY <1>2, <1>7, <1>8, CommentsUntouched
<1> QED  BY <1>5, <1>6, <1>9, FromParts

LEMMA LikeStep ==
  ASSUME CountersInv, NEW h \in Handlers, Like(h)
  PROVE  CountersInv'
<1> DEFINE q == job[h].post
           new == [id |-> liked + 1, post |-> job[h].post, user |-> job[h].user]
<1>1. TypeOK /\ LikeIdsInv /\ \A p \in Ids : LikesCountedOf(p)  BY InParts
<1>2. At(h, "like") /\ job[h] # None /\ UNCHANGED <<post, likeCount, commentVars, drifted>>
  BY DEF Like, At
<1>3. job[h] \in Job /\ q \in Ids /\ job[h].user \in Users  BY <1>1, <1>2, JobFields
<1>4. CASE Done(h) /\ UNCHANGED <<likes, liked>>
  <2>1. job' = [job EXCEPT ![h] = None]  BY <1>4 DEF Done
  <2>2. /\ job' \in [Handlers -> Job \cup {None}]
        /\ job'[h] = None /\ \A g \in Handlers : g # h => job'[g] = job[g]
    BY <1>1, <2>1 DEF TypeOK
  <2>3. TypeOK'  BY <1>1, <1>2, <1>4, <2>2 DEF TypeOK, commentVars
  <2>4. RemovingInv' /\ \A p \in Ids : CommentsCountedOf(p)'
    BY <1>2, <2>1, CommentsAside DEF At, LikePcs
  <2>5. \A g \in Handlers : At(g, "unlike")' => At(g, "unlike") /\ job'[g] = job[g]
    BY <2>2 DEF At
  <2>6. ASSUME NEW p \in Ids, NEW k \in {"countLike", "uncountLike"}
        PROVE  Owing(k, p)' = Owing(k, p)
    <3>1. ~At(h, k) /\ ~At(h, k)'  BY <1>2, <2>2 DEF At
    <3> QED  BY <2>2, <3>1, OwingKept
  <2>7. LikeIdsInv' /\ \A p \in Ids : LikesCountedOf(p)'
    BY <1>2, <1>4, <2>5, <2>6, LikesUntouched DEF likeVars
  <2> QED  BY <2>3, <2>4, <2>7, FromParts
<1>5. CASE /\ liked' = liked + 1 /\ likes' = likes \cup {new}
           /\ Goto(h, "countLike")
  <2>1. PICK x \in Job : /\ x # None /\ x.pc = "countLike" /\ x.post = q
                         /\ job' = [job EXCEPT ![h] = x]
    BY <1>1, <1>2, <1>5, GotoJob DEF Pcs
  <2>2. /\ job' \in [Handlers -> Job \cup {None}]
        /\ job'[h] = x /\ \A g \in Handlers : g # h => job'[g] = job[g]
    BY <1>1, <2>1 DEF TypeOK
  <2>3. liked \in Nat /\ new \in LikeRow  BY <1>1, <1>3 DEF TypeOK, LikeRow
  <2>4. TypeOK'  BY <1>1, <1>2, <1>5, <2>2, <2>3 DEF TypeOK, commentVars
  <2>5. RemovingInv' /\ \A p \in Ids : CommentsCountedOf(p)'
    BY <1>2, <2>1, CommentsAside DEF At, LikePcs
  <2>6. new.id = liked + 1 /\ new.post = q  OBVIOUS
  <2>7. \A l \in likes : l.id \in 1 .. liked /\ l # new /\ l.id # new.id
    BY <1>1, <2>3, <2>6 DEF LikeIdsInv
  <2>8. LikeIdsInv'
    <3>1. IsFiniteSet(likes')  BY <1>1, <1>5, FS_AddElement DEF LikeIdsInv
    <3>2. \A l \in likes' : l.id \in 1 .. liked'  BY <1>5, <2>3, <2>6, <2>7
    <3>3. \A l, m \in likes' : l.id = m.id => l = m  BY <1>1, <1>5, <2>7 DEF LikeIdsInv
    <3>4. ASSUME NEW g \in Handlers, At(g, "unlike")'
          PROVE  /\ job'[g].row \in 1 .. liked'
                 /\ \A l \in likes' : l.id = job'[g].row => l.post = job'[g].post
      <4>1. At(g, "unlike") /\ job'[g] = job[g]  BY <2>1, <2>2, <3>4 DEF At
      <4>2. /\ job[g].row \in 1 .. liked
            /\ \A l \in likes : l.id = job[g].row => l.post = job[g].post
        BY <1>1, <4>1 DEF LikeIdsInv
      <4> QED  BY <1>5, <2>3, <2>6, <4>1, <4>2
    <3> QED  BY <3>1, <3>2, <3>3, <3>4 DEF LikeIdsInv
  <2>9. ASSUME NEW p \in Ids PROVE LikesCountedOf(p)'
    <3>1. Owing("uncountLike", p)' = Owing("uncountLike", p)
      <4>1. ~At(h, "uncountLike") /\ ~At(h, "uncountLike")'  BY <1>2, <2>1, <2>2 DEF At
      <4> QED  BY <2>2, <4>1, OwingKept
    <3>2. ~At(h, "countLike") /\ At(h, "countLike")' /\ job'[h].post = q
      BY <1>2, <2>1, <2>2 DEF At
    <3>3. CASE p = q
      <4>1. Cardinality(Owing("countLike", p)') = Cardinality(Owing("countLike", p)) + 1
        BY <2>2, <3>2, <3>3, OwingGained
      <4>2. LikesOf(p)' = LikesOf(p) \cup {new} /\ new \notin LikesOf(p)
        BY <1>5, <2>6, <2>7, <3>3 DEF LikesOf
      <4>3. Cardinality(LikesOf(p)') = Cardinality(LikesOf(p)) + 1
        BY <1>1, <4>2, LikesOfFinite, FS_AddElement
      <4>4. likeCount[p] \in Int  BY <1>1 DEF TypeOK
      <4>5. /\ Cardinality(LikesOf(p)) \in Nat
            /\ Cardinality(Owing("countLike", p)) \in Nat
            /\ Cardinality(Owing("uncountLike", p)) \in Nat
        BY <1>1, LikesOfFinite, OwingFinite
      <4> QED  BY <1>1, <1>2, <3>1, <4>1, <4>3, <4>4, <4>5 DEF LikesCountedOf
    <3>4. CASE p # q
      <4>1. Owing("countLike", p)' = Owing("countLike", p)  BY <2>2, <3>2, <3>4, OwingKept
      <4>2. LikesOf(p)' = LikesOf(p)  BY <1>5, <2>6, <3>4 DEF LikesOf
      <4> QED  BY <1>1, <1>2, <3>1, <4>1, <4>2 DEF LikesCountedOf
    <3> QED  BY <3>3, <3>4
  <2> QED  BY <2>4, <2>5, <2>8, <2>9, FromParts
<1> QED  BY <1>4, <1>5 DEF Like

LEMMA UnlikeStep ==
  ASSUME CountersInv, NEW h \in Handlers, Unlike(h)
  PROVE  CountersInv'
<1> DEFINE q == job[h].post
           row == {l \in likes : l.id = job[h].row}
<1>1. TypeOK /\ LikeIdsInv /\ \A p \in Ids : LikesCountedOf(p)  BY InParts
<1>2. /\ At(h, "unlike") /\ job[h] # None /\ likes' = likes \ row
      /\ UNCHANGED <<post, liked, likeCount, commentVars, drifted>>
  BY DEF Unlike, At
<1>3. CASE row = {}
  <2>1. job' = [job EXCEPT ![h] = None] /\ likes' = likes  BY <1>2, <1>3 DEF Unlike, Done
  <2>2. /\ job' \in [Handlers -> Job \cup {None}]
        /\ job'[h] = None /\ \A g \in Handlers : g # h => job'[g] = job[g]
    BY <1>1, <2>1 DEF TypeOK
  <2>3. TypeOK'  BY <1>1, <1>2, <2>1, <2>2 DEF TypeOK, commentVars
  <2>4. RemovingInv' /\ \A p \in Ids : CommentsCountedOf(p)'
    BY <1>2, <2>1, CommentsAside DEF At, LikePcs
  <2>5. \A g \in Handlers : At(g, "unlike")' => At(g, "unlike") /\ job'[g] = job[g]
    BY <2>2 DEF At
  <2>6. ASSUME NEW p \in Ids, NEW k \in {"countLike", "uncountLike"}
        PROVE  Owing(k, p)' = Owing(k, p)
    <3>1. ~At(h, k) /\ ~At(h, k)'  BY <1>2, <2>2 DEF At
    <3> QED  BY <2>2, <3>1, OwingKept
  <2>7. LikeIdsInv' /\ \A p \in Ids : LikesCountedOf(p)'
    BY <1>2, <2>1, <2>5, <2>6, LikesUntouched DEF likeVars
  <2> QED  BY <2>3, <2>4, <2>7, FromParts
<1>4. CASE row # {}
  <2>1. Goto(h, "uncountLike")  BY <1>2, <1>4 DEF Unlike
  <2>2. PICK x \in Job : /\ x # None /\ x.pc = "uncountLike" /\ x.post = q
                         /\ job' = [job EXCEPT ![h] = x]
    BY <1>1, <1>2, <2>1, GotoJob DEF Pcs
  <2>3. /\ job' \in [Handlers -> Job \cup {None}]
        /\ job'[h] = x /\ \A g \in Handlers : g # h => job'[g] = job[g]
    BY <1>1, <2>2 DEF TypeOK
  <2>4. TypeOK'  BY <1>1, <1>2, <2>3 DEF TypeOK, commentVars
  <2>5. RemovingInv' /\ \A p \in Ids : CommentsCountedOf(p)'
    BY <1>2, <2>2, CommentsAside DEF At, LikePcs
  <2>6. PICK old \in likes : old.id = job[h].row  BY <1>4
  <2>7. row = {old}  BY <1>1, <2>6 DEF LikeIdsInv
  <2>8. old.post = q /\ likes' = likes \ {old}  BY <1>1, <1>2, <2>6, <2>7 DEF LikeIdsInv
  <2>9. LikeIdsInv'
    <3>1. IsFiniteSet(likes')  BY <1>1, <2>8, FS_Subset DEF LikeIdsInv
    <3>2. \A g \in Handlers : At(g, "unlike")' => At(g, "unlike") /\ job'[g] = job[g]
      BY <2>2, <2>3 DEF At
    <3> QED  BY <1>1, <1>2, <2>8, <3>1, <3>2 DEF LikeIdsInv
  <2>10. ASSUME NEW p \in Ids PROVE LikesCountedOf(p)'
    <3>1. Owing("countLike", p)' = Owing("countLike", p)
      <4>1. ~At(h, "countLike") /\ ~At(h, "countLike")'  BY <1>2, <2>2, <2>3 DEF At
      <4> QED  BY <2>3, <4>1, OwingKept
    <3>2. ~At(h, "uncountLike") /\ At(h, "uncountLike")' /\ job'[h].post = q
      BY <1>2, <2>2, <2>3 DEF At
    <3>3. CASE p = q
      <4>1. Cardinality(Owing("uncountLike", p)') = Cardinality(Owing("uncountLike", p)) + 1
        BY <2>3, <3>2, <3>3, OwingGained
      <4>2. LikesOf(p)' = LikesOf(p) \ {old} /\ old \in LikesOf(p)
        BY <2>6, <2>8, <3>3 DEF LikesOf
      <4>3. Cardinality(LikesOf(p)') = Cardinality(LikesOf(p)) - 1
        BY <1>1, <4>2, LikesOfFinite, FS_RemoveElement
      <4>4. likeCount[p] \in Int  BY <1>1 DEF TypeOK
      <4>5. /\ Cardinality(LikesOf(p)) \in Nat
            /\ Cardinality(Owing("countLike", p)) \in Nat
            /\ Cardinality(Owing("uncountLike", p)) \in Nat
        BY <1>1, LikesOfFinite, OwingFinite
      <4> QED  BY <1>1, <1>2, <3>1, <4>1, <4>3, <4>4, <4>5 DEF LikesCountedOf
    <3>4. CASE p # q
      <4>1. Owing("uncountLike", p)' = Owing("uncountLike", p)  BY <2>3, <3>2, <3>4, OwingKept
      <4>2. LikesOf(p)' = LikesOf(p)  BY <2>8, <3>4 DEF LikesOf
      <4> QED  BY <1>1, <1>2, <3>1, <4>1, <4>2 DEF LikesCountedOf
    <3> QED  BY <3>3, <3>4
  <2> QED  BY <2>4, <2>5, <2>9, <2>10, FromParts
<1> QED  BY <1>3, <1>4

LEMMA CountLikeStep ==
  ASSUME CountersInv, NEW h \in Handlers, CountLike(h)
  PROVE  CountersInv'
<1> SUFFICES ASSUME NEW q, q = job[h].post PROVE CountersInv'  OBVIOUS
<1>1. TypeOK /\ LikeIdsInv /\ \A p \in Ids : LikesCountedOf(p)  BY InParts
<1>2. /\ At(h, "countLike") \/ At(h, "uncountLike")
      /\ job[h] # None /\ job' = [job EXCEPT ![h] = None]
      /\ UNCHANGED <<post, likes, liked, commentVars, drifted>>
  BY DEF CountLike, At, Done
<1>3. q \in Ids  BY <1>1, <1>2, JobFields
<1>4. /\ job' \in [Handlers -> Job \cup {None}]
      /\ job'[h] = None /\ \A g \in Handlers : g # h => job'[g] = job[g]
  BY <1>1, <1>2 DEF TypeOK
<1>5. \A k : ~At(h, k)'  BY <1>4 DEF At
<1>6. RemovingInv' /\ \A p \in Ids : CommentsCountedOf(p)'
  BY <1>2, CommentsAside DEF At, LikePcs
<1>7. LikeIdsInv'
  <2>1. \A g \in Handlers : At(g, "unlike")' => At(g, "unlike") /\ job'[g] = job[g]
    BY <1>2, <1>4 DEF At
  <2> QED  BY <1>1, <1>2, <2>1 DEF LikeIdsInv
<1>8. ASSUME NEW k \in {"countLike", "uncountLike"}, NEW p \in Ids,
             ~At(h, k) \/ p # q
      PROVE  Cardinality(Owing(k, p)') = Cardinality(Owing(k, p))
  BY <1>4, <1>5, <1>8, OwingKept
<1>9. (\A p : LikesOf(p)' = LikesOf(p)) /\ \A p \in Ids : /\ likeCount[p] \in Int
                              /\ Cardinality(Owing("countLike", p)) \in Nat
                              /\ Cardinality(Owing("uncountLike", p)) \in Nat
                              /\ Cardinality(LikesOf(p)) \in Nat
  BY <1>1, <1>2, OwingFinite, LikesOfFinite DEF LikesOf, TypeOK
<1>10. CASE At(h, "countLike") /\ likeCount' = [likeCount EXCEPT ![q] = @ + 1]
  <2>1. TypeOK'  BY <1>1, <1>2, <1>3, <1>4, <1>9, <1>10 DEF TypeOK, commentVars
  <2>2. \A p \in Ids : Cardinality(Owing("uncountLike", p)') = Cardinality(Owing("uncountLike", p))
    BY <1>8, <1>10 DEF At
  <2>3. Cardinality(Owing("countLike", q)') = Cardinality(Owing("countLike", q)) - 1
    BY <1>4, <1>5, <1>10, OwingLost
  <2>4. likeCount'[q] = likeCount[q] + 1 /\ \A p \in Ids : p # q => likeCount'[p] = likeCount[p]
    BY <1>1, <1>3, <1>10 DEF TypeOK
  <2>5. LikesCountedOf(q)'  BY <1>1, <1>2, <1>3, <1>9, <2>2, <2>3, <2>4 DEF LikesCountedOf
  <2>6. ASSUME NEW p \in Ids, p # q PROVE LikesCountedOf(p)'
    BY <1>1, <1>2, <1>8, <1>9, <2>2, <2>4, <2>6 DEF LikesCountedOf
  <2> QED  BY <1>6, <1>7, <2>1, <2>5, <2>6, FromParts
<1>11. CASE At(h, "uncountLike") /\ likeCount' = [likeCount EXCEPT ![q] = @ - 1]
  <2>1. TypeOK'  BY <1>1, <1>2, <1>3, <1>4, <1>9, <1>11 DEF TypeOK, commentVars
  <2>2. \A p \in Ids : Cardinality(Owing("countLike", p)') = Cardinality(Owing("countLike", p))
    BY <1>8, <1>11 DEF At
  <2>3. Cardinality(Owing("uncountLike", q)') = Cardinality(Owing("uncountLike", q)) - 1
    BY <1>4, <1>5, <1>11, OwingLost
  <2>4. likeCount'[q] = likeCount[q] - 1 /\ \A p \in Ids : p # q => likeCount'[p] = likeCount[p]
    BY <1>1, <1>3, <1>11 DEF TypeOK
  <2>5. LikesCountedOf(q)'  BY <1>1, <1>2, <1>3, <1>9, <2>2, <2>3, <2>4 DEF LikesCountedOf
  <2>6. ASSUME NEW p \in Ids, p # q PROVE LikesCountedOf(p)'
    BY <1>1, <1>2, <1>8, <1>9, <2>2, <2>4, <2>6 DEF LikesCountedOf
  <2> QED  BY <1>6, <1>7, <2>1, <2>5, <2>6, FromParts
<1> QED  BY <1>10, <1>11 DEF CountLike

-----------------------------------------------------------------------------
LEMMA CountCommentStep ==
  ASSUME CountersInv, NEW h \in Handlers, CountComment(h)
  PROVE  CountersInv'
<1> SUFFICES ASSUME NEW q, q = job[h].post PROVE CountersInv'  OBVIOUS
<1>1. TypeOK /\ RemovingInv /\ \A p \in Ids : CommentsCountedOf(p)  BY InParts
<1>2. /\ At(h, "countComment") \/ At(h, "uncountComment")
      /\ job[h] # None /\ job' = [job EXCEPT ![h] = None]
      /\ UNCHANGED <<post, likeVars, comment, commented, drifted>>
  BY DEF CountComment, At, Done
<1>3. q \in Ids  BY <1>1, <1>2, JobFields
<1>4. /\ job' \in [Handlers -> Job \cup {None}]
      /\ job'[h] = None /\ \A g \in Handlers : g # h => job'[g] = job[g]
  BY <1>1, <1>2 DEF TypeOK
<1>5. \A k : ~At(h, k)'  BY <1>4 DEF At
<1>6. LikeIdsInv' /\ \A p \in Ids : LikesCountedOf(p)'
  BY <1>2, LikesAside DEF At, CommentPcs
<1>7. RemovingInv'
  <2> SUFFICES ASSUME NEW g \in Handlers, NEW c, Removing(g, c)'
               PROVE  MayRemove(g, c)'
    BY RemovingFromParts
  <2>1. \A f \in Handlers : Removing(f, c)' => Removing(f, c) /\ job'[f] = job[f]
    BY <1>2, <1>4 DEF At, Removing
  <2>2. MayRemove(g, c)  BY <1>1, <2>1, RemovingParts
  <2> QED  BY <1>2, <2>1, <2>2 DEF MayRemove
<1>8. ASSUME NEW k \in {"countComment", "uncountComment"}, NEW p \in Ids,
             ~At(h, k) \/ p # q
      PROVE  Cardinality(Owing(k, p)') = Cardinality(Owing(k, p))
  BY <1>4, <1>5, <1>8, OwingKept
<1>9. (\A p : CommentsOf(p)' = CommentsOf(p)) /\ \A p \in Ids : /\ commentCount[p] \in Int
                              /\ Cardinality(Owing("countComment", p)) \in Nat
                              /\ Cardinality(Owing("uncountComment", p)) \in Nat
                              /\ Cardinality(CommentsOf(p)) \in Nat
  BY <1>1, <1>2, OwingFinite, CommentsOfFinite DEF CommentsOf, TypeOK
<1>10. CASE At(h, "countComment") /\ commentCount' = [commentCount EXCEPT ![q] = @ + 1]
  <2>1. TypeOK'  BY <1>1, <1>2, <1>3, <1>4, <1>9, <1>10 DEF TypeOK, likeVars
  <2>2. \A p \in Ids : Cardinality(Owing("uncountComment", p)') = Cardinality(Owing("uncountComment", p))
    BY <1>8, <1>10 DEF At
  <2>3. Cardinality(Owing("countComment", q)') = Cardinality(Owing("countComment", q)) - 1
    BY <1>4, <1>5, <1>10, OwingLost
  <2>4. commentCount'[q] = commentCount[q] + 1 /\ \A p \in Ids : p # q => commentCount'[p] = commentCount[p]
    BY <1>1, <1>3, <1>10 DEF TypeOK
  <2>5. CommentsCountedOf(q)'  BY <1>1, <1>2, <1>3, <1>9, <2>2, <2>3, <2>4 DEF CommentsCountedOf
  <2>6. ASSUME NEW p \in Ids, p # q PROVE CommentsCountedOf(p)'
    BY <1>1, <1>2, <1>8, <1>9, <2>2, <2>4, <2>6 DEF CommentsCountedOf
  <2> QED  BY <1>6, <1>7, <2>1, <2>5, <2>6, FromParts
<1>11. CASE At(h, "uncountComment") /\ commentCount' = [commentCount EXCEPT ![q] = @ - 1]
  <2>1. TypeOK'  BY <1>1, <1>2, <1>3, <1>4, <1>9, <1>11 DEF TypeOK, likeVars
  <2>2. \A p \in Ids : Cardinality(Owing("countComment", p)') = Cardinality(Owing("countComment", p))
    BY <1>8, <1>11 DEF At
  <2>3. Cardinality(Owing("uncountComment", q)') = Cardinality(Owing("uncountComment", q)) - 1
    BY <1>4, <1>5, <1>11, OwingLost
  <2>4. commentCount'[q] = commentCount[q] - 1 /\ \A p \in Ids : p # q => commentCount'[p] = commentCount[p]
    BY <1>1, <1>3, <1>11 DEF TypeOK
  <2>5. CommentsCountedOf(q)'  BY <1>1, <1>2, <1>3, <1>9, <2>2, <2>3, <2>4 DEF CommentsCountedOf
  <2>6. ASSUME NEW p \in Ids, p # q PROVE CommentsCountedOf(p)'
    BY <1>1, <1>2, <1>8, <1>9, <2>2, <2>4, <2>6 DEF CommentsCountedOf
  <2> QED  BY <1>6, <1>7, <2>1, <2>5, <2>6, FromParts
<1> QED  BY <1>10, <1>11 DEF CountComment

LEMMA CreateCommentStep ==
  ASSUME CountersInv, NEW h \in Handlers, CreateComment(h)
  PROVE  CountersInv'
<1> SUFFICES ASSUME NEW q, q = job[h].post PROVE CountersInv'  OBVIOUS
<1> DEFINE n == commented + 1
           new == [post |-> q, user |-> job[h].user, deleted |-> FALSE]
<1>1. TypeOK /\ RemovingInv /\ \A p \in Ids : CommentsCountedOf(p)  BY InParts
<1>2. /\ At(h, "comment") /\ job[h] # None /\ Goto(h, "countComment") /\ commented' = n
      /\ comment' = [c \in 1 .. n |-> IF c = n THEN new ELSE comment[c]]
      /\ UNCHANGED <<post, likeVars, commentCount, drifted>>
  BY DEF CreateComment, At
<1>3. q \in Ids /\ job[h].user \in Users /\ commented \in Nat /\ n \in Nat
  BY <1>1, <1>2, JobFields DEF TypeOK
<1>4. PICK x \in Job : /\ x # None /\ x.pc = "countComment" /\ x.post = q
                       /\ job' = [job EXCEPT ![h] = x]
  BY <1>1, <1>2, GotoJob DEF Pcs
<1>5. /\ job' \in [Handlers -> Job \cup {None}]
      /\ job'[h] = x /\ \A g \in Handlers : g # h => job'[g] = job[g]
  BY <1>1, <1>4 DEF TypeOK
<1>6. LikeIdsInv' /\ \A p \in Ids : LikesCountedOf(p)'
  BY <1>2, <1>4, LikesAside DEF At, CommentPcs
<1>7. /\ comment'[n] = new /\ n \notin 1 .. commented
      /\ \A c \in 1 .. commented : c \in 1 .. n /\ comment'[c] = comment[c]
      /\ \A c \in 1 .. n : c = n \/ c \in 1 .. commented
  BY <1>2, <1>3
<1>8. TypeOK'
  <2>1. new \in CommentRow  BY <1>3 DEF CommentRow
  <2>2. \A c \in 1 .. commented : comment[c] \in CommentRow  BY <1>1 DEF TypeOK
  <2>3. comment' \in [1 .. commented' -> CommentRow]  BY <1>2, <1>7, <2>1, <2>2
  <2> QED  BY <1>1, <1>2, <1>3, <1>5, <2>3 DEF TypeOK, likeVars
<1>9. RemovingInv'
  <2> SUFFICES ASSUME NEW g \in Handlers, NEW c, Removing(g, c)'
               PROVE  MayRemove(g, c)'
    BY RemovingFromParts
  <2>1. \A f \in Handlers : Removing(f, c)' => Removing(f, c) /\ job'[f] = job[f]
    BY <1>4, <1>5 DEF At, Removing
  <2>2. MayRemove(g, c)  BY <1>1, <2>1, RemovingParts
  <2>3. c \in 1 .. commented' /\ comment'[c] = comment[c]  BY <1>2, <1>7, <2>2 DEF MayRemove
  <2> QED  BY <1>2, <2>1, <2>2, <2>3 DEF MayRemove
<1>10. ASSUME NEW p \in Ids PROVE CommentsCountedOf(p)'
  <2>1. Owing("uncountComment", p)' = Owing("uncountComment", p)
    <3>1. ~At(h, "uncountComment") /\ ~At(h, "uncountComment")'  BY <1>2, <1>4, <1>5 DEF At
    <3> QED  BY <1>5, <3>1, OwingKept
  <2>2. ~At(h, "countComment") /\ At(h, "countComment")' /\ job'[h].post = q
    BY <1>2, <1>4, <1>5 DEF At
  <2>3. CASE p = q
    <3>1. Cardinality(Owing("countComment", p)') = Cardinality(Owing("countComment", p)) + 1
      BY <1>5, <2>2, <2>3, OwingGained
    <3>2. CommentsOf(p)' = CommentsOf(p) \cup {n} /\ n \notin CommentsOf(p)
      BY <1>2, <1>3, <1>7, <2>3 DEF CommentsOf
    <3>3. Cardinality(CommentsOf(p)') = Cardinality(CommentsOf(p)) + 1
      BY <1>1, <3>2, CommentsOfFinite, FS_AddElement
    <3>4. commentCount[p] \in Int  BY <1>1 DEF TypeOK
    <3>5. /\ Cardinality(CommentsOf(p)) \in Nat
          /\ Cardinality(Owing("countComment", p)) \in Nat
          /\ Cardinality(Owing("uncountComment", p)) \in Nat
      BY <1>1, CommentsOfFinite, OwingFinite
    <3>6. CommentsCountedOf(p) /\ commentCount' = commentCount /\ drifted' = drifted
      BY <1>1, <1>2
    <3> QED  BY <2>1, <3>1, <3>3, <3>4, <3>5, <3>6 DEF CommentsCountedOf
  <2>4. CASE p # q
    <3>1. Owing("countComment", p)' = Owing("countComment", p)  BY <1>5, <2>2, <2>4, OwingKept
    <3>2. CommentsOf(p)' = CommentsOf(p)  BY <1>2, <1>3, <1>7, <2>4 DEF CommentsOf
    <3> QED  BY <1>1, <1>2, <2>1, <3>1, <3>2 DEF CommentsCountedOf
  <2> QED  BY <2>3, <2>4
<1> QED  BY <1>6, <1>8, <1>9, <1>10, FromParts

\* Reading a comment that another handler is deleting marks its post as drifted.
LEMMA DeleteCommentStep ==
  ASSUME CountersInv, NEW h \in Handlers, NEW u \in Users, NEW c \in 1 .. commented,
         DeleteComment(h, u, c)
  PROVE  CountersInv'
<1> SUFFICES ASSUME NEW q, q = comment[c].post PROVE CountersInv'  OBVIOUS
<1>1. TypeOK /\ RemovingInv  BY InParts
<1>2. /\ ~comment[c].deleted /\ Start(h, "remove", q, u, c)
      /\ UNCHANGED <<post, likeVars, commentVars>> /\ drifted \subseteq drifted'
      /\ (\E g \in Handlers : Removing(g, c)) => <<"comments", q>> \in drifted'
  BY DEF DeleteComment, Deletable
<1>3. q \in Ids /\ c \in Nat  BY <1>1 DEF TypeOK, CommentRow
<1>4. PICK x \in Job : /\ x # None /\ x.pc = "remove" /\ x.post = q /\ x.row = c
                       /\ job[h] = None /\ job' = [job EXCEPT ![h] = x]
  BY <1>2, <1>3, StartJob DEF Pcs
<1>5. /\ job' \in [Handlers -> Job \cup {None}]
      /\ job'[h] = x /\ \A g \in Handlers : g # h => job'[g] = job[g]
  BY <1>1, <1>4 DEF TypeOK
<1>6. TypeOK'
  <2>1. drifted' \subseteq {"likes", "comments"} \X Ids
    BY <1>1, <1>3 DEF DeleteComment, TypeOK
  <2> QED  BY <1>1, <1>2, <1>5, <2>1 DEF TypeOK, likeVars, commentVars
<1>7. ASSUME NEW p \in Ids,
             NEW k \in {"countLike", "uncountLike", "countComment", "uncountComment"}
      PROVE  Owing(k, p)' = Owing(k, p)
  <2>1. ~At(h, k) /\ ~At(h, k)'  BY <1>4, <1>5 DEF At
  <2> QED  BY <1>5, <2>1, OwingKept
<1>8. LikeIdsInv' /\ \A p \in Ids : LikesCountedOf(p)'
  <2>1. \A g \in Handlers : At(g, "unlike")' => At(g, "unlike") /\ job'[g] = job[g]
    BY <1>4, <1>5 DEF At
  <2> QED  BY <1>2, <1>7, <2>1, LikesUntouched
<1>9. RemovingInv'
  <2> SUFFICES ASSUME NEW g \in Handlers, NEW d, Removing(g, d)'
               PROVE  MayRemove(g, d)'
    BY RemovingFromParts
  <2>1. comment' = comment /\ commented' = commented  BY <1>2 DEF commentVars
  <2>2. \A f \in Handlers : f # h /\ Removing(f, d)' => Removing(f, d) /\ job'[f] = job[f]
    BY <1>5 DEF Removing, At
  <2>3. Removing(h, d)' => d = c  BY <1>4, <1>5 DEF Removing
  <2>4. CASE g = h
    <3>1. d = c /\ job'[g].post = q  BY <1>4, <1>5, <2>3, <2>4
    <3>2. <<"comments", q>> \notin drifted' => \A f \in Handlers : Removing(f, c)' => f = h
      BY <1>2, <2>2, <3>1
    <3> QED  BY <1>2, <2>1, <2>4, <3>1, <3>2 DEF MayRemove
  <2>5. CASE g # h
    <3>1. Removing(g, d) /\ job'[g] = job[g]  BY <2>2, <2>5
    <3>2. MayRemove(g, d)  BY <1>1, <3>1, RemovingParts
    <3>3. <<"comments", job'[g].post>> \notin drifted' =>
            \A f \in Handlers : Removing(f, d)' => f = g
      BY <1>2, <2>2, <2>3, <3>1, <3>2 DEF MayRemove
    <3> QED  BY <1>2, <2>1, <3>1, <3>2, <3>3 DEF MayRemove
  <2> QED  BY <2>4, <2>5
<1>10. ASSUME NEW p \in Ids PROVE CommentsCountedOf(p)'
  <2>1. CommentsOf(p)' = CommentsOf(p) /\ commentCount' = commentCount
    BY <1>2 DEF CommentsOf, commentVars
  <2>2. CommentsCountedOf(p)  BY InParts
  <2> QED  BY <1>2, <1>7, <2>1, <2>2 DEF CommentsCountedOf
<1> QED  BY <1>6, <1>8, <1>9, <1>10, FromParts

LEMMA RemoveCommentStep ==
  ASSUME CountersInv, NEW h \in Handlers, RemoveComment(h)
  PROVE  CountersInv'
<1> SUFFICES ASSUME NEW q, q = job[h].post, NEW c, c = job[h].row PROVE CountersInv'  OBVIOUS
<1>1. TypeOK /\ RemovingInv /\ \A p \in Ids : CommentsCountedOf(p)  BY InParts
<1>2. /\ At(h, "remove") /\ job[h] # None /\ Goto(h, "uncountComment")
      /\ comment' = [comment EXCEPT ![c].deleted = TRUE]
      /\ UNCHANGED <<post, likeVars, commented, commentCount, drifted>>
  BY DEF RemoveComment, At
<1>3. Removing(h, c) /\ MayRemove(h, c)  BY <1>1, <1>2, RemovingParts DEF Removing
<1>4. c \in 1 .. commented /\ comment[c].post = q /\ q \in Ids
  BY <1>1, <1>2, <1>3, JobFields DEF MayRemove
<1>5. PICK x \in Job : /\ x # None /\ x.pc = "uncountComment" /\ x.post = q
                       /\ job' = [job EXCEPT ![h] = x]
  BY <1>1, <1>2, GotoJob DEF Pcs
<1>6. /\ job' \in [Handlers -> Job \cup {None}]
      /\ job'[h] = x /\ \A g \in Handlers : g # h => job'[g] = job[g]
  BY <1>1, <1>5 DEF TypeOK
<1>7. LikeIdsInv' /\ \A p \in Ids : LikesCountedOf(p)'
  BY <1>2, <1>5, LikesAside DEF At, CommentPcs
<1>8. /\ comment' \in [1 .. commented -> CommentRow]
      /\ comment'[c].deleted /\ comment'[c].post = q
      /\ \A d \in 1 .. commented : d # c => comment'[d] = comment[d]
  BY <1>1, <1>2, <1>4 DEF TypeOK, CommentRow
<1>9. TypeOK'  BY <1>1, <1>2, <1>6, <1>8 DEF TypeOK, likeVars
<1>10. RemovingInv'
  <2> SUFFICES ASSUME NEW g \in Handlers, NEW d, Removing(g, d)'
               PROVE  MayRemove(g, d)'
    BY RemovingFromParts
  <2>1. \A f \in Handlers : Removing(f, d)' => f # h /\ Removing(f, d) /\ job'[f] = job[f]
    BY <1>5, <1>6 DEF At, Removing
  <2>2. MayRemove(g, d)  BY <1>1, <2>1, RemovingParts
  <2>3. d \in 1 .. commented' /\ comment'[d].post = comment[d].post
    BY <1>2, <1>4, <1>8, <2>2 DEF MayRemove
  <2>4. d = c => <<"comments", job[g].post>> \in drifted
    BY <1>3, <2>1, <2>2 DEF MayRemove
  <2> QED  BY <1>2, <1>8, <2>1, <2>2, <2>3, <2>4 DEF MayRemove
<1>11. ASSUME NEW p \in Ids PROVE CommentsCountedOf(p)'
  <2>1. Owing("countComment", p)' = Owing("countComment", p)
    <3>1. ~At(h, "countComment") /\ ~At(h, "countComment")'  BY <1>2, <1>5, <1>6 DEF At
    <3> QED  BY <1>6, <3>1, OwingKept
  <2>2. ~At(h, "uncountComment") /\ At(h, "uncountComment")' /\ job'[h].post = q
    BY <1>2, <1>5, <1>6 DEF At
  <2>3. CASE p = q /\ <<"comments", p>> \notin drifted
    <3>1. Cardinality(Owing("uncountComment", p)') = Cardinality(Owing("uncountComment", p)) + 1
      BY <1>6, <2>2, <2>3, OwingGained
    <3>2. c \in CommentsOf(p)  BY <1>3, <1>4, <2>3 DEF MayRemove, CommentsOf
    <3>3. CommentsOf(p)' = CommentsOf(p) \ {c}  BY <1>2, <1>8 DEF CommentsOf
    <3>4. Cardinality(CommentsOf(p)') = Cardinality(CommentsOf(p)) - 1
      <4>1. IsFiniteSet(CommentsOf(p))  BY <1>1, CommentsOfFinite
      <4>2. Cardinality(CommentsOf(p) \ {c}) = Cardinality(CommentsOf(p)) - 1
        BY <3>2, <4>1, FS_RemoveElement
      <4> QED  BY <3>3, <4>2
    <3>5. commentCount[p] \in Int  BY <1>1 DEF TypeOK
    <3>6. /\ Cardinality(CommentsOf(p)) \in Nat
          /\ Cardinality(Owing("countComment", p)) \in Nat
          /\ Cardinality(Owing("uncountComment", p)) \in Nat
      BY <1>1, CommentsOfFinite, OwingFinite
    <3> QED  BY <1>1, <1>2, <2>1, <3>1, <3>4, <3>5, <3>6 DEF CommentsCountedOf
  <2>4. CASE p # q
    <3>1. Owing("uncountComment", p)' = Owing("uncountComment", p)  BY <1>6, <2>2, <2>4, OwingKept
    <3>2. CommentsOf(p)' = CommentsOf(p)  BY <1>2, <1>4, <1>8, <2>4 DEF CommentsOf
    <3> QED  BY <1>1, <1>2, <2>1, <3>1, <3>2 DEF CommentsCountedOf
  <2>5. CASE <<"comments", p>> \in drifted  BY <1>2, <2>5 DEF CommentsCountedOf
  <2> QED  BY <2>3, <2>4, <2>5
<1> QED  BY <1>7, <1>9, <1>10, <1>11, FromParts

-----------------------------------------------------------------------------
\* A handler cut short leaves its counter owing, which is marked.
LEMMA CutShortStep ==
  ASSUME CountersInv, NEW h \in Handlers, CutShort(h)
  PROVE  CountersInv'
<1>1. TypeOK  BY InParts
<1>2. /\ job[h] # None /\ drifted' = drifted \cup Owes(h) /\ job' = [job EXCEPT ![h] = None]
      /\ UNCHANGED <<post, likeVars, commentVars>>
  BY DEF CutShort, Done
<1>3. /\ job' \in [Handlers -> Job \cup {None}]
      /\ job'[h] = None /\ \A g \in Handlers : g # h => job'[g] = job[g]
  BY <1>1, <1>2 DEF TypeOK
<1>4. job[h].post \in Ids  BY <1>1, <1>2, JobFields
<1>5. TypeOK'
  <2>1. Owes(h) \subseteq {"likes", "comments"} \X Ids  BY <1>4 DEF Owes
  <2> QED  BY <1>1, <1>2, <1>3, <2>1 DEF TypeOK, likeVars, commentVars
<1>6. \A k : ~At(h, k)'  BY <1>3 DEF At
<1>7. ASSUME NEW p \in Ids, NEW k \in {"countLike", "uncountLike"},
             <<"likes", p>> \notin drifted'
      PROVE  Owing(k, p)' = Owing(k, p)
  <2>1. ~(At(h, k) /\ job[h].post = p)  BY <1>2, <1>7 DEF Owes
  <2> QED  BY <1>3, <1>6, <2>1, OwingKept
<1>8. ASSUME NEW p \in Ids, NEW k \in {"countComment", "uncountComment"},
             <<"comments", p>> \notin drifted'
      PROVE  Owing(k, p)' = Owing(k, p)
  <2>1. ~(At(h, k) /\ job[h].post = p)  BY <1>2, <1>8 DEF Owes, At
  <2> QED  BY <1>3, <1>6, <2>1, OwingKept
<1>9. \A g \in Handlers : \A k : At(g, k)' => At(g, k) /\ job'[g] = job[g]
  BY <1>3 DEF At
<1>10. LikeIdsInv' /\ \A p \in Ids : LikesCountedOf(p)'
  BY <1>2, <1>7, <1>9, LikesUntouched
<1>11. RemovingInv' /\ \A p \in Ids : CommentsCountedOf(p)'
  BY <1>2, <1>8, <1>9, CommentsUntouched
<1> QED  BY <1>5, <1>10, <1>11, FromParts

LEMMA NextInv == CountersInv /\ [Next]_vars => CountersInv'
<1> SUFFICES ASSUME CountersInv, [Next]_vars PROVE CountersInv'  OBVIOUS
<1>1. ASSUME NEW p \in Ids, Publish(p) \/ Delete(p) PROVE CountersInv'
  BY <1>1, PublishStep
<1>2. ASSUME NEW h \in Handlers, NEW u \in Users, NEW p \in Ids, ToggleLike(h, u, p)
      PROVE  CountersInv'
  BY <1>2, ToggleLikeStep
<1>3. ASSUME NEW h \in Handlers, NEW u \in Users, NEW p \in Ids, AddComment(h, u, p)
      PROVE  CountersInv'
  BY <1>3, AddCommentStep
<1>4. ASSUME NEW h \in Handlers, NEW u \in Users, NEW c \in 1 .. commented, DeleteComment(h, u, c)
      PROVE  CountersInv'
  BY <1>4, DeleteCommentStep
<1>5. ASSUME NEW h \in Handlers, Like(h) \/ Unlike(h) \/ CountLike(h) PROVE CountersInv'
  BY <1>5, LikeStep, UnlikeStep, CountLikeStep
<1>6. ASSUME NEW h \in Handlers, CreateComment(h) \/ RemoveComment(h) \/ CountComment(h)
      PROVE  CountersInv'
  BY <1>6, CreateCommentStep, RemoveCommentStep, CountCommentStep
<1>7. ASSUME NEW h \in Handlers, CutShort(h) PROVE CountersInv'
  BY <1>7, CutShortStep
<1>8. CASE UNCHANGED vars
  <2>1. post' \in [Ids -> {"none", "live", "deleted"}]  BY <1>8, InParts DEF TypeOK, vars
  <2> QED  BY <1>8, <2>1, PostStep DEF vars
<1> QED  BY <1>1, <1>2, <1>3, <1>4, <1>5, <1>6, <1>7, <1>8 DEF Next

LEMMA Invariance == Spec => []CountersInv
BY InitInv, NextInv, PTL DEF Spec

\* Posts, likes, comments and counters keep their types, whatever overlaps or
\* fails, and every handler works on rows that have existed (posts.service.ts
\* 155-219).
THEOREM TypeCorrect == Spec => []TypeOK
<1>1. CountersInv => TypeOK  BY InParts
<1> QED  BY Invariance, <1>1, PTL

\* For any number of users, posts and overlapping toggles, likeCount is the like
\* rows up to what handlers are about to count, unless one was cut short
\* (158-180).
THEOREM LikesAreCounted == Spec => []LikesCounted
<1>1. CountersInv => LikesCounted  BY DEF CountersInv
<1> QED  BY Invariance, <1>1, PTL

\* The same of commentCount, unless two handlers deleted one comment (185-219).
THEOREM CommentsAreCounted == Spec => []CommentsCounted
<1>1. CountersInv => CommentsCounted  BY DEF CountersInv
<1> QED  BY Invariance, <1>1, PTL
=============================================================================
