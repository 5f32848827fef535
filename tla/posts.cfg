\* Two people and one post, two requests at once.
CONSTANTS
  Users = {u1, u2}
  Ids = {p1}
  Handlers = {h1, h2}
  MaxLikes = 3
  MaxComments = 2
  MayFail = TRUE
  None = None
SPECIFICATION Spec
\* A deleted post without comments leaves nothing to do.
CHECK_DEADLOCK FALSE
INVARIANTS LikesCounted CommentsCounted
SYMMETRY Swaps
