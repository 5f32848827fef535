\* Two requests at once, nothing fails.
CONSTANTS
  Users = {u1, u2}
  Handlers = {h1, h2}
  Kinds <- FriendOnly
  Subtypes <- NoSubtype
  None = None
  MayFail = FALSE
SPECIFICATION Spec
INVARIANT MutualWhenIdle
