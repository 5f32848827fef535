\* Two members and an outsider, two calls at once, one of them perhaps a socket's.
CONSTANTS
  Users = {u1, u2, u3}
  Pairs = {{u1, u2}}
  Handlers = {h1, h2}
  Callers = {s1}
  MaxMessages = 2
  MayFail = TRUE
  None = None
SPECIFICATION ChatSpec
INVARIANTS SummaryFresh ReadByRecipient MissedOnlyWhenRaced
SYMMETRY Swaps
