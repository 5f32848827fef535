\* One user with two devices, two requests at once, three tokens in all.
CONSTANTS
  Users = {u1}
  Devices = {d1, d2}
  Tokens = {t1, t2, t3}
  Handlers = {h1, h2}
  MayFail = TRUE
  None = None
SPECIFICATION Spec
\* Once every account is deleted nothing more happens.
CHECK_DEADLOCK FALSE
INVARIANTS TypeOK OneLivePerSession EndedForGood SessionBound
SYMMETRY Swaps
