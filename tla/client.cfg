\* One user of one device: two calls of the client, a server that runs
\* one request at a time (its own interleavings are the run of Sessions), three tokens.
CONSTANTS
  Users = {u1}
  Devices = {d1}
  User = u1
  Device = d1
  Tokens = {t1, t2, t3}
  Handlers = {h1}
  Calls = {c1, c2}
  MayFail = TRUE
  None = None
SPECIFICATION ClientSpec
INVARIANTS SignedOutStays StoredIsCurrent
PROPERTY SignedOutForCause
SYMMETRY Swaps
