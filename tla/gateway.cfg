\* Two members and an outsider, one socket, two handlers at once.
CONSTANTS
  Users = {u1, u2, u3}
  Pairs = {{u1, u2}}
  Handlers = {h1, h2}
  Callers = {s1}
  MaxMessages = 1
  MayFail = TRUE
  None = None
SPECIFICATION Spec
\* Everything sent, read and deleted and the sockets closed leaves nothing to do.
CHECK_DEADLOCK FALSE
INVARIANTS RoomsAsAsked ReceiptsExact
PROPERTY StoredIsTold
