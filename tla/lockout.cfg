\* A password and a PIN, three logins at once, three tries.
CONSTANTS
  Passwords = {pw}
  Pins = {pin}
  Handlers = {h1, h2, h3}
  MaxTries = 3
  MayFail = TRUE
  None = None
SPECIFICATION Spec
\* Once every user is deleted nothing more happens.
CHECK_DEADLOCK FALSE
INVARIANTS GuessesBounded CountsUnlessRaced
SYMMETRY Swaps
