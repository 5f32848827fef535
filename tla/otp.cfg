\* Two people, two requests at once, two codes of one guess each.
CONSTANTS
  Targets = {e1, e2}
  Phones = {p1, p2}
  Purposes <- Register
  Handlers = {h1, h2}
  MaxAttempts = 1
  MaxCodes = 2
  MayFail = TRUE
  None = None
SPECIFICATION Spec
INVARIANTS AttemptsBounded AccountProven CodeOpensOne OneRecent
SYMMETRY Swaps
