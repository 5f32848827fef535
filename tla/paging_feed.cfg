\* Three rows, pages of one or two in any mixture, for each list.
CONSTANTS
  me = me
  ann = ann
  bob = bob
  Lists = {"all", "friends", "extended", "self", "messages"}
  People = {me, ann, bob}
  Reader = me
  Ties <- Triangle
  Contents <- Posts
  Limits <- OneOrTwo
  MaxId = 3
  None = None
SPECIFICATION Spec
INVARIANTS Complete LostAtBoundaries NeverTwice
PROPERTY Ends
