\* Four people, two kinds of relations, one row changed during a search.
CONSTANTS
  Users = {u1, u2, u3, u4}
  Kinds = {friend, family}
  Friend = friend
  MaxDepth = 2
  MaxPathDepth = 3
  DefaultPathDepth = 2
  Asked = {0, 3}
  MaxChanges = 1
  None = None
SPECIFICATION Spec
\* A search answered and the changes used up leave nothing to do.
CHECK_DEADLOCK FALSE
INVARIANTS LayersAreDistances PathIsShortest PathHeld LayersSound
SYMMETRY Swaps
