\* Two people, one relation kind, two requests at once. No subtypes, which no
\* property reads. No symmetry: the run checks liveness too.
CONSTANTS
  Users = {u1, u2}
  Handlers = {h1, h2}
  Kinds <- FriendOnly
  Subtypes <- NoSubtype
  None = None
  MayFail = TRUE
SPECIFICATION Spec
INVARIANTS TypeOK ConsentInv AnswersBounded SoloInv BothActed MutualUnlessDisturbed
PROPERTIES OneWayHeals KeepsPromise
