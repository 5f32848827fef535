----------------------------- MODULE MC_Relations -----------------------------
(* Instances of Relations for TLC. *)
EXTENDS Relations

FriendOnly == {"friend"}
NoSubtype  == {}

\* The instance leaves subtypes out, so the tables are tried here: turning a
\* subtype round twice gives it back, whichever side is mirrored first.
ASSUME MirrorTwice ==
  \A kind \in AllKinds : \A s \in DOMAIN MirrorTable(kind) \cup {None} :
    MirrorSubtype(kind, MirrorSubtype(kind, s)) = s
=============================================================================
