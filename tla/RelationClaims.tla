---------------------------- MODULE RelationClaims ----------------------------
(***************************************************************************)
(* What comments and error messages of the repository say of the relation  *)
(* table, stated as they are written. Relations.tla does not satisfy them: *)
(* the run of this module shows how.                                       *)
(***************************************************************************)
EXTENDS Relations

\* "On confirm the other direction is mirrored as confirmed"
\* (relations.service.ts:74), "the opposite direction is revoked too" (:102):
\* with no handler at work, a relation is confirmed in both directions or none.
MutualWhenIdle ==
  \A e \in Edges : Idle(e) => (Confirmed(e) <=> Confirmed(Rev(e)))

FriendOnly == {"friend"}
NoSubtype  == {}
=============================================================================
