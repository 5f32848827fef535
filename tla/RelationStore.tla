---------------------------- MODULE RelationStore ----------------------------
(***************************************************************************)
(* The relation table and what the rest of the backend knows of it: the    *)
(* key of a row, the reverse key, and the table by which the subtype of a  *)
(* relation is turned round when the relation is mirrored.                 *)
(* Source: backend/src/relations/relations.service.ts, schema.prisma.      *)
(***************************************************************************)
EXTENDS TLC

CONSTANTS Users,      \* accounts
          Kinds,      \* the relation kinds in use, among AllKinds
          Subtypes,   \* the values a request's body.subtype may carry
          None        \* no row, no subtype, no job

AllKinds == {"family", "friend", "class"}

\* The unique key (fromUserId, toUserId, kind). Rows are never deleted, so
\* the key also stands for the row's id.
Edges == [from : Users, to : Users, kind : Kinds]

Statuses == {"pending", "confirmed", "rejected", "revoked"}

Rev(e) == [from |-> e.to, to |-> e.from, kind |-> e.kind]

\* A relation in the sense of two people: the two directions of one key.
Both(e) == {e, Rev(e)}

FamilyTierMirror ==
  "grandparents"      :> "grandchildren"   @@ "grandchildren"    :> "grandparents"   @@
  "parents"           :> "children"        @@ "children"         :> "parents"        @@
  "parents-in-law"    :> "children-in-law" @@ "children-in-law"  :> "parents-in-law" @@
  "aunts-uncles"      :> "nieces-nephews"  @@ "nieces-nephews"   :> "aunts-uncles"   @@
  "siblings"          :> "siblings"        @@ "siblings-in-law"  :> "siblings-in-law" @@
  "spouse"            :> "spouse"          @@ "cousins"          :> "cousins"

ClassRoleMirror ==
  "teacher" :> "student" @@ "student" :> "teacher" @@ "parent" :> "parent"

MirrorTable(kind) ==
  CASE kind = "family" -> FamilyTierMirror
    [] kind = "class"  -> ClassRoleMirror
    [] OTHER           -> <<>>              \* a friend's hop stays as it is

\* A subtype the table does not list is kept.
MirrorSubtype(kind, s) ==
  IF s \in DOMAIN MirrorTable(kind) THEN MirrorTable(kind)[s] ELSE s

Row == [status : Statuses, subtype : Subtypes \cup {None}]

ASSUME KindsAssumption == Kinds \subseteq AllKinds
ASSUME NoneAssumption  == None \notin Row
ASSUME MirrorAssumption ==
  \A k \in Kinds : \A s \in Subtypes \cup {None} : MirrorSubtype(k, s) \in Subtypes \cup {None}
=============================================================================
