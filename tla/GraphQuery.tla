------------------------------ MODULE GraphQuery -------------------------------
(***************************************************************************)
(* Searches of the relation graph: GraphQueryService.expand and findPath,   *)
(* and RelationsService.friendsOfFriends. Each goes layer by layer from one *)
(* user and asks the database for a layer in a statement of its own, while  *)
(* requests, answers and revocations (module Relations) confirm and end     *)
(* rows in between.                                                         *)
(***************************************************************************)
EXTENDS Integers, Sequences, FiniteSets

CONSTANTS Users, Kinds, Friend,  \* Friend: the kind friendsOfFriends follows
          MaxDepth,              \* clamp of expand's depth
          MaxPathDepth,          \* clamp of findPath's
          DefaultPathDepth,      \* what findPath takes a 0 for
          Asked,                 \* depths a request asks for
          MaxChanges,            \* rows confirmed or ended during a search; bounds a run
          None

VARIABLES
  edge,    \* confirmed rows: <<from, to, kind>>
  search,  \* the search under way or answered, or None
  changes,
  \* History, read by no action of the code:
  graph    \* graph[i]: the confirmed rows when layer i was asked for

vars == <<edge, search, changes, graph>>

Edges == {e \in Users \X Users \X Kinds : e[1] # e[2]}

\* `layer` are the users found so far, by distance; `tree` the rows they were
\* found by: one for each user on a path, all of them for friends of friends.
Search == [op : {"expand", "path", "friends"}, from : Users, to : Users,
           kinds : SUBSET Kinds, cap : Nat, layer : Seq(SUBSET Users),
           tree : SUBSET Edges, done : BOOLEAN]

ASSUME FriendAssumption == Friend \in Kinds
ASSUME DepthAssumption  == /\ MaxDepth \in Nat \ {0} /\ MaxPathDepth \in Nat \ {0}
                           /\ DefaultPathDepth \in Nat \ {0} /\ Asked \subseteq Int
                           /\ MaxChanges \in Nat
ASSUME NoneAssumption   == None \notin Search

\* Relations are confirmed both ways, save at the moments Relations is about.
Init ==
  /\ \E kinds \in [{{e[1], e[2]} : e \in Edges} -> SUBSET Kinds] :
       edge = {e \in Edges : e[3] \in kinds[{e[1], e[2]}]}
  /\ search = None /\ changes = 0 /\ graph = <<>>

-----------------------------------------------------------------------------
\* One write of a handler of Relations.
ChangeRow ==
  /\ changes < MaxChanges
  /\ changes' = changes + 1
  /\ \E e \in Edges : edge' = IF e \in edge THEN edge \ {e} ELSE edge \cup {e}
  /\ UNCHANGED <<search, graph>>

Clamp(n, top) == IF n < 1 THEN 1 ELSE IF n > top THEN top ELSE n

ExpandDepth(n) == Clamp(n, MaxDepth)

PathDepth(n) == Clamp(IF n = 0 THEN DefaultPathDepth ELSE n, MaxPathDepth)

Begin(op, u, v, ks, cap) ==
  /\ search = None
  /\ search' = [op |-> op, from |-> u, to |-> v, kinds |-> ks, cap |-> cap,
                layer |-> <<>>, tree |-> {}, done |-> FALSE]
  /\ UNCHANGED <<edge, changes, graph>>

\* No kinds: every kind.
Expand(u, n, ks) == Begin("expand", u, u, ks, ExpandDepth(n))

\* A path to oneself is empty, and no search.
FindPath(u, v, n) == u # v /\ Begin("path", u, v, {}, PathDepth(n))

FriendsOfFriends(u) == Begin("friends", u, u, {Friend}, 2)

-----------------------------------------------------------------------------
Found == UNION {search.layer[i] : i \in 1 .. Len(search.layer)}

ReachedSelf == {search.from}                                      \* mutant
Reached == {search.from} \cup Found

FrontierReached == Reached                                        \* mutant
Frontier == IF search.layer = <<>> THEN {search.from}
                                   ELSE search.layer[Len(search.layer)]

OfKinds(rows) == {e \in rows : search.kinds = {} \/ e[3] \in search.kinds}

\* The statement of a layer: rows from the frontier to users not reached.
Rows == {e \in OfKinds(edge) : e[1] \in Frontier /\ e[2] \notin Reached}

Targets == {e[2] : e \in Rows}

Asking(ops) == search # None /\ ~search.done /\ search.op \in ops

\* The loop goes on until `cap` layers are there, or the target is.
AddLayerShort(new, rows) ==                                       \* mutant
  search' = [search EXCEPT !.layer = Append(@, new), !.tree = @ \cup rows,
                           !.done  = \/ Len(search.layer) + 2 >= search.cap
                                     \/ search.op = "path" /\ search.to \in new]
AddLayer(new, rows) ==
  search' = [search EXCEPT !.layer = Append(@, new), !.tree = @ \cup rows,
                           !.done  = \/ Len(search.layer) + 1 = search.cap
                                     \/ search.op = "path" /\ search.to \in new]

\* A layer without users ends the search.
Exhausted ==
  /\ Asking({"expand", "path", "friends"})
  /\ Rows = {}
  /\ search' = [search EXCEPT !.done = TRUE]
  /\ graph' = Append(graph, edge)
  /\ UNCHANGED <<edge, changes>>

ExpandLayer ==
  /\ Asking({"expand", "friends"})
  /\ Rows # {}
  /\ AddLayer(Targets, IF search.op = "friends" THEN Rows ELSE {})
  /\ graph' = Append(graph, edge)
  /\ UNCHANGED <<edge, changes>>

\* Each user's parent is the first of its rows, in an order the database chooses.
\* At the target's the loop breaks: what the rows before it added is not read again.
PathLayerAnyParent ==                                             \* mutant
  /\ Asking({"path"})
  /\ Rows # {}
  /\ \E by \in [Targets -> {e \in edge : e[2] \in Targets}] :
       (\A v \in Targets : by[v][2] = v) /\ AddLayer(Targets, {by[v] : v \in Targets})
  /\ graph' = Append(graph, edge)
  /\ UNCHANGED <<edge, changes>>
PathLayer ==
  /\ Asking({"path"})
  /\ Rows # {}
  /\ LET new == IF search.to \in Targets THEN {search.to} ELSE Targets IN
     \E by \in [new -> Rows] :
       (\A v \in new : by[v][2] = v) /\ AddLayer(new, {by[v] : v \in new})
  /\ graph' = Append(graph, edge)
  /\ UNCHANGED <<edge, changes>>

Next ==
  \/ ChangeRow
  \/ \E u \in Users :
       \/ \E n \in Asked, ks \in SUBSET Kinds : Expand(u, n, ks)
       \/ \E n \in Asked, v \in Users : FindPath(u, v, n)
       \/ FriendsOfFriends(u)
  \/ Exhausted \/ ExpandLayer \/ PathLayer

Spec == Init /\ [][Next]_vars

-----------------------------------------------------------------------------
\* The path answered: from the target back to where a user has no parent, a layer
\* for each step.
ParentRow(v) == CHOOSE e \in search.tree : e[2] = v

Parent(v) == IF v = search.from THEN v ELSE ParentRow(v)[1]

Back ==
  LET at[i \in 0 .. Len(search.layer)] == IF i = 0 THEN search.to ELSE Parent(at[i - 1])
  IN  at

Path ==
  LET n == Cardinality({i \in DOMAIN Back : Back[i] # search.from})
  IN  [i \in 1 .. n |-> ParentRow(Back[n - i])]

Answered(op) == search # None /\ search.done /\ search.op = op

PathAnswered == Answered("path") /\ search.to \in Found

-----------------------------------------------------------------------------
TypeOK ==
  /\ edge \subseteq Edges
  /\ search \in Search \cup {None}
  /\ changes \in Nat
  /\ graph \in Seq(SUBSET Edges)

\* No row changed between two statements of the search.
Still == \A i, k \in DOMAIN graph : graph[i] = graph[k]

\* The reference: who is within n rows of the kinds followed, by definition.
Steps(rows, S) == S \cup {e[2] : e \in {x \in rows : x[1] \in S}}

Followed == IF graph = <<>> THEN {} ELSE OfKinds(graph[1])

Within ==
  LET within[n \in 0 .. search.cap] ==
        IF n = 0 THEN {search.from} ELSE Steps(Followed, within[n - 1])
  IN  within

\* While the graph stands still, layer i of expand and of friendsOfFriends is who
\* is at distance i, and all within the depth are there in the end
\* (graph-query.service.ts 43-69, relations.service.ts 130-149).
LayersAreDistances ==
  search # None /\ search.op # "path" /\ Still =>
    /\ \A i \in 1 .. Len(search.layer) : search.layer[i] = Within[i] \ Within[i - 1]
    /\ search.done => Reached = Within[search.cap]

\* While the graph stands still, findPath answers a shortest path, and none only
\* when the target is farther than the depth (graph-query.service.ts 90-135).
PathIsShortest ==
  Answered("path") /\ Still =>
    IF search.to \in Found
      THEN LET n == Len(Path) IN search.to \in Within[n] \ Within[n - 1]
      ELSE search.to \notin Within[search.cap]

\* Whatever changes meanwhile, the path answered leads from one to the other, each
\* of its rows was confirmed when its layer was asked for, and nobody is on it
\* twice (100-135).
PathHeld ==
  PathAnswered =>
    /\ Len(Path) \in 1 .. search.cap
    /\ Path[1][1] = search.from /\ Path[Len(Path)][2] = search.to
    /\ \A i \in 1 .. Len(Path) : Path[i] \in graph[i]
    /\ \A i \in 1 .. Len(Path) - 1 : Path[i][2] = Path[i + 1][1]
    /\ \A i, k \in 1 .. Len(Path) : Path[i][2] = Path[k][2] => i = k

Before(i) == IF i = 1 THEN {search.from} ELSE search.layer[i - 1]

LayersApart ==
  search # None =>
    /\ Len(search.layer) <= search.cap
    /\ search.from \notin Found
    /\ \A i, k \in 1 .. Len(search.layer) :
         search.layer[i] \cap search.layer[k] # {} => i = k

LayersHeld ==
  search # None =>
    \A i \in 1 .. Len(search.layer) : \A v \in search.layer[i] :
      /\ \E e \in graph[i] : e[1] \in Before(i) /\ e[2] = v
      /\ \A e \in search.tree : e[2] = v => e \in graph[i] /\ e[1] \in Before(i)

\* Whatever changes meanwhile, a user is in one layer at most and is not the one
\* searched from; a row that found somebody was confirmed when their layer was
\* asked for and came from the layer before (43-71, 100-122, 130-164).
LayersSound == LayersApart /\ LayersHeld
=============================================================================
