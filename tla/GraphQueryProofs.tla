--------------------------- MODULE GraphQueryProofs ----------------------------
(***************************************************************************)
(* Proofs about GraphQuery: whatever is confirmed and ended while a search   *)
(* goes on, for any set of users and any depths, its layers are disjoint and *)
(* each was reached by rows confirmed when it was asked for; a path answered *)
(* is made of such rows; and while the graph stands still, layers are       *)
(* distances and the path is a shortest one.                                *)
(***************************************************************************)
EXTENDS GraphQuery, SequenceTheorems, FiniteSetTheorems, WellFoundedInduction, TLAPS

USE NoneAssumption, FriendAssumption, DepthAssumption

\* A search under way has asked once for each layer and may ask for one more; the
\* rows kept lead to users found.
SearchInv ==
  /\ search = None => graph = <<>>
  /\ search # None =>
       /\ search.cap \in Nat \ {0}
       /\ Len(search.layer) <= Len(graph)
       /\ ~search.done => Len(search.layer) = Len(graph) /\ Len(search.layer) < search.cap
       /\ \A e \in search.tree : e[2] \in Found

GraphInv == TypeOK /\ SearchInv /\ LayersApart /\ LayersHeld

\* A row of the graph layer i was asked for leads to v, from the layer before, and v
\* was not reached earlier.
NextTo(i, v) ==
  /\ \E e \in OfKinds(graph[i]) : e[1] \in Before(i) /\ e[2] = v
  /\ v # search.from /\ \A j \in 1 .. i - 1 : v \notin search.layer[j]

\* A layer is all those users, whatever changed before and after: only of the layer a
\* path ends in is the target alone kept.
LayersExact ==
  search # None =>
    \A i \in 1 .. Len(search.layer) :
      \/ \A v \in Users : v \in search.layer[i] <=> NextTo(i, v)
      \/ /\ search.op = "path" /\ i = Len(search.layer)
         /\ search.layer[i] = {search.to} /\ NextTo(i, search.to)

\* A search ends at its depth, at its target, or where no row leads on.
EndedFor ==
  search # None /\ search.done =>
    \/ Len(search.layer) = search.cap
    \/ search.op = "path" /\ search.to \in Found
    \/ /\ Len(graph) = Len(search.layer) + 1
       /\ \A e \in OfKinds(graph[Len(graph)]) : e[1] \in Frontier => e[2] \in Reached

\* A path search keeps a row for each user found, and stops where it finds its target.
TreeInv ==
  search # None /\ search.op = "path" =>
    /\ search.to # search.from
    /\ \A v \in Found : \E e \in search.tree : e[2] = v
    /\ \A i \in 1 .. Len(search.layer) :
         search.to \in search.layer[i] =>
           search.done /\ i = Len(search.layer) /\ search.layer[i] = {search.to}

ExactInv == LayersExact /\ EndedFor /\ TreeInv

LEMMA SearchFields ==
  ASSUME TypeOK, search # None
  PROVE  /\ search \in Search
         /\ search.from \in Users /\ search.cap \in Nat /\ search.done \in BOOLEAN
         /\ search.layer \in Seq(SUBSET Users) /\ search.tree \subseteq Edges
<1>1. search \in Search  BY DEF TypeOK
<1> QED  BY <1>1 DEF Search

\* The depths asked for are clamped to what the loop can end at.
LEMMA Clamps ==
  ASSUME NEW n \in Asked
  PROVE  ExpandDepth(n) \in Nat \ {0} /\ PathDepth(n) \in Nat \ {0}
BY DEF ExpandDepth, PathDepth, Clamp

LEMMA GraphInvStart == Init => GraphInv
BY DEF Init, GraphInv, TypeOK, SearchInv, LayersApart, LayersHeld

LEMMA Beginning ==
  ASSUME GraphInv, NEW op \in {"expand", "path", "friends"}, NEW u \in Users, NEW v \in Users,
         NEW ks \in SUBSET Kinds, NEW cap \in Nat \ {0}, Begin(op, u, v, ks, cap)
  PROVE  GraphInv'
<1> DEFINE x == [op |-> op, from |-> u, to |-> v, kinds |-> ks, cap |-> cap,
                 layer |-> <<>>, tree |-> {}, done |-> FALSE]
<1>1. search' = x /\ UNCHANGED <<edge, changes, graph>> /\ graph = <<>>
  BY DEF Begin, GraphInv, SearchInv
<1>2. x \in Search  BY DEF Search
<1>3. /\ x # None /\ x.layer = <<>> /\ x.tree = {} /\ x.done = FALSE /\ x.cap = cap
      /\ Len(x.layer) = 0
  BY <1>2
<1> HIDE DEF x
<1>4. TypeOK'  BY <1>1, <1>2 DEF GraphInv, TypeOK
<1>5. SearchInv'  BY <1>1, <1>3 DEF SearchInv
<1>6. LayersApart'  BY <1>1, <1>3 DEF LayersApart, Found
<1>7. LayersHeld'  BY <1>1, <1>3 DEF LayersHeld
<1> QED  BY <1>4, <1>5, <1>6, <1>7 DEF GraphInv

\* The search ends with the layers it has.
LEMMA Ending ==
  ASSUME GraphInv, Exhausted
  PROVE  GraphInv'
<1> USE DEF GraphInv
<1> DEFINE x == [search EXCEPT !.done = TRUE]
<1>1. /\ search # None /\ search' = x /\ graph' = Append(graph, edge)
      /\ UNCHANGED <<edge, changes>>
  BY DEF Exhausted, Asking
<1>2. /\ x \in Search /\ x.layer = search.layer /\ x.tree = search.tree /\ x.done = TRUE
      /\ x.cap = search.cap /\ x.from = search.from
  BY <1>1, SearchFields DEF Search
<1>3. x # None  BY <1>2
<1> HIDE DEF x
<1>4. /\ search.layer \in Seq(SUBSET Users) /\ graph \in Seq(SUBSET Edges)
      /\ edge \subseteq Edges
      /\ Len(search.layer) <= Len(graph)
  BY <1>1, SearchFields DEF TypeOK, SearchInv
<1>5. /\ graph' \in Seq(SUBSET Edges) /\ Len(graph') = Len(graph) + 1
      /\ \A i \in 1 .. Len(search.layer) : graph'[i] = graph[i]
  BY <1>1, <1>4
<1>6. Found' = Found /\ \A i : Before(i)' = Before(i)
  BY <1>1, <1>2 DEF Found, Before
<1>7. TypeOK'  BY <1>1, <1>2, <1>5 DEF TypeOK
<1>8. SearchInv'
  BY <1>1, <1>2, <1>3, <1>4, <1>5, <1>6 DEF SearchInv
<1>9. LayersApart'  BY <1>1, <1>2, <1>3, <1>6 DEF LayersApart
<1>10. LayersHeld'
  <2> SUFFICES ASSUME NEW i \in 1 .. Len(search.layer), NEW v \in search'.layer[i]
               PROVE  /\ \E e \in graph'[i] : e[1] \in Before(i)' /\ e[2] = v
                      /\ \A e \in search'.tree :
                           e[2] = v => e \in graph'[i] /\ e[1] \in Before(i)'
    BY <1>1, <1>2 DEF LayersHeld
  <2>1. /\ v \in search.layer[i] /\ graph'[i] = graph[i] /\ Before(i)' = Before(i)
        /\ search'.tree = search.tree
    BY <1>1, <1>2, <1>5, <1>6
  <2> QED  BY <2>1, <1>1 DEF LayersHeld
<1> QED  BY <1>7, <1>8, <1>9, <1>10

\* What a layer added changes.
LEMMA Added ==
  ASSUME GraphInv, NEW new, NEW rows, NEW n \in Nat, n = Len(search.layer),
         search # None, ~search.done,
         new \subseteq Users \ Reached, rows \subseteq edge,
         AddLayer(new, rows), graph' = Append(graph, edge)
  PROVE  /\ search' \in Search /\ search' # None
         /\ \A f \in {"op", "from", "to", "kinds", "cap"} : search'[f] = search[f]
         /\ search'.tree = search.tree \cup rows
         /\ search'.done <=> n + 1 = search.cap \/ (search.op = "path" /\ search.to \in new)
         /\ search.cap \in Nat /\ n < search.cap /\ n = Len(graph)
         /\ 1 .. n + 1 = (1 .. n) \cup {n + 1}
         /\ Len(search'.layer) = n + 1 /\ search'.layer[n + 1] = new
         /\ \A i \in 1 .. n : search'.layer[i] = search.layer[i]
         /\ graph' \in Seq(SUBSET Edges) /\ Len(graph') = n + 1 /\ graph'[n + 1] = edge
         /\ \A i \in 1 .. n : graph'[i] = graph[i]
         /\ Found' = Found \cup new
         /\ \A i \in 1 .. n : Before(i)' = Before(i)
         /\ Before(n + 1)' = Frontier
<1> USE DEF GraphInv
<1> DEFINE over == \/ n + 1 = search.cap
                   \/ search.op = "path" /\ search.to \in new
           x == [search EXCEPT !.layer = Append(@, new), !.tree = @ \cup rows, !.done = over]
<1>1. search' = x  BY DEF AddLayer
<1>2. /\ search \in Search /\ search.from \in Users /\ search.layer \in Seq(SUBSET Users)
      /\ search.tree \subseteq Edges /\ n = Len(graph) /\ n < search.cap
      /\ search.cap \in Nat /\ graph \in Seq(SUBSET Edges) /\ edge \subseteq Edges
  BY SearchFields DEF TypeOK, SearchInv
<1>3. /\ x \in Search /\ x.layer = Append(search.layer, new) /\ x.tree = search.tree \cup rows
      /\ x.done = over /\ x.cap = search.cap /\ x.from = search.from
      /\ x.op = search.op /\ x.to = search.to /\ x.kinds = search.kinds
  <2>1. Append(search.layer, new) \in Seq(SUBSET Users)  BY <1>2
  <2>2. search.tree \cup rows \in SUBSET Edges /\ over \in BOOLEAN  BY <1>2
  <2> HIDE DEF over
  <2> QED  BY <1>2, <2>1, <2>2 DEF Search
<1>4. x # None  BY <1>3
<1> HIDE DEF x, over
<1>5. /\ graph' \in Seq(SUBSET Edges) /\ Len(graph') = n + 1 /\ graph'[n + 1] = edge
      /\ \A i \in 1 .. n : graph'[i] = graph[i]
  BY <1>2
<1>6. /\ Len(search'.layer) = n + 1 /\ search'.layer[n + 1] = new
      /\ \A i \in 1 .. n : search'.layer[i] = search.layer[i]
      /\ 1 .. n + 1 = (1 .. n) \cup {n + 1}
  <2>1. search'.layer = Append(search.layer, new) /\ search.layer \in Seq(SUBSET Users)
    BY <1>1, <1>2, <1>3
  <2>2. 1 .. n + 1 = (1 .. n) \cup {n + 1}  OBVIOUS
  <2> QED  BY <2>1, <2>2
<1>7. Found' = Found \cup new
  <2> DEFINE F == UNION {search.layer[i] : i \in 1 .. n}
             G == UNION {search'.layer[i] : i \in 1 .. n + 1}
  <2>1. Found = F /\ Found' = G  BY <1>6 DEF Found
  <2>2. \A v : v \in G <=> \E i \in 1 .. n + 1 : v \in search'.layer[i]  OBVIOUS
  <2>3. \A v : v \in F <=> \E i \in 1 .. n : v \in search.layer[i]  OBVIOUS
  <2> HIDE DEF F, G
  <2>4. \A v : v \in G <=> v \in F \/ v \in new  BY <2>2, <2>3, <1>6
  <2> QED  BY <2>1, <2>4
<1>8. /\ \A i \in 1 .. n : Before(i)' = Before(i)
      /\ Before(n + 1)' = Frontier
  <2>1. \A i \in 1 .. n : Before(i)' = Before(i)
    <3> SUFFICES ASSUME NEW i \in 1 .. n  PROVE Before(i)' = Before(i)
      OBVIOUS
    <3>1. CASE i = 1  BY <3>1, <1>1, <1>3 DEF Before
    <3>2. CASE i # 1
      <4>1. i - 1 \in 1 .. n  BY <3>2, <1>2
      <4> QED  BY <3>2, <4>1, <1>6 DEF Before
    <3> QED  BY <3>1, <3>2
  <2>2. Before(n + 1)' = Frontier
    <3>1. CASE n = 0
      <4>1. search.layer = <<>>  BY <3>1, <1>2, EmptySeq
      <4> QED  BY <3>1, <4>1, <1>1, <1>3 DEF Before, Frontier
    <3>2. CASE n # 0
      <4>1. n \in 1 .. n /\ n + 1 # 1 /\ (n + 1) - 1 = n  BY <3>2
      <4>2. search.layer # <<>>
        <5>1. Len(<<>>) = 0  OBVIOUS
        <5> QED  BY <3>2, <5>1
      <4>3. Frontier = search.layer[n]  BY <4>2 DEF Frontier
      <4> QED  BY <4>1, <4>3, <1>6 DEF Before
    <3> QED  BY <3>1, <3>2
  <2> QED  BY <2>1, <2>2
<1>9. /\ \A f \in {"op", "from", "to", "kinds", "cap"} : search'[f] = search[f]
      /\ search'.tree = search.tree \cup rows
      /\ search'.done <=> n + 1 = search.cap \/ (search.op = "path" /\ search.to \in new)
  BY <1>1, <1>3 DEF over
<1> QED  BY <1>1, <1>2, <1>3, <1>4, <1>5, <1>6, <1>7, <1>8, <1>9

\* A layer of users not reached before, by rows that lead to them from the frontier.
LEMMA Adding ==
  ASSUME GraphInv, NEW new, NEW rows, search # None, ~search.done,
         new \subseteq Users \ Reached, rows \subseteq edge,
         \A e \in rows : e[1] \in Frontier /\ e[2] \in new,
         \A v \in new : \E e \in edge : e[1] \in Frontier /\ e[2] = v,
         AddLayer(new, rows), graph' = Append(graph, edge), UNCHANGED <<edge, changes>>
  PROVE  GraphInv'
<1> USE DEF GraphInv
<1>0. PICK n \in Nat : n = Len(search.layer)
  BY SearchFields
<1>1. /\ search' \in Search /\ search' # None
      /\ \A f \in {"op", "from", "to", "kinds", "cap"} : search'[f] = search[f]
      /\ search'.tree = search.tree \cup rows
      /\ search'.done <=> n + 1 = search.cap \/ (search.op = "path" /\ search.to \in new)
  BY <1>0, Added
<1>2. search.cap \in Nat /\ n < search.cap /\ n = Len(graph)
  BY <1>0, Added
<1>6. /\ 1 .. n + 1 = (1 .. n) \cup {n + 1}
      /\ Len(search'.layer) = n + 1 /\ search'.layer[n + 1] = new
      /\ \A i \in 1 .. n : search'.layer[i] = search.layer[i]
  BY <1>0, Added
<1>5. /\ graph' \in Seq(SUBSET Edges) /\ Len(graph') = n + 1 /\ graph'[n + 1] = edge
      /\ \A i \in 1 .. n : graph'[i] = graph[i]
  BY <1>0, Added
<1>7. Found' = Found \cup new
  BY <1>0, Added
<1>9. /\ \A i \in 1 .. n : Before(i)' = Before(i)
      /\ Before(n + 1)' = Frontier
  BY <1>0, Added
<1>8. /\ \A i \in 1 .. n : search.layer[i] \subseteq Found
      /\ new \cap Found = {} /\ search.from \notin new
  BY <1>0 DEF Found, Reached
<1>10. TypeOK'  BY <1>1, <1>5 DEF TypeOK, GraphInv
<1>11. SearchInv'
  <2>1. \A e \in search'.tree : e[2] \in Found'  BY <1>1, <1>7 DEF SearchInv
  <2>2. ~search'.done => n + 1 < search.cap  BY <1>1, <1>2
  <2> QED  BY <2>1, <2>2, <1>0, <1>1, <1>2, <1>5, <1>6 DEF SearchInv
<1>12. LayersApart'
  <2>1. Len(search'.layer) <= search'.cap /\ search'.from \notin Found'
    BY <1>0, <1>1, <1>2, <1>6, <1>7, <1>8 DEF LayersApart
  <2>2. ASSUME NEW i \in 1 .. n + 1, NEW k \in 1 .. n + 1,
               search'.layer[i] \cap search'.layer[k] # {}
        PROVE  i = k
    <3>1. CASE i = n + 1 /\ k \in 1 .. n  BY <2>2, <3>1, <1>6, <1>8
    <3>2. CASE k = n + 1 /\ i \in 1 .. n  BY <2>2, <3>2, <1>6, <1>8
    <3>3. CASE i \in 1 .. n /\ k \in 1 .. n  BY <2>2, <3>3, <1>0, <1>6 DEF LayersApart
    <3> QED  BY <3>1, <3>2, <3>3, <1>6
  <2> QED  BY <2>1, <2>2, <1>6 DEF LayersApart
<1>13. LayersHeld'
  <2> SUFFICES ASSUME NEW i \in 1 .. n + 1, NEW v \in search'.layer[i]
               PROVE  /\ \E e \in graph'[i] : e[1] \in Before(i)' /\ e[2] = v
                      /\ \A e \in search'.tree :
                           e[2] = v => e \in graph'[i] /\ e[1] \in Before(i)'
    BY <1>6 DEF LayersHeld
  <2>1. CASE i = n + 1
    <3>1. v \in new /\ graph'[i] = edge /\ Before(i)' = Frontier
      BY <2>1, <1>5, <1>6, <1>9
    <3>2. \A e \in search.tree : e[2] # v  BY <3>1, <1>8 DEF SearchInv
    <3> QED  BY <3>1, <3>2, <1>1
  <2>2. CASE i \in 1 .. n
    <3>1. v \in search.layer[i] /\ graph'[i] = graph[i] /\ Before(i)' = Before(i)
      BY <2>2, <1>5, <1>6, <1>9
    <3>2. \A e \in rows : e[2] # v  BY <2>2, <3>1, <1>8
    <3>3. /\ \E e \in graph[i] : e[1] \in Before(i) /\ e[2] = v
          /\ \A e \in search.tree : e[2] = v => e \in graph[i] /\ e[1] \in Before(i)
      BY <2>2, <3>1, <1>0 DEF LayersHeld
    <3> QED  BY <3>1, <3>2, <3>3, <1>1
  <2> QED  BY <2>1, <2>2, <1>6
<1> QED  BY <1>10, <1>11, <1>12, <1>13

LEMMA GraphInvStep ==
  ASSUME GraphInv, [Next]_vars
  PROVE  GraphInv'
<1>1. CASE UNCHANGED vars
  BY <1>1 DEF vars, GraphInv, TypeOK, SearchInv, LayersApart, LayersHeld, Found, Before
<1>2. CASE ChangeRow
  <2>1. UNCHANGED <<search, graph>>  BY <1>2 DEF ChangeRow
  <2>2. TypeOK'  BY <1>2, <2>1 DEF ChangeRow, GraphInv, TypeOK
  <2>3. SearchInv' /\ LayersApart'
    BY <2>1 DEF GraphInv, SearchInv, LayersApart, Found
  <2>4. LayersHeld'  BY <2>1 DEF GraphInv, LayersHeld, Before
  <2> QED  BY <2>2, <2>3, <2>4 DEF GraphInv
<1>3. ASSUME NEW u \in Users, NEW n \in Asked, NEW ks \in SUBSET Kinds, Expand(u, n, ks)
      PROVE  GraphInv'
  BY <1>3, Clamps, Beginning DEF Expand
<1>4. ASSUME NEW u \in Users, NEW n \in Asked, NEW v \in Users, FindPath(u, v, n)
      PROVE  GraphInv'
  <2>1. {} \in SUBSET Kinds  OBVIOUS
  <2> QED  BY <1>4, <2>1, Clamps, Beginning DEF FindPath
<1>5. ASSUME NEW u \in Users, FriendsOfFriends(u)
      PROVE  GraphInv'
  <2>1. {Friend} \in SUBSET Kinds /\ 2 \in Nat \ {0}  OBVIOUS
  <2> QED  BY <1>5, <2>1, Beginning DEF FriendsOfFriends
<1>6. /\ edge \subseteq Edges
      /\ \A v \in Targets : v \in Users \ Reached
                            /\ \E e \in Rows : e[2] = v
      /\ \A e \in Rows : e \in edge /\ e[1] \in Frontier /\ e[2] \in Targets
  BY DEF GraphInv, TypeOK, Targets, Rows, OfKinds, Edges
<1>7. CASE ExpandLayer
  <2> DEFINE rows == IF search.op = "friends" THEN Rows ELSE {}
  <2>1. /\ search # None /\ ~search.done /\ AddLayer(Targets, rows)
        /\ graph' = Append(graph, edge) /\ UNCHANGED <<edge, changes>>
    BY <1>7 DEF ExpandLayer, Asking
  <2>2. rows \subseteq Rows  OBVIOUS
  <2> HIDE DEF rows
  <2> QED  BY <1>6, <2>1, <2>2, Adding
<1>8. CASE PathLayer
  <2> DEFINE new == IF search.to \in Targets THEN {search.to} ELSE Targets
  <2>1. PICK by \in [new -> Rows] :
          (\A v \in new : by[v][2] = v) /\ AddLayer(new, {by[v] : v \in new})
    BY <1>8 DEF PathLayer
  <2>2. /\ search # None /\ ~search.done
        /\ graph' = Append(graph, edge) /\ UNCHANGED <<edge, changes>>
    BY <1>8 DEF PathLayer, Asking
  <2>3. new \subseteq Targets  OBVIOUS
  <2> HIDE DEF new
  <2>4. \A e \in {by[v] : v \in new} : e \in Rows /\ e[2] \in new  BY <2>1
  <2> DEFINE rows == {by[v] : v \in new}
  <2>5. AddLayer(new, rows) /\ \A e \in rows : e \in Rows /\ e[2] \in new  BY <2>1, <2>4
  <2> HIDE DEF rows
  <2> QED  BY <1>6, <2>2, <2>3, <2>5, Adding
<1> QED  BY <1>1, <1>2, <1>3, <1>4, <1>5, <1>7, <1>8, Ending DEF Next

-----------------------------------------------------------------------------
\* The layers exactly.

LEMMA SearchUnchanged ==
  ASSUME ExactInv, UNCHANGED <<search, graph>>
  PROVE  ExactInv'
BY DEF ExactInv, LayersExact, EndedFor, TreeInv, NextTo, OfKinds, Before, Found, Reached, Frontier

LEMMA ExactStart == Init => ExactInv
BY DEF Init, ExactInv, LayersExact, EndedFor, TreeInv

LEMMA ExactBeginning ==
  ASSUME NEW op \in {"expand", "path", "friends"}, NEW u \in Users, NEW v \in Users,
         NEW ks \in SUBSET Kinds, NEW cap \in Nat \ {0}, Begin(op, u, v, ks, cap),
         op = "path" => u # v
  PROVE  ExactInv'
<1> DEFINE x == [op |-> op, from |-> u, to |-> v, kinds |-> ks, cap |-> cap,
                 layer |-> <<>>, tree |-> {}, done |-> FALSE]
<1>1. search' = x  BY DEF Begin
<1>2. x \in Search  BY DEF Search
<1>3. /\ x # None /\ Len(x.layer) = 0 /\ x.done = FALSE
      /\ x.op = op /\ x.from = u /\ x.to = v
  BY <1>2
<1> HIDE DEF x
<1>4. LayersExact'  BY <1>1, <1>3 DEF LayersExact
<1>5. EndedFor'  BY <1>1, <1>3 DEF EndedFor
<1>6. TreeInv'  BY <1>1, <1>3 DEF TreeInv, Found
<1> QED  BY <1>4, <1>5, <1>6 DEF ExactInv

LEMMA ExactEnding ==
  ASSUME GraphInv, ExactInv, Exhausted
  PROVE  ExactInv'
<1> DEFINE x == [search EXCEPT !.done = TRUE]
<1>1. /\ search # None /\ ~search.done /\ search' = x /\ graph' = Append(graph, edge)
      /\ Rows = {}
  BY DEF Exhausted, Asking
<1>2. /\ x \in Search
      /\ \A f \in {"op", "from", "to", "kinds", "cap", "layer", "tree"} : x[f] = search[f]
  BY <1>1, SearchFields DEF Search, GraphInv
<1>3. x # None  BY <1>2
<1> HIDE DEF x
<1>4. /\ search.layer \in Seq(SUBSET Users) /\ graph \in Seq(SUBSET Edges)
      /\ edge \subseteq Edges /\ Len(search.layer) = Len(graph)
  BY <1>1, SearchFields DEF GraphInv, TypeOK, SearchInv
<1>5. /\ Len(graph') = Len(search.layer) + 1 /\ graph'[Len(search.layer) + 1] = edge
      /\ \A i \in 1 .. Len(search.layer) : graph'[i] = graph[i]
  BY <1>1, <1>4
<1>6. /\ Found' = Found /\ Reached' = Reached /\ Frontier' = Frontier
      /\ \A i : Before(i)' = Before(i)
  BY <1>1, <1>2 DEF Found, Before, Reached, Frontier
<1>7. /\ OfKinds(edge)' = OfKinds(edge')
      /\ \A i \in 1 .. Len(search.layer) : OfKinds(graph[i])' = OfKinds(graph[i])
      /\ OfKinds(graph[Len(graph)])' = OfKinds(edge)
  BY <1>1, <1>2, <1>5 DEF OfKinds
<1>8. LayersExact'
  <2> SUFFICES ASSUME NEW i \in 1 .. Len(search.layer)
               PROVE  \/ \A v \in Users : v \in search'.layer[i] <=> NextTo(i, v)'
                      \/ /\ search'.op = "path" /\ i = Len(search'.layer)
                         /\ search'.layer[i] = {search'.to} /\ NextTo(i, search.to)'
    BY <1>1, <1>2 DEF LayersExact
  <2>1. \A v : NextTo(i, v)' <=> NextTo(i, v)
    BY <1>1, <1>2, <1>6, <1>7 DEF NextTo
  <2> QED  BY <2>1, <1>1, <1>2 DEF ExactInv, LayersExact
<1>9. EndedFor'
  <2>1. \A e \in OfKinds(edge) : e[1] \in Frontier => e[2] \in Reached
    BY <1>1 DEF Rows
  <2>2. Len(graph') = Len(search'.layer) + 1  BY <1>1, <1>2, <1>5
  <2>3. OfKinds(graph[Len(graph)])' = OfKinds(edge)
    BY <1>7
  <2> QED  BY <2>1, <2>2, <2>3, <1>6 DEF EndedFor
<1>10. TreeInv'
  <2> SUFFICES ASSUME search.op = "path"  PROVE TreeInv'
    BY <1>1, <1>2 DEF TreeInv
  <2>1. \A i \in 1 .. Len(search.layer) : search.to \notin search.layer[i]
    BY <1>1 DEF ExactInv, TreeInv
  <2>2. /\ search.to # search.from
        /\ \A v \in Found : \E e \in search.tree : e[2] = v
    BY <1>1 DEF ExactInv, TreeInv
  <2>3. /\ search'.layer = search.layer /\ search'.to = search.to
        /\ search'.from = search.from /\ search'.tree = search.tree
    BY <1>1, <1>2
  <2> QED  BY <2>1, <2>2, <2>3, <1>6 DEF TreeInv
<1> QED  BY <1>8, <1>9, <1>10 DEF ExactInv

LEMMA ExactAdding ==
  ASSUME GraphInv, ExactInv, NEW new, NEW rows, search # None, ~search.done,
         new \subseteq Users \ Reached, rows \subseteq edge,
         AddLayer(new, rows), graph' = Append(graph, edge),
         new = Targets \/ (search.op = "path" /\ new = {search.to} /\ search.to \in Targets),
         search.op = "path" /\ search.to \in new => new = {search.to},
         search.op = "path" => \A v \in new : \E e \in rows : e[2] = v
  PROVE  ExactInv'
<1>0. PICK n \in Nat : n = Len(search.layer)
  BY SearchFields DEF GraphInv
<1>1. /\ search' # None
      /\ search'.op = search.op /\ search'.from = search.from /\ search'.to = search.to
      /\ search'.kinds = search.kinds /\ search'.cap = search.cap
      /\ search'.tree = search.tree \cup rows
      /\ search'.done <=> n + 1 = search.cap \/ (search.op = "path" /\ search.to \in new)
      /\ Found' = Found \cup new
  BY <1>0, Added
<1>2. /\ 1 .. n + 1 = (1 .. n) \cup {n + 1}
      /\ Len(search'.layer) = n + 1 /\ search'.layer[n + 1] = new
      /\ \A i \in 1 .. n : search'.layer[i] = search.layer[i]
      /\ graph'[n + 1] = edge
      /\ \A i \in 1 .. n : graph'[i] = graph[i]
      /\ \A i \in 1 .. n : Before(i)' = Before(i)
      /\ Before(n + 1)' = Frontier
  BY <1>0, Added
<1>3. /\ OfKinds(graph[n + 1])' = OfKinds(edge)
      /\ \A i \in 1 .. n : OfKinds(graph[i])' = OfKinds(graph[i])
  BY <1>1, <1>2 DEF OfKinds
<1>4. LayersExact'
  <2>1. ASSUME NEW i \in 1 .. n
        PROVE  \A v \in Users : v \in search'.layer[i] <=> NextTo(i, v)'
    <3>1. \A j \in 1 .. i - 1 : search'.layer[j] = search.layer[j]  BY <1>2
    <3>2. \A v : NextTo(i, v)' <=> NextTo(i, v)
      BY <3>1, <1>1, <1>2, <1>3 DEF NextTo
    <3>3. search.op = "path" => search.to \notin search.layer[i]
      BY <1>0 DEF ExactInv, TreeInv
    <3>4. \A v \in Users : v \in search.layer[i] <=> NextTo(i, v)
      BY <3>3, <1>0 DEF ExactInv, LayersExact
    <3> QED  BY <3>2, <3>4, <1>2
  <2>2. \A v : v \in Targets <=> NextTo(n + 1, v)'
    <3>1. \A v : v \in Targets <=>
                 v \notin Reached /\ \E e \in OfKinds(edge) : e[1] \in Frontier /\ e[2] = v
      BY DEF Targets, Rows
    <3>2. \A v : v \in Reached <=> v = search.from \/ \E j \in 1 .. n : v \in search.layer[j]
      BY <1>0 DEF Reached, Found
    <3>3. (n + 1) - 1 = n  OBVIOUS
    <3>4. ASSUME NEW v
          PROVE  NextTo(n + 1, v)' <=>
                   /\ \E e \in OfKinds(edge) : e[1] \in Frontier /\ e[2] = v
                   /\ v # search.from /\ \A j \in 1 .. n : v \notin search'.layer[j]
      BY <3>3, <1>1, <1>2, <1>3 DEF NextTo
    <3>5. \A v : (\A j \in 1 .. n : v \notin search'.layer[j])
                   <=> \A j \in 1 .. n : v \notin search.layer[j]
      BY <1>2
    <3> QED  BY <3>1, <3>2, <3>4, <3>5
  <2>3. CASE new = Targets
    <3>1. \A v \in Users : v \in search'.layer[n + 1] <=> NextTo(n + 1, v)'
      BY <2>2, <2>3, <1>2
    <3> QED  BY <2>1, <3>1, <1>2 DEF LayersExact
  <2>4. CASE search.op = "path" /\ new = {search.to} /\ search.to \in Targets
    <3>1. /\ search'.op = "path" /\ n + 1 = Len(search'.layer)
          /\ search'.layer[n + 1] = {search'.to} /\ NextTo(n + 1, search.to)'
      BY <2>2, <2>4, <1>1, <1>2
    <3> QED  BY <2>1, <3>1, <1>2 DEF LayersExact
  <2> QED  BY <2>3, <2>4
<1>5. EndedFor'
  BY <1>1, <1>2 DEF EndedFor
<1>6. TreeInv'
  <2> SUFFICES ASSUME search.op = "path"  PROVE TreeInv'
    BY <1>1 DEF TreeInv
  <2>1. search'.to # search'.from  BY <1>1 DEF ExactInv, TreeInv
  <2>2. \A v \in Found' : \E e \in search'.tree : e[2] = v
    <3>1. \A v \in Found : \E e \in search.tree : e[2] = v  BY DEF ExactInv, TreeInv
    <3>2. \A v \in new : \E e \in rows : e[2] = v  OBVIOUS
    <3> QED  BY <3>1, <3>2, <1>1
  <2>3. \A i \in 1 .. n : search.to \notin search'.layer[i]
    BY <1>0, <1>2 DEF ExactInv, TreeInv
  <2>4. search.to \in search'.layer[n + 1] => search'.done /\ search'.layer[n + 1] = {search.to}
    BY <1>1, <1>2
  <2> QED  BY <2>1, <2>2, <2>3, <2>4, <1>1, <1>2 DEF TreeInv
<1> QED  BY <1>4, <1>5, <1>6 DEF ExactInv

LEMMA ExactStep ==
  ASSUME GraphInv, ExactInv, [Next]_vars
  PROVE  ExactInv'
<1>1. CASE UNCHANGED vars  BY <1>1, SearchUnchanged DEF vars
<1>2. CASE ChangeRow  BY <1>2, SearchUnchanged DEF ChangeRow
<1>3. ASSUME NEW u \in Users, NEW n \in Asked, NEW ks \in SUBSET Kinds, Expand(u, n, ks)
      PROVE  ExactInv'
  BY <1>3, Clamps, ExactBeginning DEF Expand
<1>4. ASSUME NEW u \in Users, NEW n \in Asked, NEW v \in Users, FindPath(u, v, n)
      PROVE  ExactInv'
  <2>1. {} \in SUBSET Kinds  OBVIOUS
  <2> QED  BY <1>4, <2>1, Clamps, ExactBeginning DEF FindPath
<1>5. ASSUME NEW u \in Users, FriendsOfFriends(u)
      PROVE  ExactInv'
  <2>1. {Friend} \in SUBSET Kinds /\ 2 \in Nat \ {0}  OBVIOUS
  <2> QED  BY <1>5, <2>1, ExactBeginning DEF FriendsOfFriends
<1>6. /\ Targets \subseteq Users \ Reached /\ Rows \subseteq edge
      /\ \A v \in Targets : \E e \in Rows : e[2] = v
  BY DEF GraphInv, TypeOK, Targets, Rows, OfKinds, Edges
<1>7. CASE ExpandLayer
  <2> DEFINE rows == IF search.op = "friends" THEN Rows ELSE {}
  <2>1. /\ search # None /\ ~search.done /\ search.op # "path" /\ AddLayer(Targets, rows)
        /\ graph' = Append(graph, edge)
    BY <1>7 DEF ExpandLayer, Asking
  <2>2. rows \subseteq edge  BY <1>6
  <2> HIDE DEF rows
  <2> QED  BY <1>6, <2>1, <2>2, ExactAdding
<1>8. CASE PathLayer
  <2> DEFINE new == IF search.to \in Targets THEN {search.to} ELSE Targets
  <2>1. PICK by \in [new -> Rows] :
          (\A v \in new : by[v][2] = v) /\ AddLayer(new, {by[v] : v \in new})
    BY <1>8 DEF PathLayer
  <2>2. /\ search # None /\ ~search.done /\ search.op = "path"
        /\ graph' = Append(graph, edge)
    BY <1>8 DEF PathLayer, Asking
  <2>3. /\ new \subseteq Targets
        /\ new = Targets \/ (new = {search.to} /\ search.to \in Targets)
        /\ search.to \in new => new = {search.to}
    OBVIOUS
  <2> HIDE DEF new
  <2> DEFINE rows == {by[v] : v \in new}
  <2>4. AddLayer(new, rows) /\ rows \subseteq edge /\ \A v \in new : \E e \in rows : e[2] = v
    BY <1>6, <2>1
  <2> HIDE DEF rows
  <2> QED  BY <1>6, <2>2, <2>3, <2>4, ExactAdding
<1> QED  BY <1>1, <1>2, <1>3, <1>4, <1>5, <1>7, <1>8, ExactEnding DEF Next

LEMMA ExactAlways == Spec => [](GraphInv /\ ExactInv)
<1>1. Init => GraphInv /\ ExactInv  BY GraphInvStart, ExactStart
<1>2. GraphInv /\ ExactInv /\ [Next]_vars => (GraphInv /\ ExactInv)'
  BY GraphInvStep, ExactStep
<1> QED  BY <1>1, <1>2, PTL DEF Spec

\* A search and the rows it has read keep their types.
THEOREM TypeCorrect == Spec => []TypeOK
<1>1. GraphInv => TypeOK  BY DEF GraphInv
<1> QED  BY <1>1, GraphInvStart, GraphInvStep, PTL DEF Spec

\* Whatever rows are confirmed or ended between the statements of a search, the
\* layers of expand, findPath and friendsOfFriends are disjoint, leave out where they
\* began, and were reached by rows confirmed at the time (graph-query.service.ts
\* 43-71, 100-122; relations.service.ts 130-164).
THEOREM LayersStaySound == Spec => []LayersSound
<1>1. GraphInv => LayersSound  BY DEF GraphInv, LayersSound
<1> QED  BY <1>1, GraphInvStart, GraphInvStep, PTL DEF Spec
-----------------------------------------------------------------------------
\* Induction over the numbers, as a property of sets of them, and the functions it
\* defines.

Below == OpToRel(<, Nat)

LEMMA SetInduction ==
  ASSUME NEW S, 0 \in S, \A n \in Nat : n \in S => n + 1 \in S
  PROVE  Nat \subseteq S
<1>1. IsWellFoundedOn(Below, Nat)  BY NatLessThanWellFounded DEF Below
<1>2. \A x, y \in Nat : x < y => <<x, y>> \in Below  BY DEF OpToRel, Below
<1> SUFFICES ASSUME Nat \ S # {}  PROVE FALSE
  OBVIOUS
<1>3. PICK m \in Nat \ S : \A k \in Nat \ S : ~ (<<k, m>> \in Below)
  BY <1>1, WFMin
<1>4. m - 1 \in Nat /\ m - 1 < m  OBVIOUS
<1>5. m - 1 \in S  BY <1>2, <1>3, <1>4
<1>6. (m - 1) + 1 \in S  BY <1>4, <1>5
<1> QED  BY <1>6

\* Iterating a function on D is possible any number of times.
Iterates(f, D, F, a, c) ==
  f \in [0 .. c -> D] /\ f[0] = a /\ \A n \in 1 .. c : f[n] = F[f[n - 1]]

LEMMA Iterating ==
  ASSUME NEW D, NEW a \in D, NEW F \in [D -> D], NEW c \in Nat
  PROVE  \E f : Iterates(f, D, F, a, c)
<1> DEFINE Can(m, f) == f \in [0 .. m -> D] /\ f[0] = a /\ \A n \in 1 .. m : f[n] = F[f[n - 1]]
           S == {m \in Nat : \E f : Can(m, f)}
<1>1. 0 \in S
  <2>1. Can(0, [n \in 0 .. 0 |-> a])  OBVIOUS
  <2> QED  BY <2>1
<1>2. ASSUME NEW m \in Nat, m \in S  PROVE m + 1 \in S
  <2>1. PICK f : Can(m, f)  BY <1>2
  <2> DEFINE g == [n \in 0 .. m + 1 |-> IF n = m + 1 THEN F[f[m]] ELSE f[n]]
  <2>2. \A n \in 0 .. m + 1 : n # m + 1 => n \in 0 .. m  OBVIOUS
  <2>3. g \in [0 .. m + 1 -> D]  BY <2>1, <2>2
  <2>4. g[0] = a /\ \A n \in 0 .. m : g[n] = f[n]  BY <2>1
  <2>5. ASSUME NEW n \in 1 .. m + 1  PROVE g[n] = F[g[n - 1]]
    <3>1. CASE n = m + 1  BY <3>1, <2>4
    <3>2. CASE n # m + 1
      <4>1. n \in 1 .. m /\ n - 1 \in 0 .. m /\ n \in 0 .. m  BY <3>2
      <4>2. f[n] = F[f[n - 1]]  BY <2>1, <4>1
      <4> QED  BY <2>4, <4>1, <4>2
    <3> QED  BY <3>1, <3>2
  <2> HIDE DEF g
  <2>6. Can(m + 1, g)  BY <2>3, <2>4, <2>5
  <2> QED  BY <2>6
<1> HIDE DEF S
<1>3. c \in S  BY <1>1, <1>2, SetInduction
<1> QED  BY <1>3 DEF S, Iterates

LEMMA WithinIs ==
  ASSUME search # None, TypeOK
  PROVE  /\ Within[0] = {search.from}
         /\ \A n \in 1 .. search.cap : Within[n] = Steps(Followed, Within[n - 1])
<1> DEFINE D == {S : S \in SUBSET (Users \cup {e[2] : e \in Followed})}
           F == [S \in D |-> Steps(Followed, S)]
<1>1. search.from \in Users /\ search.cap \in Nat  BY SearchFields
<1>2. {search.from} \in D /\ F \in [D -> D]
  BY <1>1 DEF Steps
<1>3. PICK c \in Nat : c = search.cap  BY <1>1
<1>4. PICK f \in [0 .. c -> D] :
        f[0] = {search.from} /\ \A n \in 1 .. c : f[n] = F[f[n - 1]]
  <2>1. PICK E, a, G : E = D /\ a = {search.from} /\ G = F  OBVIOUS
  <2> HIDE DEF D, F
  <2>2. a \in E /\ G \in [E -> E]  BY <1>2, <2>1
  <2>3. \E f : Iterates(f, E, G, a, c)
    BY <2>2, Iterating
  <2> QED  BY <2>1, <2>3 DEF Iterates
<1>5. \A n \in 1 .. c : f[n] = Steps(Followed, f[n - 1])
  <2> SUFFICES ASSUME NEW n \in 1 .. c  PROVE f[n] = Steps(Followed, f[n - 1])
    OBVIOUS
  <2>1. n - 1 \in 0 .. c  OBVIOUS
  <2>2. f[n - 1] \in D  BY <2>1
  <2> QED  BY <1>4, <2>2
<1>6. f = [n \in 0 .. search.cap |->
             IF n = 0 THEN {search.from} ELSE Steps(Followed, f[n - 1])]
  <2>1. \A n \in 0 .. c : n = 0 \/ n \in 1 .. c  OBVIOUS
  <2> HIDE DEF D
  <2> QED  BY <1>3, <1>4, <1>5, <2>1
<1>7. Within = [n \in 0 .. search.cap |->
                  IF n = 0 THEN {search.from} ELSE Steps(Followed, Within[n - 1])]
  <2> HIDE DEF D, F
  <2> QED  BY <1>6 DEF Within
<1> HIDE DEF D, F
<1>8. \A n \in 0 .. c : Within[n] = IF n = 0 THEN {search.from} ELSE Steps(Followed, Within[n - 1])
  <2> SUFFICES ASSUME NEW n \in 0 .. search.cap
               PROVE  Within[n] = IF n = 0 THEN {search.from} ELSE Steps(Followed, Within[n - 1])
    BY <1>3
  <2>1. PICK w : w = Within  OBVIOUS
  <2>2. w = [i \in 0 .. search.cap |-> IF i = 0 THEN {search.from} ELSE Steps(Followed, w[i - 1])]
    BY <1>7, <2>1
  <2>3. w[n] = IF n = 0 THEN {search.from} ELSE Steps(Followed, w[n - 1])
    BY <2>2
  <2> QED  BY <2>1, <2>3
<1>9. 0 \in 0 .. c /\ \A n \in 1 .. c : n \in 0 .. c /\ n # 0  OBVIOUS
<1> QED  BY <1>3, <1>8, <1>9
-----------------------------------------------------------------------------
\* While the graph stands still.

LEMMA StillFollowed ==
  ASSUME TypeOK, Still, NEW i \in 1 .. Len(graph)
  PROVE  OfKinds(graph[i]) = Followed
<1>1. graph \in Seq(SUBSET Edges) /\ DOMAIN graph = 1 .. Len(graph)  BY DEF TypeOK
<1>2. graph # <<>>
  <2>1. Len(<<>>) = 0  OBVIOUS
  <2> QED  BY <2>1
<1>3. 1 \in 1 .. Len(graph)  BY <1>1
<1>4. graph[i] = graph[1]  BY <1>1, <1>3 DEF Still
<1> QED  BY <1>2, <1>4 DEF Followed

\* v is among the first i layers.
FoundBy(i, v) == v = search.from \/ \E j \in 1 .. i : v \in search.layer[j]

\* A layer before the target is found is all the users not found earlier that a row
\* leads to from the layer before.
LEMMA LayerIs ==
  ASSUME GraphInv, ExactInv, search # None, Still, NEW i \in 1 .. Len(search.layer),
         search.op = "path" => search.to \notin search.layer[i], NEW v
  PROVE  v \in search.layer[i] <=>
           /\ \E e \in Followed : e[1] \in Before(i) /\ e[2] = v
           /\ ~FoundBy(i - 1, v)
<1>1. /\ search.layer \in Seq(SUBSET Users) /\ graph \in Seq(SUBSET Edges)
      /\ Len(search.layer) <= Len(graph)
  BY SearchFields DEF GraphInv, TypeOK, SearchInv
<1>2. i \in 1 .. Len(graph)  BY <1>1
<1>3. OfKinds(graph[i]) = Followed  BY <1>2, StillFollowed DEF GraphInv
<1>4. OfKinds(graph[i]) \subseteq Edges  BY <1>1, <1>2 DEF OfKinds
<1>5. \A w \in Users : w \in search.layer[i] <=> NextTo(i, w)
  BY DEF ExactInv, LayersExact
<1>6. v \in search.layer[i] => v \in Users  BY <1>1
<1>7. NextTo(i, v) => v \in Users  BY <1>4 DEF NextTo, Edges
<1> QED  BY <1>3, <1>5, <1>6, <1>7 DEF NextTo, FoundBy

LEMMA LayersWithin ==
  ASSUME GraphInv, ExactInv, search # None, Still,
         NEW m \in Nat, m <= Len(search.layer),
         search.op = "path" => \A i \in 1 .. m : search.to \notin search.layer[i]
  PROVE  \A i \in 0 .. m : \A v : v \in Within[i] <=> FoundBy(i, v)
<1> DEFINE P(i) == \A v : v \in Within[i] <=> FoundBy(i, v)
           S == {i \in Nat : i <= m => \A k \in 0 .. i : P(k)}
<1>1. /\ Within[0] = {search.from}
      /\ \A n \in 1 .. search.cap : Within[n] = Steps(Followed, Within[n - 1])
  BY WithinIs DEF GraphInv
<1>2. /\ search.cap \in Nat /\ Len(search.layer) \in Nat /\ Len(search.layer) <= search.cap
      /\ search.layer \in Seq(SUBSET Users)
  BY SearchFields DEF GraphInv, LayersApart
<1>3. P(0)  BY <1>1 DEF FoundBy
<1>4. 0 \in S  BY <1>3
<1>5. ASSUME NEW i \in Nat, i \in S  PROVE i + 1 \in S
  <2> SUFFICES ASSUME i + 1 <= m  PROVE \A k \in 0 .. i + 1 : P(k)
    OBVIOUS
  <2>1. \A k \in 0 .. i : P(k)  BY <1>5
  <2>2. /\ i + 1 \in 1 .. Len(search.layer) /\ i + 1 \in 1 .. search.cap /\ (i + 1) - 1 = i
        /\ i + 1 \in 1 .. m /\ 1 .. i + 1 = (1 .. i) \cup {i + 1} /\ i \in 0 .. i
        /\ 0 .. i + 1 = (0 .. i) \cup {i + 1}
    BY <1>2
  <2>3. Within[i + 1] = Steps(Followed, Within[i])  BY <1>1, <2>2
  <2>4. \A v : v \in search.layer[i + 1] <=>
                 /\ \E e \in Followed : e[1] \in Before(i + 1) /\ e[2] = v
                 /\ ~FoundBy(i, v)
    BY <2>2, LayerIs
  <2>5. \A v : v \in Within[i] <=> FoundBy(i, v)  BY <2>1, <2>2
  <2>6. \A v \in Before(i + 1) : FoundBy(i, v)
    <3>1. CASE i = 0  BY <3>1 DEF Before, FoundBy
    <3>2. CASE i # 0
      <4>1. i \in 1 .. i /\ i + 1 # 1  BY <3>2
      <4> QED  BY <2>2, <4>1 DEF Before, FoundBy
    <3> QED  BY <3>1, <3>2
  <2>7. \A e \in Followed : FoundBy(i, e[1]) => e[1] \in Before(i + 1) \/ FoundBy(i, e[2])
    <3> SUFFICES ASSUME NEW e \in Followed, FoundBy(i, e[1]), e[1] \notin Before(i + 1)
                 PROVE  FoundBy(i, e[2])
      OBVIOUS
    <3>1. i # 0
      <4> SUFFICES ASSUME i = 0  PROVE FALSE
        OBVIOUS
      <4>1. e[1] = search.from  BY DEF FoundBy
      <4> QED  BY <4>1 DEF Before
    <3>2. /\ i \in 1 .. search.cap /\ i - 1 \in 0 .. i /\ i + 1 # 1
          /\ 1 .. i = (1 .. i - 1) \cup {i}
      BY <3>1, <1>2, <2>2
    <3>3. e[1] \notin search.layer[i]  BY <2>2, <3>2 DEF Before
    <3>4. FoundBy(i - 1, e[1])  BY <3>2, <3>3 DEF FoundBy
    <3>5. e[1] \in Within[i - 1]  BY <2>1, <3>2, <3>4
    <3>6. e[2] \in Within[i]  BY <1>1, <3>2, <3>5 DEF Steps
    <3> QED  BY <2>5, <3>6
  <2>8. \A v : FoundBy(i + 1, v) <=> FoundBy(i, v) \/ v \in search.layer[i + 1]
    BY <2>2 DEF FoundBy
  <2>9. \A v : v \in Within[i + 1] <=>
                 FoundBy(i, v) \/ \E e \in Followed : FoundBy(i, e[1]) /\ e[2] = v
    BY <2>3, <2>5 DEF Steps
  <2>10. P(i + 1)  BY <2>4, <2>6, <2>7, <2>8, <2>9
  <2> QED  BY <2>1, <2>2, <2>10
<1> HIDE DEF S
<1>6. m \in S  BY <1>4, <1>5, SetInduction
<1> QED  BY <1>6 DEF S

\* When no row leads on, nobody is farther.
LEMMA NobodyFarther ==
  ASSUME GraphInv, search # None, NEW m \in Nat, m <= search.cap,
         \A e \in Followed : e[1] \in Within[m] => e[2] \in Within[m]
  PROVE  Within[search.cap] = Within[m]
<1> DEFINE S == {i \in Nat : m + i <= search.cap => Within[m + i] = Within[m]}
<1>1. \A n \in 1 .. search.cap : Within[n] = Steps(Followed, Within[n - 1])
  BY WithinIs DEF GraphInv
<1>2. search.cap \in Nat  BY SearchFields DEF GraphInv
<1>3. 0 \in S  OBVIOUS
<1>4. ASSUME NEW i \in Nat, i \in S  PROVE i + 1 \in S
  <2> SUFFICES ASSUME m + (i + 1) <= search.cap  PROVE Within[m + (i + 1)] = Within[m]
    OBVIOUS
  <2>1. m + (i + 1) \in 1 .. search.cap /\ (m + (i + 1)) - 1 = m + i /\ m + i <= search.cap
    BY <1>2
  <2>2. Within[m + i] = Within[m]  BY <1>4, <2>1
  <2>3. Within[m + (i + 1)] = Steps(Followed, Within[m])  BY <1>1, <2>1, <2>2
  <2> QED  BY <2>3 DEF Steps
<1> HIDE DEF S
<1>5. Nat \subseteq S  BY <1>3, <1>4, SetInduction
<1>6. PICK i \in Nat : m + i = search.cap
  <2>1. search.cap - m \in Nat /\ m + (search.cap - m) = search.cap  BY <1>2
  <2> QED  BY <2>1
<1> QED  BY <1>2, <1>5, <1>6 DEF S

\* What a search that ended has found.
LEMMA AllWithin ==
  ASSUME GraphInv, ExactInv, search # None, search.done, Still,
         search.op = "path" => search.to \notin Found
  PROVE  Reached = Within[search.cap]
<1>1. PICK m \in Nat : m = Len(search.layer)
  BY SearchFields DEF GraphInv
<1>2. /\ search.cap \in Nat /\ m <= search.cap /\ search.layer \in Seq(SUBSET Users)
      /\ graph \in Seq(SUBSET Edges)
  BY <1>1, SearchFields DEF GraphInv, LayersApart, TypeOK
<1>3. \A i \in 1 .. m : search.layer[i] \subseteq Found  BY <1>1 DEF Found
<1>4. \A i \in 0 .. m : \A v : v \in Within[i] <=> FoundBy(i, v)
  <2>1. search.op = "path" => \A i \in 1 .. m : search.to \notin search.layer[i]
    BY <1>3
  <2> QED  BY <1>1, <1>2, <2>1, LayersWithin
<1>5. \A v : v \in Reached <=> FoundBy(m, v)
  BY <1>1 DEF Reached, Found, FoundBy
<1>6. Reached = Within[m]
  <2>1. m \in 0 .. m  OBVIOUS
  <2>2. \A v : v \in Within[m] <=> v \in Reached  BY <1>4, <1>5, <2>1
  <2> QED  BY <2>2
<1>7. CASE m = search.cap  BY <1>6, <1>7
<1>8. CASE m # search.cap
  <2>1. /\ Len(graph) = m + 1
        /\ \A e \in OfKinds(graph[Len(graph)]) : e[1] \in Frontier => e[2] \in Reached
    BY <1>1, <1>8 DEF ExactInv, EndedFor
  <2>2. OfKinds(graph[Len(graph)]) = Followed
    <3>1. Len(graph) \in 1 .. Len(graph)  BY <2>1
    <3> QED  BY <3>1, StillFollowed DEF GraphInv
  <2>3. \A e \in Followed : e[1] \in Reached => e[2] \in Reached
    <3> SUFFICES ASSUME NEW e \in Followed, e[1] \in Reached, e[1] \notin Frontier
                 PROVE  e[2] \in Reached
      BY <2>1, <2>2
    <3>1. m # 0
      <4> SUFFICES ASSUME m = 0  PROVE FALSE
        OBVIOUS
      <4>1. search.layer = <<>>  BY <1>1, <1>2, EmptySeq
      <4>2. Reached = {search.from}  BY <1>5 DEF FoundBy
      <4> QED  BY <4>1, <4>2 DEF Frontier
    <3>2. /\ m \in 1 .. search.cap /\ m - 1 \in 0 .. m /\ m \in 0 .. m
          /\ 1 .. m = (1 .. m - 1) \cup {m}
      BY <3>1, <1>2
    <3>3. search.layer # <<>>
      <4>1. Len(<<>>) = 0  OBVIOUS
      <4> QED  BY <4>1, <3>1, <1>1
    <3>4. e[1] \notin search.layer[m]  BY <3>3, <1>1 DEF Frontier
    <3>5. FoundBy(m - 1, e[1])  BY <1>5, <3>2, <3>4 DEF FoundBy
    <3>6. e[1] \in Within[m - 1]  BY <1>4, <3>2, <3>5
    <3>7. Within[m] = Steps(Followed, Within[m - 1])
      BY <3>2, WithinIs DEF GraphInv
    <3> QED  BY <3>6, <3>7, <1>6 DEF Steps
  <2> QED  BY <1>2, <1>6, <2>3, NobodyFarther
<1> QED  BY <1>7, <1>8

\* While the graph stands still, layer i of expand and of friendsOfFriends is who is
\* at distance i, and all within the depth are there in the end (graph-query.service.ts
\* 43-69, relations.service.ts 130-149).
THEOREM LayersAreWho == Spec => []LayersAreDistances
<1>1. ASSUME GraphInv, ExactInv  PROVE LayersAreDistances
  <2> SUFFICES ASSUME search # None, search.op # "path", Still
               PROVE  /\ \A i \in 1 .. Len(search.layer) :
                           search.layer[i] = Within[i] \ Within[i - 1]
                      /\ search.done => Reached = Within[search.cap]
    BY DEF LayersAreDistances
  <2>1. PICK m \in Nat : m = Len(search.layer)
    BY <1>1, SearchFields DEF GraphInv
  <2>2. \A i \in 0 .. m : \A v : v \in Within[i] <=> FoundBy(i, v)
    BY <1>1, <2>1, LayersWithin
  <2>3. ASSUME NEW i \in 1 .. m  PROVE search.layer[i] = Within[i] \ Within[i - 1]
    <3>1. i \in 0 .. m /\ i - 1 \in 0 .. m /\ 1 .. i = (1 .. i - 1) \cup {i}  OBVIOUS
    <3>2. \A v : v \in search.layer[i] => ~FoundBy(i - 1, v)
      BY <1>1, <2>1, LayerIs
    <3>3. \A v : FoundBy(i, v) <=> FoundBy(i - 1, v) \/ v \in search.layer[i]
      BY <3>1 DEF FoundBy
    <3> QED  BY <2>2, <3>1, <3>2, <3>3
  <2>4. search.done => Reached = Within[search.cap]
    BY <1>1, AllWithin
  <2> QED  BY <2>1, <2>3, <2>4
<1> QED  BY <1>1, ExactAlways, PTL
-----------------------------------------------------------------------------
\* The path answered.

LEMMA ParentIs ==
  ASSUME GraphInv, ExactInv, search # None, search.op = "path",
         NEW i \in 1 .. Len(search.layer), NEW v \in search.layer[i]
  PROVE  /\ ParentRow(v) \in graph[i] /\ ParentRow(v)[2] = v
         /\ ParentRow(v)[1] \in Before(i) /\ Parent(v) = ParentRow(v)[1]
<1>1. v \in Found  BY DEF Found
<1>2. \E e \in search.tree : e[2] = v  BY <1>1 DEF ExactInv, TreeInv
<1>3. ParentRow(v) \in search.tree /\ ParentRow(v)[2] = v  BY <1>2 DEF ParentRow
<1>4. v # search.from  BY <1>1 DEF GraphInv, LayersApart
<1> QED  BY <1>3, <1>4 DEF GraphInv, LayersHeld, Parent

LEMMA BackIs ==
  ASSUME GraphInv, ExactInv, PathAnswered
  PROVE  /\ DOMAIN Back = 0 .. Len(search.layer) /\ Back[0] = search.to
         /\ \A n \in 1 .. Len(search.layer) : Back[n] = Parent(Back[n - 1])
<1>1. search # None /\ search.op = "path" /\ search.to \in Found
  BY DEF PathAnswered, Answered
<1>2. PICK c \in Nat : c = Len(search.layer)
  BY <1>1, SearchFields DEF GraphInv
<1> DEFINE D == Found \cup {search.from}
           F == [v \in D |-> Parent(v)]
<1>3. ASSUME NEW v \in D  PROVE Parent(v) \in D
  <2>1. CASE v = search.from  BY <2>1 DEF Parent
  <2>2. CASE v \in Found
    <3>1. PICK i \in 1 .. c : v \in search.layer[i]  BY <1>2, <2>2 DEF Found
    <3>2. Parent(v) \in Before(i)  BY <1>1, <1>2, <3>1, ParentIs
    <3>3. CASE i = 1  BY <3>2, <3>3 DEF Before
    <3>4. CASE i # 1
      <4>1. i - 1 \in 1 .. c  BY <3>4
      <4> QED  BY <1>2, <3>2, <3>4, <4>1 DEF Before, Found
    <3> QED  BY <3>3, <3>4
  <2> QED  BY <2>1, <2>2
<1>4. PICK f : f \in [0 .. c -> D] /\ f[0] = search.to /\ \A n \in 1 .. c : f[n] = F[f[n - 1]]
  <2>1. PICK E, a, G : E = D /\ a = search.to /\ G = F  OBVIOUS
  <2>2. a \in E /\ G \in [E -> E]  BY <1>1, <1>3, <2>1
  <2> HIDE DEF D, F
  <2>3. \E f : Iterates(f, E, G, a, c)
    BY <2>2, Iterating
  <2> QED  BY <2>1, <2>3 DEF Iterates
<1>5. \A n \in 1 .. c : f[n] = Parent(f[n - 1])
  <2> SUFFICES ASSUME NEW n \in 1 .. c  PROVE f[n] = Parent(f[n - 1])
    OBVIOUS
  <2>1. n - 1 \in 0 .. c  OBVIOUS
  <2>2. f[n - 1] \in D  BY <1>4, <2>1
  <2> QED  BY <1>4, <2>2
<1> HIDE DEF D, F
<1>6. f = [n \in 0 .. Len(search.layer) |-> IF n = 0 THEN search.to ELSE Parent(f[n - 1])]
  <2>1. \A n \in 0 .. c : n = 0 \/ n \in 1 .. c  OBVIOUS
  <2> QED  BY <1>2, <1>4, <1>5, <2>1
<1>7. Back = [n \in 0 .. Len(search.layer) |-> IF n = 0 THEN search.to ELSE Parent(Back[n - 1])]
  BY <1>6 DEF Back
<1>8. /\ DOMAIN Back = 0 .. c
      /\ \A n \in 0 .. c : Back[n] = IF n = 0 THEN search.to ELSE Parent(Back[n - 1])
  <2>1. PICK w : w = Back  OBVIOUS
  <2>2. w = [n \in 0 .. c |-> IF n = 0 THEN search.to ELSE Parent(w[n - 1])]
    BY <1>2, <1>7, <2>1
  <2>3. DOMAIN w = 0 .. c  BY <2>2
  <2>4. ASSUME NEW n \in 0 .. c
        PROVE  w[n] = IF n = 0 THEN search.to ELSE Parent(w[n - 1])
    BY <2>2
  <2> QED  BY <2>1, <2>3, <2>4
<1>9. 0 \in 0 .. c /\ \A n \in 1 .. c : n \in 0 .. c /\ n # 0  OBVIOUS
<1> QED  BY <1>2, <1>8, <1>9

\* Going back from the target takes a layer at a time and ends where the search began.
LEMMA BackLayers ==
  ASSUME GraphInv, ExactInv, PathAnswered, NEW k \in Nat, k = Len(search.layer)
  PROVE  /\ k \in 1 .. search.cap
         /\ \A i \in 0 .. k - 1 : Back[i] \in search.layer[k - i]
         /\ Back[k] = search.from
<1>1. search # None /\ search.op = "path" /\ search.to \in Found
  BY DEF PathAnswered, Answered
<1>2. PICK j \in 1 .. k : search.to \in search.layer[j]  BY <1>1 DEF Found
<1>3. search.to \in search.layer[k]  BY <1>1, <1>2 DEF ExactInv, TreeInv
<1>4. k \in 1 .. search.cap
  <2>1. search.cap \in Nat /\ k <= search.cap  BY <1>1, SearchFields DEF GraphInv, LayersApart
  <2> QED  BY <1>2, <2>1
<1>5. /\ Back[0] = search.to
      /\ \A n \in 1 .. k : Back[n] = Parent(Back[n - 1])
  BY BackIs
<1> DEFINE S == {i \in Nat : i < k => Back[i] \in search.layer[k - i]}
<1>6. 0 \in S  BY <1>3, <1>5
<1>7. ASSUME NEW i \in Nat, i \in S  PROVE i + 1 \in S
  <2> SUFFICES ASSUME i + 1 < k  PROVE Back[i + 1] \in search.layer[k - (i + 1)]
    OBVIOUS
  <2>1. /\ i + 1 \in 1 .. k /\ (i + 1) - 1 = i /\ k - i \in 1 .. k /\ k - i # 1
        /\ (k - i) - 1 = k - (i + 1)
    OBVIOUS
  <2>2. Back[i] \in search.layer[k - i]  BY <1>7
  <2>3. Back[i + 1] = Parent(Back[i])  BY <1>5, <2>1
  <2>4. Back[i + 1] \in Before(k - i)  BY <1>1, <2>1, <2>2, <2>3, ParentIs
  <2> QED  BY <2>1, <2>4 DEF Before
<1> HIDE DEF S
<1>8. \A i \in 0 .. k - 1 : Back[i] \in search.layer[k - i]
  <2>1. Nat \subseteq S  BY <1>6, <1>7, SetInduction
  <2> QED  BY <2>1 DEF S
<1>9. Back[k] = search.from
  <2>1. k - 1 \in 0 .. k - 1 /\ k - (k - 1) = 1 /\ k \in 1 .. k /\ 1 \in 1 .. k
    BY <1>4
  <2>2. Back[k - 1] \in search.layer[1]  BY <1>8, <2>1
  <2>3. Parent(Back[k - 1]) \in Before(1)  BY <1>1, <2>1, <2>2, ParentIs
  <2> QED  BY <1>5, <2>1, <2>3 DEF Before
<1> QED  BY <1>4, <1>8, <1>9

\* A row for each layer.
LEMMA PathIs ==
  ASSUME GraphInv, ExactInv, PathAnswered, NEW k \in Nat, k = Len(search.layer)
  PROVE  /\ Len(Path) = k
         /\ \A i \in 1 .. k : Path[i] = ParentRow(Back[k - i])
<1>1. search # None  BY DEF PathAnswered, Answered
<1>2. /\ k \in 1 .. search.cap
      /\ \A i \in 0 .. k - 1 : Back[i] \in search.layer[k - i]
      /\ Back[k] = search.from
  BY BackLayers
<1>3. DOMAIN Back = 0 .. k  BY BackIs
<1>4. \A i \in 0 .. k - 1 : Back[i] # search.from
  <2> SUFFICES ASSUME NEW i \in 0 .. k - 1  PROVE Back[i] # search.from
    OBVIOUS
  <2>1. k - i \in 1 .. k  OBVIOUS
  <2>2. Back[i] \in Found  BY <1>2, <2>1 DEF Found
  <2> QED  BY <1>1, <2>2 DEF GraphInv, LayersApart
<1>5. {i \in DOMAIN Back : Back[i] # search.from} = 0 .. k - 1
  <2>1. 0 .. k = (0 .. k - 1) \cup {k} /\ k \notin 0 .. k - 1  OBVIOUS
  <2> QED  BY <1>2, <1>3, <1>4, <2>1
<1>6. Cardinality(0 .. k - 1) = k
  BY <1>2, FS_Interval
<1>7. Path = [i \in 1 .. k |-> ParentRow(Back[k - i])]
  BY <1>5, <1>6 DEF Path
<1> QED  BY <1>7

\* Whatever changes meanwhile, the path answered leads from one to the other, each of
\* its rows was confirmed when its layer was asked for, and nobody is on it twice
\* (graph-query.service.ts 100-135).
THEOREM PathsHeld == Spec => []PathHeld
<1>1. ASSUME GraphInv, ExactInv  PROVE PathHeld
  <2> SUFFICES ASSUME PathAnswered
               PROVE  /\ Len(Path) \in 1 .. search.cap
                      /\ Path[1][1] = search.from /\ Path[Len(Path)][2] = search.to
                      /\ \A i \in 1 .. Len(Path) : Path[i] \in graph[i]
                      /\ \A i \in 1 .. Len(Path) - 1 : Path[i][2] = Path[i + 1][1]
                      /\ \A i, k \in 1 .. Len(Path) : Path[i][2] = Path[k][2] => i = k
    BY DEF PathHeld
  <2>1. search # None /\ search.op = "path"  BY DEF PathAnswered, Answered
  <2>2. PICK k \in Nat : k = Len(search.layer)
    BY <1>1, <2>1, SearchFields DEF GraphInv
  <2>3. /\ k \in 1 .. search.cap
        /\ \A i \in 0 .. k - 1 : Back[i] \in search.layer[k - i]
    BY <1>1, <2>2, BackLayers
  <2>4. /\ Len(Path) = k
        /\ \A i \in 1 .. k : Path[i] = ParentRow(Back[k - i])
    BY <1>1, <2>2, PathIs
  <2>5. Back[0] = search.to /\ \A n \in 1 .. k : Back[n] = Parent(Back[n - 1])
    BY <1>1, <2>2, BackIs
  <2>6. ASSUME NEW i \in 1 .. k
        PROVE  /\ Back[k - i] \in search.layer[i]
               /\ Path[i] \in graph[i] /\ Path[i][2] = Back[k - i]
               /\ Path[i][1] \in Before(i) /\ Path[i][1] = Parent(Back[k - i])
    <3>1. k - i \in 0 .. k - 1 /\ k - (k - i) = i  OBVIOUS
    <3>2. Back[k - i] \in search.layer[i]  BY <2>3, <3>1
    <3> QED  BY <1>1, <2>1, <2>2, <2>4, <3>2, ParentIs
  <2>7. Path[1][1] = search.from
    <3>1. 1 \in 1 .. k  BY <2>3
    <3> QED  BY <2>6, <3>1 DEF Before
  <2>8. Path[k][2] = search.to
    <3>1. k \in 1 .. k /\ k - k = 0  BY <2>3
    <3> QED  BY <2>5, <2>6, <3>1
  <2>9. ASSUME NEW i \in 1 .. k - 1  PROVE Path[i][2] = Path[i + 1][1]
    <3>1. /\ i \in 1 .. k /\ i + 1 \in 1 .. k /\ k - i \in 1 .. k
          /\ (k - i) - 1 = k - (i + 1)
      OBVIOUS
    <3>2. Path[i + 1][1] = Parent(Back[k - (i + 1)])  BY <2>6, <3>1
    <3>3. Back[k - i] = Parent(Back[k - (i + 1)])  BY <2>5, <3>1
    <3> QED  BY <2>6, <3>1, <3>2, <3>3
  <2>10. ASSUME NEW i \in 1 .. k, NEW n \in 1 .. k, Path[i][2] = Path[n][2]
         PROVE  i = n
    <3>1. Back[k - i] \in search.layer[i] \cap search.layer[n]  BY <2>6, <2>10
    <3> QED  BY <1>1, <2>1, <2>2, <3>1 DEF GraphInv, LayersApart
  <2> QED  BY <2>3, <2>4, <2>6, <2>7, <2>8, <2>9, <2>10
<1> QED  BY <1>1, ExactAlways, PTL

\* While the graph stands still, findPath answers a shortest path, and none only when
\* the target is farther than the depth (graph-query.service.ts 90-135).
THEOREM PathsAreShortest == Spec => []PathIsShortest
<1>1. ASSUME GraphInv, ExactInv  PROVE PathIsShortest
  <2> SUFFICES ASSUME Answered("path"), Still
               PROVE  IF search.to \in Found
                        THEN search.to \in Within[Len(Path)] \ Within[Len(Path) - 1]
                        ELSE search.to \notin Within[search.cap]
    BY DEF PathIsShortest
  <2>1. search # None /\ search.op = "path" /\ search.done  BY DEF Answered
  <2>2. CASE search.to \notin Found
    <3>1. Reached = Within[search.cap]  BY <1>1, <2>1, <2>2, AllWithin
    <3>2. search.to # search.from  BY <1>1, <2>1 DEF ExactInv, TreeInv
    <3> QED  BY <2>2, <3>1, <3>2 DEF Reached
  <2>3. CASE search.to \in Found
    <3>1. PICK k \in Nat : k = Len(search.layer)
      BY <1>1, <2>1, SearchFields DEF GraphInv
    <3>2. PathAnswered  BY <2>3 DEF PathAnswered
    <3>3. /\ k \in 1 .. search.cap /\ Len(Path) = k
          /\ \A i \in 0 .. k - 1 : Back[i] \in search.layer[k - i]
          /\ Back[0] = search.to
      BY <1>1, <3>1, <3>2, BackLayers, PathIs, BackIs
    <3>4. search.to \in search.layer[k]
      <4>1. 0 \in 0 .. k - 1 /\ k - 0 = k  BY <3>3
      <4> QED  BY <3>3, <4>1
    <3>5. \A i \in 1 .. k - 1 : search.to \notin search.layer[i]
      BY <1>1, <2>1, <3>1 DEF ExactInv, TreeInv
    <3>6. \A i \in 0 .. k - 1 : \A v : v \in Within[i] <=> FoundBy(i, v)
      <4>1. k - 1 \in Nat /\ k - 1 <= Len(search.layer)  BY <3>1, <3>3
      <4> QED  BY <1>1, <2>1, <3>5, <4>1, LayersWithin
    <3>7. k - 1 \in 0 .. k - 1 /\ k \in 1 .. k  BY <3>3
    <3>8. search.to \notin Within[k - 1]
      <4>1. search.to # search.from  BY <1>1, <2>1 DEF ExactInv, TreeInv
      <4>2. ~FoundBy(k - 1, search.to)  BY <3>5, <4>1 DEF FoundBy
      <4> QED  BY <3>6, <3>7, <4>2
    <3>9. search.to \in Within[k]
      <4>1. Within[k] = Steps(Followed, Within[k - 1])
        BY <1>1, <2>1, <3>3, WithinIs DEF GraphInv
      <4>2. \E e \in OfKinds(graph[k]) : e[1] \in Before(k) /\ e[2] = search.to
        <5>1. search.to \in Users
          <6>1. search.layer \in Seq(SUBSET Users)  BY <1>1, <2>1, SearchFields DEF GraphInv
          <6> QED  BY <3>1, <3>4, <3>7, <6>1
        <5> QED  BY <1>1, <2>1, <3>1, <3>4, <3>7, <5>1 DEF ExactInv, LayersExact, NextTo
      <4>3. OfKinds(graph[k]) = Followed
        <5>1. Len(search.layer) <= Len(graph) /\ graph \in Seq(SUBSET Edges)
          BY <1>1, <2>1 DEF GraphInv, SearchInv, TypeOK
        <5>2. k \in 1 .. Len(graph)  BY <3>1, <3>7, <5>1
        <5> QED  BY <1>1, <5>2, StillFollowed DEF GraphInv
      <4>4. \A v \in Before(k) : FoundBy(k - 1, v)
        <5>1. CASE k = 1  BY <5>1 DEF Before, FoundBy
        <5>2. CASE k # 1
          <6>1. k - 1 \in 1 .. k - 1  BY <3>3, <5>2
          <6> QED  BY <5>2, <6>1 DEF Before, FoundBy
        <5> QED  BY <5>1, <5>2
      <4>5. Before(k) \subseteq Within[k - 1]  BY <3>6, <3>7, <4>4
      <4> QED  BY <4>1, <4>2, <4>3, <4>5 DEF Steps
    <3> QED  BY <2>3, <3>3, <3>8, <3>9
  <2> QED  BY <2>2, <2>3
<1> QED  BY <1>1, ExactAlways, PTL
=============================================================================
