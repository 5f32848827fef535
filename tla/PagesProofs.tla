------------------------------ MODULE PagesProofs ------------------------------
(***************************************************************************)
(* Proofs about what the pages are given and hold. Paging: no reader is    *)
(* given a row twice, and one who reaches the end was given every post     *)
(* that stayed and was found the same way by each request's queries, or    *)
(* every message that stayed but those at the page boundaries; for every   *)
(* page size, any people and any number of rows. Scanner: the camera and   *)
(* the loop end with the overlay and a scan goes to its opener, for any    *)
(* number of opens.                                                        *)
(***************************************************************************)
EXTENDS Paging, Scanner, FiniteSetTheorems, TLAPS

USE ListsAssumption, PeopleAssumption, ContentsAssumption, LimitsAssumption, MaxIdAssumption

\* What the two statements of a request return: a page is the upper part of the
\* rows, and all of them when no more than a page was fetched.
LEMMA PageOfRows ==
  ASSUME NEW rows \in SUBSET Ids, IsFiniteSet(rows), NEW limit \in Nat \ {0},
         NEW fetched \in Newest(limit + 1, rows), NEW slice \in Newest(limit, fetched)
  PROVE  /\ slice \subseteq fetched /\ fetched \subseteq rows
         /\ \A i \in slice, j \in rows \ slice : j < i
         /\ Cardinality(fetched) =< limit => slice = rows
<1>1. slice \subseteq fetched /\ fetched \subseteq rows  BY DEF Newest
<1>2. \A i \in slice, j \in rows \ slice : j < i
  <2> SUFFICES ASSUME NEW i \in slice, NEW j \in rows \ slice PROVE j < i  OBVIOUS
  <2>1. CASE j \in fetched  BY <2>1 DEF Newest
  <2>2. CASE j \notin fetched  BY <1>1, <2>2 DEF Newest
  <2> QED  BY <2>1, <2>2
<1>3. ASSUME Cardinality(fetched) =< limit PROVE slice = rows
  <2>1. IsFiniteSet(fetched) /\ Cardinality(fetched) \in Nat
    BY <1>1, FS_Subset, FS_CardinalityType
  <2>2. Cardinality(fetched) # limit + 1  BY <1>3, <2>1
  <2>3. fetched = rows  BY <2>2 DEF Newest
  <2>4. CASE Cardinality(slice) = limit
    <3>1. Cardinality(slice) =< Cardinality(fetched)
            /\ (Cardinality(fetched) = Cardinality(slice) => fetched = slice)
      BY <1>1, <2>1, FS_Subset
    <3> QED  BY <1>3, <2>1, <2>3, <2>4, <3>1
  <2>5. CASE slice = fetched  BY <2>3, <2>5
  <2> QED  BY <2>4, <2>5 DEF Newest
<1> QED  BY <1>1, <1>2, <1>3

LEMMA BelowIsFinite ==
  Below(cursor) \in SUBSET Ids /\ IsFiniteSet(Below(cursor))
<1>1. Below(cursor) \in SUBSET Ids  BY DEF Below
<1>2. IsFiniteSet(Ids)  BY FS_Interval DEF Ids
<1> QED  BY <1>1, <1>2, FS_Subset

\* What one look-ahead row means: the one row fetched and not given.
LEMMA OneBeyond ==
  ASSUME NEW rows \in SUBSET Ids, IsFiniteSet(rows), NEW limit \in Nat \ {0},
         NEW fetched \in Newest(limit + 1, rows), NEW slice \in Newest(limit, fetched),
         Cardinality(fetched) > limit
  PROVE  \E x \in fetched : fetched \ slice = {x}
<1>1. slice \subseteq fetched /\ fetched \subseteq rows  BY PageOfRows
<1>2. IsFiniteSet(fetched)  BY <1>1, FS_Subset
<1>3. Cardinality(fetched) \in Nat  BY <1>2, FS_CardinalityType
<1>4. Cardinality(fetched) = limit + 1  BY <1>3 DEF Newest
<1>5. Cardinality(slice) = limit  BY <1>3, <1>4 DEF Newest
<1>6. fetched \cap slice = slice  BY <1>1
<1>7. Cardinality(fetched \ slice) = Cardinality(fetched) - Cardinality(fetched \cap slice)
  BY <1>2, FS_Difference
<1>8. IsFiniteSet(fetched \ slice)  BY <1>2, FS_Difference
<1>9. Cardinality(fetched \ slice) = 1
  <2>1. Cardinality(fetched \cap slice) = limit  BY <1>5, <1>6
  <2>2. Cardinality(fetched \ slice) = (limit + 1) - limit  BY <1>4, <1>7, <2>1
  <2> QED  BY <2>2
<1>10. \E x : fetched \ slice = {x}  BY <1>8, <1>9, FS_Singleton
<1> QED  BY <1>10

\* A request moves the cursor down to one of the rows it found. It passes over none
\* it does not give, but the message list over the row it takes the cursor from.
LEMMA CursorMoves ==
  ASSUME TypeOK, NEW limit \in Limits, NEW fetched \in Newest(limit + 1, Below(cursor)),
         NEW slice \in Newest(limit, fetched), Cardinality(fetched) > limit,
         cursor' \in CursorRows(fetched, slice),
         \A i \in CursorRows(fetched, slice) : cursor' =< i
  PROVE  /\ cursor' \in Ids /\ cursor' < cursor
         /\ \A i \in slice : cursor' =< i
         /\ \A j \in Below(cursor) \ slice : j < cursor' \/ (list = "messages" /\ j = cursor')
<1>1. /\ slice \subseteq fetched /\ fetched \subseteq Below(cursor)
      /\ \A i \in slice, j \in Below(cursor) \ slice : j < i
  BY BelowIsFinite, PageOfRows
<1>2. CursorRows(fetched, slice) \subseteq fetched /\ slice \subseteq CursorRows(fetched, slice)
  BY <1>1 DEF CursorRows
<1>3. cursor' \in Below(cursor)  BY <1>1, <1>2
<1>4. cursor' \in Ids /\ cursor' < cursor  BY <1>3 DEF Below
<1>5. CASE list # "messages"
  <2>1. cursor' \in slice  BY <1>5 DEF CursorRows
  <2> QED  BY <1>1, <1>2, <1>4, <2>1
<1>6. CASE list = "messages"
  <2>1. CursorRows(fetched, slice) = fetched  BY <1>6 DEF CursorRows
  <2>2. PICK x \in fetched : fetched \ slice = {x}  BY BelowIsFinite, OneBeyond
  <2>3. cursor' =< x /\ x \in Below(cursor) \ slice  BY <1>1, <2>1, <2>2
  <2>4. x \in Ids /\ Ids \subseteq Int  BY <2>3, BelowIsFinite DEF Ids
  <2>5. cursor' = x
    <3>1. CASE cursor' \in slice
      <4>1. x < cursor'  BY <1>1, <2>3, <3>1
      <4> QED  BY <1>4, <2>3, <2>4, <4>1
    <3>2. CASE cursor' \notin slice  BY <2>1, <2>2, <3>2
    <3> QED  BY <3>1, <3>2
  <2>6. ASSUME NEW j \in Below(cursor) \ slice PROVE j < cursor' \/ j = cursor'
    <3>1. CASE j \in fetched  BY <2>2, <2>5, <2>6, <3>1
    <3>2. CASE j \notin fetched  BY <2>1, <2>6, <3>2 DEF Newest
    <3> QED  BY <3>1, <3>2
  <2> QED  BY <1>2, <1>4, <1>6, <2>6
<1> QED  BY <1>5, <1>6

\* What a page request leaves: the rows given, and the cursor or the end.
LEMMA PageGiven ==
  ASSUME TypeOK, NEW limit \in Limits, ReadRows(limit)
  PROVE  \E slice \in SUBSET Below(cursor) :
           /\ shown' = shown \cup slice
           /\ \/ /\ reader' = "request" /\ cursor' \in Ids /\ cursor' < cursor
                 /\ passed' = passed \cup {cursor'}
                 /\ \A i \in slice : cursor' =< i
                 /\ \A j \in Below(cursor) \ slice :
                      j < cursor' \/ (list = "messages" /\ j = cursor')
              \/ reader' = "done" /\ UNCHANGED <<cursor, passed>> /\ slice = Below(cursor)
<1>1. PICK fetched \in Newest(limit + 1, Below(cursor)) : \E slice \in Newest(limit, fetched) :
        /\ shown' = shown \cup slice
        /\ IF Cardinality(fetched) > limit
             THEN /\ cursor' \in CursorRows(fetched, slice)
                  /\ \A i \in CursorRows(fetched, slice) : cursor' =< i
                  /\ passed' = passed \cup {cursor'}
                  /\ reader' = "request"
             ELSE reader' = "done" /\ UNCHANGED <<cursor, passed>>
  BY DEF ReadRows
<1>2. PICK slice \in Newest(limit, fetched) :
        /\ shown' = shown \cup slice
        /\ IF Cardinality(fetched) > limit
             THEN /\ cursor' \in CursorRows(fetched, slice)
                  /\ \A i \in CursorRows(fetched, slice) : cursor' =< i
                  /\ passed' = passed \cup {cursor'}
                  /\ reader' = "request"
             ELSE reader' = "done" /\ UNCHANGED <<cursor, passed>>
  BY <1>1
<1>3. slice \in SUBSET Below(cursor) /\ fetched \subseteq Below(cursor)
  BY BelowIsFinite, PageOfRows
<1>4. CASE Cardinality(fetched) > limit
  BY <1>2, <1>3, <1>4, CursorMoves
<1>5. CASE ~(Cardinality(fetched) > limit)
  <2>1. IsFiniteSet(fetched)  BY <1>3, BelowIsFinite, FS_Subset
  <2>2. Cardinality(fetched) =< limit  BY <1>5, <2>1, FS_CardinalityType
  <2>3. slice = Below(cursor)  BY <2>2, BelowIsFinite, PageOfRows
  <2> QED  BY <1>2, <1>3, <1>5, <2>3
<1> QED  BY <1>4, <1>5

\* The part of the invariant that needs nothing of who is listed.
NoRepeatInv == TypeOK /\ ShownFromCursor

LEMMA NoRepeatInit == Init => NoRepeatInv
BY DEF Init, NoRepeatInv, TypeOK, ShownFromCursor, NoCursor

LEMMA NoRepeatStep == NoRepeatInv /\ [Next]_vars => NoRepeatInv'
<1> SUFFICES ASSUME NoRepeatInv, [Next]_vars PROVE NoRepeatInv'
  OBVIOUS
<1> USE DEF NoRepeatInv
<1>1. CASE Open
  BY <1>1 DEF Open, table, TypeOK, ShownFromCursor, NoCursor
<1>2. CASE ReadFriends
  <2>1. near' \subseteq People  BY <1>2 DEF ReadFriends, FriendsOf
  <2>2. TypeOK'  BY <1>2, <2>1 DEF ReadFriends, table, TypeOK
  <2>3. ShownFromCursor'  BY <1>2 DEF ReadFriends, ShownFromCursor
  <2> QED  BY <2>2, <2>3
<1>3. CASE ReadFriendsOfFriends
  <2>1. far' \subseteq People  BY <1>3 DEF ReadFriendsOfFriends, FriendsOfFriends
  <2>2. TypeOK'  BY <1>3, <2>1 DEF ReadFriendsOfFriends, table, TypeOK
  <2>3. ShownFromCursor'  BY <1>3 DEF ReadFriendsOfFriends, ShownFromCursor
  <2> QED  BY <2>2, <2>3
<1>4. CASE FindConversation
  BY <1>4 DEF FindConversation, table, history, TypeOK, ShownFromCursor
<1>5. ASSUME NEW limit \in Limits, ReadRows(limit) PROVE NoRepeatInv'
  <2>1. PICK slice \in SUBSET Below(cursor) :
          /\ shown' = shown \cup slice
          /\ \/ /\ reader' = "request" /\ cursor' \in Ids /\ cursor' < cursor
                /\ passed' = passed \cup {cursor'}
                /\ \A i \in slice : cursor' =< i
             \/ reader' = "done" /\ UNCHANGED <<cursor, passed>>
    BY <1>5, PageGiven
  <2>2. UNCHANGED <<table, held, wanted>> /\ reader = "rows" /\ near' = {} /\ far' = {}
    BY <1>5 DEF ReadRows
  <2>3. slice \subseteq Ids  BY BelowIsFinite
  <2>4. TypeOK'
    <3>0. cursor \in 1 .. NoCursor /\ passed \subseteq Ids /\ shown \subseteq Ids  BY DEF TypeOK
    <3>1. shown' \subseteq Ids /\ reader' \in {"request", "done"}  BY <2>1, <2>3, <3>0
    <3>2. cursor' \in 1 .. NoCursor /\ passed' \subseteq Ids
      <4>1. CASE cursor' \in Ids /\ passed' = passed \cup {cursor'}
        BY <3>0, <4>1 DEF Ids, NoCursor
      <4>2. CASE UNCHANGED <<cursor, passed>>  BY <3>0, <4>2
      <4> QED  BY <2>1, <4>1, <4>2
    <3> QED  BY <2>2, <3>1, <3>2 DEF table, TypeOK
  <2>5. ShownFromCursor'
    <3>1. CASE reader' = "done"  BY <3>1 DEF ShownFromCursor
    <3>2. CASE reader' = "request"
      <4>1. cursor' \in Int /\ cursor \in Int /\ \A i \in shown \cup slice : i \in Int
        BY <2>1, <2>3, <3>2 DEF TypeOK, Ids, NoCursor
      <4>2. \A i \in shown : cursor =< i  BY <2>2 DEF ShownFromCursor
      <4> QED  BY <2>1, <3>2, <4>1, <4>2 DEF ShownFromCursor
    <3> QED  BY <2>1, <3>1, <3>2
  <2> QED  BY <2>4, <2>5
<1>6. ASSUME NEW content \in Contents, Create(content) PROVE NoRepeatInv'
  <2>1. created + 1 \in Ids /\ created' = created + 1  BY <1>6 DEF Create, TypeOK, Ids
  <2>2. content \in Row  BY ContentsAssumption
  <2>3. TypeOK'  BY <1>6, <2>1, <2>2 DEF Create, request, history, TypeOK, Ids
  <2> QED  BY <1>6, <2>3 DEF Create, request, ShownFromCursor
<1>7. ASSUME NEW i \in Ids, Delete(i) PROVE NoRepeatInv'
  BY <1>7 DEF Delete, request, TypeOK, ShownFromCursor
<1>8. ASSUME NEW t \in Ties, ChangeTie(t) PROVE NoRepeatInv'
  BY <1>8 DEF ChangeTie, request, TypeOK, ShownFromCursor
<1>9. CASE UNCHANGED vars
  BY <1>9 DEF vars, table, request, history, TypeOK, ShownFromCursor
<1> QED  BY <1>1, <1>2, <1>3, <1>4, <1>5, <1>6, <1>7, <1>8, <1>9 DEF Next, Read

\* So a cursor never stands above a row already given.
THEOREM NoRepeatInvariant == Spec => []NoRepeatInv
BY NoRepeatInit, NoRepeatStep, PTL DEF Spec

\* What a request holds keeps its type, and the cursor is an id or none.
THEOREM TypeCorrect == Spec => []TypeOK
<1>1. NoRepeatInv => TypeOK  BY DEF NoRepeatInv
<1> QED  BY <1>1, NoRepeatInvariant, PTL

\* feed() and listMessages() give a reader no row twice, whatever is created,
\* deleted, hidden or revealed between two statements.
THEOREM NoRepeats == Spec => []NeverTwice
<1>1. ASSUME NoRepeatInv PROVE NeverTwice
  <2>1. cursor \in Int /\ \A i \in shown : i \in Int
    BY <1>1 DEF NoRepeatInv, TypeOK, Ids, NoCursor
  <2> QED  BY <1>1, <2>1 DEF NoRepeatInv, ShownFromCursor, NeverTwice, Below
<1> QED  BY <1>1, NoRepeatInvariant, PTL

\* The part of the invariant about the rows that are wanted.
ListInv == WantedListed /\ NoneLeftBehind /\ Complete /\ LostAtBoundaries

\* Friends found by both relation queries lead to the authors they led to all along.
LEMMA FoundTheSameWay ==
  ASSUME TypeOK, WantedListed, reader = "fof", NEW i \in wanted
  PROVE  Matches(i, near, FriendsOfFriends(friend, near))
<1>1. /\ Listed(i, held) /\ FriendsOf(held) \subseteq near /\ held \subseteq friend
      /\ list \in {"all", "extended"} /\ (list = "extended" => row[i].author \notin near)
  BY DEF WantedListed, Kept, TypeOK
<1>2. row[i] # None  BY <1>1 DEF Listed, Matches
<1>3. CASE list # "extended" /\ row[i].author = Reader
  BY <1>2, <1>3 DEF Matches
<1>4. CASE list \in {"all", "friends"} /\ row[i].author \in FriendsOf(held)
  BY <1>1, <1>2, <1>4 DEF Matches
<1>5. CASE row[i].author \in FriendsOfFriends(held, FriendsOf(held)) /\ row[i].wide
  <2>1. PICK f \in FriendsOf(held) : <<f, row[i].author>> \in held
    BY <1>5 DEF FriendsOfFriends
  <2>2. row[i].author \in People /\ row[i].author # Reader /\ f \in near
    BY <1>1, <1>5 DEF FriendsOfFriends
  <2>3. CASE row[i].author \in near  BY <1>1, <1>2, <2>3 DEF Matches
  <2>4. CASE row[i].author \notin near
    <3>1. row[i].author \in FriendsOfFriends(friend, near)
      BY <1>1, <2>1, <2>2, <2>4 DEF FriendsOfFriends
    <3> QED  BY <1>1, <1>2, <1>5, <3>1 DEF Matches
  <2> QED  BY <2>3, <2>4
<1> QED  BY <1>1, <1>3, <1>4, <1>5 DEF Listed, Matches

LEMMA OpenList == ASSUME NoRepeatInv, ListInv, Open PROVE ListInv'
<1>1. WantedListed'
  BY DEF Open, table, WantedListed, Kept, Listed, Matches, FriendsOf, FriendsOfFriends
<1>2. \A i \in wanted' : i < NoCursor
  BY DEF Open, Ids, NoCursor
<1>3. NoneLeftBehind' /\ Complete' /\ LostAtBoundaries'
  BY <1>2 DEF Open, NoneLeftBehind, Complete, LostAtBoundaries
<1> QED  BY <1>1, <1>3 DEF ListInv

LEMMA ReadFriendsList == ASSUME NoRepeatInv, ListInv, ReadFriends PROVE ListInv'
<1>1. /\ reader = "request" /\ list \in Lists /\ list # "messages" /\ near' = FriendsOf(friend)
      /\ UNCHANGED <<friend, row, list, far, cursor, shown, wanted, passed>>
      /\ \A i \in wanted : Listed(i, friend)
  BY DEF ReadFriends, table, NoRepeatInv, TypeOK, ListInv, WantedListed, Kept
<1>2. CASE list \in {"all", "extended"}
  <2>1. reader' = "fof" /\ held' = friend  BY <1>2 DEF ReadFriends
  <2>2. \A i \in wanted' : Kept(i)'  BY <1>1, <2>1 DEF Kept, Listed, Matches, FriendsOf, FriendsOfFriends
  <2>3. FriendsOf(held)' = near'  BY <1>1, <2>1 DEF FriendsOf
  <2>4. list = "extended" => \A i \in wanted : row[i].author \notin near'
    BY <1>1 DEF Listed, Matches, FriendsOfFriends
  <2> QED
    BY <1>1, <1>2, <2>1, <2>2, <2>3, <2>4 DEF ListInv, WantedListed, NoneLeftBehind, Complete, LostAtBoundaries
<1>3. CASE list \notin {"all", "extended"}
  <2>1. reader' = "rows"  BY <1>3 DEF ReadFriends
  <2>2. \A i \in wanted : Matches(i, near', far)  BY <1>1, <1>3 DEF Listed, Matches
  <2>3. \A i \in wanted' : Kept(i)'  BY <1>1, <2>1 DEF Kept, Listed, Matches, FriendsOf, FriendsOfFriends
  <2>4. \A i \in wanted' : Matches(i, near, far)'  BY <1>1, <2>2 DEF Matches
  <2> QED
    BY <1>1, <2>1, <2>3, <2>4 DEF ListInv, WantedListed, NoneLeftBehind, Complete, LostAtBoundaries
<1> QED  BY <1>2, <1>3

LEMMA ReadFofList == ASSUME NoRepeatInv, ListInv, ReadFriendsOfFriends PROVE ListInv'
<1>1. /\ reader = "fof" /\ far' = FriendsOfFriends(friend, near)
      /\ reader' = IF list = "extended" /\ far' = {} THEN "done" ELSE "rows"
      /\ UNCHANGED <<friend, row, list, near, cursor, shown, wanted, passed>>
  BY DEF ReadFriendsOfFriends, table
<1>2. TypeOK /\ WantedListed /\ list \in {"all", "extended"}
  BY <1>1 DEF NoRepeatInv, ListInv, WantedListed
<1>3. \A i \in wanted : Matches(i, near, far')  BY <1>1, <1>2, FoundTheSameWay
<1>4. \A i \in wanted' : Matches(i, near, far)'  BY <1>1, <1>3 DEF Matches
<1>5. \A i \in wanted' : Kept(i)'
  BY <1>1, <1>2 DEF WantedListed, Kept, Listed, Matches, FriendsOf, FriendsOfFriends
<1>6. WantedListed'  BY <1>1, <1>4, <1>5 DEF WantedListed
<1>7. CASE reader' = "rows"
  BY <1>1, <1>6, <1>7 DEF ListInv, NoneLeftBehind, Complete, LostAtBoundaries
<1>8. CASE reader' = "done"
  <2>1. list = "extended" /\ far' = {}  BY <1>1, <1>8
  <2>2. wanted = {}  BY <1>3, <2>1 DEF Matches
  <2> QED  BY <1>1, <1>6, <1>8, <2>1, <2>2 DEF ListInv, NoneLeftBehind, Complete, LostAtBoundaries
<1> QED  BY <1>1, <1>7, <1>8

LEMMA FindConversationList == ASSUME NoRepeatInv, ListInv, FindConversation PROVE ListInv'
<1>1. /\ list = "messages" /\ reader = "request" /\ reader' = "rows"
      /\ UNCHANGED <<friend, row, list, near, far, cursor, shown, held, wanted, passed>>
  BY DEF FindConversation, table, history
<1>2. \A i \in wanted : Kept(i)  BY DEF ListInv, WantedListed
<1>3. \A i \in wanted' : Kept(i)' /\ Matches(i, near, far)'
  BY <1>1, <1>2 DEF Kept, Listed, Matches, FriendsOf, FriendsOfFriends
<1> QED  BY <1>1, <1>3 DEF ListInv, WantedListed, NoneLeftBehind, Complete, LostAtBoundaries

LEMMA ReadRowsList ==
  ASSUME NoRepeatInv, ListInv, NEW limit \in Limits, ReadRows(limit) PROVE ListInv'
<1>1. PICK slice \in SUBSET Below(cursor) :
        /\ shown' = shown \cup slice
        /\ \/ /\ reader' = "request" /\ cursor' \in Ids /\ cursor' < cursor
              /\ passed' = passed \cup {cursor'}
              /\ \A j \in Below(cursor) \ slice :
                   j < cursor' \/ (list = "messages" /\ j = cursor')
           \/ reader' = "done" /\ UNCHANGED <<cursor, passed>> /\ slice = Below(cursor)
  BY PageGiven DEF NoRepeatInv
<1>2. reader = "rows" /\ UNCHANGED <<friend, row, list, held, wanted>>
  BY DEF ReadRows, table
<1>3. \A i \in wanted : Kept(i) /\ Matches(i, near, far)
  BY <1>2 DEF ListInv, WantedListed
<1>4. WantedListed'
  <2>1. \A i \in wanted' : Kept(i)'
    BY <1>1, <1>2, <1>3 DEF Kept, Listed, Matches, FriendsOf, FriendsOfFriends
  <2> QED  BY <1>1, <2>1 DEF WantedListed
<1>5. \A i \in wanted : i \in Below(cursor) \/ i \in shown \/ (list = "messages" /\ i \in passed)
  BY <1>2, <1>3 DEF ListInv, NoneLeftBehind, NoRepeatInv, TypeOK, Below
<1>6. CASE reader' = "request"
  BY <1>1, <1>2, <1>4, <1>5, <1>6 DEF ListInv, NoneLeftBehind, Complete, LostAtBoundaries
<1>7. CASE reader' = "done"
  BY <1>1, <1>2, <1>4, <1>5, <1>7 DEF ListInv, NoneLeftBehind, Complete, LostAtBoundaries
<1> QED  BY <1>1, <1>6, <1>7

LEMMA CreateList ==
  ASSUME NoRepeatInv, ListInv, NEW content \in Contents, Create(content) PROVE ListInv'
<1>1. UNCHANGED <<friend, list, reader, near, far, cursor, shown, held, wanted, passed>>
  BY DEF Create, request, history
<1>2. ASSUME NEW i \in wanted PROVE row'[i] = row[i]
  <2>1. row[i] # None /\ i \in Ids
    BY DEF ListInv, WantedListed, Kept, Listed, Matches, NoRepeatInv, TypeOK
  <2>2. i # created + 1  BY <2>1 DEF NoRepeatInv, TypeOK
  <2> QED  BY <2>1, <2>2 DEF Create, NoRepeatInv, TypeOK
<1>3. \A i \in wanted' : Kept(i)'
  BY <1>1, <1>2 DEF ListInv, WantedListed, Kept, Listed, Matches, FriendsOf, FriendsOfFriends
<1>4. WantedListed'
  BY <1>1, <1>2, <1>3 DEF ListInv, WantedListed, Matches, FriendsOf
<1> QED  BY <1>1, <1>4 DEF ListInv, NoneLeftBehind, Complete, LostAtBoundaries

LEMMA DeleteList == ASSUME NoRepeatInv, ListInv, NEW d \in Ids, Delete(d) PROVE ListInv'
<1>1. /\ UNCHANGED <<friend, list, reader, near, far, cursor, shown, held, passed>>
      /\ wanted' = wanted \ {d}
  BY DEF Delete, request
<1>2. \A i \in wanted' : row'[i] = row[i] /\ i \in wanted
  BY <1>1 DEF Delete, NoRepeatInv, TypeOK
<1>3. \A i \in wanted' : Kept(i)'
  BY <1>1, <1>2 DEF ListInv, WantedListed, Kept, Listed, Matches, FriendsOf, FriendsOfFriends
<1>4. WantedListed'
  BY <1>1, <1>2, <1>3 DEF ListInv, WantedListed, Matches, FriendsOf
<1> QED  BY <1>1, <1>4 DEF ListInv, NoneLeftBehind, Complete, LostAtBoundaries

LEMMA ChangeTieList == ASSUME NoRepeatInv, ListInv, NEW t \in Ties, ChangeTie(t) PROVE ListInv'
<1>1. /\ UNCHANGED <<row, list, reader, near, far, cursor, shown, passed>>
      /\ held' \subseteq held /\ wanted' \subseteq wanted /\ \A i \in wanted' : Kept(i)'
  BY DEF ChangeTie, request
<1>2. FriendsOf(held') \subseteq FriendsOf(held)  BY <1>1 DEF FriendsOf
<1>3. WantedListed'
  BY <1>1, <1>2 DEF ListInv, WantedListed, Matches, FriendsOf
<1> QED  BY <1>1, <1>3 DEF ListInv, NoneLeftBehind, Complete, LostAtBoundaries

LEMMA ListStep == ASSUME NoRepeatInv, ListInv, [Next]_vars PROVE ListInv'
<1>1. CASE UNCHANGED vars
  BY <1>1 DEF vars, table, request, history, ListInv, WantedListed, Kept, Listed, Matches,
              FriendsOf, FriendsOfFriends, NoneLeftBehind, Complete, LostAtBoundaries
<1> QED
  BY <1>1, OpenList, ReadFriendsList, ReadFofList, FindConversationList, ReadRowsList,
     CreateList, DeleteList, ChangeTieList DEF Next, Read

LEMMA ListInvariant == Spec => []ListInv
<1>1. Init => ListInv
  BY DEF Init, ListInv, WantedListed, NoneLeftBehind, Complete, LostAtBoundaries
<1>2. NoRepeatInv /\ ListInv /\ [Next]_vars => ListInv'  BY ListStep
<1> QED  BY <1>1, <1>2, NoRepeatInvariant, PTL DEF Spec

\* A reader of the feed who reaches the end was given every post that was listed
\* from the first request to the last and whose author each request's two
\* relation queries could find by the same friendships.
THEOREM FeedComplete == Spec => []Complete
<1>1. ListInv => Complete  BY DEF ListInv
<1> QED  BY <1>1, ListInvariant, PTL

\* A reader of messages who reaches the end misses those alone whose ids were
\* cursors, the first rows beyond the pages.
THEOREM LostOnlyAtBoundaries == Spec => []LostAtBoundaries
<1>1. ListInv => LostAtBoundaries  BY DEF ListInv
<1> QED  BY <1>1, ListInvariant, PTL

-----------------------------------------------------------------------------
(***************************************************************************)
(* The scanner. An open that was not crossed is under way alone, so that   *)
(* the shared stream, loop and timer are its own; below, that each promise,*)
(* frame, timer and button keeps this.                                     *)
(***************************************************************************)
USE MaxOpensAssumption

\* What the timers' queue holds, once one more waits and once the oldest is served.
LEMMA Queued ==
  ASSUME NEW s \in Seq(Opens), NEW k \in Opens
  PROVE  /\ Append(s, k) \in Seq(Opens)
         /\ ToSet(Append(s, k)) = ToSet(s) \cup {k}
         /\ \A i \in DOMAIN Append(s, k) : \/ i \in DOMAIN s /\ Append(s, k)[i] = s[i] /\ s[i] \in ToSet(s)
                                           \/ i = Len(s) + 1 /\ Append(s, k)[i] = k
<1>. DEFINE a == Append(s, k)
<1>1. /\ a \in Seq(Opens) /\ Len(a) = Len(s) + 1 /\ a[Len(s) + 1] = k
      /\ \A i \in 1 .. Len(s) : a[i] = s[i]
      /\ Len(s) \in Nat /\ DOMAIN s = 1 .. Len(s) /\ DOMAIN a = 1 .. Len(s) + 1
  OBVIOUS
<1>. HIDE DEF a
<1>2. \A i \in DOMAIN a : \/ i \in DOMAIN s /\ a[i] = s[i]
                          \/ i = Len(s) + 1 /\ a[i] = k
  BY <1>1
<1>3. \A i \in DOMAIN s : i \in DOMAIN a /\ a[i] = s[i] /\ s[i] \in ToSet(s)
  BY <1>1 DEF ToSet
<1>4. ToSet(a) = ToSet(s) \cup {k}
  BY <1>1, <1>2, <1>3 DEF ToSet
<1>. QED
  BY <1>1, <1>2, <1>3, <1>4 DEF a

LEMMA Served ==
  ASSUME NEW s \in Seq(Opens), s # <<>>
  PROVE  /\ Tail(s) \in Seq(Opens) /\ Head(s) \in Opens /\ Head(s) = s[1] /\ 1 \in DOMAIN s
         /\ ToSet(s) = ToSet(Tail(s)) \cup {Head(s)}
         /\ \A i \in DOMAIN Tail(s) : i \in Nat \ {0} /\ i + 1 \in DOMAIN s /\ Tail(s)[i] = s[i + 1]
<1>. DEFINE r == Tail(s)
<1>1. /\ r \in Seq(Opens) /\ Len(r) = Len(s) - 1 /\ Len(s) \in Nat \ {0}
      /\ \A i \in 1 .. Len(s) - 1 : r[i] = s[i + 1]
      /\ Head(s) = s[1] /\ s[1] \in Opens /\ DOMAIN s = 1 .. Len(s) /\ DOMAIN r = 1 .. Len(s) - 1
  OBVIOUS
<1>. HIDE DEF r
<1>2. \A i \in DOMAIN r : i \in Nat \ {0} /\ i + 1 \in DOMAIN s /\ r[i] = s[i + 1]
  BY <1>1
<1>3. \A i \in DOMAIN s : i = 1 \/ (i - 1 \in DOMAIN r /\ s[i] = r[i - 1])
  BY <1>1
<1>4. 1 \in DOMAIN s
  BY <1>1
<1>5. ToSet(s) = ToSet(r) \cup {Head(s)}
  <2>1. \A x \in ToSet(r) : x \in ToSet(s)
    BY <1>2 DEF ToSet
  <2>2. Head(s) \in ToSet(s)
    BY <1>1, <1>4 DEF ToSet
  <2>3. \A x \in ToSet(s) : x = Head(s) \/ x \in ToSet(r)
    BY <1>1, <1>3 DEF ToSet
  <2>. QED
    BY <2>1, <2>2, <2>3
<1>. QED
  BY <1>1, <1>2, <1>4, <1>5 DEF r

\* Only opens are under way.
LEMMA UnderWayOpens ==
  ASSUME ScannerTypeOK PROVE UnderWay \subseteq Opens
<1>1. ToSet(timers) \subseteq Opens
  BY DEF ScannerTypeOK, ToSet
<1>. QED
  BY <1>1 DEF ScannerTypeOK, UnderWay, Starting

\* Nothing is under way when the page loads.
LEMMA ScannerInvStart == ScannerInit => ScannerInv
<1>. SUFFICES ASSUME ScannerInit PROVE ScannerInv
  OBVIOUS
<1>1. ToSet(timers) = {} /\ timers \in Seq(Opens) /\ DOMAIN timers = {}
  BY DEF ScannerInit, ToSet
<1>2. ScannerTypeOK
  <2>1. chain \in [Opens -> {"none", "camera", "play", "decoder", "scanning", "failed"}]
    BY DEF ScannerInit
  <2>2. opened \in 0 .. MaxOpens /\ stream \in 0 .. MaxOpens /\ scanLoopId \in 0 .. MaxOpens
    BY DEF ScannerInit
  <2>3. /\ visible \in BOOLEAN /\ live \subseteq Opens /\ frames \subseteq Opens
        /\ decoder \in {"absent", "loading", "loaded", "failed"}
        /\ crossed \subseteq Opens /\ handed \subseteq Opens \X Opens
    BY DEF ScannerInit
  <2>. QED
    BY <1>1, <2>1, <2>2, <2>3 DEF ScannerTypeOK
<1>3. ReachedInv /\ OffWhenClosed /\ LoopHeld
  BY <1>1 DEF ScannerInit, ReachedInv, OffWhenClosed, LoopHeld
<1>4. Starting = {} /\ UnderWay = {}
  BY <1>1 DEF ScannerInit, Starting, UnderWay
<1>5. AloneInv /\ HeldInv
  BY <1>4 DEF ScannerInit, AloneInv, HeldInv
<1>6. OnceInv /\ HandedToOpener
  BY <1>1 DEF ScannerInit, OnceInv, HandedToOpener
<1>. QED
  BY <1>2, <1>3, <1>5, <1>6 DEF ScannerInv

\* With none under way the open that comes is alone; else all are crossed.
LEMMA OpenedInv ==
  ASSUME ScannerInv, OpenScanner
  PROVE  ScannerInv'
<1>. USE DEF ScannerInv
<1>1. /\ opened \in 0 .. MaxOpens /\ opened' = opened + 1 /\ opened' \in Opens /\ visible' = TRUE
      /\ \A k \in Opens : chain'[k] = IF k = opened' THEN "camera" ELSE chain[k]
      /\ UNCHANGED <<stream, live, scanLoopId, frames, timers, decoder, handed>>
      /\ crossed \subseteq crossed'
      /\ \A k \in Opens : k > opened' => k > opened /\ k # opened'
  BY DEF OpenScanner, ScannerTypeOK, Opens
<1>. chain[opened'] = "none"
  BY <1>1 DEF ReachedInv, ScannerTypeOK, Opens
<1>2. ScannerTypeOK'
  <2>1. UnderWay \subseteq Opens
    BY UnderWayOpens
  <2>2. opened' \in 0 .. MaxOpens /\ chain' \in [Opens -> {"none", "camera", "play", "decoder", "scanning", "failed"}]
    BY <1>1 DEF OpenScanner, ScannerTypeOK, Opens
  <2>3. crossed' \subseteq Opens
    BY <1>1, <2>1 DEF OpenScanner, ScannerTypeOK
  <2>. QED
    BY <1>1, <2>2, <2>3 DEF ScannerTypeOK
<1>3. ReachedInv'
  <2>1. ToSet(timers) \subseteq Opens /\ \A x \in handed : x[1] \in Opens
    BY UnderWayOpens DEF UnderWay, ScannerTypeOK
  <2>2. live \subseteq Opens /\ frames \subseteq Opens /\ opened' # 0
    BY <1>1 DEF ScannerTypeOK, Opens
  <2>3. ToSet(timers)' = ToSet(timers)
    BY <1>1
  <2>. QED
    BY <1>1, <2>1, <2>2, <2>3 DEF ReachedInv
<1>4. Starting' = Starting \cup {opened'} /\ UnderWay' = UnderWay \cup {opened'}
  BY <1>1 DEF Starting, UnderWay
<1>5. UnderWay' \subseteq crossed' \/ (UnderWay = {} /\ crossed' = crossed)
  BY <1>4 DEF OpenScanner
<1>6. AloneInv'
  BY <1>4, <1>5 DEF AloneInv
<1>7. live \cup frames \subseteq UnderWay
  BY DEF UnderWay
<1>8. \A k \in Opens : chain[k] \in {"play", "decoder"} => k \in UnderWay
  BY DEF UnderWay, Starting
<1>9. HeldInv'
  BY <1>1, <1>4, <1>5, <1>7, <1>8 DEF HeldInv
<1>10. OnceInv' /\ OffWhenClosed'
  BY <1>1 DEF OnceInv, OffWhenClosed
<1>11. HandedToOpener'
  <2>1. ToSet(timers) \subseteq crossed' \/ ToSet(timers) = {}
    BY <1>5, <1>4 DEF UnderWay
  <2>. QED
    BY <1>1, <2>1 DEF HandedToOpener, ScannerTypeOK
<1>12. LoopHeld'
  BY <1>1 DEF LoopHeld
<1>. QED
  BY <1>2, <1>3, <1>6, <1>9, <1>10, <1>11, <1>12

\* The steps of an open that starts: it alone can be uncrossed.
LEMMA StartingAlone ==
  ASSUME ScannerInv, NEW k \in Starting
  PROVE  /\ k \in Opens /\ k \in UnderWay
         /\ UnderWay \subseteq crossed \/ (UnderWay = {k} /\ k = opened)
         /\ ~visible => k \in crossed
         /\ chain[k] \in {"camera", "play", "decoder"}
         /\ k \notin frames /\ k \notin ToSet(timers)
         /\ \A x \in handed : x[1] # k
BY DEF ScannerInv, AloneInv, HeldInv, ReachedInv, Starting, UnderWay

\* The camera answers: the shared stream is this open's, and any other was crossed.
LEMMA CameraReadyInv ==
  ASSUME ScannerInv, NEW k \in Opens, CameraReady(k)
  PROVE  ScannerInv'
<1>. USE DEF ScannerInv
<1>1. /\ chain[k] = "camera"
      /\ \A j \in Opens : chain'[j] = IF j = k THEN "play" ELSE chain[j]
      /\ stream' = k /\ live' = live \cup {k}
      /\ UNCHANGED <<opened, visible, scanLoopId, frames, timers, decoder, crossed, handed>>
  BY DEF CameraReady, ScannerTypeOK
<1>2. k \in Starting
  BY <1>1 DEF Starting
<1>3. Starting' = Starting /\ UnderWay' = UnderWay
  BY <1>1, <1>2 DEF Starting, UnderWay
<1>4. ScannerTypeOK'
  BY <1>1 DEF CameraReady, ScannerTypeOK, Opens
<1>5. ReachedInv'
  <2>1. ToSet(timers) \subseteq Opens /\ \A x \in handed : x[1] \in Opens
    BY UnderWayOpens DEF UnderWay, ScannerTypeOK
  <2>2. live \subseteq Opens /\ frames \subseteq Opens /\ ToSet(timers)' = ToSet(timers)
    BY <1>1 DEF ScannerTypeOK
  <2>. QED
    BY <1>1, <2>1, <2>2 DEF ReachedInv
<1>6. AloneInv'
  BY <1>1, <1>3 DEF AloneInv
<1>7. HeldInv'
  <2>1. \A j \in live : j = k \/ j \in crossed
    BY <1>2, StartingAlone DEF UnderWay
  <2>2. crossed = {} => \A j \in Starting \cup live : j = k
    BY <1>2, StartingAlone DEF UnderWay
  <2>. QED
    BY <1>1, <1>3, <2>1, <2>2 DEF HeldInv, Starting
<1>8. OnceInv' /\ OffWhenClosed'
  BY <1>1, <1>2, StartingAlone DEF OnceInv, OffWhenClosed
<1>9. HandedToOpener'
  BY <1>1, <1>2, StartingAlone DEF HandedToOpener
<1>10. LoopHeld'
  BY <1>1, <1>2, StartingAlone DEF LoopHeld
<1>. QED
  BY <1>4, <1>5, <1>6, <1>7, <1>8, <1>9, <1>10

\* The video plays: the open waits for its decoder.
LEMMA PlayingInv ==
  ASSUME ScannerInv, NEW k \in Opens, Playing(k)
  PROVE  ScannerInv'
<1>. USE DEF ScannerInv
<1>1. /\ chain[k] = "play"
      /\ \A j \in Opens : chain'[j] = IF j = k THEN "decoder" ELSE chain[j]
      /\ UNCHANGED <<opened, visible, stream, live, scanLoopId, frames, timers, crossed, handed>>
  BY DEF Playing, ScannerTypeOK
<1>2. k \in Starting
  BY <1>1 DEF Starting
<1>3. Starting' = Starting /\ UnderWay' = UnderWay
  BY <1>1, <1>2 DEF Starting, UnderWay
<1>4. ScannerTypeOK'
  BY <1>1 DEF Playing, ScannerTypeOK
<1>5. ReachedInv'
  <2>1. ToSet(timers) \subseteq Opens /\ \A x \in handed : x[1] \in Opens
    BY UnderWayOpens DEF UnderWay, ScannerTypeOK
  <2>2. live \subseteq Opens /\ frames \subseteq Opens /\ ToSet(timers)' = ToSet(timers)
    BY <1>1 DEF ScannerTypeOK
  <2>. QED
    BY <1>1, <2>1, <2>2 DEF ReachedInv
<1>6. AloneInv'
  BY <1>1, <1>3 DEF AloneInv
<1>7. HeldInv'
  BY <1>1, <1>3 DEF HeldInv
<1>8. OnceInv' /\ OffWhenClosed'
  BY <1>1 DEF OnceInv, OffWhenClosed
<1>9. HandedToOpener'
  BY <1>1, <1>2, StartingAlone DEF HandedToOpener
<1>10. LoopHeld'
  BY <1>1, <1>2, StartingAlone DEF LoopHeld
<1>. QED
  BY <1>4, <1>5, <1>6, <1>7, <1>8, <1>9, <1>10

\* A chain that fails has started nothing more.
LEMMA FailedInv ==
  ASSUME ScannerInv, NEW k \in Opens, CameraFails(k) \/ NoDecoder(k)
  PROVE  ScannerInv'
<1>. USE DEF ScannerInv
<1>1. /\ chain[k] \in {"camera", "play", "decoder"}
      /\ \A j \in Opens : chain'[j] = IF j = k THEN "failed" ELSE chain[j]
      /\ UNCHANGED <<opened, visible, stream, live, scanLoopId, frames, timers, decoder, crossed, handed>>
  BY DEF CameraFails, NoDecoder, ScannerTypeOK
<1>2. k \in Starting
  BY <1>1 DEF Starting
<1>3. Starting' \subseteq Starting /\ UnderWay' \subseteq UnderWay
  BY <1>1, <1>2 DEF Starting, UnderWay
<1>4. ScannerTypeOK'
  BY <1>1 DEF CameraFails, NoDecoder, ScannerTypeOK
<1>5. ReachedInv'
  <2>1. ToSet(timers) \subseteq Opens /\ \A x \in handed : x[1] \in Opens
    BY UnderWayOpens DEF UnderWay, ScannerTypeOK
  <2>2. live \subseteq Opens /\ frames \subseteq Opens /\ ToSet(timers)' = ToSet(timers)
    BY <1>1 DEF ScannerTypeOK
  <2>3. ~(k > opened)
    BY <1>1 DEF ReachedInv
  <2>4. k \notin frames \cup ToSet(timers) /\ \A x \in handed : x[1] # k
    BY <1>2, StartingAlone
  <2>. QED
    BY <1>1, <2>1, <2>2, <2>3, <2>4 DEF ReachedInv
<1>6. AloneInv'
  BY <1>1, <1>3 DEF AloneInv
<1>7. HeldInv'
  BY <1>1, <1>3 DEF HeldInv
<1>8. OnceInv' /\ OffWhenClosed'
  BY <1>1 DEF OnceInv, OffWhenClosed
<1>9. HandedToOpener'
  BY <1>1, <1>2, StartingAlone DEF HandedToOpener
<1>10. LoopHeld'
  BY <1>1, <1>2, StartingAlone DEF LoopHeld
<1>. QED
  BY <1>4, <1>5, <1>6, <1>7, <1>8, <1>9, <1>10

\* The script alone ends: nothing of an open changes.
LEMMA ScriptEndsInv ==
  ASSUME ScannerInv, ScriptEnds \/ UNCHANGED scannerVars
  PROVE  ScannerInv'
<1>1. /\ UNCHANGED <<opened, visible, chain, stream, live, scanLoopId, frames, timers, crossed, handed>>
      /\ ScannerTypeOK'
  BY DEF ScriptEnds, scannerVars, ScannerInv, ScannerTypeOK
<1>2. Starting' = Starting /\ UnderWay' = UnderWay
  BY <1>1 DEF Starting, UnderWay
<1>3. ReachedInv' /\ AloneInv' /\ HeldInv' /\ OnceInv'
  BY <1>1, <1>2 DEF ScannerInv, ReachedInv, AloneInv, HeldInv, OnceInv
<1>4. OffWhenClosed' /\ HandedToOpener' /\ LoopHeld'
  BY <1>1 DEF ScannerInv, OffWhenClosed, HandedToOpener, LoopHeld
<1>. QED
  BY <1>1, <1>3, <1>4 DEF ScannerInv

\* The decoder is there: the shared loop is this open's, and any other was crossed.
LEMMA StartScanLoopInv ==
  ASSUME ScannerInv, NEW k \in Opens, StartScanLoop(k)
  PROVE  ScannerInv'
<1>. USE DEF ScannerInv
<1>1. /\ chain[k] = "decoder"
      /\ \A j \in Opens : chain'[j] = IF j = k THEN "scanning" ELSE chain[j]
      /\ frames' = frames \cup {k} /\ scanLoopId' = k
      /\ UNCHANGED <<opened, visible, stream, live, timers, decoder, crossed, handed>>
  BY DEF StartScanLoop, ScannerTypeOK
<1>2. k \in Starting
  BY <1>1 DEF Starting
<1>3. Starting' = Starting \ {k} /\ UnderWay' = UnderWay
  BY <1>1, <1>2 DEF Starting, UnderWay
<1>4. ScannerTypeOK'
  BY <1>1 DEF StartScanLoop, ScannerTypeOK, Opens
<1>5. ReachedInv'
  <2>1. ToSet(timers) \subseteq Opens /\ \A x \in handed : x[1] \in Opens
    BY UnderWayOpens DEF UnderWay, ScannerTypeOK
  <2>2. live \subseteq Opens /\ frames \subseteq Opens /\ ToSet(timers)' = ToSet(timers)
    BY <1>1 DEF ScannerTypeOK
  <2>3. ~(k > opened)
    BY <1>1 DEF ReachedInv
  <2>. QED
    BY <1>1, <2>1, <2>2, <2>3 DEF ReachedInv
<1>6. AloneInv'
  BY <1>1, <1>3 DEF AloneInv
<1>7. \A j \in frames : j \in crossed
  BY <1>2, StartingAlone DEF UnderWay
<1>8. HeldInv'
  BY <1>1, <1>3, <1>7 DEF HeldInv
<1>9. OnceInv' /\ OffWhenClosed'
  BY <1>1, <1>2, StartingAlone DEF OnceInv, OffWhenClosed
<1>10. HandedToOpener'
  BY <1>1, <1>2, StartingAlone DEF HandedToOpener
<1>11. LoopHeld'
  <2>1. SUFFICES ASSUME crossed = {}
                 PROVE  frames' = {k} /\ live = {k} /\ stream = k /\ k = opened
    BY <1>1 DEF LoopHeld
  <2>. QED
    BY <1>1, <1>2, <1>7, <2>1, StartingAlone DEF HeldInv
<1>. QED
  BY <1>4, <1>5, <1>6, <1>8, <1>9, <1>10, <1>11

\* A loop that runs: it alone can be uncrossed, and has read no code yet.
LEMMA LoopAlone ==
  ASSUME ScannerInv, NEW k \in frames
  PROVE  /\ k \in Opens /\ k \in UnderWay /\ chain[k] = "scanning"
         /\ UnderWay \subseteq crossed \/ (UnderWay = {k} /\ k = opened)
         /\ k \notin crossed => k \notin ToSet(timers) /\ \A x \in handed : x[1] # k
BY DEF ScannerInv, ScannerTypeOK, AloneInv, ReachedInv, OnceInv, UnderWay

\* The next frame of a loop takes the shared id again.
LEMMA TickOnInv ==
  ASSUME ScannerInv, NEW k \in Opens, TickOn(k)
  PROVE  ScannerInv'
<1>. USE DEF ScannerInv
<1>1. /\ k \in frames /\ scanLoopId' = k
      /\ UNCHANGED <<opened, visible, chain, stream, live, frames, timers, decoder, crossed, handed>>
  BY DEF TickOn
<1>2. Starting' = Starting /\ UnderWay' = UnderWay
  BY <1>1 DEF Starting, UnderWay
<1>3. ScannerTypeOK'
  BY <1>1 DEF ScannerTypeOK, Opens
<1>4. ReachedInv' /\ AloneInv' /\ OnceInv' /\ OffWhenClosed' /\ HandedToOpener'
  BY <1>1, <1>2 DEF ReachedInv, AloneInv, OnceInv, OffWhenClosed, HandedToOpener
<1>5. \A j \in frames : j = k \/ j \in crossed
  BY <1>1, LoopAlone DEF UnderWay
<1>6. HeldInv'
  BY <1>1, <1>2, <1>5 DEF HeldInv
<1>7. LoopHeld'
  BY <1>1 DEF LoopHeld
<1>. QED
  BY <1>3, <1>4, <1>6, <1>7

\* A loop has seen a code: its timer waits, and no loop runs on but crossed ones.
LEMMA DetectInv ==
  ASSUME ScannerInv, NEW k \in Opens, Detect(k)
  PROVE  ScannerInv'
<1>. USE DEF ScannerInv
<1>1. /\ k \in frames
      /\ frames' = (frames \ {k}) \ {scanLoopId} /\ scanLoopId' = 0
      /\ timers' = Append(timers, k) /\ timers \in Seq(Opens)
      /\ UNCHANGED <<opened, visible, chain, stream, live, decoder, crossed, handed>>
  BY DEF Detect, StopScanLoop, ScannerTypeOK
<1>2. timers' \in Seq(Opens) /\ ToSet(timers)' = ToSet(timers) \cup {k}
  BY <1>1, Queued
<1>3. Starting' = Starting /\ UnderWay' \subseteq UnderWay
  BY <1>1, <1>2 DEF Starting, UnderWay
<1>4. ScannerTypeOK'
  BY <1>1, <1>2 DEF ScannerTypeOK
<1>5. ReachedInv'
  BY <1>1, <1>2 DEF ReachedInv
<1>6. AloneInv'
  BY <1>1, <1>3 DEF AloneInv
<1>7. \A j \in UnderWay : j = k \/ j \in crossed
  BY <1>1, LoopAlone
<1>8. frames' \subseteq crossed
  BY <1>1, <1>7 DEF UnderWay
<1>9. HeldInv'
  BY <1>1, <1>3, <1>8 DEF HeldInv
<1>10. \A j \in ToSet(timers) : j \in crossed \/ k \in crossed
  BY <1>1, <1>7, LoopAlone DEF UnderWay
<1>11. \A j \in ToSet(timers) : j \in crossed
  BY <1>1, LoopAlone, <1>10 DEF UnderWay
<1>12. OnceInv'
  <2>1. ASSUME NEW i \in DOMAIN timers', NEW j \in DOMAIN timers', i # j PROVE timers'[i] \in crossed
    <3>1. CASE timers'[i] \in ToSet(timers)
      BY <3>1, <1>11
    <3>2. CASE i = Len(timers) + 1 /\ timers'[i] = k
      <4>1. timers[j] \in ToSet(timers)
        BY <1>1, <2>1, <3>2, Queued
      <4>. QED
        BY <3>2, <4>1, <1>1, <1>7, LoopAlone DEF UnderWay
    <3>. QED
      BY <1>1, <3>1, <3>2, Queued
  <2>. QED
    BY <1>1, <1>8, <2>1 DEF OnceInv
<1>13. OffWhenClosed'
  BY <1>1 DEF OffWhenClosed
<1>14. HandedToOpener'
  BY <1>1, <1>2, <1>11, LoopAlone DEF HandedToOpener
<1>15. LoopHeld'
  <2>1. SUFFICES ASSUME crossed = {} PROVE frames' = {} /\ ToSet(timers)' = {opened}
    BY <1>1 DEF LoopHeld
  <2>. QED
    BY <1>1, <1>2, <1>8, <1>11, <2>1, LoopAlone
<1>. QED
  BY <1>4, <1>5, <1>6, <1>9, <1>12, <1>13, <1>14, <1>15

\* Closing stops what the shared variables hold, and crosses what starts.
LEMMA Closing ==
  ASSUME ScannerInv, CloseScanner,
         timers' \in Seq(Opens), ToSet(timers)' \subseteq ToSet(timers)
  PROVE  /\ visible' = FALSE /\ crossed \subseteq crossed'
         /\ UNCHANGED <<opened, chain>>
         /\ live' \subseteq live /\ frames' \subseteq frames
         /\ live' \cup frames' \subseteq crossed'
         /\ AloneInv' /\ HeldInv' /\ OffWhenClosed' /\ LoopHeld'
<1>. USE DEF ScannerInv
<1>1. /\ frames' = frames \ {scanLoopId} /\ scanLoopId' = 0
      /\ stream' = 0 /\ live' = live \ {stream}
      /\ visible' = FALSE /\ crossed' = crossed \cup Starting
      /\ UNCHANGED <<opened, chain, decoder>>
  BY DEF CloseScanner, StopScanLoop, StopCamera
<1>2. Starting' = Starting /\ UnderWay' \subseteq UnderWay
  BY <1>1 DEF Starting, UnderWay
<1>3. AloneInv'
  BY <1>1, <1>2 DEF AloneInv
<1>4. live' \cup frames' \subseteq crossed'
  BY <1>1 DEF HeldInv
<1>5. HeldInv'
  BY <1>1, <1>2, <1>4 DEF HeldInv, Starting
<1>6. OffWhenClosed' /\ LoopHeld'
  BY <1>1, <1>4 DEF OffWhenClosed, LoopHeld
<1>. QED
  BY <1>1, <1>3, <1>4, <1>5, <1>6

\* The types of what closing writes.
LEMMA CloseTyped ==
  ASSUME ScannerTypeOK, CloseScanner
  PROVE  /\ crossed' \subseteq Opens /\ live' \subseteq Opens /\ frames' \subseteq Opens
         /\ scanLoopId' = 0 /\ stream' = 0 /\ 0 \in 0 .. MaxOpens
         /\ UNCHANGED <<opened, chain, decoder>> /\ visible' = FALSE
BY DEF CloseScanner, StopScanLoop, StopCamera, ScannerTypeOK, Starting

\* A close button or ESC.
LEMMA CloseInv ==
  ASSUME ScannerInv, Close
  PROVE  ScannerInv'
<1>. USE DEF ScannerInv
<1>1. CloseScanner /\ timers' = timers /\ handed' = handed /\ timers' \in Seq(Opens)
      /\ ToSet(timers)' = ToSet(timers)
  BY DEF Close, ScannerTypeOK
<1>2. AloneInv' /\ HeldInv' /\ OffWhenClosed' /\ LoopHeld'
  BY <1>1, Closing
<1>3. ScannerTypeOK'
  BY <1>1, CloseTyped DEF ScannerTypeOK
<1>4. ReachedInv'
  BY <1>1, Closing DEF ReachedInv
<1>5. OnceInv'
  BY <1>1, Closing DEF OnceInv
<1>6. HandedToOpener'
  BY <1>1, Closing DEF HandedToOpener
<1>. QED
  BY <1>2, <1>3, <1>4, <1>5, <1>6

\* A scan that waits and was not crossed is the only one, and the last open's.
LEMMA TimerInv ==
  ASSUME ScannerInv, Timer
  PROVE  ScannerInv'
<1>. USE DEF ScannerInv
<1>1. /\ CloseScanner /\ timers # <<>> /\ timers \in Seq(Opens) /\ timers' = Tail(timers)
      /\ handed' = handed \cup {<<Head(timers), opened>>}
  BY DEF Timer, ScannerTypeOK
<1>2. PICK h : h = Head(timers)
  OBVIOUS
<1>3. /\ timers' \in Seq(Opens) /\ h \in Opens /\ h = timers[1] /\ 1 \in DOMAIN timers
      /\ ToSet(timers) = ToSet(timers)' \cup {h}
      /\ \A i \in DOMAIN timers' : i \in Nat \ {0} /\ i + 1 \in DOMAIN timers /\ timers'[i] = timers[i + 1]
  BY <1>1, <1>2, Served
<1>4. AloneInv' /\ HeldInv' /\ OffWhenClosed' /\ LoopHeld'
  BY <1>1, <1>3, Closing
<1>5. chain[h] = "scanning" /\ ~(h > opened)
  BY <1>3 DEF ReachedInv
<1>6. ScannerTypeOK'
  <2>1. opened \in Opens
    BY <1>3, <1>5 DEF ScannerTypeOK, Opens
  <2>2. <<h, opened>> \in Opens \X Opens
    BY <1>3, <2>1
  <2>3. handed' \subseteq Opens \X Opens
    BY <1>1, <1>2, <2>2 DEF ScannerTypeOK
  <2>. QED
    BY <1>1, <1>3, <2>3, CloseTyped DEF ScannerTypeOK
<1>7. ReachedInv'
  <2>1. \A x \in handed' : x \in handed \/ x[1] = h
    BY <1>1, <1>2
  <2>2. ToSet(timers)' \subseteq ToSet(timers)
    BY <1>3
  <2>3. /\ UNCHANGED <<opened, chain>> /\ visible' = FALSE
        /\ live' \subseteq live /\ frames' \subseteq frames
    BY <1>1, <1>3, Closing
  <2>. QED
    BY <1>5, <2>1, <2>2, <2>3 DEF ReachedInv
\* What still waits was crossed.
<1>8. \A i \in DOMAIN timers' : timers'[i] \in crossed'
  <2>1. SUFFICES ASSUME NEW i \in DOMAIN timers' PROVE timers[i + 1] \in crossed
    BY <1>1, <1>3, Closing
  <2>. QED
    BY <1>3, <2>1 DEF OnceInv
<1>9. ToSet(timers)' \subseteq crossed'
  BY <1>8 DEF ToSet
<1>10. OnceInv'
  BY <1>1, <1>3, <1>8, Closing DEF OnceInv
<1>11. HandedToOpener'
  <2>1. h \in crossed \/ h = opened
    BY <1>3 DEF HandedToOpener
  <2>2. \A x \in handed' : x \in handed \/ (x[1] = h /\ x[2] = opened)
    BY <1>1, <1>2
  <2>3. crossed \subseteq crossed'
    BY <1>1, <1>3, Closing
  <2>. QED
    BY <1>9, <2>1, <2>2, <2>3 DEF HandedToOpener
<1>. QED
  BY <1>4, <1>6, <1>7, <1>10, <1>11

\* So it holds throughout.
LEMMA ScannerInvariant == ScannerSpec => []ScannerInv
<1>1. ScannerInv /\ [ScannerNext]_scannerVars => ScannerInv'
  BY OpenedInv, CloseInv, TimerInv, ScriptEndsInv, CameraReadyInv, PlayingInv, FailedInv,
     StartScanLoopInv, TickOnInv, DetectInv DEF ScannerNext
<1>. QED
  BY <1>1, ScannerInvStart, PTL DEF ScannerSpec

\* Promises, streams, loops and timers keep their types.
THEOREM ScannerTypeCorrect == ScannerSpec => []ScannerTypeOK
<1>1. ScannerInv => ScannerTypeOK
  BY DEF ScannerInv
<1>. QED
  BY <1>1, ScannerInvariant, PTL

\* Closing turns the camera off and ends the search, but for opens closed before they
\* had started or under way together (scanner.js 256-288, 317-322, 370-375).
THEOREM ClosedIsOff == ScannerSpec => []OffWhenClosed
<1>1. ScannerInv => OffWhenClosed
  BY DEF ScannerInv
<1>. QED
  BY <1>1, ScannerInvariant, PTL

\* A scan goes to the onScan of the open that made it, once, unless another open came
\* while it was under way (scanner.js 328-345, 350-352).
THEOREM ScansGoToOpener == ScannerSpec => []HandedToOpener
<1>1. ScannerInv => HandedToOpener
  BY DEF ScannerInv
<1>. QED
  BY <1>1, ScannerInvariant, PTL

\* A scanner on the screen goes on looking, with a loop closing can stop, until it has
\* found a code (scanner.js 293-322, 350-366).
THEOREM LoopGoesOn == ScannerSpec => []LoopHeld
<1>1. ScannerInv => LoopHeld
  BY DEF ScannerInv
<1>. QED
  BY <1>1, ScannerInvariant, PTL
=============================================================================
