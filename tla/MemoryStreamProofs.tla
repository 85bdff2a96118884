------------------------- MODULE MemoryStreamProofs -------------------------
(***************************************************************************)
(* Proofs about MemoryStream, for any number of memories, pages of any     *)
(* length and any number of requests: types, whatever the user does, and,  *)
(* for a user who starts no load while a page is on its way, that the      *)
(* pages miss and repeat nothing (StreamInv).                              *)
(***************************************************************************)
EXTENDS MemoryStream, SequenceTheorems, FiniteSetTheorems, TLAPS

OnItsWay(r, kind) == request[r].at # "free" /\ request[r].kind = kind

\* While a load is on its way nothing else is, and there is nothing to go on
\* from; the pages that go on do so from a list that is shown.
Turns ==
  /\ \A q, r \in Requests : OnItsWay(q, "load") /\ request[r].at # "free" => q = r
  /\ \A r \in Requests : OnItsWay(r, "load") => list.cursor = NoCursor
  /\ \A r \in Requests : OnItsWay(r, "more") => list.at = "loaded"

\* What a request asks of a list with this filter, and what it will show: all
\* that is steady so far.
Held(q, filter) ==
  /\ q.at = "sent" => q.filter = filter
  /\ q.at = "sent" /\ q.kind = "load" => q.cursor = NoCursor
  /\ q.at = "sent" /\ q.kind = "more" => q.cursor # NoCursor /\ Complete(q.items, q.cursor, filter)
  /\ q.at = "answered" => Complete(Joined(q), q.next, filter)

StreamInv ==
  /\ Turns
  /\ \A r \in Requests : Held(request[r], list.filter)
  /\ PagesMissNothing

-----------------------------------------------------------------------------
(* The order of the stream                                                 *)

LEMMA BelowIsStrict == \A p \in BOOLEAN, a \in Nat : ~ Below(p, a, p, a)
BY DEF Below

LEMMA BelowIsTransitive ==
  ASSUME NEW p \in BOOLEAN, NEW q \in BOOLEAN, NEW s \in BOOLEAN, NEW a \in Nat, NEW b \in Nat, NEW c \in Nat,
         Below(p, a, q, b), Below(q, b, s, c)
  PROVE  Below(p, a, s, c)
<1>1. a < b /\ b < c => a < c
  OBVIOUS
<1>2. QED
  BY <1>1 DEF Below

LEMMA BelowIsTotal ==
  ASSUME NEW p \in BOOLEAN, NEW q \in BOOLEAN, NEW a \in Nat, NEW b \in Nat
  PROVE  Below(p, a, q, b) \/ Below(q, b, p, a) \/ (p = q /\ a = b)
<1>1. a < b \/ b < a \/ a = b
  OBVIOUS
<1>2. QED
  BY <1>1 DEF Below

LEMMA MemoryType ==
  ASSUME TypeOK, NEW c \in Captures
  PROVE  memory[c].pinned \in BOOLEAN /\ c \in Nat /\ CursorOf(c) \in Cursors /\ CursorOf(c) # NoCursor
<1>1. memory[c].pinned \in BOOLEAN
  BY DEF TypeOK
<1>2. c \in Nat
  BY TotalAssumption DEF Captures
<1>3. CursorOf(c) \in Cursors /\ CursorOf(c) \in [pinned : BOOLEAN, capture : Nat]
  BY <1>1, <1>2 DEF CursorOf, Cursors
<1>4. QED
  BY <1>1, <1>2, <1>3, NoCursorAssumption

LEMMA CursorType ==
  ASSUME NEW cursor \in Cursors
  PROVE  cursor.pinned \in BOOLEAN /\ cursor.capture \in Nat /\ cursor # NoCursor
<1>1. cursor.pinned \in BOOLEAN /\ cursor.capture \in Nat
  BY TotalAssumption DEF Cursors, Captures
<1>2. cursor \in [pinned : BOOLEAN, capture : Nat]
  BY TotalAssumption DEF Cursors, Captures
<1>3. QED
  BY <1>1, <1>2, NoCursorAssumption

LEMMA PrecedesIsStrict ==
  ASSUME TypeOK, NEW c \in Captures, NEW d \in Captures, Precedes(c, d)
  PROVE  ~ Precedes(d, c)
BY MemoryType, BelowIsStrict, BelowIsTransitive DEF Precedes

-----------------------------------------------------------------------------
(* Pages                                                                   *)

\* These are the rows that a query finds, in order.
Answer(rows, filter, cursor) ==
  /\ rows \in Seq(Captures) /\ Len(rows) \in Nat /\ DOMAIN rows = 1 .. Len(rows)
  /\ \A c \in Captures : Matches(filter, c) /\ Past(cursor, c) <=> \E i \in 1 .. Len(rows) : rows[i] = c
  /\ \A i, j \in 1 .. Len(rows) : i < j => Precedes(rows[i], rows[j])

LEMMA RowsAnswer ==
  ASSUME NEW filter, NEW cursor, NEW rows \in Rows(filter, cursor)
  PROVE  Answer(rows, filter, cursor)
<1> DEFINE found == {c \in Captures : Matches(filter, c) /\ Past(cursor, c)}
           n == Cardinality(found)
<1>1. n \in Nat
  <2>1. IsFiniteSet(Captures)
    BY FS_Interval, TotalAssumption DEF Captures
  <2>2. found \subseteq Captures
    OBVIOUS
  <2> HIDE DEF found
  <2>3. QED
    BY <2>1, <2>2, FS_Subset, FS_CardinalityType
<1>2. rows \in [1 .. n -> found] /\ Range(rows) = found
      /\ \A i, j \in DOMAIN rows : i < j => Precedes(rows[i], rows[j])
  BY DEF Rows
<1>3. found \subseteq Captures
  OBVIOUS
<1>4. \A c \in Captures : Matches(filter, c) /\ Past(cursor, c) <=> c \in found
  OBVIOUS
<1> HIDE DEF found, n
<1>5. rows \in Seq(Captures) /\ Len(rows) = n /\ DOMAIN rows = 1 .. n
  BY <1>1, <1>2, <1>3
<1>6. \A c : c \in found <=> \E i \in 1 .. n : rows[i] = c
  BY <1>2, <1>5 DEF Range
<1>7. QED
  BY <1>1, <1>2, <1>4, <1>5, <1>6 DEF Answer

LEMMA CutIs ==
  ASSUME TypeOK, NEW rows \in Seq(Captures)
  PROVE  LET cut == Cut(rows)
             n == IF Len(rows) > Limit THEN Limit ELSE Len(rows)
         IN /\ cut.page \in Seq(Captures) /\ Len(cut.page) = n /\ DOMAIN cut.page = 1 .. n
            /\ n \in Nat /\ n <= Limit /\ n <= Len(rows)
            /\ \A i \in 1 .. n : cut.page[i] = rows[i]
            /\ cut.next = IF Len(rows) > Limit THEN CursorOf(rows[Limit]) ELSE NoCursor
            /\ Len(rows) > Limit => rows[Limit] \in Captures
            /\ cut.next \in Cursors \cup {NoCursor}
<1> DEFINE n == IF Len(rows) > Limit THEN Limit ELSE Len(rows)
           cut == Cut(rows)
<1>1. Len(rows) \in Nat /\ DOMAIN rows = 1 .. Len(rows) /\ Limit \in Nat \ {0}
  BY LimitAssumption
<1>2. n \in Nat /\ n <= Limit /\ n <= Len(rows) /\ n \in 0 .. Len(rows)
  BY <1>1
<1>3. cut.page = SubSeq(rows, 1, n) /\ cut.next = IF Len(rows) > Limit THEN CursorOf(rows[Limit]) ELSE NoCursor
  BY DEF Cut
<1>4. /\ SubSeq(rows, 1, n) \in Seq(Captures) /\ Len(SubSeq(rows, 1, n)) = n
      /\ DOMAIN SubSeq(rows, 1, n) = 1 .. n
      /\ \A i \in 1 .. n : SubSeq(rows, 1, n)[i] = rows[i]
  <2> HIDE DEF n
  <2>1. n = n - 1 + 1 /\ 1 \in 1 .. Len(rows) + 1
    BY <1>1, <1>2
  <2>2. QED
    BY <1>1, <1>2, <2>1
<1>5. Len(rows) > Limit => rows[Limit] \in Captures
  BY <1>1
<1>6. cut.next \in Cursors \cup {NoCursor}
  BY <1>3, <1>5, MemoryType
<1>7. QED
  BY <1>2, <1>3, <1>4, <1>5, <1>6

\* The page that is cut from these rows shows c.
Shows(rows, c) == \E i \in DOMAIN Cut(rows).page : Cut(rows).page[i] = c

\* What a page comes to: what was before its cursor, and itself.
LEMMA PageReaches ==
  ASSUME TypeOK, NEW filter, NEW cursor \in Cursors \cup {NoCursor}, NEW rows, Answer(rows, filter, cursor),
         NEW c \in Captures
  PROVE  Reached(filter, Cut(rows).next, c) <=> (Matches(filter, c) /\ ~ Past(cursor, c)) \/ Shows(rows, c)
<1> DEFINE cut == Cut(rows)
           n == IF Len(rows) > Limit THEN Limit ELSE Len(rows)
<1>1. rows \in Seq(Captures) /\ Len(rows) \in Nat /\ DOMAIN rows = 1 .. Len(rows) /\ Limit \in Nat \ {0}
  BY LimitAssumption DEF Answer
<1>2. /\ DOMAIN cut.page = 1 .. n /\ \A i \in 1 .. n : cut.page[i] = rows[i]
      /\ cut.next = IF Len(rows) > Limit THEN CursorOf(rows[Limit]) ELSE NoCursor
  BY <1>1, CutIs
<1>3. Shows(rows, c) <=> \E i \in 1 .. n : rows[i] = c
  BY <1>2 DEF Shows
<1> HIDE DEF cut
<1>4. Matches(filter, c) /\ Past(cursor, c) <=> \E i \in 1 .. Len(rows) : rows[i] = c
  BY DEF Answer
<1>5. CASE Len(rows) <= Limit
  <2>1. ~ Len(rows) > Limit
    BY <1>1, <1>5
  <2>2. n = Len(rows) /\ cut.next = NoCursor
    BY <1>2, <2>1
  <2>3. QED
    BY <1>3, <1>4, <2>2 DEF Reached, cut
<1>6. CASE Len(rows) > Limit
  <2> DEFINE l == rows[Limit]
  <2>1. n = Limit /\ cut.next = CursorOf(l) /\ l \in Captures /\ Limit \in 1 .. Len(rows)
    BY <1>1, <1>2, <1>6
  <2>2. cut.next # NoCursor /\ (Past(cut.next, c) <=> Precedes(l, c))
    <3>1. CursorOf(l) # NoCursor
      BY <2>1, MemoryType
    <3>2. CursorOf(l).pinned = memory[l].pinned /\ CursorOf(l).capture = l
      BY DEF CursorOf
    <3>3. QED
      BY <2>1, <3>1, <3>2 DEF Past, Precedes
  <2>3. Reached(filter, cut.next, c) <=> Matches(filter, c) /\ ~ Precedes(l, c)
    BY <2>2 DEF Reached
  <2>4. ASSUME Matches(filter, c), ~ Past(cursor, c) PROVE ~ Precedes(l, c)
    <3>1. Past(cursor, l) /\ cursor # NoCursor
      BY <2>1, <2>4 DEF Answer, Past
    <3>2. Below(memory[l].pinned, l, cursor.pinned, cursor.capture)
      BY <3>1 DEF Past
    <3>3. ~ Below(memory[c].pinned, c, cursor.pinned, cursor.capture)
      BY <2>4 DEF Past
    <3>4. cursor.pinned \in BOOLEAN /\ cursor.capture \in Nat
      BY <3>1, CursorType
    <3>5. /\ memory[l].pinned \in BOOLEAN /\ l \in Nat
          /\ memory[c].pinned \in BOOLEAN /\ c \in Nat
      BY <2>1, MemoryType
    <3> HIDE DEF l
    <3>6. QED
      BY <3>2, <3>3, <3>4, <3>5, BelowIsTransitive DEF Precedes
  <2>5. ASSUME NEW i \in 1 .. Limit, rows[i] = c PROVE ~ Precedes(l, c)
    <3>1. CASE i = Limit
      BY <2>1, <2>5, <3>1, MemoryType, BelowIsStrict DEF Precedes
    <3>2. CASE i < Limit
      <4>1. i \in 1 .. Len(rows)
        BY <1>1, <1>6
      <4>2. Precedes(c, l)
        BY <2>1, <2>5, <3>2, <4>1 DEF Answer
      <4>3. QED
        BY <2>1, <4>2, PrecedesIsStrict
    <3>3. QED
      BY <1>1, <3>1, <3>2
  <2>6. ASSUME NEW i \in 1 .. Len(rows), rows[i] = c, ~ Precedes(l, c) PROVE i \in 1 .. Limit
    <3>1. Limit < i => Precedes(rows[Limit], rows[i])
      BY <2>1 DEF Answer
    <3>2. ~ Limit < i
      BY <2>6, <3>1
    <3>3. QED
      BY <1>1, <3>2
  <2>7. \A i \in 1 .. Limit : i \in 1 .. Len(rows)
    BY <1>1, <1>6
  <2> HIDE DEF l
  <2>8. QED
    BY <1>3, <1>4, <2>1, <2>3, <2>4, <2>5, <2>6, <2>7 DEF cut
<1>7. QED
  BY <1>1, <1>5, <1>6

-----------------------------------------------------------------------------
(* Types                                                                   *)

RequestType ==
  [at : {"free", "sent", "answered"}, kind : {"load", "more"}, filter : Filters,
   cursor : Cursors \cup {NoCursor}, items : Seq(Captures), page : Seq(Captures),
   next : Cursors \cup {NoCursor}]

LEMMA FreeType == Free \in RequestType /\ Len(Free.page) = 0 /\ Free.at = "free"
BY FiltersAssumption DEF Free, RequestType

LEMMA TypesInit == Init => TypeOK
<1> SUFFICES ASSUME Init PROVE TypeOK
  OBVIOUS
<1>1. request \in [Requests -> RequestType] /\ \A r \in Requests : Len(request[r].page) <= Limit
  BY FreeType, LimitAssumption DEF Init
<1>2. QED
  BY <1>1, FiltersAssumption, MaxMovesAssumption DEF Init, TypeOK, RequestType

\* One request changes, and nothing else but the list.
LEMMA RequestTypes ==
  ASSUME TypeOK, NEW r \in Requests, NEW q \in RequestType, Len(q.page) <= Limit,
         request' = [request EXCEPT ![r] = q], UNCHANGED <<memory, moves>>, steady' \subseteq Captures,
         list' \in [at : {"loading", "loaded", "error"}, filter : Filters, items : Seq(Captures),
                    cursor : Cursors \cup {NoCursor}, hasMore : BOOLEAN]
  PROVE  TypeOK'
<1>1. request \in [Requests -> RequestType] /\ \A p \in Requests : Len(request[p].page) <= Limit
  BY DEF TypeOK, RequestType
<1>2. request' \in [Requests -> RequestType] /\ \A p \in Requests : Len(request'[p].page) <= Limit
  BY <1>1
<1>3. QED
  BY <1>2 DEF TypeOK, RequestType

\* A page, as it comes from the server.
LEMMA ListIs ==
  ASSUME TypeOK, NEW r \in Requests, List(r)
  PROVE  \E rows, q :
           /\ request[r].at = "sent" /\ request' = [request EXCEPT ![r] = q]
           /\ Answer(rows, request[r].filter, request[r].cursor)
           /\ q \in RequestType /\ Len(q.page) <= Limit
           /\ q.at = "answered" /\ q.kind = request[r].kind /\ q.items = request[r].items
           /\ q.page = Cut(rows).page /\ q.next = Cut(rows).next
<1>1. PICK rows \in Rows(request[r].filter, request[r].cursor) :
        request' = [request EXCEPT ![r] = [Free EXCEPT
          !.at = "answered", !.kind = request[r].kind, !.items = request[r].items,
          !.page = Cut(rows).page, !.next = Cut(rows).next]]
  BY DEF List
<1> DEFINE q == [Free EXCEPT !.at = "answered", !.kind = request[r].kind, !.items = request[r].items,
                             !.page = Cut(rows).page, !.next = Cut(rows).next]
<1>2. Answer(rows, request[r].filter, request[r].cursor) /\ rows \in Seq(Captures)
  BY RowsAnswer DEF Answer
<1>3. Cut(rows).page \in Seq(Captures) /\ Len(Cut(rows).page) <= Limit
      /\ Cut(rows).next \in Cursors \cup {NoCursor}
  BY <1>2, CutIs
<1>4. request[r].kind \in {"load", "more"} /\ request[r].items \in Seq(Captures) /\ request[r].at = "sent"
  BY DEF List, TypeOK
<1>5. /\ q \in RequestType /\ q.at = "answered" /\ q.kind = request[r].kind /\ q.items = request[r].items
      /\ q.page = Cut(rows).page /\ q.next = Cut(rows).next
  BY <1>3, <1>4, FreeType DEF RequestType
<1>6. QED
  BY <1>1, <1>2, <1>3, <1>4, <1>5

LEMMA AskedIs ==
  ASSUME NEW kind \in {"load", "more"}, NEW filter \in Filters, NEW cursor \in Cursors \cup {NoCursor},
         NEW items \in Seq(Captures)
  PROVE  LET q == Asked(kind, filter, cursor, items)
         IN /\ q \in RequestType /\ Len(q.page) = 0 /\ q.at = "sent" /\ q.kind = kind /\ q.filter = filter
            /\ q.cursor = cursor /\ q.items = items
BY FreeType DEF Asked, Free, RequestType

LEMMA TypesNext == TypeOK /\ [Next]_vars => TypeOK'
<1> SUFFICES ASSUME TypeOK, [Next]_vars PROVE TypeOK'
  OBVIOUS
<1> DEFINE ListType == [at : {"loading", "loaded", "error"}, filter : Filters, items : Seq(Captures),
                        cursor : Cursors \cup {NoCursor}, hasMore : BOOLEAN]
<1>1. list \in ListType /\ Limit \in Nat \ {0}
  BY LimitAssumption DEF TypeOK
<1>2. \A r \in Requests : request[r] \in RequestType
  BY DEF TypeOK, RequestType
<1>3. ASSUME NEW c \in Captures, NEW to, Changes(c, to), moves' \in 0 .. MaxMoves,
             to \in [lifecycle : Lifecycles \cup {"none", "trashed"}, pinned : BOOLEAN]
      PROVE  TypeOK'
  <2>1. memory' \in [Captures -> [lifecycle : Lifecycles \cup {"none", "trashed"}, pinned : BOOLEAN]]
    BY <1>3 DEF Changes, TypeOK
  <2>2. QED
    BY <1>3, <2>1 DEF Changes, TypeOK
<1>4. ASSUME Moves PROVE moves' \in 0 .. MaxMoves
  BY <1>4, MaxMovesAssumption DEF Moves, TypeOK
<1>5. ASSUME NEW c \in Captures,
             CreateCapture(c) \/ Archive(c) \/ Delete(c) \/ \E pinned \in BOOLEAN : SetPinned(c, pinned)
      PROVE  TypeOK'
  <2>1. memory[c] \in [lifecycle : Lifecycles \cup {"none", "trashed"}, pinned : BOOLEAN]
    BY DEF TypeOK
  <2>2. CASE CreateCapture(c)
    BY <1>3, <2>2 DEF CreateCapture, Lifecycles, TypeOK
  <2>3. CASE Archive(c)
    BY <1>3, <1>4, <2>1, <2>3 DEF Archive, Lifecycles
  <2>4. CASE Delete(c)
    BY <1>3, <1>4, <2>1, <2>4 DEF Delete
  <2>5. ASSUME NEW pinned \in BOOLEAN, SetPinned(c, pinned) PROVE TypeOK'
    BY <1>3, <1>4, <2>1, <2>5 DEF SetPinned
  <2>6. QED
    BY <1>5, <2>2, <2>3, <2>4, <2>5
<1>6. ASSUME NEW r \in Requests, List(r) PROVE TypeOK'
  <2>1. PICK rows, q : /\ request' = [request EXCEPT ![r] = q] /\ q \in RequestType /\ Len(q.page) <= Limit
    BY <1>6, ListIs
  <2>2. UNCHANGED <<memory, moves, list>> /\ steady' \subseteq Captures
    BY <1>6 DEF List, TypeOK
  <2>3. QED
    BY <1>1, <2>1, <2>2, RequestTypes
<1>7. ASSUME NEW r \in Requests, NEW filter \in Filters, Load(r, filter) PROVE TypeOK'
  <2> DEFINE none == <<>>
             q == Asked("load", filter, NoCursor, none)
  <2>1. none \in Seq(Captures)
    OBVIOUS
  <2> HIDE DEF none
  <2>2. q \in RequestType /\ Len(q.page) <= Limit
    <3>1. "load" \in {"load", "more"} /\ NoCursor \in Cursors \cup {NoCursor}
      OBVIOUS
    <3>2. q \in RequestType /\ Len(q.page) = 0
      BY <2>1, <3>1, AskedIs
    <3>3. QED
      BY <1>1, <3>2
  <2> USE DEF none
  <2>3. request' = [request EXCEPT ![r] = q] /\ UNCHANGED <<memory, moves, steady>> /\ list' \in ListType
    BY <1>1, <1>7 DEF Load
  <2> HIDE DEF q
  <2>4. QED
    BY <2>2, <2>3, RequestTypes DEF TypeOK
<1>8. ASSUME NEW r \in Requests, LoadMore(r) PROVE TypeOK'
  <2> DEFINE q == Asked("more", list.filter, list.cursor, list.items)
  <2>1. q \in RequestType /\ Len(q.page) <= Limit
    BY <1>1, AskedIs
  <2>2. request' = [request EXCEPT ![r] = q] /\ UNCHANGED <<memory, moves, steady, list>>
    BY <1>8 DEF LoadMore
  <2> HIDE DEF q
  <2>3. QED
    BY <1>1, <2>1, <2>2, RequestTypes DEF TypeOK
<1>9. ASSUME NEW r \in Requests, Receive(r) \/ Fail(r) PROVE TypeOK'
  <2>1. request' = [request EXCEPT ![r] = Free] /\ UNCHANGED <<memory, moves, steady>>
    BY <1>9 DEF Receive, Fail
  <2>2. Joined(request[r]) \in Seq(Captures) /\ request[r].next \in Cursors \cup {NoCursor}
    <3>1. /\ request[r].items \in Seq(Captures) /\ request[r].page \in Seq(Captures)
          /\ request[r].next \in Cursors \cup {NoCursor}
      BY <1>2 DEF RequestType
    <3>2. request[r].items \o request[r].page \in Seq(Captures)
      BY <3>1
    <3>3. QED
      BY <3>1, <3>2 DEF Joined
  <2>3. <<>> \in Seq(Captures)
    OBVIOUS
  <2>4. list' \in ListType
    BY <1>1, <1>9, <2>2, <2>3 DEF Receive, Fail
  <2>5. Len(Free.page) <= Limit /\ Free \in RequestType
    BY <1>1, FreeType
  <2>6. steady' \subseteq Captures
    BY <2>1 DEF TypeOK
  <2>7. QED
    BY <2>1, <2>4, <2>5, <2>6, RequestTypes
<1>10. CASE UNCHANGED vars
  BY <1>10 DEF vars, TypeOK
<1>11. QED
  BY <1>5, <1>6, <1>7, <1>8, <1>9, <1>10 DEF Next

\* No page is longer than the limit, whatever the user and the requests do.
THEOREM StreamTypes == Spec => []TypeOK
BY TypesInit, TypesNext, PTL DEF Spec

-----------------------------------------------------------------------------
(* What stays complete                                                     *)

\* What has changed is no longer steady.
LEMMA CompleteStays ==
  ASSUME TypeOK, NEW c \in Captures, NEW to, Changes(c, to), NEW items, NEW next, NEW filter,
         Complete(items, next, filter)
  PROVE  Complete(items, next, filter)'
<1>1. \A d \in steady' : d \in steady /\ memory'[d] = memory[d]
  BY DEF Changes, TypeOK
<1>2. \A d \in steady' : Reached(filter, next, d)' <=> Reached(filter, next, d)
  BY <1>1 DEF Reached, Matches, Past
<1>3. \A d, e \in steady' : Precedes(d, e)' <=> Precedes(d, e)
  BY <1>1 DEF Precedes
<1>4. QED
  BY <1>1, <1>2, <1>3 DEF Complete

\* The first page, of a list in which all that there is is steady.
LEMMA FirstPageCompletes ==
  ASSUME TypeOK, NEW filter, NEW rows, Answer(rows, filter, NoCursor), memory' = memory,
         steady' \subseteq Captures
  PROVE  Complete(Cut(rows).page, Cut(rows).next, filter)'
<1> DEFINE page == Cut(rows).page
           next == Cut(rows).next
<1>1. \A c \in Captures : Reached(filter, next, c) <=> \E i \in DOMAIN page : page[i] = c
  <2>1. \A c \in Captures : Reached(filter, next, c) <=> Shows(rows, c)
    BY PageReaches DEF Past
  <2>2. QED
    BY <2>1 DEF Shows
<1>2. \A i, j \in DOMAIN page : i < j => Precedes(page[i], page[j])
  <2>1. rows \in Seq(Captures) /\ \A i, j \in 1 .. Len(rows) : i < j => Precedes(rows[i], rows[j])
    BY DEF Answer
  <2>2. \A i \in DOMAIN page : i \in 1 .. Len(rows) /\ page[i] = rows[i]
    BY <2>1, CutIs
  <2> HIDE DEF page
  <2>3. QED
    BY <2>1, <2>2
<1>3. page' = page /\ next' = next
  BY DEF Cut, CursorOf
<1> HIDE DEF page, next
<1>4. \A c \in Captures : Reached(filter, next, c)' <=> Reached(filter, next, c)
  BY <1>3 DEF Reached, Matches, Past
<1>5. \A c, d : Precedes(c, d)' <=> Precedes(c, d)
  BY DEF Precedes
<1>6. QED
  BY <1>1, <1>2, <1>3, <1>4, <1>5 DEF Complete, page, next

\* A page continues what was complete as far as its cursor.
LEMMA NextPageCompletes ==
  ASSUME TypeOK, NEW filter, NEW cursor \in Cursors, NEW rows, Answer(rows, filter, cursor),
         NEW items \in Seq(Captures), Complete(items, cursor, filter)
  PROVE  Complete(items \o Cut(rows).page, Cut(rows).next, filter)
<1> DEFINE page == Cut(rows).page
           next == Cut(rows).next
           joined == items \o page
           m == Len(items)
<1>1. page \in Seq(Captures) /\ \A i \in 1 .. Len(page) : i \in 1 .. Len(rows) /\ page[i] = rows[i]
  <2>1. rows \in Seq(Captures)
    BY DEF Answer
  <2>2. QED
    BY <2>1, CutIs
<1>2. /\ Len(page) \in Nat /\ DOMAIN page = 1 .. Len(page)
      /\ m \in Nat /\ DOMAIN items = 1 .. m
  BY <1>1
<1>3. \A c \in Captures :
        Reached(filter, next, c) <=>
          (Matches(filter, c) /\ ~ Past(cursor, c)) \/ \E i \in 1 .. Len(page) : page[i] = c
  <2>1. TAKE c \in Captures
  <2>2. cursor \in Cursors \cup {NoCursor}
    OBVIOUS
  <2>3. Reached(filter, next, c) <=> (Matches(filter, c) /\ ~ Past(cursor, c)) \/ Shows(rows, c)
    BY <2>2, PageReaches
  <2>4. QED
    BY <1>2, <2>3 DEF Shows
<1> HIDE DEF page, next
<1>4. /\ DOMAIN joined = 1 .. m + Len(page)
      /\ \A i \in 1 .. m : joined[i] = items[i]
      /\ \A i \in 1 .. Len(page) : joined[m + i] = page[i]
      /\ \A i \in DOMAIN joined : i \in 1 .. m \/ (i - m \in 1 .. Len(page) /\ joined[i] = page[i - m])
  <2>1. DOMAIN joined = 1 .. m + Len(page)
    BY <1>1, <1>2
  <2>2. \A i \in 1 .. m : joined[i] = items[i]
    BY <1>1, <1>2
  <2>3. \A i \in 1 .. Len(page) : joined[m + i] = page[i]
    BY <1>1, <1>2
  <2>4. \A i \in 1 .. m + Len(page) : i \in 1 .. m \/ (i - m \in 1 .. Len(page) /\ i = m + (i - m))
    BY <1>2
  <2>5. QED
    BY <2>1, <2>2, <2>3, <2>4
<1> HIDE DEF joined
<1>5. cursor # NoCursor
  BY CursorType
<1>6. \A c \in steady : c \in Captures
  BY DEF TypeOK
<1>7. ASSUME NEW c \in steady
      PROVE  Reached(filter, next, c) <=> \E i \in DOMAIN joined : joined[i] = c
  <2>1. Matches(filter, c) /\ ~ Past(cursor, c) <=> \E i \in 1 .. m : items[i] = c
    BY <1>2, <1>5 DEF Complete, Reached
  <2>2. (\E i \in DOMAIN joined : joined[i] = c) <=>
          (\E i \in 1 .. m : items[i] = c) \/ (\E i \in 1 .. Len(page) : page[i] = c)
    <3>1. \A i \in 1 .. Len(page) : m + i \in DOMAIN joined
      BY <1>2, <1>4
    <3>2. \A i \in 1 .. m : i \in DOMAIN joined
      BY <1>2, <1>4
    <3>3. QED
      BY <1>4, <3>1, <3>2
  <2>3. QED
    BY <1>3, <1>6, <2>1, <2>2
<1>8. ASSUME NEW i \in 1 .. m, items[i] \in steady, NEW j \in 1 .. Len(page)
      PROVE  Precedes(items[i], page[j])
  <2> DEFINE c == items[i]
             d == page[j]
  <2>1. c \in Captures /\ d \in Captures
    BY <1>1, <1>6, <1>8
  <2>2. ~ Past(cursor, c)
    BY <1>2, <1>5, <1>8 DEF Complete, Reached
  <2>3. Past(cursor, d)
    <3>1. j \in 1 .. Len(rows) /\ d = rows[j]
      BY <1>1
    <3>2. QED
      BY <2>1, <3>1 DEF Answer
  <2>4. /\ cursor.pinned \in BOOLEAN /\ cursor.capture \in Nat
        /\ memory[c].pinned \in BOOLEAN /\ c \in Nat
        /\ memory[d].pinned \in BOOLEAN /\ d \in Nat
    BY <2>1, CursorType, MemoryType
  <2>5. /\ ~ Below(memory[c].pinned, c, cursor.pinned, cursor.capture)
        /\ Below(memory[d].pinned, d, cursor.pinned, cursor.capture)
    BY <1>5, <2>2, <2>3 DEF Past
  <2> HIDE DEF c, d
  <2>6. \/ Below(cursor.pinned, cursor.capture, memory[c].pinned, c)
        \/ cursor.pinned = memory[c].pinned /\ cursor.capture = c
    BY <2>4, <2>5, BelowIsTotal
  <2>7. Below(memory[d].pinned, d, memory[c].pinned, c)
    BY <2>4, <2>5, <2>6, BelowIsTransitive
  <2>8. QED
    BY <2>7 DEF Precedes, c, d
<1>9. ASSUME NEW i \in DOMAIN joined, NEW j \in DOMAIN joined, i < j,
             joined[i] \in steady, joined[j] \in steady
      PROVE  Precedes(joined[i], joined[j])
  <2>1. i \in Nat /\ j \in Nat
    BY <1>2, <1>4
  <2>2. CASE j \in 1 .. m
    <3>1. i \in 1 .. m
      BY <1>2, <1>4, <1>9, <2>1, <2>2
    <3>2. QED
      BY <1>2, <1>4, <1>9, <2>2, <3>1 DEF Complete
  <2>3. CASE i \in 1 .. m /\ j \notin 1 .. m
    BY <1>4, <1>8, <1>9, <2>3
  <2>4. CASE i \notin 1 .. m /\ j \notin 1 .. m
    <3>1. /\ i - m \in 1 .. Len(page) /\ joined[i] = page[i - m]
          /\ j - m \in 1 .. Len(page) /\ joined[j] = page[j - m]
      BY <1>4, <2>4
    <3>2. i - m < j - m
      BY <1>2, <1>9, <2>1
    <3>3. QED
      BY <1>1, <3>1, <3>2 DEF Answer
  <2>5. QED
    BY <2>2, <2>3, <2>4
<1>10. QED
  BY <1>7, <1>9 DEF Complete, joined, page, next

-----------------------------------------------------------------------------
(* A user who waits                                                        *)

LEMMA KindsType == TypeOK => \A r \in Requests : request[r].kind \in {"load", "more"}
BY DEF TypeOK

LEMMA CompleteSame ==
  ASSUME UNCHANGED <<memory, steady>>, NEW items, NEW next, NEW filter
  PROVE  Complete(items, next, filter)' <=> Complete(items, next, filter)
<1>1. \A c : Reached(filter, next, c)' <=> Reached(filter, next, c)
  BY DEF Reached, Matches, Past
<1>2. \A c, d : Precedes(c, d)' <=> Precedes(c, d)
  BY DEF Precedes
<1>3. QED
  BY <1>1, <1>2 DEF Complete

LEMMA HeldNext ==
  ASSUME NEW p, NEW q, NEW filter, request'[p] = q, list'.filter = filter, Held(q, filter)'
  PROVE  Held(request[p], list.filter)'
BY DEF Held, Joined, Complete, Reached

LEMMA HeldSame ==
  ASSUME UNCHANGED <<memory, steady>>, NEW q, NEW filter, Held(q, filter)
  PROVE  Held(q, filter)'
<1>1. /\ Complete(q.items, q.cursor, filter)' <=> Complete(q.items, q.cursor, filter)
      /\ Complete(Joined(q), q.next, filter)' <=> Complete(Joined(q), q.next, filter)
  BY CompleteSame
<1>2. QED
  BY <1>1 DEF Held, Joined

\* A request changes, the others and the filter do not.
LEMMA OthersHold ==
  ASSUME TypeOK, StreamInv, NEW r \in Requests, NEW q, request' = [request EXCEPT ![r] = q],
         UNCHANGED <<memory, steady>>, NEW filter, filter = list.filter, list'.filter = filter,
         Held(q, filter)'
  PROVE  \A p \in Requests : Held(request[p], list.filter)'
<1> SUFFICES ASSUME NEW p \in Requests PROVE Held(request[p], list.filter)'
  OBVIOUS
<1>1. PICK u : u = request[p]
  OBVIOUS
<1>2. CASE p = r
  BY <1>2, HeldNext DEF TypeOK
<1>3. CASE p # r
  <2>1. request'[p] = u
    BY <1>1, <1>3 DEF TypeOK
  <2>2. Held(u, filter)
    BY <1>1 DEF StreamInv
  <2>3. Held(u, filter)'
    BY <2>2, HeldSame
  <2>4. QED
    BY <2>1, <2>3, HeldNext
<1>4. QED
  BY <1>2, <1>3

LEMMA MovesKeep ==
  ASSUME TypeOK, StreamInv, NEW c \in Captures, NEW to, Changes(c, to)
  PROVE  StreamInv'
<1>1. Turns'
  BY DEF StreamInv, Turns, OnItsWay, Changes
<1>2. \A items, next, filter : Complete(items, next, filter) => Complete(items, next, filter)'
  <2>1. ASSUME NEW items, NEW next, NEW filter, Complete(items, next, filter)
        PROVE  Complete(items, next, filter)'
    BY <2>1, CompleteStays
  <2>2. QED
    BY <2>1
<1>3. list' = list /\ request' = request
  BY DEF Changes
<1>4. ASSUME NEW r \in Requests PROVE Held(request[r], list.filter)'
  <2>1. PICK u, filter : u = request[r] /\ filter = list.filter
    OBVIOUS
  <2>2. Held(u, filter)
    BY <2>1 DEF StreamInv
  <2>3. /\ Complete(u.items, u.cursor, filter) => Complete(u.items, u.cursor, filter)'
        /\ Complete(Joined(u), u.next, filter) => Complete(Joined(u), u.next, filter)'
    BY <1>2
  <2>4. Held(u, filter)'
    BY <2>2, <2>3 DEF Held, Joined
  <2>5. QED
    BY <1>3, <2>1, <2>4, HeldNext
<1>5. PagesMissNothing'
  <2>1. PICK u : u = list
    OBVIOUS
  <2>2. Complete(u.items, u.cursor, u.filter) => Complete(u.items, u.cursor, u.filter)'
    BY <1>2
  <2>3. QED
    BY <1>3, <2>1, <2>2 DEF StreamInv, PagesMissNothing, Complete, Reached
<1>6. QED
  BY <1>1, <1>4, <1>5 DEF StreamInv

LEMMA LoadKeeps ==
  ASSUME Patient, TypeOK, StreamInv, NEW r \in Requests, NEW filter \in Filters, Load(r, filter)
  PROVE  StreamInv'
<1>1. PICK q : q = Asked("load", filter, NoCursor, <<>>)
  OBVIOUS
<1>2. q.at = "sent" /\ q.kind = "load" /\ q.filter = filter /\ q.cursor = NoCursor
  BY <1>1 DEF Asked, Free
<1>3. \A p \in Requests : request[p].at = "free"
  BY DEF Load, OnTheWay
<1>4. \A p \in Requests : request'[p] = IF p = r THEN q ELSE request[p]
  BY <1>1 DEF Load, TypeOK
<1>5. list'.filter = filter /\ list'.cursor = NoCursor
  BY DEF Load, TypeOK
<1>6. Turns'
  BY <1>2, <1>3, <1>4, <1>5 DEF Turns, OnItsWay
<1>7. \A p \in Requests : Held(request[p], list.filter)'
  BY <1>2, <1>3, <1>4, <1>5 DEF Held
<1>8. PagesMissNothing'
  BY <1>2, <1>4 DEF PagesMissNothing
<1>9. QED
  BY <1>6, <1>7, <1>8 DEF StreamInv

LEMMA LoadMoreKeeps ==
  ASSUME TypeOK, StreamInv, NEW r \in Requests, LoadMore(r)
  PROVE  StreamInv'
<1>1. PICK q, filter, cursor, items :
        /\ q = Asked("more", filter, cursor, items)
        /\ filter = list.filter /\ cursor = list.cursor /\ items = list.items
  OBVIOUS
<1>2. q.at = "sent" /\ q.kind = "more" /\ q.filter = filter /\ q.cursor = cursor /\ q.items = items
  BY <1>1 DEF Asked, Free
<1>3. /\ request' = [request EXCEPT ![r] = q] /\ UNCHANGED <<memory, steady, list>>
      /\ list.at = "loaded" /\ list.cursor # NoCursor
  BY <1>1 DEF LoadMore
<1>4. \A p \in Requests : request'[p] = IF p = r THEN q ELSE request[p]
  BY <1>3 DEF TypeOK
<1>5. \A p \in Requests : request[p].at # "free" => request[p].kind = "more"
  BY <1>3, KindsType DEF StreamInv, Turns, OnItsWay
<1>6. Complete(items, cursor, filter) /\ (list.hasMore <=> list.cursor # NoCursor)
  BY <1>1, <1>3, <1>5 DEF StreamInv, PagesMissNothing
<1>7. Turns'
  BY <1>2, <1>3, <1>4, <1>5 DEF Turns, OnItsWay
<1>8. \A p \in Requests : Held(request[p], list.filter)'
  <2>1. Held(q, filter)
    BY <1>1, <1>2, <1>3, <1>6 DEF Held
  <2>2. Held(q, filter)'
    BY <1>3, <2>1, HeldSame
  <2>3. QED
    BY <1>1, <1>3, <2>2, OthersHold
<1>9. PagesMissNothing'
  <2>1. Complete(items, cursor, filter)'
    BY <1>3, <1>6, CompleteSame
  <2>2. QED
    BY <1>1, <1>3, <1>6, <2>1 DEF PagesMissNothing, Complete, Reached
<1>10. QED
  BY <1>7, <1>8, <1>9 DEF StreamInv

LEMMA ListKeeps ==
  ASSUME TypeOK, StreamInv, NEW r \in Requests, List(r)
  PROVE  StreamInv'
<1>1. PICK u, filter : u = request[r] /\ filter = list.filter
  OBVIOUS
<1>2. PICK rows, q :
        /\ u.at = "sent" /\ request' = [request EXCEPT ![r] = q]
        /\ Answer(rows, u.filter, u.cursor)
        /\ q.at = "answered" /\ q.kind = u.kind /\ q.items = u.items
        /\ q.page = Cut(rows).page /\ q.next = Cut(rows).next
  BY <1>1, ListIs
<1>3. UNCHANGED <<memory, list>> /\ steady' \subseteq Captures
  BY DEF List, TypeOK
<1>4. \A p \in Requests : request'[p] = IF p = r THEN q ELSE request[p]
  BY <1>2 DEF TypeOK
<1>5. u \in RequestType /\ Held(u, filter) /\ u.filter = filter
  BY <1>1, <1>2 DEF TypeOK, RequestType, StreamInv, Held
<1>6. \A p \in Requests :
        request'[p].kind = request[p].kind /\ (request'[p].at # "free" <=> request[p].at # "free")
  BY <1>1, <1>2, <1>4
<1>7. Turns'
  BY <1>3, <1>6 DEF StreamInv, Turns, OnItsWay
<1>8. CASE u.kind = "load"
  <2>1. \A p \in Requests : p # r => request'[p].at = "free"
    BY <1>1, <1>2, <1>4, <1>8 DEF StreamInv, Turns, OnItsWay
  <2>2. u.cursor = NoCursor
    BY <1>2, <1>5, <1>8 DEF Held
  <2>3. Complete(q.page, q.next, filter)'
    <3>1. PICK page, next : page = Cut(rows).page /\ next = Cut(rows).next
      OBVIOUS
    <3>2. page = Cut(rows).page' /\ next = Cut(rows).next'
      BY <1>3, <3>1 DEF Cut, CursorOf
    <3>3. Complete(Cut(rows).page, Cut(rows).next, filter)'
      BY <1>2, <1>3, <1>5, <2>2, FirstPageCompletes
    <3>4. Complete(page, next, filter)'
      BY <3>2, <3>3 DEF Complete, Reached
    <3>5. QED
      BY <1>2, <3>1, <3>4
  <2>4. Held(q, filter)'
    BY <1>2, <1>8, <2>3 DEF Held, Joined
  <2>5. ASSUME NEW p \in Requests PROVE Held(request[p], list.filter)'
    <3>1. CASE p = r
      BY <1>1, <1>3, <1>4, <2>4, <3>1, HeldNext
    <3>2. CASE p # r
      BY <2>1, <3>2 DEF Held
    <3>3. QED
      BY <3>1, <3>2
  <2>6. PagesMissNothing'
    BY <1>2, <1>4, <1>8 DEF PagesMissNothing
  <2>7. QED
    BY <1>7, <2>5, <2>6 DEF StreamInv
<1>9. CASE u.kind = "more"
  <2>1. steady' = steady
    BY <1>1, <1>9 DEF List
  <2>2. u.cursor \in Cursors /\ u.items \in Seq(Captures) /\ Complete(u.items, u.cursor, filter)
    BY <1>1, <1>2, <1>5, <1>9 DEF Held, RequestType
  <2>3. Complete(q.items \o q.page, q.next, filter)
    BY <1>2, <1>5, <2>2, NextPageCompletes
  <2>4. Held(q, filter)
    BY <1>2, <1>9, <2>3 DEF Held, Joined
  <2>5. Held(q, filter)'
    BY <1>3, <2>1, <2>4, HeldSame
  <2>6. \A p \in Requests : Held(request[p], list.filter)'
    BY <1>1, <1>2, <1>3, <2>1, <2>5, OthersHold
  <2>7. PagesMissNothing'
    BY <1>3, <1>6, <2>1 DEF StreamInv, PagesMissNothing, Complete, Reached, Matches, Past, Precedes
  <2>8. QED
    BY <1>7, <2>6, <2>7 DEF StreamInv
<1>10. QED
  BY <1>5, <1>8, <1>9 DEF RequestType

LEMMA ReceiveKeeps ==
  ASSUME TypeOK, StreamInv, NEW r \in Requests, Receive(r)
  PROVE  StreamInv'
<1>1. PICK u, filter, items, next :
        u = request[r] /\ filter = list.filter /\ items = Joined(u) /\ next = u.next
  OBVIOUS
<1>2. u.at = "answered" /\ Complete(items, next, filter)
  BY <1>1 DEF Receive, StreamInv, Held
<1>3. /\ list'.at = "loaded" /\ list'.items = items /\ list'.cursor = next /\ list'.filter = filter
      /\ list'.hasMore <=> next # NoCursor
  BY <1>1 DEF Receive, TypeOK
<1>4. UNCHANGED <<memory, steady>> /\ request' = [request EXCEPT ![r] = Free]
  BY DEF Receive
<1>5. \A p \in Requests : request'[p] = IF p = r THEN Free ELSE request[p]
  BY <1>4 DEF TypeOK
<1>6. Free.at = "free"
  BY FreeType
<1>7. \A p \in Requests : ~ (OnItsWay(p, "load"))'
  BY <1>1, <1>2, <1>5, <1>6 DEF StreamInv, Turns, OnItsWay
<1>8. Turns'
  BY <1>3, <1>7 DEF Turns
<1>9. \A p \in Requests : Held(request[p], list.filter)'
  <2>1. Held(Free, filter)'
    BY <1>6 DEF Held
  <2>2. QED
    BY <1>1, <1>3, <1>4, <2>1, OthersHold
<1>10. PagesMissNothing'
  <2>1. Complete(items, next, filter)'
    BY <1>2, <1>4, CompleteSame
  <2>2. QED
    BY <1>3, <2>1 DEF PagesMissNothing, Complete, Reached
<1>11. QED
  BY <1>8, <1>9, <1>10 DEF StreamInv

LEMMA FailKeeps ==
  ASSUME TypeOK, StreamInv, NEW r \in Requests, Fail(r)
  PROVE  StreamInv'
<1>1. UNCHANGED <<memory, steady>> /\ request' = [request EXCEPT ![r] = Free] /\ request[r].at # "free"
  BY DEF Fail
<1>2. \A p \in Requests : request'[p] = IF p = r THEN Free ELSE request[p]
  BY <1>1 DEF TypeOK
<1>3. Free.at = "free"
  BY FreeType
<1>4. CASE request[r].kind = "load"
  <2>1. \A p \in Requests : request'[p].at = "free"
    BY <1>1, <1>2, <1>3, <1>4 DEF StreamInv, Turns, OnItsWay
  <2>2. list'.at = "error"
    BY <1>4 DEF Fail, TypeOK
  <2>3. QED
    BY <2>1, <2>2 DEF StreamInv, Turns, OnItsWay, Held, PagesMissNothing
<1>5. CASE request[r].kind # "load"
  <2>1. list' = list
    BY <1>5 DEF Fail
  <2>2. Turns'
    BY <1>2, <1>3, <2>1 DEF StreamInv, Turns, OnItsWay
  <2>3. \A p \in Requests : Held(request[p], list.filter)'
    <3>1. PICK filter : filter = list.filter
      OBVIOUS
    <3>2. Held(Free, filter)'
      BY <1>3 DEF Held
    <3>3. QED
      BY <1>1, <2>1, <3>1, <3>2, OthersHold
  <2>4. \A p \in Requests : request[p].at # "free" => p = r \/ request'[p] = request[p]
    BY <1>2
  <2>5. request[r].kind = "more"
    BY <1>5, KindsType
  <2>6. PagesMissNothing'
    BY <1>1, <2>1, <2>4, <2>5
    DEF StreamInv, PagesMissNothing, Complete, Reached, Matches, Past, Precedes
  <2>7. QED
    BY <2>2, <2>3, <2>6 DEF StreamInv
<1>6. QED
  BY <1>4, <1>5

LEMMA StreamNext ==
  ASSUME Patient
  PROVE  TypeOK /\ StreamInv /\ [Next]_vars => StreamInv'
<1> SUFFICES ASSUME TypeOK, StreamInv, [Next]_vars PROVE StreamInv'
  OBVIOUS
<1>1. ASSUME NEW c \in Captures,
             CreateCapture(c) \/ Archive(c) \/ Delete(c) \/ \E pinned \in BOOLEAN : SetPinned(c, pinned)
      PROVE  StreamInv'
  BY <1>1, MovesKeep DEF CreateCapture, Archive, Delete, SetPinned
<1>2. CASE UNCHANGED vars
  <2>1. ASSUME NEW r \in Requests PROVE Held(request[r], list.filter)'
    <3>1. PICK q, filter : q = request[r] /\ filter = list.filter
      OBVIOUS
    <3>2. Held(q, filter)
      BY <3>1 DEF StreamInv
    <3>3. Held(q, filter)'
      BY <1>2, <3>2, HeldSame DEF vars
    <3>4. QED
      BY <1>2, <3>1, <3>3, HeldNext DEF vars
  <2>2. PagesMissNothing'
    BY <1>2 DEF vars, StreamInv, PagesMissNothing, Complete, Reached, Matches, Past, Precedes
  <2>3. Turns'
    BY <1>2 DEF vars, StreamInv, Turns, OnItsWay
  <2>4. QED
    BY <2>1, <2>2, <2>3 DEF StreamInv
<1>3. QED
  BY <1>1, <1>2, LoadKeeps, LoadMoreKeeps, ListKeeps, ReceiveKeeps, FailKeeps DEF Next

LEMMA StreamInit == Init => StreamInv
BY FreeType DEF Init, StreamInv, Turns, OnItsWay, Held, PagesMissNothing

\* Of what stays as it was since the first page was cut, the list misses and
\* repeats nothing, if its user starts no load while a page is on its way: pages
\* may be asked for twice, fail, and come out of order, and other memories be
\* created, pinned, archived and deleted between them.
THEOREM ScrollingMissesNothing ==
  ASSUME Patient
  PROVE  Spec => []PagesMissNothing
<1>1. TypeOK /\ StreamInv /\ [Next]_vars => StreamInv'
  BY StreamNext
<1>2. StreamInv => PagesMissNothing
  BY DEF StreamInv
<1>3. QED
  BY TypesInit, TypesNext, StreamInit, <1>1, <1>2, PTL DEF Spec
=============================================================================
