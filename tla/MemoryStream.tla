---------------------------- MODULE MemoryStream ----------------------------
(***************************************************************************)
(* The memory stream: pages that the server cuts by a cursor, and the list *)
(* in the app that joins them, while memories are created, pinned, archived *)
(* and deleted.  The cursor holds the sort key of the last memory of a     *)
(* page; the server keeps nothing between two pages.                       *)
(*                                                                         *)
(* Captures are numbered in the order of (created_at, id).  Of the filters *)
(* two are left, the lifecycle and the pinned-only switch; the others look *)
(* at data that nothing here changes.                                      *)
(***************************************************************************)
EXTENDS Integers, Sequences, FiniteSets, Functions

CONSTANTS
  Total,     \* how many captures the user makes
  Limit,     \* memories of a page
  Filters,   \* lifecycle_status and pinned, as the user combines them
  NoCursor,  \* of the first page, and after the last one
  Requests,  \* pages that may be on their way at once
  MaxMoves,  \* bound: how often memories are pinned, archived and deleted
  Patient    \* the user starts no load while a page is on its way

Lifecycles == {"active", "archived"}
FirstFilter == [lifecycle |-> "active", pinnedOnly |-> FALSE]

ASSUME FiltersAssumption ==
  Filters \subseteq [lifecycle : Lifecycles, pinnedOnly : BOOLEAN] /\ FirstFilter \in Filters
ASSUME TotalAssumption == Total \in Nat
ASSUME LimitAssumption == Limit \in Nat \ {0}
ASSUME PatientAssumption == Patient \in BOOLEAN
ASSUME NoCursorAssumption == NoCursor \notin [pinned : BOOLEAN, capture : Nat]

ASSUME MaxMovesAssumption == MaxMoves \in Nat

VARIABLES
  memory,   \* lifecycle_status and is_pinned of the captures
  list,     \* the state of the list in the app
  request,  \* the pages that are on their way
  steady,   \* history: what has not changed since the first page was cut
  moves     \* history: how often memories were pinned, archived and deleted

vars == <<memory, list, request, steady, moves>>

-----------------------------------------------------------------------------
Captures == 1 .. Total

Cursors == [pinned : BOOLEAN, capture : Captures]

Free == [at |-> "free", kind |-> "load", filter |-> FirstFilter, cursor |-> NoCursor,
         items |-> <<>>, page |-> <<>>, next |-> NoCursor]

\* cursor: _nextCursor; it is cleared when a load begins, while hasMore stays.
Init ==
  /\ memory = [c \in Captures |-> [lifecycle |-> "none", pinned |-> FALSE]]
  /\ list = [at |-> "loading", filter |-> FirstFilter, items |-> <<>>, cursor |-> NoCursor,
             hasMore |-> FALSE]
  /\ request = [r \in Requests |-> Free]
  /\ steady = {}
  /\ moves = 0

-----------------------------------------------------------------------------
(* The server                                                              *)

\* (m.is_pinned, c.created_at, c.id), compared as rows.
Below(pinned1, capture1, pinned2, capture2) ==
  \/ ~ pinned1 /\ pinned2
  \/ pinned1 = pinned2 /\ capture1 < capture2

Precedes(c, d) == Below(memory[d].pinned, d, memory[c].pinned, c)

\* Mutation: the cursor is compared by age alone.
PastByAge(cursor, c) == cursor = NoCursor \/ c < cursor.capture

Past(cursor, c) ==
  cursor = NoCursor \/ Below(memory[c].pinned, c, cursor.pinned, cursor.capture)

Matches(filter, c) ==
  /\ memory[c].lifecycle = filter.lifecycle
  /\ filter.pinnedOnly => memory[c].pinned

CursorOf(c) == [pinned |-> memory[c].pinned, capture |-> c]

\* Mutation: the row that only tells whether there are more is shown as well.
CutWithTheNext(rows) ==
  [page |-> SubSeq(rows, 1, IF Len(rows) > Limit THEN Limit + 1 ELSE Len(rows)),
   next |-> IF Len(rows) > Limit THEN CursorOf(rows[Limit]) ELSE NoCursor]

\* One row more than the page is read to know whether there are more.
Cut(rows) ==
  [page |-> SubSeq(rows, 1, IF Len(rows) > Limit THEN Limit ELSE Len(rows)),
   next |-> IF Len(rows) > Limit THEN CursorOf(rows[Limit]) ELSE NoCursor]

\* What the query answers: there is one such sequence.
Rows(filter, cursor) ==
  LET found == {c \in Captures : Matches(filter, c) /\ Past(cursor, c)}
  IN {rows \in [1 .. Cardinality(found) -> found] :
        /\ Range(rows) = found
        /\ \A i, j \in DOMAIN rows : i < j => Precedes(rows[i], rows[j])}

List(r) ==
  /\ request[r].at = "sent"
  /\ \E rows \in Rows(request[r].filter, request[r].cursor) :
       request' = [request EXCEPT ![r] = [Free EXCEPT
         !.at = "answered", !.kind = request[r].kind, !.items = request[r].items,
         !.page = Cut(rows).page, !.next = Cut(rows).next]]
  /\ steady' = IF request[r].kind = "load" THEN {c \in Captures : memory[c].lifecycle # "none"} ELSE steady
  /\ UNCHANGED <<memory, list, moves>>

Changes(c, to) ==
  /\ memory' = [memory EXCEPT ![c] = to]
  /\ steady' = steady \ {c}
  /\ UNCHANGED <<list, request>>

Moves == moves < MaxMoves /\ moves' = moves + 1

Visible(c) == memory[c].lifecycle \in Lifecycles

\* created_at is the time when the transaction began: of two that overlap, the
\* older may be seen later.
CreateCapture(c) ==
  /\ memory[c].lifecycle = "none"
  /\ Changes(c, [lifecycle |-> "active", pinned |-> FALSE])
  /\ UNCHANGED moves

SetPinned(c, pinned) ==
  /\ Visible(c) /\ memory[c].pinned # pinned
  /\ Moves
  /\ Changes(c, [memory[c] EXCEPT !.pinned = pinned])

Archive(c) ==
  /\ memory[c].lifecycle = "active"
  /\ Moves
  /\ Changes(c, [memory[c] EXCEPT !.lifecycle = "archived"])

Delete(c) ==
  /\ Visible(c)
  /\ Moves
  /\ Changes(c, [memory[c] EXCEPT !.lifecycle = "trashed"])

-----------------------------------------------------------------------------
(* The list in the app                                                     *)

OnTheWay == {r \in Requests : request[r].at # "free"}

Asked(kind, filter, cursor, items) ==
  [Free EXCEPT !.at = "sent", !.kind = kind, !.filter = filter, !.cursor = cursor, !.items = items]

\* load, and search, setFilter and refresh, which are loads.
Load(r, filter) ==
  /\ request[r].at = "free"
  /\ Patient => OnTheWay = {}
  /\ list' = [list EXCEPT !.filter = filter, !.cursor = NoCursor,
                          !.at = IF list.at = "loaded" THEN "loaded" ELSE "loading"]
  /\ request' = [request EXCEPT ![r] = Asked("load", filter, NoCursor, <<>>)]
  /\ UNCHANGED <<memory, steady, moves>>

\* Every time that the end of the list is drawn, whether or not the page is on
\* its way already.
LoadMore(r) ==
  /\ request[r].at = "free"
  /\ list.at = "loaded" /\ list.hasMore /\ list.cursor # NoCursor
  /\ request' = [request EXCEPT ![r] = Asked("more", list.filter, list.cursor, list.items)]
  /\ UNCHANGED <<memory, list, steady, moves>>

\* A page is appended to what the list showed when it was asked for.
Joined(req) == IF req.kind = "load" THEN req.page ELSE req.items \o req.page

Receive(r) ==
  /\ request[r].at = "answered"
  /\ list' = [list EXCEPT !.at = "loaded", !.items = Joined(request[r]), !.cursor = request[r].next,
                          !.hasMore = (request[r].next # NoCursor)]
  /\ request' = [request EXCEPT ![r] = Free]
  /\ UNCHANGED <<memory, steady, moves>>

\* A load that fails leaves a message instead of the list; a page that fails, nothing.
Fail(r) ==
  /\ request[r].at \in {"sent", "answered"}
  /\ list' = IF request[r].kind = "load" THEN [list EXCEPT !.at = "error", !.items = <<>>, !.hasMore = FALSE]
             ELSE list
  /\ request' = [request EXCEPT ![r] = Free]
  /\ UNCHANGED <<memory, steady, moves>>

Next ==
  \/ \E c \in Captures :
       CreateCapture(c) \/ Archive(c) \/ Delete(c) \/ \E pinned \in BOOLEAN : SetPinned(c, pinned)
  \/ \E r \in Requests :
       LoadMore(r) \/ List(r) \/ Receive(r) \/ Fail(r) \/ \E filter \in Filters : Load(r, filter)

Spec == Init /\ [][Next]_vars

-----------------------------------------------------------------------------
(* Properties                                                              *)

\* Type invariant: no page is longer than the limit.
TypeOK ==
  /\ memory \in [Captures -> [lifecycle : Lifecycles \cup {"none", "trashed"}, pinned : BOOLEAN]]
  /\ list \in [at : {"loading", "loaded", "error"}, filter : Filters, items : Seq(Captures),
               cursor : Cursors \cup {NoCursor}, hasMore : BOOLEAN]
  /\ request \in [Requests -> [at : {"free", "sent", "answered"}, kind : {"load", "more"},
                               filter : Filters, cursor : Cursors \cup {NoCursor},
                               items : Seq(Captures), page : Seq(Captures),
                               next : Cursors \cup {NoCursor}]]
  /\ \A r \in Requests : Len(request[r].page) <= Limit
  /\ steady \subseteq Captures
  /\ moves \in 0 .. MaxMoves

\* The pages have come to memory c.
Reached(filter, next, c) == Matches(filter, c) /\ (next # NoCursor => ~ Past(next, c))

\* These items are the steady memories up to the next page, in order and each of
\* them once, and others between them.
Complete(items, next, filter) ==
  /\ \A c \in steady : Reached(filter, next, c) <=> \E i \in DOMAIN items : items[i] = c
  /\ \A i, j \in DOMAIN items :
       i < j /\ items[i] \in steady /\ items[j] \in steady => Precedes(items[i], items[j])

\* The pages miss nothing and repeat nothing: of what has not changed since the
\* first of them was cut, the list shows each memory once and in order as far as
\* it goes, and all of it when there are no more, though pages are asked for
\* twice, fail or come out of order while other memories move between them.
PagesMissNothing ==
  list.at = "loaded" /\ (\A r \in Requests : request[r].at # "free" => request[r].kind = "more") =>
    /\ Complete(list.items, list.cursor, list.filter)
    /\ list.hasMore <=> list.cursor # NoCursor
=============================================================================
