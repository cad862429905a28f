--------------------------- MODULE IncidentPaging ---------------------------
(***************************************************************************)
(* The incident list is served in pages (storage/incident_collection.py,   *)
(* repository.py, GET /incidents).  A client follows next_cursor; between  *)
(* two pages the evaluation updates, opens and resolves incidents and the  *)
(* maintenance deletes some.                                               *)
(*                                                                         *)
(* Rows are [id, state, at, devices]; updated_at is canonical UTC text,    *)
(* whose lexical order is that of time: a number.  A cursor's base64 JSON  *)
(* is the record it holds, and Garbage for anything else; a signature is   *)
(* the tuple it hashes.  A request has a set of at most one cursor, and so *)
(* has a page the cursor of the next one.                                  *)
(***************************************************************************)
EXTENDS Payloads

CONSTANTS DEFAULT_INCIDENT_COLLECTION_LIMIT, MAX_INCIDENT_COLLECTION_LIMIT

ASSUME LimitAssumption == /\ MAX_INCIDENT_COLLECTION_LIMIT \in Nat
                          /\ DEFAULT_INCIDENT_COLLECTION_LIMIT \in 1 .. MAX_INCIDENT_COLLECTION_LIMIT
ASSUME PageAssumption == Missing \notin {"query", "cursor"}

\* A text that is no cursor: what it decodes to has no version.
Garbage == [v |-> Missing]

RefusedQuery == [refused |-> "query"]
RefusedCursor == [refused |-> "cursor"]

ALL_INCIDENT_STATUSES == {"open", "watching", "resolved"}
lifecycle_rank(state) == CASE state = "open" -> 0 [] state = "watching" -> 1 [] OTHER -> 2

\* An empty status list means all; a device needs its network.
build_incident_collection_query(q) ==
    IF \/ ~(q.status \subseteq ALL_INCIDENT_STATUSES)
       \/ q.dev # Missing /\ q.net = Missing
       \/ q.limit # Missing /\ q.limit \notin 1 .. MAX_INCIDENT_COLLECTION_LIMIT
       \/ q.order \notin {Missing, "lifecycle", "recent"}
    THEN RefusedQuery
    ELSE [refused |-> Missing,
          status |-> IF q.status = {} THEN ALL_INCIDENT_STATUSES ELSE q.status,
          after |-> q.after, net |-> q.net, dev |-> q.dev, cursor |-> q.cursor,
          limit |-> IF q.limit = Missing THEN DEFAULT_INCIDENT_COLLECTION_LIMIT ELSE q.limit,
          order |-> IF q.order = Missing THEN "lifecycle" ELSE q.order]

filter_signature(q) ==
    IF q.order = "lifecycle" THEN <<q.dev, q.net, q.status, q.after>>
    ELSE <<q.dev, q.net, q.status, q.after, q.order>>

cursor_from_incident_row(row, q) ==
    [v |-> IF q.order = "recent" THEN 2 ELSE 1, u |-> row.at, id |-> row.id, fs |-> filter_signature(q),
     lr |-> IF q.order = "recent" THEN Missing ELSE lifecycle_rank(row.state)]

\* Whether the token is a cursor of this order and these filters; else it raises.
decode_incident_collection_cursor(token, q) ==
    /\ token.v = (IF q.order = "recent" THEN 2 ELSE 1)
    /\ token.fs = filter_signature(q)

\* The sort key of a row, and of the row a cursor was made of.  A single
\* lifecycle omits the constant rank.
OrderKey(order, rank, at, id) ==
    IF order = "recent" THEN <<-at, -id>> ELSE <<rank, -at, -id>>
RowKey(q, x) == OrderKey(q.order, lifecycle_rank(x.state), x.at, x.id)

after_cursor(q, c, x) == LexLess(OrderKey(q.order, c.lr, c.u, c.id), RowKey(q, x))

_incident_collection_filters(q, x) ==
    /\ x.state \in q.status
    /\ q.after # Missing => x.at > q.after
    /\ q.net # Missing => \E k \in x.devices : k[1] = q.net /\ q.dev \in {Missing, k[2]}

count_incidents(table, q) == Cardinality({x \in table : _incident_collection_filters(q, x)})

\* LIMIT is one more than asked for, to see whether there is more.
list_incidents_page(table, q) ==
    LET left    == {x \in table : /\ _incident_collection_filters(q, x)
                                  /\ \A c \in q.cursor : after_cursor(q, c, x)}
        fetched == NewestOf(SortedBy(left, LAMBDA x, y : LexLess(RowKey(q, x), RowKey(q, y))), q.limit + 1)
        rows    == NewestOf(fetched, q.limit)
    IN IF \E c \in q.cursor : ~decode_incident_collection_cursor(c, q) THEN RefusedCursor
       ELSE [refused |-> Missing, rows |-> rows, total |-> count_incidents(table, q),
             next |-> IF Len(fetched) > q.limit THEN {cursor_from_incident_row(rows[Len(rows)], q)} ELSE {}]

\* GET /incidents: 422 for the query, 400 for the cursor.
incidents_page(table, request) ==
    LET q == build_incident_collection_query(request) IN
    IF q.refused # Missing THEN q ELSE list_incidents_page(table, q)

----------------------------------------------------------------------------
\* A client asks for its first page without a cursor and follows the cursors it
\* gets; each page is read from another state of the table.
FollowsOn(pages) == pages[Len(pages)].refused = Missing /\ pages[Len(pages)].next # {}
NextRequest(request, pages) ==
    [request EXCEPT !.cursor = IF pages = <<>> THEN {} ELSE pages[Len(pages)].next]
ReadPage(table, request, pages) == Append(pages, incidents_page(table, NextRequest(request, pages)))

\* What the pages of a walk must say of the tables they were read from.
MissesNothing(tables, request, others, q, pages) ==
    LET Places == UNION {{i} \X DOMAIN pages[i].rows : i \in DOMAIN pages}
        Row(p) == pages[p[1]].rows[p[2]]
        Of(id) == {p \in Places : Row(p).id = id}
        done   == pages[Len(pages)].next = {}
        still  == {x \in tables[1] : /\ _incident_collection_filters(q, x)
                                     /\ \A i \in DOMAIN pages : x \in tables[i]}
    IN /\ q.refused # Missing => pages = <<q>>
       /\ q.refused = Missing =>
          /\ \A i \in DOMAIN pages : /\ pages[i].refused = Missing
                                     /\ pages[i].total = count_incidents(tables[i], q)
          /\ \A x \in still : Cardinality(Of(x.id)) = 1 \/ (~done /\ Of(x.id) = {})
          /\ \A p, o \in Places : LexLess(p, o) => LexLess(RowKey(q, Row(p)), RowKey(q, Row(o)))
          /\ \A p, o \in Places : LexLess(p, o) /\ Row(p).id = Row(o).id =>
                q.order = "lifecycle" /\ lifecycle_rank(Row(p).state) < lifecycle_rank(Row(o).state)
          /\ done => \A x \in tables[Len(pages)] : _incident_collection_filters(q, x) =>
                \E p \in Places : ~LexLess(RowKey(q, Row(p)), RowKey(q, x))
          /\ incidents_page(tables[1], [request EXCEPT !.cursor = {Garbage}]) = RefusedCursor
          /\ \A o \in {build_incident_collection_query([x EXCEPT !.cursor = pages[1].next]) : x \in others} :
                o.refused = Missing /\ o.cursor # {} =>
                   (list_incidents_page(tables[1], o).refused = Missing
                      <=> <<o.status, o.after, o.net, o.dev, o.order>>
                          = <<q.status, q.after, q.net, q.dev, q.order>>)

(* Whatever changes between the pages, a walk lists every matching         *)
(* incident that stays as it is exactly once, and everything in the order  *)
(* asked for; by recency it lists no incident twice, and by lifecycle only *)
(* one that moved to a later stage meanwhile; a page says how many there   *)
(* are at that moment, and is followed by another when incidents are left; *)
(* and a cursor opens the walk it was made for and no other, also with     *)
(* another page size.                                                      *)
WalkMissesNothing(tables, request, others, pages) ==
    MissesNothing(tables, request, others, build_incident_collection_query(request), pages)
=============================================================================
