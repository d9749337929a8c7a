------------------------------ MODULE MvProxy -------------------------------
(***************************************************************************)
(* The pages that taxii-mv-proxy serves from its materialized view         *)
(* (taxii-mv-proxy/proxy.py).                                              *)
(*                                                                         *)
(* The view holds one row for each object, its latest version.  Queries    *)
(* order rows by (date_added, id, pk), a total order: a row is represented *)
(* by its object and its place in that order, the stamp.  A cursor is the  *)
(* stamp of the row it was made from, NoCursor when the answer has none.   *)
(***************************************************************************)
EXTENDS Integers, FiniteSets

CONSTANTS
    Object,         \* STIX ids
    MaxStamp,       \* bound on the stamps of rows
    PageSize,       \* DEFAULT_PAGE_SIZE: the limit of a request without one
    MaxIds          \* how many ids of an id=... filter are honoured (200)

ASSUME MvProxyAssumption ==
    /\ MaxStamp \in Nat
    /\ PageSize \in Nat \ {0}
    /\ MaxIds \in Nat \ {0}

NoCursor == 0

Stamp == 1..MaxStamp

Row == [id : Object, stamp : Stamp]

Cursor == Stamp \union {NoCursor}

(***************************************************************************)
(* SELECT ... WHERE (date_added, id, pk) > cursor ORDER BY ... LIMIT n.    *)
(***************************************************************************)
Before(r, S) == {q \in S : q.stamp < r.stamp}

First(n, S) == {r \in S : Cardinality(Before(r, S)) < n}

\* Mutant of After: the row the cursor was made from is served again.
AfterInclusive(cursor, S) == {r \in S : r.stamp >= cursor}

After(cursor, S) == {r \in S : r.stamp > cursor}

LastStamp(S) == CHOOSE t \in {r.stamp : r \in S} : \A r \in S : r.stamp <= t

\* Mutant of ManifestPage: the cursor is made from the lookahead row.
ManifestPageLookahead(view, limit, cursor) ==
    LET left == After(cursor, view)
    IN  [rows |-> First(limit, left),
         next |-> IF Cardinality(left) > limit THEN LastStamp(First(limit + 1, left))
                  ELSE NoCursor]

\* Mutant of ManifestPage: no lookahead row is read beyond one more page.
ManifestPageShort(view, limit, cursor) ==
    LET left == After(cursor, view)
        kept == First(limit, left)
    IN  [rows |-> kept,
         next |-> IF Cardinality(left) > limit + 1 THEN LastStamp(kept) ELSE NoCursor]

\* /manifest/: the cursor is made from the last row the page keeps.
ManifestPage(view, limit, cursor) ==
    LET left == After(cursor, view)
        kept == First(limit, left)
    IN  [rows |-> kept,
         next |-> IF Cardinality(left) > limit THEN LastStamp(kept) ELSE NoCursor]

\* /objects/: one more row than the limit is read, the cursor is made from it,
\* and it is then cut off.
ObjectsPage(view, limit, cursor) ==
    LET read == First(limit + 1, After(cursor, view))
    IN  [rows |-> First(limit, read),
         next |-> IF Cardinality(read) > limit THEN LastStamp(read) ELSE NoCursor]

\* The answer to a query that fails, at either endpoint: it says that there is no more.
FailedPage == [rows |-> {}, next |-> NoCursor]

\* The ids of an id=a,b,c filter that count, when they are sent in this order.
HonouredIds(asked) == {r.id : r \in First(MaxIds, asked)}

\* /objects/?id=a,b,c without a cursor.
ObjectsById(view, asked) ==
    ObjectsPage({r \in view : r.id \in HonouredIds(asked)}, PageSize, NoCursor).rows

\* /manifest/{id}/: a page of one row, kept if it is the object's.
ManifestRecord(view, o) == {r \in ManifestPage(view, 1, NoCursor).rows : r.id = o}

(***************************************************************************)
(* REFRESH MATERIALIZED VIEW shows a new object, or an object's new        *)
(* version in the place of the old one.  The row of a transaction that     *)
(* committed late may come before rows that were shown earlier (late).     *)
(***************************************************************************)
Refreshes(view, late) ==
    {(view \ {q \in view : q.id = r.id}) \union {r} :
        r \in {x \in Row :
                /\ \A q \in view : q.stamp # x.stamp
                /\ \A q \in view : q.stamp < x.stamp \/ (late /\ q.id # x.id)}}
=============================================================================
