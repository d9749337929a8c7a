------------------------------ MODULE PageWalk ------------------------------
(***************************************************************************)
(* A TAXII client that follows the "next" cursors of taxii-mv-proxy from   *)
(* the first page to the last, while the materialized view is refreshed.   *)
(***************************************************************************)
EXTENDS MvProxy

CONSTANTS
    Endpoint,       \* "manifest" or "objects"
    Limit,          \* the limit the client asks for
    DatabaseMayFail \* TRUE: a query of the proxy may fail

ASSUME PageWalkAssumption ==
    /\ Endpoint \in {"manifest", "objects"}
    /\ Limit \in Nat \ {0}
    /\ DatabaseMayFail \in BOOLEAN

VARIABLES
    view,       \* rows of the materialized view
    cursor,     \* the cursor of the next request
    got,        \* rows the client has received in this walk
    done,       \* the last answer said more: false
    repeated,   \* some row was received twice
    failed      \* a query of this walk has failed

vars == <<view, cursor, got, done, repeated, failed>>

TypeOK ==
    /\ view \subseteq Row
    /\ cursor \in Cursor
    /\ got \subseteq Row
    /\ done \in BOOLEAN
    /\ repeated \in BOOLEAN
    /\ failed \in BOOLEAN

Init ==
    /\ view = {}
    /\ cursor = NoCursor
    /\ got = {}
    /\ done = FALSE
    /\ repeated = FALSE
    /\ failed = FALSE

Page == IF Endpoint = "manifest" THEN ManifestPage(view, Limit, cursor)
                                 ELSE ObjectsPage(view, Limit, cursor)

\* The answer ends the walk when it has no next cursor.
Receive(page) ==
    /\ ~done
    /\ got' = got \union page.rows
    /\ repeated' = (repeated \/ got \intersect page.rows # {})
    /\ cursor' = page.next
    /\ done' = (page.next = NoCursor)

RequestPage ==
    /\ Receive(Page)
    /\ UNCHANGED <<view, failed>>

\* The query fails, and the client cannot tell: this is a last page to it.
QueryFails ==
    /\ DatabaseMayFail
    /\ Receive(FailedPage)
    /\ failed' = TRUE
    /\ UNCHANGED view

Refresh ==
    /\ view' \in Refreshes(view, FALSE)
    /\ UNCHANGED <<cursor, got, done, repeated, failed>>

\* A client that is done starts another walk.
Restart ==
    /\ done
    /\ cursor' = NoCursor
    /\ got' = {}
    /\ done' = FALSE
    /\ repeated' = FALSE
    /\ failed' = FALSE
    /\ UNCHANGED view

Next == RequestPage \/ QueryFails \/ Refresh \/ Restart

Spec == Init /\ [][Next]_vars

-----------------------------------------------------------------------------
\* Following the cursors skips nothing, also in a walk that a failed query ends: what
\* the client has received is a beginning of the view, which reaches to the cursor.
NothingSkipped ==
    \A r \in view :
        r.stamp <= cursor \/ (\E q \in got : r.stamp <= q.stamp) => r \in got

\* No row is received twice in one walk.
NothingRepeated == ~repeated

\* A walk that ends without a failed query is complete: the client then has every
\* row of the view, refreshes during the walk included.
LastPageCompletes ==
    [][ done' /\ ~done /\ ~failed' => view \subseteq got' ]_vars

\* What the proxy says of its answers: without a next cursor the walk is complete.
NoMoreIsComplete ==
    [][ done' /\ ~done => view \subseteq got' ]_vars

\* The single-object manifest record of an object in the collection is found.
RecordFound == \A r \in view : ManifestRecord(view, r.id) = {r}
=============================================================================
