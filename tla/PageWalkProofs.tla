--------------------------- MODULE PageWalkProofs ---------------------------
(***************************************************************************)
(* Following the cursors repeats no row at either endpoint, and skips none *)
(* at the manifest's, whatever the limit, and however often the view is    *)
(* refreshed or a query fails on the way.  What the objects endpoint skips, one row for     *)
(* each page that has a next one, is ObjectsPageLosesOne of MvProxyProofs. *)
(***************************************************************************)
EXTENDS PageWalk, MvProxyProofs

\* The rows received lie before the cursor, until the walk is done.
ReceivedBefore == ~done => \A r \in got : r.stamp <= cursor

\* The view goes on at least as far as what was received.
ReceivedReached == \A r \in got : Reached(r.stamp, view)

IInv ==
    /\ TypeOK
    /\ IsFiniteSet(view)
    /\ Placed(view)
    /\ Reached(cursor, view)
    /\ ReceivedReached
    /\ Endpoint = "manifest" => NothingSkipped
    /\ ReceivedBefore
    /\ NothingRepeated

LEMMA InitEstablishesInv == Init => IInv
<1> SUFFICES ASSUME Init PROVE IInv
  OBVIOUS
<1> QED
  BY FS_EmptySet DEF Init, IInv, TypeOK, Placed, Reached, ReceivedReached,
                     NothingSkipped, ReceivedBefore, NothingRepeated, Cursor

\* What one more page brings, and what it leaves to be read.
LEMMA NextPage ==
    ASSUME IInv
    PROVE  /\ Page.rows \subseteq After(cursor, view)
           /\ Page.next \in Cursor
           /\ Page.next = NoCursor => Page.rows = After(cursor, view)
           /\ Page.next # NoCursor =>
                /\ Page.next > cursor
                /\ \E q \in view : q.stamp = Page.next
                /\ \A r \in Page.rows : r.stamp <= Page.next
                /\ Endpoint = "manifest" =>
                     Page.rows = {r \in After(cursor, view) : r.stamp <= Page.next}
<1>1. view \in SUBSET Row /\ IsFiniteSet(view) /\ Placed(view) /\ cursor \in Cursor
  BY DEF IInv, TypeOK
<1>2. Limit \in Nat \ {0}
  BY PageWalkAssumption DEF PageWalkAssumption
<1>3. CASE Endpoint = "manifest"
  <2>1. Page = ManifestPage(view, Limit, cursor)
    BY <1>3 DEF Page
  <2> HIDE DEF Page
  <2> QED
    BY <1>1, <1>2, <2>1, PageRows
<1>4. CASE Endpoint # "manifest"
  <2>1. Page = ObjectsPage(view, Limit, cursor)
    BY <1>4 DEF Page
  <2> HIDE DEF Page
  <2>2. /\ Page.next \in Cursor
        /\ Page.next = NoCursor => Page.rows = After(cursor, view)
        /\ Page.next # NoCursor =>
             \E lost \in After(cursor, view) :
               /\ Page.next = lost.stamp
               /\ Page.rows = {r \in After(cursor, view) : r.stamp < lost.stamp}
    BY <1>1, <1>2, <2>1, ObjectsPageLosesOne
  <2>3. CASE Page.next # NoCursor
    <3>1. PICK lost \in After(cursor, view) :
            /\ Page.next = lost.stamp
            /\ Page.rows = {r \in After(cursor, view) : r.stamp < lost.stamp}
      BY <2>2, <2>3
    <3>2. lost \in view /\ lost.stamp > cursor
      BY <3>1 DEF After
    <3>3. \A r \in Page.rows : r.stamp <= lost.stamp
      BY <1>1, <3>1, <3>2, RowStamp DEF After
    <3> QED
      BY <1>4, <2>2, <2>3, <3>1, <3>2, <3>3
  <2> QED
    BY <2>2, <2>3
<1> QED
  BY <1>3, <1>4

\* What the next page and the answer to a failed query have in common.
Sound(page) ==
    /\ page.rows \subseteq After(cursor, view)
    /\ page.next \in Cursor
    /\ page.next # NoCursor =>
         /\ page.next > cursor
         /\ \E q \in view : q.stamp = page.next
         /\ \A r \in page.rows : r.stamp <= page.next
    /\ Endpoint = "manifest" =>
         \A r \in After(cursor, view) :
            (r.stamp <= page.next \/ \E q \in page.rows : r.stamp <= q.stamp)
                => r \in page.rows

LEMMA ReceiveKeepsInv ==
    ASSUME IInv, NEW page, Sound(page), Receive(page), UNCHANGED view,
           failed' \in BOOLEAN
    PROVE  IInv'
<1>1. /\ TypeOK /\ IsFiniteSet(view) /\ Placed(view) /\ ReceivedBefore
      /\ NothingRepeated /\ ~done /\ ReceivedReached
      /\ Endpoint = "manifest" => NothingSkipped
  BY DEF IInv, Receive
<1>2. /\ got' = got \union page.rows
      /\ repeated' = (repeated \/ got \intersect page.rows # {})
      /\ cursor' = page.next
      /\ done' = (page.next = NoCursor)
      /\ view' = view
  BY DEF Receive
<1>3. cursor \in Nat /\ \A r \in view : r.stamp \in Nat /\ r.stamp >= 1
  BY <1>1, RowStamp, MvProxyAssumption DEF TypeOK, Cursor, Stamp, NoCursor, MvProxyAssumption
<1>4. After(cursor, view) \subseteq view
  BY DEF After
<1>5. TypeOK'
  BY <1>1, <1>2, <1>4 DEF TypeOK, Sound
<1>6. Reached(cursor, view)'
  BY <1>2, <1>3 DEF Reached, Sound
<1>7. ReceivedReached'
  <2>1. \A r \in page.rows : r \in view /\ r.stamp <= r.stamp
    BY <1>3, <1>4 DEF Sound
  <2> QED
    BY <1>1, <1>2, <2>1 DEF ReceivedReached, Reached
<1>8. Endpoint = "manifest" => NothingSkipped'
  <2>1. SUFFICES ASSUME Endpoint = "manifest", NEW r \in view,
                        \/ r.stamp <= page.next
                        \/ \E q \in got \union page.rows : r.stamp <= q.stamp
                 PROVE  r \in got \union page.rows
    BY <1>2 DEF NothingSkipped
  <2>2. CASE r.stamp <= cursor \/ \E q \in got : r.stamp <= q.stamp
    BY <1>1, <2>1, <2>2 DEF NothingSkipped
  <2>3. CASE ~(r.stamp <= cursor) /\ ~\E q \in got : r.stamp <= q.stamp
    <3>1. r \in After(cursor, view)
      BY <1>3, <2>3 DEF After
    <3> QED
      BY <2>1, <2>3, <3>1 DEF Sound
  <2> QED
    BY <2>2, <2>3
<1>9. ReceivedBefore'
  <2>1. SUFFICES ASSUME page.next # NoCursor, NEW r \in got \union page.rows
                 PROVE  r.stamp <= page.next
    BY <1>2 DEF ReceivedBefore
  <2>2. page.next \in Nat /\ page.next > cursor
    BY <2>1, MvProxyAssumption DEF MvProxyAssumption, Cursor, Stamp, Sound
  <2>3. CASE r \in got
    <3>1. r.stamp <= cursor /\ r.stamp \in Nat
      BY <1>1, <2>3, RowStamp DEF ReceivedBefore, TypeOK
    <3> QED
      BY <1>3, <2>2, <3>1
  <2>4. CASE r \in page.rows
    BY <2>1, <2>4 DEF Sound
  <2> QED
    BY <2>1, <2>3, <2>4
<1>10. NothingRepeated'
  <2>1. SUFFICES ASSUME NEW r \in got, r \in page.rows PROVE FALSE
    BY <1>1, <1>2 DEF NothingRepeated
  <2>2. r.stamp <= cursor
    BY <1>1 DEF ReceivedBefore
  <2>3. r.stamp > cursor /\ r.stamp \in Nat
    BY <1>3, <1>4, <2>1 DEF After, Sound
  <2> QED
    BY <1>3, <2>2, <2>3
<1> QED
  BY <1>1, <1>2, <1>5, <1>6, <1>7, <1>8, <1>9, <1>10 DEF IInv, Placed

LEMMA RequestKeepsInv ==
    ASSUME IInv, RequestPage
    PROVE  IInv'
<1>1. Receive(Page) /\ UNCHANGED view /\ failed' \in BOOLEAN
  BY DEF RequestPage, IInv, TypeOK
<1>2. \A r \in After(cursor, view) : r.stamp \in Nat
  BY RowStamp DEF IInv, TypeOK, After
<1> HIDE DEF Page
<1>3. Sound(Page)
  <2>1. CASE Page.next = NoCursor
    BY <2>1, NextPage DEF Sound
  <2>2. CASE Page.next # NoCursor
    <3>1. Page.next \in Nat
      BY NextPage, MvProxyAssumption DEF MvProxyAssumption, Cursor, Stamp, NoCursor
    <3>2. ASSUME Endpoint = "manifest", NEW r \in After(cursor, view),
                 r.stamp <= Page.next \/ \E q \in Page.rows : r.stamp <= q.stamp
          PROVE  r \in Page.rows
      <4>1. Page.rows = {q \in After(cursor, view) : q.stamp <= Page.next}
        BY <2>2, <3>2, NextPage
      <4>2. r.stamp <= Page.next
        BY <1>2, <3>1, <3>2, <4>1
      <4> QED
        BY <4>1, <4>2
    <3> QED
      BY <2>2, <3>2, NextPage DEF Sound
  <2> QED
    BY <2>1, <2>2
<1> QED
  BY <1>1, <1>3, ReceiveKeepsInv

LEMMA FailureKeepsInv ==
    ASSUME IInv, QueryFails
    PROVE  IInv'
<1>1. Receive(FailedPage) /\ UNCHANGED view /\ failed' \in BOOLEAN
  BY DEF QueryFails
<1>2. \A r \in After(cursor, view) : ~(r.stamp <= NoCursor)
  BY RowStamp DEF IInv, TypeOK, After, NoCursor
<1>3. Sound(FailedPage)
  BY <1>2 DEF Sound, FailedPage, Cursor
<1> QED
  BY <1>1, <1>3, ReceiveKeepsInv

LEMMA RefreshKeepsInv ==
    ASSUME IInv, Refresh PROVE IInv'
<1>1. /\ view \in SUBSET Row /\ IsFiniteSet(view) /\ cursor \in Cursor
      /\ got \in SUBSET Row
      /\ Placed(view) /\ Reached(cursor, view) /\ ReceivedReached
  BY DEF IInv, TypeOK
<1>2. /\ view' \in Refreshes(view, FALSE)
      /\ UNCHANGED <<cursor, got, done, repeated, failed>>
  BY DEF Refresh
<1>3. view' \in SUBSET Row /\ IsFiniteSet(view') /\ Placed(view')
  BY <1>1, <1>2, RefreshAppends, RefreshKeepsPlaces
<1>4. /\ Reached(cursor, view')
      /\ \A r \in view' : r.stamp <= cursor => r \in view
  BY <1>1, <1>2, RefreshBehind
<1>5. ASSUME NEW q \in got
      PROVE  /\ Reached(q.stamp, view')
             /\ \A r \in view' : r.stamp <= q.stamp => r \in view
  <2>1. q.stamp \in Cursor /\ Reached(q.stamp, view)
    BY <1>1, <1>5 DEF Row, Cursor, ReceivedReached
  <2> QED
    BY <1>1, <1>2, <2>1, RefreshBehind
<1>6. ReceivedReached'
  BY <1>2, <1>5 DEF ReceivedReached
<1>7. NothingSkipped => NothingSkipped'
  BY <1>2, <1>4, <1>5 DEF NothingSkipped
<1> QED
  BY <1>2, <1>3, <1>4, <1>6, <1>7 DEF IInv, TypeOK, Placed, ReceivedBefore, NothingRepeated

LEMMA RestartKeepsInv ==
    ASSUME IInv, Restart PROVE IInv'
<1>1. /\ view \in SUBSET Row
      /\ \A r \in view : ~(r.stamp <= NoCursor)
  BY RowStamp DEF IInv, TypeOK, NoCursor
<1> QED
  BY <1>1 DEF Restart, IInv, TypeOK, Placed, Reached, ReceivedReached, NothingSkipped,
              ReceivedBefore, NothingRepeated, Cursor

LEMMA NextKeepsInv ==
    ASSUME IInv, [Next]_vars PROVE IInv'
<1>1. CASE UNCHANGED vars
  BY <1>1 DEF vars, IInv, TypeOK, Placed, Reached, ReceivedReached, NothingSkipped,
              ReceivedBefore, NothingRepeated
<1> QED
  BY <1>1, RequestKeepsInv, FailureKeepsInv, RefreshKeepsInv, RestartKeepsInv DEF Next

LEMMA InvAlways == Spec => []IInv
<1>1. IInv /\ [Next]_vars => IInv'
  BY NextKeepsInv
<1> QED
  BY <1>1, InitEstablishesInv, PTL DEF Spec

-----------------------------------------------------------------------------
(***************************************************************************)
(* Results                                                                 *)
(***************************************************************************)
\* What a client of /manifest/ has received is a beginning of the view that reaches to
\* its cursor, for every limit and every number of objects, also when a failed query
\* ends its walk before the end of the view.
THEOREM ManifestSkipsNothing ==
    ASSUME Endpoint = "manifest" PROVE Spec => []NothingSkipped
<1>1. IInv => NothingSkipped
  BY DEF IInv
<1> QED
  BY <1>1, InvAlways, PTL

\* No row is served twice in one walk, whichever endpoint is asked: the cursors only
\* move forward, and a refreshed object gets a new row behind all others.
THEOREM NothingIsRepeated == Spec => []NothingRepeated
<1>1. IInv => NothingRepeated
  BY DEF IInv
<1> QED
  BY <1>1, InvAlways, PTL

\* A client of /manifest/ whose walk ends without a failed query has the whole view,
\* what the refreshes during the walk have brought included.
THEOREM ManifestCompletes ==
    ASSUME Endpoint = "manifest" PROVE Spec => LastPageCompletes
<1>1. IInv /\ [Next]_vars => [done' /\ ~done /\ ~failed' => view \subseteq got']_vars
  <2>1. SUFFICES ASSUME IInv, Next, done', ~done, ~failed', NEW r \in view
                 PROVE  r \in got'
    BY DEF vars
  <2>2. RequestPage
    BY <2>1 DEF Next, QueryFails, Refresh, Restart
  <2>3. Page.next = NoCursor /\ got' = got \union Page.rows
    BY <2>1, <2>2 DEF RequestPage, Receive
  <2> HIDE DEF Page
  <2>4. Page.rows = After(cursor, view)
    BY <2>1, <2>3, NextPage
  <2>5. CASE r.stamp <= cursor
    BY <2>1, <2>3, <2>5 DEF IInv, NothingSkipped
  <2>6. CASE ~(r.stamp <= cursor)
    <3>1. r.stamp > cursor
      <4>1. r.stamp \in Nat /\ cursor \in Nat
        BY <2>1, RowStamp, MvProxyAssumption
           DEF IInv, TypeOK, Cursor, Stamp, NoCursor, MvProxyAssumption
      <4> QED
        BY <2>6, <4>1
    <3> QED
      BY <2>3, <2>4, <3>1 DEF After
  <2> QED
    BY <2>5, <2>6
<1> QED
  BY <1>1, InvAlways, PTL DEF Spec, LastPageCompletes

=============================================================================
