--------------------------- MODULE MvProxyProofs ---------------------------
(***************************************************************************)
(* What the pages of taxii-mv-proxy hold, for every view, limit and cursor. *)
(* The walks over these pages (PageWalkProofs, ManifestWalkProofs) rest on *)
(* PageRows, ObjectsPageLosesOne and the lemmas on refreshes.              *)
(***************************************************************************)
EXTENDS MvProxy, FiniteSetTheorems, WellFoundedInduction, TLAPS

(***************************************************************************)
(* The order of the rows                                                   *)
(***************************************************************************)
LEMMA RowStamp ==
    ASSUME NEW r \in Row PROVE r.stamp \in Nat /\ r.stamp >= 1
  BY MvProxyAssumption DEF MvProxyAssumption, Row, Stamp

LEMMA BeforeFinite ==
    ASSUME NEW S, IsFiniteSet(S), NEW r
    PROVE  IsFiniteSet(Before(r, S)) /\ Cardinality(Before(r, S)) \in Nat
<1>1. Before(r, S) \subseteq S
  BY DEF Before
<1> QED
  BY <1>1, FS_Subset, FS_CardinalityType

\* The earlier of two rows has fewer rows before it.
LEMMA BeforeGrows ==
    ASSUME NEW S \in SUBSET Row, IsFiniteSet(S), NEW r \in S, NEW q \in S,
           q.stamp < r.stamp
    PROVE  /\ Before(q, S) \subseteq Before(r, S)
           /\ Before(q, S) # Before(r, S)
           /\ Cardinality(Before(q, S)) < Cardinality(Before(r, S))
<1>1. Before(q, S) \subseteq Before(r, S)
  BY RowStamp DEF Before
<1>2. q \in Before(r, S) /\ q \notin Before(q, S)
  BY RowStamp DEF Before
<1>3. IsFiniteSet(Before(r, S)) /\ Cardinality(Before(r, S)) \in Nat
      /\ Cardinality(Before(q, S)) \in Nat
  BY BeforeFinite
<1>4. /\ Cardinality(Before(q, S)) <= Cardinality(Before(r, S))
      /\ Cardinality(Before(q, S)) = Cardinality(Before(r, S))
            => Before(r, S) = Before(q, S)
  BY <1>1, <1>3, FS_Subset
<1> QED
  BY <1>1, <1>2, <1>3, <1>4

\* One of finitely many rows is the earliest, and one the latest.
LEMMA EarliestExists ==
    ASSUME NEW S \in SUBSET Row, IsFiniteSet(S), S # {}
    PROVE  \E r \in S : Before(r, S) = {}
<1> DEFINE T == {Before(r, S) : r \in S}
<1>1. T \subseteq FiniteSubsetsOf(S)
  BY BeforeFinite DEF FiniteSubsetsOf, Before
<1>2. T # {}
  OBVIOUS
<1>3. PICK B \in T : \A C \in T : <<C, B>> \notin StrictSubsetOrdering(S)
  <2> HIDE DEF T
  <2> QED
    BY <1>1, <1>2, FS_StrictSubsetOrderingWellFounded, WFMin
<1>4. PICK r \in S : B = Before(r, S)
  BY <1>3
<1>5. ASSUME NEW q \in Before(r, S) PROVE FALSE
  <2>1. q \in S /\ q.stamp < r.stamp
    BY <1>5 DEF Before
  <2>2. Before(q, S) \subseteq B /\ Before(q, S) # B
    BY <1>4, <2>1, BeforeGrows
  <2>3. Before(q, S) \in SUBSET S /\ B \in SUBSET S
    BY <1>4 DEF Before
  <2>4. <<Before(q, S), B>> \in StrictSubsetOrdering(S)
    BY <2>2, <2>3 DEF StrictSubsetOrdering
  <2> QED
    BY <1>3, <2>1, <2>4
<1> QED
  BY <1>5

LEMMA LatestExists ==
    ASSUME NEW S \in SUBSET Row, IsFiniteSet(S), S # {}
    PROVE  \E r \in S : \A q \in S : q.stamp <= r.stamp
<1> DEFINE Behind(r) == {q \in S : q.stamp > r.stamp}
           T == {Behind(r) : r \in S}
<1>1. T \subseteq FiniteSubsetsOf(S)
  BY FS_Subset DEF FiniteSubsetsOf
<1>2. T # {}
  OBVIOUS
<1>3. PICK B \in T : \A C \in T : <<C, B>> \notin StrictSubsetOrdering(S)
  <2> HIDE DEF T
  <2> QED
    BY <1>1, <1>2, FS_StrictSubsetOrderingWellFounded, WFMin
<1>4. PICK r \in S : B = Behind(r)
  BY <1>3
<1>5. ASSUME NEW q \in S, ~(q.stamp <= r.stamp) PROVE FALSE
  <2>1. q.stamp > r.stamp
    BY <1>5, RowStamp
  <2>2. Behind(q) \subseteq B /\ q \in B /\ q \notin Behind(q)
    BY <1>4, <2>1, RowStamp
  <2>3. <<Behind(q), B>> \in StrictSubsetOrdering(S)
    BY <1>4, <2>2 DEF StrictSubsetOrdering
  <2> QED
    BY <1>3, <2>3
<1> QED
  BY <1>5

\* The cursor made from a page's rows is the stamp of the latest of them.
LEMMA LastStampIsLatest ==
    ASSUME NEW S \in SUBSET Row, IsFiniteSet(S), S # {}
    PROVE  /\ LastStamp(S) \in Stamp
           /\ \E r \in S : LastStamp(S) = r.stamp
           /\ \A r \in S : r.stamp <= LastStamp(S)
<1>1. PICK r \in S : \A q \in S : q.stamp <= r.stamp
  BY LatestExists
<1>2. \E t \in {q.stamp : q \in S} : \A q \in S : q.stamp <= t
  BY <1>1
<1>3. /\ LastStamp(S) \in {q.stamp : q \in S}
      /\ \A q \in S : q.stamp <= LastStamp(S)
  BY <1>2 DEF LastStamp
<1> QED
  BY <1>3 DEF Row

(***************************************************************************)
(* LIMIT                                                                   *)
(***************************************************************************)
\* What LIMIT cuts off comes after everything it keeps.
LEMMA FirstComeFirst ==
    ASSUME NEW S \in SUBSET Row, IsFiniteSet(S), NEW n \in Nat,
           NEW r \in First(n, S), NEW q \in S \ First(n, S)
    PROVE  r.stamp < q.stamp
<1>1. r \in S /\ Cardinality(Before(r, S)) < n
  BY DEF First
<1>2. ~(Cardinality(Before(q, S)) < n)
  BY DEF First
<1>3. Cardinality(Before(r, S)) \in Nat /\ Cardinality(Before(q, S)) \in Nat
  BY BeforeFinite
<1>4. ~(q.stamp < r.stamp)
  BY <1>1, <1>2, <1>3, BeforeGrows
<1>5. q.stamp # r.stamp
  BY <1>1, <1>2 DEF Before
<1> QED
  BY <1>1, <1>4, <1>5, RowStamp

LEMMA FirstNonEmpty ==
    ASSUME NEW S \in SUBSET Row, IsFiniteSet(S), S # {}, NEW n \in Nat \ {0}
    PROVE  First(n, S) # {}
<1>1. PICK r \in S : Before(r, S) = {}
  BY EarliestExists
<1> QED
  BY <1>1, FS_EmptySet DEF First

\* A limit that is not exceeded cuts nothing off.
LEMMA FirstAll ==
    ASSUME NEW S \in SUBSET Row, IsFiniteSet(S), NEW n \in Nat, Cardinality(S) <= n
    PROVE  First(n, S) = S
<1>1. ASSUME NEW r \in S PROVE Cardinality(Before(r, S)) < n
  <2>1. Before(r, S) \subseteq S \ {r}
    BY RowStamp DEF Before
  <2>2. IsFiniteSet(S \ {r}) /\ Cardinality(S \ {r}) = Cardinality(S) - 1
    BY FS_RemoveElement
  <2>3. Cardinality(Before(r, S)) <= Cardinality(S \ {r})
    BY <2>1, <2>2, FS_Subset
  <2>4. Cardinality(S) \in Nat /\ Cardinality(Before(r, S)) \in Nat
    BY FS_CardinalityType, BeforeFinite
  <2> QED
    BY <2>2, <2>3, <2>4
<1> QED
  BY <1>1 DEF First

(***************************************************************************)
(* Refreshes                                                               *)
(***************************************************************************)
\* When no transaction commits late, a refresh puts one row behind all others, in
\* the place of its object's older row.
LEMMA RefreshAppends ==
    ASSUME NEW view \in SUBSET Row, IsFiniteSet(view), NEW v \in Refreshes(view, FALSE)
    PROVE  /\ v \in SUBSET Row /\ IsFiniteSet(v)
           /\ \E r \in Row :
                /\ v = (view \ {q \in view : q.id = r.id}) \union {r}
                /\ \A q \in view : q.stamp < r.stamp
<1>1. PICK r \in Row :
        /\ v = (view \ {q \in view : q.id = r.id}) \union {r}
        /\ \A q \in view : q.stamp < r.stamp
  BY DEF Refreshes
<1>2. IsFiniteSet(view \ {q \in view : q.id = r.id})
  BY FS_Subset
<1>3. IsFiniteSet(v)
  BY <1>1, <1>2, FS_AddElement
<1> QED
  BY <1>1, <1>3

\* Rows have places of their own in the order.
Placed(S) == \A q, r \in S : q.stamp = r.stamp => q = r

LEMMA RefreshKeepsPlaces ==
    ASSUME NEW view \in SUBSET Row, IsFiniteSet(view), Placed(view),
           NEW v \in Refreshes(view, FALSE)
    PROVE  Placed(v)
<1>1. PICK new \in Row :
        /\ v = (view \ {q \in view : q.id = new.id}) \union {new}
        /\ \A q \in view : q.stamp < new.stamp
  BY RefreshAppends
<1>2. \A q \in view : q.stamp # new.stamp
  BY <1>1, RowStamp
<1> QED
  BY <1>1, <1>2 DEF Placed

\* A cursor is not ahead of the view: some row stands at it or behind it.  Rows
\* that appear later are thus behind the cursor.
Reached(cursor, view) ==
    cursor = NoCursor \/ \E q \in view : cursor <= q.stamp

LEMMA RefreshBehind ==
    ASSUME NEW view \in SUBSET Row, IsFiniteSet(view), NEW v \in Refreshes(view, FALSE),
           NEW cursor \in Cursor, Reached(cursor, view)
    PROVE  /\ Reached(cursor, v)
           /\ \A r \in v : r.stamp <= cursor => r \in view
<1>1. PICK new \in Row :
        /\ v = (view \ {q \in view : q.id = new.id}) \union {new}
        /\ \A q \in view : q.stamp < new.stamp
  BY RefreshAppends
<1>2. cursor \in Nat
  BY MvProxyAssumption DEF MvProxyAssumption, Cursor, Stamp, NoCursor
<1>3. cursor < new.stamp
  <2>1. CASE cursor = NoCursor
    BY <2>1, RowStamp DEF NoCursor
  <2>2. CASE \E q \in view : cursor <= q.stamp
    BY <1>1, <1>2, <2>2, RowStamp
  <2> QED
    BY <2>1, <2>2 DEF Reached
<1> QED
  BY <1>1, <1>2, <1>3, RowStamp DEF Reached

(***************************************************************************)
(* Pages                                                                   *)
(***************************************************************************)
\* A manifest page holds exactly the rows between its cursor and the next one;
\* without a next one, all the rows behind its cursor.
LEMMA PageRows ==
    ASSUME NEW view \in SUBSET Row, IsFiniteSet(view),
           NEW limit \in Nat \ {0}, NEW cursor \in Cursor,
           NEW page, page = ManifestPage(view, limit, cursor)
    PROVE  /\ page.rows \subseteq After(cursor, view)
           /\ page.next \in Cursor
           /\ page.next = NoCursor => page.rows = After(cursor, view)
           /\ page.next # NoCursor =>
                /\ page.next > cursor
                /\ \E q \in view : q.stamp = page.next
                /\ page.rows = {r \in After(cursor, view) : r.stamp <= page.next}
<1> DEFINE left == After(cursor, view)
           kept == First(limit, left)
<1>1. left \subseteq view /\ left \in SUBSET Row /\ IsFiniteSet(left)
  BY FS_Subset DEF After
<1>2. kept \subseteq left /\ kept \in SUBSET Row /\ IsFiniteSet(kept)
  BY <1>1, FS_Subset DEF First
<1>3. /\ page.rows = kept
      /\ page.next = IF Cardinality(left) > limit THEN LastStamp(kept) ELSE NoCursor
  BY DEF ManifestPage
<1>4. Cardinality(left) \in Nat
  BY <1>1, FS_CardinalityType
<1> HIDE DEF left, kept
<1>5. CASE Cardinality(left) > limit
  <2>1. left # {}
    BY <1>4, <1>5, FS_EmptySet
  <2>2. kept # {}
    BY <1>1, <2>1, FirstNonEmpty DEF kept
  <2>3. /\ page.next \in Stamp
        /\ \E r \in kept : page.next = r.stamp
        /\ \A r \in kept : r.stamp <= page.next
    BY <1>2, <1>3, <1>5, <2>2, LastStampIsLatest
  <2>4. PICK last \in kept : page.next = last.stamp
    BY <2>3
  <2>5. last \in view /\ last.stamp > cursor
    BY <1>1, <1>2, <2>4 DEF left, After
  <2>6. page.next # NoCursor
    BY <2>4, <1>2, RowStamp DEF NoCursor
  <2>7. ASSUME NEW r \in left, r.stamp <= page.next PROVE r \in kept
    <3>1. SUFFICES ASSUME r \notin kept PROVE FALSE
      OBVIOUS
    <3>2. last.stamp < r.stamp
      BY <1>1, <2>4, <3>1, FirstComeFirst DEF kept
    <3>3. r.stamp \in Nat /\ last.stamp \in Nat
      BY <1>1, <1>2, RowStamp
    <3> QED
      BY <2>4, <2>7, <3>2, <3>3
  <2>8. kept = {r \in left : r.stamp <= page.next}
    BY <1>2, <2>3, <2>7
  <2> QED
    BY <1>2, <1>3, <2>3, <2>4, <2>5, <2>6, <2>8 DEF left, Cursor
<1>6. CASE ~(Cardinality(left) > limit)
  <2>1. kept = left
    BY <1>1, <1>4, <1>6, FirstAll DEF kept
  <2> QED
    BY <1>3, <1>6, <2>1 DEF left, Cursor
<1> QED
  BY <1>5, <1>6

\* LIMIT is not exceeded, and it keeps all only of as many rows as it allows.
LEMMA FirstFew ==
    ASSUME NEW S \in SUBSET Row, IsFiniteSet(S), Placed(S), NEW n \in Nat
    PROVE  /\ Cardinality(First(n, S)) <= n
           /\ Cardinality(S) > n => First(n, S) # S
<1> DEFINE kept == First(n, S)
<1>1. kept \subseteq S /\ kept \in SUBSET Row /\ IsFiniteSet(kept)
      /\ Cardinality(kept) \in Nat
  BY FS_Subset, FS_CardinalityType DEF First
<1>2. Cardinality(kept) <= n
  <2>1. CASE kept = {}
    BY <2>1, FS_EmptySet
  <2>2. CASE kept # {}
    <3>1. PICK last \in kept : \A q \in kept : q.stamp <= last.stamp
      BY <1>1, <2>2, LatestExists
    <3>2. kept \ {last} \subseteq Before(last, S)
      BY <1>1, <3>1, RowStamp DEF Before, Placed
    <3>3. /\ IsFiniteSet(Before(last, S)) /\ Cardinality(Before(last, S)) \in Nat
          /\ Cardinality(Before(last, S)) < n
      BY BeforeFinite, <3>1 DEF First
    <3>4. Cardinality(kept \ {last}) = Cardinality(kept) - 1
      BY <1>1, <3>1, FS_RemoveElement
    <3>5. Cardinality(kept \ {last}) <= Cardinality(Before(last, S))
      BY <3>2, <3>3, FS_Subset
    <3> QED
      BY <1>1, <3>3, <3>4, <3>5
  <2> QED
    BY <2>1, <2>2
<1> HIDE DEF kept
<1> QED
  BY <1>1, <1>2 DEF kept

\* The answer to a manifest query that does not fail: a page no larger than its limit,
\* with exactly the rows between its cursor and the next one, and with a next one
\* exactly when rows are left behind it.
THEOREM PageSound ==
    ASSUME NEW view \in SUBSET Row, IsFiniteSet(view), Placed(view),
           NEW limit \in Nat \ {0}, NEW cursor \in Cursor,
           NEW page, page = ManifestPage(view, limit, cursor)
    PROVE  /\ Cardinality(page.rows) <= limit
           /\ page.next \in Cursor
           /\ page.next = NoCursor => page.rows = After(cursor, view)
           /\ page.next # NoCursor =>
                /\ page.next > cursor
                /\ page.rows = {r \in After(cursor, view) : r.stamp <= page.next}
                /\ page.rows # {}
                /\ After(page.next, view) # {}
<1> DEFINE left == After(cursor, view)
           kept == First(limit, left)
<1>1. /\ left \subseteq view /\ left \in SUBSET Row /\ IsFiniteSet(left)
      /\ Placed(left)
  BY FS_Subset DEF After, Placed
<1>2. /\ page.rows = kept
      /\ page.next = IF Cardinality(left) > limit THEN LastStamp(kept) ELSE NoCursor
  BY DEF ManifestPage
<1>3. /\ page.next \in Cursor
      /\ page.next = NoCursor => page.rows = left
      /\ page.next # NoCursor =>
           /\ page.next > cursor
           /\ page.rows = {r \in left : r.stamp <= page.next}
  BY PageRows
<1> HIDE DEF left
<1>4. /\ Cardinality(kept) <= limit
      /\ Cardinality(left) > limit => kept # left
  BY <1>1, FirstFew
<1>5. ASSUME page.next # NoCursor
      PROVE  page.rows # {} /\ After(page.next, view) # {}
  <2>1. Cardinality(left) > limit
    BY <1>2, <1>5
  <2>2. PICK r \in left : r \notin page.rows
    BY <1>2, <1>4, <2>1 DEF First
  <2>3. r.stamp > page.next
    BY <1>1, <1>3, <1>5, <2>2, RowStamp, MvProxyAssumption
       DEF Cursor, Stamp, NoCursor, MvProxyAssumption
  <2>4. kept # {}
    BY <1>1, <2>2, FirstNonEmpty
  <2> QED
    BY <1>1, <1>2, <2>2, <2>3, <2>4 DEF After
<1> QED
  BY <1>2, <1>3, <1>4, <1>5 DEF left

\* LIMIT reaches its number, unless there are fewer rows.
LEMMA FirstFull ==
    ASSUME NEW S \in SUBSET Row, IsFiniteSet(S), NEW n \in Nat, First(n, S) # S
    PROVE  Cardinality(First(n, S)) >= n
<1> DEFINE cut == S \ First(n, S)
<1>1. cut \in SUBSET Row /\ IsFiniteSet(cut) /\ cut # {}
  BY FS_Subset DEF First
<1>2. PICK q \in cut : Before(q, cut) = {}
  BY <1>1, EarliestExists
<1>3. Before(q, S) \subseteq First(n, S)
  BY <1>2 DEF Before
<1>4. IsFiniteSet(First(n, S)) /\ Cardinality(First(n, S)) \in Nat
  BY FS_Subset, FS_CardinalityType DEF First
<1>5. Cardinality(Before(q, S)) <= Cardinality(First(n, S))
  BY <1>3, <1>4, FS_Subset
<1>6. ~(Cardinality(Before(q, S)) < n) /\ Cardinality(Before(q, S)) \in Nat
  BY <1>2, BeforeFinite DEF First
<1> QED
  BY <1>4, <1>5, <1>6

\* A page of /objects/ that has a next one loses exactly one row: the row the next
\* cursor was made from is neither on the page nor behind that cursor.  All the
\* rows before it are on the page.
THEOREM ObjectsPageLosesOne ==
    ASSUME NEW view \in SUBSET Row, IsFiniteSet(view), Placed(view),
           NEW limit \in Nat \ {0}, NEW cursor \in Cursor,
           NEW page, page = ObjectsPage(view, limit, cursor)
    PROVE  /\ page.next \in Cursor
           /\ page.next = NoCursor => page.rows = After(cursor, view)
           /\ page.next # NoCursor =>
                \E lost \in After(cursor, view) :
                  /\ page.next = lost.stamp
                  /\ page.rows = {r \in After(cursor, view) : r.stamp < lost.stamp}
                  /\ After(cursor, view)
                       = page.rows \union {lost} \union After(page.next, view)
<1> DEFINE left == After(cursor, view)
           read == First(limit + 1, left)
<1>1. left \subseteq view /\ left \in SUBSET Row /\ IsFiniteSet(left) /\ Placed(left)
  BY FS_Subset DEF After, Placed
<1>2. /\ read \subseteq left /\ read \in SUBSET Row /\ IsFiniteSet(read)
      /\ Cardinality(read) \in Nat /\ Placed(read)
  BY <1>1, FS_Subset, FS_CardinalityType DEF First, Placed
<1>3. /\ page.rows = First(limit, read)
      /\ page.next = IF Cardinality(read) > limit THEN LastStamp(read) ELSE NoCursor
  BY DEF ObjectsPage
<1> HIDE DEF left, read
<1>4. CASE Cardinality(read) > limit
  <2>1. read # {}
    BY <1>2, <1>4, FS_EmptySet
  <2>2. PICK lost \in read : page.next = lost.stamp /\ \A r \in read : r.stamp <= lost.stamp
    BY <1>2, <1>3, <1>4, <2>1, LastStampIsLatest
  <2>3. lost \in left /\ Cardinality(Before(lost, left)) < limit + 1
    BY <2>2 DEF read, First
  <2>4. Before(lost, read) = read \ {lost}
    BY <1>2, <2>2, RowStamp DEF Before, Placed
  <2>5. Cardinality(Before(lost, read)) = Cardinality(read) - 1
    BY <1>2, <2>4, FS_RemoveElement
  <2>6. Cardinality(Before(lost, read)) <= Cardinality(Before(lost, left))
    <3>1. Before(lost, read) \subseteq Before(lost, left)
      BY <1>2 DEF Before
    <3> QED
      BY <1>1, <3>1, BeforeFinite, FS_Subset
  <2>7. Cardinality(Before(lost, left)) \in Nat
    BY <1>1, BeforeFinite
  <2>8. Cardinality(Before(lost, read)) = limit
    BY <1>2, <1>4, <2>3, <2>5, <2>6, <2>7
  <2>9. ASSUME NEW r \in left, r.stamp < lost.stamp PROVE r \in First(limit, read)
    <3>1. r \in read
      <4>1. SUFFICES ASSUME r \notin read PROVE FALSE
        OBVIOUS
      <4>2. lost.stamp < r.stamp
        BY <1>1, <4>1, FirstComeFirst DEF read
      <4> QED
        BY <1>1, <1>2, <2>9, <4>2, RowStamp
    <3>2. Cardinality(Before(r, read)) < Cardinality(Before(lost, read))
      BY <1>2, <2>9, <3>1, BeforeGrows
    <3> QED
      BY <2>8, <3>1, <3>2 DEF First
  <2>10. ASSUME NEW r \in First(limit, read) PROVE r \in left /\ r.stamp < lost.stamp
    <3>1. r \in read /\ r # lost
      BY <2>8, <2>10 DEF First
    <3> QED
      BY <1>2, <2>4, <3>1 DEF Before
  <2>11. page.rows = {r \in left : r.stamp < lost.stamp}
    BY <1>3, <2>9, <2>10
  <2>12. left = page.rows \union {lost} \union After(page.next, view)
    <3>1. \A r \in left : r.stamp < lost.stamp \/ r = lost \/ r.stamp > lost.stamp
      BY <1>1, <2>3, RowStamp DEF Placed
    <3>2. \A r \in view : r.stamp > lost.stamp => r \in left
      <4>1. lost.stamp > cursor /\ cursor \in Nat
        BY <2>3, MvProxyAssumption
           DEF left, After, Cursor, Stamp, NoCursor, MvProxyAssumption
      <4> QED
        BY <1>1, <2>3, <4>1, RowStamp DEF left, After
    <3>3. After(page.next, view) = {r \in view : r.stamp > lost.stamp}
      BY <2>2 DEF After
    <3> QED
      BY <1>1, <2>3, <2>11, <3>1, <3>2, <3>3
  <2>13. page.next \in Stamp /\ page.next # NoCursor
    BY <1>2, <2>2, RowStamp DEF NoCursor, Row
  <2> QED
    BY <2>2, <2>3, <2>11, <2>12, <2>13 DEF left, Cursor
<1>5. CASE ~(Cardinality(read) > limit)
  <2>1. read = left
    BY <1>1, <1>2, <1>5, FirstFull DEF read
  <2>2. First(limit, read) = read
    BY <1>2, <1>5, FirstAll
  <2> QED
    BY <1>3, <1>5, <2>1, <2>2 DEF left, Cursor
<1> QED
  BY <1>4, <1>5

=============================================================================
