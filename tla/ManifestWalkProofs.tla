-------------------------- MODULE ManifestWalkProofs --------------------------
(***************************************************************************)
(* What taxii2misp's walk can lose on its way, for any collection, page    *)
(* and batch size and under every fault: only what NothingSkipped excuses. *)
(***************************************************************************)
EXTENDS ManifestWalk, MvProxyProofs

-----------------------------------------------------------------------------
(***************************************************************************)
(* The invariant                                                           *)
(***************************************************************************)
OneRowPerObject == \A q, r \in view : q.id = r.id => q = r

\* What is buffered is in the view, or has been replaced there by a newer row.
BufferFromView ==
    /\ IsFiniteSet(walker.buffer)
    /\ \A c \in walker.buffer : \E q \in view : q.id = c.id /\ c.stamp <= q.stamp

CursorsReached ==
    /\ Reached(walker.cursor, view)
    /\ Reached(walker.last, view)
    /\ Reached(checkpoint, view)

\* Up to where it starts collecting, and up to the checkpoint, main.py is done with
\* everything that is not lost; the pages read since then are in the buffer.
CollectedSoFar ==
    walker.pc = "manifest" => \A r \in view :
        /\ r.stamp <= walker.cursor \/ r.stamp <= checkpoint => r \in received \union lost
        /\ r.stamp <= walker.last => r \in received \union walker.buffer \union lost

\* While it fetches, the cursor and the checkpoint stand behind the buffer.
FetchedSoFar ==
    walker.pc \in {"objects", "consume"} => \A r \in view :
        r.stamp <= walker.cursor \/ r.stamp <= checkpoint
            => r \in received \union batch \union walker.buffer \union lost

AsleepSoFar ==
    walker.pc = "sleep" =>
        /\ walker.cursor = NoCursor
        /\ \A r \in view : r.stamp <= checkpoint => r \in received \union lost

BatchConsumed == walker.pc # "consume" => batch = {}

IInv ==
    /\ TypeOK
    /\ IsFiniteSet(view) /\ OneRowPerObject /\ BufferFromView
    /\ CursorsReached
    /\ CollectedSoFar /\ FetchedSoFar /\ AsleepSoFar
    /\ BatchConsumed

-----------------------------------------------------------------------------
LEMMA CursorNat == \A c \in Cursor : c \in Nat
  BY MvProxyAssumption DEF MvProxyAssumption, Cursor, Stamp, NoCursor

LEMMA InvImpliesNothingSkipped == IInv => NothingSkipped
<1> SUFFICES ASSUME IInv, NEW r \in view,
                    r.stamp <= walker.cursor \/ r.stamp <= checkpoint
             PROVE  r \in received \union batch \union walker.buffer \union lost
  BY DEF NothingSkipped
<1>1. walker.pc \in {"sleep", "manifest", "objects", "consume"}
  BY DEF IInv, TypeOK, WalkerState
<1>2. CASE walker.pc = "manifest"
  BY <1>2 DEF IInv, CollectedSoFar
<1>3. CASE walker.pc \in {"objects", "consume"}
  BY <1>3 DEF IInv, FetchedSoFar
<1>4. CASE walker.pc = "sleep"
  <2>1. ~(r.stamp <= NoCursor)
    BY RowStamp DEF IInv, TypeOK, NoCursor
  <2> QED
    BY <1>4, <2>1 DEF IInv, AsleepSoFar
<1> QED
  BY <1>1, <1>2, <1>3, <1>4

LEMMA AsleepTypes ==
    /\ Asleep \in WalkerState /\ Asleep.failures < MaxFailures
    /\ \A c \in Cursor : \A f \in 0..MaxFailures : Collecting(c, f) \in WalkerState
<1>1. NoCursor \in Cursor /\ 0 \in 0..MaxFailures /\ 0 < MaxFailures
  BY ManifestWalkAssumption DEF ManifestWalkAssumption, Cursor
<1>2. Asleep \in WalkerState /\ Asleep.failures < MaxFailures
  BY <1>1 DEF Asleep, WalkerState
<1>3. ASSUME NEW c \in Cursor, NEW f \in 0..MaxFailures
      PROVE  Collecting(c, f) \in WalkerState
  BY <1>2 DEF Asleep, Collecting, WalkerState
<1> QED
  BY <1>2, <1>3

LEMMA InitEstablishesInv == Init => IInv
<1> SUFFICES ASSUME Init PROVE IInv
  OBVIOUS
<1>1. TypeOK
  BY AsleepTypes, ManifestWalkAssumption DEF ManifestWalkAssumption, Init, TypeOK, Cursor
<1> QED
  BY <1>1, FS_EmptySet
     DEF Init, IInv, OneRowPerObject, BufferFromView, CursorsReached, Reached,
         CollectedSoFar, FetchedSoFar, AsleepSoFar, BatchConsumed, Asleep

(***************************************************************************)
(* To begin collecting, or to fall asleep, costs nothing if everything up  *)
(* to the cursor and the checkpoint is done with.                          *)
(***************************************************************************)
LEMMA CollectingKeepsInv ==
    ASSUME IInv, UNCHANGED <<view, batch, checkpoint, received, crashes, lost>>, batch = {},
           NEW c \in Cursor, Reached(c, view), NEW f \in 0..(MaxFailures - 1),
           walker' = Collecting(c, f),
           \A r \in view :
                r.stamp <= c \/ r.stamp <= checkpoint => r \in received \union lost
    PROVE  IInv'
<1>1. f \in 0..MaxFailures /\ f < MaxFailures
  BY ManifestWalkAssumption DEF ManifestWalkAssumption
<1>2. TypeOK'
  BY <1>1, AsleepTypes DEF IInv, TypeOK, Collecting, Asleep
<1> QED
  BY <1>2, FS_EmptySet
     DEF IInv, OneRowPerObject, BufferFromView, CursorsReached, CollectedSoFar,
         FetchedSoFar, AsleepSoFar, BatchConsumed, Collecting, Asleep, Reached

LEMMA FallingAsleepKeepsInv ==
    ASSUME IInv, UNCHANGED <<view, received>>, batch' = {}, walker' = Asleep,
           checkpoint' \in {checkpoint, NoCursor}, crashes' \in 0..MaxCrashes,
           lost' \in SUBSET Row,
           \A r \in view : r.stamp <= checkpoint => r \in received \union lost'
    PROVE  IInv'
<1>1. TypeOK'
  BY AsleepTypes DEF IInv, TypeOK, Cursor
<1>2. \A r \in view : ~(r.stamp <= NoCursor)
  BY RowStamp DEF IInv, TypeOK, NoCursor
<1> QED
  BY <1>1, <1>2, FS_EmptySet
     DEF IInv, OneRowPerObject, BufferFromView, CursorsReached, CollectedSoFar,
         FetchedSoFar, AsleepSoFar, BatchConsumed, Asleep, Reached

LEMMA StartWalkKeepsInv ==
    ASSUME IInv, StartWalk PROVE IInv'
<1>1. PICK c \in {checkpoint, NoCursor} : walker' = Collecting(c, 0)
  BY DEF StartWalk
<1>2. /\ walker.pc = "sleep" /\ batch = {}
      /\ UNCHANGED <<view, batch, checkpoint, received, crashes, lost>>
  BY DEF StartWalk, IInv, BatchConsumed
<1>3. c \in Cursor /\ Reached(c, view)
  BY DEF IInv, TypeOK, CursorsReached, Reached, Cursor
<1>4. \A r \in view : ~(r.stamp <= NoCursor)
  BY RowStamp DEF IInv, TypeOK, NoCursor
<1>5. \A r \in view :
        r.stamp <= c \/ r.stamp <= checkpoint => r \in received \union lost
  BY <1>2, <1>4 DEF IInv, AsleepSoFar
<1>6. 0 \in 0..(MaxFailures - 1)
  BY ManifestWalkAssumption DEF ManifestWalkAssumption
<1> QED
  BY <1>1, <1>2, <1>3, <1>5, <1>6, CollectingKeepsInv

LEMMA ManifestFailsKeepsInv ==
    ASSUME IInv, ManifestFails PROVE IInv'
<1>1. /\ walker.pc = "manifest" /\ batch = {}
      /\ UNCHANGED <<view, batch, checkpoint, received, crashes, lost>>
      /\ lost \in SUBSET Row /\ crashes \in 0..MaxCrashes
  BY DEF ManifestFails, IInv, TypeOK, BatchConsumed
<1>2. \A r \in view :
        r.stamp <= walker.cursor \/ r.stamp <= checkpoint => r \in received \union lost
  BY <1>1 DEF IInv, CollectedSoFar
<1>3. walker.cursor \in Cursor /\ Reached(walker.cursor, view) /\ walker.failures \in Nat
  BY DEF IInv, TypeOK, WalkerState, CursorsReached
<1>4. CASE walker' = Asleep
  BY <1>1, <1>2, <1>4, FallingAsleepKeepsInv
<1>5. CASE /\ ~(walker.failures + 1 >= MaxFailures)
           /\ walker' = Collecting(walker.cursor, walker.failures + 1)
  <2>1. walker.failures + 1 \in 0..(MaxFailures - 1)
    BY <1>3, <1>5, ManifestWalkAssumption DEF ManifestWalkAssumption
  <2> QED
    BY <1>1, <1>2, <1>3, <1>5, <2>1, CollectingKeepsInv
<1> QED
  BY <1>4, <1>5 DEF ManifestFails

-----------------------------------------------------------------------------
(***************************************************************************)
(* Reading the manifest                                                    *)
(***************************************************************************)
\* What every answer gives: rows that are in the view and behind the cursor it was
\* asked from, and if it has a next cursor, all of them up to there.
LEMMA AnswerSound ==
    ASSUME TypeOK, IsFiniteSet(view), NEW answer \in ManifestAnswers(walker.last)
    PROVE  /\ answer.rows \subseteq view
           /\ answer.more \in BOOLEAN
           /\ answer.next \in Cursor
           /\ Reached(answer.next, view)
           /\ answer.next # NoCursor =>
                \A r \in view : (r.stamp > walker.last /\ r.stamp <= answer.next)
                                    => r \in answer.rows
<1>1. CASE answer = TruePage(walker.last)
  <2> DEFINE page == ManifestPage(view, PageSize, walker.last)
  <2>1. /\ answer.rows = page.rows
        /\ answer.more = (page.next # NoCursor)
        /\ answer.next = page.next
    BY <1>1 DEF TruePage
  <2>2. view \in SUBSET Row /\ IsFiniteSet(view) /\ walker.last \in Cursor
    BY DEF TypeOK, WalkerState
  <2>3. PageSize \in Nat \ {0}
    BY MvProxyAssumption DEF MvProxyAssumption
  <2> HIDE DEF page
  <2>4. /\ page.rows \subseteq After(walker.last, view)
        /\ page.next \in Cursor
        /\ page.next # NoCursor =>
            /\ \E q \in view : q.stamp = page.next
            /\ page.rows = {r \in After(walker.last, view) : r.stamp <= page.next}
    BY <2>2, <2>3, PageRows DEF page
  <2>5. Reached(page.next, view)
    BY <2>2, <2>4, RowStamp DEF Reached
  <2> QED
    BY <2>1, <2>4, <2>5 DEF After
<1>2. CASE answer \in {[rows |-> {}, more |-> more, next |-> NoCursor] : more \in BOOLEAN}
  BY <1>2 DEF Reached, Cursor
<1> QED
  BY <1>1, <1>2 DEF ManifestAnswers

\* The buffer with the rows of an answer.
LEMMA FilledSound ==
    ASSUME IInv, walker.pc = "manifest", NEW answer \in ManifestAnswers(walker.last)
    PROVE  /\ Filled(answer) \in SUBSET Row /\ IsFiniteSet(Filled(answer))
           /\ \A c \in Filled(answer) : \E q \in view : q.id = c.id /\ c.stamp <= q.stamp
           /\ \A r \in view : r.stamp <= answer.next
                    => r \in received \union Filled(answer) \union lost
<1>1. /\ view \in SUBSET Row /\ IsFiniteSet(view)
      /\ walker.buffer \in SUBSET Row /\ IsFiniteSet(walker.buffer)
      /\ walker.last \in Nat
  BY CursorNat DEF IInv, TypeOK, WalkerState, BufferFromView
<1>2. answer.rows \subseteq view
  BY AnswerSound DEF IInv
<1>3. Filled(answer) \in SUBSET Row /\ IsFiniteSet(Filled(answer))
  BY <1>1, <1>2, FS_Subset, FS_Union DEF Filled
<1>4. \A c \in Filled(answer) : \E q \in view : q.id = c.id /\ c.stamp <= q.stamp
  BY <1>1, <1>2, RowStamp DEF IInv, BufferFromView, Filled
<1>5. ASSUME NEW r \in view, r.stamp <= answer.next
      PROVE  r \in received \union Filled(answer) \union lost
  <2>1. r.stamp \in Nat /\ r.stamp >= 1
    BY <1>1, RowStamp
  <2>2. answer.next # NoCursor
    BY <1>5, <2>1 DEF NoCursor
  <2>3. CASE r.stamp <= walker.last
    BY <2>3 DEF IInv, CollectedSoFar, Filled
  <2>4. CASE r.stamp > walker.last
    BY <1>5, <2>2, <2>4, AnswerSound DEF IInv, Filled
  <2> QED
    BY <1>1, <2>1, <2>3, <2>4
<1> QED
  BY <1>3, <1>4, <1>5

LEMMA ReadManifestKeepsInv ==
    ASSUME IInv, ReadManifest PROVE IInv'
<1>1. PICK answer \in ManifestAnswers(walker.last) : AnswerRead(answer)
  BY DEF ReadManifest
<1>2. walker.pc = "manifest" /\ batch = {}
  BY DEF ReadManifest, IInv, BatchConsumed
<1>3. /\ UNCHANGED <<view, batch, received, crashes, lost>>
      /\ lost \in SUBSET Row /\ crashes \in 0..MaxCrashes
      /\ checkpoint' \in {checkpoint, NoCursor}
  BY <1>1 DEF AnswerRead, CollectMore, StartFetching, RetryEmptyPage, EndOfWalk, Complete,
              IInv, TypeOK
<1>4. answer.next \in Cursor /\ answer.more \in BOOLEAN /\ Reached(answer.next, view)
  BY AnswerSound DEF IInv
<1>5. /\ Filled(answer) \in SUBSET Row /\ IsFiniteSet(Filled(answer))
      /\ \A c \in Filled(answer) : \E q \in view : q.id = c.id /\ c.stamp <= q.stamp
      /\ \A r \in view : r.stamp <= answer.next
            => r \in received \union Filled(answer) \union lost
  BY <1>2, FilledSound
<1>6. \A r \in view :
        r.stamp <= walker.cursor \/ r.stamp <= checkpoint => r \in received \union lost
  BY <1>2 DEF IInv, CollectedSoFar
<1>7. walker \in WalkerState /\ walker.failures < MaxFailures
  BY DEF IInv, TypeOK
<1> HIDE DEF Filled
<1>8. CASE CollectMore(answer)
  <2>1. walker' = [walker EXCEPT !.buffer = Filled(answer), !.last = answer.next,
                                 !.more = answer.more]
    BY <1>8 DEF CollectMore
  <2>2. /\ walker' \in WalkerState /\ walker'.failures = walker.failures
        /\ walker'.pc = "manifest" /\ walker'.cursor = walker.cursor
        /\ walker'.last = answer.next /\ walker'.buffer = Filled(answer)
    BY <1>2, <1>4, <1>5, <1>7, <2>1 DEF WalkerState
  <2>3. checkpoint' = checkpoint
    BY <1>8 DEF CollectMore
  <2> QED
    BY <1>2, <1>3, <1>4, <1>5, <1>6, <1>7, <2>2, <2>3
       DEF IInv, TypeOK, OneRowPerObject, BufferFromView, CursorsReached, Reached,
           CollectedSoFar, FetchedSoFar, AsleepSoFar, BatchConsumed
<1>9. CASE StartFetching(answer)
  <2>1. walker' = [walker EXCEPT !.pc = "objects", !.buffer = Filled(answer),
                                 !.cursor = answer.next, !.last = answer.next,
                                 !.more = answer.more, !.failures = 0]
    BY <1>9 DEF StartFetching
  <2>2. 0 \in 0..MaxFailures /\ 0 < MaxFailures
    BY ManifestWalkAssumption DEF ManifestWalkAssumption
  <2>3. /\ walker' \in WalkerState /\ walker'.failures < MaxFailures
        /\ walker'.pc = "objects" /\ walker'.cursor = answer.next
        /\ walker'.last = answer.next /\ walker'.buffer = Filled(answer)
    BY <1>4, <1>5, <1>7, <2>1, <2>2 DEF WalkerState
  <2>4. checkpoint' = checkpoint
    BY <1>9 DEF StartFetching
  <2> QED
    BY <1>2, <1>3, <1>4, <1>5, <1>6, <2>3, <2>4
       DEF IInv, TypeOK, OneRowPerObject, BufferFromView, CursorsReached, Reached,
           CollectedSoFar, FetchedSoFar, AsleepSoFar, BatchConsumed
<1>10. CASE RetryEmptyPage(answer)
  <2>1. /\ walker' = Collecting(answer.next, 0) /\ Filled(answer) = {}
        /\ UNCHANGED <<view, batch, checkpoint, received, crashes, lost>>
    BY <1>10 DEF RetryEmptyPage
  <2>2. 0 \in 0..(MaxFailures - 1)
    BY ManifestWalkAssumption DEF ManifestWalkAssumption
  <2> QED
    BY <1>2, <1>4, <1>5, <1>6, <2>1, <2>2, CollectingKeepsInv
<1>11. CASE EndOfWalk(answer)
  <2>1. walker' = Asleep
    BY <1>11 DEF EndOfWalk, Complete
  <2> QED
    BY <1>2, <1>3, <1>6, <2>1, FallingAsleepKeepsInv
<1> QED
  BY <1>1, <1>8, <1>9, <1>10, <1>11 DEF AnswerRead

-----------------------------------------------------------------------------
(***************************************************************************)
(* Fetching the objects                                                    *)
(***************************************************************************)
LEMMA ChunkSound ==
    ASSUME IInv
    PROVE  /\ Chunk \subseteq walker.buffer /\ walker.buffer \in SUBSET Row
           /\ IsFiniteSet(walker.buffer) /\ IsFiniteSet(Chunk)
<1>1. Chunk \subseteq walker.buffer
  BY DEF Chunk, First
<1>2. walker.buffer \in SUBSET Row /\ IsFiniteSet(walker.buffer)
  BY DEF IInv, TypeOK, WalkerState, BufferFromView
<1> QED
  BY <1>1, <1>2, FS_Subset

\* What is not cut off is served: of a buffered row that is still in the view, and
\* within the limits of the id filter and of one page, the object is in the answer.
LEMMA ChunkIsServed ==
    ASSUME IInv, NEW r \in view, r \in Chunk \ CutOff
    PROVE  r \in ObjectsById(view, Chunk)
<1> DEFINE H == HonouredIds(Chunk)
           V == {q \in view : q.id \in H}
           read == First(PageSize + 1, V)
<1>1. /\ view \in SUBSET Row /\ IsFiniteSet(view)
      /\ MaxIds \in Nat /\ PageSize \in Nat
  BY MvProxyAssumption DEF MvProxyAssumption, IInv, TypeOK
<1>2. /\ IsFiniteSet(Before(r, Chunk))
      /\ Cardinality(Before(r, Chunk)) \in Nat
      /\ Cardinality(Before(r, Chunk)) < PageSize
  BY ChunkSound, BeforeFinite DEF CutOff, First
<1>3. r.id \in H
  BY DEF CutOff, HonouredIds
<1>4. \A id \in H : \E c \in Chunk : c.id = id
  BY DEF HonouredIds, First
<1> HIDE DEF H
<1>5. V \in SUBSET Row /\ IsFiniteSet(V) /\ r \in V
  BY <1>1, <1>3, FS_Subset
<1>6. /\ Cardinality(Before(r, V)) <= Cardinality(Before(r, Chunk))
      /\ Cardinality(Before(r, V)) \in Nat
  <2> DEFINE Buffered(q) == CHOOSE c \in Chunk : c.id = q.id
             f == [q \in Before(r, V) |-> Buffered(q)]
  <2>1. ASSUME NEW q \in Before(r, V)
        PROVE  Buffered(q) \in Before(r, Chunk) /\ Buffered(q).id = q.id
    <3>1. q \in view /\ q.id \in H /\ q.stamp < r.stamp
      BY <2>1 DEF Before
    <3>2. Buffered(q) \in Chunk /\ Buffered(q).id = q.id
      BY <1>4, <3>1
    <3>3. PICK now \in view : now.id = Buffered(q).id /\ Buffered(q).stamp <= now.stamp
      BY <3>2, ChunkSound DEF IInv, BufferFromView
    <3>4. now = q
      BY <3>1, <3>2, <3>3 DEF IInv, OneRowPerObject
    <3>5. Buffered(q).stamp < r.stamp
      <4>1. Buffered(q).stamp \in Nat /\ q.stamp \in Nat /\ r.stamp \in Nat
        BY <1>1, <3>1, <3>2, ChunkSound, RowStamp
      <4> QED
        BY <3>1, <3>3, <3>4, <4>1
    <3> QED
      BY <3>2, <3>5, ChunkSound DEF Before
  <2> HIDE DEF Buffered
  <2>2. f \in [Before(r, V) -> Before(r, Chunk)]
    BY <2>1
  <2>3. ASSUME NEW p \in Before(r, V), NEW q \in Before(r, V), f[p] = f[q] PROVE p = q
    BY <2>1, <2>3 DEF Before, IInv, OneRowPerObject
  <2>4. f \in Injection(Before(r, V), Before(r, Chunk))
    BY <2>2, <2>3 DEF Injection, IsInjective
  <2>5. Cardinality(Before(r, V)) <= Cardinality(Before(r, Chunk))
    <3> HIDE DEF f, V
    <3> QED
      BY <1>2, <2>4, FS_Injection
  <2> QED
    BY <1>5, <2>5, BeforeFinite
<1>7. ObjectsById(view, Chunk) = First(PageSize, read)
  <2>1. After(NoCursor, V) = V
    BY <1>5, RowStamp DEF After, NoCursor
  <2> QED
    BY <2>1 DEF ObjectsById, ObjectsPage, H
<1>8. r \in read
  BY <1>1, <1>2, <1>5, <1>6 DEF First
<1>9. Cardinality(Before(r, read)) <= Cardinality(Before(r, V))
      /\ Cardinality(Before(r, read)) \in Nat
  <2>1. Before(r, read) \subseteq Before(r, V) /\ IsFiniteSet(read)
    BY <1>5, FS_Subset DEF Before, First
  <2> HIDE DEF V, read
  <2> QED
    BY <1>5, <2>1, BeforeFinite, FS_Subset
<1> QED
  BY <1>1, <1>2, <1>6, <1>7, <1>8, <1>9 DEF First

LEMMA ObjectsAreRows == ASSUME IInv PROVE ObjectsById(view, Chunk) \in SUBSET Row
  BY DEF IInv, TypeOK, ObjectsById, ObjectsPage, After, First

\* The walker behind a chunk: nothing changes but the buffer.
LEMMA AfterChunkType ==
    ASSUME IInv, walker.pc = "objects", NEW yielded \in BOOLEAN
    PROVE  /\ AfterChunk(yielded) \in WalkerState
           /\ AfterChunk(yielded).failures = walker.failures
           /\ AfterChunk(yielded).cursor = walker.cursor
           /\ AfterChunk(yielded).last = walker.last
           /\ AfterChunk(yielded).buffer = walker.buffer \ Chunk
           /\ AfterChunk(yielded).pc = IF yielded THEN "consume" ELSE "objects"
  BY DEF AfterChunk, IInv, TypeOK, WalkerState

\* Losing rows adds those of them that matter.
LEMMA LoseAdds ==
    ASSUME IInv, NEW rows, Lose(rows)
    PROVE  /\ lost' \in SUBSET Row
           /\ lost \subseteq lost'
           /\ \A r \in view : r \in rows => r \in received \union lost'
  BY DEF IInv, TypeOK, Lose

LEMMA ChunkKeepsInv ==
    ASSUME IInv, YieldBatch \/ SkipChunk PROVE IInv'
<1>1. walker.pc = "objects" /\ UNCHANGED <<view, received, crashes>>
  BY DEF YieldBatch, SkipChunk
<1>2. batch = {}
  BY <1>1 DEF IInv, BatchConsumed
<1>3. PICK yielded \in BOOLEAN :
        /\ walker' = AfterChunk(yielded)
        /\ batch' = IF yielded THEN ObjectsById(view, Chunk) ELSE {}
        /\ Lose(IF yielded THEN CutOff ELSE Chunk)
  <2>1. CASE YieldBatch
    BY <2>1 DEF YieldBatch
  <2>2. CASE SkipChunk
    BY <1>2, <2>2 DEF SkipChunk
  <2> QED
    BY <2>1, <2>2
<1>4. /\ lost' \in SUBSET Row /\ lost \subseteq lost'
      /\ \A r \in view : r \in (IF yielded THEN CutOff ELSE Chunk)
                            => r \in received \union lost'
  BY <1>3, LoseAdds
<1>5. \A r \in view : r \in Chunk => r \in batch' \union received \union lost'
  BY <1>3, <1>4, ChunkIsServed
<1>6. checkpoint' \in {checkpoint, walker.cursor}
  BY DEF YieldBatch, SkipChunk
<1>7. /\ walker' \in WalkerState /\ walker'.failures = walker.failures
      /\ walker'.cursor = walker.cursor /\ walker'.last = walker.last
      /\ walker'.buffer = walker.buffer \ Chunk
      /\ walker'.pc = IF yielded THEN "consume" ELSE "objects"
  BY <1>1, <1>3, AfterChunkType
<1>8. IsFiniteSet(walker.buffer \ Chunk)
  BY ChunkSound, FS_Subset
<1>9. TypeOK'
  BY <1>1, <1>3, <1>4, <1>6, <1>7, ObjectsAreRows DEF IInv, TypeOK, WalkerState
<1>10. FetchedSoFar'
  <2>1. SUFFICES ASSUME NEW r \in view, r.stamp <= walker.cursor \/ r.stamp <= checkpoint
                 PROVE  r \in received \union batch' \union (walker.buffer \ Chunk) \union lost'
    BY <1>1, <1>6, <1>7 DEF FetchedSoFar
  <2>2. r \in received \union walker.buffer \union lost
    BY <1>1, <1>2, <2>1 DEF IInv, FetchedSoFar
  <2> QED
    BY <1>4, <1>5, <2>2
<1>11. CollectedSoFar' /\ AsleepSoFar' /\ BatchConsumed'
  BY <1>3, <1>7 DEF CollectedSoFar, AsleepSoFar, BatchConsumed
<1>12. CursorsReached' /\ OneRowPerObject' /\ BufferFromView' /\ IsFiniteSet(view)'
  BY <1>1, <1>6, <1>7, <1>8 DEF IInv, CursorsReached, Reached, OneRowPerObject, BufferFromView
<1> QED
  BY <1>9, <1>10, <1>11, <1>12 DEF IInv

LEMMA ResumeKeepsInv == ASSUME IInv, Resume PROVE IInv'
<1>1. /\ walker.pc = "consume" /\ UNCHANGED <<view, checkpoint, crashes>>
      /\ received' = received \union batch /\ batch' = {} /\ lost' = lost \ batch
  BY DEF Resume
<1>2. /\ walker' \in WalkerState /\ walker'.failures = walker.failures
      /\ walker'.cursor = walker.cursor /\ walker'.last = walker.last
      /\ walker'.buffer = walker.buffer /\ walker'.pc = "objects"
  BY DEF Resume, IInv, TypeOK, WalkerState
<1>3. TypeOK'
  BY <1>1, <1>2 DEF IInv, TypeOK
<1> QED
  BY <1>1, <1>2, <1>3
     DEF IInv, OneRowPerObject, BufferFromView, CursorsReached, Reached, CollectedSoFar,
         FetchedSoFar, AsleepSoFar, BatchConsumed

\* When the walk breaks off, the checkpoint is ahead of nothing but what was dropped.
LEMMA BreakingOffKeepsInv ==
    ASSUME IInv, walker.pc # "sleep", Lose(Dropped), walker' = Asleep, batch' = {},
           UNCHANGED <<view, checkpoint, received>>, crashes' \in 0..MaxCrashes
    PROVE  IInv'
<1>1. /\ lost' \in SUBSET Row /\ lost \subseteq lost'
      /\ \A r \in view : r \in Dropped => r \in received \union lost'
  BY LoseAdds
<1>2. ASSUME NEW r \in view, r.stamp <= checkpoint PROVE r \in received \union lost'
  <2>1. CASE walker.pc = "manifest"
    BY <1>1, <1>2, <2>1 DEF IInv, CollectedSoFar
  <2>2. CASE walker.pc \in {"objects", "consume"}
    <3>1. r \in received \union batch \union walker.buffer \union lost
      BY <1>2, <2>2 DEF IInv, FetchedSoFar
    <3>2. r \in batch \union walker.buffer => r \in Dropped
      BY <1>2, <2>2 DEF Dropped
    <3> QED
      BY <1>1, <3>1, <3>2
  <2> QED
    BY <2>1, <2>2 DEF IInv, TypeOK, WalkerState
<1> QED
  BY <1>1, <1>2, FallingAsleepKeepsInv

LEMMA UnexpectedBodyKeepsInv == ASSUME IInv, UnexpectedBody PROVE IInv'
  BY BreakingOffKeepsInv DEF UnexpectedBody, IInv, TypeOK, BatchConsumed

LEMMA CrashKeepsInv == ASSUME IInv, Crash PROVE IInv'
<1>1. crashes' \in 0..MaxCrashes
  BY ManifestWalkAssumption DEF ManifestWalkAssumption, Crash, IInv, TypeOK
<1> QED
  BY <1>1, BreakingOffKeepsInv DEF Crash

LEMMA EndPhaseKeepsInv == ASSUME IInv, EndPhase PROVE IInv'
<1>1. walker.pc = "objects" /\ walker.buffer = {} /\ batch = {}
  BY DEF EndPhase, IInv, BatchConsumed
<1>2. /\ \A r \in view :
            r.stamp <= walker.cursor \/ r.stamp <= checkpoint => r \in received \union lost
      /\ lost \in SUBSET Row /\ crashes \in 0..MaxCrashes
  BY <1>1 DEF IInv, TypeOK, FetchedSoFar
<1>3. walker.cursor \in Cursor /\ Reached(walker.cursor, view) /\ 0 \in 0..(MaxFailures - 1)
  BY ManifestWalkAssumption DEF ManifestWalkAssumption, IInv, TypeOK, WalkerState, CursorsReached
<1>4. CASE /\ walker' = Collecting(walker.cursor, 0)
           /\ UNCHANGED <<view, batch, checkpoint, received, crashes, lost>>
  BY <1>1, <1>2, <1>3, <1>4, CollectingKeepsInv
<1>5. CASE Complete
  BY <1>1, <1>2, <1>5, FallingAsleepKeepsInv DEF Complete
<1> QED
  BY <1>4, <1>5 DEF EndPhase

\* A new row is behind every cursor or late, and what it replaces may still be
\* buffered.
LEMMA RefreshKeepsInv == ASSUME IInv, Refresh PROVE IInv'
<1>1. /\ view' \in Refreshes(view, LateRows)
      /\ lost' = (lost \intersect view') \union Late(view')
      /\ UNCHANGED <<walker, batch, checkpoint, received, crashes>>
  BY DEF Refresh
<1>2. /\ view \in SUBSET Row /\ IsFiniteSet(view)
      /\ walker.cursor \in Cursor /\ walker.last \in Cursor /\ checkpoint \in Cursor
      /\ lost \in SUBSET Row
  BY DEF IInv, TypeOK, WalkerState
<1>3. PICK new \in Row :
        /\ view' = (view \ {q \in view : q.id = new.id}) \union {new}
        /\ \A q \in view : q.id = new.id => q.stamp < new.stamp
  BY <1>1 DEF Refreshes
<1>4. view' \in SUBSET Row /\ IsFiniteSet(view') /\ lost' \in SUBSET Row
  <2>1. IsFiniteSet(view \ {q \in view : q.id = new.id})
    BY <1>2, FS_Subset
  <2>2. IsFiniteSet(view')
    BY <1>3, <2>1, FS_AddElement
  <2> QED
    BY <1>1, <1>2, <1>3, <2>2 DEF Late
<1>5. ASSUME NEW c \in {walker.cursor, walker.last, checkpoint}
      PROVE  /\ Reached(c, view')
             /\ \A r \in view' : r.stamp <= c => r \in view \union lost'
  <2>1. Reached(c, view) /\ c \in Nat
    BY <1>2, CursorNat DEF IInv, CursorsReached
  <2>2. Reached(c, view')
    <3>1. SUFFICES ASSUME NEW q \in view, c <= q.stamp PROVE \E p \in view' : c <= p.stamp
      BY <2>1 DEF Reached
    <3>2. q.stamp \in Nat /\ new.stamp \in Nat
      BY <1>2, RowStamp
    <3> QED
      BY <1>3, <2>1, <3>1, <3>2
  <2> QED
    BY <1>1, <2>2 DEF Late
<1>6. TypeOK' /\ OneRowPerObject'
  BY <1>1, <1>3, <1>4 DEF IInv, TypeOK, OneRowPerObject
<1>7. BufferFromView'
  <2>1. ASSUME NEW c \in walker.buffer
        PROVE  \E q \in view' : q.id = c.id /\ c.stamp <= q.stamp
    <3>1. PICK q \in view : q.id = c.id /\ c.stamp <= q.stamp
      BY DEF IInv, BufferFromView
    <3>2. CASE q.id = new.id
      <4>1. c.stamp \in Nat /\ q.stamp \in Nat /\ new.stamp \in Nat
        BY <1>2, ChunkSound, RowStamp
      <4> QED
        BY <1>3, <3>1, <3>2, <4>1
    <3>3. CASE q.id # new.id
      BY <1>3, <3>1, <3>3
    <3> QED
      BY <3>2, <3>3
  <2> QED
    BY <1>1, <2>1 DEF IInv, BufferFromView
<1>8. \A r \in view' : r \in lost => r \in lost'
  BY <1>1
<1>9. CollectedSoFar' /\ FetchedSoFar' /\ AsleepSoFar' /\ BatchConsumed'
  BY <1>1, <1>5, <1>8 DEF IInv, CollectedSoFar, FetchedSoFar, AsleepSoFar, BatchConsumed
<1>10. CursorsReached'
  BY <1>1, <1>5 DEF CursorsReached
<1> QED
  BY <1>4, <1>6, <1>7, <1>9, <1>10 DEF IInv

LEMMA NextKeepsInv == ASSUME IInv, [Next]_vars PROVE IInv'
<1>1. CASE UNCHANGED vars
  BY <1>1 DEF vars, IInv, TypeOK, OneRowPerObject, BufferFromView, CursorsReached, Reached,
              CollectedSoFar, FetchedSoFar, AsleepSoFar, BatchConsumed
<1>2. CASE Walk
  BY <1>2, StartWalkKeepsInv, ReadManifestKeepsInv, ManifestFailsKeepsInv, ChunkKeepsInv,
     UnexpectedBodyKeepsInv, EndPhaseKeepsInv DEF Walk
<1> QED
  BY <1>1, <1>2, ResumeKeepsInv, RefreshKeepsInv, CrashKeepsInv DEF Next

LEMMA InvAlways == Spec => []IInv
<1>1. IInv /\ [Next]_vars => IInv'
  BY NextKeepsInv
<1> QED
  BY <1>1, InitEstablishesInv, PTL DEF Spec

\* Objects change but do not go away: some object of the chunk is still in the view.
LEMMA SomethingIsServed ==
    ASSUME IInv, Chunk # {} PROVE ObjectsById(view, Chunk) # {}
<1> DEFINE V == {q \in view : q.id \in HonouredIds(Chunk)}
           left == After(NoCursor, V)
<1>1. /\ MaxIds \in Nat \ {0} /\ PageSize \in Nat \ {0} /\ PageSize + 1 \in Nat \ {0}
      /\ view \in SUBSET Row /\ IsFiniteSet(view)
  BY MvProxyAssumption DEF MvProxyAssumption, IInv, TypeOK
<1>2. PICK c \in First(MaxIds, Chunk) : TRUE
  BY <1>1, ChunkSound, FirstNonEmpty
<1>3. PICK q \in view : q.id = c.id
  BY <1>2, ChunkSound DEF IInv, BufferFromView, First
<1>4. q \in left
  BY <1>1, <1>2, <1>3, RowStamp DEF HonouredIds, After, NoCursor
<1>5. left \in SUBSET Row /\ IsFiniteSet(left)
  BY <1>1, FS_Subset DEF After
<1>6. First(PageSize + 1, left) # {}
  BY <1>1, <1>4, <1>5, FirstNonEmpty
<1>7. First(PageSize + 1, left) \in SUBSET Row /\ IsFiniteSet(First(PageSize + 1, left))
  BY <1>5, FS_Subset DEF First
<1>8. First(PageSize, First(PageSize + 1, left)) # {}
  BY <1>1, <1>6, <1>7, FirstNonEmpty
<1> QED
  BY <1>8 DEF ObjectsById, ObjectsPage

-----------------------------------------------------------------------------
(***************************************************************************)
(* Results                                                                 *)
(***************************************************************************)
\* Types are kept under every fault; the walk never counts as many failures in a row
\* as it gives up at, and a cursor it goes on from is always one it was given.
THEOREM TypeCorrect == Spec => []TypeOK
<1>1. IInv => TypeOK
  BY DEF IInv
<1> QED
  BY <1>1, InvAlways, PTL

\* Behind the cursor of the walk, and behind the checkpoint in Redis from which the
\* next run resumes, no object is left that main.py has not been handed, but for those
\* that turned up late, whose objects request failed or was cut short, or that were in
\* the memory of a walk that broke off with the checkpoint ahead of them.
THEOREM WalkSkipsNothing == Spec => []NothingSkipped
  BY InvAlways, InvImpliesNothingSkipped, PTL

\* The ids of a chunk are read long before their objects are asked for, and the view is
\* refreshed meanwhile: the request is answered with some object all the same, so a
\* chunk whose request does not fail is never passed over for having no objects.
RequestIsAnswered ==
    walker.pc = "objects" /\ Chunk # {} => ObjectsById(view, Chunk) # {}

THEOREM StaleIdsAreServed == Spec => []RequestIsAnswered
<1>1. IInv => RequestIsAnswered
  BY SomethingIsServed DEF RequestIsAnswered
<1> QED
  BY <1>1, InvAlways, PTL

=============================================================================
