---------------------------- MODULE ManifestWalk ----------------------------
(***************************************************************************)
(* taxii2misp's walk of a TAXII collection,                                *)
(* TAXIIClient.get_all_objects_with_resource_management: manifest pages    *)
(* are followed until enough ids are buffered, the objects of these ids    *)
(* are fetched in chunks, and each chunk's objects are yielded as a batch  *)
(* to main.py, which is done with a batch when it asks for the next.       *)
(*                                                                         *)
(* The server is taxii-mv-proxy (MvProxy), which may also fail, or give an *)
(* answer with a JSON body that is no page: the client reads any such body *)
(* as an empty page.                                                       *)
(***************************************************************************)
EXTENDS MvProxy

CONSTANTS
    BatchIds,           \* manifest_batch_ids
    ChunkIds,           \* object_fetch_chunk
    MaxFailures,        \* max_consecutive_failures
    LateRows,           \* TRUE: transactions may commit out of order
    ManifestMayFail,    \* TRUE: a manifest request may fail
    ObjectsMayFail,     \* TRUE: an objects request may fail
    MisleadingAnswers,  \* TRUE: a manifest answer may be an empty page it should not be
    RedisMayFail,       \* TRUE: Redis calls may fail, the checkpoint may expire
    MaxCrashes          \* bound on process deaths

ASSUME ManifestWalkAssumption ==
    /\ BatchIds \in Nat \ {0}
    /\ ChunkIds \in Nat \ {0}
    /\ MaxFailures \in Nat \ {0}
    /\ MaxCrashes \in Nat
    /\ {LateRows, ManifestMayFail, ObjectsMayFail, MisleadingAnswers,
        RedisMayFail} \subseteq BOOLEAN

VARIABLES
    view,       \* rows of the materialized view
    walker,     \* the generator's local variables
    batch,      \* rows main.py is working on
    checkpoint, \* Redis taxii_global_progress:<collection>, its next_cursor
    received,   \* rows main.py is done with
    crashes,    \* process deaths so far
    lost        \* not in the code: rows that were let go of, until a walk brings them

vars == <<view, walker, batch, checkpoint, received, crashes, lost>>

(***************************************************************************)
(* The generator.  buffer holds the ids of the phase at hand, as the rows  *)
(* they were read from, whose order is the order of the ids.               *)
(*                                                                         *)
(* cursor is next_manifest_cursor, where this phase started; last is       *)
(* last_manifest_cursor; more is last_manifest_more.                       *)
(***************************************************************************)
Asleep == [pc |-> "sleep", cursor |-> NoCursor, last |-> NoCursor, more |-> TRUE,
           buffer |-> {}, yielded |-> FALSE, failures |-> 0]

WalkerState ==
    [pc : {"sleep", "manifest", "objects", "consume"}, cursor : Cursor, last : Cursor,
     more : BOOLEAN, buffer : SUBSET Row, yielded : BOOLEAN, failures : 0..MaxFailures]

TypeOK ==
    /\ view \subseteq Row
    /\ walker \in WalkerState
    /\ walker.failures < MaxFailures
    /\ batch \subseteq Row
    /\ checkpoint \in Cursor
    /\ received \subseteq Row
    /\ crashes \in 0..MaxCrashes
    /\ lost \subseteq Row

Init ==
    /\ view = {}
    /\ walker = Asleep
    /\ batch = {}
    /\ checkpoint = NoCursor
    /\ received = {}
    /\ crashes = 0
    /\ lost = {}

-----------------------------------------------------------------------------
\* Phase 1 from a cursor, with an empty buffer.
Collecting(cursor, failures) ==
    [Asleep EXCEPT !.pc = "manifest", !.cursor = cursor, !.last = cursor,
                   !.failures = failures]

\* The main loop calls the generator, which resumes from the checkpoint if there
\* is one.  A completed last walk has left none.
StartWalk ==
    /\ walker.pc = "sleep"
    /\ \E cursor \in {checkpoint} \union (IF RedisMayFail THEN {NoCursor} ELSE {}) :
            walker' = Collecting(cursor, 0)
    /\ UNCHANGED <<view, batch, checkpoint, received, crashes, lost>>

\* The proxy's page, and what the client makes of a body that is no page.
TruePage(cursor) ==
    LET page == ManifestPage(view, PageSize, cursor)
    IN  [rows |-> page.rows, more |-> page.next # NoCursor, next |-> page.next]

ManifestAnswers(cursor) ==
    {TruePage(cursor)} \union
    (IF MisleadingAnswers
     THEN {[rows |-> {}, more |-> more, next |-> NoCursor] : more \in BOOLEAN}
     ELSE {})

Filled(answer) == walker.buffer \union answer.rows

\* There is more to collect: the next page, from the cursor of this one.
CollectMore(answer) ==
    /\ answer.more /\ answer.next # NoCursor
    /\ Cardinality(Filled(answer)) < BatchIds
    /\ walker' = [walker EXCEPT !.buffer = Filled(answer), !.last = answer.next,
                                !.more = answer.more]
    /\ UNCHANGED <<view, batch, checkpoint, received, crashes, lost>>

Collected(answer) ==
    \/ ~answer.more
    \/ answer.next = NoCursor
    \/ Cardinality(Filled(answer)) >= BatchIds

\* Mutant of StartFetching: the cursor stays where this phase started.
StartFetchingStale(answer) ==
    /\ Collected(answer)
    /\ Filled(answer) # {}
    /\ walker' = [walker EXCEPT !.pc = "objects", !.buffer = Filled(answer),
                                !.more = answer.more, !.failures = 0]
    /\ UNCHANGED <<view, batch, checkpoint, received, crashes, lost>>

\* Enough ids, or the last page: the next phase 1 will start behind this buffer.
StartFetching(answer) ==
    /\ Collected(answer)
    /\ Filled(answer) # {}
    /\ walker' = [walker EXCEPT !.pc = "objects", !.buffer = Filled(answer),
                                !.cursor = answer.next, !.last = answer.next,
                                !.more = answer.more, !.failures = 0]
    /\ UNCHANGED <<view, batch, checkpoint, received, crashes, lost>>

\* No ids, but the server says there are more: try again from its cursor.
RetryEmptyPage(answer) ==
    /\ Collected(answer)
    /\ Filled(answer) = {}
    /\ answer.more
    /\ walker' = Collecting(answer.next, 0)
    /\ UNCHANGED <<view, batch, checkpoint, received, crashes, lost>>

\* The walk is complete: the completion mark is set, the checkpoint deleted.
Complete ==
    /\ walker' = Asleep
    /\ \/ checkpoint' = NoCursor
       \/ RedisMayFail /\ UNCHANGED checkpoint
    /\ UNCHANGED <<view, batch, received, crashes, lost>>

EndOfWalk(answer) ==
    /\ Collected(answer)
    /\ Filled(answer) = {}
    /\ ~answer.more
    /\ Complete

AnswerRead(answer) ==
    \/ CollectMore(answer)
    \/ StartFetching(answer)
    \/ RetryEmptyPage(answer)
    \/ EndOfWalk(answer)

ReadManifest ==
    /\ walker.pc = "manifest"
    /\ \E answer \in ManifestAnswers(walker.last) : AnswerRead(answer)

\* Mutant of ManifestFails: one failure too many.
ManifestFailsOffByOne ==
    /\ ManifestMayFail
    /\ walker.pc = "manifest"
    /\ walker' = IF walker.failures + 1 > MaxFailures THEN Asleep
                 ELSE Collecting(walker.cursor, walker.failures + 1)
    /\ UNCHANGED <<view, batch, checkpoint, received, crashes, lost>>

\* Mutant of ManifestFails: the buffer is dropped, the cursor is not set back.
ManifestFailsForgets ==
    /\ ManifestMayFail
    /\ walker.pc = "manifest"
    /\ walker' = IF walker.failures + 1 >= MaxFailures THEN Asleep
                 ELSE Collecting(walker.last, walker.failures + 1)
    /\ UNCHANGED <<view, batch, checkpoint, received, crashes, lost>>

\* A transport error or a body that is not JSON: what was buffered is dropped,
\* and the walk gives up after max_consecutive_failures.
ManifestFails ==
    /\ ManifestMayFail
    /\ walker.pc = "manifest"
    /\ walker' = IF walker.failures + 1 >= MaxFailures THEN Asleep
                 ELSE Collecting(walker.cursor, walker.failures + 1)
    /\ UNCHANGED <<view, batch, checkpoint, received, crashes, lost>>

-----------------------------------------------------------------------------
Chunk == First(ChunkIds, walker.buffer)

Lose(rows) == lost' = lost \union ((rows \intersect view) \ received)

\* The ids that the proxy does not look at, or whose objects are on a second page
\* that nobody asks for.
CutOff == Chunk \ (First(MaxIds, Chunk) \intersect First(PageSize, Chunk))

AfterChunk(yielded) ==
    [walker EXCEPT !.buffer = @ \ Chunk, !.yielded = @ \/ yielded,
                   !.pc = IF yielded THEN "consume" ELSE "objects"]

YieldBatch ==
    /\ walker.pc = "objects"
    /\ Chunk # {}
    /\ batch' = ObjectsById(view, Chunk)
    /\ batch' # {}
    /\ walker' = AfterChunk(TRUE)
    /\ \/ checkpoint' = walker.cursor       \* written before the yield
       \/ RedisMayFail /\ UNCHANGED checkpoint
    /\ Lose(CutOff)
    /\ UNCHANGED <<view, received, crashes>>

\* The request fails, or its answer holds no objects: the chunk is skipped.
SkipChunk ==
    /\ walker.pc = "objects"
    /\ Chunk # {}
    /\ \/ ObjectsMayFail
       \/ ObjectsById(view, Chunk) = {}
    /\ walker' = AfterChunk(FALSE)
    /\ Lose(Chunk)
    /\ UNCHANGED <<view, batch, checkpoint, received, crashes>>

\* main.py has processed the batch and asks for the next.
Resume ==
    /\ walker.pc = "consume"
    /\ walker' = [walker EXCEPT !.pc = "objects"]
    /\ received' = received \union batch
    /\ batch' = {}
    /\ lost' = lost \ batch
    /\ UNCHANGED <<view, checkpoint, crashes>>

\* What goes with the walker's memory: the checkpoint may have passed it, but no
\* checkpoint is ahead of what is still being collected.
Dropped ==
    {r \in batch \union walker.buffer : walker.pc # "manifest" /\ r.stamp <= checkpoint}

\* A body that is JSON but no object is an error nobody expects: the walk is over.
UnexpectedBody ==
    /\ \/ ManifestMayFail /\ walker.pc = "manifest"
       \/ ObjectsMayFail /\ walker.pc = "objects" /\ Chunk # {}
    /\ walker' = Asleep
    /\ Lose(Dropped)
    /\ UNCHANGED <<view, batch, checkpoint, received, crashes>>

\* All chunks are done with.
EndPhase ==
    /\ walker.pc = "objects"
    /\ walker.buffer = {}
    /\ \/ /\ walker.yielded \/ walker.more
          /\ walker' = Collecting(walker.cursor, 0)
          /\ UNCHANGED <<view, batch, checkpoint, received, crashes, lost>>
       \/ /\ ~walker.yielded /\ ~walker.more
          /\ Complete

-----------------------------------------------------------------------------
\* Rows that turn up where the walk, or the checkpoint, has already been.
Late(now) ==
    {r \in now \ view : \E c \in {walker.cursor, walker.last, checkpoint} : r.stamp <= c}

Refresh ==
    /\ view' \in Refreshes(view, LateRows)
    /\ lost' = (lost \intersect view') \union Late(view')
    /\ UNCHANGED <<walker, batch, checkpoint, received, crashes>>

\* The process dies or is asked to shut down, which drops the batch it was handed;
\* it is started again with empty memory.
Crash ==
    /\ crashes < MaxCrashes
    /\ walker.pc # "sleep"
    /\ walker' = Asleep
    /\ batch' = {}
    /\ crashes' = crashes + 1
    /\ Lose(Dropped)
    /\ UNCHANGED <<view, checkpoint, received>>

Walk ==
    \/ StartWalk
    \/ ReadManifest
    \/ ManifestFails
    \/ YieldBatch
    \/ SkipChunk
    \/ UnexpectedBody
    \/ EndPhase

Next ==
    \/ Walk
    \/ Resume
    \/ Refresh
    \/ Crash

Spec == Init /\ [][Next]_vars

(***************************************************************************)
(* Fairness.  The generator and its consumer go on.  A page that is asked  *)
(* for again and again at one point of the walk is served in the end, and  *)
(* so are the objects of an id that is asked for again and again: failures *)
(* do not single out a request for ever.  (No row is behind MaxStamp, so   *)
(* no cursor is MaxStamp.)                                                 *)
(***************************************************************************)
PageServed(start, cursor) ==
    /\ walker.pc = "manifest"
    /\ walker.cursor = start
    /\ walker.last = cursor
    /\ AnswerRead(TruePage(cursor))

ChunkServed(o) == (\E r \in Chunk : r.id = o) /\ YieldBatch

FairSpec ==
    /\ Spec
    /\ WF_vars(Walk)
    /\ WF_vars(Resume)
    /\ \A cursor \in 0..(MaxStamp - 1) : \A start \in 0..cursor :
            SF_vars(PageServed(start, cursor))
    /\ \A o \in Object : SF_vars(ChunkServed(o))

-----------------------------------------------------------------------------
(***************************************************************************)
(* Properties                                                              *)
(***************************************************************************)

\* Behind the cursor, and behind the checkpoint that a restarted process resumes
\* from, everything has been processed or is about to be, but for what was lost in
\* one of four ways: it turned up there late, its objects request failed, the
\* request asked for more than the proxy serves, or it was in memory, and the
\* checkpoint ahead of it, when the walk broke off.  Failing or misleading manifest
\* answers, Redis and a walk broken off while it collects lose nothing.
NothingSkipped ==
    \A r \in view :
        r.stamp <= walker.cursor \/ r.stamp <= checkpoint
            => r \in received \union batch \union walker.buffer \union lost

\* None of the four happens.
NothingLost == lost = {}

\* Whatever the collection goes on holding is handed to main.py again and again,
\* so that a batch whose publication failed gets another try, and main.py is done
\* with it at least once.
EventuallyReceived ==
    \A r \in Row : <>[](r \in view) => []<>(r \in batch) /\ <>(r \in received)

\* A walk comes to its end, so that the scheduler sleeps between two of them.
WalkEnds == []<>(walker.pc = "sleep")
=============================================================================
