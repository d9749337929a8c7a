------------------------------- MODULE Outbox -------------------------------
(***************************************************************************)
(* The two-process outbox pipeline of otx2taxii.                           *)
(*                                                                         *)
(*   ingest.py --loop : OTX -> chunk files in <outbox>/pending             *)
(*   main.py          : pending -> TAXII server -> <outbox>/processed      *)
(*                                                                         *)
(* The processes share only the file system; main.py's worker threads      *)
(* share the Redis set of TAXII ids.  Both may die between any two steps   *)
(* and are restarted by supervisor.sh.                                     *)
(***************************************************************************)
EXTENDS TaxiiPush

CONSTANTS
    Feeds,                  \* [Pulse -> set of indicator lists OTX may serve]
    Worker,                 \* the threads of main.py's pool (MAX_WORKERS)
    FileRank,               \* position of each chunk file in a sorted listing
    NoName,                 \* the file of an idle worker
    InitiallyCorrupt,       \* names in pending/ that hold unreadable files at start
    EnablePrevalidation,    \* ENABLE_CACHE_PREVALIDATION
    MaxBundlesToPush,       \* MAX_BUNDLES_TO_PUSH
    NoLimit,                \* its value when unset
    MaxPushRetries,         \* max_push_retries of the TAXII client
    FetchMayFail,           \* TRUE: an indicator fetch may fail, which answers []
    DiskMayFail,            \* TRUE: writing, moving or removing a file may fail
    CleanupEnabled,         \* OUTBOX_RETENTION_DAYS > 0
    ResetAllowed,           \* TRUE: an operator may run ingest.py --reset
    RedisMayFail,           \* TRUE: Redis calls may fail, the id set may expire
    MaxYields,              \* how often one feed cycle may yield a pulse
    MaxCrashes              \* bound on process deaths

Lists(p) == Feeds[p] \union {<<>>}

Name == UNION {UNION {{FileName(p, s, k) : k \in ChunkIndices(s)} :
                            s \in Lists(p)} : p \in Pulse}

Object == UNION {UNION {PulseObjects(p, s) : s \in Lists(p)} : p \in Pulse}

ASSUME OutboxAssumption ==
    /\ Feeds \in [Pulse -> SUBSET Seq(Indicator)]
    /\ \A p \in Pulse : Feeds[p] # {}
    /\ \A p \in Pulse : \A s \in Feeds[p] :      \* a pulse lists an indicator once
            \A i, j \in DOMAIN s : s[i] = s[j] => i = j
    /\ FileRank \in [Name -> Nat]
    /\ \A m, n \in Name : FileRank[m] = FileRank[n] => m = n
    /\ NoName \notin Name
    /\ InitiallyCorrupt \subseteq Name
    /\ MaxBundlesToPush \in Int \union {NoLimit}
    /\ MaxPushRetries \in Nat /\ MaxYields \in Nat /\ MaxCrashes \in Nat
    /\ {EnablePrevalidation, AtomicServer, StatusListsFailures, FetchMayFail,
        DiskMayFail,
        CleanupEnabled, ResetAllowed, RedisMayFail} \subseteq BOOLEAN

VARIABLES
    otx,        \* the indicator list OTX serves now for each pulse
    server,     \* ids of the objects the TAXII collection holds
    cache,      \* Redis set taxii_ids:<collection>
    pending,    \* <outbox>/pending, one entry per possible file name
    processed,  \* <outbox>/processed
    writer,     \* ingest.py
    phase,      \* main.py's thread: "sleep", or "push" inside the pool's with block
    listed,     \* submitted chunk files no worker has taken yet
    worker,     \* main.py's pool threads
    pushedSoFar,\* successes of the current push cycle
    reset,      \* ingest.py --reset: the directory it wipes, the files left
    crashes     \* process deaths so far

diskVars == <<pending, processed>>
mainVars == <<phase, listed, worker, pushedSoFar>>
vars == <<otx, server, cache, pending, processed, writer,
          phase, listed, worker, pushedSoFar, reset, crashes>>

(***************************************************************************)
(* Files.  Chunk files become visible by os.replace, hence whole.          *)
(***************************************************************************)
NoFile == [kind |-> "none", objects |-> {}]
CorruptFile == [kind |-> "corrupt", objects |-> {}]
ChunkFile(objs) == [kind |-> "bundle", objects |-> objs]
FileState == [kind : {"none", "corrupt", "bundle"}, objects : SUBSET Object]

FilesIn(dir) == {n \in Name : dir[n].kind # "none"}

(***************************************************************************)
(* The processes' local states.                                            *)
(***************************************************************************)
IdleWriter == [pc |-> "sleep", remaining |-> [p \in Pulse |-> 0],
               pulse |-> CHOOSE p \in Pulse : TRUE, list |-> <<>>,
               k |-> 1, written |-> {}]

IdleWorker == [pc |-> "idle", file |-> NoName, loaded |-> {}, sent |-> {},
               attempt |-> 0, accepted |-> {}]

NoReset == [dir |-> "none", left |-> {}]

WriterState ==
    [pc : {"sleep", "feed", "open", "replace"},
     remaining : [Pulse -> 0..MaxYields], pulse : Pulse,
     list : Seq(Indicator), k : Nat, written : SUBSET Object]

WriterTypeOK ==
    /\ writer \in WriterState
    /\ writer.list \in Lists(writer.pulse)
    /\ writer.k \in ChunkIndices(writer.list)

WorkerState ==
    [pc : {"idle", "read", "discard", "validate", "push", "cache", "move"},
     file : Name \union {NoName}, loaded : SUBSET Object, sent : SUBSET Object,
     attempt : 0..MaxPushRetries, accepted : SUBSET Object]

PusherTypeOK ==
    /\ phase \in {"sleep", "push"}
    /\ listed \subseteq Name
    /\ worker \in [Worker -> WorkerState]
    /\ \A w \in Worker : worker[w].pc # "idle" => worker[w].file \in Name
    /\ pushedSoFar \in Nat

TypeOK ==
    /\ otx \in [Pulse -> Seq(Indicator)]
    /\ \A p \in Pulse : otx[p] \in Feeds[p]
    /\ server \subseteq Object
    /\ cache \subseteq Object
    /\ pending \in [Name -> FileState]
    /\ processed \in [Name -> FileState]
    /\ WriterTypeOK
    /\ PusherTypeOK
    /\ reset \in [dir : {"none", "pending", "processed"}, left : SUBSET Name]
    /\ crashes \in 0..MaxCrashes

Init ==
    /\ otx \in {f \in [Pulse -> UNION {Lists(p) : p \in Pulse}] :
                    \A p \in Pulse : f[p] \in Feeds[p]}
    /\ server = {}
    /\ cache = {}
    /\ pending = [n \in Name |->
                    IF n \in InitiallyCorrupt THEN CorruptFile ELSE NoFile]
    /\ processed = [n \in Name |-> NoFile]
    /\ writer = IdleWriter
    /\ phase = "sleep"
    /\ listed = {}
    /\ worker = [w \in Worker |-> IdleWorker]
    /\ pushedSoFar = 0
    /\ reset = NoReset
    /\ crashes = 0

-----------------------------------------------------------------------------
(***************************************************************************)
(* ingest.py                                                               *)
(***************************************************************************)

\* OTX changes the indicators of a pulse.
ReviseFeed(p) ==
    /\ \E s \in Feeds[p] \ {otx[p]} : otx' = [otx EXCEPT ![p] = s]
    /\ UNCHANGED <<server, cache, diskVars, writer, mainVars, reset, crashes>>

\* A cycle of the ingest loop starts.  The feed (module OtxClient) yields each
\* pulse any number of times up to MaxYields: not at all if it has decayed, its
\* author's listing fails, or the update of the SDK's cache succeeds; twice if two
\* author listings hold it.
StartIngestCycle(yields) ==
    /\ writer.pc = "sleep"
    /\ writer' = [IdleWriter EXCEPT !.pc = "feed", !.remaining = yields]
    /\ UNCHANGED <<otx, server, cache, diskVars, mainVars, reset, crashes>>

\* One pulse of the feed: fetch its indicators, build its bundles.
FetchPulse(p, s) ==
    /\ writer.pc = "feed"
    /\ writer.remaining[p] > 0
    /\ \/ s = otx[p]
       \/ FetchMayFail /\ s = <<>>
    /\ writer' = [writer EXCEPT !.pc = "open", !.remaining[p] = @ - 1,
                                !.pulse = p, !.list = s, !.k = 1]
    /\ UNCHANGED <<otx, server, cache, diskVars, mainVars, reset, crashes>>

EndIngestCycle ==
    /\ writer.pc = "feed"
    /\ \A p \in Pulse : writer.remaining[p] = 0
    /\ writer' = IdleWriter
    /\ UNCHANGED <<otx, server, cache, diskVars, mainVars, reset, crashes>>

\* The writer record once the current chunk is dealt with.
AfterChunk ==
    IF writer.k < TotalChunks(writer.list)
    THEN [writer EXCEPT !.pc = "open", !.k = @ + 1]
    ELSE [writer EXCEPT !.pc = "feed", !.pulse = IdleWriter.pulse,
                        !.list = <<>>, !.k = 1]

CurrentGrouping ==
    Grouping(writer.pulse, writer.k, TotalChunks(writer.list),
             ChunkValues(writer.list, writer.k))

CurrentName == FileName(writer.pulse, writer.list, writer.k)

CurrentObjects == BundleObjects(writer.pulse, writer.list, writer.k)

\* The grouping was written earlier in this cycle: the chunk is skipped.
SkipChunk ==
    /\ writer.pc = "open"
    /\ CurrentGrouping \in writer.written
    /\ writer' = AfterChunk
    /\ UNCHANGED <<otx, server, cache, diskVars, mainVars, reset, crashes>>

\* The chunk is dumped to <name>.json.tmp, which no listing shows.
OpenTempFile ==
    /\ writer.pc = "open"
    /\ CurrentGrouping \notin writer.written
    /\ writer' = [writer EXCEPT !.pc = "replace"]
    /\ UNCHANGED <<otx, server, cache, diskVars, mainVars, reset, crashes>>

\* os.replace(tmp, final): whatever had that name in pending/ is replaced.
ReplaceTempFile ==
    /\ writer.pc = "replace"
    /\ pending' = [pending EXCEPT ![CurrentName] = ChunkFile(CurrentObjects)]
    /\ writer' = [AfterChunk EXCEPT !.written = @ \union {CurrentGrouping}]
    /\ UNCHANGED <<otx, server, cache, processed, mainVars, reset, crashes>>

\* The write raises; the cycle goes on with the next chunk.
WriteFails ==
    /\ DiskMayFail
    /\ writer.pc = "replace"
    /\ writer' = AfterChunk
    /\ UNCHANGED <<otx, server, cache, diskVars, mainVars, reset, crashes>>

-----------------------------------------------------------------------------
(***************************************************************************)
(* main.py: the cycle                                                      *)
(***************************************************************************)

\* The test the submit loop makes before each submission.
CapReached(count) ==
    MaxBundlesToPush # NoLimit /\ count >= MaxBundlesToPush

\* Cleanup of processed/, listing, and the submit loop.  pushed_so_far only
\* changes in the as_completed loop that follows, so every test of the cap sees
\* zero and the loop submits all of the listing or none of it.
StartPushCycle ==
    /\ phase = "sleep"
    /\ \E old \in SUBSET (IF CleanupEnabled THEN FilesIn(processed) ELSE {}) :
            processed' = [n \in Name |->
                            IF n \in old THEN NoFile ELSE processed[n]]
    /\ listed' = IF CapReached(0) THEN {} ELSE FilesIn(pending)
    /\ phase' = IF FilesIn(pending) = {} THEN "sleep" ELSE "push"
    /\ UNCHANGED <<otx, server, cache, pending, writer, worker, pushedSoFar,
                   reset, crashes>>

\* The pool is drained: the with block ends and the scheduler sleeps.
EndPushCycle ==
    /\ phase = "push"
    /\ listed = {}
    /\ \A w \in Worker : worker[w].pc = "idle"
    /\ phase' = "sleep"
    /\ pushedSoFar' = 0
    /\ UNCHANGED <<otx, server, cache, diskVars, writer, listed, worker,
                   reset, crashes>>

-----------------------------------------------------------------------------
(***************************************************************************)
(* main.py: a worker thread, _push_one_outbox_chunk                        *)
(***************************************************************************)
Goto(w, pc) == worker' = [worker EXCEPT ![w].pc = pc]

FinishWorker(w) == worker' = [worker EXCEPT ![w] = IdleWorker]

\* The pool's queue is first in, first out: the next file of the sorted listing.
TakeChunk(w) ==
    /\ phase = "push"
    /\ worker[w].pc = "idle"
    /\ \E n \in listed :
        /\ \A m \in listed : FileRank[n] <= FileRank[m]
        /\ listed' = listed \ {n}
        /\ worker' = [worker EXCEPT ![w] =
                        [IdleWorker EXCEPT !.pc = "read", !.file = n]]
    /\ UNCHANGED <<otx, server, cache, diskVars, writer, phase, pushedSoFar,
                   reset, crashes>>

\* Open and parse the file; open raises if an operator has removed it.
ReadChunk(w) ==
    /\ worker[w].pc = "read"
    /\ LET f == pending[worker[w].file]
       IN  \/ f.kind = "none" /\ FinishWorker(w)
           \/ f.kind = "corrupt" /\ Goto(w, "discard")
           \/ /\ f.kind = "bundle"
              /\ worker' = [worker EXCEPT
                    ![w].pc = IF EnablePrevalidation THEN "validate" ELSE "push",
                    ![w].loaded = f.objects, ![w].sent = f.objects]
    /\ UNCHANGED <<otx, server, cache, diskVars, writer, phase, listed,
                   pushedSoFar, reset, crashes>>

\* os.replace(pending/n, processed/n): moves what has that name now.
MoveToProcessed(n) ==
    /\ pending' = [pending EXCEPT ![n] = NoFile]
    /\ processed' = [processed EXCEPT ![n] = pending[n]]

\* os.replace raises: the file has gone, or the file system refuses.
MoveRaises(n) == pending[n].kind = "none" \/ DiskMayFail

\* An unparsable or empty chunk is moved aside; an OSError is ignored.
DiscardChunk(w) ==
    /\ worker[w].pc = "discard"
    /\ \/ pending[worker[w].file].kind # "none" /\ MoveToProcessed(worker[w].file)
       \/ MoveRaises(worker[w].file) /\ UNCHANGED diskVars
    /\ FinishWorker(w)
    /\ UNCHANGED <<otx, server, cache, writer, phase, listed, pushedSoFar,
                   reset, crashes>>

\* Mutant of Prevalidate: the ids enter the Redis set before the push.
PrevalidateEager(w) ==
    /\ worker[w].pc = "validate"
    /\ LET new == FilterNew(worker[w].loaded, cache)
       IN  /\ worker' = [worker EXCEPT ![w].pc = IF new = {} THEN "move" ELSE "push",
                                       ![w].sent = new]
           /\ cache' = cache \union new
    /\ UNCHANGED <<otx, server, diskVars, writer, phase, listed,
                   pushedSoFar, reset, crashes>>

\* Pre-validation; without an answer from Redis every object counts as new.
Prevalidate(w) ==
    /\ worker[w].pc = "validate"
    /\ \E known \in {cache} \union (IF RedisMayFail THEN {{}} ELSE {}) :
        LET new == FilterNew(worker[w].loaded, known)
        IN  worker' = [worker EXCEPT ![w].pc = IF new = {} THEN "move" ELSE "push",
                                     ![w].sent = new]
    /\ UNCHANGED <<otx, server, cache, diskVars, writer, phase, listed,
                   pushedSoFar, reset, crashes>>

\* add_objects answers with a Status: add_stix_bundle will return True.
PushAccepted(w) ==
    /\ worker[w].pc = "push"
    /\ \E stored \in StoredOnStatus(worker[w].sent) :
        /\ server' = server \union stored
        /\ worker' = [worker EXCEPT
                        ![w].pc = "cache",
                        ![w].accepted = AcceptedIds(worker[w].sent, stored)]
    /\ UNCHANGED <<otx, cache, diskVars, writer, phase, listed, pushedSoFar,
                   reset, crashes>>

\* Mutant of PushRetried: the attempts are not counted.
PushRetriedUnbounded(w) ==
    /\ worker[w].pc = "push"
    /\ \E stored \in StoredOnError(worker[w].sent) : server' = server \union stored
    /\ worker' = [worker EXCEPT ![w].attempt = @ + 1]
    /\ UNCHANGED <<otx, cache, diskVars, writer, phase, listed, pushedSoFar,
                   reset, crashes>>

\* A transient network error or a 5xx: back off and send again.
PushRetried(w) ==
    /\ worker[w].pc = "push"
    /\ worker[w].attempt < MaxPushRetries
    /\ \E stored \in StoredOnError(worker[w].sent) : server' = server \union stored
    /\ worker' = [worker EXCEPT ![w].attempt = @ + 1]
    /\ UNCHANGED <<otx, cache, diskVars, writer, phase, listed, pushedSoFar,
                   reset, crashes>>

\* Mutant of PushFailed: the ids are cached although the push failed.
PushFailedCached(w) ==
    /\ worker[w].pc = "push"
    /\ \E stored \in StoredOnError(worker[w].sent) : server' = server \union stored
    /\ worker' = [worker EXCEPT ![w].pc = "cache", ![w].accepted = worker[w].sent]
    /\ UNCHANGED <<otx, cache, diskVars, writer, phase, listed, pushedSoFar,
                   reset, crashes>>

\* Mutant of PushFailed: a failed push is taken for a success.
PushFailedMoves(w) ==
    /\ worker[w].pc = "push"
    /\ \E stored \in StoredOnError(worker[w].sent) : server' = server \union stored
    /\ Goto(w, "move")
    /\ UNCHANGED <<otx, cache, diskVars, writer, phase, listed, pushedSoFar,
                   reset, crashes>>

\* An access error, a timeout, a 4xx, an unexpected answer, or the last retry
\* failing: add_stix_bundle returns False and the file stays in pending/.
PushFailed(w) ==
    /\ worker[w].pc = "push"
    /\ \E stored \in StoredOnError(worker[w].sent) : server' = server \union stored
    /\ FinishWorker(w)
    /\ UNCHANGED <<otx, cache, diskVars, writer, phase, listed, pushedSoFar,
                   reset, crashes>>

\* add_stix_ids_to_cache; a Redis error is logged and ignored.
CacheAccepted(w) ==
    /\ worker[w].pc = "cache"
    /\ \/ cache' = cache \union worker[w].accepted
       \/ RedisMayFail /\ UNCHANGED cache
    /\ Goto(w, "move")
    /\ UNCHANGED <<otx, server, diskVars, writer, phase, listed, pushedSoFar,
                   reset, crashes>>

\* The chunk is done with: move it.  If that raises, the push counts as failed, and
\* a file that is still there is pushed again in the next cycle.
MoveChunk(w) ==
    /\ worker[w].pc = "move"
    /\ \/ /\ pending[worker[w].file].kind # "none"
          /\ MoveToProcessed(worker[w].file)
          /\ pushedSoFar' = pushedSoFar + 1
       \/ /\ MoveRaises(worker[w].file)
          /\ UNCHANGED <<diskVars, pushedSoFar>>
    /\ FinishWorker(w)
    /\ UNCHANGED <<otx, server, cache, writer, phase, listed, reset, crashes>>

-----------------------------------------------------------------------------
(***************************************************************************)
(* The environment                                                         *)
(***************************************************************************)

\* The id set's TTL runs out.
CacheExpires ==
    /\ RedisMayFail
    /\ cache # {}
    /\ cache' = {}
    /\ UNCHANGED <<otx, server, diskVars, writer, mainVars, reset, crashes>>

\* ingest.py --reset, a process of its own, lists pending/ ...
StartReset ==
    /\ reset = NoReset
    /\ reset' = [dir |-> "pending", left |-> FilesIn(pending)]
    /\ UNCHANGED <<otx, server, cache, diskVars, writer, mainVars, crashes>>

\* ... removes the files listed one by one, leaving those it cannot remove ...
RemoveFile(n) ==
    /\ n \in reset.left
    /\ reset' = [reset EXCEPT !.left = @ \ {n}]
    /\ \/ /\ reset.dir = "pending"
          /\ pending' = [pending EXCEPT ![n] = NoFile]
          /\ UNCHANGED processed
       \/ /\ reset.dir = "processed"
          /\ processed' = [processed EXCEPT ![n] = NoFile]
          /\ UNCHANGED pending
       \/ DiskMayFail /\ UNCHANGED diskVars
    /\ UNCHANGED <<otx, server, cache, writer, mainVars, crashes>>

\* ... and does the same with processed/ before it exits.
EndResetOfDirectory ==
    /\ reset.dir # "none"
    /\ reset.left = {}
    /\ reset' = IF reset.dir = "pending"
                THEN [dir |-> "processed", left |-> FilesIn(processed)]
                ELSE NoReset
    /\ UNCHANGED <<otx, server, cache, diskVars, writer, mainVars, crashes>>

Reset == StartReset \/ (\E n \in Name : RemoveFile(n)) \/ EndResetOfDirectory

\* A process dies and is restarted; what it held in memory is gone.
CrashIngest ==
    /\ crashes < MaxCrashes
    /\ writer.pc # "sleep"
    /\ writer' = IdleWriter
    /\ crashes' = crashes + 1
    /\ UNCHANGED <<otx, server, cache, diskVars, mainVars, reset>>

CrashMain ==
    /\ crashes < MaxCrashes
    /\ phase = "push"
    /\ phase' = "sleep"
    /\ listed' = {}
    /\ worker' = [w \in Worker |-> IdleWorker]
    /\ pushedSoFar' = 0
    /\ crashes' = crashes + 1
    /\ UNCHANGED <<otx, server, cache, diskVars, writer, reset>>
-----------------------------------------------------------------------------
Ingest ==
    \/ \E yields \in [Pulse -> 0..MaxYields] : StartIngestCycle(yields)
    \/ \E p \in Pulse : \E s \in Lists(p) : FetchPulse(p, s)
    \/ EndIngestCycle
    \/ SkipChunk
    \/ OpenTempFile
    \/ ReplaceTempFile
    \/ WriteFails

WorkerStep(w) ==
    \/ TakeChunk(w)
    \/ ReadChunk(w)
    \/ DiscardChunk(w)
    \/ Prevalidate(w)
    \/ PushAccepted(w)
    \/ PushRetried(w)
    \/ PushFailed(w)
    \/ CacheAccepted(w)
    \/ MoveChunk(w)

Environment ==
    \/ \E p \in Pulse : ReviseFeed(p)
    \/ CacheExpires
    \/ ResetAllowed /\ Reset
    \/ CrashIngest
    \/ CrashMain

Next ==
    \/ Ingest
    \/ StartPushCycle
    \/ EndPushCycle
    \/ \E w \in Worker : WorkerStep(w)
    \/ Environment

Spec == Init /\ [][Next]_vars

(***************************************************************************)
(* Fairness.  Both loops are scheduled for ever by supervisor.sh, a thread *)
(* that can step does, a chunk file that is written again and again is     *)
(* written in the end, and a chunk pushed again and again is accepted in   *)
(* the end.  Nothing is assumed of the feed, which may never yield a pulse *)
(* or never get its indicators, nor of crashes, Redis, operators or OTX's  *)
(* revisions.                                                              *)
(***************************************************************************)
AcceptedFrom(n) == \E w \in Worker : worker[w].file = n /\ PushAccepted(w)

ReplacedTo(n) == CurrentName = n /\ ReplaceTempFile

IngestFairness ==
    /\ WF_vars(Ingest)
    /\ \A n \in Name : SF_vars(ReplacedTo(n))

PushFairness ==
    /\ WF_vars(StartPushCycle)
    /\ WF_vars(EndPushCycle)
    /\ \A w \in Worker : WF_vars(WorkerStep(w))
    /\ \A n \in Name : SF_vars(AcceptedFrom(n))

FairSpec == Spec /\ IngestFairness /\ PushFairness

-----------------------------------------------------------------------------
(***************************************************************************)
(* Safety                                                                  *)
(***************************************************************************)

\* The Redis set never claims an object the TAXII collection does not hold:
\* pre-validation drops what it claims, so a false claim is a lost object.
CacheSound == cache \subseteq server

\* A grouping on the server finds on the server the indicators it refers to, and
\* that of a first chunk the identity as well, although pre-validation may have
\* cut them out of the bundle that brought it.
GroupingComplete ==
    \A o \in server : IsGrouping(o) =>
        /\ IndicatorRefs(o) \subseteq server
        /\ o.idx = 1 => Identity \in server

\* A chunk file is in processed/ only if all of its objects are on the server.
ProcessedDelivered ==
    \A n \in Name : processed[n].kind = "bundle" => processed[n].objects \subseteq server

\* A grouping on the server finds there the identity it refers to.
GroupingIdentityPresent ==
    (\E o \in server : IsGrouping(o)) => Identity \in server

\* No push cycle goes beyond its cap by more than the pool's running workers.
PushCapHonoured ==
    MaxBundlesToPush # NoLimit =>
        pushedSoFar <= MaxBundlesToPush + Cardinality(Worker)

\* The chunks of a pulse are taken in the order of their indices: no worker holds
\* a chunk while an earlier one of the same listing still waits.  Not so from ten
\* chunks on, when names sort as text and chunk 10 comes before chunk 2.
ChunksInOrder ==
    \A w \in Worker : worker[w].pc # "idle" =>
        \A n \in listed : n.pulse = worker[w].file.pulse => n.idx >= worker[w].file.idx

\* Two names never stand for different contents: no name in Name is that of two
\* bundles the feeds can give rise to.
NameDeterminesBundle ==
    \A p \in Pulse : \A s, t \in Lists(p) :
        \A k \in ChunkIndices(s) \intersect ChunkIndices(t) :
            FileName(p, s, k) = FileName(p, t, k)
                => BundleObjects(p, s, k) = BundleObjects(p, t, k)

-----------------------------------------------------------------------------
(***************************************************************************)
(* Liveness                                                                *)
(***************************************************************************)

\* The writer has just been given the list s for the pulse p.
Fetched(p, s) ==
    writer.pc = "open" /\ writer.pulse = p /\ writer.list = s /\ writer.k = 1

\* What OTX keeps serving for a pulse ends up on the server, all of it, if the feed
\* goes on giving it to the writer, whatever crashes, failed fetches, writes and
\* pushes and overwritten files come in between.  Whether the feed does is
\* OtxClient's part: after a successful update it does not.
EventuallyDelivered ==
    \A p \in Pulse : \A s \in Feeds[p] :
        <>[](otx[p] = s) /\ []<>Fetched(p, s)
            => <>[](PulseObjects(p, s) \subseteq server)

-----------------------------------------------------------------------------
(***************************************************************************)
(* What the outbox promises: Delivery, with a staged bundle for each chunk *)
(* file in pending/.                                                       *)
(***************************************************************************)
staged == {pending[n].objects : n \in {m \in Name : pending[m].kind = "bundle"}}

Bundles == UNION {UNION {{BundleObjects(p, s, k) : k \in ChunkIndices(s)} :
                            s \in Lists(p)} : p \in Pulse}

D == INSTANCE Delivery WITH Bundle <- Bundles, delivered <- server

DeliverySpec == D!Spec
=============================================================================
