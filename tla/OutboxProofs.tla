---------------------------- MODULE OutboxProofs ----------------------------
(***************************************************************************)
(* Proofs about Outbox, for every feed, pool size, cap, chunk size and     *)
(* crash bound.                                                            *)
(***************************************************************************)
EXTENDS Outbox, PulseBundlesProofs

(***************************************************************************)
(* Lists, names and bundles                                                *)
(***************************************************************************)

\* Every list the feed may give for a pulse is a list of indicators.
LEMMA ListsAreSequences ==
    ASSUME NEW p \in Pulse, NEW s \in Lists(p)
    PROVE  s \in Seq(Indicator)
<1>1. Feeds[p] \subseteq Seq(Indicator)
    <2>1. Feeds \in [Pulse -> SUBSET Seq(Indicator)]
        BY OutboxAssumption DEF OutboxAssumption
    <2>. QED BY <2>1
<1>2. <<>> \in Seq(Indicator)
    OBVIOUS
<1>. QED BY <1>1, <1>2 DEF Lists

\* The first chunk exists, and a chunk's file name and objects are known ones.
LEMMA ChunkTypes ==
    ASSUME NEW p \in Pulse, NEW s \in Lists(p)
    PROVE  /\ TotalChunks(s) \in Nat \ {0}
           /\ 1 \in ChunkIndices(s)
           /\ \A k \in ChunkIndices(s) :
                /\ FileName(p, s, k) \in Name
                /\ BundleObjects(p, s, k) \subseteq Object
                /\ Grouping(p, k, TotalChunks(s), ChunkValues(s, k)) \in Object
<1>1. TotalChunks(s) \in Nat \ {0}
    BY ListsAreSequences, ChunksAreNumbers
<1>2. 1 \in ChunkIndices(s)
    BY <1>1 DEF ChunkIndices
<1>3. ASSUME NEW k \in ChunkIndices(s)
      PROVE  /\ FileName(p, s, k) \in Name
             /\ BundleObjects(p, s, k) \subseteq Object
    BY DEF Name, Object, PulseObjects
<1>4. ASSUME NEW k \in ChunkIndices(s)
      PROVE  Grouping(p, k, TotalChunks(s), ChunkValues(s, k)) \in BundleObjects(p, s, k)
    BY DEF BundleObjects
<1>. QED BY <1>1, <1>2, <1>3, <1>4

(***************************************************************************)
(* Type correctness                                                        *)
(***************************************************************************)
LEMMA IdleTypes ==
    /\ IdleWriter.pulse \in Pulse
    /\ IdleWriter.list = <<>>
    /\ IdleWriter.k = 1
    /\ IdleWriter \in WriterState
    /\ IdleWorker \in WorkerState
    /\ NoFile \in FileState /\ CorruptFile \in FileState
    /\ \A objs \in SUBSET Object : ChunkFile(objs) \in FileState
<1>1. (CHOOSE p \in Pulse : TRUE) \in Pulse
    BY PulseBundlesAssumption DEF PulseBundlesAssumption
<1>2. MaxYields \in Nat /\ MaxPushRetries \in Nat
    BY OutboxAssumption DEF OutboxAssumption
<1>3. <<>> \in Seq(Indicator)
    OBVIOUS
<1>4. [p \in Pulse |-> 0] \in [Pulse -> 0..MaxYields]
    BY <1>2
<1>. QED
    BY <1>1, <1>2, <1>3, <1>4
    DEF IdleWriter, IdleWorker, WriterState, WorkerState, NoFile, CorruptFile, ChunkFile, FileState

LEMMA IdleWriterOK ==
    ASSUME writer = IdleWriter
    PROVE  WriterTypeOK
<1>1. <<>> \in Lists(IdleWriter.pulse)
    BY DEF Lists
<1>2. 1 \in ChunkIndices(<<>>)
    BY <1>1, IdleTypes, ChunkTypes
<1>. QED BY <1>1, <1>2, IdleTypes DEF WriterTypeOK, WriterState

LEMMA FeedsAreSequences ==
    ASSUME NEW p \in Pulse, NEW s \in Feeds[p]
    PROVE  s \in Lists(p) /\ s \in Seq(Indicator)
BY ListsAreSequences DEF Lists

LEMMA TypeInit == Init => TypeOK
<1>. SUFFICES ASSUME Init PROVE TypeOK
    OBVIOUS
<1>1. /\ otx \in [Pulse -> Seq(Indicator)]
      /\ \A p \in Pulse : otx[p] \in Feeds[p]
    BY FeedsAreSequences DEF Init
<1>2. server \subseteq Object /\ cache \subseteq Object
    BY DEF Init
<1>3. pending \in [Name -> FileState] /\ processed \in [Name -> FileState]
    BY IdleTypes DEF Init
<1>4. WriterTypeOK
    BY IdleWriterOK DEF Init
<1>5. PusherTypeOK
    BY IdleTypes DEF Init, PusherTypeOK, IdleWorker
<1>6. crashes \in 0..MaxCrashes
    BY OutboxAssumption DEF Init, OutboxAssumption
<1>7. reset \in [dir : {"none", "pending", "processed"}, left : SUBSET Name]
    BY DEF Init, NoReset
<1>. QED BY <1>1, <1>2, <1>3, <1>4, <1>5, <1>6, <1>7 DEF TypeOK

\* Advancing the writer's chunk index keeps its record's shape.
LEMMA AdvanceOK ==
    ASSUME NEW x \in WriterState, NEW j \in Nat
    PROVE  LET y == [x EXCEPT !.pc = "open", !.k = j]
           IN  /\ y \in WriterState
               /\ y.k = j /\ y.pulse = x.pulse /\ y.list = x.list
               /\ y.written = x.written
BY DEF WriterState

\* Moving on to the next chunk gives a well formed record.
LEMMA AfterChunkOK ==
    ASSUME WriterTypeOK
    PROVE  /\ AfterChunk \in WriterState
           /\ AfterChunk.list \in Lists(AfterChunk.pulse)
           /\ AfterChunk.k \in ChunkIndices(AfterChunk.list)
           /\ AfterChunk.written = writer.written
<1>. DEFINE same == [writer EXCEPT !.pc = "open", !.k = @ + 1]
            next == [writer EXCEPT !.pc = "feed", !.pulse = IdleWriter.pulse,
                                   !.list = <<>>, !.k = 1]
<1>0. writer \in WriterState
    BY DEF WriterTypeOK
<1>1. CASE writer.k < TotalChunks(writer.list)
    <2>1. TotalChunks(writer.list) \in Nat /\ writer.k \in Nat
        BY <1>0, ChunksAreNumbers DEF WriterState
    <2>2. writer.k + 1 \in ChunkIndices(writer.list)
        BY <1>1, <2>1 DEF ChunkIndices, WriterTypeOK
    <2>3. /\ same \in WriterState
          /\ same.k = writer.k + 1 /\ same.pulse = writer.pulse
          /\ same.list = writer.list /\ same.written = writer.written
        <3>1. writer.k + 1 \in Nat
            BY <2>1
        <3>. QED BY <1>0, <3>1, AdvanceOK
    <2>5. AfterChunk = same
        BY <1>1 DEF AfterChunk
    <2>. QED BY <2>2, <2>3, <2>5 DEF WriterTypeOK
<1>2. CASE ~(writer.k < TotalChunks(writer.list))
    <2>1. next \in WriterState
        BY <1>0, IdleTypes DEF WriterState
    <2>2. /\ next.k = 1 /\ next.pulse = IdleWriter.pulse
          /\ next.list = <<>> /\ next.written = writer.written
        BY <1>0 DEF WriterState
    <2>3. <<>> \in Lists(IdleWriter.pulse) /\ 1 \in ChunkIndices(<<>>)
        BY IdleTypes, ChunkTypes DEF Lists
    <2>4. AfterChunk = next
        BY <1>2 DEF AfterChunk
    <2>. QED BY <2>1, <2>2, <2>3, <2>4
<1>. QED BY <1>1, <1>2

\* The same when the chunk's grouping is noted as written.
LEMMA NotedChunkOK ==
    ASSUME WriterTypeOK, NEW w \in SUBSET Object,
           writer' = [AfterChunk EXCEPT !.written = w]
    PROVE  WriterTypeOK'
<1>. DEFINE a == AfterChunk
<1>1. a \in WriterState /\ a.list \in Lists(a.pulse) /\ a.k \in ChunkIndices(a.list)
    BY AfterChunkOK
<1>. HIDE DEF a
<1>2. writer' = [a EXCEPT !.written = w]
    BY DEF a
<1>3. /\ writer' \in WriterState /\ writer'.list = a.list
      /\ writer'.pulse = a.pulse /\ writer'.k = a.k
    BY <1>1, <1>2 DEF WriterState
<1>. QED BY <1>1, <1>3 DEF WriterTypeOK

\* The chunk in the writer's hands has a known name and known objects.
LEMMA CurrentTypes ==
    ASSUME WriterTypeOK
    PROVE  /\ CurrentName \in Name
           /\ CurrentObjects \in SUBSET Object
           /\ CurrentGrouping \in Object
           /\ CurrentGrouping \in CurrentObjects
<1>1. /\ writer.pulse \in Pulse /\ writer.list \in Lists(writer.pulse)
      /\ writer.k \in ChunkIndices(writer.list)
    BY DEF WriterTypeOK, WriterState
<1>. QED
    BY <1>1, ChunkTypes DEF CurrentName, CurrentObjects, CurrentGrouping, BundleObjects

LEMMA IngestType ==
    ASSUME TypeOK, Ingest
    PROVE  TypeOK'
<1>. USE DEF TypeOK
<1>1. ASSUME NEW yields \in [Pulse -> 0..MaxYields], StartIngestCycle(yields)
      PROVE  TypeOK'
    <2>1. WriterTypeOK'
        <3>1. /\ writer'.list = <<>> /\ writer'.k = 1
              /\ writer'.pulse = IdleWriter.pulse
            BY <1>1, IdleTypes DEF StartIngestCycle, IdleWriter
        <3>2. <<>> \in Lists(IdleWriter.pulse) /\ 1 \in ChunkIndices(<<>>)
            BY IdleTypes, ChunkTypes DEF Lists
        <3>. QED BY <1>1, <3>1, <3>2, IdleTypes DEF StartIngestCycle, WriterTypeOK, WriterState
    <2>. QED BY <1>1, <2>1 DEF StartIngestCycle, diskVars, mainVars, PusherTypeOK
<1>2. ASSUME NEW p \in Pulse, NEW s \in Lists(p), FetchPulse(p, s)
      PROVE  TypeOK'
    <2>1. WriterTypeOK'
        <3>1. s \in Seq(Indicator) /\ 1 \in ChunkIndices(s)
            BY ListsAreSequences, ChunkTypes
        <3>2. writer.remaining[p] - 1 \in 0..MaxYields
            BY <1>2, OutboxAssumption
            DEF FetchPulse, WriterTypeOK, WriterState, OutboxAssumption
        <3>. QED BY <1>2, <3>1, <3>2 DEF FetchPulse, WriterTypeOK, WriterState
    <2>. QED BY <1>2, <2>1 DEF FetchPulse, diskVars, mainVars, PusherTypeOK
<1>3. CASE EndIngestCycle
    <2>1. WriterTypeOK'
        BY <1>3, IdleTypes, ChunkTypes DEF EndIngestCycle, WriterTypeOK, WriterState, Lists
    <2>. QED BY <1>3, <2>1 DEF EndIngestCycle, diskVars, mainVars, PusherTypeOK
<1>4. CASE SkipChunk
    <2>2. WriterTypeOK'
        BY <1>4, AfterChunkOK DEF SkipChunk, WriterTypeOK
    <2>. QED BY <1>4, <2>2 DEF SkipChunk, diskVars, mainVars, PusherTypeOK
<1>5. CASE OpenTempFile
    <2>1. WriterTypeOK'
        BY <1>5 DEF OpenTempFile, WriterTypeOK, WriterState
    <2>. QED BY <1>5, <2>1 DEF OpenTempFile, diskVars, mainVars, PusherTypeOK
<1>6. CASE ReplaceTempFile
    <2>1. AfterChunk.written \union {CurrentGrouping} \in SUBSET Object
        BY AfterChunkOK, CurrentTypes DEF WriterTypeOK, WriterState
    <2>3. WriterTypeOK'
        BY <1>6, <2>1, NotedChunkOK DEF ReplaceTempFile
    <2>4. pending' \in [Name -> FileState]
        BY <1>6, CurrentTypes, IdleTypes DEF ReplaceTempFile
    <2>. QED BY <1>6, <2>3, <2>4 DEF ReplaceTempFile, mainVars, PusherTypeOK
<1>7. CASE WriteFails
    <2>2. WriterTypeOK'
        BY <1>7, AfterChunkOK DEF WriteFails, WriterTypeOK
    <2>. QED BY <1>7, <2>2 DEF WriteFails, diskVars, mainVars, PusherTypeOK
<1>. QED BY <1>1, <1>2, <1>3, <1>4, <1>5, <1>6, <1>7 DEF Ingest

LEMMA PushCycleType ==
    ASSUME TypeOK, StartPushCycle \/ EndPushCycle
    PROVE  TypeOK'
<1>. USE DEF TypeOK
<1>1. CASE StartPushCycle
    <2>1. processed' \in [Name -> FileState]
        BY <1>1, IdleTypes DEF StartPushCycle
    <2>2. PusherTypeOK'
        BY <1>1 DEF StartPushCycle, PusherTypeOK, FilesIn
    <2>3. WriterTypeOK'
        BY <1>1 DEF StartPushCycle, WriterTypeOK
    <2>. QED BY <1>1, <2>1, <2>2, <2>3 DEF StartPushCycle
<1>2. CASE EndPushCycle
    <2>1. PusherTypeOK'
        BY <1>2 DEF EndPushCycle, PusherTypeOK
    <2>2. WriterTypeOK'
        BY <1>2 DEF EndPushCycle, WriterTypeOK
    <2>. QED BY <1>2, <2>1, <2>2 DEF EndPushCycle, diskVars
<1>. QED BY <1>1, <1>2

\* A worker whose record is replaced by a well formed one leaves the pool well
\* formed.
LEMMA WorkerUpdateOK ==
    ASSUME PusherTypeOK, NEW w \in Worker, NEW x \in WorkerState,
           x.pc # "idle" => x.file \in Name,
           worker' = [worker EXCEPT ![w] = x],
           phase' = phase, listed' \subseteq Name, pushedSoFar' \in Nat
    PROVE  PusherTypeOK'
BY DEF PusherTypeOK

\* Moving a file to processed/ keeps both directories well formed.
LEMMA MoveOK ==
    ASSUME TypeOK, NEW n \in Name, MoveToProcessed(n)
    PROVE  pending' \in [Name -> FileState] /\ processed' \in [Name -> FileState]
BY IdleTypes DEF TypeOK, MoveToProcessed

\* A filtered bundle is a part of the bundle.
LEMMA FilterNewPart ==
    ASSUME NEW objs, NEW known
    PROVE  FilterNew(objs, known) \subseteq objs
BY DEF FilterNew

\* What the server stores is a part of the bundle, and so is what is cached of it.
LEMMA StoredPart ==
    ASSUME NEW objs
    PROVE  /\ \A stored \in StoredOnStatus(objs) :
                    stored \subseteq objs /\ AcceptedIds(objs, stored) \subseteq objs
           /\ \A stored \in StoredOnError(objs) : stored \subseteq objs
BY DEF StoredOnStatus, StoredOnError, AcceptedIds

LEMMA WorkerType ==
    ASSUME TypeOK, NEW w \in Worker, WorkerStep(w)
    PROVE  TypeOK'
<1>. USE DEF TypeOK
<1>0. /\ PusherTypeOK /\ worker \in [Worker -> WorkerState]
      /\ worker[w] \in WorkerState
      /\ worker[w].pc # "idle" => worker[w].file \in Name
      /\ listed \subseteq Name /\ pushedSoFar \in Nat
    BY DEF PusherTypeOK
<1>a. IdleWorker \in WorkerState /\ IdleWorker.pc = "idle"
    BY IdleTypes DEF IdleWorker
<1>1. CASE TakeChunk(w)
    <2>1. PICK n \in listed :
            /\ listed' = listed \ {n}
            /\ worker' = [worker EXCEPT ![w] =
                            [IdleWorker EXCEPT !.pc = "read", !.file = n]]
        BY <1>1 DEF TakeChunk
    <2>. DEFINE x == [IdleWorker EXCEPT !.pc = "read", !.file = n]
    <2>2. x \in WorkerState /\ x.file \in Name
        BY <1>0, <1>a DEF WorkerState
    <2>3. PusherTypeOK'
        BY <1>0, <1>1, <2>1, <2>2, WorkerUpdateOK DEF TakeChunk
    <2>. QED BY <1>1, <2>3 DEF TakeChunk, diskVars, WriterTypeOK
<1>2. CASE ReadChunk(w)
    <2>. DEFINE f == pending[worker[w].file]
                loading == [worker[w] EXCEPT
                                !.pc = IF EnablePrevalidation THEN "validate" ELSE "push",
                                !.loaded = f.objects, !.sent = f.objects]
                discarding == [worker[w] EXCEPT !.pc = "discard"]
    <2>1. worker[w].file \in Name /\ f \in FileState /\ f.objects \subseteq Object
        BY <1>0, <1>2 DEF ReadChunk, FileState
    <2>2. loading \in WorkerState /\ loading.file \in Name
        BY <1>0, <2>1 DEF WorkerState
    <2>3. discarding \in WorkerState /\ discarding.file \in Name
        BY <1>0, <2>1 DEF WorkerState
    <2>4. \/ worker' = [worker EXCEPT ![w] = IdleWorker]
          \/ worker' = [worker EXCEPT ![w] = discarding]
          \/ worker' = [worker EXCEPT ![w] = loading]
        BY <1>0, <1>2 DEF ReadChunk, FinishWorker, Goto
    <2>5. PusherTypeOK'
        BY <1>0, <1>a, <1>2, <2>2, <2>3, <2>4, WorkerUpdateOK DEF ReadChunk
    <2>. QED BY <1>2, <2>5 DEF ReadChunk, diskVars, WriterTypeOK
<1>3. CASE DiscardChunk(w)
    <2>1. PusherTypeOK'
        BY <1>0, <1>a, <1>3, WorkerUpdateOK DEF DiscardChunk, FinishWorker
    <2>2. worker[w].file \in Name
        BY <1>0, <1>3 DEF DiscardChunk
    <2>3. pending' \in [Name -> FileState] /\ processed' \in [Name -> FileState]
        BY <1>3, <2>2, MoveOK DEF DiscardChunk, diskVars
    <2>. QED BY <1>3, <2>1, <2>3 DEF DiscardChunk, WriterTypeOK
<1>4. CASE Prevalidate(w)
    <2>1. PICK new \in SUBSET worker[w].loaded :
            worker' = [worker EXCEPT ![w].pc = IF new = {} THEN "move" ELSE "push",
                                     ![w].sent = new]
        BY <1>4, FilterNewPart DEF Prevalidate
    <2>. DEFINE x == [worker[w] EXCEPT !.pc = IF new = {} THEN "move" ELSE "push",
                                       !.sent = new]
    <2>2. x \in WorkerState /\ (x.pc # "idle" => x.file \in Name)
        BY <1>0, <1>4 DEF WorkerState, Prevalidate
    <2>3. worker' = [worker EXCEPT ![w] = x]
        BY <1>0, <2>1
    <2>4. PusherTypeOK'
        BY <1>0, <1>4, <2>2, <2>3, WorkerUpdateOK DEF Prevalidate
    <2>. QED BY <1>4, <2>4 DEF Prevalidate, diskVars, WriterTypeOK
<1>5. CASE PushAccepted(w)
    <2>1. PICK stored \in StoredOnStatus(worker[w].sent) :
            /\ server' = server \union stored
            /\ worker' = [worker EXCEPT
                            ![w].pc = "cache",
                            ![w].accepted = AcceptedIds(worker[w].sent, stored)]
        BY <1>5 DEF PushAccepted
    <2>. DEFINE acc == AcceptedIds(worker[w].sent, stored)
                x == [worker[w] EXCEPT !.pc = "cache", !.accepted = acc]
    <2>2. stored \subseteq Object /\ acc \subseteq Object
        BY <1>0, <2>1, StoredPart DEF WorkerState
    <2>. HIDE DEF acc
    <2>3. x \in WorkerState /\ x.file = worker[w].file
        BY <1>0, <2>2 DEF WorkerState
    <2>4. worker' = [worker EXCEPT ![w] = x]
        BY <1>0, <2>1 DEF acc
    <2>5. PusherTypeOK'
        BY <1>0, <1>5, <2>3, <2>4, WorkerUpdateOK DEF PushAccepted
    <2>. QED BY <1>5, <2>1, <2>2, <2>5 DEF PushAccepted, diskVars, WriterTypeOK
<1>6. CASE PushRetried(w)
    <2>1. server' \subseteq Object
        BY <1>0, <1>6, StoredPart DEF PushRetried, WorkerState
    <2>. DEFINE x == [worker[w] EXCEPT !.attempt = @ + 1]
    <2>2. worker[w].attempt + 1 \in 0..MaxPushRetries
        BY <1>0, <1>6, OutboxAssumption DEF PushRetried, WorkerState, OutboxAssumption
    <2>3. x \in WorkerState /\ x.file = worker[w].file
        BY <1>0, <2>2 DEF WorkerState
    <2>4. worker' = [worker EXCEPT ![w] = x]
        BY <1>0, <1>6 DEF PushRetried
    <2>5. PusherTypeOK'
        BY <1>0, <1>6, <2>3, <2>4, WorkerUpdateOK DEF PushRetried
    <2>. QED BY <1>6, <2>1, <2>5 DEF PushRetried, diskVars, WriterTypeOK
<1>7. CASE PushFailed(w)
    <2>1. server' \subseteq Object
        BY <1>0, <1>7, StoredPart DEF PushFailed, WorkerState
    <2>2. PusherTypeOK'
        BY <1>0, <1>a, <1>7, WorkerUpdateOK DEF PushFailed, FinishWorker
    <2>. QED BY <1>7, <2>1, <2>2 DEF PushFailed, diskVars, WriterTypeOK
<1>8. CASE CacheAccepted(w)
    <2>1. cache' \subseteq Object
        BY <1>0, <1>8 DEF CacheAccepted, WorkerState
    <2>. DEFINE x == [worker[w] EXCEPT !.pc = "move"]
    <2>2. x \in WorkerState /\ x.file \in Name
        BY <1>0, <1>8 DEF WorkerState, CacheAccepted
    <2>3. worker' = [worker EXCEPT ![w] = x]
        BY <1>0, <1>8 DEF CacheAccepted, Goto
    <2>4. PusherTypeOK'
        BY <1>0, <1>8, <2>2, <2>3, WorkerUpdateOK DEF CacheAccepted
    <2>. QED BY <1>8, <2>1, <2>4 DEF CacheAccepted, diskVars, WriterTypeOK
<1>9. CASE MoveChunk(w)
    <2>0. /\ pushedSoFar' \in Nat /\ listed' \subseteq Name /\ phase' = phase
          /\ worker' = [worker EXCEPT ![w] = IdleWorker]
        BY <1>0, <1>9 DEF MoveChunk, FinishWorker
    <2>1. PusherTypeOK'
        BY <1>0, <1>a, <2>0, WorkerUpdateOK
    <2>2. worker[w].file \in Name
        BY <1>0, <1>9 DEF MoveChunk
    <2>3. pending' \in [Name -> FileState] /\ processed' \in [Name -> FileState]
        BY <1>9, <2>2, MoveOK DEF MoveChunk, diskVars
    <2>. QED BY <1>9, <2>1, <2>3 DEF MoveChunk, WriterTypeOK
<1>. QED
    BY <1>1, <1>2, <1>3, <1>4, <1>5, <1>6, <1>7, <1>8, <1>9 DEF WorkerStep

\* --reset removes files and nothing else.
LEMMA ResetType ==
    ASSUME TypeOK, Reset
    PROVE  TypeOK'
<1>. USE DEF TypeOK
<1>0. PusherTypeOK' /\ WriterTypeOK'
    BY DEF Reset, StartReset, RemoveFile, EndResetOfDirectory, mainVars, WriterTypeOK,
           PusherTypeOK
<1>1. CASE StartReset
    BY <1>0, <1>1 DEF StartReset, diskVars, FilesIn
<1>2. ASSUME NEW n \in Name, RemoveFile(n) PROVE TypeOK'
    BY <1>0, <1>2, IdleTypes DEF RemoveFile, diskVars
<1>3. CASE EndResetOfDirectory
    BY <1>0, <1>3 DEF EndResetOfDirectory, diskVars, FilesIn, NoReset
<1>. QED BY <1>1, <1>2, <1>3 DEF Reset

LEMMA EnvironmentType ==
    ASSUME TypeOK, Environment
    PROVE  TypeOK'
<1>. USE DEF TypeOK
<1>1. ASSUME NEW p \in Pulse, ReviseFeed(p)
      PROVE  TypeOK'
    <2>1. PICK s \in Feeds[p] : otx' = [otx EXCEPT ![p] = s]
        BY <1>1 DEF ReviseFeed
    <2>2. otx' \in [Pulse -> Seq(Indicator)] /\ \A q \in Pulse : otx'[q] \in Feeds[q]
        BY <2>1, FeedsAreSequences
    <2>. QED BY <1>1, <2>2 DEF ReviseFeed, diskVars, mainVars, WriterTypeOK, PusherTypeOK
<1>2. CASE CacheExpires
    BY <1>2 DEF CacheExpires, diskVars, mainVars, WriterTypeOK, PusherTypeOK
<1>3. CASE Reset
    BY <1>3, ResetType
<1>4. CASE CrashIngest
    <2>1. WriterTypeOK'
        BY <1>4, IdleTypes, ChunkTypes DEF CrashIngest, WriterTypeOK, WriterState, Lists
    <2>2. crashes' \in 0..MaxCrashes
        BY <1>4, OutboxAssumption DEF CrashIngest, OutboxAssumption
    <2>. QED BY <1>4, <2>1, <2>2 DEF CrashIngest, diskVars, mainVars, PusherTypeOK
<1>5. CASE CrashMain
    <2>1. PusherTypeOK'
        BY <1>5, IdleTypes DEF CrashMain, PusherTypeOK, IdleWorker
    <2>2. crashes' \in 0..MaxCrashes
        BY <1>5, OutboxAssumption DEF CrashMain, OutboxAssumption
    <2>. QED BY <1>5, <2>1, <2>2 DEF CrashMain, diskVars, WriterTypeOK
<1>. QED BY <1>1, <1>2, <1>3, <1>4, <1>5 DEF Environment

LEMMA StutterType ==
    ASSUME TypeOK, UNCHANGED vars
    PROVE  TypeOK'
BY DEF TypeOK, vars, WriterTypeOK, PusherTypeOK

\* Every variable of the pipeline keeps to its type, whatever the feeds, the
\* number of workers, the cap and the numbers of retries and crashes: no retry
\* goes beyond max_push_retries, the writer never points outside the chunks of
\* its pulse, and a worker that runs has a file.
THEOREM TypeCorrect == Spec => []TypeOK
<1>1. TypeOK /\ [Next]_vars => TypeOK'
    BY IngestType, PushCycleType, WorkerType, EnvironmentType, StutterType DEF Next
<1>. QED BY <1>1, TypeInit, PTL DEF Spec

(***************************************************************************)
(* What the steps leave alone                                              *)
(***************************************************************************)
LEMMA IngestFrame ==
    ASSUME Ingest
    PROVE  /\ UNCHANGED <<server, cache, processed, mainVars>>
           /\ \/ UNCHANGED pending
              \/ pending' = [pending EXCEPT ![CurrentName] = ChunkFile(CurrentObjects)]
BY DEF Ingest, StartIngestCycle, FetchPulse, EndIngestCycle, SkipChunk, OpenTempFile,
       ReplaceTempFile, WriteFails, diskVars

LEMMA EnvironmentFrame ==
    ASSUME TypeOK, Environment
    PROVE  /\ UNCHANGED server
           /\ cache' \in {cache, {}}
           /\ \A n \in Name : /\ pending'[n] \in {pending[n], NoFile}
                              /\ processed'[n] \in {processed[n], NoFile}
           /\ \A w \in Worker : worker'[w] \in {worker[w], IdleWorker}
           /\ ~ResetAllowed => UNCHANGED diskVars
           /\ \/ UNCHANGED <<listed, worker>>
              \/ listed' = {} /\ worker' = [w \in Worker |-> IdleWorker]
BY DEF TypeOK, Environment, ReviseFeed, CacheExpires, Reset, StartReset, RemoveFile,
       EndResetOfDirectory, CrashIngest, CrashMain, diskVars, mainVars

(***************************************************************************)
(* CacheSound: the ids a worker is about to cache are on the server.       *)
(***************************************************************************)
CacheInv ==
    /\ CacheSound
    /\ \A w \in Worker : worker[w].pc = "cache" => worker[w].accepted \subseteq server

LEMMA CacheInvWorker ==
    ASSUME AtomicServer \/ StatusListsFailures,
           TypeOK, CacheInv, NEW w \in Worker, WorkerStep(w)
    PROVE  CacheInv'
<1>. USE DEF CacheInv, CacheSound
<1>0. worker \in [Worker -> WorkerState]
    BY DEF TypeOK, PusherTypeOK
<1>a. IdleWorker.pc = "idle"
    BY DEF IdleWorker
<1>1. CASE TakeChunk(w)
    BY <1>0, <1>1 DEF TakeChunk, IdleWorker
<1>2. CASE ReadChunk(w)
    BY <1>0, <1>a, <1>2 DEF ReadChunk, FinishWorker, Goto, WorkerState
<1>3. CASE DiscardChunk(w)
    BY <1>0, <1>a, <1>3 DEF DiscardChunk, FinishWorker
<1>4. CASE Prevalidate(w)
    BY <1>0, <1>4 DEF Prevalidate, WorkerState
<1>5. CASE PushAccepted(w)
    <2>1. PICK stored \in StoredOnStatus(worker[w].sent) :
            /\ server' = server \union stored
            /\ worker' = [worker EXCEPT
                            ![w].pc = "cache",
                            ![w].accepted = AcceptedIds(worker[w].sent, stored)]
        BY <1>5 DEF PushAccepted
    <2>2. AcceptedIds(worker[w].sent, stored) \subseteq stored
        BY <2>1 DEF AcceptedIds, StoredOnStatus
    <2>3. \A v \in Worker : v # w => worker'[v] = worker[v]
        BY <1>0, <2>1
    <2>4. worker'[w].accepted = AcceptedIds(worker[w].sent, stored)
        BY <1>0, <2>1 DEF WorkerState
    <2>. QED BY <1>5, <2>1, <2>2, <2>3, <2>4 DEF PushAccepted
<1>6. CASE PushRetried(w)
    <2>1. server \subseteq server' /\ cache' = cache
        BY <1>6 DEF PushRetried
    <2>2. \A v \in Worker : worker'[v].pc = worker[v].pc
                            /\ worker'[v].accepted = worker[v].accepted
        BY <1>0, <1>6 DEF PushRetried, WorkerState
    <2>. QED BY <2>1, <2>2
<1>7. CASE PushFailed(w)
    <2>1. server \subseteq server' /\ cache' = cache
        BY <1>7 DEF PushFailed
    <2>. QED BY <1>0, <1>a, <1>7, <2>1 DEF PushFailed, FinishWorker
<1>8. CASE CacheAccepted(w)
    <2>1. cache' \subseteq server /\ server' = server
        BY <1>8 DEF CacheAccepted
    <2>2. \A v \in Worker : worker'[v].pc = "cache" => worker'[v] = worker[v]
        BY <1>0, <1>8 DEF CacheAccepted, Goto, WorkerState
    <2>. QED BY <2>1, <2>2
<1>9. CASE MoveChunk(w)
    BY <1>0, <1>a, <1>9 DEF MoveChunk, FinishWorker
<1>. QED
    BY <1>1, <1>2, <1>3, <1>4, <1>5, <1>6, <1>7, <1>8, <1>9 DEF WorkerStep

LEMMA CacheInvStep ==
    ASSUME AtomicServer \/ StatusListsFailures, TypeOK, CacheInv, [Next]_vars
    PROVE  CacheInv'
<1>1. CASE Ingest
    BY <1>1, IngestFrame DEF CacheInv, CacheSound, mainVars
<1>2. CASE StartPushCycle
    BY <1>2 DEF StartPushCycle, CacheInv, CacheSound
<1>3. CASE EndPushCycle
    BY <1>3 DEF EndPushCycle, CacheInv, CacheSound
<1>4. CASE \E w \in Worker : WorkerStep(w)
    BY <1>4, CacheInvWorker
<1>5. CASE Environment
    BY <1>5, EnvironmentFrame DEF CacheInv, CacheSound, IdleWorker
<1>6. CASE UNCHANGED vars
    BY <1>6 DEF vars, CacheInv, CacheSound
<1>. QED BY <1>1, <1>2, <1>3, <1>4, <1>5, <1>6 DEF Next

LEMMA CacheInvInit == Init => CacheInv
BY DEF Init, CacheInv, CacheSound, IdleWorker

LEMMA CacheInvAlways ==
    ASSUME AtomicServer \/ StatusListsFailures
    PROVE  Spec => []CacheInv
<1>1. TypeOK /\ CacheInv /\ [Next]_vars => CacheInv'
    BY CacheInvStep
<1>. QED BY <1>1, CacheInvInit, TypeCorrect, PTL DEF Spec

\* If the server takes a bundle whole or its Status lists what failed, the Redis
\* set never claims an object the collection does not hold: concurrent workers,
\* retries whose first attempt was stored, crashes, an expired or unreachable
\* Redis and operators' resets notwithstanding.
THEOREM CacheIsSound ==
    ASSUME AtomicServer \/ StatusListsFailures
    PROVE  Spec => []CacheSound
<1>1. CacheInv => CacheSound
    BY DEF CacheInv
<1>. QED BY <1>1, CacheInvAlways, PTL

-----------------------------------------------------------------------------
(***************************************************************************)
(* From here on, when the server takes a bundle whole or not at all: what  *)
(* the collection holds is consistent, and what is filed as processed has  *)
(* been delivered.                                                         *)
(***************************************************************************)
(***************************************************************************)
(* Contents of chunk files                                                 *)
(***************************************************************************)

\* The file n may hold the bundle objs: some chunk is written so.
IsContent(n, objs) ==
    \E p \in Pulse : \E s \in Lists(p) : \E k \in ChunkIndices(s) :
        n = FileName(p, s, k) /\ objs = BundleObjects(p, s, k)

\* A bundle is closed: it holds the indicators its grouping refers to, and the
\* first chunk's the identity.
LEMMA ContentClosed ==
    ASSUME NEW n, NEW objs, IsContent(n, objs),
           NEW o \in objs, IsGrouping(o)
    PROVE  IndicatorRefs(o) \subseteq objs /\ (o.idx = 1 => Identity \in objs)
<1>1. PICK p \in Pulse : \E s \in Lists(p) : \E k \in ChunkIndices(s) :
            objs = BundleObjects(p, s, k)
    BY DEF IsContent
<1>a. PICK s \in Lists(p) : \E k \in ChunkIndices(s) : objs = BundleObjects(p, s, k)
    BY <1>1
<1>b. PICK k \in ChunkIndices(s) : objs = BundleObjects(p, s, k)
    BY <1>a
<1>2. o = Grouping(p, k, TotalChunks(s), ChunkValues(s, k))
    BY <1>b DEF BundleObjects, IsGrouping, Identity, IndicatorObject
<1>3. o.pulse = p /\ o.values = ChunkValues(s, k) /\ o.idx = k
    BY <1>2 DEF Grouping
<1>. QED BY <1>b, <1>3 DEF IndicatorRefs, BundleObjects

\* What the writer puts into pending/ is such a bundle.
LEMMA CurrentIsContent ==
    ASSUME TypeOK
    PROVE  IsContent(CurrentName, CurrentObjects)
BY DEF TypeOK, WriterTypeOK, WriterState, IsContent, CurrentName, CurrentObjects

(***************************************************************************)
(* The invariant                                                           *)
(***************************************************************************)
Busy == {"validate", "push", "cache", "move"}

\* Every file a listing or a worker can meet holds some chunk's bundle.
ContentInv ==
    /\ \A n \in Name : pending[n].kind = "bundle" => IsContent(n, pending[n].objects)
    /\ \A w \in Worker :
        worker[w].pc \in Busy => IsContent(worker[w].file, worker[w].loaded)

\* What a worker does not send is on the server already; once it has been told
\* of success, or has had nothing to send, all it loaded is.
PushInv ==
    \A w \in Worker :
        /\ worker[w].pc = "push" => /\ worker[w].sent \subseteq worker[w].loaded
                                    /\ worker[w].loaded \ worker[w].sent \subseteq server
        /\ worker[w].pc \in {"cache", "move"} => worker[w].loaded \subseteq server

LEMMA ContentInit == Init => ContentInv /\ PushInv
BY DEF Init, ContentInv, PushInv, Busy, IdleWorker, NoFile, CorruptFile

LEMMA ContentPending ==
    ASSUME TypeOK, ContentInv, Next, NEW n \in Name, pending'[n].kind = "bundle"
    PROVE  IsContent(n, pending'[n].objects)
<1>0. NoFile.kind = "none"
    BY DEF NoFile
<1>1. CASE Ingest
    <2>1. CASE UNCHANGED pending
        BY <2>1 DEF ContentInv
    <2>2. CASE pending' = [pending EXCEPT ![CurrentName] = ChunkFile(CurrentObjects)]
        <3>1. pending'[n] = IF n = CurrentName THEN ChunkFile(CurrentObjects)
                                               ELSE pending[n]
            BY <2>2 DEF TypeOK
        <3>2. ChunkFile(CurrentObjects).objects = CurrentObjects
            BY DEF ChunkFile
        <3>. QED BY <3>1, <3>2, CurrentIsContent DEF ContentInv
    <2>. QED BY <1>1, <2>1, <2>2, IngestFrame
<1>2. CASE StartPushCycle \/ EndPushCycle
    BY <1>2 DEF StartPushCycle, EndPushCycle, diskVars, ContentInv
<1>3. ASSUME NEW w \in Worker, WorkerStep(w)
      PROVE  pending'[n] \in {pending[n], NoFile}
    BY <1>3 DEF TypeOK, WorkerStep, TakeChunk, ReadChunk, DiscardChunk, Prevalidate,
                PushAccepted, PushRetried, PushFailed, CacheAccepted, MoveChunk,
                MoveToProcessed, diskVars
<1>4. CASE Environment
    BY <1>0, <1>4, EnvironmentFrame DEF ContentInv
<1>. QED BY <1>0, <1>1, <1>2, <1>3, <1>4 DEF Next, ContentInv

\* Away from a worker's own steps its record is kept or reset.
LEMMA WorkerKept ==
    ASSUME TypeOK, Next, NEW v \in Worker, ~WorkerStep(v)
    PROVE  worker'[v] \in {worker[v], IdleWorker} /\ server \subseteq server'
<1>1. CASE Ingest
    BY <1>1, IngestFrame DEF mainVars
<1>2. CASE StartPushCycle \/ EndPushCycle
    BY <1>2 DEF StartPushCycle, EndPushCycle
<1>3. ASSUME NEW w \in Worker, WorkerStep(w)
      PROVE  worker'[v] = worker[v] /\ server \subseteq server'
    <2>1. w # v
        BY <1>3
    <2>2. worker \in [Worker -> WorkerState]
        BY DEF TypeOK, PusherTypeOK
    <2>. QED BY <1>3, <2>1, <2>2
             DEF WorkerStep, TakeChunk, ReadChunk, DiscardChunk, Prevalidate,
                PushAccepted, PushRetried, PushFailed, CacheAccepted, MoveChunk,
                FinishWorker, Goto
<1>4. CASE Environment
    BY <1>4, EnvironmentFrame
<1>. QED BY <1>1, <1>2, <1>3, <1>4 DEF Next

\* A worker's own step keeps the two invariants for that worker.
LEMMA ContentWorker ==
    ASSUME AtomicServer, TypeOK, CacheSound, ContentInv, PushInv,
           NEW w \in Worker, WorkerStep(w)
    PROVE  /\ worker'[w].pc \in Busy => IsContent(worker'[w].file, worker'[w].loaded)
           /\ worker'[w].pc = "push" =>
                /\ worker'[w].sent \subseteq worker'[w].loaded
                /\ worker'[w].loaded \ worker'[w].sent \subseteq server'
           /\ worker'[w].pc \in {"cache", "move"} => worker'[w].loaded \subseteq server'
<1>. USE DEF Busy
<1>0. worker \in [Worker -> WorkerState] /\ worker[w] \in WorkerState
    BY DEF TypeOK, PusherTypeOK
<1>a. IdleWorker.pc = "idle"
    BY DEF IdleWorker
<1>1. CASE TakeChunk(w)
    <2>1. worker'[w].pc = "read"
        BY <1>0, <1>1 DEF TakeChunk, IdleWorker
    <2>. QED BY <2>1
<1>2. CASE ReadChunk(w)
    <2>1. CASE worker'[w].pc \in {"idle", "discard"}
        BY <2>1
    <2>2. CASE worker'[w].pc \notin {"idle", "discard"}
        <3>1. /\ pending[worker[w].file].kind = "bundle"
              /\ worker'[w].file = worker[w].file
              /\ worker'[w].loaded = pending[worker[w].file].objects
              /\ worker'[w].sent = worker'[w].loaded
              /\ worker'[w].pc \in {"validate", "push"}
            BY <1>0, <1>a, <1>2, <2>2 DEF ReadChunk, FinishWorker, Goto, WorkerState
        <3>2. worker[w].file \in Name
            BY <1>2 DEF ReadChunk, TypeOK, PusherTypeOK
        <3>. QED BY <3>1, <3>2 DEF ContentInv
    <2>. QED BY <2>1, <2>2
<1>3. CASE DiscardChunk(w)
    BY <1>0, <1>a, <1>3 DEF DiscardChunk, FinishWorker
<1>4. CASE Prevalidate(w)
    <2>1. PICK known \in SUBSET cache :
            LET new == FilterNew(worker[w].loaded, known)
            IN  worker' = [worker EXCEPT ![w].pc = IF new = {} THEN "move" ELSE "push",
                                         ![w].sent = new]
        BY <1>4 DEF Prevalidate
    <2>. DEFINE new == FilterNew(worker[w].loaded, known)
    <2>2. new \subseteq worker[w].loaded /\ worker[w].loaded \ new \subseteq server
        BY <2>1 DEF FilterNew, CacheSound
    <2>3. /\ worker'[w].file = worker[w].file
          /\ worker'[w].loaded = worker[w].loaded
          /\ worker'[w].sent = new
          /\ worker'[w].pc = IF new = {} THEN "move" ELSE "push"
        BY <1>0, <2>1 DEF WorkerState
    <2>4. server' = server /\ IsContent(worker[w].file, worker[w].loaded)
        BY <1>4 DEF Prevalidate, ContentInv
    <2>. HIDE DEF new
    <2>. QED BY <2>2, <2>3, <2>4
<1>5. CASE PushAccepted(w)
    <2>1. server' = server \union worker[w].sent
        BY <1>5 DEF PushAccepted, StoredOnStatus
    <2>2. /\ worker'[w].file = worker[w].file
          /\ worker'[w].loaded = worker[w].loaded
          /\ worker'[w].pc = "cache"
        BY <1>0, <1>5 DEF PushAccepted, WorkerState
    <2>3. IsContent(worker[w].file, worker[w].loaded)
        BY <1>5 DEF PushAccepted, ContentInv
    <2>4. worker[w].loaded \ worker[w].sent \subseteq server
        BY <1>5 DEF PushAccepted, PushInv
    <2>. QED BY <2>1, <2>2, <2>3, <2>4
<1>6. CASE PushRetried(w)
    <2>1. server \subseteq server' /\ worker[w].pc = "push"
        BY <1>6 DEF PushRetried
    <2>2. /\ worker'[w].file = worker[w].file
          /\ worker'[w].loaded = worker[w].loaded
          /\ worker'[w].sent = worker[w].sent
          /\ worker'[w].pc = "push"
        BY <1>0, <1>6 DEF PushRetried, WorkerState
    <2>. QED BY <2>1, <2>2 DEF ContentInv, PushInv
<1>7. CASE PushFailed(w)
    BY <1>0, <1>a, <1>7 DEF PushFailed, FinishWorker
<1>8. CASE CacheAccepted(w)
    <2>1. server' = server /\ worker[w].pc = "cache"
        BY <1>8 DEF CacheAccepted
    <2>2. /\ worker'[w].file = worker[w].file
          /\ worker'[w].loaded = worker[w].loaded
          /\ worker'[w].pc = "move"
        BY <1>0, <1>8 DEF CacheAccepted, Goto, WorkerState
    <2>. QED BY <2>1, <2>2 DEF ContentInv, PushInv
<1>9. CASE MoveChunk(w)
    BY <1>0, <1>a, <1>9 DEF MoveChunk, FinishWorker
<1>. QED
    BY <1>1, <1>2, <1>3, <1>4, <1>5, <1>6, <1>7, <1>8, <1>9 DEF WorkerStep

LEMMA ContentStep ==
    ASSUME AtomicServer, TypeOK, CacheSound, ContentInv, PushInv, [Next]_vars
    PROVE  ContentInv' /\ PushInv'
<1>1. CASE Next
    <2>1. ASSUME NEW v \in Worker
          PROVE  /\ worker'[v].pc \in Busy => IsContent(worker'[v].file, worker'[v].loaded)
                 /\ worker'[v].pc = "push" =>
                        /\ worker'[v].sent \subseteq worker'[v].loaded
                        /\ worker'[v].loaded \ worker'[v].sent \subseteq server'
                 /\ worker'[v].pc \in {"cache", "move"} =>
                        worker'[v].loaded \subseteq server'
        <3>1. CASE WorkerStep(v)
            BY <3>1, ContentWorker
        <3>2. CASE ~WorkerStep(v)
            <4>1. server \subseteq server' /\ worker'[v] \in {worker[v], IdleWorker}
                BY <1>1, <3>2, WorkerKept
            <4>2. CASE worker'[v] = worker[v]
                BY <4>1, <4>2 DEF ContentInv, PushInv
            <4>3. CASE worker'[v] = IdleWorker
                BY <4>3 DEF IdleWorker, Busy
            <4>. QED BY <4>1, <4>2, <4>3
        <3>. QED BY <3>1, <3>2
    <2>. QED BY <1>1, <2>1, ContentPending DEF ContentInv, PushInv
<1>2. CASE UNCHANGED vars
    BY <1>2 DEF vars, ContentInv, PushInv
<1>. QED BY <1>1, <1>2

LEMMA ContentAlways ==
    ASSUME AtomicServer
    PROVE  Spec => [](ContentInv /\ PushInv)
<1>1. CacheInv => CacheSound
    BY DEF CacheInv
<1>2. TypeOK /\ CacheInv /\ ContentInv /\ PushInv /\ [Next]_vars
        => ContentInv' /\ PushInv'
    BY <1>1, ContentStep
<1>3. Spec => []CacheInv
    BY CacheInvAlways
<1>. QED BY <1>2, <1>3, ContentInit, TypeCorrect, PTL DEF Spec

(***************************************************************************)
(* GroupingComplete                                                        *)
(***************************************************************************)

\* What reaches the server in a step is what a worker in "push" sends.
LEMMA ServerStep ==
    ASSUME AtomicServer, TypeOK, [Next]_vars
    PROVE  \/ server' = server
           \/ \E w \in Worker : /\ worker[w].pc = "push"
                                /\ server' = server \union worker[w].sent
<1>1. CASE Ingest \/ Environment
    BY <1>1, IngestFrame, EnvironmentFrame
<1>2. CASE StartPushCycle \/ EndPushCycle \/ UNCHANGED vars
    BY <1>2 DEF StartPushCycle, EndPushCycle, vars
<1>3. ASSUME NEW w \in Worker, WorkerStep(w)
      PROVE  \/ server' = server
             \/ /\ worker[w].pc = "push"
                /\ server' = server \union worker[w].sent
    BY <1>3 DEF WorkerStep, TakeChunk, ReadChunk, DiscardChunk, Prevalidate,
                PushAccepted, PushRetried, PushFailed, CacheAccepted, MoveChunk,
                StoredOnStatus, StoredOnError
<1>. QED BY <1>1, <1>2, <1>3 DEF Next

\* If the server takes a bundle whole or not at all, a grouping in the collection
\* never refers to an indicator that is not there, nor a first chunk's grouping to
\* an identity that is not, whichever part of a bundle pre-validation held back
\* and whichever worker's answer came first.
THEOREM GroupingsAreComplete ==
    ASSUME AtomicServer
    PROVE  Spec => []GroupingComplete
<1>1. Init => GroupingComplete
    BY DEF Init, GroupingComplete
<1>2. ASSUME TypeOK, ContentInv, PushInv, GroupingComplete, [Next]_vars
      PROVE  GroupingComplete'
    <2>1. CASE server' = server
        BY <1>2, <2>1 DEF GroupingComplete
    <2>2. ASSUME NEW w \in Worker, worker[w].pc = "push",
                 server' = server \union worker[w].sent
          PROVE  GroupingComplete'
        <3>1. /\ worker[w].sent \subseteq worker[w].loaded
              /\ worker[w].loaded \subseteq server'
              /\ IsContent(worker[w].file, worker[w].loaded)
            BY <1>2, <2>2 DEF PushInv, ContentInv, Busy
        <3>2. \A o \in worker[w].sent : IsGrouping(o) =>
                    /\ IndicatorRefs(o) \subseteq server'
                    /\ o.idx = 1 => Identity \in server'
            BY <3>1, ContentClosed
        <3>3. \A o \in server : IsGrouping(o) =>
                    /\ IndicatorRefs(o) \subseteq server'
                    /\ o.idx = 1 => Identity \in server'
            BY <1>2, <2>2 DEF GroupingComplete
        <3>. QED BY <2>2, <3>2, <3>3 DEF GroupingComplete
    <2>. QED BY <1>2, <2>1, <2>2, ServerStep
<1>3. Spec => [](ContentInv /\ PushInv)
    BY ContentAlways
<1>. QED BY <1>1, <1>2, <1>3, TypeCorrect, PTL DEF Spec

(***************************************************************************)
(* ProcessedDelivered                                                      *)
(***************************************************************************)

\* When names determine bundles, a file has one possible content.
LEMMA ContentUnique ==
    ASSUME NameDeterminesBundle,
           NEW n, NEW o1, NEW o2, IsContent(n, o1), IsContent(n, o2)
    PROVE  o1 = o2
<1>1. PICK p \in Pulse : \E s \in Lists(p) : \E k \in ChunkIndices(s) :
            n = FileName(p, s, k) /\ o1 = BundleObjects(p, s, k)
    BY DEF IsContent
<1>2. PICK s \in Lists(p) : \E k \in ChunkIndices(s) :
            n = FileName(p, s, k) /\ o1 = BundleObjects(p, s, k)
    BY <1>1
<1>3. PICK k \in ChunkIndices(s) : n = FileName(p, s, k) /\ o1 = BundleObjects(p, s, k)
    BY <1>2
<1>4. PICK q \in Pulse : \E t \in Lists(q) : \E j \in ChunkIndices(t) :
            n = FileName(q, t, j) /\ o2 = BundleObjects(q, t, j)
    BY DEF IsContent
<1>5. PICK t \in Lists(q) : \E j \in ChunkIndices(t) :
            n = FileName(q, t, j) /\ o2 = BundleObjects(q, t, j)
    BY <1>4
<1>6. PICK j \in ChunkIndices(t) : n = FileName(q, t, j) /\ o2 = BundleObjects(q, t, j)
    BY <1>5
<1>7. n.pulse = p /\ n.pulse = q /\ n.idx = k /\ n.idx = j
    BY <1>3, <1>6 DEF FileName
<1>8. p = q /\ k = j
    BY <1>7
<1>9. FileName(p, s, k) = FileName(p, t, k)
    BY <1>3, <1>6, <1>8
<1>. QED BY <1>3, <1>6, <1>8, <1>9 DEF NameDeterminesBundle

\* A bundle goes to one file only: its grouping names the chunk.
LEMMA NameUnique ==
    ASSUME NEW n, NEW m, NEW o, IsContent(n, o), IsContent(m, o)
    PROVE  n = m
<1>1. PICK p \in Pulse : \E s \in Lists(p) : \E k \in ChunkIndices(s) :
            n = FileName(p, s, k) /\ o = BundleObjects(p, s, k)
    BY DEF IsContent
<1>2. PICK s \in Lists(p) : \E k \in ChunkIndices(s) :
            n = FileName(p, s, k) /\ o = BundleObjects(p, s, k)
    BY <1>1
<1>3. PICK k \in ChunkIndices(s) : n = FileName(p, s, k) /\ o = BundleObjects(p, s, k)
    BY <1>2
<1>4. PICK q \in Pulse : \E t \in Lists(q) : \E j \in ChunkIndices(t) :
            m = FileName(q, t, j) /\ o = BundleObjects(q, t, j)
    BY DEF IsContent
<1>5. PICK t \in Lists(q) : \E j \in ChunkIndices(t) :
            m = FileName(q, t, j) /\ o = BundleObjects(q, t, j)
    BY <1>4
<1>6. PICK j \in ChunkIndices(t) : m = FileName(q, t, j) /\ o = BundleObjects(q, t, j)
    BY <1>5
<1>. DEFINE g == Grouping(p, k, TotalChunks(s), ChunkValues(s, k))
            h == Grouping(q, j, TotalChunks(t), ChunkValues(t, j))
<1>7. g = h
    <2>1. g \in o /\ IsGrouping(g)
        BY <1>3 DEF BundleObjects, Grouping, IsGrouping
    <2>2. \A x \in o : IsGrouping(x) => x = h
        BY <1>6 DEF BundleObjects, IsGrouping, Identity, IndicatorObject
    <2>. QED BY <2>1, <2>2
<1>8. p = q /\ k = j /\ TotalChunks(s) = TotalChunks(t)
    <2>1. g.pulse = p /\ g.idx = k /\ g.total = TotalChunks(s)
        BY DEF Grouping
    <2>2. h.pulse = q /\ h.idx = j /\ h.total = TotalChunks(t)
        BY DEF Grouping
    <2>. HIDE DEF g, h
    <2>. QED BY <1>7, <2>1, <2>2
<1>. QED BY <1>3, <1>6, <1>8 DEF FileName

\* No file is unreadable, and no worker has met one.
ReadableInv ==
    /\ \A n \in Name : pending[n].kind # "corrupt"
    /\ \A w \in Worker : worker[w].pc # "discard"

LEMMA ReadableStep ==
    ASSUME TypeOK, ReadableInv, [Next]_vars
    PROVE  ReadableInv'
<1>0. worker \in [Worker -> WorkerState] /\ pending \in [Name -> FileState]
    BY DEF TypeOK, PusherTypeOK
<1>a. /\ IdleWorker.pc = "idle" /\ NoFile.kind = "none"
      /\ \A objs : ChunkFile(objs).kind = "bundle"
    BY DEF IdleWorker, NoFile, ChunkFile
<1>1. CASE Ingest
    <2>1. pending' \in {pending, [pending EXCEPT ![CurrentName] = ChunkFile(CurrentObjects)]}
          /\ worker' = worker
        BY <1>1, IngestFrame DEF mainVars
    <2>. QED BY <1>0, <1>a, <2>1 DEF ReadableInv
<1>2. CASE StartPushCycle \/ EndPushCycle \/ UNCHANGED vars
    BY <1>2 DEF StartPushCycle, EndPushCycle, vars, diskVars, ReadableInv
<1>3. ASSUME NEW w \in Worker, WorkerStep(w)
      PROVE  ReadableInv'
    <2>1. \A v \in Worker : v # w => worker'[v] = worker[v]
        BY <1>0, <1>3 DEF WorkerStep, TakeChunk, ReadChunk, DiscardChunk, Prevalidate,
                PushAccepted, PushRetried, PushFailed, CacheAccepted, MoveChunk,
                FinishWorker, Goto
    <2>2. CASE TakeChunk(w)
        BY <1>0, <2>1, <2>2 DEF TakeChunk, diskVars, ReadableInv, IdleWorker
    <2>3. CASE ReadChunk(w)
        <3>1. worker[w].file \in Name
            BY <2>3 DEF ReadChunk, TypeOK, PusherTypeOK
        <3>2. worker'[w].pc # "discard"
            BY <1>0, <1>a, <2>3, <3>1
            DEF ReadChunk, ReadableInv, FinishWorker, WorkerState
        <3>. QED BY <2>1, <2>3, <3>2 DEF ReadChunk, diskVars, ReadableInv
    <2>4. CASE DiscardChunk(w)
        BY <2>4 DEF DiscardChunk, ReadableInv
    <2>5. CASE Prevalidate(w)
        <3>1. worker'[w].pc \in {"move", "push"}
            BY <1>0, <2>5 DEF Prevalidate, WorkerState
        <3>. QED BY <2>1, <2>5, <3>1 DEF Prevalidate, diskVars, ReadableInv
    <2>6. CASE PushAccepted(w)
        <3>1. worker'[w].pc = "cache"
            BY <1>0, <2>6 DEF PushAccepted, WorkerState
        <3>. QED BY <2>1, <2>6, <3>1 DEF PushAccepted, diskVars, ReadableInv
    <2>7. CASE PushRetried(w)
        <3>1. worker'[w].pc = worker[w].pc
            BY <1>0, <2>7 DEF PushRetried, WorkerState
        <3>. QED BY <2>1, <2>7, <3>1 DEF PushRetried, diskVars, ReadableInv
    <2>8. CASE PushFailed(w)
        BY <1>0, <1>a, <2>1, <2>8 DEF PushFailed, FinishWorker, diskVars, ReadableInv
    <2>9. CASE CacheAccepted(w)
        <3>1. worker'[w].pc = "move"
            BY <1>0, <2>9 DEF CacheAccepted, Goto, WorkerState
        <3>. QED BY <2>1, <2>9, <3>1 DEF CacheAccepted, diskVars, ReadableInv
    <2>10. CASE MoveChunk(w)
        BY <1>0, <1>a, <2>1, <2>10
        DEF MoveChunk, MoveToProcessed, FinishWorker, diskVars, ReadableInv
    <2>. QED
        BY <1>3, <2>2, <2>3, <2>4, <2>5, <2>6, <2>7, <2>8, <2>9, <2>10 DEF WorkerStep
<1>4. CASE Environment
    BY <1>a, <1>4, EnvironmentFrame DEF ReadableInv
<1>. QED BY <1>1, <1>2, <1>3, <1>4 DEF Next

\* What is in processed/ after a step was there before, or was moved there just
\* now by a worker that is done with it.
LEMMA ProcessedStep ==
    ASSUME TypeOK, ReadableInv, [Next]_vars, NEW n \in Name
    PROVE  \/ processed'[n] \in {processed[n], NoFile}
           \/ \E w \in Worker : /\ worker[w].pc = "move" /\ worker[w].file = n
                                /\ processed'[n] = pending[n]
<1>1. CASE Ingest
    BY <1>1, IngestFrame
<1>2. CASE StartPushCycle
    BY <1>2 DEF StartPushCycle
<1>3. CASE EndPushCycle \/ UNCHANGED vars
    BY <1>3 DEF EndPushCycle, vars, diskVars
<1>4. ASSUME NEW w \in Worker, WorkerStep(w)
      PROVE  \/ processed'[n] = processed[n]
             \/ /\ worker[w].pc = "move" /\ worker[w].file = n
                /\ processed'[n] = pending[n]
    BY <1>4 DEF WorkerStep, TakeChunk, ReadChunk, DiscardChunk, Prevalidate,
                PushAccepted, PushRetried, PushFailed, CacheAccepted, MoveChunk,
                MoveToProcessed, diskVars, TypeOK, ReadableInv
<1>5. CASE Environment
    BY <1>5, EnvironmentFrame
<1>. QED BY <1>1, <1>2, <1>3, <1>4, <1>5 DEF Next

LEMMA ServerGrows ==
    ASSUME AtomicServer, TypeOK, [Next]_vars
    PROVE  server \subseteq server'
BY ServerStep

\* If the server takes a bundle whole or not at all, if file names determine the
\* bundles they stand for and if pending/ held no unreadable file at the start,
\* then a chunk file is in processed/ only if all of it is on the server, although
\* a worker moves whatever has its file's name at the end of the push.
THEOREM ProcessedIsDelivered ==
    ASSUME AtomicServer, NameDeterminesBundle, InitiallyCorrupt = {}
    PROVE  Spec => []ProcessedDelivered
<1>1. Init => ReadableInv /\ ProcessedDelivered
    BY DEF Init, ReadableInv, ProcessedDelivered, NoFile, IdleWorker
<1>2. ASSUME TypeOK, ReadableInv, ContentInv, PushInv, ProcessedDelivered, [Next]_vars
      PROVE  ProcessedDelivered'
    <2>. SUFFICES ASSUME NEW n \in Name, processed'[n].kind = "bundle"
                  PROVE  processed'[n].objects \subseteq server'
        BY DEF ProcessedDelivered
    <2>1. server \subseteq server'
        BY <1>2, ServerGrows
    <2>2. CASE processed'[n] \in {processed[n], NoFile}
        BY <1>2, <2>1, <2>2 DEF ProcessedDelivered, NoFile
    <2>3. ASSUME NEW w \in Worker, worker[w].pc = "move", worker[w].file = n,
                 processed'[n] = pending[n]
          PROVE  processed'[n].objects \subseteq server'
        <3>1. worker[w].loaded \subseteq server
            BY <1>2, <2>3 DEF PushInv
        <3>2. IsContent(n, worker[w].loaded) /\ IsContent(n, pending[n].objects)
            BY <1>2, <2>3 DEF ContentInv, Busy
        <3>3. worker[w].loaded = pending[n].objects
            BY <3>2, ContentUnique
        <3>. QED BY <2>1, <2>3, <3>1, <3>3
    <2>. QED BY <1>2, <2>2, <2>3, ProcessedStep
<1>3. TypeOK /\ ReadableInv /\ [Next]_vars => ReadableInv'
    BY ReadableStep
<1>4. Spec => [](ContentInv /\ PushInv)
    BY ContentAlways
<1>. QED BY <1>1, <1>2, <1>3, <1>4, TypeCorrect, PTL DEF Spec

\* No version of a pulse replaces or drops an indicator of another: OTX adds new
\* ones at the end of the list.
GrowingFeeds ==
    \A p \in Pulse : \A s, t \in Feeds[p] : Extends(t, s) \/ Extends(s, t)

\* As long as pulses only grow, a chunk's file name stands for one bundle: the
\* numbers of chunks and of objects in the name then tell versions apart.
THEOREM GrowingFeedsKeepNames ==
    ASSUME GrowingFeeds PROVE NameDeterminesBundle
<1>. SUFFICES ASSUME NEW p \in Pulse, NEW s \in Lists(p), NEW t \in Lists(p),
                     NEW k \in ChunkIndices(s) \intersect ChunkIndices(t),
                     FileName(p, s, k) = FileName(p, t, k)
              PROVE  BundleObjects(p, s, k) = BundleObjects(p, t, k)
    BY DEF NameDeterminesBundle
<1>1. s \in Seq(Indicator) /\ t \in Seq(Indicator)
    BY ListsAreSequences
<1>2. \A u \in Seq(Indicator) : Extends(u, <<>>)
    BY DEF Extends
<1>3. Extends(t, s) \/ Extends(s, t)
    BY <1>1, <1>2 DEF GrowingFeeds, Lists
<1>. QED BY <1>1, <1>3, GrowthKeepsNames

\* Hence with pulses that only grow a chunk file in processed/ has been delivered,
\* whatever the interleaving of the writer that replaces pending files with the
\* workers that push and move them.
THEOREM GrowingPulsesAreDelivered ==
    ASSUME AtomicServer, GrowingFeeds, InitiallyCorrupt = {}
    PROVE  Spec => []ProcessedDelivered
BY GrowingFeedsKeepNames, ProcessedIsDelivered

-----------------------------------------------------------------------------
(***************************************************************************)
(* The refinement: the outbox implements at-least-once delivery (module    *)
(* Delivery), with a staged bundle for each chunk file in pending/.        *)
(***************************************************************************)

(***************************************************************************)
(* A file that is listed or in a worker's hands stays in pending/, and is  *)
(* in one worker's hands only.                                             *)
(***************************************************************************)
ExclusiveInv ==
    /\ phase = "sleep" => listed = {} /\ \A w \in Worker : worker[w].pc = "idle"
    /\ \A n \in listed : pending[n].kind = "bundle"
    /\ \A w \in Worker : worker[w].pc # "idle" =>
            /\ worker[w].file \notin listed
            /\ pending[worker[w].file].kind = "bundle"
    /\ \A v, w \in Worker :
            v # w /\ worker[v].pc # "idle" /\ worker[w].pc # "idle"
                => worker[v].file # worker[w].file

LEMMA ExclusiveInit == Init => ExclusiveInv
BY DEF Init, ExclusiveInv, IdleWorker

\* A step in which worker w keeps its file disturbs nothing.
LEMMA ExclusiveSameFile ==
    ASSUME TypeOK, ExclusiveInv, NEW w \in Worker, NEW x,
           worker[w].pc # "idle", x.file = worker[w].file,
           worker' = [worker EXCEPT ![w] = x],
           UNCHANGED <<pending, listed, phase>>
    PROVE  ExclusiveInv'
<1>0. worker \in [Worker -> WorkerState]
    BY DEF TypeOK, PusherTypeOK
<1>1. phase # "sleep"
    BY DEF ExclusiveInv
<1>2. \A v \in Worker : worker'[v].file = worker[v].file
                        /\ (worker'[v].pc # "idle" => worker[v].pc # "idle")
    BY <1>0
<1>. QED BY <1>1, <1>2 DEF ExclusiveInv

\* A step in which worker w lets its file go, which may leave pending/.
LEMMA ExclusiveFinish ==
    ASSUME TypeOK, ExclusiveInv, NEW w \in Worker, worker[w].pc # "idle",
           worker' = [worker EXCEPT ![w] = IdleWorker],
           UNCHANGED <<listed, phase>>,
           \/ UNCHANGED pending
           \/ pending' = [pending EXCEPT ![worker[w].file] = NoFile]
    PROVE  ExclusiveInv'
<1>0. /\ worker \in [Worker -> WorkerState] /\ listed \subseteq Name
      /\ pending \in [Name -> FileState]
      /\ \A v \in Worker : worker[v].pc # "idle" => worker[v].file \in Name
    BY DEF TypeOK, PusherTypeOK
<1>1. phase # "sleep"
    BY DEF ExclusiveInv
<1>2. worker'[w].pc = "idle" /\ \A v \in Worker : v # w => worker'[v] = worker[v]
    BY <1>0 DEF IdleWorker
<1>3. \A n \in Name : n # worker[w].file => pending'[n] = pending[n]
    BY <1>0
<1>. QED BY <1>0, <1>1, <1>2, <1>3 DEF ExclusiveInv

LEMMA ExclusiveWorker ==
    ASSUME TypeOK, ReadableInv, ExclusiveInv, NEW w \in Worker, WorkerStep(w)
    PROVE  ExclusiveInv'
<1>0. worker \in [Worker -> WorkerState] /\ worker[w] \in WorkerState
    BY DEF TypeOK, PusherTypeOK
<1>1. CASE TakeChunk(w)
    <2>1. PICK n \in listed :
            /\ listed' = listed \ {n}
            /\ worker' = [worker EXCEPT ![w] =
                            [IdleWorker EXCEPT !.pc = "read", !.file = n]]
        BY <1>1 DEF TakeChunk
    <2>2. /\ worker'[w].pc # "idle" /\ worker'[w].file = n
          /\ \A v \in Worker : v # w => worker'[v] = worker[v]
        BY <1>0, <2>1 DEF IdleWorker
    <2>3. phase' = "push" /\ pending' = pending /\ worker[w].pc = "idle"
        BY <1>1 DEF TakeChunk, diskVars
    <2>. QED BY <2>1, <2>2, <2>3 DEF ExclusiveInv
<1>2. CASE ReadChunk(w)
    <2>1. worker[w].pc # "idle" /\ UNCHANGED <<pending, listed, phase>>
        BY <1>2 DEF ReadChunk, diskVars
    <2>2. CASE worker' = [worker EXCEPT ![w] = IdleWorker]
        BY <2>1, <2>2, ExclusiveFinish
    <2>3. CASE worker' # [worker EXCEPT ![w] = IdleWorker]
        <3>. DEFINE f == pending[worker[w].file]
                    x == [worker[w] EXCEPT
                            !.pc = IF EnablePrevalidation THEN "validate" ELSE "push",
                            !.loaded = f.objects, !.sent = f.objects]
        <3>1. f.kind = "bundle"
            BY <2>1 DEF ExclusiveInv
        <3>2. worker' = [worker EXCEPT ![w] = x]
            BY <1>0, <1>2, <3>1 DEF ReadChunk
        <3>3. x.file = worker[w].file
            BY <1>0 DEF WorkerState
        <3>. HIDE DEF x
        <3>. QED BY <2>1, <3>2, <3>3, ExclusiveSameFile
    <2>. QED BY <2>2, <2>3
<1>3. CASE DiscardChunk(w)
    BY <1>3 DEF DiscardChunk, ReadableInv
<1>4. CASE Prevalidate(w)
    <2>1. PICK new :
            worker' = [worker EXCEPT ![w].pc = IF new = {} THEN "move" ELSE "push",
                                     ![w].sent = new]
        BY <1>4 DEF Prevalidate
    <2>. DEFINE x == [worker[w] EXCEPT !.pc = IF new = {} THEN "move" ELSE "push",
                                       !.sent = new]
    <2>2. worker' = [worker EXCEPT ![w] = x] /\ x.file = worker[w].file
        BY <1>0, <2>1 DEF WorkerState
    <2>. HIDE DEF x
    <2>. QED BY <1>4, <2>2, ExclusiveSameFile DEF Prevalidate, diskVars
<1>5. CASE PushAccepted(w)
    <2>1. PICK acc : worker' = [worker EXCEPT ![w].pc = "cache", ![w].accepted = acc]
        BY <1>5 DEF PushAccepted
    <2>. DEFINE x == [worker[w] EXCEPT !.pc = "cache", !.accepted = acc]
    <2>2. worker' = [worker EXCEPT ![w] = x] /\ x.file = worker[w].file
        BY <1>0, <2>1 DEF WorkerState
    <2>. HIDE DEF x
    <2>. QED BY <1>5, <2>2, ExclusiveSameFile DEF PushAccepted, diskVars
<1>6. CASE PushRetried(w)
    <2>. DEFINE x == [worker[w] EXCEPT !.attempt = @ + 1]
    <2>2. worker' = [worker EXCEPT ![w] = x] /\ x.file = worker[w].file
        BY <1>0, <1>6 DEF PushRetried, WorkerState
    <2>. HIDE DEF x
    <2>. QED BY <1>6, <2>2, ExclusiveSameFile DEF PushRetried, diskVars
<1>7. CASE PushFailed(w)
    BY <1>7, ExclusiveFinish DEF PushFailed, FinishWorker, diskVars
<1>8. CASE CacheAccepted(w)
    <2>. DEFINE x == [worker[w] EXCEPT !.pc = "move"]
    <2>2. worker' = [worker EXCEPT ![w] = x] /\ x.file = worker[w].file
        BY <1>0, <1>8 DEF CacheAccepted, Goto, WorkerState
    <2>. HIDE DEF x
    <2>. QED BY <1>8, <2>2, ExclusiveSameFile DEF CacheAccepted, diskVars
<1>9. CASE MoveChunk(w)
    BY <1>9, ExclusiveFinish DEF MoveChunk, MoveToProcessed, FinishWorker, diskVars
<1>. QED
    BY <1>1, <1>2, <1>3, <1>4, <1>5, <1>6, <1>7, <1>8, <1>9 DEF WorkerStep

LEMMA ExclusiveStep ==
    ASSUME ~ResetAllowed, TypeOK, ReadableInv, ExclusiveInv, [Next]_vars
    PROVE  ExclusiveInv'
<1>0. /\ pending \in [Name -> FileState] /\ listed \subseteq Name
      /\ \A v \in Worker : worker[v].pc # "idle" => worker[v].file \in Name
    BY DEF TypeOK, PusherTypeOK
<1>1. CASE Ingest
    <2>1. /\ phase' = phase /\ listed' = listed /\ worker' = worker
          /\ pending' \in {pending, [pending EXCEPT ![CurrentName] = ChunkFile(CurrentObjects)]}
        BY <1>1, IngestFrame DEF mainVars
    <2>2. \A n \in Name : pending[n].kind = "bundle" => pending'[n].kind = "bundle"
        BY <1>0, <2>1 DEF ChunkFile
    <2>. QED BY <1>0, <2>1, <2>2 DEF ExclusiveInv
<1>2. CASE StartPushCycle
    <2>1. \A n \in FilesIn(pending) : pending[n].kind = "bundle"
        BY <1>0 DEF FilesIn, ReadableInv, FileState
    <2>2. /\ phase = "sleep" /\ worker' = worker /\ pending' = pending
          /\ listed' \subseteq FilesIn(pending)
          /\ phase' = "sleep" => listed' = {}
        BY <1>2 DEF StartPushCycle
    <2>. QED BY <2>1, <2>2 DEF ExclusiveInv
<1>3. CASE EndPushCycle
    BY <1>3 DEF EndPushCycle, diskVars, ExclusiveInv
<1>4. CASE \E w \in Worker : WorkerStep(w)
    BY <1>4, ExclusiveWorker
<1>5. CASE Environment
    <2>1. CASE UNCHANGED <<phase, listed, worker, pending>>
        BY <2>1 DEF ExclusiveInv
    <2>2. CASE CrashMain
        BY <2>2 DEF CrashMain, ExclusiveInv, IdleWorker
    <2>. QED BY <1>5, <2>1, <2>2 DEF Environment, ReviseFeed, CacheExpires, CrashIngest, diskVars, mainVars
<1>6. CASE UNCHANGED vars
    BY <1>6 DEF vars, ExclusiveInv
<1>. QED BY <1>1, <1>2, <1>3, <1>4, <1>5, <1>6 DEF Next

(***************************************************************************)
(* The steps                                                               *)
(***************************************************************************)

\* A step that leaves pending/ alone leaves the staged bundles alone.
LEMMA StagedKept == UNCHANGED pending => UNCHANGED staged
BY DEF staged

\* Writing a chunk stages its bundle: a file it replaces had the same content.
LEMMA StageStep ==
    ASSUME NameDeterminesBundle, TypeOK, ContentInv, ReplaceTempFile
    PROVE  D!Next
<1>0. pending \in [Name -> FileState] /\ CurrentName \in Name
    BY CurrentTypes DEF TypeOK
<1>1. IsContent(CurrentName, CurrentObjects)
    BY CurrentIsContent
<1>2. CurrentObjects \in Bundles
    BY <1>1 DEF IsContent, Bundles
<1>3. pending[CurrentName].kind = "bundle" => pending[CurrentName].objects = CurrentObjects
    BY <1>0, <1>1, ContentUnique DEF ContentInv
<1>4. /\ pending'[CurrentName] = ChunkFile(CurrentObjects)
      /\ \A n \in Name : n # CurrentName => pending'[n] = pending[n]
    BY <1>0 DEF ReplaceTempFile
<1>5. /\ ChunkFile(CurrentObjects).kind = "bundle"
      /\ ChunkFile(CurrentObjects).objects = CurrentObjects
    BY DEF ChunkFile
<1>6. staged' = staged \union {CurrentObjects}
    BY <1>0, <1>3, <1>4, <1>5 DEF staged
<1>7. server' = server
    BY DEF ReplaceTempFile
<1>. QED BY <1>2, <1>6, <1>7 DEF D!Next, D!Stage

\* The file in a worker's hands is staged with the content the worker loaded.
LEMMA LoadedIsStaged ==
    ASSUME NameDeterminesBundle, TypeOK, ContentInv, ExclusiveInv,
           NEW w \in Worker, worker[w].pc \in Busy
    PROVE  /\ worker[w].file \in Name
           /\ pending[worker[w].file].kind = "bundle"
           /\ pending[worker[w].file].objects = worker[w].loaded
           /\ worker[w].loaded \in staged
<1>1. worker[w].file \in Name /\ pending[worker[w].file].kind = "bundle"
    BY DEF TypeOK, PusherTypeOK, ExclusiveInv, Busy
<1>2. pending[worker[w].file].objects = worker[w].loaded
    BY <1>1, ContentUnique DEF ContentInv
<1>. QED BY <1>1, <1>2 DEF staged

\* A push delivers a part of a staged bundle.
LEMMA DeliverStep ==
    ASSUME AtomicServer, NameDeterminesBundle, TypeOK, ContentInv, PushInv, ExclusiveInv,
           NEW w \in Worker, PushAccepted(w) \/ PushRetried(w) \/ PushFailed(w)
    PROVE  D!Next
<1>1. PICK stored \in SUBSET worker[w].sent : server' = server \union stored
    BY StoredPart DEF PushAccepted, PushRetried, PushFailed
<1>2. worker[w].pc = "push" /\ pending' = pending
    BY DEF PushAccepted, PushRetried, PushFailed, diskVars
<1>3. stored \subseteq worker[w].loaded /\ worker[w].loaded \in staged
    BY <1>2, LoadedIsStaged DEF PushInv, Busy
<1>4. staged' = staged
    BY <1>2, StagedKept
<1>. QED BY <1>1, <1>3, <1>4 DEF D!Next, D!Deliver

\* Moving a chunk away retires a bundle that is all on the server, and no other.
LEMMA RetireStep ==
    ASSUME NameDeterminesBundle, TypeOK, ContentInv, PushInv, ExclusiveInv,
           NEW w \in Worker, MoveChunk(w), ~UNCHANGED pending
    PROVE  D!Next
<1>. DEFINE n == worker[w].file
            b == worker[w].loaded
<1>0. pending \in [Name -> FileState] /\ NoFile.kind = "none"
    BY DEF TypeOK, NoFile
<1>1. n \in Name /\ pending[n].kind = "bundle" /\ pending[n].objects = b /\ b \in staged
    BY LoadedIsStaged DEF MoveChunk, Busy
<1>2. b \subseteq server /\ server' = server
    BY DEF MoveChunk, PushInv
<1>3. pending' = [pending EXCEPT ![n] = NoFile]
    BY DEF MoveChunk, MoveToProcessed, diskVars
<1>4. \A m \in Name : m # n /\ pending[m].kind = "bundle" => pending[m].objects # b
    BY <1>1, NameUnique DEF ContentInv
<1>. HIDE DEF n, b
<1>5. staged' = staged \ {b}
    BY <1>0, <1>1, <1>3, <1>4 DEF staged
<1>. QED BY <1>1, <1>2, <1>5 DEF D!Next, D!Retire

LEMMA RefinementStep ==
    ASSUME AtomicServer, NameDeterminesBundle, ~ResetAllowed,
           TypeOK, ReadableInv, ContentInv, PushInv, ExclusiveInv, [Next]_vars
    PROVE  [D!Next]_(D!vars)
<1>1. CASE UNCHANGED <<pending, server>>
    BY <1>1, StagedKept DEF D!vars
<1>2. CASE ReplaceTempFile
    BY <1>2, StageStep
<1>3. CASE \E w \in Worker : PushAccepted(w) \/ PushRetried(w) \/ PushFailed(w)
    BY <1>3, DeliverStep
<1>4. ASSUME NEW w \in Worker, MoveChunk(w) PROVE [D!Next]_(D!vars)
    <2>1. server' = server
        BY <1>4 DEF MoveChunk
    <2>. QED BY <1>1, <1>4, <2>1, RetireStep
<1>5. \A w \in Worker : ~DiscardChunk(w)
    BY DEF DiscardChunk, ReadableInv
<1>6. CASE Ingest
    BY <1>1, <1>2, <1>6 DEF Ingest, StartIngestCycle, FetchPulse, EndIngestCycle,
                            SkipChunk, OpenTempFile, WriteFails, diskVars
<1>7. CASE StartPushCycle \/ EndPushCycle \/ UNCHANGED vars
    BY <1>1, <1>7 DEF StartPushCycle, EndPushCycle, vars, diskVars
<1>8. CASE \E w \in Worker : WorkerStep(w)
    BY <1>1, <1>3, <1>4, <1>5, <1>8 DEF WorkerStep, TakeChunk, ReadChunk, Prevalidate,
                                        CacheAccepted, diskVars
<1>9. CASE Environment
    BY <1>1, <1>9, EnvironmentFrame DEF diskVars
<1>. QED BY <1>6, <1>7, <1>8, <1>9 DEF Next

\* The outbox implements at-least-once delivery: a chunk's bundle stays staged
\* until all of it is on the server, through failed pushes, retries, rewrites of
\* the same chunk, any order of the listing and crashes of either process.  The
\* assumptions are the cases the counterexample runs are about: a server that
\* takes parts of bundles, names that stand for several bundles, unreadable files
\* and an operator's --reset.
THEOREM OutboxDelivers ==
    ASSUME AtomicServer, NameDeterminesBundle, InitiallyCorrupt = {}, ~ResetAllowed
    PROVE  Spec => DeliverySpec
<1>1. Init => D!Init /\ ReadableInv
    BY DEF Init, D!Init, staged, ReadableInv, NoFile, IdleWorker
<1>2. TypeOK /\ ReadableInv /\ [Next]_vars => ReadableInv'
    BY ReadableStep
<1>3. TypeOK /\ ReadableInv /\ ExclusiveInv /\ [Next]_vars => ExclusiveInv'
    BY ExclusiveStep
<1>4. TypeOK /\ ReadableInv /\ ContentInv /\ PushInv /\ ExclusiveInv /\ [Next]_vars
        => [D!Next]_(D!vars)
    BY RefinementStep
<1>5. Spec => [](ContentInv /\ PushInv)
    BY ContentAlways
<1>. QED
    BY <1>1, <1>2, <1>3, <1>4, <1>5, ExclusiveInit, TypeCorrect, PTL
    DEF Spec, DeliverySpec, D!Spec
=============================================================================
