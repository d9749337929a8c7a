--------------------------- MODULE LegacyPushProofs ---------------------------
(***************************************************************************)
(* The three memories of the single-process otx2taxii, for every feed,     *)
(* pool, chunk size and number of retries, under all faults of the model:  *)
(* what the id set claims is on the server, and so is every pulse that is  *)
(* remembered as pushed.                                                   *)
(***************************************************************************)
EXTENDS LegacyPush, PulseBundlesProofs

(***************************************************************************)
(* Lists, chunks and bundles                                               *)
(***************************************************************************)
LEMMA ListsAreSequences ==
    ASSUME NEW p \in Pulse, NEW s \in Lists(p) PROVE s \in Seq(Indicator)
<1>1. Feeds \in [Pulse -> SUBSET Seq(Indicator)]
  BY LegacyPushAssumption DEF LegacyPushAssumption
<1>2. <<>> \in Seq(Indicator)
  OBVIOUS
<1> QED
  BY <1>1, <1>2 DEF Lists

LEMMA BundlesAreObjects ==
    ASSUME NEW p \in Pulse, NEW s \in Lists(p)
    PROVE  /\ PulseObjects(p, s) \subseteq Object
           /\ \A k \in ChunkIndices(s) : BundleObjects(p, s, k) \subseteq PulseObjects(p, s)
  BY DEF Object, PulseObjects

\* A set of chunk numbers has a least one.
LEMMA LeastExists ==
    ASSUME NEW C \in SUBSET Nat, C # {}
    PROVE  \E k \in C : \A j \in C : k <= j
<1> DEFINE T == {0..k : k \in C}
<1>1. T \subseteq FiniteSubsetsOf(Nat)
  <2>1. \A k \in Nat : IsFiniteSet(0..k) /\ 0..k \in SUBSET Nat
    BY FS_Interval
  <2> QED
    BY <2>1 DEF FiniteSubsetsOf
<1>2. T # {}
  OBVIOUS
<1>3. PICK B \in T : \A D \in T : <<D, B>> \notin StrictSubsetOrdering(Nat)
  <2> HIDE DEF T
  <2> QED
    BY <1>1, <1>2, FS_StrictSubsetOrderingWellFounded, WFMin
<1>4. PICK k \in C : B = 0..k
  BY <1>3
<1>5. ASSUME NEW j \in C, ~(k <= j) PROVE FALSE
  <2>1. 0..j \subseteq B /\ 0..j # B /\ k \in B /\ k \notin 0..j
    BY <1>4, <1>5
  <2>2. <<0..j, B>> \in StrictSubsetOrdering(Nat)
    BY <1>4, <2>1 DEF StrictSubsetOrdering
  <2> QED
    BY <1>3, <2>2
<1> QED
  BY <1>5

-----------------------------------------------------------------------------
(***************************************************************************)
(* Types                                                                   *)
(***************************************************************************)
Chunking == {"validate", "push", "cache"}

\* A thread's record: TypeOK's part of it, and a chunk at hand where one is used.
WellFormed(x) ==
    /\ x \in WorkerState
    /\ x.list \in Lists(x.pulse)
    /\ x.chunks \subseteq ChunkIndices(x.list)
    /\ x.pc \in Chunking => x.chunks # {}
    /\ x.pc \in {"idle", "fetch"} => x.list = <<>> /\ x.chunks = {}

Types ==
    /\ otx \in [Pulse -> Seq(Indicator)]
    /\ remembered \in [Pulse -> Seq(Indicator) \union {NoList}]
    /\ \A p \in Pulse : otx[p] \in Feeds[p] /\ remembered[p] \in Lists(p) \union {NoList}
    /\ server \subseteq Object
    /\ cache \subseteq Object
    /\ phase \in {"sleep", "feed", "drain"}
    /\ known \subseteq Object
    /\ queued \subseteq Pulse
    /\ worker \in [Worker -> WorkerState]
    /\ \A w \in Worker : WellFormed(worker[w])
    /\ crashes \in 0..MaxCrashes

LEMMA TypesImplyTypeOK == Types => TypeOK
  BY DEF Types, TypeOK, WellFormed, WorkerTypeOK

LEMMA IdleWellFormed ==
    WellFormed(IdleWorker) /\ IdleWorker \in WorkerState /\ IdleWorker.pc = "idle"
<1>1. (CHOOSE p \in Pulse : TRUE) \in Pulse
  BY PulseBundlesAssumption DEF PulseBundlesAssumption
<1>2. 0 \in 0..MaxPushRetries /\ <<>> \in Seq(Indicator)
  BY LegacyPushAssumption DEF LegacyPushAssumption
<1>3. IdleWorker \in WorkerState
  BY <1>1, <1>2 DEF IdleWorker, WorkerState
<1> QED
  BY <1>1, <1>3 DEF IdleWorker, WellFormed, Chunking, Lists

LEMMA TypesInit == Init => Types
<1> SUFFICES ASSUME Init PROVE Types
  OBVIOUS
<1>1. \A p \in Pulse : Lists(p) \subseteq Seq(Indicator) /\ Feeds[p] \subseteq Lists(p)
  BY ListsAreSequences DEF Lists
<1>2. otx \in [Pulse -> Seq(Indicator)] /\ \A p \in Pulse : otx[p] \in Feeds[p]
  BY <1>1 DEF Init
<1>3. crashes \in 0..MaxCrashes
  BY LegacyPushAssumption DEF LegacyPushAssumption, Init
<1> QED
  BY <1>2, <1>3, IdleWellFormed DEF Init, Types

\* The chunk at hand is one of the thread's chunks.
LEMMA CurrentIsChunk ==
    ASSUME NEW w \in Worker, WellFormed(worker[w]), worker[w].pc \in Chunking
    PROVE  /\ Current(w) \in worker[w].chunks
           /\ Current(w) \in ChunkIndices(worker[w].list)
           /\ CurrentBundle(w) \subseteq Object
<1>1. /\ worker[w].chunks # {} /\ worker[w].chunks \subseteq ChunkIndices(worker[w].list)
      /\ worker[w].pulse \in Pulse /\ worker[w].list \in Lists(worker[w].pulse)
  BY DEF WellFormed, WorkerState
<1>2. worker[w].chunks \in SUBSET Nat
  BY <1>1, ListsAreSequences, ChunksAreNumbers
<1>3. \E k \in worker[w].chunks : \A j \in worker[w].chunks : k <= j
  BY <1>1, <1>2, LeastExists
<1>4. Current(w) \in worker[w].chunks
  BY <1>3 DEF Current
<1> QED
  BY <1>1, <1>4, BundlesAreObjects DEF CurrentBundle

\* What a thread goes on with behind a chunk.
LEMMA AfterChunkOK ==
    ASSUME NEW w \in Worker, WellFormed(worker[w]), worker[w].pc \in Chunking,
           NEW ok \in BOOLEAN
    PROVE  /\ WellFormed(AfterChunk(w, ok))
           /\ AfterChunk(w, ok).pc \in {"validate", "remember", "idle"}
           /\ AfterChunk(w, ok).pc = "validate" =>
                /\ AfterChunk(w, ok).pulse = worker[w].pulse
                /\ AfterChunk(w, ok).list = worker[w].list
                /\ AfterChunk(w, ok).chunks = worker[w].chunks \ {Current(w)}
                /\ AfterChunk(w, ok).whole = (worker[w].whole /\ ok)
           /\ AfterChunk(w, ok).pc = "remember" =>
                /\ AfterChunk(w, ok).pulse = worker[w].pulse
                /\ AfterChunk(w, ok).list = worker[w].list
                /\ worker[w].chunks \ {Current(w)} = {}
                /\ worker[w].whole /\ ok
<1> DEFINE left == worker[w].chunks \ {Current(w)}
           whole == worker[w].whole /\ ok
           next == [worker[w] EXCEPT !.pc = "validate", !.chunks = left, !.whole = whole,
                                     !.sent = {}, !.attempt = 0, !.accepted = {}]
           last == [IdleWorker EXCEPT !.pc = "remember", !.pulse = worker[w].pulse,
                                      !.list = worker[w].list]
<1>1. /\ worker[w] \in WorkerState /\ worker[w].list \in Lists(worker[w].pulse)
      /\ worker[w].chunks \subseteq ChunkIndices(worker[w].list)
      /\ whole \in BOOLEAN /\ 0 \in 0..MaxPushRetries
  BY LegacyPushAssumption DEF LegacyPushAssumption, WellFormed, WorkerState
<1>2. AfterChunk(w, ok) = IF left # {} THEN next ELSE IF whole THEN last ELSE IdleWorker
  BY DEF AfterChunk
<1>3. /\ next \in WorkerState /\ next.pc = "validate"
      /\ next.pulse = worker[w].pulse /\ next.list = worker[w].list
      /\ next.chunks = left /\ next.whole = whole
  BY <1>1 DEF WorkerState
<1>4. /\ last \in WorkerState /\ last.pc = "remember"
      /\ last.pulse = worker[w].pulse /\ last.list = worker[w].list
      /\ last.chunks = {}
  BY <1>1, IdleWellFormed DEF WorkerState, IdleWorker
<1>5. left # {} => WellFormed(next)
  BY <1>1, <1>3 DEF WellFormed
<1>6. WellFormed(last)
  BY <1>1, <1>4 DEF WellFormed, Chunking
<1> HIDE DEF next, last, left, whole
<1>7. CASE left # {}
  BY <1>2, <1>3, <1>5, <1>7 DEF left, whole
<1>8. CASE left = {} /\ whole
  BY <1>2, <1>4, <1>6, <1>8 DEF left, whole
<1>9. CASE left = {} /\ ~whole
  BY <1>2, <1>9, IdleWellFormed
<1> QED
  BY <1>7, <1>8, <1>9

\* A thread whose record is replaced by a well formed one leaves the pool well
\* formed.
LEMMA PoolTypes ==
    ASSUME Types, NEW w \in Worker, NEW x, WellFormed(x),
           worker' = [worker EXCEPT ![w] = x]
    PROVE  worker' \in [Worker -> WorkerState] /\ \A v \in Worker : WellFormed(worker'[v])
  BY DEF Types, WellFormed

LEMMA WorkerTypes ==
    ASSUME Types, NEW w \in Worker, WorkerStep(w)
    PROVE  Types'
<1>0. /\ worker \in [Worker -> WorkerState] /\ worker[w] \in WorkerState
      /\ WellFormed(worker[w])
      /\ worker[w].pulse \in Pulse /\ worker[w].list \in Lists(worker[w].pulse)
      /\ worker[w].list \in Seq(Indicator)
  BY ListsAreSequences DEF Types, WellFormed, WorkerState
<1>1. CASE TakePulse(w)
  <2>1. PICK p \in queued : /\ queued' = queued \ {p}
                            /\ worker' = [worker EXCEPT ![w].pc = "fetch", ![w].pulse = p]
    BY <1>1 DEF TakePulse
  <2> DEFINE x == [worker[w] EXCEPT !.pc = "fetch", !.pulse = p]
  <2>2. x \in WorkerState /\ x.pc = "fetch" /\ x.list = <<>> /\ x.chunks = {}
    BY <1>0, <1>1, <2>1 DEF TakePulse, Types, WorkerState, WellFormed
  <2>3. WellFormed(x)
    BY <2>2 DEF WellFormed, Chunking, Lists
  <2>4. worker' = [worker EXCEPT ![w] = x]
    BY <2>1
  <2> HIDE DEF x
  <2> QED
    BY <1>1, <2>1, <2>3, <2>4, PoolTypes DEF TakePulse, redisVars, Types
<1>2. CASE FetchIndicators(w)
  <2>1. PICK s \in {otx[worker[w].pulse]} \union {<<>>} :
          worker' = [worker EXCEPT ![w].pc = "build", ![w].list = s]
    BY <1>2 DEF FetchIndicators
  <2> DEFINE x == [worker[w] EXCEPT !.pc = "build", !.list = s]
  <2>2. s \in Lists(worker[w].pulse) /\ s \in Seq(Indicator)
    BY <1>0, <2>1, ListsAreSequences DEF Types, Lists
  <2>3. /\ x \in WorkerState /\ x.pc = "build" /\ x.list = s /\ x.chunks = {}
        /\ x.pulse = worker[w].pulse
    BY <1>0, <1>2, <2>2 DEF FetchIndicators, WorkerState, WellFormed
  <2>4. WellFormed(x)
    BY <2>2, <2>3 DEF WellFormed, Chunking
  <2>5. worker' = [worker EXCEPT ![w] = x]
    BY <2>1
  <2> HIDE DEF x
  <2> QED
    BY <1>2, <2>4, <2>5, PoolTypes DEF FetchIndicators, redisVars, cycleVars, Types
<1>3. CASE BuildBundles(w)
  <2> DEFINE new == NewChunks(worker[w].pulse, worker[w].list)
             x == [worker[w] EXCEPT !.pc = "validate", !.chunks = new]
  <2>1. worker' = [worker EXCEPT ![w] = IdleWorker]
        \/ (new # {} /\ worker' = [worker EXCEPT ![w].pc = "validate", ![w].chunks = new])
    BY <1>3 DEF BuildBundles, FinishWorker
  <2>2. new \subseteq ChunkIndices(worker[w].list) /\ new \subseteq Nat
    BY <1>0, ChunksAreNumbers DEF NewChunks
  <2> HIDE DEF new
  <2>3. /\ x \in WorkerState /\ x.pc = "validate" /\ x.chunks = new
        /\ x.pulse = worker[w].pulse /\ x.list = worker[w].list
    BY <1>0, <2>2 DEF WorkerState
  <2>4. new # {} => WellFormed(x)
    BY <1>0, <2>2, <2>3 DEF WellFormed
  <2>5. worker' = [worker EXCEPT ![w] = IdleWorker]
        \/ (new # {} /\ worker' = [worker EXCEPT ![w] = x])
    BY <2>1
  <2> HIDE DEF x
  <2> QED
    BY <1>3, <2>4, <2>5, PoolTypes, IdleWellFormed
       DEF BuildBundles, redisVars, cycleVars, Types
<1>4. CASE Prevalidate(w)
  <2>1. PICK seen : LET new == FilterNew(CurrentBundle(w), seen)
                    IN  worker' = [worker EXCEPT ![w] =
                            IF new = {} THEN AfterChunk(w, FALSE)
                            ELSE [worker[w] EXCEPT !.pc = "push", !.sent = new]]
    BY <1>4 DEF Prevalidate
  <2> DEFINE new == FilterNew(CurrentBundle(w), seen)
             x == [worker[w] EXCEPT !.pc = "push", !.sent = new]
  <2>2. worker[w].pc \in Chunking /\ worker[w].chunks # {}
    BY <1>0, <1>4 DEF Prevalidate, Chunking, WellFormed
  <2>3. new \subseteq Object
    BY <1>0, <2>2, CurrentIsChunk DEF FilterNew
  <2> HIDE DEF new
  <2>4. /\ x \in WorkerState /\ x.pc = "push" /\ x.chunks = worker[w].chunks
        /\ x.pulse = worker[w].pulse /\ x.list = worker[w].list
    BY <1>0, <2>3 DEF WorkerState
  <2>5. WellFormed(x)
    BY <1>0, <2>2, <2>4 DEF WellFormed
  <2>6. worker' = [worker EXCEPT ![w] = AfterChunk(w, FALSE)]
        \/ worker' = [worker EXCEPT ![w] = x]
    BY <2>1 DEF new
  <2> HIDE DEF x
  <2> QED
    BY <1>0, <1>4, <2>2, <2>5, <2>6, AfterChunkOK, PoolTypes
       DEF Prevalidate, redisVars, cycleVars, Types
<1>5. CASE PushAccepted(w)
  <2>1. PICK stored \in StoredOnStatus(worker[w].sent) :
          /\ server' = server \union stored
          /\ worker' = [worker EXCEPT
                          ![w].pc = "cache",
                          ![w].accepted = AcceptedIds(worker[w].sent, stored)]
    BY <1>5 DEF PushAccepted
  <2> DEFINE a == AcceptedIds(worker[w].sent, stored)
             x == [worker[w] EXCEPT !.pc = "cache", !.accepted = a]
  <2>2. worker[w].sent \subseteq Object /\ worker[w].chunks # {}
    BY <1>0, <1>5 DEF PushAccepted, Chunking, WellFormed, WorkerState
  <2>3. stored \subseteq Object /\ a \subseteq Object
    BY <2>1, <2>2 DEF StoredOnStatus, AcceptedIds
  <2> HIDE DEF a
  <2>4. /\ x \in WorkerState /\ x.pc = "cache" /\ x.chunks = worker[w].chunks
        /\ x.pulse = worker[w].pulse /\ x.list = worker[w].list
    BY <1>0, <2>3 DEF WorkerState
  <2>5. WellFormed(x)
    BY <1>0, <2>2, <2>4 DEF WellFormed
  <2>6. worker' = [worker EXCEPT ![w] = x]
    BY <2>1 DEF a
  <2> HIDE DEF x
  <2> QED
    BY <1>5, <2>1, <2>3, <2>5, <2>6, PoolTypes DEF PushAccepted, redisVars, cycleVars, Types
<1>6. CASE PushRetried(w)
  <2> DEFINE x == [worker[w] EXCEPT !.attempt = @ + 1]
  <2>1. PICK stored \in StoredOnError(worker[w].sent) : server' = server \union stored
    BY <1>6 DEF PushRetried
  <2>2. stored \subseteq Object
    BY <1>0, <2>1 DEF StoredOnError, WorkerState
  <2>3. worker[w].attempt + 1 \in 0..MaxPushRetries
    BY <1>0, <1>6, LegacyPushAssumption DEF LegacyPushAssumption, PushRetried, WorkerState
  <2>4. /\ x \in WorkerState /\ x.pc = worker[w].pc /\ x.chunks = worker[w].chunks
        /\ x.pulse = worker[w].pulse /\ x.list = worker[w].list
    BY <1>0, <2>3 DEF WorkerState
  <2>5. WellFormed(x)
    BY <1>0, <2>4 DEF WellFormed
  <2>6. worker' = [worker EXCEPT ![w] = x]
    BY <1>6 DEF PushRetried
  <2> HIDE DEF x
  <2> QED
    BY <1>6, <2>1, <2>2, <2>5, <2>6, PoolTypes DEF PushRetried, redisVars, cycleVars, Types
<1>7. CASE PushFailed(w)
  <2>1. PICK stored \in StoredOnError(worker[w].sent) : server' = server \union stored
    BY <1>7 DEF PushFailed
  <2>2. stored \subseteq Object
    BY <1>0, <2>1 DEF StoredOnError, WorkerState
  <2>3. WellFormed(AfterChunk(w, FALSE))
    BY <1>0, <1>7, AfterChunkOK DEF PushFailed, Chunking
  <2> QED
    BY <1>7, <2>1, <2>2, <2>3, PoolTypes DEF PushFailed, redisVars, cycleVars, Types
<1>8. CASE CacheAccepted(w)
  <2>1. cache' \subseteq Object
    BY <1>0, <1>8 DEF CacheAccepted, Types, WorkerState
  <2>2. WellFormed(AfterChunk(w, TRUE))
    BY <1>0, <1>8, AfterChunkOK DEF CacheAccepted, Chunking
  <2> QED
    BY <1>8, <2>1, <2>2, PoolTypes DEF CacheAccepted, cycleVars, Types
<1>9. CASE RememberPulse(w)
  <2>1. /\ remembered' \in [Pulse -> Seq(Indicator) \union {NoList}]
        /\ \A p \in Pulse : remembered'[p] \in Lists(p) \union {NoList}
    BY <1>0, <1>9 DEF RememberPulse, Types
  <2>2. worker' = [worker EXCEPT ![w] = IdleWorker]
    BY <1>9 DEF RememberPulse, FinishWorker
  <2> QED
    BY <1>9, <2>1, <2>2, IdleWellFormed, PoolTypes DEF RememberPulse, cycleVars, Types
<1> QED
  BY <1>1, <1>2, <1>3, <1>4, <1>5, <1>6, <1>7, <1>8, <1>9 DEF WorkerStep

LEMMA TypesStep == Types /\ [Next]_vars => Types'
<1> SUFFICES ASSUME Types, [Next]_vars PROVE Types'
  OBVIOUS
<1>1. CASE Schedule
  <2>1. \A got \in Fetched : got \subseteq Object
    BY DEF Fetched, Types
  <2> QED
    BY <1>1, <2>1 DEF Schedule, ReadCachedIds, FetchIds, SubmitPulses, EndCycle, redisVars, Types
<1>2. CASE Environment
  <2>1. ASSUME NEW p \in Pulse, ReviseFeed(p) PROVE Types'
    <3>1. Feeds[p] \subseteq Seq(Indicator)
      BY LegacyPushAssumption DEF LegacyPushAssumption
    <3> QED
      BY <2>1, <3>1 DEF ReviseFeed, redisVars, cycleVars, Types
  <2>2. CASE CacheExpires
    BY <2>2 DEF CacheExpires, cycleVars, Types
  <2>3. ASSUME NEW p \in Pulse, RememberedExpires(p) PROVE Types'
    BY <2>3 DEF RememberedExpires, cycleVars, Types
  <2>4. CASE Crash
    <3>1. crashes' \in 0..MaxCrashes
      BY <2>4, LegacyPushAssumption DEF LegacyPushAssumption, Crash, Types
    <3> QED
      BY <2>4, <3>1, IdleWellFormed DEF Crash, redisVars, Types
  <2> QED
    BY <1>2, <2>1, <2>2, <2>3, <2>4 DEF Environment
<1>3. CASE UNCHANGED vars
  BY <1>3 DEF vars, redisVars, cycleVars, Types
<1> QED
  BY <1>1, <1>2, <1>3, WorkerTypes DEF Next

LEMMA TypesAlways == Spec => []Types
  BY TypesInit, TypesStep, PTL DEF Spec

\* Types are kept under all faults: a thread never has more attempts behind it than
\* max_push_retries, and works on chunks of the list that it fetched.
THEOREM TypeCorrect == Spec => []TypeOK
  BY TypesAlways, TypesImplyTypeOK, PTL

-----------------------------------------------------------------------------
(***************************************************************************)
(* The id set                                                              *)
(***************************************************************************)
CacheInv ==
    /\ CacheSound
    /\ known \subseteq server
    /\ \A w \in Worker : worker[w].pc = "cache" => worker[w].accepted \subseteq server

\* A thread's step leaves the other threads alone, and takes nothing off the server.
LEMMA WorkerFrame ==
    ASSUME Types, NEW w \in Worker, WorkerStep(w)
    PROVE  /\ \A v \in Worker \ {w} : worker'[v] = worker[v]
           /\ server \subseteq server'
           /\ UNCHANGED <<phase, known, otx, crashes>>
<1>1. worker \in [Worker -> WorkerState]
  BY DEF Types
<1> QED
  BY <1>1 DEF WorkerStep, TakePulse, FetchIndicators, BuildBundles, Prevalidate, PushAccepted,
              PushRetried, PushFailed, CacheAccepted, RememberPulse, FinishWorker,
              redisVars, cycleVars

LEMMA CacheInvWorker ==
    ASSUME AtomicServer \/ StatusListsFailures, Types, CacheInv,
           NEW w \in Worker, WorkerStep(w)
    PROVE  CacheInv'
<1>0. worker \in [Worker -> WorkerState] /\ WellFormed(worker[w]) /\ IdleWorker.pc = "idle"
  BY IdleWellFormed DEF Types
<1>1. SUFFICES /\ cache' \subseteq server'
               /\ worker'[w].pc = "cache" => worker'[w].accepted \subseteq server'
  BY WorkerFrame DEF CacheInv, CacheSound
<1>2. CASE PushAccepted(w)
  <2>1. PICK stored \in StoredOnStatus(worker[w].sent) :
          /\ server' = server \union stored
          /\ worker' = [worker EXCEPT
                          ![w].pc = "cache",
                          ![w].accepted = AcceptedIds(worker[w].sent, stored)]
    BY <1>2 DEF PushAccepted
  <2>2. AcceptedIds(worker[w].sent, stored) \subseteq stored
    BY <2>1 DEF AcceptedIds, StoredOnStatus
  <2>3. worker'[w].accepted = AcceptedIds(worker[w].sent, stored)
    BY <1>0, <2>1 DEF WorkerState
  <2> QED
    BY <1>2, <2>1, <2>2, <2>3 DEF PushAccepted, redisVars, CacheInv, CacheSound
<1>3. CASE CacheAccepted(w)
  <2>1. cache' \subseteq server /\ server' = server
    BY <1>3 DEF CacheAccepted, CacheInv, CacheSound
  <2>2. AfterChunk(w, TRUE).pc # "cache"
    BY <1>0, <1>3, AfterChunkOK DEF CacheAccepted, Chunking
  <2> QED
    BY <1>0, <1>3, <2>1, <2>2 DEF CacheAccepted
<1>4. CASE \/ TakePulse(w) \/ FetchIndicators(w) \/ BuildBundles(w) \/ Prevalidate(w)
           \/ PushRetried(w) \/ PushFailed(w) \/ RememberPulse(w)
  <2>1. cache' = cache /\ server \subseteq server'
    BY <1>4, WorkerFrame DEF TakePulse, FetchIndicators, BuildBundles, Prevalidate,
                             PushRetried, PushFailed, RememberPulse, redisVars
  <2>2. worker[w].pc \in {"validate", "push"} => AfterChunk(w, FALSE).pc # "cache"
    BY <1>0, AfterChunkOK DEF Chunking
  <2>3. worker'[w].pc # "cache"
    BY <1>0, <1>4, <2>2
       DEF TakePulse, FetchIndicators, BuildBundles, Prevalidate, PushRetried, PushFailed,
           RememberPulse, FinishWorker, WorkerState
  <2> QED
    BY <2>1, <2>3 DEF CacheInv, CacheSound
<1> QED
  BY <1>2, <1>3, <1>4 DEF WorkerStep

LEMMA CacheInvStep ==
    ASSUME AtomicServer \/ StatusListsFailures, Types, CacheInv, [Next]_vars
    PROVE  CacheInv'
<1> USE DEF CacheInv, CacheSound
<1>1. CASE Schedule
  <2>1. \A got \in Fetched : got \subseteq server
    BY DEF Fetched
  <2> QED
    BY <1>1, <2>1 DEF Schedule, ReadCachedIds, FetchIds, SubmitPulses, EndCycle, redisVars
<1>2. CASE Environment
  BY <1>2, IdleWellFormed DEF Environment, ReviseFeed, CacheExpires, RememberedExpires, Crash,
                              redisVars, cycleVars
<1>3. CASE UNCHANGED vars
  BY <1>3 DEF vars, redisVars, cycleVars
<1> QED
  BY <1>1, <1>2, <1>3, CacheInvWorker DEF Next

LEMMA CacheInvAlways ==
    ASSUME AtomicServer \/ StatusListsFailures PROVE Spec => []CacheInv
<1>1. Init => CacheInv
  BY DEF Init, CacheInv, CacheSound, IdleWorker
<1>2. Types /\ CacheInv /\ [Next]_vars => CacheInv'
  BY CacheInvStep
<1> QED
  BY <1>1, <1>2, TypesAlways, PTL DEF Spec

\* If the server takes a bundle whole or its Status lists what failed, the set of
\* TAXII ids claims nothing the collection lacks, although a cycle may fill it from
\* a walk of the collection that was cut short, and threads whose pushes fail.
THEOREM CacheIsSound ==
    ASSUME AtomicServer \/ StatusListsFailures PROVE Spec => []CacheSound
<1>1. CacheInv => CacheSound
  BY DEF CacheInv
<1> QED
  BY <1>1, CacheInvAlways, PTL

-----------------------------------------------------------------------------
(***************************************************************************)
(* The remembered pulses                                                   *)
(***************************************************************************)
\* A grouping on the server has its indicators there, the first chunk's the identity.
Closed ==
    \A g \in server : IsGrouping(g) =>
        /\ IndicatorRefs(g) \subseteq server
        /\ g.idx = 1 => Identity \in server

Bundle(w) == BundleObjects(worker[w].pulse, worker[w].list, Current(w))

\* What a thread may rely on being on the server: all of the chunk at hand but what
\* it sends, and, if none has failed, the chunks it is done with.
Delivering(w) ==
    /\ worker[w].pc = "push" => /\ worker[w].sent \subseteq Bundle(w)
                                /\ Bundle(w) \ worker[w].sent \subseteq server
    /\ worker[w].pc = "cache" => Bundle(w) \subseteq server
    /\ worker[w].pc \in Chunking /\ worker[w].whole =>
        \A k \in ChunkIndices(worker[w].list) \ worker[w].chunks :
            BundleObjects(worker[w].pulse, worker[w].list, k) \subseteq server
    /\ worker[w].pc = "remember" =>
        PulseObjects(worker[w].pulse, worker[w].list) \subseteq server

DeliveryInv ==
    /\ Closed
    /\ \A w \in Worker : Delivering(w)
    /\ RememberedIsDelivered

\* A bundle is closed in itself.
LEMMA BundleClosed ==
    ASSUME NEW p, NEW s, NEW k, NEW g \in BundleObjects(p, s, k), IsGrouping(g)
    PROVE  /\ g = Grouping(p, k, TotalChunks(s), ChunkValues(s, k))
           /\ IndicatorRefs(g) \subseteq BundleObjects(p, s, k)
           /\ g.idx = 1 => Identity \in BundleObjects(p, s, k)
<1>1. g = Grouping(p, k, TotalChunks(s), ChunkValues(s, k))
  BY DEF BundleObjects, IsGrouping, Identity, IndicatorObject
<1>2. g.pulse = p /\ g.values = ChunkValues(s, k) /\ g.idx = k
  BY <1>1 DEF Grouping
<1> QED
  BY <1>1, <1>2 DEF IndicatorRefs, BundleObjects

\* A chunk whose grouping is on the server is there with all it has.
LEMMA KnownChunkDelivered ==
    ASSUME Closed, NEW p, NEW s, NEW k,
           Grouping(p, k, TotalChunks(s), ChunkValues(s, k)) \in server
    PROVE  BundleObjects(p, s, k) \subseteq server
<1> DEFINE g == Grouping(p, k, TotalChunks(s), ChunkValues(s, k))
<1>1. IsGrouping(g) /\ g.pulse = p /\ g.values = ChunkValues(s, k) /\ g.idx = k
  BY DEF Grouping, IsGrouping
<1>2. IndicatorRefs(g) \subseteq server /\ (k = 1 => Identity \in server)
  BY <1>1 DEF Closed
<1>3. IndicatorRefs(g) = {IndicatorObject(p, i) : i \in ChunkValues(s, k)}
  BY <1>1 DEF IndicatorRefs
<1> QED
  BY <1>2, <1>3 DEF BundleObjects

\* The threads that do not move rely on what stays true.
LEMMA DeliveringKept ==
    ASSUME NEW w, Delivering(w), worker'[w] = worker[w], server \subseteq server'
    PROVE  Delivering(w)'
  BY DEF Delivering, Bundle, Current

\* A push that stores all of what is sent, or nothing, leaves the server closed.
LEMMA PushKeepsClosed ==
    ASSUME AtomicServer, Closed, NEW w \in Worker, Delivering(w), worker[w].pc = "push",
           NEW stored \in {{}, worker[w].sent}, server' = server \union stored
    PROVE  Closed'
<1>1. SUFFICES ASSUME NEW g \in server', IsGrouping(g)
               PROVE  IndicatorRefs(g) \subseteq server' /\ (g.idx = 1 => Identity \in server')
  BY DEF Closed
<1>2. CASE g \in server
  BY <1>1, <1>2 DEF Closed
<1>3. CASE g \in worker[w].sent /\ stored = worker[w].sent
  <2>1. worker[w].sent \subseteq Bundle(w) /\ Bundle(w) \subseteq server'
    BY <1>3 DEF Delivering
  <2>2. IndicatorRefs(g) \subseteq Bundle(w) /\ (g.idx = 1 => Identity \in Bundle(w))
    BY <1>1, <1>3, <2>1, BundleClosed DEF Bundle
  <2> QED
    BY <2>1, <2>2
<1> QED
  BY <1>1, <1>2, <1>3

\* Behind a chunk that counts as pushed, the thread's reliance grows by that chunk.
LEMMA AfterChunkDelivering ==
    ASSUME Types, NEW w \in Worker, Delivering(w), worker[w].pc \in Chunking,
           NEW ok \in BOOLEAN, ok => Bundle(w) \subseteq server',
           server \subseteq server', worker' = [worker EXCEPT ![w] = AfterChunk(w, ok)]
    PROVE  Delivering(w)'
<1>1. WellFormed(worker[w]) /\ worker \in [Worker -> WorkerState]
  BY DEF Types
<1> DEFINE x == AfterChunk(w, ok)
<1>2. worker'[w] = x
  BY <1>1
<1>3. /\ x.pc \in {"validate", "remember", "idle"}
      /\ x.pc = "validate" =>
            /\ x.pulse = worker[w].pulse /\ x.list = worker[w].list
            /\ x.chunks = worker[w].chunks \ {Current(w)}
            /\ x.whole = (worker[w].whole /\ ok)
      /\ x.pc = "remember" =>
            /\ x.pulse = worker[w].pulse /\ x.list = worker[w].list
            /\ worker[w].chunks \ {Current(w)} = {}
            /\ worker[w].whole /\ ok
  BY <1>1, AfterChunkOK
<1> HIDE DEF x
<1>4. ASSUME worker[w].whole, ok,
             NEW k \in ChunkIndices(worker[w].list) \ (worker[w].chunks \ {Current(w)})
      PROVE  BundleObjects(worker[w].pulse, worker[w].list, k) \subseteq server'
  <2>1. CASE k = Current(w)
    BY <1>4, <2>1 DEF Bundle
  <2>2. CASE k \notin worker[w].chunks
    BY <1>4, <2>2 DEF Delivering
  <2> QED
    BY <1>4, <2>1, <2>2
<1>5. CASE x.pc = "validate"
  BY <1>2, <1>3, <1>4, <1>5 DEF Delivering, Chunking
<1>6. CASE x.pc = "remember"
  <2>1. \A k \in ChunkIndices(worker[w].list) :
          BundleObjects(worker[w].pulse, worker[w].list, k) \subseteq server'
    BY <1>3, <1>4, <1>6
  <2>2. PulseObjects(worker[w].pulse, worker[w].list) \subseteq server'
    BY <2>1 DEF PulseObjects
  <2> QED
    BY <1>2, <1>3, <1>6, <2>2 DEF Delivering, Chunking
<1>7. CASE x.pc = "idle"
  BY <1>2, <1>7 DEF Delivering, Chunking
<1> QED
  BY <1>3, <1>5, <1>6, <1>7

\* A thread that begins with its chunks relies on the ones found known.
LEMMA BuildDelivering ==
    ASSUME Types, CacheInv, Closed, NEW w \in Worker, BuildBundles(w)
    PROVE  Delivering(w)'
<1> DEFINE p == worker[w].pulse
           s == worker[w].list
<1>0. worker \in [Worker -> WorkerState] /\ IdleWorker.pc = "idle" /\ server' = server
  BY IdleWellFormed DEF Types, BuildBundles
<1>1. ASSUME NEW k \in ChunkIndices(s) \ NewChunks(p, s)
      PROVE  BundleObjects(p, s, k) \subseteq server
  <2>1. Grouping(p, k, TotalChunks(s), ChunkValues(s, k)) \in server
    BY <1>1 DEF NewChunks, CacheInv
  <2> QED
    BY <2>1, KnownChunkDelivered
<1>2. CASE FinishWorker(w)
  BY <1>0, <1>2 DEF FinishWorker, Delivering, Chunking
<1>3. CASE worker' = [worker EXCEPT ![w].pc = "validate", ![w].chunks = NewChunks(p, s)]
  <2>1. /\ worker'[w].pc = "validate" /\ worker'[w].chunks = NewChunks(p, s)
        /\ worker'[w].pulse = p /\ worker'[w].list = s
    BY <1>0, <1>3 DEF WorkerState
  <2> QED
    BY <1>0, <1>1, <2>1 DEF Delivering
<1> QED
  BY <1>2, <1>3 DEF BuildBundles

\* Pre-validation leaves out only what is on the server.
LEMMA PrevalidateDelivering ==
    ASSUME Types, CacheInv, NEW w \in Worker, Delivering(w), Prevalidate(w)
    PROVE  Delivering(w)'
<1>0. /\ worker \in [Worker -> WorkerState] /\ server' = server
      /\ worker[w].pc = "validate" /\ worker[w].pc \in Chunking
  BY DEF Types, Prevalidate, Chunking
<1>1. PICK seen \in {cache, {}} :
        LET new == FilterNew(CurrentBundle(w), seen)
        IN  worker' = [worker EXCEPT ![w] =
                IF new = {} THEN AfterChunk(w, FALSE)
                ELSE [worker[w] EXCEPT !.pc = "push", !.sent = new]]
  BY DEF Prevalidate
<1> DEFINE new == FilterNew(CurrentBundle(w), seen)
           x == [worker[w] EXCEPT !.pc = "push", !.sent = new]
<1>2. CASE worker' = [worker EXCEPT ![w] = AfterChunk(w, FALSE)]
  BY <1>0, <1>2, AfterChunkDelivering
<1>3. CASE worker' = [worker EXCEPT ![w] = x]
  <2>1. seen \subseteq server /\ known \subseteq server
    BY DEF CacheInv, CacheSound
  <2>2. new \subseteq Bundle(w) /\ Bundle(w) \ new \subseteq server
    BY <2>1 DEF FilterNew, CurrentBundle, Bundle
  <2> HIDE DEF new
  <2>3. /\ x.pc = "push" /\ x.sent = new /\ x.chunks = worker[w].chunks
        /\ x.pulse = worker[w].pulse /\ x.list = worker[w].list /\ x.whole = worker[w].whole
    BY <1>0 DEF WorkerState
  <2> HIDE DEF x
  <2>4. worker'[w] = x /\ Bundle(w)' = Bundle(w)
    BY <1>0, <1>3, <2>3 DEF Bundle, Current
  <2> QED
    BY <1>0, <2>2, <2>3, <2>4 DEF Delivering, Chunking
<1> QED
  BY <1>1, <1>2, <1>3

\* An accepted push brings the rest of the chunk, a retried one may.
LEMMA PushDelivering ==
    ASSUME AtomicServer, Types, NEW w \in Worker, Delivering(w),
           PushAccepted(w) \/ PushRetried(w)
    PROVE  Delivering(w)'
<1>0. /\ worker \in [Worker -> WorkerState] /\ worker[w].pc = "push"
      /\ worker[w].sent \subseteq Bundle(w) /\ Bundle(w) \ worker[w].sent \subseteq server
      /\ worker[w].whole =>
            \A k \in ChunkIndices(worker[w].list) \ worker[w].chunks :
                BundleObjects(worker[w].pulse, worker[w].list, k) \subseteq server
  BY DEF Types, PushAccepted, PushRetried, Delivering, Chunking
<1>1. CASE PushAccepted(w)
  <2>1. server' = server \union worker[w].sent
    BY <1>1 DEF PushAccepted, StoredOnStatus
  <2>2. /\ worker'[w].pc = "cache" /\ worker'[w].chunks = worker[w].chunks
        /\ worker'[w].pulse = worker[w].pulse /\ worker'[w].list = worker[w].list
        /\ worker'[w].whole = worker[w].whole
    BY <1>0, <1>1 DEF PushAccepted, WorkerState
  <2>3. Bundle(w)' = Bundle(w)
    BY <2>2 DEF Bundle, Current
  <2>4. Bundle(w) \subseteq server' /\ server \subseteq server'
    BY <1>0, <2>1
  <2> QED
    BY <1>0, <2>2, <2>3, <2>4 DEF Delivering
<1>2. CASE PushRetried(w)
  <2>1. server \subseteq server'
    BY <1>2 DEF PushRetried
  <2>2. /\ worker'[w].pc = "push" /\ worker'[w].chunks = worker[w].chunks
        /\ worker'[w].pulse = worker[w].pulse /\ worker'[w].list = worker[w].list
        /\ worker'[w].whole = worker[w].whole /\ worker'[w].sent = worker[w].sent
    BY <1>0, <1>2 DEF PushRetried, WorkerState
  <2>3. Bundle(w)' = Bundle(w)
    BY <2>2 DEF Bundle, Current
  <2> QED
    BY <1>0, <2>1, <2>2, <2>3 DEF Delivering
<1> QED
  BY <1>1, <1>2

LEMMA WorkerDelivering ==
    ASSUME AtomicServer, Types, CacheInv, DeliveryInv, NEW w \in Worker, WorkerStep(w)
    PROVE  Delivering(w)'
<1>0. /\ worker \in [Worker -> WorkerState] /\ IdleWorker.pc = "idle"
      /\ Closed /\ Delivering(w)
  BY IdleWellFormed DEF Types, DeliveryInv
<1>1. CASE TakePulse(w) \/ FetchIndicators(w)
  <2>1. worker'[w].pc \in {"fetch", "build"}
    BY <1>0, <1>1 DEF TakePulse, FetchIndicators, WorkerState
  <2> QED
    BY <2>1 DEF Delivering, Chunking
<1>2. CASE BuildBundles(w)
  BY <1>0, <1>2, BuildDelivering
<1>3. CASE Prevalidate(w)
  BY <1>0, <1>3, PrevalidateDelivering
<1>4. CASE PushAccepted(w) \/ PushRetried(w)
  BY <1>0, <1>4, PushDelivering
<1>5. CASE PushFailed(w)
  <2>1. /\ worker[w].pc \in Chunking /\ server \subseteq server'
        /\ worker' = [worker EXCEPT ![w] = AfterChunk(w, FALSE)]
    BY <1>5 DEF PushFailed, Chunking
  <2> QED
    BY <1>0, <2>1, AfterChunkDelivering
<1>6. CASE CacheAccepted(w)
  <2>1. /\ worker[w].pc \in Chunking /\ server' = server /\ Bundle(w) \subseteq server
        /\ worker' = [worker EXCEPT ![w] = AfterChunk(w, TRUE)]
    BY <1>0, <1>6 DEF CacheAccepted, Chunking, Delivering
  <2> QED
    BY <1>0, <2>1, AfterChunkDelivering
<1>7. CASE RememberPulse(w)
  <2>1. worker'[w].pc = "idle"
    BY <1>0, <1>7 DEF RememberPulse, FinishWorker
  <2> QED
    BY <2>1 DEF Delivering, Chunking
<1> QED
  BY <1>1, <1>2, <1>3, <1>4, <1>5, <1>6, <1>7 DEF WorkerStep

LEMMA WorkerClosed ==
    ASSUME AtomicServer, Types, DeliveryInv, NEW w \in Worker, WorkerStep(w)
    PROVE  Closed'
<1>1. CASE PushAccepted(w) \/ PushRetried(w) \/ PushFailed(w)
  <2>1. PICK stored \in {{}, worker[w].sent} : server' = server \union stored
    BY <1>1 DEF PushAccepted, PushRetried, PushFailed, StoredOnStatus, StoredOnError
  <2>2. worker[w].pc = "push" /\ Delivering(w) /\ Closed
    BY <1>1 DEF PushAccepted, PushRetried, PushFailed, DeliveryInv
  <2> QED
    BY <2>1, <2>2, PushKeepsClosed
<1>2. CASE \/ TakePulse(w) \/ FetchIndicators(w) \/ BuildBundles(w) \/ Prevalidate(w)
           \/ CacheAccepted(w) \/ RememberPulse(w)
  <2>1. server' = server
    BY <1>2 DEF TakePulse, FetchIndicators, BuildBundles, Prevalidate, CacheAccepted,
                RememberPulse
  <2> QED
    BY <2>1 DEF Closed, DeliveryInv
<1> QED
  BY <1>1, <1>2 DEF WorkerStep

\* A pulse is remembered by a thread that relied on all of it being on the server.
LEMMA WorkerRemembers ==
    ASSUME Types, DeliveryInv, NEW w \in Worker, WorkerStep(w)
    PROVE  RememberedIsDelivered'
<1>0. /\ remembered \in [Pulse -> Seq(Indicator) \union {NoList}]
      /\ server \subseteq server' /\ RememberedIsDelivered /\ Delivering(w)
  BY WorkerFrame DEF Types, DeliveryInv
<1>1. CASE RememberPulse(w) /\ remembered' # remembered
  <2>1. /\ remembered' = [remembered EXCEPT ![worker[w].pulse] = worker[w].list]
        /\ worker[w].pc = "remember"
    BY <1>1 DEF RememberPulse
  <2>2. PulseObjects(worker[w].pulse, worker[w].list) \subseteq server
    BY <1>0, <2>1 DEF Delivering
  <2>3. ASSUME NEW p \in Pulse, remembered'[p] # NoList
        PROVE  PulseObjects(p, remembered'[p]) \subseteq server'
    <3>1. CASE p = worker[w].pulse
      BY <1>0, <2>1, <2>2, <3>1
    <3>2. CASE p # worker[w].pulse
      <4>1. remembered'[p] = remembered[p]
        BY <1>0, <2>1, <3>2
      <4> QED
        BY <1>0, <2>3, <4>1 DEF RememberedIsDelivered
    <3> QED
      BY <3>1, <3>2
  <2> QED
    BY <2>3 DEF RememberedIsDelivered
<1>2. CASE remembered' = remembered
  BY <1>0, <1>2 DEF RememberedIsDelivered
<1> QED
  BY <1>1, <1>2 DEF WorkerStep, TakePulse, FetchIndicators, BuildBundles, Prevalidate,
                    PushAccepted, PushRetried, PushFailed, CacheAccepted, redisVars

LEMMA DeliveryInvStep ==
    ASSUME AtomicServer, Types, CacheInv, DeliveryInv, [Next]_vars
    PROVE  DeliveryInv'
<1>1. CASE \/ Schedule \/ CacheExpires \/ UNCHANGED vars
           \/ \E p \in Pulse : ReviseFeed(p)
  <2>1. /\ server' = server /\ worker' = worker /\ remembered' = remembered
    BY <1>1 DEF Schedule, ReadCachedIds, FetchIds, SubmitPulses, EndCycle, ReviseFeed,
                CacheExpires, redisVars, cycleVars, vars
  <2>2. \A w \in Worker : Delivering(w)'
    BY <2>1, DeliveringKept DEF DeliveryInv
  <2> QED
    BY <2>1, <2>2 DEF DeliveryInv, Closed, RememberedIsDelivered
<1>2. ASSUME NEW p \in Pulse, RememberedExpires(p) PROVE DeliveryInv'
  <2>1. /\ server' = server /\ worker' = worker
        /\ remembered' = [remembered EXCEPT ![p] = NoList]
        /\ remembered \in [Pulse -> Seq(Indicator) \union {NoList}]
    BY <1>2 DEF RememberedExpires, Types
  <2>2. \A w \in Worker : Delivering(w)'
    BY <2>1, DeliveringKept DEF DeliveryInv
  <2>3. \A q \in Pulse : remembered'[q] # NoList => remembered'[q] = remembered[q]
    BY <2>1
  <2> QED
    BY <2>1, <2>2, <2>3 DEF DeliveryInv, Closed, RememberedIsDelivered
<1>3. CASE Crash
  <2>1. /\ server' = server /\ remembered' = remembered
        /\ \A w \in Worker : worker'[w].pc = "idle"
    BY <1>3, IdleWellFormed DEF Crash, redisVars
  <2> QED
    BY <2>1 DEF DeliveryInv, Closed, RememberedIsDelivered, Delivering, Chunking
<1>4. ASSUME NEW w \in Worker, WorkerStep(w) PROVE DeliveryInv'
  <2>1. Closed' /\ RememberedIsDelivered' /\ Delivering(w)'
    BY <1>4, WorkerClosed, WorkerRemembers, WorkerDelivering
  <2>2. \A v \in Worker \ {w} : Delivering(v)'
    BY <1>4, WorkerFrame, DeliveringKept DEF DeliveryInv
  <2> QED
    BY <2>1, <2>2 DEF DeliveryInv
<1> QED
  BY <1>1, <1>2, <1>3, <1>4 DEF Next, Environment

LEMMA DeliveryInvInit == Init => DeliveryInv
  BY IdleWellFormed DEF Init, DeliveryInv, Closed, Delivering, Chunking, RememberedIsDelivered

\* With a server that takes a bundle whole or not at all, a pulse is remembered as
\* pushed only when all that its list gives rise to is on the server: what the
\* thread's own pushes did not bring, an earlier cycle or the other memories vouch for.
THEOREM RememberedDelivered ==
    ASSUME AtomicServer PROVE Spec => []RememberedIsDelivered
<1>1. DeliveryInv => RememberedIsDelivered
  BY DEF DeliveryInv
<1>2. Types /\ CacheInv /\ DeliveryInv /\ [Next]_vars => DeliveryInv'
  BY DeliveryInvStep
<1>3. Spec => []CacheInv
  BY CacheInvAlways
<1> QED
  BY <1>1, <1>2, <1>3, TypesAlways, DeliveryInvInit, PTL DEF Spec

=============================================================================
