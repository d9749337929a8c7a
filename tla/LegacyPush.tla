----------------------------- MODULE LegacyPush -----------------------------
(***************************************************************************)
(* otx2taxii as one process (ENABLE_OUTBOX_MODE off): main.py's scheduler  *)
(* runs process_otx_to_taxii, whose pool turns each pulse of the feed into *)
(* bundles and pushes them straight away.                                  *)
(*                                                                         *)
(* What has been pushed is remembered three times: the ids known at the    *)
(* start of the cycle, which each thread gets a copy of; the Redis set of  *)
(* TAXII ids; and, in Redis too, the indicators of every pulse that was    *)
(* pushed whole.  Each of them decides that something is not sent again.   *)
(***************************************************************************)
EXTENDS TaxiiPush

CONSTANTS
    Feeds,                  \* [Pulse -> set of indicator lists OTX may serve]
    Worker,                 \* the threads of the pool (MAX_WORKERS)
    NoList,                 \* what is remembered of a pulse not pushed yet
    EnablePrevalidation,    \* ENABLE_CACHE_PREVALIDATION
    MaxBundlesToPush,       \* MAX_BUNDLES_TO_PUSH
    NoLimit,                \* its value when unset
    MaxPushRetries,         \* max_push_retries of the TAXII client
    LimitPerRequest,        \* objects on a page of the collection
    WalkMayFail,            \* TRUE: the walk of the collection may be cut short
    FetchMayFail,           \* TRUE: an indicator fetch may fail, which answers []
    RedisMayFail,           \* TRUE: Redis calls may fail, its keys may expire
    MaxCrashes              \* bound on process deaths

Lists(p) == Feeds[p] \union {<<>>}

Object == UNION {UNION {PulseObjects(p, s) : s \in Lists(p)} : p \in Pulse}

ASSUME LegacyPushAssumption ==
    /\ Feeds \in [Pulse -> SUBSET Seq(Indicator)]
    /\ \A p \in Pulse : Feeds[p] # {} /\ NoList \notin Lists(p)
    /\ \A p \in Pulse : \A s \in Feeds[p] :      \* a pulse lists an indicator once
            \A i, j \in DOMAIN s : s[i] = s[j] => i = j
    /\ MaxBundlesToPush \in Int \union {NoLimit}
    /\ LimitPerRequest \in Nat \ {0}
    /\ MaxPushRetries \in Nat /\ MaxCrashes \in Nat
    /\ {EnablePrevalidation, WalkMayFail, FetchMayFail, RedisMayFail} \subseteq BOOLEAN

VARIABLES
    otx,        \* the indicator list OTX serves now for each pulse
    server,     \* ids of the objects the TAXII collection holds
    cache,      \* Redis set taxii_ids:<collection>
    remembered, \* Redis otx_pulse:<id>: the indicators of a pulse pushed whole
    phase,      \* the scheduler's thread: "sleep", "feed" or "drain"
    known,      \* existing_stix_ids of this cycle
    queued,     \* submitted pulses no thread has taken yet
    worker,     \* the pool's threads
    crashes     \* process deaths so far

redisVars == <<cache, remembered>>
cycleVars == <<phase, known, queued>>
vars == <<otx, server, redisVars, cycleVars, worker, crashes>>

IdleWorker == [pc |-> "idle", pulse |-> CHOOSE p \in Pulse : TRUE, list |-> <<>>,
               chunks |-> {}, whole |-> TRUE, sent |-> {}, attempt |-> 0,
               accepted |-> {}]

WorkerState ==
    [pc : {"idle", "fetch", "build", "validate", "push", "cache", "remember"},
     pulse : Pulse, list : Seq(Indicator), chunks : SUBSET Nat, whole : BOOLEAN,
     sent : SUBSET Object, attempt : 0..MaxPushRetries, accepted : SUBSET Object]

WorkerTypeOK(w) ==
    /\ worker[w] \in WorkerState
    /\ worker[w].list \in Lists(worker[w].pulse)
    /\ worker[w].chunks \subseteq ChunkIndices(worker[w].list)

TypeOK ==
    /\ otx \in [Pulse -> Seq(Indicator)]
    /\ \A p \in Pulse : otx[p] \in Feeds[p] /\ remembered[p] \in Lists(p) \union {NoList}
    /\ server \subseteq Object
    /\ cache \subseteq Object
    /\ DOMAIN remembered = Pulse
    /\ phase \in {"sleep", "feed", "drain"}
    /\ known \subseteq Object
    /\ queued \subseteq Pulse
    /\ DOMAIN worker = Worker
    /\ \A w \in Worker : WorkerTypeOK(w)
    /\ crashes \in 0..MaxCrashes

Init ==
    /\ otx \in {f \in [Pulse -> UNION {Lists(p) : p \in Pulse}] :
                    \A p \in Pulse : f[p] \in Feeds[p]}
    /\ server = {}
    /\ cache = {}
    /\ remembered = [p \in Pulse |-> NoList]
    /\ phase = "sleep"
    /\ known = {}
    /\ queued = {}
    /\ worker = [w \in Worker |-> IdleWorker]
    /\ crashes = 0

-----------------------------------------------------------------------------
(***************************************************************************)
(* The scheduler's thread                                                  *)
(***************************************************************************)
\* A cycle starts.  get_existing_stix_ids with an answer from Redis: the set, if it has any ids.
ReadCachedIds ==
    /\ phase = "sleep"
    /\ cache # {}
    /\ known' = cache
    /\ phase' = "feed"
    /\ UNCHANGED <<otx, server, redisVars, queued, worker, crashes>>

\* What the walk of the collection brings: an error ends it with the (full) pages
\* so far, in whatever order the server lists its objects.
Fetched ==
    {server} \union {got \in SUBSET server :
                        WalkMayFail /\ Cardinality(got) % LimitPerRequest = 0}

\* Otherwise the collection is fetched.  What was got is returned, and stored in
\* Redis as if it were all, whether or not the walk reached the end.
FetchIds ==
    /\ phase = "sleep"
    /\ cache = {} \/ RedisMayFail
    /\ \E got \in Fetched :
        /\ known' = got
        /\ cache' \in {cache \union got} \union (IF RedisMayFail THEN {cache} ELSE {})
    /\ phase' = "feed"
    /\ UNCHANGED <<otx, server, remembered, queued, worker, crashes>>

\* The cap is compared with the successes so far, and these are only counted
\* when everything has been submitted.
CapReached == MaxBundlesToPush # NoLimit /\ 0 >= MaxBundlesToPush

\* The feed's pulses are submitted.  It yields some of those OTX has (none, when
\* the API is unavailable); the recency filter drops others.
SubmitPulses(yields) ==
    /\ phase = "feed"
    /\ queued' = IF CapReached THEN {} ELSE yields
    /\ phase' = "drain"
    /\ UNCHANGED <<otx, server, redisVars, known, worker, crashes>>

\* The pool is shut down once every future is done.
EndCycle ==
    /\ phase = "drain"
    /\ queued = {}
    /\ \A w \in Worker : worker[w].pc = "idle"
    /\ phase' = "sleep"
    /\ known' = {}
    /\ UNCHANGED <<otx, server, redisVars, queued, worker, crashes>>

-----------------------------------------------------------------------------
(***************************************************************************)
(* A thread of the pool: _process_single_pulse                             *)
(***************************************************************************)
FinishWorker(w) == worker' = [worker EXCEPT ![w] = IdleWorker]

TakePulse(w) ==
    /\ worker[w].pc = "idle"
    /\ \E p \in queued :
        /\ queued' = queued \ {p}
        /\ worker' = [worker EXCEPT ![w].pc = "fetch", ![w].pulse = p]
    /\ UNCHANGED <<otx, server, redisVars, phase, known, crashes>>

\* get_pulse_indicators: the list OTX serves, or [] if that fails.
FetchIndicators(w) ==
    /\ worker[w].pc = "fetch"
    /\ \E s \in {otx[worker[w].pulse]} \union (IF FetchMayFail THEN {<<>>} ELSE {}) :
        worker' = [worker EXCEPT ![w].pc = "build", ![w].list = s]
    /\ UNCHANGED <<otx, server, redisVars, cycleVars, crashes>>

SetOf(s) == {s[j] : j \in DOMAIN s}

\* Mutant of Unchanged: only the numbers of indicators are compared.
UnchangedInLength(s, old) == old # NoList /\ Len(s) = Len(old)

\* check_pulse_changed: the lists are compared by length and as sets.
Unchanged(s, old) == old # NoList /\ Len(s) = Len(old) /\ SetOf(s) = SetOf(old)

\* The chunks process_pulse_data builds a bundle for.
NewChunks(p, s) ==
    {k \in ChunkIndices(s) :
        Grouping(p, k, TotalChunks(s), ChunkValues(s, k)) \notin known}

\* The chunk at hand, and its bundle: what is known to exist is only referred to.
Current(w) == CHOOSE k \in worker[w].chunks : \A j \in worker[w].chunks : k <= j

CurrentBundle(w) ==
    BundleObjects(worker[w].pulse, worker[w].list, Current(w)) \ known

\* An unchanged pulse is left alone; if Redis does not answer it is new.  A pulse
\* all of whose groupings are known is left alone too, and not remembered.
BuildBundles(w) ==
    /\ worker[w].pc = "build"
    /\ LET p == worker[w].pulse
           s == worker[w].list
           Build == IF NewChunks(p, s) = {} THEN FinishWorker(w)
                    ELSE worker' = [worker EXCEPT ![w].pc = "validate",
                                                  ![w].chunks = NewChunks(p, s)]
           skip == EnablePrevalidation /\ Unchanged(s, remembered[p])
       IN  \/ skip /\ FinishWorker(w)
           \/ (skip => RedisMayFail) /\ Build
    /\ UNCHANGED <<otx, server, redisVars, cycleVars, crashes>>

\* The thread's record once the chunk at hand is dealt with; ok says whether it
\* counts as pushed.  The pulse is remembered only if all of them do.
AfterChunk(w, ok) ==
    LET left == worker[w].chunks \ {Current(w)}
        whole == worker[w].whole /\ ok
    IN  IF left # {}
        THEN [worker[w] EXCEPT !.pc = "validate", !.chunks = left, !.whole = whole,
                               !.sent = {}, !.attempt = 0, !.accepted = {}]
        ELSE IF whole
        THEN [IdleWorker EXCEPT !.pc = "remember", !.pulse = worker[w].pulse,
                                !.list = worker[w].list]
        ELSE IdleWorker

\* Pre-validation against the id set as it is now; without an answer from Redis
\* every object counts as new.  A chunk that has nothing new is passed over.
Prevalidate(w) ==
    /\ worker[w].pc = "validate"
    /\ \E seen \in IF ~EnablePrevalidation THEN {{}}
                   ELSE {cache} \union (IF RedisMayFail THEN {{}} ELSE {}) :
        LET new == FilterNew(CurrentBundle(w), seen)
        IN  worker' = [worker EXCEPT ![w] =
                IF new = {} THEN AfterChunk(w, FALSE)
                ELSE [worker[w] EXCEPT !.pc = "push", !.sent = new]]
    /\ UNCHANGED <<otx, server, redisVars, cycleVars, crashes>>

\* add_objects answers with a Status: add_stix_bundle will return True.
PushAccepted(w) ==
    /\ worker[w].pc = "push"
    /\ \E stored \in StoredOnStatus(worker[w].sent) :
        /\ server' = server \union stored
        /\ worker' = [worker EXCEPT
                        ![w].pc = "cache",
                        ![w].accepted = AcceptedIds(worker[w].sent, stored)]
    /\ UNCHANGED <<otx, redisVars, cycleVars, crashes>>

\* Mutant of PushRetried: the attempts are not counted.
PushRetriedUnbounded(w) ==
    /\ worker[w].pc = "push"
    /\ \E stored \in StoredOnError(worker[w].sent) : server' = server \union stored
    /\ worker' = [worker EXCEPT ![w].attempt = @ + 1]
    /\ UNCHANGED <<otx, redisVars, cycleVars, crashes>>

\* A transient network error or a 5xx: back off and send again.
PushRetried(w) ==
    /\ worker[w].pc = "push"
    /\ worker[w].attempt < MaxPushRetries
    /\ \E stored \in StoredOnError(worker[w].sent) : server' = server \union stored
    /\ worker' = [worker EXCEPT ![w].attempt = @ + 1]
    /\ UNCHANGED <<otx, redisVars, cycleVars, crashes>>

\* Mutant of PushFailed: the ids are cached although the push failed.
PushFailedCached(w) ==
    /\ worker[w].pc = "push"
    /\ \E stored \in StoredOnError(worker[w].sent) : server' = server \union stored
    /\ worker' = [worker EXCEPT ![w].pc = "cache", ![w].accepted = worker[w].sent]
    /\ UNCHANGED <<otx, redisVars, cycleVars, crashes>>

\* Mutant of PushFailed: the failure does not keep the pulse from being remembered.
PushFailedForgotten(w) ==
    /\ worker[w].pc = "push"
    /\ \E stored \in StoredOnError(worker[w].sent) : server' = server \union stored
    /\ worker' = [worker EXCEPT ![w] = AfterChunk(w, TRUE)]
    /\ UNCHANGED <<otx, redisVars, cycleVars, crashes>>

\* An access error, a timeout, a 4xx, or the last retry failing.
PushFailed(w) ==
    /\ worker[w].pc = "push"
    /\ \E stored \in StoredOnError(worker[w].sent) : server' = server \union stored
    /\ worker' = [worker EXCEPT ![w] = AfterChunk(w, FALSE)]
    /\ UNCHANGED <<otx, redisVars, cycleVars, crashes>>

\* The accepted ids enter the id set; a Redis error is logged and ignored.
CacheAccepted(w) ==
    /\ worker[w].pc = "cache"
    /\ cache' \in {cache \union worker[w].accepted}
                    \union (IF RedisMayFail THEN {cache} ELSE {})
    /\ worker' = [worker EXCEPT ![w] = AfterChunk(w, TRUE)]
    /\ UNCHANGED <<otx, server, remembered, cycleVars, crashes>>

\* _cache_pulse, when every chunk was pushed.
RememberPulse(w) ==
    /\ worker[w].pc = "remember"
    /\ \/ remembered' = [remembered EXCEPT ![worker[w].pulse] = worker[w].list]
       \/ RedisMayFail /\ UNCHANGED remembered
    /\ FinishWorker(w)
    /\ UNCHANGED <<otx, server, cache, cycleVars, crashes>>

-----------------------------------------------------------------------------
(***************************************************************************)
(* The environment                                                         *)
(***************************************************************************)
ReviseFeed(p) ==
    /\ \E s \in Feeds[p] \ {otx[p]} : otx' = [otx EXCEPT ![p] = s]
    /\ UNCHANGED <<server, redisVars, cycleVars, worker, crashes>>

\* Keys run out of their time to live.
CacheExpires ==
    /\ RedisMayFail
    /\ cache # {}
    /\ cache' = {}
    /\ UNCHANGED <<otx, server, remembered, cycleVars, worker, crashes>>

RememberedExpires(p) ==
    /\ RedisMayFail
    /\ remembered[p] # NoList
    /\ remembered' = [remembered EXCEPT ![p] = NoList]
    /\ UNCHANGED <<otx, server, cache, cycleVars, worker, crashes>>

\* The process dies and its container is restarted.
Crash ==
    /\ crashes < MaxCrashes
    /\ phase # "sleep"
    /\ phase' = "sleep"
    /\ known' = {}
    /\ queued' = {}
    /\ worker' = [w \in Worker |-> IdleWorker]
    /\ crashes' = crashes + 1
    /\ UNCHANGED <<otx, server, redisVars>>

-----------------------------------------------------------------------------
Schedule ==
    \/ ReadCachedIds
    \/ FetchIds
    \/ \E yields \in SUBSET Pulse : SubmitPulses(yields)
    \/ EndCycle

WorkerStep(w) ==
    \/ TakePulse(w)
    \/ FetchIndicators(w)
    \/ BuildBundles(w)
    \/ Prevalidate(w)
    \/ PushAccepted(w)
    \/ PushRetried(w)
    \/ PushFailed(w)
    \/ CacheAccepted(w)
    \/ RememberPulse(w)

Environment ==
    \/ \E p \in Pulse : ReviseFeed(p)
    \/ CacheExpires
    \/ \E p \in Pulse : RememberedExpires(p)
    \/ Crash

Next == Schedule \/ (\E w \in Worker : WorkerStep(w)) \/ Environment

Spec == Init /\ [][Next]_vars

(***************************************************************************)
(* Fairness.  The loop and every thread that can step do, and a bundle     *)
(* that is pushed again and again is accepted in the end.  Nothing is      *)
(* assumed of the feed, which may never yield a pulse, of the fetches of   *)
(* its indicators, of Redis or of crashes.                                 *)
(***************************************************************************)
AcceptedGrouping(g) ==
    \E w \in Worker : g \in worker[w].sent /\ PushAccepted(w)

PushFairness ==
    /\ \A w \in Worker : WF_vars(WorkerStep(w))
    /\ \A g \in {o \in Object : IsGrouping(o)} : SF_vars(AcceptedGrouping(g))

FairSpec == Spec /\ WF_vars(Schedule) /\ PushFairness

-----------------------------------------------------------------------------
(***************************************************************************)
(* Properties                                                              *)
(***************************************************************************)

\* The id set never claims an object the collection lacks, although it is filled
\* from fetches that may have been cut short and by threads whose pushes fail.
CacheSound == cache \subseteq server

\* What makes a pulse be skipped in later cycles is true: all that its remembered
\* list gives rise to is on the server, the chunks earlier cycles pushed included.
RememberedIsDelivered ==
    \A p \in Pulse :
        remembered[p] # NoList => PulseObjects(p, remembered[p]) \subseteq server

\* A thread has just been given the list s for the pulse p.
HasFetched(p, s) ==
    \E w \in Worker : worker[w].pc = "build" /\ worker[w].pulse = p /\ worker[w].list = s

\* A pulse that OTX stops revising, and that the feed goes on giving to the pool, is
\* on the server in the end, all of it, although all three memories decide what
\* need not be sent.
EventuallyDelivered ==
    \A p \in Pulse : \A s \in Feeds[p] :
        <>[](otx[p] = s) /\ []<>HasFetched(p, s)
            => <>[](PulseObjects(p, s) \subseteq server)

=============================================================================
