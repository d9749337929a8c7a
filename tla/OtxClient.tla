----------------------------- MODULE OtxClient -----------------------------
(***************************************************************************)
(* otx2taxii's OTX client (otx2taxii/clients/otx_client.py) and what its   *)
(* two callers, ingest.py and the legacy main.py, do with it in a cycle:   *)
(*                                                                         *)
(*   iter_subscribed_pulses   the generator of the subscribed feed;        *)
(*   throttled_get            the semaphore every OTX request goes through;*)
(*   get_pulse_indicators     the details of one pulse, which holds the    *)
(*                            semaphore around an SDK call that goes       *)
(*                            through throttled_get in its turn.           *)
(*                                                                         *)
(* The OTX service and the SDK (its cache of pulses on disk, the order of  *)
(* its list pages, whether it has a pulse's details) are external.         *)
(***************************************************************************)
EXTENDS PulseDecay, FiniteSets

CONSTANTS
    Pulse,
    Author,
    AuthorOf,           \* the author of each pulse; NoAuthor if it has none
    NoAuthor,
    Filtered,           \* OTX_AUTHOR_FILTER is set ...
    Whitelist,          \* ... to these authors
    AllAuthors,         \* the one pass over the disk when it is not
    Created,            \* each pulse's creation date
    Undated,            \* pulses whose timestamps cannot be parsed
    Absent,             \* the version of a pulse that is not there
    Fetcher,            \* the threads that fetch indicators
    Inline,             \* TRUE: the thread that walks the feed fetches (ingest.py)
    Permits,            \* OTX_MAX_CONCURRENT_REQUESTS
    PageSize,           \* OTX_PAGE_SIZE
    MaxListPages,       \* OTX_MAX_LIST_PAGES, 0 for no limit
    MaxPulses,          \* OTX_TEST_PULSE_LIMIT
    NoLimit,            \* its value when unset
    ClearCacheOnStart,  \* OTX_CACHE_CLEAR_ON_START
    Revised,            \* bound: the pulses whose authors still modify them
    MaxDay,             \* bound on the calendar
    MaxCrashes          \* bound on process deaths

Day == 0..MaxDay

ASSUME OtxClientAssumption ==
    /\ NoAuthor \notin Author
    /\ AuthorOf \in [Pulse -> Author \union {NoAuthor}]
    /\ Whitelist \subseteq Author
    /\ AllAuthors \notin Author \union {NoAuthor}
    /\ Undated \subseteq Pulse
    /\ Created \in [Pulse -> Int]
    /\ Absent \notin Int
    /\ Pulse # {} /\ IsFiniteSet(Pulse) /\ IsFiniteSet(Fetcher)
    /\ Inline => Cardinality(Fetcher) = 1
    /\ Permits \in Nat \ {0} /\ PageSize \in Nat \ {0}
    /\ MaxListPages \in Nat
    /\ MaxPulses \in Int \union {NoLimit}
    /\ Revised \subseteq Pulse
    /\ MaxDay \in Nat /\ MaxCrashes \in Nat
    /\ {Filtered, Inline, ClearCacheOnStart} \subseteq BOOLEAN

VARIABLES
    day,            \* today
    service,        \* what OTX has: the day each pulse was last modified
    disk,           \* the SDK's cache: the same, as of the last time it was listed
    permits,        \* free permits of the request semaphore
    pageCount,      \* _throttled_list_page_count, as far as it matters
    walk,           \* the generator's frame
    queue,          \* pulses yielded and not yet taken by a fetcher
    fetcher,        \* the threads that fetch indicators
    crashes         \* process deaths so far

worldVars == <<day, service>>
feedVars == <<disk, pageCount, walk>>
vars == <<day, service, disk, permits, pageCount, walk, queue, fetcher, crashes>>

-----------------------------------------------------------------------------
(***************************************************************************)
(* Pulses                                                                  *)
(***************************************************************************)
Version == Day \union {Absent}

CreatedOf(p) == IF p \in Undated THEN NoDate ELSE Created[p]
ModifiedOf(p) == IF p \in Undated THEN NoDate ELSE disk[p]

\* What save_pulse writes to disk: without a whitelist, everything.
Saved(p) == Filtered => AuthorOf[p] \in Whitelist

\* getall() is called once per whitelisted author, or once for all.
Passes == IF Filtered THEN Whitelist ELSE {AllAuthors}
PassOf(p) == IF Filtered THEN AuthorOf[p] ELSE AllAuthors

(***************************************************************************)
(* Local states                                                            *)
(***************************************************************************)
IdleWalk == [pc |-> "idle", toList |-> {}, fellBack |-> FALSE, passes |-> {},
             pass |-> AllAuthors, todo |-> {}, yielded |-> {}, handed |-> {},
             failed |-> {}]

IdleFetcher == [pc |-> "idle", pulse |-> CHOOSE p \in Pulse : TRUE]

WalkState ==
    [pc : {"idle", "list", "request", "passes", "pulses", "ended"},
     toList : SUBSET Pulse, fellBack : BOOLEAN, passes : SUBSET Passes,
     pass : Passes \union {AllAuthors}, todo : SUBSET Pulse,
     yielded : SUBSET Pulse, handed : SUBSET Pulse,
     failed : SUBSET (Passes \union {AllAuthors})]

FetcherState ==
    [pc : {"idle", "want", "hold", "call", "request", "return"}, pulse : Pulse]

TypeOK ==
    /\ day \in Day
    /\ service \in [Pulse -> Version]
    /\ disk \in [Pulse -> Version]
    /\ permits \in 0..Permits
    /\ pageCount \in 0..MaxListPages + 1
    /\ walk \in WalkState
    /\ queue \subseteq Pulse
    /\ fetcher \in [Fetcher -> FetcherState]
    /\ crashes \in 0..MaxCrashes

Init ==
    /\ day = 0
    /\ service \in [Pulse -> {0, Absent}]
    /\ disk = [p \in Pulse |-> Absent]
    /\ permits = Permits
    /\ pageCount = 0
    /\ walk = IdleWalk
    /\ queue = {}
    /\ fetcher = [f \in Fetcher |-> IdleFetcher]
    /\ crashes = 0

-----------------------------------------------------------------------------
(***************************************************************************)
(* iter_subscribed_pulses, first part: otx.update() walks the list pages   *)
(* of the subscribed feed, each through throttled_get.                     *)
(***************************************************************************)
NobodyFetches == queue = {} /\ \A f \in Fetcher : fetcher[f].pc = "idle"

StartCycle ==
    /\ walk.pc = "idle"
    /\ walk' = [IdleWalk EXCEPT !.pc = "list",
                                !.toList = {p \in Pulse : service[p] # Absent}]
    /\ UNCHANGED <<worldVars, disk, permits, pageCount, queue, fetcher, crashes>>

\* The counter only matters up to the first value beyond the limit.
NextPageCount == IF pageCount > MaxListPages THEN pageCount ELSE pageCount + 1

PageRefused == MaxListPages > 0 /\ NextPageCount > MaxListPages

RequestListPage ==
    /\ walk.pc = "list"
    /\ permits > 0
    /\ ~PageRefused
    /\ permits' = permits - 1
    /\ pageCount' = NextPageCount
    /\ walk' = [walk EXCEPT !.pc = "request"]
    /\ UNCHANGED <<worldVars, disk, queue, fetcher, crashes>>

\* Mutant of RefuseListPage: the empty page names itself as the next one.
RefuseListPageAgain ==
    /\ walk.pc = "list"
    /\ permits > 0
    /\ PageRefused
    /\ pageCount' = NextPageCount
    /\ UNCHANGED <<worldVars, disk, permits, walk, queue, fetcher, crashes>>

\* Beyond OTX_MAX_LIST_PAGES the SDK is given an empty last page, which update()
\* takes for the end of the feed.  The count is never set back.
RefuseListPage ==
    /\ walk.pc = "list"
    /\ permits > 0
    /\ PageRefused
    /\ pageCount' = NextPageCount
    /\ walk' = [walk EXCEPT !.pc = "ended"]
    /\ UNCHANGED <<worldVars, disk, permits, queue, fetcher, crashes>>

\* A page of pulses, of which those of whitelisted authors are saved.  With the
\* last page update() returns, and with it the generator: everything that
\* yields stands in the except clause that follows.
ListPageAnswered ==
    /\ walk.pc = "request"
    /\ \E page \in SUBSET walk.toList :
        /\ \/ Cardinality(page) = PageSize
           \/ page = walk.toList /\ Cardinality(page) < PageSize
        /\ disk' = [p \in Pulse |-> IF p \in page /\ Saved(p) THEN service[p]
                                    ELSE disk[p]]
        /\ walk' = [walk EXCEPT !.toList = @ \ page,
                        !.pc = IF walk.toList \ page = {} THEN "ended" ELSE "list"]
    /\ permits' = permits + 1
    /\ UNCHANGED <<worldVars, pageCount, queue, fetcher, crashes>>

\* A 5xx, a timeout or any other exception out of update(): the generator falls
\* back on what is on disk.
ListPageFails ==
    /\ walk.pc = "request"
    /\ permits' = permits + 1
    /\ walk' = [walk EXCEPT !.pc = "passes", !.fellBack = TRUE, !.passes = Passes]
    /\ UNCHANGED <<worldVars, disk, pageCount, queue, fetcher, crashes>>

-----------------------------------------------------------------------------
(***************************************************************************)
(* iter_subscribed_pulses, second part: the pulses on disk are yielded,    *)
(* author by author, and the caller submits each to its recency filter.    *)
(* ingest.py asks for the next pulse when it is done with the one before.  *)
(* The latest modification time it then writes to Redis is never read.     *)
(***************************************************************************)
CapReached == MaxPulses # NoLimit /\ Cardinality(walk.yielded) >= MaxPulses

CallerReady == Inline => NobodyFetches

BeginPass(a) ==
    /\ walk.pc = "passes"
    /\ a \in walk.passes
    /\ walk' = [walk EXCEPT !.pc = "pulses", !.pass = a, !.passes = @ \ {a},
                    !.todo = {p \in Pulse : PassOf(p) = a /\ disk[p] # Absent}]
    /\ UNCHANGED <<worldVars, disk, permits, pageCount, queue, fetcher, crashes>>

YieldPulse(p) ==
    /\ walk.pc = "pulses"
    /\ p \in walk.todo
    /\ ~CapReached
    /\ CallerReady
    /\ LET kept == IF ShouldProcess(CreatedOf(p), ModifiedOf(p), day) THEN {p} ELSE {}
       IN  /\ walk' = [walk EXCEPT !.todo = @ \ {p}, !.yielded = @ \union {p},
                            !.handed = @ \union kept]
           /\ queue' = queue \union kept
    /\ UNCHANGED <<worldVars, disk, permits, pageCount, fetcher, crashes>>

\* After an author's pulses, the next author's, if there is one.
AfterPass == IF walk.passes = {} THEN "ended" ELSE "passes"

EndPass ==
    /\ walk.pc = "pulses"
    /\ CallerReady
    /\ \/ CapReached /\ walk' = [walk EXCEPT !.pc = "ended"]
       \/ /\ ~CapReached
          /\ walk.todo = {}
          /\ walk' = [walk EXCEPT !.pc = AfterPass]
    /\ UNCHANGED <<worldVars, disk, permits, pageCount, queue, fetcher, crashes>>

\* Mutant of PassFails: an error ends the feed for every author.
PassFailsForAll ==
    /\ walk.pc = "pulses"
    /\ CallerReady
    /\ walk' = [walk EXCEPT !.failed = @ \union {walk.pass}, !.pc = "ended"]
    /\ UNCHANGED <<worldVars, disk, permits, pageCount, queue, fetcher, crashes>>

\* getall() raises: the rest of this author is skipped.  Without a whitelist
\* nothing catches the exception and the cycle ends with it.
PassFails ==
    /\ walk.pc = "pulses"
    /\ CallerReady
    /\ walk' = [walk EXCEPT !.failed = @ \union {walk.pass},
                            !.pc = IF Filtered THEN AfterPass ELSE "ended"]
    /\ UNCHANGED <<worldVars, disk, permits, pageCount, queue, fetcher, crashes>>

\* The generator is exhausted and the fetchers are done: the caller sleeps.
EndCycle ==
    /\ walk.pc = "ended"
    /\ NobodyFetches
    /\ walk' = IdleWalk
    /\ UNCHANGED <<worldVars, disk, permits, pageCount, queue, fetcher, crashes>>

-----------------------------------------------------------------------------
(***************************************************************************)
(* get_pulse_indicators: the semaphore is held around get_pulse_details,   *)
(* and unless the SDK has the details its request goes through             *)
(* throttled_get, which takes the same semaphore.                          *)
(***************************************************************************)
Goto(f, pc) == fetcher' = [fetcher EXCEPT ![f].pc = pc]

TakePulse(f) ==
    /\ fetcher[f].pc = "idle"
    /\ \E p \in queue :
        /\ queue' = queue \ {p}
        /\ fetcher' = [fetcher EXCEPT ![f] = [pc |-> "want", pulse |-> p]]
    /\ UNCHANGED <<worldVars, feedVars, permits, crashes>>

AcquireOuter(f) ==
    /\ fetcher[f].pc = "want"
    /\ permits > 0
    /\ permits' = permits - 1
    /\ Goto(f, "hold")
    /\ UNCHANGED <<worldVars, feedVars, queue, crashes>>

\* The SDK answers from its cache, or turns to the service.
LookUpDetails(f) ==
    /\ fetcher[f].pc = "hold"
    /\ \/ Goto(f, "return")
       \/ Goto(f, "call")
    /\ UNCHANGED <<worldVars, feedVars, permits, queue, crashes>>

\* Mutant of AcquireInner: the request does not count.
AcquireInnerFree(f) ==
    /\ fetcher[f].pc = "call"
    /\ Goto(f, "request")
    /\ UNCHANGED <<worldVars, feedVars, permits, queue, crashes>>

AcquireInner(f) ==
    /\ fetcher[f].pc = "call"
    /\ permits > 0
    /\ permits' = permits - 1
    /\ Goto(f, "request")
    /\ UNCHANGED <<worldVars, feedVars, queue, crashes>>

\* The service answers, or the request fails: the inner with block is left.
DetailsEnd(f) ==
    /\ fetcher[f].pc = "request"
    /\ permits' = permits + 1
    /\ Goto(f, "return")
    /\ UNCHANGED <<worldVars, feedVars, queue, crashes>>

\* The outer with block is left; the caller has a list of indicators, or [].
ReleaseOuter(f) ==
    /\ fetcher[f].pc = "return"
    /\ permits' = permits + 1
    /\ fetcher' = [fetcher EXCEPT ![f] = IdleFetcher]
    /\ UNCHANGED <<worldVars, feedVars, queue, crashes>>

-----------------------------------------------------------------------------
(***************************************************************************)
(* The environment                                                         *)
(***************************************************************************)
NextDay ==
    /\ day < MaxDay
    /\ day' = day + 1
    /\ UNCHANGED <<service, feedVars, permits, queue, fetcher, crashes>>

\* An author publishes a pulse or modifies it.
ModifyPulse(p) ==
    /\ service[p] # day
    /\ service' = [service EXCEPT ![p] = day]
    /\ UNCHANGED <<day, feedVars, permits, queue, fetcher, crashes>>

\* The process dies and is restarted: semaphore and counter are new.
Crash ==
    /\ crashes < MaxCrashes
    /\ walk.pc # "idle"
    /\ disk' = IF ClearCacheOnStart THEN [p \in Pulse |-> Absent] ELSE disk
    /\ permits' = Permits
    /\ pageCount' = 0
    /\ walk' = IdleWalk
    /\ queue' = {}
    /\ fetcher' = [f \in Fetcher |-> IdleFetcher]
    /\ crashes' = crashes + 1
    /\ UNCHANGED worldVars

-----------------------------------------------------------------------------
Update == RequestListPage \/ RefuseListPage \/ ListPageAnswered \/ ListPageFails

FallBack ==
    \/ \E a \in Passes : BeginPass(a)
    \/ \E p \in Pulse : YieldPulse(p)
    \/ EndPass
    \/ PassFails

Fetch(f) ==
    \/ TakePulse(f)
    \/ AcquireOuter(f)
    \/ LookUpDetails(f)
    \/ AcquireInner(f)
    \/ DetailsEnd(f)
    \/ ReleaseOuter(f)

Environment ==
    \/ NextDay
    \/ \E p \in Revised : ModifyPulse(p)
    \/ Crash

Next ==
    \/ StartCycle
    \/ Update
    \/ FallBack
    \/ EndCycle
    \/ \E f \in Fetcher : Fetch(f)
    \/ Environment

Spec == Init /\ [][Next]_vars

(***************************************************************************)
(* Fairness.  The scheduler's loop and every thread that can step do.      *)
(* Waiters of a semaphore are served in turn, so a thread that could take  *)
(* a permit again and again does.  Requests end, because each has a        *)
(* timeout.  Nothing is assumed of the service, Redis or crashes.          *)
(***************************************************************************)
CycleFairness ==
    /\ WF_vars(StartCycle)
    /\ WF_vars(Update)
    /\ SF_vars(RequestListPage \/ RefuseListPage)
    /\ WF_vars(FallBack)
    /\ WF_vars(EndCycle)

FetchFairness ==
    \A f \in Fetcher :
        /\ WF_vars(Fetch(f))
        /\ SF_vars(AcquireOuter(f))
        /\ SF_vars(AcquireInner(f))

FairSpec == Spec /\ CycleFairness /\ FetchFairness

-----------------------------------------------------------------------------
(***************************************************************************)
(* Properties                                                              *)
(***************************************************************************)
InFlight ==
    Cardinality({f \in Fetcher : fetcher[f].pc = "request"})
    + (IF walk.pc = "request" THEN 1 ELSE 0)

\* However many threads fetch and whatever fails, no more than
\* OTX_MAX_CONCURRENT_REQUESTS requests are out at once, and the walk of the list
\* pages is among those the semaphore counts.
RequestsBounded == InFlight <= Permits

\* Some thread that has a permit, or needs none, can go on.
SomeoneCanStep ==
    \/ permits > 0
    \/ walk.pc = "request"
    \/ \E f \in Fetcher : fetcher[f].pc \in {"hold", "request", "return"}

\* Config.OTX_MAX_CONCURRENT_REQUESTS (settings.py:60-63) calls one permit fully
\* serialised: the threads would never all wait for permits that the others hold.
\* get_pulse_indicators takes the semaphore twice, and with as many threads in it as
\* there are permits they do (README, section 6).
SomeoneProceeds == SomeoneCanStep

\* What a standstill looks like: every permit is the outer one of a fetcher, and
\* each of these fetchers waits for its second.
Nested == {f \in Fetcher : fetcher[f].pc = "call"}
StandstillIsNested == ~SomeoneCanStep => Cardinality(Nested) = Permits

\* pulse_decay.py's rule, in its own words: created or modified within the last
\* MaxAgeDays days; without any timestamp, allowed unless strict.
Fresh(p) ==
    \/ ~DecayEnabled \/ MaxAgeDays <= 0
    \/ p \in Undated /\ ~StrictMissing
    \/ p \notin Undated /\ \E d \in {Created[p], disk[p]} : day - d <= MaxAgeDays

\* What a finished feed owes its caller: every pulse on disk that is still fresh
\* has been handed over, unless its own author's listing failed or the limit of
\* pulses was reached.
HandedOver ==
    \A p \in Pulse :
        (disk[p] # Absent /\ Saved(p) /\ PassOf(p) \notin walk.failed
            /\ ~CapReached /\ Fresh(p)) => p \in walk.handed

\* After a failed update, a failing author costs only that author's pulses, and
\* neither the passage of time nor the fetchers make the feed lose one.
FallbackComplete == walk.pc = "ended" /\ walk.fellBack => HandedOver

\* The same of any cycle, one whose update succeeded included.
FeedComplete == walk.pc = "ended" => HandedOver

\* The recency filter never drops a pulse that OTX has modified within its window.
RecentNotDropped ==
    \A p \in walk.yielded \ walk.handed :
        service[p] # Absent => day - service[p] > MaxAgeDays

\* A cycle that begins with pulses on the service lists some of them.
EveryCycleLists == [][~RefuseListPage]_vars

\* Every cycle comes to its end: no thread stays behind in a request or waiting
\* for the semaphore, so that the scheduler gets to its next cycle.
CyclesEnd == walk.pc # "idle" ~> walk.pc = "idle"

=============================================================================
