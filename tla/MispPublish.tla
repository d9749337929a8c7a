---------------------------- MODULE MispPublish ----------------------------
(***************************************************************************)
(* taxii2misp's batches (taxii2misp/main.py, process_batch_groupings).     *)
(*                                                                         *)
(* A batch of STIX objects is filtered by the Redis set of processed       *)
(* groupings, each grouping left is converted to a MISP event, and a pool  *)
(* of workers adds the events to MISP and marks their groupings.  Nothing  *)
(* ties the two stores together: the answer of MISP or the mark can be     *)
(* lost, and the process can die between them.                             *)
(*                                                                         *)
(* The conversion is STIXProcessor's fallback, one event for a grouping;   *)
(* the converter library in the requirements has none of the functions     *)
(* that are tried before it.                                               *)
(***************************************************************************)
EXTENDS Integers, FiniteSets

CONSTANTS
    Grouping,       \* STIX groupings of the collection
    Indicator,      \* STIX indicators of the collection
    Other,          \* other STIX objects of the collection: identities
    Refs,           \* object_refs of each grouping
    Name,           \* name of each grouping, the info of its event
    Unwanted,       \* groupings with a name EventQualityFilter skips
    Threat,         \* indicators that become attributes of a threat type
    Malformed,      \* objects that stix2.parse refuses
    Refused,        \* indicators whose attribute PyMISP refuses to make
    Foreign,        \* names of events that MISP has from elsewhere
    Batch,          \* batches of objects the walk of the collection yields
    Worker,         \* the MISP_PARALLEL_WORKERS threads
    DupCheck,       \* MISP_PARALLEL_DUP_CHECK
    SearchMayFail,  \* TRUE: the search for duplicates may fail, or not have the
                    \* event among the 20 matches it looks at
    MispMayFail,    \* TRUE: MISP may refuse an event, its answer may be lost
    RedisMayFail,   \* TRUE: Redis calls may fail
    MaxEvents,      \* bound on MISP events
    MaxStops        \* bound on process deaths and shutdowns

ASSUME MispPublishAssumption ==
    /\ Grouping \intersect (Indicator \union Other) = {}
    /\ Indicator \intersect Other = {}
    /\ \A g \in Grouping, is \in SUBSET Indicator : g # is
    /\ Refs \in [Grouping -> SUBSET Indicator]
    /\ DOMAIN Name = Grouping
    /\ Unwanted \subseteq Grouping
    /\ Threat \subseteq Indicator
    /\ Refused \subseteq Indicator
    /\ Malformed \subseteq Grouping \union Indicator \union Other
    /\ Batch \subseteq SUBSET (Grouping \union Indicator \union Other)
    /\ MaxEvents \in Nat /\ MaxStops \in Nat
    /\ {DupCheck, SearchMayFail, MispMayFail, RedisMayFail} \subseteq BOOLEAN

(***************************************************************************)
(* A batch of indicators without a grouping gets a synthetic one, whose id *)
(* is a hash of the indicators' ids.  It is represented by their set.      *)
(***************************************************************************)
Id == Grouping \union ((SUBSET Indicator) \ {{}})

RefsOf(id) == IF id \in Grouping THEN Refs[id] ELSE id

\* The name of a synthetic grouping tells how many indicators it has, of what kind
\* and day; kind and day are the same here.
NameOf(id) == IF id \in Grouping THEN Name[id] ELSE [indicators |-> Cardinality(id)]

\* extract_grouping_objects: the memory store, and the groupings of a batch.
Store(batch) == batch \ Malformed

\* Mutant of Groupings: a grouping is made up even if the batch has no indicators.
GroupingsOfNothing(batch) ==
    IF batch \intersect Grouping # {} THEN batch \intersect Grouping
    ELSE {Store(batch) \intersect Indicator}

Groupings(batch) ==
    IF batch \intersect Grouping # {}
    THEN {g \in batch \intersect Grouping : Store(batch) # {}}
    ELSE {Store(batch) \intersect Indicator} \ {{}}

\* The indicators of a grouping that its event gets as attributes.
Attributes(id, batch) ==
    IF id \in Malformed THEN {} ELSE RefsOf(id) \intersect Store(batch)

\* An event of comments and text only is not published, nor is an unwanted name.
Published(id, attrs) == attrs \intersect Threat # {} /\ id \notin Unwanted

\* An exception while the attributes are added ends the grouping's event.  The event
\* of all the bundle's indicators that is tried instead has the same attributes.
Buildable(attrs) == attrs \intersect Refused = {}

\* What becomes of a grouping of a batch: a work unit, or nothing.
UnitsOf(id, batch) ==
    {u \in {[id |-> id, attrs |-> Attributes(id, batch)]} :
        Buildable(u.attrs) /\ Published(u.id, u.attrs)}

Offered == UNION {UNION {UnitsOf(id, batch) : id \in Groupings(batch)} : batch \in Batch}

VARIABLES
    events,     \* MISP's events
    processed,  \* Redis set taxii2misp:processed_groupings
    main,       \* the main thread
    worker,     \* worker -> what it is doing
    stopping,   \* a shutdown has been requested
    stops,      \* process deaths and shutdowns so far
    excused     \* ids whose event the process could not learn of, or whose mark
                \* it could not write or read (not in the code)

vars == <<events, processed, main, worker, stopping, stops, excused>>

Unit == [id : Id, attrs : SUBSET Indicator]

IdleMain == [pc |-> "idle", batch |-> {}, todo |-> {}, units |-> {}]

IdleWorker == [pc |-> "idle", unit |-> [id |-> {}, attrs |-> {}]]

TypeOK ==
    /\ events \subseteq [n : 1..MaxEvents, id : Id, attrs : SUBSET Indicator]
    /\ processed \subseteq Id
    /\ main \in [pc : {"idle", "convert", "publish"}, batch : Batch \union {{}},
                 todo : SUBSET Id, units : SUBSET Unit]
    /\ worker \in [Worker -> {IdleWorker} \union
                             [pc : {"check", "add", "mark"}, unit : Unit]]
    /\ stopping \in BOOLEAN
    /\ stops \in 0..MaxStops
    /\ excused \subseteq Id

Init ==
    /\ events = {}
    /\ processed = {}
    /\ main = IdleMain
    /\ worker = [w \in Worker |-> IdleWorker]
    /\ stopping = FALSE
    /\ stops = 0
    /\ excused = {}

EventsOf(id) == {e \in events : e.id = id}

-----------------------------------------------------------------------------
\* Mutant of Unprocessed: the filter is not applied.
UnprocessedAll(ids, known) == ids

Unprocessed(ids, known) == ids \ known

\* The walk yields a batch; if Redis fails, no grouping counts as processed.
ReceiveBatch(batch) ==
    /\ main.pc = "idle"
    /\ ~stopping
    /\ \E known \in {processed} \union (IF RedisMayFail THEN {{}} ELSE {}) :
        /\ main' = [pc |-> "convert", batch |-> batch, units |-> {},
                    todo |-> Unprocessed(Groupings(batch), known)]
        /\ excused' = excused \union ((processed \ known) \intersect Groupings(batch))
    /\ UNCHANGED <<events, processed, worker, stopping, stops>>

\* One grouping becomes a work unit, or is dropped.
Convert(id) ==
    /\ main.pc = "convert"
    /\ ~stopping
    /\ id \in main.todo
    /\ main' = [main EXCEPT !.todo = @ \ {id}, !.units = @ \union UnitsOf(id, main.batch)]
    /\ UNCHANGED <<events, processed, worker, stopping, stops, excused>>

\* All groupings, or those before the shutdown request, go to the workers.
StartPublishing ==
    /\ main.pc = "convert"
    /\ main.todo = {} \/ stopping
    /\ main' = IF main.units = {} THEN IdleMain
               ELSE [main EXCEPT !.pc = "publish", !.todo = {}]
    /\ UNCHANGED <<events, processed, worker, stopping, stops, excused>>

\* Mutant of EndBatch: the main thread does not wait for the workers.
EndBatchEarly ==
    /\ main.pc = "publish"
    /\ main.units = {}
    /\ main' = IdleMain
    /\ UNCHANGED <<events, processed, worker, stopping, stops, excused>>

\* The executor has run every unit, and the walk is asked for the next batch.
EndBatch ==
    /\ main.pc = "publish"
    /\ main.units = {}
    /\ \A w \in Worker : worker[w].pc = "idle"
    /\ main' = IdleMain
    /\ UNCHANGED <<events, processed, worker, stopping, stops, excused>>

-----------------------------------------------------------------------------
(***************************************************************************)
(* _publish_one, in a worker.                                              *)
(***************************************************************************)
Goto(w, pc) == worker' = [worker EXCEPT ![w].pc = pc]

Finish(w) == worker' = [worker EXCEPT ![w] = IdleWorker]

TakeUnit(w) ==
    /\ main.pc = "publish"
    /\ worker[w].pc = "idle"
    /\ \E u \in main.units :
        /\ main' = [main EXCEPT !.units = @ \ {u}]
        /\ worker' = [worker EXCEPT ![w] = [pc |-> IF DupCheck THEN "check" ELSE "add",
                                            unit |-> u]]
    /\ UNCHANGED <<events, processed, stopping, stops, excused>>

\* Mutant of IsDuplicate: only the ids in Redis are looked at.
IsDuplicateMarked(id) == id \in processed

\* An event of that name is in MISP, whatever it was made from.
IsDuplicate(id) == NameOf(id) \in Foreign \/ \E e \in events : NameOf(e.id) = NameOf(id)

\* The search: a duplicate is left alone, and its grouping is not marked.
CheckDuplicate(w) ==
    /\ worker[w].pc = "check"
    /\ \/ IsDuplicate(worker[w].unit.id) /\ Finish(w)
       \/ ~IsDuplicate(worker[w].unit.id) /\ Goto(w, "add")
       \/ SearchMayFail /\ Goto(w, "add")
    /\ UNCHANGED <<events, processed, main, stopping, stops, excused>>

\* MISP stores the event under a new number.  MaxEvents bounds the model.
Create(unit) ==
    /\ Cardinality(events) < MaxEvents
    /\ events' = events \union
            {[n |-> Cardinality(events) + 1, id |-> unit.id, attrs |-> unit.attrs]}

AddEvent(w) ==
    /\ worker[w].pc = "add"
    /\ Create(worker[w].unit)
    /\ Goto(w, "mark")
    /\ UNCHANGED <<processed, main, stopping, stops, excused>>

\* Mutant of AddRefused: the grouping is marked although MISP has no event.
AddRefusedMarks(w) ==
    /\ MispMayFail
    /\ worker[w].pc = "add"
    /\ Goto(w, "mark")
    /\ UNCHANGED <<events, processed, main, stopping, stops, excused>>

\* MISP answers with errors, or the request does not reach it.
AddRefused(w) ==
    /\ MispMayFail
    /\ worker[w].pc = "add"
    /\ Finish(w)
    /\ UNCHANGED <<events, processed, main, stopping, stops, excused>>

\* MISP stores the event, but the answer is lost or cannot be read.
AnswerLost(w) ==
    /\ MispMayFail
    /\ worker[w].pc = "add"
    /\ Create(worker[w].unit)
    /\ Finish(w)
    /\ excused' = excused \union {worker[w].unit.id}
    /\ UNCHANGED <<processed, main, stopping, stops>>

\* The duplicate checker and then main.py mark the grouping.
Mark(w) ==
    /\ worker[w].pc = "mark"
    /\ processed' = processed \union {worker[w].unit.id}
    /\ Finish(w)
    /\ UNCHANGED <<events, main, stopping, stops, excused>>

\* Both marks fail: a warning is logged, the event counts as pushed.
MarkFails(w) ==
    /\ RedisMayFail
    /\ worker[w].pc = "mark"
    /\ Finish(w)
    /\ excused' = excused \union {worker[w].unit.id}
    /\ UNCHANGED <<events, processed, main, stopping, stops>>

-----------------------------------------------------------------------------
\* A signal asks the process to stop: the batch at hand is cut short.
RequestShutdown ==
    /\ stops < MaxStops
    /\ ~stopping
    /\ stopping' = TRUE
    /\ stops' = stops + 1
    /\ UNCHANGED <<events, processed, main, worker, excused>>

\* The process has stopped, and is started again.
Restart ==
    /\ stopping
    /\ main.pc = "idle"
    /\ stopping' = FALSE
    /\ UNCHANGED <<events, processed, main, worker, stops, excused>>

\* The process dies in the middle of a batch, and is started again.
Crash ==
    /\ stops < MaxStops
    /\ main.pc # "idle"
    /\ main' = IdleMain
    /\ worker' = [w \in Worker |-> IdleWorker]
    /\ stopping' = FALSE
    /\ stops' = stops + 1
    /\ excused' = excused \union
            {worker[w].unit.id : w \in {v \in Worker : worker[v].pc = "mark"}}
    /\ UNCHANGED <<events, processed>>

Main ==
    \/ \E id \in main.todo : Convert(id)
    \/ StartPublishing
    \/ EndBatch

Work(w) ==
    \/ TakeUnit(w)
    \/ CheckDuplicate(w)
    \/ AddEvent(w)
    \/ AddRefused(w)
    \/ AnswerLost(w)
    \/ Mark(w)
    \/ MarkFails(w)

Next ==
    \/ \E batch \in Batch : ReceiveBatch(batch)
    \/ Main
    \/ \E w \in Worker : Work(w)
    \/ RequestShutdown
    \/ Restart
    \/ Crash

Spec == Init /\ [][Next]_vars

(***************************************************************************)
(* Fairness.  Threads go on, and the process is started again.  The walk   *)
(* yields every batch again and again.  A grouping that is offered to MISP *)
(* again and again is accepted in the end.                                 *)
(***************************************************************************)
Accepted(id) == \E w \in Worker : worker[w].unit.id = id /\ AddEvent(w)

FairSpec ==
    /\ Spec
    /\ WF_vars(Main) /\ WF_vars(Restart)
    /\ \A w \in Worker : WF_vars(Work(w))
    /\ \A batch \in Batch : SF_vars(ReceiveBatch(batch))
    /\ \A id \in Grouping : SF_vars(Accepted(id))

-----------------------------------------------------------------------------
(***************************************************************************)
(* Properties                                                              *)
(***************************************************************************)

\* A grouping that is marked, and so never looked at again, has an event in MISP, with
\* exactly those of its indicators that came in one batch with it.
PublishedAsOffered ==
    \A id \in processed :
        \E e \in EventsOf(id) : [id |-> id, attrs |-> e.attrs] \in Offered

\* It has all of its indicators in MISP, but for those stix2 cannot parse.  The walk
\* cuts its batches without regard to groupings, and the code does not see to it.
PublishedInFull ==
    \A id \in processed :
        RefsOf(id) \ Malformed \subseteq UNION {e.attrs : e \in EventsOf(id)}

\* No grouping gets a second event, unless MISP's answer or a mark in Redis was lost.
SecondEventExcused ==
    \A e, f \in events : e.id = f.id /\ e # f => e.id \in excused

\* With the search for duplicates, no grouping gets a second event even then.
OneEventPerGrouping ==
    \A e, f \in events : e.id = f.id => e = f

\* Whatever the collection keeps offering, and the filters let through, gets an event.
EventuallyPublished ==
    \A id \in Grouping :
        NameOf(id) \notin Foreign /\ (\E u \in Offered : u.id = id)
            => <>(EventsOf(id) # {})
-----------------------------------------------------------------------------
(***************************************************************************)
(* What the batches come to: Publication, with MISP's events as what has   *)
(* been published, and as the contents of an id what the batches offer of  *)
(* it.  It holds if the search for duplicates works.                       *)
(***************************************************************************)
WorthAnEvent == {u.id : u \in Offered}

Contents == [id \in WorthAnEvent |-> {u.attrs : u \in {v \in Offered : v.id = id}}]

P == INSTANCE Publication WITH Id <- WorthAnEvent, published <- events, marked <- processed

\* Whatever is lost, refused or killed, and however the workers interleave: MISP
\* gets one event per grouping, with what one batch brings of it, and a grouping is
\* marked only when it has its event.
PublicationSpec == P!Spec
=============================================================================
