------------------------- MODULE MispPublishProofs -------------------------
(***************************************************************************)
(* Proofs about MispPublish, for all groupings, batches, pool sizes and    *)
(* bounds, and with every fault.                                           *)
(***************************************************************************)
EXTENDS MispPublish, FiniteSetTheorems, TLAPS

LEMMA IdsOfBatch ==
    ASSUME NEW batch \in Batch
    PROVE  Groupings(batch) \subseteq Id
BY DEF Groupings, Store, Id

LEMMA AttributesOfId ==
    ASSUME NEW id \in Id, NEW batch
    PROVE  Attributes(id, batch) \subseteq Indicator
<1>1. RefsOf(id) \subseteq Indicator
    BY MispPublishAssumption DEF MispPublishAssumption, RefsOf, Id
<1>. QED BY <1>1 DEF Attributes

LEMMA UnitsAreUnits ==
    ASSUME NEW id \in Id, NEW batch
    PROVE  /\ UnitsOf(id, batch) \subseteq Unit
           /\ \A u \in UnitsOf(id, batch) : u.id = id
BY AttributesOfId DEF UnitsOf, Unit

LEMMA IdleTypes ==
    /\ IdleMain \in [pc : {"idle", "convert", "publish"}, batch : Batch \union {{}},
                     todo : SUBSET Id, units : SUBSET Unit]
    /\ \A w : IdleWorker.pc = "idle"
BY DEF IdleMain, IdleWorker

(***************************************************************************)
(* Type correctness.  The numbers of events need their set to be finite.   *)
(***************************************************************************)
TypeInv == TypeOK /\ IsFiniteSet(events)

LEMMA TypeInit == Init => TypeInv
<1>1. IsFiniteSet({})
    BY FS_EmptySet
<1>2. MaxStops \in Nat
    BY MispPublishAssumption DEF MispPublishAssumption
<1>3. 0 \in 0..MaxStops
    BY <1>2
<1>4. ASSUME Init
      PROVE  worker \in [Worker -> {IdleWorker} \union
                                 [pc : {"check", "add", "mark"}, unit : Unit]]
    BY <1>4 DEF Init
<1>5. ASSUME Init
      PROVE  TypeOK
    BY <1>3, <1>4, <1>5, IdleTypes DEF Init, TypeOK
<1>. QED BY <1>1, <1>5 DEF Init, TypeInv

LEMMA CreateTypes ==
    ASSUME TypeInv, NEW u \in Unit, Create(u)
    PROVE  /\ events' \subseteq [n : 1..MaxEvents, id : Id, attrs : SUBSET Indicator]
           /\ IsFiniteSet(events')
<1>1. Cardinality(events) \in Nat /\ MaxEvents \in Nat
    BY FS_CardinalityType, MispPublishAssumption DEF TypeInv, MispPublishAssumption
<1>2. Cardinality(events) + 1 \in 1..MaxEvents
    BY <1>1 DEF Create
<1>3. [n |-> Cardinality(events) + 1, id |-> u.id, attrs |-> u.attrs]
        \in [n : 1..MaxEvents, id : Id, attrs : SUBSET Indicator]
    BY <1>2 DEF Unit
<1>4. IsFiniteSet(events')
    BY FS_AddElement DEF TypeInv, Create
<1>. QED BY <1>3, <1>4 DEF Create, TypeInv, TypeOK

LEMMA WorkerTypes ==
    ASSUME TypeOK, NEW w \in Worker, NEW pc \in {"check", "add", "mark"},
           \/ Finish(w)
           \/ Goto(w, pc) /\ worker[w].unit \in Unit
    PROVE  worker' \in [Worker -> {IdleWorker} \union
                                  [pc : {"check", "add", "mark"}, unit : Unit]]
<1>1. CASE Finish(w)
    BY <1>1 DEF Finish, TypeOK
<1>2. CASE Goto(w, pc) /\ worker[w].unit \in Unit
    <2>1. worker' = [worker EXCEPT ![w] = [worker[w] EXCEPT !.pc = pc]]
        BY <1>2 DEF Goto
    <2>2. [worker[w] EXCEPT !.pc = pc] \in [pc : {"check", "add", "mark"}, unit : Unit]
        BY <1>2 DEF TypeOK, IdleWorker
    <2>. QED BY <2>1, <2>2 DEF TypeOK
<1>. QED BY <1>1, <1>2

LEMMA TypeStep == TypeInv /\ [Next]_vars => TypeInv'
<1>. SUFFICES ASSUME TypeInv, [Next]_vars
              PROVE  TypeInv'
    OBVIOUS
<1>. USE DEF TypeInv, TypeOK
<1>1. ASSUME NEW batch \in Batch, ReceiveBatch(batch)
      PROVE  TypeInv'
    BY <1>1, IdsOfBatch DEF ReceiveBatch, Unprocessed
<1>2. ASSUME NEW id \in main.todo, Convert(id)
      PROVE  TypeInv'
    <2>1. id \in Id
        OBVIOUS
    <2>2. UnitsOf(id, main.batch) \subseteq Unit
        BY <2>1, UnitsAreUnits
    <2>. QED BY <1>2, <2>2 DEF Convert
<1>3. ASSUME StartPublishing
      PROVE  TypeInv'
    BY <1>3, IdleTypes DEF StartPublishing
<1>4. ASSUME EndBatch
      PROVE  TypeInv'
    BY <1>4, IdleTypes DEF EndBatch
<1>5. ASSUME NEW w \in Worker, TakeUnit(w)
      PROVE  TypeInv'
    BY <1>5 DEF TakeUnit
<1>6. ASSUME NEW w \in Worker, CheckDuplicate(w)
      PROVE  TypeInv'
    <2>1. worker[w].unit \in Unit
        BY <1>6 DEF CheckDuplicate, IdleWorker
    <2>2. Finish(w) \/ Goto(w, "add")
        BY <1>6 DEF CheckDuplicate
    <2>. QED BY <1>6, <2>1, <2>2, WorkerTypes DEF CheckDuplicate
<1>7. ASSUME NEW w \in Worker, worker[w].pc # "idle"
      PROVE  worker[w].unit \in Unit
    BY <1>7 DEF IdleWorker
<1>8. ASSUME NEW w \in Worker, AddEvent(w)
      PROVE  TypeInv'
    <2>1. worker[w].unit \in Unit
        BY <1>7, <1>8 DEF AddEvent
    <2>2. /\ events' \subseteq [n : 1..MaxEvents, id : Id, attrs : SUBSET Indicator]
          /\ IsFiniteSet(events')
        BY <1>8, <2>1, CreateTypes DEF AddEvent
    <2>. QED BY <1>8, <2>1, <2>2, WorkerTypes DEF AddEvent
<1>9. ASSUME NEW w \in Worker, AddRefused(w)
      PROVE  TypeInv'
    BY <1>9, WorkerTypes DEF AddRefused
<1>10. ASSUME NEW w \in Worker, AnswerLost(w)
       PROVE  TypeInv'
    <2>1. worker[w].unit \in Unit
        BY <1>7, <1>10 DEF AnswerLost
    <2>2. /\ events' \subseteq [n : 1..MaxEvents, id : Id, attrs : SUBSET Indicator]
          /\ IsFiniteSet(events')
        BY <1>10, <2>1, CreateTypes DEF AnswerLost
    <2>3. excused' \subseteq Id
        BY <1>10, <2>1 DEF AnswerLost, Unit
    <2>. QED BY <1>10, <2>2, <2>3, WorkerTypes DEF AnswerLost
<1>11. ASSUME NEW w \in Worker, Mark(w)
       PROVE  TypeInv'
    <2>1. processed' \subseteq Id
        BY <1>7, <1>11 DEF Mark, Unit
    <2>. QED BY <1>11, <2>1, WorkerTypes DEF Mark
<1>12. ASSUME NEW w \in Worker, MarkFails(w)
       PROVE  TypeInv'
    <2>1. excused' \subseteq Id
        BY <1>7, <1>12 DEF MarkFails, Unit
    <2>. QED BY <1>12, <2>1, WorkerTypes DEF MarkFails
<1>13. ASSUME RequestShutdown
       PROVE  TypeInv'
    BY <1>13, MispPublishAssumption DEF RequestShutdown, MispPublishAssumption
<1>14. ASSUME Restart
       PROVE  TypeInv'
    BY <1>14 DEF Restart
<1>15. ASSUME Crash
       PROVE  TypeInv'
    <2>1. \A w \in Worker : worker[w].pc = "mark" => worker[w].unit.id \in Id
        BY <1>7 DEF Unit
    <2>2. excused' \subseteq Id
        BY <1>15, <2>1 DEF Crash
    <2>3. stops' \in 0..MaxStops
        BY <1>15, MispPublishAssumption DEF Crash, MispPublishAssumption
    <2>. QED BY <1>15, <2>2, <2>3, IdleTypes DEF Crash
<1>16. ASSUME UNCHANGED vars
       PROVE  TypeInv'
    BY <1>16 DEF vars
<1>. QED BY <1>1, <1>2, <1>3, <1>4, <1>5, <1>6, <1>8, <1>9, <1>10, <1>11, <1>12,
            <1>13, <1>14, <1>15, <1>16
         DEF Next, Main, Work

LEMMA TypeInvariant == Spec => []TypeInv
BY TypeInit, TypeStep, PTL DEF Spec

\* Every variable keeps its type; MISP's events are numbered within the bound.
THEOREM TypeCorrect == Spec => []TypeOK
<1>1. TypeInv => TypeOK
    BY DEF TypeInv
<1>. QED BY <1>1, TypeInvariant, PTL

(***************************************************************************)
(* A grouping is in one place at a time: to be converted, in a work unit,  *)
(* or in the hands of one worker.                                          *)
(***************************************************************************)
Busy(w) == worker[w].pc # "idle"

\* Workers are at work, and units wait for them, in the phases that say so.
Phases ==
    /\ main.pc = "idle" => main.todo = {} /\ main.units = {}
    /\ main.pc = "publish" => main.todo = {}
    /\ main.pc # "publish" => \A w \in Worker : worker[w].pc = "idle"

\* Work units, groupings to be converted and workers have different ids.
Apart ==
    /\ \A u \in main.units : u.id \notin main.todo
    /\ \A u, v \in main.units : u.id = v.id => u = v
    /\ \A w \in Worker, u \in main.units : Busy(w) => worker[w].unit.id # u.id
    /\ \A v, w \in Worker :
            Busy(v) /\ Busy(w) /\ worker[v].unit.id = worker[w].unit.id => v = w

AloneInv == TypeInv /\ Phases /\ Apart

\* What moving on, finishing and taking a unit change.
LEMMA WorkerEffects ==
    ASSUME TypeOK, NEW w \in Worker
    PROVE  /\ \A pc : Goto(w, pc) =>
                /\ worker'[w].pc = pc /\ worker'[w].unit = worker[w].unit
                /\ \A v \in Worker \ {w} : worker'[v] = worker[v]
           /\ Finish(w) =>
                /\ worker'[w].pc = "idle"
                /\ \A v \in Worker \ {w} : worker'[v] = worker[v]
<1>1. ASSUME NEW pc, Goto(w, pc)
      PROVE  /\ worker'[w].pc = pc /\ worker'[w].unit = worker[w].unit
             /\ \A v \in Worker \ {w} : worker'[v] = worker[v]
    <2>1. worker' = [worker EXCEPT ![w] = [worker[w] EXCEPT !.pc = pc]]
        BY <1>1 DEF Goto
    <2>2. /\ worker'[w] = [worker[w] EXCEPT !.pc = pc]
          /\ \A v \in Worker \ {w} : worker'[v] = worker[v]
        BY <2>1 DEF TypeOK
    <2>3. worker[w] \in {IdleWorker} \union [pc : {"check", "add", "mark"}, unit : Unit]
        BY DEF TypeOK
    <2>4. /\ [worker[w] EXCEPT !.pc = pc].pc = pc
          /\ [worker[w] EXCEPT !.pc = pc].unit = worker[w].unit
        BY <2>3 DEF IdleWorker
    <2>. QED BY <2>2, <2>4
<1>2. ASSUME Finish(w)
      PROVE  /\ worker'[w].pc = "idle"
             /\ \A v \in Worker \ {w} : worker'[v] = worker[v]
    BY <1>2 DEF Finish, TypeOK, IdleWorker
<1>. QED BY <1>1, <1>2

LEMMA TakeUnitEffects ==
    ASSUME TypeOK, NEW w \in Worker, TakeUnit(w)
    PROVE  \E u \in main.units :
                /\ main'.units = main.units \ {u} /\ main'.todo = main.todo
                /\ main'.batch = main.batch /\ main'.pc = main.pc
                /\ worker'[w].pc = (IF DupCheck THEN "check" ELSE "add")
                /\ worker'[w].unit = u
                /\ \A v \in Worker \ {w} : worker'[v] = worker[v]
BY DEF TakeUnit, TypeOK

LEMMA ConvertEffects ==
    ASSUME TypeOK, NEW id \in main.todo, Convert(id)
    PROVE  /\ main'.todo = main.todo \ {id} /\ main'.batch = main.batch
           /\ main'.pc = main.pc
           /\ main'.units = main.units \union UnitsOf(id, main.batch)
           /\ \A u \in UnitsOf(id, main.batch) : u.id = id
BY UnitsAreUnits DEF Convert, TypeOK

LEMMA StartEffects ==
    ASSUME TypeOK, StartPublishing
    PROVE  \/ main' = IdleMain
           \/ main'.pc = "publish" /\ main'.todo = {} /\ main'.units = main.units
<1>1. CASE main.units = {}
    BY <1>1 DEF StartPublishing
<1>2. CASE main.units # {}
    <2>1. main' = [main EXCEPT !.pc = "publish", !.todo = {}]
        BY <1>2 DEF StartPublishing
    <2>. QED BY <2>1 DEF TypeOK
<1>. QED BY <1>1, <1>2

LEMMA AloneInit == Init => AloneInv
BY TypeInit DEF Init, AloneInv, Phases, Apart, Busy, IdleMain, IdleWorker

\* A worker that moves on, or becomes idle, stays alone with its unit.
LEMMA AloneWork ==
    ASSUME AloneInv, NEW w \in Worker, Busy(w), main' = main,
           \/ Finish(w)
           \/ \E pc \in {"check", "add", "mark"} : Goto(w, pc)
    PROVE  Phases' /\ Apart'
<1>. USE DEF AloneInv, TypeInv
<1>1. Phases'
    BY DEF Phases, Busy
<1>2. Apart'
    BY WorkerEffects DEF Apart, Busy
<1>. QED BY <1>1, <1>2

LEMMA AloneStep == AloneInv /\ [Next]_vars => AloneInv'
<1>. SUFFICES ASSUME AloneInv, [Next]_vars
              PROVE  Phases' /\ Apart'
    BY TypeStep DEF AloneInv
<1>. USE DEF AloneInv, TypeInv
<1>1. ASSUME NEW batch \in Batch, ReceiveBatch(batch)
      PROVE  Phases' /\ Apart'
    BY <1>1 DEF ReceiveBatch, Phases, Apart, Busy
<1>2. ASSUME NEW id \in main.todo, Convert(id)
      PROVE  Phases' /\ Apart'
    <2>1. main.pc = "convert" /\ main'.pc = "convert" /\ worker' = worker
        BY <1>2, ConvertEffects DEF Convert
    <2>2. Phases'
        BY <2>1 DEF Phases
    <2>3. \A w \in Worker : ~Busy(w) /\ ~Busy(w)'
        BY <2>1 DEF Phases, Busy
    <2>4. \A u \in main'.units : u \in main.units \/ u.id = id
        BY <1>2, ConvertEffects
    <2>5. main'.todo = main.todo \ {id}
        BY <1>2, ConvertEffects
    <2>6. \A u, v \in UnitsOf(id, main.batch) : u = v
        BY DEF UnitsOf
    <2>7. \A u \in main'.units : u \in main.units \/ u \in UnitsOf(id, main.batch)
        BY <1>2, ConvertEffects
    <2>8. \A u \in main.units : u.id # id
        BY DEF Apart
    <2>. QED BY <2>2, <2>3, <2>4, <2>5, <2>6, <2>7, <2>8 DEF Apart
<1>3. ASSUME StartPublishing
      PROVE  Phases' /\ Apart'
    BY <1>3, StartEffects DEF StartPublishing, IdleMain, Phases, Apart, Busy
<1>4. ASSUME EndBatch
      PROVE  Phases' /\ Apart'
    BY <1>4 DEF EndBatch, IdleMain, Phases, Apart, Busy
<1>5. ASSUME NEW w \in Worker, TakeUnit(w)
      PROVE  Phases' /\ Apart'
    BY <1>5, TakeUnitEffects DEF TakeUnit, Phases, Apart, Busy
<1>6. ASSUME NEW w \in Worker, CheckDuplicate(w)
      PROVE  Phases' /\ Apart'
    BY <1>6, AloneWork DEF CheckDuplicate, Busy
<1>7. ASSUME NEW w \in Worker, AddEvent(w) \/ AddRefused(w) \/ AnswerLost(w)
      PROVE  Phases' /\ Apart'
    BY <1>7, AloneWork DEF AddEvent, AddRefused, AnswerLost, Busy
<1>8. ASSUME NEW w \in Worker, Mark(w) \/ MarkFails(w)
      PROVE  Phases' /\ Apart'
    BY <1>8, AloneWork DEF Mark, MarkFails, Busy
<1>9. ASSUME RequestShutdown \/ Restart \/ UNCHANGED vars
      PROVE  Phases' /\ Apart'
    BY <1>9 DEF RequestShutdown, Restart, vars, Phases, Apart, Busy
<1>10. ASSUME Crash
       PROVE  Phases' /\ Apart'
    BY <1>10 DEF Crash, IdleMain, IdleWorker, Phases, Apart, Busy
<1>. QED BY <1>1, <1>2, <1>3, <1>4, <1>5, <1>6, <1>7, <1>8, <1>9, <1>10
         DEF Next, Main, Work

(***************************************************************************)
(* An event that nobody is excused for is known: its grouping is marked or *)
(* a worker is about to mark it, and nobody is about to add another.       *)
(***************************************************************************)
NoEvent(id) == id \in excused \/ \A e \in events : e.id # id

Known ==
    \A e \in events :
        \/ e.id \in excused \union processed
        \/ \E w \in Worker : worker[w].pc = "mark" /\ worker[w].unit.id = e.id

Untried ==
    /\ \A id \in main.todo : NoEvent(id)
    /\ \A u \in main.units : NoEvent(u.id)
    /\ \A w \in Worker : worker[w].pc \in {"check", "add"} => NoEvent(worker[w].unit.id)

OnceInv == AloneInv /\ Known /\ Untried /\ SecondEventExcused

LEMMA OnceInit == Init => OnceInv
BY AloneInit DEF Init, OnceInv, Known, Untried, SecondEventExcused, IdleMain, IdleWorker

LEMMA OnceStep == OnceInv /\ [Next]_vars => OnceInv'
<1>. SUFFICES ASSUME OnceInv, [Next]_vars
              PROVE  Known' /\ Untried' /\ SecondEventExcused'
    BY AloneStep DEF OnceInv
<1>. USE DEF OnceInv, AloneInv, TypeInv
<1>1. ASSUME NEW batch \in Batch, ReceiveBatch(batch)
      PROVE  Known' /\ Untried' /\ SecondEventExcused'
    <2>1. \A w \in Worker : worker[w].pc = "idle"
        BY <1>1 DEF ReceiveBatch, Phases
    <2>2. \A e \in events : e.id \in excused \union processed
        BY <2>1 DEF Known
    <2>3. PICK known :
            /\ main' = [pc |-> "convert", batch |-> batch, units |-> {},
                        todo |-> Groupings(batch) \ known]
            /\ excused' = excused \union ((processed \ known) \intersect Groupings(batch))
        BY <1>1 DEF ReceiveBatch, Unprocessed
    <2>4. events' = events /\ processed' = processed /\ worker' = worker
        BY <1>1 DEF ReceiveBatch
    <2>5. \A id \in main'.todo : NoEvent(id)'
        BY <2>2, <2>3, <2>4 DEF NoEvent
    <2>6. main'.units = {}
        BY <2>3
    <2>. QED BY <2>1, <2>3, <2>4, <2>5, <2>6 DEF Known, Untried, SecondEventExcused
<1>2. ASSUME NEW id \in main.todo, Convert(id)
      PROVE  Known' /\ Untried' /\ SecondEventExcused'
    <2>1. /\ events' = events /\ processed' = processed
          /\ worker' = worker /\ excused' = excused
        BY <1>2 DEF Convert
    <2>2. \A u \in main'.units : u \in main.units \/ u.id = id
        BY <1>2, ConvertEffects
    <2>3. main'.todo \subseteq main.todo
        BY <1>2, ConvertEffects
    <2>. QED BY <2>1, <2>2, <2>3 DEF Known, Untried, NoEvent, SecondEventExcused
<1>3. ASSUME StartPublishing
      PROVE  Known' /\ Untried' /\ SecondEventExcused'
    BY <1>3, StartEffects
    DEF StartPublishing, IdleMain, Known, Untried, NoEvent, SecondEventExcused
<1>4. ASSUME EndBatch
      PROVE  Known' /\ Untried' /\ SecondEventExcused'
    BY <1>4 DEF EndBatch, IdleMain, Known, Untried, NoEvent, SecondEventExcused
<1>5. ASSUME NEW w \in Worker, TakeUnit(w)
      PROVE  Known' /\ Untried' /\ SecondEventExcused'
    BY <1>5, TakeUnitEffects DEF TakeUnit, Known, Untried, NoEvent, SecondEventExcused
<1>6. ASSUME NEW w \in Worker, CheckDuplicate(w) \/ AddRefused(w)
      PROVE  Known' /\ Untried' /\ SecondEventExcused'
    BY <1>6, WorkerEffects
    DEF CheckDuplicate, AddRefused, Known, Untried, NoEvent, SecondEventExcused
<1>7. ASSUME NEW w \in Worker, worker[w].pc = "add", Create(worker[w].unit)
      PROVE  /\ \E n : events' = events \union
                        {[n |-> n, id |-> worker[w].unit.id, attrs |-> worker[w].unit.attrs]}
             /\ NoEvent(worker[w].unit.id)
             /\ main.todo = {}
             /\ \A u \in main.units : u.id # worker[w].unit.id
             /\ \A v \in Worker \ {w} : Busy(v) => worker[v].unit.id # worker[w].unit.id
    BY <1>7 DEF Create, Untried, Apart, Phases, Busy
<1>8. ASSUME NEW w \in Worker, AddEvent(w)
      PROVE  Known' /\ Untried' /\ SecondEventExcused'
    <2>1. /\ main' = main /\ processed' = processed /\ excused' = excused
          /\ worker'[w].pc = "mark" /\ worker'[w].unit = worker[w].unit
          /\ \A v \in Worker \ {w} : worker'[v] = worker[v]
          /\ worker[w].pc = "add" /\ Create(worker[w].unit)
        BY <1>8, WorkerEffects DEF AddEvent
    <2>. QED BY <1>7, <2>1 DEF Known, Untried, NoEvent, SecondEventExcused, Busy
<1>9. ASSUME NEW w \in Worker, AnswerLost(w)
      PROVE  Known' /\ Untried' /\ SecondEventExcused'
    <2>1. /\ main' = main /\ processed' = processed
          /\ excused' = excused \union {worker[w].unit.id}
          /\ worker'[w].pc = "idle"
          /\ \A v \in Worker \ {w} : worker'[v] = worker[v]
          /\ worker[w].pc = "add" /\ Create(worker[w].unit)
        BY <1>9, WorkerEffects DEF AnswerLost
    <2>. QED BY <1>7, <2>1 DEF Known, Untried, NoEvent, SecondEventExcused, Busy
<1>10. ASSUME NEW w \in Worker, Mark(w) \/ MarkFails(w)
       PROVE  Known' /\ Untried' /\ SecondEventExcused'
    <2>1. /\ main' = main /\ events' = events
          /\ excused \subseteq excused' /\ processed \subseteq processed'
          /\ worker[w].unit.id \in excused' \union processed'
          /\ worker'[w].pc = "idle"
          /\ \A v \in Worker \ {w} : worker'[v] = worker[v]
        BY <1>10, WorkerEffects DEF Mark, MarkFails
    <2>. QED BY <2>1 DEF Known, Untried, NoEvent, SecondEventExcused
<1>11. ASSUME RequestShutdown \/ Restart \/ UNCHANGED vars
       PROVE  Known' /\ Untried' /\ SecondEventExcused'
    BY <1>11
    DEF RequestShutdown, Restart, vars, Known, Untried, NoEvent, SecondEventExcused
<1>12. ASSUME Crash
       PROVE  Known' /\ Untried' /\ SecondEventExcused'
    BY <1>12
    DEF Crash, IdleMain, IdleWorker, Known, Untried, NoEvent, SecondEventExcused
<1>13. ASSUME NEW w \in Worker, Work(w)
       PROVE  Known' /\ Untried' /\ SecondEventExcused'
    BY <1>5, <1>6, <1>8, <1>9, <1>10, <1>13 DEF Work
<1>. QED BY <1>1, <1>2, <1>3, <1>4, <1>11, <1>12, <1>13 DEF Next, Main

\* No grouping gets a second event in MISP, however the workers interleave and
\* whatever fails, unless MISP's answer or the mark of the first one was lost.
THEOREM SecondEventIsExcused == Spec => []SecondEventExcused
<1>1. OnceInv => SecondEventExcused
    BY DEF OnceInv
<1>. QED BY <1>1, OnceInit, OnceStep, PTL DEF Spec

(***************************************************************************)
(* The search for duplicates, when it works, sees every event of the       *)
(* grouping: no other worker has it.                                       *)
(***************************************************************************)
Searched ==
    \A w \in Worker : worker[w].pc = "add" => \A e \in events : e.id # worker[w].unit.id

CheckedInv == AloneInv /\ Searched /\ OneEventPerGrouping

LEMMA CheckedInit == Init => CheckedInv
BY AloneInit DEF Init, CheckedInv, Searched, OneEventPerGrouping, IdleMain, IdleWorker

LEMMA CheckedStep ==
    ASSUME DupCheck, ~SearchMayFail
    PROVE  CheckedInv /\ [Next]_vars => CheckedInv'
<1>. SUFFICES ASSUME CheckedInv, [Next]_vars
              PROVE  Searched' /\ OneEventPerGrouping'
    BY AloneStep DEF CheckedInv
<1>. USE DEF CheckedInv, AloneInv, TypeInv
<1>1. CASE UNCHANGED <<events, worker>>
    BY <1>1 DEF Searched, OneEventPerGrouping
<1>2. ASSUME NEW w \in Worker, TakeUnit(w)
      PROVE  Searched' /\ OneEventPerGrouping'
    BY <1>2, TakeUnitEffects DEF TakeUnit, Searched, OneEventPerGrouping
<1>3. ASSUME NEW w \in Worker, CheckDuplicate(w)
      PROVE  Searched' /\ OneEventPerGrouping'
    <2>1. events' = events
        BY <1>3 DEF CheckDuplicate
    <2>2. Finish(w) \/ (Goto(w, "add") /\ \A e \in events : e.id # worker[w].unit.id)
        BY <1>3 DEF CheckDuplicate, IsDuplicate
    <2>. QED BY <2>1, <2>2, WorkerEffects DEF Searched, OneEventPerGrouping
<1>4. ASSUME NEW w \in Worker, AddEvent(w) \/ AnswerLost(w)
      PROVE  Searched' /\ OneEventPerGrouping'
    <2>1. worker[w].pc = "add" /\ Create(worker[w].unit)
        BY <1>4 DEF AddEvent, AnswerLost
    <2>2. /\ worker'[w].pc # "add"
          /\ \A v \in Worker \ {w} : worker'[v] = worker[v]
        BY <1>4, WorkerEffects DEF AddEvent, AnswerLost
    <2>3. \A e \in events : e.id # worker[w].unit.id
        BY <2>1 DEF Searched
    <2>4. \A v \in Worker \ {w} : worker[v].pc = "add" => worker[v].unit.id # worker[w].unit.id
        BY <2>1 DEF Apart, Busy
    <2>5. PICK n : events' = events \union
                {[n |-> n, id |-> worker[w].unit.id, attrs |-> worker[w].unit.attrs]}
        BY <2>1 DEF Create
    <2>. QED BY <2>2, <2>3, <2>4, <2>5 DEF Searched, OneEventPerGrouping
<1>5. ASSUME NEW w \in Worker, AddRefused(w) \/ Mark(w) \/ MarkFails(w)
      PROVE  Searched' /\ OneEventPerGrouping'
    BY <1>5, WorkerEffects DEF AddRefused, Mark, MarkFails, Searched, OneEventPerGrouping
<1>6. CASE Crash
    BY <1>6 DEF Crash, IdleWorker, Searched, OneEventPerGrouping
<1>. QED BY <1>1, <1>2, <1>3, <1>4, <1>5, <1>6
         DEF Next, Main, Work, ReceiveBatch, Convert, StartPublishing, EndBatch,
             RequestShutdown, Restart, vars

\* With a search for duplicates that works, a grouping gets one event at most, even
\* if MISP's answers and the marks in Redis are lost.
THEOREM OneEvent ==
    ASSUME DupCheck, ~SearchMayFail
    PROVE  Spec => []OneEventPerGrouping
<1>1. CheckedInv => OneEventPerGrouping
    BY DEF CheckedInv
<1>2. CheckedInv /\ [Next]_vars => CheckedInv'
    BY CheckedStep
<1>. QED BY <1>1, <1>2, CheckedInit, PTL DEF Spec

(***************************************************************************)
(* What is published is what some batch offers, and what is to be marked   *)
(* is in MISP as it was offered.                                           *)
(***************************************************************************)
InMisp(id) == \E e \in EventsOf(id) : [id |-> id, attrs |-> e.attrs] \in Offered

OfferedInv ==
    /\ TypeInv
    /\ main.todo # {} => main.batch \in Batch /\ main.todo \subseteq Groupings(main.batch)
    /\ main.units \subseteq Offered
    /\ \A w \in Worker : Busy(w) => worker[w].unit \in Offered
    /\ \A w \in Worker : worker[w].pc = "mark" => InMisp(worker[w].unit.id)
    /\ PublishedAsOffered

LEMMA OfferedUnits == \A u \in Offered : u = [id |-> u.id, attrs |-> u.attrs]
<1>. SUFFICES ASSUME NEW u \in Offered
              PROVE  u = [id |-> u.id, attrs |-> u.attrs]
    OBVIOUS
<1>1. PICK batch \in Batch : u \in UNION {UnitsOf(id, batch) : id \in Groupings(batch)}
    BY DEF Offered
<1>2. PICK id \in Groupings(batch) : u \in UnitsOf(id, batch)
    BY <1>1
<1>3. u = [id |-> id, attrs |-> Attributes(id, batch)]
    BY <1>2 DEF UnitsOf
<1>. QED BY <1>3

LEMMA MoreEvents ==
    ASSUME events \subseteq events', NEW id, InMisp(id)
    PROVE  InMisp(id)'
BY DEF InMisp, EventsOf

LEMMA OfferedInit == Init => OfferedInv
BY TypeInit DEF Init, OfferedInv, PublishedAsOffered, Busy, IdleMain, IdleWorker

LEMMA OfferedStep == OfferedInv /\ [Next]_vars => OfferedInv'
<1>. SUFFICES ASSUME OfferedInv, [Next]_vars
              PROVE  OfferedInv'
    OBVIOUS
<1>0. TypeInv'
    BY TypeStep DEF OfferedInv
<1>. USE DEF TypeInv
<1>1. ASSUME NEW batch \in Batch, ReceiveBatch(batch)
      PROVE  OfferedInv'
    <2>1. /\ main'.batch = batch /\ main'.units = {}
          /\ main'.todo \subseteq Groupings(batch)
        BY <1>1 DEF ReceiveBatch, Unprocessed
    <2>2. /\ worker' = worker /\ processed' = processed /\ events' = events
        BY <1>1 DEF ReceiveBatch
    <2>. QED BY <1>0, <2>1, <2>2
             DEF OfferedInv, PublishedAsOffered, InMisp, EventsOf, Busy
<1>2. ASSUME NEW id \in main.todo, Convert(id)
      PROVE  OfferedInv'
    <2>1. main.batch \in Batch /\ id \in Groupings(main.batch)
        BY DEF OfferedInv
    <2>2. UnitsOf(id, main.batch) \subseteq Offered
        BY <2>1 DEF Offered
    <2>3. /\ main'.todo \subseteq main.todo /\ main'.batch = main.batch
          /\ main'.units = main.units \union UnitsOf(id, main.batch)
        BY <1>2, ConvertEffects DEF OfferedInv
    <2>4. /\ worker' = worker /\ processed' = processed /\ events' = events
        BY <1>2 DEF Convert
    <2>. QED BY <1>0, <2>2, <2>3, <2>4
             DEF OfferedInv, PublishedAsOffered, InMisp, EventsOf, Busy
<1>3. ASSUME StartPublishing \/ EndBatch \/ RequestShutdown \/ Restart \/ UNCHANGED vars
      PROVE  OfferedInv'
    <2>1. /\ worker' = worker /\ processed' = processed /\ events' = events
          /\ \/ main' = main
             \/ main' = IdleMain
             \/ main'.todo = {} /\ main'.units = main.units
        BY <1>3, StartEffects
        DEF StartPublishing, EndBatch, RequestShutdown, Restart, vars, OfferedInv
    <2>. QED BY <1>0, <2>1
             DEF OfferedInv, PublishedAsOffered, InMisp, EventsOf, Busy, IdleMain
<1>4. ASSUME NEW w \in Worker, TakeUnit(w)
      PROVE  OfferedInv'
    <2>1. TypeOK /\ worker[w].pc = "idle"
        BY <1>4 DEF TakeUnit, OfferedInv
    <2>2. PICK u \in main.units :
            /\ main'.units = main.units \ {u} /\ main'.todo = main.todo
            /\ main'.batch = main.batch
            /\ worker'[w].pc \in {"check", "add"} /\ worker'[w].unit = u
            /\ \A v \in Worker \ {w} : worker'[v] = worker[v]
        BY <1>4, <2>1, TakeUnitEffects
    <2>3. processed' = processed /\ events' = events
        BY <1>4 DEF TakeUnit
    <2>. QED BY <1>0, <2>2, <2>3
             DEF OfferedInv, PublishedAsOffered, InMisp, EventsOf, Busy
<1>5. ASSUME NEW w \in Worker, CheckDuplicate(w) \/ AddRefused(w) \/ MarkFails(w)
      PROVE  OfferedInv'
    <2>1. /\ main' = main /\ processed' = processed /\ events' = events
          /\ \A v \in Worker \ {w} : worker'[v] = worker[v]
          /\ \/ worker'[w].pc = "idle"
             \/ worker'[w].pc = "add" /\ worker'[w].unit = worker[w].unit /\ Busy(w)
        BY <1>5, WorkerEffects DEF CheckDuplicate, AddRefused, MarkFails, Busy, OfferedInv
    <2>. QED BY <1>0, <2>1
             DEF OfferedInv, PublishedAsOffered, InMisp, EventsOf, Busy
<1>6. ASSUME NEW w \in Worker, AddEvent(w) \/ AnswerLost(w)
      PROVE  OfferedInv'
    <2>1. /\ main' = main /\ processed' = processed
          /\ \A v \in Worker \ {w} : worker'[v] = worker[v]
          /\ \/ worker'[w].pc = "idle"
             \/ worker'[w].pc = "mark" /\ worker'[w].unit = worker[w].unit
          /\ worker[w].pc = "add" /\ Create(worker[w].unit)
        BY <1>6, WorkerEffects DEF AddEvent, AnswerLost, OfferedInv
    <2>2. events \subseteq events'
        BY <2>1 DEF Create
    <2>3. \A id : InMisp(id) => InMisp(id)'
        BY <2>2, MoreEvents
    <2>4. worker[w].unit \in Offered
        BY <2>1 DEF OfferedInv, Busy
    <2>5. ASSUME NEW id, id = worker[w].unit.id
          PROVE  InMisp(id)'
        <3>. DEFINE e == [n |-> Cardinality(events) + 1, id |-> worker[w].unit.id,
                          attrs |-> worker[w].unit.attrs]
        <3>1. e \in events'
            BY <2>1 DEF Create
        <3>2. e.id = id /\ e.attrs = worker[w].unit.attrs
            BY <2>5
        <3>. HIDE DEF e
        <3>3. worker[w].unit = [id |-> worker[w].unit.id, attrs |-> worker[w].unit.attrs]
            BY <2>4, OfferedUnits
        <3>4. [id |-> id, attrs |-> e.attrs] \in Offered
            BY <2>4, <2>5, <3>2, <3>3
        <3>. QED BY <3>1, <3>2, <3>4 DEF InMisp, EventsOf
    <2>6. worker'[w].pc = "mark" => InMisp(worker[w].unit.id)'
        BY <2>1, <2>5
    <2>7. PublishedAsOffered'
        BY <2>1, <2>3 DEF OfferedInv, PublishedAsOffered, InMisp
    <2>8. /\ main'.units \subseteq Offered
          /\ main'.todo # {} => /\ main'.batch \in Batch
                                 /\ main'.todo \subseteq Groupings(main'.batch)
        BY <2>1 DEF OfferedInv
    <2>9. ASSUME NEW v \in Worker
          PROVE  /\ Busy(v)' => worker'[v].unit \in Offered
                 /\ worker'[v].pc = "mark" => InMisp(worker[v].unit.id)'
        <3>1. CASE v = w
            BY <2>1, <2>4, <2>6, <3>1 DEF Busy
        <3>2. CASE v # w
            <4>1. worker'[v] = worker[v]
                BY <2>1, <3>2
            <4>2. Busy(v)' <=> Busy(v)
                BY <4>1 DEF Busy
            <4>. QED BY <2>3, <4>1, <4>2 DEF OfferedInv
        <3>. QED BY <3>1, <3>2
    <2>. QED BY <1>0, <2>7, <2>8, <2>9 DEF OfferedInv
<1>7. ASSUME NEW w \in Worker, Mark(w)
      PROVE  OfferedInv'
    <2>1. /\ main' = main /\ processed' = processed \union {worker[w].unit.id}
          /\ events' = events /\ worker'[w].pc = "idle" /\ worker[w].pc = "mark"
          /\ \A v \in Worker \ {w} : worker'[v] = worker[v]
        BY <1>7, WorkerEffects DEF Mark, OfferedInv
    <2>. QED BY <1>0, <2>1
             DEF OfferedInv, PublishedAsOffered, InMisp, EventsOf, Busy
<1>8. ASSUME Crash
      PROVE  OfferedInv'
    BY <1>0, <1>8
    DEF Crash, IdleMain, IdleWorker, OfferedInv, PublishedAsOffered, InMisp, EventsOf, Busy
<1>. QED BY <1>1, <1>2, <1>3, <1>4, <1>5, <1>6, <1>7, <1>8 DEF Next, Main, Work

\* A grouping is marked processed only when MISP has an event of it with exactly what
\* one of the walk's batches, however they are cut, brings of its indicators, under
\* every fault and in every interleaving of the workers.
THEOREM MarkedIsPublished == Spec => []PublishedAsOffered
<1>1. OfferedInv => PublishedAsOffered
    BY DEF OfferedInv
<1>. QED BY <1>1, OfferedInit, OfferedStep, PTL DEF Spec

-----------------------------------------------------------------------------
(***************************************************************************)
(* The refinement: adding an event publishes its grouping, whether MISP's  *)
(* answer arrives or not, marking a grouping marks it, and everything else *)
(* is a stutter.                                                           *)
(***************************************************************************)
LEMMA PublishStep ==
    ASSUME CheckedInv, OfferedInv, NEW w \in Worker, AddEvent(w) \/ AnswerLost(w)
    PROVE  \E id \in WorthAnEvent : P!Publish(id)
<1>. DEFINE u == worker[w].unit
<1>1. worker[w].pc = "add" /\ Create(u) /\ processed' = processed
    BY DEF AddEvent, AnswerLost
<1>2. u \in Offered
    BY <1>1 DEF OfferedInv, Busy
<1>3. u.id \in WorthAnEvent /\ u.attrs \in Contents[u.id]
    BY <1>2 DEF Contents, WorthAnEvent
<1>4. \A e \in events : e.id # u.id
    BY <1>1 DEF CheckedInv, Searched
<1>5. events' = events \union
            {[n |-> Cardinality(events) + 1, id |-> u.id, attrs |-> u.attrs]}
    BY <1>1 DEF Create
<1>6. P!Publish(u.id)
    BY <1>1, <1>3, <1>4, <1>5 DEF P!Publish, P!Cardinality, Cardinality
<1>. QED BY <1>3, <1>6

LEMMA MarkStep ==
    ASSUME OfferedInv, NEW w \in Worker, Mark(w)
    PROVE  \E id \in WorthAnEvent : P!Mark(id)
<1>1. /\ worker[w].pc = "mark" /\ events' = events
      /\ processed' = processed \union {worker[w].unit.id}
    BY DEF Mark
<1>2. worker[w].unit.id \in WorthAnEvent
    BY <1>1 DEF OfferedInv, Busy, WorthAnEvent
<1>3. \E e \in events : e.id = worker[w].unit.id
    BY <1>1 DEF OfferedInv, InMisp, EventsOf
<1>. QED BY <1>1, <1>2, <1>3 DEF P!Mark

LEMMA PublicationStep ==
    ASSUME CheckedInv, OfferedInv, [Next]_vars
    PROVE  [P!Next]_P!vars
<1>1. ASSUME NEW w \in Worker, AddEvent(w) \/ AnswerLost(w) \/ Mark(w)
      PROVE  P!Next
    BY <1>1, PublishStep, MarkStep DEF P!Next
<1>2. CASE UNCHANGED <<events, processed>>
    BY <1>2 DEF P!vars
<1>. QED
    BY <1>1, <1>2
    DEF Next, Main, Work, ReceiveBatch, Convert, StartPublishing, EndBatch, TakeUnit,
        CheckDuplicate, AddRefused, MarkFails, RequestShutdown, Restart, Crash, vars

\* With a search for duplicates that works, taxii2misp publishes every grouping at most
\* once, with what one batch brings of it, and marks it only then: lost answers, lost
\* marks, refusals, shutdowns and crashes in any order included.
THEOREM PublishesOnce ==
    ASSUME DupCheck, ~SearchMayFail
    PROVE  Spec => PublicationSpec
<1>1. Init => P!Init
    BY DEF Init, P!Init
<1>2. CheckedInv /\ OfferedInv /\ [Next]_vars => [P!Next]_P!vars
    BY PublicationStep
<1>3. CheckedInv /\ [Next]_vars => CheckedInv'
    BY CheckedStep
<1>4. OfferedInv /\ [Next]_vars => OfferedInv'
    BY OfferedStep
<1>. QED BY <1>1, <1>2, <1>3, <1>4, CheckedInit, OfferedInit, PTL
         DEF Spec, PublicationSpec, P!Spec
=============================================================================
