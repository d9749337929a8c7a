-------------------------- MODULE OtxClientProofs --------------------------
(***************************************************************************)
(* The semaphore of the OTX client, for any number of permits and threads: *)
(* it bounds the requests, and only its nesting can stop all threads, as   *)
(* many of them as there are permits.  And the feed read from disk, which  *)
(* loses nothing its caller is owed.                                       *)
(***************************************************************************)
EXTENDS OtxClient, FiniteSetTheorems, TLAPS

(***************************************************************************)
(* The permits that have been taken: one by each thread inside the outer   *)
(* with block, one more by each that is in a request, one by the walk of   *)
(* the list pages.                                                         *)
(***************************************************************************)
Outer == {f \in Fetcher : fetcher[f].pc \in {"hold", "call", "request", "return"}}
Inner == {f \in Fetcher : fetcher[f].pc = "request"}
Listing == IF walk.pc = "request" THEN 1 ELSE 0

Accounted == permits + Cardinality(Outer) + Cardinality(Inner) + Listing = Permits

\* TypeOK without the bound on the permits, which rests on Accounted.
Types ==
    /\ day \in Day
    /\ service \in [Pulse -> Version]
    /\ disk \in [Pulse -> Version]
    /\ permits \in Nat
    /\ pageCount \in 0..MaxListPages + 1
    /\ walk \in WalkState
    /\ queue \subseteq Pulse
    /\ fetcher \in [Fetcher -> FetcherState]
    /\ crashes \in 0..MaxCrashes

IInv == Types /\ Accounted

-----------------------------------------------------------------------------
LEMMA HoldersFinite ==
    /\ IsFiniteSet(Outer) /\ Cardinality(Outer) \in Nat
    /\ IsFiniteSet(Inner) /\ Cardinality(Inner) \in Nat
<1>1. Outer \subseteq Fetcher /\ Inner \subseteq Fetcher
  BY DEF Outer, Inner
<1>2. IsFiniteSet(Fetcher)
  BY OtxClientAssumption DEF OtxClientAssumption
<1> QED
  BY <1>1, <1>2, FS_Subset, FS_CardinalityType

\* The bound on the permits follows from the accounting.
LEMMA InvImpliesTypeOK == IInv => TypeOK
<1>1. SUFFICES ASSUME IInv PROVE permits \in 0..Permits
  BY <1>1 DEF IInv, Types, TypeOK
<1>2. Permits \in Nat
  BY OtxClientAssumption DEF OtxClientAssumption
<1> QED
  BY <1>1, <1>2, HoldersFinite DEF IInv, Types, Accounted, Listing

LEMMA IdleFetcherType == IdleFetcher \in FetcherState
  BY OtxClientAssumption DEF OtxClientAssumption, IdleFetcher, FetcherState

LEMMA IdleWalkType == IdleWalk \in WalkState
  BY DEF IdleWalk, WalkState

LEMMA InitEstablishesInv == Init => IInv
<1> SUFFICES ASSUME Init PROVE IInv
  OBVIOUS
<1> USE OtxClientAssumption DEF OtxClientAssumption
<1>1. day \in Day /\ crashes \in 0..MaxCrashes /\ pageCount \in 0..MaxListPages + 1
  BY DEF Init, Day
<1>2. service \in [Pulse -> Version] /\ disk \in [Pulse -> Version]
  BY DEF Init, Version, Day
<1>3. walk \in WalkState /\ fetcher \in [Fetcher -> FetcherState] /\ queue \subseteq Pulse
  BY IdleFetcherType, IdleWalkType DEF Init
<1>4. permits = Permits /\ Permits \in Nat
  BY DEF Init
<1>5. Outer = {} /\ Inner = {} /\ Listing = 0
  BY DEF Init, Outer, Inner, Listing, IdleFetcher, IdleWalk
<1> QED
  BY <1>1, <1>2, <1>3, <1>4, <1>5, FS_EmptySet DEF IInv, Types, Accounted

-----------------------------------------------------------------------------
(***************************************************************************)
(* The walk of the list pages and the passes over the disk: the fetchers   *)
(* stay where they are.                                                    *)
(***************************************************************************)
LEMMA HoldersUnchanged ==
    ASSUME UNCHANGED fetcher PROVE Outer' = Outer /\ Inner' = Inner
  BY DEF Outer, Inner

LEMMA WalkKeepsInv ==
    ASSUME IInv, StartCycle \/ Update \/ FallBack \/ EndCycle
    PROVE  IInv'
<1> USE OtxClientAssumption DEF OtxClientAssumption
<1>0. Types /\ Accounted /\ Permits \in Nat
  BY DEF IInv
<1>1. UNCHANGED <<fetcher, day, service, crashes>>
  BY DEF StartCycle, Update, FallBack, EndCycle, RequestListPage, RefuseListPage,
         ListPageAnswered, ListPageFails, BeginPass, YieldPulse, EndPass, PassFails,
         worldVars
<1>2. Outer' = Outer /\ Inner' = Inner
  BY <1>1, HoldersUnchanged
<1>3. Cardinality(Outer) \in Nat /\ Cardinality(Inner) \in Nat
  BY HoldersFinite
<1>4. CASE StartCycle
  <2>1. walk' \in WalkState
    BY <1>4, IdleWalkType DEF StartCycle, IdleWalk, WalkState
  <2>2. Listing' = Listing
    BY <1>4 DEF StartCycle, Listing, IdleWalk
  <2> QED
    BY <1>0, <1>1, <1>2, <1>4, <2>1, <2>2 DEF StartCycle, IInv, Types, Accounted
<1>5. CASE RequestListPage
  <2>1. walk' \in WalkState
    BY <1>0, <1>5 DEF RequestListPage, Types, WalkState
  <2>2. Listing = 0 /\ Listing' = 1
    BY <1>0, <1>5 DEF RequestListPage, Listing, Types, WalkState
  <2>3. pageCount' \in 0..MaxListPages + 1
    BY <1>0, <1>5 DEF RequestListPage, NextPageCount, Types
  <2> QED
    BY <1>0, <1>1, <1>2, <1>3, <1>5, <2>1, <2>2, <2>3
       DEF RequestListPage, IInv, Types, Accounted
<1>6. CASE RefuseListPage
  <2>1. walk' \in WalkState
    BY <1>0, <1>6 DEF RefuseListPage, Types, WalkState
  <2>2. Listing = 0 /\ Listing' = 0
    BY <1>0, <1>6 DEF RefuseListPage, Listing, Types, WalkState
  <2>3. pageCount' \in 0..MaxListPages + 1
    BY <1>0, <1>6 DEF RefuseListPage, NextPageCount, Types
  <2> QED
    BY <1>0, <1>1, <1>2, <1>6, <2>1, <2>2, <2>3
       DEF RefuseListPage, IInv, Types, Accounted
<1>7. CASE ListPageAnswered
  <2>1. PICK page \in SUBSET walk.toList :
          /\ disk' = [p \in Pulse |-> IF p \in page /\ Saved(p) THEN service[p]
                                      ELSE disk[p]]
          /\ walk' = [walk EXCEPT !.toList = @ \ page,
                          !.pc = IF walk.toList \ page = {} THEN "ended" ELSE "list"]
    BY <1>7 DEF ListPageAnswered
  <2>2. walk' \in WalkState
    BY <1>0, <2>1 DEF Types, WalkState
  <2>3. disk' \in [Pulse -> Version]
    BY <1>0, <2>1 DEF Types
  <2>4. Listing = 1 /\ Listing' = 0
    BY <1>0, <1>7, <2>1 DEF ListPageAnswered, Listing, Types, WalkState
  <2> QED
    BY <1>0, <1>1, <1>2, <1>3, <1>7, <2>2, <2>3, <2>4
       DEF ListPageAnswered, IInv, Types, Accounted
<1>8. CASE ListPageFails
  <2>1. walk' \in WalkState
    BY <1>0, <1>8 DEF ListPageFails, Types, WalkState
  <2>2. Listing = 1 /\ Listing' = 0
    BY <1>0, <1>8 DEF ListPageFails, Listing, Types, WalkState
  <2> QED
    BY <1>0, <1>1, <1>2, <1>3, <1>8, <2>1, <2>2
       DEF ListPageFails, IInv, Types, Accounted
<1>9. CASE FallBack
  <2>1. walk' \in WalkState
    <3>1. ASSUME NEW a \in Passes, BeginPass(a) PROVE walk' \in WalkState
      BY <1>0, <3>1 DEF BeginPass, Types, WalkState
    <3>2. ASSUME NEW p \in Pulse, YieldPulse(p) PROVE walk' \in WalkState
      BY <1>0, <3>2 DEF YieldPulse, Types, WalkState
    <3>3. CASE EndPass
      BY <1>0, <3>3 DEF EndPass, AfterPass, Types, WalkState
    <3>4. CASE PassFails
      BY <1>0, <3>4 DEF PassFails, AfterPass, Types, WalkState
    <3> QED
      BY <1>9, <3>1, <3>2, <3>3, <3>4 DEF FallBack
  <2>2. UNCHANGED <<permits, disk, pageCount>>
    BY <1>9 DEF FallBack, BeginPass, YieldPulse, EndPass, PassFails
  <2>3. queue' \subseteq Pulse
    BY <1>0, <1>9 DEF FallBack, BeginPass, YieldPulse, EndPass, PassFails, Types
  <2>4. walk.pc # "request" /\ walk'.pc # "request"
    BY <1>0, <1>9 DEF FallBack, BeginPass, YieldPulse, EndPass, PassFails, AfterPass,
                      Types, WalkState
  <2>5. Listing = 0 /\ Listing' = 0
    BY <2>4 DEF Listing
  <2> QED
    BY <1>0, <1>1, <1>2, <2>1, <2>2, <2>3, <2>5 DEF IInv, Types, Accounted
<1>10. CASE EndCycle
  <2>1. Listing = 0 /\ Listing' = 0
    BY <1>10 DEF EndCycle, Listing, IdleWalk
  <2> QED
    BY <1>0, <1>1, <1>2, <1>10, <2>1, IdleWalkType DEF EndCycle, IInv, Types, Accounted
<1> QED
  BY <1>4, <1>5, <1>6, <1>7, <1>8, <1>9, <1>10 DEF Update

-----------------------------------------------------------------------------
(***************************************************************************)
(* A fetcher moves through get_pulse_indicators.                           *)
(***************************************************************************)
\* One fetcher joins a set of finitely many, or leaves it.
LEMMA OneMore ==
    ASSUME NEW S, IsFiniteSet(S), NEW f, f \notin S
    PROVE  Cardinality(S \union {f}) = Cardinality(S) + 1
  BY FS_AddElement

LEMMA OneLess ==
    ASSUME NEW S, IsFiniteSet(S), NEW f, f \in S
    PROVE  Cardinality(S \ {f}) = Cardinality(S) - 1
  BY FS_RemoveElement

LEMMA FetchKeepsInv ==
    ASSUME IInv, NEW f \in Fetcher, Fetch(f) PROVE IInv'
<1> USE OtxClientAssumption DEF OtxClientAssumption
<1>0. Types /\ Accounted /\ Permits \in Nat
  BY DEF IInv
<1>1. /\ UNCHANGED <<day, service, disk, pageCount, walk, crashes>>
      /\ Listing' = Listing /\ Listing \in Nat
  BY DEF Fetch, TakePulse, AcquireOuter, LookUpDetails, AcquireInner, DetailsEnd,
         ReleaseOuter, worldVars, feedVars, Listing
<1>2. queue' \subseteq Pulse
  BY <1>0 DEF Fetch, TakePulse, AcquireOuter, LookUpDetails, AcquireInner, DetailsEnd,
              ReleaseOuter, Types
<1>3. fetcher' \in [Fetcher -> FetcherState]
  BY <1>0, IdleFetcherType
     DEF Fetch, TakePulse, AcquireOuter, LookUpDetails, AcquireInner, DetailsEnd,
         ReleaseOuter, Goto, Types, FetcherState
<1>4. \A g \in Fetcher \ {f} : fetcher'[g] = fetcher[g]
  BY <1>0 DEF Fetch, TakePulse, AcquireOuter, LookUpDetails, AcquireInner, DetailsEnd,
              ReleaseOuter, Goto, Types
<1>5. /\ IsFiniteSet(Outer) /\ Cardinality(Outer) \in Nat
      /\ IsFiniteSet(Inner) /\ Cardinality(Inner) \in Nat
  BY HoldersFinite
<1>6. SUFFICES permits' \in Nat /\ Accounted'
  BY <1>0, <1>1, <1>2, <1>3 DEF IInv, Types
<1>7. CASE TakePulse(f)
  <2>1. fetcher[f].pc = "idle" /\ fetcher'[f].pc = "want"
    BY <1>0, <1>7 DEF TakePulse, Types
  <2>2. Outer' = Outer /\ Inner' = Inner
    BY <1>4, <2>1 DEF Outer, Inner
  <2> QED
    BY <1>0, <1>1, <1>7, <2>2 DEF TakePulse, Types, Accounted
<1>8. CASE AcquireOuter(f)
  <2>1. fetcher[f].pc = "want" /\ fetcher'[f].pc = "hold"
    BY <1>0, <1>8 DEF AcquireOuter, Goto, Types, FetcherState
  <2>2. Outer' = Outer \union {f} /\ f \notin Outer /\ Inner' = Inner
    BY <1>4, <2>1 DEF Outer, Inner
  <2>3. Cardinality(Outer') = Cardinality(Outer) + 1
    BY <1>5, <2>2, OneMore
  <2> QED
    BY <1>0, <1>1, <1>5, <1>8, <2>2, <2>3 DEF AcquireOuter, Types, Accounted
<1>9. CASE LookUpDetails(f)
  <2>1. fetcher[f].pc = "hold" /\ fetcher'[f].pc \in {"return", "call"}
    BY <1>0, <1>9 DEF LookUpDetails, Goto, Types, FetcherState
  <2>2. Outer' = Outer /\ Inner' = Inner
    BY <1>4, <2>1 DEF Outer, Inner
  <2> QED
    BY <1>0, <1>1, <1>9, <2>2 DEF LookUpDetails, Types, Accounted
<1>10. CASE AcquireInner(f)
  <2>1. fetcher[f].pc = "call" /\ fetcher'[f].pc = "request"
    BY <1>0, <1>10 DEF AcquireInner, Goto, Types, FetcherState
  <2>2. Outer' = Outer /\ Inner' = Inner \union {f} /\ f \notin Inner
    BY <1>4, <2>1 DEF Outer, Inner
  <2>3. Cardinality(Inner') = Cardinality(Inner) + 1
    BY <1>5, <2>2, OneMore
  <2> QED
    BY <1>0, <1>1, <1>5, <1>10, <2>2, <2>3 DEF AcquireInner, Types, Accounted
<1>11. CASE DetailsEnd(f)
  <2>1. fetcher[f].pc = "request" /\ fetcher'[f].pc = "return"
    BY <1>0, <1>11 DEF DetailsEnd, Goto, Types, FetcherState
  <2>2. Outer' = Outer /\ Inner' = Inner \ {f} /\ f \in Inner
    BY <1>4, <2>1 DEF Outer, Inner
  <2>3. Cardinality(Inner') = Cardinality(Inner) - 1
    BY <1>5, <2>2, OneLess
  <2> QED
    BY <1>0, <1>1, <1>5, <1>11, <2>2, <2>3 DEF DetailsEnd, Types, Accounted
<1>12. CASE ReleaseOuter(f)
  <2>1. fetcher[f].pc = "return" /\ fetcher'[f].pc = "idle"
    BY <1>0, <1>12 DEF ReleaseOuter, IdleFetcher, Types, FetcherState
  <2>2. Outer' = Outer \ {f} /\ f \in Outer /\ Inner' = Inner
    BY <1>4, <2>1 DEF Outer, Inner
  <2>3. Cardinality(Outer') = Cardinality(Outer) - 1
    BY <1>5, <2>2, OneLess
  <2> QED
    BY <1>0, <1>1, <1>5, <1>12, <2>2, <2>3 DEF ReleaseOuter, Types, Accounted
<1> QED
  BY <1>7, <1>8, <1>9, <1>10, <1>11, <1>12 DEF Fetch

-----------------------------------------------------------------------------
(***************************************************************************)
(* Days, modifications, and a process that dies with all its threads.      *)
(***************************************************************************)
LEMMA EnvironmentKeepsInv ==
    ASSUME IInv, Environment PROVE IInv'
<1> USE OtxClientAssumption DEF OtxClientAssumption
<1>0. Types /\ Accounted /\ Permits \in Nat
  BY DEF IInv
<1>1. CASE NextDay
  <2>1. Outer' = Outer /\ Inner' = Inner /\ Listing' = Listing
    BY <1>1, HoldersUnchanged DEF NextDay, feedVars, Listing
  <2> QED
    BY <1>0, <1>1, <2>1 DEF NextDay, feedVars, Day, IInv, Types, Accounted
<1>2. ASSUME NEW p \in Pulse, ModifyPulse(p) PROVE IInv'
  <2>1. Outer' = Outer /\ Inner' = Inner /\ Listing' = Listing
    BY <1>2, HoldersUnchanged DEF ModifyPulse, feedVars, Listing
  <2>2. service' \in [Pulse -> Version]
    BY <1>0, <1>2 DEF ModifyPulse, Types, Version
  <2> QED
    BY <1>0, <1>2, <2>1, <2>2 DEF ModifyPulse, feedVars, IInv, Types, Accounted
<1>3. CASE Crash
  <2>1. Outer' = {} /\ Inner' = {} /\ Listing' = 0
    BY <1>3 DEF Crash, Outer, Inner, Listing, IdleFetcher, IdleWalk
  <2>2. disk' \in [Pulse -> Version]
    BY <1>0, <1>3 DEF Crash, Types, Version
  <2>3. /\ fetcher' \in [Fetcher -> FetcherState] /\ walk' \in WalkState
        /\ queue' \subseteq Pulse
    BY <1>3, IdleFetcherType, IdleWalkType DEF Crash
  <2>4. crashes' \in 0..MaxCrashes /\ pageCount' \in 0..MaxListPages + 1
    BY <1>0, <1>3 DEF Crash, Types
  <2>5. permits' = Permits /\ UNCHANGED <<day, service>>
    BY <1>3 DEF Crash, worldVars
  <2> QED
    BY <1>0, <2>1, <2>2, <2>3, <2>4, <2>5, FS_EmptySet DEF IInv, Types, Accounted
<1> QED
  BY <1>1, <1>2, <1>3 DEF Environment

LEMMA NextKeepsInv == IInv /\ [Next]_vars => IInv'
<1> SUFFICES ASSUME IInv, [Next]_vars PROVE IInv'
  OBVIOUS
<1>1. CASE UNCHANGED vars
  <2>1. Outer' = Outer /\ Inner' = Inner
    BY <1>1, HoldersUnchanged DEF vars
  <2> QED
    BY <1>1, <2>1 DEF vars, IInv, Types, Accounted, Listing
<1> QED
  BY <1>1, WalkKeepsInv, FetchKeepsInv, EnvironmentKeepsInv DEF Next

LEMMA InvAlways == Spec => []IInv
  BY InitEstablishesInv, NextKeepsInv, PTL DEF Spec

-----------------------------------------------------------------------------
(***************************************************************************)
(* The feed read from disk.  While the generator walks it, nothing writes  *)
(* to the disk; a pulse that is still owed to the caller has been handed   *)
(* over, or waits in the pass at hand, or its author's pass is to come.    *)
(* Days only make pulses stale, and the limit once reached stays reached.  *)
(***************************************************************************)
Owed(p) ==
    disk[p] # Absent /\ Saved(p) /\ PassOf(p) \notin walk.failed /\ ~CapReached /\ Fresh(p)

Pending(p) ==
    \/ walk.pc \in {"passes", "pulses"} /\ PassOf(p) \in walk.passes
    \/ walk.pc = "pulses" /\ walk.pass = PassOf(p) /\ p \in walk.todo

FeedInv ==
    walk.fellBack =>
        /\ walk.pc \in {"passes", "pulses", "ended"}
        /\ walk.pc = "pulses" => walk.pass \in Passes
        /\ \A p \in Pulse : Owed(p) => p \in walk.handed \/ Pending(p)

\* A pulse the recency filter drops is not fresh, today or on any later day.
LEMMA DroppedIsStale ==
    ASSUME Types, NEW p \in Pulse, disk[p] # Absent,
           ~ShouldProcess(CreatedOf(p), ModifiedOf(p), day)
    PROVE  ~Fresh(p)
<1>1. disk[p] \in Int /\ Created[p] \in Int /\ day \in Int
  BY OtxClientAssumption DEF OtxClientAssumption, Types, Version, Day
<1> QED
  BY <1>1, PulseDecayAssumption
     DEF PulseDecayAssumption, ShouldProcess, IsPulseEligible, InWindow, CreatedOf,
         ModifiedOf, Fresh

LEMMA FreshOnlyFades ==
    ASSUME Types, Types', UNCHANGED disk, day' >= day, NEW p \in Pulse,
           disk[p] # Absent, Fresh(p)'
    PROVE  Fresh(p)
<1>1. /\ disk[p] \in Int /\ Created[p] \in Int /\ day \in Int /\ day' \in Int
      /\ MaxAgeDays \in Int
  BY OtxClientAssumption, PulseDecayAssumption
     DEF OtxClientAssumption, PulseDecayAssumption, Types, Version, Day
<1> QED
  BY <1>1 DEF Fresh

\* Every pulse on disk belongs to one of the passes.
LEMMA SavedHasItsPass ==
    ASSUME NEW p \in Pulse, Saved(p) PROVE PassOf(p) \in Passes
  BY DEF Saved, PassOf, Passes

\* A step that leaves the walk and the disk alone, whatever it does to the rest.
LEMMA StillOwed ==
    ASSUME Types, Types', FeedInv, UNCHANGED <<walk, disk>>, day' >= day
    PROVE  FeedInv'
<1>1. ASSUME NEW p \in Pulse, Owed(p)' PROVE Owed(p)
  BY <1>1, FreshOnlyFades DEF Owed, CapReached, Saved, PassOf
<1> QED
  BY <1>1 DEF FeedInv, Pending, PassOf, Passes

LEMMA FallBackKeepsFeedInv ==
    ASSUME Types, FeedInv, FallBack PROVE FeedInv'
<1> USE OtxClientAssumption DEF OtxClientAssumption
<1>0. UNCHANGED <<disk, day>> /\ walk \in WalkState
  BY DEF FallBack, BeginPass, YieldPulse, EndPass, PassFails, worldVars, Types
<1>1. ASSUME NEW p \in Pulse PROVE Fresh(p)' = Fresh(p)
  BY <1>0 DEF Fresh
<1>2. SUFFICES ASSUME walk.fellBack PROVE FeedInv'
  BY <1>0 DEF FallBack, BeginPass, YieldPulse, EndPass, PassFails, FeedInv, WalkState
<1>3. ASSUME NEW a \in Passes, BeginPass(a) PROVE FeedInv'
  <2>1. walk' = [walk EXCEPT !.pc = "pulses", !.pass = a, !.passes = @ \ {a},
                    !.todo = {p \in Pulse : PassOf(p) = a /\ disk[p] # Absent}]
    BY <1>3 DEF BeginPass
  <2>2. ASSUME NEW p \in Pulse, Owed(p)' PROVE p \in walk'.handed \/ Pending(p)'
    <3>1. Owed(p)
      BY <1>0, <1>1, <2>1, <2>2 DEF Owed, CapReached, WalkState
    <3>2. CASE p \in walk.handed
      BY <1>0, <2>1, <3>2 DEF WalkState
    <3>3. CASE p \notin walk.handed
      <4>1. PassOf(p) \in walk.passes
        BY <1>2, <1>3, <3>1, <3>3 DEF FeedInv, Pending, BeginPass
      <4> QED
        BY <1>0, <2>1, <3>1, <4>1 DEF Pending, WalkState, Owed, PassOf
    <3> QED
      BY <3>2, <3>3
  <2> QED
    BY <1>0, <2>1, <2>2 DEF FeedInv, WalkState, Passes
<1>4. ASSUME NEW q \in Pulse, YieldPulse(q) PROVE FeedInv'
  <2> DEFINE kept == IF ShouldProcess(CreatedOf(q), ModifiedOf(q), day) THEN {q} ELSE {}
  <2>1. walk' = [walk EXCEPT !.todo = @ \ {q}, !.yielded = @ \union {q},
                             !.handed = @ \union kept]
    BY <1>4 DEF YieldPulse
  <2>2. walk.pc = "pulses" /\ ~CapReached
    BY <1>4 DEF YieldPulse
  <2>3. ASSUME NEW p \in Pulse, Owed(p)' PROVE p \in walk'.handed \/ Pending(p)'
    <3>1. Owed(p)
      BY <1>0, <1>1, <2>1, <2>2, <2>3 DEF Owed, WalkState
    <3>2. CASE p \in walk.handed
      BY <1>0, <2>1, <3>2 DEF WalkState
    <3>3. CASE p = q
      <4>1. ShouldProcess(CreatedOf(q), ModifiedOf(q), day)
        BY <3>1, <3>3, DroppedIsStale DEF Owed
      <4> QED
        BY <1>0, <2>1, <3>3, <4>1 DEF WalkState
    <3>4. CASE p \notin walk.handed /\ p # q
      <4>1. Pending(p)
        BY <1>2, <3>1, <3>4 DEF FeedInv
      <4> QED
        BY <1>0, <2>1, <3>4, <4>1 DEF Pending, WalkState, PassOf
    <3> QED
      BY <3>2, <3>3, <3>4
  <2> QED
    BY <1>0, <1>2, <2>1, <2>2, <2>3 DEF FeedInv, WalkState, Passes
<1>5. CASE EndPass
  <2>1. ASSUME NEW p \in Pulse, Owed(p)' PROVE p \in walk'.handed \/ Pending(p)'
    <3>1. /\ walk' = [walk EXCEPT !.pc = walk'.pc] /\ walk.pc = "pulses"
          /\ UNCHANGED <<walk.failed, walk.yielded, walk.handed, walk.passes>>
      BY <1>0, <1>5 DEF EndPass, WalkState
    <3>2. Owed(p) /\ ~CapReached
      BY <1>0, <1>1, <2>1, <3>1 DEF Owed, CapReached
    <3>3. walk.todo = {} /\ walk'.pc = AfterPass
      BY <1>0, <1>5, <3>2 DEF EndPass, WalkState
    <3>4. p \in walk.handed \/ PassOf(p) \in walk.passes
      BY <1>2, <3>2, <3>3 DEF FeedInv, Pending
    <3> QED
      BY <3>1, <3>3, <3>4 DEF Pending, AfterPass, PassOf
  <2> QED
    BY <1>0, <1>5, <2>1 DEF EndPass, AfterPass, FeedInv, WalkState
<1>6. CASE PassFails
  <2>1. /\ walk.pc = "pulses" /\ walk.pass \in Passes
        /\ walk' = [walk EXCEPT !.failed = @ \union {walk.pass},
                                !.pc = IF Filtered THEN AfterPass ELSE "ended"]
    BY <1>2, <1>6 DEF PassFails, FeedInv
  <2>2. ASSUME NEW p \in Pulse, Owed(p)' PROVE p \in walk'.handed \/ Pending(p)'
    <3>1. Owed(p) /\ PassOf(p) # walk.pass
      BY <1>0, <1>1, <2>1, <2>2 DEF Owed, CapReached, WalkState, PassOf
    <3>2. Filtered
      BY <2>1, <3>1 DEF PassOf, Passes
    <3>3. p \in walk.handed \/ PassOf(p) \in walk.passes
      BY <1>2, <3>1 DEF FeedInv, Pending
    <3> QED
      BY <1>0, <2>1, <3>2, <3>3 DEF Pending, AfterPass, WalkState, PassOf
  <2> QED
    BY <1>0, <2>1, <2>2 DEF AfterPass, FeedInv, WalkState
<1> QED
  BY <1>3, <1>4, <1>5, <1>6 DEF FallBack

LEMMA NextKeepsFeedInv ==
    ASSUME IInv, IInv', FeedInv, [Next]_vars PROVE FeedInv'
<1> USE OtxClientAssumption DEF OtxClientAssumption
<1>0. Types /\ Types' /\ walk \in WalkState
  BY DEF IInv, Types
<1>1. CASE StartCycle \/ EndCycle \/ Crash
  <2>1. walk'.fellBack = IdleWalk.fellBack
    BY <1>1, IdleWalkType DEF StartCycle, EndCycle, Crash, WalkState
  <2> QED
    BY <2>1 DEF FeedInv, IdleWalk
<1>2. CASE RequestListPage \/ RefuseListPage \/ ListPageAnswered
  <2>1. walk.pc \in {"list", "request"} /\ walk'.fellBack = walk.fellBack
    BY <1>0, <1>2 DEF RequestListPage, RefuseListPage, ListPageAnswered, WalkState
  <2> QED
    BY <2>1 DEF FeedInv
<1>3. CASE ListPageFails
  <2>1. walk'.pc = "passes" /\ walk'.passes = Passes
    BY <1>0, <1>3 DEF ListPageFails, WalkState
  <2>2. ASSUME NEW p \in Pulse, Owed(p)' PROVE Pending(p)'
    BY <2>1, <2>2, SavedHasItsPass DEF Pending, Owed, Saved, PassOf
  <2> QED
    BY <2>1, <2>2 DEF FeedInv
<1>4. CASE FallBack
  BY <1>0, <1>4, FallBackKeepsFeedInv
<1>5. CASE \/ \E f \in Fetcher : Fetch(f)
           \/ NextDay \/ (\E p \in Revised : ModifyPulse(p)) \/ UNCHANGED vars
  <2>1. UNCHANGED <<walk, disk>>
    BY <1>5 DEF Fetch, TakePulse, AcquireOuter, LookUpDetails, AcquireInner, DetailsEnd,
                ReleaseOuter, NextDay, ModifyPulse, vars, feedVars
  <2>2. day' >= day
    BY <1>0, <1>5 DEF Fetch, TakePulse, AcquireOuter, LookUpDetails, AcquireInner,
                DetailsEnd, ReleaseOuter, NextDay, ModifyPulse, vars, worldVars, Types, Day
  <2> QED
    BY <1>0, <2>1, <2>2, StillOwed
<1> QED
  BY <1>1, <1>2, <1>3, <1>4, <1>5 DEF Next, Update, Environment

-----------------------------------------------------------------------------
(***************************************************************************)
(* Results                                                                 *)
(***************************************************************************)
\* The variables keep their types, and the semaphore never counts more permits
\* than OTX_MAX_CONCURRENT_REQUESTS: no with block is left twice.
THEOREM TypeCorrect == Spec => []TypeOK
  BY InvAlways, InvImpliesTypeOK, PTL

\* However many threads fetch and whatever fails or dies, the requests that
\* throttled_get has out never exceed OTX_MAX_CONCURRENT_REQUESTS.
THEOREM RequestsAreBounded == Spec => []RequestsBounded
<1>1. IInv => RequestsBounded
  <2> SUFFICES ASSUME IInv PROVE RequestsBounded
    OBVIOUS
  <2>1. InFlight = Cardinality(Inner) + Listing
    BY DEF InFlight, Inner, Listing
  <2>2. permits \in Nat /\ Listing \in {0, 1} /\ Permits \in Nat
    BY OtxClientAssumption DEF OtxClientAssumption, IInv, Types, Listing
  <2> QED
    BY <2>1, <2>2, HoldersFinite DEF IInv, Accounted, RequestsBounded
<1> QED
  BY <1>1, InvAlways, PTL

\* The nested acquisition in get_pulse_indicators is the only way the threads can all
\* wait: when nobody can go on, every permit is the outer one of a fetcher that waits
\* for its second.  So the list pages, failures and crashes stop no thread, and
\* neither does the nesting in fewer threads than there are permits.
THEOREM OnlyNestingStopsThreads == Spec => []StandstillIsNested
<1>1. IInv => StandstillIsNested
  <2> SUFFICES ASSUME IInv, ~SomeoneCanStep PROVE Cardinality(Nested) = Permits
    BY DEF StandstillIsNested
  <2>1. /\ permits = 0 /\ walk.pc # "request"
        /\ \A f \in Fetcher : fetcher[f].pc \notin {"hold", "request", "return"}
    BY DEF SomeoneCanStep, IInv, Types
  <2>2. Inner = {} /\ Listing = 0 /\ Outer = Nested
    BY <2>1 DEF Inner, Listing, Outer, Nested
  <2> QED
    BY <2>1, <2>2, FS_EmptySet, HoldersFinite, OtxClientAssumption
       DEF OtxClientAssumption, IInv, Accounted
<1> QED
  BY <1>1, InvAlways, PTL

\* Once update() has failed, the walk of the disk loses no pulse that is still
\* fresh when it ends: the days that pass, the fetchers and a failing author of
\* another pulse never make the feed drop it, for any set of pulses and authors.
THEOREM FallbackIsComplete == Spec => []FallbackComplete
<1>1. Init => FeedInv
  BY DEF Init, IdleWalk, FeedInv
<1>2. IInv /\ IInv' /\ FeedInv /\ [Next]_vars => FeedInv'
  BY NextKeepsFeedInv
<1>3. FeedInv => FallbackComplete
  BY DEF FeedInv, FallbackComplete, HandedOver, Owed, Pending
<1> QED
  BY <1>1, <1>2, <1>3, InvAlways, PTL DEF Spec

=============================================================================
