----------------------------- MODULE TaxiiPush -----------------------------
(***************************************************************************)
(* What otx2taxii's TAXII client makes of one bundle                       *)
(* (otx2taxii/clients/taxii_client.py): which of its objects are sent, what *)
(* the collection may hold afterwards, and which ids enter the id cache.   *)
(* Both ways of pushing, Outbox and LegacyPush, are built on it.           *)
(***************************************************************************)
EXTENDS PulseBundles

CONSTANTS
    AtomicServer,           \* TRUE: the server stores a whole bundle or nothing
    StatusListsFailures     \* TRUE: a Status carries the ids that failed

ASSUME TaxiiPushAssumption == {AtomicServer, StatusListsFailures} \subseteq BOOLEAN

\* filter_new_stix_objects: keep what is not known to be on the server, and a
\* known grouping that refers to something in the bundle that is new.
FilterNew(objs, known) ==
    LET new == objs \ known
    IN  new \union {o \in objs \intersect known :
                        IsGrouping(o) /\ ObjectRefs(o) \intersect new # {}}

\* What the server may hold of a bundle once it has answered with a Status, and
\* once the call has ended in an error (the request or the answer was lost).
StoredOnStatus(objs) == IF AtomicServer THEN {objs} ELSE SUBSET objs
StoredOnError(objs) == IF AtomicServer THEN {{}, objs} ELSE SUBSET objs

\* Mutant of AcceptedIds: the Status is not consulted.
AcceptedIdsUnchecked(objs, stored) == objs

\* The ids add_stix_bundle puts in the cache: none if success_count is zero, else
\* all but those the Status lists as failed, if it lists any.
AcceptedIds(objs, stored) ==
    IF stored = {} THEN {} ELSE IF StatusListsFailures THEN stored ELSE objs

=============================================================================
