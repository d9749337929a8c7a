---------------------------- MODULE Publication ----------------------------
(***************************************************************************)
(* Publication once, as taxii2misp promises it: an id gets one event, of   *)
(* one of its contents, and is marked only when it has it.  Which ids get  *)
(* their event, with which content and when, is left open.                 *)
(***************************************************************************)
EXTENDS Integers, FiniteSets

CONSTANTS
    Id,         \* what is worth an event
    Contents    \* the contents that each id may have

VARIABLES
    published,  \* numbered events
    marked      \* ids that are done with

vars == <<published, marked>>

Init == published = {} /\ marked = {}

Publish(id) ==
    /\ \A e \in published : e.id # id
    /\ \E attrs \in Contents[id] :
            published' = published \union
                {[n |-> Cardinality(published) + 1, id |-> id, attrs |-> attrs]}
    /\ UNCHANGED marked

Mark(id) ==
    /\ \E e \in published : e.id = id
    /\ marked' = marked \union {id}
    /\ UNCHANGED published

Next == \E id \in Id : Publish(id) \/ Mark(id)

Spec == Init /\ [][Next]_vars
=============================================================================
