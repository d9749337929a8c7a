------------------------------ MODULE Delivery ------------------------------
(***************************************************************************)
(* At-least-once delivery, as otx2taxii's outbox promises it: a bundle     *)
(* stays staged until every object of it has been delivered, and nothing   *)
(* is delivered that was not staged.                                       *)
(***************************************************************************)
CONSTANT Bundle   \* the bundles that may be staged, each a set of objects

VARIABLES staged,   \* bundles (sets of objects) awaiting delivery
          delivered \* objects the receiver holds

vars == <<staged, delivered>>

Init == staged = {} /\ delivered = {}

Stage(b) ==
    /\ staged' = staged \union {b}
    /\ UNCHANGED delivered

\* Any part of a staged bundle arrives; repeats change nothing.
Deliver(b, part) ==
    /\ b \in staged
    /\ part \subseteq b
    /\ delivered' = delivered \union part
    /\ UNCHANGED staged

\* A bundle is let go only when all of it has been delivered.
Retire(b) ==
    /\ b \in staged
    /\ b \subseteq delivered
    /\ staged' = staged \ {b}
    /\ UNCHANGED delivered

Next ==
    \/ \E b \in Bundle : Stage(b)
    \/ \E b \in staged : \E part \in SUBSET b : Deliver(b, part)
    \/ \E b \in staged : Retire(b)

Spec == Init /\ [][Next]_vars
=============================================================================
