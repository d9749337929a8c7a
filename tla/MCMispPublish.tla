--------------------------- MODULE MCMispPublish ---------------------------
(***************************************************************************)
(* Small instances of MispPublish for TLC.                                 *)
(***************************************************************************)
EXTENDS MispPublish, TLC

CONSTANTS g1, g2, g3, a, b, c, d, i

\* Groupings share indicators, as those of a pulse that grows do.
SharedRefs == (g1 :> {a, b, d}) @@ (g2 :> {b, c}) @@ (g3 :> {b})

OwnNames == [g \in Grouping |-> g]

\* A pulse that has grown keeps its name.
SameNames == [g \in Grouping |-> g1]

\* Batches cut without regard to groupings: g1 and g2 come with all or with some of
\* their indicators.  Two have no grouping, one only an identity.
CutBatches == {{g1, a, b, d, g2, c}, {g1, b}, {g2, b, g3}, {a, b}, {a}, {i}}

\* MISP has an event with the name that {a} would get.
OneForeign == {[indicators |-> 1]}

\* An indicator of g1 comes with another batch.
SplitBatches == {{g1, a}, {b, d}}

WorkerSymmetry == Permutations(Worker)
=============================================================================
