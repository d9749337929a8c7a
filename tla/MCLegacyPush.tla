---------------------------- MODULE MCLegacyPush ----------------------------
(***************************************************************************)
(* Small instances of LegacyPush for TLC.                                  *)
(***************************************************************************)
EXTENDS LegacyPush

CONSTANTS p1, p2, a, b, c

\* A pulse of two chunks whose second indicator is replaced by another, and one
\* that never changes.
RevisedFeed == [p \in Pulse |-> IF p = p1 THEN {<<a, b>>, <<a, c>>} ELSE {<<a>>}]

\* A pulse of two chunks whose indicators change places.
ReorderedFeed == [p \in Pulse |-> {<<a, b>>, <<b, a>>}]
=============================================================================
