------------------------------ MODULE MCOutbox ------------------------------
(***************************************************************************)
(* Small instances of Outbox for TLC.                                      *)
(***************************************************************************)
EXTENDS Outbox, TLC

CONSTANTS p1, p2, a, b, c

\* A pulse that grows from one chunk to two: every file name has one content.
GrowingFeed == [p \in Pulse |-> IF p = p1 THEN {<<a>>, <<a, b>>} ELSE {<<a>>}]

\* A pulse whose only indicator is replaced: one name, two contents.
ReplacedFeed == [p \in Pulse |-> {<<a>>, <<b>>}]

\* A pulse of one chunk that OTX never revises.
SingleFeed == [p \in Pulse |-> {<<a>>}]

\* A pulse of two chunks that OTX never revises.
FixedFeed == [p \in Pulse |-> {<<a, b>>}]

\* A pulse of three chunks.
ThreeChunks == [p \in Pulse |-> {<<a, b, c>>}]

\* Names in lexicographic order (indices below ten, so digits sort as numbers).
PulseRank(p) == IF p = p1 THEN 0 ELSE 1

ByName == [n \in Name |-> 1000 * PulseRank(n.pulse) + 100 * n.idx
                            + 10 * n.total + n.count]

\* A pulse of ten chunks, its indicators numbers.
TenChunks == [p \in Pulse |-> {[j \in 1..10 |-> j]}]

\* Names in lexicographic order with indices up to 19: in "<p>__10__..." a digit
\* stands where "<p>__1__..." has an underscore, and digits sort before it.
TextOfIndex(k) == IF k < 10 THEN 20 * k + 19 ELSE 2 * k
ByText == [n \in Name |-> 1000 * TextOfIndex(n.idx) + 20 * n.total + n.count]

WorkerSymmetry == Permutations(Worker)

NothingCorrupt == {}

\* A corrupt file left under the name of a chunk.
OneCorrupt == {FileName(p1, <<a, b>>, 1)}
=============================================================================
