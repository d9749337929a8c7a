---------------------------- MODULE PulseBundles ----------------------------
(***************************************************************************)
(* How one OTX pulse becomes chunk bundles and chunk file names            *)
(* (otx2taxii/services/pulse_processor.py, otx2taxii/ingest.py).           *)
(*                                                                         *)
(* STIX objects are represented by their ids.  Every id the processor      *)
(* builds is a uuid5 hash, so an id is represented by what is hashed: two  *)
(* objects have the same id exactly when these values are equal.           *)
(***************************************************************************)
EXTENDS Integers, Sequences, FiniteSets

CONSTANTS
    Pulse,                  \* pulse ids
    Indicator,              \* (type, pattern) pairs of indicators
    MaxIndicatorsPerPulse   \* environment variable of the same name

ASSUME PulseBundlesAssumption ==
    /\ Pulse # {}
    /\ MaxIndicatorsPerPulse \in Int

(***************************************************************************)
(* Objects.  The OTX identity is one object for all pulses; an indicator's *)
(* id hashes the pulse id and its pattern; a grouping's id hashes pulse    *)
(* id, chunk index, number of chunks and the (sorted) indicator ids.       *)
(***************************************************************************)
Identity == [type |-> "identity"]

IndicatorObject(p, i) == [type |-> "indicator", pulse |-> p, value |-> i]

Grouping(p, k, n, is) ==
    [type |-> "grouping", pulse |-> p, idx |-> k, total |-> n, values |-> is]

IsGrouping(o) == o.type = "grouping"

\* The indicators among a grouping's object_refs (the identity is the other ref).
IndicatorRefs(g) == {IndicatorObject(g.pulse, i) : i \in g.values}

ObjectRefs(g) == {Identity} \union IndicatorRefs(g)

(***************************************************************************)
(* Chunking.  A cap of zero or less means a single chunk, and a pulse      *)
(* without usable indicators still gives one, empty, chunk.                *)
(***************************************************************************)
ChunkSize(s) ==
    IF MaxIndicatorsPerPulse > 0 THEN MaxIndicatorsPerPulse
    ELSE IF s = <<>> THEN 1 ELSE Len(s)

TotalChunks(s) ==
    IF s = <<>> THEN 1 ELSE (Len(s) + ChunkSize(s) - 1) \div ChunkSize(s)

ChunkIndices(s) == 1..TotalChunks(s)

\* The positions of s that go to chunk k: processed_indicators[i : i + chunk_size].
ChunkPositions(s, k) ==
    {j \in DOMAIN s : (k - 1) * ChunkSize(s) < j /\ j <= k * ChunkSize(s)}

ChunkValues(s, k) == {s[j] : j \in ChunkPositions(s, k)}

\* The objects of chunk k's bundle; only the first chunk carries the identity.
BundleObjects(p, s, k) ==
    (IF k = 1 THEN {Identity} ELSE {})
    \union {IndicatorObject(p, i) : i \in ChunkValues(s, k)}
    \union {Grouping(p, k, TotalChunks(s), ChunkValues(s, k))}

\* Everything that pulse p gives rise to when OTX serves the list s.
PulseObjects(p, s) == UNION {BundleObjects(p, s, k) : k \in ChunkIndices(s)}

(***************************************************************************)
(* <pulse_id>__<idx>__<total>__<count>.json: the name holds the number of  *)
(* objects of the bundle, not what they are.                               *)
(***************************************************************************)
FileName(p, s, k) ==
    [pulse |-> p, idx |-> k, total |-> TotalChunks(s),
     count |-> Cardinality(BundleObjects(p, s, k))]

=============================================================================
