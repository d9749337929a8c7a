-------------------------- MODULE PulseBundlesProofs --------------------------
(***************************************************************************)
(* What the chunking of a pulse does to any list of indicators, for every  *)
(* chunk size: nothing is lost, nothing is sent in two chunks, no chunk is *)
(* empty or too large; and when a chunk's file name stands for one bundle. *)
(***************************************************************************)
EXTENDS PulseBundles, FiniteSetTheorems, TLAPS

(***************************************************************************)
(* Division rounds down.                                                   *)
(***************************************************************************)
LEMMA Division ==
    ASSUME NEW a \in Nat, NEW c \in Nat \ {0}
    PROVE  /\ a \div c \in Nat
           /\ c * (a \div c) <= a
           /\ a < c * (a \div c) + c
  OBVIOUS

\* A chunk is a run of at least one position.
LEMMA ChunkSizePositive ==
    ASSUME NEW s \in Seq(Indicator) PROVE ChunkSize(s) \in Nat \ {0}
<1>1. Len(s) \in Nat /\ (s # <<>> => Len(s) >= 1)
  OBVIOUS
<1> QED
  BY <1>1, PulseBundlesAssumption DEF PulseBundlesAssumption, ChunkSize

\* The number of chunks is the least n with Len(s) <= n * ChunkSize(s), but one
\* for the empty list.
LEMMA ChunksSuffice ==
    ASSUME NEW s \in Seq(Indicator)
    PROVE  LET n == TotalChunks(s)
               c == ChunkSize(s)
           IN  /\ n \in Nat \ {0}
               /\ Len(s) <= c * n
               /\ s # <<>> => c * (n - 1) < Len(s)
<1> DEFINE c == ChunkSize(s)
           n == TotalChunks(s)
<1>1. c \in Nat \ {0} /\ Len(s) \in Nat /\ (s # <<>> => Len(s) >= 1)
  BY ChunkSizePositive
<1>2. CASE s = <<>>
  BY <1>1, <1>2 DEF TotalChunks
<1>3. CASE s # <<>>
  <2>1. n = (Len(s) + c - 1) \div c
    BY <1>3 DEF TotalChunks
  <2>2. Len(s) + c - 1 \in Nat
    BY <1>1, <1>3
  <2>3. n \in Nat /\ c * n <= Len(s) + c - 1 /\ Len(s) + c - 1 < c * n + c
    BY <1>1, <2>1, <2>2, Division
  <2> HIDE DEF n, c
  <2>4. c * n > 0
    BY <1>1, <1>3, <2>3
  <2>5. n # 0 /\ c * (n - 1) = c * n - c
    BY <1>1, <2>3, <2>4
  <2> QED
    BY <1>1, <1>3, <2>3, <2>5 DEF n, c
<1> QED
  BY <1>2, <1>3

LEMMA ChunksAreNumbers ==
    ASSUME NEW s \in Seq(Indicator)
    PROVE  /\ TotalChunks(s) \in Nat \ {0}
           /\ ChunkIndices(s) \subseteq Nat \ {0}
           /\ 1 \in ChunkIndices(s)
  BY ChunksSuffice DEF ChunkIndices

-----------------------------------------------------------------------------
(***************************************************************************)
(* Chunks partition the list.                                              *)
(***************************************************************************)

\* Every indicator of a pulse is in exactly one of its chunks, wherever it stands
\* in the list: no position falls between two slices or into both.
THEOREM ChunksPartition ==
    ASSUME NEW s \in Seq(Indicator), NEW j \in DOMAIN s
    PROVE  \E k \in ChunkIndices(s) :
              \A l \in ChunkIndices(s) : j \in ChunkPositions(s, l) <=> l = k
<1> DEFINE c == ChunkSize(s)
           k == (j + c - 1) \div c
<1>1. c \in Nat \ {0} /\ j \in Nat /\ j >= 1 /\ j <= Len(s) /\ Len(s) \in Nat
  BY ChunkSizePositive
<1>2. TotalChunks(s) \in Nat \ {0} /\ Len(s) <= c * TotalChunks(s)
  BY ChunksSuffice
<1>3. k \in Nat /\ c * k <= j + c - 1 /\ j + c - 1 < c * k + c
  <2>1. j + c - 1 \in Nat
    BY <1>1
  <2> QED
    BY <1>1, <2>1, Division
<1> HIDE DEF k, c
<1>4. c * (k - 1) < j /\ j <= c * k
  <2>1. c * (k - 1) = c * k - c
    BY <1>1, <1>3
  <2> QED
    BY <1>1, <1>3, <2>1
<1>5. \A l \in Nat : c * (l - 1) < j /\ j <= c * l => l = k
  <2> SUFFICES ASSUME NEW l \in Nat, c * (l - 1) < j, j <= c * l PROVE l = k
    OBVIOUS
  <2>1. c * (l - 1) < c * k /\ c * (k - 1) < c * l
    BY <1>1, <1>3, <1>4
  <2>2. l - 1 < k /\ k - 1 < l
    BY <1>1, <1>3, <2>1
  <2> QED
    BY <1>3, <2>2
<1>6. k \in ChunkIndices(s)
  <2>1. k # 0
    BY <1>1, <1>3, <1>4
  <2>2. c * (k - 1) < c * TotalChunks(s)
    BY <1>1, <1>2, <1>3, <1>4
  <2>3. k - 1 < TotalChunks(s)
    BY <1>1, <1>2, <1>3, <2>2
  <2> QED
    BY <1>2, <1>3, <2>1, <2>3 DEF ChunkIndices
<1>7. ASSUME NEW l \in ChunkIndices(s)
      PROVE  j \in ChunkPositions(s, l) <=> l = k
  <2>1. l \in Nat
    BY ChunksAreNumbers
  <2>2. j \in ChunkPositions(s, l) <=> (l - 1) * c < j /\ j <= l * c
    BY DEF ChunkPositions, c
  <2>3. (l - 1) * c = c * (l - 1) /\ l * c = c * l
    BY <1>1, <2>1
  <2> QED
    BY <1>4, <1>5, <2>1, <2>2, <2>3
<1> QED
  BY <1>6, <1>7
\* No chunk holds more than MAX_INDICATORS_PER_PULSE indicators, and none is empty
\* unless the pulse is.
THEOREM ChunksFit ==
    ASSUME NEW s \in Seq(Indicator), NEW k \in ChunkIndices(s)
    PROVE  /\ s # <<>> => ChunkValues(s, k) # {}
           /\ MaxIndicatorsPerPulse > 0 =>
                 /\ IsFiniteSet(ChunkValues(s, k))
                 /\ Cardinality(ChunkValues(s, k)) <= MaxIndicatorsPerPulse
<1> DEFINE c == ChunkSize(s)
           first == (k - 1) * c + 1
           last == (k - 1) * c + c
<1>1. c \in Nat \ {0} /\ Len(s) \in Nat
  BY ChunkSizePositive
<1>2. k \in Nat /\ k >= 1 /\ k <= TotalChunks(s) /\ TotalChunks(s) \in Nat
  BY ChunksAreNumbers DEF ChunkIndices
<1>3. (k - 1) * c \in Nat /\ k * c = last /\ first \in Nat /\ last \in Nat
  BY <1>1, <1>2
<1>4. ASSUME s # <<>> PROVE ChunkValues(s, k) # {}
  <2>1. c * (TotalChunks(s) - 1) < Len(s)
    BY <1>4, ChunksSuffice
  <2>2. (k - 1) * c <= c * (TotalChunks(s) - 1)
    BY <1>1, <1>2
  <2>3. first \in DOMAIN s
    BY <1>1, <1>2, <1>3, <2>1, <2>2
  <2>4. first \in ChunkPositions(s, k)
    BY <1>1, <1>3, <2>3 DEF ChunkPositions
  <2> QED
    BY <2>4 DEF ChunkValues
<1>5. ASSUME MaxIndicatorsPerPulse > 0
      PROVE  /\ IsFiniteSet(ChunkValues(s, k))
             /\ Cardinality(ChunkValues(s, k)) <= MaxIndicatorsPerPulse
  <2>1. c = MaxIndicatorsPerPulse
    BY <1>5 DEF ChunkSize
  <2> HIDE DEF c
  <2>2. ChunkPositions(s, k) \subseteq first..last
    BY <1>1, <1>3 DEF ChunkPositions, c
  <2>3. IsFiniteSet(first..last) /\ Cardinality(first..last) = c
    BY <1>1, <1>3, FS_Interval
  <2>4. /\ IsFiniteSet(ChunkPositions(s, k))
        /\ Cardinality(ChunkPositions(s, k)) <= c
    BY <2>2, <2>3, FS_Subset
  <2>5. [j \in ChunkPositions(s, k) |-> s[j]]
          \in Surjection(ChunkPositions(s, k), ChunkValues(s, k))
    BY DEF Surjection, ChunkValues
  <2>6. /\ IsFiniteSet(ChunkValues(s, k))
        /\ Cardinality(ChunkValues(s, k)) <= Cardinality(ChunkPositions(s, k))
    BY <2>4, <2>5, FS_Surjection
  <2>7. Cardinality(ChunkValues(s, k)) \in Nat /\ Cardinality(ChunkPositions(s, k)) \in Nat
    BY <2>4, <2>6, FS_CardinalityType
  <2> QED
    BY <1>1, <2>1, <2>4, <2>6, <2>7
<1> QED
  BY <1>4, <1>5

\* Delivering all the chunks of a pulse delivers the identity and every indicator
\* of it, and no object of another pulse.
THEOREM ChunksComplete ==
    ASSUME NEW p \in Pulse, NEW s \in Seq(Indicator)
    PROVE  {o \in PulseObjects(p, s) : ~IsGrouping(o)}
             = {Identity} \union {IndicatorObject(p, s[j]) : j \in DOMAIN s}
<1>1. ASSUME NEW j \in DOMAIN s PROVE IndicatorObject(p, s[j]) \in PulseObjects(p, s)
  <2>1. PICK k \in ChunkIndices(s) : j \in ChunkPositions(s, k)
    BY ChunksPartition
  <2> QED
    BY <2>1 DEF PulseObjects, BundleObjects, ChunkValues
<1>2. Identity \in PulseObjects(p, s)
  BY ChunksAreNumbers DEF PulseObjects, BundleObjects
<1>3. ~IsGrouping(Identity) /\ \A i : ~IsGrouping(IndicatorObject(p, i))
  BY DEF IsGrouping, Identity, IndicatorObject
<1>4. ASSUME NEW o \in PulseObjects(p, s), ~IsGrouping(o)
      PROVE  o \in {Identity} \union {IndicatorObject(p, s[j]) : j \in DOMAIN s}
  <2>1. PICK k \in ChunkIndices(s) : o \in BundleObjects(p, s, k)
    BY DEF PulseObjects
  <2> QED
    BY <1>4, <2>1 DEF BundleObjects, ChunkValues, ChunkPositions, IsGrouping, Grouping
<1> QED
  BY <1>1, <1>2, <1>3, <1>4

-----------------------------------------------------------------------------
(***************************************************************************)
(* File names.  The name of a chunk holds the number of its objects.       *)
(***************************************************************************)
Extends(t, s) == Len(s) <= Len(t) /\ \A j \in DOMAIN s : t[j] = s[j]

\* The bundle but for its grouping.
Contents(p, s, k) ==
    (IF k = 1 THEN {Identity} ELSE {})
    \union {IndicatorObject(p, i) : i \in ChunkValues(s, k)}

LEMMA ContentsFinite ==
    ASSUME NEW p, NEW s \in Seq(Indicator), NEW k
    PROVE  /\ IsFiniteSet(Contents(p, s, k)) /\ Cardinality(Contents(p, s, k)) \in Nat
           /\ Cardinality(BundleObjects(p, s, k)) = Cardinality(Contents(p, s, k)) + 1
<1> DEFINE g == Grouping(p, k, TotalChunks(s), ChunkValues(s, k))
           inds == {IndicatorObject(p, i) : i \in ChunkValues(s, k)}
<1>1. ChunkPositions(s, k) \subseteq 1..Len(s) /\ Len(s) \in Nat
  BY DEF ChunkPositions
<1>2. IsFiniteSet(1..Len(s))
  BY <1>1, FS_Interval
<1>3. IsFiniteSet(ChunkPositions(s, k))
  BY <1>1, <1>2, FS_Subset
<1>4. [j \in ChunkPositions(s, k) |-> IndicatorObject(p, s[j])]
        \in Surjection(ChunkPositions(s, k), inds)
  BY DEF Surjection, ChunkValues
<1>5. IsFiniteSet(inds)
  BY <1>3, <1>4, FS_Surjection
<1>6. IsFiniteSet(inds \union {Identity})
  BY <1>5, FS_AddElement
<1>7. Contents(p, s, k) \in {inds, inds \union {Identity}}
  BY DEF Contents
<1>8. IsFiniteSet(Contents(p, s, k)) /\ Cardinality(Contents(p, s, k)) \in Nat
  BY <1>5, <1>6, <1>7, FS_CardinalityType
<1>9. BundleObjects(p, s, k) = Contents(p, s, k) \union {g}
  BY DEF BundleObjects, Contents
<1>10. g \notin Contents(p, s, k)
  BY DEF Contents, Grouping, Identity, IndicatorObject
<1> QED
  BY <1>8, <1>9, <1>10, FS_AddElement

\* As a pulse grows its chunks only grow, as long as their number stays.
LEMMA ChunksGrow ==
    ASSUME NEW s \in Seq(Indicator), NEW t \in Seq(Indicator), Extends(t, s),
           NEW k \in ChunkIndices(s), TotalChunks(s) = TotalChunks(t)
    PROVE  ChunkValues(s, k) \subseteq ChunkValues(t, k)
<1>1. SUFFICES ASSUME NEW j \in ChunkPositions(s, k) PROVE j \in ChunkPositions(t, k)
  BY DEF ChunkValues, Extends, ChunkPositions
<1>2. j \in DOMAIN s /\ j \in DOMAIN t /\ t[j] = s[j]
  BY DEF ChunkPositions, Extends
<1>3. CASE MaxIndicatorsPerPulse > 0
  BY <1>2, <1>3 DEF ChunkPositions, ChunkSize
<1>4. CASE ~(MaxIndicatorsPerPulse > 0)
  <2>1. s # <<>> /\ t # <<>> /\ Len(t) \in Nat /\ Len(t) >= 1 /\ j <= Len(t) /\ j \in Nat
    BY <1>2
  <2>2. ChunkSize(t) = Len(t)
    BY <1>4, <2>1 DEF ChunkSize
  <2>3. k \in Nat /\ k >= 1 /\ k <= TotalChunks(t) /\ TotalChunks(t) \in Nat
    BY ChunksAreNumbers DEF ChunkIndices
  <2>4. Len(t) * (TotalChunks(t) - 1) < Len(t)
    BY <2>1, <2>2, ChunksSuffice
  <2>5. TotalChunks(t) - 1 < 1
    BY <2>1, <2>3, <2>4
  <2>6. k = 1
    BY <2>3, <2>5
  <2> QED
    BY <1>2, <2>1, <2>2, <2>6 DEF ChunkPositions
<1> QED
  BY <1>3, <1>4

LEMMA GrownChunkIsTheSame ==
    ASSUME NEW p, NEW s \in Seq(Indicator), NEW t \in Seq(Indicator), Extends(t, s),
           NEW k \in ChunkIndices(s), FileName(p, s, k) = FileName(p, t, k)
    PROVE  BundleObjects(p, s, k) = BundleObjects(p, t, k)
<1>1. /\ TotalChunks(s) = TotalChunks(t)
      /\ Cardinality(BundleObjects(p, s, k)) = Cardinality(BundleObjects(p, t, k))
  BY DEF FileName
<1>2. ChunkValues(s, k) \subseteq ChunkValues(t, k)
  BY <1>1, ChunksGrow
<1>3. Contents(p, s, k) \subseteq Contents(p, t, k)
  BY <1>2 DEF Contents
<1>4. Cardinality(Contents(p, s, k)) = Cardinality(Contents(p, t, k))
  BY <1>1, ContentsFinite
<1>5. Contents(p, s, k) = Contents(p, t, k)
  BY <1>3, <1>4, ContentsFinite, FS_Subset
<1>6. ASSUME NEW i \in ChunkValues(t, k) PROVE i \in ChunkValues(s, k)
  <2>1. IndicatorObject(p, i) \in Contents(p, s, k)
    BY <1>5 DEF Contents
  <2>2. IndicatorObject(p, i) # Identity
    BY DEF IndicatorObject, Identity
  <2>3. PICK h \in ChunkValues(s, k) : IndicatorObject(p, i) = IndicatorObject(p, h)
    BY <2>1, <2>2 DEF Contents
  <2>4. i = h
    <3>1. IndicatorObject(p, i).value = i /\ IndicatorObject(p, h).value = h
      BY DEF IndicatorObject
    <3> QED
      BY <2>3, <3>1
  <2> QED
    BY <2>4
<1>7. ChunkValues(s, k) = ChunkValues(t, k)
  BY <1>2, <1>6
<1> QED
  BY <1>1, <1>7 DEF BundleObjects

\* A file name is that of one bundle as long as pulses only grow at the end of
\* their lists: whatever was cut into chunks of what size, two versions of a chunk
\* with equal names have equal contents.
THEOREM GrowthKeepsNames ==
    ASSUME NEW p, NEW s \in Seq(Indicator), NEW t \in Seq(Indicator),
           Extends(t, s) \/ Extends(s, t),
           NEW k \in ChunkIndices(s) \intersect ChunkIndices(t),
           FileName(p, s, k) = FileName(p, t, k)
    PROVE  BundleObjects(p, s, k) = BundleObjects(p, t, k)
<1>1. CASE Extends(t, s)
  BY <1>1, GrownChunkIsTheSame
<1>2. CASE Extends(s, t)
  BY <1>2, GrownChunkIsTheSame
<1> QED
  BY <1>1, <1>2
=============================================================================
