----------------------------- MODULE PulseDecay -----------------------------
(***************************************************************************)
(* The recency filter both ways of ingesting share                         *)
(* (otx2taxii/services/pulse_decay.py).  A date is a day number; NoDate is *)
(* a timestamp that is missing or cannot be parsed.                        *)
(***************************************************************************)
EXTENDS Integers

CONSTANTS
    NoDate,
    MaxAgeDays,         \* PULSE_MAX_AGE_DAYS
    DecayEnabled,       \* PULSE_DECAY_ENABLED
    StrictMissing       \* PULSE_DECAY_STRICT_MISSING

ASSUME PulseDecayAssumption ==
    /\ MaxAgeDays \in Int
    /\ NoDate \notin Int
    /\ {DecayEnabled, StrictMissing} \subseteq BOOLEAN

InWindow(date, now) == date # NoDate /\ date >= now - MaxAgeDays

IsPulseEligible(created, modified, now) ==
    \/ InWindow(created, now)
    \/ InWindow(modified, now)
    \/ created = NoDate /\ modified = NoDate /\ ~StrictMissing

\* Mutant of ShouldProcess: only the creation date counts.
ShouldProcessByCreation(created, modified, now) ==
    ~DecayEnabled \/ MaxAgeDays <= 0 \/ IsPulseEligible(created, created, now)

\* A window of zero days, or less, switches the filter off.
ShouldProcess(created, modified, now) ==
    ~DecayEnabled \/ MaxAgeDays <= 0 \/ IsPulseEligible(created, modified, now)

=============================================================================
