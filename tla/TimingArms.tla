----------------------------- MODULE TimingArms -----------------------------
(***************************************************************************)
(* The timing arms of Experiment 2: the native trace of a source seed and  *)
(* what workload/bundle.py (transform_bundle, validate_bundle) and         *)
(* source.py (_verify_arm_invariants) make of it and demand of it.  There  *)
(* is no behaviour here: PreparedSource has the preparation and the use of *)
(* the arms, DeliveryMeasurement what is measured of a replay.             *)
(***************************************************************************)
EXTENDS Integers, Sequences, FiniteSets, FiniteSetsExt, SequencesExt

CONSTANTS
    Native,         \* the native trace: a sequence of [id, sensor, born, at]
    Sensors,
    ArmNames,       \* the timing arms, in order
    Warmup, Duration,
    Rounding,       \* how far rounding may carry a sum of gaps
    None

Arms == Range(ArmNames)

Ids == {Native[i].id : i \in DOMAIN Native}

ASSUME ArmsAssumption ==
    /\ {Warmup, Duration, Rounding} \subseteq Nat /\ Warmup < Duration
    /\ Arms \subseteq {"native", "gap_permutation_r1", "gap_permutation_r2", "periodic"}
    /\ Native \in Seq([id : Ids, sensor : Sensors, born : Int, at : Int]) /\ None \notin Ids
    /\ \A i \in DOMAIN Native :
        /\ Native[i].born <= Native[i].at /\ Native[i].at < Duration
        /\ \A j \in DOMAIN Native : i < j =>
            Native[i].at <= Native[j].at /\ Native[i].id # Native[j].id

----------------------------------------------------------------------------
(* transform_bundle and its callers.                                        *)

Measured(events) == {i \in DOMAIN events : events[i].at >= Warmup}

\* The events before the measured ones; offsets are sorted.
Before == Cardinality(DOMAIN Native \ Measured(Native))

\* The offsets of the measured events, numbered from 1.
OffsetsOf(events) == [i \in 1..Cardinality(Measured(events)) |-> events[Before + i].at]

Gap(offsets, i) == offsets[i + 1] - offsets[i]

Orders(n) == {p \in [1..n -> 1..n] : \A i, j \in 1..n : p[i] = p[j] => i = j}

SumTo(f, k) == SumFunctionOnSet(f, 1..k)

\* _permuted_offsets: the gaps in another order, each sum off by what rounding
\* does to it; the last one is put back to the native end, and what rounding
\* carried beyond it is pulled back to it.
GapPermutations(offsets) ==
    LET n    == Len(offsets)
        end  == offsets[n]
        sums(order) == [k \in 0..n - 1 |->
            offsets[1] + SumTo([i \in 1..n - 1 |-> Gap(offsets, order[i])], k)]
        rebuilt == {[k \in 1..n |-> sums(order)[k - 1] + off[k]] :
                       order \in Orders(n - 1), off \in [1..n -> 0..Rounding]}
    IN  {[k \in 1..n |-> IF k = 1 THEN offsets[1] ELSE IF k = n \/ r[k] > end THEN end ELSE r[k]] :
            r \in {q \in rebuilt : \A k \in 2..n - 2 : q[k] <= q[k + 1]}}

\* Equal steps from the first measured event to the last.
Periodic(offsets) ==
    LET n == Len(offsets)
    IN  [i \in 1..n |-> offsets[1] + ((i - 1) * (offsets[n] - offsets[1])) \div (n - 1)]

Timings(arm) ==
    LET native == OffsetsOf(Native)
    IN  IF arm = "native" \/ Len(native) < 2 THEN {native}
        ELSE IF arm = "periodic" THEN {Periodic(native)} ELSE GapPermutations(native)

\* Only the time of the measured events changes; an age is meaningful only
\* where release and generation are still in their native relation.
Bundle(arm, offsets) ==
    [events |-> [i \in DOMAIN Native |->
                    IF i > Before THEN [Native[i] EXCEPT !.at = offsets[i - Before]] ELSE Native[i]],
     aged   |-> arm = "native",
     sealed |-> TRUE]

\* validate_bundle: the files are the manifest's, in order, within the horizon.
Valid(b) ==
    /\ b # None /\ b.sealed
    /\ \A i \in DOMAIN b.events : b.events[i].at < Duration
    /\ \A i, j \in DOMAIN b.events : i < j => b.events[i].at <= b.events[j].at

SortedGaps(offsets) == SortSeq([i \in 1..Len(offsets) - 1 |-> Gap(offsets, i)], <)

\* _verify_arm_invariants: an arm has the native count and endpoints, and a
\* permutation the native gaps, as far as rounding allows.
Matches(arm, b) ==
    LET native  == OffsetsOf(Native)
        offsets == OffsetsOf(b.events)
        n       == Len(native)
    IN  /\ Valid(b) /\ Len(offsets) = n
        /\ n >= 2 => offsets[1] = native[1] /\ offsets[n] = native[n]
        /\ arm \in {"gap_permutation_r1", "gap_permutation_r2"} =>
            \A i \in 1..n - 1 :
                SortedGaps(offsets)[i] - SortedGaps(native)[i] \in -Rounding..Rounding

----------------------------------------------------------------------------
(* What an arm promises.                                                    *)

\* What a timing arm is made for: the events, their order, the warm-up and
\* the ends of the measured window are the native ones, ...
SameEvents(b) ==
    /\ Len(b.events) = Len(Native)
    /\ \A i \in DOMAIN Native :
        /\ [b.events[i] EXCEPT !.at = Native[i].at] = Native[i]
        /\ i <= Before => b.events[i] = Native[i]
        /\ i \in {Before + 1, Len(Native)} => b.events[i].at = Native[i].at
        /\ b.events[i].at < Duration
    /\ \A i, j \in DOMAIN Native : i < j => b.events[i].at <= b.events[j].at

\* ... the gaps are the native ones in some order up to rounding, or all alike,
Gaps(b) == LET o == OffsetsOf(b.events) IN [i \in 1..Len(o) - 1 |-> Gap(o, i)]

SameGaps(b) ==
    \E p \in Orders(Len(Gaps(b))) : \A i \in DOMAIN p :
        Gaps(b)[i] - Gaps([events |-> Native])[p[i]] \in -Rounding..Rounding

EqualGaps(b) == \A i, j \in DOMAIN Gaps(b) : Gaps(b)[i] - Gaps(b)[j] \in -1..1

\* ... and ages are reported only where nothing is released before it exists.
Faithful(arm, b) ==
    /\ SameEvents(b)
    /\ IF arm = "periodic" THEN EqualGaps(b) ELSE SameGaps(b)
    /\ b.aged => \A i \in DOMAIN b.events : b.events[i].born <= b.events[i].at
=============================================================================
