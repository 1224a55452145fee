---------------------------- MODULE Ex1Selection ----------------------------
(***************************************************************************)
(* What the calibrations of Experiment 1 make of their measurements: the   *)
(* three powers of the confirmation (campaign.py, _select_power_points)    *)
(* and its number of sensors (population_calibration.py,                   *)
(* _select_population).  Candidates are numbered in the order of the       *)
(* manifest, which is ascending; fractions are percentages.  A selection   *)
(* that raises is the empty set, one that succeeds the set of its result.  *)
(***************************************************************************)
EXTENDS Integers, Sequences

Regimes == {"low", "knee", "high"}

Distance(a, b) == IF a < b THEN b - a ELSE a - b

(* ----------------------------- the powers ------------------------------ *)
TargetActive == [low |-> 20, knee |-> 50, high |-> 80]
MonotonicTolerance == 5

IsMonotonic(active) ==
    \A i \in 1 .. Len(active) - 1 : active[i + 1] + MonotonicTolerance >= active[i]

\* itertools.combinations: indices in ascending order.
Combinations(n) ==
    {t \in [Regimes -> 1 .. n] : t.low < t.knee /\ t.knee < t.high}

Score(active, t) ==
    Distance(active[t.low], TargetActive.low)
    + Distance(active[t.knee], TargetActive.knee)
    + Distance(active[t.high], TargetActive.high)

\* Ties go to the combination that comes first.
Precedes(t, u) ==
    \/ t.low < u.low
    \/ t.low = u.low /\ t.knee < u.knee
    \/ t.low = u.low /\ t.knee = u.knee /\ t.high < u.high

BestCombination(active) ==
    CHOOSE t \in Combinations(Len(active)) :
        \A u \in Combinations(Len(active)) \ {t} :
            \/ Score(active, t) < Score(active, u)
            \/ Score(active, t) = Score(active, u) /\ Precedes(t, u)

Accepted(active, t) ==
    /\ active[t.low] <= 35
    /\ 30 <= active[t.knee] /\ active[t.knee] <= 70
    /\ 65 <= active[t.high]
    /\ active[t.low] < active[t.knee] /\ active[t.knee] < active[t.high]

SelectPowerPoints(active) ==
    IF Len(active) < 3 \/ ~IsMonotonic(active)
    THEN {}
    ELSE {t \in {BestCombination(active)} : Accepted(active, t)}

(* --------------------------- the population ---------------------------- *)
TargetCollision == 10

MaximumDecode(decode) ==
    CHOOSE m \in {decode[i] : i \in 1 .. Len(decode)} :
        \A i \in 1 .. Len(decode) : decode[i] <= m

\* Inside the band of contention, with at least half of the best decode rate.
Eligible(collision, decode) ==
    {i \in 1 .. Len(collision) :
        /\ 3 <= collision[i] /\ collision[i] <= 25
        /\ 2 * decode[i] >= MaximumDecode(decode)}

Nearest(collision, decode) ==
    {i \in Eligible(collision, decode) :
        \A j \in Eligible(collision, decode) \ {i} :
            LET di == Distance(collision[i], TargetCollision)
                dj == Distance(collision[j], TargetCollision)
            IN  di < dj \/ (di = dj /\ i < j)}

\* require_interior: the nearest candidate must not be at the end of the grid.
SelectPopulation(collision, decode) ==
    IF Len(collision) < 3 \/ MaximumDecode(decode) = 0
    THEN {}
    ELSE Nearest(collision, decode) \ {1, Len(collision)}
=============================================================================
