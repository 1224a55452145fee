------------------------- MODULE Ex1CampaignProofs -------------------------
(***************************************************************************)
(* Proofs about the campaigns of Experiment 1, for any number of           *)
(* invocations, workers, candidates, campaigns and edits of the checkout,  *)
(* and whatever the trees measure.  The invariant says of a campaign       *)
(* directory how its files follow from each other (CampHolds), of an       *)
(* invocation that what it is about to write agrees with the directory it  *)
(* works in (ProcHolds), and of a worker that outlives its invocation that *)
(* its unit is still due (OrphanInv).  No lock protects a directory: what  *)
(* an invocation has read stays true because a directory only grows        *)
(* (Grows).  Bundles are never replaced, so a calibration yields the same  *)
(* selection whoever concludes it and however often; a design that is      *)
(* frozen a second time selects the same; and a mark is only written after *)
(* the artefact it stands for.  Qualification alone could be lost: it is   *)
(* run once, by the invocation that made the campaign (StartInv).          *)
(***************************************************************************)
EXTENDS Ex1Campaign, FiniteSetTheorems, SequenceTheorems, WellFoundedInduction, TLAPS

----------------------------------------------------------------------------
(* The invariant.                                                           *)

\* What an index says of a run, and an index or an analysis as a whole.
Identities == [spec : TaskSpecs, ran : Trees, says : Trees]
IndexSet   == [design : DesignSet, rows : [ConfirmationTasks -> Identities]]

\* A file has one content, if any.
AtMostOne(S) == \A x, y \in S : x = y

\* What a calibration yields, as a function of what its runs ran.
PowersIn(w, runs) ==
    SelectPowerPoints([i \in 1 .. NumPowers |-> w[runs[<<"power", i>>].ran].active[i]])

CountsIn(w, runs) ==
    SelectPopulation([i \in 1 .. NumCounts |-> w[runs[<<"population", i>>].ran].collision[i]],
                     [i \in 1 .. NumCounts |-> w[runs[<<"population", i>>].ran].decode[i]])

\* What a unit may be about: the power and the number of sensors that the
\* selections of its campaign give it.
Due(c, t, spec) ==
    /\ t \in PowerTasks => spec = [power |-> t[2], count |-> 0]
    /\ t \in PopulationTasks =>
          /\ c.powerSelection # {}
          /\ \A s \in c.powerSelection : spec = [power |-> s.knee, count |-> t[2]]
    /\ t \in ConfirmationTasks =>
          /\ c.powerSelection # {} /\ c.populationSelection # {}
          /\ \A s \in c.powerSelection, n \in c.populationSelection :
                spec = [power |-> s[RegimeOf[t[2]]], count |-> n]

\* A design takes its revision, powers and count from its campaign.
Fits(c, d) ==
    /\ d.rev = c.rev
    /\ c.powerSelection = {d.points} /\ c.populationSelection = {d.count}

\* An index names the bundles that are there.
RowsHold(c, i) ==
    /\ Fits(c, i.design)
    /\ \A t \in ConfirmationTasks : t \in DOMAIN c.runs /\ Identity(c.runs[t]) = i.rows[t]

\* A phase and all that come before it.
Upto ==
    [qualification |-> {"qualification"},
     power         |-> {"qualification", "power"},
     population    |-> {"qualification", "power", "population"},
     freeze        |-> {"qualification", "power", "population", "freeze"},
     confirmation  |-> {"qualification", "power", "population", "freeze", "confirmation"},
     analysis      |-> Phases]

\* The campaign has what this phase and all before it produce.
Earned(c, f) == \A g \in Upto[f] : Artefacts(c, g)

\* What holds of a campaign directory.
CampHolds(w, c) ==
    /\ \A t \in DOMAIN c.runs : Due(c, t, c.runs[t].spec)
    /\ c.powerSelection # {} =>
          PowerTasks \subseteq DOMAIN c.runs /\ c.powerSelection = PowersIn(w, c.runs)
    /\ c.populationSelection # {} =>
          /\ PopulationTasks \subseteq DOMAIN c.runs
          /\ c.populationSelection = CountsIn(w, c.runs) /\ c.powerSelection # {}
    /\ \A d \in c.design : Fits(c, d)
    /\ \A i \in c.index \cup c.analysis \cup c.reanalysis : RowsHold(c, i)
    /\ \A i \in c.reanalysis, t \in ConfirmationTasks : i.rows[t].says = i.design.tree
    /\ \A f \in c.done : Earned(c, f)
    /\ ~c.active => c.analysis # {}
    /\ AtMostOne(c.qualification) /\ AtMostOne(c.design) /\ AtMostOne(c.index)
    /\ AtMostOne(c.analysis) /\ AtMostOne(c.reanalysis)

Calibrations == {"power", "population"}

\* What holds of an invocation while its units run, and before each result
\* that it writes.
WorkHolds(r, c) ==
    /\ Head(r.plan) \in Calibrations \cup {"confirmation"}
    /\ r.busy \cup r.todo \subseteq TasksOf(Head(r.plan)) /\ r.busy \cap r.todo = {}
    /\ Head(r.plan) = "population" => r.read # {} /\ r.read = c.powerSelection
    /\ Head(r.plan) = "confirmation" =>
          /\ r.read # {} /\ AtMostOne(r.read)
          /\ \A d \in r.read : d \in DesignSet /\ Fits(c, d)
    /\ ~r.failed => TasksOf(Head(r.plan)) \subseteq DOMAIN c.runs \cup r.todo \cup r.busy

SelectHolds(w, r, c) ==
    /\ Head(r.plan) \in Calibrations /\ r.result # {}
    /\ Head(r.plan) = "power" =>
          /\ PowerTasks \subseteq DOMAIN c.runs /\ r.result = PowersIn(w, c.runs)
          /\ c.powerSummary # {}
    /\ Head(r.plan) = "population" =>
          /\ PopulationTasks \subseteq DOMAIN c.runs /\ r.result = CountsIn(w, c.runs)
          /\ c.powerSelection # {} /\ c.populationSummary # {}

FrozenHolds(r, c) ==
    /\ Head(r.plan) = "freeze" /\ r.result # {} /\ AtMostOne(r.result)
    /\ \A d \in r.result : d \in DesignSet /\ Fits(c, d)

ReportHolds(r, c) ==
    /\ Head(r.plan) = "analysis" /\ r.result # {} /\ AtMostOne(r.result)
    /\ \A i \in r.result : i \in IndexSet /\ RowsHold(c, i)

Placed == {"publish", "enter", "work", "select", "frozen", "report", "mark", "marked", "close"}

ProcHolds(w, r, c) ==
    /\ r.at = "work" => WorkHolds(r, c)
    /\ r.at = "select" => SelectHolds(w, r, c)
    /\ r.at = "frozen" => FrozenHolds(r, c)
    /\ r.at = "report" => ReportHolds(r, c)
    /\ r.at \in {"work", "select", "frozen", "report"} =>
          \A g \in Upto[Head(r.plan)] \ {Head(r.plan)} : Artefacts(c, g)
    /\ r.at \in {"mark", "marked"} => Earned(c, Head(r.plan))
    /\ r.at = "marked" => /\ \A f \in r.marks : Earned(c, f)
                          /\ ~r.active => c.analysis # {}

\* Where an invocation is, and what it still has to do.
CourseHolds(r) ==
    /\ r.at = "idle" => r = Idle
    /\ r.at # "work" => r.todo = {} /\ r.busy = {}
    /\ r.at # "idle" => /\ Len(r.plan) \in 1 .. Len(AllPhases)
                        /\ \A i \in 2 .. Len(r.plan) : r.plan[i] # "qualification"
    /\ r.at \in {"create", "publish"} => r.plan[1] = "qualification"
    /\ r.at = "attach" => r.plan[1] # "qualification"
    /\ Cardinality(r.busy) <= Workers /\ AtMostOne(r.imported)

\* The parts of the invariant.
CampInv == \A n \in 1 .. Len(camp) : CampHolds(world, camp[n])
CourseInv == \A p \in Procs : CourseHolds(proc[p])
PlaceInv ==
    /\ \A p \in Procs : proc[p].at \in Placed => proc[p].camp \in 1 .. Len(camp)
    /\ \A e \in endpoint : e.camp \in 1 .. Len(camp)
    /\ \A o \in orphans : o.camp \in 1 .. Len(camp)
ProcInv ==
    \A p \in Procs : proc[p].at \in Placed => ProcHolds(world, proc[p], camp[proc[p].camp])
OrphanInv == \A o \in orphans : Due(camp[o.camp], o.unit, o.spec)

\* Before its qualification only its own invocation works on a new campaign.
Starting(r) == r.at \in {"publish", "enter"} /\ Head(r.plan) = "qualification"
StartInv ==
    \A p \in Procs : Starting(proc[p]) =>
        /\ camp[proc[p].camp].qualification = {}
        /\ \A q \in Procs \ {p} : Starting(proc[q]) => proc[q].camp # proc[p].camp
\* The bound on campaigns counts those that are about to be made.
CountInv == Len(camp) + Cardinality(Creating) <= MaxCampaigns

Inv == CampInv /\ CourseInv /\ PlaceInv /\ ProcInv /\ OrphanInv /\ StartInv /\ CountInv

----------------------------------------------------------------------------
(* What the selections return.                                              *)

LEMMA NatMin ==
    ASSUME NEW T, T \subseteq Nat, T # {}
    PROVE  \E x \in T : \A y \in T : x <= y
<1> DEFINE R == {ss \in Nat \X Nat : ss[1] < ss[2]}
<1>1. IsWellFoundedOn(R, Nat)
  BY NatLessThanWellFounded DEF OpToRel
<1>2. \E x \in T : \A y \in T : ~(<<y, x>> \in R)
  <2> HIDE DEF R
  <2> QED
    BY <1>1, WFMin
<1>3. \A x, y \in Nat : ~(<<y, x>> \in R) => x <= y
  BY DEF R
<1> HIDE DEF R
<1> QED
  BY <1>2, <1>3

\* Of the elements of a set that is not empty, some have the least value.
LEMMA Least ==
    ASSUME NEW D, NEW T \in SUBSET D, T # {}, NEW f \in [D -> Nat]
    PROVE  \E x \in T : \A y \in T : f[x] <= f[y]
<1> DEFINE V == {f[x] : x \in T}
<1>1. V \subseteq Nat /\ V # {}
  OBVIOUS
<1>2. PICK v \in V : \A u \in V : v <= u
  <2> HIDE DEF V
  <2> QED
    BY <1>1, NatMin
<1>3. PICK x \in T : v = f[x]
  OBVIOUS
<1>4. \A y \in T : f[y] \in V
  OBVIOUS
<1> QED
  BY <1>2, <1>3, <1>4

LEMMA ScoreNat ==
    ASSUME NEW n \in Nat, NEW active \in [1 .. n -> Nat], NEW t \in [Regimes -> 1 .. n]
    PROVE  Score(active, t) \in Nat
<1>1. t.low \in 1 .. n /\ t.knee \in 1 .. n /\ t.high \in 1 .. n
  BY DEF Regimes
<1>2. \A a, b \in Nat : Distance(a, b) \in Nat
  BY DEF Distance
<1>3. \A i \in 1 .. n : active[i] \in Nat
  OBVIOUS
<1>4. \A i \in 1 .. n : Distance(active[i], TargetActive.low) \in Nat
                        /\ Distance(active[i], TargetActive.knee) \in Nat
                        /\ Distance(active[i], TargetActive.high) \in Nat
  BY <1>2, <1>3 DEF TargetActive
<1>5. \A a, b, c \in Nat : a + b + c \in Nat
  OBVIOUS
<1> HIDE DEF Regimes
<1> QED
  BY <1>1, <1>4, <1>5, Zenon DEF Score

\* Scores and indices order the combinations totally, so one of them is best:
\* the CHOOSE of BestCombination is about something.
LEMMA BestIsCombination ==
    ASSUME NEW n \in Nat, n >= 3, NEW active \in [1 .. n -> Nat]
    PROVE  BestCombination(active) \in [Regimes -> 1 .. n]
<1> DEFINE C == Combinations(n)
           D == [Regimes -> 1 .. n]
<1>1. Len(active) = n
  OBVIOUS
<1>2. C \in SUBSET D
  BY DEF Combinations
<1>3. C # {}
  <2> DEFINE t == [g \in Regimes |-> IF g = "low" THEN 1 ELSE IF g = "knee" THEN 2 ELSE 3]
  <2>1. t \in D
    OBVIOUS
  <2>2. t.low = 1 /\ t.knee = 2 /\ t.high = 3
    BY DEF Regimes
  <2> HIDE DEF t
  <2> QED
    BY <2>1, <2>2 DEF Combinations
<1>4. \A t \in D : t.low \in Nat /\ t.knee \in Nat /\ t.high \in Nat /\ Score(active, t) \in Nat
  BY ScoreNat DEF Regimes
<1>5. \A t, u \in D : t.low = u.low /\ t.knee = u.knee /\ t.high = u.high => t = u
  BY DEF Regimes
<1> DEFINE score == [t \in D |-> Score(active, t)]
           low   == [t \in D |-> t.low]
           knee  == [t \in D |-> t.knee]
           high  == [t \in D |-> t.high]
<1>6. score \in [D -> Nat] /\ low \in [D -> Nat] /\ knee \in [D -> Nat] /\ high \in [D -> Nat]
  BY <1>4
<1>7. \A t \in D : score[t] = Score(active, t) /\ low[t] = t.low /\ knee[t] = t.knee /\ high[t] = t.high
  OBVIOUS
<1> HIDE DEF C, D, score, low, knee, high
<1>8. PICK t1 \in C : \A u \in C : score[t1] <= score[u]
  BY <1>2, <1>3, <1>6, Least
<1> DEFINE C1 == {u \in C : score[u] = score[t1]}
<1>9. C1 \in SUBSET D /\ t1 \in C1
  BY <1>2
<1>10. PICK t2 \in C1 : \A u \in C1 : low[t2] <= low[u]
  <2> HIDE DEF C1
  <2> QED
    BY <1>6, <1>9, Least
<1> DEFINE C2 == {u \in C1 : low[u] = low[t2]}
<1>11. C2 \in SUBSET D /\ t2 \in C2
  BY <1>9
<1>12. PICK t3 \in C2 : \A u \in C2 : knee[t3] <= knee[u]
  <2> HIDE DEF C2
  <2> QED
    BY <1>6, <1>11, Least
<1> DEFINE C3 == {u \in C2 : knee[u] = knee[t3]}
<1>13. C3 \in SUBSET D /\ t3 \in C3
  BY <1>11
<1>14. PICK t \in C3 : \A u \in C3 : high[t] <= high[u]
  <2> HIDE DEF C3
  <2> QED
    BY <1>6, <1>13, Least
<1>15. t \in C
  OBVIOUS
<1>16. ASSUME NEW u \in C \ {t}
       PROVE  \/ Score(active, t) < Score(active, u)
              \/ Score(active, t) = Score(active, u) /\ Precedes(t, u)
  <2>1. t \in D /\ u \in D /\ t1 \in D
    BY <1>2, <1>15, <1>9
  <2>2. /\ score[t] = score[t1] /\ low[t] = low[t2] /\ knee[t] = knee[t3]
    OBVIOUS
  <2>3. score[u] # score[t] => score[t] < score[u]
    BY <1>8, <2>1, <2>2, <1>6
  <2>4. score[u] = score[t] /\ low[u] # low[t] => low[t] < low[u]
    <3>1. score[u] = score[t] => u \in C1
      BY <2>2
    <3> QED
      BY <3>1, <1>10, <2>1, <2>2, <1>6, <1>9
  <2>5. score[u] = score[t] /\ low[u] = low[t] /\ knee[u] # knee[t] => knee[t] < knee[u]
    <3>1. score[u] = score[t] /\ low[u] = low[t] => u \in C2
      BY <2>2
    <3> QED
      BY <3>1, <1>12, <2>1, <2>2, <1>6, <1>11
  <2>6. score[u] = score[t] /\ low[u] = low[t] /\ knee[u] = knee[t] /\ high[u] # high[t]
            => high[t] < high[u]
    <3>1. score[u] = score[t] /\ low[u] = low[t] /\ knee[u] = knee[t] => u \in C3
      BY <2>2
    <3>2. high[u] \in Nat /\ high[t] \in Nat
      BY <2>1, <1>6
    <3> HIDE DEF C3
    <3> QED
      BY <3>1, <1>14, <3>2
  <2>7. score[u] = score[t] /\ low[u] = low[t] /\ knee[u] = knee[t] => high[u] # high[t]
    BY <1>5, <1>7, <2>1
  <2> QED
    BY <2>1, <2>3, <2>4, <2>5, <2>6, <2>7, <1>7 DEF Precedes
<1>17. BestCombination(active) \in C
  BY <1>1, <1>15, <1>16 DEF BestCombination, C
<1> QED
  BY <1>2, <1>17 DEF D

LEMMA PowerSelection ==
    ASSUME NEW n \in Nat, NEW active \in [1 .. n -> Nat]
    PROVE  /\ SelectPowerPoints(active) \subseteq [Regimes -> 1 .. n]
           /\ AtMostOne(SelectPowerPoints(active))
<1>1. Len(active) = n
  OBVIOUS
<1>2. AtMostOne(SelectPowerPoints(active))
  BY DEF SelectPowerPoints, AtMostOne
<1>3. CASE n < 3
  BY <1>1, <1>2, <1>3 DEF SelectPowerPoints
<1>4. CASE n >= 3
  <2>1. BestCombination(active) \in [Regimes -> 1 .. n]
    BY <1>4, BestIsCombination
  <2>2. SelectPowerPoints(active) \subseteq {BestCombination(active)}
    BY DEF SelectPowerPoints
  <2> QED
    BY <2>1, <2>2, <1>2
<1> QED
  BY <1>3, <1>4

LEMMA PopulationSelection ==
    ASSUME NEW n \in Nat, NEW collision \in [1 .. n -> Nat], NEW decode
    PROVE  /\ SelectPopulation(collision, decode) \subseteq 1 .. n
           /\ AtMostOne(SelectPopulation(collision, decode))
<1> DEFINE N == Nearest(collision, decode)
<1>1. Len(collision) = n
  OBVIOUS
<1>2. SelectPopulation(collision, decode) \subseteq N
  BY DEF SelectPopulation
<1>3. N \subseteq 1 .. n
  BY <1>1 DEF Nearest, Eligible
<1>4. ASSUME NEW i \in N, NEW j \in N, i # j PROVE FALSE
  <2> DEFINE di == Distance(collision[i], TargetCollision)
             dj == Distance(collision[j], TargetCollision)
  <2>1. i \in 1 .. n /\ j \in 1 .. n
    BY <1>3
  <2>2. di \in Nat /\ dj \in Nat
    BY <2>1 DEF Distance, TargetCollision
  <2>3. i \in Eligible(collision, decode) /\ j \in Eligible(collision, decode)
    BY DEF Nearest
  <2>4. di < dj \/ (di = dj /\ i < j)
    BY <1>4, <2>3 DEF Nearest
  <2>5. dj < di \/ (dj = di /\ j < i)
    BY <1>4, <2>3 DEF Nearest
  <2> HIDE DEF di, dj
  <2> QED
    BY <2>1, <2>2, <2>4, <2>5
<1> QED
  BY <1>2, <1>3, <1>4 DEF AtMostOne

----------------------------------------------------------------------------
(* Types.                                                                   *)

Steps == {"idle", "create", "attach"} \cup Placed

Bundles == [spec : TaskSpecs, ran : Trees, says : Trees, whole : BOOLEAN]
Runs    == UNION {[D -> Bundles] : D \in SUBSET Tasks}

CampStates ==
    [rev : {c.rev : c \in Codes}, done : SUBSET Phases, active : BOOLEAN,
     qualification : SUBSET [passed : BOOLEAN, tree : Trees],
     powerSummary : SUBSET {"summary"}, powerSelection : SUBSET Triples,
     populationSummary : SUBSET {"summary"}, populationSelection : SUBSET (1 .. NumCounts),
     design : SUBSET DesignSet, index : SUBSET IndexSet,
     analysis : SUBSET IndexSet, reanalysis : SUBSET IndexSet, runs : Runs]

Results == Triples \cup (1 .. NumCounts) \cup DesignSet \cup IndexSet

ProcStates ==
    [at : Steps, plan : Seq(Phases), camp : Nat, imported : SUBSET Trees,
     read : SUBSET (Triples \cup DesignSet), todo : SUBSET Tasks, busy : SUBSET Tasks,
     failed : BOOLEAN, result : SUBSET Results, marks : SUBSET Phases, active : BOOLEAN]

Endpoints == [camp : Nat, active : BOOLEAN]
Orphans   == [camp : Nat, unit : Tasks, spec : TaskSpecs, ran : Trees]

Typed ==
    /\ world \in Worlds /\ code \in Codes
    /\ camp \in Seq(CampStates) /\ proc \in [Procs -> ProcStates]
    /\ endpoint \subseteq Endpoints /\ orphans \subseteq Orphans

LEMMA PhaseFacts ==
    /\ Phases = {"qualification", "power", "population", "freeze", "confirmation", "analysis"}
    /\ Len(AllPhases) = 6 /\ AllPhases \in Seq(Phases)
    /\ \A f \in Phases : Upto[f] \subseteq Phases /\ f \in Upto[f]
    /\ \A f \in Phases : Requires[f] \subseteq Phases
<1>1. Len(AllPhases) = 6
  BY DEF AllPhases
<1>2. Phases = {"qualification", "power", "population", "freeze", "confirmation", "analysis"}
  BY <1>1 DEF Phases, AllPhases
<1>3. AllPhases \in Seq(Phases)
  BY <1>2 DEF AllPhases
<1>4. \A f \in Phases : Upto[f] \subseteq Phases /\ f \in Upto[f]
  BY <1>2 DEF Upto
<1>5. \A f \in Phases : Requires[f] \subseteq Phases
  BY <1>2 DEF Requires
<1> QED
  BY <1>1, <1>2, <1>3, <1>4, <1>5

\* What a phase requires is all that comes before it.
LEMMA RequiredBefore ==
    ASSUME NEW f \in Phases, NEW g \in Upto[f] \ {f}
    PROVE  \E h \in Requires[f] : g \in Upto[h]
BY PhaseFacts DEF Upto, Requires

LEMMA EarnedMeans ==
    ASSUME NEW c, NEW f \in Phases
    PROVE  Earned(c, f) <=> \A i, j \in 1 .. Len(AllPhases) :
                               AllPhases[j] = f /\ i <= j => Artefacts(c, AllPhases[i])
<1>1. \A g : g \in Upto[f] <=> \E i, j \in 1 .. 6 : AllPhases[j] = f /\ i <= j /\ g = AllPhases[i]
  <2>1. \A i \in 1 .. 6 : i = 1 \/ i = 2 \/ i = 3 \/ i = 4 \/ i = 5 \/ i = 6
    OBVIOUS
  <2>2. /\ AllPhases[1] = "qualification" /\ AllPhases[2] = "power" /\ AllPhases[3] = "population"
        /\ AllPhases[4] = "freeze" /\ AllPhases[5] = "confirmation" /\ AllPhases[6] = "analysis"
    BY DEF AllPhases
  <2>3. CASE f = "qualification"
    BY <2>1, <2>2, <2>3 DEF Upto
  <2>4. CASE f = "power"
    BY <2>1, <2>2, <2>4 DEF Upto
  <2>5. CASE f = "population"
    BY <2>1, <2>2, <2>5 DEF Upto
  <2>6. CASE f = "freeze"
    BY <2>1, <2>2, <2>6 DEF Upto
  <2>7. CASE f = "confirmation"
    BY <2>1, <2>2, <2>7 DEF Upto
  <2>8. CASE f = "analysis"
    BY <2>1, <2>2, <2>8, PhaseFacts DEF Upto
  <2> QED
    BY <2>3, <2>4, <2>5, <2>6, <2>7, <2>8, PhaseFacts
<1>2. Len(AllPhases) = 6
  BY PhaseFacts
<1>3. ASSUME Earned(c, f), NEW i \in 1 .. 6, NEW j \in 1 .. 6, AllPhases[j] = f, i <= j
      PROVE  Artefacts(c, AllPhases[i])
  <2>1. AllPhases[i] \in Upto[f]
    BY <1>1, <1>3
  <2> QED
    BY <2>1, <1>3 DEF Earned
<1>4. ASSUME \A i, j \in 1 .. 6 : AllPhases[j] = f /\ i <= j => Artefacts(c, AllPhases[i])
      PROVE  Earned(c, f)
  <2> SUFFICES ASSUME NEW g \in Upto[f] PROVE Artefacts(c, g)
    BY DEF Earned
  <2>1. PICK i, j \in 1 .. 6 : AllPhases[j] = f /\ i <= j /\ g = AllPhases[i]
    BY <1>1
  <2> QED
    BY <2>1, <1>4
<1> QED
  BY <1>2, <1>3, <1>4

LEMMA TaskFacts ==
    /\ TasksOf("power") = PowerTasks /\ TasksOf("population") = PopulationTasks
    /\ TasksOf("confirmation") = ConfirmationTasks
    /\ \A t \in PowerTasks : t[1] = "power" /\ t[2] \in 1 .. NumPowers /\ t = <<"power", t[2]>>
    /\ \A t \in PopulationTasks : t[1] = "population" /\ t[2] \in 1 .. NumCounts
    /\ \A t \in ConfirmationTasks : t[1] = "confirmation" /\ t[2] \in 1 .. Len(RegimeOf)
    /\ \A i \in 1 .. NumPowers : <<"power", i>> \in PowerTasks
    /\ \A i \in 1 .. NumCounts : <<"population", i>> \in PopulationTasks
    /\ PowerTasks \subseteq Tasks /\ PopulationTasks \subseteq Tasks
    /\ ConfirmationTasks \subseteq Tasks
    /\ \A t \in Tasks : t \in PowerTasks \/ t \in PopulationTasks \/ t \in ConfirmationTasks
BY DEF Tasks, TasksOf, PowerTasks, PopulationTasks, ConfirmationTasks

LEMMA TasksFinite == IsFiniteSet(Tasks)
<1>1. ASSUME NEW n \in Nat, NEW name PROVE IsFiniteSet({<<name, i>> : i \in 1 .. n})
  <2> DEFINE f == [i \in 1 .. n |-> <<name, i>>]
  <2>1. IsFiniteSet(1 .. n)
    BY FS_Interval
  <2>2. IsFiniteSet({f[i] : i \in 1 .. n})
    <3> DEFINE T == {f[i] : i \in 1 .. n}
    <3>1. f \in Surjection(1 .. n, T)
      BY DEF Surjection
    <3> HIDE DEF f, T
    <3>2. IsFiniteSet(T)
      BY <2>1, <3>1, FS_Surjection
    <3> QED
      BY <3>2 DEF T
  <2>3. {f[i] : i \in 1 .. n} = {<<name, i>> : i \in 1 .. n}
    OBVIOUS
  <2> QED
    BY <2>2, <2>3
<1>2. Len(RegimeOf) \in Nat /\ NumPowers \in Nat /\ NumCounts \in Nat
  BY SizeAssumption
<1> QED
  BY <1>1, <1>2, FS_Union DEF Tasks, PowerTasks, PopulationTasks, ConfirmationTasks

LEMMA RunsAre ==
    ASSUME NEW f
    PROVE  f \in Runs <=> f = [t \in DOMAIN f |-> f[t]] /\ DOMAIN f \subseteq Tasks
                          /\ \A t \in DOMAIN f : f[t] \in Bundles
<1>1. ASSUME f \in Runs
      PROVE  f = [t \in DOMAIN f |-> f[t]] /\ DOMAIN f \subseteq Tasks
             /\ \A t \in DOMAIN f : f[t] \in Bundles
  <2>1. PICK D \in SUBSET Tasks : f \in [D -> Bundles]
    BY <1>1 DEF Runs
  <2> QED
    BY <2>1
<1>2. ASSUME f = [t \in DOMAIN f |-> f[t]], DOMAIN f \subseteq Tasks,
             \A t \in DOMAIN f : f[t] \in Bundles
      PROVE  f \in Runs
  <2>1. f \in [DOMAIN f -> Bundles]
    BY <1>2
  <2> QED
    BY <2>1, <1>2 DEF Runs
<1> QED
  BY <1>1, <1>2

----------------------------------------------------------------------------
(* What the runs of a calibration yield.                                    *)

KeepsRuns(old, new) ==
    \A t \in DOMAIN old : t \in DOMAIN new /\ Identity(new[t]) = Identity(old[t])

LEMMA WorldYields ==
    ASSUME NEW w \in Worlds, NEW tree \in Trees
    PROVE  w[tree] \in Outcomes
BY WorldAssumption DEF Trees

LEMMA PowersFound ==
    ASSUME NEW w \in Worlds, NEW runs \in Runs, PowerTasks \subseteq DOMAIN runs
    PROVE  PowersIn(w, runs) \subseteq Triples /\ AtMostOne(PowersIn(w, runs))
<1> DEFINE active == [i \in 1 .. NumPowers |-> w[runs[<<"power", i>>].ran].active[i]]
<1>1. ASSUME NEW i \in 1 .. NumPowers PROVE w[runs[<<"power", i>>].ran].active[i] \in Nat
  <2>1. runs[<<"power", i>>] \in Bundles
    BY TaskFacts, RunsAre
  <2>2. w[runs[<<"power", i>>].ran] \in Outcomes
    BY <2>1, WorldYields DEF Bundles
  <2> QED
    BY <2>2 DEF Outcomes
<1>2. active \in [1 .. NumPowers -> Nat]
  BY <1>1
<1> QED
  <2> HIDE DEF active
  <2>1. SelectPowerPoints(active) \subseteq [Regimes -> 1 .. NumPowers]
        /\ AtMostOne(SelectPowerPoints(active))
    BY <1>2, PowerSelection, SizeAssumption
  <2> QED
    BY <2>1 DEF PowersIn, active, Triples

LEMMA CountsFound ==
    ASSUME NEW w \in Worlds, NEW runs \in Runs, PopulationTasks \subseteq DOMAIN runs
    PROVE  CountsIn(w, runs) \subseteq 1 .. NumCounts /\ AtMostOne(CountsIn(w, runs))
<1> DEFINE collision == [i \in 1 .. NumCounts |-> w[runs[<<"population", i>>].ran].collision[i]]
           decode == [i \in 1 .. NumCounts |-> w[runs[<<"population", i>>].ran].decode[i]]
<1>1. ASSUME NEW i \in 1 .. NumCounts
      PROVE  w[runs[<<"population", i>>].ran].collision[i] \in Nat
  <2>1. runs[<<"population", i>>] \in Bundles
    BY TaskFacts, RunsAre
  <2>2. w[runs[<<"population", i>>].ran] \in Outcomes
    BY <2>1, WorldYields DEF Bundles
  <2> QED
    BY <2>2 DEF Outcomes
<1>2. collision \in [1 .. NumCounts -> Nat]
  BY <1>1
<1> QED
  <2> HIDE DEF collision, decode
  <2>1. SelectPopulation(collision, decode) \subseteq 1 .. NumCounts
        /\ AtMostOne(SelectPopulation(collision, decode))
    BY <1>2, PopulationSelection, SizeAssumption
  <2> QED
    BY <2>1 DEF CountsIn, collision, decode

LEMMA PowersKept ==
    ASSUME NEW w, NEW old, NEW new, KeepsRuns(old, new), PowerTasks \subseteq DOMAIN old
    PROVE  PowerTasks \subseteq DOMAIN new /\ PowersIn(w, new) = PowersIn(w, old)
<1>1. \A i \in 1 .. NumPowers : new[<<"power", i>>].ran = old[<<"power", i>>].ran
  <2> TAKE i \in 1 .. NumPowers
  <2>1. Identity(new[<<"power", i>>]) = Identity(old[<<"power", i>>])
    BY TaskFacts DEF KeepsRuns
  <2> QED
    BY <2>1 DEF Identity
<1>2. [i \in 1 .. NumPowers |-> w[new[<<"power", i>>].ran].active[i]]
      = [i \in 1 .. NumPowers |-> w[old[<<"power", i>>].ran].active[i]]
  BY <1>1
<1> QED
  BY <1>2 DEF PowersIn, KeepsRuns

LEMMA CountsKept ==
    ASSUME NEW w, NEW old, NEW new, KeepsRuns(old, new), PopulationTasks \subseteq DOMAIN old
    PROVE  PopulationTasks \subseteq DOMAIN new /\ CountsIn(w, new) = CountsIn(w, old)
<1>1. \A i \in 1 .. NumCounts : new[<<"population", i>>].ran = old[<<"population", i>>].ran
  <2> TAKE i \in 1 .. NumCounts
  <2>1. Identity(new[<<"population", i>>]) = Identity(old[<<"population", i>>])
    BY TaskFacts DEF KeepsRuns
  <2> QED
    BY <2>1 DEF Identity
<1>2. /\ [i \in 1 .. NumCounts |-> w[new[<<"population", i>>].ran].collision[i]]
         = [i \in 1 .. NumCounts |-> w[old[<<"population", i>>].ran].collision[i]]
      /\ [i \in 1 .. NumCounts |-> w[new[<<"population", i>>].ran].decode[i]]
         = [i \in 1 .. NumCounts |-> w[old[<<"population", i>>].ran].decode[i]]
  BY <1>1
<1> QED
  BY <1>2 DEF CountsIn, KeepsRuns

\* They are what the model computes.
LEMMA YieldIsMeasured ==
    ASSUME NEW c
    PROVE  PowersOf(c) = PowersIn(world, c.runs) /\ CountsOf(c) = CountsIn(world, c.runs)
BY DEF PowersOf, CountsOf, PowersIn, CountsIn, Measured

----------------------------------------------------------------------------
(* A campaign only grows.                                                   *)

Grows(c, d) ==
    /\ d.rev = c.rev
    /\ KeepsRuns(c.runs, d.runs)
    /\ c.powerSelection # {} => d.powerSelection = c.powerSelection
    /\ c.populationSelection # {} => d.populationSelection = c.populationSelection
    /\ Passed(c) => Passed(d)
    /\ c.powerSummary # {} => d.powerSummary # {}
    /\ c.populationSummary # {} => d.populationSummary # {}
    /\ c.design # {} => d.design # {}
    /\ c.index # {} => d.index # {}
    /\ c.analysis # {} => d.analysis # {}

LEMMA GrowsSame == ASSUME NEW c PROVE Grows(c, c)
BY DEF Grows, KeepsRuns

LEMMA ArtefactsKept ==
    ASSUME NEW c, NEW d, Grows(c, d), NEW f \in Phases, Artefacts(c, f)
    PROVE  Artefacts(d, f)
BY PhaseFacts DEF Grows, Artefacts

LEMMA EarnedKept ==
    ASSUME NEW c, NEW d, Grows(c, d), NEW f \in Phases, Earned(c, f)
    PROVE  Earned(d, f)
BY ArtefactsKept, PhaseFacts DEF Earned

LEMMA DueKept ==
    ASSUME NEW c, NEW d, Grows(c, d), NEW t, NEW spec, Due(c, t, spec)
    PROVE  Due(d, t, spec)
BY DEF Grows, Due

LEMMA FitsKept ==
    ASSUME NEW c, NEW d, Grows(c, d), NEW x, Fits(c, x)
    PROVE  Fits(d, x)
BY DEF Grows, Fits

LEMMA RowsKept ==
    ASSUME NEW c, NEW d, Grows(c, d), NEW i, RowsHold(c, i)
    PROVE  RowsHold(d, i)
BY FitsKept DEF Grows, RowsHold, KeepsRuns

LEMMA ProcKept ==
    ASSUME NEW w \in Worlds, NEW c \in CampStates, NEW d \in CampStates, Grows(c, d),
           NEW r \in ProcStates, ProcHolds(w, r, c), CourseHolds(r), r.at \in Placed
    PROVE  ProcHolds(w, r, d)
<1>1. KeepsRuns(c.runs, d.runs) /\ DOMAIN c.runs \subseteq DOMAIN d.runs
  BY DEF Grows, KeepsRuns
<1>2. r.plan \in Seq(Phases) /\ r.marks \subseteq Phases
  BY DEF ProcStates
<1>3. Head(r.plan) \in Phases
  <2>1. r.at # "idle"
    BY DEF Placed
  <2>2. Len(r.plan) \in 1 .. Len(AllPhases)
    BY <2>1 DEF CourseHolds
  <2> QED
    BY <1>2, <2>2, PhaseFacts
<1>4. r.at = "work" => WorkHolds(r, d)
  <2> SUFFICES ASSUME r.at = "work" PROVE WorkHolds(r, d)
    OBVIOUS
  <2>1. WorkHolds(r, c)
    BY DEF ProcHolds
  <2>2. Head(r.plan) = "population" => r.read # {} /\ r.read = d.powerSelection
    BY <2>1 DEF WorkHolds, Grows
  <2>3. \A x : Fits(c, x) => Fits(d, x)
    BY FitsKept
  <2> QED
    BY <2>1, <2>2, <2>3, <1>1 DEF WorkHolds
<1>5. r.at = "select" => SelectHolds(w, r, d)
  <2> SUFFICES ASSUME r.at = "select" PROVE SelectHolds(w, r, d)
    OBVIOUS
  <2>1. SelectHolds(w, r, c)
    BY DEF ProcHolds
  <2>2. Head(r.plan) = "power" =>
          PowerTasks \subseteq DOMAIN d.runs /\ r.result = PowersIn(w, d.runs)
    BY <2>1, <1>1, PowersKept DEF SelectHolds
  <2>3. Head(r.plan) = "population" =>
          PopulationTasks \subseteq DOMAIN d.runs /\ r.result = CountsIn(w, d.runs)
    BY <2>1, <1>1, CountsKept DEF SelectHolds
  <2> QED
    BY <2>1, <2>2, <2>3 DEF SelectHolds, Grows
<1>6. r.at = "frozen" => FrozenHolds(r, d)
  BY FitsKept DEF ProcHolds, FrozenHolds
<1>7. r.at = "report" => ReportHolds(r, d)
  BY RowsKept DEF ProcHolds, ReportHolds
<1>8. r.at \in {"work", "select", "frozen", "report"} =>
          \A g \in Upto[Head(r.plan)] \ {Head(r.plan)} : Artefacts(d, g)
  BY <1>3, ArtefactsKept, PhaseFacts DEF ProcHolds
<1>9. r.at \in {"mark", "marked"} => Earned(d, Head(r.plan))
  BY <1>3, EarnedKept DEF ProcHolds
<1>10. r.at = "marked" => /\ \A f \in r.marks : Earned(d, f)
                          /\ ~r.active => d.analysis # {}
  BY <1>2, EarnedKept DEF ProcHolds, Grows
<1> QED
  BY <1>4, <1>5, <1>6, <1>7, <1>8, <1>9, <1>10 DEF ProcHolds

\* A campaign that only grows keeps to what it holds, and what is added to it
\* is looked at on its own.
LEMMA CampKept ==
    ASSUME NEW w \in Worlds, NEW c \in CampStates, NEW d \in CampStates, Grows(c, d),
           CampHolds(w, c),
           \A t \in DOMAIN d.runs \ DOMAIN c.runs : Due(d, t, d.runs[t].spec),
           d.powerSelection = c.powerSelection \/
              (PowerTasks \subseteq DOMAIN d.runs /\ d.powerSelection = PowersIn(w, d.runs)),
           d.populationSelection = c.populationSelection \/
              (/\ PopulationTasks \subseteq DOMAIN d.runs
               /\ d.populationSelection = CountsIn(w, d.runs) /\ d.powerSelection # {}),
           \A x \in d.design \ c.design : Fits(d, x),
           \A i \in (d.index \cup d.analysis \cup d.reanalysis)
                    \ (c.index \cup c.analysis \cup c.reanalysis) : RowsHold(d, i),
           \A i \in d.reanalysis \ c.reanalysis, t \in ConfirmationTasks :
              i.rows[t].says = i.design.tree,
           \A f \in d.done \ c.done : Earned(d, f),
           d.active = c.active \/ (~d.active => d.analysis # {}),
           AtMostOne(d.qualification), AtMostOne(d.design), AtMostOne(d.index),
           AtMostOne(d.analysis), AtMostOne(d.reanalysis)
    PROVE  CampHolds(w, d)
<1>1. KeepsRuns(c.runs, d.runs)
  BY DEF Grows
<1>2. ASSUME NEW t \in DOMAIN d.runs PROVE Due(d, t, d.runs[t].spec)
  <2>1. CASE t \in DOMAIN c.runs
    <3>1. d.runs[t].spec = c.runs[t].spec
      BY <1>1, <2>1 DEF KeepsRuns, Identity
    <3>2. Due(c, t, c.runs[t].spec)
      BY <2>1 DEF CampHolds
    <3> QED
      BY <3>1, <3>2, DueKept
  <2> QED
    BY <1>2, <2>1
<1>3. d.powerSelection # {} =>
          PowerTasks \subseteq DOMAIN d.runs /\ d.powerSelection = PowersIn(w, d.runs)
  <2>1. CASE d.powerSelection = c.powerSelection
    BY <2>1, <1>1, PowersKept DEF CampHolds
  <2> QED
    BY <2>1
<1>4. d.populationSelection # {} =>
          /\ PopulationTasks \subseteq DOMAIN d.runs
          /\ d.populationSelection = CountsIn(w, d.runs) /\ d.powerSelection # {}
  <2>1. CASE d.populationSelection = c.populationSelection
    <3> SUFFICES ASSUME d.populationSelection # {}
                 PROVE  /\ PopulationTasks \subseteq DOMAIN d.runs
                        /\ d.populationSelection = CountsIn(w, d.runs)
                        /\ d.powerSelection # {}
      OBVIOUS
    <3>1. /\ PopulationTasks \subseteq DOMAIN c.runs
          /\ c.populationSelection = CountsIn(w, c.runs) /\ c.powerSelection # {}
      BY <2>1 DEF CampHolds
    <3>2. d.powerSelection # {}
      BY <3>1 DEF Grows
    <3> QED
      BY <2>1, <3>1, <3>2, <1>1, CountsKept
  <2> QED
    BY <2>1
<1>5. \A x \in d.design : Fits(d, x)
  BY FitsKept DEF CampHolds
<1>6. \A i \in d.index \cup d.analysis \cup d.reanalysis : RowsHold(d, i)
  <2>1. \A i \in c.index \cup c.analysis \cup c.reanalysis : RowsHold(d, i)
    BY RowsKept DEF CampHolds
  <2> QED
    BY <2>1
<1>7. \A i \in d.reanalysis, t \in ConfirmationTasks : i.rows[t].says = i.design.tree
  BY DEF CampHolds
<1>8. \A f \in d.done : Earned(d, f)
  <2>1. c.done \subseteq Phases
    BY DEF CampStates
  <2>2. \A f \in c.done : Earned(d, f)
    BY <2>1, EarnedKept DEF CampHolds
  <2> QED
    BY <2>2
<1>9. ~d.active => d.analysis # {}
  BY DEF CampHolds, Grows
<1> QED
  BY <1>2, <1>3, <1>4, <1>5, <1>6, <1>7, <1>8, <1>9 DEF CampHolds

----------------------------------------------------------------------------
(* A step of one invocation.                                                *)

LEMMA TypedParts ==
    ASSUME Typed
    PROVE  /\ Len(camp) \in Nat /\ \A n \in 1 .. Len(camp) : camp[n] \in CampStates
           /\ \A p \in Procs : proc[p] \in ProcStates
BY DEF Typed

\* What a step of an invocation owes the others: the campaigns grow and keep
\* to what holds of them, the endpoint and the orphans stay about campaigns.
CampStep ==
    /\ camp' \in Seq(CampStates) /\ Len(camp) <= Len(camp')
    /\ \A n \in 1 .. Len(camp) : Grows(camp[n], camp'[n])
    /\ \A n \in 1 .. Len(camp') : CampHolds(world, camp'[n])

EndpointStep ==
    /\ endpoint' \subseteq Endpoints
    /\ \A e \in endpoint' : e.camp \in 1 .. Len(camp')

OrphanStep ==
    /\ orphans' \subseteq Orphans
    /\ \A o \in orphans' :
          o.camp \in 1 .. Len(camp') /\ Due(camp'[o.camp], o.unit, o.spec)

\* Only the invocation that made a campaign qualifies it, and once.
QualificationStep(p) ==
    \A n \in 1 .. Len(camp) :
        \/ camp'[n].qualification = camp[n].qualification
        \/ Starting(proc[p]) /\ proc[p].camp = n

StartStep(p, r) ==
    Starting(r) =>
        /\ camp'[r.camp].qualification = {}
        /\ r.camp > Len(camp) \/ (Starting(proc[p]) /\ proc[p].camp = r.camp)

LEMMA CampSame ==
    ASSUME Typed, Inv, camp' = camp
    PROVE  CampStep /\ \A p \in Procs : QualificationStep(p)
<1>1. CampStep
  BY GrowsSame DEF CampStep, Typed, Inv, CampInv
<1> QED
  BY <1>1 DEF QualificationStep

LEMMA CampChanged ==
    ASSUME Typed, Inv, NEW n \in 1 .. Len(camp), NEW c \in CampStates,
           camp' = [camp EXCEPT ![n] = c], Grows(camp[n], c), CampHolds(world, c)
    PROVE  /\ CampStep /\ Len(camp') = Len(camp) /\ camp'[n] = c
           /\ \A m \in 1 .. Len(camp) : m # n => camp'[m] = camp[m]
           /\ c.qualification = camp[n].qualification => \A p \in Procs : QualificationStep(p)
<1>1. camp \in Seq(CampStates) /\ Len(camp) \in Nat
  BY DEF Typed
<1>2. /\ camp' \in Seq(CampStates) /\ Len(camp') = Len(camp) /\ camp'[n] = c
      /\ \A m \in 1 .. Len(camp) : m # n => camp'[m] = camp[m]
  BY <1>1
<1>3. CampStep
  <2>1. \A m \in 1 .. Len(camp) : Grows(camp[m], camp'[m])
    BY <1>2, GrowsSame
  <2>2. \A m \in 1 .. Len(camp) : CampHolds(world, camp'[m])
    BY <1>2 DEF Inv, CampInv
  <2> QED
    BY <1>1, <1>2, <2>1, <2>2 DEF CampStep
<1>4. c.qualification = camp[n].qualification => \A p \in Procs : QualificationStep(p)
  BY <1>2 DEF QualificationStep
<1> QED
  BY <1>2, <1>3, <1>4

LEMMA EndpointSame ==
    ASSUME Typed, Inv, CampStep, endpoint' = endpoint
    PROVE  EndpointStep
<1>1. Len(camp) \in Nat /\ Len(camp') \in Nat /\ Len(camp) <= Len(camp')
  BY DEF Typed, CampStep
<1> QED
  BY <1>1 DEF EndpointStep, Typed, Inv, PlaceInv

LEMMA OrphansLess ==
    ASSUME Typed, Inv, CampStep, orphans' \subseteq orphans
    PROVE  OrphanStep
<1>1. Len(camp) \in Nat /\ Len(camp') \in Nat /\ Len(camp) <= Len(camp')
  BY DEF Typed, CampStep
<1>2. ASSUME NEW o \in orphans' 
      PROVE  o \in Orphans /\ o.camp \in 1 .. Len(camp') /\ Due(camp'[o.camp], o.unit, o.spec)
  <2>1. o \in orphans
    BY <1>2
  <2>2. o \in Orphans /\ o.camp \in 1 .. Len(camp)
    BY <2>1 DEF Typed, Inv, PlaceInv
  <2>3. Due(camp[o.camp], o.unit, o.spec)
    BY <2>1 DEF Inv, OrphanInv
  <2>4. Grows(camp[o.camp], camp'[o.camp])
    BY <2>2 DEF CampStep
  <2>5. Due(camp'[o.camp], o.unit, o.spec)
    BY <2>3, <2>4, DueKept
  <2> QED
    BY <1>1, <2>2, <2>5
<1> QED
  BY <1>2 DEF OrphanStep

LEMMA CreatingFinite ==
    /\ IsFiniteSet(Creating) /\ Cardinality(Creating) \in Nat
    /\ \A S \in SUBSET Creating : Cardinality(S) \in Nat /\ Cardinality(S) <= Cardinality(Creating)
<1>1. Creating \subseteq Procs
  BY DEF Creating
<1>2. IsFiniteSet(Creating)
  BY <1>1, SizeAssumption, FS_Subset
<1> QED
  BY <1>2, FS_Subset, FS_CardinalityType

LEMMA CountSame ==
    ASSUME Typed, Inv, NEW p \in Procs, NEW r \in ProcStates, proc' = [proc EXCEPT ![p] = r],
           r.at # "create", Len(camp') = Len(camp)
    PROVE  CountInv'
<1>1. Creating' \subseteq Creating
  BY DEF Creating, At, Typed
<1>2. Cardinality(Creating') \in Nat /\ Cardinality(Creating') <= Cardinality(Creating)
  BY <1>1, CreatingFinite
<1>3. Len(camp) \in Nat /\ Cardinality(Creating) \in Nat
  BY CreatingFinite DEF Typed
<1> QED
  BY <1>2, <1>3, SizeAssumption DEF CountInv, Inv

LEMMA StepHolds ==
    ASSUME Typed, Inv, world' = world, code' \in Codes,
           NEW p \in Procs, NEW r \in ProcStates, proc' = [proc EXCEPT ![p] = r],
           CourseHolds(r),
           r.at \in Placed => /\ r.camp \in 1 .. Len(camp')
                              /\ ProcHolds(world, r, camp'[r.camp]),
           CampStep, QualificationStep(p), StartStep(p, r),
           EndpointStep, OrphanStep, CountInv'
    PROVE  Typed' /\ Inv' /\ CampStep
<1>1. /\ Len(camp) \in Nat /\ Len(camp') \in Nat /\ Len(camp) <= Len(camp')
      /\ \A n \in 1 .. Len(camp) : camp[n] \in CampStates
      /\ \A n \in 1 .. Len(camp') : camp'[n] \in CampStates
  BY DEF Typed, CampStep
<1>2. /\ proc' \in [Procs -> ProcStates] /\ proc'[p] = r
      /\ \A q \in Procs : q # p => proc'[q] = proc[q]
      /\ \A q \in Procs : proc[q] \in ProcStates
  BY DEF Typed
<1>3. Typed'
  BY <1>2 DEF Typed, CampStep, EndpointStep, OrphanStep
<1>4. CampInv'
  BY DEF CampStep, CampInv
<1>5. CourseInv'
  BY <1>2 DEF CourseInv, Inv
<1>6. PlaceInv'
  <2>1. \A q \in Procs : proc'[q].at \in Placed => proc'[q].camp \in 1 .. Len(camp')
    BY <1>1, <1>2 DEF Inv, PlaceInv
  <2> QED
    BY <2>1 DEF PlaceInv, EndpointStep, OrphanStep
<1>7. ProcInv'
  <2>1. ASSUME NEW q \in Procs, q # p, proc[q].at \in Placed
        PROVE  ProcHolds(world, proc[q], camp'[proc[q].camp])
    <3>1. proc[q].camp \in 1 .. Len(camp)
      BY <2>1 DEF Inv, PlaceInv
    <3>2. ProcHolds(world, proc[q], camp[proc[q].camp]) /\ CourseHolds(proc[q])
      BY <2>1 DEF Inv, ProcInv, CourseInv
    <3>3. Grows(camp[proc[q].camp], camp'[proc[q].camp])
      BY <3>1 DEF CampStep
    <3>4. camp[proc[q].camp] \in CampStates /\ camp'[proc[q].camp] \in CampStates
      BY <3>1, <1>1
    <3>5. world \in Worlds
      BY DEF Typed
    <3> QED
      BY <2>1, <3>2, <3>3, <3>4, <3>5, <1>2, ProcKept
  <2> SUFFICES ASSUME NEW q \in Procs, proc'[q].at \in Placed
               PROVE  ProcHolds(world, proc'[q], camp'[proc'[q].camp])
    BY DEF ProcInv
  <2>2. CASE q = p
    BY <2>2, <1>2
  <2>3. CASE q # p
    BY <2>3, <2>1, <1>2
  <2> QED
    BY <2>2, <2>3
<1>8. OrphanInv'
  BY DEF OrphanStep, OrphanInv
<1>9. StartInv'
  <2> SUFFICES ASSUME NEW q \in Procs, Starting(proc'[q])
               PROVE  /\ camp'[proc'[q].camp].qualification = {}
                      /\ \A u \in Procs \ {q} : Starting(proc'[u]) => proc'[u].camp # proc'[q].camp
    BY DEF StartInv
  <2>1. \A u \in Procs : Starting(proc[u]) => proc[u].camp \in 1 .. Len(camp)
    BY DEF Inv, PlaceInv, Starting, Placed
  <2>2. \A u \in Procs \ {p} : Starting(proc'[u]) /\ Starting(r) => proc'[u].camp # r.camp
    <3> SUFFICES ASSUME NEW u \in Procs \ {p}, Starting(proc'[u]), Starting(r)
                 PROVE  proc'[u].camp # r.camp
      OBVIOUS
    <3>1. Starting(proc[u]) /\ proc'[u].camp = proc[u].camp
      BY <1>2
    <3>2. CASE r.camp > Len(camp)
      BY <3>1, <3>2, <2>1, <1>1
    <3>3. CASE Starting(proc[p]) /\ proc[p].camp = r.camp
      BY <3>1, <3>3 DEF Inv, StartInv
    <3> QED
      BY <3>2, <3>3 DEF StartStep
  <2>3. CASE q = p
    BY <2>2, <2>3, <1>2 DEF StartStep
  <2>4. CASE q # p
    <3>1. Starting(proc[q]) /\ proc'[q] = proc[q] /\ proc[q].camp \in 1 .. Len(camp)
      BY <2>4, <1>2, <2>1
    <3>2. camp[proc[q].camp].qualification = {}
      BY <3>1 DEF Inv, StartInv
    <3>3. ~(Starting(proc[p]) /\ proc[p].camp = proc[q].camp)
      BY <3>1, <2>4 DEF Inv, StartInv
    <3>4. camp'[proc[q].camp].qualification = {}
      BY <3>1, <3>2, <3>3 DEF QualificationStep
    <3>5. \A u \in Procs \ {q} : Starting(proc'[u]) => proc'[u].camp # proc[q].camp
      <4> SUFFICES ASSUME NEW u \in Procs \ {q}, Starting(proc'[u])
                   PROVE  proc'[u].camp # proc[q].camp
        OBVIOUS
      <4>1. CASE u = p
        BY <4>1, <2>2, <2>4, <3>1, <1>2
      <4>2. CASE u # p
        BY <4>2, <3>1, <1>2 DEF Inv, StartInv
      <4> QED
        BY <4>1, <4>2
    <3> QED
      BY <3>1, <3>4, <3>5
  <2> QED
    BY <2>3, <2>4
<1> QED
  BY <1>3, <1>4, <1>5, <1>6, <1>7, <1>8, <1>9 DEF Inv

\* Most steps leave the campaigns, the endpoint and the orphans alone.
LEMMA OwnStepHolds ==
    ASSUME Typed, Inv, UNCHANGED <<world, code, camp, endpoint, orphans>>,
           NEW p \in Procs, NEW r \in ProcStates, proc' = [proc EXCEPT ![p] = r],
           CourseHolds(r), r.at # "create",
           r.at \in Placed => /\ r.camp \in 1 .. Len(camp)
                              /\ ProcHolds(world, r, camp[r.camp]),
           Starting(r) => Starting(proc[p]) /\ proc[p].camp = r.camp
    PROVE  Typed' /\ Inv' /\ CampStep
<1>1. CampStep /\ QualificationStep(p)
  BY CampSame
<1>2. EndpointStep /\ OrphanStep
  BY <1>1, EndpointSame, OrphansLess
<1>3. CountInv'
  BY CountSame
<1>4. StartStep(p, r)
  BY DEF StartStep, Inv, StartInv
<1>5. code' \in Codes
  BY DEF Typed
<1> QED
  BY <1>1, <1>2, <1>3, <1>4, <1>5, StepHolds

----------------------------------------------------------------------------
(* Where an invocation is.                                                  *)

LEMMA Here ==
    ASSUME Typed, Inv, NEW p \in Procs, proc[p].at \in Placed
    PROVE  /\ proc[p] \in ProcStates /\ CourseHolds(proc[p])
           /\ proc[p].camp \in 1 .. Len(camp) /\ Dir(p) = camp[proc[p].camp]
           /\ Dir(p) \in CampStates
           /\ CampHolds(world, Dir(p)) /\ ProcHolds(world, proc[p], Dir(p))
           /\ Phase(p) \in Phases /\ Phase(p) = Head(proc[p].plan)
           /\ world \in Worlds
<1>1. proc[p] \in ProcStates /\ CourseHolds(proc[p]) /\ world \in Worlds
  BY DEF Typed, Inv, CourseInv
<1>2. proc[p].camp \in 1 .. Len(camp) /\ Dir(p) = camp[proc[p].camp]
  BY DEF Inv, PlaceInv, Dir
<1>3. Dir(p) \in CampStates
  BY <1>2, TypedParts
<1>4. CampHolds(world, Dir(p)) /\ ProcHolds(world, proc[p], Dir(p))
  BY <1>2 DEF Inv, CampInv, ProcInv
<1>5. Head(proc[p].plan) \in Phases
  <2>1. Len(proc[p].plan) \in 1 .. Len(AllPhases) /\ proc[p].plan \in Seq(Phases)
    BY <1>1 DEF CourseHolds, ProcStates, Placed
  <2> QED
    BY <2>1, PhaseFacts
<1> QED
  BY <1>1, <1>2, <1>3, <1>4, <1>5 DEF Phase

\* A phase that is entered finds what all the phases before it produce.
LEMMA Prepared ==
    ASSUME Typed, Inv, NEW p \in Procs, NEW phase, ReadyFor(p, phase)
    PROVE  /\ proc[p].at \in Placed /\ Phase(p) = phase /\ phase \in Phases
           /\ \A g \in Upto[phase] \ {phase} : Artefacts(Dir(p), g)
<1>1. proc[p].at \in Placed /\ Phase(p) = phase
  BY DEF ReadyFor, At, Placed
<1>2. phase \in Phases
  BY <1>1, Here
<1>3. \A f \in Requires[phase] : Earned(Dir(p), f)
  BY <1>1, Here DEF ReadyFor, CampHolds
<1> QED
  BY <1>1, <1>2, <1>3, RequiredBefore DEF Earned

LEMMA IdleFacts ==
    /\ Idle \in ProcStates /\ CourseHolds(Idle) /\ Idle.at = "idle"
    /\ Idle.plan = <<>> /\ Idle.camp = 0 /\ Idle.todo = {} /\ Idle.busy = {}
    /\ Idle.imported = {}
<1>1. Idle \in ProcStates
  BY DEF Idle, ProcStates, Steps
<1>2. Cardinality({}) = 0
  BY FS_EmptySet
<1>3. CourseHolds(Idle)
  BY <1>2, SizeAssumption DEF Idle, CourseHolds, AtMostOne
<1> QED
  BY <1>1, <1>3 DEF Idle

LEMMA EndsHolds ==
    ASSUME Typed, Inv, NEW p \in Procs, Ends(p), UNCHANGED <<world, code, camp, endpoint, orphans>>
    PROVE  Typed' /\ Inv' /\ CampStep
<1>1. Idle.at \notin Placed /\ ~Starting(Idle) /\ Idle.at # "create"
  BY IdleFacts DEF Placed, Starting
<1> QED
  BY <1>1, IdleFacts, OwnStepHolds DEF Ends

LEMMA RefusePhaseHolds ==
    ASSUME Typed, Inv, NEW p \in Procs, RefusePhase(p)
    PROVE  Typed' /\ Inv' /\ CampStep
BY EndsHolds DEF RefusePhase

LEMMA RaiseFailureHolds ==
    ASSUME Typed, Inv, NEW p \in Procs, RaiseFailure(p)
    PROVE  Typed' /\ Inv' /\ CampStep
BY EndsHolds DEF RaiseFailure

LEMMA PlanFacts ==
    ASSUME NEW plan \in Plans
    PROVE  /\ plan \in Seq(Phases) /\ Len(plan) \in 1 .. Len(AllPhases)
           /\ \A i \in 2 .. Len(plan) : plan[i] # "qualification"
<1>1. CASE plan = AllPhases
  <2>1. \A i \in 2 .. 6 : AllPhases[i] # "qualification"
    BY DEF AllPhases
  <2> QED
    BY <1>1, <2>1, PhaseFacts
<1>2. CASE plan \in {<<f>> : f \in Phases}
  <2>1. PICK f \in Phases : plan = <<f>>
    BY <1>2
  <2>2. plan \in Seq(Phases) /\ Len(plan) = 1
    BY <2>1
  <2> QED
    BY <2>2, PhaseFacts
<1> QED
  BY <1>1, <1>2, PlanAssumption

LEMMA InvokeHolds ==
    ASSUME Typed, Inv, NEW p \in Procs, NEW plan \in Plans, Invoke(p, plan)
    PROVE  Typed' /\ Inv' /\ CampStep
<1> DEFINE r == [Idle EXCEPT !.at = IF plan[1] = "qualification" THEN "create" ELSE "attach",
                             !.plan = plan]
<1>1. /\ r \in ProcStates /\ r.at = (IF plan[1] = "qualification" THEN "create" ELSE "attach")
      /\ r.plan = plan /\ r.todo = {} /\ r.busy = {} /\ r.imported = {}
  BY PlanFacts DEF Idle, ProcStates, Steps
<1>2. proc' = [proc EXCEPT ![p] = r] /\ UNCHANGED <<world, code, camp, endpoint, orphans>>
  BY DEF Invoke
<1> HIDE DEF r
<1>3. CourseHolds(r)
  <2>1. Cardinality({}) = 0
    BY FS_EmptySet
  <2> QED
    BY <1>1, <2>1, PlanFacts, SizeAssumption DEF CourseHolds, AtMostOne
<1>4. r.at \notin Placed /\ ~Starting(r)
  BY <1>1 DEF Placed, Starting
<1>5. CASE plan[1] # "qualification"
  BY <1>1, <1>2, <1>3, <1>4, <1>5, OwnStepHolds
<1>6. CASE plan[1] = "qualification"
  <2>1. CountInv'
    <3>1. Len(camp) + Cardinality(Creating) < MaxCampaigns
      BY <1>6 DEF Invoke
    <3>2. Creating' = Creating \cup {p}
      BY <1>1, <1>2, <1>6 DEF Creating, At, Typed
    <3>3. Cardinality(Creating') <= Cardinality(Creating) + 1 /\ Cardinality(Creating') \in Nat
      <4>1. IsFiniteSet(Creating) /\ Cardinality(Creating) \in Nat
        BY CreatingFinite
      <4>2. Cardinality(Creating') = IF p \in Creating THEN Cardinality(Creating)
                                                      ELSE Cardinality(Creating) + 1
        BY <3>2, <4>1, FS_AddElement
      <4> QED
        BY <4>1, <4>2
    <3> QED
      BY <1>2, <3>1, <3>3, CreatingFinite, TypedParts, SizeAssumption DEF CountInv
  <2>2. CampStep /\ QualificationStep(p)
    BY <1>2, CampSame
  <2>3. EndpointStep /\ OrphanStep
    BY <1>2, <2>2, EndpointSame, OrphansLess
  <2>4. StartStep(p, r)
    BY <1>4 DEF StartStep
  <2>5. code' \in Codes /\ world' = world
    BY <1>2 DEF Typed
  <2> QED
    BY <1>1, <1>2, <1>3, <1>4, <2>1, <2>2, <2>3, <2>4, <2>5, StepHolds
<1> QED
  BY <1>5, <1>6

LEMMA NewCampaignHolds ==
    ASSUME NEW w, NEW c \in Codes
    PROVE  /\ NewCampaign(c) \in CampStates /\ CampHolds(w, NewCampaign(c))
           /\ NewCampaign(c).qualification = {}
<1> DEFINE n == NewCampaign(c)
<1>1. /\ n.rev = c.rev /\ n.done = {} /\ n.active = TRUE /\ n.qualification = {}
      /\ n.powerSelection = {} /\ n.populationSelection = {} /\ n.design = {}
      /\ n.index = {} /\ n.analysis = {} /\ n.reanalysis = {} /\ n.runs = <<>>
  BY DEF NewCampaign
<1>2. DOMAIN n.runs = {} /\ n.runs \in Runs
  <2>1. DOMAIN n.runs = {}
    BY <1>1
  <2>2. n.runs = [t \in DOMAIN n.runs |-> n.runs[t]]
    BY <1>1
  <2> QED
    BY <2>1, <2>2, RunsAre
<1>3. n \in CampStates
  BY <1>2 DEF CampStates, NewCampaign
<1>4. CampHolds(w, n)
  <2> HIDE DEF n
  <2> QED
    BY <1>1, <1>2 DEF CampHolds, AtMostOne
<1> QED
  BY <1>1, <1>3, <1>4

LEMMA CreateHolds ==
    ASSUME Typed, Inv, NEW p \in Procs, Create(p)
    PROVE  Typed' /\ Inv' /\ CampStep
<1> DEFINE r == [proc[p] EXCEPT !.at = "publish", !.camp = Len(camp) + 1]
<1>1. proc[p] \in ProcStates /\ CourseHolds(proc[p]) /\ proc[p].at = "create"
  BY DEF Typed, Inv, CourseInv, Create, At
<1>2. /\ r \in ProcStates /\ r.at = "publish" /\ r.camp = Len(camp) + 1
      /\ r.plan = proc[p].plan /\ r.todo = proc[p].todo /\ r.busy = proc[p].busy
      /\ r.imported = proc[p].imported
  <2>1. Len(camp) + 1 \in Nat
    BY TypedParts
  <2> QED
    BY <1>1, <2>1 DEF ProcStates, Steps, Placed
<1>3. proc' = [proc EXCEPT ![p] = r]
  BY DEF Create
<1>4. /\ camp' = Append(camp, NewCampaign(code)) /\ UNCHANGED <<world, code, endpoint, orphans>>
      /\ code \in Codes
  BY DEF Create, Typed
<1> HIDE DEF r
<1>5. CourseHolds(r)
  BY <1>1, <1>2 DEF CourseHolds
<1>6. /\ Len(camp) \in Nat /\ Len(camp') = Len(camp) + 1 /\ camp' \in Seq(CampStates)
      /\ camp'[Len(camp) + 1] = NewCampaign(code)
      /\ \A n \in 1 .. Len(camp) : camp'[n] = camp[n]
  <2> DEFINE c == NewCampaign(code)
  <2>1. c \in CampStates /\ camp \in Seq(CampStates) /\ camp' = Append(camp, c)
    BY <1>4, NewCampaignHolds DEF Typed
  <2> HIDE DEF c
  <2>2. /\ Len(camp) \in Nat /\ Len(camp') = Len(camp) + 1 /\ camp' \in Seq(CampStates)
        /\ camp'[Len(camp) + 1] = c
        /\ \A n \in 1 .. Len(camp) : camp'[n] = camp[n]
    BY <2>1
  <2> QED
    BY <2>2 DEF c
<1>7. CampStep /\ QualificationStep(p)
  <2>1. \A n \in 1 .. Len(camp') : CampHolds(world, camp'[n])
    <3> SUFFICES ASSUME NEW n \in 1 .. Len(camp') PROVE CampHolds(world, camp'[n])
      OBVIOUS
    <3>1. CASE n = Len(camp) + 1
      BY <3>1, <1>4, <1>6, NewCampaignHolds
    <3>2. CASE n # Len(camp) + 1
      <4>1. n \in 1 .. Len(camp)
        BY <3>2, <1>6
      <4> QED
        BY <4>1, <1>6 DEF Inv, CampInv
    <3> QED
      BY <3>1, <3>2
  <2> QED
    BY <1>6, <2>1, GrowsSame DEF CampStep, QualificationStep
<1>8. StartStep(p, r)
  <2>1. camp'[r.camp].qualification = {}
    BY <1>2, <1>4, <1>6, NewCampaignHolds
  <2>2. r.camp > Len(camp)
    BY <1>2, <1>6
  <2> QED
    BY <2>1, <2>2 DEF StartStep
<1>9. EndpointStep /\ OrphanStep
  BY <1>4, <1>7, EndpointSame, OrphansLess
<1>10. CountInv'
  <2>1. Creating' = Creating \ {p} /\ p \in Creating
    BY <1>1, <1>2, <1>3 DEF Creating, At, Typed
  <2>2. Cardinality(Creating') = Cardinality(Creating) - 1
    BY <2>1, CreatingFinite, FS_RemoveElement
  <2> QED
    BY <2>2, <1>6, CreatingFinite DEF CountInv, Inv
<1>11. r.camp \in 1 .. Len(camp') /\ ProcHolds(world, r, camp'[r.camp])
  <2>1. r.camp \in 1 .. Len(camp')
    BY <1>2, <1>6
  <2> QED
    BY <2>1, <1>2 DEF ProcHolds
<1> QED
  BY <1>2, <1>3, <1>4, <1>5, <1>7, <1>8, <1>9, <1>10, <1>11, StepHolds

\* To an invocation that only enters a phase nothing has been promised.
LEMMA EnterHolds ==
    ASSUME NEW w, NEW r, NEW c, r.at = "enter"
    PROVE  ProcHolds(w, r, c)
BY DEF ProcHolds

LEMMA PublishHolds ==
    ASSUME Typed, Inv, NEW p \in Procs, Publish(p)
    PROVE  Typed' /\ Inv' /\ CampStep
<1> DEFINE r == [proc[p] EXCEPT !.at = "enter"]
<1>1. proc[p].at = "publish" /\ proc[p].at \in Placed
  BY DEF Publish, At, Placed
<1>2. proc[p] \in ProcStates /\ CourseHolds(proc[p]) /\ proc[p].camp \in 1 .. Len(camp)
  BY <1>1, Here
<1>3. /\ r \in ProcStates /\ r.at = "enter" /\ r.camp = proc[p].camp
      /\ r.plan = proc[p].plan /\ r.todo = proc[p].todo /\ r.busy = proc[p].busy
      /\ r.imported = proc[p].imported
  BY <1>2 DEF ProcStates, Steps, Placed
<1>4. proc' = [proc EXCEPT ![p] = r] /\ UNCHANGED <<world, code, camp, orphans>>
  BY DEF Publish
<1>5. endpoint' = {[camp |-> proc[p].camp, active |-> TRUE]}
  BY DEF Publish
<1> HIDE DEF r
<1>6. CourseHolds(r)
  BY <1>1, <1>2, <1>3 DEF CourseHolds
<1>7. EndpointStep
  BY <1>2, <1>4, <1>5, TypedParts DEF EndpointStep, Endpoints
<1>8. CampStep /\ QualificationStep(p)
  BY <1>4, CampSame
<1>9. OrphanStep
  BY <1>4, <1>8, OrphansLess
<1>10. CountInv'
  BY <1>3, <1>4, CountSame
<1>11. Starting(proc[p]) /\ StartStep(p, r)
  <2>1. Starting(proc[p])
    BY <1>1, <1>2, PhaseFacts DEF Starting, CourseHolds, ProcStates
  <2> QED
    BY <2>1, <1>3, <1>4 DEF StartStep, Inv, StartInv
<1>12. r.camp \in 1 .. Len(camp') /\ ProcHolds(world, r, camp'[r.camp])
  BY <1>2, <1>3, <1>4, EnterHolds
<1>13. code' \in Codes
  BY <1>4 DEF Typed
<1> QED
  BY <1>3, <1>4, <1>6, <1>7, <1>8, <1>9, <1>10, <1>11, <1>12, <1>13, StepHolds

LEMMA AttachHolds ==
    ASSUME Typed, Inv, NEW p \in Procs, Attach(p)
    PROVE  Typed' /\ Inv' /\ CampStep
<1>1. UNCHANGED <<world, code, camp, endpoint, orphans>>
  BY DEF Attach
<1>2. CASE Ends(p)
  BY <1>1, <1>2, EndsHolds
<1>3. ASSUME NEW e \in Usable, proc' = [proc EXCEPT ![p].at = "enter", ![p].camp = e.camp]
      PROVE  Typed' /\ Inv' /\ CampStep
  <2> DEFINE r == [proc[p] EXCEPT !.at = "enter", !.camp = e.camp]
  <2>1. proc[p] \in ProcStates /\ CourseHolds(proc[p]) /\ proc[p].at = "attach"
    BY DEF Typed, Inv, CourseInv, Attach, At
  <2>2. e.camp \in 1 .. Len(camp)
    BY DEF Usable, Inv, PlaceInv
  <2>3. /\ r \in ProcStates /\ r.at = "enter" /\ r.camp = e.camp
        /\ r.plan = proc[p].plan /\ r.todo = proc[p].todo /\ r.busy = proc[p].busy
        /\ r.imported = proc[p].imported
    <3>1. e.camp \in Nat
      BY <2>2, TypedParts
    <3> QED
      BY <2>1, <3>1 DEF ProcStates, Steps, Placed
  <2>4. proc' = [proc EXCEPT ![p] = r]
    BY <1>3
  <2> HIDE DEF r
  <2>5. CourseHolds(r)
    BY <2>1, <2>3 DEF CourseHolds
  <2>6. ~Starting(r)
    <3>1. r.plan[1] # "qualification" /\ Len(r.plan) \in 1 .. Len(AllPhases) /\ r.plan \in Seq(Phases)
      BY <2>1, <2>3 DEF CourseHolds, ProcStates
    <3> QED
      BY <3>1, PhaseFacts DEF Starting
  <2>7. r.at # "create" /\ ProcHolds(world, r, camp[r.camp])
    BY <2>3, EnterHolds
  <2> QED
    BY <1>1, <2>2, <2>3, <2>4, <2>5, <2>6, <2>7, OwnStepHolds
<1> QED
  BY <1>2, <1>3 DEF Attach

----------------------------------------------------------------------------
(* Entering a phase.                                                        *)

\* A step that also writes into the campaign of the invocation.
LEMMA CampStepHolds ==
    ASSUME Typed, Inv, UNCHANGED <<world, code, endpoint>>, orphans' \subseteq orphans,
           NEW p \in Procs, NEW r \in ProcStates, proc' = [proc EXCEPT ![p] = r],
           CourseHolds(r), r.at # "create", ~Starting(r),
           NEW n \in 1 .. Len(camp), NEW c \in CampStates, camp' = [camp EXCEPT ![n] = c],
           Grows(camp[n], c), CampHolds(world, c),
           \/ c.qualification = camp[n].qualification
           \/ Starting(proc[p]) /\ proc[p].camp = n,
           r.at \in Placed => r.camp = n /\ ProcHolds(world, r, c)
    PROVE  Typed' /\ Inv' /\ CampStep
<1>1. /\ CampStep /\ Len(camp') = Len(camp) /\ camp'[n] = c
      /\ \A m \in 1 .. Len(camp) : m # n => camp'[m] = camp[m]
  BY CampChanged
<1>2. QualificationStep(p)
  BY <1>1 DEF QualificationStep
<1>3. EndpointStep /\ OrphanStep
  BY <1>1, EndpointSame, OrphansLess
<1>4. CountInv'
  BY <1>1, CountSame
<1>5. StartStep(p, r)
  BY DEF StartStep
<1>6. code' \in Codes
  BY DEF Typed
<1>7. r.at \in Placed => r.camp \in 1 .. Len(camp') /\ ProcHolds(world, r, camp'[r.camp])
  BY <1>1
<1> QED
  BY <1>1, <1>2, <1>3, <1>4, <1>5, <1>6, <1>7, StepHolds

LEMMA ImportedFacts ==
    ASSUME Typed, NEW p \in Procs, CourseHolds(proc[p])
    PROVE  Imported(p) \subseteq Trees /\ AtMostOne(Imported(p))
<1>1. proc[p].imported \subseteq Trees /\ code.tree \in Trees
  BY DEF Typed, ProcStates, Trees
<1> QED
  BY <1>1 DEF Imported, CourseHolds, AtMostOne

\* A phase whose result is there is only marked.
LEMMA MarksRetained ==
    ASSUME Typed, Inv, NEW p \in Procs, NEW phase, ReadyFor(p, phase),
           Artefacts(Dir(p), phase), GoesOn(p, "mark"),
           UNCHANGED <<world, code, camp, endpoint, orphans>>
    PROVE  Typed' /\ Inv' /\ CampStep
<1> DEFINE r == [proc[p] EXCEPT !.at = "mark", !.imported = Imported(p)]
<1>1. /\ proc[p].at \in Placed /\ Phase(p) = phase /\ phase \in Phases
      /\ \A g \in Upto[phase] \ {phase} : Artefacts(Dir(p), g)
  BY Prepared
<1>2. /\ proc[p] \in ProcStates /\ CourseHolds(proc[p]) /\ proc[p].camp \in 1 .. Len(camp)
      /\ Dir(p) = camp[proc[p].camp] /\ Phase(p) = Head(proc[p].plan) /\ proc[p].at = "enter"
  BY <1>1, Here DEF ReadyFor, At
<1>3. /\ r \in ProcStates /\ r.at = "mark" /\ r.camp = proc[p].camp
      /\ r.plan = proc[p].plan /\ r.todo = proc[p].todo /\ r.busy = proc[p].busy
      /\ r.imported = Imported(p)
  BY <1>2, ImportedFacts DEF ProcStates, Steps, Placed
<1>4. proc' = [proc EXCEPT ![p] = r]
  BY DEF GoesOn
<1> HIDE DEF r
<1>5. CourseHolds(r)
  BY <1>2, <1>3, ImportedFacts DEF CourseHolds
<1>6. ProcHolds(world, r, Dir(p))
  BY <1>1, <1>2, <1>3 DEF ProcHolds, Earned
<1>7. ~Starting(r)
  BY <1>3 DEF Starting
<1> QED
  BY <1>2, <1>3, <1>4, <1>5, <1>6, <1>7, OwnStepHolds

\* The units of a phase are handed to the workers.
LEMMA WorkStarts ==
    ASSUME Typed, Inv, NEW p \in Procs, NEW phase \in Calibrations \cup {"confirmation"},
           ReadyFor(p, phase), NEW basis, basis \subseteq Triples \cup DesignSet,
           phase = "population" => basis # {} /\ basis = Dir(p).powerSelection,
           phase = "confirmation" =>
              basis # {} /\ AtMostOne(basis) /\ \A d \in basis : d \in DesignSet /\ Fits(Dir(p), d),
           proc' = [proc EXCEPT ![p].at = "work", ![p].imported = Imported(p),
                                ![p].read = basis, ![p].todo = TasksOf(phase)],
           UNCHANGED <<world, code, camp, endpoint, orphans>>
    PROVE  Typed' /\ Inv' /\ CampStep
<1> DEFINE r == [proc[p] EXCEPT !.at = "work", !.imported = Imported(p),
                                !.read = basis, !.todo = TasksOf(phase)]
<1>1. /\ proc[p].at \in Placed /\ Phase(p) = phase /\ phase \in Phases
      /\ \A g \in Upto[phase] \ {phase} : Artefacts(Dir(p), g)
  BY Prepared
<1>2. /\ proc[p] \in ProcStates /\ CourseHolds(proc[p]) /\ proc[p].camp \in 1 .. Len(camp)
      /\ Dir(p) = camp[proc[p].camp] /\ Phase(p) = Head(proc[p].plan) /\ proc[p].at = "enter"
  BY <1>1, Here DEF ReadyFor, At
<1>3. TasksOf(phase) \subseteq Tasks
  BY DEF TasksOf
<1>4. /\ r \in ProcStates /\ r.at = "work" /\ r.camp = proc[p].camp
      /\ r.plan = proc[p].plan /\ r.todo = TasksOf(phase) /\ r.busy = proc[p].busy
      /\ r.imported = Imported(p) /\ r.read = basis
  BY <1>2, <1>3, ImportedFacts DEF ProcStates, Steps, Placed
<1>5. proc' = [proc EXCEPT ![p] = r]
  OBVIOUS
<1> HIDE DEF r
<1>6. r.busy = {}
  BY <1>2, <1>4 DEF CourseHolds
<1>7. CourseHolds(r)
  BY <1>2, <1>4, ImportedFacts DEF CourseHolds
<1>8. WorkHolds(r, Dir(p))
  BY <1>1, <1>2, <1>4, <1>6 DEF WorkHolds
<1>9. ProcHolds(world, r, Dir(p))
  BY <1>1, <1>2, <1>4, <1>8 DEF ProcHolds
<1>10. ~Starting(r) /\ r.at # "create" /\ r.camp \in 1 .. Len(camp)
  BY <1>2, <1>4 DEF Starting
<1>11. ProcHolds(world, r, camp[r.camp]) /\ r \in ProcStates
  BY <1>2, <1>4, <1>9
<1> QED
  BY <1>5, <1>7, <1>10, <1>11, OwnStepHolds

LEMMA CalibratePowerHolds ==
    ASSUME Typed, Inv, NEW p \in Procs, CalibratePower(p)
    PROVE  Typed' /\ Inv' /\ CampStep
<1> DEFINE retained == Dir(p).powerSummary # {} /\ Dir(p).powerSelection # {}
<1>1. ReadyFor(p, "power") /\ UNCHANGED <<world, code, camp, endpoint, orphans>>
  BY DEF CalibratePower, Calibrate
<1>2. CASE ~Passed(Dir(p))
  BY <1>1, <1>2, EndsHolds DEF CalibratePower, Calibrate
<1>3. CASE Passed(Dir(p)) /\ retained
  <2>1. Artefacts(Dir(p), "power")
    BY <1>3 DEF Artefacts
  <2>2. GoesOn(p, "mark")
    BY <1>3 DEF CalibratePower, Calibrate
  <2> QED
    BY <1>1, <2>1, <2>2, MarksRetained
<1>4. CASE Passed(Dir(p)) /\ ~retained
  <2>1. proc' = [proc EXCEPT ![p].at = "work", ![p].imported = Imported(p),
                             ![p].read = {}, ![p].todo = TasksOf("power")]
    BY <1>4 DEF CalibratePower, Calibrate
  <2>2. "power" \in Calibrations \cup {"confirmation"}
    BY DEF Calibrations
  <2> DEFINE basis == {}
  <2>3. proc' = [proc EXCEPT ![p].at = "work", ![p].imported = Imported(p),
                             ![p].read = basis, ![p].todo = TasksOf("power")]
    BY <2>1
  <2>4. basis \subseteq Triples \cup DesignSet
    OBVIOUS
  <2> HIDE DEF retained, basis
  <2> QED
    BY <1>1, <2>2, <2>3, <2>4, WorkStarts
<1> QED
  BY <1>2, <1>3, <1>4

LEMMA CalibratePopulationHolds ==
    ASSUME Typed, Inv, NEW p \in Procs, CalibratePopulation(p)
    PROVE  Typed' /\ Inv' /\ CampStep
<1> DEFINE retained == Dir(p).populationSummary # {} /\ Dir(p).populationSelection # {}
<1>1. ReadyFor(p, "population") /\ UNCHANGED <<world, code, camp, endpoint, orphans>>
  BY DEF CalibratePopulation, Calibrate
<1>2. CASE Dir(p).powerSelection = {}
  BY <1>1, <1>2, EndsHolds DEF CalibratePopulation, Calibrate
<1>3. CASE Dir(p).powerSelection # {} /\ retained
  <2>1. Artefacts(Dir(p), "population")
    BY <1>3 DEF Artefacts
  <2>2. GoesOn(p, "mark")
    BY <1>3 DEF CalibratePopulation, Calibrate
  <2> QED
    BY <1>1, <2>1, <2>2, MarksRetained
<1>4. CASE Dir(p).powerSelection # {} /\ ~retained
  <2>1. proc' = [proc EXCEPT ![p].at = "work", ![p].imported = Imported(p),
                             ![p].read = Dir(p).powerSelection, ![p].todo = TasksOf("population")]
    BY <1>4 DEF CalibratePopulation, Calibrate
  <2>2. Dir(p).powerSelection \subseteq Triples
    BY <1>1, Prepared, Here DEF CampStates
  <2>3. "population" \in Calibrations \cup {"confirmation"}
    BY DEF Calibrations
  <2> DEFINE basis == Dir(p).powerSelection
  <2>4. basis # {} /\ basis \subseteq Triples \cup DesignSet
    BY <1>4, <2>2
  <2>5. proc' = [proc EXCEPT ![p].at = "work", ![p].imported = Imported(p),
                             ![p].read = basis, ![p].todo = TasksOf("population")]
    BY <2>1
  <2>6. basis = Dir(p).powerSelection
    OBVIOUS
  <2> HIDE DEF retained, basis
  <2> QED
    BY <1>1, <2>3, <2>4, <2>5, <2>6, WorkStarts
<1> QED
  BY <1>2, <1>3, <1>4

\* Only the invocation that made the campaign qualifies it, and once.
LEMMA QualifyHolds ==
    ASSUME Typed, Inv, NEW p \in Procs, Qualify(p)
    PROVE  Typed' /\ Inv' /\ CampStep
<1> DEFINE n == proc[p].camp
           q == {[passed |-> world[code.tree].sound, tree |-> code.tree]}
           c == [camp[n] EXCEPT !.qualification = q]
           r == [proc[p] EXCEPT !.at = "mark"]
<1>1. ReadyFor(p, "qualification") /\ UNCHANGED <<world, code, endpoint, orphans>>
  BY DEF Qualify
<1>2. /\ proc[p].at \in Placed /\ Phase(p) = "qualification"
      /\ proc[p] \in ProcStates /\ CourseHolds(proc[p]) /\ n \in 1 .. Len(camp)
      /\ camp[n] \in CampStates /\ Dir(p) = camp[n] /\ CampHolds(world, camp[n])
      /\ Phase(p) = Head(proc[p].plan) /\ proc[p].at = "enter" /\ world \in Worlds
  BY <1>1, Prepared, Here DEF ReadyFor, At
<1>3. Starting(proc[p]) /\ camp[n].qualification = {}
  BY <1>2 DEF Starting, Inv, StartInv
<1>4. q \in SUBSET [passed : BOOLEAN, tree : Trees] /\ AtMostOne(q)
  <2>1. code.tree \in Trees
    BY DEF Typed, Trees
  <2>2. world[code.tree].sound \in BOOLEAN
    BY <1>2, <2>1, WorldYields DEF Outcomes
  <2> QED
    BY <2>1, <2>2 DEF AtMostOne
<1> HIDE DEF q
<1>5. /\ c \in CampStates /\ c.qualification = q
      /\ c.rev = camp[n].rev /\ c.done = camp[n].done /\ c.active = camp[n].active
      /\ c.powerSummary = camp[n].powerSummary /\ c.powerSelection = camp[n].powerSelection
      /\ c.populationSummary = camp[n].populationSummary
      /\ c.populationSelection = camp[n].populationSelection
      /\ c.design = camp[n].design /\ c.index = camp[n].index
      /\ c.analysis = camp[n].analysis /\ c.reanalysis = camp[n].reanalysis
      /\ c.runs = camp[n].runs
  BY <1>2, <1>4 DEF CampStates
<1>6. camp' = [camp EXCEPT ![n] = c]
  BY DEF Qualify, q
<1> HIDE DEF c
<1>7. Grows(camp[n], c)
  BY <1>3, <1>5 DEF Grows, KeepsRuns, Passed
<1>8. CampHolds(world, c)
  <2>1. AtMostOne(c.design) /\ AtMostOne(c.index) /\ AtMostOne(c.analysis)
        /\ AtMostOne(c.reanalysis) /\ AtMostOne(c.qualification)
    BY <1>2, <1>4, <1>5 DEF CampHolds
  <2> QED
    BY <1>2, <1>5, <1>7, <2>1, CampKept
<1>9. camp'[n] = c
  BY <1>2, <1>6 DEF Typed
<1>10. CASE ~Passed(c)
  <2>1. proc' = [proc EXCEPT ![p] = Idle]
    BY <1>9, <1>10 DEF Qualify, Ends
  <2>2. Idle.at \notin Placed /\ ~Starting(Idle) /\ Idle.at # "create"
    BY IdleFacts DEF Placed, Starting
  <2> QED
    BY <1>1, <1>2, <1>3, <1>5, <1>6, <1>7, <1>8, <2>1, <2>2, IdleFacts, CampStepHolds
<1>11. CASE Passed(c)
  <2>1. /\ r \in ProcStates /\ r.at = "mark" /\ r.camp = proc[p].camp
        /\ r.plan = proc[p].plan /\ r.todo = proc[p].todo /\ r.busy = proc[p].busy
        /\ r.imported = proc[p].imported
    BY <1>2 DEF ProcStates, Steps, Placed
  <2>2. proc' = [proc EXCEPT ![p] = r]
    BY <1>9, <1>11 DEF Qualify
  <2> HIDE DEF r
  <2>3. CourseHolds(r) /\ ~Starting(r)
    BY <1>2, <2>1 DEF CourseHolds, Starting
  <2>4. ProcHolds(world, r, c)
    <3>1. Artefacts(c, "qualification")
      BY <1>11 DEF Artefacts
    <3>2. Upto[Head(r.plan)] = {"qualification"}
      BY <1>2, <2>1 DEF Upto
    <3> QED
      BY <2>1, <3>1, <3>2 DEF ProcHolds, Earned
  <2> QED
    BY <1>1, <1>2, <1>3, <1>5, <1>6, <1>7, <1>8, <2>1, <2>2, <2>3, <2>4, CampStepHolds
<1> QED
  BY <1>10, <1>11

----------------------------------------------------------------------------
(* The units of a phase.                                                    *)

LEMMA SelectionsFound ==
    ASSUME NEW w \in Worlds, NEW c \in CampStates, CampHolds(w, c)
    PROVE  /\ c.powerSelection \subseteq Triples /\ AtMostOne(c.powerSelection)
           /\ c.populationSelection \subseteq 1 .. NumCounts /\ AtMostOne(c.populationSelection)
<1>1. c.runs \in Runs /\ c.powerSelection \subseteq Triples
      /\ c.populationSelection \subseteq 1 .. NumCounts
  BY DEF CampStates
<1>2. AtMostOne(c.powerSelection)
  <2>1. CASE c.powerSelection = {}
    BY <2>1 DEF AtMostOne
  <2>2. CASE c.powerSelection # {}
    BY <2>2, <1>1, PowersFound DEF CampHolds
  <2> QED
    BY <2>1, <2>2
<1>3. AtMostOne(c.populationSelection)
  <2>1. CASE c.populationSelection = {}
    BY <2>1 DEF AtMostOne
  <2>2. CASE c.populationSelection # {}
    BY <2>2, <1>1, CountsFound DEF CampHolds
  <2> QED
    BY <2>1, <2>2
<1> QED
  BY <1>1, <1>2, <1>3

\* The specification of a unit follows from what its process has read.
LEMMA SpecIsDue ==
    ASSUME Typed, Inv, NEW p \in Procs, At(p, "work"), NEW t \in proc[p].busy \cup proc[p].todo
    PROVE  t \in Tasks /\ Spec(p, t) \in TaskSpecs /\ Due(Dir(p), t, Spec(p, t))
<1>1. /\ proc[p].at = "work" /\ proc[p].at \in Placed
  BY DEF At, Placed
<1>2. /\ WorkHolds(proc[p], Dir(p)) /\ CampHolds(world, Dir(p)) /\ Dir(p) \in CampStates
      /\ world \in Worlds /\ proc[p] \in ProcStates
  BY <1>1, Here DEF ProcHolds
<1>3. t \in TasksOf(Head(proc[p].plan)) /\ t[1] = Head(proc[p].plan) /\ t \in Tasks
  BY <1>2 DEF WorkHolds, TasksOf
<1>4. AtMostOne(Dir(p).powerSelection) /\ Dir(p).powerSelection \subseteq Triples
  BY <1>2, SelectionsFound
<1>5. CASE t[1] = "power"
  <2>1. t \in PowerTasks /\ t \notin PopulationTasks /\ t \notin ConfirmationTasks
        /\ t[2] \in 1 .. NumPowers
    BY <1>3, <1>5, TaskFacts
  <2>2. Spec(p, t) = [power |-> t[2], count |-> 0]
    BY <1>5 DEF Spec
  <2>3. Spec(p, t) \in TaskSpecs
    BY <2>1, <2>2, SizeAssumption DEF TaskSpecs
  <2> QED
    BY <1>3, <2>1, <2>2, <2>3 DEF Due
<1>6. CASE t[1] = "population"
  <2>1. t \notin PowerTasks /\ t \in PopulationTasks /\ t \notin ConfirmationTasks
        /\ t[2] \in 1 .. NumCounts
    BY <1>3, <1>6, TaskFacts
  <2>2. PICK s \in proc[p].read : s = CHOOSE x \in proc[p].read : TRUE
    BY <1>2, <1>3, <1>6 DEF WorkHolds
  <2>3. Dir(p).powerSelection = {s} /\ s \in Triples
    BY <1>2, <1>3, <1>4, <1>6, <2>2 DEF WorkHolds, AtMostOne
  <2>4. Spec(p, t) = [power |-> s.knee, count |-> t[2]]
    BY <1>6, <2>2 DEF Spec
  <2>5. Spec(p, t) \in TaskSpecs
    <3>1. s.knee \in 0 .. NumPowers
      BY <2>3, SizeAssumption DEF Triples, Regimes
    <3>2. t[2] \in 0 .. NumCounts
      BY <2>1, SizeAssumption
    <3> QED
      BY <2>4, <3>1, <3>2 DEF TaskSpecs
  <2>6. Due(Dir(p), t, Spec(p, t))
    BY <2>1, <2>3, <2>4 DEF Due
  <2> QED
    BY <1>3, <2>5, <2>6
<1>7. CASE t[1] = "confirmation"
  <2>1. t \notin PowerTasks /\ t \notin PopulationTasks /\ t \in ConfirmationTasks
        /\ t[2] \in 1 .. Len(RegimeOf)
    BY <1>3, <1>7, TaskFacts
  <2>2. PICK d \in proc[p].read : d = CHOOSE x \in proc[p].read : TRUE
    BY <1>2, <1>3, <1>7 DEF WorkHolds
  <2>3. d \in DesignSet /\ Fits(Dir(p), d)
    BY <1>2, <1>3, <1>7, <2>2 DEF WorkHolds
  <2>4. Spec(p, t) = [power |-> d.points[RegimeOf[t[2]]], count |-> d.count]
    BY <1>7, <2>2 DEF Spec, SpecUnder
  <2>5. Spec(p, t) \in TaskSpecs
    <3>1. RegimeOf[t[2]] \in Regimes
      BY <2>1, SizeAssumption
    <3>2. d.points \in Triples /\ d.count \in 1 .. NumCounts
      BY <2>3 DEF DesignSet
    <3>3. d.points[RegimeOf[t[2]]] \in 0 .. NumPowers /\ d.count \in 0 .. NumCounts
      BY <3>1, <3>2, SizeAssumption DEF Triples
    <3> QED
      BY <2>4, <3>3 DEF TaskSpecs
  <2>6. Due(Dir(p), t, Spec(p, t))
    BY <2>1, <2>3, <2>4 DEF Due, Fits
  <2> QED
    BY <1>3, <2>5, <2>6
<1> QED
  BY <1>2, <1>3, <1>5, <1>6, <1>7 DEF WorkHolds, Calibrations

\* A process that goes on working keeps what it relies on, if every unit that
\* it has done with has left its bundle, or failed.
LEMMA WorkGoesOn ==
    ASSUME Typed, Inv, NEW p \in Procs, At(p, "work"),
           NEW r \in ProcStates, r.at = "work", r.plan = proc[p].plan, r.camp = proc[p].camp,
           r.imported = proc[p].imported, r.read = proc[p].read,
           r.busy \cup r.todo \subseteq proc[p].busy \cup proc[p].todo, r.busy \cap r.todo = {},
           Cardinality(r.busy) <= Workers,
           NEW c \in CampStates, Grows(Dir(p), c),
           ~r.failed => /\ ~proc[p].failed
                        /\ \A t \in proc[p].busy \cup proc[p].todo :
                              t \in r.busy \/ t \in r.todo \/ t \in DOMAIN c.runs
    PROVE  CourseHolds(r) /\ ProcHolds(world, r, c) /\ ~Starting(r) /\ r.at # "create"
<1>1. proc[p].at = "work" /\ proc[p].at \in Placed
  BY DEF At, Placed
<1>2. /\ proc[p] \in ProcStates /\ CourseHolds(proc[p]) /\ Dir(p) \in CampStates
      /\ ProcHolds(world, proc[p], Dir(p)) /\ world \in Worlds
  BY <1>1, Here
<1>3. ProcHolds(world, proc[p], c)
  BY <1>1, <1>2, ProcKept
<1>4. CourseHolds(r)
  BY <1>1, <1>2 DEF CourseHolds
<1>5. WorkHolds(proc[p], c)
  BY <1>1, <1>3 DEF ProcHolds
<1>6. WorkHolds(r, c)
  BY <1>5 DEF WorkHolds
<1>7. ProcHolds(world, r, c)
  BY <1>1, <1>3, <1>6 DEF ProcHolds
<1> QED
  BY <1>4, <1>7 DEF Starting

LEMMA BusyFinite ==
    ASSUME Typed, Inv, NEW p \in Procs
    PROVE  /\ IsFiniteSet(proc[p].busy) /\ Cardinality(proc[p].busy) \in Nat
           /\ Cardinality(proc[p].busy) <= Workers
           /\ \A t : Cardinality(proc[p].busy \ {t}) <= Workers
           /\ \A t : Cardinality(proc[p].busy) < Workers => Cardinality(proc[p].busy \cup {t}) <= Workers
<1>1. proc[p].busy \in SUBSET Tasks /\ Cardinality(proc[p].busy) <= Workers
  BY DEF Typed, ProcStates, Inv, CourseInv, CourseHolds
<1>2. IsFiniteSet(proc[p].busy)
  BY <1>1, TasksFinite, FS_Subset
<1>3. Cardinality(proc[p].busy) \in Nat
  BY <1>2, FS_CardinalityType
<1>4. ASSUME NEW t PROVE Cardinality(proc[p].busy \ {t}) <= Workers
  <2>1. Cardinality(proc[p].busy \ {t})
        = IF t \in proc[p].busy THEN Cardinality(proc[p].busy) - 1 ELSE Cardinality(proc[p].busy)
    BY <1>2, FS_RemoveElement
  <2> QED
    BY <1>1, <1>3, <2>1, SizeAssumption
<1>5. ASSUME NEW t, Cardinality(proc[p].busy) < Workers
      PROVE  Cardinality(proc[p].busy \cup {t}) <= Workers
  <2>1. Cardinality(proc[p].busy \cup {t})
        = IF t \in proc[p].busy THEN Cardinality(proc[p].busy) ELSE Cardinality(proc[p].busy) + 1
    BY <1>2, FS_AddElement
  <2> QED
    BY <1>3, <1>5, <2>1, SizeAssumption
<1> QED
  BY <1>1, <1>2, <1>3, <1>4, <1>5

LEMMA WorkPlace ==
    ASSUME Typed, Inv, NEW p \in Procs, At(p, "work")
    PROVE  /\ proc[p].at = "work" /\ proc[p].at \in Placed /\ proc[p] \in ProcStates
           /\ proc[p].camp \in 1 .. Len(camp) /\ Dir(p) = camp[proc[p].camp]
           /\ Dir(p) \in CampStates /\ CampHolds(world, Dir(p)) /\ WorkHolds(proc[p], Dir(p))
           /\ \A t : LeftAfter(p, t) \subseteq proc[p].todo /\ t \notin LeftAfter(p, t)
<1>1. proc[p].at = "work" /\ proc[p].at \in Placed
  BY DEF At, Placed
<1>2. \A t : LeftAfter(p, t) \subseteq proc[p].todo /\ t \notin LeftAfter(p, t)
  BY DEF LeftAfter
<1> QED
  BY <1>1, <1>2, Here DEF ProcHolds

LEMMA StartUnitHolds ==
    ASSUME Typed, Inv, NEW p \in Procs, NEW t \in proc[p].todo \cup proc[p].busy, StartUnit(p, t)
    PROVE  Typed' /\ Inv' /\ CampStep
<1> DEFINE r == [proc[p] EXCEPT !.todo = @ \ {t}, !.busy = @ \cup {t}]
<1>1. /\ At(p, "work") /\ t \in proc[p].todo /\ Cardinality(proc[p].busy) < Workers
      /\ UNCHANGED <<world, code, camp, endpoint, orphans>>
  BY DEF StartUnit, NextUnit
<1>2. /\ proc[p].at = "work" /\ proc[p] \in ProcStates /\ proc[p].camp \in 1 .. Len(camp)
      /\ Dir(p) = camp[proc[p].camp] /\ Dir(p) \in CampStates /\ WorkHolds(proc[p], Dir(p))
  BY <1>1, WorkPlace
<1>3. /\ r \in ProcStates /\ r.at = "work" /\ r.plan = proc[p].plan /\ r.camp = proc[p].camp
      /\ r.imported = proc[p].imported /\ r.read = proc[p].read /\ r.failed = proc[p].failed
      /\ r.todo = proc[p].todo \ {t} /\ r.busy = proc[p].busy \cup {t}
  BY <1>1, <1>2 DEF ProcStates
<1>4. proc' = [proc EXCEPT ![p] = r]
  BY DEF StartUnit
<1> HIDE DEF r
<1>5. /\ r.busy \cup r.todo \subseteq proc[p].busy \cup proc[p].todo /\ r.busy \cap r.todo = {}
      /\ \A u \in proc[p].busy \cup proc[p].todo : u \in r.busy \/ u \in r.todo
  BY <1>1, <1>2, <1>3 DEF WorkHolds
<1>6. Cardinality(r.busy) <= Workers
  BY <1>1, <1>3, BusyFinite
<1>7. CourseHolds(r) /\ ProcHolds(world, r, Dir(p)) /\ ~Starting(r) /\ r.at # "create"
  BY <1>1, <1>2, <1>3, <1>5, <1>6, GrowsSame, WorkGoesOn
<1> QED
  BY <1>1, <1>2, <1>3, <1>4, <1>7, OwnStepHolds

LEMMA ResumeUnitHolds ==
    ASSUME Typed, Inv, NEW p \in Procs, NEW t \in proc[p].todo \cup proc[p].busy, ResumeUnit(p, t)
    PROVE  Typed' /\ Inv' /\ CampStep
<1>1. /\ At(p, "work") /\ t \in proc[p].todo /\ t \in DOMAIN Dir(p).runs
      /\ UNCHANGED <<world, code, camp, endpoint, orphans>>
  BY DEF ResumeUnit, NextUnit, Exists
<1>2. /\ proc[p].at = "work" /\ proc[p] \in ProcStates /\ proc[p].camp \in 1 .. Len(camp)
      /\ Dir(p) = camp[proc[p].camp] /\ Dir(p) \in CampStates /\ WorkHolds(proc[p], Dir(p))
      /\ LeftAfter(p, t) \subseteq proc[p].todo /\ t \notin LeftAfter(p, t)
  BY <1>1, WorkPlace
<1>3. ASSUME NEW todo \in SUBSET proc[p].todo, NEW failed \in BOOLEAN,
             proc' = [proc EXCEPT ![p] = [proc[p] EXCEPT !.todo = todo, !.failed = failed]],
             failed \/ (todo = proc[p].todo \ {t} /\ failed = proc[p].failed)
      PROVE  Typed' /\ Inv' /\ CampStep
  <2> DEFINE r == [proc[p] EXCEPT !.todo = todo, !.failed = failed]
  <2>1. /\ r \in ProcStates /\ r.at = "work" /\ r.plan = proc[p].plan /\ r.camp = proc[p].camp
        /\ r.imported = proc[p].imported /\ r.read = proc[p].read /\ r.failed = failed
        /\ r.todo = todo /\ r.busy = proc[p].busy
    BY <1>2 DEF ProcStates
  <2>2. proc' = [proc EXCEPT ![p] = r]
    BY <1>3
  <2> HIDE DEF r
  <2>3. /\ r.busy \cup r.todo \subseteq proc[p].busy \cup proc[p].todo /\ r.busy \cap r.todo = {}
        /\ ~r.failed => \A u \in proc[p].busy \cup proc[p].todo :
                           u \in r.busy \/ u \in r.todo \/ u \in DOMAIN Dir(p).runs
    BY <1>1, <1>2, <1>3, <2>1 DEF WorkHolds
  <2>4. ~r.failed => ~proc[p].failed
    BY <1>3, <2>1
  <2>5. Cardinality(r.busy) <= Workers
    BY <2>1, BusyFinite
  <2>6. CourseHolds(r) /\ ProcHolds(world, r, Dir(p)) /\ ~Starting(r) /\ r.at # "create"
    BY <1>1, <1>2, <2>1, <2>3, <2>4, <2>5, GrowsSame, WorkGoesOn
  <2> QED
    BY <1>1, <1>2, <2>1, <2>2, <2>6, OwnStepHolds
<1>4. CASE Resumable(p, t)
  <2>1. proc' = [proc EXCEPT ![p] = [proc[p] EXCEPT !.todo = proc[p].todo \ {t},
                                                    !.failed = proc[p].failed]]
    BY <1>2, <1>4 DEF ResumeUnit, ProcStates
  <2>2. proc[p].failed \in BOOLEAN
    BY <1>2 DEF ProcStates
  <2> QED
    BY <1>3, <2>1, <2>2
<1>5. CASE ~Resumable(p, t)
  <2>1. proc' = [proc EXCEPT ![p] = [proc[p] EXCEPT !.todo = LeftAfter(p, t), !.failed = TRUE]]
    BY <1>5 DEF ResumeUnit
  <2> QED
    BY <1>2, <1>3, <2>1
<1> QED
  BY <1>4, <1>5

LEMMA FailUnitHolds ==
    ASSUME Typed, Inv, NEW p \in Procs, NEW t \in proc[p].todo \cup proc[p].busy, FailUnit(p, t)
    PROVE  Typed' /\ Inv' /\ CampStep
<1> DEFINE r == [proc[p] EXCEPT !.busy = @ \ {t}, !.failed = TRUE, !.todo = LeftAfter(p, t)]
<1>1. At(p, "work") /\ UNCHANGED <<world, code, camp, endpoint, orphans>>
  BY DEF FailUnit
<1>2. /\ proc[p].at = "work" /\ proc[p] \in ProcStates /\ proc[p].camp \in 1 .. Len(camp)
      /\ Dir(p) = camp[proc[p].camp] /\ Dir(p) \in CampStates /\ WorkHolds(proc[p], Dir(p))
      /\ LeftAfter(p, t) \subseteq proc[p].todo
  BY <1>1, WorkPlace
<1>3. /\ r \in ProcStates /\ r.at = "work" /\ r.plan = proc[p].plan /\ r.camp = proc[p].camp
      /\ r.imported = proc[p].imported /\ r.read = proc[p].read /\ r.failed = TRUE
      /\ r.todo = LeftAfter(p, t) /\ r.busy = proc[p].busy \ {t}
  BY <1>2 DEF ProcStates
<1>4. proc' = [proc EXCEPT ![p] = r]
  BY DEF FailUnit
<1> HIDE DEF r
<1>5. r.busy \cup r.todo \subseteq proc[p].busy \cup proc[p].todo /\ r.busy \cap r.todo = {}
  BY <1>2, <1>3 DEF WorkHolds
<1>6. Cardinality(r.busy) <= Workers
  BY <1>3, BusyFinite
<1>7. CourseHolds(r) /\ ProcHolds(world, r, Dir(p)) /\ ~Starting(r) /\ r.at # "create"
  BY <1>1, <1>2, <1>3, <1>5, <1>6, GrowsSame, WorkGoesOn
<1> QED
  BY <1>1, <1>2, <1>3, <1>4, <1>7, OwnStepHolds

\* A bundle that is moved into place, or is there already.
Delivered(c, t, b) ==
    [c EXCEPT !.runs = IF t \in DOMAIN c.runs THEN c.runs
                       ELSE [u \in DOMAIN c.runs \cup {t} |-> IF u = t THEN b ELSE c.runs[u]]]

LEMMA DeliveredHolds ==
    ASSUME NEW w \in Worlds, NEW c \in CampStates, CampHolds(w, c),
           NEW t \in Tasks, NEW b \in Bundles, Due(c, t, b.spec)
    PROVE  LET d == Delivered(c, t, b)
           IN  /\ d \in CampStates /\ Grows(c, d) /\ CampHolds(w, d)
               /\ d.qualification = c.qualification /\ t \in DOMAIN d.runs
<1> DEFINE d == Delivered(c, t, b)
           f == IF t \in DOMAIN c.runs THEN c.runs
                ELSE [u \in DOMAIN c.runs \cup {t} |-> IF u = t THEN b ELSE c.runs[u]]
<1>1. /\ f \in Runs /\ DOMAIN f = DOMAIN c.runs \cup {t}
      /\ \A u \in DOMAIN c.runs : f[u] = c.runs[u]
      /\ t \notin DOMAIN c.runs => f[t] = b
  <2>1. c.runs \in Runs
    BY DEF CampStates
  <2>2. CASE t \in DOMAIN c.runs
    BY <2>1, <2>2
  <2>3. CASE t \notin DOMAIN c.runs
    <3>1. DOMAIN c.runs \subseteq Tasks /\ \A u \in DOMAIN c.runs : c.runs[u] \in Bundles
      BY <2>1, RunsAre
    <3>2. DOMAIN f = DOMAIN c.runs \cup {t} /\ f = [u \in DOMAIN f |-> f[u]]
      BY <2>3
    <3>3. \A u \in DOMAIN f : f[u] \in Bundles
      BY <2>3, <3>1, <3>2
    <3>4. f \in Runs
      <4> HIDE DEF f
      <4> QED
        BY <3>1, <3>2, <3>3, RunsAre
    <3> QED
      BY <2>3, <3>2, <3>4
  <2> QED
    BY <2>2, <2>3
<1>2. d = [c EXCEPT !.runs = f]
  BY DEF Delivered
<1> HIDE DEF f, d
<1>3. /\ d \in CampStates /\ d.runs = f
      /\ d.rev = c.rev /\ d.done = c.done /\ d.active = c.active
      /\ d.qualification = c.qualification
      /\ d.powerSummary = c.powerSummary /\ d.powerSelection = c.powerSelection
      /\ d.populationSummary = c.populationSummary
      /\ d.populationSelection = c.populationSelection
      /\ d.design = c.design /\ d.index = c.index
      /\ d.analysis = c.analysis /\ d.reanalysis = c.reanalysis
  BY <1>1, <1>2 DEF CampStates
<1>4. Grows(c, d)
  BY <1>1, <1>3 DEF Grows, KeepsRuns, Passed
<1>5. CampHolds(w, d)
  <2>1. AtMostOne(d.design) /\ AtMostOne(d.index) /\ AtMostOne(d.analysis)
        /\ AtMostOne(d.reanalysis) /\ AtMostOne(d.qualification)
    BY <1>3 DEF CampHolds
  <2>2. \A u \in DOMAIN d.runs \ DOMAIN c.runs : Due(d, u, d.runs[u].spec)
    <3> SUFFICES ASSUME NEW u \in DOMAIN d.runs \ DOMAIN c.runs PROVE Due(d, u, d.runs[u].spec)
      OBVIOUS
    <3>1. u = t /\ d.runs[u] = b
      BY <1>1, <1>3
    <3> QED
      BY <3>1, <1>4, DueKept
  <2> QED
    BY <1>3, <1>4, <2>1, <2>2, CampKept
<1> QED
  BY <1>1, <1>3, <1>4, <1>5 DEF d

LEMMA DeliverIs ==
    ASSUME Typed, NEW n \in 1 .. Len(camp), NEW t, NEW b, Deliver(n, t, b)
    PROVE  camp' = [camp EXCEPT ![n] = Delivered(camp[n], t, b)]
BY DEF Deliver, Delivered

LEMMA FinishUnitHolds ==
    ASSUME Typed, Inv, NEW p \in Procs, NEW t \in proc[p].todo \cup proc[p].busy, FinishUnit(p, t)
    PROVE  Typed' /\ Inv' /\ CampStep
<1> DEFINE there == t \in DOMAIN Dir(p).runs
           left == IF there THEN LeftAfter(p, t) ELSE proc[p].todo
           r == [proc[p] EXCEPT !.busy = @ \ {t}, !.failed = @ \/ there, !.todo = left]
<1>1. At(p, "work") /\ t \in proc[p].busy /\ UNCHANGED <<world, code, endpoint, orphans>>
  BY DEF FinishUnit
<1>2. /\ proc[p].at = "work" /\ proc[p] \in ProcStates /\ proc[p].camp \in 1 .. Len(camp)
      /\ Dir(p) = camp[proc[p].camp] /\ Dir(p) \in CampStates /\ WorkHolds(proc[p], Dir(p))
      /\ CampHolds(world, Dir(p)) /\ LeftAfter(p, t) \subseteq proc[p].todo
  BY <1>1, WorkPlace
<1>3. PICK tree \in proc[p].imported : Deliver(proc[p].camp, t, Bundle(Spec(p, t), tree))
  BY DEF FinishUnit
<1> DEFINE b == Bundle(Spec(p, t), tree)
           c == Delivered(Dir(p), t, b)
<1>4. t \in Tasks /\ b \in Bundles /\ Due(Dir(p), t, b.spec)
  <2>1. Spec(p, t) \in TaskSpecs /\ Due(Dir(p), t, Spec(p, t)) /\ t \in Tasks
    BY <1>1, SpecIsDue
  <2>2. tree \in Trees /\ code.tree \in Trees
    BY <1>2, <1>3 DEF ProcStates, Typed, Trees
  <2> QED
    BY <2>1, <2>2 DEF Bundle, Bundles
<1> HIDE DEF b
<1>5. /\ c \in CampStates /\ Grows(Dir(p), c) /\ CampHolds(world, c)
      /\ c.qualification = Dir(p).qualification /\ t \in DOMAIN c.runs
  BY <1>2, <1>4, DeliveredHolds DEF Typed
<1>6. camp' = [camp EXCEPT ![proc[p].camp] = c]
  BY <1>2, <1>3, DeliverIs DEF b
<1> HIDE DEF c
<1>7. /\ r \in ProcStates /\ r.at = "work" /\ r.plan = proc[p].plan /\ r.camp = proc[p].camp
      /\ r.imported = proc[p].imported /\ r.read = proc[p].read
      /\ r.failed = (proc[p].failed \/ there)
      /\ r.todo = left /\ r.busy = proc[p].busy \ {t}
  BY <1>2 DEF ProcStates
<1>8. proc' = [proc EXCEPT ![p] = r]
  BY DEF FinishUnit, Exists
<1> HIDE DEF r
<1>9. r.busy \cup r.todo \subseteq proc[p].busy \cup proc[p].todo /\ r.busy \cap r.todo = {}
  BY <1>2, <1>7 DEF WorkHolds
<1>10. ~r.failed => /\ ~proc[p].failed
                    /\ \A u \in proc[p].busy \cup proc[p].todo :
                          u \in r.busy \/ u \in r.todo \/ u \in DOMAIN c.runs
  BY <1>5, <1>7
<1>11. Cardinality(r.busy) <= Workers
  BY <1>7, BusyFinite
<1>12. CourseHolds(r) /\ ProcHolds(world, r, c) /\ ~Starting(r) /\ r.at # "create"
  BY <1>1, <1>5, <1>7, <1>9, <1>10, <1>11, WorkGoesOn
<1> QED
  BY <1>1, <1>2, <1>5, <1>6, <1>7, <1>8, <1>12, CampStepHolds

----------------------------------------------------------------------------
(* What a phase concludes.                                                  *)

\* An executor that returned has left a bundle of every unit.
LEMMA ReturnedWhole ==
    ASSUME Typed, Inv, NEW p \in Procs, NEW phase, Returned(p, phase)
    PROVE  /\ At(p, "work") /\ Head(proc[p].plan) = phase
           /\ TasksOf(phase) \subseteq DOMAIN Dir(p).runs
           /\ \A g \in Upto[phase] \ {phase} : Artefacts(Dir(p), g)
           /\ phase = "population" => Dir(p).powerSelection # {}
           /\ phase = "confirmation" =>
                 /\ proc[p].read # {} /\ AtMostOne(proc[p].read)
                 /\ \A d \in proc[p].read : d \in DesignSet /\ Fits(Dir(p), d)
<1>1. /\ At(p, "work") /\ proc[p].todo = {} /\ proc[p].busy = {} /\ ~proc[p].failed
      /\ Phase(p) = phase
  BY DEF Returned, Settled
<1>2. proc[p].at = "work" /\ WorkHolds(proc[p], Dir(p)) /\ proc[p].at \in Placed
  BY <1>1, WorkPlace
<1>3. ProcHolds(world, proc[p], Dir(p))
  BY <1>2, Here
<1>4. Head(proc[p].plan) = phase
  BY <1>1 DEF Phase
<1> QED
  BY <1>1, <1>2, <1>3, <1>4 DEF WorkHolds, ProcHolds

\* An invocation that has worked and goes on with a result.
LEMMA SelectCourse ==
    ASSUME Typed, Inv, NEW p \in Procs, At(p, "work"), proc[p].todo = {}, proc[p].busy = {},
           NEW r, r.at = "select", r.plan = proc[p].plan, r.todo = proc[p].todo,
           r.busy = proc[p].busy, r.imported = proc[p].imported
    PROVE  CourseHolds(r) /\ ~Starting(r)
<1>1. proc[p].at = "work" /\ CourseHolds(proc[p])
  BY WorkPlace, Here
<1> QED
  BY <1>1 DEF CourseHolds, Starting

LEMMA SummarisePowerHolds ==
    ASSUME Typed, Inv, NEW p \in Procs, SummarisePower(p)
    PROVE  Typed' /\ Inv' /\ CampStep
<1> DEFINE n == proc[p].camp
           found == PowersOf(Dir(p))
           c == [camp[n] EXCEPT !.powerSummary = {"summary"}]
           r == [proc[p] EXCEPT !.at = "select", !.result = found]
<1>1. /\ Returned(p, "power") /\ UNCHANGED <<world, code, endpoint, orphans>>
      /\ At(p, "work") /\ Head(proc[p].plan) = "power" /\ PowerTasks \subseteq DOMAIN Dir(p).runs
      /\ \A g \in Upto["power"] \ {"power"} : Artefacts(Dir(p), g)
      /\ proc[p].todo = {} /\ proc[p].busy = {}
  BY ReturnedWhole, TaskFacts DEF SummarisePower, Returned, Settled
<1>2. /\ n \in 1 .. Len(camp) /\ Dir(p) = camp[n] /\ camp[n] \in CampStates
      /\ CampHolds(world, camp[n]) /\ world \in Worlds /\ camp \in Seq(CampStates)
  BY <1>1, WorkPlace DEF Typed
<1>3. found = PowersIn(world, camp[n].runs) /\ found \subseteq Triples
  BY <1>1, <1>2, YieldIsMeasured, PowersFound DEF CampStates
<1>4. CASE found = {}
  <2>1. Ends(p)
    BY <1>4 DEF SummarisePower, Conclude
  <2>2. camp' = [camp EXCEPT ![n] = [camp[n] EXCEPT !.powerSummary = camp[n].powerSummary]]
    BY <1>4 DEF SummarisePower
  <2>3. [camp[n] EXCEPT !.powerSummary = camp[n].powerSummary] = camp[n]
    BY <1>2 DEF CampStates
  <2>4. camp' = camp
    BY <1>2, <2>2, <2>3
  <2> QED
    BY <1>1, <2>1, <2>4, EndsHolds
<1>5. CASE found # {}
  <2>1. camp' = [camp EXCEPT ![n] = c] /\ proc' = [proc EXCEPT ![p] = r]
    BY <1>5 DEF SummarisePower, Conclude
  <2>2. /\ c \in CampStates /\ c.powerSummary = {"summary"}
        /\ c.rev = camp[n].rev /\ c.done = camp[n].done /\ c.active = camp[n].active
        /\ c.qualification = camp[n].qualification /\ c.powerSelection = camp[n].powerSelection
        /\ c.populationSummary = camp[n].populationSummary
        /\ c.populationSelection = camp[n].populationSelection
        /\ c.design = camp[n].design /\ c.index = camp[n].index
        /\ c.analysis = camp[n].analysis /\ c.reanalysis = camp[n].reanalysis
        /\ c.runs = camp[n].runs
    BY <1>2 DEF CampStates
  <2> HIDE DEF c
  <2>3. Grows(camp[n], c)
    BY <2>2 DEF Grows, KeepsRuns, Passed
  <2>4. CampHolds(world, c)
    <3>1. AtMostOne(c.design) /\ AtMostOne(c.index) /\ AtMostOne(c.analysis)
          /\ AtMostOne(c.reanalysis) /\ AtMostOne(c.qualification)
      BY <1>2, <2>2 DEF CampHolds
    <3> QED
      BY <1>2, <2>2, <2>3, <3>1, CampKept
  <2>5. /\ r \in ProcStates /\ CourseHolds(r) /\ ~Starting(r) /\ r.at = "select"
        /\ r.plan = proc[p].plan /\ r.camp = proc[p].camp /\ r.result = found
    <3>1. found \subseteq Results
      BY <1>3 DEF Results
    <3>2. proc[p] \in ProcStates
      BY <1>1, WorkPlace
    <3> HIDE DEF found
    <3>3. /\ r \in ProcStates /\ r.at = "select" /\ r.plan = proc[p].plan
          /\ r.camp = proc[p].camp /\ r.result = found /\ r.todo = proc[p].todo
          /\ r.busy = proc[p].busy /\ r.imported = proc[p].imported
      BY <3>1, <3>2 DEF ProcStates, Steps, Placed
    <3> HIDE DEF r
    <3> QED
      BY <1>1, <3>3, SelectCourse
  <2> HIDE DEF r, found
  <2>6. ProcHolds(world, r, c)
    <3>1. SelectHolds(world, r, c)
      BY <1>1, <1>2, <1>3, <1>5, <2>2, <2>5 DEF SelectHolds, Calibrations
    <3>2. \A g \in Upto["power"] \ {"power"} : Artefacts(c, g)
      BY <1>1, <1>2, <2>3, ArtefactsKept, PhaseFacts
    <3> QED
      BY <1>1, <2>5, <3>1, <3>2 DEF ProcHolds
  <2> QED
    BY <1>1, <1>2, <2>1, <2>2, <2>3, <2>4, <2>5, <2>6, CampStepHolds
<1> QED
  BY <1>4, <1>5

LEMMA SummarisePopulationHolds ==
    ASSUME Typed, Inv, NEW p \in Procs, SummarisePopulation(p)
    PROVE  Typed' /\ Inv' /\ CampStep
<1> DEFINE n == proc[p].camp
           found == CountsOf(Dir(p))
           c == [camp[n] EXCEPT !.populationSummary = {"summary"}]
           r == [proc[p] EXCEPT !.at = "select", !.result = found]
<1>1. /\ Returned(p, "population") /\ UNCHANGED <<world, code, endpoint, orphans>>
      /\ At(p, "work") /\ Head(proc[p].plan) = "population"
      /\ PopulationTasks \subseteq DOMAIN Dir(p).runs /\ Dir(p).powerSelection # {}
      /\ \A g \in Upto["population"] \ {"population"} : Artefacts(Dir(p), g)
      /\ proc[p].todo = {} /\ proc[p].busy = {}
  BY ReturnedWhole, TaskFacts DEF SummarisePopulation, Returned, Settled
<1>2. /\ n \in 1 .. Len(camp) /\ Dir(p) = camp[n] /\ camp[n] \in CampStates
      /\ CampHolds(world, camp[n]) /\ world \in Worlds /\ camp \in Seq(CampStates)
  BY <1>1, WorkPlace DEF Typed
<1>3. found = CountsIn(world, camp[n].runs) /\ found \subseteq 1 .. NumCounts
  BY <1>1, <1>2, YieldIsMeasured, CountsFound DEF CampStates
<1>4. CASE found = {}
  <2>1. Ends(p)
    BY <1>4 DEF SummarisePopulation, Conclude
  <2>2. camp' = [camp EXCEPT ![n] =
                    [camp[n] EXCEPT !.populationSummary = camp[n].populationSummary]]
    BY <1>4 DEF SummarisePopulation
  <2>3. [camp[n] EXCEPT !.populationSummary = camp[n].populationSummary] = camp[n]
    BY <1>2 DEF CampStates
  <2>4. camp' = camp
    BY <1>2, <2>2, <2>3
  <2> QED
    BY <1>1, <2>1, <2>4, EndsHolds
<1>5. CASE found # {}
  <2>1. camp' = [camp EXCEPT ![n] = c] /\ proc' = [proc EXCEPT ![p] = r]
    BY <1>5 DEF SummarisePopulation, Conclude
  <2>2. /\ c \in CampStates /\ c.populationSummary = {"summary"}
        /\ c.rev = camp[n].rev /\ c.done = camp[n].done /\ c.active = camp[n].active
        /\ c.qualification = camp[n].qualification /\ c.powerSelection = camp[n].powerSelection
        /\ c.powerSummary = camp[n].powerSummary
        /\ c.populationSelection = camp[n].populationSelection
        /\ c.design = camp[n].design /\ c.index = camp[n].index
        /\ c.analysis = camp[n].analysis /\ c.reanalysis = camp[n].reanalysis
        /\ c.runs = camp[n].runs
    BY <1>2 DEF CampStates
  <2> HIDE DEF c
  <2>3. Grows(camp[n], c)
    BY <2>2 DEF Grows, KeepsRuns, Passed
  <2>4. CampHolds(world, c)
    <3>1. AtMostOne(c.design) /\ AtMostOne(c.index) /\ AtMostOne(c.analysis)
          /\ AtMostOne(c.reanalysis) /\ AtMostOne(c.qualification)
      BY <1>2, <2>2 DEF CampHolds
    <3> QED
      BY <1>2, <2>2, <2>3, <3>1, CampKept
  <2>5. /\ r \in ProcStates /\ CourseHolds(r) /\ ~Starting(r) /\ r.at = "select"
        /\ r.plan = proc[p].plan /\ r.camp = proc[p].camp /\ r.result = found
    <3>1. found \subseteq Results
      BY <1>3 DEF Results
    <3>2. proc[p] \in ProcStates
      BY <1>1, WorkPlace
    <3> HIDE DEF found
    <3>3. /\ r \in ProcStates /\ r.at = "select" /\ r.plan = proc[p].plan
          /\ r.camp = proc[p].camp /\ r.result = found /\ r.todo = proc[p].todo
          /\ r.busy = proc[p].busy /\ r.imported = proc[p].imported
      BY <3>1, <3>2 DEF ProcStates, Steps, Placed
    <3> HIDE DEF r
    <3> QED
      BY <1>1, <3>3, SelectCourse
  <2> HIDE DEF r, found
  <2>6. ProcHolds(world, r, c)
    <3>1. SelectHolds(world, r, c)
      BY <1>1, <1>2, <1>3, <1>5, <2>2, <2>5 DEF SelectHolds, Calibrations
    <3>2. \A g \in Upto["population"] \ {"population"} : Artefacts(c, g)
      BY <1>1, <1>2, <2>3, ArtefactsKept, PhaseFacts
    <3> QED
      BY <1>1, <2>5, <3>1, <3>2 DEF ProcHolds
  <2> QED
    BY <1>1, <1>2, <2>1, <2>2, <2>3, <2>4, <2>5, <2>6, CampStepHolds
<1> QED
  BY <1>4, <1>5

\* From writing what a phase produces to marking it.
LEMMA MarkCourse ==
    ASSUME Typed, Inv, NEW p \in Procs, proc[p].at \in Placed \ {"work"}
    PROVE  LET r == [proc[p] EXCEPT !.at = "mark"]
           IN  /\ r \in ProcStates /\ CourseHolds(r) /\ ~Starting(r) /\ r.at = "mark"
               /\ r.plan = proc[p].plan /\ r.camp = proc[p].camp
<1> DEFINE r == [proc[p] EXCEPT !.at = "mark"]
<1>1. proc[p] \in ProcStates /\ CourseHolds(proc[p])
  BY Here
<1>2. /\ r \in ProcStates /\ r.at = "mark" /\ r.plan = proc[p].plan /\ r.camp = proc[p].camp
      /\ r.todo = proc[p].todo /\ r.busy = proc[p].busy /\ r.imported = proc[p].imported
  BY <1>1 DEF ProcStates, Steps, Placed
<1> HIDE DEF r
<1>3. CourseHolds(r) /\ ~Starting(r)
  BY <1>1, <1>2 DEF CourseHolds, Starting, Placed
<1> QED
  BY <1>2, <1>3 DEF r

LEMMA MarkHolds ==
    ASSUME NEW w, NEW c, NEW d, Grows(c, d), NEW r, r.at = "mark", NEW f \in Phases,
           Head(r.plan) = f, \A g \in Upto[f] \ {f} : Artefacts(c, g), Artefacts(d, f)
    PROVE  ProcHolds(w, r, d)
<1>1. \A g \in Upto[f] : Artefacts(d, g)
  BY ArtefactsKept, PhaseFacts
<1> QED
  BY <1>1 DEF ProcHolds, Earned

LEMMA WriteSelectionHolds ==
    ASSUME Typed, Inv, NEW p \in Procs, WriteSelection(p)
    PROVE  Typed' /\ Inv' /\ CampStep
<1> DEFINE n == proc[p].camp
           result == proc[p].result
           r == [proc[p] EXCEPT !.at = "mark"]
<1>1. /\ proc[p].at = "select" /\ proc[p].at \in Placed \ {"work"}
      /\ UNCHANGED <<world, code, endpoint, orphans>> /\ proc' = [proc EXCEPT ![p] = r]
  BY DEF WriteSelection, At, Placed
<1>2. /\ n \in 1 .. Len(camp) /\ Dir(p) = camp[n] /\ camp[n] \in CampStates
      /\ CampHolds(world, camp[n]) /\ world \in Worlds
      /\ ProcHolds(world, proc[p], camp[n])
      /\ Phase(p) = Head(proc[p].plan) /\ Phase(p) \in Phases
  BY <1>1, Here
<1>3. SelectHolds(world, proc[p], camp[n]) /\ Phase(p) \in Calibrations /\ result # {}
      /\ \A g \in Upto[Phase(p)] \ {Phase(p)} : Artefacts(camp[n], g)
  BY <1>1, <1>2 DEF ProcHolds, SelectHolds
<1>4. /\ r \in ProcStates /\ CourseHolds(r) /\ ~Starting(r) /\ r.at = "mark"
      /\ r.plan = proc[p].plan /\ r.camp = proc[p].camp
  BY <1>1, MarkCourse
<1> HIDE DEF r
<1>5. CASE Phase(p) = "power"
  <2> DEFINE c == [camp[n] EXCEPT !.powerSelection = result]
  <2>1. camp' = [camp EXCEPT ![n] = c]
    BY <1>5 DEF WriteSelection
  <2>2. /\ PowerTasks \subseteq DOMAIN camp[n].runs /\ result = PowersIn(world, camp[n].runs)
        /\ camp[n].powerSummary # {}
    BY <1>2, <1>3, <1>5 DEF SelectHolds
  <2>3. result \subseteq Triples
    BY <1>2, <2>2, PowersFound DEF CampStates
  <2> HIDE DEF result
  <2>4. /\ c \in CampStates /\ c.powerSelection = result
        /\ c.rev = camp[n].rev /\ c.done = camp[n].done /\ c.active = camp[n].active
        /\ c.qualification = camp[n].qualification /\ c.powerSummary = camp[n].powerSummary
        /\ c.populationSummary = camp[n].populationSummary
        /\ c.populationSelection = camp[n].populationSelection
        /\ c.design = camp[n].design /\ c.index = camp[n].index
        /\ c.analysis = camp[n].analysis /\ c.reanalysis = camp[n].reanalysis
        /\ c.runs = camp[n].runs
    BY <1>2, <2>3 DEF CampStates
  <2> HIDE DEF c
  <2>5. camp[n].powerSelection # {} => camp[n].powerSelection = result
    BY <1>2, <2>2 DEF CampHolds
  <2>6. Grows(camp[n], c)
    BY <2>4, <2>5 DEF Grows, KeepsRuns, Passed
  <2>7. CampHolds(world, c)
    <3>1. AtMostOne(c.design) /\ AtMostOne(c.index) /\ AtMostOne(c.analysis)
          /\ AtMostOne(c.reanalysis) /\ AtMostOne(c.qualification)
      BY <1>2, <2>4 DEF CampHolds
    <3> QED
      BY <1>2, <2>2, <2>4, <2>6, <3>1, CampKept
  <2>8. ProcHolds(world, r, c)
    <3>1. Artefacts(c, "power")
      BY <1>3, <2>2, <2>4 DEF Artefacts
    <3> QED
      BY <1>2, <1>3, <1>4, <1>5, <2>6, <3>1, MarkHolds
  <2> QED
    BY <1>1, <1>2, <1>4, <2>1, <2>4, <2>6, <2>7, <2>8, CampStepHolds
<1>6. CASE Phase(p) = "population"
  <2> DEFINE c == [camp[n] EXCEPT !.populationSelection = result]
  <2>1. camp' = [camp EXCEPT ![n] = c]
    BY <1>6 DEF WriteSelection
  <2>2. /\ PopulationTasks \subseteq DOMAIN camp[n].runs /\ result = CountsIn(world, camp[n].runs)
        /\ camp[n].populationSummary # {} /\ camp[n].powerSelection # {}
    BY <1>2, <1>3, <1>6 DEF SelectHolds
  <2>3. result \subseteq 1 .. NumCounts
    BY <1>2, <2>2, CountsFound DEF CampStates
  <2> HIDE DEF result
  <2>4. /\ c \in CampStates /\ c.populationSelection = result
        /\ c.rev = camp[n].rev /\ c.done = camp[n].done /\ c.active = camp[n].active
        /\ c.qualification = camp[n].qualification /\ c.powerSummary = camp[n].powerSummary
        /\ c.populationSummary = camp[n].populationSummary
        /\ c.powerSelection = camp[n].powerSelection
        /\ c.design = camp[n].design /\ c.index = camp[n].index
        /\ c.analysis = camp[n].analysis /\ c.reanalysis = camp[n].reanalysis
        /\ c.runs = camp[n].runs
    BY <1>2, <2>3 DEF CampStates
  <2> HIDE DEF c
  <2>5. camp[n].populationSelection # {} => camp[n].populationSelection = result
    BY <1>2, <2>2 DEF CampHolds
  <2>6. Grows(camp[n], c)
    BY <2>4, <2>5 DEF Grows, KeepsRuns, Passed
  <2>7. CampHolds(world, c)
    <3>1. AtMostOne(c.design) /\ AtMostOne(c.index) /\ AtMostOne(c.analysis)
          /\ AtMostOne(c.reanalysis) /\ AtMostOne(c.qualification)
      BY <1>2, <2>4 DEF CampHolds
    <3> QED
      BY <1>2, <2>2, <2>4, <2>6, <3>1, CampKept
  <2>8. ProcHolds(world, r, c)
    <3>1. Artefacts(c, "population")
      BY <1>3, <2>2, <2>4 DEF Artefacts
    <3> QED
      BY <1>2, <1>3, <1>4, <1>6, <2>6, <3>1, MarkHolds
  <2> QED
    BY <1>1, <1>2, <1>4, <2>1, <2>4, <2>6, <2>7, <2>8, CampStepHolds
<1> QED
  BY <1>3, <1>5, <1>6 DEF Calibrations

----------------------------------------------------------------------------
(* Freezing a design.                                                       *)

LEMMA DesignsFit ==
    ASSUME Typed, NEW c \in CampStates, CampHolds(world, c)
    PROVE  AtMostOne(Designs(c)) /\ \A d \in Designs(c) : d \in DesignSet /\ Fits(c, d)
<1>1. /\ c.powerSelection \subseteq Triples /\ AtMostOne(c.powerSelection)
      /\ c.populationSelection \subseteq 1 .. NumCounts /\ AtMostOne(c.populationSelection)
  BY SelectionsFound DEF Typed
<1>2. AtMostOne(Designs(c))
  <2> SUFFICES ASSUME NEW x \in Designs(c), NEW y \in Designs(c) PROVE x = y
    BY DEF AtMostOne
  <2>1. PICK t \in c.powerSelection, n \in c.populationSelection :
           x = [rev |-> c.rev, tree |-> code.tree, points |-> t, count |-> n]
    BY DEF Designs
  <2>2. PICK u \in c.powerSelection, m \in c.populationSelection :
           y = [rev |-> c.rev, tree |-> code.tree, points |-> u, count |-> m]
    BY DEF Designs
  <2> QED
    BY <1>1, <2>1, <2>2 DEF AtMostOne
<1>3. ASSUME NEW d \in Designs(c) PROVE d \in DesignSet /\ Fits(c, d)
  <2>1. PICK t \in c.powerSelection, n \in c.populationSelection :
           d = [rev |-> c.rev, tree |-> code.tree, points |-> t, count |-> n]
    BY DEF Designs
  <2>2. c.rev \in {x.rev : x \in Codes} /\ code.tree \in Trees
    BY DEF CampStates, Typed, Trees
  <2>3. d \in DesignSet
    BY <1>1, <2>1, <2>2 DEF DesignSet
  <2>4. c.powerSelection = {t} /\ c.populationSelection = {n}
    BY <1>1 DEF AtMostOne
  <2> QED
    BY <2>1, <2>3, <2>4 DEF Fits
<1> QED
  BY <1>2, <1>3

LEMMA FreezeHolds ==
    ASSUME Typed, Inv, NEW p \in Procs, Freeze(p)
    PROVE  Typed' /\ Inv' /\ CampStep
<1>1. ReadyFor(p, "freeze") /\ UNCHANGED <<world, code, camp, endpoint, orphans>>
  BY DEF Freeze
<1>2. /\ proc[p].at \in Placed /\ Phase(p) = "freeze" /\ Head(proc[p].plan) = "freeze"
      /\ \A g \in Upto["freeze"] \ {"freeze"} : Artefacts(Dir(p), g)
      /\ proc[p] \in ProcStates /\ CourseHolds(proc[p]) /\ proc[p].camp \in 1 .. Len(camp)
      /\ Dir(p) = camp[proc[p].camp] /\ Dir(p) \in CampStates /\ CampHolds(world, Dir(p))
      /\ proc[p].at = "enter"
  BY <1>1, Prepared, Here DEF ReadyFor, At
<1>3. CASE Dir(p).design # {}
  <2>1. GoesOn(p, "mark") /\ Artefacts(Dir(p), "freeze")
    BY <1>3 DEF Freeze, Artefacts
  <2> QED
    BY <1>1, <2>1, MarksRetained
<1>4. CASE Dir(p).design = {} /\ Designs(Dir(p)) = {}
  <2>1. Ends(p)
    BY <1>4 DEF Freeze
  <2> QED
    BY <1>1, <2>1, EndsHolds
<1>5. CASE Dir(p).design = {} /\ Designs(Dir(p)) # {}
  <2> DEFINE result == Designs(Dir(p))
             r == [proc[p] EXCEPT !.at = "frozen", !.imported = Imported(p), !.result = result]
  <2>1. proc' = [proc EXCEPT ![p] = r]
    BY <1>5 DEF Freeze
  <2>2. AtMostOne(result) /\ \A d \in result : d \in DesignSet /\ Fits(Dir(p), d)
    BY <1>2, DesignsFit
  <2> HIDE DEF result
  <2>3. result \subseteq Results
    BY <2>2 DEF Results
  <2>4. /\ r \in ProcStates /\ r.at = "frozen" /\ r.camp = proc[p].camp /\ r.result = result
        /\ r.plan = proc[p].plan /\ r.todo = proc[p].todo /\ r.busy = proc[p].busy
        /\ r.imported = Imported(p)
    BY <1>2, <2>3, ImportedFacts DEF ProcStates, Steps, Placed
  <2> HIDE DEF r
  <2>5. CourseHolds(r) /\ ~Starting(r)
    BY <1>2, <2>4, ImportedFacts DEF CourseHolds, Starting
  <2>6. FrozenHolds(r, Dir(p))
    BY <1>2, <1>5, <2>2, <2>4 DEF FrozenHolds, result
  <2>7. ProcHolds(world, r, Dir(p))
    BY <1>2, <2>4, <2>6 DEF ProcHolds
  <2> QED
    BY <1>1, <1>2, <2>1, <2>4, <2>5, <2>7, OwnStepHolds
<1> QED
  BY <1>3, <1>4, <1>5

LEMMA WriteDesignHolds ==
    ASSUME Typed, Inv, NEW p \in Procs, WriteDesign(p)
    PROVE  Typed' /\ Inv' /\ CampStep
<1> DEFINE n == proc[p].camp
           result == proc[p].result
           r == [proc[p] EXCEPT !.at = "mark"]
           c == [camp[n] EXCEPT !.design = result]
<1>1. /\ proc[p].at = "frozen" /\ proc[p].at \in Placed \ {"work"}
      /\ UNCHANGED <<world, code, endpoint, orphans>> /\ proc' = [proc EXCEPT ![p] = r]
      /\ camp' = [camp EXCEPT ![n] = c]
  BY DEF WriteDesign, At, Placed
<1>2. /\ n \in 1 .. Len(camp) /\ Dir(p) = camp[n] /\ camp[n] \in CampStates
      /\ CampHolds(world, camp[n]) /\ world \in Worlds
      /\ ProcHolds(world, proc[p], camp[n])
  BY <1>1, Here
<1>3. /\ Head(proc[p].plan) = "freeze" /\ result # {} /\ AtMostOne(result)
      /\ \A d \in result : d \in DesignSet /\ Fits(camp[n], d)
      /\ \A g \in Upto["freeze"] \ {"freeze"} : Artefacts(camp[n], g)
  BY <1>1, <1>2 DEF ProcHolds, FrozenHolds
<1>4. /\ r \in ProcStates /\ CourseHolds(r) /\ ~Starting(r) /\ r.at = "mark"
      /\ r.plan = proc[p].plan /\ r.camp = proc[p].camp
  BY <1>1, MarkCourse
<1> HIDE DEF r, result
<1>5. /\ c \in CampStates /\ c.design = result
      /\ c.rev = camp[n].rev /\ c.done = camp[n].done /\ c.active = camp[n].active
      /\ c.qualification = camp[n].qualification /\ c.powerSummary = camp[n].powerSummary
      /\ c.populationSummary = camp[n].populationSummary
      /\ c.powerSelection = camp[n].powerSelection
      /\ c.populationSelection = camp[n].populationSelection /\ c.index = camp[n].index
      /\ c.analysis = camp[n].analysis /\ c.reanalysis = camp[n].reanalysis
      /\ c.runs = camp[n].runs
  BY <1>2, <1>3 DEF CampStates
<1> HIDE DEF c
<1>6. Grows(camp[n], c)
  BY <1>3, <1>5 DEF Grows, KeepsRuns, Passed
<1>7. CampHolds(world, c)
  <2>1. AtMostOne(c.design) /\ AtMostOne(c.index) /\ AtMostOne(c.analysis)
        /\ AtMostOne(c.reanalysis) /\ AtMostOne(c.qualification)
    BY <1>2, <1>3, <1>5 DEF CampHolds
  <2>2. \A d \in c.design : Fits(c, d)
    BY <1>3, <1>5, <1>6, FitsKept
  <2> QED
    BY <1>2, <1>5, <1>6, <2>1, <2>2, CampKept
<1>8. ProcHolds(world, r, c)
  <2>1. Artefacts(c, "freeze") /\ "freeze" \in Phases
    BY <1>3, <1>5, PhaseFacts DEF Artefacts
  <2> QED
    BY <1>3, <1>4, <1>6, <2>1, MarkHolds
<1> QED
  BY <1>1, <1>2, <1>4, <1>5, <1>6, <1>7, <1>8, CampStepHolds

----------------------------------------------------------------------------
(* The confirmation.                                                        *)

LEMMA ConfirmHolds ==
    ASSUME Typed, Inv, NEW p \in Procs, Confirm(p)
    PROVE  Typed' /\ Inv' /\ CampStep
<1> DEFINE refused == \A d \in Dir(p).design : ~Verified(d) \/ ~IndexHolds(Dir(p), d)
<1>1. ReadyFor(p, "confirmation") /\ UNCHANGED <<world, code, camp, endpoint, orphans>>
  BY DEF Confirm
<1>2. CASE refused
  <2>1. Ends(p)
    BY <1>2 DEF Confirm
  <2> QED
    BY <1>1, <2>1, EndsHolds
<1>3. CASE ~refused /\ Dir(p).index # {}
  <2>1. GoesOn(p, "mark") /\ Artefacts(Dir(p), "confirmation")
    BY <1>3 DEF Confirm, Artefacts
  <2> QED
    BY <1>1, <2>1, MarksRetained
<1>4. CASE ~refused /\ Dir(p).index = {}
  <2> DEFINE basis == Dir(p).design
  <2>1. proc' = [proc EXCEPT ![p].at = "work", ![p].imported = Imported(p),
                             ![p].read = basis, ![p].todo = ConfirmationTasks]
    BY <1>4 DEF Confirm
  <2>2. TasksOf("confirmation") = ConfirmationTasks
    BY TaskFacts
  <2>3. Dir(p) \in CampStates /\ CampHolds(world, Dir(p))
    BY <1>1, Prepared, Here
  <2>4. /\ basis # {} /\ AtMostOne(basis) /\ basis \subseteq DesignSet
        /\ \A d \in basis : d \in DesignSet /\ Fits(Dir(p), d)
    BY <1>4, <2>3 DEF CampHolds, CampStates
  <2>5. "confirmation" \in Calibrations \cup {"confirmation"} /\ "confirmation" # "population"
    OBVIOUS
  <2>6. proc' = [proc EXCEPT ![p].at = "work", ![p].imported = Imported(p),
                             ![p].read = basis, ![p].todo = TasksOf("confirmation")]
    BY <2>1, <2>2
  <2> HIDE DEF refused, basis
  <2> QED
    BY <1>1, <2>4, <2>5, <2>6, WorkStarts
<1> QED
  BY <1>2, <1>3, <1>4

LEMMA WriteIndexHolds ==
    ASSUME Typed, Inv, NEW p \in Procs, WriteIndex(p)
    PROVE  Typed' /\ Inv' /\ CampStep
<1> DEFINE n == proc[p].camp
           rows == [t \in ConfirmationTasks |-> Identity(Dir(p).runs[t])]
           index == {[design |-> d, rows |-> rows] : d \in proc[p].read}
           r == [proc[p] EXCEPT !.at = "mark"]
           c == [camp[n] EXCEPT !.index = index]
<1>1. /\ At(p, "work") /\ Head(proc[p].plan) = "confirmation"
      /\ ConfirmationTasks \subseteq DOMAIN Dir(p).runs
      /\ \A g \in Upto["confirmation"] \ {"confirmation"} : Artefacts(Dir(p), g)
      /\ proc[p].todo = {} /\ proc[p].busy = {}
      /\ proc[p].read # {} /\ AtMostOne(proc[p].read)
      /\ \A d \in proc[p].read : d \in DesignSet /\ Fits(Dir(p), d)
  BY ReturnedWhole, TaskFacts DEF WriteIndex, Returned, Settled
<1>2. /\ n \in 1 .. Len(camp) /\ Dir(p) = camp[n] /\ camp[n] \in CampStates
      /\ CampHolds(world, camp[n]) /\ proc[p] \in ProcStates /\ proc[p].at = "work"
      /\ CourseHolds(proc[p]) /\ world \in Worlds
  BY <1>1, WorkPlace, Here
<1>3. UNCHANGED <<world, code, endpoint, orphans>>
  BY DEF WriteIndex
<1>4. CASE ~(\A t \in ConfirmationTasks : Dir(p).runs[t].whole)
  <2>1. Ends(p) /\ camp' = camp
    BY <1>4 DEF WriteIndex
  <2> QED
    BY <1>3, <2>1, EndsHolds
<1>5. CASE \A t \in ConfirmationTasks : Dir(p).runs[t].whole
  <2>1. camp' = [camp EXCEPT ![n] = c] /\ proc' = [proc EXCEPT ![p] = r]
    BY <1>5 DEF WriteIndex
  <2>2. rows \in [ConfirmationTasks -> Identities]
    <3> SUFFICES ASSUME NEW t \in ConfirmationTasks PROVE Identity(Dir(p).runs[t]) \in Identities
      OBVIOUS
    <3>1. camp[n].runs \in Runs
      BY <1>2 DEF CampStates
    <3>2. Dir(p).runs[t] \in Bundles
      BY <1>1, <1>2, <3>1, RunsAre
    <3> QED
      BY <3>2 DEF Bundles, Identity, Identities
  <2>3. \A t \in ConfirmationTasks : rows[t] = Identity(camp[n].runs[t])
    BY <1>2
  <2> HIDE DEF rows
  <2>4. /\ index # {} /\ AtMostOne(index) /\ index \subseteq IndexSet
        /\ \A i \in index : RowsHold(camp[n], i)
    <3>1. index # {} /\ AtMostOne(index)
      BY <1>1 DEF AtMostOne
    <3>2. index \subseteq IndexSet
      BY <1>1, <2>2 DEF IndexSet
    <3>3. \A i \in index : RowsHold(camp[n], i)
      BY <1>1, <1>2, <2>3 DEF RowsHold
    <3> QED
      BY <3>1, <3>2, <3>3
  <2> HIDE DEF index
  <2>5. /\ c \in CampStates /\ c.index = index
        /\ c.rev = camp[n].rev /\ c.done = camp[n].done /\ c.active = camp[n].active
        /\ c.qualification = camp[n].qualification /\ c.powerSummary = camp[n].powerSummary
        /\ c.populationSummary = camp[n].populationSummary
        /\ c.powerSelection = camp[n].powerSelection
        /\ c.populationSelection = camp[n].populationSelection /\ c.design = camp[n].design
        /\ c.analysis = camp[n].analysis /\ c.reanalysis = camp[n].reanalysis
        /\ c.runs = camp[n].runs
    BY <1>2, <2>4 DEF CampStates
  <2> HIDE DEF c
  <2>6. Grows(camp[n], c)
    BY <2>4, <2>5 DEF Grows, KeepsRuns, Passed
  <2>7. CampHolds(world, c)
    <3>1. AtMostOne(c.design) /\ AtMostOne(c.index) /\ AtMostOne(c.analysis)
          /\ AtMostOne(c.reanalysis) /\ AtMostOne(c.qualification)
      BY <1>2, <2>4, <2>5 DEF CampHolds
    <3>2. \A i \in c.index : RowsHold(c, i)
      BY <2>4, <2>5, <2>6, RowsKept
    <3> QED
      BY <1>2, <2>5, <2>6, <3>1, <3>2, CampKept
  <2>8. /\ r \in ProcStates /\ r.at = "mark" /\ r.plan = proc[p].plan /\ r.camp = proc[p].camp
        /\ r.todo = proc[p].todo /\ r.busy = proc[p].busy /\ r.imported = proc[p].imported
    BY <1>2 DEF ProcStates, Steps, Placed
  <2> HIDE DEF r
  <2>9. CourseHolds(r) /\ ~Starting(r)
    BY <1>1, <1>2, <2>8 DEF CourseHolds, Starting
  <2>10. ProcHolds(world, r, c)
    <3>1. Artefacts(c, "confirmation") /\ "confirmation" \in Phases
      BY <2>4, <2>5, PhaseFacts DEF Artefacts
    <3> QED
      BY <1>1, <1>2, <2>6, <2>8, <3>1, MarkHolds
  <2> QED
    BY <1>2, <1>3, <2>1, <2>5, <2>6, <2>7, <2>8, <2>9, <2>10, CampStepHolds
<1> QED
  BY <1>4, <1>5

----------------------------------------------------------------------------
(* The analysis.                                                            *)

LEMMA AnalyseHolds ==
    ASSUME Typed, Inv, NEW p \in Procs, Analyse(p)
    PROVE  Typed' /\ Inv' /\ CampStep
<1> DEFINE result == Dir(p).index
           r == [proc[p] EXCEPT !.at = "report", !.imported = Imported(p), !.result = result]
           analysed == Dir(p).analysis # {}
           refused == \A d \in Dir(p).design :
                         ~Verified(d) \/ Dir(p).index = {} \/ ~IndexHolds(Dir(p), d)
<1>1. ReadyFor(p, "analysis") /\ UNCHANGED <<world, code, camp, endpoint, orphans>>
  BY DEF Analyse
<1>2. /\ proc[p].at \in Placed /\ Phase(p) = "analysis" /\ Head(proc[p].plan) = "analysis"
      /\ \A g \in Upto["analysis"] \ {"analysis"} : Artefacts(Dir(p), g)
      /\ proc[p] \in ProcStates /\ CourseHolds(proc[p]) /\ proc[p].camp \in 1 .. Len(camp)
      /\ Dir(p) = camp[proc[p].camp] /\ Dir(p) \in CampStates /\ CampHolds(world, Dir(p))
      /\ proc[p].at = "enter"
  BY <1>1, Prepared, Here DEF ReadyFor, At
<1>3. CASE Ends(p)
  BY <1>1, <1>3, EndsHolds
<1>4. CASE analysed /\ GoesOn(p, "mark")
  <2>1. Artefacts(Dir(p), "analysis")
    BY <1>4 DEF Artefacts
  <2> QED
    BY <1>1, <1>4, <2>1, MarksRetained
<1>5. CASE ~analysed /\ ~refused
  <2>1. proc' = [proc EXCEPT ![p] = r]
    BY <1>5 DEF Analyse
  <2>2. /\ result # {} /\ AtMostOne(result) /\ result \subseteq IndexSet
        /\ \A i \in result : RowsHold(Dir(p), i)
    BY <1>2, <1>5 DEF CampHolds, CampStates
  <2> HIDE DEF result
  <2>3. result \subseteq Results
    BY <2>2 DEF Results
  <2>4. /\ r \in ProcStates /\ r.at = "report" /\ r.camp = proc[p].camp /\ r.result = result
        /\ r.plan = proc[p].plan /\ r.todo = proc[p].todo /\ r.busy = proc[p].busy
        /\ r.imported = Imported(p)
    BY <1>2, <2>3, ImportedFacts DEF ProcStates, Steps, Placed
  <2> HIDE DEF r
  <2>5. CourseHolds(r) /\ ~Starting(r)
    BY <1>2, <2>4, ImportedFacts DEF CourseHolds, Starting
  <2>6. ReportHolds(r, Dir(p))
    BY <1>2, <2>2, <2>4 DEF ReportHolds
  <2>7. ProcHolds(world, r, Dir(p))
    BY <1>2, <2>4, <2>6 DEF ProcHolds
  <2> QED
    BY <1>1, <1>2, <2>1, <2>4, <2>5, <2>7, OwnStepHolds
<1> QED
  BY <1>3, <1>4, <1>5 DEF Analyse

LEMMA ReportedHolds ==
    ASSUME Typed, Inv, NEW p \in Procs, Report(p)
    PROVE  Typed' /\ Inv' /\ CampStep
<1> DEFINE n == proc[p].camp
           result == proc[p].result
           r == [proc[p] EXCEPT !.at = "mark"]
           c == [camp[n] EXCEPT !.analysis = result]
<1>1. /\ proc[p].at = "report" /\ proc[p].at \in Placed \ {"work"}
      /\ UNCHANGED <<world, code, endpoint, orphans>> /\ proc' = [proc EXCEPT ![p] = r]
      /\ camp' = [camp EXCEPT ![n] = c]
  BY DEF Report, At, Placed
<1>2. /\ n \in 1 .. Len(camp) /\ Dir(p) = camp[n] /\ camp[n] \in CampStates
      /\ CampHolds(world, camp[n]) /\ world \in Worlds
      /\ ProcHolds(world, proc[p], camp[n])
  BY <1>1, Here
<1>3. /\ Head(proc[p].plan) = "analysis" /\ result # {} /\ AtMostOne(result)
      /\ \A i \in result : i \in IndexSet /\ RowsHold(camp[n], i)
      /\ \A g \in Upto["analysis"] \ {"analysis"} : Artefacts(camp[n], g)
  BY <1>1, <1>2 DEF ProcHolds, ReportHolds
<1>4. /\ r \in ProcStates /\ CourseHolds(r) /\ ~Starting(r) /\ r.at = "mark"
      /\ r.plan = proc[p].plan /\ r.camp = proc[p].camp
  BY <1>1, MarkCourse
<1> HIDE DEF r, result
<1>5. /\ c \in CampStates /\ c.analysis = result
      /\ c.rev = camp[n].rev /\ c.done = camp[n].done /\ c.active = camp[n].active
      /\ c.qualification = camp[n].qualification /\ c.powerSummary = camp[n].powerSummary
      /\ c.populationSummary = camp[n].populationSummary
      /\ c.powerSelection = camp[n].powerSelection
      /\ c.populationSelection = camp[n].populationSelection /\ c.index = camp[n].index
      /\ c.design = camp[n].design /\ c.reanalysis = camp[n].reanalysis
      /\ c.runs = camp[n].runs
  BY <1>2, <1>3 DEF CampStates
<1> HIDE DEF c
<1>6. Grows(camp[n], c)
  BY <1>3, <1>5 DEF Grows, KeepsRuns, Passed
<1>7. CampHolds(world, c)
  <2>1. AtMostOne(c.design) /\ AtMostOne(c.index) /\ AtMostOne(c.analysis)
        /\ AtMostOne(c.reanalysis) /\ AtMostOne(c.qualification)
    BY <1>2, <1>3, <1>5 DEF CampHolds
  <2>2. \A i \in c.analysis : RowsHold(c, i)
    BY <1>3, <1>5, <1>6, RowsKept
  <2> QED
    BY <1>2, <1>5, <1>6, <2>1, <2>2, CampKept
<1>8. ProcHolds(world, r, c)
  <2>1. Artefacts(c, "analysis") /\ "analysis" \in Phases
    BY <1>3, <1>5, PhaseFacts DEF Artefacts
  <2> QED
    BY <1>3, <1>4, <1>6, <2>1, MarkHolds
<1> QED
  BY <1>1, <1>2, <1>4, <1>5, <1>6, <1>7, <1>8, CampStepHolds


----------------------------------------------------------------------------
(* Marking a phase.                                                         *)

LEMMA ReadMarksHolds ==
    ASSUME Typed, Inv, NEW p \in Procs, ReadMarks(p)
    PROVE  Typed' /\ Inv' /\ CampStep
<1> DEFINE marks == Dir(p).done
           active == Dir(p).active
           r == [proc[p] EXCEPT !.at = "marked", !.marks = marks, !.active = active]
<1>1. /\ proc[p].at = "mark" /\ proc[p].at \in Placed
      /\ UNCHANGED <<world, code, camp, endpoint, orphans>> /\ proc' = [proc EXCEPT ![p] = r]
  BY DEF ReadMarks, At, Placed
<1>2. /\ proc[p] \in ProcStates /\ CourseHolds(proc[p]) /\ proc[p].camp \in 1 .. Len(camp)
      /\ Dir(p) = camp[proc[p].camp] /\ Dir(p) \in CampStates /\ CampHolds(world, Dir(p))
      /\ ProcHolds(world, proc[p], Dir(p))
  BY <1>1, Here
<1>3. /\ marks \subseteq Phases /\ active \in BOOLEAN
      /\ \A f \in marks : Earned(Dir(p), f)
      /\ ~active => Dir(p).analysis # {}
  BY <1>2 DEF CampStates, CampHolds
<1> HIDE DEF marks, active
<1>4. /\ r \in ProcStates /\ r.at = "marked" /\ r.marks = marks /\ r.active = active
      /\ r.plan = proc[p].plan /\ r.camp = proc[p].camp /\ r.todo = proc[p].todo
      /\ r.busy = proc[p].busy /\ r.imported = proc[p].imported
  BY <1>2, <1>3 DEF ProcStates, Steps, Placed
<1> HIDE DEF r
<1>5. CourseHolds(r) /\ ~Starting(r)
  BY <1>1, <1>2, <1>4 DEF CourseHolds, Starting
<1>6. Earned(Dir(p), Head(r.plan))
  BY <1>1, <1>2, <1>4 DEF ProcHolds
<1>7. ProcHolds(world, r, Dir(p))
  BY <1>3, <1>4, <1>6 DEF ProcHolds
<1> QED
  BY <1>1, <1>2, <1>4, <1>5, <1>7, OwnStepHolds

\* After its phase an invocation ends, or enters the next; it never starts a
\* second campaign.
LEMMA NextPhaseIs ==
    ASSUME Typed, Inv, NEW p \in Procs, proc[p].at \in {"marked", "close"}, NextPhase(p)
    PROVE  \E r \in ProcStates :
              /\ proc' = [proc EXCEPT ![p] = r]
              /\ CourseHolds(r) /\ ~Starting(r) /\ r.at \in {"idle", "enter"}
              /\ r.at = "enter" => r.camp = proc[p].camp
<1>1. proc[p] \in ProcStates /\ CourseHolds(proc[p]) /\ proc[p].at # "idle" /\ proc[p].at # "work"
  BY DEF Typed, Inv, CourseInv
<1>2. CASE Len(proc[p].plan) = 1
  <2>1. proc' = [proc EXCEPT ![p] = Idle]
    BY <1>2 DEF NextPhase, Ends
  <2> QED
    BY <2>1, IdleFacts DEF Starting
<1>3. CASE Len(proc[p].plan) # 1
  <2> DEFINE plan == proc[p].plan
             r == [Idle EXCEPT !.at = "enter", !.plan = Tail(plan),
                               !.camp = proc[p].camp, !.imported = proc[p].imported]
  <2>1. proc' = [proc EXCEPT ![p] = r]
    BY <1>3 DEF NextPhase
  <2>2. /\ plan \in Seq(Phases) /\ Len(plan) \in 2 .. 6
        /\ \A i \in 2 .. Len(plan) : plan[i] # "qualification"
    BY <1>1, <1>3, PhaseFacts DEF ProcStates, CourseHolds
  <2> HIDE DEF plan
  <2>3. /\ Tail(plan) \in Seq(Phases) /\ Len(Tail(plan)) \in 1 .. 6
        /\ \A i \in 1 .. Len(Tail(plan)) : Tail(plan)[i] # "qualification"
    <3>1. Len(Tail(plan)) = Len(plan) - 1 /\ Tail(plan) \in Seq(Phases)
      <4>1. plan # <<>>
        BY <2>2
      <4> QED
        BY <2>2, <4>1, HeadTailProperties
    <3>2. \A i \in 1 .. Len(Tail(plan)) : Tail(plan)[i] = plan[i + 1] /\ i + 1 \in 2 .. Len(plan)
      BY <2>2, <3>1
    <3>3. Len(Tail(plan)) \in 1 .. 6
      BY <2>2, <3>1
    <3> HIDE DEF plan
    <3> QED
      BY <2>2, <3>1, <3>2, <3>3
  <2>4. /\ r \in ProcStates /\ r.at = "enter" /\ r.plan = Tail(plan) /\ r.camp = proc[p].camp
        /\ r.imported = proc[p].imported /\ r.todo = {} /\ r.busy = {}
    BY <1>1, <2>3 DEF ProcStates, Idle, Steps, Placed
  <2> HIDE DEF r
  <2>5. CourseHolds(r)
    <3>1. Cardinality({}) = 0
      BY FS_EmptySet
    <3> QED
      BY <1>1, <2>3, <2>4, <3>1, PhaseFacts, SizeAssumption DEF CourseHolds
  <2>6. ~Starting(r)
    <3> DEFINE rest == Tail(plan)
    <3>1. rest \in Seq(Phases) /\ Len(rest) \in 1 .. 6 /\ r.plan = rest
      BY <2>3, <2>4
    <3>2. \A i \in 1 .. Len(rest) : rest[i] # "qualification"
      BY <2>3
    <3> HIDE DEF rest
    <3>3. Head(rest) # "qualification"
      BY <3>1, <3>2
    <3> QED
      BY <3>1, <3>3 DEF Starting
  <2> QED
    BY <2>1, <2>4, <2>5, <2>6
<1> QED
  BY <1>2, <1>3

LEMMA WriteMarksHolds ==
    ASSUME Typed, Inv, NEW p \in Procs, WriteMarks(p)
    PROVE  Typed' /\ Inv' /\ CampStep
<1> DEFINE n == proc[p].camp
           done == proc[p].marks \cup {Phase(p)}
           active == proc[p].active /\ ~Completes(p)
           c == [camp[n] EXCEPT !.done = done, !.active = active]
<1>1. /\ proc[p].at = "marked" /\ proc[p].at \in Placed
      /\ UNCHANGED <<world, code, endpoint, orphans>>
      /\ camp' = [camp EXCEPT ![n].done = done, ![n].active = active]
  BY DEF WriteMarks, At, Placed
<1>2. /\ proc[p] \in ProcStates /\ CourseHolds(proc[p]) /\ n \in 1 .. Len(camp)
      /\ Dir(p) = camp[n] /\ camp[n] \in CampStates /\ CampHolds(world, camp[n])
      /\ ProcHolds(world, proc[p], camp[n]) /\ Phase(p) \in Phases
      /\ Phase(p) = Head(proc[p].plan) /\ world \in Worlds
  BY <1>1, Here
<1>3. /\ \A f \in proc[p].marks : Earned(camp[n], f)
      /\ ~proc[p].active => camp[n].analysis # {}
      /\ Earned(camp[n], Phase(p))
  BY <1>1, <1>2 DEF ProcHolds
<1>4. camp' = [camp EXCEPT ![n] = c]
  BY <1>1, <1>2 DEF Typed
<1>5. done \subseteq Phases /\ active \in BOOLEAN /\ \A f \in done : Earned(camp[n], f)
  BY <1>2, <1>3 DEF ProcStates
<1>6. ~active => camp[n].analysis # {}
  <2>1. Completes(p) => Artefacts(camp[n], "analysis")
    BY <1>3, <1>2, PhaseFacts DEF Completes, Earned
  <2>2. Artefacts(camp[n], "analysis") => camp[n].analysis # {}
    BY DEF Artefacts
  <2> QED
    BY <1>3, <2>1, <2>2
<1> HIDE DEF done, active
<1>7. /\ c \in CampStates /\ c.done = done /\ c.active = active
      /\ c.rev = camp[n].rev /\ c.design = camp[n].design /\ c.runs = camp[n].runs
      /\ c.qualification = camp[n].qualification /\ c.powerSummary = camp[n].powerSummary
      /\ c.populationSummary = camp[n].populationSummary
      /\ c.powerSelection = camp[n].powerSelection
      /\ c.populationSelection = camp[n].populationSelection /\ c.index = camp[n].index
      /\ c.analysis = camp[n].analysis /\ c.reanalysis = camp[n].reanalysis
  BY <1>2, <1>5 DEF CampStates
<1> HIDE DEF c
<1>8. Grows(camp[n], c)
  BY <1>7 DEF Grows, KeepsRuns, Passed
<1>9. CampHolds(world, c)
  <2>1. \A f \in c.done : Earned(c, f)
    BY <1>5, <1>7, <1>8, EarnedKept
  <2>2. ~c.active => c.analysis # {}
    BY <1>6, <1>7
  <2>3. AtMostOne(c.design) /\ AtMostOne(c.index) /\ AtMostOne(c.analysis)
        /\ AtMostOne(c.reanalysis) /\ AtMostOne(c.qualification)
    BY <1>2, <1>7 DEF CampHolds
  <2> QED
    BY <1>2, <1>7, <1>8, <2>1, <2>2, <2>3, CampKept
<1>10. CASE Completes(p)
  <2> DEFINE r == [proc[p] EXCEPT !.at = "close"]
  <2>1. proc' = [proc EXCEPT ![p] = r]
    BY <1>10 DEF WriteMarks
  <2>2. /\ r \in ProcStates /\ r.at = "close" /\ r.plan = proc[p].plan /\ r.camp = n
        /\ r.todo = proc[p].todo /\ r.busy = proc[p].busy /\ r.imported = proc[p].imported
    BY <1>2 DEF ProcStates, Steps, Placed
  <2> HIDE DEF r
  <2>3. CourseHolds(r) /\ ~Starting(r)
    BY <1>1, <1>2, <2>2 DEF CourseHolds, Starting
  <2>4. ProcHolds(world, r, c)
    BY <2>2 DEF ProcHolds
  <2> QED
    BY <1>1, <1>2, <1>4, <1>7, <1>8, <1>9, <2>1, <2>2, <2>3, <2>4, CampStepHolds
<1>11. CASE ~Completes(p)
  <2>1. NextPhase(p)
    BY <1>11 DEF WriteMarks
  <2>2. PICK r \in ProcStates :
              /\ proc' = [proc EXCEPT ![p] = r]
              /\ CourseHolds(r) /\ ~Starting(r) /\ r.at \in {"idle", "enter"}
              /\ r.at = "enter" => r.camp = n
    BY <1>1, <2>1, NextPhaseIs
  <2>3. r.at \in Placed => r.camp = n /\ ProcHolds(world, r, c)
    BY <2>2, EnterHolds DEF Placed
  <2> QED
    BY <1>1, <1>2, <1>4, <1>7, <1>8, <1>9, <2>2, <2>3, CampStepHolds
<1> QED
  BY <1>10, <1>11

LEMMA CloseEndpointHolds ==
    ASSUME Typed, Inv, NEW p \in Procs, CloseEndpoint(p)
    PROVE  Typed' /\ Inv' /\ CampStep
<1>1. /\ proc[p].at = "close" /\ proc[p].at \in Placed /\ NextPhase(p)
      /\ UNCHANGED <<world, code, camp, orphans>>
      /\ endpoint' = {[e EXCEPT !.active = @ /\ e.camp # proc[p].camp] : e \in endpoint}
  BY DEF CloseEndpoint, At, Placed
<1>2. proc[p].camp \in 1 .. Len(camp)
  BY <1>1, Here
<1>3. PICK r \in ProcStates :
            /\ proc' = [proc EXCEPT ![p] = r]
            /\ CourseHolds(r) /\ ~Starting(r) /\ r.at \in {"idle", "enter"}
            /\ r.at = "enter" => r.camp = proc[p].camp
  BY <1>1, NextPhaseIs
<1>4. CampStep /\ QualificationStep(p)
  BY <1>1, CampSame
<1>5. EndpointStep
  <2> SUFFICES ASSUME NEW e \in endpoint
               PROVE  LET x == [e EXCEPT !.active = @ /\ e.camp # proc[p].camp]
                      IN  x \in Endpoints /\ x.camp \in 1 .. Len(camp')
    BY <1>1 DEF EndpointStep
  <2>1. e \in Endpoints /\ e.camp \in 1 .. Len(camp)
    BY DEF Typed, Inv, PlaceInv
  <2> QED
    BY <1>1, <2>1 DEF Endpoints
<1>6. OrphanStep
  BY <1>1, <1>4, OrphansLess
<1>7. CountInv'
  BY <1>1, <1>3, CountSame
<1>8. StartStep(p, r)
  BY <1>3 DEF StartStep
<1>9. r.at \in Placed => r.camp \in 1 .. Len(camp') /\ ProcHolds(world, r, camp'[r.camp])
  BY <1>1, <1>2, <1>3, EnterHolds DEF Placed
<1>10. code' \in Codes
  BY <1>1 DEF Typed
<1> QED
  BY <1>1, <1>3, <1>4, <1>5, <1>6, <1>7, <1>8, <1>9, <1>10, StepHolds

----------------------------------------------------------------------------
(* Kills, orphans, and what happens outside any invocation.                 *)

LEMMA KillHolds ==
    ASSUME Typed, Inv, NEW p \in Procs, Kill(p)
    PROVE  Typed' /\ Inv' /\ CampStep
<1>1. /\ proc' = [proc EXCEPT ![p] = Idle] /\ UNCHANGED <<world, code, camp, endpoint>>
      /\ proc[p].at # "idle"
      /\ \A o \in orphans' : \/ o \in orphans
                             \/ \E t \in proc[p].busy, tree \in proc[p].imported :
                                   o = [camp |-> proc[p].camp, unit |-> t, spec |-> Spec(p, t),
                                        ran |-> tree]
  BY DEF Kill, Ends, At
<1>2. proc[p] \in ProcStates /\ CourseHolds(proc[p])
  BY DEF Typed, Inv, CourseInv
<1>3. CampStep /\ QualificationStep(p)
  BY <1>1, CampSame
<1>4. OrphanStep
  <2> SUFFICES ASSUME NEW o \in orphans'
               PROVE  /\ o \in Orphans /\ o.camp \in 1 .. Len(camp')
                      /\ Due(camp'[o.camp], o.unit, o.spec)
    BY DEF OrphanStep
  <2>1. CASE o \in orphans
    BY <1>1, <2>1 DEF Typed, Inv, PlaceInv, OrphanInv
  <2>2. ASSUME NEW t \in proc[p].busy, NEW tree \in proc[p].imported,
               o = [camp |-> proc[p].camp, unit |-> t, spec |-> Spec(p, t), ran |-> tree]
        PROVE  /\ o \in Orphans /\ o.camp \in 1 .. Len(camp')
               /\ Due(camp'[o.camp], o.unit, o.spec)
    <3>1. At(p, "work")
      BY <1>2, <2>2 DEF CourseHolds, At
    <3>2. t \in Tasks /\ Spec(p, t) \in TaskSpecs /\ Due(Dir(p), t, Spec(p, t))
      BY <3>1, SpecIsDue
    <3>3. proc[p].camp \in 1 .. Len(camp) /\ Dir(p) = camp[proc[p].camp]
      BY <3>1, WorkPlace
    <3>4. tree \in Trees
      BY <1>2 DEF ProcStates
    <3>5. proc[p].camp \in Nat
      BY <3>3, TypedParts
    <3>6. o.camp = proc[p].camp /\ o.unit = t /\ o.spec = Spec(p, t) /\ o \in Orphans
      BY <2>2, <3>2, <3>4, <3>5 DEF Orphans
    <3> QED
      BY <1>1, <3>2, <3>3, <3>6
  <2> QED
    BY <1>1, <2>1, <2>2
<1>5. EndpointStep
  BY <1>1, <1>3, EndpointSame
<1>6. CountInv'
  BY <1>1, IdleFacts, CountSame
<1>7. Idle.at \notin Placed /\ ~Starting(Idle) /\ StartStep(p, Idle)
  BY IdleFacts DEF Placed, Starting, StartStep
<1>8. code' \in Codes /\ world' = world
  BY <1>1 DEF Typed
<1> QED
  BY <1>1, <1>3, <1>4, <1>5, <1>6, <1>7, <1>8, IdleFacts, StepHolds

\* Nothing in an invocation changes.
LEMMA StillHolds ==
    ASSUME Typed, Inv, world' = world, code' \in Codes, proc' = proc,
           CampStep, Len(camp') = Len(camp),
           \A n \in 1 .. Len(camp) : camp'[n].qualification = camp[n].qualification,
           EndpointStep, OrphanStep
    PROVE  Typed' /\ Inv' /\ CampStep
<1>1. CountInv'
  <2>1. Creating' = Creating
    BY DEF Creating, At
  <2> QED
    BY <2>1 DEF CountInv, Inv
<1>2. CASE Procs = {}
  <2>1. Typed'
    BY DEF Typed, CampStep, EndpointStep, OrphanStep
  <2>2. CampInv' /\ OrphanInv'
    BY DEF CampStep, CampInv, OrphanStep, OrphanInv
  <2>3. PlaceInv'
    BY <1>2 DEF PlaceInv, EndpointStep, OrphanStep
  <2>4. CourseInv' /\ ProcInv' /\ StartInv'
    BY <1>2 DEF CourseInv, ProcInv, StartInv
  <2> QED
    BY <1>1, <2>1, <2>2, <2>3, <2>4 DEF Inv
<1>3. CASE Procs # {}
  <2>1. PICK p \in Procs : TRUE
    BY <1>3
  <2> DEFINE r == proc[p]
  <2>2. r \in ProcStates /\ proc' = [proc EXCEPT ![p] = r] /\ CourseHolds(r) /\ world \in Worlds
    BY <2>1 DEF Typed, Inv, CourseInv
  <2>3. r.at \in Placed => r.camp \in 1 .. Len(camp') /\ ProcHolds(world, r, camp'[r.camp])
    <3> SUFFICES ASSUME r.at \in Placed
                 PROVE  r.camp \in 1 .. Len(camp') /\ ProcHolds(world, r, camp'[r.camp])
      OBVIOUS
    <3>1. r.camp \in 1 .. Len(camp) /\ ProcHolds(world, r, camp[r.camp])
          /\ camp[r.camp] \in CampStates
      BY <2>1, Here
    <3>2. camp'[r.camp] \in CampStates /\ Grows(camp[r.camp], camp'[r.camp])
      BY <3>1, TypedParts DEF CampStep
    <3> QED
      BY <2>2, <3>1, <3>2, ProcKept
  <2>4. QualificationStep(p)
    BY DEF QualificationStep
  <2>5. StartStep(p, r)
    <3>1. Starting(r) => r.camp \in 1 .. Len(camp) /\ camp[r.camp].qualification = {}
      BY <2>1 DEF Inv, StartInv, PlaceInv, Starting, Placed
    <3> QED
      BY <3>1 DEF StartStep
  <2> HIDE DEF r
  <2> QED
    BY <1>1, <2>1, <2>2, <2>3, <2>4, <2>5, StepHolds
<1> QED
  BY <1>2, <1>3

\* A campaign changes by itself, and no invocation.
LEMMA CampAloneHolds ==
    ASSUME Typed, Inv, UNCHANGED <<world, code, endpoint, proc>>, orphans' \subseteq orphans,
           NEW n \in 1 .. Len(camp), NEW c \in CampStates, camp' = [camp EXCEPT ![n] = c],
           Grows(camp[n], c), CampHolds(world, c), c.qualification = camp[n].qualification
    PROVE  Typed' /\ Inv' /\ CampStep
<1>1. /\ CampStep /\ Len(camp') = Len(camp) /\ camp'[n] = c
      /\ \A m \in 1 .. Len(camp) : m # n => camp'[m] = camp[m]
  BY CampChanged
<1>2. EndpointStep /\ OrphanStep
  BY <1>1, EndpointSame, OrphansLess
<1>3. \A m \in 1 .. Len(camp) : camp'[m].qualification = camp[m].qualification
  BY <1>1
<1>4. code' \in Codes
  BY DEF Typed
<1> QED
  BY <1>1, <1>2, <1>3, <1>4, StillHolds

LEMMA CampUntouchedHolds ==
    ASSUME Typed, Inv, UNCHANGED <<world, endpoint, proc, camp>>, orphans' \subseteq orphans,
           code' \in Codes
    PROVE  Typed' /\ Inv' /\ CampStep
<1>1. CampStep
  BY CampSame
<1>2. EndpointStep /\ OrphanStep
  BY <1>1, EndpointSame, OrphansLess
<1> QED
  BY <1>1, <1>2, StillHolds

LEMMA OrphanEndsHolds ==
    ASSUME Typed, Inv, NEW o \in orphans, OrphanEnds(o)
    PROVE  Typed' /\ Inv' /\ CampStep
<1>1. UNCHANGED <<world, code, endpoint, proc>> /\ orphans' \subseteq orphans
  BY DEF OrphanEnds
<1>2. CASE UNCHANGED camp
  <2>1. code' \in Codes
    BY <1>1 DEF Typed
  <2> QED
    BY <1>1, <1>2, <2>1, CampUntouchedHolds
<1>3. CASE Deliver(o.camp, o.unit, Bundle(o.spec, o.ran))
  <2> DEFINE b == Bundle(o.spec, o.ran)
             c == Delivered(camp[o.camp], o.unit, b)
  <2>1. o \in Orphans /\ o.camp \in 1 .. Len(camp)
    BY DEF Typed, Inv, PlaceInv
  <2>2. /\ camp[o.camp] \in CampStates /\ CampHolds(world, camp[o.camp])
        /\ Due(camp[o.camp], o.unit, o.spec) /\ world \in Worlds
    BY <2>1, TypedParts DEF Typed, Inv, CampInv, OrphanInv
  <2>3. code.tree \in Trees
    BY DEF Typed, Trees
  <2>4. o.unit \in Tasks /\ b \in Bundles /\ Due(camp[o.camp], o.unit, b.spec)
    BY <2>1, <2>2, <2>3 DEF Bundle, Bundles, Orphans
  <2>5. camp' = [camp EXCEPT ![o.camp] = c]
    BY <1>3, <2>1, DeliverIs
  <2> HIDE DEF b
  <2>6. /\ c \in CampStates /\ Grows(camp[o.camp], c) /\ CampHolds(world, c)
        /\ c.qualification = camp[o.camp].qualification
    BY <2>2, <2>4, DeliveredHolds
  <2> HIDE DEF c
  <2> QED
    BY <1>1, <2>1, <2>5, <2>6, CampAloneHolds
<1> QED
  BY <1>2, <1>3 DEF OrphanEnds

LEMMA ReanalyseHolds ==
    ASSUME Typed, Inv, NEW n \in 1 .. Len(camp), Reanalyse(n)
    PROVE  Typed' /\ Inv' /\ CampStep
<1> DEFINE again == Reanalysable(camp[n])
           c == [camp[n] EXCEPT !.reanalysis = again]
<1>1. UNCHANGED <<world, code, endpoint, proc, orphans>> /\ camp' = [camp EXCEPT ![n] = c]
  BY DEF Reanalyse
<1>2. camp[n] \in CampStates /\ CampHolds(world, camp[n]) /\ world \in Worlds
  BY TypedParts DEF Typed, Inv, CampInv
<1>3. /\ again \subseteq camp[n].index
      /\ \A i \in again, t \in ConfirmationTasks : i.rows[t].says = i.design.tree
  BY DEF Reanalysable
<1>4. again \subseteq IndexSet /\ AtMostOne(again) /\ \A i \in again : RowsHold(camp[n], i)
  BY <1>2, <1>3 DEF CampStates, CampHolds, AtMostOne
<1> HIDE DEF again
<1>5. /\ c \in CampStates /\ c.reanalysis = again
      /\ c.rev = camp[n].rev /\ c.done = camp[n].done /\ c.active = camp[n].active
      /\ c.qualification = camp[n].qualification /\ c.powerSummary = camp[n].powerSummary
      /\ c.populationSummary = camp[n].populationSummary
      /\ c.powerSelection = camp[n].powerSelection
      /\ c.populationSelection = camp[n].populationSelection /\ c.index = camp[n].index
      /\ c.design = camp[n].design /\ c.analysis = camp[n].analysis
      /\ c.runs = camp[n].runs
  BY <1>2, <1>4 DEF CampStates
<1> HIDE DEF c
<1>6. Grows(camp[n], c)
  BY <1>5 DEF Grows, KeepsRuns, Passed
<1>7. CampHolds(world, c)
  <2>1. AtMostOne(c.design) /\ AtMostOne(c.index) /\ AtMostOne(c.analysis)
        /\ AtMostOne(c.reanalysis) /\ AtMostOne(c.qualification)
    BY <1>2, <1>4, <1>5 DEF CampHolds
  <2>2. \A i \in c.reanalysis : RowsHold(c, i)
    BY <1>4, <1>5, <1>6, RowsKept
  <2>3. \A i \in c.reanalysis, t \in ConfirmationTasks : i.rows[t].says = i.design.tree
    BY <1>3, <1>5
  <2> QED
    BY <1>2, <1>5, <1>6, <2>1, <2>2, <2>3, CampKept
<1> QED
  BY <1>1, <1>5, <1>6, <1>7, CampAloneHolds

LEMMA DamageHolds ==
    ASSUME Typed, Inv, NEW n \in 1 .. Len(camp), NEW t \in DOMAIN camp[n].runs, Damage(n, t)
    PROVE  Typed' /\ Inv' /\ CampStep
<1> DEFINE runs == [camp[n].runs EXCEPT ![t].whole = FALSE]
           c == [camp[n] EXCEPT !.runs = runs]
<1>1. UNCHANGED <<world, code, endpoint, proc, orphans>> /\ camp' = [camp EXCEPT ![n] = c]
  BY DEF Damage
<1>2. camp[n] \in CampStates /\ CampHolds(world, camp[n]) /\ world \in Worlds
  BY TypedParts DEF Typed, Inv, CampInv
<1>3. /\ runs \in Runs /\ DOMAIN runs = DOMAIN camp[n].runs
      /\ \A u \in DOMAIN runs : Identity(runs[u]) = Identity(camp[n].runs[u])
  <2> DEFINE f == camp[n].runs
  <2>1. f \in Runs
    BY <1>2 DEF CampStates
  <2>2. f = [u \in DOMAIN f |-> f[u]] /\ DOMAIN f \subseteq Tasks /\ \A u \in DOMAIN f : f[u] \in Bundles
    BY <2>1, RunsAre
  <2> HIDE DEF f
  <2> DEFINE g == [f EXCEPT ![t].whole = FALSE]
  <2>3. t \in DOMAIN f
    BY DEF f
  <2>4. /\ DOMAIN g = DOMAIN f /\ g[t] = [f[t] EXCEPT !.whole = FALSE]
        /\ \A u \in DOMAIN f : u # t => g[u] = f[u]
        /\ g = [u \in DOMAIN g |-> g[u]]
    BY <2>2, <2>3
  <2>5. g[t] \in Bundles /\ Identity(g[t]) = Identity(f[t])
    BY <2>2, <2>3, <2>4 DEF Bundles, Identity
  <2> HIDE DEF g
  <2>6. \A u \in DOMAIN g : g[u] \in Bundles /\ Identity(g[u]) = Identity(f[u])
    BY <2>2, <2>4, <2>5
  <2>7. g \in Runs
    BY <2>2, <2>4, <2>6, RunsAre
  <2> QED
    BY <2>4, <2>6, <2>7 DEF f, g
<1> HIDE DEF runs
<1>4. /\ c \in CampStates /\ c.runs = runs
      /\ c.rev = camp[n].rev /\ c.done = camp[n].done /\ c.active = camp[n].active
      /\ c.qualification = camp[n].qualification /\ c.powerSummary = camp[n].powerSummary
      /\ c.populationSummary = camp[n].populationSummary
      /\ c.powerSelection = camp[n].powerSelection
      /\ c.populationSelection = camp[n].populationSelection /\ c.index = camp[n].index
      /\ c.design = camp[n].design /\ c.analysis = camp[n].analysis
      /\ c.reanalysis = camp[n].reanalysis
  BY <1>2, <1>3 DEF CampStates
<1> HIDE DEF c
<1>5. Grows(camp[n], c)
  BY <1>3, <1>4 DEF Grows, KeepsRuns, Passed
<1>6. CampHolds(world, c)
  <2>1. AtMostOne(c.design) /\ AtMostOne(c.index) /\ AtMostOne(c.analysis)
        /\ AtMostOne(c.reanalysis) /\ AtMostOne(c.qualification)
    BY <1>2, <1>4 DEF CampHolds
  <2>2. DOMAIN c.runs \ DOMAIN camp[n].runs = {}
    BY <1>3, <1>4
  <2> QED
    BY <1>2, <1>4, <1>5, <2>1, <2>2, CampKept
<1> QED
  BY <1>1, <1>4, <1>5, <1>6, CampAloneHolds

----------------------------------------------------------------------------
(* All steps.                                                               *)

LEMMA StartsWell ==
    ASSUME Init
    PROVE  Typed /\ Inv
<1>1. /\ camp = <<>> /\ Len(camp) = 0 /\ endpoint = {} /\ orphans = {}
      /\ proc = [p \in Procs |-> Idle] /\ world \in Worlds /\ code \in Codes
  BY CheckoutAssumption DEF Init
<1>2. Typed
  BY <1>1, IdleFacts DEF Typed
<1>3. \A p \in Procs : proc[p].at \notin Placed /\ CourseHolds(proc[p]) /\ ~Starting(proc[p])
  BY <1>1, IdleFacts DEF Placed, Starting
<1>4. Creating = {}
  BY <1>1, IdleFacts DEF Creating, At
<1>5. CountInv
  <2>1. Cardinality(Creating) = 0
    BY <1>4, FS_EmptySet
  <2> QED
    BY <1>1, <2>1, SizeAssumption DEF CountInv
<1>6. CampInv /\ CourseInv /\ PlaceInv /\ ProcInv /\ OrphanInv /\ StartInv
  BY <1>1, <1>3 DEF CampInv, CourseInv, PlaceInv, ProcInv, OrphanInv, StartInv
<1> QED
  BY <1>2, <1>5, <1>6 DEF Inv

LEMMA UnitHolds ==
    ASSUME Typed, Inv, NEW p \in Procs, NEW t \in proc[p].todo \cup proc[p].busy, Unit(p, t)
    PROVE  Typed' /\ Inv' /\ CampStep
BY StartUnitHolds, ResumeUnitHolds, FinishUnitHolds, FailUnitHolds DEF Unit

LEMMA ProcessStepHolds ==
    ASSUME Typed, Inv, NEW p \in Procs, Step(p)
    PROVE  Typed' /\ Inv' /\ CampStep
<1>1. CASE Create(p) \/ Publish(p) \/ Attach(p) \/ RefusePhase(p)
  BY <1>1, CreateHolds, PublishHolds, AttachHolds, RefusePhaseHolds
<1>2. CASE Qualify(p) \/ CalibratePower(p) \/ CalibratePopulation(p)
  BY <1>2, QualifyHolds, CalibratePowerHolds, CalibratePopulationHolds
<1>3. CASE \E t \in proc[p].todo \cup proc[p].busy : Unit(p, t)
  BY <1>3, UnitHolds
<1>4. CASE \/ RaiseFailure(p) \/ SummarisePower(p) \/ SummarisePopulation(p)
           \/ WriteSelection(p)
  BY <1>4, RaiseFailureHolds, SummarisePowerHolds, SummarisePopulationHolds,
     WriteSelectionHolds
<1>5. CASE Freeze(p) \/ WriteDesign(p) \/ Confirm(p) \/ WriteIndex(p)
  BY <1>5, FreezeHolds, WriteDesignHolds, ConfirmHolds, WriteIndexHolds
<1>6. CASE Analyse(p) \/ Report(p)
  BY <1>6, AnalyseHolds, ReportedHolds
<1>7. CASE ReadMarks(p) \/ WriteMarks(p) \/ CloseEndpoint(p)
  BY <1>7, ReadMarksHolds, WriteMarksHolds, CloseEndpointHolds
<1> QED
  BY <1>1, <1>2, <1>3, <1>4, <1>5, <1>6, <1>7 DEF Step

LEMMA NextHolds ==
    ASSUME Typed, Inv, [Next]_vars
    PROVE  Typed' /\ Inv' /\ CampStep
<1>1. ASSUME NEW p \in Procs, Step(p) \/ Kill(p) \/ \E plan \in Plans : Invoke(p, plan)
      PROVE  Typed' /\ Inv' /\ CampStep
  BY <1>1, ProcessStepHolds, KillHolds, InvokeHolds
<1>2. ASSUME NEW o \in orphans, OrphanEnds(o)
      PROVE  Typed' /\ Inv' /\ CampStep
  BY <1>2, OrphanEndsHolds
<1>3. ASSUME NEW n \in 1 .. Len(camp),
             Reanalyse(n) \/ \E t \in Fragile \cap DOMAIN camp[n].runs : Damage(n, t)
      PROVE  Typed' /\ Inv' /\ CampStep
  BY <1>3, ReanalyseHolds, DamageHolds
<1>4. CASE Edit
  BY <1>4, CampUntouchedHolds DEF Edit
<1>5. CASE UNCHANGED vars
  <2>1. code' \in Codes /\ UNCHANGED <<world, endpoint, proc, camp, orphans>>
    BY <1>5 DEF vars, Typed
  <2> QED
    BY <2>1, CampUntouchedHolds
<1> QED
  BY <1>1, <1>2, <1>3, <1>4, <1>5 DEF Next, Rest

----------------------------------------------------------------------------
(* The theorems.                                                            *)

(* In every state the invariant holds: whatever invocations, kills and edits *)
(* of the checkout interleave, what is in a campaign directory follows from  *)
(* what was there before, and what an invocation is about to write still     *)
(* agrees with the directory (experiments.py, campaign.py).                  *)
THEOREM CampaignInvariant == Ex1Spec => [](Typed /\ Inv)
<1>1. Init => Typed /\ Inv
  BY StartsWell
<1>2. (Typed /\ Inv) /\ [Next]_vars => (Typed /\ Inv)'
  BY NextHolds
<1> QED
  BY <1>1, <1>2, PTL DEF Ex1Spec

LEMMA RowsAreTraceable ==
    ASSUME Typed, NEW c \in CampStates, CampHolds(world, c), NEW a \in IndexSet, RowsHold(c, a)
    PROVE  Traceable(c, a)
<1>1. /\ Fits(c, a.design) /\ DOMAIN a.rows = ConfirmationTasks
      /\ \A t \in ConfirmationTasks : t \in DOMAIN c.runs /\ Identity(c.runs[t]) = a.rows[t]
  BY DEF RowsHold, IndexSet
<1>2. c.powerSelection = {a.design.points} /\ c.populationSelection = {a.design.count}
      /\ a.design.rev = c.rev
  BY <1>1 DEF Fits
<1>3. PowersOf(c) = {a.design.points} /\ CountsOf(c) = {a.design.count}
      /\ PopulationTasks \subseteq DOMAIN c.runs
  BY <1>2, YieldIsMeasured DEF CampHolds
<1>4. ASSUME NEW t \in ConfirmationTasks
      PROVE  Exists(c, t) /\ a.rows[t].spec = SpecUnder(a.design, t)
  <2>1. t \in DOMAIN c.runs /\ a.rows[t].spec = c.runs[t].spec
    <3>1. Identity(c.runs[t]) = a.rows[t] /\ t \in DOMAIN c.runs
      BY <1>1
    <3>2. Identity(c.runs[t]).spec = c.runs[t].spec
      BY DEF Identity
    <3> QED
      BY <3>1, <3>2
  <2>2. Due(c, t, c.runs[t].spec)
    BY <2>1 DEF CampHolds
  <2> QED
    BY <1>2, <2>1, <2>2 DEF Due, Exists, SpecUnder
<1>5. ASSUME NEW t \in PopulationTasks
      PROVE  c.runs[t].spec.power = a.design.points.knee
  <2>1. Due(c, t, c.runs[t].spec)
    BY <1>3 DEF CampHolds
  <2> QED
    BY <1>2, <2>1 DEF Due
<1> QED
  BY <1>1, <1>2, <1>3, <1>4, <1>5 DEF Traceable

(* Every analysis can be traced, through its index and the frozen design, to *)
(* bundles and calibrations that are still in the campaign, for any number   *)
(* of invocations, workers, candidates and edits of the checkout             *)
(* (analyze.py, run; confirmation.py, _validate_existing_index).             *)
THEOREM EvidenceIsTraceable == Ex1Spec => []EvidenceChain
<1>1. Typed /\ Inv => EvidenceChain
  <2> SUFFICES ASSUME Typed, Inv, NEW n \in 1 .. Len(camp)
               PROVE  /\ \A a \in camp[n].analysis \cup camp[n].reanalysis : Traceable(camp[n], a)
                      /\ \A a \in camp[n].reanalysis, t \in ConfirmationTasks :
                             a.rows[t].says = a.design.tree
    BY DEF EvidenceChain
  <2>1. camp[n] \in CampStates /\ CampHolds(world, camp[n])
    BY TypedParts DEF Inv, CampInv
  <2>2. \A a \in camp[n].analysis \cup camp[n].reanalysis : a \in IndexSet /\ RowsHold(camp[n], a)
    BY <2>1 DEF CampStates, CampHolds
  <2> QED
    BY <2>1, <2>2, RowsAreTraceable DEF CampHolds
<1> QED
  BY <1>1, CampaignInvariant, PTL

LEMMA AtMostOneIs ==
    ASSUME NEW S, AtMostOne(S)
    PROVE  Cardinality(S) <= 1
<1>1. CASE S = {}
  BY <1>1, FS_EmptySet
<1>2. CASE S # {}
  <2>1. PICK x \in S : TRUE
    BY <1>2
  <2>2. S = {x}
    BY <2>1 DEF AtMostOne
  <2>3. Cardinality({x}) = 1
    BY FS_Singleton
  <2> QED
    BY <2>2, <2>3
<1> QED
  BY <1>1, <1>2

LEMMA CampsAreOK ==
    ASSUME Typed, NEW c \in CampStates, CampHolds(world, c)
    PROVE  CampOK(c)
<1>1. c.powerSelection \subseteq Triples /\ AtMostOne(c.powerSelection)
      /\ c.populationSelection \subseteq 1 .. NumCounts /\ AtMostOne(c.populationSelection)
  BY SelectionsFound DEF Typed
<1>2. AtMostOne(c.qualification) /\ AtMostOne(c.design) /\ AtMostOne(c.index)
      /\ AtMostOne(c.analysis) /\ AtMostOne(c.reanalysis)
  BY DEF CampHolds
<1>3. \A f \in {"qualification", "powerSelection", "populationSelection", "design",
                "index", "analysis", "reanalysis"} : Cardinality(c[f]) <= 1
  BY <1>1, <1>2, AtMostOneIs
<1>4. DOMAIN c.runs \subseteq Tasks /\ \A t \in DOMAIN c.runs : BundleOK(c.runs[t])
  <2>1. c.runs \in Runs
    BY DEF CampStates
  <2> QED
    BY <2>1, RunsAre DEF Bundles, BundleOK
<1>5. /\ c.rev \in {d.rev : d \in Codes} /\ c.done \subseteq Phases /\ c.active \in BOOLEAN
      /\ c.design \subseteq DesignSet
  BY DEF CampStates
<1> QED
  BY <1>1, <1>3, <1>4, <1>5 DEF CampOK

LEMMA TypesAreOK == Typed /\ Inv => TypeOK
<1> SUFFICES ASSUME Typed, Inv PROVE TypeOK
  OBVIOUS
<1>1. code \in Codes /\ Len(camp) <= MaxCampaigns
  BY CreatingFinite, TypedParts, SizeAssumption DEF Typed, Inv, CountInv
<1>2. \A n \in 1 .. Len(camp) : CampOK(camp[n])
  BY TypedParts, CampsAreOK DEF Inv, CampInv
<1>3. ASSUME NEW p \in Procs PROVE ProcOK(p)
  <2>1. proc[p] \in ProcStates /\ CourseHolds(proc[p])
    BY DEF Typed, Inv, CourseInv
  <2>2. Cardinality(proc[p].imported) <= 1
    BY <2>1, AtMostOneIs DEF CourseHolds
  <2>3. proc[p].busy \cap proc[p].todo = {}
    <3>1. CASE At(p, "work")
      BY <3>1, WorkPlace DEF WorkHolds
    <3>2. CASE ~At(p, "work")
      BY <2>1, <3>2 DEF CourseHolds, At
    <3> QED
      BY <3>1, <3>2
  <2>4. proc[p].busy \cup proc[p].todo \subseteq Tasks
    BY <2>1 DEF ProcStates
  <2> QED
    BY <2>1, <2>2, <2>3, <2>4, BusyFinite DEF CourseHolds, ProcOK, At
<1>4. \A o \in orphans : o.unit \in Tasks /\ o.camp \in 1 .. Len(camp)
  BY DEF Typed, Orphans, Inv, PlaceInv
<1> QED
  BY <1>1, <1>2, <1>3, <1>4 DEF TypeOK

(* A marked phase left its artefacts, and so did all the phases before it; a *)
(* campaign is closed only with an analysis; and the state has its type.  A  *)
(* lost update of campaign.json may forget marks, it never invents one       *)
(* (experiments.py, _mark_phase).                                            *)
THEOREM MarksEarned == Ex1Spec => []MarksAreEarned
<1>1. Typed /\ Inv => MarksAreEarned
  <2> SUFFICES ASSUME Typed, Inv PROVE MarksAreEarned
    OBVIOUS
  <2>1. ASSUME NEW n \in 1 .. Len(camp)
        PROVE  /\ \A f \in camp[n].done : \A i, j \in 1 .. Len(AllPhases) :
                      AllPhases[j] = f /\ i <= j => Artefacts(camp[n], AllPhases[i])
               /\ ~camp[n].active => camp[n].analysis # {}
    <3>1. camp[n] \in CampStates /\ CampHolds(world, camp[n])
      BY TypedParts DEF Inv, CampInv
    <3>2. \A f \in camp[n].done : f \in Phases /\ Earned(camp[n], f)
      BY <3>1 DEF CampStates, CampHolds
    <3> QED
      BY <3>1, <3>2, EarnedMeans DEF CampHolds
  <2> QED
    BY <2>1, TypesAreOK DEF MarksAreEarned
<1> QED
  BY <1>1, CampaignInvariant, PTL

\* Two analyses of a campaign are about the same: only the tree that their
\* designs name can differ.
LEMMA SameReport ==
    ASSUME NEW c, NEW a \in IndexSet, NEW b \in IndexSet, RowsHold(c, a), RowsHold(c, b)
    PROVE  Reported(a) = Reported(b)
<1>1. a.design.rev = b.design.rev /\ a.design.points = b.design.points
      /\ a.design.count = b.design.count
  BY DEF RowsHold, Fits
<1>2. \A t \in ConfirmationTasks : a.rows[t] = b.rows[t]
  BY DEF RowsHold
<1>3. a.rows = b.rows
  BY <1>2 DEF IndexSet
<1> QED
  BY <1>1, <1>3 DEF Reported

(* Bundles and selections are never replaced, and an analysis only by one of *)
(* the same runs, powers and number of sensors (campaign.py, _run_task;      *)
(* analyze.py, run).                                                         *)
THEOREM EvidenceIsKept == Ex1Spec => EvidenceStands
<1>1. ASSUME Typed, Inv, [Next]_vars
      PROVE  \A n \in 1 .. Len(camp) : Stands(camp[n], camp'[n])
  <2> SUFFICES ASSUME NEW n \in 1 .. Len(camp) PROVE Stands(camp[n], camp'[n])
    OBVIOUS
  <2> DEFINE old == camp[n]
             new == camp'[n]
  <2>1. Typed' /\ Inv' /\ CampStep
    BY <1>1, NextHolds
  <2>2. /\ Grows(old, new) /\ old \in CampStates /\ new \in CampStates
        /\ CampHolds(world, old) /\ CampHolds(world, new)
    <3>1. n \in 1 .. Len(camp')
      BY <1>1, <2>1, TypedParts DEF CampStep
    <3> QED
      BY <1>1, <2>1, <3>1, TypedParts DEF CampStep, Inv, CampInv
  <2> HIDE DEF old, new
  <2>3. \A t \in DOMAIN old.runs :
           Exists(new, t) /\ Identity(new.runs[t]) = Identity(old.runs[t])
    BY <2>2 DEF Grows, KeepsRuns, Exists
  <2>4. /\ old.powerSelection \subseteq new.powerSelection
        /\ old.populationSelection \subseteq new.populationSelection
    BY <2>2 DEF Grows
  <2>5. ASSUME NEW a \in old.analysis
        PROVE  \E b \in new.analysis : Reported(a) = Reported(b)
    <3>1. new.analysis # {}
      BY <2>2 DEF Grows
    <3>2. PICK b \in new.analysis : TRUE
      BY <3>1
    <3>3. a \in IndexSet /\ b \in IndexSet
      BY <2>2 DEF CampStates
    <3>4. RowsHold(new, a)
      <4>1. RowsHold(old, a)
        BY <2>2 DEF CampHolds
      <4> QED
        BY <2>2, <4>1, RowsKept
    <3>5. RowsHold(new, b)
      BY <2>2 DEF CampHolds
    <3> QED
      BY <3>3, <3>4, <3>5, SameReport
  <2> QED
    BY <2>3, <2>4, <2>5 DEF Stands, old, new
<1>2. (Typed /\ Inv) /\ [Next]_vars => [\A n \in 1 .. Len(camp) : Stands(camp[n], camp'[n])]_vars
  BY <1>1
<1> QED
  BY <1>2, CampaignInvariant, PTL DEF Ex1Spec, EvidenceStands
=============================================================================
