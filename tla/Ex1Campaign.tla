---------------------------- MODULE Ex1Campaign ----------------------------
(***************************************************************************)
(* Campaigns of Experiment 1 and the invocations of experiment.sh that run *)
(* them.  synthran/experiments.py executes one phase, or all of them; no   *)
(* lock keeps a second invocation from working on the same campaign.  The  *)
(* runs of a phase are simulations in worker processes, each built in a    *)
(* staging directory and moved into place.  The checkout may be edited at  *)
(* any time: what a process executes is what it has imported, and what it  *)
(* records of its implementation is what it finds on the disk.             *)
(*                                                                         *)
(* A file is the set of its contents, empty when there is no such file.    *)
(***************************************************************************)
EXTENDS Ex1Selection, FiniteSets

CONSTANTS
    Procs,            \* invocations that may be under way at the same time, numbered
    Workers,          \* worker processes of an invocation
    Plans,            \* sequences of phases an operator may ask for
    Codes,            \* states of the checkout: its revision and its tree
    Checkout,         \* the one of them the operator starts from
    Worlds,           \* what each tree would measure
    NumPowers,        \* candidates of the power calibration
    NumCounts,        \* candidates of the population calibration
    RegimeOf,         \* the power regime of each run of the confirmation
    Fragile,          \* bound: units that may fail, bundles that may be damaged
    MaxInvocations, MaxCampaigns, MaxEdits, MaxMishaps   \* bounds

ASSUME CheckoutAssumption == Checkout \in Codes
ASSUME SizeAssumption ==
    /\ Procs \subseteq Nat /\ IsFiniteSet(Procs) /\ Workers \in Nat \ {0}
    /\ NumPowers \in Nat /\ NumCounts \in Nat /\ MaxCampaigns \in Nat
    /\ RegimeOf \in Seq(Regimes)

VARIABLES
    world,        \* what each tree measures: fixed, nobody knows it
    code,         \* the checkout
    camp,         \* the campaign directories, in the order of their making
    endpoint,     \* .synthran/active-experiment.json
    proc,         \* the invocations
    orphans,      \* workers that outlive their invocation
    spent         \* counts towards the bounds

vars == <<world, code, camp, endpoint, proc, orphans, spent>>

(* -------------------------------- phases ------------------------------- *)
AllPhases == <<"qualification", "power", "population", "freeze",
               "confirmation", "analysis">>
Phases == {AllPhases[i] : i \in 1 .. Len(AllPhases)}

Requires ==
    [qualification |-> {},
     power         |-> {"qualification"},
     population    |-> {"qualification", "power"},
     freeze        |-> {"qualification", "power", "population"},
     confirmation  |-> {"freeze"},
     analysis      |-> {"confirmation"}]

PowerTasks        == {<<"power", i>> : i \in 1 .. NumPowers}
PopulationTasks   == {<<"population", i>> : i \in 1 .. NumCounts}
ConfirmationTasks == {<<"confirmation", i>> : i \in 1 .. Len(RegimeOf)}
Tasks == PowerTasks \cup PopulationTasks \cup ConfirmationTasks

\* The phases of an invocation are one, or all of them (_selected_phases).
ASSUME PlanAssumption == Plans \subseteq {AllPhases} \cup {<<f>> : f \in Phases}

\* A tree measures every candidate, in percent.
Outcomes ==
    [sound : BOOLEAN, active : [1 .. NumPowers -> Nat],
     collision : [1 .. NumCounts -> Nat], decode : [1 .. NumCounts -> Nat]]

ASSUME WorldAssumption == Worlds \subseteq [{c.tree : c \in Codes} -> Outcomes]

TasksOf(phase) == {t \in Tasks : t[1] = phase}

NewCampaign(c) ==
    [rev |-> c.rev, done |-> {}, active |-> TRUE,
     qualification |-> {}, powerSummary |-> {}, powerSelection |-> {},
     populationSummary |-> {}, populationSelection |-> {},
     design |-> {}, index |-> {}, analysis |-> {}, reanalysis |-> {},
     runs |-> <<>>]

Idle ==
    [at |-> "idle", plan |-> <<>>, camp |-> 0, imported |-> {}, read |-> {},
     todo |-> {}, busy |-> {}, failed |-> FALSE, result |-> {},
     marks |-> {}, active |-> TRUE]

Init ==
    /\ world \in Worlds
    /\ code = Checkout
    /\ camp = <<>>
    /\ endpoint = {}
    /\ proc = [p \in Procs |-> Idle]
    /\ orphans = {}
    /\ spent = [invocations |-> 0, edits |-> 0, mishaps |-> 0]

At(p, s) == proc[p].at = s
Phase(p) == Head(proc[p].plan)
Dir(p)   == camp[proc[p].camp]

Spend(what) == spent' = [spent EXCEPT ![what] = @ + 1]

Ends(p) == proc' = [proc EXCEPT ![p] = Idle]

(* ------------------------ finding the campaign ------------------------- *)
\* execute(): qualification, and so all phases, always starts a campaign.
Creating == {p \in Procs : At(p, "create")}

\* Which of the idle processes it is makes no difference.
Invoke(p, plan) ==
    /\ At(p, "idle") /\ \A q \in Procs : At(q, "idle") => p <= q
    /\ spent.invocations < MaxInvocations
    /\ plan[1] = "qualification" => Len(camp) + Cardinality(Creating) < MaxCampaigns
    /\ proc' = [proc EXCEPT ![p] =
           [Idle EXCEPT !.at = IF plan[1] = "qualification" THEN "create" ELSE "attach",
                        !.plan = plan]]
    /\ Spend("invocations")
    /\ UNCHANGED <<world, code, camp, endpoint, orphans>>

\* _new_campaign: the directory, then the endpoint.
Create(p) ==
    /\ At(p, "create")
    /\ camp' = Append(camp, NewCampaign(code))
    /\ proc' = [proc EXCEPT ![p].at = "publish", ![p].camp = Len(camp) + 1]
    /\ UNCHANGED <<world, code, endpoint, orphans, spent>>

Publish(p) ==
    /\ At(p, "publish")
    /\ endpoint' = {[camp |-> proc[p].camp, active |-> TRUE]}
    /\ proc' = [proc EXCEPT ![p].at = "enter"]
    /\ UNCHANGED <<world, code, camp, orphans, spent>>

Usable == {e \in endpoint : e.active /\ camp[e.camp].active}

Attach(p) ==
    /\ At(p, "attach")
    /\ \/ \E e \in Usable : proc' = [proc EXCEPT ![p].at = "enter", ![p].camp = e.camp]
       \/ Usable = {} /\ Ends(p)
    /\ UNCHANGED <<world, code, camp, endpoint, orphans, spent>>

(* ------------------------------ a phase -------------------------------- *)
\* The import of a phase brings in the model with everything it is made of.
Imported(p) ==
    IF proc[p].imported # {} THEN proc[p].imported ELSE {code.tree}

GoesOn(p, s) ==
    proc' = [proc EXCEPT ![p].at = s, ![p].imported = Imported(p)]

ReadyFor(p, phase) ==
    At(p, "enter") /\ Phase(p) = phase /\ Requires[phase] \subseteq Dir(p).done

\* _require_phase_dependencies
RefusePhase(p) ==
    /\ At(p, "enter") /\ ~(Requires[Phase(p)] \subseteq Dir(p).done)
    /\ Ends(p)
    /\ UNCHANGED <<world, code, camp, endpoint, orphans, spent>>

Passed(c) == \E q \in c.qualification : q.passed

\* qualification.py runs as a process of its own: it imports what is there.
Qualify(p) ==
    /\ ReadyFor(p, "qualification")
    /\ camp' = [camp EXCEPT ![proc[p].camp].qualification =
           {[passed |-> world[code.tree].sound, tree |-> code.tree]}]
    /\ IF Passed(camp'[proc[p].camp]) THEN proc' = [proc EXCEPT ![p].at = "mark"]
                                      ELSE Ends(p)
    /\ UNCHANGED <<world, code, endpoint, orphans, spent>>

\* Calibrated already, or the units of the phase are handed to the workers.
Calibrate(p, phase, precondition, retained, basis) ==
    /\ ReadyFor(p, phase)
    /\ IF ~precondition THEN Ends(p)
       ELSE IF retained THEN GoesOn(p, "mark")
       ELSE proc' = [proc EXCEPT ![p].at = "work", ![p].imported = Imported(p),
                                 ![p].read = basis, ![p].todo = TasksOf(phase)]
    /\ UNCHANGED <<world, code, camp, endpoint, orphans, spent>>

\* Mutant of CalibratePower: a summary alone is taken for a calibration.
CalibratePowerBySummary(p) ==
    Calibrate(p, "power", Passed(Dir(p)), Dir(p).powerSummary # {}, {})

CalibratePower(p) ==
    Calibrate(p, "power", Passed(Dir(p)),
              Dir(p).powerSummary # {} /\ Dir(p).powerSelection # {}, {})

CalibratePopulation(p) ==
    Calibrate(p, "population", Dir(p).powerSelection # {},
              Dir(p).populationSummary # {} /\ Dir(p).populationSelection # {},
              Dir(p).powerSelection)

(* ----------------------------- the workers ----------------------------- *)
SpecUnder(design, t) ==
    [power |-> design.points[RegimeOf[t[2]]], count |-> design.count]

\* What the unit is about; the power calibration has a fixed population, 0.
Spec(p, t) ==
    CASE t[1] = "power"        -> [power |-> t[2], count |-> 0]
      [] t[1] = "population"   -> [power |-> (CHOOSE s \in proc[p].read : TRUE).knee,
                                   count |-> t[2]]
      [] t[1] = "confirmation" -> SpecUnder(CHOOSE d \in proc[p].read : TRUE, t)

Exists(c, t) == t \in DOMAIN c.runs

\* validate_bundle, and the specification beside the bundle.
Resumable(p, t) == Dir(p).runs[t].whole /\ Dir(p).runs[t].spec = Spec(p, t)

\* The executor hands out the units in the order of their submission.
NextUnit(p, t) ==
    /\ At(p, "work") /\ t \in proc[p].todo
    /\ \A u \in proc[p].todo : t[2] <= u[2]
    /\ Cardinality(proc[p].busy) < Workers

\* Leaving the executor waits for what was submitted; a single worker is a loop.
LeftAfter(p, t) == IF Workers = 1 THEN {} ELSE proc[p].todo \ {t}

StartUnit(p, t) ==
    /\ NextUnit(p, t) /\ ~Exists(Dir(p), t)
    /\ proc' = [proc EXCEPT ![p].todo = @ \ {t}, ![p].busy = @ \cup {t}]
    /\ UNCHANGED <<world, code, camp, endpoint, orphans, spent>>

ResumeUnit(p, t) ==
    /\ NextUnit(p, t) /\ Exists(Dir(p), t)
    /\ IF Resumable(p, t)
       THEN proc' = [proc EXCEPT ![p].todo = @ \ {t}]
       ELSE proc' = [proc EXCEPT ![p].todo = LeftAfter(p, t), ![p].failed = TRUE]
    /\ UNCHANGED <<world, code, camp, endpoint, orphans, spent>>

\* The manifest hashes the sources on the disk, the process runs its imports.
Bundle(spec, ran) == [spec |-> spec, ran |-> ran, says |-> code.tree, whole |-> TRUE]

\* Mutant of Deliver: a move that replaces what it finds.
DeliverOver(c, t, bundle) ==
    camp' = [camp EXCEPT ![c].runs =
        [u \in DOMAIN @ \cup {t} |-> IF u = t THEN bundle ELSE @[u]]]

\* os.replace does not overwrite a directory with something in it.
Deliver(c, t, bundle) ==
    camp' = [camp EXCEPT ![c].runs =
        IF t \in DOMAIN @ THEN @
        ELSE [u \in DOMAIN @ \cup {t} |-> IF u = t THEN bundle ELSE @[u]]]

FinishUnit(p, t) ==
    /\ At(p, "work") /\ t \in proc[p].busy
    /\ \E tree \in proc[p].imported : Deliver(proc[p].camp, t, Bundle(Spec(p, t), tree))
    /\ proc' = [proc EXCEPT ![p].busy = @ \ {t},
                            ![p].failed = @ \/ Exists(Dir(p), t),
                            ![p].todo = IF Exists(Dir(p), t) THEN LeftAfter(p, t) ELSE @]
    /\ UNCHANGED <<world, code, endpoint, orphans, spent>>

\* Any exception of a unit: what it left is moved to failed/.
FailUnit(p, t) ==
    /\ At(p, "work") /\ t \in proc[p].busy \cap Fragile /\ spent.mishaps < MaxMishaps
    /\ proc' = [proc EXCEPT ![p].busy = @ \ {t}, ![p].failed = TRUE,
                            ![p].todo = LeftAfter(p, t)]
    /\ Spend("mishaps")
    /\ UNCHANGED <<world, code, camp, endpoint, orphans>>

Settled(p) == At(p, "work") /\ proc[p].todo = {} /\ proc[p].busy = {}

RaiseFailure(p) ==
    /\ Settled(p) /\ proc[p].failed
    /\ Ends(p)
    /\ UNCHANGED <<world, code, camp, endpoint, orphans, spent>>

Returned(p, phase) == Settled(p) /\ ~proc[p].failed /\ Phase(p) = phase

(* ------------------------- what a phase concludes ---------------------- *)
Measured(c, field, n, phase) ==
    [i \in 1 .. n |-> world[c.runs[<<phase, i>>].ran][field][i]]

PowersOf(c) == SelectPowerPoints(Measured(c, "active", NumPowers, "power"))
CountsOf(c) == SelectPopulation(Measured(c, "collision", NumCounts, "population"),
                                Measured(c, "decode", NumCounts, "population"))

\* The selection is made first, and may raise; then the summary is written.
Conclude(p, selection) ==
    IF selection = {} THEN Ends(p)
    ELSE proc' = [proc EXCEPT ![p].at = "select", ![p].result = selection]

SummarisePower(p) ==
    /\ Returned(p, "power")
    /\ Conclude(p, PowersOf(Dir(p)))
    /\ camp' = [camp EXCEPT ![proc[p].camp].powerSummary =
                   IF PowersOf(Dir(p)) = {} THEN @ ELSE {"summary"}]
    /\ UNCHANGED <<world, code, endpoint, orphans, spent>>

SummarisePopulation(p) ==
    /\ Returned(p, "population")
    /\ Conclude(p, CountsOf(Dir(p)))
    /\ camp' = [camp EXCEPT ![proc[p].camp].populationSummary =
                   IF CountsOf(Dir(p)) = {} THEN @ ELSE {"summary"}]
    /\ UNCHANGED <<world, code, endpoint, orphans, spent>>

WriteSelection(p) ==
    /\ At(p, "select")
    /\ camp' = IF Phase(p) = "power"
               THEN [camp EXCEPT ![proc[p].camp].powerSelection = proc[p].result]
               ELSE [camp EXCEPT ![proc[p].camp].populationSelection = proc[p].result]
    /\ proc' = [proc EXCEPT ![p].at = "mark"]
    /\ UNCHANGED <<world, code, endpoint, orphans, spent>>

(* -------------------------------- freeze ------------------------------- *)
\* The revision is the one the campaign started from, the sources are today's.
Designs(c) ==
    {[rev |-> c.rev, tree |-> code.tree, points |-> t, count |-> n] :
        t \in c.powerSelection, n \in c.populationSelection}

Freeze(p) ==
    /\ ReadyFor(p, "freeze")
    /\ IF Dir(p).design # {} THEN GoesOn(p, "mark")
       ELSE IF Designs(Dir(p)) = {} THEN Ends(p)
       ELSE proc' = [proc EXCEPT ![p].at = "frozen", ![p].imported = Imported(p),
                                 ![p].result = Designs(Dir(p))]
    /\ UNCHANGED <<world, code, camp, endpoint, orphans, spent>>

WriteDesign(p) ==
    /\ At(p, "frozen")
    /\ camp' = [camp EXCEPT ![proc[p].camp].design = proc[p].result]
    /\ proc' = [proc EXCEPT ![p].at = "mark"]
    /\ UNCHANGED <<world, code, endpoint, orphans, spent>>

(* ----------------------------- confirmation ---------------------------- *)
\* _verify_frozen_implementation
Verified(design) == design.rev = code.rev /\ design.tree = code.tree

Identity(bundle) == [spec |-> bundle.spec, ran |-> bundle.ran, says |-> bundle.says]

\* _validate_existing_index
IndexHolds(c, design) ==
    \A i \in c.index :
        /\ i.design = design
        /\ \A t \in DOMAIN i.rows :
               Exists(c, t) /\ c.runs[t].whole /\ Identity(c.runs[t]) = i.rows[t]

Confirm(p) ==
    /\ ReadyFor(p, "confirmation")
    /\ IF \A d \in Dir(p).design : ~Verified(d) \/ ~IndexHolds(Dir(p), d) THEN Ends(p)
       ELSE IF Dir(p).index # {} THEN GoesOn(p, "mark")
       ELSE proc' = [proc EXCEPT ![p].at = "work", ![p].imported = Imported(p),
                                 ![p].read = Dir(p).design,
                                 ![p].todo = ConfirmationTasks]
    /\ UNCHANGED <<world, code, camp, endpoint, orphans, spent>>

WriteIndex(p) ==
    /\ Returned(p, "confirmation")
    /\ IF \A t \in ConfirmationTasks : Dir(p).runs[t].whole
       THEN /\ camp' = [camp EXCEPT ![proc[p].camp].index =
                   {[design |-> d,
                     rows |-> [t \in ConfirmationTasks |-> Identity(Dir(p).runs[t])]] :
                        d \in proc[p].read}]
            /\ proc' = [proc EXCEPT ![p].at = "mark"]
       ELSE Ends(p) /\ UNCHANGED camp
    /\ UNCHANGED <<world, code, endpoint, orphans, spent>>

(* ------------------------------- analysis ------------------------------ *)
\* Every run is validated again and measured from its bundle.
Analyse(p) ==
    /\ ReadyFor(p, "analysis")
    /\ IF Dir(p).analysis # {}
       THEN IF \A a \in Dir(p).analysis : a.design \in Dir(p).design
            THEN GoesOn(p, "mark") ELSE Ends(p)
       ELSE IF \A d \in Dir(p).design :
                   ~Verified(d) \/ Dir(p).index = {} \/ ~IndexHolds(Dir(p), d)
       THEN Ends(p)
       ELSE proc' = [proc EXCEPT ![p].at = "report", ![p].imported = Imported(p),
                                 ![p].result = Dir(p).index]
    /\ UNCHANGED <<world, code, camp, endpoint, orphans, spent>>

Report(p) ==
    /\ At(p, "report")
    /\ camp' = [camp EXCEPT ![proc[p].camp].analysis = proc[p].result]
    /\ proc' = [proc EXCEPT ![p].at = "mark"]
    /\ UNCHANGED <<world, code, endpoint, orphans, spent>>

\* Mutant of Reanalysable: bundles are not asked for their implementation.
ReanalysableByTreatment(c) ==
    {i \in c.index :
        /\ i.design \in c.design /\ DOMAIN i.rows = ConfirmationTasks
        /\ IndexHolds(c, i.design)
        /\ \A t \in ConfirmationTasks : i.rows[t].spec = SpecUnder(i.design, t)}

\* analyze --output: an analysis of its own, which also asks of every bundle
\* that it names the frozen implementation and has the frozen treatment.
Reanalysable(c) ==
    {i \in c.index :
        /\ i.design \in c.design /\ DOMAIN i.rows = ConfirmationTasks
        /\ IndexHolds(c, i.design)
        /\ \A t \in ConfirmationTasks : /\ i.rows[t].says = i.design.tree
                                        /\ i.rows[t].spec = SpecUnder(i.design, t)}

Reanalyse(n) ==
    /\ camp[n].reanalysis = {} /\ Reanalysable(camp[n]) # {}
    /\ camp' = [camp EXCEPT ![n].reanalysis = Reanalysable(camp[n])]
    /\ UNCHANGED <<world, code, endpoint, proc, orphans, spent>>

(* ------------------------- marking a phase ----------------------------- *)
\* _mark_phase reads campaign.json and writes it back, then the endpoint.
ReadMarks(p) ==
    /\ At(p, "mark")
    /\ proc' = [proc EXCEPT ![p].at = "marked", ![p].marks = Dir(p).done,
                            ![p].active = Dir(p).active]
    /\ UNCHANGED <<world, code, camp, endpoint, orphans, spent>>

Completes(p) == Phase(p) = "analysis"

NextPhase(p) ==
    IF Len(proc[p].plan) = 1 THEN Ends(p)
    ELSE proc' = [proc EXCEPT ![p] =
             [Idle EXCEPT !.at = "enter", !.plan = Tail(proc[p].plan),
                          !.camp = proc[p].camp, !.imported = proc[p].imported]]

WriteMarks(p) ==
    /\ At(p, "marked")
    /\ camp' = [camp EXCEPT ![proc[p].camp].done = proc[p].marks \cup {Phase(p)},
                            ![proc[p].camp].active = proc[p].active /\ ~Completes(p)]
    /\ IF Completes(p) THEN proc' = [proc EXCEPT ![p].at = "close"] ELSE NextPhase(p)
    /\ UNCHANGED <<world, code, endpoint, orphans, spent>>

CloseEndpoint(p) ==
    /\ At(p, "close")
    /\ endpoint' = {[e EXCEPT !.active = @ /\ e.camp # proc[p].camp] : e \in endpoint}
    /\ NextPhase(p)
    /\ UNCHANGED <<world, code, camp, orphans, spent>>

(* ----------------------- what nobody can rule out ---------------------- *)
\* A worker that is generating when its parent is killed goes on to its end.
Kill(p) ==
    /\ ~At(p, "idle") /\ spent.mishaps < MaxMishaps
    /\ orphans' = orphans \cup
           {[camp |-> proc[p].camp, unit |-> t, spec |-> Spec(p, t), ran |-> tree] :
               t \in IF Workers = 1 THEN {} ELSE proc[p].busy,
               tree \in proc[p].imported}
    /\ Ends(p) /\ Spend("mishaps")
    /\ UNCHANGED <<world, code, camp, endpoint>>

OrphanEnds(o) ==
    /\ \/ Deliver(o.camp, o.unit, Bundle(o.spec, o.ran))
       \/ UNCHANGED camp
    /\ orphans' = orphans \ {o}
    /\ UNCHANGED <<world, code, endpoint, proc, spent>>

Edit ==
    /\ spent.edits < MaxEdits
    /\ code' \in Codes \ {code}
    /\ Spend("edits")
    /\ UNCHANGED <<world, camp, endpoint, proc, orphans>>

\* A file of a bundle that is in place is damaged.
Damage(n, t) ==
    /\ spent.mishaps < MaxMishaps /\ camp[n].runs[t].whole
    /\ camp' = [camp EXCEPT ![n].runs[t].whole = FALSE]
    /\ Spend("mishaps")
    /\ UNCHANGED <<world, code, endpoint, proc, orphans>>

\* Nothing is under way and nobody asks for more.
Rest == /\ \A p \in Procs : At(p, "idle")
        /\ UNCHANGED vars

(* -------------------------- the specification -------------------------- *)
Unit(p, t) ==
    StartUnit(p, t) \/ ResumeUnit(p, t) \/ FinishUnit(p, t) \/ FailUnit(p, t)

Step(p) ==
    \/ Create(p) \/ Publish(p) \/ Attach(p) \/ RefusePhase(p)
    \/ Qualify(p) \/ CalibratePower(p) \/ CalibratePopulation(p)
    \/ \E t \in proc[p].todo \cup proc[p].busy : Unit(p, t)
    \/ RaiseFailure(p) \/ SummarisePower(p) \/ SummarisePopulation(p) \/ WriteSelection(p)
    \/ Freeze(p) \/ WriteDesign(p) \/ Confirm(p) \/ WriteIndex(p)
    \/ Analyse(p) \/ Report(p)
    \/ ReadMarks(p) \/ WriteMarks(p) \/ CloseEndpoint(p)

Next ==
    \/ \E p \in Procs : Step(p) \/ Kill(p) \/ \E plan \in Plans : Invoke(p, plan)
    \/ \E o \in orphans : OrphanEnds(o)
    \/ \E n \in 1 .. Len(camp) :
           Reanalyse(n) \/ \E t \in Fragile \cap DOMAIN camp[n].runs : Damage(n, t)
    \/ Edit
    \/ Rest

Ex1Spec == Init /\ [][Next]_vars

(* ------------------------------ properties ----------------------------- *)
TaskSpecs == [power : 0 .. NumPowers, count : 0 .. NumCounts]
Trees     == {c.tree : c \in Codes}
Triples   == [Regimes -> 1 .. NumPowers]
DesignSet == [rev : {c.rev : c \in Codes}, tree : Trees, points : Triples,
              count : 1 .. NumCounts]

BundleOK(b) == b.spec \in TaskSpecs /\ b.ran \in Trees /\ b.says \in Trees
               /\ b.whole \in BOOLEAN

CampOK(c) ==
    /\ c.rev \in {d.rev : d \in Codes} /\ c.done \subseteq Phases /\ c.active \in BOOLEAN
    /\ c.powerSelection \subseteq Triples /\ c.populationSelection \subseteq 1 .. NumCounts
    /\ c.design \subseteq DesignSet
    /\ DOMAIN c.runs \subseteq Tasks /\ \A t \in DOMAIN c.runs : BundleOK(c.runs[t])
    /\ \A f \in {"qualification", "powerSelection", "populationSelection", "design",
                 "index", "analysis", "reanalysis"} : Cardinality(c[f]) <= 1

ProcOK(p) ==
    /\ Cardinality(proc[p].busy) <= Workers /\ Cardinality(proc[p].imported) <= 1
    /\ proc[p].busy \cap proc[p].todo = {} /\ proc[p].busy \cup proc[p].todo \subseteq Tasks
    /\ ~At(p, "idle") => Len(proc[p].plan) \in 1 .. Len(AllPhases)
    /\ At(p, "idle") => proc[p] = Idle

\* Types: a file has one content, an executor no more units than workers, and
\* an invocation that ended holds nothing.
TypeOK ==
    /\ code \in Codes /\ Len(camp) <= MaxCampaigns
    /\ \A n \in 1 .. Len(camp) : CampOK(camp[n])
    /\ \A p \in Procs : ProcOK(p)
    /\ \A o \in orphans : o.unit \in Tasks /\ o.camp \in 1 .. Len(camp)

(* What an analysis reports can be traced: through the index of its frozen  *)
(* design to bundles that are still those in the campaign and have the      *)
(* frozen treatment, and from the design to selections that the retained    *)
(* calibration runs still yield, the population having been calibrated at   *)
(* the power that was frozen as the knee (analyze.py, confirmation.py).     *)
Traceable(c, a) ==
    /\ DOMAIN a.rows = ConfirmationTasks
    /\ \A t \in ConfirmationTasks :
           /\ Exists(c, t) /\ Identity(c.runs[t]) = a.rows[t]
           /\ a.rows[t].spec = SpecUnder(a.design, t)
    /\ a.design.rev = c.rev
    /\ PowersOf(c) = {a.design.points} /\ CountsOf(c) = {a.design.count}
    /\ \A t \in PopulationTasks : c.runs[t].spec.power = a.design.points.knee

EvidenceChain ==
    \A n \in 1 .. Len(camp) :
        /\ \A a \in camp[n].analysis \cup camp[n].reanalysis : Traceable(camp[n], a)
        /\ \A a \in camp[n].reanalysis, t \in ConfirmationTasks :
               a.rows[t].says = a.design.tree

Artefacts(c, phase) ==
    CASE phase = "qualification" -> Passed(c)
      [] phase = "power"         -> c.powerSummary # {} /\ c.powerSelection # {}
      [] phase = "population"    -> c.populationSummary # {} /\ c.populationSelection # {}
      [] phase = "freeze"        -> c.design # {}
      [] phase = "confirmation"  -> c.index # {}
      [] phase = "analysis"      -> c.analysis # {}

(* The state is well typed; a phase that is marked left what it produces, and so did every phase      *)
(* before it, whoever else marks phases of the campaign at the same time;    *)
(* a campaign that is closed has been analysed (experiments.py, _mark_phase, *)
(* which overwrites what another invocation marked in between).              *)
MarksAreEarned ==
    /\ TypeOK
    /\ \A n \in 1 .. Len(camp) :
           /\ \A f \in camp[n].done : \A i, j \in 1 .. Len(AllPhases) :
                  AllPhases[j] = f /\ i <= j => Artefacts(camp[n], AllPhases[i])
           /\ ~camp[n].active => camp[n].analysis # {}

(* A bundle in its place is never overwritten, a selection never changes     *)
(* once it is written, and an analysis is only ever replaced by one of the   *)
(* same runs, powers and number of sensors, although several invocations may *)
(* produce them at the same time (campaign.py, os.replace of _run_task, and  *)
(* the checks of existing results at the head of each phase).                *)
Reported(a) ==
    [rows |-> a.rows, rev |-> a.design.rev, points |-> a.design.points,
     count |-> a.design.count]

Stands(old, new) ==
    /\ \A t \in DOMAIN old.runs : Exists(new, t) /\ Identity(new.runs[t]) = Identity(old.runs[t])
    /\ old.powerSelection \subseteq new.powerSelection
    /\ old.populationSelection \subseteq new.populationSelection
    /\ {Reported(a) : a \in old.analysis} \subseteq {Reported(a) : a \in new.analysis}

EvidenceStands == [][\A n \in 1 .. Len(camp) : Stands(camp[n], camp'[n])]_vars
=============================================================================
