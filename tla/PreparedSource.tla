--------------------------- MODULE PreparedSource ---------------------------
(***************************************************************************)
(* From the prepared timing arms to the bundle of a replay of Experiment   *)
(* 2.  A cohort of arms is prepared from each campaign of Experiment 1 and *)
(* transferred by hand (source.py); a campaign of Experiment 2 discovers   *)
(* the newest whole cohort, copies an arm to its inputs/ and maps it to    *)
(* the workload UE (runtime.py), imports the copy into a run's directory   *)
(* (runner.py, bundle.py) and makes the summary of the run (reconcile.py). *)
(* The phases of the campaign are qualification, freeze and confirmation   *)
(* (campaign.py).  An arm that has been copied is not copied again.        *)
(*                                                                         *)
(* The state is that of one source seed.  Cohorts are numbered by the      *)
(* order of their names, and have the same native trace: what tells them   *)
(* apart is the origin that a bundle's manifest carries.  A bundle is      *)
(* validated and copied in one step, except for kills; what the deployed   *)
(* publishers replay, without any validation, is in DeliveryMeasurement.   *)
(***************************************************************************)
EXTENDS TimingArms

CONSTANTS
    Cohorts,        \* 1..n
    Prescribed,     \* the gateways the trace was generated for
    Deployed,       \* the UEs of the testbed,
    Workload,       \* the first of which is to carry the workload
    MaxFaults       \* bound on edits and kills

ASSUME SourceAssumption ==
    /\ Cohorts \subseteq Nat /\ MaxFaults \in Nat
    /\ Workload \in Deployed /\ Arms # {}

VARIABLES
    writer,     \* the cohort in preparation, or None
    begun,      \* the cohorts that have a directory
    cohort,     \* the arms of each: [Cohorts -> [Arms -> bundle or None]]
    index,      \* what its prepared-index.json says of them, or None
    inputs,     \* the arms the campaign has copied: [Arms -> bundle or None]
    frozen,     \* the cohort of the frozen design, or None
    phase,      \* of the campaign: "paused" before an invocation confirms
    stage,      \* of the replay: "idle", "chosen", "imported" or "reported"
    chosen,     \* its arm, or None
    run,        \* the bundle in its directory, or None
    faults

prepared   == <<writer, begun, cohort, index>>
campaign   == <<frozen, phase>>
replayed   == <<stage, chosen, run>>
sourceVars == <<prepared, inputs, campaign, replayed, faults>>

Fault == faults < MaxFaults /\ faults' = faults + 1

----------------------------------------------------------------------------
(* Bundles on disk: a trace, its cohort and its gateways.                   *)

Prepared(c, a, offsets) ==
    [trace |-> Bundle(a, offsets), origin |-> c, gateways |-> Prescribed]

Edited(b) ==
    [trace |-> [b.trace EXCEPT !.sealed = FALSE], origin |-> b.origin, gateways |-> b.gateways]

\* All sensors of the scenario and of the trace are given to one UE, and the
\* manifest is written anew.
Remapped(b) == [trace |-> b.trace, origin |-> b.origin, gateways |-> {Workload}]

NoArms == [a \in Arms |-> None]

\* Mutant of Whole: a bundle that is there is not compared with its manifest.
WholeIfPresent(b) == b # None

\* validate_bundle: the files are those of the bundle's own manifest.
Whole(b) == b # None /\ Valid(b.trace)

----------------------------------------------------------------------------
(* The preparation of a cohort.                                             *)

Preparing(c) == writer = c /\ writer # None

Written(c) == {a \in Arms : cohort[c][a] # None}

\* Of the newest campaign of Experiment 1, unless its cohort is there already.
BeginPreparation ==
    /\ writer = None
    /\ \E c \in Cohorts :
        /\ \A d \in begun : d < c
        /\ writer' = c /\ begun' = begun \cup {c}
    /\ UNCHANGED <<cohort, index, inputs, campaign, replayed, faults>>

\* One arm after the other is written to a directory that must be empty.
PrepareArm ==
    /\ \E c \in Cohorts : Preparing(c) /\ \E a \in Arms :
        /\ Written(c) # Arms /\ a = ArmNames[Cardinality(Written(c)) + 1]
        /\ \E offsets \in Timings(a) :
            cohort' = [cohort EXCEPT ![c][a] = Prepared(c, a, offsets)]
    /\ UNCHANGED <<writer, begun, index, inputs, campaign, replayed, faults>>

\* The arms are compared with the native trace, then the index is written.
IndexArms ==
    /\ \E c \in Cohorts : Preparing(c) /\ Written(c) = Arms
        /\ index' = IF \A a \in Arms : Matches(a, cohort[c][a].trace)
                    THEN [index EXCEPT ![c] = cohort[c]]
                    ELSE index
    /\ writer' = None
    /\ UNCHANGED <<begun, cohort, inputs, campaign, replayed, faults>>

PreparationDies ==
    /\ writer # None /\ Fault /\ writer' = None
    /\ UNCHANGED <<begun, cohort, index, inputs, campaign, replayed>>

Indexed(c) == \A a \in Arms : index[c][a] # None

\* An incomplete cohort is never continued: somebody has to remove it.
RemoveCohort ==
    /\ \E c \in begun :
        /\ ~Preparing(c) /\ ~Indexed(c)
        /\ begun' = begun \ {c}
        /\ cohort' = [cohort EXCEPT ![c] = NoArms]
    /\ UNCHANGED <<writer, index, inputs, campaign, replayed, faults>>

\* Files of an arm are edited or lost, or the arm is derived anew with another
\* seed.
ChangeArm ==
    /\ Fault
    /\ \E c \in Cohorts, a \in Arms :
        /\ cohort[c][a] # None
        /\ \E b \in {Edited(cohort[c][a])} \cup {Prepared(c, a, offsets) : offsets \in Timings(a)} :
            cohort' = [cohort EXCEPT ![c][a] = b]
    /\ UNCHANGED <<writer, begun, index, inputs, campaign, replayed>>

----------------------------------------------------------------------------
(* The campaign.                                                            *)

\* discover_prepared: the newest cohort whose arms are whole and those of its
\* index; one that is not is passed over.
WholeCohort(c) ==
    Indexed(c) /\ \A a \in Arms : Whole(cohort[c][a]) /\ cohort[c][a] = index[c][a]

Discovered ==
    {c \in Cohorts : WholeCohort(c) /\ \A d \in Cohorts : d > c => ~WholeCohort(d)}

\* An error ends the invocation, and so does a kill.  A confirmation moves what
\* is left of an attempt away and has to begin again; the directory of the
\* qualification stays as it is.
Stops(left) ==
    /\ phase' = IF phase = "confirmation" THEN "paused" ELSE phase
    /\ stage' = "idle" /\ chosen' = None
    /\ run' = IF phase = "qualification" THEN left ELSE None
    /\ UNCHANGED frozen

\* _bundle: the arm of the newest cohort, or the copy that the campaign has.
ChooseArm ==
    /\ phase \in {"qualification", "confirmation"} /\ stage = "idle"
    /\ \E a \in Arms :
        /\ phase = "qualification" => a = "native"
        /\ IF Discovered # {} /\ (inputs[a] # None => Whole(inputs[a]))
           THEN /\ stage' = "chosen" /\ chosen' = a /\ UNCHANGED <<run, campaign>>
                /\ \/ inputs[a] # None /\ UNCHANGED inputs
                   \/ /\ inputs[a] = None
                      /\ \E c \in Discovered :
                           inputs' = [inputs EXCEPT ![a] = Remapped(cohort[c][a])]
           ELSE Stops(run) /\ UNCHANGED inputs
    /\ UNCHANGED <<prepared, faults>>

\* A kill in the copying leaves a part of the files, or all of them but not
\* yet mapped, or some of them mapped.
CopyingDies ==
    /\ phase \in {"qualification", "confirmation"} /\ stage = "idle" /\ Fault
    /\ \E a \in Arms, c \in Discovered :
        /\ phase = "qualification" => a = "native"
        /\ inputs[a] = None
        /\ \E b \in {cohort[c][a], Edited(cohort[c][a])} : inputs' = [inputs EXCEPT ![a] = b]
    /\ Stops(run)
    /\ UNCHANGED prepared

\* prepare() and import_bundle: the gateways must be deployed UEs, the bundle
\* whole and the directory empty.
ImportArm ==
    /\ stage = "chosen"
    /\ IF inputs[chosen].gateways \subseteq Deployed /\ Whole(inputs[chosen]) /\ run = None
       THEN stage' = "imported" /\ run' = inputs[chosen] /\ UNCHANGED <<chosen, campaign>>
       ELSE Stops(run)
    /\ UNCHANGED <<prepared, inputs, faults>>

\* A kill in the import leaves a part of the files.
ImportDies ==
    /\ stage = "chosen" /\ run = None /\ Fault
    /\ Stops(Edited(inputs[chosen]))
    /\ UNCHANGED <<prepared, inputs>>

\* The run has ended; its bundle is validated again, and the summary written.
Summarise ==
    /\ stage = "imported"
    /\ IF Whole(run) THEN stage' = "reported" /\ UNCHANGED <<chosen, run, campaign>>
       ELSE Stops(run)
    /\ UNCHANGED <<prepared, inputs, faults>>

\* The campaign goes on: a qualification is done, a confirmation has further
\* replays, of this arm under other loads too.
Continue ==
    /\ stage = "reported" /\ stage' = "idle" /\ chosen' = None /\ run' = None
    /\ phase' = IF phase = "qualification" THEN "freeze" ELSE phase
    /\ UNCHANGED <<frozen, prepared, inputs, faults>>

Freeze ==
    /\ phase = "freeze" /\ frozen' \in Discovered /\ phase' = "paused"
    /\ UNCHANGED <<prepared, inputs, replayed, faults>>

\* _frozen: once, where an invocation begins.
BeginConfirmation ==
    /\ phase = "paused" /\ frozen \in Discovered /\ phase' = "confirmation"
    /\ UNCHANGED <<frozen, prepared, inputs, replayed, faults>>

\* Between two steps.  The summary of a qualification is found again.
InvocationDies ==
    /\ phase = "confirmation" \/ stage \in {"chosen", "imported"}
    /\ Stops(run)
    /\ UNCHANGED <<prepared, inputs, faults>>

\* Files of the campaign's copy, or of the run's, are edited.
ChangeInputs ==
    /\ Fault
    /\ \E a \in Arms : inputs[a] # None /\ inputs' = [inputs EXCEPT ![a] = Edited(inputs[a])]
    /\ UNCHANGED <<prepared, campaign, replayed>>

ChangeRun ==
    /\ stage = "imported" /\ Fault /\ run' = Edited(run)
    /\ UNCHANGED <<prepared, inputs, campaign, stage, chosen>>

----------------------------------------------------------------------------

SourceInit ==
    /\ writer = None /\ begun = {}
    /\ cohort = [c \in Cohorts |-> NoArms] /\ index = [c \in Cohorts |-> NoArms]
    /\ inputs = NoArms
    /\ frozen = None /\ phase = "qualification"
    /\ stage = "idle" /\ chosen = None /\ run = None
    /\ faults = 0

Preparation == BeginPreparation \/ PrepareArm \/ IndexArms
Phases      == ChooseArm \/ ImportArm \/ Summarise \/ Continue \/ Freeze \/ BeginConfirmation
Meddling    ==
    \/ PreparationDies \/ RemoveCohort \/ ChangeArm
    \/ CopyingDies \/ ImportDies \/ InvocationDies \/ ChangeInputs \/ ChangeRun

SourceNext == Preparation \/ Phases \/ Meddling

SourceSpec == SourceInit /\ [][SourceNext]_sourceVars

----------------------------------------------------------------------------
(* Properties.                                                              *)

SourceTypeOK ==
    /\ writer \in begun \cup {None} /\ begun \subseteq Cohorts
    /\ frozen \in Cohorts \cup {None}
    /\ phase \in {"qualification", "freeze", "paused", "confirmation"}
    /\ stage \in {"idle", "chosen", "imported", "reported"} /\ chosen \in Arms \cup {None}

\* What a bundle of the campaign is made of: an indexed arm, as it was indexed
\* or mapped to the workload UE.
MadeOfIndexed(a, b) ==
    \E c \in Cohorts : index[c][a] # None /\ b \in {index[c][a], Remapped(index[c][a])}

\* Whatever dies or is edited while the arms are prepared, transferred, copied,
\* mapped and imported, and whichever cohort is found: an indexed arm is
\* faithful to the native trace, and a summary is about the arm of its name of
\* an indexed cohort, whose events are as they were indexed, on UEs that are
\* deployed.
ArmsAreFaithful ==
    /\ SourceTypeOK
    /\ \A c \in Cohorts, a \in Arms : index[c][a] # None => Faithful(a, index[c][a].trace)
    /\ stage = "reported" =>
        /\ MadeOfIndexed(chosen, run) /\ Faithful(chosen, run.trace)
        /\ run.gateways \subseteq Deployed

\* The frozen design "retains ... source cohort identity": what is confirmed is
\* of the frozen cohort.  It does not hold: SourceFrozenCohort.cfg.
FrozenCohortIsRun ==
    stage = "reported" /\ phase = "confirmation" => run.origin = frozen

\* The first UE is the workload gateway: the competing one carries no sensors.
\* It does not hold: SourceWorkloadGateway.cfg.
WorkloadCarriesSensors == stage = "reported" => run.gateways = {Workload}
=============================================================================
