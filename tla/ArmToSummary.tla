---------------------------- MODULE ArmToSummary ----------------------------
(***************************************************************************)
(* From a prepared timing arm to the summary of its replay: PreparedSource *)
(* up to the bundle in a run's directory, then DeliveryMeasurement of that *)
(* very bundle, with the gateways its copy was mapped to.                  *)
(*                                                                         *)
(* The campaign goes on as PreparedSource has it, where a replay is one    *)
(* step; at each imported bundle a behaviour may instead follow its replay *)
(* to the summary.  What the campaign did before has no further part in    *)
(* that and is forgotten: what is measured depends on the bundle alone.    *)
(***************************************************************************)
EXTENDS PreparedSource, DeliveryMeasurement

Forgotten ==
    /\ writer' = None /\ begun' = {}
    /\ cohort' = [c \in Cohorts |-> NoArms] /\ index' = [c \in Cohorts |-> NoArms]
    /\ inputs' = NoArms /\ frozen' = None /\ phase' = "qualification"
    /\ stage' = "idle" /\ chosen' = None /\ run' = None /\ faults' = 0

\* The roles stage the trace of the bundle that was imported, edited since or
\* not, on the gateways of its scenario.
ReplayImported ==
    /\ stage = "imported"
    /\ \E m \in Mappings : Range(m) = run.gateways /\ StartReplay(run.trace, m)
    /\ Forgotten

Init == SourceInit /\ MeasurementInit

Next ==
    \/ progress = "none" /\ SourceNext /\ UNCHANGED measurementVars
    \/ ReplayImported
    \/ MeasurementNext /\ UNCHANGED sourceVars

Spec == Init /\ [][Next]_<<sourceVars, measurementVars>>
=============================================================================
