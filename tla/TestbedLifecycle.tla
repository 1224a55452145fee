-------------------------- MODULE TestbedLifecycle --------------------------
(***************************************************************************)
(* The life of one accepted SynthRAN testbed, as its three controllers     *)
(* drive it: deploy.sh invalidates the previous testbed, provisions and    *)
(* publishes a new one; teardown.sh fences it and removes what it owns;    *)
(* experiment.sh attaches to it.  They are separate processes that share   *)
(* files and two flock locks.  One action is one atomic file write (every  *)
(* write of the code is a temporary file and os.replace), one lock         *)
(* operation or one external command.                                      *)
(***************************************************************************)
EXTENDS FiniteSets

CONSTANTS
    Runs,       \* deployment run identifiers; every deploy.sh uses a fresh one
    NoRun,      \* "no deployment"
    Physical,   \* the runs whose deployment has platform = r2lab
    Booking,    \* what the reservation policy of a run lets it newly book
    Options,    \* the teardown.sh options an operator may give
    Crashing    \* the controllers that may be killed or lose their terminal

Controllers  == {"deploy", "teardown", "experiment"}
Stoppable    == {"resources", "namespace"}
Reservations == {"pos_calendar", "r2lab"}
Phases       == Stoppable \cup Reservations

ASSUME RunsAssumption == NoRun \notin Runs
ASSUME PhysicalAssumption == Physical \subseteq Runs
ASSUME BookingAssumption == Booking \in [Runs -> SUBSET Reservations]
ASSUME OptionsAssumption == Options \subseteq [deleteNamespace : BOOLEAN, keep : BOOLEAN]
ASSUME CrashingAssumption == Crashing \subseteq Controllers

VARIABLES
    deployLock,      \* holder of .synthran/deploy.lock
    experimentLock,  \* holder of .synthran/experiment.lock
    identity,        \* .synthran/deployment-fingerprint.json
    endpoint,        \* .synthran/active-deployment.json
    candidate,       \* status in results/<run>/deployment-fingerprint.json
    evidence,        \* hash binding of results/<run>/live-deployment-evidence.json
    result,          \* results/<run>/teardown-result.json
    running,         \* what of a run is up: its UE/RRU resources, its namespace
    reservation,     \* what a run itself booked: POS calendar event, R2Lab lease
    deploy, teardown, experiment   \* the local state of the three controllers

files == <<identity, endpoint, candidate, evidence, result>>
world == <<running, reservation>>
locks == <<deployLock, experimentLock>>
vars  == <<locks, files, world, deploy, teardown, experiment>>

----------------------------------------------------------------------------
(* Phases of a teardown, in the order execute runs them.                    *)

After == [resources    |-> "namespace", namespace |-> "pos_calendar",
          pos_calendar |-> "r2lab",     r2lab     |-> "complete"]

PhaseSuccess == {"succeeded", "skipped", "preserved", "released", "already-absent"}
PhaseStatus  == PhaseSuccess \cup {"none", "failed"}

NoPhases  == [p \in Phases |-> "none"]
NoOptions == [deleteNamespace |-> FALSE, keep |-> FALSE]

Done(r, p) == result[r].phases[p] \in PhaseSuccess

----------------------------------------------------------------------------
(* Attachment: what the files of a run must agree on before it may be used. *)

IdentityAccepted(r) == identity = [status |-> "accepted-testbed", run |-> r]
Attested(r) == IdentityAccepted(r) /\ evidence[r] = "sealed"

EndpointIs(status) == endpoint.status = status

----------------------------------------------------------------------------
Init ==
    /\ deployLock = "free" /\ experimentLock = "free"
    /\ identity = [status |-> "absent", run |-> NoRun]
    /\ endpoint = [status |-> "absent", run |-> NoRun]
    /\ candidate = [r \in Runs |-> "unused"]
    /\ evidence = [r \in Runs |-> "absent"]
    /\ result = [r \in Runs |-> [status |-> "absent", phases |-> NoPhases]]
    /\ running = [r \in Runs |-> {}]
    /\ reservation = [r \in Runs |-> [p \in Reservations |-> "none"]]
    /\ deploy = [pc |-> "idle", run |-> NoRun]
    /\ teardown = [pc |-> "idle", run |-> NoRun, phase |-> "resources",
                   outcome |-> "none", options |-> NoOptions]
    /\ experiment = [pc |-> "idle", run |-> NoRun]

----------------------------------------------------------------------------
(* deploy.sh and deployment/scripts/run_deployment.sh                       *)

DeployAt(pc) == deploy.pc = pc
DeployGoes(pc) == deploy' = [deploy EXCEPT !.pc = pc]

\* The controller exits: its local state and its lock go with the process.
DeployExits ==
    /\ deploy' = [pc |-> "idle", run |-> NoRun]
    /\ deployLock' = "free"

DeployStart(r) ==
    /\ DeployAt("idle") /\ deployLock = "free"
    /\ candidate[r] = "unused"
    /\ deployLock' = "deploy"
    /\ deploy' = [pc |-> "invalidating", run |-> r]
    /\ candidate' = [candidate EXCEPT ![r] = "started"]
    /\ UNCHANGED <<experimentLock, identity, endpoint, evidence, result, world,
                   teardown, experiment>>

\* deployment_state.invalidate: first the identity is replaced ...
DeployInvalidateIdentity ==
    /\ DeployAt("invalidating") /\ DeployGoes("unlinking")
    /\ identity' = [status |-> "invalidated", run |-> NoRun]
    /\ UNCHANGED <<locks, endpoint, candidate, evidence, result, world,
                   teardown, experiment>>

\* ... then the endpoint file is unlinked, whatever its status was.
DeployUnlinkEndpoint ==
    /\ DeployAt("unlinking") /\ DeployGoes("acquiring")
    /\ endpoint' = [status |-> "absent", run |-> NoRun]
    /\ UNCHANGED <<locks, identity, candidate, evidence, result, world,
                   teardown, experiment>>

\* What a run may come to own: only a policy of create or book makes it an
\* owner, and a lease is sought only where the platform is R2Lab.
Bookable(r) == Booking[r] \ (IF r \in Physical THEN {} ELSE {"r2lab"})

Book(r, owned) ==
    reservation' = [reservation EXCEPT ![r] =
        [p \in Reservations |-> IF p \in owned THEN "held" ELSE @[p]]]

\* reserve_sop.py, synthran.inventory and reserve_r2lab.py: what is not booked
\* here was reused, extended or disabled, and is not owned by the run.
DeployAcquire(owned) ==
    /\ DeployAt("acquiring") /\ DeployGoes("provisioning")
    /\ owned \subseteq Bookable(deploy.run)
    /\ Book(deploy.run, owned)
    /\ candidate' = [candidate EXCEPT ![deploy.run] = "candidate"]
    /\ UNCHANGED <<locks, identity, endpoint, evidence, result, running,
                   teardown, experiment>>

\* One of them fails; what an earlier one booked stays booked.
DeployAcquireFails(owned) ==
    /\ DeployAt("acquiring") /\ DeployExits
    /\ owned \subseteq Bookable(deploy.run)
    /\ Book(deploy.run, owned)
    /\ UNCHANGED <<experimentLock, files, running, teardown, experiment>>

Provisioned(r) == IF r \in Physical THEN Stoppable ELSE {"namespace"}

DeployProvision ==
    /\ DeployAt("provisioning") /\ DeployGoes("sealing")
    /\ running' = [running EXCEPT ![deploy.run] = Provisioned(deploy.run)]
    /\ evidence' = [evidence EXCEPT ![deploy.run] = "provisioned"]
    /\ UNCHANGED <<locks, identity, endpoint, candidate, result, reservation,
                   teardown, experiment>>

\* acceptance.seal_provisioning: the candidate is written before the evidence.
DeploySealCandidate ==
    /\ DeployAt("sealing") /\ DeployGoes("sealing-evidence")
    /\ candidate[deploy.run] = "candidate"
    /\ evidence[deploy.run] = "provisioned"
    /\ candidate' = [candidate EXCEPT ![deploy.run] = "provisioning-complete"]
    /\ UNCHANGED <<locks, identity, endpoint, evidence, result, world,
                   teardown, experiment>>

DeploySealEvidence ==
    /\ DeployAt("sealing-evidence") /\ DeployGoes("accepting")
    /\ evidence' = [evidence EXCEPT ![deploy.run] = "sealed"]
    /\ UNCHANGED <<locks, identity, endpoint, candidate, result, world,
                   teardown, experiment>>

\* acceptance.accept, after the acceptance playbook: candidate, active
\* identity and endpoint are three writes.
DeployAcceptCandidate ==
    /\ DeployAt("accepting") /\ DeployGoes("publishing-identity")
    /\ candidate[deploy.run] = "provisioning-complete"
    /\ evidence[deploy.run] = "sealed"
    /\ candidate' = [candidate EXCEPT ![deploy.run] = "accepted-testbed"]
    /\ UNCHANGED <<locks, identity, endpoint, evidence, result, world,
                   teardown, experiment>>

DeployPublishIdentity ==
    /\ DeployAt("publishing-identity") /\ DeployGoes("publishing-endpoint")
    /\ identity' = [status |-> "accepted-testbed", run |-> deploy.run]
    /\ UNCHANGED <<locks, endpoint, candidate, evidence, result, world,
                   teardown, experiment>>

DeployPublishEndpoint ==
    /\ DeployAt("publishing-endpoint") /\ DeployGoes("finishing")
    /\ endpoint' = [status |-> "accepted-testbed", run |-> deploy.run]
    /\ UNCHANGED <<locks, identity, candidate, evidence, result, world,
                   teardown, experiment>>

DeployFinish ==
    /\ DeployAt("finishing") /\ DeployExits
    /\ UNCHANGED <<experimentLock, files, world, teardown, experiment>>

\* acceptance.fail leaves an identity that is already accepted as it is.
MarkFailed(r) ==
    candidate' = [candidate EXCEPT ![r] =
        IF @ = "accepted-testbed" THEN @ ELSE "failed"]

\* A step of run_deployment.sh exits non-zero: mark_failed, then exit.  The
\* provisioning playbook may have brought up any part of the stack.
DeployStepFails(up) ==
    /\ deploy.pc \in {"provisioning", "sealing", "sealing-evidence", "accepting",
                      "publishing-identity", "publishing-endpoint"}
    /\ IF DeployAt("provisioning") THEN up \subseteq Provisioned(deploy.run)
                                   ELSE up = running[deploy.run]
    /\ running' = [running EXCEPT ![deploy.run] = up]
    /\ MarkFailed(deploy.run)
    /\ DeployExits
    /\ UNCHANGED <<experimentLock, identity, endpoint, evidence, result,
                   reservation, teardown, experiment>>

Deploy ==
    \/ \E r \in Runs : DeployStart(r)
    \/ DeployInvalidateIdentity \/ DeployUnlinkEndpoint
    \/ \E owned \in SUBSET Reservations :
           DeployAcquire(owned) \/ DeployAcquireFails(owned)
    \/ DeployProvision \/ DeploySealCandidate \/ DeploySealEvidence
    \/ DeployAcceptCandidate \/ DeployPublishIdentity \/ DeployPublishEndpoint
    \/ DeployFinish
    \/ \E up \in SUBSET Stoppable : DeployStepFails(up)

----------------------------------------------------------------------------
(* teardown.sh: teardown_controller.execute over the helpers of teardown.py *)

TeardownAt(pc) == teardown.pc = pc
TeardownGoes(pc) == teardown' = [teardown EXCEPT !.pc = pc]

TeardownIdle == [pc |-> "idle", run |-> NoRun, phase |-> "resources",
                 outcome |-> "none", options |-> NoOptions]

\* The finally clause closes both lock streams.
TeardownExits ==
    /\ teardown' = TeardownIdle
    /\ deployLock' = "free"
    /\ experimentLock' = IF experimentLock = "teardown" THEN "free" ELSE experimentLock

TeardownStart(options) ==
    /\ TeardownAt("idle") /\ deployLock = "free"
    /\ deployLock' = "teardown"
    /\ teardown' = [TeardownIdle EXCEPT !.pc = "locking", !.options = options]
    /\ UNCHANGED <<experimentLock, files, world, deploy, experiment>>

\* Mutant of TeardownTakeExperimentLock: the result of flock is not checked.
TeardownAssumeExperimentLock ==
    /\ TeardownAt("locking")
    /\ experimentLock' = "teardown"
    /\ TeardownGoes("resolving")
    /\ UNCHANGED <<deployLock, files, world, deploy, experiment>>

TeardownTakeExperimentLock ==
    /\ TeardownAt("locking") /\ experimentLock = "free"
    /\ experimentLock' = "teardown"
    /\ TeardownGoes("resolving")
    /\ UNCHANGED <<deployLock, files, world, deploy, experiment>>

\* A fresh teardown attaches; a retry needs the accepted identity and a result
\* that says cleanup-failed.
FreshTeardown(r) == EndpointIs("accepted-testbed") /\ Attested(r)
RetryTeardown(r) == /\ EndpointIs("cleanup-failed") /\ IdentityAccepted(r)
                    /\ result[r].status = "cleanup-failed"

\* Mutant of TeardownBegin: a retry starts from an empty result.
TeardownBeginAfresh ==
    LET r == endpoint.run IN
    /\ TeardownAt("resolving")
    /\ FreshTeardown(r) \/ RetryTeardown(r)
    /\ result' = [result EXCEPT ![r] = [status |-> "stopping", phases |-> NoPhases]]
    /\ teardown' = [teardown EXCEPT !.pc = "fencing", !.run = r]
    /\ UNCHANGED <<locks, identity, endpoint, candidate, evidence, world,
                   deploy, experiment>>

\* begin_teardown up to its first write: the result says stopping.
TeardownBegin ==
    LET r == endpoint.run IN
    /\ TeardownAt("resolving")
    /\ FreshTeardown(r) \/ RetryTeardown(r)
    /\ result' = [result EXCEPT ![r] =
           [status |-> "stopping",
            phases |-> IF FreshTeardown(r) THEN NoPhases ELSE @.phases]]
    /\ teardown' = [teardown EXCEPT !.pc = "fencing", !.run = r]
    /\ UNCHANGED <<locks, identity, endpoint, candidate, evidence, world,
                   deploy, experiment>>

\* "Teardown refused": the experiment lock is taken, or no authority resolves.
TeardownRefused ==
    /\ \/ TeardownAt("locking") /\ experimentLock # "free"
       \/ TeardownAt("resolving") /\ ~FreshTeardown(endpoint.run)
                                  /\ ~RetryTeardown(endpoint.run)
    /\ TeardownExits
    /\ UNCHANGED <<files, world, deploy, experiment>>

\* begin_teardown, second write: the endpoint is read again and fenced.
TeardownFence ==
    /\ TeardownAt("fencing")
    /\ endpoint.status \in {"accepted-testbed", "cleanup-failed"}
    /\ endpoint.run = teardown.run
    /\ endpoint' = [endpoint EXCEPT !.status = "stopping"]
    /\ TeardownGoes("phase")
    /\ UNCHANGED <<locks, identity, candidate, evidence, result, world,
                   deploy, experiment>>

TeardownAdvance(outcome) ==
    LET next == After[teardown.phase] IN
    teardown' = [teardown EXCEPT
        !.pc = IF next = "complete" THEN "completing-result" ELSE "phase",
        !.phase = IF next = "complete" THEN @ ELSE next,
        !.outcome = outcome]

Record(p, status) ==
    result' = [result EXCEPT ![teardown.run].phases[p] = status]

\* "retained success from an earlier teardown attempt"
TeardownPhaseRetained ==
    /\ TeardownAt("phase") /\ Done(teardown.run, teardown.phase)
    /\ TeardownAdvance("none")
    /\ UNCHANGED <<locks, files, world, deploy, experiment>>

\* Phases the options or the platform exempt, and how they are recorded.
Waived(p) ==
    \/ p = "resources" /\ teardown.run \notin Physical
    \/ p = "namespace" /\ ~teardown.options.deleteNamespace
    \/ p \in Reservations /\ teardown.options.keep

TeardownPhaseWaived ==
    LET p == teardown.phase IN
    /\ TeardownAt("phase") /\ ~Done(teardown.run, p) /\ Waived(p)
    /\ result[teardown.run].status = "stopping"
    /\ Record(p, IF p \in Reservations THEN "preserved" ELSE "skipped")
    /\ TeardownAdvance("none")
    /\ UNCHANGED <<locks, identity, endpoint, candidate, evidence, world,
                   deploy, experiment>>

\* What performing phase p removes from the world.
Stop(r, p) ==
    /\ running' = [running EXCEPT ![r] = @ \ {p}]
    /\ UNCHANGED reservation

Release(r, p) ==
    /\ reservation' = [reservation EXCEPT ![r] =
           [q \in Reservations |-> IF q = p /\ @[q] = "held" THEN "deleted" ELSE @[q]]]
    /\ UNCHANGED running

Perform(r, p) == IF p \in Stoppable THEN Stop(r, p) ELSE Release(r, p)

\* The outcome the playbook, release_pos_calendar or release_r2lab_lease
\* reports: only what the run itself booked is deleted; an event that has
\* ended, or a POS event that is gone, counts as absent.
Outcome(r, p) ==
    IF p \in Stoppable THEN "succeeded"
    ELSE [none |-> "preserved", held |-> "released",
          ended |-> "already-absent", deleted |-> "already-absent"][reservation[r][p]]

\* The R2Lab helper looks the lease up by its recorded interval and refuses
\* when it does not find it there, so a second release of it fails.
Repeatable(r, p) == p = "r2lab" => reservation[r][p] # "deleted"

TeardownActs(outcome) ==
    /\ TeardownAt("phase")
    /\ ~Done(teardown.run, teardown.phase) /\ ~Waived(teardown.phase)
    /\ teardown' = [teardown EXCEPT !.pc = "recording", !.outcome = outcome]
    /\ UNCHANGED <<locks, files, deploy, experiment>>

TeardownPhaseSucceeds ==
    LET r == teardown.run
        p == teardown.phase
    IN  /\ TeardownActs(Outcome(r, p))
        /\ Repeatable(r, p)
        /\ Perform(r, p)

\* Mutant of TeardownPhaseFails: the exit code of the command is lost.
TeardownPhaseSwallows ==
    /\ TeardownActs("succeeded")
    /\ UNCHANGED world \/ Perform(teardown.run, teardown.phase)

\* The playbook or the provider reports a failure, before or after the effect.
TeardownPhaseFails ==
    /\ TeardownActs("failed")
    /\ UNCHANGED world \/ Perform(teardown.run, teardown.phase)

\* Mutant of TeardownRecord: a failed phase is tried again in place.
TeardownRecordAndRetry ==
    /\ TeardownAt("recording")
    /\ result[teardown.run].status = "stopping"
    /\ Record(teardown.phase, teardown.outcome)
    /\ IF teardown.outcome = "failed" THEN TeardownGoes("phase")
                                      ELSE TeardownAdvance("none")
    /\ UNCHANGED <<locks, identity, endpoint, candidate, evidence, world,
                   deploy, experiment>>

\* record_phase for the outcome of the command.
TeardownRecord ==
    /\ TeardownAt("recording")
    /\ result[teardown.run].status = "stopping"
    /\ Record(teardown.phase, teardown.outcome)
    /\ IF teardown.outcome = "failed" THEN TeardownGoes("failing-result")
                                      ELSE TeardownAdvance("none")
    /\ UNCHANGED <<locks, identity, endpoint, candidate, evidence, world,
                   deploy, experiment>>

\* complete_teardown: every required phase must have retained success.
TeardownCompleteResult ==
    /\ TeardownAt("completing-result")
    /\ result[teardown.run].status = "stopping"
    /\ \A p \in Phases : Done(teardown.run, p)
    /\ result' = [result EXCEPT ![teardown.run].status = "torn-down"]
    /\ TeardownGoes("completing-endpoint")
    /\ UNCHANGED <<locks, identity, endpoint, candidate, evidence, world,
                   deploy, experiment>>

TeardownCompleteEndpoint ==
    /\ TeardownAt("completing-endpoint")
    /\ EndpointIs("stopping") /\ endpoint.run = teardown.run
    /\ endpoint' = [endpoint EXCEPT !.status = "torn-down"]
    /\ TeardownExits
    /\ UNCHANGED <<identity, candidate, evidence, result, world,
                   deploy, experiment>>

\* An OSError (a full disk, an unreadable file) reaches the except clause of
\* execute, which records the failure.
TeardownControllerError ==
    /\ teardown.pc \in {"phase", "recording", "completing-result", "completing-endpoint"}
    /\ TeardownGoes("failing-result")
    /\ UNCHANGED <<locks, files, world, deploy, experiment>>

\* fail_teardown: the result is written before the endpoint.
TeardownFailResult ==
    /\ TeardownAt("failing-result")
    /\ result' = [result EXCEPT ![teardown.run].status = "cleanup-failed"]
    /\ TeardownGoes("failing-endpoint")
    /\ UNCHANGED <<locks, identity, endpoint, candidate, evidence, world,
                   deploy, experiment>>

TeardownFailEndpoint ==
    /\ TeardownAt("failing-endpoint")
    /\ EndpointIs("stopping") /\ endpoint.run = teardown.run
    /\ endpoint' = [endpoint EXCEPT !.status = "cleanup-failed"]
    /\ TeardownExits
    /\ UNCHANGED <<identity, candidate, evidence, result, world,
                   deploy, experiment>>

Teardown ==
    \/ \E options \in Options : TeardownStart(options)
    \/ TeardownTakeExperimentLock \/ TeardownBegin \/ TeardownRefused
    \/ TeardownFence
    \/ TeardownPhaseRetained \/ TeardownPhaseWaived
    \/ TeardownPhaseSucceeds \/ TeardownPhaseFails \/ TeardownRecord
    \/ TeardownCompleteResult \/ TeardownCompleteEndpoint
    \/ TeardownControllerError \/ TeardownFailResult \/ TeardownFailEndpoint

----------------------------------------------------------------------------
(* experiment.sh: the attachments of experiment_runtime/runner.py.  Each    *)
(* one reads the endpoint and, later, the identity and the evidence.        *)

ExperimentGoes(pc, r) == experiment' = [pc |-> pc, run |-> r]

ExperimentStart ==
    /\ experiment.pc = "idle" /\ experimentLock = "free"
    /\ experimentLock' = "experiment"
    /\ ExperimentGoes("ready", NoRun)
    /\ UNCHANGED <<deployLock, files, world, deploy, teardown>>

\* prepare (ready), run (prepared) and cleanup (finished) read the endpoint.
ReadsEndpoint == [ready |-> "attaching", prepared |-> "reattaching",
                  finished |-> "detaching"]
ReadsIdentity == [attaching |-> "prepared", reattaching |-> "probing",
                  detaching |-> "ready"]

\* Mutant of EndpointFits: the status of the endpoint is not read.
EndpointNamesRun == experiment.pc # "ready" => endpoint.run = experiment.run

\* The saved snapshot of prepare fixes the deployment hash later reads need.
\* The hash identifies the run: it covers deployment-vars.yml, with its run_dir.
EndpointFits ==
    /\ EndpointIs("accepted-testbed")
    /\ experiment.pc # "ready" => endpoint.run = experiment.run

ExperimentReadEndpoint ==
    /\ experiment.pc \in DOMAIN ReadsEndpoint
    /\ EndpointFits
    /\ ExperimentGoes(ReadsEndpoint[experiment.pc], endpoint.run)
    /\ UNCHANGED <<locks, files, world, deploy, teardown>>

ExperimentReadIdentity ==
    /\ experiment.pc \in DOMAIN ReadsIdentity
    /\ Attested(experiment.run)
    /\ ExperimentGoes(ReadsIdentity[experiment.pc],
                      IF experiment.pc = "detaching" THEN NoRun ELSE experiment.run)
    /\ UNCHANGED <<locks, files, world, deploy, teardown>>

\* prove_experiment_eligible after the probe playbook: the identity is read
\* again, the endpoint is not.
ExperimentProve ==
    /\ experiment.pc = "probing"
    /\ IdentityAccepted(experiment.run)
    /\ ExperimentGoes("workload", experiment.run)
    /\ UNCHANGED <<locks, files, world, deploy, teardown>>

\* The workload playbook ends; _victim_run then always calls cleanup.
ExperimentWorkloadEnds ==
    /\ experiment.pc = "workload"
    /\ ExperimentGoes("finished", experiment.run)
    /\ UNCHANGED <<locks, files, world, deploy, teardown>>

\* A refused attachment or a failed probe: prepare gives up, run goes on to
\* its cleanup, and a refused cleanup is given up.
ExperimentRefused ==
    /\ \/ experiment.pc \in DOMAIN ReadsEndpoint /\ ~EndpointFits
       \/ experiment.pc \in DOMAIN ReadsIdentity /\ ~Attested(experiment.run)
       \/ experiment.pc = "probing"
    /\ IF experiment.pc \in {"prepared", "reattaching", "probing"}
       THEN ExperimentGoes("finished", experiment.run)
       ELSE ExperimentGoes("ready", NoRun)
    /\ UNCHANGED <<locks, files, world, deploy, teardown>>

ExperimentExit ==
    /\ experiment.pc = "ready"
    /\ experimentLock' = "free"
    /\ ExperimentGoes("idle", NoRun)
    /\ UNCHANGED <<deployLock, files, world, deploy, teardown>>

Experiment ==
    \/ ExperimentStart \/ ExperimentReadEndpoint \/ ExperimentReadIdentity
    \/ ExperimentProve \/ ExperimentWorkloadEnds \/ ExperimentRefused
    \/ ExperimentExit

----------------------------------------------------------------------------
(* The provider ends an event at its booked end time.                       *)
ReservationEnds ==
    /\ \E r \in Runs, p \in Reservations :
          /\ reservation[r][p] = "held"
          /\ reservation' = [reservation EXCEPT ![r][p] = "ended"]
    /\ UNCHANGED <<locks, files, running, deploy, teardown, experiment>>

(* A controller is cancelled or killed, or (teardown) an error keeps it from *)
(* retaining its failure state: its flock locks go with the process and no   *)
(* file changes.                                                             *)
DeployDies ==
    /\ "deploy" \in Crashing /\ ~DeployAt("idle") /\ DeployExits
    /\ UNCHANGED <<experimentLock, files, world, teardown, experiment>>

TeardownDies ==
    /\ "teardown" \in Crashing /\ ~TeardownAt("idle") /\ TeardownExits
    /\ UNCHANGED <<files, world, deploy, experiment>>

ExperimentDies ==
    /\ "experiment" \in Crashing /\ experiment.pc # "idle"
    /\ experimentLock' = "free"
    /\ ExperimentGoes("idle", NoRun)
    /\ UNCHANGED <<deployLock, files, world, deploy, teardown>>

Next ==
    \/ Deploy \/ Teardown \/ Experiment
    \/ ReservationEnds \/ DeployDies \/ TeardownDies \/ ExperimentDies

Spec == Init /\ [][Next]_vars

\* Once started, a controller is ordinary sequential code: it keeps running.
TeardownProgress == Teardown /\ ~TeardownAt("idle")
FairSpec == Spec /\ WF_vars(TeardownProgress)

----------------------------------------------------------------------------
(* Properties.                                                              *)

DeployPC == {"idle", "invalidating", "unlinking", "acquiring", "provisioning",
             "sealing", "sealing-evidence", "accepting", "publishing-identity",
             "publishing-endpoint", "finishing"}
TeardownPC == {"idle", "locking", "resolving", "fencing", "phase", "recording",
               "completing-result", "completing-endpoint", "failing-result",
               "failing-endpoint"}
ExperimentPC == {"idle", "ready", "workload", "probing", "prepared", "finished",
                 "attaching", "reattaching", "detaching"}

EndpointStatus == {"absent", "accepted-testbed", "stopping", "cleanup-failed", "torn-down"}

Results == [status : {"absent", "stopping", "cleanup-failed", "torn-down"},
            phases : [Phases -> PhaseStatus]]
Bookings == [Reservations -> {"none", "held", "ended", "deleted"}]
TeardownStates == [pc : TeardownPC, run : Runs \cup {NoRun}, phase : Phases,
                   outcome : PhaseStatus,
                   options : [deleteNamespace : BOOLEAN, keep : BOOLEAN]]

\* The type of every variable.
TypeOK ==
    /\ deployLock \in {"free", "deploy", "teardown"}
    /\ experimentLock \in {"free", "teardown", "experiment"}
    /\ identity \in [status : {"absent", "invalidated", "accepted-testbed"},
                     run : Runs \cup {NoRun}]
    /\ endpoint \in [status : EndpointStatus, run : Runs \cup {NoRun}]
    /\ candidate \in [Runs -> {"unused", "started", "candidate",
                               "provisioning-complete", "accepted-testbed", "failed"}]
    /\ evidence \in [Runs -> {"absent", "provisioned", "sealed"}]
    /\ result \in [Runs -> Results]
    /\ running \in [Runs -> SUBSET Stoppable]
    /\ reservation \in [Runs -> Bookings]
    /\ deploy \in [pc : DeployPC, run : Runs \cup {NoRun}]
    /\ teardown \in TeardownStates
    /\ experiment \in [pc : ExperimentPC, run : Runs \cup {NoRun}]

\* A teardown that has begun (its result is written) and not yet exited.
TearingDown == ~(teardown.pc \in {"idle", "locking", "resolving"})

\* The controller mutates hosts and provider state only between the fence and
\* the last endpoint write (teardown.py: "the accepted deployment is fenced
\* before the first destructive action").
Mutating == TearingDown /\ ~TeardownAt("fencing")

\* A teardown never overlaps a deployment or an experiment controller, from
\* the moment it resolves its authority, whoever dies in between.
TeardownExcludesOthers ==
    TearingDown => DeployAt("idle") /\ experiment.pc = "idle"

\* A published endpoint names an accepted, sealed run whose identity is either
\* the active one or already withdrawn: no attachment can mix two deployments.
EndpointNamesOneDeployment ==
    ~EndpointIs("absent") =>
        /\ candidate[endpoint.run] = "accepted-testbed"
        /\ evidence[endpoint.run] = "sealed"
        /\ identity.status = "invalidated" \/ IdentityAccepted(endpoint.run)

\* While resources are being removed the endpoint is fenced for that very run.
FencedWhileMutating ==
    Mutating => EndpointIs("stopping") /\ endpoint.run = teardown.run

\* A teardown works alone and behind its fence: from the moment it resolves its
\* authority nobody else is at work, and no host or provider is touched before
\* the endpoint refuses new attachments.
FencedAlone == TeardownExcludesOthers /\ FencedWhileMutating

\* Evidence is true: a phase retained as performed has really happened, across
\* failed attempts, crashes and retries.
RetainedEvidenceIsTrue ==
    \A r \in Runs, p \in Phases :
        result[r].phases[p] \in {"succeeded", "released", "already-absent"} =>
            IF p \in Stoppable THEN p \notin running[r] ELSE reservation[r][p] # "held"

\* "Publish torn-down only after every teardown phase has retained success
\* evidence": and then no radio or UE of that run is still up.
TornDownIsProven ==
    EndpointIs("torn-down") =>
        /\ result[endpoint.run].status = "torn-down"
        /\ \A p \in Phases : Done(endpoint.run, p)
        /\ "resources" \notin running[endpoint.run]

\* What is on file is of one deployment and true of the world, attempt after
\* attempt: the endpoint and the run it names, the phases a teardown retains and
\* the torn-down endpoint it publishes.
EvidenceHolds == EndpointNamesOneDeployment /\ RetainedEvidenceIsTrue /\ TornDownIsProven

\* No step erases or changes a retained success ("without erasing earlier
\* successful retry evidence").
SuccessIsRetained ==
    [][\A r \in Runs, p \in Phases :
           Done(r, p) => result'[r].phases[p] = result[r].phases[p]]_vars

\* An experiment holding an attachment is never overtaken by a teardown of its
\* deployment; only a new deployment can withdraw it.
AttachmentIsNotFenced ==
    (experiment.run # NoRun /\ endpoint.run = experiment.run) =>
        EndpointIs("accepted-testbed")

\* A teardown at work always ends, and only its death ends it with the testbed
\* still fenced: any other end is a verdict, torn-down or cleanup-failed.
FencedTestbedSettles ==
    /\ TearingDown ~> TeardownAt("idle")
    /\ [][TearingDown /\ TeardownAt("idle")' /\ EndpointIs("stopping")' => TeardownDies]_vars

----------------------------------------------------------------------------
(* The contract of TestbedContract, read off the files.                     *)

Stage == CASE EndpointIs("absent")           -> "none"
           [] EndpointIs("accepted-testbed") -> "accepted"
           [] EndpointIs("stopping")         -> "stopping"
           [] EndpointIs("cleanup-failed")   -> "failed"
           [] EndpointIs("torn-down")        -> "down"

\* Runs that are still unused, or being deployed and not yet published.
Publishable ==
    {r \in Runs : candidate[r] = "unused" \/ (r = deploy.run /\ ~DeployAt("finishing"))}

Contract == INSTANCE TestbedContract
            WITH stage <- Stage, current <- endpoint.run,
                 fresh <- Publishable, attached <- experiment.run

\* The three controllers, with every interleaving and death, implement the
\* contract: at most one testbed, published once, fenced for good, and never
\* fenced under an experiment.
ContractImplemented == Contract!Spec
=============================================================================
