---------------------- MODULE TestbedLifecycleInvariant ----------------------
(***************************************************************************)
(* The inductive invariant of TestbedLifecycle: what the locks, the order   *)
(* of the file writes and the phase records guarantee together at every     *)
(* interleaving.  TLC checks it, TestbedLifecycleProofs proves it.          *)
(***************************************************************************)
EXTENDS TestbedLifecycle

\* A lock is held exactly while its holder is past the step that takes it.
LockInv ==
    /\ deployLock = "deploy"         <=> ~DeployAt("idle")
    /\ deployLock = "teardown"       <=> ~TeardownAt("idle")
    /\ experimentLock = "experiment" <=> experiment.pc # "idle"
    /\ experimentLock = "teardown"   <=> teardown.pc \notin {"idle", "locking"}

\* No phase of the run's teardown result has been recorded.
Untouched(r) == \A p \in Phases : result[r].phases[p] = "none"

BeforeAcceptance == {"invalidating", "unlinking", "acquiring", "provisioning",
                     "sealing", "sealing-evidence", "accepting"}
Publishing == {"publishing-identity", "publishing-endpoint"}

\* What a deployment has withdrawn, and what it has proved, at each step.
DeployInv ==
    /\ DeployAt("idle") <=> deploy.run = NoRun
    /\ deploy.pc \in (BeforeAcceptance \ {"invalidating", "unlinking"}) \cup Publishing =>
           EndpointIs("absent")
    /\ deploy.pc \in (BeforeAcceptance \ {"invalidating"}) \cup {"publishing-identity"} =>
           identity.status = "invalidated"
    /\ deploy.pc \in BeforeAcceptance =>
           candidate[deploy.run] \in {"started", "candidate", "provisioning-complete"}
    /\ deploy.pc \in Publishing \cup {"finishing"} =>
           candidate[deploy.run] = "accepted-testbed" /\ evidence[deploy.run] = "sealed"
    /\ DeployAt("publishing-endpoint") => IdentityAccepted(deploy.run)
    /\ ~DeployAt("idle") => Untouched(deploy.run)

EndpointInv ==
    /\ EndpointIs("absent") <=> endpoint.run = NoRun
    /\ EndpointNamesOneDeployment
    /\ EndpointIs("accepted-testbed") => Untouched(endpoint.run)

\* A teardown at work owns the endpoint and the result of its run.
TeardownInv ==
    /\ TearingDown => teardown.run # NoRun /\ endpoint.run = teardown.run
    /\ TeardownAt("fencing") => endpoint.status \in {"accepted-testbed", "cleanup-failed"}
    /\ Mutating => EndpointIs("stopping")
    /\ teardown.pc \in {"fencing", "phase", "recording", "completing-result"} =>
           result[teardown.run].status = "stopping"
    /\ TeardownAt("completing-endpoint") =>
           /\ result[teardown.run].status = "torn-down"
           /\ \A p \in Phases : Done(teardown.run, p)
    /\ TeardownAt("recording") =>
           /\ ~Done(teardown.run, teardown.phase)
           /\ ~Waived(teardown.phase)

Performed == {"succeeded", "released", "already-absent"}

\* The effect that stands behind a status "performed" of phase p.
Gone(r, p) == IF p \in Stoppable THEN p \notin running[r] ELSE reservation[r][p] # "held"

\* Only an accepted run has a teardown result with a recorded phase.
RecordInv ==
    \A r \in Runs : ~Untouched(r) =>
        candidate[r] = "accepted-testbed" /\ result[r].status # "absent"

\* A phase recorded, or about to be recorded, as performed has happened.
PerformedInv ==
    /\ \A r \in Runs, p \in Phases : result[r].phases[p] \in Performed => Gone(r, p)
    /\ TeardownAt("recording") /\ teardown.outcome \in Performed =>
           Gone(teardown.run, teardown.phase)

\* The radios of a physical run are never waived, and no other run has any.
ResourcesInv ==
    /\ \A r \in Physical : Done(r, "resources") => result[r].phases["resources"] = "succeeded"
    /\ TeardownAt("recording") /\ teardown.phase = "resources" =>
           teardown.outcome \in {"succeeded", "failed"}
    /\ \A r \in Runs \ Physical : "resources" \notin running[r]

EvidenceInv == RecordInv /\ PerformedInv /\ ResourcesInv

TornDownInv ==
    EndpointIs("torn-down") =>
        /\ result[endpoint.run].status = "torn-down"
        /\ \A p \in Phases : Done(endpoint.run, p)

ExperimentInv ==
    /\ experiment.pc \in {"idle", "ready"} => experiment.run = NoRun
    /\ AttachmentIsNotFenced

IInv ==
    /\ TypeOK /\ LockInv /\ DeployInv /\ EndpointInv /\ TeardownInv
    /\ EvidenceInv /\ TornDownInv /\ ExperimentInv
=============================================================================
