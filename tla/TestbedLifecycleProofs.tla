----------------------- MODULE TestbedLifecycleProofs -----------------------
(***************************************************************************)
(* IInv is an inductive invariant of TestbedLifecycle for every set of      *)
(* runs, every reservation policy, every set of teardown options and every  *)
(* choice of the controllers that may die; the safety properties the runs   *)
(* check follow from it.  One lemma per part of IInv says that a step of    *)
(* any controller preserves that part, given the whole invariant before it. *)
(*                                                                         *)
(* The last part of the module is about the archive that the evidence of a *)
(* run goes to: ArchiveInv is an inductive invariant of EvidenceArchive for *)
(* any files, contents and kinds, and its safety properties follow.         *)
(***************************************************************************)
EXTENDS TestbedLifecycleInvariant, EvidenceArchive, TLAPS

----------------------------------------------------------------------------
(* Type correctness.                                                        *)

\* A step of deploy.sh keeps every variable in its type.
LEMMA DeployTypes ==
    ASSUME TypeOK, Deploy
    PROVE  TypeOK'
<1> USE DEF TypeOK, DeployAt, DeployGoes, DeployPC, locks, files, world
<1>1. ASSUME NEW r \in Runs, DeployStart(r) PROVE TypeOK'
  BY <1>1 DEF DeployStart
<1>2. CASE DeployInvalidateIdentity
  BY <1>2 DEF DeployInvalidateIdentity
<1>3. CASE DeployUnlinkEndpoint
  BY <1>3 DEF DeployUnlinkEndpoint, EndpointStatus
<1>4. ASSUME NEW owned, Book(deploy.run, owned)
      PROVE  reservation' \in [Runs -> Bookings]
  BY <1>4 DEF Book, Bookings
<1>5. ASSUME NEW owned \in SUBSET Reservations, DeployAcquire(owned) PROVE TypeOK'
  <2>1. Book(deploy.run, owned)
    BY <1>5 DEF DeployAcquire
  <2> QED BY <1>4, <1>5, <2>1 DEF DeployAcquire
<1>6. ASSUME NEW owned \in SUBSET Reservations, DeployAcquireFails(owned) PROVE TypeOK'
  <2>1. Book(deploy.run, owned)
    BY <1>6 DEF DeployAcquireFails
  <2> QED BY <1>4, <1>6, <2>1 DEF DeployAcquireFails, DeployExits
<1>7. CASE DeployProvision
  BY <1>7 DEF DeployProvision, Provisioned, Stoppable
<1>8. CASE DeploySealCandidate
  BY <1>8 DEF DeploySealCandidate
<1>9. CASE DeploySealEvidence
  BY <1>9 DEF DeploySealEvidence
<1>10. CASE DeployAcceptCandidate
  BY <1>10 DEF DeployAcceptCandidate
<1>11. CASE DeployPublishIdentity
  BY <1>11 DEF DeployPublishIdentity
<1>12. CASE DeployPublishEndpoint
  BY <1>12 DEF DeployPublishEndpoint, EndpointStatus
<1>13. CASE DeployFinish
  BY <1>13 DEF DeployFinish, DeployExits
<1>14. ASSUME NEW up \in SUBSET Stoppable, DeployStepFails(up) PROVE TypeOK'
  BY <1>14 DEF DeployStepFails, MarkFailed, DeployExits, Stoppable
<1> QED
  BY <1>1, <1>2, <1>3, <1>5, <1>6, <1>7, <1>8, <1>9, <1>10, <1>11, <1>12,
     <1>13, <1>14 DEF Deploy

\* A step of teardown.sh keeps every variable in its type.  That a teardown at
\* work has a run is what gives the outcome of its phases a value.
LEMMA TeardownTypes ==
    ASSUME TypeOK, TeardownInv, Teardown
    PROVE  TypeOK'
<1> USE DEF TypeOK, TeardownAt, TeardownGoes, locks, files, world
<1>0. "none" \in PhaseStatus /\ "failed" \in PhaseStatus
  BY DEF PhaseStatus
<1>1. TeardownIdle \in TeardownStates
  BY <1>0 DEF TeardownIdle, TeardownStates, TeardownPC, NoOptions, Phases, Stoppable
<1>2. ASSUME NEW pc \in TeardownPC, TeardownGoes(pc)
      PROVE  teardown' \in TeardownStates
  BY <1>2 DEF TeardownStates
<1>3. ASSUME TeardownExits
      PROVE  /\ deployLock' \in {"free", "deploy", "teardown"}
             /\ experimentLock' \in {"free", "teardown", "experiment"}
             /\ teardown' \in TeardownStates
  BY <1>1, <1>3 DEF TeardownExits
<1>4. ASSUME NEW outcome \in PhaseStatus, TeardownAdvance(outcome)
      PROVE  teardown' \in TeardownStates
  <2>1. After[teardown.phase] \in Phases \cup {"complete"}
    BY DEF TeardownStates, After, Phases, Stoppable, Reservations
  <2> QED BY <1>4, <2>1 DEF TeardownAdvance, TeardownStates, TeardownPC
<1>5. ASSUME NEW outcome \in PhaseStatus, TeardownActs(outcome)
      PROVE  teardown' \in TeardownStates
  BY <1>5 DEF TeardownActs, TeardownStates, TeardownPC
<1>6. ASSUME NEW p \in Phases, NEW record \in PhaseStatus, Record(p, record)
      PROVE  result' \in [Runs -> Results]
  BY <1>6 DEF Record, Results
<1>7. ASSUME NEW r, NEW p, Perform(r, p)
      PROVE  /\ running' \in [Runs -> SUBSET Stoppable]
             /\ reservation' \in [Runs -> Bookings]
  <2>1. CASE p \in Stoppable
    BY <1>7, <2>1 DEF Perform, Stop
  <2>2. CASE p \notin Stoppable
    BY <1>7, <2>2 DEF Perform, Release, Bookings
  <2> QED BY <2>1, <2>2
<1>8. teardown.phase \in Phases /\ teardown.outcome \in PhaseStatus
  BY DEF TeardownStates
<1>10. ASSUME NEW options \in Options, TeardownStart(options) PROVE TypeOK'
  BY <1>1, <1>10, OptionsAssumption DEF TeardownStart, TeardownStates, TeardownPC
<1>11. CASE TeardownTakeExperimentLock
  BY <1>2, <1>11 DEF TeardownTakeExperimentLock, TeardownPC
<1>12. CASE TeardownBegin
  <2>1. teardown' \in TeardownStates
    BY <1>12 DEF TeardownBegin, TeardownStates, TeardownPC
  <2>2. result' \in [Runs -> Results]
    BY <1>0, <1>12 DEF TeardownBegin, Results, NoPhases
  <2> QED BY <1>12, <2>1, <2>2 DEF TeardownBegin
<1>13. CASE TeardownRefused
  BY <1>3, <1>13 DEF TeardownRefused
<1>14. CASE TeardownFence
  BY <1>2, <1>14 DEF TeardownFence, EndpointStatus, TeardownPC
<1>15. CASE TeardownPhaseRetained
  BY <1>0, <1>4, <1>15 DEF TeardownPhaseRetained
<1>16. CASE TeardownPhaseWaived
  <2> DEFINE record == IF teardown.phase \in Reservations THEN "preserved" ELSE "skipped"
  <2>1. teardown' \in TeardownStates
    BY <1>0, <1>4, <1>16 DEF TeardownPhaseWaived
  <2>2. record \in PhaseStatus
    BY DEF PhaseStatus, PhaseSuccess
  <2>3. Record(teardown.phase, record)
    BY <1>16 DEF TeardownPhaseWaived
  <2>4. result' \in [Runs -> Results]
    BY <1>6, <1>8, <2>2, <2>3
  <2> QED BY <1>16, <2>1, <2>4 DEF TeardownPhaseWaived
<1>17. CASE TeardownPhaseSucceeds
  <2>1. teardown.run \in Runs
    BY <1>17 DEF TeardownPhaseSucceeds, TeardownActs, TeardownInv, TearingDown, TeardownStates
  <2>2. Outcome(teardown.run, teardown.phase) \in PhaseStatus
    BY <1>8, <2>1 DEF Outcome, PhaseStatus, PhaseSuccess, Phases, Bookings, Reservations
  <2>3. TeardownActs(Outcome(teardown.run, teardown.phase))
        /\ Perform(teardown.run, teardown.phase)
    BY <1>17 DEF TeardownPhaseSucceeds
  <2> QED BY <1>5, <1>7, <2>2, <2>3 DEF TeardownActs
<1>18. CASE TeardownPhaseFails
  <2>1. TeardownActs("failed")
    BY <1>18 DEF TeardownPhaseFails
  <2>2. teardown' \in TeardownStates
    BY <1>0, <1>5, <2>1
  <2>3. running' \in [Runs -> SUBSET Stoppable] /\ reservation' \in [Runs -> Bookings]
    BY <1>7, <1>18 DEF TeardownPhaseFails
  <2> QED BY <2>1, <2>2, <2>3 DEF TeardownActs
<1>19. CASE TeardownRecord
  <2>1. result' \in [Runs -> Results]
    BY <1>6, <1>8, <1>19 DEF TeardownRecord
  <2>2. teardown' \in TeardownStates
    BY <1>0, <1>2, <1>4, <1>19 DEF TeardownRecord, TeardownPC
  <2> QED BY <1>19, <2>1, <2>2 DEF TeardownRecord
<1>20. CASE TeardownCompleteResult
  <2>1. result' \in [Runs -> Results]
    BY <1>20 DEF TeardownCompleteResult, Results
  <2>2. teardown' \in TeardownStates
    BY <1>2, <1>20 DEF TeardownCompleteResult, TeardownPC
  <2> QED BY <1>20, <2>1, <2>2 DEF TeardownCompleteResult
<1>21. CASE TeardownCompleteEndpoint
  BY <1>3, <1>21 DEF TeardownCompleteEndpoint, EndpointStatus
<1>22. CASE TeardownControllerError
  BY <1>2, <1>22 DEF TeardownControllerError, TeardownPC
<1>23. CASE TeardownFailResult
  <2>1. result' \in [Runs -> Results]
    BY <1>23 DEF TeardownFailResult, Results
  <2>2. teardown' \in TeardownStates
    BY <1>2, <1>23 DEF TeardownFailResult, TeardownPC
  <2> QED BY <1>23, <2>1, <2>2 DEF TeardownFailResult
<1>24. CASE TeardownFailEndpoint
  BY <1>3, <1>24 DEF TeardownFailEndpoint, EndpointStatus
<1> QED
  BY <1>10, <1>11, <1>12, <1>13, <1>14, <1>15, <1>16, <1>17, <1>18, <1>19,
     <1>20, <1>21, <1>22, <1>23, <1>24 DEF Teardown

\* A step of experiment.sh, of a provider or of a dying controller keeps every
\* variable in its type.
LEMMA OtherTypes ==
    ASSUME TypeOK,
           Experiment \/ ReservationEnds \/ DeployDies \/ TeardownDies \/ ExperimentDies
    PROVE  TypeOK'
<1> USE DEF TypeOK, locks, files, world, ExperimentGoes, ExperimentPC
<1>1. CASE ExperimentStart \/ ExperimentExit \/ ExperimentDies
  BY <1>1 DEF ExperimentStart, ExperimentExit, ExperimentDies
<1>2. CASE ExperimentReadEndpoint \/ ExperimentReadIdentity \/ ExperimentRefused
  BY <1>2 DEF ExperimentReadEndpoint, ExperimentReadIdentity, ExperimentRefused,
              ReadsEndpoint, ReadsIdentity
<1>3. CASE ExperimentProve \/ ExperimentWorkloadEnds
  BY <1>3 DEF ExperimentProve, ExperimentWorkloadEnds
<1>4. CASE ReservationEnds
  BY <1>4 DEF ReservationEnds, Bookings
<1>5. CASE DeployDies
  BY <1>5 DEF DeployDies, DeployExits, DeployPC
<1>6. CASE TeardownDies
  BY <1>6 DEF TeardownDies, TeardownExits, TeardownIdle, TeardownStates, TeardownPC,
              NoOptions, Phases, Stoppable, PhaseStatus
<1> QED BY <1>1, <1>2, <1>3, <1>4, <1>5, <1>6 DEF Experiment

\* Every step keeps every variable in its type.
LEMMA TypeStep ==
    ASSUME IInv, Next
    PROVE  TypeOK'
BY DeployTypes, TeardownTypes, OtherTypes DEF IInv, Next

----------------------------------------------------------------------------
(* What the two ways of going on from a phase do to the controller.         *)

\* After a phase the controller goes on to the next one or completes.
LEMMA AdvanceGoes ==
    ASSUME TypeOK, NEW outcome, TeardownAdvance(outcome)
    PROVE  /\ teardown'.pc \in {"phase", "completing-result"}
           /\ teardown'.run = teardown.run
BY DEF TypeOK, TeardownStates, TeardownAdvance

\* After a command the controller records its outcome and goes on or fails.
LEMMA RecordGoes ==
    ASSUME TypeOK, TeardownRecord
    PROVE  /\ teardown'.pc \in {"phase", "completing-result", "failing-result"}
           /\ teardown'.run = teardown.run
<1>1. CASE teardown.outcome = "failed"
  BY <1>1 DEF TeardownRecord, TeardownGoes, TypeOK, TeardownStates
<1>2. CASE teardown.outcome # "failed"
  BY <1>2, AdvanceGoes DEF TeardownRecord
<1> QED BY <1>1, <1>2

----------------------------------------------------------------------------
(* The locks.                                                               *)

\* The locks are held by exactly the controllers that are at work.
LEMMA LockStep ==
    ASSUME IInv, Next
    PROVE  LockInv'
<1> USE DEF IInv, LockInv, DeployAt, TeardownAt, locks
<1>1. CASE Deploy
  BY <1>1 DEF Deploy, DeployGoes, DeployExits, DeployStart, DeployInvalidateIdentity,
     DeployUnlinkEndpoint, DeployAcquire, DeployAcquireFails, DeployProvision,
     DeploySealCandidate, DeploySealEvidence, DeployAcceptCandidate,
     DeployPublishIdentity, DeployPublishEndpoint, DeployFinish, DeployStepFails, TypeOK
<1>2. CASE Teardown
  <2> USE DEF TeardownGoes, TypeOK, TeardownStates
  <2>1. ASSUME NEW options \in Options, TeardownStart(options) PROVE LockInv'
    BY <2>1 DEF TeardownStart, TeardownIdle
  <2>2. CASE TeardownTakeExperimentLock \/ TeardownBegin \/ TeardownFence
    BY <2>2 DEF TeardownTakeExperimentLock, TeardownBegin, TeardownFence
  <2>3. CASE TeardownRefused \/ TeardownCompleteEndpoint \/ TeardownFailEndpoint
    BY <2>3 DEF TeardownRefused, TeardownCompleteEndpoint, TeardownFailEndpoint,
                TeardownExits, TeardownIdle
  <2>4. CASE TeardownPhaseRetained \/ TeardownPhaseWaived
    BY <2>4, AdvanceGoes DEF TeardownPhaseRetained, TeardownPhaseWaived
  <2>5. CASE TeardownPhaseSucceeds \/ TeardownPhaseFails
    BY <2>5 DEF TeardownPhaseSucceeds, TeardownPhaseFails, TeardownActs
  <2>6. CASE TeardownRecord
    BY <2>6, RecordGoes DEF TeardownRecord
  <2>7. CASE TeardownCompleteResult \/ TeardownControllerError \/ TeardownFailResult
    BY <2>7 DEF TeardownCompleteResult, TeardownControllerError, TeardownFailResult
  <2> QED BY <1>2, <2>1, <2>2, <2>3, <2>4, <2>5, <2>6, <2>7 DEF Teardown
<1>3. CASE Experiment
  BY <1>3 DEF Experiment, ExperimentGoes, ExperimentStart, ExperimentReadEndpoint,
     ExperimentReadIdentity, ExperimentProve, ExperimentWorkloadEnds,
     ExperimentRefused, ExperimentExit, ReadsEndpoint, ReadsIdentity
<1>4. CASE ReservationEnds \/ DeployDies \/ TeardownDies \/ ExperimentDies
  BY <1>4 DEF ReservationEnds, DeployDies, DeployExits, TeardownDies, TeardownExits,
     TeardownIdle, ExperimentDies, ExperimentGoes
<1> QED BY <1>1, <1>2, <1>3, <1>4 DEF Next

\* A teardown runs without a deployment and leaves deploy.sh alone.
LEMMA TeardownAlone ==
    ASSUME IInv, Teardown
    PROVE  /\ DeployAt("idle") /\ UNCHANGED <<deploy, identity, candidate, evidence>>
           /\ TearingDown => experiment.pc = "idle"
           /\ UNCHANGED experiment
<1>1. deployLock = "free" \/ ~TeardownAt("idle")
  BY DEF Teardown, TeardownStart, TeardownTakeExperimentLock, TeardownBegin,
     TeardownRefused, TeardownFence, TeardownPhaseRetained, TeardownPhaseWaived,
     TeardownPhaseSucceeds, TeardownPhaseFails, TeardownActs, TeardownRecord,
     TeardownCompleteResult, TeardownCompleteEndpoint, TeardownControllerError,
     TeardownFailResult, TeardownFailEndpoint, TeardownAt
<1>2. UNCHANGED <<deploy, identity, candidate, evidence>> /\ UNCHANGED experiment
  BY DEF Teardown, TeardownStart, TeardownTakeExperimentLock, TeardownBegin,
     TeardownRefused, TeardownFence, TeardownPhaseRetained, TeardownPhaseWaived,
     TeardownPhaseSucceeds, TeardownPhaseFails, TeardownActs, TeardownRecord,
     TeardownCompleteResult, TeardownCompleteEndpoint, TeardownControllerError,
     TeardownFailResult, TeardownFailEndpoint, files
<1> QED BY <1>1, <1>2 DEF IInv, LockInv, DeployAt, TeardownAt, TearingDown

\* An experiment, a provider or a death changes no file.
LEMMA OthersWriteNothing ==
    ASSUME Experiment \/ ReservationEnds \/ DeployDies \/ TeardownDies \/ ExperimentDies
    PROVE  UNCHANGED <<identity, endpoint, candidate, evidence, result, running>>
BY DEF Experiment, ExperimentStart, ExperimentReadEndpoint, ExperimentReadIdentity,
   ExperimentProve, ExperimentWorkloadEnds, ExperimentRefused, ExperimentExit,
   ReservationEnds, DeployDies, TeardownDies, ExperimentDies, files, world

----------------------------------------------------------------------------
(* Deployment.                                                              *)

\* What a deployment has withdrawn and proved so far stays so, because no
\* teardown writes while it holds deploy.lock.
LEMMA DeployStep ==
    ASSUME IInv, Next
    PROVE  DeployInv'
<1> USE RunsAssumption
        DEF IInv, TypeOK, DeployInv, BeforeAcceptance, Publishing, IdentityAccepted,
            DeployAt, EndpointIs, Untouched
<1>1. CASE Deploy
  <2> USE DEF DeployGoes, DeployExits
  <2>1. ASSUME NEW r \in Runs, DeployStart(r) PROVE DeployInv'
    BY <2>1 DEF DeployStart, EvidenceInv, RecordInv
  <2>2. CASE DeployInvalidateIdentity
    BY <2>2 DEF DeployInvalidateIdentity
  <2>3. CASE DeployUnlinkEndpoint
    BY <2>3 DEF DeployUnlinkEndpoint
  <2>4. ASSUME NEW owned \in SUBSET Reservations, DeployAcquire(owned) PROVE DeployInv'
    BY <2>4 DEF DeployAcquire
  <2>5. ASSUME NEW owned \in SUBSET Reservations, DeployAcquireFails(owned) PROVE DeployInv'
    BY <2>5 DEF DeployAcquireFails
  <2>6. CASE DeployProvision
    BY <2>6 DEF DeployProvision
  <2>7. CASE DeploySealCandidate
    BY <2>7 DEF DeploySealCandidate
  <2>8. CASE DeploySealEvidence
    BY <2>8 DEF DeploySealEvidence
  <2>9. CASE DeployAcceptCandidate
    BY <2>9 DEF DeployAcceptCandidate
  <2>10. CASE DeployPublishIdentity
    BY <2>10 DEF DeployPublishIdentity
  <2>11. CASE DeployPublishEndpoint
    BY <2>11 DEF DeployPublishEndpoint
  <2>12. CASE DeployFinish
    BY <2>12 DEF DeployFinish
  <2>13. ASSUME NEW up \in SUBSET Stoppable, DeployStepFails(up) PROVE DeployInv'
    BY <2>13 DEF DeployStepFails
  <2> QED BY <1>1, <2>1, <2>2, <2>3, <2>4, <2>5, <2>6, <2>7, <2>8, <2>9, <2>10,
             <2>11, <2>12, <2>13 DEF Deploy
<1>2. CASE Teardown
  BY <1>2, TeardownAlone
<1>3. CASE Experiment \/ ReservationEnds \/ DeployDies \/ TeardownDies \/ ExperimentDies
  <2>1. UNCHANGED deploy \/ DeployExits
    BY <1>3 DEF Experiment, ExperimentStart, ExperimentReadEndpoint,
       ExperimentReadIdentity, ExperimentProve, ExperimentWorkloadEnds,
       ExperimentRefused, ExperimentExit, ReservationEnds, DeployDies,
       TeardownDies, ExperimentDies
  <2> QED BY <1>3, <2>1, OthersWriteNothing DEF DeployExits
<1> QED BY <1>1, <1>2, <1>3 DEF Next

----------------------------------------------------------------------------
(* The endpoint.                                                            *)

\* The endpoint names an accepted, sealed run whose identity is active or
\* withdrawn, and that run has no retained phase while it is accepted.
LEMMA EndpointStep ==
    ASSUME IInv, Next
    PROVE  EndpointInv'
<1> USE RunsAssumption
        DEF IInv, TypeOK, EndpointInv, EndpointNamesOneDeployment, IdentityAccepted,
            EndpointIs, Untouched
<1>1. CASE Deploy
  <2> USE DEF DeployAt, DeployInv, BeforeAcceptance, Publishing, world
  <2>1. ASSUME NEW r \in Runs, DeployStart(r) PROVE EndpointInv'
    BY <2>1 DEF DeployStart
  <2>2. CASE DeployInvalidateIdentity \/ DeployUnlinkEndpoint
    BY <2>2 DEF DeployInvalidateIdentity, DeployUnlinkEndpoint
  <2>3. ASSUME NEW owned \in SUBSET Reservations,
               DeployAcquire(owned) \/ DeployAcquireFails(owned)
        PROVE  EndpointInv'
    BY <2>3 DEF DeployAcquire, DeployAcquireFails, files
  <2>4. CASE DeployProvision \/ DeploySealCandidate \/ DeploySealEvidence
    BY <2>4 DEF DeployProvision, DeploySealCandidate, DeploySealEvidence
  <2>5. CASE DeployAcceptCandidate \/ DeployPublishIdentity
    BY <2>5 DEF DeployAcceptCandidate, DeployPublishIdentity
  <2>6. CASE DeployPublishEndpoint
    BY <2>6 DEF DeployPublishEndpoint
  <2>7. CASE DeployFinish
    BY <2>7 DEF DeployFinish, files
  <2>8. ASSUME NEW up \in SUBSET Stoppable, DeployStepFails(up) PROVE EndpointInv'
    BY <2>8 DEF DeployStepFails, MarkFailed
  <2> QED BY <1>1, <2>1, <2>2, <2>3, <2>4, <2>5, <2>6, <2>7, <2>8 DEF Deploy
<1>2. CASE Teardown
  <2> USE DEF TeardownAt, TeardownInv, TearingDown, Mutating, files
  <2>1. CASE TeardownBegin
    BY <2>1 DEF TeardownBegin, FreshTeardown, RetryTeardown, Attested, NoPhases, Results
  <2>2. CASE TeardownFence \/ TeardownCompleteEndpoint \/ TeardownFailEndpoint
    BY <2>2 DEF TeardownFence, TeardownCompleteEndpoint, TeardownFailEndpoint
  <2>3. CASE UNCHANGED <<endpoint, result>>
    BY <1>2, <2>3, TeardownAlone
  <2>4. ASSUME UNCHANGED endpoint, Mutating PROVE EndpointInv'
    BY <1>2, <2>4, TeardownAlone
  <2> QED BY <1>2, <2>1, <2>2, <2>3, <2>4
          DEF Teardown, TeardownStart, TeardownTakeExperimentLock, TeardownRefused,
              TeardownPhaseRetained, TeardownPhaseWaived, TeardownPhaseSucceeds,
              TeardownPhaseFails, TeardownActs, TeardownRecord, TeardownCompleteResult,
              TeardownControllerError, TeardownFailResult
<1>3. CASE Experiment \/ ReservationEnds \/ DeployDies \/ TeardownDies \/ ExperimentDies
  BY <1>3, OthersWriteNothing
<1> QED BY <1>1, <1>2, <1>3 DEF Next

\* Once published, a torn-down endpoint keeps its proof: nothing but a new
\* deployment, which unlinks it, touches it or its result again.
LEMMA TornDownStep ==
    ASSUME IInv, Next
    PROVE  TornDownInv'
<1> USE DEF IInv, TypeOK, TornDownInv, EndpointIs, Done
<1>1. CASE Deploy
  <2>1. UNCHANGED result
    BY <1>1 DEF Deploy, DeployStart, DeployInvalidateIdentity, DeployUnlinkEndpoint,
       DeployAcquire, DeployAcquireFails, DeployProvision, DeploySealCandidate,
       DeploySealEvidence, DeployAcceptCandidate, DeployPublishIdentity,
       DeployPublishEndpoint, DeployFinish, DeployStepFails, files
  <2>2. UNCHANGED endpoint \/ endpoint'.status \in {"absent", "accepted-testbed"}
    BY <1>1 DEF Deploy, DeployStart, DeployInvalidateIdentity, DeployUnlinkEndpoint,
       DeployAcquire, DeployAcquireFails, DeployProvision, DeploySealCandidate,
       DeploySealEvidence, DeployAcceptCandidate, DeployPublishIdentity,
       DeployPublishEndpoint, DeployFinish, DeployStepFails, files
  <2> QED BY <2>1, <2>2
<1>2. CASE Teardown
  <2> USE DEF TeardownAt, TeardownInv, TearingDown, Mutating, files
  <2>1. CASE TeardownBegin
    BY <2>1 DEF TeardownBegin, FreshTeardown, RetryTeardown
  <2>2. CASE TeardownFence \/ TeardownCompleteEndpoint \/ TeardownFailEndpoint
    BY <2>2 DEF TeardownFence, TeardownCompleteEndpoint, TeardownFailEndpoint
  <2>3. CASE UNCHANGED <<endpoint, result>>
    BY <2>3
  <2>4. ASSUME UNCHANGED endpoint, Mutating PROVE TornDownInv'
    BY <2>4
  <2> QED BY <1>2, <2>1, <2>2, <2>3, <2>4
          DEF Teardown, TeardownStart, TeardownTakeExperimentLock, TeardownRefused,
              TeardownPhaseRetained, TeardownPhaseWaived, TeardownPhaseSucceeds,
              TeardownPhaseFails, TeardownActs, TeardownRecord, TeardownCompleteResult,
              TeardownControllerError, TeardownFailResult
<1>3. CASE Experiment \/ ReservationEnds \/ DeployDies \/ TeardownDies \/ ExperimentDies
  BY <1>3, OthersWriteNothing
<1> QED BY <1>1, <1>2, <1>3 DEF Next

----------------------------------------------------------------------------
(* The experiment.                                                          *)

\* An attachment is never overtaken by a teardown, because experiment.lock
\* keeps one out as long as the experiment controller lives.
LEMMA ExperimentStep ==
    ASSUME IInv, Next
    PROVE  ExperimentInv'
<1> USE RunsAssumption
        DEF IInv, TypeOK, ExperimentInv, AttachmentIsNotFenced, EndpointIs
<1>1. CASE Deploy
  <2>1. UNCHANGED experiment
    BY <1>1 DEF Deploy, DeployStart, DeployInvalidateIdentity, DeployUnlinkEndpoint,
       DeployAcquire, DeployAcquireFails, DeployProvision, DeploySealCandidate,
       DeploySealEvidence, DeployAcceptCandidate, DeployPublishIdentity,
       DeployPublishEndpoint, DeployFinish, DeployStepFails
  <2>2. \/ UNCHANGED endpoint
        \/ endpoint' = [status |-> "absent", run |-> NoRun]
        \/ endpoint'.status = "accepted-testbed"
    BY <1>1 DEF Deploy, DeployStart, DeployInvalidateIdentity, DeployUnlinkEndpoint,
       DeployAcquire, DeployAcquireFails, DeployProvision, DeploySealCandidate,
       DeploySealEvidence, DeployAcceptCandidate, DeployPublishIdentity,
       DeployPublishEndpoint, DeployFinish, DeployStepFails, files
  <2> QED BY <2>1, <2>2
<1>2. CASE Teardown
  <2>1. UNCHANGED endpoint \/ TearingDown
    BY <1>2 DEF Teardown, TeardownStart, TeardownTakeExperimentLock, TeardownBegin,
       TeardownRefused, TeardownFence, TeardownPhaseRetained, TeardownPhaseWaived,
       TeardownPhaseSucceeds, TeardownPhaseFails, TeardownActs, TeardownRecord,
       TeardownCompleteResult, TeardownCompleteEndpoint, TeardownControllerError,
       TeardownFailResult, TeardownFailEndpoint, TearingDown, TeardownAt, files
  <2>2. TearingDown => experiment.run = NoRun
    BY <1>2, TeardownAlone
  <2> QED BY <1>2, <2>1, <2>2, TeardownAlone
<1>3. CASE Experiment
  BY <1>3, OthersWriteNothing
     DEF Experiment, ExperimentGoes, ExperimentStart, ExperimentReadEndpoint,
         ExperimentReadIdentity, ExperimentProve, ExperimentWorkloadEnds,
         ExperimentRefused, ExperimentExit, ReadsEndpoint, ReadsIdentity, EndpointFits
<1>4. CASE ReservationEnds \/ DeployDies \/ TeardownDies \/ ExperimentDies
  BY <1>4, OthersWriteNothing
     DEF ReservationEnds, DeployDies, TeardownDies, ExperimentDies, ExperimentGoes
<1> QED BY <1>1, <1>2, <1>3, <1>4 DEF Next

----------------------------------------------------------------------------
(* The teardown.                                                            *)

\* A deployment runs without a teardown and leaves it alone.
LEMMA DeployAlone ==
    ASSUME IInv, Deploy
    PROVE  TeardownAt("idle") /\ UNCHANGED <<teardown, result>>
<1>1. deployLock = "free" \/ ~DeployAt("idle")
  BY DEF Deploy, DeployStart, DeployInvalidateIdentity, DeployUnlinkEndpoint,
     DeployAcquire, DeployAcquireFails, DeployProvision, DeploySealCandidate,
     DeploySealEvidence, DeployAcceptCandidate, DeployPublishIdentity,
     DeployPublishEndpoint, DeployFinish, DeployStepFails, DeployAt
<1>2. UNCHANGED <<teardown, result>>
  BY DEF Deploy, DeployStart, DeployInvalidateIdentity, DeployUnlinkEndpoint,
     DeployAcquire, DeployAcquireFails, DeployProvision, DeploySealCandidate,
     DeploySealEvidence, DeployAcceptCandidate, DeployPublishIdentity,
     DeployPublishEndpoint, DeployFinish, DeployStepFails, files
<1> QED BY <1>1, <1>2 DEF IInv, LockInv, TeardownAt

\* A teardown at work owns the endpoint and the result of its run.
LEMMA TeardownStep ==
    ASSUME IInv, Next
    PROVE  TeardownInv'
<1> USE DEF IInv, TypeOK, TeardownInv, TearingDown, Mutating, TeardownAt, EndpointIs, Done
<1>1. CASE Deploy
  BY <1>1, DeployAlone
<1>2. CASE Teardown
  <2> USE DEF TeardownGoes, TeardownStates
  <2>1. ASSUME NEW options \in Options, TeardownStart(options) PROVE TeardownInv'
    BY <2>1 DEF TeardownStart, TeardownIdle
  <2>2. CASE TeardownTakeExperimentLock
    BY <2>2 DEF TeardownTakeExperimentLock
  <2>3. CASE TeardownBegin
    BY <2>3, RunsAssumption
       DEF TeardownBegin, FreshTeardown, RetryTeardown, EndpointInv, Results
  <2>4. CASE TeardownRefused \/ TeardownCompleteEndpoint \/ TeardownFailEndpoint
    BY <2>4 DEF TeardownRefused, TeardownCompleteEndpoint, TeardownFailEndpoint,
                TeardownExits, TeardownIdle
  <2>5. CASE TeardownFence
    BY <2>5 DEF TeardownFence
  <2>6. CASE TeardownPhaseRetained
    BY <2>6, AdvanceGoes DEF TeardownPhaseRetained, files
  <2>7. CASE TeardownPhaseWaived
    <3>1. result'[teardown.run].status = "stopping"
      BY <2>7 DEF TeardownPhaseWaived, Record, Results
    <3> QED BY <2>7, <3>1, AdvanceGoes DEF TeardownPhaseWaived
  <2>8. CASE TeardownPhaseSucceeds \/ TeardownPhaseFails
    <3>1. PICK outcome : TeardownActs(outcome)
      BY <2>8 DEF TeardownPhaseSucceeds, TeardownPhaseFails
    <3>2. /\ teardown'.pc = "recording" /\ teardown'.run = teardown.run
          /\ teardown'.phase = teardown.phase /\ teardown'.options = teardown.options
      BY <3>1 DEF TeardownActs
    <3>3. (~Waived(teardown.phase))'
      BY <3>1, <3>2 DEF TeardownActs, Waived
    <3> QED BY <3>1, <3>2, <3>3 DEF TeardownActs, files
  <2>9. CASE TeardownRecord
    <3>1. result'[teardown.run].status = "stopping"
      BY <2>9 DEF TeardownRecord, Record, Results
    <3> QED BY <2>9, <3>1, RecordGoes DEF TeardownRecord
  <2>10. CASE TeardownCompleteResult
    BY <2>10 DEF TeardownCompleteResult, Results
  <2>11. CASE TeardownControllerError
    BY <2>11 DEF TeardownControllerError, files
  <2>12. CASE TeardownFailResult
    BY <2>12 DEF TeardownFailResult
  <2> QED BY <1>2, <2>1, <2>2, <2>3, <2>4, <2>5, <2>6, <2>7, <2>8, <2>9, <2>10,
             <2>11, <2>12 DEF Teardown
<1>3. CASE Experiment \/ ReservationEnds \/ DeployDies \/ TeardownDies \/ ExperimentDies
  <2>1. UNCHANGED teardown \/ teardown'.pc = "idle"
    BY <1>3 DEF Experiment, ExperimentStart, ExperimentReadEndpoint,
       ExperimentReadIdentity, ExperimentProve, ExperimentWorkloadEnds,
       ExperimentRefused, ExperimentExit, ReservationEnds, DeployDies,
       TeardownDies, TeardownExits, TeardownIdle, ExperimentDies
  <2>2. UNCHANGED <<endpoint, result>>
    BY <1>3, OthersWriteNothing
  <2>3. CASE UNCHANGED teardown
    BY <2>2, <2>3 DEF Waived
  <2>4. CASE teardown'.pc = "idle"
    BY <2>4
  <2> QED BY <2>1, <2>3, <2>4
<1> QED BY <1>1, <1>2, <1>3 DEF Next

----------------------------------------------------------------------------
(* The retained evidence.                                                   *)

\* Removing something leaves everything else as removed as it was.
LEMMA PerformKeepsGone ==
    ASSUME TypeOK, NEW r \in Runs, NEW p \in Phases, Perform(r, p),
           NEW x \in Runs, NEW q \in Phases, Gone(x, q)
    PROVE  Gone(x, q)'
<1> USE DEF TypeOK, Gone, Perform, Stop, Release, Bookings
<1>1. CASE p \in Stoppable
  BY <1>1
<1>2. CASE p \notin Stoppable
  BY <1>2 DEF Phases
<1> QED BY <1>1, <1>2

\* What was performed is gone.
LEMMA PerformRemoves ==
    ASSUME TypeOK, NEW r \in Runs, NEW p \in Phases, Perform(r, p)
    PROVE  Gone(r, p)'
<1> USE DEF TypeOK, Gone, Perform, Stop, Release, Bookings
<1>1. CASE p \in Stoppable
  BY <1>1
<1>2. CASE p \notin Stoppable
  BY <1>2 DEF Phases
<1> QED BY <1>1, <1>2

\* Starting, resolving, fencing and failing move no phase of a result.
LEMMA ResultPhasesKept ==
    ASSUME TypeOK, NEW r \in Runs, NEW record,
           result' = [result EXCEPT ![r].status = record]
    PROVE  \A x \in Runs : result'[x].phases = result[x].phases
BY DEF TypeOK, Results

\* Recording one phase leaves the other phases and the other runs.
LEMMA RecordOne ==
    ASSUME TypeOK, teardown.run \in Runs, NEW p \in Phases, NEW record, Record(p, record)
    PROVE  \A x \in Runs, q \in Phases :
               /\ result'[x].status = result[x].status
               /\ result'[x].phases[q] = IF x = teardown.run /\ q = p
                                         THEN record ELSE result[x].phases[q]
               /\ x # teardown.run => result'[x] = result[x]
BY DEF TypeOK, Results, Record

\* The steps of a teardown that record nothing and run no command.
QuietTeardown ==
    \/ \E options \in Options : TeardownStart(options)
    \/ TeardownTakeExperimentLock \/ TeardownBegin \/ TeardownRefused \/ TeardownFence
    \/ TeardownPhaseRetained \/ TeardownCompleteResult \/ TeardownCompleteEndpoint
    \/ TeardownControllerError \/ TeardownFailResult \/ TeardownFailEndpoint

\* They keep every recorded phase, or forget them all to begin afresh.
LEMMA QuietKeeps ==
    ASSUME IInv, QuietTeardown
    PROVE  /\ UNCHANGED <<running, reservation>> /\ teardown'.pc # "recording"
           /\ \A r \in Runs, p \in Phases :
                  result'[r].phases[p] \in {result[r].phases[p], "none"}
           /\ \A r \in Runs : result[r].status # "absent" => result'[r].status # "absent"
<1> USE DEF IInv, TypeOK
<1>1. UNCHANGED <<running, reservation>> /\ teardown'.pc # "recording"
  <2>1. UNCHANGED <<running, reservation>>
    BY DEF QuietTeardown, TeardownStart, TeardownTakeExperimentLock, TeardownBegin,
           TeardownRefused, TeardownFence, TeardownPhaseRetained, TeardownCompleteResult,
           TeardownCompleteEndpoint, TeardownControllerError, TeardownFailResult,
           TeardownFailEndpoint, world
  <2>2. CASE TeardownPhaseRetained
    BY <2>1, <2>2, AdvanceGoes DEF TeardownPhaseRetained
  <2>3. CASE \E options \in Options : TeardownStart(options)
    BY <2>1, <2>3 DEF TeardownStart, TeardownIdle
  <2>4. CASE TeardownRefused \/ TeardownCompleteEndpoint \/ TeardownFailEndpoint
    BY <2>1, <2>4 DEF TeardownRefused, TeardownCompleteEndpoint, TeardownFailEndpoint,
                      TeardownExits, TeardownIdle
  <2>5. CASE \/ TeardownTakeExperimentLock \/ TeardownBegin \/ TeardownFence
             \/ TeardownCompleteResult \/ TeardownControllerError \/ TeardownFailResult
    BY <2>1, <2>5 DEF TeardownTakeExperimentLock, TeardownBegin, TeardownFence,
                      TeardownCompleteResult, TeardownControllerError,
                      TeardownFailResult, TeardownGoes, TeardownStates
  <2> QED BY <2>2, <2>3, <2>4, <2>5 DEF QuietTeardown
<1>2. \/ UNCHANGED result
      \/ \E r \in Runs, record \in {"torn-down", "cleanup-failed"} :
             result' = [result EXCEPT ![r].status = record]
      \/ TeardownBegin
  BY DEF QuietTeardown, TeardownStart, TeardownTakeExperimentLock, TeardownRefused,
         TeardownFence, TeardownPhaseRetained, TeardownCompleteResult,
         TeardownCompleteEndpoint, TeardownControllerError, TeardownFailResult,
         TeardownFailEndpoint, TeardownInv, TearingDown, TeardownAt, TeardownStates, files
<1>3. CASE UNCHANGED result
  BY <1>1, <1>3
<1>4. CASE \E r \in Runs, record \in {"torn-down", "cleanup-failed"} :
               result' = [result EXCEPT ![r].status = record]
  BY <1>1, <1>4 DEF Results
<1>5. CASE TeardownBegin
  <2>1. result' = [result EXCEPT ![endpoint.run] =
            [status |-> "stopping",
             phases |-> IF FreshTeardown(endpoint.run) THEN NoPhases ELSE @.phases]]
    BY <1>5 DEF TeardownBegin
  <2>2. \A r \in Runs, p \in Phases :
            result'[r].phases[p] \in {result[r].phases[p], "none"}
    BY <2>1 DEF Results, NoPhases
  <2>3. \A r \in Runs : result[r].status # "absent" => result'[r].status # "absent"
    BY <2>1 DEF Results
  <2> QED BY <1>1, <2>2, <2>3
<1> QED BY <1>2, <1>3, <1>4, <1>5

\* The two steps that record a phase: waiving it, and after its command.
LEMMA RecordingStep ==
    ASSUME IInv, TeardownPhaseWaived \/ TeardownRecord
    PROVE  /\ UNCHANGED <<candidate, running, reservation>> /\ teardown'.pc # "recording"
           /\ teardown.run \in Runs /\ teardown.phase \in Phases
           /\ candidate[teardown.run] = "accepted-testbed"
           /\ \E record : /\ Record(teardown.phase, record)
                          /\ record \in Performed =>
                                 Gone(teardown.run, teardown.phase)
                          /\ teardown.phase = "resources" /\ teardown.run \in Physical =>
                                 record \in {"succeeded", "failed"}
<1> USE DEF IInv, TypeOK, TeardownAt
<1>1. /\ UNCHANGED <<candidate, running, reservation>>
      /\ teardown.run \in Runs /\ teardown.phase \in Phases
  BY DEF TeardownPhaseWaived, TeardownRecord, TeardownInv, TearingDown, TeardownStates, world
<1>2. candidate[teardown.run] = "accepted-testbed"
  BY DEF TeardownPhaseWaived, TeardownRecord, TeardownInv, TearingDown, Mutating,
         EndpointInv, EndpointNamesOneDeployment, EndpointIs
<1>3. CASE TeardownPhaseWaived
  <2>1. teardown'.pc # "recording"
    BY <1>3, AdvanceGoes DEF TeardownPhaseWaived
  <2>2. Record(teardown.phase, IF teardown.phase \in Reservations THEN "preserved" ELSE "skipped")
    BY <1>3 DEF TeardownPhaseWaived
  <2>3. teardown.phase = "resources" => teardown.run \notin Physical
    BY <1>3 DEF TeardownPhaseWaived, Waived, Reservations
  <2> QED BY <1>1, <1>2, <2>1, <2>2, <2>3 DEF Performed
<1>4. CASE TeardownRecord
  <2>1. Record(teardown.phase, teardown.outcome)
    BY <1>4 DEF TeardownRecord
  <2> QED BY <1>1, <1>2, <1>4, <2>1, RecordGoes
          DEF TeardownRecord, EvidenceInv, PerformedInv, ResourcesInv
<1> QED BY <1>3, <1>4

\* An experiment, a provider or a death keeps what is gone gone, and leaves a
\* controller about to record an outcome as it is or ends it.
LEMMA OthersKeepGone ==
    ASSUME IInv, Experiment \/ ReservationEnds \/ DeployDies \/ TeardownDies \/ ExperimentDies
    PROVE  /\ UNCHANGED teardown \/ teardown'.pc # "recording"
           /\ \A r \in Runs, p \in Phases : Gone(r, p) => Gone(r, p)'
<1>1. /\ UNCHANGED teardown \/ teardown'.pc # "recording"
      /\ UNCHANGED reservation \/ ReservationEnds
  BY DEF Experiment, ExperimentStart, ExperimentReadEndpoint, ExperimentReadIdentity,
     ExperimentProve, ExperimentWorkloadEnds, ExperimentRefused, ExperimentExit,
     ReservationEnds, DeployDies, TeardownDies, TeardownExits, TeardownIdle,
     ExperimentDies, world
<1>2. UNCHANGED running
  BY OthersWriteNothing
<1>3. CASE ReservationEnds
  BY <1>1, <1>2, <1>3 DEF ReservationEnds, IInv, TypeOK, Bookings, Gone
<1>4. CASE UNCHANGED reservation
  BY <1>1, <1>2, <1>4 DEF Gone
<1> QED BY <1>1, <1>3, <1>4

\* A deployment changes only its own run, which no teardown has touched.
LEMMA DeployKeepsGone ==
    ASSUME IInv, Deploy
    PROVE  \A r \in Runs : ~Untouched(r) =>
               /\ candidate'[r] = candidate[r]
               /\ \A p \in Phases : Gone(r, p) => Gone(r, p)'
<1> SUFFICES ASSUME NEW r \in Runs, ~Untouched(r)
             PROVE  /\ candidate'[r] = candidate[r]
                    /\ running'[r] = running[r] /\ reservation'[r] = reservation[r]
  BY DEF Gone
<1>1. r # deploy.run \/ DeployAt("idle")
  BY DEF IInv, DeployInv
<1>2. candidate[r] = "accepted-testbed"
  BY DEF IInv, EvidenceInv, RecordInv
<1> QED
  BY <1>1, <1>2
     DEF IInv, TypeOK, DeployAt, Deploy, DeployStart, DeployInvalidateIdentity,
         DeployUnlinkEndpoint, DeployAcquire, DeployAcquireFails, DeployProvision,
         DeploySealCandidate, DeploySealEvidence, DeployAcceptCandidate,
         DeployPublishIdentity, DeployPublishEndpoint, DeployFinish, DeployStepFails,
         Book, MarkFailed, files, world

\* Only an accepted run has a recorded phase.
LEMMA RecordInvStep ==
    ASSUME IInv, Next
    PROVE  RecordInv'
<1> USE DEF IInv, EvidenceInv, RecordInv, Untouched
<1>1. CASE Deploy
  BY <1>1, DeployAlone, DeployKeepsGone
<1>2. CASE QuietTeardown
  <2>1. UNCHANGED candidate
    BY <1>2, TeardownAlone DEF QuietTeardown, Teardown
  <2> QED BY <1>2, <2>1, QuietKeeps
<1>3. CASE TeardownPhaseSucceeds \/ TeardownPhaseFails
  BY <1>3 DEF TeardownPhaseSucceeds, TeardownPhaseFails, TeardownActs, files
<1>4. CASE TeardownPhaseWaived \/ TeardownRecord
  <2>1. result[teardown.run].status = "stopping"
    BY <1>4 DEF TeardownPhaseWaived, TeardownRecord
  <2> QED BY <1>4, <2>1, RecordingStep, RecordOne
<1>5. CASE Experiment \/ ReservationEnds \/ DeployDies \/ TeardownDies \/ ExperimentDies
  BY <1>5, OthersWriteNothing
<1> QED BY <1>1, <1>2, <1>3, <1>4, <1>5 DEF Next, Teardown, QuietTeardown

\* What a phase says was performed is gone: effects come before their record,
\* nothing removed comes back for the same run.
LEMMA PerformedInvStep ==
    ASSUME IInv, Next
    PROVE  PerformedInv'
<1> USE DEF IInv, EvidenceInv, PerformedInv, TeardownAt
<1>1. CASE Deploy
  <2>1. \A r \in Runs, p \in Phases : result[r].phases[p] \in Performed => ~Untouched(r)
    BY DEF Untouched, Performed
  <2> QED BY <1>1, <2>1, DeployAlone, DeployKeepsGone DEF TeardownAt
<1>2. CASE QuietTeardown
  <2>1. \A r \in Runs, p \in Phases : Gone(r, p) => Gone(r, p)'
    BY <1>2, QuietKeeps DEF Gone
  <2> QED BY <1>2, <2>1, QuietKeeps DEF Performed
<1>3. CASE TeardownPhaseSucceeds \/ TeardownPhaseFails
  <2>0. PICK r, p : r = teardown.run /\ p = teardown.phase
    OBVIOUS
  <2>1. r \in Runs /\ p \in Phases /\ UNCHANGED result
    BY <1>3, <2>0 DEF TeardownPhaseSucceeds, TeardownPhaseFails, TeardownActs, TypeOK,
                TeardownStates, TeardownInv, TearingDown, files
  <2>2. teardown'.run = r /\ teardown'.phase = p
    BY <1>3, <2>0 DEF TeardownPhaseSucceeds, TeardownPhaseFails, TeardownActs, TypeOK,
                TeardownStates
  <2>3. CASE Perform(r, p)
    <3>1. \A x \in Runs, q \in Phases : Gone(x, q) => Gone(x, q)'
      BY <2>1, <2>3, PerformKeepsGone
    <3>2. Gone(r, p)'
      BY <2>1, <2>3, PerformRemoves
    <3>3. (Gone(teardown.run, teardown.phase))'
      BY <2>2, <3>2 DEF Gone
    <3> QED BY <2>1, <3>1, <3>3
  <2>4. CASE UNCHANGED world /\ TeardownPhaseFails
    <3>1. \A x \in Runs, q \in Phases : Gone(x, q) => Gone(x, q)'
      BY <2>4 DEF Gone, world
    <3>2. teardown'.outcome \notin Performed
      BY <2>4 DEF TeardownPhaseFails, TeardownActs, TypeOK, TeardownStates, Performed
    <3> QED BY <2>1, <3>1, <3>2
  <2> QED BY <1>3, <2>0, <2>3, <2>4 DEF TeardownPhaseSucceeds, TeardownPhaseFails
<1>4. CASE TeardownPhaseWaived \/ TeardownRecord
  <2>1. \A r \in Runs, p \in Phases : Gone(r, p) => Gone(r, p)'
    BY <1>4, RecordingStep DEF Gone
  <2> QED BY <1>4, <2>1, RecordingStep, RecordOne
<1>5. CASE Experiment \/ ReservationEnds \/ DeployDies \/ TeardownDies \/ ExperimentDies
  <2>1. UNCHANGED result
    BY <1>5, OthersWriteNothing
  <2>2. \A r \in Runs, p \in Phases : Gone(r, p) => Gone(r, p)'
    BY <1>5, OthersKeepGone
  <2>3. CASE UNCHANGED teardown
    <3>1. teardown.pc = "recording" => teardown.run \in Runs /\ teardown.phase \in Phases
      BY DEF TypeOK, TeardownStates, TeardownInv, TearingDown
    <3>2. Gone(teardown.run, teardown.phase) /\ teardown.pc = "recording" =>
              (Gone(teardown.run, teardown.phase))'
      BY <2>2, <2>3, <3>1 DEF Gone
    <3> QED BY <2>1, <2>2, <2>3, <3>2
  <2>4. CASE teardown'.pc # "recording"
    BY <2>1, <2>2, <2>4
  <2> QED BY <1>5, <2>3, <2>4, OthersKeepGone
<1> QED BY <1>1, <1>2, <1>3, <1>4, <1>5 DEF Next, Teardown, QuietTeardown

\* The radios of a physical run are only ever stopped, those of a simulated run
\* never come up.
LEMMA ResourcesInvStep ==
    ASSUME IInv, Next
    PROVE  ResourcesInv'
<1> USE PhysicalAssumption DEF IInv, EvidenceInv, ResourcesInv, TeardownAt, Done
<1>0. "resources" \in Phases /\ "resources" \in Stoppable /\ "none" \notin PhaseSuccess
  BY DEF Phases, Stoppable, PhaseSuccess
<1>1. CASE Deploy
  <2>1. \A r \in Runs \ Physical : "resources" \notin running'[r]
    BY <1>1 DEF TypeOK, Deploy, DeployStart, DeployInvalidateIdentity,
       DeployUnlinkEndpoint, DeployAcquire, DeployAcquireFails, DeployProvision,
       DeploySealCandidate, DeploySealEvidence, DeployAcceptCandidate,
       DeployPublishIdentity, DeployPublishEndpoint, DeployFinish, DeployStepFails,
       Provisioned, world
  <2> QED BY <1>1, <2>1, DeployAlone
<1>2. CASE QuietTeardown
  BY <1>0, <1>2, QuietKeeps
<1>3. CASE TeardownPhaseSucceeds \/ TeardownPhaseFails
  <2>1. UNCHANGED result
    BY <1>3 DEF TeardownPhaseSucceeds, TeardownPhaseFails, TeardownActs, files
  <2>2. teardown'.phase = "resources" => teardown'.outcome \in {"succeeded", "failed"}
    <3>1. CASE TeardownPhaseSucceeds
      <4>1. TeardownActs(Outcome(teardown.run, teardown.phase))
        BY <3>1 DEF TeardownPhaseSucceeds
      <4>2. teardown.phase = "resources" => Outcome(teardown.run, teardown.phase) = "succeeded"
        BY <1>0 DEF Outcome
      <4> QED BY <4>1, <4>2 DEF TeardownActs, TypeOK, TeardownStates
    <3>2. CASE TeardownPhaseFails
      BY <3>2 DEF TeardownPhaseFails, TeardownActs, TypeOK, TeardownStates
    <3> QED BY <1>3, <3>1, <3>2
  <2>3. \A r \in Runs \ Physical : "resources" \notin running'[r]
    BY <1>3 DEF TeardownPhaseSucceeds, TeardownPhaseFails, Perform, Stop, Release,
                TypeOK, world
  <2> QED BY <2>1, <2>2, <2>3
<1>4. CASE TeardownPhaseWaived \/ TeardownRecord
  <2>1. PICK record : /\ Record(teardown.phase, record)
                      /\ teardown.phase = "resources" /\ teardown.run \in Physical =>
                             record \in {"succeeded", "failed"}
    BY <1>4, RecordingStep
  <2>2. \A r \in Runs : result'[r].phases["resources"] =
            IF r = teardown.run /\ teardown.phase = "resources"
            THEN record ELSE result[r].phases["resources"]
    BY <1>0, <1>4, <2>1, RecordOne, RecordingStep
  <2> QED BY <1>4, <2>1, <2>2, RecordingStep DEF PhaseSuccess
<1>5. CASE Experiment \/ ReservationEnds \/ DeployDies \/ TeardownDies \/ ExperimentDies
  BY <1>5, OthersWriteNothing, OthersKeepGone
<1> QED BY <1>1, <1>2, <1>3, <1>4, <1>5 DEF Next, Teardown, QuietTeardown

----------------------------------------------------------------------------
(* The invariant and what follows from it.                                  *)

\* The initial state satisfies the invariant.
LEMMA InitIInv ==
    ASSUME Init
    PROVE  IInv
<1> USE RunsAssumption DEF Init
<1>1. TypeOK
  BY DEF TypeOK, Results, Bookings, TeardownStates, DeployPC, TeardownPC, ExperimentPC,
         EndpointStatus, PhaseStatus, NoPhases, NoOptions, Phases, Stoppable
<1>2. LockInv /\ DeployInv /\ ExperimentInv /\ TornDownInv
  BY DEF LockInv, DeployInv, ExperimentInv, AttachmentIsNotFenced, TornDownInv,
         DeployAt, TeardownAt, EndpointIs, BeforeAcceptance, Publishing
<1>3. EndpointInv /\ TeardownInv
  BY DEF EndpointInv, EndpointNamesOneDeployment, EndpointIs, TeardownInv,
         TearingDown, Mutating, TeardownAt
<1>4. EvidenceInv
  <2>1. \A r \in Runs, p \in Phases : result[r].phases[p] = "none"
    BY DEF NoPhases
  <2>2. RecordInv /\ PerformedInv
    BY <2>1 DEF RecordInv, PerformedInv, Untouched, Performed, TeardownAt
  <2>3. ResourcesInv
    BY <2>1, PhysicalAssumption
       DEF ResourcesInv, Done, PhaseSuccess, TeardownAt, Phases, Stoppable
  <2> QED BY <2>2, <2>3 DEF EvidenceInv
<1> QED BY <1>1, <1>2, <1>3, <1>4 DEF IInv

\* A step that changes nothing keeps the invariant.
LEMMA StutterIInv ==
    ASSUME IInv, UNCHANGED vars
    PROVE  IInv'
BY DEF vars, locks, files, world, IInv, TypeOK, LockInv, DeployInv, EndpointInv,
       EndpointNamesOneDeployment, TeardownInv, TearingDown, Mutating, EvidenceInv,
       RecordInv, PerformedInv, ResourcesInv, TornDownInv, ExperimentInv,
       AttachmentIsNotFenced, DeployAt, TeardownAt, EndpointIs, IdentityAccepted,
       Untouched, Done, Gone, Waived

\* IInv is an invariant: the locks, the order of the writes and the phase
\* records of the three controllers fit together at every interleaving.
THEOREM InvariantHolds == Spec => []IInv
<1>1. ASSUME IInv, [Next]_vars PROVE IInv'
  BY <1>1, TypeStep, LockStep, DeployStep, EndpointStep, TeardownStep, RecordInvStep,
     PerformedInvStep, ResourcesInvStep, TornDownStep, ExperimentStep, StutterIInv
     DEF IInv, EvidenceInv
<1> QED BY <1>1, InitIInv, PTL DEF Spec

\* Every variable keeps its type.
THEOREM TypeCorrect == Spec => []TypeOK
BY InvariantHolds, PTL DEF IInv

\* teardown.sh never works on a testbed while deploy.sh or experiment.sh is at
\* work, although it takes its two locks one after the other and any of the
\* three may die at any point.
THEOREM Exclusion == Spec => []TeardownExcludesOthers
<1>1. IInv => TeardownExcludesOthers
  BY DEF IInv, LockInv, TeardownExcludesOthers, TearingDown, TeardownAt, DeployAt
<1> QED BY <1>1, InvariantHolds, PTL

\* The endpoint, the candidate, the sealed evidence and the active identity,
\* written by separate steps, never disagree about the published run.
THEOREM OneDeployment == Spec => []EndpointNamesOneDeployment
<1>1. IInv => EndpointNamesOneDeployment
  BY DEF IInv, EndpointInv
<1> QED BY <1>1, InvariantHolds, PTL

\* No host or provider is touched unless the endpoint is fenced for that run.
THEOREM FenceFirst == Spec => []FencedWhileMutating
<1>1. IInv => FencedWhileMutating
  BY DEF IInv, TeardownInv, FencedWhileMutating, TearingDown, Mutating
<1> QED BY <1>1, InvariantHolds, PTL

\* A retained phase that says it was performed was performed.
THEOREM TrueEvidence == Spec => []RetainedEvidenceIsTrue
<1>1. IInv => RetainedEvidenceIsTrue
  BY DEF IInv, EvidenceInv, PerformedInv, RetainedEvidenceIsTrue, Performed, Gone
<1> QED BY <1>1, InvariantHolds, PTL

\* A torn-down endpoint has retained success of every phase, and the radios and
\* the UE of its run are down.
THEOREM ProvenTornDown == Spec => []TornDownIsProven
<1>1. ASSUME IInv, EndpointIs("torn-down") PROVE "resources" \notin running[endpoint.run]
  <2>1. endpoint.run \in Runs
    BY <1>1 DEF IInv, TypeOK, EndpointInv, EndpointIs
  <2>2. Done(endpoint.run, "resources")
    BY <1>1 DEF IInv, TornDownInv, Phases, Stoppable
  <2>3. CASE endpoint.run \in Physical
    <3>1. result[endpoint.run].phases["resources"] = "succeeded"
      BY <1>1, <2>2, <2>3 DEF IInv, EvidenceInv, ResourcesInv
    <3> QED BY <1>1, <2>1, <3>1
            DEF IInv, EvidenceInv, PerformedInv, Performed, Gone, Phases, Stoppable
  <2>4. CASE endpoint.run \notin Physical
    BY <1>1, <2>1, <2>4 DEF IInv, EvidenceInv, ResourcesInv
  <2> QED BY <2>3, <2>4
<1>2. IInv => TornDownIsProven
  BY <1>1 DEF IInv, TornDownInv, TornDownIsProven
<1> QED BY <1>2, InvariantHolds, PTL

\* An attached experiment is never fenced by a teardown.
THEOREM AttachmentSafe == Spec => []AttachmentIsNotFenced
<1>1. IInv => AttachmentIsNotFenced
  BY DEF IInv, ExperimentInv
<1> QED BY <1>1, InvariantHolds, PTL

\* No step erases or changes a success a teardown has retained.
THEOREM SuccessKept == Spec => SuccessIsRetained
<1> DEFINE Kept == \A r \in Runs, p \in Phases :
                       Done(r, p) => result'[r].phases[p] = result[r].phases[p]
<1>1. ASSUME IInv, Next PROVE Kept
  <2> USE DEF Done
  <2>1. CASE Deploy
    BY <1>1, <2>1, DeployAlone
  <2>2. CASE TeardownBegin
    <3>1. CASE FreshTeardown(endpoint.run)
      <4>1. \A r \in Runs \ {endpoint.run} : result'[r] = result[r]
        BY <1>1, <2>2 DEF TeardownBegin, IInv, TypeOK
      <4>2. endpoint.run \in Runs => Untouched(endpoint.run)
        BY <1>1, <3>1 DEF IInv, EndpointInv, FreshTeardown
      <4> QED BY <4>1, <4>2 DEF Untouched, PhaseSuccess
    <3>2. CASE ~FreshTeardown(endpoint.run)
      BY <1>1, <2>2, <3>2 DEF TeardownBegin, IInv, TypeOK, Results
    <3> QED BY <3>1, <3>2
  <2>3. CASE TeardownCompleteResult \/ TeardownFailResult
    <3>1. teardown.run \in Runs
      BY <1>1, <2>3 DEF TeardownCompleteResult, TeardownFailResult, IInv, TypeOK,
                        TeardownStates, TeardownInv, TearingDown, TeardownAt
    <3>2. \E record : result' = [result EXCEPT ![teardown.run].status = record]
      BY <2>3 DEF TeardownCompleteResult, TeardownFailResult
    <3> QED BY <1>1, <3>1, <3>2, ResultPhasesKept DEF IInv
  <2>4. CASE TeardownPhaseWaived \/ TeardownRecord
    <3>1. ~Done(teardown.run, teardown.phase)
      BY <1>1, <2>4 DEF TeardownPhaseWaived, TeardownRecord, IInv, TeardownInv, TeardownAt
    <3> QED BY <1>1, <2>4, <3>1, RecordingStep, RecordOne DEF IInv
  <2>5. CASE UNCHANGED result
    BY <2>5
  <2>6. CASE Experiment \/ ReservationEnds \/ DeployDies \/ TeardownDies \/ ExperimentDies
    BY <2>6, OthersWriteNothing
  <2> QED BY <1>1, <2>1, <2>2, <2>3, <2>4, <2>5, <2>6
          DEF Next, Teardown, TeardownStart, TeardownTakeExperimentLock, TeardownRefused,
              TeardownFence, TeardownPhaseRetained, TeardownPhaseSucceeds,
              TeardownPhaseFails, TeardownActs, TeardownCompleteEndpoint,
              TeardownControllerError, TeardownFailEndpoint, files
<1>2. IInv /\ [Next]_vars => [Kept]_vars
  BY <1>1
<1> QED BY <1>2, InvariantHolds, PTL DEF Spec, SuccessIsRetained

----------------------------------------------------------------------------
(* The controllers implement the contract.                                  *)

\* As long as no deployment moves, what may still be published stays the same.
LEMMA FreshKept ==
    ASSUME UNCHANGED <<candidate, deploy>>
    PROVE  UNCHANGED Publishable
BY DEF Publishable, DeployAt

\* The stage depends on nothing but the endpoint file.
LEMMA StageKept ==
    ASSUME UNCHANGED endpoint
    PROVE  UNCHANGED <<Stage, endpoint.run>>
BY DEF Stage, EndpointIs

\* A step of deploy.sh publishes, discards or withdraws a run, or none of it.
LEMMA DeployImplements ==
    ASSUME IInv, Deploy \/ DeployDies
    PROVE  [Contract!Next]_(Contract!cvars)
<1> USE DEF Contract!cvars
<1>0. UNCHANGED experiment.run
  BY DEF Deploy, DeployStart, DeployInvalidateIdentity, DeployUnlinkEndpoint,
     DeployAcquire, DeployAcquireFails, DeployProvision, DeploySealCandidate,
     DeploySealEvidence, DeployAcceptCandidate, DeployPublishIdentity,
     DeployPublishEndpoint, DeployFinish, DeployStepFails, DeployDies
<1>1. CASE DeployUnlinkEndpoint
  <2>1. UNCHANGED Publishable
    BY <1>1 DEF DeployUnlinkEndpoint, DeployGoes, DeployAt, Publishable, IInv, TypeOK
  <2>2. Stage' = "none" /\ endpoint'.run = NoRun
    BY <1>1 DEF DeployUnlinkEndpoint, Stage, EndpointIs
  <2> QED BY <1>0, <2>1, <2>2 DEF Contract!Next, Contract!Withdraw
<1>2. CASE DeployPublishEndpoint
  <2>1. deploy.run \in Publishable /\ Publishable' = Publishable \ {deploy.run}
    BY <1>2 DEF DeployPublishEndpoint, DeployGoes, DeployAt, Publishable, IInv, TypeOK,
                DeployInv, Publishing
  <2>2. Stage = "none" /\ Stage' = "accepted" /\ endpoint'.run = deploy.run
    BY <1>2 DEF DeployPublishEndpoint, Stage, EndpointIs, DeployAt, IInv, DeployInv,
                Publishing
  <2>3. deploy.run \in Runs
    BY <2>1 DEF Publishable
  <2> QED BY <1>0, <2>1, <2>2, <2>3 DEF Contract!Next, Contract!Publish
<1>3. ASSUME DeployExits, ~DeployAt("idle"), UNCHANGED endpoint,
             \A r \in Runs : candidate'[r] = "unused" <=> candidate[r] = "unused"
      PROVE  [Contract!Next]_(Contract!cvars)
  <2>1. deploy.run \in Runs /\ candidate[deploy.run] # "unused"
    BY <1>3 DEF IInv, TypeOK, DeployInv, DeployAt, DeployPC, BeforeAcceptance, Publishing
  <2>2. Publishable' = Publishable \ {deploy.run}
    BY <1>3, <2>1, RunsAssumption DEF DeployExits, Publishable, DeployAt
  <2> QED BY <1>0, <1>3, <2>1, <2>2, StageKept DEF Contract!Next, Contract!Discard
<1>4. CASE DeployFinish \/ DeployDies
  BY <1>3, <1>4 DEF DeployFinish, DeployDies, DeployAt, files
<1>5. ASSUME NEW owned, DeployAcquireFails(owned)
      PROVE  [Contract!Next]_(Contract!cvars)
  BY <1>3, <1>5 DEF DeployAcquireFails, DeployAt, files
<1>6. ASSUME NEW up, DeployStepFails(up)
      PROVE  [Contract!Next]_(Contract!cvars)
  <2>1. \A r \in Runs : candidate'[r] = "unused" <=> candidate[r] = "unused"
    BY <1>6 DEF DeployStepFails, MarkFailed, IInv, TypeOK, DeployInv, BeforeAcceptance,
                Publishing
  <2> QED BY <1>3, <1>6, <2>1 DEF DeployStepFails, DeployAt
<1>7. ASSUME \/ \E r \in Runs : DeployStart(r)
             \/ DeployInvalidateIdentity
             \/ \E owned \in SUBSET Reservations : DeployAcquire(owned)
             \/ DeployProvision \/ DeploySealCandidate \/ DeploySealEvidence
             \/ DeployAcceptCandidate \/ DeployPublishIdentity
      PROVE  [Contract!Next]_(Contract!cvars)
  <2>1. UNCHANGED endpoint
    BY <1>7 DEF DeployStart, DeployInvalidateIdentity, DeployAcquire, DeployProvision,
       DeploySealCandidate, DeploySealEvidence, DeployAcceptCandidate,
       DeployPublishIdentity
  <2>2. UNCHANGED Publishable
    BY <1>7, RunsAssumption
       DEF DeployStart, DeployInvalidateIdentity, DeployAcquire, DeployProvision,
           DeploySealCandidate, DeploySealEvidence, DeployAcceptCandidate,
           DeployPublishIdentity, DeployGoes, DeployAt, Publishable, IInv, TypeOK,
           DeployInv, BeforeAcceptance, Publishing
  <2> QED BY <1>0, <2>1, <2>2, StageKept
<1> QED BY <1>1, <1>2, <1>4, <1>5, <1>6, <1>7 DEF Deploy

\* A step of teardown.sh fences, fails or finishes, or none of it.
LEMMA TeardownImplements ==
    ASSUME IInv, Teardown
    PROVE  [Contract!Next]_(Contract!cvars)
<1> USE DEF Contract!cvars
<1>1. UNCHANGED <<experiment.run, Publishable>>
  BY TeardownAlone, FreshKept
<1>2. CASE UNCHANGED endpoint
  BY <1>1, <1>2, StageKept
<1>3. CASE TeardownFence
  <2>1. Stage \in {"accepted", "failed"} /\ Stage' = "stopping" /\ UNCHANGED endpoint.run
    BY <1>3 DEF TeardownFence, Stage, EndpointIs, IInv, TypeOK
  <2>2. experiment.run # endpoint.run
    BY <1>3, TeardownAlone, RunsAssumption
       DEF TeardownFence, IInv, ExperimentInv, TeardownInv, TearingDown, TeardownAt
  <2> QED BY <1>1, <2>1, <2>2 DEF Contract!Next, Contract!Fence
<1>4. CASE TeardownCompleteEndpoint
  <2>1. Stage = "stopping" /\ Stage' = "down" /\ UNCHANGED endpoint.run
    BY <1>4 DEF TeardownCompleteEndpoint, Stage, EndpointIs, IInv, TypeOK
  <2> QED BY <1>1, <2>1 DEF Contract!Next, Contract!Finish
<1>5. CASE TeardownFailEndpoint
  <2>1. Stage = "stopping" /\ Stage' = "failed" /\ UNCHANGED endpoint.run
    BY <1>5 DEF TeardownFailEndpoint, Stage, EndpointIs, IInv, TypeOK
  <2> QED BY <1>1, <2>1 DEF Contract!Next, Contract!Fail
<1> QED
  BY <1>2, <1>3, <1>4, <1>5
     DEF Teardown, TeardownStart, TeardownTakeExperimentLock, TeardownBegin,
         TeardownRefused, TeardownPhaseRetained, TeardownPhaseWaived,
         TeardownPhaseSucceeds, TeardownPhaseFails, TeardownActs, TeardownRecord,
         TeardownCompleteResult, TeardownControllerError, TeardownFailResult, files

\* A step of experiment.sh attaches or detaches, or keeps what it holds.
LEMMA OthersImplement ==
    ASSUME IInv, Experiment \/ ReservationEnds \/ TeardownDies \/ ExperimentDies
    PROVE  [Contract!Next]_(Contract!cvars)
<1> USE DEF Contract!cvars
<1>1. UNCHANGED <<Stage, endpoint.run, Publishable>>
  <2>1. UNCHANGED deploy
    BY DEF Experiment, ExperimentStart, ExperimentReadEndpoint, ExperimentReadIdentity,
       ExperimentProve, ExperimentWorkloadEnds, ExperimentRefused, ExperimentExit,
       ReservationEnds, TeardownDies, ExperimentDies
  <2> QED BY <2>1, OthersWriteNothing, StageKept, FreshKept
<1>2. CASE ExperimentReadEndpoint
  <2>1. Stage = "accepted" /\ experiment'.run = endpoint.run
    BY <1>2 DEF ExperimentReadEndpoint, ExperimentGoes, EndpointFits, Stage, EndpointIs
  <2> QED BY <1>1, <2>1 DEF Contract!Next, Contract!Attach
<1>3. CASE experiment'.run = NoRun
  BY <1>1, <1>3 DEF Contract!Next, Contract!Detach
<1>4. CASE UNCHANGED experiment.run
  BY <1>1, <1>4
<1> QED
  BY <1>2, <1>3, <1>4
     DEF Experiment, ExperimentStart, ExperimentReadIdentity, ExperimentProve,
         ExperimentWorkloadEnds, ExperimentRefused, ExperimentExit, ExperimentGoes,
         ReservationEnds, TeardownDies, ExperimentDies

\* With every interleaving and every death, the three controllers implement the
\* contract: one testbed at a time, each run published at most once, fenced for
\* good and never under an experiment.
THEOREM ImplementsContract == Spec => ContractImplemented
<1>1. Init => Contract!Init
  BY DEF Init, Contract!Init, Stage, EndpointIs, Publishable
<1>2. IInv /\ [Next]_vars => [Contract!Next]_(Contract!cvars)
  <2>1. ASSUME IInv, UNCHANGED vars PROVE UNCHANGED Contract!cvars
    BY <2>1, StageKept, FreshKept DEF vars, files, Contract!cvars
  <2> QED BY <2>1, DeployImplements, TeardownImplements, OthersImplement DEF Next
<1> QED BY <1>1, <1>2, InvariantHolds, PTL DEF Spec, ContractImplemented, Contract!Spec

\* A teardown works alone and behind its fence.
THEOREM FencedAndAlone == Spec => []FencedAlone
  BY Exclusion, FenceFirst, PTL DEF FencedAlone

\* What a teardown leaves on file is true of the world.
THEOREM EvidenceStands == Spec => []EvidenceHolds
  BY OneDeployment, TrueEvidence, ProvenTornDown, PTL DEF EvidenceHolds

----------------------------------------------------------------------------
(* The archive.                                                            *)

USE DEF Objects, Evidence, Roots

\* What the store and a late upload must be, and what an attempt has of its own.
StoreInv ==
    /\ DOMAIN remote = Objects
    /\ \A o \in Objects : remote[o] \in Contents(o) \cup {None}
    /\ \/ orphan = None
       \/ /\ orphan \in [object : Objects, content : {orphan.content}]
          /\ orphan.content \in Contents(orphan.object)
    /\ OrphanInv /\ SealedIsComplete /\ NothingBlocksRetry

AttemptInv ==
    /\ kind \in Kinds
    /\ root \in Roots /\ root[Temporary] \in Leftovers \cup {None}
    /\ \A f \in Files : root[f] \in Versions \cup {None, Torn}
    /\ marker \in Markers \cup {None, Torn}
    /\ status \in {"none", "VERIFIED", "FAILED"} /\ told \in Endings
    /\ attempt \in [pc : AttemptPC, object : Objects \cup {None}, todo : SUBSET Objects,
                    manifest : Manifests \cup {None}, verdict : Endings]
    /\ FixedInv /\ ProgressInv /\ ObjectInv /\ VerdictInv /\ SnapshotInv /\ VerifiedIsHeld

LEMMA TwoParts == (ArchiveInv <=> StoreInv /\ AttemptInv) /\ (ArchiveInv' <=> StoreInv' /\ AttemptInv')
  BY DEF ArchiveInv, ArchiveTypeOK, StoreInv, AttemptInv

\* The store keeps what it has: files always, the rest where no late upload can
\* meet the temporary file of a status.
Grows ==
    /\ UNCHANGED kind
    /\ Exposed => Exposed'
    /\ \A o \in Objects : remote[o] # None => remote'[o] # None
    /\ \A o \in Evidence \cup {Manifest} :
          remote[o] # None /\ (o \in Files \/ ~Exposed) => remote'[o] = remote[o]
    /\ \A m \in Manifests : Stands(m) => Stands(m)'

\* The values None cannot be.
LEMMA Solid ==
    /\ None \notin Versions /\ None \notin Leftovers /\ None \notin Manifests
    /\ None \notin Markers /\ Torn \notin Markers /\ None # Torn
    /\ Original \in Versions /\ Original # None /\ Torn # Original
    /\ OriginalManifest \in Manifests
    /\ \A m \in Manifests : \A f \in Files : m[f] \in Versions /\ m[f] # None
    /\ \A m \in Manifests : m[Temporary] \in Leftovers \cup {None}
    /\ \A o \in Objects : None \notin Contents(o)
<1>1. OriginalManifest \in Manifests
  BY OriginalAssumption, ObjectsAssumption DEF OriginalManifest, Manifests
<1> QED
  BY <1>1, NoneAssumption, OriginalAssumption DEF Contents, Manifests

LEMMA IsOriginal ==
    ASSUME NEW m \in Manifests, m[Temporary] = None, \A f \in Files : m[f] = Original
    PROVE  m = OriginalManifest
  BY ObjectsAssumption DEF Manifests, OriginalManifest

\* The initial states.
LEMMA InitArchive == ArchiveInit => ArchiveInv
<1> SUFFICES ASSUME ArchiveInit PROVE StoreInv /\ AttemptInv
  BY TwoParts
<1> USE Solid, ObjectsAssumption DEF ArchiveInit, Idle
<1>1. StoreInv
  BY DEF StoreInv, OrphanInv, SealedIsComplete, NothingBlocksRetry
<1>2. /\ root \in Roots
    /\ root[Temporary] = None
      /\ \A f \in Files : root[f] = IF kind = "snapshot" THEN None ELSE Original
  BY DEF OriginalManifest
<1>3. FixedInv /\ ProgressInv /\ ObjectInv /\ VerdictInv
  BY <1>2, KindsAssumption DEF FixedInv, AtWork, ProgressInv, ObjectInv, VerdictInv, AttemptAt
<1>4. SnapshotInv /\ VerifiedIsHeld
  BY DEF SnapshotInv, VerifiedIsHeld
<1> QED
  BY <1>1, <1>2, <1>3, <1>4 DEF AttemptInv, AttemptPC, Endings

\* A step that leaves the store alone, and the orphan.
LEMMA StoreButOrphan ==
    ASSUME ArchiveInv, UNCHANGED <<kind, remote>>
    PROVE  Grows /\ SealedIsComplete' /\ NothingBlocksRetry'
<1>1. \A m : Stands(m)' <=> Stands(m)
  BY DEF Stands, Held, Exposed
<1>2. SealedIsComplete' /\ NothingBlocksRetry'
  BY DEF ArchiveInv, SealedIsComplete, NothingBlocksRetry, Stands, Held, Exposed
<1> QED
  BY <1>1, <1>2 DEF Grows, Exposed

LEMMA StoreKept ==
    ASSUME ArchiveInv, UNCHANGED <<kind, remote, orphan>>
    PROVE  StoreInv' /\ Grows
<1>1. OrphanInv'
  BY DEF ArchiveInv, OrphanInv, Stands, Held, Exposed, Named
<1> QED
  BY <1>1, StoreButOrphan, TwoParts DEF StoreInv, Contents

\* What stands stays, for a marker on the disk as for any manifest.
LEMMA StandsStays ==
    ASSUME Grows, UNCHANGED marker, marker \in Markers, Stands(marker.manifest)
    PROVE  Stands(marker.manifest)'
<1>1. PICK m \in Manifests : m = marker.manifest
  BY DEF Markers
<1>2. Stands(m)'
  BY <1>1 DEF Grows
<1> QED
  BY <1>1, <1>2 DEF Stands, Held, Exposed

\* An attempt that has ended.
LEMMA Ending ==
    ASSUME ArchiveInv, StoreInv', Grows, attempt' = Idle, UNCHANGED marker,
           root' \in Roots,
           \A f \in Files : root'[f] = root[f],
           root'[Temporary] \in Leftovers \cup {None},
           status' \in {status, "FAILED"}, told' \in Endings \ {"VERIFIED"}
    PROVE  ArchiveInv'
<1> USE DEF Idle
<1>1. FixedInv' /\ ProgressInv' /\ ObjectInv' /\ VerdictInv'
  BY DEF ArchiveInv, Grows, FixedInv, AtWork, ProgressInv, ObjectInv, VerdictInv, AttemptAt
<1>2. SnapshotInv'
  BY StandsStays DEF Grows, ArchiveInv, SnapshotInv
<1>3. VerifiedIsHeld'
  BY DEF Grows, ArchiveInv, VerifiedIsHeld
<1>4. AttemptInv'
  BY <1>1, <1>2, <1>3 DEF Grows, ArchiveInv, ArchiveTypeOK, AttemptInv, AttemptPC, Endings
<1> QED
  BY <1>4, TwoParts

\* An attempt that has a verdict, which the store bears out if it is VERIFIED.
LEMMA Concluding ==
    ASSUME ArchiveInv, StoreInv', Grows, NEW v \in Endings, Concludes(v),
           UNCHANGED <<marker, status, told>>, ~AttemptAt("idle"),
           v = "VERIFIED" =>
               remote[Marker] # None /\ marker \in Markers /\ Stands(marker.manifest)
    PROVE  ArchiveInv'
<1> USE DEF Concludes, Idle
<1>0. PICK l \in Leftovers : root' = [root EXCEPT ![Temporary] = l]
  OBVIOUS
<1>1. /\ root' \in Roots /\ root'[Temporary] \in Leftovers
      /\ \A f \in Files : root'[f] = root[f]
  BY <1>0, ObjectsAssumption DEF ArchiveInv, ArchiveTypeOK
<1>2. FixedInv' /\ ProgressInv' /\ ObjectInv'
  BY <1>1 DEF ArchiveInv, Grows, FixedInv, AtWork, ProgressInv, ObjectInv, AttemptAt
<1>3. VerdictInv'
  BY StandsStays DEF Grows, VerdictInv, AttemptAt
<1>4. SnapshotInv'
  BY StandsStays DEF Grows, ArchiveInv, SnapshotInv
<1>5. VerifiedIsHeld'
  BY DEF Grows, ArchiveInv, SnapshotInv, VerifiedIsHeld
<1>6. AttemptInv'
  BY <1>1, <1>2, <1>3, <1>4, <1>5
     DEF Grows, ArchiveInv, ArchiveTypeOK, AttemptInv, AttemptPC
<1> QED
  BY <1>6, TwoParts

\* The manifest of files that are all there.
LEMMA BeginUploadStep ==
    ASSUME ArchiveInv, BeginUpload, UNCHANGED <<kind, root, marker, status, remote, orphan>>,
           AttemptAt("idle") \/ AttemptAt("copying"), told' \in Endings \ {"VERIFIED"},
           \A f \in Files : root[f] \in Versions,
           kind # "result" => \A f \in Files : root[f] = Original
    PROVE  ArchiveInv'
<1> USE DEF BeginUpload, Idle
<1>0. /\ attempt'.pc = "between" /\ attempt'.manifest = root
      /\ attempt'.todo = {e \in Evidence : root[e] # None} \cup {Manifest, Marker}
      /\ attempt' \in [pc : AttemptPC, object : Objects \cup {None}, todo : SUBSET Objects,
                       manifest : {root}, verdict : Endings]
  BY DEF AttemptPC, Endings
<1>1. root \in Manifests
  BY ObjectsAssumption DEF ArchiveInv, ArchiveTypeOK, Manifests
<1>2. StoreInv' /\ Grows
  BY StoreKept
<1>3. FixedInv'
  BY <1>0, <1>1 DEF ArchiveInv, FixedInv, AtWork, AttemptAt
<1>4. ProgressInv' /\ ObjectInv' /\ VerdictInv'
  BY <1>0, Solid, ObjectsAssumption DEF ProgressInv, ObjectInv, VerdictInv, AttemptAt, Named
<1>5. SnapshotInv' /\ VerifiedIsHeld'
  BY <1>2, StandsStays DEF Grows, ArchiveInv, SnapshotInv, VerifiedIsHeld
<1>6. AttemptInv'
  BY <1>0, <1>1, <1>3, <1>4, <1>5 DEF ArchiveInv, ArchiveTypeOK, AttemptInv
<1> QED
  BY <1>2, <1>6, TwoParts

\* One step per action that begins an attempt.
LEMMA StartStep == ASSUME ArchiveInv, Start PROVE ArchiveInv'
<1>1. /\ \A f \in Files : root[f] \in Versions
      /\ kind # "result" => \A f \in Files : root[f] = Original
  BY KindsAssumption, OriginalAssumption DEF ArchiveInv, ArchiveTypeOK, FixedInv, Start
<1> QED
  BY <1>1, BeginUploadStep DEF Start, Endings

LEMMA SnapshotReturnsMarkerStep == ASSUME ArchiveInv, SnapshotReturnsMarker PROVE ArchiveInv'
<1> USE DEF SnapshotReturnsMarker
<1>1. StoreInv' /\ Grows
  BY StoreKept
<1>2. FixedInv' /\ ProgressInv' /\ ObjectInv' /\ VerdictInv'
  BY DEF ArchiveInv, FixedInv, ProgressInv, ObjectInv, VerdictInv, AtWork, AttemptAt
<1>3. SnapshotInv'
  BY <1>1, StandsStays DEF ArchiveInv, SnapshotInv, AttemptAt
<1>4. VerifiedIsHeld'
  BY <1>1, <1>3 DEF ArchiveInv, ArchiveTypeOK, SnapshotInv, VerifiedIsHeld
<1>5. AttemptInv'
  BY <1>2, <1>3, <1>4 DEF ArchiveInv, ArchiveTypeOK, AttemptInv, Endings
<1> QED
  BY <1>1, <1>5, TwoParts

LEMMA SnapshotStartsStep == ASSUME ArchiveInv, SnapshotStarts PROVE ArchiveInv'
<1> USE DEF SnapshotStarts, Idle
<1>1. StoreInv' /\ Grows
  BY StoreKept
<1>2. FixedInv' /\ ProgressInv' /\ ObjectInv' /\ VerdictInv'
  BY DEF ArchiveInv, FixedInv, ProgressInv, ObjectInv, VerdictInv, AtWork, AttemptAt
<1>3. SnapshotInv' /\ VerifiedIsHeld'
  BY Solid DEF ArchiveInv, SnapshotInv, VerifiedIsHeld
<1>4. AttemptInv'
  BY <1>2, <1>3 DEF ArchiveInv, ArchiveTypeOK, AttemptInv, AttemptPC, Endings
<1> QED
  BY <1>1, <1>4, TwoParts

\* A snapshot's file that is written, whole or torn.
LEMMA FileAppears ==
    ASSUME ArchiveInv, NEW f \in Files, NEW v \in {Original, Torn}, root[f] = None,
           root' = [root EXCEPT ![f] = v], AttemptAt("copying"),
           attempt' \in {attempt, Idle}, UNCHANGED <<kind, marker, status, told, remote, orphan>>
    PROVE  ArchiveInv'
<1> USE DEF Idle
<1>0. kind # "result" /\ kind # "run"
  BY Solid DEF ArchiveInv, FixedInv
<1>1. StoreInv' /\ Grows
  BY StoreKept
<1>2. /\ root' \in Roots /\ root'[Temporary] = root[Temporary]
      /\ \A g \in Files : root'[g] \in {root[g], Original, Torn}
  BY ObjectsAssumption, OriginalAssumption DEF ArchiveInv, ArchiveTypeOK
<1>3. FixedInv' /\ ProgressInv' /\ ObjectInv' /\ VerdictInv'
  BY <1>0, <1>2 DEF ArchiveInv, FixedInv, ProgressInv, ObjectInv, VerdictInv, AtWork, AttemptAt
<1>4. SnapshotInv' /\ VerifiedIsHeld'
  BY <1>1, StandsStays DEF ArchiveInv, SnapshotInv, VerifiedIsHeld, AttemptAt
<1>5. AttemptInv'
  BY <1>2, <1>3, <1>4, Solid DEF ArchiveInv, ArchiveTypeOK, AttemptInv, AttemptPC, Endings
<1> QED
  BY <1>1, <1>5, TwoParts

LEMMA CopyFileStep == ASSUME ArchiveInv, NEW f \in Files, CopyFile(f) PROVE ArchiveInv'
  BY FileAppears DEF CopyFile

LEMMA SnapshotCopiedStep == ASSUME ArchiveInv, SnapshotCopied PROVE ArchiveInv'
<1>1. told # "VERIFIED" /\ told \in Endings
  BY DEF ArchiveInv, ArchiveTypeOK, SnapshotInv, SnapshotCopied, AttemptAt
<1> QED
  BY <1>1, OriginalAssumption, BeginUploadStep DEF SnapshotCopied

LEMMA SnapshotChangedStep == ASSUME ArchiveInv, SnapshotChanged PROVE ArchiveInv'
<1>1. StoreInv' /\ Grows
  BY StoreKept DEF SnapshotChanged
<1> QED
  BY <1>1, Ending DEF SnapshotChanged, Endings, ArchiveInv, ArchiveTypeOK

\* Checks.
LEMMA FindsSameStep == ASSUME ArchiveInv, NEW o \in Objects, FindsSame(o) PROVE ArchiveInv'
<1> USE DEF FindsSame, Settled, Due, AttemptAt
<1>0. StoreInv' /\ Grows
  BY StoreKept
<1>1. o \in attempt.todo /\ attempt' = [attempt EXCEPT !.pc = "between", !.todo = @ \ {o}]
  BY DEF ArchiveInv, ProgressInv, AtWork
<1>2. FixedInv' /\ ObjectInv' /\ VerdictInv'
  BY <1>1 DEF ArchiveInv, ArchiveTypeOK, AttemptPC, FixedInv, ObjectInv, VerdictInv, AtWork
<1>3. ProgressInv'
  <2>1. /\ attempt'.pc = "between" /\ attempt'.todo = attempt.todo \ {o}
        /\ attempt'.manifest = attempt.manifest
    BY <1>1 DEF ArchiveInv, ArchiveTypeOK
  <2>2. ProgressInv /\ AtWork /\ o \in attempt.todo /\ remote[o] = Expected(o)
    BY <1>1 DEF ArchiveInv, AtWork
  <2>3. marker \in Markers => marker # None
    BY Solid
  <2> QED
    BY <2>1, <2>2, <2>3, ObjectsAssumption
       DEF ProgressInv, AtWork, Expected, Named, Exposed
<1>4. SnapshotInv' /\ VerifiedIsHeld'
  BY <1>0, StandsStays DEF ArchiveInv, SnapshotInv, VerifiedIsHeld
<1>5. attempt' \in [pc : AttemptPC, object : Objects \cup {None}, todo : SUBSET Objects,
                    manifest : Manifests \cup {None}, verdict : Endings]
  <2>1. attempt \in [pc : AttemptPC, object : Objects \cup {None}, todo : SUBSET Objects,
                     manifest : Manifests \cup {None}, verdict : Endings]
    BY DEF ArchiveInv, ArchiveTypeOK
  <2> HIDE DEF FindsSame
  <2> QED
    BY <1>1, <2>1 DEF AttemptPC
<1>6. AttemptInv'
  BY <1>2, <1>3, <1>4, <1>5 DEF ArchiveInv, ArchiveTypeOK, AttemptInv
<1> QED
  BY <1>0, <1>6, TwoParts

LEMMA FindsNothingStep == ASSUME ArchiveInv, NEW o \in Objects, FindsNothing(o) PROVE ArchiveInv'
<1> USE DEF FindsNothing, Due, AttemptAt
<1>0. StoreInv' /\ Grows
  BY StoreKept
<1>1. o \in attempt.todo
  BY DEF ArchiveInv, ProgressInv, AtWork
<1>2. FixedInv' /\ ProgressInv' /\ VerdictInv'
  BY DEF ArchiveInv, ArchiveTypeOK, AttemptPC, FixedInv, ProgressInv, VerdictInv, AtWork,
         Named, Exposed
<1>3. ObjectInv'
  BY <1>1, ObjectsAssumption DEF ArchiveInv, ArchiveTypeOK, ProgressInv, ObjectInv, AtWork
<1>4. SnapshotInv' /\ VerifiedIsHeld'
  BY <1>0, StandsStays DEF ArchiveInv, SnapshotInv, VerifiedIsHeld
<1>5. AttemptInv'
  BY <1>1, <1>2, <1>3, <1>4 DEF ArchiveInv, ArchiveTypeOK, AttemptInv, AttemptPC
<1> QED
  BY <1>0, <1>5, TwoParts

LEMMA RefusesStep == ASSUME ArchiveInv, NEW o \in Objects, Refuses(o) PROVE ArchiveInv'
<1>1. StoreInv' /\ Grows
  BY StoreKept DEF Refuses
<1> QED
  BY <1>1, Concluding DEF Refuses, Due, AttemptAt, Endings

LEMMA VerificationFailsStep == ASSUME ArchiveInv, VerificationFails PROVE ArchiveInv'
<1>1. StoreInv' /\ Grows
  BY StoreKept DEF VerificationFails
<1> QED
  BY <1>1, Concluding DEF VerificationFails, AttemptAt, Endings

LEMMA VerifyStep == ASSUME ArchiveInv, Verify PROVE ArchiveInv'
<1> DEFINE o == attempt.object
<1> USE DEF Verify, Settled, AttemptAt
<1>0. StoreInv' /\ Grows
  BY StoreKept
<1>1. o \in attempt.todo /\ attempt' = [attempt EXCEPT !.pc = "between", !.todo = @ \ {o}]
  BY DEF ArchiveInv, ObjectInv
<1>2. FixedInv' /\ ObjectInv' /\ VerdictInv'
  BY <1>1 DEF ArchiveInv, ArchiveTypeOK, AttemptPC, FixedInv, ObjectInv, VerdictInv, AtWork
<1>3. ProgressInv'
  <2>1. /\ attempt'.pc = "between" /\ attempt'.todo = attempt.todo \ {o}
        /\ attempt'.manifest = attempt.manifest
    BY <1>1 DEF ArchiveInv, ArchiveTypeOK
  <2>2. ProgressInv /\ ObjectInv /\ attempt.pc = "verifying" /\ remote[o] = Expected(o)
    BY DEF ArchiveInv
  <2>3. marker \in Markers => marker # None
    BY Solid
  <2> QED
    BY <2>1, <2>2, <2>3, ObjectsAssumption
       DEF ProgressInv, ObjectInv, AtWork, Expected, Named, Exposed
<1>4. SnapshotInv' /\ VerifiedIsHeld'
  BY <1>0, StandsStays DEF ArchiveInv, SnapshotInv, VerifiedIsHeld
<1>5. attempt' \in [pc : AttemptPC, object : Objects \cup {None}, todo : SUBSET Objects,
                    manifest : Manifests \cup {None}, verdict : Endings]
  <2>1. attempt \in [pc : AttemptPC, object : Objects \cup {None}, todo : SUBSET Objects,
                     manifest : Manifests \cup {None}, verdict : Endings]
    BY DEF ArchiveInv, ArchiveTypeOK
  <2> HIDE DEF o, Verify
  <2> QED
    BY <1>1, <2>1 DEF AttemptPC
<1>6. AttemptInv'
  BY <1>2, <1>3, <1>4, <1>5 DEF ArchiveInv, ArchiveTypeOK, AttemptInv
<1> QED
  BY <1>0, <1>6, TwoParts

\* What an attempt with nothing but its marker left has put stands.
LEMMA ReadyToSeal ==
    ASSUME ArchiveInv, AtWork, attempt.todo \subseteq {Marker}
    PROVE  attempt.manifest \in Manifests /\ Stands(attempt.manifest)
<1>1. attempt.manifest \in Manifests /\ ProgressInv
  BY DEF ArchiveInv, FixedInv
<1>2. \A f \in Files : remote[f] = attempt.manifest[f]
  BY <1>1, ObjectsAssumption DEF ProgressInv
<1>3. ~Exposed => remote[Manifest] = attempt.manifest
  BY <1>1, ObjectsAssumption DEF ProgressInv
<1>4. ~Exposed /\ attempt.manifest[Temporary] # None =>
          remote[Temporary] = attempt.manifest[Temporary]
  BY <1>1, ObjectsAssumption DEF ProgressInv
<1> QED
  BY <1>1, <1>2, <1>3, <1>4 DEF Stands, Held

\* Markers.
LEMMA WriteMarkerStep == ASSUME ArchiveInv, WriteMarker PROVE ArchiveInv'
<1> USE DEF WriteMarker, AttemptGoes, AttemptAt
<1>0. StoreInv' /\ Grows
  BY StoreKept
<1>1. attempt.manifest \in Manifests /\ Stands(attempt.manifest)
  BY ReadyToSeal DEF AtWork
<1>2. PICK s \in Stamps : marker' = [stamp |-> s, manifest |-> attempt.manifest]
  OBVIOUS
<1>3. marker' \in Markers /\ marker'.manifest = attempt.manifest
  BY <1>1, <1>2 DEF Markers
<1>4. Stands(marker.manifest)'
  BY <1>1, <1>3 DEF Stands, Held, Exposed
<1>5. FixedInv' /\ VerdictInv'
  BY DEF ArchiveInv, ArchiveTypeOK, FixedInv, VerdictInv, AtWork
<1>6. ProgressInv' /\ ObjectInv'
  BY <1>3, ObjectsAssumption
     DEF ArchiveInv, ArchiveTypeOK, ProgressInv, ObjectInv, AtWork, Named, Exposed
<1>7. SnapshotInv' /\ VerifiedIsHeld'
  BY <1>4 DEF ArchiveInv, SnapshotInv, VerifiedIsHeld
<1>8. AttemptInv'
  BY <1>3, <1>5, <1>6, <1>7 DEF ArchiveInv, ArchiveTypeOK, AttemptInv, AttemptPC
<1> QED
  BY <1>0, <1>8, TwoParts

LEMMA FinishStep == ASSUME ArchiveInv, Finish PROVE ArchiveInv'
<1>1. StoreInv' /\ Grows
  BY StoreKept DEF Finish
<1>2. Stands(attempt.manifest)
  BY ReadyToSeal DEF Finish, AtWork, AttemptAt
<1>3. remote[Marker] # None /\ marker \in Markers /\ marker.manifest = attempt.manifest
  BY DEF Finish, ArchiveInv, ProgressInv, AtWork, AttemptAt
<1> QED
  BY <1>1, <1>2, <1>3, Concluding DEF Finish, AttemptAt, Endings

\* The verdict becomes the status.
LEMMA ReportStep == ASSUME ArchiveInv, Report PROVE ArchiveInv'
<1> USE DEF Report, Idle
<1>0. StoreInv' /\ Grows
  BY StoreKept
<1>1. /\ root' \in Roots /\ root'[Temporary] = None
      /\ \A f \in Files : root'[f] = root[f]
  BY ObjectsAssumption DEF ArchiveInv, ArchiveTypeOK
<1>2. FixedInv' /\ ProgressInv' /\ ObjectInv' /\ VerdictInv'
  BY <1>1 DEF ArchiveInv, FixedInv, ProgressInv, ObjectInv, VerdictInv, AtWork, AttemptAt
<1>3. SnapshotInv'
  BY <1>0, StandsStays DEF ArchiveInv, SnapshotInv, AttemptAt
<1>4. VerifiedIsHeld'
  BY <1>0, StandsStays DEF ArchiveInv, VerdictInv, VerifiedIsHeld
<1>5. AttemptInv'
  BY <1>1, <1>2, <1>3, <1>4 DEF ArchiveInv, ArchiveTypeOK, AttemptInv, AttemptPC, Endings
<1> QED
  BY <1>0, <1>5, TwoParts

LEMMA ReportFailsStep == ASSUME ArchiveInv, ReportFails PROVE ArchiveInv'
<1>1. StoreInv' /\ Grows /\ AttemptAt("reporting") /\ UNCHANGED <<kind, marker, status>>
  BY StoreKept DEF ReportFails
<1>2. CASE Concludes("unreported") /\ UNCHANGED told
  BY <1>1, <1>2, Concluding DEF AttemptAt, Endings
<1>3. CASE attempt' = Idle /\ told' = "unreported" /\ UNCHANGED root
  BY <1>1, <1>3, Ending DEF ArchiveInv, ArchiveTypeOK, Endings
<1> QED
  BY <1>2, <1>3 DEF ReportFails

\* What may be put: over nothing or over itself, unless a late upload meets the
\* temporary file of a status; a manifest after what it names; a marker of what
\* stands.
Fits(o, c) ==
    /\ o \in Files \/ (o # Marker /\ ~Exposed) => remote[o] \in {None, c}
    /\ o = Manifest => Named(c)
    /\ o = Marker => Stands(c.manifest)
    /\ kind # "result" => /\ o \in Files => c = Original
                          /\ o = Manifest => \A f \in Files : c[f] = Original

LEMMA PutGrows ==
    ASSUME ArchiveInv, NEW o \in Objects, NEW c \in Contents(o), Fits(o, c),
           UNCHANGED kind, remote' = [remote EXCEPT ![o] = c]
    PROVE  /\ Grows /\ SealedIsComplete' /\ NothingBlocksRetry'
           /\ DOMAIN remote' = Objects
           /\ \A p \in Objects : remote'[p] \in Contents(p) \cup {None}
<1>0. DOMAIN remote = Objects /\ \A p \in Objects : remote[p] \in Contents(p) \cup {None}
  BY DEF ArchiveInv, ArchiveTypeOK
<1>1. \A p \in Objects : remote'[p] = IF p = o THEN c ELSE remote[p]
  BY <1>0 DEF Fits
<1>2. c # None
  BY Solid
<1>3. \A p \in Evidence \cup {Manifest} :
          remote[p] # None /\ (p \in Files \/ ~Exposed) => remote'[p] = remote[p]
  BY <1>1, ObjectsAssumption DEF Fits
<1>4. (Exposed => Exposed') /\ \A p \in Objects : remote[p] # None => remote'[p] # None
  BY <1>1, <1>2 DEF Exposed
<1>5. \A m \in Manifests : Stands(m) => Stands(m)'
  <2> SUFFICES ASSUME NEW m \in Manifests, Stands(m) PROVE Stands(m)'
    OBVIOUS
  <2>1. \A f \in Files : remote'[f] = m[f]
    BY <1>3, Solid DEF Stands
  <2>2. ASSUME ~Exposed' PROVE Held(m)'
    <3>1. ~Exposed /\ Held(m)
      BY <2>2, <1>4 DEF Stands
    <3>2. remote'[Manifest] = m
      BY <3>1, <1>3, Solid DEF Held
    <3>3. \A e \in Evidence : m[e] # None => remote'[e] = m[e]
      BY <3>1, <1>3 DEF Held
    <3> QED
      BY <3>2, <3>3 DEF Held
  <2> QED
    BY <2>1, <2>2 DEF Stands
<1>6. Grows
  BY <1>3, <1>4, <1>5 DEF Grows
<1>7. SealedIsComplete'
  <2> SUFFICES ASSUME remote'[Marker] # None PROVE Stands(remote[Marker].manifest)'
    BY DEF SealedIsComplete
  <2> DEFINE sealed == IF o = Marker THEN c ELSE remote[Marker]
  <2>1. remote'[Marker] = sealed
    BY <1>1
  <2>2. sealed \in Markers
    BY <1>0, <2>1, ObjectsAssumption DEF Contents
  <2>3. Stands(sealed.manifest)
    BY <2>1 DEF ArchiveInv, SealedIsComplete, Fits
  <2> HIDE DEF sealed
  <2>4. PICK m \in Manifests : m = sealed.manifest
    BY <2>2 DEF Markers
  <2>5. Stands(m)'
    BY <2>3, <2>4, <1>5
  <2> QED
    BY <2>1, <2>4, <2>5 DEF Stands, Held, Exposed
<1>8. NothingBlocksRetry'
  <2> SUFFICES ASSUME kind # "result"
               PROVE  /\ \A f \in Files : remote'[f] \in {None, Original}
                      /\ remote'[Temporary] = None =>
                            remote'[Manifest] \in {None, OriginalManifest}
    BY DEF NothingBlocksRetry
  <2>1. \A f \in Files : remote'[f] \in {None, Original}
    BY <1>1 DEF Fits, ArchiveInv, NothingBlocksRetry
  <2>2. ASSUME remote'[Temporary] = None PROVE remote'[Manifest] \in {None, OriginalManifest}
    <3>1. remote[Temporary] = None
      BY <2>2, <1>4
    <3>2. CASE o # Manifest
      BY <3>1, <3>2, <1>1 DEF ArchiveInv, NothingBlocksRetry
    <3>3. CASE o = Manifest
      <4>1. c \in Manifests /\ c[Temporary] = None
        BY <3>1, <3>3, ObjectsAssumption DEF Contents, Fits, Named
      <4>2. \A f \in Files : c[f] = Original
        BY <3>3 DEF Fits
      <4> QED
        BY <4>1, <4>2, <3>3, <1>1, IsOriginal
    <3> QED
      BY <3>2, <3>3
  <2> QED
    BY <2>1, <2>2
<1>9. /\ DOMAIN remote' = Objects
      /\ \A p \in Objects : remote'[p] \in Contents(p) \cup {None}
  BY <1>0, <1>1 DEF Fits
<1> QED
  BY <1>6, <1>7, <1>8, <1>9

\* What mc cp reads is what its object should be.
LEMMA OnDiskFits ==
    ASSUME ArchiveInv, AttemptAt("uploading")
    PROVE  /\ attempt.object \in Objects
           /\ OnDisk(attempt.object) \in Contents(attempt.object)
           /\ Fits(attempt.object, OnDisk(attempt.object))
<1> DEFINE o == attempt.object  c == OnDisk(o)
<1>0. /\ FixedInv /\ ProgressInv /\ ObjectInv /\ NothingBlocksRetry /\ AtWork
      /\ o \in Objects /\ o \in attempt.todo /\ attempt.manifest \in Manifests
  BY DEF ArchiveInv, ArchiveTypeOK, FixedInv, ObjectInv, AttemptAt, AtWork
<1>1. kind = "result" => kind \notin Outliving
  BY OutlivingAssumption
<1>2. kind \notin Outliving => remote[o] = None
  BY <1>0 DEF ObjectInv, AttemptAt
<1>3. kind \in Outliving /\ ~Exposed => remote[Temporary] = None
  BY DEF Exposed
<1>4. CASE o \in Files
  <2>1. c = root[o] /\ o # Marker /\ o # Manifest /\ o # Temporary
    BY <1>4, ObjectsAssumption DEF OnDisk
  <2>2. kind # "result" => c = Original /\ remote[o] \in {None, c}
    BY <1>0, <1>4, <2>1 DEF FixedInv, NothingBlocksRetry
  <2>3. kind = "result" => c \in Versions /\ remote[o] = None
    BY <1>0, <1>1, <1>2, <1>4, <2>1 DEF FixedInv
  <2> QED
    BY <1>0, <1>4, <2>1, <2>2, <2>3, Solid DEF Contents, Fits
<1>5. CASE o = Temporary
  <2>1. c = root[o] /\ o # Marker /\ o # Manifest /\ o \notin Files
    BY <1>5, ObjectsAssumption DEF OnDisk
  <2>2. c \in Leftovers
    BY <1>0, <1>5, <2>1, Solid DEF FixedInv, ProgressInv
  <2> QED
    BY <1>0, <1>2, <1>3, <1>5, <2>1, <2>2 DEF Contents, Fits
<1>6. CASE o = Manifest
  <2>1. c = attempt.manifest /\ o \notin Files /\ o # Marker /\ o # Temporary
    BY <1>6, ObjectsAssumption DEF OnDisk, Expected
  <2>2. Named(c)
    BY <1>0, <1>6, <2>1, ObjectsAssumption DEF ProgressInv, ObjectInv, AttemptAt
  <2>3. kind # "result" => \A f \in Files : c[f] = Original
    BY <1>0, <2>1 DEF FixedInv
  <2>4. ASSUME ~Exposed PROVE remote[o] \in {None, c}
    <3>1. CASE kind \notin Outliving
      BY <3>1, <1>2
    <3>2. CASE kind \in Outliving
      <4>1. remote[Temporary] = None /\ kind # "result"
        BY <2>4, <3>2, <1>1, <1>3
      <4>2. c[Temporary] = None
        BY <4>1, <2>2 DEF Named
      <4>3. c = OriginalManifest
        BY <4>1, <4>2, <2>1, <2>3, <1>0, IsOriginal
      <4> QED
        BY <4>1, <4>3, <1>0, <1>6 DEF NothingBlocksRetry
    <3> QED
      BY <3>1, <3>2
  <2> QED
    BY <1>0, <1>6, <2>1, <2>2, <2>3, <2>4 DEF Contents, Fits
<1>7. CASE o = Marker
  <2>1. c = marker /\ o \notin Files /\ o # Manifest /\ o # Temporary
    BY <1>7, ObjectsAssumption DEF OnDisk, Expected
  <2>2. marker \in Markers /\ marker.manifest = attempt.manifest /\ attempt.todo = {Marker}
    BY <1>0, <1>7 DEF ObjectInv, AttemptAt
  <2>3. Stands(attempt.manifest)
    BY <1>0, <2>2, ReadyToSeal
  <2> QED
    BY <1>7, <2>1, <2>2, <2>3 DEF Contents, Fits
<1> QED
  BY <1>0, <1>4, <1>5, <1>6, <1>7

\* The effect of mc cp on the store.
LEMMA PutEffect ==
    ASSUME ArchiveInv, AttemptAt("uploading"), UNCHANGED <<kind, orphan>>,
           remote' = [remote EXCEPT ![attempt.object] = OnDisk(attempt.object)]
    PROVE  StoreInv' /\ Grows
<1> DEFINE o == attempt.object  c == OnDisk(o)
<1>1. o \in Objects /\ c \in Contents(o) /\ Fits(o, c)
  BY OnDiskFits
<1> HIDE DEF o, c
<1>2. PICK oo \in Objects : oo = o
  BY <1>1
<1>3. PICK cc \in Contents(oo) : cc = c
  BY <1>1, <1>2
<1>4. Fits(oo, cc) /\ remote' = [remote EXCEPT ![oo] = cc]
  BY <1>1, <1>2, <1>3 DEF o, c
<1>5. /\ Grows /\ SealedIsComplete' /\ NothingBlocksRetry'
      /\ DOMAIN remote' = Objects
      /\ \A p \in Objects : remote'[p] \in Contents(p) \cup {None}
  BY <1>4, PutGrows
<1>6. OrphanInv'
  <2> SUFFICES ASSUME orphan # None PROVE OrphanInv'
    BY DEF OrphanInv
  <2>0. OrphanInv /\ orphan.object \in Objects /\ orphan.content \in Contents(orphan.object)
    BY DEF ArchiveInv, ArchiveTypeOK
  <2>1. remote[Temporary] # None => remote'[Temporary] # None
    BY <1>5 DEF Grows
  <2>2. \A f \in Files : remote[f] = Original => remote'[f] = Original
    BY <1>5, Solid DEF Grows
  <2>3. orphan.object = Marker => Stands(orphan.content.manifest)'
    <3> SUFFICES ASSUME orphan.object = Marker PROVE Stands(orphan.content.manifest)'
      OBVIOUS
    <3>1. orphan.content \in Markers
      BY <2>0, ObjectsAssumption DEF Contents
    <3>2. PICK m \in Manifests : m = orphan.content.manifest
      BY <3>1 DEF Markers
    <3>3. Stands(m)'
      BY <2>0, <3>2, <1>5 DEF Grows, OrphanInv
    <3> QED
      BY <3>2, <3>3 DEF Stands, Held, Exposed
  <2> QED
    BY <2>0, <2>1, <2>2, <2>3 DEF OrphanInv, Named
<1>7. /\ \/ orphan = None
         \/ /\ orphan \in [object : Objects, content : {orphan.content}]
            /\ orphan.content \in Contents(orphan.object)
  BY DEF ArchiveInv, ArchiveTypeOK
<1> QED
  BY <1>5, <1>6, <1>7 DEF StoreInv, Contents

\* What the attempt has behind it stays in a store that keeps what it has.
LEMMA ProgressStays ==
    ASSUME ArchiveInv, Grows, UNCHANGED <<kind, root, marker>>,
           attempt' = attempt \/ (AttemptAt("uploading")
                                  /\ attempt' = [attempt EXCEPT !.pc = "verifying"])
    PROVE  ProgressInv' /\ FixedInv' /\ VerdictInv'
<1>1. /\ attempt'.todo = attempt.todo /\ attempt'.manifest = attempt.manifest
      /\ attempt'.verdict = attempt.verdict /\ AtWork' = AtWork
      /\ AttemptAt("marked")' = AttemptAt("marked")
      /\ AttemptAt("reporting")' = AttemptAt("reporting")
  BY DEF ArchiveInv, ArchiveTypeOK, AtWork, AttemptAt
<1>2. FixedInv'
  BY <1>1 DEF ArchiveInv, FixedInv
<1>3. VerdictInv'
  BY <1>1, StandsStays DEF ArchiveInv, VerdictInv, Grows
<1>4. ProgressInv'
  <2> SUFFICES ASSUME AtWork PROVE ProgressInv'
    BY <1>1 DEF ProgressInv
  <2>0. attempt.manifest \in Manifests /\ ProgressInv
    BY DEF ArchiveInv, FixedInv
  <2>1. attempt.manifest # None /\ \A f \in Files : attempt.manifest[f] # None
    BY <2>0, Solid
  <2>2. \A f \in Files : f \in attempt.todo \/ remote'[f] = attempt.manifest[f]
    BY <2>0, <2>1 DEF ProgressInv, Grows
  <2>3. Temporary \in attempt.todo \/ Named(attempt.manifest)'
    BY <2>0, <1>1 DEF ProgressInv, Grows, Named
  <2>4. ~Exposed' /\ attempt.manifest[Temporary] # None =>
            Temporary \in attempt.todo \/ remote'[Temporary] = attempt.manifest[Temporary]
    BY <2>0 DEF ProgressInv, Grows
  <2>5. Manifest \notin attempt.todo /\ ~Exposed' => remote'[Manifest] = attempt.manifest
    BY <2>0, <2>1 DEF ProgressInv, Grows
  <2>6. Marker \notin attempt.todo => remote'[Marker] # None
    BY <2>0 DEF ProgressInv, Grows
  <2> QED
    BY <1>1, <2>0, <2>2, <2>3, <2>4, <2>5, <2>6 DEF ProgressInv, Named
<1> QED
  BY <1>2, <1>3, <1>4

LEMMA UploadStep == ASSUME ArchiveInv, Upload PROVE ArchiveInv'
<1>0. AttemptAt("uploading") /\ UNCHANGED <<kind, root, marker, orphan, status, told>>
  BY DEF Upload
<1>1. /\ remote' = [remote EXCEPT ![attempt.object] = OnDisk(attempt.object)]
      /\ attempt' = [attempt EXCEPT !.pc = "verifying"]
  BY DEF Upload, AttemptGoes
<1>2. StoreInv' /\ Grows
  BY <1>0, <1>1, PutEffect
<1>3. ProgressInv' /\ FixedInv' /\ VerdictInv'
  BY <1>0, <1>1, <1>2, ProgressStays
<1>4. ObjectInv'
  BY <1>0, <1>1 DEF ArchiveInv, ArchiveTypeOK, ObjectInv, AttemptAt
<1>5. SnapshotInv' /\ VerifiedIsHeld'
  BY <1>0, <1>2, StandsStays DEF ArchiveInv, SnapshotInv, VerifiedIsHeld, AttemptAt, Grows
<1>6. AttemptInv'
  BY <1>0, <1>1, <1>3, <1>4, <1>5 DEF ArchiveInv, ArchiveTypeOK, AttemptInv, AttemptPC
<1> QED
  BY <1>2, <1>6, TwoParts

LEMMA StoreFailsStep == ASSUME ArchiveInv, StoreFails PROVE ArchiveInv'
<1>1. /\ Concludes("unavailable") /\ UNCHANGED <<kind, marker, status, told, orphan>>
      /\ ~AttemptAt("idle")
  BY DEF StoreFails, AttemptAt
<1>2. CASE UNCHANGED remote
  <2>1. StoreInv' /\ Grows
    BY <1>1, <1>2, StoreKept
  <2> QED
    BY <1>1, <2>1, Concluding DEF Endings
<1>3. CASE /\ AttemptAt("uploading")
           /\ remote' = [remote EXCEPT ![attempt.object] = OnDisk(attempt.object)]
  <2>1. StoreInv' /\ Grows
    BY <1>1, <1>3, PutEffect
  <2> QED
    BY <1>1, <2>1, Concluding DEF Endings
<1> QED
  BY <1>2, <1>3 DEF StoreFails

\* A death ends the attempt; what else it leaves behind is one of four.
LEMMA DiesStep == ASSUME ArchiveInv, Dies PROVE ArchiveInv'
<1>0. /\ attempt' = Idle /\ UNCHANGED <<kind, status, told, remote>> /\ ~AttemptAt("idle")
      /\ told # "VERIFIED" /\ told \in Endings
      /\ root \in Roots /\ root[Temporary] \in Leftovers \cup {None}
  BY DEF Dies, ArchiveInv, ArchiveTypeOK, SnapshotInv
<1>1. CASE UNCHANGED <<root, marker, orphan>>
  <2>1. StoreInv' /\ Grows
    BY <1>0, <1>1, StoreKept
  <2> QED
    BY <1>0, <1>1, <2>1, Ending
<1>2. ASSUME AttemptAt("copying"), UNCHANGED <<marker, orphan>>,
             NEW f \in Files, root[f] = None, root' = [root EXCEPT ![f] = Torn]
      PROVE  ArchiveInv'
  BY <1>0, <1>2, FileAppears
<1>3. CASE marker' = Torn /\ UNCHANGED <<root, orphan>>
  <2>1. StoreInv' /\ Grows
    BY <1>0, <1>3, StoreKept
  <2>2. FixedInv' /\ ProgressInv' /\ ObjectInv' /\ VerdictInv'
    BY <1>0, <1>3 DEF Idle, ArchiveInv, FixedInv, AtWork, ProgressInv, ObjectInv, VerdictInv,
                      AttemptAt
  <2>3. SnapshotInv' /\ VerifiedIsHeld'
    BY <1>0, <1>3, Solid DEF ArchiveInv, SnapshotInv, VerifiedIsHeld
  <2>4. AttemptInv'
    BY <1>0, <1>3, <2>2, <2>3 DEF Idle, ArchiveInv, ArchiveTypeOK, AttemptInv, AttemptPC, Endings
  <2> QED
    BY <2>1, <2>4, TwoParts
<1>4. CASE /\ AttemptAt("uploading") /\ kind \in Outliving
           /\ orphan' = [object |-> attempt.object, content |-> OnDisk(attempt.object)]
           /\ UNCHANGED <<root, marker>>
  <2> DEFINE o == attempt.object  c == OnDisk(o)
  <2>1. orphan'.object = o /\ orphan'.content = c /\ kind # "result"
    BY <1>4, OutlivingAssumption
  <2>2. /\ o \in Objects /\ c \in Contents(o)
        /\ o = Manifest => Named(c)
        /\ o = Marker => Stands(c.manifest)
        /\ o \in Files => c = Original
        /\ o = Manifest => \A f \in Files : c[f] = Original
    BY <1>4, <2>1, OnDiskFits DEF Fits
  <2>3. o = Manifest => \A f \in Files : remote[f] = Original
    BY <1>4, <2>1, ObjectsAssumption
       DEF ArchiveInv, FixedInv, ObjectInv, ProgressInv, AttemptAt, AtWork
  <2>4. Grows /\ SealedIsComplete' /\ NothingBlocksRetry'
    BY <1>0, StoreButOrphan
  <2>5. OrphanInv'
    <3> HIDE DEF o, c
    <3>1. Stands(orphan.content.manifest)' <=> Stands(orphan'.content.manifest)
      BY <1>0 DEF Stands, Held, Exposed
    <3> QED
      BY <1>0, <1>4, <2>1, <2>2, <2>3, <3>1 DEF OrphanInv, Named
  <2>6. StoreInv'
    BY <1>0, <1>4, <2>1, <2>2, <2>4, <2>5 DEF StoreInv, ArchiveInv, ArchiveTypeOK, Contents
  <2> QED
    BY <1>0, <1>4, <2>4, <2>6, Ending
<1> QED
  BY <1>0, <1>1, <1>2, <1>3, <1>4 DEF Dies

LEMMA OrphanEndsStep == ASSUME ArchiveInv, OrphanEnds PROVE ArchiveInv' /\ Grows
<1>0. orphan # None /\ orphan' = None /\ UNCHANGED <<kind, root, marker, status, attempt, told>>
  BY DEF OrphanEnds
<1>1. kind \in Outliving /\ kind # "result"
  BY <1>0, OutlivingAssumption DEF ArchiveInv, OrphanInv
<1>2. /\ Grows /\ SealedIsComplete' /\ NothingBlocksRetry'
      /\ DOMAIN remote' = Objects
      /\ \A p \in Objects : remote'[p] \in Contents(p) \cup {None}
  <2>1. CASE UNCHANGED remote
    BY <1>0, <2>1, StoreButOrphan DEF ArchiveInv, ArchiveTypeOK, Contents
  <2>2. CASE remote' = [remote EXCEPT ![orphan.object] = orphan.content]
    <3>1. orphan.object \in Objects /\ orphan.content \in Contents(orphan.object)
      BY <1>0 DEF ArchiveInv, ArchiveTypeOK
    <3>2. PICK o \in Objects : o = orphan.object
      BY <3>1
    <3>3. PICK c \in Contents(o) : c = orphan.content
      BY <3>1, <3>2
    <3>4. /\ o \in Files => c = Original
          /\ o = Manifest => Named(c) /\ \A f \in Files : c[f] = Original
          /\ o = Marker => Stands(c.manifest)
      BY <1>0, <3>2, <3>3 DEF ArchiveInv, OrphanInv
    <3>5. o \in Files => remote[o] \in {None, c}
      BY <1>1, <3>4 DEF ArchiveInv, NothingBlocksRetry
    <3>6. o # Marker /\ ~Exposed /\ o \notin Files => remote[o] \in {None, c}
      <4> SUFFICES ASSUME o # Marker, ~Exposed, o \notin Files PROVE remote[o] \in {None, c}
        OBVIOUS
      <4>1. remote[Temporary] = None
        BY <1>1 DEF Exposed
      <4>2. CASE o = Temporary
        BY <4>1, <4>2
      <4>3. CASE o = Manifest
        <5>1. c \in Manifests /\ c[Temporary] = None
          BY <3>4, <4>1, <4>3, ObjectsAssumption DEF Contents, Named
        <5>2. c = OriginalManifest
          BY <5>1, <3>4, <4>3, IsOriginal
        <5> QED
          BY <1>1, <4>1, <4>3, <5>2 DEF ArchiveInv, NothingBlocksRetry
      <4> QED
        BY <4>2, <4>3
    <3>7. Fits(o, c)
      BY <3>2, <3>3, <3>4, <3>5, <3>6 DEF Fits
    <3> QED
      BY <1>0, <2>2, <3>2, <3>3, <3>7, PutGrows
  <2> QED
    BY <2>1, <2>2 DEF OrphanEnds
<1>3. StoreInv'
  BY <1>0, <1>2 DEF StoreInv, OrphanInv
<1>4. ProgressInv' /\ FixedInv' /\ VerdictInv'
  BY <1>0, <1>2, ProgressStays
<1>5. ObjectInv'
  BY <1>0, <1>1 DEF ArchiveInv, ObjectInv, AttemptAt
<1>6. SnapshotInv' /\ VerifiedIsHeld'
  BY <1>0, <1>2, StandsStays DEF ArchiveInv, SnapshotInv, VerifiedIsHeld, AttemptAt, Grows
<1>7. AttemptInv'
  BY <1>0, <1>4, <1>5, <1>6 DEF ArchiveInv, ArchiveTypeOK, AttemptInv
<1> QED
  BY <1>2, <1>3, <1>7, TwoParts

LEMMA EditStep == ASSUME ArchiveInv, NEW f \in Files, Edit(f) PROVE ArchiveInv'
<1>0. kind = "result" /\ UNCHANGED <<kind, marker, status, attempt, told, remote, orphan>>
  BY DEF Edit
<1>1. StoreInv' /\ Grows
  BY <1>0, StoreKept
<1>2. PICK v \in Versions : root' = [root EXCEPT ![f] = v]
  BY DEF Edit
<1>3. /\ root' \in Roots /\ root'[Temporary] = root[Temporary]
      /\ \A g \in Files : root'[g] \in {root[g], v}
  BY <1>2, ObjectsAssumption DEF ArchiveInv, ArchiveTypeOK
<1>4. FixedInv' /\ ProgressInv' /\ ObjectInv' /\ VerdictInv'
  BY <1>0, <1>3 DEF ArchiveInv, FixedInv, ProgressInv, ObjectInv, VerdictInv, AtWork,
                    AttemptAt, Named, Exposed, Stands, Held
<1>5. SnapshotInv' /\ VerifiedIsHeld'
  BY <1>0, <1>1, StandsStays DEF ArchiveInv, SnapshotInv, VerifiedIsHeld, AttemptAt
<1>6. AttemptInv'
  BY <1>0, <1>3, <1>4, <1>5 DEF ArchiveInv, ArchiveTypeOK, AttemptInv
<1> QED
  BY <1>1, <1>6, TwoParts

LEMMA StutterStep == ASSUME ArchiveInv, UNCHANGED archiveVars PROVE ArchiveInv'
<1> USE DEF archiveVars
<1>1. StoreInv' /\ Grows
  BY StoreKept
<1>2. FixedInv' /\ ProgressInv' /\ ObjectInv' /\ VerdictInv' /\ SnapshotInv' /\ VerifiedIsHeld'
  BY DEF ArchiveInv, FixedInv, ProgressInv, ObjectInv, VerdictInv, SnapshotInv, VerifiedIsHeld,
         AtWork, AttemptAt, Named, Exposed, Stands, Held
<1>3. AttemptInv'
  BY <1>2 DEF ArchiveInv, ArchiveTypeOK, AttemptInv
<1> QED
  BY <1>1, <1>3, TwoParts

LEMMA NextArchive == ArchiveInv /\ [ArchiveNext]_archiveVars => ArchiveInv'
<1> SUFFICES ASSUME ArchiveInv, [ArchiveNext]_archiveVars PROVE ArchiveInv'
  OBVIOUS
<1>1. Operator => ArchiveInv'
  BY StartStep, SnapshotReturnsMarkerStep, SnapshotStartsStep DEF Operator
<1>2. Archiver => ArchiveInv'
  BY CopyFileStep, SnapshotChangedStep, SnapshotCopiedStep, FindsSameStep, FindsNothingStep,
     RefusesStep, UploadStep, VerifyStep, VerificationFailsStep, WriteMarkerStep, FinishStep,
     ReportStep DEF Archiver
<1> QED
  BY <1>1, <1>2, StoreFailsStep, ReportFailsStep, DiesStep, OrphanEndsStep, EditStep,
     StutterStep DEF ArchiveNext

\* ArchiveInv is an inductive invariant of the archive, for any files and
\* contents, whatever fails, dies or lands late, temporary files included.
THEOREM ArchiveInvariant == ArchiveSpec => []ArchiveInv
  BY InitArchive, NextArchive, PTL DEF ArchiveSpec

\* A marker in the store seals a complete archive.
THEOREM SealIsComplete == ArchiveSpec => []SealedIsComplete
<1>1. ArchiveInv => SealedIsComplete
  BY DEF ArchiveInv
<1> QED
  BY <1>1, ArchiveInvariant, PTL

\* An archive reported VERIFIED is in the store.
THEOREM VerifiedMeansHeld == ArchiveSpec => []VerifiedIsHeld
<1>1. ArchiveInv => VerifiedIsHeld
  BY DEF ArchiveInv
<1> QED
  BY <1>1, ArchiveInvariant, PTL

\* What attempts leave in the store never refuses a file of a retry, nor its
\* manifest unless the temporary file of a status is there.
THEOREM RetryIsNotBlocked == ArchiveSpec => []NothingBlocksRetry
<1>1. ArchiveInv => NothingBlocksRetry
  BY DEF ArchiveInv
<1> QED
  BY <1>1, ArchiveInvariant, PTL

\* No step overwrites a file in the store, nor a manifest that no late upload of
\* another one can meet.
LEMMA NextImmutable ==
    ArchiveInv /\ [ArchiveNext]_archiveVars =>
        [\A o \in Evidence \cup {Manifest} :
            remote[o] # None /\ (o \in Files \/ ~Exposed) => remote'[o] = remote[o]]_archiveVars
<1> SUFFICES ASSUME ArchiveInv, ArchiveNext
             PROVE  \A o \in Evidence \cup {Manifest} :
                       remote[o] # None /\ (o \in Files \/ ~Exposed) => remote'[o] = remote[o]
  OBVIOUS
<1>1. Operator => UNCHANGED remote
  BY DEF Operator, Start, SnapshotReturnsMarker, SnapshotStarts
<1>2. Archiver => UNCHANGED remote \/ Upload
  BY DEF Archiver, CopyFile, SnapshotChanged, SnapshotCopied, FindsSame, FindsNothing, Refuses,
         Verify, VerificationFails, WriteMarker, Finish, Report
<1>3. ReportFails \/ Dies \/ (\E f \in Files : Edit(f)) => UNCHANGED remote
  BY DEF ReportFails, Dies, Edit
<1>4. Upload => Grows
  BY PutEffect DEF Upload
<1>5. StoreFails => UNCHANGED remote \/ Grows
  BY PutEffect DEF StoreFails
<1>6. OrphanEnds => Grows
  BY OrphanEndsStep
<1> QED
  BY <1>1, <1>2, <1>3, <1>4, <1>5, <1>6 DEF ArchiveNext, Grows

\* Remote evidence is immutable: no attempt, orphan or edit overwrites it, but
\* for what a late upload may do to a manifest once the temporary file of a
\* status is in the store.
THEOREM ImmutableEvidence == ArchiveSpec => EvidenceIsImmutable
  BY ArchiveInvariant, NextImmutable, PTL DEF ArchiveSpec, EvidenceIsImmutable

\* Every variable of the archive keeps its type.
THEOREM ArchiveTypeCorrect == ArchiveSpec => []ArchiveTypeOK
  BY ArchiveInvariant, PTL DEF ArchiveInv

\* A seal and VERIFIED stand for a whole archive.
THEOREM WholeArchive == ArchiveSpec => []ArchiveIsWhole
  BY SealIsComplete, VerifiedMeansHeld, PTL DEF ArchiveIsWhole
=============================================================================
