--------------------------- MODULE CausalCampaign ---------------------------
(***************************************************************************)
(* A campaign of Experiment 2 and the controller that runs it.             *)
(* synthran/experiments.py executes one phase, or all of them, in one      *)
(* process: it inspects the accepted deployment, asks the operator, finds  *)
(* or starts the campaign and calls the phases of Experiments/Ex2.../      *)
(* campaign.py.  What the phases write stays on disk: an invocation that   *)
(* stops, for whatever reason, is followed by another one that resumes.    *)
(* deploy.sh holds another lock than experiment.sh: the deployment may be  *)
(* replaced at any time.                                                   *)
(*                                                                         *)
(* The state is that of the campaign the endpoint names; starting another  *)
(* one resets it, the directory of the former is not written again.        *)
(***************************************************************************)
EXTENDS Integers

CONSTANTS
    Deployments,    \* identities of accepted deployments of one shape
    Sessions,       \* sessions of a confirmation
    Replays,        \* replays of a session, 120 in the code
    Arms,           \* timing arms: the replays of a matched block
    Interval,       \* a drift sentinel follows every Interval replays
    MaxDesign,      \* bound: revisions of the study in the checkout
    MaxCampaigns,   \* bound: campaigns started
    MaxFaults,      \* bound: redeployments, interruptions and failures
    None

ASSUME SizeAssumption ==
    /\ Sessions \in Nat \ {0} /\ Replays \in Nat \ {0}
    /\ Arms \in Nat \ {0} /\ Interval \in Nat \ {0}
    /\ MaxDesign \in Nat \ {0} /\ MaxCampaigns \in Nat /\ MaxFaults \in Nat
ASSUME NoneAssumption == None \notin Deployments

VARIABLES
    deployed,       \* what .synthran/active-deployment.json names
    design,         \* revision of the study in the checkout
    faults,         \* counts towards MaxFaults
    \* the controller process
    pc,             \* its next step
    phase,          \* the phase it executes
    full,           \* it was asked for all phases
    env,            \* the deployment it inspected
    manifest,       \* the study it loaded
    at,             \* the replay it works on: session and ordinal
    upto,           \* last ordinal of the matched block it works on
    mine,           \* it made the run directory of that replay itself
    \* the campaign on disk
    campaign,       \* its number, deployment, study and status
    endpoint,       \* status of .synthran/active-ex2.json
    done,           \* completed_phases
    calibration,    \* status and failure reason of load-selection.json
    frozen,         \* deployment of frozen-design.json
    run,            \* state of each run directory
    identity,       \* deployment each run was prepared on
    kept,           \* attempts moved to failed-attempts, for each replay
    sentinel,       \* state of each drift sentinel
    closed          \* sessions with a summary

world      == <<deployed, design, faults>>
controller == <<pc, phase, full, env, manifest, at, upto, mine>>
book       == <<campaign, endpoint, done>>
pilot      == <<calibration, frozen>>
runs       == <<run, identity, kept>>
drift      == <<sentinel, closed>>
disk       == <<book, pilot, runs, drift>>
vars       == <<world, controller, disk>>

----------------------------------------------------------------------------
(* Cells of the treatment matrix, in the order of the execution plans.      *)

Cells       == (1..Sessions) \X (1..Replays)
NoLoad      == <<0, 0>>             \* the replay of the qualification
Targets     == Cells \cup {NoLoad}
Checkpoints == {o \in 1..Replays : o % Interval = 0 /\ o < Replays}

Complete(c)  == run[c] = "complete"
Missing(s)   == {o \in 1..Replays : ~Complete(<<s, o>>)}

\* Mutant of EndOfBlock: the end of the block before.
EndOfBlockBefore(o) == ((o - 1) \div Arms) * Arms

\* The last ordinal of the matched block of replay o.
EndOfBlock(o) == ((o - 1) \div Arms + 1) * Arms
AllComplete == \A c \in Cells : Complete(c)

Phases   == {"qualification", "calibration", "freeze", "confirmation", "analysis"}
Requires == [p \in Phases |->
    CASE p = "qualification" -> {}
      [] p = "calibration"   -> {"qualification"}
      [] p = "freeze"        -> {"qualification", "calibration"}
      [] p = "confirmation"  -> {"freeze"}
      [] p = "analysis"      -> {"confirmation"}]
Following == [p \in Phases \ {"analysis"} |->
    CASE p = "qualification" -> "calibration"
      [] p = "calibration"   -> "freeze"
      [] p = "freeze"        -> "confirmation"
      [] p = "confirmation"  -> "analysis"]

\* A run directory: absent, made, with an imported workload, with a summary
\* (of a replay that lost something), with the record that completes it.
RunStates == {"none", "made", "used", "summary", "lossy", "complete"}

Steps == Phases \cup
    {"idle", "prompt", "choose", "begin", "mark", "publish", "probing",
     "prepare", "victim", "cleanup", "finish",
     "session", "block", "replay", "sentinel", "sampling"}

ControllerTypeOK ==
    /\ deployed \in Deployments /\ design \in 1..MaxDesign /\ faults \in 0..MaxFaults
    /\ pc \in Steps /\ phase \in Phases /\ full \in BOOLEAN
    /\ env \in Deployments \cup {None} /\ manifest \in 1..MaxDesign
    /\ at \in Targets /\ upto \in Nat /\ mine \in BOOLEAN

DiskTypeOK ==
    /\ campaign \in [number : 0..MaxCampaigns, deployment : Deployments \cup {None},
                     design : 0..MaxDesign, status : {"active", "complete"}]
    /\ endpoint \in {"none", "active", "complete"} /\ done \subseteq Phases
    /\ calibration \in {"none", "running", "failed", "invalid", "unbracketed", "selected"}
    /\ frozen \in Deployments \cup {None}
    /\ run \in [Targets -> RunStates]
    /\ identity \in [Targets -> Deployments \cup {None}]
    /\ kept \in [Targets -> Nat]
    /\ sentinel \in [Cells -> {"none", "running", "failed", "passed"}]
    /\ closed \subseteq 1..Sessions

TypeOK == ControllerTypeOK /\ DiskTypeOK

Init ==
    /\ deployed \in Deployments /\ design = 1 /\ faults = 0
    /\ pc = "idle" /\ phase = "qualification" /\ full = FALSE
    /\ env = None /\ manifest = 1 /\ at = NoLoad /\ upto = 0 /\ mine = FALSE
    /\ campaign = [number |-> 0, deployment |-> None, design |-> 0, status |-> "active"]
    /\ endpoint = "none" /\ done = {}
    /\ calibration = "none" /\ frozen = None
    /\ run = [t \in Targets |-> "none"]
    /\ identity = [t \in Targets |-> None]
    /\ kept = [t \in Targets |-> 0]
    /\ sentinel = [c \in Cells |-> "none"] /\ closed = {}

----------------------------------------------------------------------------
(* Around the controller.                                                   *)

Fault == faults < MaxFaults /\ faults' = faults + 1

\* deploy.sh replaces the accepted deployment.
Redeploy(d) ==
    /\ d # deployed /\ Fault
    /\ deployed' = d
    /\ UNCHANGED <<design, controller, disk>>

\* The study in the checkout is revised.
Revise ==
    /\ design < MaxDesign /\ design' = design + 1
    /\ UNCHANGED <<deployed, faults, controller, disk>>

\* The process is gone, with what it had in memory.
Halt ==
    /\ pc' = "idle" /\ phase' = "qualification" /\ full' = FALSE
    /\ env' = None /\ manifest' = 1 /\ at' = NoLoad /\ upto' = 0 /\ mine' = FALSE

\* An exception, an interrupt or a kill; the operator's "no".
Stop ==
    /\ pc # "idle" /\ Fault
    /\ Halt
    /\ UNCHANGED <<deployed, design, disk>>

----------------------------------------------------------------------------
(* experiments.py: execute().                                               *)

\* One phase or all of them.  Only the analysis needs no deployment.
Invoke(p, all) ==
    /\ pc = "idle"
    /\ all => p = "qualification"
    /\ phase' = p /\ full' = all /\ manifest' = design
    /\ IF p = "analysis" THEN env' = None /\ pc' = "choose"
                         ELSE env' = deployed /\ pc' = "prompt"
    /\ UNCHANGED <<at, upto, mine, world, disk>>

\* The operator has looked at the deployment and says "yes".
Approve ==
    /\ pc = "prompt" /\ pc' = "choose"
    /\ UNCHANGED <<phase, full, env, manifest, at, upto, mine, world, disk>>

\* _active_campaign, without its comparison of the deployment.
Active == endpoint = "active" /\ campaign.status = "active" /\ campaign.design = manifest

\* A calibration that was interrupted or could not measure.
AcquisitionFailed == calibration \in {"running", "failed"} /\ frozen = None

\* _campaign_for_qualification
Reusable == Active /\ campaign.deployment = env /\ ~AcquisitionFailed

\* The campaign the phase goes on with.
Usable == IF phase = "qualification" THEN Reusable
          ELSE Active /\ env \in {None, campaign.deployment}

ResumeCampaign ==
    /\ pc = "choose" /\ Usable
    /\ pc' = "begin"
    /\ UNCHANGED <<phase, full, env, manifest, at, upto, mine, world, disk>>

\* The bound on campaigns stops a qualification that would start one more.
RefuseCampaign ==
    /\ pc = "choose" /\ ~Usable
    /\ phase = "qualification" => campaign.number = MaxCampaigns
    /\ Halt /\ UNCHANGED <<world, disk>>

StartCampaign ==
    /\ pc = "choose" /\ ~Usable
    /\ phase = "qualification" /\ campaign.number < MaxCampaigns
    /\ campaign' = [number |-> campaign.number + 1, deployment |-> env,
                    design |-> manifest, status |-> "active"]
    /\ endpoint' = "active" /\ done' = {}
    /\ calibration' = "none" /\ frozen' = None
    /\ run' = [t \in Targets |-> "none"] /\ identity' = [t \in Targets |-> None]
    /\ kept' = [t \in Targets |-> 0]
    /\ sentinel' = [c \in Cells |-> "none"] /\ closed' = {}
    /\ pc' = "begin"
    /\ UNCHANGED <<phase, full, env, manifest, at, upto, mine, world>>

BeginPhase ==
    /\ pc = "begin" /\ Requires[phase] \subseteq done
    /\ pc' = phase
    /\ UNCHANGED <<phase, full, env, manifest, at, upto, mine, world, disk>>

DependencyMissing ==
    /\ pc = "begin" /\ ~(Requires[phase] \subseteq done)
    /\ Halt /\ UNCHANGED <<world, disk>>

\* _mark_phase: campaign.json first, the endpoint after it.
MarkPhase ==
    /\ pc = "mark" /\ done' = done \cup {phase}
    /\ campaign' = [campaign EXCEPT !.status = IF phase = "analysis" THEN "complete" ELSE @]
    /\ IF phase = "analysis"
         THEN pc' = "publish" /\ UNCHANGED <<phase, full, env, manifest, at, upto, mine>>
         ELSE IF full THEN /\ pc' = "begin" /\ phase' = Following[phase]
                           /\ UNCHANGED <<full, env, manifest, at, upto, mine>>
                      ELSE Halt
    /\ UNCHANGED <<endpoint, world, pilot, runs, drift>>

PublishCompletion ==
    /\ pc = "publish" /\ endpoint' = "complete"
    /\ Halt /\ UNCHANGED <<campaign, done, world, pilot, runs, drift>>

----------------------------------------------------------------------------
(* campaign.py: calibration(), freeze(); analysis.py: analysis().           *)

GoTo(next) == pc' = next /\ UNCHANGED <<phase, full, env, manifest, at, upto, mine>>

\* What a retained selection says is final.
CalibrationRetained ==
    /\ pc = "calibration" /\ calibration # "none"
    /\ IF calibration = "selected" THEN GoTo("mark") ELSE Halt
    /\ UNCHANGED <<world, disk>>

CalibrationStarts ==
    /\ pc = "calibration" /\ calibration = "none"
    /\ calibration' = "running" /\ GoTo("probing")
    /\ UNCHANGED <<frozen, world, book, runs, drift>>

\* The sweep ends with the first crossing, without one, with an invalid probe.
SweepEnds(outcome) ==
    /\ pc = "probing" /\ calibration' = outcome
    /\ IF outcome = "selected" THEN GoTo("mark") /\ UNCHANGED faults ELSE Halt /\ Fault
    /\ UNCHANGED <<deployed, design, frozen, book, runs, drift>>

Freeze ==
    /\ pc = "freeze" /\ frozen = None
    /\ IF calibration = "selected" THEN frozen' = env /\ GoTo("mark")
                                   ELSE Halt /\ UNCHANGED frozen
    /\ UNCHANGED <<calibration, world, book, runs, drift>>

FreezeRetained ==
    /\ pc = "freeze" /\ frozen # None
    /\ IF frozen = env THEN GoTo("mark") ELSE Halt
    /\ UNCHANGED <<world, disk>>

\* The records must be those of the treatment matrix.
Analyse ==
    /\ pc = "analysis"
    /\ IF AllComplete THEN GoTo("mark") ELSE Halt
    /\ UNCHANGED <<world, disk>>

----------------------------------------------------------------------------
(* One replay: _prepare_victim_run() and _victim_run().                     *)

SetRun(state) == run' = [run EXCEPT ![at] = state]

\* runner.prepare attaches to the deployment accepted now and imports the
\* workload into the run directory.
Prepare ==
    /\ pc = "prepare" /\ run[at] \in {"none", "made"}
    /\ SetRun("used") /\ identity' = [identity EXCEPT ![at] = deployed]
    /\ GoTo("victim")
    /\ UNCHANGED <<kept, world, book, pilot, drift>>

\* import_bundle refuses a directory that has a workload.
PrepareRefused ==
    /\ pc = "prepare" /\ run[at] = "used"
    /\ Halt /\ UNCHANGED <<world, disk>>

\* A former attempt got as far as its summary.
SummaryReused ==
    /\ pc = "prepare" /\ run[at] \in {"summary", "lossy"}
    /\ GoTo("finish") /\ UNCHANGED <<world, disk>>

\* run and finalize.  Every playbook of a replay wants the deployment that
\* the replay was prepared on.
Play(summary) ==
    /\ pc = "victim" /\ deployed = identity[at]
    /\ summary = "lossy" => at = NoLoad
    /\ SetRun(summary) /\ GoTo("cleanup")
    /\ UNCHANGED <<identity, kept, world, book, pilot, drift>>

CleanUp ==
    /\ pc = "cleanup" /\ deployed = identity[at]
    /\ GoTo("finish") /\ UNCHANGED <<world, disk>>

\* run fails, or cleanup after a run that did not.
DeploymentGone ==
    /\ pc \in {"victim", "cleanup"} /\ deployed # identity[at]
    /\ Halt /\ UNCHANGED <<world, disk>>

\* qualification(): prepare unless it has passed already.
Qualification ==
    /\ pc = "qualification" /\ at = NoLoad
    /\ IF Complete(NoLoad) THEN GoTo("mark") ELSE GoTo("prepare")
    /\ UNCHANGED <<world, disk>>

Qualified ==
    /\ pc = "finish" /\ at = NoLoad
    /\ IF run[at] = "lossy" THEN Halt /\ UNCHANGED runs
       ELSE SetRun("complete") /\ GoTo("mark") /\ UNCHANGED <<identity, kept>>
    /\ UNCHANGED <<world, book, pilot, drift>>

----------------------------------------------------------------------------
(* confirmation()                                                           *)

\* Mutant of SentinelsPassed: a missing sentinel is not noticed.
SentinelsNotMissed == \A c \in Cells : sentinel[c] \in {"none", "passed"}

\* Mutant of SentinelsPassed: that there is a sentinel is enough.
SentinelsThere == \A c \in Cells : Complete(c) /\ c[2] \in Checkpoints => sentinel[c] # "none"

\* _validate_sentinel_history
SentinelsPassed ==
    /\ \A c \in Cells : sentinel[c] \in {"none", "passed"}
    /\ \A c \in Cells : Complete(c) /\ c[2] \in Checkpoints => sentinel[c] # "none"

Confirmation ==
    /\ pc = "confirmation"
    /\ IF frozen = env /\ SentinelsPassed THEN GoTo("session") ELSE Halt
    /\ UNCHANGED <<world, disk>>

\* The first session without a summary.
Current(s) == s \notin closed /\ \A r \in 1..(s - 1) : r \in closed

\* The first of its replays that has no record.
First(s, o) == o \in Missing(s) /\ \A p \in Missing(s) : o <= p

\* The reservation lasts for the rest of the block.
EnterBlock(s, o) ==
    /\ pc = "session" /\ Current(s) /\ First(s, o)
    /\ at' = <<s, o>> /\ upto' = EndOfBlock(o) /\ pc' = "block"
    /\ UNCHANGED <<phase, full, env, manifest, mine, world, disk>>

\* It does not: the phase is not marked.
Pause(s) ==
    /\ pc = "session" /\ Current(s) /\ Missing(s) # {}
    /\ Halt /\ UNCHANGED <<world, disk>>

NextReplay(o) ==
    /\ pc = "block" /\ First(at[1], o) /\ o <= upto
    /\ at' = <<at[1], o>> /\ mine' = FALSE /\ pc' = "replay"
    /\ UNCHANGED <<phase, full, env, manifest, upto, world, disk>>

BlockDone ==
    /\ pc = "block" /\ \A o \in Missing(at[1]) : o > upto
    /\ GoTo("session") /\ UNCHANGED <<world, disk>>

CloseSession(s) ==
    /\ pc = "session" /\ Current(s) /\ Missing(s) = {}
    /\ closed' = closed \cup {s} /\ GoTo("session")
    /\ UNCHANGED <<sentinel, world, book, pilot, runs>>

Confirmed ==
    /\ pc = "session" /\ closed = 1..Sessions
    /\ IF AllComplete THEN at' = NoLoad /\ upto' = 0 /\ mine' = FALSE /\ pc' = "mark"
                           /\ UNCHANGED <<phase, full, env, manifest>>
                      ELSE Halt
    /\ UNCHANGED <<world, disk>>

\* Mutant of ArchiveAttempt: an incomplete attempt is continued.
ContinueAttempt ==
    /\ pc = "replay" /\ run[at] \notin {"none", "complete"}
    /\ GoTo("prepare") /\ UNCHANGED <<world, disk>>

\* Mutant of ArchiveAttempt: an incomplete attempt is removed.
RemoveAttempt ==
    /\ pc = "replay" /\ run[at] \notin {"none", "complete"}
    /\ SetRun("none") /\ identity' = [identity EXCEPT ![at] = None]
    /\ UNCHANGED <<kept, controller, world, book, pilot, drift>>

\* An incomplete attempt is moved to failed-attempts.
ArchiveAttempt ==
    /\ pc = "replay" /\ run[at] \notin {"none", "complete"}
    /\ SetRun("none") /\ identity' = [identity EXCEPT ![at] = None]
    /\ kept' = [kept EXCEPT ![at] = @ + 1]
    /\ UNCHANGED <<controller, world, book, pilot, drift>>

\* mkdir, and the clocks are measured.
MakeRunDirectory ==
    /\ pc = "replay" /\ run[at] = "none"
    /\ SetRun("made") /\ mine' = TRUE /\ pc' = "prepare"
    /\ UNCHANGED <<phase, full, env, manifest, at, upto,
                   identity, kept, world, book, pilot, drift>>

\* The background was valid and covered the replay.
WriteRecord ==
    /\ pc = "finish" /\ at \in Cells
    /\ SetRun("complete")
    /\ GoTo(IF at[2] \in Checkpoints THEN "sentinel" ELSE "block")
    /\ UNCHANGED <<identity, kept, world, book, pilot, drift>>

StartSentinel ==
    /\ pc = "sentinel"
    /\ sentinel' = [sentinel EXCEPT ![at] = "running"] /\ GoTo("sampling")
    /\ UNCHANGED <<closed, world, book, pilot, runs>>

SentinelEnds(outcome) ==
    /\ pc = "sampling"
    /\ sentinel' = [sentinel EXCEPT ![at] = outcome]
    /\ IF outcome = "passed" THEN GoTo("block") /\ UNCHANGED faults ELSE Halt /\ Fault
    /\ UNCHANGED <<deployed, design, closed, book, pilot, runs>>

----------------------------------------------------------------------------
Outcomes == {"failed", "invalid", "unbracketed", "selected"}

Replay ==
    \/ Prepare \/ PrepareRefused \/ SummaryReused
    \/ \E s \in {"summary", "lossy"} : Play(s)
    \/ CleanUp \/ DeploymentGone \/ Qualification \/ Qualified

Confirm ==
    \/ Confirmation \/ BlockDone \/ Confirmed
    \/ ArchiveAttempt \/ MakeRunDirectory \/ WriteRecord \/ StartSentinel
    \/ \E s \in 1..Sessions : Pause(s) \/ CloseSession(s) \/ \E o \in 1..Replays : EnterBlock(s, o)
    \/ \E o \in 1..Replays : NextReplay(o)
    \/ \E r \in {"passed", "failed"} : SentinelEnds(r)

Execute ==
    \/ ResumeCampaign \/ RefuseCampaign \/ StartCampaign
    \/ BeginPhase \/ DependencyMissing \/ MarkPhase \/ PublishCompletion
    \/ CalibrationRetained \/ CalibrationStarts
    \/ \E r \in Outcomes : SweepEnds(r)
    \/ Freeze \/ FreezeRetained \/ Analyse

Controller == Execute \/ Replay \/ Confirm

Operator ==
    \/ \E d \in Deployments : Redeploy(d)
    \/ Revise \/ Stop \/ Approve
    \/ \E p \in Phases, all \in BOOLEAN : Invoke(p, all)

Next == Controller \/ Operator

Spec == Init /\ [][Next]_vars

\* A controller that has been approved goes on until it ends.
FairSpec == Spec /\ WF_vars(Controller)

----------------------------------------------------------------------------
(* Safety.                                                                  *)

Passed(s, o) == sentinel[<<s, o>>] = "passed"

\* The replays of a campaign are run in the order of its execution plans,
\* whatever stopped the invocations and wherever they resumed: a replay that
\* was begun leaves no gap behind it, within its session or in a former one
\* (confirmation(), the loops over sessions, blocks and arms).
InPlanOrder ==
    \A c \in Cells : run[c] # "none" =>
        /\ \A o \in 1..(c[2] - 1) : Complete(<<c[1], o>>)
        /\ \A s \in 1..(c[1] - 1), o \in 1..Replays : Complete(<<s, o>>)

\* No replay is begun past a checkpoint whose drift sentinel has not passed,
\* not even by an invocation that knows nothing of the one that was to probe
\* (_sentinel, _validate_sentinel_history).
CheckpointsCovered ==
    \A c \in Cells : run[c] # "none" =>
        \A k \in Checkpoints : k < c[2] => Passed(c[1], k)

\* A confirmation that is marked, and so whatever is analysed, has all its
\* replays, all its sentinels passed and all its sessions closed; a campaign
\* that is complete has all its phases.
ConfirmedIsComplete ==
    /\ "confirmation" \in done =>
          /\ AllComplete /\ closed = 1..Sessions
          /\ \A s \in 1..Sessions, k \in Checkpoints : Passed(s, k)
    /\ campaign.status = "complete" => done = Phases

\* The record of a replay pairs the summary and the background traffic of one
\* attempt: at the record the controller is in the run directory it has made
\* itself (_confirmation_replay).
RecordIsOneAttempt == pc = "finish" /\ at \in Cells => mine /\ run[at] = "summary"

\* The replays of a campaign happen as planned: in their order, and each within
\* the checkpoints before it.
ReplaysAsPlanned == InPlanOrder /\ CheckpointsCovered

\* What a campaign puts on record is one attempt each, and all of them.
RecordsHold == RecordIsOneAttempt /\ ConfirmedIsComplete

\* A completed replay is never run again and an attempt is never lost: its
\* directory is completed or moved to failed-attempts (_archive_incomplete_attempt).
AttemptsAreRetained ==
    [][campaign'.number = campaign.number =>
        \A c \in Cells :
            /\ Complete(c) => Complete(c)' /\ identity'[c] = identity[c]
            /\ run[c] # "none" /\ run'[c] = "none" => kept'[c] = kept[c] + 1
            /\ kept'[c] >= kept[c]]_vars

\* A design is frozen on a selection that stays as it was, and a valid sweep
\* that found no crossing stands: only another deployment or another study
\* has it measured again (_selected_calibration, _campaign_for_qualification).
SelectionStands ==
    [][/\ frozen # None /\ campaign'.number = campaign.number =>
            frozen' = frozen /\ calibration' = calibration
       /\ calibration = "unbracketed" /\ calibration' # "unbracketed" =>
            \/ campaign'.deployment # campaign.deployment
            \/ campaign'.design # campaign.design]_vars

\* What was measured is kept: attempts, completed replays, and what was selected
\* on the strength of them.
EvidenceIsKept == AttemptsAreRetained /\ SelectionStands

\* Sentinels that keep a campaign from being resumed: one that failed, or one
\* that was interrupted or never started.
Unresolved ==
    \E c \in Cells :
        \/ sentinel[c] = "failed"
        \/ sentinel[c] = "running" /\ pc # "sampling"
        \/ Complete(c) /\ c[2] \in Checkpoints /\ sentinel[c] = "none" /\ pc # "sentinel"

\* An unresolved sentinel ends the replays of its campaign for good: nothing
\* is run, probed or marked confirmed any more.
DriftEndsCampaign ==
    [][Unresolved /\ campaign'.number = campaign.number =>
        Unresolved' /\ run' = run /\ sentinel' = sentinel /\ done' = done]_vars

----------------------------------------------------------------------------
(* The inductive invariant.                                                 *)

InReplay       == {"prepare", "victim", "cleanup", "finish"}
InConfirmation == {"session", "block", "replay", "sentinel", "sampling"}

\* What a phase leaves behind.
Established(p) ==
    /\ p = "qualification" => Complete(NoLoad)
    /\ p = "calibration" => calibration = "selected"
    /\ p = "confirmation" => closed = 1..Sessions

\* Phases are marked in their order, for what they have left behind.
MarksInOrder ==
    /\ \A p \in done : Requires[p] \subseteq done /\ Established(p)
    /\ campaign.status = "complete" => done = Phases
    /\ endpoint = "complete" => campaign.status = "complete"
    /\ endpoint = "none" => calibration = "none"
    /\ frozen # None => calibration = "selected"
    /\ \A c \in Cells : run[c] # "none" => "freeze" \in done

SessionsWhole ==
    \A s \in closed :
        /\ \A o \in 1..Replays : Complete(<<s, o>>)
        /\ \A k \in Checkpoints : Passed(s, k)

SentinelsFollowRecords ==
    \A c \in Cells : sentinel[c] # "none" => Complete(c) /\ c[2] \in Checkpoints

DiskInv ==
    /\ MarksInOrder /\ SessionsWhole /\ SentinelsFollowRecords
    /\ InPlanOrder /\ CheckpointsCovered

\* Where the controller is: the phase and the replay that go with its step.
Located ==
    /\ pc \notin InReplay \cup InConfirmation => at = NoLoad
    /\ pc \in Phases => phase = pc
    /\ pc = "probing" => phase = "calibration" /\ calibration = "running"
    /\ pc \in InReplay => IF at = NoLoad THEN phase = "qualification" ELSE phase = "confirmation"
    /\ pc \in InConfirmation => phase = "confirmation"
    /\ pc \in InConfirmation \ {"session"} => at \in Cells
    /\ pc \notin {"idle", "prompt", "choose"} => endpoint # "none"
    /\ pc \notin {"idle", "prompt", "choose", "begin", "publish"} => Requires[phase] \subseteq done
    /\ pc = "mark" => Established(phase)
    /\ pc = "publish" => campaign.status = "complete"

\* The attempt under way.
AttemptUnderWay ==
    /\ pc \in InReplay /\ at \in Cells => mine
    /\ pc = "prepare" => IF at = NoLoad THEN ~Complete(at) ELSE run[at] = "made"
    /\ pc = "victim" => run[at] = "used"
    /\ pc \in {"cleanup", "finish"} => run[at] = "summary" \/ (at = NoLoad /\ run[at] = "lossy")

Clean(c) ==
    /\ sentinel[c] \in {"none", "passed"}
    /\ Complete(c) /\ c[2] \in Checkpoints => sentinel[c] # "none"

\* A replay is under way only while every sentinel has passed but the one
\* that is due or probing.
HistoryClean ==
    /\ pc \in {"session", "block", "replay"} => \A c \in Cells : Clean(c)
    /\ pc \in InReplay /\ at \in Cells => \A c \in Cells : Clean(c)
    /\ pc \in {"sentinel", "sampling"} =>
          /\ Complete(at) /\ at[2] \in Checkpoints
          /\ sentinel[at] = IF pc = "sentinel" THEN "none" ELSE "running"
          /\ \A c \in Cells \ {at} : Clean(c)

\* Before the replay under way nothing of the plan is missing.
BehindIsDone ==
    /\ pc \in InReplay \cup InConfirmation /\ pc # "session" /\ at \in Cells =>
          \A r \in 1..(at[1] - 1) : r \in closed
    /\ pc \in InReplay \cup {"replay"} /\ at \in Cells =>
          \A p \in 1..(at[2] - 1) : Complete(<<at[1], p>>)

ControllerInv == Located /\ AttemptUnderWay /\ HistoryClean /\ BehindIsDone

\* The campaign on disk and the controller agree at every step, so that an
\* invocation may stop anywhere: phases are marked in their order and for what
\* they left behind, the attempt under way is the controller's own, and the
\* sessions, replays and sentinels before it are finished.
CampaignInv == TypeOK /\ DiskInv /\ ControllerInv

----------------------------------------------------------------------------
(* Liveness.                                                                *)

\* An approved invocation ends: no phase waits for something that only
\* another invocation could do.
InvocationEnds == pc \notin {"idle", "prompt"} ~> pc = "idle"
=============================================================================
