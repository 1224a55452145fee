------------------------ MODULE CausalCampaignProofs ------------------------
(* Proofs about CausalCampaign, for any deployments, sizes of a plan and     *)
(* bounds.                                                                   *)
EXTENDS CausalCampaign, TLAPS

----------------------------------------------------------------------------
(* Cells and phases.                                                        *)

\* A cell is its session and its ordinal; the replay of the qualification is
\* no cell.
LEMMA CellFacts ==
    /\ NoLoad \in Targets /\ NoLoad \notin Cells
    /\ Cells \subseteq Targets
    /\ \A t \in Targets : t # NoLoad => t \in Cells
    /\ \A c \in Cells : c[1] \in 1..Sessions /\ c[2] \in 1..Replays /\ c = <<c[1], c[2]>>
    /\ \A s \in 1..Sessions, o \in 1..Replays :
          <<s, o>> \in Cells /\ <<s, o>>[1] = s /\ <<s, o>>[2] = o
  BY SizeAssumption DEF Cells, NoLoad, Targets

LEMMA CheckpointFacts == Checkpoints \subseteq 1..Replays /\ Checkpoints \subseteq Nat
  BY SizeAssumption DEF Checkpoints

LEMMA PhaseFacts ==
    /\ Requires["qualification"] = {}
    /\ Requires["calibration"] = {"qualification"}
    /\ Requires["freeze"] = {"qualification", "calibration"}
    /\ Requires["confirmation"] = {"freeze"}
    /\ Requires["analysis"] = {"confirmation"}
    /\ Following["qualification"] = "calibration"
    /\ Following["calibration"] = "freeze"
    /\ Following["freeze"] = "confirmation"
    /\ Following["confirmation"] = "analysis"
  BY DEF Requires, Following, Phases

----------------------------------------------------------------------------
(* What keeps the parts of the invariant.                                   *)

\* What is written stays true as long as nothing is.
LEMMA DiskFrame ==
    ASSUME DiskTypeOK, DiskInv, UNCHANGED disk
    PROVE  DiskTypeOK' /\ DiskInv'
<1> USE DEF disk, book, pilot, runs, drift
<1>1. DiskTypeOK'
  BY DEF DiskTypeOK
<1>2. MarksInOrder'
  BY DEF DiskInv, MarksInOrder, Established, Complete
<1>3. SessionsWhole' /\ SentinelsFollowRecords'
  BY DEF DiskInv, SessionsWhole, SentinelsFollowRecords, Complete, Passed
<1>4. InPlanOrder' /\ CheckpointsCovered'
  BY DEF DiskInv, InPlanOrder, CheckpointsCovered, Complete, Passed
<1> QED
  BY <1>1, <1>2, <1>3, <1>4 DEF DiskInv

\* A process that is gone knows nothing that could be wrong.
LEMMA Halted ==
    ASSUME DiskTypeOK', DiskInv', Halt,
           deployed' \in Deployments, design' \in 1..MaxDesign, faults' \in 0..MaxFaults
    PROVE  CampaignInv'
<1>1. ControllerTypeOK'
  <2>1. manifest' \in 1..MaxDesign /\ upto' \in Nat
    BY SizeAssumption DEF Halt
  <2>2. pc' \in Steps /\ phase' \in Phases
    BY DEF Halt, Steps, Phases
  <2>3. at' \in Targets /\ env' \in Deployments \cup {None} /\ full' \in BOOLEAN /\ mine' \in BOOLEAN
    BY CellFacts DEF Halt
  <2> QED
    BY <2>1, <2>2, <2>3 DEF ControllerTypeOK
<1>2. Located'
  <2>1. pc' = "idle" /\ at' = NoLoad
    BY DEF Halt
  <2>2. /\ pc' \notin InReplay \cup InConfirmation \cup Phases
        /\ pc' \notin {"probing", "mark"}
    BY <2>1 DEF InReplay, InConfirmation, Phases
  <2> QED
    BY <2>1, <2>2 DEF Located
<1>3. AttemptUnderWay' /\ HistoryClean' /\ BehindIsDone'
  BY DEF AttemptUnderWay, HistoryClean, BehindIsDone, Halt, InReplay, InConfirmation
<1> QED
  BY <1>1, <1>2, <1>3 DEF CampaignInv, TypeOK, ControllerInv

\* The first of both, which most of the early returns are.
LEMMA Halting ==
    ASSUME CampaignInv, Halt, UNCHANGED <<deployed, design, disk>>, faults' \in 0..MaxFaults
    PROVE  CampaignInv'
<1>1. DiskTypeOK' /\ DiskInv'
  BY DiskFrame DEF CampaignInv, TypeOK
<1> QED
  BY <1>1, Halted DEF CampaignInv, TypeOK, ControllerTypeOK

\* Faults are counted up to their bound.
LEMMA FaultCounted == ASSUME CampaignInv, Fault PROVE faults' \in 0..MaxFaults
  BY SizeAssumption DEF CampaignInv, TypeOK, ControllerTypeOK, Fault

\* A state of the run directory the controller works on.
Behind ==
    /\ \A o \in 1..(at[2] - 1) : Complete(<<at[1], o>>)
    /\ \A s \in 1..(at[1] - 1), o \in 1..Replays : Complete(<<s, o>>)
    /\ \A k \in Checkpoints : k < at[2] => Passed(at[1], k)

LEMMA RunStep ==
    ASSUME CampaignInv, NEW state \in RunStates, SetRun(state), ~Complete(at),
           identity' \in [Targets -> Deployments \cup {None}], kept' \in [Targets -> Nat],
           UNCHANGED <<book, pilot, drift>>,
           at \in Cells /\ run[at] = "none" => Behind /\ "freeze" \in done
    PROVE  /\ DiskTypeOK' /\ DiskInv'
           /\ run'[at] = state /\ \A t \in Targets \ {at} : run'[t] = run[t]
           /\ \A t \in Targets : Complete(t) => Complete(t)'
<1> USE DEF book, pilot, drift
<1>1. at \in Targets /\ run \in [Targets -> RunStates]
  BY DEF CampaignInv, TypeOK, ControllerTypeOK, DiskTypeOK
<1>2. /\ run'[at] = state /\ \A t \in Targets \ {at} : run'[t] = run[t]
      /\ run' \in [Targets -> RunStates]
  BY <1>1 DEF SetRun
<1>3. \A t \in Targets : Complete(t) => Complete(t)'
  BY <1>1, <1>2 DEF Complete
<1>4. DiskTypeOK'
  BY <1>2 DEF CampaignInv, TypeOK, DiskTypeOK
<1>5. MarksInOrder'
  <2>1. \A p \in done : Requires[p] \subseteq done /\ Established(p)'
    BY <1>3, CellFacts DEF CampaignInv, DiskInv, MarksInOrder, Established
  <2>2. \A c \in Cells : run'[c] # "none" => "freeze" \in done
    BY <1>1, <1>2, CellFacts DEF CampaignInv, DiskInv, MarksInOrder
  <2> QED
    BY <2>1, <2>2 DEF CampaignInv, DiskInv, MarksInOrder
<1>6. SessionsWhole' /\ SentinelsFollowRecords'
  <2>1. closed \subseteq 1..Sessions
    BY DEF CampaignInv, TypeOK, DiskTypeOK
  <2>2. SessionsWhole'
    BY <1>3, <2>1, CellFacts DEF CampaignInv, DiskInv, SessionsWhole, Passed
  <2>3. SentinelsFollowRecords'
    BY <1>3, CellFacts DEF CampaignInv, DiskInv, SentinelsFollowRecords
  <2> QED
    BY <2>2, <2>3
<1>7. \A c \in Cells : run'[c] # "none" =>
        /\ \A o \in 1..(c[2] - 1) : Complete(<<c[1], o>>)
        /\ \A s \in 1..(c[1] - 1), o \in 1..Replays : Complete(<<s, o>>)
        /\ \A k \in Checkpoints : k < c[2] => Passed(c[1], k)
  <2> SUFFICES ASSUME NEW c \in Cells, run'[c] # "none"
               PROVE  /\ \A o \in 1..(c[2] - 1) : Complete(<<c[1], o>>)
                      /\ \A s \in 1..(c[1] - 1), o \in 1..Replays : Complete(<<s, o>>)
                      /\ \A k \in Checkpoints : k < c[2] => Passed(c[1], k)
    OBVIOUS
  <2>1. CASE run[c] # "none"
    BY <2>1 DEF CampaignInv, DiskInv, InPlanOrder, CheckpointsCovered
  <2>2. CASE run[c] = "none"
    <3>1. c = at /\ at \in Cells /\ run[at] = "none"
      BY <1>2, <2>2, CellFacts
    <3> QED
      BY <3>1 DEF Behind
  <2> QED
    BY <2>1, <2>2
<1>8. InPlanOrder'
  <2> SUFFICES ASSUME NEW c \in Cells, run'[c] # "none"
               PROVE  /\ \A o \in 1..(c[2] - 1) : Complete(<<c[1], o>>)'
                      /\ \A s \in 1..(c[1] - 1), o \in 1..Replays : Complete(<<s, o>>)'
    BY DEF InPlanOrder
  <2>1. c[1] \in 1..Sessions /\ c[2] \in 1..Replays
    BY CellFacts
  <2>2. \A o \in 1..(c[2] - 1) : <<c[1], o>> \in Targets
    BY <2>1, CellFacts, SizeAssumption
  <2>3. 1..(c[1] - 1) \subseteq 1..Sessions
    BY <2>1, SizeAssumption
  <2>4. \A s \in 1..(c[1] - 1), o \in 1..Replays : <<s, o>> \in Targets
    BY <2>3, CellFacts
  <2> QED
    BY <1>3, <1>7, <2>2, <2>4
<1>9. CheckpointsCovered'
  BY <1>7 DEF CheckpointsCovered, Passed
<1> QED
  BY <1>2, <1>3, <1>4, <1>5, <1>6, <1>8, <1>9 DEF DiskInv

\* A sentinel that had not passed yet.
LEMMA SentinelStep ==
    ASSUME CampaignInv, NEW outcome \in {"running", "failed", "passed"},
           sentinel' = [sentinel EXCEPT ![at] = outcome], sentinel[at] # "passed",
           at \in Cells, Complete(at), at[2] \in Checkpoints,
           UNCHANGED <<closed, book, pilot, runs>>
    PROVE  /\ DiskTypeOK' /\ DiskInv'
           /\ sentinel'[at] = outcome /\ \A c \in Cells \ {at} : sentinel'[c] = sentinel[c]
<1> USE DEF book, pilot, runs
<1>1. sentinel \in [Cells -> {"none", "running", "failed", "passed"}]
  BY DEF CampaignInv, TypeOK, DiskTypeOK
<1>2. /\ sentinel'[at] = outcome /\ \A c \in Cells \ {at} : sentinel'[c] = sentinel[c]
      /\ sentinel' \in [Cells -> {"none", "running", "failed", "passed"}]
  BY <1>1
<1>3. \A c \in Cells : sentinel[c] = "passed" => sentinel'[c] = "passed"
  BY <1>2
<1>4. DiskTypeOK'
  BY <1>2 DEF CampaignInv, TypeOK, DiskTypeOK
<1>5. MarksInOrder' /\ InPlanOrder'
  BY DEF CampaignInv, DiskInv, MarksInOrder, Established, InPlanOrder, Complete
<1>6. SessionsWhole'
  <2>1. \A s \in closed, k \in Checkpoints : <<s, k>> \in Cells
    BY CellFacts, CheckpointFacts DEF CampaignInv, TypeOK, DiskTypeOK
  <2> QED
    BY <1>3, <2>1 DEF CampaignInv, DiskInv, SessionsWhole, Complete, Passed
<1>7. SentinelsFollowRecords'
  BY <1>2 DEF CampaignInv, DiskInv, SentinelsFollowRecords, Complete
<1>8. CheckpointsCovered'
  <2>1. \A c \in Cells, k \in Checkpoints : <<c[1], k>> \in Cells
    BY CellFacts, CheckpointFacts
  <2> QED
    BY <1>3, <2>1 DEF CampaignInv, DiskInv, CheckpointsCovered, Passed
<1> QED
  BY <1>2, <1>4, <1>5, <1>6, <1>7, <1>8 DEF DiskInv

\* The controller goes to another step and changes nothing else.
LEMMA StepTyped ==
    ASSUME CampaignInv, NEW next \in Steps, GoTo(next),
           UNCHANGED <<deployed, design>>, faults' \in 0..MaxFaults
    PROVE  ControllerTypeOK'
  BY DEF CampaignInv, TypeOK, ControllerTypeOK, GoTo

\* Away from the replays only Located says something.
LEMMA Outside ==
    ASSUME pc' \notin InReplay \cup InConfirmation, Located'
    PROVE  ControllerInv'
<1>1. pc' \notin {"prepare", "victim", "cleanup", "finish", "session", "block",
                 "replay", "sentinel", "sampling"}
  BY DEF InReplay, InConfirmation
<1>2. AttemptUnderWay'
  BY <1>1 DEF AttemptUnderWay, InReplay
<1>3. HistoryClean'
  BY <1>1 DEF HistoryClean, InReplay
<1>4. BehindIsDone'
  BY <1>1 DEF BehindIsDone, InReplay, InConfirmation
<1> QED
  BY <1>2, <1>3, <1>4 DEF ControllerInv

\* A phase that has established what it is for is marked.
LEMMA ToMark ==
    ASSUME CampaignInv, pc \notin {"idle", "prompt", "choose", "begin", "publish"},
           pc' = "mark", at' = NoLoad, UNCHANGED <<phase, endpoint, done>>,
           Established(phase)'
    PROVE  ControllerInv'
<1>1. endpoint # "none" /\ Requires[phase] \subseteq done
  BY DEF CampaignInv, ControllerInv, Located
<1>2. pc' \notin InReplay \cup InConfirmation \cup Phases
  BY DEF InReplay, InConfirmation, Phases
<1>3. Located'
  BY <1>1, <1>2 DEF Located
<1> QED
  BY <1>2, <1>3, Outside

\* The initial states.
LEMMA InitCampaign == Init => CampaignInv
<1> SUFFICES ASSUME Init PROVE CampaignInv
  OBVIOUS
<1>1. \A t \in Targets : run[t] = "none"
  BY DEF Init
<1>2. ControllerTypeOK
  <2>1. design \in 1..MaxDesign /\ manifest \in 1..MaxDesign /\ faults \in 0..MaxFaults /\ upto \in Nat
    BY SizeAssumption DEF Init
  <2>2. pc \in Steps /\ phase \in Phases /\ at \in Targets
    BY CellFacts DEF Init, Steps, Phases
  <2> QED
    BY <2>1, <2>2 DEF Init, ControllerTypeOK
<1>3. DiskTypeOK
  <2>1. campaign \in [number : 0..MaxCampaigns, deployment : Deployments \cup {None},
                      design : 0..MaxDesign, status : {"active", "complete"}]
    BY SizeAssumption DEF Init
  <2>2. run \in [Targets -> RunStates] /\ identity \in [Targets -> Deployments \cup {None}]
    BY DEF Init, RunStates
  <2>3. kept \in [Targets -> Nat]
    BY DEF Init
  <2>4. sentinel \in [Cells -> {"none", "running", "failed", "passed"}]
    BY DEF Init
  <2> QED
    BY <2>1, <2>2, <2>3, <2>4 DEF Init, DiskTypeOK
<1>4. DiskInv
  BY <1>1, CellFacts DEF Init, DiskInv, MarksInOrder, SessionsWhole, SentinelsFollowRecords,
     InPlanOrder, CheckpointsCovered
<1>5. ControllerInv
  <2>1. pc = "idle" /\ at = NoLoad
    BY DEF Init
  <2>2. Located
    BY <2>1 DEF Located, InReplay, InConfirmation, Phases
  <2>3. AttemptUnderWay /\ HistoryClean /\ BehindIsDone
    BY <2>1 DEF AttemptUnderWay, HistoryClean, BehindIsDone, InReplay, InConfirmation
  <2> QED
    BY <2>2, <2>3 DEF ControllerInv
<1> QED
  BY <1>2, <1>3, <1>4, <1>5 DEF CampaignInv, TypeOK

----------------------------------------------------------------------------
(* Around the controller, and what execute() does.                          *)

\* Neither the controller nor the campaign takes part.
LEMMA AroundStep ==
    ASSUME CampaignInv, UNCHANGED <<controller, disk>>,
           deployed' \in Deployments, design' \in 1..MaxDesign, faults' \in 0..MaxFaults
    PROVE  CampaignInv'
<1>1. DiskTypeOK' /\ DiskInv'
  BY DiskFrame DEF CampaignInv, TypeOK
<1>2. ControllerTypeOK'
  BY DEF CampaignInv, TypeOK, ControllerTypeOK, controller
<1> USE DEF controller, disk, book, pilot, runs, drift
<1>3. Located'
  BY DEF CampaignInv, ControllerInv, Located, Established, Complete
<1>4. AttemptUnderWay'
  BY DEF CampaignInv, ControllerInv, AttemptUnderWay, Complete
<1>5. HistoryClean'
  BY DEF CampaignInv, ControllerInv, HistoryClean, Clean, Complete
<1>6. BehindIsDone'
  BY DEF CampaignInv, ControllerInv, BehindIsDone, Complete
<1> QED
  BY <1>1, <1>2, <1>3, <1>4, <1>5, <1>6 DEF CampaignInv, TypeOK, ControllerInv

LEMMA RedeployStep == ASSUME CampaignInv, NEW d \in Deployments, Redeploy(d) PROVE CampaignInv'
  BY AroundStep, FaultCounted DEF Redeploy, CampaignInv, TypeOK, ControllerTypeOK

LEMMA ReviseStep == ASSUME CampaignInv, Revise PROVE CampaignInv'
<1>1. design' \in 1..MaxDesign
  BY SizeAssumption DEF Revise, CampaignInv, TypeOK, ControllerTypeOK
<1> QED
  BY <1>1, AroundStep DEF Revise, CampaignInv, TypeOK, ControllerTypeOK

LEMMA StopStep == ASSUME CampaignInv, Stop PROVE CampaignInv'
  BY Halting, FaultCounted DEF Stop

LEMMA InvokeStep ==
    ASSUME CampaignInv, NEW p \in Phases, NEW all \in BOOLEAN, Invoke(p, all)
    PROVE  CampaignInv'
<1>1. DiskTypeOK' /\ DiskInv'
  BY DiskFrame DEF CampaignInv, TypeOK, Invoke
<1>2. pc = "idle" /\ pc' \in {"choose", "prompt"} /\ at' = at
  BY DEF Invoke
<1>3. at = NoLoad
  BY <1>2 DEF CampaignInv, ControllerInv, Located, InReplay, InConfirmation
<1>4. ControllerTypeOK'
  <2>1. pc' \in Steps /\ env' \in Deployments \cup {None}
    BY <1>2 DEF Steps, Invoke, CampaignInv, TypeOK, ControllerTypeOK
  <2> QED
    BY <2>1 DEF CampaignInv, TypeOK, ControllerTypeOK, Invoke, world
<1>5. pc' \notin InReplay \cup InConfirmation \cup Phases
  BY <1>2 DEF InReplay, InConfirmation, Phases
<1>6. Located'
  BY <1>2, <1>3, <1>5 DEF Located
<1> QED
  BY <1>1, <1>4, <1>5, <1>6, Outside DEF CampaignInv, TypeOK

LEMMA ApproveStep == ASSUME CampaignInv, Approve PROVE CampaignInv'
<1>1. DiskTypeOK' /\ DiskInv'
  BY DiskFrame DEF CampaignInv, TypeOK, Approve
<1>2. pc = "prompt" /\ pc' = "choose" /\ at' = NoLoad
  BY DEF Approve, CampaignInv, ControllerInv, Located, InReplay, InConfirmation
<1>3. ControllerTypeOK'
  BY DEF CampaignInv, TypeOK, ControllerTypeOK, Approve, world, Steps
<1>4. pc' \notin InReplay \cup InConfirmation \cup Phases
  BY <1>2 DEF InReplay, InConfirmation, Phases
<1>5. Located'
  BY <1>2, <1>4 DEF Located
<1> QED
  BY <1>1, <1>3, <1>4, <1>5, Outside DEF CampaignInv, TypeOK

LEMMA ResumeCampaignStep == ASSUME CampaignInv, ResumeCampaign PROVE CampaignInv'
<1>1. DiskTypeOK' /\ DiskInv'
  BY DiskFrame DEF CampaignInv, TypeOK, ResumeCampaign
<1>2. pc = "choose" /\ pc' = "begin" /\ at' = NoLoad
  BY DEF ResumeCampaign, CampaignInv, ControllerInv, Located, InReplay, InConfirmation
<1>3. ControllerTypeOK'
  BY DEF CampaignInv, TypeOK, ControllerTypeOK, ResumeCampaign, world, Steps
<1>4. pc' \notin InReplay \cup InConfirmation \cup Phases
  BY <1>2 DEF InReplay, InConfirmation, Phases
<1>5. endpoint' # "none"
  BY DEF ResumeCampaign, Usable, Reusable, Active, disk, book
<1>6. Located'
  BY <1>2, <1>4, <1>5 DEF Located
<1> QED
  BY <1>1, <1>3, <1>4, <1>6, Outside DEF CampaignInv, TypeOK

LEMMA RefuseCampaignStep == ASSUME CampaignInv, RefuseCampaign PROVE CampaignInv'
  BY Halting DEF RefuseCampaign, world, CampaignInv, TypeOK, ControllerTypeOK

LEMMA DependencyMissingStep == ASSUME CampaignInv, DependencyMissing PROVE CampaignInv'
  BY Halting DEF DependencyMissing, world, CampaignInv, TypeOK, ControllerTypeOK

LEMMA StartCampaignStep == ASSUME CampaignInv, StartCampaign PROVE CampaignInv'
<1>1. pc = "choose" /\ pc' = "begin" /\ at' = NoLoad
  BY DEF StartCampaign, CampaignInv, ControllerInv, Located, InReplay, InConfirmation
<1>2. ControllerTypeOK'
  BY DEF CampaignInv, TypeOK, ControllerTypeOK, StartCampaign, world, Steps
<1>3. pc' \notin InReplay \cup InConfirmation \cup Phases
  BY <1>1 DEF InReplay, InConfirmation, Phases
<1>4. Located'
  <2>1. endpoint' # "none"
    BY DEF StartCampaign
  <2> QED
    BY <1>1, <1>3, <2>1 DEF Located
<1>5. DiskTypeOK'
  <2>1. /\ campaign.number + 1 \in 0..MaxCampaigns /\ env \in Deployments \cup {None}
        /\ manifest \in 0..MaxDesign
    BY SizeAssumption DEF CampaignInv, TypeOK, ControllerTypeOK, DiskTypeOK, StartCampaign
  <2>2. campaign' \in [number : 0..MaxCampaigns, deployment : Deployments \cup {None},
                       design : 0..MaxDesign, status : {"active", "complete"}]
    BY <2>1 DEF StartCampaign
  <2>3. run' \in [Targets -> RunStates] /\ identity' \in [Targets -> Deployments \cup {None}]
    BY DEF StartCampaign, RunStates
  <2>4. kept' \in [Targets -> Nat]
    BY DEF StartCampaign
  <2>5. sentinel' \in [Cells -> {"none", "running", "failed", "passed"}]
    BY DEF StartCampaign
  <2> QED
    BY <2>2, <2>3, <2>4, <2>5 DEF StartCampaign, DiskTypeOK
<1>6. DiskInv'
  <2>1. /\ \A c \in Cells : run'[c] = "none" /\ sentinel'[c] = "none"
        /\ done' = {} /\ closed' = {} /\ calibration' = "none" /\ frozen' = None
        /\ campaign'.status = "active" /\ endpoint' = "active"
    BY CellFacts DEF StartCampaign
  <2>2. MarksInOrder'
    BY <2>1 DEF MarksInOrder
  <2>3. SessionsWhole' /\ SentinelsFollowRecords'
    BY <2>1 DEF SessionsWhole, SentinelsFollowRecords
  <2>4. InPlanOrder' /\ CheckpointsCovered'
    BY <2>1 DEF InPlanOrder, CheckpointsCovered
  <2> QED
    BY <2>2, <2>3, <2>4 DEF DiskInv
<1> QED
  BY <1>2, <1>3, <1>4, <1>5, <1>6, Outside DEF CampaignInv, TypeOK

LEMMA BeginPhaseStep == ASSUME CampaignInv, BeginPhase PROVE CampaignInv'
<1>1. DiskTypeOK' /\ DiskInv'
  BY DiskFrame DEF CampaignInv, TypeOK, BeginPhase
<1>2. pc = "begin" /\ pc' = phase /\ phase' = phase /\ phase \in Phases /\ at' = NoLoad
  BY DEF BeginPhase, CampaignInv, TypeOK, ControllerTypeOK, ControllerInv, Located, InReplay,
     InConfirmation
<1>3. ControllerTypeOK'
  BY DEF CampaignInv, TypeOK, ControllerTypeOK, BeginPhase, world, Steps
<1>4. pc' \notin InReplay \cup InConfirmation \cup {"probing", "mark", "publish"}
  BY <1>2 DEF InReplay, InConfirmation, Phases
<1>5. endpoint' # "none" /\ (Requires[phase] \subseteq done)'
  BY <1>2 DEF BeginPhase, CampaignInv, ControllerInv, Located, disk, book
<1>6. Located'
  BY <1>2, <1>4, <1>5 DEF Located
<1> QED
  BY <1>1, <1>3, <1>4, <1>6, Outside DEF CampaignInv, TypeOK

LEMMA MarkPhaseStep == ASSUME CampaignInv, MarkPhase PROVE CampaignInv'
<1> USE DEF pilot, runs, drift, world
<1>1. /\ pc = "mark" /\ at = NoLoad /\ endpoint # "none" /\ Requires[phase] \subseteq done
      /\ Established(phase) /\ phase \in Phases
  BY DEF MarkPhase, CampaignInv, TypeOK, ControllerTypeOK, ControllerInv, Located, InReplay,
     InConfirmation
<1>2. /\ done' = done \cup {phase} /\ endpoint' = endpoint
      /\ deployed' = deployed /\ design' = design /\ faults' = faults
  BY DEF MarkPhase
<1>3. /\ campaign' \in [number : 0..MaxCampaigns, deployment : Deployments \cup {None},
                        design : 0..MaxDesign, status : {"active", "complete"}]
      /\ campaign'.status = IF phase = "analysis" THEN "complete" ELSE campaign.status
  BY DEF MarkPhase, CampaignInv, TypeOK, DiskTypeOK
<1>4. DiskTypeOK'
  BY <1>1, <1>2, <1>3 DEF MarkPhase, CampaignInv, TypeOK, DiskTypeOK
<1>5. phase = "analysis" => done' = Phases
  <2> SUFFICES ASSUME phase = "analysis" PROVE done' = Phases
    OBVIOUS
  <2>1. "confirmation" \in done
    BY <1>1, PhaseFacts
  <2>2. "freeze" \in done
    BY <2>1, PhaseFacts DEF CampaignInv, DiskInv, MarksInOrder
  <2>3. "qualification" \in done /\ "calibration" \in done
    BY <2>2, PhaseFacts DEF CampaignInv, DiskInv, MarksInOrder
  <2>4. done \subseteq Phases
    BY DEF CampaignInv, TypeOK, DiskTypeOK
  <2> QED
    BY <1>2, <2>1, <2>2, <2>3, <2>4 DEF Phases
<1>6. MarksInOrder'
  <2>1. \A p \in done' : Requires[p] \subseteq done' /\ Established(p)'
    BY <1>1, <1>2 DEF MarkPhase, CampaignInv, DiskInv, MarksInOrder, Established, Complete
  <2>2. campaign'.status = "complete" => done' = Phases
    BY <1>2, <1>3, <1>4, <1>5 DEF CampaignInv, DiskInv, MarksInOrder, DiskTypeOK
  <2>3. endpoint' = "complete" => campaign'.status = "complete"
    BY <1>2, <1>3 DEF CampaignInv, DiskInv, MarksInOrder
  <2>4. /\ endpoint' = "none" => calibration' = "none"
        /\ frozen' # None => calibration' = "selected"
        /\ \A c \in Cells : run'[c] # "none" => "freeze" \in done'
    BY <1>2 DEF MarkPhase, CampaignInv, DiskInv, MarksInOrder
  <2> QED
    BY <2>1, <2>2, <2>3, <2>4 DEF MarksInOrder
<1>7. SessionsWhole' /\ SentinelsFollowRecords' /\ InPlanOrder' /\ CheckpointsCovered'
  BY DEF MarkPhase, CampaignInv, DiskInv, SessionsWhole, SentinelsFollowRecords, InPlanOrder,
     CheckpointsCovered, Complete, Passed
<1>8. DiskInv'
  BY <1>6, <1>7 DEF DiskInv
<1>9. CASE phase = "analysis"
  <2>1. pc' = "publish" /\ at' = NoLoad
    BY <1>1, <1>9 DEF MarkPhase
  <2>2. pc' \notin InReplay \cup InConfirmation \cup Phases
    BY <2>1 DEF InReplay, InConfirmation, Phases
  <2>3. Located'
    BY <1>1, <1>2, <1>3, <1>9, <2>1, <2>2 DEF Located
  <2>4. ControllerTypeOK'
    BY <1>9 DEF CampaignInv, TypeOK, ControllerTypeOK, MarkPhase, Steps
  <2> QED
    BY <1>4, <1>8, <2>2, <2>3, <2>4, Outside DEF CampaignInv, TypeOK
<1>10. CASE phase # "analysis" /\ full
  <2>1. pc' = "begin" /\ at' = NoLoad /\ phase' = Following[phase]
    BY <1>1, <1>10 DEF MarkPhase
  <2>2. pc' \notin InReplay \cup InConfirmation \cup Phases
    BY <2>1 DEF InReplay, InConfirmation, Phases
  <2>3. Located'
    BY <1>1, <1>2, <2>1, <2>2 DEF Located
  <2>4. phase' \in Phases
    BY <1>1, <1>10, <2>1, PhaseFacts DEF Phases
  <2>5. ControllerTypeOK'
    BY <1>10, <2>4 DEF CampaignInv, TypeOK, ControllerTypeOK, MarkPhase, Steps
  <2> QED
    BY <1>4, <1>8, <2>2, <2>3, <2>5, Outside DEF CampaignInv, TypeOK
<1>11. CASE phase # "analysis" /\ ~full
  <2>1. Halt
    BY <1>11 DEF MarkPhase
  <2> QED
    BY <1>2, <1>4, <1>8, <2>1, Halted DEF CampaignInv, TypeOK, ControllerTypeOK
<1> QED
  BY <1>9, <1>10, <1>11

LEMMA PublishCompletionStep == ASSUME CampaignInv, PublishCompletion PROVE CampaignInv'
<1> USE DEF pilot, runs, drift, world
<1>0. campaign.status = "complete"
  BY DEF PublishCompletion, CampaignInv, ControllerInv, Located
<1>1. DiskTypeOK'
  BY DEF PublishCompletion, CampaignInv, TypeOK, DiskTypeOK
<1>2. MarksInOrder'
  BY <1>0 DEF PublishCompletion, CampaignInv, DiskInv, MarksInOrder, Established, Complete
<1>3. SessionsWhole' /\ SentinelsFollowRecords' /\ InPlanOrder' /\ CheckpointsCovered'
  BY DEF PublishCompletion, CampaignInv, DiskInv, SessionsWhole, SentinelsFollowRecords,
     InPlanOrder, CheckpointsCovered, Complete, Passed
<1> QED
  BY <1>1, <1>2, <1>3, Halted DEF PublishCompletion, CampaignInv, TypeOK, ControllerTypeOK, DiskInv

----------------------------------------------------------------------------
(* Calibration, freeze and analysis.                                        *)

\* A phase that finds what it is for: it is marked.
LEMMA FoundStep ==
    ASSUME CampaignInv, pc \in Phases, GoTo("mark"), UNCHANGED <<world, disk>>, Established(phase)
    PROVE  CampaignInv'
<1> USE DEF world
<1>1. DiskTypeOK' /\ DiskInv'
  BY DiskFrame DEF CampaignInv, TypeOK
<1>2. ControllerTypeOK'
  BY StepTyped DEF Steps, CampaignInv, TypeOK, ControllerTypeOK
<1>3. pc \notin InReplay \cup InConfirmation \cup {"idle", "prompt", "choose", "begin", "publish"}
  BY DEF Phases, InReplay, InConfirmation
<1>4. at = NoLoad
  BY <1>3 DEF CampaignInv, ControllerInv, Located
<1>5. Established(phase)'
  BY DEF Established, Complete, GoTo, disk, pilot, runs, drift
<1>6. ControllerInv'
  BY <1>3, <1>4, <1>5, ToMark DEF GoTo, disk, book
<1> QED
  BY <1>1, <1>2, <1>6 DEF CampaignInv, TypeOK

LEMMA CalibrationRetainedStep == ASSUME CampaignInv, CalibrationRetained PROVE CampaignInv'
<1>1. pc \in Phases /\ phase = "calibration"
  BY DEF CalibrationRetained, Phases, CampaignInv, ControllerInv, Located
<1>2. CASE calibration = "selected"
  BY <1>1, <1>2, FoundStep DEF CalibrationRetained, Established
<1>3. CASE calibration # "selected"
  BY <1>3, Halting DEF CalibrationRetained, world, CampaignInv, TypeOK, ControllerTypeOK
<1> QED
  BY <1>2, <1>3

LEMMA FreezeRetainedStep == ASSUME CampaignInv, FreezeRetained PROVE CampaignInv'
<1>1. pc \in Phases /\ phase = "freeze"
  BY DEF FreezeRetained, Phases, CampaignInv, ControllerInv, Located
<1>2. CASE frozen = env
  BY <1>1, <1>2, FoundStep DEF FreezeRetained, Established
<1>3. CASE frozen # env
  BY <1>3, Halting DEF FreezeRetained, world, CampaignInv, TypeOK, ControllerTypeOK
<1> QED
  BY <1>2, <1>3

LEMMA AnalyseStep == ASSUME CampaignInv, Analyse PROVE CampaignInv'
<1>1. pc \in Phases /\ phase = "analysis"
  BY DEF Analyse, Phases, CampaignInv, ControllerInv, Located
<1>2. CASE AllComplete
  BY <1>1, <1>2, FoundStep DEF Analyse, Established
<1>3. CASE ~AllComplete
  BY <1>3, Halting DEF Analyse, world, CampaignInv, TypeOK, ControllerTypeOK
<1> QED
  BY <1>2, <1>3

\* The calibration is written; nothing is frozen yet.
LEMMA CalibrationWritten ==
    ASSUME CampaignInv, calibration' \in {"running", "failed", "invalid", "unbracketed", "selected"},
           frozen' \in Deployments \cup {None}, frozen' # None => calibration' = "selected",
           "calibration" \in done => calibration' = "selected",
           endpoint # "none", UNCHANGED <<book, runs, drift>>
    PROVE  DiskTypeOK' /\ DiskInv'
<1> USE DEF book, runs, drift
<1>1. DiskTypeOK'
  BY DEF CampaignInv, TypeOK, DiskTypeOK
<1>2. MarksInOrder'
  BY DEF CampaignInv, DiskInv, MarksInOrder, Established, Complete
<1>3. SessionsWhole' /\ SentinelsFollowRecords' /\ InPlanOrder' /\ CheckpointsCovered'
  BY DEF CampaignInv, DiskInv, SessionsWhole, SentinelsFollowRecords,
     InPlanOrder, CheckpointsCovered, Complete, Passed
<1> QED
  BY <1>1, <1>2, <1>3 DEF DiskInv

LEMMA CalibrationStartsStep == ASSUME CampaignInv, CalibrationStarts PROVE CampaignInv'
<1>1. /\ pc = "calibration" /\ phase = "calibration" /\ at = NoLoad /\ endpoint # "none"
      /\ Requires[phase] \subseteq done
  BY DEF CalibrationStarts, CampaignInv, ControllerInv, Located, Phases, InReplay, InConfirmation
<1>2. /\ pc' = "probing" /\ phase' = phase /\ at' = at /\ calibration' = "running"
      /\ endpoint' = endpoint /\ done' = done
  BY DEF CalibrationStarts, GoTo, book
<1>3. frozen = None /\ "calibration" \notin done
  BY DEF CalibrationStarts, CampaignInv, DiskInv, MarksInOrder, Established
<1>4. DiskTypeOK' /\ DiskInv'
  BY <1>1, <1>2, <1>3, CalibrationWritten DEF CalibrationStarts
<1>5. ControllerTypeOK'
  BY StepTyped DEF CalibrationStarts, world, Steps, CampaignInv, TypeOK, ControllerTypeOK
<1>6. pc' \notin InReplay \cup InConfirmation \cup Phases
  BY <1>2 DEF InReplay, InConfirmation, Phases
<1>7. Located'
  BY <1>1, <1>2, <1>6 DEF Located
<1> QED
  BY <1>4, <1>5, <1>6, <1>7, Outside DEF CampaignInv, TypeOK

LEMMA SweepEndsStep ==
    ASSUME CampaignInv, NEW outcome \in Outcomes, SweepEnds(outcome)
    PROVE  CampaignInv'
<1>1. /\ pc = "probing" /\ phase = "calibration" /\ calibration = "running" /\ at = NoLoad
      /\ endpoint # "none"
  BY DEF SweepEnds, CampaignInv, ControllerInv, Located, InReplay, InConfirmation
<1>2. frozen = None /\ "calibration" \notin done
  BY <1>1 DEF CampaignInv, DiskInv, MarksInOrder, Established
<1>3. DiskTypeOK' /\ DiskInv'
  BY <1>1, <1>2, CalibrationWritten DEF SweepEnds, Outcomes
<1>4. CASE outcome = "selected"
  <2>1. GoTo("mark") /\ calibration' = "selected" /\ UNCHANGED <<world, endpoint, done>>
    BY <1>4 DEF SweepEnds, world, book
  <2>2. ControllerTypeOK'
    BY <2>1, StepTyped DEF world, Steps, CampaignInv, TypeOK, ControllerTypeOK
  <2>3. Established(phase)'
    BY <1>1, <2>1 DEF Established, GoTo
  <2>4. ControllerInv'
    BY <1>1, <2>1, <2>3, ToMark DEF GoTo
  <2> QED
    BY <1>3, <2>2, <2>4 DEF CampaignInv, TypeOK
<1>5. CASE outcome # "selected"
  BY <1>3, <1>5, Halted, FaultCounted DEF SweepEnds, CampaignInv, TypeOK, ControllerTypeOK
<1> QED
  BY <1>4, <1>5

LEMMA FreezeStep == ASSUME CampaignInv, Freeze PROVE CampaignInv'
<1>1. pc = "freeze" /\ phase = "freeze" /\ at = NoLoad /\ endpoint # "none"
  BY DEF Freeze, CampaignInv, ControllerInv, Located, Phases, InReplay, InConfirmation
<1>2. CASE calibration = "selected"
  <2>1. GoTo("mark") /\ frozen' = env /\ UNCHANGED <<world, calibration, book, runs, drift>>
    BY <1>2 DEF Freeze
  <2>2. DiskTypeOK' /\ DiskInv'
    BY <1>1, <1>2, <2>1, CalibrationWritten DEF CampaignInv, TypeOK, ControllerTypeOK
  <2>3. ControllerTypeOK'
    BY <2>1, StepTyped DEF world, Steps, CampaignInv, TypeOK, ControllerTypeOK
  <2>4. Established(phase)'
    BY <1>1, <2>1 DEF Established, GoTo
  <2>5. ControllerInv'
    BY <1>1, <2>1, <2>4, ToMark DEF GoTo, book
  <2> QED
    BY <2>2, <2>3, <2>5 DEF CampaignInv, TypeOK
<1>3. CASE calibration # "selected"
  BY <1>3, Halting DEF Freeze, world, disk, pilot, CampaignInv, TypeOK, ControllerTypeOK
<1> QED
  BY <1>2, <1>3

----------------------------------------------------------------------------
(* A replay.                                                                *)

\* What is behind a replay is a part of the plan.
LEMMA BehindFacts ==
    ASSUME at \in Cells
    PROVE  /\ \A p \in 1..(at[2] - 1) : <<at[1], p>> \in Cells
           /\ 1..(at[1] - 1) \subseteq 1..Sessions
<1>1. at[1] \in 1..Sessions /\ at[2] \in 1..Replays
  BY CellFacts
<1>2. 1..(at[1] - 1) \subseteq 1..Sessions
  BY <1>1, SizeAssumption
<1>3. 1..(at[2] - 1) \subseteq 1..Replays
  BY <1>1, SizeAssumption
<1> QED
  BY <1>1, <1>2, <1>3, CellFacts

\* The controller goes on with a replay.
LEMMA ReplayMove ==
    ASSUME CampaignInv, pc \in InReplay, pc' \in InReplay,
           UNCHANGED <<phase, at, mine, book, sentinel, closed>>,
           \A t \in Targets \ {at} : run'[t] = run[t],
           ~Complete(at), ~Complete(at)', AttemptUnderWay'
    PROVE  ControllerInv'
<1> USE DEF book
<1>1. pc \in InReplay /\ pc' \in InReplay /\ pc # "replay" /\ pc' # "replay"
  BY DEF InReplay
<1>2. /\ pc' \notin InConfirmation \cup Phases
      /\ pc' \notin {"probing", "mark", "publish", "idle", "prompt", "choose", "begin"}
      /\ pc \notin {"idle", "prompt", "choose", "begin", "publish"}
      /\ pc' \notin {"sentinel", "sampling", "session", "block", "replay"}
      /\ pc # "session"
  BY DEF InReplay, InConfirmation, Phases
<1>3. Located'
  BY <1>1, <1>2 DEF CampaignInv, ControllerInv, Located
<1>4. \A t \in Targets : Complete(t)' <=> Complete(t)
  BY DEF Complete
<1>5. HistoryClean'
  <2>1. at \in Cells => \A c \in Cells : Clean(c)
    BY DEF CampaignInv, ControllerInv, HistoryClean
  <2>2. at \in Cells => \A c \in Cells : Clean(c)'
    BY <1>4, <2>1, CellFacts DEF Clean
  <2> QED
    BY <1>2, <2>2 DEF HistoryClean
<1>6. BehindIsDone'
  <2>1. at \in Cells => /\ \A r \in 1..(at[1] - 1) : r \in closed
                       /\ \A p \in 1..(at[2] - 1) : Complete(<<at[1], p>>)
    BY <1>2 DEF CampaignInv, ControllerInv, BehindIsDone
  <2>2. at \in Cells => \A p \in 1..(at[2] - 1) : Complete(<<at[1], p>>)'
    BY <1>4, <2>1, BehindFacts, CellFacts
  <2> QED
    BY <2>1, <2>2 DEF BehindIsDone
<1> QED
  BY <1>3, <1>5, <1>6 DEF ControllerInv

LEMMA PrepareStep == ASSUME CampaignInv, Prepare PROVE CampaignInv'
<1> USE DEF world
<1>1. /\ at \in Targets /\ pc = "prepare" /\ ~Complete(at)
      /\ at \in Cells => run[at] = "made"
  BY CellFacts DEF Prepare, Complete, CampaignInv, TypeOK, ControllerTypeOK, ControllerInv,
     AttemptUnderWay
<1>2. identity' \in [Targets -> Deployments \cup {None}] /\ kept' \in [Targets -> Nat]
  BY DEF Prepare, CampaignInv, TypeOK, ControllerTypeOK, DiskTypeOK
<1>3. /\ DiskTypeOK' /\ DiskInv'
      /\ run'[at] = "used" /\ \A t \in Targets \ {at} : run'[t] = run[t]
  BY <1>1, <1>2, RunStep DEF Prepare, RunStates, drift
<1>4. ControllerTypeOK'
  BY StepTyped DEF Prepare, Steps, CampaignInv, TypeOK, ControllerTypeOK
<1>5. pc' = "victim" /\ UNCHANGED <<phase, at, mine, book, sentinel, closed>>
  BY DEF Prepare, GoTo, drift
<1>6. AttemptUnderWay'
  BY <1>1, <1>3, <1>5 DEF AttemptUnderWay, CampaignInv, ControllerInv, InReplay
<1>7. ControllerInv'
  BY <1>1, <1>3, <1>5, <1>6, ReplayMove DEF Complete, InReplay
<1> QED
  BY <1>3, <1>4, <1>7 DEF CampaignInv, TypeOK

LEMMA PrepareRefusedStep == ASSUME CampaignInv, PrepareRefused PROVE CampaignInv'
  BY Halting DEF PrepareRefused, world, CampaignInv, TypeOK, ControllerTypeOK

LEMMA DeploymentGoneStep == ASSUME CampaignInv, DeploymentGone PROVE CampaignInv'
  BY Halting DEF DeploymentGone, world, CampaignInv, TypeOK, ControllerTypeOK

LEMMA SummaryReusedStep == ASSUME CampaignInv, SummaryReused PROVE CampaignInv'
<1> USE DEF world
<1>1. /\ pc = "prepare" /\ at = NoLoad /\ run[at] \in {"summary", "lossy"}
      /\ pc' = "finish" /\ UNCHANGED <<phase, at, mine, run>>
  BY CellFacts DEF SummaryReused, CampaignInv, ControllerInv, AttemptUnderWay, GoTo, disk, runs
<1>2. DiskTypeOK' /\ DiskInv'
  BY DiskFrame DEF SummaryReused, CampaignInv, TypeOK
<1>3. ControllerTypeOK'
  BY StepTyped DEF SummaryReused, Steps, CampaignInv, TypeOK, ControllerTypeOK
<1>4. AttemptUnderWay'
  BY <1>1, CellFacts DEF AttemptUnderWay, CampaignInv, ControllerInv, InReplay
<1>5. ControllerInv'
  BY <1>1, <1>4, ReplayMove DEF Complete, InReplay, SummaryReused, disk, drift
<1> QED
  BY <1>2, <1>3, <1>5 DEF CampaignInv, TypeOK

LEMMA PlayStep ==
    ASSUME CampaignInv, NEW summary \in {"summary", "lossy"}, Play(summary)
    PROVE  CampaignInv'
<1> USE DEF world
<1>1. at \in Targets /\ pc = "victim" /\ run[at] = "used" /\ ~Complete(at)
  BY DEF Play, Complete, CampaignInv, TypeOK, ControllerTypeOK, ControllerInv, AttemptUnderWay
<1>2. identity' \in [Targets -> Deployments \cup {None}] /\ kept' \in [Targets -> Nat]
  BY DEF Play, CampaignInv, TypeOK, DiskTypeOK
<1>3. /\ DiskTypeOK' /\ DiskInv'
      /\ run'[at] = summary /\ \A t \in Targets \ {at} : run'[t] = run[t]
  BY <1>1, <1>2, RunStep DEF Play, RunStates, drift
<1>4. ControllerTypeOK'
  BY StepTyped DEF Play, Steps, CampaignInv, TypeOK, ControllerTypeOK
<1>5. /\ pc' = "cleanup" /\ UNCHANGED <<phase, at, mine, book, sentinel, closed>>
      /\ summary = "lossy" => at = NoLoad
  BY DEF Play, GoTo, drift
<1>6. AttemptUnderWay'
  BY <1>1, <1>3, <1>5 DEF AttemptUnderWay, CampaignInv, ControllerInv, InReplay
<1>7. ControllerInv'
  BY <1>1, <1>3, <1>5, <1>6, ReplayMove DEF Complete, InReplay
<1> QED
  BY <1>3, <1>4, <1>7 DEF CampaignInv, TypeOK

LEMMA CleanUpStep == ASSUME CampaignInv, CleanUp PROVE CampaignInv'
<1> USE DEF world
<1>1. /\ pc = "cleanup" /\ pc' = "finish" /\ UNCHANGED <<phase, at, mine, run>>
      /\ run[at] = "summary" \/ (at = NoLoad /\ run[at] = "lossy")
  BY DEF CleanUp, CampaignInv, ControllerInv, AttemptUnderWay, GoTo, disk, runs
<1>2. DiskTypeOK' /\ DiskInv'
  BY DiskFrame DEF CleanUp, CampaignInv, TypeOK
<1>3. ControllerTypeOK'
  BY StepTyped DEF CleanUp, Steps, CampaignInv, TypeOK, ControllerTypeOK
<1>4. AttemptUnderWay'
  BY <1>1 DEF AttemptUnderWay, CampaignInv, ControllerInv, InReplay
<1>5. ControllerInv'
  BY <1>1, <1>4, ReplayMove DEF Complete, InReplay, CleanUp, disk, drift
<1> QED
  BY <1>2, <1>3, <1>5 DEF CampaignInv, TypeOK

LEMMA QualificationStep == ASSUME CampaignInv, Qualification PROVE CampaignInv'
<1> USE DEF world
<1>1. /\ pc = "qualification" /\ phase = "qualification" /\ at = NoLoad
      /\ endpoint # "none" /\ Requires[phase] \subseteq done
  BY DEF Qualification, CampaignInv, ControllerInv, Located, Phases, InReplay, InConfirmation
<1>2. CASE Complete(NoLoad)
  BY <1>1, <1>2, FoundStep DEF Qualification, Phases, Established
<1>3. CASE ~Complete(NoLoad)
  <2>1. GoTo("prepare") /\ UNCHANGED disk
    BY <1>3 DEF Qualification
  <2>2. DiskTypeOK' /\ DiskInv'
    BY <2>1, DiskFrame DEF CampaignInv, TypeOK
  <2>3. ControllerTypeOK'
    BY <2>1, StepTyped DEF Qualification, Steps, CampaignInv, TypeOK, ControllerTypeOK
  <2>4. pc' = "prepare" /\ at' = NoLoad /\ at' \notin Cells /\ phase' = "qualification"
    BY <1>1, <2>1, CellFacts DEF GoTo
  <2>5. pc' \notin InConfirmation \cup Phases /\ pc' \in InReplay
    BY <2>4 DEF InConfirmation, Phases, InReplay
  <2>6. Located'
    BY <1>1, <2>1, <2>4, <2>5 DEF Located, disk, book
  <2>7. AttemptUnderWay'
    BY <1>3, <2>1, <2>4 DEF AttemptUnderWay, Complete, disk, runs
  <2>8. HistoryClean' /\ BehindIsDone'
    BY <2>4 DEF HistoryClean, BehindIsDone
  <2> QED
    BY <2>2, <2>3, <2>6, <2>7, <2>8 DEF CampaignInv, TypeOK, ControllerInv
<1> QED
  BY <1>2, <1>3

LEMMA QualifiedStep == ASSUME CampaignInv, Qualified PROVE CampaignInv'
<1> USE DEF world
<1>1. /\ pc = "finish" /\ at = NoLoad /\ phase = "qualification"
      /\ run[at] = "summary" \/ run[at] = "lossy"
  BY DEF Qualified, CampaignInv, ControllerInv, AttemptUnderWay, Located, InReplay
<1>2. CASE run[at] = "lossy"
  BY <1>2, Halting DEF Qualified, disk, CampaignInv, TypeOK, ControllerTypeOK
<1>3. CASE run[at] # "lossy"
  <2>1. SetRun("complete") /\ GoTo("mark") /\ UNCHANGED <<identity, kept, world, book, pilot, drift>>
    BY <1>3 DEF Qualified
  <2>2. identity' \in [Targets -> Deployments \cup {None}] /\ kept' \in [Targets -> Nat]
    BY <2>1 DEF CampaignInv, TypeOK, DiskTypeOK
  <2>3. DiskTypeOK' /\ DiskInv' /\ run'[at] = "complete"
    BY <1>1, <2>1, <2>2, RunStep, CellFacts DEF Complete, RunStates
  <2>4. ControllerTypeOK'
    BY <2>1, StepTyped DEF Steps, CampaignInv, TypeOK, ControllerTypeOK
  <2>5. Established(phase)'
    BY <1>1, <2>1, <2>3 DEF Established, Complete, GoTo
  <2>6. ControllerInv'
    BY <1>1, <2>1, <2>5, ToMark DEF GoTo, book
  <2> QED
    BY <2>3, <2>4, <2>6 DEF CampaignInv, TypeOK
<1> QED
  BY <1>2, <1>3

----------------------------------------------------------------------------
(* The confirmation.                                                        *)

\* Between two steps of a confirmation that has a clean history.
LEMMA ConfirmationMove ==
    ASSUME CampaignInv, phase = "confirmation", pc' \in {"session", "block", "replay"},
           UNCHANGED <<phase, book>>, endpoint # "none", Requires[phase] \subseteq done,
           \A c \in Cells : Clean(c)',
           pc' # "session" => at' \in Cells /\ \A r \in 1..(at'[1] - 1) : r \in closed',
           pc' = "replay" => \A p \in 1..(at'[2] - 1) : run'[<<at'[1], p>>] = "complete"
    PROVE  ControllerInv'
<1> USE DEF book
<1>1. /\ pc' \notin InReplay \cup Phases /\ pc' \in InConfirmation
      /\ pc' \notin {"probing", "mark", "publish", "prepare", "victim", "cleanup", "finish",
                    "sentinel", "sampling"}
  BY DEF InReplay, InConfirmation, Phases
<1>2. Located'
  BY <1>1 DEF Located, InConfirmation
<1>3. AttemptUnderWay'
  BY <1>1 DEF AttemptUnderWay
<1>4. HistoryClean'
  BY <1>1 DEF HistoryClean
<1>5. BehindIsDone'
  <2>1. pc' # "session" => \A r \in 1..(at'[1] - 1) : r \in closed'
    OBVIOUS
  <2>2. pc' \in InReplay \cup {"replay"} => \A p \in 1..(at'[2] - 1) : run'[<<at'[1], p>>] = "complete"
    BY <1>1
  <2> QED
    BY <2>1, <2>2 DEF BehindIsDone, Complete
<1> QED
  BY <1>2, <1>3, <1>4, <1>5 DEF ControllerInv

\* What holds at every step of a confirmation.
LEMMA InConfirmationFacts ==
    ASSUME CampaignInv, pc \in InConfirmation
    PROVE  /\ phase = "confirmation" /\ endpoint # "none" /\ Requires[phase] \subseteq done
           /\ "freeze" \in done
           /\ pc \in {"session", "block", "replay"} => \A c \in Cells : Clean(c)
           /\ pc # "session" => at \in Cells /\ \A r \in 1..(at[1] - 1) : r \in closed
<1>1. pc \notin {"idle", "prompt", "choose", "begin", "publish"}
  BY DEF InConfirmation
<1>2. phase = "confirmation" /\ endpoint # "none" /\ Requires[phase] \subseteq done
  BY <1>1 DEF CampaignInv, ControllerInv, Located
<1>3. "freeze" \in done
  BY <1>2, PhaseFacts
<1>4. pc \in {"session", "block", "replay"} => \A c \in Cells : Clean(c)
  BY DEF CampaignInv, ControllerInv, HistoryClean
<1>5. pc # "session" => at \in Cells /\ \A r \in 1..(at[1] - 1) : r \in closed
  BY DEF CampaignInv, ControllerInv, Located, BehindIsDone
<1> QED
  BY <1>2, <1>3, <1>4, <1>5

\* A clean history stays so when nothing is written.
LEMMA CleanFrame ==
    ASSUME \A c \in Cells : Clean(c), UNCHANGED <<run, sentinel>>
    PROVE  \A c \in Cells : Clean(c)'
  BY DEF Clean, Complete

\* What no replay is missing before the first missing one.
LEMMA FirstFacts ==
    ASSUME NEW s \in 1..Sessions, NEW o \in 1..Replays, First(s, o)
    PROVE  <<s, o>> \in Cells /\ \A p \in 1..(o - 1) : Complete(<<s, p>>)
<1>1. \A p \in 1..(o - 1) : p \in 1..Replays /\ ~(o <= p)
  BY SizeAssumption
<1> QED
  BY <1>1, CellFacts DEF First, Missing

LEMMA ConfirmationStep == ASSUME CampaignInv, Confirmation PROVE CampaignInv'
<1> USE DEF world
<1>1. CASE frozen = env /\ SentinelsPassed
  <2>1. GoTo("session") /\ UNCHANGED disk
    BY <1>1 DEF Confirmation
  <2>2. DiskTypeOK' /\ DiskInv'
    BY <2>1, DiskFrame DEF CampaignInv, TypeOK
  <2>3. ControllerTypeOK'
    BY <2>1, StepTyped DEF Confirmation, Steps, CampaignInv, TypeOK, ControllerTypeOK
  <2>4. phase = "confirmation" /\ endpoint # "none" /\ Requires[phase] \subseteq done
    BY DEF Confirmation, CampaignInv, ControllerInv, Located, Phases
  <2>5. \A c \in Cells : Clean(c)
    BY <1>1 DEF SentinelsPassed, Clean
  <2>6. \A c \in Cells : Clean(c)'
    BY <2>1, <2>5, CleanFrame DEF disk, runs, drift
  <2>7. ControllerInv'
    BY <2>1, <2>4, <2>6, ConfirmationMove DEF GoTo, disk, drift
  <2> QED
    BY <2>2, <2>3, <2>7 DEF CampaignInv, TypeOK
<1>2. CASE ~(frozen = env /\ SentinelsPassed)
  BY <1>2, Halting DEF Confirmation, CampaignInv, TypeOK, ControllerTypeOK
<1> QED
  BY <1>1, <1>2

LEMMA PauseStep == ASSUME CampaignInv, NEW s \in 1..Sessions, Pause(s) PROVE CampaignInv'
  BY Halting DEF Pause, world, CampaignInv, TypeOK, ControllerTypeOK

LEMMA BlockDoneStep == ASSUME CampaignInv, BlockDone PROVE CampaignInv'
<1> USE DEF world
<1>1. pc = "block" /\ GoTo("session") /\ UNCHANGED disk
  BY DEF BlockDone
<1>2. DiskTypeOK' /\ DiskInv'
  BY <1>1, DiskFrame DEF CampaignInv, TypeOK
<1>3. ControllerTypeOK'
  BY <1>1, StepTyped DEF BlockDone, Steps, CampaignInv, TypeOK, ControllerTypeOK
<1>4. ControllerInv'
  BY <1>1, InConfirmationFacts, CleanFrame, ConfirmationMove
  DEF GoTo, disk, runs, drift, InConfirmation
<1> QED
  BY <1>2, <1>3, <1>4 DEF CampaignInv, TypeOK

LEMMA EnterBlockStep ==
    ASSUME CampaignInv, NEW s \in 1..Sessions, NEW o \in 1..Replays, EnterBlock(s, o)
    PROVE  CampaignInv'
<1> USE DEF world
<1>1. /\ pc = "session" /\ pc' = "block" /\ at' = <<s, o>> /\ upto' = EndOfBlock(o)
      /\ UNCHANGED <<phase, full, env, manifest, mine, deployed, design, faults, disk>>
      /\ \A r \in 1..(s - 1) : r \in closed
  BY DEF EnterBlock, Current
<1>2. DiskTypeOK' /\ DiskInv'
  BY <1>1, DiskFrame DEF CampaignInv, TypeOK
<1>3. at' \in Cells /\ at' \in Targets /\ at'[1] = s
  BY <1>1, CellFacts
<1>4. upto' \in Nat
  <2>1. (o - 1) \div Arms \in Nat
    BY SizeAssumption
  <2> QED
    BY <1>1, <2>1, SizeAssumption DEF EndOfBlock
<1>5. ControllerTypeOK'
  BY <1>1, <1>3, <1>4 DEF CampaignInv, TypeOK, ControllerTypeOK, Steps
<1>6. ControllerInv'
  BY <1>1, <1>3, InConfirmationFacts, CleanFrame, ConfirmationMove
  DEF disk, runs, drift, InConfirmation
<1> QED
  BY <1>2, <1>5, <1>6 DEF CampaignInv, TypeOK

LEMMA NextReplayStep ==
    ASSUME CampaignInv, NEW o \in 1..Replays, NextReplay(o)
    PROVE  CampaignInv'
<1> USE DEF world
<1>1. /\ pc = "block" /\ pc' = "replay" /\ at' = <<at[1], o>> /\ mine' = FALSE
      /\ UNCHANGED <<phase, full, env, manifest, upto, deployed, design, faults, disk>>
      /\ First(at[1], o)
  BY DEF NextReplay
<1>2. DiskTypeOK' /\ DiskInv'
  BY <1>1, DiskFrame DEF CampaignInv, TypeOK
<1>3. at \in Cells /\ at[1] \in 1..Sessions
  BY <1>1, InConfirmationFacts, CellFacts DEF InConfirmation
<1>4. at' \in Cells /\ at' \in Targets /\ at'[1] = at[1] /\ at'[2] = o
  BY <1>1, <1>3, CellFacts
<1>5. ControllerTypeOK'
  BY <1>1, <1>4 DEF CampaignInv, TypeOK, ControllerTypeOK, Steps
<1>6. \A p \in 1..(o - 1) : Complete(<<at[1], p>>)
  BY <1>1, <1>3, FirstFacts
<1>7. \A p \in 1..(at'[2] - 1) : run'[<<at'[1], p>>] = "complete"
  <2>1. \A p \in 1..(o - 1) : run'[<<at[1], p>>] = "complete"
    BY <1>1, <1>6 DEF Complete, disk, runs
  <2>2. at'[1] = at[1] /\ 1..(at'[2] - 1) = 1..(o - 1)
    BY <1>4
  <2> QED
    BY <2>1, <2>2
<1>8. ControllerInv'
  BY <1>1, <1>4, <1>7, InConfirmationFacts, CleanFrame, ConfirmationMove
  DEF disk, runs, drift, InConfirmation
<1> QED
  BY <1>2, <1>5, <1>8 DEF CampaignInv, TypeOK

LEMMA CloseSessionStep ==
    ASSUME CampaignInv, NEW s \in 1..Sessions, CloseSession(s)
    PROVE  CampaignInv'
<1> USE DEF world
<1>1. /\ pc = "session" /\ GoTo("session") /\ closed' = closed \cup {s} /\ Missing(s) = {}
      /\ UNCHANGED <<sentinel, world, book, pilot, runs>>
  BY DEF CloseSession
<1>2. \A c \in Cells : Clean(c)
  BY <1>1, InConfirmationFacts DEF InConfirmation
<1>3. \A o \in 1..Replays : Complete(<<s, o>>)
  BY <1>1 DEF Missing
<1>4. \A k \in Checkpoints : Passed(s, k)
  <2> SUFFICES ASSUME NEW k \in Checkpoints PROVE Passed(s, k)
    OBVIOUS
  <2>1. <<s, k>> \in Cells /\ <<s, k>>[2] = k /\ Complete(<<s, k>>)
    BY <1>3, CellFacts, CheckpointFacts
  <2> QED
    BY <1>2, <2>1 DEF Clean, Passed
<1>5. DiskTypeOK'
  BY <1>1 DEF CampaignInv, TypeOK, DiskTypeOK, book, pilot, runs
<1>6. MarksInOrder'
  <2>1. closed = 1..Sessions => closed' = 1..Sessions
    BY <1>1
  <2>2. \A p \in done : Established(p) => Established(p)'
    BY <1>1, <2>1 DEF Established, Complete, pilot, runs
  <2> QED
    BY <1>1, <2>2 DEF CampaignInv, DiskInv, MarksInOrder, book, pilot, runs
<1>7. SessionsWhole'
  BY <1>1, <1>3, <1>4 DEF CampaignInv, DiskInv, SessionsWhole, Complete, Passed, runs
<1>8. SentinelsFollowRecords' /\ InPlanOrder' /\ CheckpointsCovered'
  BY <1>1 DEF CampaignInv, DiskInv, SentinelsFollowRecords, InPlanOrder, CheckpointsCovered,
     Complete, Passed, runs
<1>9. ControllerTypeOK'
  BY <1>1, StepTyped DEF Steps, CampaignInv, TypeOK, ControllerTypeOK
<1>10. ControllerInv'
  BY <1>1, <1>2, InConfirmationFacts, CleanFrame, ConfirmationMove
  DEF GoTo, InConfirmation, runs
<1> QED
  BY <1>5, <1>6, <1>7, <1>8, <1>9, <1>10 DEF CampaignInv, TypeOK, DiskInv

LEMMA ConfirmedStep == ASSUME CampaignInv, Confirmed PROVE CampaignInv'
<1> USE DEF world
<1>1. DiskTypeOK' /\ DiskInv'
  BY DiskFrame DEF Confirmed, CampaignInv, TypeOK
<1>2. pc = "session" /\ closed = 1..Sessions
  BY DEF Confirmed
<1>3. phase = "confirmation"
  BY <1>2, InConfirmationFacts DEF InConfirmation
<1>4. CASE AllComplete
  <2>1. at' = NoLoad /\ pc' = "mark" /\ upto' = 0 /\ mine' = FALSE
        /\ UNCHANGED <<phase, full, env, manifest>>
    BY <1>4 DEF Confirmed
  <2>2. ControllerTypeOK'
    <3>1. at' \in Targets /\ upto' \in Nat /\ pc' \in Steps
      BY <2>1, CellFacts DEF Steps
    <3> QED
      BY <2>1, <3>1 DEF Confirmed, CampaignInv, TypeOK, ControllerTypeOK
  <2>3. Established(phase)'
    BY <1>2, <1>3, <2>1 DEF Confirmed, Established, disk, drift
  <2>4. ControllerInv'
    BY <1>2, <2>1, <2>3, ToMark DEF Confirmed, disk, book
  <2> QED
    BY <1>1, <2>2, <2>4 DEF CampaignInv, TypeOK
<1>5. CASE ~AllComplete
  BY <1>5, Halting DEF Confirmed, CampaignInv, TypeOK, ControllerTypeOK
<1> QED
  BY <1>4, <1>5

LEMMA ArchiveAttemptStep == ASSUME CampaignInv, ArchiveAttempt PROVE CampaignInv'
<1> USE DEF world
<1>1. /\ pc = "replay" /\ at \in Cells /\ at \in Targets /\ run[at] # "none" /\ ~Complete(at)
      /\ UNCHANGED <<pc, phase, at, upto, mine, full, env, manifest>>
      /\ UNCHANGED <<book, pilot, drift>> /\ SetRun("none")
  BY InConfirmationFacts, CellFacts DEF ArchiveAttempt, Complete, InConfirmation, controller
<1>2. identity' \in [Targets -> Deployments \cup {None}] /\ kept' \in [Targets -> Nat]
  BY <1>1 DEF ArchiveAttempt, CampaignInv, TypeOK, DiskTypeOK
<1>3. /\ DiskTypeOK' /\ DiskInv'
      /\ run'[at] = "none" /\ \A t \in Targets \ {at} : run'[t] = run[t]
      /\ \A t \in Targets : Complete(t) => Complete(t)'
  BY <1>1, <1>2, RunStep DEF RunStates
<1>4. ControllerTypeOK'
  BY DEF ArchiveAttempt, controller, CampaignInv, TypeOK, ControllerTypeOK
<1>5. \A c \in Cells : Clean(c)
  BY <1>1, InConfirmationFacts DEF InConfirmation
<1>6. \A c \in Cells : Clean(c)'
  BY <1>1, <1>3, <1>5, CellFacts DEF Clean, Complete, drift
<1>7. \A p \in 1..(at[2] - 1) : run'[<<at[1], p>>] = "complete"
  <2>1. \A p \in 1..(at[2] - 1) : Complete(<<at[1], p>>)
    BY <1>1 DEF CampaignInv, ControllerInv, BehindIsDone
  <2> QED
    BY <1>1, <1>3, <2>1, BehindFacts, CellFacts DEF Complete
<1>8. \A p \in 1..(at'[2] - 1) : run'[<<at'[1], p>>] = "complete"
  BY <1>1, <1>7
<1>9. ControllerInv'
  BY <1>1, <1>6, <1>8, InConfirmationFacts, ConfirmationMove DEF InConfirmation, drift
<1> QED
  BY <1>3, <1>4, <1>9 DEF CampaignInv, TypeOK

LEMMA MakeRunDirectoryStep == ASSUME CampaignInv, MakeRunDirectory PROVE CampaignInv'
<1> USE DEF world
<1>1. /\ pc = "replay" /\ pc' = "prepare" /\ mine' = TRUE /\ run[at] = "none" /\ ~Complete(at)
      /\ UNCHANGED <<phase, at, upto, full, env, manifest, book, pilot, drift>> /\ SetRun("made")
  BY DEF MakeRunDirectory, Complete
<1>2. /\ at \in Cells /\ at \in Targets /\ phase = "confirmation" /\ endpoint # "none"
      /\ Requires[phase] \subseteq done /\ "freeze" \in done
      /\ \A c \in Cells : Clean(c)
      /\ \A r \in 1..(at[1] - 1) : r \in closed
  BY <1>1, InConfirmationFacts, CellFacts DEF InConfirmation
<1>3. \A p \in 1..(at[2] - 1) : Complete(<<at[1], p>>)
  BY <1>1, <1>2 DEF CampaignInv, ControllerInv, BehindIsDone
<1>4. Behind
  <2>1. \A s \in 1..(at[1] - 1), o \in 1..Replays : Complete(<<s, o>>)
    BY <1>2 DEF CampaignInv, DiskInv, SessionsWhole
  <2>2. ASSUME NEW k \in Checkpoints, k < at[2] PROVE Passed(at[1], k)
    <3>1. k \in 1..(at[2] - 1)
      BY <1>2, <2>2, CellFacts, CheckpointFacts, SizeAssumption
    <3>2. <<at[1], k>> \in Cells /\ <<at[1], k>>[2] = k
      BY <1>2, CellFacts, CheckpointFacts
    <3> QED
      BY <1>2, <1>3, <3>1, <3>2 DEF Clean, Passed
  <2> QED
    BY <1>3, <2>1, <2>2 DEF Behind
<1>5. identity' \in [Targets -> Deployments \cup {None}] /\ kept' \in [Targets -> Nat]
  BY DEF MakeRunDirectory, CampaignInv, TypeOK, DiskTypeOK
<1>6. /\ DiskTypeOK' /\ DiskInv'
      /\ run'[at] = "made" /\ \A t \in Targets \ {at} : run'[t] = run[t]
  BY <1>1, <1>2, <1>4, <1>5, RunStep DEF RunStates
<1>7. ControllerTypeOK'
  BY <1>1 DEF MakeRunDirectory, Steps, CampaignInv, TypeOK, ControllerTypeOK
<1>8. /\ pc' \in InReplay /\ pc' \notin InConfirmation \cup Phases
      /\ pc' \notin {"probing", "mark", "publish", "session", "block", "replay", "sentinel", "sampling"}
  BY <1>1 DEF InReplay, InConfirmation, Phases
<1>9. Located'
  BY <1>1, <1>2, <1>8, CellFacts DEF Located, book
<1>10. AttemptUnderWay'
  BY <1>1, <1>2, <1>6, CellFacts DEF AttemptUnderWay
<1>11. HistoryClean'
  <2>1. \A c \in Cells : Clean(c)'
    BY <1>1, <1>2, <1>6, CellFacts DEF Clean, Complete, drift
  <2> QED
    BY <1>8, <2>1 DEF HistoryClean
<1>12. BehindIsDone'
  <2>1. \A p \in 1..(at[2] - 1) : run'[<<at[1], p>>] = "complete"
    BY <1>1, <1>2, <1>3, <1>6, BehindFacts, CellFacts DEF Complete
  <2> QED
    BY <1>1, <1>2, <2>1 DEF BehindIsDone, Complete, drift
<1> QED
  BY <1>6, <1>7, <1>9, <1>10, <1>11, <1>12 DEF CampaignInv, TypeOK, ControllerInv

\* Where a sentinel is due or probing.
LEMMA SentinelDue ==
    ASSUME CampaignInv, phase = "confirmation", pc' \in {"sentinel", "sampling"},
           UNCHANGED <<phase, at, book, closed>>, endpoint # "none",
           Requires[phase] \subseteq done,
           at \in Cells, at[2] \in Checkpoints, Complete(at)',
           sentinel'[at] = IF pc' = "sentinel" THEN "none" ELSE "running",
           \A c \in Cells \ {at} : Clean(c)',
           \A r \in 1..(at[1] - 1) : r \in closed
    PROVE  ControllerInv'
<1> USE DEF book
<1>1. /\ pc' \notin InReplay \cup Phases /\ pc' \in InConfirmation
      /\ pc' \notin {"probing", "mark", "publish", "prepare", "victim", "cleanup", "finish",
                    "session", "block", "replay"}
  BY DEF InReplay, InConfirmation, Phases
<1>2. Located'
  BY <1>1 DEF Located, InConfirmation
<1>3. AttemptUnderWay'
  BY <1>1 DEF AttemptUnderWay
<1>4. HistoryClean'
  BY <1>1 DEF HistoryClean, Checkpoints
<1>5. BehindIsDone'
  BY <1>1 DEF BehindIsDone, InConfirmation
<1> QED
  BY <1>2, <1>3, <1>4, <1>5 DEF ControllerInv

LEMMA WriteRecordStep == ASSUME CampaignInv, WriteRecord PROVE CampaignInv'
<1> USE DEF world
<1>1. /\ pc = "finish" /\ at \in Cells /\ at \in Targets /\ SetRun("complete")
      /\ pc' = (IF at[2] \in Checkpoints THEN "sentinel" ELSE "block")
      /\ UNCHANGED <<phase, at, full, env, manifest, upto, mine, identity, kept, world, book, pilot, drift>>
  BY CellFacts DEF WriteRecord, GoTo
<1>2. run[at] = "summary" /\ ~Complete(at)
  BY <1>1, CellFacts DEF CampaignInv, ControllerInv, AttemptUnderWay, Complete
<1>3. /\ phase = "confirmation" /\ endpoint # "none" /\ Requires[phase] \subseteq done
  BY <1>1, CellFacts DEF CampaignInv, ControllerInv, Located, InReplay
<1>4. /\ \A c \in Cells : Clean(c)
      /\ \A r \in 1..(at[1] - 1) : r \in closed
  BY <1>1 DEF CampaignInv, ControllerInv, HistoryClean, BehindIsDone, InReplay
<1>5. identity' \in [Targets -> Deployments \cup {None}] /\ kept' \in [Targets -> Nat]
  BY <1>1 DEF CampaignInv, TypeOK, DiskTypeOK
<1>6. /\ DiskTypeOK' /\ DiskInv'
      /\ run'[at] = "complete" /\ \A t \in Targets \ {at} : run'[t] = run[t]
  BY <1>1, <1>2, <1>5, RunStep DEF RunStates
<1>7. ControllerTypeOK'
  BY <1>1 DEF Steps, CampaignInv, TypeOK, ControllerTypeOK
<1>8. \A c \in Cells \ {at} : Clean(c)'
  BY <1>1, <1>4, <1>6, CellFacts DEF Clean, Complete, drift
<1>9. sentinel[at] = "none"
  BY <1>1, <1>2 DEF CampaignInv, DiskInv, SentinelsFollowRecords
<1>10. CASE at[2] \in Checkpoints
  <2>1. sentinel'[at] = "none" /\ Complete(at)' /\ pc' = "sentinel"
    BY <1>1, <1>6, <1>9, <1>10 DEF drift, Complete
  <2>2. ControllerInv'
    BY <1>1, <1>3, <1>4, <1>8, <1>10, <2>1, SentinelDue DEF drift
  <2> QED
    BY <1>6, <1>7, <2>2 DEF CampaignInv, TypeOK
<1>11. CASE at[2] \notin Checkpoints
  <2>1. Clean(at)'
    BY <1>1, <1>9, <1>11 DEF Clean, Checkpoints, drift
  <2>2. \A c \in Cells : Clean(c)'
    <3>1. \A c \in Cells : c = at => Clean(c)'
      BY <1>1, <2>1 DEF Clean, Complete
    <3> QED
      BY <1>8, <3>1
  <2>3. pc' = "block" /\ at' \in Cells /\ \A r \in 1..(at'[1] - 1) : r \in closed'
    BY <1>1, <1>4, <1>11 DEF drift
  <2>4. ControllerInv'
    BY <1>1, <1>3, <2>2, <2>3, ConfirmationMove
  <2> QED
    BY <1>6, <1>7, <2>4 DEF CampaignInv, TypeOK
<1> QED
  BY <1>10, <1>11

\* A sentinel that is due or probing, the others passed.
LEMMA SentinelFacts ==
    ASSUME CampaignInv, pc \in {"sentinel", "sampling"}
    PROVE  /\ at \in Cells /\ at[2] \in Checkpoints /\ Complete(at)
           /\ sentinel[at] = IF pc = "sentinel" THEN "none" ELSE "running"
           /\ \A c \in Cells \ {at} : Clean(c)
           /\ phase = "confirmation" /\ endpoint # "none" /\ Requires[phase] \subseteq done
           /\ \A r \in 1..(at[1] - 1) : r \in closed
<1>1. pc \in InConfirmation /\ pc # "session"
  BY DEF InConfirmation
<1> QED
  BY <1>1, InConfirmationFacts DEF CampaignInv, ControllerInv, HistoryClean

LEMMA StartSentinelStep == ASSUME CampaignInv, StartSentinel PROVE CampaignInv'
<1> USE DEF world
<1>1. /\ pc = "sentinel" /\ pc' = "sampling" /\ GoTo("sampling")
      /\ sentinel' = [sentinel EXCEPT ![at] = "running"]
      /\ UNCHANGED <<phase, at, closed, book, pilot, runs>>
  BY DEF StartSentinel, GoTo
<1>2. /\ at \in Cells /\ at[2] \in Checkpoints /\ Complete(at) /\ sentinel[at] = "none"
      /\ \A c \in Cells \ {at} : Clean(c)
      /\ phase = "confirmation" /\ endpoint # "none" /\ Requires[phase] \subseteq done
      /\ \A r \in 1..(at[1] - 1) : r \in closed
  BY <1>1, SentinelFacts
<1>3. /\ DiskTypeOK' /\ DiskInv'
      /\ sentinel'[at] = "running" /\ \A c \in Cells \ {at} : sentinel'[c] = sentinel[c]
  BY <1>1, <1>2, SentinelStep
<1>4. ControllerTypeOK'
  BY <1>1, StepTyped DEF StartSentinel, Steps, CampaignInv, TypeOK, ControllerTypeOK
<1>5. Complete(at)' /\ \A c \in Cells \ {at} : Clean(c)'
  BY <1>1, <1>2, <1>3 DEF Clean, Complete, runs
<1>6. ControllerInv'
  BY <1>1, <1>2, <1>3, <1>5, SentinelDue
<1> QED
  BY <1>3, <1>4, <1>6 DEF CampaignInv, TypeOK

LEMMA SentinelEndsStep ==
    ASSUME CampaignInv, NEW outcome \in {"passed", "failed"}, SentinelEnds(outcome)
    PROVE  CampaignInv'
<1> USE DEF world
<1>1. /\ pc = "sampling" /\ sentinel' = [sentinel EXCEPT ![at] = outcome]
      /\ UNCHANGED <<deployed, design, closed, book, pilot, runs>>
  BY DEF SentinelEnds
<1>2. /\ at \in Cells /\ at[2] \in Checkpoints /\ Complete(at) /\ sentinel[at] = "running"
      /\ \A c \in Cells \ {at} : Clean(c)
      /\ phase = "confirmation" /\ endpoint # "none" /\ Requires[phase] \subseteq done
      /\ \A r \in 1..(at[1] - 1) : r \in closed
  BY <1>1, SentinelFacts
<1>3. /\ DiskTypeOK' /\ DiskInv'
      /\ sentinel'[at] = outcome /\ \A c \in Cells \ {at} : sentinel'[c] = sentinel[c]
  BY <1>1, <1>2, SentinelStep
<1>4. CASE outcome = "passed"
  <2>1. GoTo("block") /\ faults' = faults
    BY <1>4 DEF SentinelEnds
  <2>2. ControllerTypeOK'
    BY <1>1, <2>1, StepTyped DEF Steps, CampaignInv, TypeOK, ControllerTypeOK
  <2>3. \A c \in Cells : Clean(c)'
    BY <1>1, <1>2, <1>3, <1>4 DEF Clean, Complete, runs
  <2>4. ControllerInv'
    BY <1>1, <1>2, <2>1, <2>3, ConfirmationMove DEF GoTo
  <2> QED
    BY <1>3, <2>2, <2>4 DEF CampaignInv, TypeOK
<1>5. CASE outcome = "failed"
  BY <1>1, <1>3, <1>5, Halted, FaultCounted DEF SentinelEnds, CampaignInv, TypeOK, ControllerTypeOK
<1> QED
  BY <1>4, <1>5

----------------------------------------------------------------------------
(* The theorems.                                                            *)

\* What the controller and the disk agree on holds of every campaign, whatever
\* stops its invocations and wherever they resume.
THEOREM InvariantHolds == Spec => []CampaignInv
<1>1. CampaignInv /\ [Next]_vars => CampaignInv'
  <2> SUFFICES ASSUME CampaignInv, [Next]_vars PROVE CampaignInv'
    OBVIOUS
  <2>1. CASE Execute
    BY <2>1, ResumeCampaignStep, RefuseCampaignStep, StartCampaignStep, BeginPhaseStep,
       DependencyMissingStep, MarkPhaseStep, PublishCompletionStep, CalibrationRetainedStep,
       CalibrationStartsStep, SweepEndsStep, FreezeStep, FreezeRetainedStep, AnalyseStep
    DEF Execute
  <2>2. CASE Replay
    BY <2>2, PrepareStep, PrepareRefusedStep, SummaryReusedStep, PlayStep, CleanUpStep,
       DeploymentGoneStep, QualificationStep, QualifiedStep
    DEF Replay
  <2>3. CASE Confirm
    BY <2>3, ConfirmationStep, BlockDoneStep, ConfirmedStep, ArchiveAttemptStep,
       MakeRunDirectoryStep, WriteRecordStep, StartSentinelStep, PauseStep, CloseSessionStep,
       EnterBlockStep, NextReplayStep, SentinelEndsStep
    DEF Confirm
  <2>4. CASE Operator
    BY <2>4, RedeployStep, ReviseStep, StopStep, ApproveStep, InvokeStep DEF Operator
  <2>5. CASE UNCHANGED vars
    BY <2>5, AroundStep DEF vars, world, CampaignInv, TypeOK, ControllerTypeOK
  <2> QED
    BY <2>1, <2>2, <2>3, <2>4, <2>5 DEF Next, Controller
<1> QED
  BY <1>1, InitCampaign, PTL DEF Spec

\* Every variable keeps to its values.
THEOREM TypesHold == Spec => []TypeOK
<1>1. CampaignInv => TypeOK
  BY DEF CampaignInv
<1> QED
  BY <1>1, InvariantHolds, PTL

\* The plan is followed whatever stops the invocations.
THEOREM PlanIsFollowed == Spec => []InPlanOrder
<1>1. CampaignInv => InPlanOrder
  BY DEF CampaignInv, DiskInv
<1> QED
  BY <1>1, InvariantHolds, PTL

\* No replay is begun past a checkpoint without its sentinel.
THEOREM CheckpointsAreCovered == Spec => []CheckpointsCovered
<1>1. CampaignInv => CheckpointsCovered
  BY DEF CampaignInv, DiskInv
<1> QED
  BY <1>1, InvariantHolds, PTL

\* When all sessions are closed, nothing of the plan is missing.
LEMMA ClosedIsComplete ==
    ASSUME CampaignInv, closed = 1..Sessions
    PROVE  AllComplete /\ \A s \in 1..Sessions, k \in Checkpoints : Passed(s, k)
<1>1. \A c \in Cells : Complete(<<c[1], c[2]>>)
  BY CellFacts DEF CampaignInv, DiskInv, SessionsWhole
<1>2. AllComplete
  BY <1>1, CellFacts DEF AllComplete
<1> QED
  BY <1>2 DEF CampaignInv, DiskInv, SessionsWhole

\* What is marked as confirmed has every replay, sentinel and session.
THEOREM ConfirmationsAreComplete == Spec => []ConfirmedIsComplete
<1>1. CampaignInv => ConfirmedIsComplete
  <2> SUFFICES ASSUME CampaignInv PROVE ConfirmedIsComplete
    OBVIOUS
  <2>1. "confirmation" \in done => closed = 1..Sessions
    BY DEF CampaignInv, DiskInv, MarksInOrder, Established
  <2>2. campaign.status = "complete" => done = Phases
    BY DEF CampaignInv, DiskInv, MarksInOrder
  <2> QED
    BY <2>1, <2>2, ClosedIsComplete DEF ConfirmedIsComplete
<1> QED
  BY <1>1, InvariantHolds, PTL

\* A record is of the attempt the controller made itself.
THEOREM RecordsAreOfOneAttempt == Spec => []RecordIsOneAttempt
<1>1. CampaignInv => RecordIsOneAttempt
  BY CellFacts DEF CampaignInv, ControllerInv, AttemptUnderWay, RecordIsOneAttempt, InReplay
<1> QED
  BY <1>1, InvariantHolds, PTL

----------------------------------------------------------------------------
(* Action properties.                                                       *)

\* Another campaign has another number.
LEMMA NewCampaignNumber == ASSUME CampaignInv, StartCampaign PROVE campaign'.number # campaign.number
  BY SizeAssumption DEF CampaignInv, TypeOK, DiskTypeOK, StartCampaign

\* What a step may do to a run directory.
RunKept(c) ==
    /\ Complete(c) => Complete(c)' /\ identity'[c] = identity[c]
    /\ run[c] # "none" /\ run'[c] = "none" => kept'[c] = kept[c] + 1
    /\ kept'[c] >= kept[c]

LEMMA RunsUntouched ==
    ASSUME CampaignInv, UNCHANGED runs PROVE \A c \in Cells : RunKept(c)
<1>1. \A c \in Cells : kept[c] \in Nat
  BY CellFacts DEF CampaignInv, TypeOK, DiskTypeOK
<1> QED
  BY <1>1 DEF runs, RunKept, Complete

\* A step of the attempt under way.
LEMMA RunTouched ==
    ASSUME CampaignInv, NEW state \in RunStates, SetRun(state), ~Complete(at), kept' = kept,
           state = "none" => run[at] = "none",
           NEW d, identity' = [identity EXCEPT ![at] = d]
    PROVE  \A c \in Cells : RunKept(c)
<1> SUFFICES ASSUME NEW c \in Cells PROVE RunKept(c)
  OBVIOUS
<1>1. kept[c] \in Nat /\ c \in Targets
  BY CellFacts DEF CampaignInv, TypeOK, DiskTypeOK
<1>2. run \in [Targets -> RunStates] /\ identity \in [Targets -> Deployments \cup {None}]
  BY DEF CampaignInv, TypeOK, DiskTypeOK
<1>3. CASE c = at
  BY <1>1, <1>2, <1>3 DEF RunKept, SetRun, Complete
<1>4. CASE c # at
  <2>1. run'[c] = run[c] /\ identity'[c] = identity[c]
    BY <1>1, <1>2, <1>4 DEF SetRun
  <2> QED
    BY <1>1, <2>1 DEF RunKept, Complete
<1> QED
  BY <1>3, <1>4

LEMMA IdentityKept ==
    ASSUME CampaignInv, identity' = identity PROVE identity' = [identity EXCEPT ![at] = identity[at]]
  BY DEF CampaignInv, TypeOK, DiskTypeOK

LEMMA ArchivedRunKept == ASSUME CampaignInv, ArchiveAttempt PROVE \A c \in Cells : RunKept(c)
<1> SUFFICES ASSUME NEW c \in Cells PROVE RunKept(c)
  OBVIOUS
<1>1. kept[c] \in Nat /\ c \in Targets
  BY CellFacts DEF CampaignInv, TypeOK, DiskTypeOK
<1>2. /\ run \in [Targets -> RunStates] /\ identity \in [Targets -> Deployments \cup {None}]
      /\ kept \in [Targets -> Nat]
  BY DEF CampaignInv, TypeOK, DiskTypeOK
<1>3. CASE c = at
  BY <1>1, <1>2, <1>3 DEF RunKept, ArchiveAttempt, SetRun, Complete
<1>4. CASE c # at
  <2>1. run'[c] = run[c] /\ identity'[c] = identity[c] /\ kept'[c] = kept[c]
    BY <1>1, <1>2, <1>4 DEF ArchiveAttempt, SetRun
  <2> QED
    BY <1>1, <2>1 DEF RunKept, Complete
<1> QED
  BY <1>3, <1>4

\* Completed replays and failed attempts stay what they are.
THEOREM AttemptsAreKept == Spec => AttemptsAreRetained
<1> DEFINE Kept == campaign'.number = campaign.number => \A c \in Cells : RunKept(c)
<1>1. CampaignInv /\ [Next]_vars => Kept
  <2> SUFFICES ASSUME CampaignInv, [Next]_vars PROVE Kept
    OBVIOUS
  <2>1. CASE Execute
    <3>1. CASE StartCampaign
      BY <3>1, NewCampaignNumber
    <3>2. CASE UNCHANGED runs
      BY <3>2, RunsUntouched
    <3> QED
      BY <2>1, <3>1, <3>2
      DEF Execute, ResumeCampaign, RefuseCampaign, BeginPhase, DependencyMissing, MarkPhase,
          PublishCompletion, CalibrationRetained, CalibrationStarts, SweepEnds, Freeze,
          FreezeRetained, Analyse, disk
  <2>2. CASE Replay
    <3>1. CASE Prepare
      <4>1. ~Complete(at) /\ SetRun("used") /\ kept' = kept
        BY <3>1 DEF Prepare, Complete
      <4> QED
        BY <3>1, <4>1, RunTouched DEF Prepare, RunStates
    <3>2. ASSUME NEW s \in {"summary", "lossy"}, Play(s) PROVE Kept
      <4>1. ~Complete(at) /\ SetRun(s) /\ kept' = kept
        BY <3>2 DEF Play, Complete, CampaignInv, ControllerInv, AttemptUnderWay
      <4> QED
        BY <3>2, <4>1, RunTouched, IdentityKept DEF Play, RunStates
    <3>3. CASE Qualified
      <4>1. CASE run[at] = "lossy"
        BY <3>3, <4>1, RunsUntouched DEF Qualified
      <4>2. CASE run[at] # "lossy"
        <5>1. ~Complete(at) /\ SetRun("complete") /\ kept' = kept /\ identity' = identity
          BY <3>3, <4>2 DEF Qualified, Complete, CampaignInv, ControllerInv, AttemptUnderWay
        <5> QED
          BY <5>1, RunTouched, IdentityKept DEF RunStates
      <4> QED
        BY <4>1, <4>2
    <3>4. CASE UNCHANGED runs
      BY <3>4, RunsUntouched
    <3> QED
      BY <2>2, <3>1, <3>2, <3>3, <3>4
      DEF Replay, PrepareRefused, SummaryReused, CleanUp, DeploymentGone, Qualification, disk
  <2>3. CASE Confirm
    <3>1. CASE ArchiveAttempt
      BY <3>1, ArchivedRunKept
    <3>2. CASE MakeRunDirectory
      <4>1. ~Complete(at) /\ SetRun("made") /\ kept' = kept /\ identity' = identity
        BY <3>2 DEF MakeRunDirectory, Complete
      <4> QED
        BY <4>1, RunTouched, IdentityKept DEF RunStates
    <3>3. CASE WriteRecord
      <4>1. ~Complete(at) /\ SetRun("complete") /\ kept' = kept /\ identity' = identity
        BY <3>3 DEF WriteRecord, Complete, CampaignInv, ControllerInv, AttemptUnderWay
      <4> QED
        BY <4>1, RunTouched, IdentityKept DEF RunStates
    <3>4. CASE UNCHANGED runs
      BY <3>4, RunsUntouched
    <3> QED
      BY <2>3, <3>1, <3>2, <3>3, <3>4
      DEF Confirm, Confirmation, BlockDone, Confirmed, StartSentinel, Pause, CloseSession,
          EnterBlock, NextReplay, SentinelEnds, disk
  <2>4. CASE Operator \/ UNCHANGED vars
    <3>1. UNCHANGED runs
      BY <2>4 DEF Operator, Redeploy, Revise, Stop, Approve, Invoke, disk, vars
    <3> QED
      BY <3>1, RunsUntouched
  <2> QED
    BY <2>1, <2>2, <2>3, <2>4 DEF Next, Controller
<1>2. Kept => (campaign'.number = campaign.number =>
        \A c \in Cells :
            /\ Complete(c) => Complete(c)' /\ identity'[c] = identity[c]
            /\ run[c] # "none" /\ run'[c] = "none" => kept'[c] = kept[c] + 1
            /\ kept'[c] >= kept[c])
  BY DEF RunKept
<1> QED
  BY <1>1, <1>2, InvariantHolds, PTL DEF Spec, AttemptsAreRetained

\* What a step may do to the pilot.
PilotKept ==
    /\ frozen # None /\ campaign'.number = campaign.number =>
          frozen' = frozen /\ calibration' = calibration
    /\ calibration = "unbracketed" /\ calibration' # "unbracketed" =>
          \/ campaign'.deployment # campaign.deployment
          \/ campaign'.design # campaign.design

\* Only for another deployment or another study is a campaign replaced whose
\* sweep found no crossing.
LEMMA UnbracketedStands ==
    ASSUME CampaignInv, StartCampaign, calibration = "unbracketed"
    PROVE  campaign'.deployment # campaign.deployment \/ campaign'.design # campaign.design
<1>1. campaign'.deployment = env /\ campaign'.design = manifest
  BY DEF StartCampaign
<1>2. "calibration" \notin done
  BY DEF CampaignInv, DiskInv, MarksInOrder, Established
<1>3. campaign.status # "complete"
  BY <1>2 DEF CampaignInv, DiskInv, MarksInOrder, Phases
<1>4. campaign.status = "active" /\ endpoint = "active"
  BY <1>3 DEF CampaignInv, TypeOK, DiskTypeOK, DiskInv, MarksInOrder
<1>5. ~AcquisitionFailed
  BY DEF AcquisitionFailed
<1> QED
  BY <1>1, <1>4, <1>5 DEF StartCampaign, Usable, Reusable, Active

\* A frozen selection and a valid sweep without a crossing are not measured
\* again.
THEOREM SelectionsStand == Spec => SelectionStands
<1>1. CampaignInv /\ [Next]_vars => PilotKept
  <2> SUFFICES ASSUME CampaignInv, [Next]_vars PROVE PilotKept
    OBVIOUS
  <2>1. ASSUME UNCHANGED pilot PROVE PilotKept
    BY <2>1 DEF pilot, PilotKept
  <2>2. CASE Execute
    <3>1. CASE StartCampaign
      BY <3>1, NewCampaignNumber, UnbracketedStands DEF PilotKept
    <3>2. CASE CalibrationStarts
      <4>1. calibration = "none" /\ frozen = None
        BY <3>2 DEF CalibrationStarts, CampaignInv, DiskInv, MarksInOrder
      <4> QED
        BY <4>1 DEF PilotKept
    <3>3. ASSUME NEW r \in Outcomes, SweepEnds(r) PROVE PilotKept
      <4>1. calibration = "running" /\ frozen = None
        BY <3>3 DEF SweepEnds, CampaignInv, DiskInv, MarksInOrder, ControllerInv, Located
      <4> QED
        BY <4>1 DEF PilotKept
    <3>4. CASE Freeze
      BY <3>4 DEF Freeze, PilotKept
    <3> QED
      BY <2>1, <2>2, <3>1, <3>2, <3>3, <3>4
      DEF Execute, ResumeCampaign, RefuseCampaign, BeginPhase, DependencyMissing, MarkPhase,
          PublishCompletion, CalibrationRetained, FreezeRetained, Analyse, disk
  <2>3. CASE Replay
    BY <2>1, <2>3
    DEF Replay, Prepare, PrepareRefused, SummaryReused, Play, CleanUp, DeploymentGone,
        Qualification, Qualified, disk
  <2>4. CASE Confirm
    BY <2>1, <2>4
    DEF Confirm, Confirmation, BlockDone, Confirmed, ArchiveAttempt, MakeRunDirectory,
        WriteRecord, StartSentinel, Pause, CloseSession, EnterBlock, NextReplay, SentinelEnds,
        disk
  <2>5. CASE Operator \/ UNCHANGED vars
    BY <2>1, <2>5 DEF Operator, Redeploy, Revise, Stop, Approve, Invoke, disk, vars
  <2> QED
    BY <2>2, <2>3, <2>4, <2>5 DEF Next, Controller
<1> QED
  BY <1>1, InvariantHolds, PTL DEF Spec, SelectionStands, PilotKept

\* Attempts, completed replays and selections are kept.
THEOREM EvidenceKept == Spec => EvidenceIsKept
  BY AttemptsAreKept, SelectionsStand DEF EvidenceIsKept

\* While a sentinel is unresolved no replay is under way, and every phase that
\* could be marked is marked.
LEMMA UnresolvedFacts ==
    ASSUME CampaignInv, Unresolved
    PROVE  /\ pc \notin InReplay \cup InConfirmation /\ ~SentinelsPassed
           /\ pc = "mark" => phase \in done
           /\ Complete(NoLoad)
<1>1. PICK c \in Cells :
        \/ sentinel[c] = "failed"
        \/ sentinel[c] = "running" /\ pc # "sampling"
        \/ Complete(c) /\ c[2] \in Checkpoints /\ sentinel[c] = "none" /\ pc # "sentinel"
  BY DEF Unresolved
<1>2. ~SentinelsPassed /\ ~Clean(c)
  BY <1>1 DEF SentinelsPassed, Clean
<1>3. run[c] # "none" /\ Complete(c) /\ c[2] \in Checkpoints
  BY <1>1 DEF CampaignInv, DiskInv, SentinelsFollowRecords, Complete
<1>4. {"qualification", "calibration", "freeze"} \subseteq done
  BY <1>3, PhaseFacts DEF CampaignInv, DiskInv, MarksInOrder
<1>5. Complete(NoLoad)
  BY <1>4 DEF CampaignInv, DiskInv, MarksInOrder, Established
<1>6. closed # 1..Sessions
  <2> SUFFICES ASSUME closed = 1..Sessions PROVE FALSE
    OBVIOUS
  <2>1. Passed(c[1], c[2]) /\ c = <<c[1], c[2]>>
    BY <1>3, ClosedIsComplete, CellFacts
  <2> QED
    BY <1>1, <2>1 DEF Passed
<1>7. "confirmation" \notin done
  BY <1>6 DEF CampaignInv, DiskInv, MarksInOrder, Established
<1>8. pc = "mark" => phase \in done
  <2> SUFFICES ASSUME pc = "mark" PROVE phase \in done
    OBVIOUS
  <2>1. Requires[phase] \subseteq done /\ Established(phase) /\ phase \in Phases
    BY DEF CampaignInv, TypeOK, ControllerTypeOK, ControllerInv, Located
  <2>2. phase # "confirmation"
    BY <1>6, <2>1 DEF Established
  <2>3. phase # "analysis"
    BY <1>7, <2>1, PhaseFacts
  <2> QED
    BY <1>4, <2>1, <2>2, <2>3 DEF Phases
<1>9. pc \notin {"session", "block", "replay"}
  BY <1>2 DEF CampaignInv, ControllerInv, HistoryClean
<1>10. pc \notin {"sentinel", "sampling"}
  <2> SUFFICES ASSUME pc \in {"sentinel", "sampling"} PROVE FALSE
    OBVIOUS
  <2>1. c = at
    BY <1>2, SentinelFacts
  <2> QED
    BY <1>1, <2>1, SentinelFacts
<1>11. pc \notin InReplay
  <2>1. CASE at = NoLoad
    BY <1>5, <2>1, CellFacts DEF CampaignInv, ControllerInv, AttemptUnderWay, InReplay, Complete
  <2>2. CASE at # NoLoad
    BY <1>2, <2>2, CellFacts
    DEF CampaignInv, TypeOK, ControllerTypeOK, ControllerInv, HistoryClean
  <2> QED
    BY <2>1, <2>2
<1> QED
  BY <1>2, <1>5, <1>8, <1>9, <1>10, <1>11 DEF InConfirmation

\* What an unresolved sentinel leaves to do.
Quiet ==
    /\ run' = run /\ sentinel' = sentinel /\ done' = done
    /\ pc' \notin {"sentinel", "sampling"}

LEMMA UnresolvedStep ==
    ASSUME CampaignInv, Unresolved, [Next]_vars, campaign'.number = campaign.number
    PROVE  Quiet
<1>1. /\ pc \notin InReplay \cup InConfirmation /\ ~SentinelsPassed
      /\ pc = "mark" => phase \in done
      /\ Complete(NoLoad)
  BY UnresolvedFacts
<1>2. pc \notin {"prepare", "victim", "cleanup", "finish", "session", "block", "replay",
                "sentinel", "sampling"}
  BY <1>1 DEF InReplay, InConfirmation
<1> USE DEF disk, book, runs, drift
<1>3. CASE Execute
  <2>1. ~StartCampaign
    BY NewCampaignNumber
  <2>2. CASE MarkPhase
    <3>1. done' = done /\ run' = run /\ sentinel' = sentinel
      BY <1>1, <2>2 DEF MarkPhase
    <3>2. pc' \in {"publish", "begin", "idle"}
      BY <2>2 DEF MarkPhase, Halt
    <3> QED
      BY <3>1, <3>2 DEF Quiet
  <2>3. CASE BeginPhase
    <3>1. pc' \in Phases
      BY <2>3 DEF BeginPhase, CampaignInv, TypeOK, ControllerTypeOK
    <3> QED
      BY <2>3, <3>1 DEF BeginPhase, Quiet, Phases
  <2>4. ASSUME NEW r \in Outcomes, SweepEnds(r) PROVE Quiet
    BY <2>4 DEF SweepEnds, GoTo, Halt, Quiet
  <2>5. CASE ResumeCampaign \/ RefuseCampaign \/ DependencyMissing \/ PublishCompletion
    BY <2>5 DEF ResumeCampaign, RefuseCampaign, DependencyMissing, PublishCompletion, Halt, Quiet
  <2>6. CASE CalibrationRetained \/ CalibrationStarts
    BY <2>6 DEF CalibrationRetained, CalibrationStarts, GoTo, Halt, Quiet
  <2>7. CASE Freeze \/ FreezeRetained \/ Analyse
    BY <2>7 DEF Freeze, FreezeRetained, Analyse, GoTo, Halt, Quiet
  <2> QED
    BY <1>3, <2>1, <2>2, <2>3, <2>4, <2>5, <2>6, <2>7 DEF Execute
<1>4. CASE Replay
  <2>1. Qualification
    BY <1>2, <1>4
    DEF Replay, Prepare, PrepareRefused, SummaryReused, Play, CleanUp, DeploymentGone, Qualified
  <2> QED
    BY <1>1, <2>1 DEF Qualification, GoTo, Quiet
<1>5. CASE Confirm
  <2>1. Confirmation
    BY <1>2, <1>5
    DEF Confirm, BlockDone, Confirmed, ArchiveAttempt, MakeRunDirectory, StartSentinel, Pause,
        CloseSession, EnterBlock, NextReplay, SentinelEnds, WriteRecord
  <2> QED
    BY <1>1, <2>1 DEF Confirmation, Halt, Quiet
<1>6. CASE Operator
  BY <1>2, <1>6 DEF Operator, Redeploy, Revise, Stop, Approve, Invoke, Halt, controller, Quiet
<1>7. CASE UNCHANGED vars
  BY <1>2, <1>7 DEF vars, controller, Quiet
<1> QED
  BY <1>3, <1>4, <1>5, <1>6, <1>7 DEF Next, Controller

\* After a drift sentinel that did not pass nothing more is run, probed or
\* marked in its campaign.
THEOREM DriftIsFinal == Spec => DriftEndsCampaign
<1>1. CampaignInv /\ [Next]_vars =>
        (Unresolved /\ campaign'.number = campaign.number =>
            Unresolved' /\ run' = run /\ sentinel' = sentinel /\ done' = done)
  <2> SUFFICES ASSUME CampaignInv, [Next]_vars, Unresolved, campaign'.number = campaign.number
               PROVE  Unresolved' /\ run' = run /\ sentinel' = sentinel /\ done' = done
    OBVIOUS
  <2>1. Quiet
    BY UnresolvedStep
  <2>2. Unresolved'
    BY <2>1 DEF Quiet, Unresolved, Complete
  <2> QED
    BY <2>1, <2>2 DEF Quiet
<1> QED
  BY <1>1, InvariantHolds, PTL DEF Spec, DriftEndsCampaign

\* Replays happen as planned.
THEOREM AsPlanned == Spec => []ReplaysAsPlanned
  BY PlanIsFollowed, CheckpointsAreCovered, PTL DEF ReplaysAsPlanned

\* Records are of one attempt each, and complete.
THEOREM RecordsStand == Spec => []RecordsHold
  BY RecordsAreOfOneAttempt, ConfirmationsAreComplete, PTL DEF RecordsHold
=============================================================================
